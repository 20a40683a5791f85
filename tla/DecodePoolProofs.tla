--------------------------- MODULE DecodePoolProofs ---------------------------
(***************************************************************************)
(* Proofs about DecodePool, for every number of workers, size of the ROM   *)
(* image and set of camera images that PoolAssumption allows.              *)
(***************************************************************************)
EXTENDS DecodePool, SequenceTheorems, WellFoundedInduction, TLAPS

LEMMA MulType == \A a, b \in Nat : a * b \in Nat
  OBVIOUS

LEMMA WordSizeType == WordSize \in Nat
  BY ByteBaseAssumption, MulType DEF WordSize

-----------------------------------------------------------------------------
(* Arithmetic.                                                             *)

(* A nonempty set of naturals has a least element. *)
LEMMA NatHasMin == ASSUME NEW T \in SUBSET Nat, T # {}
                   PROVE  \E m \in T : \A n \in T : m <= n
<1> DEFINE R == OpToRel(<, Nat)
<1>1. \A m \in Nat, n \in Nat : <<n, m>> \in R <=> n < m
  BY DEF OpToRel
<1>2. IsWellFoundedOn(R, Nat)
  BY NatLessThanWellFounded
<1> HIDE DEF R
<1>3. PICK m \in T : \A n \in T : ~ (<<n, m>> \in R)
  BY <1>2, WFMin
<1>4. ASSUME NEW n \in T
      PROVE  m <= n
  <2>1. ~ (<<n, m>> \in R)
    BY <1>3
  <2>2. m \in Nat /\ n \in Nat
    OBVIOUS
  <2>3. ~ (n < m)
    BY <1>1, <2>1, <2>2
  <2>4. QED
    BY <2>2, <2>3
<1>5. QED
  BY <1>4

LEMMA SumBounds ==
  \A a, b, c, d \in Nat : a + b <= c
     => (b >= 1 => c - 1 \in Nat) /\ (d <= b => a + d <= c)
  OBVIOUS

LEMMA ModSmall == \A x, m \in Nat : x < m => x % m = x
  OBVIOUS

LEMMA ModType == \A x, m \in Nat : 0 < m => x % m \in Nat
  OBVIOUS

-----------------------------------------------------------------------------
(* What the handlers compute.                                              *)

(* One more byte makes a number of one more digit. *)
LEMMA NextDigit ==
  ASSUME NEW B \in Nat, NEW n \in Nat, NEW x \in Nat, NEW d \in Nat, x < n, d < B
  PROVE  x * B + d \in Nat /\ x * B + d < n * B
<1>1. x * B \in Nat /\ n * B \in Nat /\ (x + 1) * B \in Nat
  BY MulType
<1>2. n - (x + 1) \in Nat
  OBVIOUS
<1>3. (n - (x + 1)) * B \in Nat
  BY <1>2, MulType
<1>4. (n - (x + 1)) * B = n * B - (x + 1) * B
  BY <1>2
<1>5. (x + 1) * B = x * B + B
  OBVIOUS
<1>6. QED
  BY <1>1, <1>3, <1>4, <1>5

(* The header decodes to a uint32_t, the rest of the code to bytes. *)
LEMMA CodecTypes ==
  ASSUME NEW data \in Seq(Byte), Len(data) >= n_header_bytes_per_frame
  PROVE  OffsetOf(data) \in 0 .. WordSize - 1 /\ BytesOf(data) \in Seq(Byte)
<1>1. /\ ByteBase \in Nat /\ data[2] \in Nat /\ data[3] \in Nat /\ data[4] \in Nat /\ data[5] \in Nat
      /\ data[2] < ByteBase /\ data[3] < ByteBase /\ data[4] < ByteBase /\ data[5] < ByteBase
  <2>1. ByteBase \in Nat /\ \A b \in Byte : b \in Nat /\ b < ByteBase
    BY ByteBaseAssumption DEF Byte
  <2>2. Len(data) \in Nat /\ 5 \leq Len(data)
    BY DEF n_header_bytes_per_frame
  <2>3. \A i \in 1 .. Len(data) : data[i] \in Byte
    OBVIOUS
  <2>4. 2 \in 1 .. Len(data) /\ 3 \in 1 .. Len(data) /\ 4 \in 1 .. Len(data) /\ 5 \in 1 .. Len(data)
    BY <2>2
  <2>5. data[2] \in Byte /\ data[3] \in Byte /\ data[4] \in Byte /\ data[5] \in Byte
    BY <2>3, <2>4
  <2>6. QED
    BY <2>1, <2>5
<1> DEFINE a == data[2] * ByteBase + data[3]
           b == a * ByteBase + data[4]
<1>2. a \in Nat /\ a < ByteBase * ByteBase
  BY <1>1, NextDigit
<1> HIDE DEF a
<1>3. b \in Nat /\ b < ByteBase * ByteBase * ByteBase
  <2>1. ByteBase * ByteBase \in Nat
    BY <1>1, MulType
  <2>2. QED
    BY <1>1, <1>2, <2>1, NextDigit
<1> HIDE DEF b
<1>4. b * ByteBase + data[5] \in Nat /\ b * ByteBase + data[5] < WordSize
  <2>1. ByteBase * ByteBase * ByteBase \in Nat
    BY <1>1, MulType
  <2>2. QED
    BY <1>1, <1>3, <2>1, NextDigit DEF WordSize
<1>5. OffsetOf(data) \in 0 .. WordSize - 1
  <2>1. OffsetOf(data) = b * ByteBase + data[5]
    BY DEF OffsetOf, a, b
  <2>2. QED
    BY <1>4, <2>1, WordSizeType
<1>6. BytesOf(data) \in Seq(Byte)
  BY DEF BytesOf, n_header_bytes_per_frame
<1>7. QED
  BY <1>5, <1>6

(* The fragment of an image the decoder answers with is well formed.       *)
LEMMA FragmentType ==
  ASSUME NEW image \in Images, Decodable(image), HasHeader(image)
  PROVE  FragmentOf(image) \in Fragment
<1>1. image[1] \in Seq(Byte)
  BY PoolAssumption DEF Decodable
<1>2. OffsetOf(image[1]) \in 0 .. WordSize - 1 /\ BytesOf(image[1]) \in Seq(Byte)
  BY <1>1, CodecTypes DEF HasHeader
<1>3. QED
  BY <1>2 DEF FragmentOf, Fragment

LEMMA AnswerType ==
  ASSUME NEW image \in Images, Decodable(image) => HasHeader(image)
  PROVE  /\ Answer(image) \in Response
         /\ Answer(image).result_code = HL_SUCCESS
              => /\ Decodable(image) /\ HasHeader(image)
                 /\ Answer(image).rom_fragment = FragmentOf(image)
<1>1. CASE Decodable(image)
  BY <1>1, FragmentType DEF Answer, Response
<1>2. CASE ~Decodable(image)
  BY <1>2 DEF Answer, Response, HL_SUCCESS, HL_FAIL
<1>3. QED
  BY <1>1, <1>2

LEMMA FragmentParts ==
  ASSUME NEW frag \in Fragment
  PROVE  /\ frag.offset \in Nat /\ frag.offset < WordSize
         /\ frag.bytes \in Seq(Byte) /\ Len(frag.bytes) \in Nat
         /\ End(frag) \in Nat
<1>1. frag.offset \in 0 .. WordSize - 1 /\ frag.bytes \in Seq(Byte)
  BY DEF Fragment
<1>2. QED
  BY <1>1, WordSizeType DEF End

(* A fragment stays inside the ROM image only if its end fits a word: the  *)
(* byte at the largest uint32_t has no place there.                        *)
LEMMA InsideFits ==
  ASSUME NEW frag \in Fragment, ~Outside(frag)
  PROVE  End(frag) < WordSize
<1>0. /\ frag.offset \in Nat /\ frag.offset < WordSize /\ Len(frag.bytes) \in Nat
      /\ End(frag) \in Nat /\ WordSize \in Nat
  BY FragmentParts, WordSizeType
<1> SUFFICES ASSUME WordSize <= End(frag)
             PROVE  FALSE
  BY <1>0
<1> DEFINE i == WordSize - frag.offset
<1>1. i \in 1 .. Len(frag.bytes) /\ frag.offset + i - 1 = WordSize - 1
  <2>1. WordSize <= frag.offset + Len(frag.bytes)
    BY DEF End
  <2>2. QED
    BY <1>0, <2>1
<1>2. WordSize - 1 \in Nat /\ (WordSize - 1) % WordSize = WordSize - 1
  <2>1. WordSize - 1 \in Nat
    BY PoolAssumption, WordSizeType
  <2>2. QED
    BY <2>1, ModSmall, WordSizeType
<1>3. WordSize - 1 \notin Addr
  BY PoolAssumption, WordSizeType DEF Addr
<1> HIDE DEF i
<1>4. (frag.offset + i - 1) % WordSize \notin Addr
  BY <1>1, <1>2, <1>3
<1>5. QED
  BY <1>1, <1>4 DEF Outside

(* Of a fragment whose end fits a word and passes the assertions no byte   *)
(* goes outside.                                                           *)
LEMMA FitsInside ==
  ASSUME NEW frag \in Fragment, StoreAsserts(frag), End(frag) < WordSize
  PROVE  /\ ~Outside(frag)
         /\ \A i \in 1 .. Len(frag.bytes) : frag.offset + i - 1 \in Addr
<1>0. /\ frag.offset \in Nat /\ Len(frag.bytes) \in Nat
      /\ End(frag) \in Nat /\ WordSize \in Nat
  BY FragmentParts, WordSizeType
<1>1. End(frag) % WordSize = End(frag)
  BY <1>0, ModSmall
<1>2. End(frag) <= MaxRomSize
  BY <1>1 DEF StoreAsserts
<1>3. ASSUME NEW i \in 1 .. Len(frag.bytes)
      PROVE  frag.offset + i - 1 \in Addr /\ (frag.offset + i - 1) % WordSize \in Addr
  <2>1. frag.offset + i - 1 \in Nat /\ frag.offset + i - 1 < End(frag)
    BY <1>0 DEF End
  <2>2. frag.offset + i - 1 \in Addr
    BY <1>0, <1>2, <2>1, PoolAssumption DEF Addr
  <2>3. frag.offset + i - 1 < WordSize
    BY <1>0, <2>1
  <2>4. (frag.offset + i - 1) % WordSize = frag.offset + i - 1
    BY <1>0, <2>1, <2>3, ModSmall
  <2>5. QED
    BY <2>2, <2>4
<1>4. QED
  BY <1>3 DEF Outside

(* A fragment that passes the assertions, and whose end fits a word, lies  *)
(* in the ROM image.                                                       *)
LEMMA StoreBounds ==
  ASSUME NEW frag \in Fragment, End(frag) < WordSize, StoreAsserts(frag)
  PROVE  /\ End(frag) \in Nat
         /\ End(frag) % WordSize = End(frag)
         /\ End(frag) <= MaxRomSize
         /\ frag.offset \in Nat
         /\ frag.offset < End(frag)
<1>1. frag.offset \in Nat /\ Len(frag.bytes) \in Nat /\ End(frag) \in Nat
  BY FragmentParts
<1>2. End(frag) % WordSize = End(frag)
  BY <1>1, ModSmall, WordSizeType
<1>3. QED
  BY <1>1, <1>2 DEF StoreAsserts, End

(* Storing it yields a ROM image again.                                    *)
LEMMA OverlayType ==
  ASSUME NEW rom \in [Addr -> Byte \cup {ROM_BYTE_UNKNOWN}], NEW frag \in Fragment
  PROVE  Overlay(rom, frag) \in [Addr -> Byte \cup {ROM_BYTE_UNKNOWN}]
<1>1. ASSUME NEW a \in Addr, Place(frag, a) <= Len(frag.bytes)
      PROVE  frag.bytes[Place(frag, a)] \in Byte
  <2>1. a \in Nat
    BY PoolAssumption DEF Addr
  <2>2. /\ frag.offset \in Nat /\ frag.offset < WordSize /\ WordSize \in Nat
        /\ frag.bytes \in Seq(Byte) /\ Len(frag.bytes) \in Nat
    BY FragmentParts, WordSizeType
  <2>3. Place(frag, a) \in Nat /\ 1 <= Place(frag, a)
    <3>1. CASE frag.offset <= a
      BY <2>1, <2>2, <3>1 DEF Place
    <3>2. CASE a < frag.offset
      BY <2>1, <2>2, <3>2 DEF Place
    <3>3. QED
      BY <2>1, <2>2, <3>1, <3>2
  <2>4. Place(frag, a) \in 1 .. Len(frag.bytes)
    BY <1>1, <2>2, <2>3
  <2>5. QED
    BY <2>2, <2>4
<1>2. QED
  BY <1>1 DEF Overlay

(* If its end fits a word, its bytes go to where the header says.          *)
LEMMA OverlayFits ==
  ASSUME NEW rom \in [Addr -> Byte \cup {ROM_BYTE_UNKNOWN}], NEW frag \in Fragment,
         End(frag) < WordSize
  PROVE  Overlay(rom, frag) = [a \in Addr |-> IF Spans(frag, a) THEN frag.bytes[a - frag.offset + 1]
                                                                ELSE rom[a]]
<1>1. ASSUME NEW a \in Addr
      PROVE  /\ Place(frag, a) <= Len(frag.bytes) <=> Spans(frag, a)
             /\ Spans(frag, a) => Place(frag, a) = a - frag.offset + 1
  <2>1. a \in Nat
    BY PoolAssumption DEF Addr
  <2>2. /\ frag.offset \in Nat /\ frag.offset < WordSize /\ WordSize \in Nat
        /\ Len(frag.bytes) \in Nat
    BY FragmentParts, WordSizeType
  <2>3. frag.offset + Len(frag.bytes) < WordSize
    BY DEF End
  <2>4. CASE frag.offset <= a
    BY <2>1, <2>2, <2>4 DEF Place, Spans, End
  <2>5. CASE a < frag.offset
    BY <2>1, <2>2, <2>3, <2>5 DEF Place, Spans, End
  <2>6. QED
    BY <2>1, <2>2, <2>4, <2>5
<1>2. DOMAIN rom = Addr
  OBVIOUS
<1>3. QED
  BY <1>1, <1>2 DEF Overlay

(* The loop of heavylifting_process_frame finds a worker.                  *)
LEMMA LeastBusyExists ==
  ASSUME awaited \in [Workers -> Nat]
  PROVE  \E w \in Workers : \A v \in Workers :
           \/ awaited[w] < awaited[v]
           \/ awaited[w] = awaited[v] /\ w <= v
<1> DEFINE A == {awaited[w] : w \in Workers}
<1>1. 0 \in Workers
  BY PoolAssumption DEF Workers
<1>2. PICK m \in A : \A n \in A : m <= n
  <2>1. A \in SUBSET Nat /\ A # {}
    BY <1>1
  <2>2. QED
    BY <2>1, NatHasMin
<1> DEFINE B == {w \in Workers : awaited[w] = m}
<1>3. PICK w \in B : \A v \in B : w <= v
  <2>1. B \in SUBSET Nat /\ B # {}
    BY <1>2, PoolAssumption DEF Workers
  <2>2. QED
    BY <2>1, NatHasMin
<1>4. ASSUME NEW v \in Workers
      PROVE  \/ awaited[w] < awaited[v]
             \/ awaited[w] = awaited[v] /\ w <= v
  <2>1. m <= awaited[v] /\ awaited[w] = m
    BY <1>2, <1>3
  <2>2. CASE awaited[v] = m
    BY <1>3, <2>1, <2>2
  <2>3. CASE awaited[v] # m
    BY <2>1, <2>3
  <2>4. QED
    BY <2>2, <2>3
<1>5. w \in Workers
  BY <1>3
<1>6. QED
  BY <1>4, <1>5

LEMMA LeastBusyIsWorker ==
  ASSUME awaited \in [Workers -> Nat]
  PROVE  LeastBusy \in Workers
  BY LeastBusyExists DEF LeastBusy

-----------------------------------------------------------------------------
(* Type correctness, and the mailboxes it rests on.                        *)

(* The answer a callback is about to handle is that to a submitted image.  *)
LEMMA HeadAnswer ==
  ASSUME PoolInv, NEW w \in Workers, responses[w] # <<>>
  PROVE  /\ Head(responses[w]) \in Response
         /\ \E image \in submitted : AnswerTo(Head(responses[w]), image)
<1>1. responses[w] \in Seq(Response)
  BY DEF PoolInv, TypeOK
<1>2. Head(responses[w]) = responses[w][1] /\ 1 \in 1 .. Len(responses[w])
  BY <1>1
<1>3. QED
  BY <1>1, <1>2 DEF PoolInv, ResponsesAnswer

(* If it carries a fragment, the fragment is that of the image.            *)
LEMMA HeadFragment ==
  ASSUME PoolInv, NEW w \in Workers, responses[w] # <<>>,
         Head(responses[w]).result_code = HL_SUCCESS
  PROVE  \E image \in submitted :
           /\ image \in Images
           /\ Decodable(image) /\ HasHeader(image)
           /\ Head(responses[w]).rom_fragment = FragmentOf(image)
           /\ FragmentOf(image) \in Fragment
<1>1. PICK image \in submitted : AnswerTo(Head(responses[w]), image)
  BY HeadAnswer
<1>2. image \in Images
  BY DEF PoolInv, TypeOK
<1>3. /\ Decodable(image) /\ HasHeader(image)
      /\ Head(responses[w]).rom_fragment = FragmentOf(image)
  BY <1>1, <1>2, AnswerType DEF AnswerTo
<1>4. QED
  BY <1>2, <1>3, FragmentType

LEMMA PoolInvInit == Init => PoolInv
<1> SUFFICES ASSUME Init
             PROVE  PoolInv
  OBVIOUS
<1>1. TypeOK
  <2>1. aborted \in BOOLEAN /\ broken \in BOOLEAN /\ alive \in [Workers -> BOOLEAN]
    BY Zenon DEF Init
  <2>2. <<>> \in Seq(Images) /\ <<>> \in Seq(Response)
    OBVIOUS
  <2>3. queue \in [Workers -> Seq(Images)] /\ responses \in [Workers -> Seq(Response)]
    BY <2>2 DEF Init
  <2>4. QED
    BY <2>1, <2>3, PoolAssumption DEF Init, TypeOK
<1>2. QueueSubmitted /\ ResponsesAnswer /\ AwaitedCounts
  BY DEF Init, QueueSubmitted, ResponsesAnswer, AwaitedCounts, Backlog
<1>3. QED
  BY <1>1, <1>2 DEF PoolInv

LEMMA ProcessFramePoolInv ==
  ASSUME PoolInv, NEW image \in Images, ProcessFrame(image)
  PROVE  PoolInv'
<1> DEFINE w == LeastBusy
<1>1. w \in Workers
  BY LeastBusyIsWorker DEF PoolInv, TypeOK
<1> HIDE DEF w
<1>2. /\ queue' = [queue EXCEPT ![w] = Append(@, image)]
      /\ awaited' = [awaited EXCEPT ![w] = @ + 1]
      /\ submitted' = submitted \cup {image}
      /\ UNCHANGED <<storeVars, aborted, responses, alive>>
  BY DEF ProcessFrame, w
<1>3. TypeOK'
  BY <1>1, <1>2 DEF PoolInv, TypeOK, storeVars
<1>4. QueueSubmitted'
  <2> SUFFICES ASSUME NEW v \in Workers, NEW i \in 1 .. Len(queue'[v])
               PROVE  queue'[v][i] \in submitted'
    BY DEF QueueSubmitted
  <2>1. CASE v = w /\ i = Len(queue[w]) + 1
    BY <1>1, <1>2, <2>1 DEF PoolInv, TypeOK
  <2>2. CASE ~(v = w /\ i = Len(queue[w]) + 1)
    <3>1. queue[v] \in Seq(Images)
      BY DEF PoolInv, TypeOK
    <3>2. i \in 1 .. Len(queue[v]) /\ queue'[v][i] = queue[v][i]
      BY <1>1, <1>2, <2>2, <3>1 DEF PoolInv, TypeOK
    <3>3. QED
      BY <1>2, <3>2 DEF PoolInv, QueueSubmitted
  <2>3. QED
    BY <2>1, <2>2
<1>5. ResponsesAnswer'
  BY <1>2 DEF PoolInv, ResponsesAnswer, AnswerTo
<1>6. AwaitedCounts'
  <2> SUFFICES ASSUME NEW v \in Workers
               PROVE  Backlog(v)' <= awaited'[v]
    BY DEF AwaitedCounts
  <2>1. /\ queue[v] \in Seq(Images) /\ responses[v] \in Seq(Response)
        /\ awaited[v] \in Nat /\ Len(queue[v]) + Len(responses[v]) <= awaited[v]
    BY DEF PoolInv, TypeOK, AwaitedCounts, Backlog
  <2>2. CASE v = w
    BY <1>1, <1>2, <2>1, <2>2 DEF Backlog, PoolInv, TypeOK
  <2>3. CASE v # w
    BY <1>1, <1>2, <2>1, <2>3 DEF Backlog, PoolInv, TypeOK
  <2>4. QED
    BY <2>2, <2>3
<1>7. QED
  BY <1>3, <1>4, <1>5, <1>6 DEF PoolInv

LEMMA DecodeImagePoolInv ==
  ASSUME PoolInv, NEW w \in Workers, DecodeImage(w)
  PROVE  PoolInv'
<1> DEFINE image == Head(queue[w])
<1>1. /\ queue[w] \in Seq(Images) /\ queue[w] # <<>>
      /\ responses[w] \in Seq(Response)
      /\ awaited[w] \in Nat
  BY DEF PoolInv, TypeOK, DecodeImage
<1>2. image \in Images /\ image \in submitted
  <2>1. image = queue[w][1] /\ 1 \in 1 .. Len(queue[w]) /\ image \in Images
    BY <1>1
  <2>2. QED
    BY <2>1 DEF PoolInv, QueueSubmitted
<1>3. Decodable(image) => HasHeader(image)
  BY DEF DecodeImage
<1>4. Answer(image) \in Response
  BY <1>2, <1>3, AnswerType
<1>5. /\ queue' = [queue EXCEPT ![w] = Tail(@)]
      /\ responses' = [responses EXCEPT ![w] = Append(@, Answer(image))]
      /\ UNCHANGED <<storeVars, aborted, awaited, alive, submitted>>
  BY DEF DecodeImage
<1> HIDE DEF image
<1>6. TypeOK'
  BY <1>1, <1>4, <1>5 DEF PoolInv, TypeOK, storeVars
<1>7. QueueSubmitted'
  <2> SUFFICES ASSUME NEW v \in Workers, NEW i \in 1 .. Len(queue'[v])
               PROVE  queue'[v][i] \in submitted'
    BY DEF QueueSubmitted
  <2>1. CASE v = w
    <3>1. i + 1 \in 1 .. Len(queue[w]) /\ queue'[v][i] = queue[w][i + 1]
      BY <1>1, <1>5, <2>1 DEF PoolInv, TypeOK
    <3>2. QED
      BY <1>5, <3>1 DEF PoolInv, QueueSubmitted
  <2>2. CASE v # w
    BY <1>5, <2>2 DEF PoolInv, TypeOK, QueueSubmitted
  <2>3. QED
    BY <2>1, <2>2
<1>8. ResponsesAnswer'
  <2> SUFFICES ASSUME NEW v \in Workers, NEW i \in 1 .. Len(responses'[v])
               PROVE  \E im \in submitted' : AnswerTo(responses'[v][i], im)
    BY DEF ResponsesAnswer, AnswerTo
  <2>1. CASE v = w /\ i = Len(responses[w]) + 1
    <3>1. responses'[v][i] = Answer(image)
      BY <1>1, <1>4, <1>5, <2>1 DEF PoolInv, TypeOK
    <3>2. QED
      BY <1>2, <1>3, <1>5, <3>1 DEF AnswerTo
  <2>2. CASE ~(v = w /\ i = Len(responses[w]) + 1)
    <3>1. responses[v] \in Seq(Response)
      BY DEF PoolInv, TypeOK
    <3>2. i \in 1 .. Len(responses[v]) /\ responses'[v][i] = responses[v][i]
      BY <1>4, <1>5, <2>2, <3>1 DEF PoolInv, TypeOK
    <3>3. QED
      BY <1>5, <3>2 DEF PoolInv, ResponsesAnswer
  <2>3. QED
    BY <2>1, <2>2
<1>9. AwaitedCounts'
  <2> SUFFICES ASSUME NEW v \in Workers
               PROVE  Backlog(v)' <= awaited'[v]
    BY DEF AwaitedCounts
  <2>1. /\ queue[v] \in Seq(Images) /\ responses[v] \in Seq(Response)
        /\ awaited[v] \in Nat /\ Len(queue[v]) + Len(responses[v]) <= awaited[v]
    BY DEF PoolInv, TypeOK, AwaitedCounts, Backlog
  <2>2. CASE v = w
    BY <1>1, <1>4, <1>5, <2>1, <2>2 DEF Backlog, PoolInv, TypeOK
  <2>3. CASE v # w
    BY <1>5, <2>1, <2>3 DEF Backlog, PoolInv, TypeOK
  <2>4. QED
    BY <2>2, <2>3
<1>10. QED
  BY <1>6, <1>7, <1>8, <1>9 DEF PoolInv

LEMMA DecodeImageAssertsPoolInv ==
  ASSUME PoolInv, NEW w \in Workers, DecodeImageAsserts(w)
  PROVE  PoolInv'
<1>1. queue[w] \in Seq(Images) /\ queue[w] # <<>>
  BY DEF PoolInv, TypeOK, DecodeImageAsserts
<1>2. /\ queue' = [queue EXCEPT ![w] = Tail(@)]
      /\ UNCHANGED <<storeVars, aborted, responses, awaited, submitted>>
  BY DEF DecodeImageAsserts
<1>3. alive' \in [Workers -> BOOLEAN]
  <2>1. alive' = alive \/ alive' = [alive EXCEPT ![w] = FALSE]
    BY DEF DecodeImageAsserts
  <2>2. QED
    BY <2>1, Zenon DEF PoolInv, TypeOK
<1>4. TypeOK'
  <2>1. queue' \in [Workers -> Seq(Images)]
    BY <1>1, <1>2 DEF PoolInv, TypeOK
  <2>2. aborted' \in BOOLEAN
    BY <1>2, Zenon DEF PoolInv, TypeOK
  <2>3. /\ rom_data' \in [Addr -> Byte \cup {ROM_BYTE_UNKNOWN}]
        /\ rom_data_not_unknown_min' \in 0 .. MaxRomSize
        /\ rom_data_not_unknown_max' \in 0 .. MaxRomSize
        /\ broken' \in BOOLEAN
    BY <1>2, Zenon DEF PoolInv, TypeOK, storeVars
  <2>4. /\ responses' \in [Workers -> Seq(Response)]
        /\ awaited' \in [Workers -> Nat]
        /\ submitted' \in SUBSET Images
    BY <1>2, Zenon DEF PoolInv, TypeOK
  <2>5. QED
    BY <1>3, <2>1, <2>2, <2>3, <2>4, Zenon DEF TypeOK
<1>5. QueueSubmitted'
  <2> SUFFICES ASSUME NEW v \in Workers, NEW i \in 1 .. Len(queue'[v])
               PROVE  queue'[v][i] \in submitted'
    BY DEF QueueSubmitted
  <2>1. CASE v = w
    <3>1. i + 1 \in 1 .. Len(queue[w]) /\ queue'[v][i] = queue[w][i + 1]
      BY <1>1, <1>2, <2>1 DEF PoolInv, TypeOK
    <3>2. QED
      BY <1>2, <3>1 DEF PoolInv, QueueSubmitted
  <2>2. CASE v # w
    BY <1>2, <2>2 DEF PoolInv, TypeOK, QueueSubmitted
  <2>3. QED
    BY <2>1, <2>2
<1>6. ResponsesAnswer'
  BY <1>2 DEF PoolInv, ResponsesAnswer, AnswerTo
<1>7. AwaitedCounts'
  <2> SUFFICES ASSUME NEW v \in Workers
               PROVE  Backlog(v)' <= awaited'[v]
    BY DEF AwaitedCounts
  <2>1. /\ queue[v] \in Seq(Images) /\ responses[v] \in Seq(Response)
        /\ awaited[v] \in Nat /\ Len(queue[v]) + Len(responses[v]) <= awaited[v]
    BY DEF PoolInv, TypeOK, AwaitedCounts, Backlog
  <2>2. CASE v = w
    BY <1>1, <1>2, <2>1, <2>2 DEF Backlog, PoolInv, TypeOK
  <2>3. CASE v # w
    BY <1>2, <2>1, <2>3 DEF Backlog, PoolInv, TypeOK
  <2>4. QED
    BY <2>2, <2>3
<1>8. QED
  BY <1>4, <1>5, <1>6, <1>7 DEF PoolInv

(* Taking an answer off a mailbox leaves the rest of it as it was.         *)
LEMMA TailAnswers ==
  ASSUME PoolInv, NEW w \in Workers, responses[w] # <<>>,
         responses' = [responses EXCEPT ![w] = Tail(@)],
         submitted' = submitted
  PROVE  responses' \in [Workers -> Seq(Response)] /\ ResponsesAnswer'
<1>1. responses[w] \in Seq(Response)
  BY DEF PoolInv, TypeOK
<1>2. responses' \in [Workers -> Seq(Response)]
  BY <1>1 DEF PoolInv, TypeOK
<1>3. ResponsesAnswer'
  <2> SUFFICES ASSUME NEW v \in Workers, NEW i \in 1 .. Len(responses'[v])
               PROVE  \E im \in submitted' : AnswerTo(responses'[v][i], im)
    BY DEF ResponsesAnswer, AnswerTo
  <2>1. CASE v = w
    <3>1. i + 1 \in 1 .. Len(responses[w]) /\ responses'[v][i] = responses[w][i + 1]
      BY <1>1, <2>1 DEF PoolInv, TypeOK
    <3>2. QED
      BY <3>1 DEF PoolInv, ResponsesAnswer
  <2>2. CASE v # w
    BY <2>2 DEF PoolInv, TypeOK, ResponsesAnswer
  <2>3. QED
    BY <2>1, <2>2
<1>4. QED
  BY <1>2, <1>3

LEMMA TakeResponsePoolInv ==
  ASSUME PoolInv, NEW w \in Workers, TakeResponse(w)
  PROVE  /\ queue' \in [Workers -> Seq(Images)]
         /\ responses' \in [Workers -> Seq(Response)]
         /\ awaited' \in [Workers -> Nat]
         /\ alive' \in [Workers -> BOOLEAN]
         /\ submitted' \in SUBSET Images
         /\ QueueSubmitted' /\ ResponsesAnswer' /\ AwaitedCounts'
<1>1. /\ responses[w] \in Seq(Response) /\ responses[w] # <<>>
      /\ queue[w] \in Seq(Images)
      /\ awaited[w] \in Nat
      /\ Len(queue[w]) + Len(responses[w]) <= awaited[w]
  BY DEF PoolInv, TypeOK, TakeResponse, AwaitedCounts, Backlog
<1>2. /\ responses' = [responses EXCEPT ![w] = Tail(@)]
      /\ awaited' = [awaited EXCEPT ![w] = @ - 1]
      /\ UNCHANGED <<queue, alive, submitted>>
  BY DEF TakeResponse
<1>3. awaited[w] - 1 \in Nat
  <2>1. Len(responses[w]) \in Nat /\ Len(responses[w]) >= 1 /\ Len(queue[w]) \in Nat
    BY <1>1, EmptySeq, LenProperties
  <2>2. awaited[w] \in Nat /\ Len(queue[w]) + Len(responses[w]) <= awaited[w]
    BY <1>1
  <2>3. QED
    BY <2>1, <2>2, SumBounds
<1>4. awaited' \in [Workers -> Nat]
  BY <1>2, <1>3 DEF PoolInv, TypeOK
<1>5. responses' \in [Workers -> Seq(Response)] /\ ResponsesAnswer'
  BY <1>1, <1>2, TailAnswers
<1>6. QueueSubmitted'
  BY <1>2 DEF PoolInv, QueueSubmitted
<1>7. AwaitedCounts'
  <2> SUFFICES ASSUME NEW v \in Workers
               PROVE  Backlog(v)' <= awaited'[v]
    BY DEF AwaitedCounts
  <2>1. /\ queue[v] \in Seq(Images) /\ responses[v] \in Seq(Response)
        /\ awaited[v] \in Nat /\ Len(queue[v]) + Len(responses[v]) <= awaited[v]
    BY DEF PoolInv, TypeOK, AwaitedCounts, Backlog
  <2>2. CASE v = w
    BY <1>1, <1>2, <2>1, <2>2 DEF Backlog, PoolInv, TypeOK
  <2>3. CASE v # w
    BY <1>2, <2>1, <2>3 DEF Backlog, PoolInv, TypeOK
  <2>4. QED
    BY <2>2, <2>3
<1>8. QED
  BY <1>2, <1>4, <1>5, <1>6, <1>7 DEF PoolInv, TypeOK

(* The fragment a callback is about to store is that of an accepted frame, *)
(* and it stays inside the ROM image if nothing gets broken by it.         *)
LEMMA AcceptedFragment ==
  ASSUME PoolInv, NEW w \in Workers, CallbackStores(w)
  PROVE  LET frag == Head(responses[w]).rom_fragment
         IN  /\ frag \in Fragment
             /\ StoreAsserts(frag)
             /\ rom_data' = Overlay(rom_data, frag)
             /\ rom_data_not_unknown_min' = LowerMin(rom_data_not_unknown_min, frag)
             /\ rom_data_not_unknown_max' = RaiseMax(rom_data_not_unknown_max, frag)
             /\ broken' = (broken \/ Outside(frag))
             /\ \E image \in submitted : Accepted(image) /\ frag = FragmentOf(image)
<1> DEFINE frag == Head(responses[w]).rom_fragment
<1>1. /\ StoreAsserts(frag)
      /\ rom_data' = Overlay(rom_data, frag)
      /\ rom_data_not_unknown_min' = LowerMin(rom_data_not_unknown_min, frag)
      /\ rom_data_not_unknown_max' = RaiseMax(rom_data_not_unknown_max, frag)
      /\ broken' = (broken \/ Outside(frag))
  BY DEF CallbackStores, store_rom_fragment
<1>2. PICK image \in submitted :
        /\ Decodable(image) /\ HasHeader(image)
        /\ frag = FragmentOf(image)
        /\ FragmentOf(image) \in Fragment
  BY HeadFragment DEF CallbackStores, TakeResponse
<1> HIDE DEF frag
<1>3. Accepted(image)
  BY <1>1, <1>2 DEF Accepted
<1>4. QED
  BY <1>1, <1>2, <1>3 DEF frag

LEMMA StoredFragment ==
  ASSUME PoolInv, NEW w \in Workers, CallbackStores(w), ~broken'
  PROVE  LET frag == Head(responses[w]).rom_fragment
         IN  /\ frag \in Fragment
             /\ End(frag) \in Nat
             /\ End(frag) < WordSize
             /\ End(frag) % WordSize = End(frag)
             /\ End(frag) <= MaxRomSize
             /\ frag.offset \in Nat
             /\ frag.offset < End(frag)
             /\ rom_data' = Overlay(rom_data, frag)
             /\ rom_data_not_unknown_min' = LowerMin(rom_data_not_unknown_min, frag)
             /\ rom_data_not_unknown_max' = RaiseMax(rom_data_not_unknown_max, frag)
             /\ \E image \in submitted : Storable(image) /\ frag = FragmentOf(image)
<1> DEFINE frag == Head(responses[w]).rom_fragment
<1>1. /\ frag \in Fragment
      /\ StoreAsserts(frag)
      /\ rom_data' = Overlay(rom_data, frag)
      /\ rom_data_not_unknown_min' = LowerMin(rom_data_not_unknown_min, frag)
      /\ rom_data_not_unknown_max' = RaiseMax(rom_data_not_unknown_max, frag)
      /\ ~Outside(frag)
      /\ \E image \in submitted : Accepted(image) /\ frag = FragmentOf(image)
  BY AcceptedFragment
<1> HIDE DEF frag
<1>2. End(frag) < WordSize
  BY <1>1, InsideFits
<1>3. /\ End(frag) \in Nat /\ End(frag) % WordSize = End(frag) /\ End(frag) <= MaxRomSize
      /\ frag.offset \in Nat /\ frag.offset < End(frag)
  BY <1>1, <1>2, StoreBounds
<1>4. \E image \in submitted : Storable(image) /\ frag = FragmentOf(image)
  BY <1>1 DEF Storable
<1>5. QED
  BY <1>1, <1>2, <1>3, <1>4 DEF frag

LEMMA CallbackPoolInv ==
  ASSUME PoolInv, NEW w \in Workers, Callback(w)
  PROVE  PoolInv'
<1>1. CASE CallbackFails(w)
  BY <1>1, TakeResponsePoolInv DEF CallbackFails, PoolInv, TypeOK, storeVars
<1>2. CASE CallbackStores(w)
  <2> DEFINE frag == Head(responses[w]).rom_fragment
  <2>1. /\ frag \in Fragment /\ StoreAsserts(frag)
        /\ rom_data' = Overlay(rom_data, frag)
        /\ rom_data_not_unknown_min' = LowerMin(rom_data_not_unknown_min, frag)
        /\ rom_data_not_unknown_max' = RaiseMax(rom_data_not_unknown_max, frag)
        /\ broken' = (broken \/ Outside(frag))
    BY <1>2, AcceptedFragment
  <2> HIDE DEF frag
  <2>2. rom_data' \in [Addr -> Byte \cup {ROM_BYTE_UNKNOWN}]
    BY <2>1, OverlayType DEF PoolInv, TypeOK
  <2>3. /\ rom_data_not_unknown_min' \in 0 .. MaxRomSize
        /\ rom_data_not_unknown_max' \in 0 .. MaxRomSize
    <3>1. frag.offset \in Nat /\ End(frag) % WordSize \in Nat /\ End(frag) % WordSize <= MaxRomSize
      BY <2>1, FragmentParts, ModType, WordSizeType, PoolAssumption DEF StoreAsserts
    <3>2. QED
      BY <2>1, <3>1, PoolAssumption DEF LowerMin, RaiseMax, PoolInv, TypeOK
  <2>4. broken' \in BOOLEAN
    BY <2>1, Zenon
  <2>5. aborted' = aborted /\ TakeResponse(w)
    BY <1>2 DEF CallbackStores
  <2>6. QED
    BY <2>2, <2>3, <2>4, <2>5, TakeResponsePoolInv DEF PoolInv, TypeOK
<1>3. CASE CallbackAsserts(w)
  BY <1>3, TakeResponsePoolInv DEF CallbackAsserts, PoolInv, TypeOK, storeVars
<1>4. CASE CallbackDropped(w)
  <2>1. /\ responses[w] # <<>>
        /\ responses' = [responses EXCEPT ![w] = Tail(@)]
        /\ UNCHANGED <<storeVars, aborted, queue, awaited, alive, submitted>>
    BY <1>4 DEF CallbackDropped
  <2>2. responses' \in [Workers -> Seq(Response)] /\ ResponsesAnswer'
    BY <2>1, TailAnswers
  <2>3. TypeOK' /\ QueueSubmitted'
    BY <2>1, <2>2 DEF PoolInv, TypeOK, QueueSubmitted, storeVars
  <2>4. AwaitedCounts'
    <3> SUFFICES ASSUME NEW v \in Workers
                 PROVE  Backlog(v)' <= awaited'[v]
      BY DEF AwaitedCounts
    <3>1. /\ queue[v] \in Seq(Images) /\ responses[v] \in Seq(Response)
          /\ awaited[v] \in Nat /\ Len(queue[v]) + Len(responses[v]) <= awaited[v]
      BY DEF PoolInv, TypeOK, AwaitedCounts, Backlog
    <3>2. Len(responses'[v]) <= Len(responses[v])
      BY <2>1, <3>1 DEF PoolInv, TypeOK
    <3>3. responses'[v] \in Seq(Response)
      BY <2>2
    <3>4. queue'[v] = queue[v] /\ awaited'[v] = awaited[v]
      BY <2>1
    <3>5. Len(queue[v]) \in Nat /\ Len(responses[v]) \in Nat /\ Len(responses'[v]) \in Nat
      BY <3>1, <3>3
    <3>6. Len(queue[v]) + Len(responses'[v]) <= awaited[v]
      BY <3>1, <3>2, <3>5, SumBounds
    <3>7. QED
      BY <3>4, <3>6 DEF Backlog
  <2>5. QED
    BY <2>2, <2>3, <2>4 DEF PoolInv
<1>5. QED
  BY <1>1, <1>2, <1>3, <1>4 DEF Callback

LEMMA PoolInvStep == PoolInv /\ [Next]_vars => PoolInv'
<1> SUFFICES ASSUME PoolInv, [Next]_vars
             PROVE  PoolInv'
  OBVIOUS
<1>1. ASSUME NEW image \in Images, ProcessFrame(image)
      PROVE  PoolInv'
  BY <1>1, ProcessFramePoolInv
<1>2. ASSUME NEW w \in Workers, DecodeImage(w)
      PROVE  PoolInv'
  BY <1>2, DecodeImagePoolInv
<1>3. ASSUME NEW w \in Workers, DecodeImageAsserts(w)
      PROVE  PoolInv'
  BY <1>3, DecodeImageAssertsPoolInv
<1>4. ASSUME NEW w \in Workers, Callback(w)
      PROVE  PoolInv'
  BY <1>4, CallbackPoolInv
<1>5. CASE HeapTraps
  BY <1>5 DEF HeapTraps, storeVars, poolVars, PoolInv, TypeOK, QueueSubmitted, ResponsesAnswer,
              AnswerTo, AwaitedCounts, Backlog
<1>6. CASE UNCHANGED vars
  BY <1>6 DEF vars, PoolInv, TypeOK, QueueSubmitted, ResponsesAnswer, AnswerTo,
              AwaitedCounts, Backlog
<1>7. QED
  BY <1>1, <1>2, <1>3, <1>4, <1>5, <1>6 DEF Next

(* Every behaviour keeps the mailboxes sound.                              *)
THEOREM PoolInvariant == Spec => []PoolInv
<1>1. Init => PoolInv
  BY PoolInvInit
<1>2. PoolInv /\ [Next]_vars => PoolInv'
  BY PoolInvStep
<1>3. QED
  BY <1>1, <1>2, PTL DEF Spec

(* TypeOK: the variables of the decoder keep their types.  In particular a *)
(* worker's queue size never drops below zero and the bounds of the known  *)
(* window never leave the ROM image.                                       *)
THEOREM TypeCorrect == Spec => []TypeOK
<1>1. PoolInv => TypeOK
  BY DEF PoolInv
<1>2. QED
  BY <1>1, PoolInvariant, PTL

(* AwaitedCounts: a worker's queue size never understates the frames and  *)
(* answers it still has, also after an assertion has failed in it.         *)
THEOREM QueueSizesCount == Spec => []AwaitedCounts
BY PoolInvariant, PTL DEF PoolInv

-----------------------------------------------------------------------------
(* The workers, as long as every code that was handed in has a header.     *)

WellFormed == \A image \in submitted : Decodable(image) => HasHeader(image)

(* None of them has ended, and until the program aborts the queue sizes    *)
(* are what is left to do.                                                 *)
SizesExact ==
  WellFormed =>
    /\ \A w \in Workers : alive[w]
    /\ ~ aborted => \A w \in Workers : awaited[w] = Backlog(w)

LEMMA SubmittedGrows ==
  ASSUME [Next]_vars
  PROVE  submitted \subseteq submitted'
BY DEF Next, vars, ProcessFrame, DecodeImage, DecodeImageAsserts, Callback, CallbackFails,
       CallbackStores, CallbackAsserts, CallbackDropped, TakeResponse, HeapTraps

LEMMA NoWorkerAsserts ==
  ASSUME PoolInv, WellFormed, NEW w \in Workers
  PROVE  ~ DecodeImageAsserts(w)
<1> SUFFICES ASSUME DecodeImageAsserts(w)
             PROVE  FALSE
  OBVIOUS
<1>1. queue[w] \in Seq(Images) /\ queue[w] # <<>>
  BY DEF PoolInv, TypeOK, DecodeImageAsserts
<1>2. Head(queue[w]) = queue[w][1] /\ 1 \in 1 .. Len(queue[w])
  BY <1>1
<1>3. Head(queue[w]) \in submitted
  BY <1>2 DEF PoolInv, QueueSubmitted
<1>4. QED
  BY <1>3 DEF WellFormed, DecodeImageAsserts

LEMMA SizesExactProcessFrame ==
  ASSUME PoolInv, NEW image \in Images, ProcessFrame(image), WellFormed, SizesExact
  PROVE  /\ \A v \in Workers : alive'[v]
         /\ ~ aborted' => \A v \in Workers : awaited'[v] = Backlog(v)'
<1> DEFINE w == LeastBusy
<1>1. w \in Workers
  BY LeastBusyIsWorker DEF PoolInv, TypeOK
<1> HIDE DEF w
<1>2. /\ queue' = [queue EXCEPT ![w] = Append(@, image)]
      /\ awaited' = [awaited EXCEPT ![w] = @ + 1]
      /\ UNCHANGED <<aborted, responses, alive>>
  BY DEF ProcessFrame, w
<1>3. ASSUME NEW v \in Workers, ~ aborted
      PROVE  awaited'[v] = Backlog(v)'
  <2>1. /\ queue[v] \in Seq(Images) /\ responses[v] \in Seq(Response)
        /\ awaited[v] = Len(queue[v]) + Len(responses[v])
    BY <1>3 DEF PoolInv, TypeOK, SizesExact, Backlog
  <2>2. CASE v = w
    BY <1>1, <1>2, <2>1, <2>2 DEF Backlog, PoolInv, TypeOK
  <2>3. CASE v # w
    BY <1>1, <1>2, <2>1, <2>3 DEF Backlog, PoolInv, TypeOK
  <2>4. QED
    BY <2>2, <2>3
<1>4. QED
  BY <1>2, <1>3 DEF SizesExact

LEMMA SizesExactDecodeImage ==
  ASSUME PoolInv, NEW w \in Workers, DecodeImage(w), WellFormed, SizesExact
  PROVE  /\ \A v \in Workers : alive'[v]
         /\ ~ aborted' => \A v \in Workers : awaited'[v] = Backlog(v)'
<1> DEFINE answer == Answer(Head(queue[w]))
<1>1. /\ queue' = [queue EXCEPT ![w] = Tail(@)]
      /\ responses' = [responses EXCEPT ![w] = Append(@, answer)]
      /\ UNCHANGED <<aborted, awaited, alive>>
      /\ queue[w] \in Seq(Images) /\ queue[w] # <<>>
  BY DEF DecodeImage, PoolInv, TypeOK
<1>2. answer \in Response
  <2>1. Head(queue[w]) = queue[w][1] /\ 1 \in 1 .. Len(queue[w])
    BY <1>1
  <2>2. Head(queue[w]) \in Images
    BY <1>1, <2>1
  <2>3. QED
    BY <2>2, AnswerType DEF DecodeImage
<1> HIDE DEF answer
<1>3. ASSUME NEW v \in Workers, ~ aborted
      PROVE  awaited'[v] = Backlog(v)'
  <2>1. /\ queue[v] \in Seq(Images) /\ responses[v] \in Seq(Response)
        /\ awaited[v] = Len(queue[v]) + Len(responses[v])
    BY <1>3 DEF PoolInv, TypeOK, SizesExact, Backlog
  <2>2. CASE v = w
    BY <1>1, <1>2, <2>1, <2>2 DEF Backlog, PoolInv, TypeOK
  <2>3. CASE v # w
    BY <1>1, <2>1, <2>3 DEF Backlog, PoolInv, TypeOK
  <2>4. QED
    BY <2>2, <2>3
<1>4. QED
  BY <1>1, <1>3 DEF SizesExact

LEMMA SizesExactCallback ==
  ASSUME PoolInv, NEW w \in Workers, Callback(w), WellFormed, SizesExact
  PROVE  /\ \A v \in Workers : alive'[v]
         /\ ~ aborted' => \A v \in Workers : awaited'[v] = Backlog(v)'
<1>1. CASE aborted
  BY <1>1 DEF Callback, CallbackFails, CallbackStores, CallbackAsserts, CallbackDropped,
              TakeResponse, SizesExact
<1>2. CASE ~ aborted
  <2>1. TakeResponse(w)
    BY <1>2 DEF Callback, CallbackFails, CallbackStores, CallbackAsserts, CallbackDropped
  <2>2. /\ responses' = [responses EXCEPT ![w] = Tail(@)]
        /\ awaited' = [awaited EXCEPT ![w] = @ - 1]
        /\ UNCHANGED <<queue, alive>>
        /\ responses[w] \in Seq(Response) /\ responses[w] # <<>>
    BY <2>1 DEF TakeResponse, PoolInv, TypeOK
  <2>3. ASSUME NEW v \in Workers
        PROVE  awaited'[v] = Backlog(v)'
    <3>1. /\ queue[v] \in Seq(Images) /\ responses[v] \in Seq(Response)
          /\ awaited[v] = Len(queue[v]) + Len(responses[v])
      BY <1>2 DEF PoolInv, TypeOK, SizesExact, Backlog
    <3>2. CASE v = w
      BY <2>2, <3>1, <3>2 DEF Backlog, PoolInv, TypeOK
    <3>3. CASE v # w
      BY <2>2, <3>1, <3>3 DEF Backlog, PoolInv, TypeOK
    <3>4. QED
      BY <3>2, <3>3
  <2>4. QED
    BY <2>2, <2>3 DEF SizesExact
<1>3. QED
  BY <1>1, <1>2

LEMMA SizesExactStep ==
  ASSUME PoolInv, SizesExact, [Next]_vars
  PROVE  SizesExact'
<1>1. submitted \subseteq submitted'
  BY SubmittedGrows
<1> SUFFICES ASSUME WellFormed'
             PROVE  /\ \A v \in Workers : alive'[v]
                    /\ ~ aborted' => \A v \in Workers : awaited'[v] = Backlog(v)'
  BY DEF SizesExact
<1>2. WellFormed
  BY <1>1 DEF WellFormed, Decodable, HasHeader
<1>3. ASSUME NEW image \in Images, ProcessFrame(image)
      PROVE  /\ \A v \in Workers : alive'[v]
             /\ ~ aborted' => \A v \in Workers : awaited'[v] = Backlog(v)'
  BY <1>2, <1>3, SizesExactProcessFrame
<1>4. ASSUME NEW w \in Workers, DecodeImage(w)
      PROVE  /\ \A v \in Workers : alive'[v]
             /\ ~ aborted' => \A v \in Workers : awaited'[v] = Backlog(v)'
  BY <1>2, <1>4, SizesExactDecodeImage
<1>5. ASSUME NEW w \in Workers, Callback(w)
      PROVE  /\ \A v \in Workers : alive'[v]
             /\ ~ aborted' => \A v \in Workers : awaited'[v] = Backlog(v)'
  BY <1>2, <1>5, SizesExactCallback
<1>6. CASE HeapTraps
  BY <1>2, <1>6 DEF HeapTraps, poolVars, SizesExact
<1>7. CASE UNCHANGED vars
  BY <1>2, <1>7 DEF vars, SizesExact, Backlog
<1>8. QED
  BY <1>2, <1>3, <1>4, <1>5, <1>6, <1>7, NoWorkerAsserts DEF Next

LEMMA SizesExactInit == Init => SizesExact
BY DEF Init, SizesExact, Backlog

(* A frame goes to the worker that LeastBusy finds, and no other queue     *)
(* grows.                                                                  *)
LEMMA LeastBusyIsLeast ==
  ASSUME PoolInv, NEW v \in Workers
  PROVE  awaited[LeastBusy] <= awaited[v]
<1>1. \A u \in Workers : awaited[u] \in Nat
  BY DEF PoolInv, TypeOK
<1>2. \E w \in Workers : \A u \in Workers : \/ awaited[w] < awaited[u]
                                            \/ awaited[w] = awaited[u] /\ w <= u
  BY LeastBusyExists DEF PoolInv, TypeOK
<1>3. \/ awaited[LeastBusy] < awaited[v]
      \/ awaited[LeastBusy] = awaited[v] /\ LeastBusy <= v
  BY <1>2 DEF LeastBusy
<1>4. LeastBusy \in Workers
  BY LeastBusyIsWorker DEF PoolInv, TypeOK
<1>5. QED
  BY <1>1, <1>3, <1>4

LEMMA GrowsAtLeastBusy ==
  ASSUME PoolInv, [Next]_vars, NEW w \in Workers, Len(queue'[w]) > Len(queue[w])
  PROVE  w = LeastBusy
<1>1. /\ queue[w] \in Seq(Images) /\ Len(queue[w]) \in Nat
  BY DEF PoolInv, TypeOK
<1>2. ASSUME NEW image \in Images, ProcessFrame(image)
      PROVE  w = LeastBusy
  BY <1>1, <1>2 DEF ProcessFrame, PoolInv, TypeOK
<1>3. ASSUME NEW v \in Workers, DecodeImage(v) \/ DecodeImageAsserts(v)
      PROVE  FALSE
  <2>1. queue[v] # <<>> /\ queue' = [queue EXCEPT ![v] = Tail(@)]
    BY <1>3 DEF DecodeImage, DecodeImageAsserts
  <2>2. CASE v = w
    <3>1. Len(queue'[w]) = Len(queue[w]) - 1
      BY <1>1, <2>1, <2>2 DEF PoolInv, TypeOK
    <3>2. QED
      BY <1>1, <3>1
  <2>3. CASE v # w
    BY <1>1, <2>1, <2>3 DEF PoolInv, TypeOK
  <2>4. QED
    BY <2>2, <2>3
<1>4. CASE UNCHANGED queue
  BY <1>1, <1>4
<1>5. ASSUME NEW v \in Workers, Callback(v)
      PROVE  UNCHANGED queue
  BY <1>5 DEF Callback, CallbackFails, CallbackStores, CallbackAsserts, CallbackDropped,
              TakeResponse
<1>6. QED
  BY <1>2, <1>3, <1>4, <1>5 DEF Next, vars, HeapTraps, poolVars

(* SharedEvenly: as long as nothing has failed an assertion, every frame   *)
(* goes to a worker that has no more left to do than any other.            *)
THEOREM FramesAreShared == Spec => SharedEvenly
<1>1. PoolInv /\ SizesExact /\ [Next]_vars => SizesExact'
  BY SizesExactStep
<1>2. ASSUME PoolInv, SizesExact, [Next]_vars
      PROVE  (/\ ~ aborted
              /\ \A image \in submitted : Decodable(image) => HasHeader(image))
               => \A w \in Workers :
                    Len(queue'[w]) > Len(queue[w])
                      => \A v \in Workers : Backlog(w) <= Backlog(v)
  <2> SUFFICES ASSUME ~ aborted, WellFormed, NEW w \in Workers,
                      Len(queue'[w]) > Len(queue[w]), NEW v \in Workers
               PROVE  Backlog(w) <= Backlog(v)
    BY DEF WellFormed
  <2>1. awaited[w] <= awaited[v]
    BY <1>2, GrowsAtLeastBusy, LeastBusyIsLeast
  <2>2. QED
    BY <1>2, <2>1 DEF SizesExact
<1>3. QED
  BY <1>1, <1>2, SizesExactInit, PoolInvariant, PTL DEF Spec, SharedEvenly

-----------------------------------------------------------------------------
(* The ROM image.  Only CallbackStores touches it.                         *)

LEMMA StoreChanges ==
  ASSUME [Next]_vars
  PROVE  \/ UNCHANGED storeVars
         \/ \E w \in Workers : CallbackStores(w)
  BY DEF Next, vars, ProcessFrame, DecodeImage, DecodeImageAsserts, Callback,
         CallbackFails, CallbackAsserts, CallbackDropped, HeapTraps, storeVars

(* What is broken stays broken.                                            *)
LEMMA BrokenStays ==
  ASSUME PoolInv, [Next]_vars, ~broken'
  PROVE  ~broken
<1>1. CASE UNCHANGED storeVars
  BY <1>1 DEF storeVars
<1>2. CASE \E w \in Workers : CallbackStores(w)
  BY <1>2 DEF CallbackStores, store_rom_fragment
<1>3. QED
  BY <1>1, <1>2, StoreChanges

LEMMA OverlayKnown ==
  ASSUME NEW rom \in [Addr -> Byte \cup {ROM_BYTE_UNKNOWN}], NEW frag \in Fragment,
         End(frag) < WordSize, NEW a \in Addr
  PROVE  Overlay(rom, frag)[a] # ROM_BYTE_UNKNOWN
           <=> Spans(frag, a) \/ rom[a] # ROM_BYTE_UNKNOWN
<1>0. Overlay(rom, frag)[a] = IF Spans(frag, a) THEN frag.bytes[a - frag.offset + 1] ELSE rom[a]
  BY OverlayFits
<1>1. CASE Spans(frag, a)
  <2>1. frag.offset \in Nat /\ Len(frag.bytes) \in Nat /\ frag.bytes \in Seq(Byte)
    BY FragmentParts
  <2>2. a \in Int
    BY PoolAssumption DEF Addr
  <2>3. a - frag.offset + 1 \in 1 .. Len(frag.bytes)
    BY <1>1, <2>1, <2>2 DEF Spans, End
  <2>4. frag.bytes[a - frag.offset + 1] \in Byte
    BY <2>1, <2>3
  <2>5. Overlay(rom, frag)[a] = frag.bytes[a - frag.offset + 1]
    BY <1>0, <1>1
  <2>6. QED
    BY <1>1, <2>4, <2>5, ByteBaseAssumption DEF Byte, ROM_BYTE_UNKNOWN
<1>2. CASE ~Spans(frag, a)
  <2>1. Overlay(rom, frag)[a] = rom[a]
    BY <1>0, <1>2
  <2>2. QED
    BY <1>2, <2>1
<1>3. QED
  BY <1>1, <1>2

(* The window is exact because every store widens it by exactly the bytes  *)
(* it makes known; that takes WindowShape, which rules out a window that   *)
(* is empty in any other way than the initial one.                         *)
WindowInv == ~broken => WindowShape /\ WindowFits

LEMMA WindowInvInit == Init => WindowInv
<1> SUFFICES ASSUME Init
             PROVE  WindowInv
  OBVIOUS
<1>1. rom_data_not_unknown_min = MaxRomSize /\ rom_data_not_unknown_max = 0
  BY DEF Init
<1>2. \A a \in Addr : ~Known(a)
  BY DEF Init, Known
<1>3. QED
  BY <1>1, <1>2, PoolAssumption DEF WindowInv, WindowShape, WindowFits

LEMMA WindowInvStore ==
  ASSUME PoolInv, WindowShape, WindowFits, ~broken,
         NEW w \in Workers, CallbackStores(w), ~broken'
  PROVE  WindowInv'
<1> DEFINE frag == Head(responses[w]).rom_fragment
           min  == rom_data_not_unknown_min
           max  == rom_data_not_unknown_max
<1>1. /\ frag \in Fragment /\ End(frag) \in Nat /\ End(frag) <= MaxRomSize
      /\ End(frag) < WordSize /\ End(frag) % WordSize = End(frag)
      /\ frag.offset \in Nat /\ frag.offset < End(frag)
      /\ rom_data' = Overlay(rom_data, frag)
      /\ min' = LowerMin(min, frag)
      /\ max' = RaiseMax(max, frag)
  BY StoredFragment
<1> HIDE DEF frag
<1>2. rom_data \in [Addr -> Byte \cup {ROM_BYTE_UNKNOWN}]
  BY DEF PoolInv, TypeOK
<1>3. min \in Nat /\ max \in Nat /\ min <= MaxRomSize /\ max <= MaxRomSize
      /\ MaxRomSize \in Nat
  BY PoolAssumption DEF PoolInv, TypeOK
<1>4. min' < max' /\ min' \in Addr /\ max' - 1 \in Addr
  BY <1>1, <1>3 DEF LowerMin, RaiseMax, Addr
<1>5. \A a \in Addr : Known(a)' <=> Spans(frag, a) \/ Known(a)
  BY <1>1, <1>2, OverlayKnown DEF Known
<1>6. ASSUME NEW a \in Addr, Known(a)'
      PROVE  min' <= a /\ a < max'
  <2>1. a \in Nat
    BY <1>3 DEF Addr
  <2>2. CASE Spans(frag, a)
    BY <1>1, <1>3, <2>1, <2>2 DEF Spans, LowerMin, RaiseMax
  <2>3. CASE Known(a)
    <3>1. min <= a /\ a < max
      BY <2>3 DEF WindowFits
    <3>2. QED
      BY <1>1, <1>3, <2>1, <3>1 DEF LowerMin, RaiseMax
  <2>4. QED
    BY <1>5, <1>6, <2>2, <2>3
<1>7. rom_data'[min'] # ROM_BYTE_UNKNOWN
  <2>1. CASE frag.offset < min
    <3>1. min' = frag.offset /\ Spans(frag, min')
      BY <1>1, <2>1 DEF LowerMin, Spans
    <3>2. QED
      BY <1>1, <1>2, <1>4, <3>1, OverlayKnown
  <2>2. CASE ~(frag.offset < min)
    <3>1. min' = min
      BY <1>1, <2>2 DEF LowerMin
    <3>2. min < max
      BY <1>1, <1>3, <2>2 DEF WindowShape
    <3>3. rom_data[min'] # ROM_BYTE_UNKNOWN
      BY <3>1, <3>2 DEF WindowFits, Known
    <3>4. QED
      BY <1>1, <1>2, <1>4, <3>3, OverlayKnown
  <2>3. QED
    BY <2>1, <2>2
<1>8. rom_data'[max' - 1] # ROM_BYTE_UNKNOWN
  <2>1. CASE max < End(frag)
    <3>1. max' = End(frag) /\ Spans(frag, max' - 1)
      BY <1>1, <2>1 DEF RaiseMax, Spans
    <3>2. QED
      BY <1>1, <1>2, <1>4, <3>1, OverlayKnown
  <2>2. CASE ~(max < End(frag))
    <3>1. max' = max
      BY <1>1, <2>2 DEF RaiseMax
    <3>2. min < max
      BY <1>1, <1>3, <2>2 DEF WindowShape
    <3>3. rom_data[max' - 1] # ROM_BYTE_UNKNOWN
      BY <3>1, <3>2 DEF WindowFits, Known
    <3>4. QED
      BY <1>1, <1>2, <1>4, <3>3, OverlayKnown
  <2>3. QED
    BY <2>1, <2>2
<1>9. QED
  BY <1>4, <1>6, <1>7, <1>8 DEF WindowInv, WindowShape, WindowFits, Known

LEMMA WindowInvStep ==
  ASSUME PoolInv, WindowInv, [Next]_vars
  PROVE  WindowInv'
<1>1. CASE UNCHANGED storeVars
  BY <1>1 DEF storeVars, WindowInv, WindowShape, WindowFits, Known
<1>2. CASE \E w \in Workers : CallbackStores(w)
  <2> SUFFICES ASSUME ~broken'
               PROVE  WindowInv'
    BY DEF WindowInv
  <2>1. WindowShape /\ WindowFits /\ ~broken
    BY BrokenStays DEF WindowInv
  <2>2. QED
    BY <1>2, <2>1, WindowInvStore
<1>3. QED
  BY <1>1, <1>2, StoreChanges

-----------------------------------------------------------------------------
(* What writes outside rom_data.                                           *)

LEMMA OnlyWrapsBreakStep ==
  ASSUME PoolInv, OnlyWrapsBreak, [Next]_vars
  PROVE  OnlyWrapsBreak'
<1> SUFFICES ASSUME broken'
             PROVE  \E image \in submitted' :
                      Accepted(image) /\ End(FragmentOf(image)) >= WordSize
  BY DEF OnlyWrapsBreak, Accepted, Decodable, HasHeader, StoreAsserts, FragmentOf, End
<1>1. submitted \subseteq submitted'
  BY SubmittedGrows
<1>2. CASE broken
  BY <1>1, <1>2 DEF OnlyWrapsBreak
<1>3. CASE ~broken
  <2>1. PICK w \in Workers : CallbackStores(w)
    BY <1>3, StoreChanges DEF storeVars
  <2> DEFINE frag == Head(responses[w]).rom_fragment
  <2>2. frag \in Fragment /\ StoreAsserts(frag) /\ Outside(frag)
    BY <1>3, <2>1, AcceptedFragment
  <2>3. PICK image \in submitted : Accepted(image) /\ frag = FragmentOf(image)
    BY <2>1, AcceptedFragment
  <2> HIDE DEF frag
  <2>4. End(frag) \in Nat /\ WordSize \in Nat /\ ~(End(frag) < WordSize)
    BY <2>2, FitsInside, FragmentParts, WordSizeType
  <2>5. QED
    BY <1>1, <2>3, <2>4
<1>4. QED
  BY <1>2, <1>3

(* OnlyWrapsBreak: store_rom_fragment writes outside rom_data only for a   *)
(* code whose offset and length do not add up within a uint32_t.           *)
THEOREM OnlyWrapsWriteOutside == Spec => []OnlyWrapsBreak
<1>1. Init => OnlyWrapsBreak
  BY DEF Init, OnlyWrapsBreak
<1>2. PoolInv /\ OnlyWrapsBreak /\ [Next]_vars => OnlyWrapsBreak'
  BY OnlyWrapsBreakStep
<1>3. QED
  BY <1>1, <1>2, PoolInvariant, PTL DEF Spec

(* WindowExact: the bounds heavylifting_main keeps are those of the known  *)
(* bytes, whatever was decoded in whatever order, unless a code was        *)
(* accepted whose end wraps: nothing else writes outside rom_data.         *)
THEOREM WindowIsExact == Spec => []WindowExact
<1>1. Init => WindowInv
  BY WindowInvInit
<1>2. PoolInv /\ WindowInv /\ [Next]_vars => WindowInv'
  BY WindowInvStep
<1>3. OnlyWrapsBreak /\ WindowInv => WindowExact
  BY DEF WindowInv, WindowFits, WindowExact
<1>4. QED
  BY <1>1, <1>2, <1>3, PoolInvariant, OnlyWrapsWriteOutside, PTL DEF Spec

-----------------------------------------------------------------------------
(* No byte is made up.                                                     *)

LEMMA BytesGenuineStep ==
  ASSUME PoolInv, BytesGenuine, [Next]_vars
  PROVE  BytesGenuine'
<1> SUFFICES ASSUME NEW a \in Addr, Known(a)', ~broken'
             PROVE  \E image \in submitted' :
                      /\ Storable(image)
                      /\ Spans(FragmentOf(image), a)
                      /\ rom_data'[a]
                           = FragmentOf(image).bytes[a - FragmentOf(image).offset + 1]
  BY DEF BytesGenuine, Storable, Accepted, Decodable, HasHeader, StoreAsserts, Outside,
         FragmentOf, Spans, End
<1>0. ~broken
  BY BrokenStays
<1>1. submitted \subseteq submitted'
  BY SubmittedGrows
<1>2. CASE rom_data'[a] = rom_data[a]
  <2>1. Known(a)
    BY <1>2 DEF Known
  <2>2. QED
    BY <1>0, <1>1, <1>2, <2>1 DEF BytesGenuine
<1>3. CASE rom_data'[a] # rom_data[a]
  <2>1. PICK w \in Workers : CallbackStores(w)
    BY <1>3, StoreChanges DEF storeVars
  <2> DEFINE frag == Head(responses[w]).rom_fragment
  <2>2. rom_data' = Overlay(rom_data, frag) /\ frag \in Fragment /\ End(frag) < WordSize
    BY <2>1, StoredFragment
  <2>3. PICK image \in submitted : Storable(image) /\ frag = FragmentOf(image)
    BY <2>1, StoredFragment
  <2> HIDE DEF frag
  <2>4. Spans(frag, a) /\ rom_data'[a] = frag.bytes[a - frag.offset + 1]
    <3>1. rom_data \in [Addr -> Byte \cup {ROM_BYTE_UNKNOWN}]
      BY DEF PoolInv, TypeOK
    <3>2. rom_data'[a] = IF Spans(frag, a) THEN frag.bytes[a - frag.offset + 1] ELSE rom_data[a]
      BY <2>2, <3>1, OverlayFits
    <3>3. QED
      BY <1>3, <3>2
  <2>5. QED
    BY <1>1, <2>3, <2>4
<1>4. QED
  BY <1>2, <1>3

(* BytesGenuine: every known byte of the ROM image came with a frame that  *)
(* was handed to a worker, at the address its header gives it, as long as  *)
(* nothing was written outside the image.                                  *)
THEOREM BytesAreGenuine == Spec => []BytesGenuine
<1>1. Init => BytesGenuine
  BY DEF Init, BytesGenuine, Known
<1>2. PoolInv /\ BytesGenuine /\ [Next]_vars => BytesGenuine'
  BY BytesGenuineStep
<1>3. QED
  BY <1>1, <1>2, PoolInvariant, PTL DEF Spec

-----------------------------------------------------------------------------
(* No fragment is lost.                                                    *)

(* What is known stays known.                                              *)
LEMMA KnownStays ==
  ASSUME PoolInv, [Next]_vars, ~broken', NEW a \in Addr, Known(a)
  PROVE  Known(a)'
<1>1. CASE rom_data' = rom_data
  BY <1>1 DEF Known
<1>2. CASE rom_data' # rom_data
  <2>1. PICK w \in Workers : CallbackStores(w)
    BY <1>2, StoreChanges DEF storeVars
  <2>2. /\ Head(responses[w]).rom_fragment \in Fragment
        /\ End(Head(responses[w]).rom_fragment) < WordSize
        /\ rom_data' = Overlay(rom_data, Head(responses[w]).rom_fragment)
    BY <2>1, StoredFragment
  <2>3. QED
    BY <2>2, OverlayKnown DEF PoolInv, TypeOK, Known
<1>3. QED
  BY <1>1, <1>2

LEMMA CoveredStays ==
  ASSUME PoolInv, [Next]_vars, ~broken', NEW image \in Images, Covered(image)
  PROVE  Covered(image)'
<1>1. ASSUME NEW a \in Addr, Spans(FragmentOf(image), a)
      PROVE  Known(a)'
  BY <1>1, KnownStays DEF Covered
<1>2. QED
  BY <1>1 DEF Covered, Spans, FragmentOf, End, Known

(* Appending to a worker's mailbox keeps what is in it, and adds.          *)
LEMMA AppendKeeps ==
  ASSUME NEW S, NEW s \in Seq(S), NEW x \in S
  PROVE  /\ \A i \in 1 .. Len(s) : i \in 1 .. Len(Append(s, x)) /\ Append(s, x)[i] = s[i]
         /\ Len(s) + 1 \in 1 .. Len(Append(s, x)) /\ Append(s, x)[Len(s) + 1] = x
  OBVIOUS

(* Taking off the head keeps all that differs from it.                     *)
LEMMA TailKeeps ==
  ASSUME NEW S, NEW s \in Seq(S), s # <<>>, NEW i \in 1 .. Len(s), s[i] # Head(s)
  PROVE  i - 1 \in 1 .. Len(Tail(s)) /\ Tail(s)[i - 1] = s[i]
<1>1. i # 1
  OBVIOUS
<1>2. QED
  BY <1>1

LEMMA QueuedProcessFrame ==
  ASSUME PoolInv, NEW image \in Images, ProcessFrame(image)
  PROVE  /\ Queued(image)'
         /\ \A im \in Images : (Queued(im) => Queued(im)') /\ (Answered(im) => Answered(im)')
<1> DEFINE w == LeastBusy
<1>1. w \in Workers
  BY LeastBusyIsWorker DEF PoolInv, TypeOK
<1> HIDE DEF w
<1>2. queue' = [queue EXCEPT ![w] = Append(@, image)] /\ responses' = responses
  BY DEF ProcessFrame, w
<1>3. queue \in [Workers -> Seq(Images)] /\ queue[w] \in Seq(Images)
  BY <1>1 DEF PoolInv, TypeOK
<1>4. queue'[w] = Append(queue[w], image)
  BY <1>1, <1>2, <1>3
<1>5. Queued(image)'
  BY <1>1, <1>3, <1>4, AppendKeeps DEF Queued
<1>6. ASSUME NEW im \in Images, Queued(im)
      PROVE  Queued(im)'
  <2>1. PICK v \in Workers : \E i \in 1 .. Len(queue[v]) : queue[v][i] = im
    BY <1>6 DEF Queued
  <2>2. CASE v = w
    BY <1>1, <1>3, <1>4, <2>1, <2>2, AppendKeeps DEF Queued
  <2>3. CASE v # w
    BY <1>2, <1>3, <2>1, <2>3 DEF Queued
  <2>4. QED
    BY <2>2, <2>3
<1>7. \A im \in Images : Answered(im) => Answered(im)'
  BY <1>2 DEF Answered, Answer, Decodable, FragmentOf
<1>8. QED
  BY <1>5, <1>6, <1>7

(* A decoded image is answered, everything else stays where it is.         *)
LEMMA QueuedDecodeImage ==
  ASSUME PoolInv, NEW w \in Workers, DecodeImage(w),
         NEW im \in Images, Queued(im) \/ Answered(im)
  PROVE  Queued(im)' \/ Answered(im)'
<1> DEFINE image == Head(queue[w])
<1>1. /\ queue[w] \in Seq(Images) /\ queue[w] # <<>> /\ responses[w] \in Seq(Response)
      /\ queue \in [Workers -> Seq(Images)] /\ responses \in [Workers -> Seq(Response)]
  BY DEF PoolInv, TypeOK, DecodeImage
<1>2. /\ queue' = [queue EXCEPT ![w] = Tail(@)]
      /\ responses' = [responses EXCEPT ![w] = Append(@, Answer(image))]
      /\ Decodable(image) => HasHeader(image)
  BY DEF DecodeImage
<1>3. Answer(image) \in Response
  BY <1>1, <1>2, AnswerType
<1>4. queue'[w] = Tail(queue[w]) /\ responses'[w] = Append(responses[w], Answer(image))
  BY <1>1, <1>2
<1> HIDE DEF image
<1>5. /\ \A i \in 1 .. Len(responses[w]) :
              i \in 1 .. Len(responses'[w]) /\ responses'[w][i] = responses[w][i]
      /\ Len(responses[w]) + 1 \in 1 .. Len(responses'[w])
      /\ responses'[w][Len(responses[w]) + 1] = Answer(image)
  <2>1. responses[w] \in Seq(Response)
    BY <1>1
  <2>2. QED
    BY <1>3, <1>4, <2>1, AppendKeeps
<1>6. ASSUME Answered(im)
      PROVE  Answered(im)'
  <2>1. PICK v \in Workers : \E i \in 1 .. Len(responses[v]) : responses[v][i] = Answer(im)
    BY <1>6 DEF Answered
  <2>2. \E i \in 1 .. Len(responses'[v]) : responses'[v][i] = Answer(im)
    <3>1. CASE v = w
      BY <1>5, <2>1, <3>1
    <3>2. CASE v # w
      BY <1>1, <1>2, <2>1, <3>2
    <3>3. QED
      BY <3>1, <3>2
  <2>3. QED
    BY <2>2 DEF Answered, Answer, Decodable, FragmentOf
<1>7. ASSUME Queued(im)
      PROVE  Queued(im)' \/ Answered(im)'
  <2>1. PICK v \in Workers : \E i \in 1 .. Len(queue[v]) : queue[v][i] = im
    BY <1>7 DEF Queued
  <2>2. CASE v # w
    BY <1>1, <1>2, <2>1, <2>2 DEF Queued
  <2>3. CASE v = w /\ im = image
    <3>1. Answered(im)'
      <4>1. \E i \in 1 .. Len(responses'[w]) : responses'[w][i] = Answer(im)
        BY <1>5, <2>3
      <4>2. QED
        BY <4>1 DEF Answered, Answer, Decodable, FragmentOf
    <3>2. QED
      BY <3>1
  <2>4. CASE v = w /\ im # image
    <3>1. PICK i \in 1 .. Len(queue[w]) : queue[w][i] = im
      BY <2>1, <2>4
    <3>2. i - 1 \in 1 .. Len(Tail(queue[w])) /\ Tail(queue[w])[i - 1] = im
      BY <1>1, <2>4, <3>1, TailKeeps DEF image
    <3>3. QED
      BY <1>4, <3>2 DEF Queued
  <2>5. QED
    BY <2>2, <2>3, <2>4
<1>8. QED
  BY <1>6, <1>7

(* The image whose assertion fails is not storable.                        *)
LEMMA QueuedDecodeImageAsserts ==
  ASSUME PoolInv, NEW w \in Workers, DecodeImageAsserts(w),
         NEW im \in Images, Storable(im), Queued(im) \/ Answered(im)
  PROVE  Queued(im)' \/ Answered(im)'
<1> DEFINE image == Head(queue[w])
<1>1. /\ queue[w] \in Seq(Images) /\ queue[w] # <<>>
      /\ queue \in [Workers -> Seq(Images)]
      /\ queue' = [queue EXCEPT ![w] = Tail(@)]
      /\ responses' = responses
      /\ ~HasHeader(image)
  BY DEF PoolInv, TypeOK, DecodeImageAsserts
<1>2. im # image
  BY <1>1 DEF Storable, Accepted
<1>3. queue'[w] = Tail(queue[w])
  BY <1>1
<1>4. ASSUME Answered(im)
      PROVE  Answered(im)'
  BY <1>1, <1>4 DEF Answered, Answer, Decodable, FragmentOf
<1>5. ASSUME Queued(im)
      PROVE  Queued(im)'
  <2>1. PICK v \in Workers : \E i \in 1 .. Len(queue[v]) : queue[v][i] = im
    BY <1>5 DEF Queued
  <2>2. CASE v # w
    BY <1>1, <2>1, <2>2 DEF Queued
  <2>3. CASE v = w
    <3>1. PICK i \in 1 .. Len(queue[w]) : queue[w][i] = im
      BY <2>1, <2>3
    <3>2. i - 1 \in 1 .. Len(Tail(queue[w])) /\ Tail(queue[w])[i - 1] = im
      BY <1>1, <1>2, <3>1, TailKeeps
    <3>3. QED
      BY <1>3, <3>2 DEF Queued
  <2>4. QED
    BY <2>2, <2>3
<1>6. QED
  BY <1>4, <1>5

(* Of the answers only the one that is handled leaves the mailbox.         *)
LEMMA AnsweredTakeResponse ==
  ASSUME PoolInv, NEW w \in Workers, TakeResponse(w),
         NEW im \in Images, Queued(im) \/ Answered(im),
         Answer(im) # Head(responses[w])
  PROVE  Queued(im)' \/ Answered(im)'
<1>1. /\ responses[w] \in Seq(Response) /\ responses[w] # <<>>
      /\ responses \in [Workers -> Seq(Response)]
      /\ responses' = [responses EXCEPT ![w] = Tail(@)]
      /\ queue' = queue
  BY DEF PoolInv, TypeOK, TakeResponse
<1>2. responses'[w] = Tail(responses[w])
  BY <1>1
<1>3. ASSUME Queued(im)
      PROVE  Queued(im)'
  BY <1>1, <1>3 DEF Queued
<1>4. ASSUME Answered(im)
      PROVE  Answered(im)'
  <2>1. PICK v \in Workers : \E i \in 1 .. Len(responses[v]) : responses[v][i] = Answer(im)
    BY <1>4 DEF Answered
  <2>2. \E i \in 1 .. Len(responses'[v]) : responses'[v][i] = Answer(im)
    <3>1. CASE v # w
      BY <1>1, <2>1, <3>1
    <3>2. CASE v = w
      <4>1. PICK i \in 1 .. Len(responses[w]) : responses[w][i] = Answer(im)
        BY <2>1, <3>2
      <4>2. i - 1 \in 1 .. Len(Tail(responses[w])) /\ Tail(responses[w])[i - 1] = Answer(im)
        BY <1>1, <4>1, TailKeeps
      <4>3. QED
        BY <1>2, <3>2, <4>2
    <3>3. QED
      BY <3>1, <3>2
  <2>3. QED
    BY <2>2 DEF Answered, Answer, Decodable, FragmentOf
<1>5. QED
  BY <1>3, <1>4

(* A callback either leaves an image's answer in the mailbox or stores its *)
(* fragment, unless the program aborts.                                    *)
LEMMA CallbackKeeps ==
  ASSUME PoolInv, NEW w \in Workers, Callback(w), ~aborted', ~broken',
         NEW im \in Images, Storable(im), Queued(im) \/ Answered(im)
  PROVE  Queued(im)' \/ Answered(im)' \/ Covered(im)'
<1>1. TakeResponse(w) /\ ~CallbackAsserts(w)
  BY DEF Callback, CallbackFails, CallbackStores, CallbackAsserts, CallbackDropped
<1>2. CASE Answer(im) # Head(responses[w])
  BY <1>1, <1>2, AnsweredTakeResponse
<1>3. CASE Answer(im) = Head(responses[w])
  <2>1. /\ Head(responses[w]).result_code = HL_SUCCESS
        /\ Head(responses[w]).rom_fragment = FragmentOf(im)
    BY <1>3 DEF Storable, Accepted, Answer
  <2>2. CallbackStores(w)
    BY <1>1, <2>1 DEF Callback, CallbackFails, CallbackDropped, TakeResponse
  <2>3. /\ FragmentOf(im) \in Fragment /\ End(FragmentOf(im)) < WordSize
        /\ rom_data' = Overlay(rom_data, FragmentOf(im))
    BY <2>1, <2>2, StoredFragment
  <2>4. ASSUME NEW a \in Addr, Spans(FragmentOf(im), a)
        PROVE  rom_data'[a] # ROM_BYTE_UNKNOWN
    BY <2>3, <2>4, OverlayKnown DEF PoolInv, TypeOK
  <2>5. Covered(im)'
    BY <2>4 DEF Covered, Known, Spans, FragmentOf, End
  <2>6. QED
    BY <2>5
<1>4. QED
  BY <1>2, <1>3

LEMMA NoFragmentLostStep ==
  ASSUME PoolInv, NoFragmentLost, [Next]_vars
  PROVE  NoFragmentLost'
<1> SUFFICES ASSUME NEW im \in submitted', Storable(im), ~aborted', ~broken'
             PROVE  Queued(im)' \/ Answered(im)' \/ Covered(im)'
  BY DEF NoFragmentLost, Storable, Accepted, Decodable, HasHeader, StoreAsserts, Outside,
         FragmentOf, End
<1>1. ~aborted /\ ~broken
  <2>1. ~aborted
    BY DEF Next, vars, ProcessFrame, DecodeImage, DecodeImageAsserts, Callback,
           CallbackFails, CallbackStores, CallbackAsserts, CallbackDropped, TakeResponse,
           HeapTraps
  <2>2. QED
    BY <2>1, BrokenStays
<1>2. CASE im \in submitted
  <2>1. im \in Images
    BY <1>2 DEF PoolInv, TypeOK
  <2>2. CASE Covered(im)
    BY <2>1, <2>2, CoveredStays
  <2>3. CASE Queued(im) \/ Answered(im)
    <3>1. ASSUME NEW image \in Images, ProcessFrame(image)
          PROVE  Queued(im)' \/ Answered(im)'
      BY <2>1, <2>3, <3>1, QueuedProcessFrame
    <3>2. ASSUME NEW w \in Workers, DecodeImage(w)
          PROVE  Queued(im)' \/ Answered(im)'
      BY <2>1, <2>3, <3>2, QueuedDecodeImage
    <3>3. ASSUME NEW w \in Workers, DecodeImageAsserts(w)
          PROVE  Queued(im)' \/ Answered(im)'
      BY <2>1, <2>3, <3>3, QueuedDecodeImageAsserts
    <3>4. ASSUME NEW w \in Workers, Callback(w)
          PROVE  Queued(im)' \/ Answered(im)' \/ Covered(im)'
      BY <2>1, <2>3, <3>4, CallbackKeeps
    <3>5. CASE UNCHANGED vars
      BY <2>3, <3>5 DEF vars, Queued, Answered, Answer, Decodable, FragmentOf
    <3>6. ~HeapTraps
      BY DEF HeapTraps
    <3>7. QED
      BY <3>1, <3>2, <3>3, <3>4, <3>5, <3>6 DEF Next
  <2>4. QED
    BY <1>1, <1>2, <2>2, <2>3 DEF NoFragmentLost
<1>3. CASE im \notin submitted
  <2>1. PICK image \in Images : ProcessFrame(image)
    BY <1>3 DEF Next, vars, DecodeImage, DecodeImageAsserts, Callback, CallbackFails,
                CallbackStores, CallbackAsserts, CallbackDropped, TakeResponse, HeapTraps
  <2>2. im = image
    BY <1>3, <2>1 DEF ProcessFrame
  <2>3. QED
    BY <2>1, <2>2, QueuedProcessFrame
<1>4. QED
  BY <1>2, <1>3

(* NoFragmentLost: until the program aborts or writes outside the ROM      *)
(* image, every storable frame handed to a worker is in a queue, in an     *)
(* answer or known in the ROM image.                                       *)
THEOREM NoFragmentIsLost == Spec => []NoFragmentLost
<1>1. Init => NoFragmentLost
  BY DEF Init, NoFragmentLost
<1>2. PoolInv /\ NoFragmentLost /\ [Next]_vars => NoFragmentLost'
  BY NoFragmentLostStep
<1>3. QED
  BY <1>1, <1>2, PoolInvariant, PTL DEF Spec

-----------------------------------------------------------------------------
(* The decoder implements RomCopy.                                         *)

SeenFragments == {FragmentOf(image) : image \in {i \in submitted : Accepted(i)}}

LEMMA RefinesInit == Init => RomCopyImpl!Init
  BY DEF Init, RomCopyImpl!Init

(* Adding an image to the submitted ones is See, or nothing.               *)
LEMMA RefinesSee ==
  ASSUME NEW image \in Images, submitted' = submitted \cup {image},
         rom_data' = rom_data, broken' = broken
  PROVE  [RomCopyImpl!Next]_(<<rom_data, SeenFragments, broken>>)
<1>1. CASE Accepted(image)
  <2>1. SeenFragments' = SeenFragments \cup {FragmentOf(image)}
    BY <1>1 DEF SeenFragments, Accepted, Decodable, HasHeader, StoreAsserts, FragmentOf, End
  <2>2. FragmentOf(image) \in {FragmentOf(i) : i \in {k \in Images : Accepted(k)}}
    BY <1>1
  <2>3. RomCopyImpl!See
    BY <2>1, <2>2 DEF RomCopyImpl!See, SeenFragments
  <2>4. QED
    BY <2>3 DEF RomCopyImpl!Next
<1>2. CASE ~Accepted(image)
  <2>1. SeenFragments' = SeenFragments
    BY <1>2 DEF SeenFragments, Accepted, Decodable, HasHeader, StoreAsserts, FragmentOf, End
  <2>2. QED
    BY <2>1
<1>3. QED
  BY <1>1, <1>2

(* A store is Write if all its bytes have a place, Break if not.           *)
LEMMA RefinesStore ==
  ASSUME PoolInv, NEW w \in Workers, CallbackStores(w)
  PROVE  RomCopyImpl!Next
<1> DEFINE frag == Head(responses[w]).rom_fragment
<1>1. /\ frag \in Fragment /\ StoreAsserts(frag)
      /\ rom_data' = Overlay(rom_data, frag)
      /\ broken' = (broken \/ Outside(frag))
      /\ \E image \in submitted : Accepted(image) /\ frag = FragmentOf(image)
  BY AcceptedFragment
<1>2. submitted' = submitted
  BY DEF CallbackStores, TakeResponse
<1> HIDE DEF frag
<1>3. frag \in SeenFragments
  BY <1>1 DEF SeenFragments
<1>4. SeenFragments' = SeenFragments
  BY <1>2 DEF SeenFragments, Accepted, Decodable, HasHeader, StoreAsserts, FragmentOf, End
<1>5. CASE broken
  BY <1>1, <1>4, <1>5 DEF RomCopyImpl!Next, RomCopyImpl!Break, SeenFragments
<1>6. CASE ~broken /\ Outside(frag)
  <2>1. ~RomCopyImpl!Fits(frag)
    <3>1. PICK i \in 1 .. Len(frag.bytes) : (frag.offset + i - 1) % WordSize \notin Addr
      BY <1>6 DEF Outside
    <3>2. frag.offset + i - 1 \notin Addr
      <4>1. SUFFICES ASSUME frag.offset + i - 1 \in Addr
                     PROVE  FALSE
        OBVIOUS
      <4>2. /\ frag.offset + i - 1 \in Nat /\ frag.offset + i - 1 < WordSize
        BY <4>1, PoolAssumption, WordSizeType DEF Addr
      <4>3. (frag.offset + i - 1) % WordSize = frag.offset + i - 1
        BY <4>2, ModSmall, WordSizeType
      <4>4. QED
        BY <3>1, <4>1, <4>3
    <3>3. QED
      BY <3>2 DEF RomCopyImpl!Fits
  <2>2. broken' = TRUE
    BY <1>1, <1>6
  <2>3. QED
    BY <1>3, <1>4, <2>1, <2>2 DEF RomCopyImpl!Next, RomCopyImpl!Break, SeenFragments
<1>7. CASE ~broken /\ ~Outside(frag)
  <2>1. End(frag) < WordSize
    BY <1>1, <1>7, InsideFits
  <2>2. RomCopyImpl!Fits(frag)
    BY <1>1, <2>1, FitsInside DEF RomCopyImpl!Fits
  <2>3. rom_data' = [a \in Addr |-> IF RomCopyImpl!Spans(frag, a)
                                      THEN frag.bytes[a - frag.offset + 1] ELSE rom_data[a]]
    BY <1>1, <2>1, OverlayFits DEF PoolInv, TypeOK, Spans, End, RomCopyImpl!Spans
  <2>4. broken' = broken
    BY <1>1, <1>7 DEF PoolInv, TypeOK
  <2>5. QED
    BY <1>3, <1>4, <1>7, <2>2, <2>3, <2>4 DEF RomCopyImpl!Next, RomCopyImpl!Write, SeenFragments
<1>8. QED
  BY <1>5, <1>6, <1>7

LEMMA RefinesNext ==
  ASSUME PoolInv, [Next]_vars
  PROVE  [RomCopyImpl!Next]_(<<rom_data, SeenFragments, broken>>)
<1>1. CASE \E w \in Workers : CallbackStores(w)
  BY <1>1, RefinesStore
<1>2. CASE UNCHANGED storeVars
  <2>1. CASE submitted' = submitted
    BY <1>2, <2>1 DEF storeVars, SeenFragments, Accepted, Decodable, HasHeader, StoreAsserts,
                      FragmentOf, End
  <2>2. CASE submitted' # submitted
    <3>1. PICK image \in Images : submitted' = submitted \cup {image}
      BY <2>2 DEF Next, vars, ProcessFrame, DecodeImage, DecodeImageAsserts, Callback,
                  CallbackFails, CallbackStores, CallbackAsserts, CallbackDropped,
                  TakeResponse, HeapTraps
    <3>2. QED
      BY <1>2, <3>1, RefinesSee DEF storeVars
  <2>3. QED
    BY <2>1, <2>2
<1>3. QED
  BY <1>1, <1>2, StoreChanges

(* ImplementsRomCopy: whatever the workers, the mailboxes and an abort do, *)
(* the ROM image is a copy put together from whole fragments of frames     *)
(* that were seen, until one of them is written that has no room in it.    *)
THEOREM RefinesRomCopy == Spec => ImplementsRomCopy
<1>1. Init => RomCopyImpl!Init
  BY RefinesInit
<1>2. PoolInv /\ [Next]_vars
        => [RomCopyImpl!Next]_(<<rom_data,
             {FragmentOf(image) : image \in {i \in submitted : Accepted(i)}}, broken>>)
  BY RefinesNext DEF SeenFragments
<1>3. QED
  BY <1>1, <1>2, PoolInvariant, PTL DEF Spec, ImplementsRomCopy, RomCopyImpl!Spec

=============================================================================
