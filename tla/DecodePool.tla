------------------------------ MODULE DecodePool ------------------------------
(***************************************************************************)
(* The decoder behind the web page: heavylifting_main.c, which owns the    *)
(* ROM image and hands every captured frame to one of its image decoding   *)
(* workers, and heavylifting_imgdec.c, which runs in those workers.        *)
(*                                                                         *)
(* A worker is a JavaScript thread with a mailbox: emscripten_call_worker  *)
(* posts a call to it, emscripten_worker_respond posts the answer back,    *)
(* and the answers of different workers arrive in any order.  Each handler *)
(* runs to completion in its own thread, so each is one action.            *)
(*                                                                         *)
(* An image stands for what zbar finds in it: the sequence of the payloads *)
(* of the QR codes that are visible.                                       *)
(***************************************************************************)
EXTENDS FragmentCodec, FiniteSets

CONSTANTS
  N_IMGDEC_WORKERS,   \* number of image decoding workers
  MaxRomSize,         \* max_rom_size: length of the ROM image
  DecodedBufLen,      \* sizeof(decoded_data_buf)
  Images,             \* the images the camera may deliver
  MaxAwaited          \* bound: calls a worker may owe an answer to

Workers == 0 .. N_IMGDEC_WORKERS - 1
Addr    == 0 .. MaxRomSize - 1

\* decode_qr_code_image returns DEC_QR_OK: exactly one code, and it fits.
Decodable(image) == Len(image) = 1 /\ Len(image[1]) <= DecodedBufLen

\* assert(decoded_data_len >= 5) in heavylifting_decode_image.
HasHeader(image) == Len(image[1]) >= n_header_bytes_per_frame

FragmentOf(image) ==
  [offset |-> OffsetOf(image[1]), bytes |-> BytesOf(image[1])]

ASSUME PoolAssumption ==
  /\ N_IMGDEC_WORKERS \in Nat \ {0}
  /\ MaxRomSize \in Nat \ {0}
  /\ MaxRomSize < WordSize
  /\ DecodedBufLen \in Nat
  /\ DecodedBufLen < WordSize
  /\ MaxAwaited \in Nat
  /\ Images \subseteq Seq(Seq(Byte))

ROM_BYTE_UNKNOWN == -1
HL_SUCCESS       == 64
HL_FAIL          == -1

Fragment == [offset : 0 .. WordSize - 1, bytes : Seq(Byte)]
Response == [result_code : {HL_FAIL}]
              \cup [result_code : {HL_SUCCESS}, rom_fragment : Fragment]

VARIABLES
  rom_data,                   \* the ROM image
  rom_data_not_unknown_min,   \* rom_data is unknown below this index ...
  rom_data_not_unknown_max,   \* ... and from this index on
  broken,                     \* something was written outside rom_data
  aborted,                    \* an assertion failed in heavylifting_main
  queue,                      \* queue[w]: images posted to w, not yet decoded
  responses,                  \* responses[w]: answers of w, not yet handled
  awaited,                    \* awaited[w]: what emscripten_get_worker_queue_size reports
  alive,                      \* alive[w]: w still takes calls
  submitted                   \* history: the images handed to the workers

storeVars == <<rom_data, rom_data_not_unknown_min, rom_data_not_unknown_max, broken>>
poolVars  == <<queue, responses, awaited, alive>>
vars      == <<rom_data, rom_data_not_unknown_min, rom_data_not_unknown_max,
               broken, aborted, queue, responses, awaited, alive, submitted>>

-----------------------------------------------------------------------------
(* heavylifting_init has run: nothing is known, every worker is created.   *)
Init ==
  /\ rom_data = [a \in Addr |-> ROM_BYTE_UNKNOWN]
  /\ rom_data_not_unknown_min = MaxRomSize
  /\ rom_data_not_unknown_max = 0
  /\ broken = FALSE
  /\ aborted = FALSE
  /\ queue = [w \in Workers |-> <<>>]
  /\ responses = [w \in Workers |-> <<>>]
  /\ awaited = [w \in Workers |-> 0]
  /\ alive = [w \in Workers |-> TRUE]
  /\ submitted = {}

-----------------------------------------------------------------------------
(* heavylifting_process_frame: the loop keeps the first worker whose queue *)
(* size is smallest.                                                       *)

\* Faulty: the smallest size seen starts at 0, so no worker beats the first.
LeastBusy_AlwaysFirst == 0

LeastBusy ==
  CHOOSE w \in Workers :
    \A v \in Workers : \/ awaited[w] < awaited[v]
                       \/ awaited[w] = awaited[v] /\ w <= v

ProcessFrame(image) ==
  /\ awaited[LeastBusy] < MaxAwaited
  /\ queue' = [queue EXCEPT ![LeastBusy] = Append(@, image)]
  /\ awaited' = [awaited EXCEPT ![LeastBusy] = @ + 1]
  /\ submitted' = submitted \cup {image}
  /\ UNCHANGED <<storeVars, aborted, responses, alive>>

-----------------------------------------------------------------------------
(* heavylifting_decode_image, in worker w.                                 *)

\* Faulty: a code that leaves room in the buffer is taken for a failure.
Answer_FullOnly(image) ==
  IF Decodable(image) /\ Len(image[1]) = DecodedBufLen
    THEN [result_code |-> HL_SUCCESS, rom_fragment |-> FragmentOf(image)]
    ELSE [result_code |-> HL_FAIL]

Answer(image) ==
  IF Decodable(image)
    THEN [result_code |-> HL_SUCCESS, rom_fragment |-> FragmentOf(image)]
    ELSE [result_code |-> HL_FAIL]

DecodeImage(w) ==
  LET image == Head(queue[w])
  IN  /\ alive[w]
      /\ queue[w] # <<>>
      /\ Decodable(image) => HasHeader(image)
      /\ queue' = [queue EXCEPT ![w] = Tail(@)]
      /\ responses' = [responses EXCEPT ![w] = Append(@, Answer(image))]
      /\ UNCHANGED <<storeVars, aborted, awaited, alive, submitted>>

\* The code is no frame of the dumper: the assertion on its length fails and
\* nothing is answered.  Whether the worker takes further calls is left open.
DecodeImageAsserts(w) ==
  LET image == Head(queue[w])
  IN  /\ alive[w]
      /\ queue[w] # <<>>
      /\ Decodable(image) /\ ~HasHeader(image)
      /\ queue' = [queue EXCEPT ![w] = Tail(@)]
      /\ alive' \in {alive, [alive EXCEPT ![w] = FALSE]}
      /\ UNCHANGED <<storeVars, aborted, responses, awaited, submitted>>

-----------------------------------------------------------------------------
(* decode_image_callback and store_rom_fragment, for the next answer of w. *)

End(frag) == frag.offset + Len(frag.bytes)

\* Faulty: the assertion on the end is missing.
StoreAsserts_AnyEnd(frag) == Len(frag.bytes) > 0

\* The two assertions at the top of store_rom_fragment.  The offset is a uint32_t,
\* and so is what is added to it.
StoreAsserts(frag) ==
  /\ Len(frag.bytes) > 0
  /\ End(frag) % WordSize <= MaxRomSize

\* The byte that goes to address a, if the fragment has so many.
Place(frag, a) ==
  IF frag.offset <= a THEN a - frag.offset + 1 ELSE a + WordSize - frag.offset + 1

\* Faulty: the last byte is not copied.
Overlay_Short(rom, frag) ==
  [a \in DOMAIN rom |->
     IF Place(frag, a) < Len(frag.bytes) THEN frag.bytes[Place(frag, a)] ELSE rom[a]]

Overlay(rom, frag) ==
  [a \in DOMAIN rom |->
     IF Place(frag, a) <= Len(frag.bytes) THEN frag.bytes[Place(frag, a)] ELSE rom[a]]

\* A byte of the fragment goes to no address of the ROM image.
Outside(frag) ==
  \E i \in 1 .. Len(frag.bytes) : (frag.offset + i - 1) % WordSize \notin Addr

\* Faulty: the bound follows the last fragment.
RaiseMax_Last(max, frag) == End(frag) % WordSize

LowerMin(min, frag) == IF frag.offset < min THEN frag.offset ELSE min
RaiseMax(max, frag) == IF max < End(frag) % WordSize THEN End(frag) % WordSize ELSE max

store_rom_fragment(frag) ==
  /\ StoreAsserts(frag)
  /\ rom_data' = Overlay(rom_data, frag)
  /\ rom_data_not_unknown_min' = LowerMin(rom_data_not_unknown_min, frag)
  /\ rom_data_not_unknown_max' = RaiseMax(rom_data_not_unknown_max, frag)
  /\ broken' = (broken \/ Outside(frag))

\* Faulty: handling one answer empties the mailbox.
TakeResponse_All(w) ==
  /\ ~aborted
  /\ responses[w] # <<>>
  /\ responses' = [responses EXCEPT ![w] = <<>>]
  /\ awaited' = [awaited EXCEPT ![w] = @ - 1]
  /\ UNCHANGED <<queue, alive, submitted>>

\* The runtime takes an answer off the mailbox and off the queue size before
\* it calls decode_image_callback.
TakeResponse(w) ==
  /\ ~aborted
  /\ responses[w] # <<>>
  /\ responses' = [responses EXCEPT ![w] = Tail(@)]
  /\ awaited' = [awaited EXCEPT ![w] = @ - 1]
  /\ UNCHANGED <<queue, alive, submitted>>

CallbackFails(w) ==
  /\ TakeResponse(w)
  /\ Head(responses[w]).result_code # HL_SUCCESS
  /\ UNCHANGED <<storeVars, aborted>>

CallbackStores(w) ==
  /\ TakeResponse(w)
  /\ Head(responses[w]).result_code = HL_SUCCESS
  /\ store_rom_fragment(Head(responses[w]).rom_fragment)
  /\ UNCHANGED aborted

\* Faulty: the assertion comes after the copy.
CallbackAsserts_TooLate(w) ==
  /\ TakeResponse(w)
  /\ Head(responses[w]).result_code = HL_SUCCESS
  /\ ~StoreAsserts(Head(responses[w]).rom_fragment)
  /\ rom_data' = Overlay(rom_data, Head(responses[w]).rom_fragment)
  /\ aborted' = TRUE
  /\ UNCHANGED <<rom_data_not_unknown_min, rom_data_not_unknown_max, broken>>

\* A failed assertion aborts the whole program before anything is stored.
CallbackAsserts(w) ==
  /\ TakeResponse(w)
  /\ Head(responses[w]).result_code = HL_SUCCESS
  /\ ~StoreAsserts(Head(responses[w]).rom_fragment)
  /\ aborted' = TRUE
  /\ UNCHANGED storeVars

\* An aborted program drops every further answer.
CallbackDropped(w) ==
  /\ aborted
  /\ responses[w] # <<>>
  /\ responses' = [responses EXCEPT ![w] = Tail(@)]
  /\ UNCHANGED <<storeVars, aborted, queue, awaited, alive, submitted>>

Callback(w) == \/ CallbackFails(w)
               \/ CallbackStores(w)
               \/ CallbackAsserts(w)
               \/ CallbackDropped(w)

\* What was written outside rom_data may have hit the heap's own records: a later
\* malloc or free traps, at any time or never.
HeapTraps ==
  /\ broken /\ ~aborted
  /\ aborted' = TRUE
  /\ UNCHANGED <<storeVars, poolVars, submitted>>

-----------------------------------------------------------------------------
Next ==
  \/ \E image \in Images : ProcessFrame(image)
  \/ \E w \in Workers : \/ DecodeImage(w)
                        \/ DecodeImageAsserts(w)
                        \/ Callback(w)
  \/ HeapTraps

Spec == Init /\ [][Next]_vars

(* A thread that has a message in its mailbox eventually handles it.       *)
Fairness ==
  \A w \in Workers : /\ WF_vars(DecodeImage(w) \/ DecodeImageAsserts(w))
                     /\ WF_vars(Callback(w))

FairSpec == Spec /\ Fairness

-----------------------------------------------------------------------------
(* Properties.                                                             *)

\* Type correctness of every variable.
TypeOK ==
  /\ rom_data \in [Addr -> Byte \cup {ROM_BYTE_UNKNOWN}]
  /\ rom_data_not_unknown_min \in 0 .. MaxRomSize
  /\ rom_data_not_unknown_max \in 0 .. MaxRomSize
  /\ broken \in BOOLEAN
  /\ aborted \in BOOLEAN
  /\ queue \in [Workers -> Seq(Images)]
  /\ responses \in [Workers -> Seq(Response)]
  /\ awaited \in [Workers -> Nat]
  /\ alive \in [Workers -> BOOLEAN]
  /\ submitted \in SUBSET Images

Known(a) == rom_data[a] # ROM_BYTE_UNKNOWN

\* An image with a code that passes all assertions, and one whose bytes then go to
\* where its header says.
Accepted(image) ==
  /\ Decodable(image)
  /\ HasHeader(image)
  /\ StoreAsserts(FragmentOf(image))
Storable(image) == Accepted(image) /\ ~Outside(FragmentOf(image))

Spans(frag, a) == frag.offset <= a /\ a < End(frag)

\* Nothing is written outside rom_data but by a code whose end does not fit a
\* uint32_t: of all others the assertion (heavylifting_main.c:60) keeps every byte in.
\* What holds of the program after that is not known: the properties below are about
\* the time before.
OnlyWrapsBreak ==
  broken => \E image \in submitted :
              Accepted(image) /\ End(FragmentOf(image)) >= WordSize

\* Until then the window fits.  The first half is the comment over the two bounds
\* (heavylifting_main.c:23): rom_data is unknown outside them.  The second half makes
\* it the smallest such window, so the page neither ships a tail of unknown bytes nor
\* takes a store for an empty one.
WindowFits ==
  ~broken =>
    /\ \A a \in Addr : Known(a) => /\ rom_data_not_unknown_min <= a
                                  /\ a < rom_data_not_unknown_max
    /\ rom_data_not_unknown_min < rom_data_not_unknown_max
         => /\ Known(rom_data_not_unknown_min)
            /\ Known(rom_data_not_unknown_max - 1)

\* The window of known bytes is exact, unless a code was accepted whose end wraps: the
\* comment over the bounds (heavylifting_main.c:23) holds for all other codes, and does
\* not hold for these.
WindowExact == OnlyWrapsBreak /\ WindowFits

\* What the type invariant rests on: a queued image was submitted, and an answer
\* in a mailbox is the answer to a submitted image.
QueueSubmitted ==
  \A w \in Workers : \A i \in 1 .. Len(queue[w]) : queue[w][i] \in submitted

AnswerTo(response, image) ==
  /\ Decodable(image) => HasHeader(image)
  /\ response = Answer(image)

ResponsesAnswer ==
  \A w \in Workers : \A i \in 1 .. Len(responses[w]) :
    \E image \in submitted : AnswerTo(responses[w][i], image)

Backlog(w) == Len(queue[w]) + Len(responses[w])

\* The queue size that heavylifting_process_frame compares never understates what
\* a worker still owes: images to decode and answers on their way.
AwaitedCounts == \A w \in Workers : Backlog(w) <= awaited[w]

\* The mailboxes are sound: the inductive form of the type invariant.
PoolInv == TypeOK /\ QueueSubmitted /\ ResponsesAnswer /\ AwaitedCounts

\* The bounds are those of an empty window or of a proper one.
WindowShape ==
  \/ rom_data_not_unknown_min < rom_data_not_unknown_max
  \/ rom_data_not_unknown_min = MaxRomSize /\ rom_data_not_unknown_max = 0

\* No byte is made up: whatever store_rom_fragment has put at an address came
\* with a frame that was handed to a worker, at the place the frame's header
\* gives it, however the answers of the workers were interleaved.
BytesGenuine ==
  ~broken => \A a \in Addr :
    Known(a) => \E image \in submitted :
                  /\ Storable(image)
                  /\ Spans(FragmentOf(image), a)
                  /\ rom_data[a] = FragmentOf(image).bytes[a - FragmentOf(image).offset + 1]

Covered(image) ==
  \A a \in Addr : Spans(FragmentOf(image), a) => Known(a)

Queued(image)   == \E w \in Workers : \E i \in 1 .. Len(queue[w]) : queue[w][i] = image
Answered(image) == \E w \in Workers : \E i \in 1 .. Len(responses[w]) :
                     responses[w][i] = Answer(image)

\* No frame disappears between the camera and the ROM image: as long as the
\* program has not aborted and its memory is whole, every storable frame that was handed to a worker
\* is still with it, on its way back, or known byte for byte.
NoFragmentLost ==
  \A image \in submitted :
    Storable(image) /\ ~aborted /\ ~broken => Queued(image) \/ Answered(image) \/ Covered(image)

\* Every storable frame is eventually known in full, unless an assertion has
\* stopped the program or one of its workers, or its memory is broken.
EventuallyCovered ==
  \A image \in {i \in Images : Storable(i)} :
    image \in submitted
      ~> Covered(image) \/ aborted \/ broken \/ \E w \in Workers : ~alive[w]

\* The same, as long as neither the program nor a worker fails an assertion: in
\* whatever order answers come and are handled, the queue sizes that are compared
\* (heavylifting_main.c:120) order the workers by what they have yet to do.
SharedEvenly ==
  [][(/\ ~ aborted
      /\ \A image \in submitted : Decodable(image) => HasHeader(image))
       => \A w \in Workers :
            Len(queue'[w]) > Len(queue[w]) => \A v \in Workers : Backlog(w) <= Backlog(v)]_vars

\* The decoder implements RomCopy, its accepted frames being the fragments.
RomCopyImpl ==
  INSTANCE RomCopy WITH
    Unknown   <- ROM_BYTE_UNKNOWN,
    Fragments <- {FragmentOf(image) : image \in {i \in Images : Accepted(i)}},
    rom       <- rom_data,
    seen      <- {FragmentOf(image) : image \in {i \in submitted : Accepted(i)}}

\* Workers, mailboxes and aborts only ever delay or drop a whole fragment.
ImplementsRomCopy == RomCopyImpl!Spec

=============================================================================
