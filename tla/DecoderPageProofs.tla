--------------------------- MODULE DecoderPageProofs ---------------------------
(***************************************************************************)
(* Proofs about the page, for any number of workers and any images: the    *)
(* poll is a token, the runtime is not called before it is up, and what    *)
(* the page shows was seen and stays.                                      *)
(***************************************************************************)
EXTENDS DecoderPage, FiniteSetTheorems, FunctionTheorems, SequenceTheorems, TLAPS

PP == INSTANCE DecodePoolProofs

-----------------------------------------------------------------------------
(* The decoder behind the page is the one DecodePoolProofs is about.       *)

LEMMA SameCodec ==
  /\ PP!Byte = Byte /\ PP!WordSize = WordSize
  /\ \A data : PP!OffsetOf(data) = OffsetOf(data) /\ PP!BytesOf(data) = BytesOf(data)
BY DEF PP!Byte, Byte, PP!WordSize, WordSize, PP!OffsetOf, OffsetOf, PP!BytesOf, BytesOf,
       PP!n_header_bytes_per_frame, n_header_bytes_per_frame

LEMMA SamePoolTerms ==
  /\ P!Workers = PP!Workers /\ P!Addr = PP!Addr
  /\ P!ROM_BYTE_UNKNOWN = PP!ROM_BYTE_UNKNOWN
  /\ P!LeastBusy = PP!LeastBusy
  /\ P!storeVars = PP!storeVars
  /\ \A w : P!Backlog(w) = PP!Backlog(w)
  /\ \A a : P!Known(a) <=> PP!Known(a)
BY DEF P!Workers, PP!Workers, P!Addr, PP!Addr, P!ROM_BYTE_UNKNOWN, PP!ROM_BYTE_UNKNOWN,
       P!LeastBusy, PP!LeastBusy, P!storeVars, PP!storeVars,
       P!Backlog, PP!Backlog, P!Known, PP!Known

LEMMA SamePoolInit == P!Init => PP!Init
BY SamePoolTerms DEF P!Init, PP!Init

LEMMA SameImage ==
  ASSUME NEW image
  PROVE  /\ P!Decodable(image) <=> PP!Decodable(image)
         /\ P!HasHeader(image) <=> PP!HasHeader(image)
         /\ P!Answer(image) = PP!Answer(image)
BY DEF P!Decodable, PP!Decodable, P!HasHeader, PP!HasHeader, P!Answer, PP!Answer,
       P!FragmentOf, PP!FragmentOf, P!OffsetOf, PP!OffsetOf, P!BytesOf, PP!BytesOf,
       P!n_header_bytes_per_frame, PP!n_header_bytes_per_frame, P!HL_SUCCESS,
       PP!HL_SUCCESS, P!HL_FAIL, PP!HL_FAIL

LEMMA SameFragment ==
  ASSUME NEW frag
  PROVE  /\ P!StoreAsserts(frag) <=> PP!StoreAsserts(frag)
         /\ P!Outside(frag) <=> PP!Outside(frag)
         /\ \A rom : P!Overlay(rom, frag) = PP!Overlay(rom, frag)
         /\ \A min : P!LowerMin(min, frag) = PP!LowerMin(min, frag)
         /\ \A max : P!RaiseMax(max, frag) = PP!RaiseMax(max, frag)
<1>1. P!WordSize = PP!WordSize /\ P!Addr = PP!Addr /\ P!End(frag) = PP!End(frag)
  BY DEF P!WordSize, PP!WordSize, P!Addr, PP!Addr, P!End, PP!End
<1>2. \A a : P!Place(frag, a) = PP!Place(frag, a)
  BY <1>1 DEF P!Place, PP!Place
<1>3. P!Outside(frag) <=> PP!Outside(frag)
  BY <1>1 DEF P!Outside, PP!Outside
<1>4. \A rom : P!Overlay(rom, frag) = PP!Overlay(rom, frag)
  BY <1>2 DEF P!Overlay, PP!Overlay
<1>5. QED
  BY <1>1, <1>3, <1>4
     DEF P!StoreAsserts, PP!StoreAsserts, P!LowerMin, PP!LowerMin, P!RaiseMax, PP!RaiseMax

LEMMA SameStore ==
  ASSUME NEW frag
  PROVE  P!store_rom_fragment(frag) => PP!store_rom_fragment(frag)
BY SameFragment DEF P!store_rom_fragment, PP!store_rom_fragment

LEMMA SameSight ==
  ASSUME NEW image
  PROVE  /\ P!Storable(image) <=> PP!Storable(image)
         /\ P!FragmentOf(image) = PP!FragmentOf(image)
         /\ \A a : P!Spans(P!FragmentOf(image), a) <=> PP!Spans(PP!FragmentOf(image), a)
BY SameImage, SameFragment
   DEF P!Storable, PP!Storable, P!Accepted, PP!Accepted, P!FragmentOf, PP!FragmentOf, P!OffsetOf, PP!OffsetOf,
       P!BytesOf, PP!BytesOf, P!n_header_bytes_per_frame, PP!n_header_bytes_per_frame,
       P!Spans, PP!Spans, P!End, PP!End

LEMMA SameProcessFrame ==
  ASSUME NEW image, P!ProcessFrame(image)
  PROVE  PP!ProcessFrame(image)
BY SamePoolTerms DEF P!ProcessFrame, PP!ProcessFrame, P!storeVars, PP!storeVars

LEMMA SameDecode ==
  ASSUME NEW w, P!DecodeImage(w) \/ P!DecodeImageAsserts(w)
  PROVE  PP!DecodeImage(w) \/ PP!DecodeImageAsserts(w)
BY SameImage DEF P!DecodeImage, PP!DecodeImage, P!DecodeImageAsserts, PP!DecodeImageAsserts,
                 P!storeVars, PP!storeVars

LEMMA SameCallback ==
  ASSUME NEW w, P!Callback(w)
  PROVE  PP!Callback(w)
<1>1. P!TakeResponse(w) => PP!TakeResponse(w)
  BY DEF P!TakeResponse, PP!TakeResponse
<1>2. P!CallbackFails(w) => PP!CallbackFails(w)
  BY <1>1 DEF P!CallbackFails, PP!CallbackFails, P!storeVars, PP!storeVars, P!HL_SUCCESS,
              PP!HL_SUCCESS
<1>3. P!CallbackStores(w) => PP!CallbackStores(w)
  BY <1>1, SameStore DEF P!CallbackStores, PP!CallbackStores, P!HL_SUCCESS, PP!HL_SUCCESS
<1>4. P!CallbackAsserts(w) => PP!CallbackAsserts(w)
  BY <1>1, SameFragment DEF P!CallbackAsserts, PP!CallbackAsserts, P!HL_SUCCESS,
                         PP!HL_SUCCESS, P!storeVars, PP!storeVars
<1>5. P!CallbackDropped(w) => PP!CallbackDropped(w)
  BY DEF P!CallbackDropped, PP!CallbackDropped, P!storeVars, PP!storeVars
<1>6. QED
  BY <1>2, <1>3, <1>4, <1>5 DEF P!Callback, PP!Callback

LEMMA SameHeapTraps == P!HeapTraps => PP!HeapTraps
BY SamePoolTerms DEF P!HeapTraps, PP!HeapTraps, P!storeVars, PP!storeVars, P!poolVars, PP!poolVars

LEMMA PoolAssumptions ==
  PP!ByteBaseAssumption /\ PP!PoolAssumption
<1>1. PP!PoolAssumption
  BY PageAssumption, SameCodec DEF PP!PoolAssumption
<1>2. QED
  BY <1>1, ByteBaseAssumption DEF PP!ByteBaseAssumption

-----------------------------------------------------------------------------
(* Counting in a mailbox.                                                  *)

Places(mailbox, id) == {i \in 1 .. Len(mailbox) : mailbox[i].id = id}

LEMMA PlacesFinite ==
  ASSUME NEW S, NEW s \in Seq(S), NEW id
  PROVE  /\ IsFiniteSet(Places(s, id)) /\ Posted(s, id) \in Nat
         /\ Posted(s, id) = Cardinality(Places(s, id))
         /\ Posted(s, id) = 0 <=> \A i \in 1 .. Len(s) : s[i].id # id
<1>1. Posted(s, id) = Cardinality(Places(s, id))
  BY DEF Posted, Places
<1>2. IsFiniteSet(1 .. Len(s)) /\ Len(s) \in Nat
  BY FS_Interval
<1>3. Places(s, id) \in SUBSET (1 .. Len(s))
  BY DEF Places
<1>4. IsFiniteSet(Places(s, id))
  BY <1>2, <1>3, FS_Subset
<1>5. Posted(s, id) \in Nat /\ (Posted(s, id) = 0 <=> Places(s, id) = {})
  BY <1>1, <1>4, FS_CardinalityType, FS_EmptySet
<1>6. Places(s, id) = {} <=> \A i \in 1 .. Len(s) : s[i].id # id
  BY DEF Places
<1>7. QED
  BY <1>1, <1>4, <1>5, <1>6

LEMMA PostedAppend ==
  ASSUME NEW S, NEW s \in Seq(S), NEW m \in S, NEW id
  PROVE  Posted(Append(s, m), id) = Posted(s, id) + (IF m.id = id THEN 1 ELSE 0)
<1> DEFINE n == Len(s) + 1
           t == Append(s, m)
<1>1. /\ t \in Seq(S) /\ Len(t) = n /\ n \in Nat /\ Len(s) \in Nat
      /\ t[n] = m /\ \A i \in 1 .. Len(s) : t[i] = s[i]
  OBVIOUS
<1> HIDE DEF t
<1>2. IsFiniteSet(Places(s, id)) /\ n \notin Places(s, id)
  <2>1. n \notin 1 .. Len(s)
    BY <1>1
  <2>2. QED
    BY <2>1, PlacesFinite DEF Places
<1>3. /\ Posted(t, id) = Cardinality(Places(t, id))
      /\ Posted(s, id) = Cardinality(Places(s, id)) /\ Posted(s, id) \in Nat
  BY <1>1, PlacesFinite
<1>4. CASE m.id = id
  <2>1. Places(t, id) = Places(s, id) \cup {n}
    BY <1>1, <1>4 DEF Places
  <2>2. Cardinality(Places(t, id)) = Cardinality(Places(s, id)) + 1
    BY <1>2, <2>1, FS_AddElement
  <2>3. QED
    BY <1>3, <1>4, <2>2 DEF t
<1>5. CASE m.id # id
  <2>1. Places(t, id) = Places(s, id)
    BY <1>1, <1>5 DEF Places
  <2>2. QED
    BY <1>3, <1>5, <2>1 DEF t
<1>6. QED
  BY <1>4, <1>5

LEMMA PostedTail ==
  ASSUME NEW S, NEW s \in Seq(S), s # <<>>, NEW id
  PROVE  /\ Posted(Tail(s), id) = Posted(s, id) - (IF Head(s).id = id THEN 1 ELSE 0)
         /\ Head(s).id = id => Posted(s, id) > 0
<1> DEFINE t == Tail(s)
           rest == Places(s, id) \ {1}
<1>1. /\ t \in Seq(S) /\ Len(t) = Len(s) - 1 /\ Len(s) \in Nat /\ Len(s) >= 1
      /\ s[1] = Head(s) /\ \A i \in 1 .. Len(s) - 1 : t[i] = s[i + 1]
  OBVIOUS
<1> HIDE DEF t
<1>2. IsFiniteSet(Places(s, id)) /\ IsFiniteSet(Places(t, id))
  BY <1>1, PlacesFinite
<1>3. Cardinality(Places(t, id)) = Cardinality(rest)
  <2> DEFINE f == [i \in Places(t, id) |-> i + 1]
  <2>1. \A i \in Places(t, id) : i \in 1 .. Len(s) - 1 /\ i + 1 \in rest
    BY <1>1 DEF Places
  <2>2. \A k \in rest : k - 1 \in Places(t, id) /\ (k - 1) + 1 = k
    <3> SUFFICES ASSUME NEW k \in rest
                 PROVE  k - 1 \in Places(t, id) /\ (k - 1) + 1 = k
      OBVIOUS
    <3>1. k \in 1 .. Len(s) /\ k # 1 /\ s[k].id = id
      BY DEF Places
    <3>2. k - 1 \in 1 .. Len(s) - 1 /\ (k - 1) + 1 = k
      BY <1>1, <3>1
    <3>3. t[k - 1] = s[k]
      BY <1>1, <3>2
    <3>4. QED
      BY <1>1, <3>1, <3>2, <3>3 DEF Places
  <2>3. f \in Bijection(Places(t, id), rest)
    <3>1. f \in [Places(t, id) -> rest]
      BY <2>1
    <3>2. \A i, k \in Places(t, id) : f[i] = f[k] => i = k
      BY <2>1
    <3>3. \A k \in rest : \E i \in Places(t, id) : f[i] = k
      BY <2>2
    <3>4. QED
      BY <3>1, <3>2, <3>3, Fun_IsBij
  <2>4. ExistsBijection(Places(t, id), rest)
    BY <2>3 DEF ExistsBijection
  <2>5. QED
    BY <1>2, <2>4, FS_Bijection
<1>4. Cardinality(rest) = IF 1 \in Places(s, id) THEN Cardinality(Places(s, id)) - 1
                                                ELSE Cardinality(Places(s, id))
  BY <1>2, FS_RemoveElement
<1>5. 1 \in Places(s, id) <=> Head(s).id = id
  BY <1>1 DEF Places
<1>6. Posted(s, id) = Cardinality(Places(s, id)) /\ Posted(s, id) \in Nat
      /\ Posted(t, id) = Cardinality(Places(t, id))
  BY <1>1, PlacesFinite
<1>7. Head(s).id = id => Posted(s, id) > 0
  BY <1>1, <1>6, PlacesFinite
<1>8. QED
  BY <1>3, <1>4, <1>5, <1>6, <1>7 DEF t

-----------------------------------------------------------------------------
(* Types, and what the steps do to the mailboxes.                          *)

Rom == Seq(Byte \cup {P!ROM_BYTE_UNKNOWN})

ToWorker == {ReplyWhenReady, GetRomData} \cup {FrameImageData(image) : image \in Images}
ToPage   == {Ready} \cup {RomData(rom) : rom \in Rom}

Flags ==
  /\ is_heavylifting_ready \in BOOLEAN
  /\ is_video_ready \in BOOLEAN
  /\ is_capture_frame_started \in BOOLEAN
  /\ is_ready \in BOOLEAN
  /\ reply_when_ready \in BOOLEAN

Mail ==
  /\ to_worker \in Seq(ToWorker)
  /\ to_page \in Seq(ToPage)
  /\ poll_timers \in Nat
  /\ romout \in Rom

LEMMA Messages ==
  /\ ReplyWhenReady \in ToWorker /\ ReplyWhenReady.id = "reply-when-ready"
  /\ GetRomData \in ToWorker /\ GetRomData.id = "get_rom_data"
  /\ \A image \in Images : /\ FrameImageData(image) \in ToWorker
                           /\ FrameImageData(image).id = "frame_image_data"
                           /\ FrameImageData(image).image = image
  /\ Ready \in ToPage /\ Ready.id = "ready"
  /\ \A rom \in Rom : /\ RomData(rom) \in ToPage
                      /\ RomData(rom).id = "rom_data"
                      /\ RomData(rom).rom_data = rom
BY DEF ReplyWhenReady, GetRomData, FrameImageData, Ready, RomData, ToWorker, ToPage

LEMMA TakenByWorker ==
  ASSUME Mail, NEW id, WorkerTakes(id)
  PROVE  /\ to_worker' \in Seq(ToWorker)
         /\ Head(to_worker) \in ToWorker
         /\ Posted(to_worker, id) > 0
         /\ \A k : Posted(to_worker', k) = Posted(to_worker, k) - (IF id = k THEN 1 ELSE 0)
BY PostedTail DEF Mail, WorkerTakes

LEMMA TakenByPage ==
  ASSUME Mail, NEW id, PageTakes(id)
  PROVE  /\ to_page' \in Seq(ToPage)
         /\ Head(to_page) \in ToPage
         /\ Posted(to_page, id) > 0
         /\ \A k : Posted(to_page', k) = Posted(to_page, k) - (IF id = k THEN 1 ELSE 0)
BY PostedTail DEF Mail, PageTakes

LEMMA PostedToWorker ==
  ASSUME Mail, NEW m \in ToWorker, to_worker' = Append(to_worker, m)
  PROVE  /\ to_worker' \in Seq(ToWorker)
         /\ \A k : Posted(to_worker', k) = Posted(to_worker, k) + (IF m.id = k THEN 1 ELSE 0)
BY PostedAppend DEF Mail

LEMMA PostedToPage ==
  ASSUME Mail, NEW m \in ToPage, NEW posts, PostToPage(posts, m)
  PROVE  /\ to_page' \in Seq(ToPage)
         /\ posts => \A k : Posted(to_page', k) = Posted(to_page, k) + (IF m.id = k THEN 1 ELSE 0)
         /\ ~ posts => to_page' = to_page
BY PostedAppend DEF Mail, PostToPage

LEMMA Counted ==
  ASSUME Mail, NEW id
  PROVE  Posted(to_worker, id) \in Nat /\ Posted(to_page, id) \in Nat
BY PlacesFinite DEF Mail

(* Capture starts once, and posts the first request.                       *)
LEMMA CaptureStart ==
  ASSUME Flags, NEW h \in BOOLEAN, NEW v \in BOOLEAN, check_start_capture_frame(h, v)
  PROVE  \/ /\ h /\ ~ is_capture_frame_started /\ is_capture_frame_started'
            /\ is_capture_frame_started' \in BOOLEAN
            /\ to_worker' = Append(to_worker, GetRomData)
         \/ /\ is_capture_frame_started' = is_capture_frame_started
            /\ to_worker' = to_worker
<1>1. CASE h /\ v /\ ~ is_capture_frame_started
  BY <1>1 DEF check_start_capture_frame
<1>2. CASE ~ (h /\ v /\ ~ is_capture_frame_started)
  BY <1>2 DEF check_start_capture_frame, Flags
<1>3. QED
  BY <1>1, <1>2

LEMMA SnapshotType ==
  ASSUME PP!PoolInv
  PROVE  Snapshot \in Rom
<1>1. /\ rom_data \in [P!Addr -> Byte \cup {P!ROM_BYTE_UNKNOWN}]
      /\ rom_data_not_unknown_max \in 0 .. MaxRomSize
  BY SamePoolTerms, SameCodec DEF PP!PoolInv, PP!TypeOK
<1>2. \A i \in 1 .. rom_data_not_unknown_max : i - 1 \in P!Addr
  BY <1>1, PageAssumption DEF P!Addr
<1>3. rom_data_not_unknown_max \in Nat
  BY <1>1, PageAssumption
<1>4. QED
  BY <1>1, <1>2, <1>3 DEF Snapshot, Rom

-----------------------------------------------------------------------------
(* Each step of the page is a step of the decoder, or leaves it alone.     *)

LEMMA PoolStep ==
  ASSUME Mail, [Next]_vars
  PROVE  [PP!Next]_(PP!vars)
<1>1. CASE OnFrameImageData
  <2>1. WorkerTakes("frame_image_data") /\ P!ProcessFrame(Head(to_worker).image)
    BY <1>1 DEF OnFrameImageData
  <2>2. Head(to_worker) \in ToWorker /\ Head(to_worker).id = "frame_image_data"
    BY <2>1, TakenByWorker DEF WorkerTakes
  <2>3. PICK image \in Images : Head(to_worker) = FrameImageData(image)
    BY <2>2, Messages DEF ToWorker
  <2>4. PP!ProcessFrame(image)
    BY <2>1, <2>3, Messages, SameProcessFrame
  <2>5. QED
    BY <2>4 DEF PP!Next
<1>2. ASSUME NEW w \in P!Workers, Decode(w) \/ Callback(w)
      PROVE  PP!Next
  BY <1>2, SameDecode, SameCallback, SamePoolTerms DEF Decode, Callback, PP!Next
<1>3. CASE \/ OnRuntimeInitialized \/ OnReplyWhenReady \/ OnGetRomData
           \/ PageHandles \/ GotStream \/ OnPlay \/ PollTimer
           \/ (\E image \in Images : CaptureTick(image)) \/ UNCHANGED vars
  <2>1. UNCHANGED poolVars
    BY <1>3 DEF OnRuntimeInitialized, OnReplyWhenReady, OnGetRomData, PageHandles, OnReady,
                OnRomData, GotStream, OnPlay, PollTimer, CaptureTick, vars
  <2>2. QED
    BY <2>1 DEF poolVars, PP!vars
<1>4. CASE HeapTraps
  BY <1>4, SameHeapTraps DEF HeapTraps, PP!Next
<1>5. QED
  BY <1>1, <1>2, <1>3, <1>4 DEF Next, WorkerHandles

PoolSide == PP!PoolInv /\ PP!WindowInv /\ PP!BytesGenuine

LEMMA PoolSideInit == Init => PoolSide
<1>1. PP!Init => PP!PoolInv
  BY PP!PoolInvInit, PoolAssumptions
<1>2. PP!Init => PP!WindowInv
  BY PP!WindowInvInit, PoolAssumptions
<1>3. PP!Init => PP!BytesGenuine
  BY DEF PP!Init, PP!BytesGenuine, PP!Known
<1>4. QED
  BY <1>1, <1>2, <1>3, SamePoolInit DEF Init, PoolSide

LEMMA PoolSideStep ==
  ASSUME PoolSide, Mail, [Next]_vars
  PROVE  PoolSide'
<1>1. PP!PoolInv'
  BY PoolStep, PP!PoolInvStep, PoolAssumptions DEF PoolSide
<1>2. PP!WindowInv'
  BY PoolStep, PP!WindowInvStep, PoolAssumptions DEF PoolSide
<1>3. PP!BytesGenuine'
  BY PoolStep, PP!BytesGenuineStep, PoolAssumptions DEF PoolSide
<1>4. QED
  BY <1>1, <1>2, <1>3 DEF PoolSide

-----------------------------------------------------------------------------
(* The handshake and the poll.                                             *)

(* Whatever was started or announced, the runtime is up.                   *)
StartOrder ==
  /\ is_capture_frame_started => is_ready
  /\ is_heavylifting_ready => is_ready
  /\ Posted(to_page, "ready") > 0 => is_ready
  /\ Posted(to_worker, "frame_image_data") > 0 => is_capture_frame_started

TokenInv == Flags /\ Mail /\ OnePoll /\ StartOrder

LEMMA EmptyMailbox == \A id : Posted(<<>>, id) = 0
<1>1. ASSUME NEW id
      PROVE  Posted(<<>>, id) = 0
  <2>1. {i \in 1 .. Len(<<>>) : <<>>[i].id = id} = {}
    OBVIOUS
  <2>2. QED
    BY <2>1, FS_EmptySet DEF Posted
<1>2. QED
  BY <1>1

LEMMA TokenInvInit == Init => TokenInv
<1> SUFFICES ASSUME Init
             PROVE  TokenInv
  OBVIOUS
<1>1. Flags
  BY DEF Init, Flags
<1>2. Mail
  BY Messages DEF Init, Mail, Rom
<1>3. <<>> \in Seq(ToWorker) /\ ReplyWhenReady \in ToWorker /\ to_worker = Append(<<>>, ReplyWhenReady)
  BY Messages DEF Init
<1>4. \A id : Posted(to_worker, id) = IF ReplyWhenReady.id = id THEN 1 ELSE 0
  <2> SUFFICES ASSUME NEW id
               PROVE  Posted(to_worker, id) = IF ReplyWhenReady.id = id THEN 1 ELSE 0
    OBVIOUS
  <2>1. Posted(Append(<<>>, ReplyWhenReady), id)
          = Posted(<<>>, id) + (IF ReplyWhenReady.id = id THEN 1 ELSE 0)
    BY <1>3, PostedAppend
  <2>2. QED
    BY <1>3, <2>1, EmptyMailbox
<1>5. /\ Posted(to_worker, "get_rom_data") = 0 /\ Posted(to_worker, "frame_image_data") = 0
  BY <1>4, Messages
<1>6. QED
  BY <1>1, <1>2, <1>5, EmptyMailbox DEF Init, TokenInv, OnePoll, StartOrder

LEMMA RuntimeToken ==
  ASSUME TokenInv, OnRuntimeInitialized
  PROVE  TokenInv'
<1>1. /\ is_ready' = TRUE /\ PostToPage(reply_when_ready, Ready)
      /\ UNCHANGED <<pageVars, to_worker, reply_when_ready>>
  BY DEF OnRuntimeInitialized
<1>2. /\ to_page' \in Seq(ToPage)
      /\ Posted(to_page', "rom_data") = Posted(to_page, "rom_data")
  BY <1>1, PostedToPage, Messages, Counted DEF TokenInv
<1>3. Flags'
  BY <1>1 DEF TokenInv, Flags, pageVars
<1>4. Mail'
  BY <1>1, <1>2 DEF TokenInv, Mail, pageVars
<1>5. OnePoll'
  BY <1>1, <1>2 DEF TokenInv, OnePoll, pageVars
<1>6. StartOrder'
  BY <1>1 DEF TokenInv, StartOrder, pageVars
<1>7. QED
  BY <1>3, <1>4, <1>5, <1>6 DEF TokenInv

LEMMA ReplyToken ==
  ASSUME TokenInv, OnReplyWhenReady
  PROVE  TokenInv'
<1>1. /\ WorkerTakes("reply-when-ready") /\ reply_when_ready' = TRUE
      /\ PostToPage(is_ready /\ ~ reply_when_ready, Ready)
      /\ UNCHANGED <<pageVars, is_ready>>
  BY DEF OnReplyWhenReady
<1>2. /\ to_worker' \in Seq(ToWorker)
      /\ Posted(to_worker', "get_rom_data") = Posted(to_worker, "get_rom_data")
      /\ Posted(to_worker', "frame_image_data") = Posted(to_worker, "frame_image_data")
  BY <1>1, TakenByWorker, Counted DEF TokenInv
<1>3. /\ to_page' \in Seq(ToPage)
      /\ Posted(to_page', "rom_data") = Posted(to_page, "rom_data")
      /\ (is_ready \/ to_page' = to_page)
  <2>1. CASE is_ready /\ ~ reply_when_ready
    <3>1. /\ to_page' \in Seq(ToPage)
          /\ \A k : Posted(to_page', k) = Posted(to_page, k) + (IF Ready.id = k THEN 1 ELSE 0)
      BY <1>1, <2>1, PostedToPage, Messages DEF TokenInv
    <3>2. Posted(to_page', "rom_data") = Posted(to_page, "rom_data")
      BY <3>1, Messages, Counted DEF TokenInv
    <3>3. QED
      BY <2>1, <3>1, <3>2
  <2>2. CASE ~ (is_ready /\ ~ reply_when_ready)
    <3>1. to_page' = to_page
      BY <1>1, <2>2 DEF PostToPage
    <3>2. QED
      BY <3>1 DEF TokenInv, Mail
  <2>3. QED
    BY <2>1, <2>2
<1>4. Flags'
  BY <1>1 DEF TokenInv, Flags, pageVars
<1>5. Mail'
  BY <1>1, <1>2, <1>3 DEF TokenInv, Mail, pageVars
<1>6. OnePoll'
  BY <1>1, <1>2, <1>3 DEF TokenInv, OnePoll, pageVars
<1>7. StartOrder'
  BY <1>1, <1>2, <1>3 DEF TokenInv, StartOrder, pageVars
<1>8. QED
  BY <1>4, <1>5, <1>6, <1>7 DEF TokenInv

LEMMA FrameToken ==
  ASSUME TokenInv, OnFrameImageData
  PROVE  TokenInv'
<1>1. WorkerTakes("frame_image_data") /\ UNCHANGED <<pageVars, to_page, wrapperVars>>
  BY DEF OnFrameImageData
<1>2. /\ to_worker' \in Seq(ToWorker)
      /\ Posted(to_worker', "get_rom_data") = Posted(to_worker, "get_rom_data")
      /\ Posted(to_worker, "frame_image_data") > 0
  BY <1>1, TakenByWorker, Counted DEF TokenInv
<1>3. Flags'
  BY <1>1 DEF TokenInv, Flags, pageVars, wrapperVars
<1>4. Mail'
  BY <1>1, <1>2 DEF TokenInv, Mail, pageVars
<1>5. OnePoll'
  BY <1>1, <1>2 DEF TokenInv, OnePoll, pageVars
<1>6. StartOrder'
  BY <1>1, <1>2 DEF TokenInv, StartOrder, pageVars, wrapperVars
<1>7. QED
  BY <1>3, <1>4, <1>5, <1>6 DEF TokenInv

LEMMA AnswerToken ==
  ASSUME TokenInv, PP!PoolInv, OnGetRomData
  PROVE  TokenInv'
<1>1. /\ WorkerTakes("get_rom_data") /\ PostToPage(TRUE, RomData(Snapshot))
      /\ UNCHANGED <<pageVars, wrapperVars>>
  BY DEF OnGetRomData
<1>2. /\ to_worker' \in Seq(ToWorker)
      /\ Posted(to_worker', "get_rom_data") = Posted(to_worker, "get_rom_data") - 1
      /\ Posted(to_worker', "frame_image_data") = Posted(to_worker, "frame_image_data")
  BY <1>1, TakenByWorker, Counted DEF TokenInv
<1>3. /\ RomData(Snapshot) \in ToPage /\ RomData(Snapshot).id = "rom_data"
  BY SnapshotType, Messages
<1>4. /\ to_page' \in Seq(ToPage)
      /\ Posted(to_page', "rom_data") = Posted(to_page, "rom_data") + 1
      /\ Posted(to_page', "ready") = Posted(to_page, "ready")
  <2>1. /\ to_page' \in Seq(ToPage)
        /\ \A k : Posted(to_page', k)
                    = Posted(to_page, k) + (IF RomData(Snapshot).id = k THEN 1 ELSE 0)
    BY <1>1, <1>3, PostedToPage DEF TokenInv
  <2>2. QED
    BY <1>3, <2>1, Counted DEF TokenInv
<1>5. /\ Posted(to_worker, "get_rom_data") \in Nat /\ Posted(to_page, "rom_data") \in Nat
      /\ poll_timers \in Nat
  BY Counted DEF TokenInv, Mail
<1>6. Flags'
  BY <1>1 DEF TokenInv, Flags, pageVars, wrapperVars
<1>7. Mail'
  BY <1>1, <1>2, <1>4 DEF TokenInv, Mail, pageVars
<1>8. OnePoll'
  BY <1>1, <1>2, <1>4, <1>5 DEF TokenInv, OnePoll, pageVars
<1>9. StartOrder'
  BY <1>1, <1>2, <1>4 DEF TokenInv, StartOrder, pageVars, wrapperVars
<1>10. QED
  BY <1>6, <1>7, <1>8, <1>9 DEF TokenInv

(* Starting the capture makes the token, if the page is ready by then.     *)
LEMMA StartToken ==
  ASSUME TokenInv, NEW h \in BOOLEAN, h => is_ready, NEW v \in BOOLEAN,
         check_start_capture_frame(h, v),
         is_heavylifting_ready' \in BOOLEAN, is_video_ready' \in BOOLEAN,
         is_heavylifting_ready' => is_ready,
         UNCHANGED <<poll_timers, romout, wrapperVars>>,
         to_page' \in Seq(ToPage),
         Posted(to_page', "rom_data") = Posted(to_page, "rom_data"),
         Posted(to_page', "ready") > 0 => is_ready
  PROVE  TokenInv'
<1>1. \/ /\ h /\ ~ is_capture_frame_started /\ is_capture_frame_started'
         /\ is_capture_frame_started' \in BOOLEAN
         /\ to_worker' = Append(to_worker, GetRomData)
      \/ /\ is_capture_frame_started' = is_capture_frame_started
         /\ to_worker' = to_worker
  BY CaptureStart DEF TokenInv
<1>2. is_capture_frame_started' \in BOOLEAN
  BY <1>1 DEF TokenInv, Flags
<1>3. /\ is_ready' = is_ready /\ reply_when_ready' = reply_when_ready
      /\ poll_timers' = poll_timers /\ romout' = romout
  BY DEF wrapperVars
<1>4. Flags'
  BY <1>2, <1>3 DEF TokenInv, Flags
<1>5. CASE /\ is_capture_frame_started' = is_capture_frame_started
           /\ to_worker' = to_worker
  <2>1. Mail'
    BY <1>3, <1>5 DEF TokenInv, Mail
  <2>2. OnePoll'
    BY <1>3, <1>5 DEF TokenInv, OnePoll
  <2>3. StartOrder'
    BY <1>3, <1>5 DEF TokenInv, StartOrder
  <2>4. QED
    BY <1>4, <2>1, <2>2, <2>3 DEF TokenInv
<1>6. CASE /\ h /\ ~ is_capture_frame_started /\ is_capture_frame_started'
           /\ to_worker' = Append(to_worker, GetRomData)
  <2>1. /\ to_worker' \in Seq(ToWorker)
        /\ Posted(to_worker', "get_rom_data") = Posted(to_worker, "get_rom_data") + 1
    BY <1>6, PostedToWorker, Messages, Counted DEF TokenInv
  <2>2. /\ Posted(to_worker, "get_rom_data") \in Nat /\ Posted(to_page, "rom_data") \in Nat
        /\ poll_timers \in Nat
    BY Counted DEF TokenInv, Mail
  <2>3. Mail'
    BY <1>3, <2>1 DEF TokenInv, Mail
  <2>4. OnePoll'
    BY <1>3, <1>6, <2>1, <2>2 DEF TokenInv, OnePoll
  <2>5. StartOrder'
    BY <1>3, <1>6 DEF TokenInv, StartOrder
  <2>6. QED
    BY <1>4, <2>3, <2>4, <2>5 DEF TokenInv
<1>7. QED
  BY <1>1, <1>5, <1>6

LEMMA PlayToken ==
  ASSUME TokenInv, OnPlay
  PROVE  TokenInv'
<1>1. /\ is_video_ready' = TRUE
      /\ check_start_capture_frame(is_heavylifting_ready, TRUE)
      /\ UNCHANGED <<is_heavylifting_ready, poll_timers, romout, to_page, wrapperVars>>
  BY DEF OnPlay
<1>2. /\ is_heavylifting_ready \in BOOLEAN
      /\ (is_heavylifting_ready => is_ready)
      /\ to_page \in Seq(ToPage)
      /\ (Posted(to_page, "ready") > 0 => is_ready)
  BY DEF TokenInv, Flags, Mail, StartOrder
<1>3. /\ is_heavylifting_ready' \in BOOLEAN /\ is_video_ready' \in BOOLEAN
      /\ (is_heavylifting_ready' => is_ready)
      /\ to_page' \in Seq(ToPage)
      /\ Posted(to_page', "rom_data") = Posted(to_page, "rom_data")
      /\ (Posted(to_page', "ready") > 0 => is_ready)
  BY <1>1, <1>2
<1>4. QED
  BY <1>1, <1>2, <1>3, StartToken

LEMMA ReadyToken ==
  ASSUME TokenInv, OnReady
  PROVE  TokenInv'
<1>1. /\ PageTakes("ready") /\ is_heavylifting_ready' = TRUE
      /\ check_start_capture_frame(TRUE, is_video_ready)
      /\ UNCHANGED <<is_video_ready, poll_timers, romout, wrapperVars>>
  BY DEF OnReady
<1>2. /\ to_page' \in Seq(ToPage) /\ Posted(to_page, "ready") > 0
      /\ Posted(to_page', "rom_data") = Posted(to_page, "rom_data")
  BY <1>1, TakenByPage, Counted DEF TokenInv
<1>3. is_ready /\ is_video_ready \in BOOLEAN
  BY <1>2 DEF TokenInv, StartOrder, Flags
<1>4. QED
  BY <1>1, <1>2, <1>3, StartToken

LEMMA RomDataToken ==
  ASSUME TokenInv, OnRomData
  PROVE  TokenInv'
<1>1. /\ PageTakes("rom_data")
      /\ romout' = Head(to_page).rom_data /\ poll_timers' = poll_timers + 1
      /\ UNCHANGED <<is_heavylifting_ready, is_video_ready, is_capture_frame_started,
                     to_worker, wrapperVars>>
  BY DEF OnRomData
<1>2. /\ to_page' \in Seq(ToPage) /\ Head(to_page) \in ToPage
      /\ Posted(to_page', "rom_data") = Posted(to_page, "rom_data") - 1
      /\ Posted(to_page', "ready") = Posted(to_page, "ready")
  BY <1>1, TakenByPage, Counted DEF TokenInv
<1>3. romout' \in Rom
  <2>1. Head(to_page).id = "rom_data"
    BY <1>1 DEF PageTakes
  <2>2. PICK rom \in Rom : Head(to_page) = RomData(rom)
    BY <1>2, <2>1, Messages DEF ToPage
  <2>3. QED
    BY <1>1, <2>2, Messages
<1>4. /\ Posted(to_worker, "get_rom_data") \in Nat /\ Posted(to_page, "rom_data") \in Nat
      /\ poll_timers \in Nat
  BY Counted DEF TokenInv, Mail
<1>5. Flags'
  BY <1>1 DEF TokenInv, Flags, wrapperVars
<1>6. Mail'
  BY <1>1, <1>2, <1>3, <1>4 DEF TokenInv, Mail
<1>7. OnePoll'
  BY <1>1, <1>2, <1>4 DEF TokenInv, OnePoll
<1>8. StartOrder'
  BY <1>1, <1>2 DEF TokenInv, StartOrder, wrapperVars
<1>9. QED
  BY <1>5, <1>6, <1>7, <1>8 DEF TokenInv

LEMMA TimerToken ==
  ASSUME TokenInv, PollTimer
  PROVE  TokenInv'
<1>1. /\ poll_timers > 0 /\ poll_timers' = poll_timers - 1
      /\ to_worker' = Append(to_worker, GetRomData)
      /\ UNCHANGED <<is_heavylifting_ready, is_video_ready, is_capture_frame_started,
                     romout, to_page, wrapperVars>>
  BY DEF PollTimer
<1>2. /\ to_worker' \in Seq(ToWorker)
      /\ Posted(to_worker', "get_rom_data") = Posted(to_worker, "get_rom_data") + 1
      /\ Posted(to_worker', "frame_image_data") = Posted(to_worker, "frame_image_data")
  BY <1>1, PostedToWorker, Messages, Counted DEF TokenInv
<1>3. /\ Posted(to_worker, "get_rom_data") \in Nat /\ Posted(to_page, "rom_data") \in Nat
      /\ poll_timers \in Nat
  BY Counted DEF TokenInv, Mail
<1>4. Flags'
  BY <1>1 DEF TokenInv, Flags, wrapperVars
<1>5. Mail'
  BY <1>1, <1>2, <1>3 DEF TokenInv, Mail
<1>6. OnePoll'
  BY <1>1, <1>2, <1>3 DEF TokenInv, OnePoll
<1>7. StartOrder'
  BY <1>1, <1>2 DEF TokenInv, StartOrder, wrapperVars
<1>8. QED
  BY <1>4, <1>5, <1>6, <1>7 DEF TokenInv

LEMMA CaptureToken ==
  ASSUME TokenInv, NEW image \in Images, CaptureTick(image)
  PROVE  TokenInv'
<1>1. /\ is_capture_frame_started
      /\ to_worker' = Append(to_worker, FrameImageData(image))
      /\ UNCHANGED <<pageVars, to_page, wrapperVars>>
  BY DEF CaptureTick
<1>2. /\ to_worker' \in Seq(ToWorker)
      /\ Posted(to_worker', "get_rom_data") = Posted(to_worker, "get_rom_data")
  BY <1>1, PostedToWorker, Messages, Counted DEF TokenInv
<1>3. Flags'
  BY <1>1 DEF TokenInv, Flags, pageVars, wrapperVars
<1>4. Mail'
  BY <1>1, <1>2 DEF TokenInv, Mail, pageVars
<1>5. OnePoll'
  BY <1>1, <1>2 DEF TokenInv, OnePoll, pageVars
<1>6. StartOrder'
  BY <1>1 DEF TokenInv, StartOrder, pageVars, wrapperVars
<1>7. QED
  BY <1>3, <1>4, <1>5, <1>6 DEF TokenInv

LEMMA TokenInvStep ==
  ASSUME TokenInv, PP!PoolInv, [Next]_vars
  PROVE  TokenInv'
<1>1. CASE \/ GotStream \/ HeapTraps \/ UNCHANGED vars
           \/ \E w \in P!Workers : Decode(w) \/ Callback(w)
  <2>1. /\ UNCHANGED <<is_heavylifting_ready, is_video_ready, is_capture_frame_started,
                       poll_timers, romout, to_worker, to_page, wrapperVars>>
    BY <1>1 DEF GotStream, HeapTraps, Decode, Callback, vars, pageVars
  <2>2. Flags'
    BY <2>1 DEF TokenInv, Flags, wrapperVars
  <2>3. Mail' /\ OnePoll'
    BY <2>1 DEF TokenInv, Mail, OnePoll
  <2>4. StartOrder'
    BY <2>1 DEF TokenInv, StartOrder, wrapperVars
  <2>5. QED
    BY <2>2, <2>3, <2>4 DEF TokenInv
<1>2. QED
  BY <1>1, RuntimeToken, ReplyToken, FrameToken, AnswerToken, PlayToken, ReadyToken,
     RomDataToken, TimerToken, CaptureToken
     DEF Next, WorkerHandles, PageHandles

-----------------------------------------------------------------------------
(* What the page shows, and what is on its way to it.                      *)

HasByte(rom, a) == a < Len(rom) /\ rom[a + 1] # P!ROM_BYTE_UNKNOWN

Seen(rom, a, images) ==
  \E image \in images :
    /\ PP!Storable(image)
    /\ PP!Spans(PP!FragmentOf(image), a)
    /\ rom[a + 1] = PP!FragmentOf(image).bytes[a - PP!FragmentOf(image).offset + 1]

(* Every byte of rom is known by now, and was seen.                        *)
MayShow(rom, data, images) ==
  /\ Len(rom) <= MaxRomSize
  /\ \A a \in P!Addr :
       HasByte(rom, a) => data[a] # P!ROM_BYTE_UNKNOWN /\ Seen(rom, a, images)

Extend(rom, old) == \A a \in P!Addr : HasByte(old, a) => HasByte(rom, a)

ShowInv ==
  /\ MayShow(romout, rom_data, submitted)
  /\ \A i \in 1 .. Len(to_page) :
       to_page[i].id = "rom_data" =>
         /\ MayShow(to_page[i].rom_data, rom_data, submitted)
         /\ Extend(to_page[i].rom_data, romout)

LEMMA MayShowStays ==
  ASSUME PoolSide, Mail, [Next]_vars, ~broken', NEW rom, MayShow(rom, rom_data, submitted)
  PROVE  MayShow(rom, rom_data', submitted')
<1>1. submitted \subseteq submitted'
  BY PoolStep, PP!SubmittedGrows, PoolAssumptions
<1>2. ASSUME NEW a \in P!Addr, HasByte(rom, a)
      PROVE  rom_data'[a] # P!ROM_BYTE_UNKNOWN
  <2>1. PP!Known(a) /\ a \in PP!Addr
    BY <1>2, SamePoolTerms DEF MayShow, PP!Known
  <2>2. PP!Known(a)'
    BY <2>1, PoolStep, PP!KnownStays, PoolAssumptions DEF PoolSide
  <2>3. QED
    BY <2>2, SamePoolTerms DEF PP!Known
<1>3. QED
  BY <1>1, <1>2 DEF MayShow, Seen

(* The snapshot has every known byte, and no others.                       *)
LEMMA SnapshotBytes ==
  ASSUME PoolSide, ~broken
  PROVE  /\ Len(Snapshot) <= MaxRomSize
         /\ \A a \in P!Addr : /\ HasByte(Snapshot, a) <=> rom_data[a] # P!ROM_BYTE_UNKNOWN
                              /\ HasByte(Snapshot, a) => Snapshot[a + 1] = rom_data[a]
<1> DEFINE min == rom_data_not_unknown_min
           max == rom_data_not_unknown_max
<1>1. min \in Nat /\ max \in Nat /\ max <= MaxRomSize /\ MaxRomSize \in Nat
  BY PageAssumption DEF PoolSide, PP!PoolInv, PP!TypeOK
<1>2. \A a \in P!Addr : rom_data[a] # P!ROM_BYTE_UNKNOWN => min <= a /\ a < max
  BY SamePoolTerms DEF PoolSide, PP!WindowInv, PP!WindowFits, PP!Known
<1>3. \A a \in P!Addr : a \in Nat
  BY DEF P!Addr
<1> HIDE DEF min, max
<1>4. CASE min < max
  <2>1. Snapshot = [i \in 1 .. max |-> rom_data[i - 1]]
    BY <1>4 DEF Snapshot, min, max
  <2>2. Len(Snapshot) = max
    BY <1>1, <2>1
  <2>3. ASSUME NEW a \in P!Addr, a < max
        PROVE  Snapshot[a + 1] = rom_data[a]
    <3>1. a + 1 \in 1 .. max /\ (a + 1) - 1 = a
      BY <1>1, <1>3, <2>3
    <3>2. QED
      BY <2>1, <3>1
  <2>4. QED
    BY <1>1, <1>2, <2>2, <2>3 DEF HasByte
<1>5. CASE ~ (min < max)
  <2>1. Snapshot = <<>>
    BY <1>5 DEF Snapshot, min, max
  <2>2. Len(Snapshot) = 0
    BY <2>1
  <2>3. \A a \in P!Addr : ~ HasByte(Snapshot, a) /\ rom_data[a] = P!ROM_BYTE_UNKNOWN
    BY <1>1, <1>2, <1>3, <1>5, <2>2 DEF HasByte
  <2>4. QED
    BY <1>1, <2>2, <2>3
<1>6. QED
  BY <1>4, <1>5

LEMMA SnapshotMayBeShown ==
  ASSUME PoolSide, ~broken
  PROVE  /\ MayShow(Snapshot, rom_data, submitted)
         /\ \A rom : MayShow(rom, rom_data, submitted) => Extend(Snapshot, rom)
<1>1. ASSUME NEW a \in P!Addr, HasByte(Snapshot, a)
      PROVE  Seen(Snapshot, a, submitted)
  <2>1. PP!Known(a) /\ a \in PP!Addr /\ Snapshot[a + 1] = rom_data[a]
    BY <1>1, SnapshotBytes, SamePoolTerms DEF PP!Known
  <2>2. QED
    BY <2>1 DEF PoolSide, PP!BytesGenuine, Seen
<1>2. QED
  BY <1>1, SnapshotBytes DEF MayShow, Extend

(* A step that leaves the shown image alone posts nothing but snapshots.   *)
LEMMA MailKept ==
  ASSUME Mail, PP!PoolInv, [Next]_vars, ~ OnRomData
  PROVE  /\ romout' = romout
         /\ \A i \in 1 .. Len(to_page') :
              to_page'[i].id = "rom_data" =>
                \/ \E k \in 1 .. Len(to_page) : to_page'[i] = to_page[k]
                \/ to_page'[i].rom_data = Snapshot
<1>1. romout' = romout
  BY DEF Next, WorkerHandles, PageHandles, OnRuntimeInitialized, OnReplyWhenReady,
         OnFrameImageData, OnGetRomData, OnReady, GotStream, OnPlay, PollTimer,
         CaptureTick, Decode, Callback, HeapTraps, vars, pageVars
<1>2. to_page \in Seq(ToPage)
  BY DEF Mail
<1>3. CASE to_page' = to_page
  BY <1>1, <1>3
<1>4. ASSUME NEW m \in ToPage, to_page' = Append(to_page, m), m.id = "rom_data" => m.rom_data = Snapshot,
             NEW i \in 1 .. Len(to_page'), to_page'[i].id = "rom_data"
      PROVE  \/ \E k \in 1 .. Len(to_page) : to_page'[i] = to_page[k]
             \/ to_page'[i].rom_data = Snapshot
  <2>1. CASE i \in 1 .. Len(to_page)
    BY <1>2, <1>4, <2>1
  <2>2. CASE i \notin 1 .. Len(to_page)
    <3>1. to_page'[i] = m
      BY <1>2, <1>4, <2>2
    <3>2. QED
      BY <1>4, <3>1
  <2>3. QED
    BY <2>1, <2>2
<1>5. ASSUME NEW posts, NEW m \in ToPage, PostToPage(posts, m)
      PROVE  to_page' = to_page \/ to_page' = Append(to_page, m)
  BY <1>5 DEF PostToPage
<1>6. CASE OnRuntimeInitialized \/ OnReplyWhenReady
  <2>1. to_page' = to_page \/ to_page' = Append(to_page, Ready)
    BY <1>5, <1>6, Messages DEF OnRuntimeInitialized, OnReplyWhenReady
  <2>2. QED
    BY <1>1, <1>3, <1>4, <2>1, Messages
<1>7. CASE OnGetRomData
  <2>1. to_page' = Append(to_page, RomData(Snapshot))
    BY <1>7 DEF OnGetRomData, PostToPage
  <2>2. RomData(Snapshot) \in ToPage /\ RomData(Snapshot).rom_data = Snapshot
    BY SnapshotType, Messages
  <2>3. QED
    BY <1>1, <1>4, <2>1, <2>2
<1>8. CASE OnReady
  <2>1. to_page # <<>> /\ to_page' = Tail(to_page)
    BY <1>8 DEF OnReady, PageTakes
  <2>2. \A i \in 1 .. Len(to_page') : i + 1 \in 1 .. Len(to_page) /\ to_page'[i] = to_page[i + 1]
    BY <1>2, <2>1
  <2>3. QED
    BY <1>1, <2>2
<1>9. CASE \/ OnFrameImageData \/ GotStream \/ OnPlay \/ PollTimer \/ HeapTraps
           \/ (\E image \in Images : CaptureTick(image))
           \/ (\E w \in P!Workers : Decode(w) \/ Callback(w)) \/ UNCHANGED vars
  <2>1. to_page' = to_page
    BY <1>9 DEF OnFrameImageData, GotStream, OnPlay, PollTimer, CaptureTick, Decode,
                Callback, HeapTraps, vars
  <2>2. QED
    BY <1>1, <1>3, <2>1
<1>10. QED
  BY <1>6, <1>7, <1>8, <1>9 DEF Next, WorkerHandles, PageHandles

LEMMA ShowInvStep ==
  ASSUME TokenInv, PoolSide, ~broken => ShowInv, [Next]_vars, ~broken'
  PROVE  ShowInv' /\ Extend(romout', romout)
<1>0. Mail /\ PP!PoolInv
  BY DEF TokenInv, PoolSide
<1>1. Mail /\ PP!PoolInv /\ ~broken /\ ShowInv
  BY <1>0, PoolStep, PP!BrokenStays, PoolAssumptions
<1>2. CASE ~ OnRomData
  <2>1. romout' = romout /\ MayShow(romout, rom_data', submitted')
    BY <1>1, <1>2, MailKept, MayShowStays DEF ShowInv
  <2>2. ASSUME NEW i \in 1 .. Len(to_page'), to_page'[i].id = "rom_data"
        PROVE  /\ MayShow(to_page'[i].rom_data, rom_data', submitted')
               /\ Extend(to_page'[i].rom_data, romout)
    <3>1. CASE \E k \in 1 .. Len(to_page) : to_page'[i] = to_page[k]
      <4>1. PICK k \in 1 .. Len(to_page) : to_page'[i] = to_page[k]
        BY <3>1
      <4>2. /\ MayShow(to_page[k].rom_data, rom_data, submitted)
            /\ Extend(to_page[k].rom_data, romout)
        BY <1>1, <2>2, <4>1 DEF ShowInv
      <4>3. QED
        BY <1>1, <4>1, <4>2, MayShowStays
    <3>2. CASE to_page'[i].rom_data = Snapshot
      <4>1. /\ MayShow(Snapshot, rom_data, submitted)
            /\ Extend(Snapshot, romout)
        BY <1>1, SnapshotMayBeShown DEF ShowInv
      <4>2. QED
        BY <1>1, <3>2, <4>1, MayShowStays
    <3>3. QED
      BY <1>1, <1>2, <2>2, <3>1, <3>2, MailKept
  <2>3. ShowInv'
    BY <2>1, <2>2 DEF ShowInv, MayShow, Extend, HasByte, Seen
  <2>4. QED
    BY <2>1, <2>3 DEF Extend
<1>3. CASE OnRomData
  <2>1. /\ PageTakes("rom_data") /\ romout' = Head(to_page).rom_data
        /\ poll_timers' = poll_timers + 1
    BY <1>3 DEF OnRomData
  <2>2. /\ Head(to_page) = to_page[1] /\ 1 \in 1 .. Len(to_page)
        /\ to_page[1].id = "rom_data"
    BY <1>1, <2>1 DEF Mail, PageTakes
  <2>3. /\ MayShow(romout', rom_data, submitted)
        /\ Extend(romout', romout)
    BY <1>1, <2>1, <2>2 DEF ShowInv
  <2>4. MayShow(romout', rom_data', submitted')
    BY <1>1, <2>3, MayShowStays
  <2>5. \A i \in 1 .. Len(to_page') : to_page'[i].id # "rom_data"
    <3>1. OnePoll' /\ Mail' /\ poll_timers \in Nat
      BY <1>1, TokenInvStep DEF TokenInv, Mail
    <3>2. /\ Posted(to_worker', "get_rom_data") \in Nat
          /\ Posted(to_page', "rom_data") \in Nat
          /\ Posted(to_page', "rom_data") = 0
               => \A i \in 1 .. Len(to_page') : to_page'[i].id # "rom_data"
      BY <3>1, PlacesFinite DEF Mail
    <3>3. Posted(to_page', "rom_data") = 0
      BY <2>1, <3>1, <3>2 DEF OnePoll
    <3>4. QED
      BY <3>2, <3>3
  <2>6. QED
    BY <2>3, <2>4, <2>5 DEF ShowInv, MayShow, Extend, HasByte, Seen
<1>4. QED
  BY <1>2, <1>3

-----------------------------------------------------------------------------
(* The invariant of the page, and what follows from it.                    *)

(* What is shown is only known as long as nothing was written outside the  *)
(* ROM image; the poll does not depend on it.                              *)
PageInv == TokenInv /\ PoolSide /\ (~broken => ShowInv)

LEMMA PageInvInit == Init => PageInv
<1> SUFFICES ASSUME Init
             PROVE  ShowInv
  BY TokenInvInit, PoolSideInit DEF PageInv
<1>1. romout = <<>> /\ to_page = <<>>
  BY DEF Init
<1>2. Len(romout) = 0 /\ Len(to_page) = 0
  BY <1>1
<1>3. \A a \in P!Addr : ~ HasByte(romout, a)
  BY <1>2 DEF HasByte, P!Addr
<1>4. MayShow(romout, rom_data, submitted)
  BY <1>2, <1>3, PageAssumption DEF MayShow
<1>5. QED
  BY <1>2, <1>4 DEF ShowInv

LEMMA PageInvariant == Spec => []PageInv
<1>1. PageInv /\ [Next]_vars => PageInv'
  <2> SUFFICES ASSUME PageInv, [Next]_vars
               PROVE  PageInv'
    OBVIOUS
  <2>1. TokenInv /\ PoolSide /\ (~broken => ShowInv) /\ Mail /\ PP!PoolInv
    BY DEF PageInv, TokenInv, PoolSide
  <2>2. TokenInv' /\ PoolSide' /\ (~broken' => ShowInv')
    BY <2>1, TokenInvStep, PoolSideStep, ShowInvStep
  <2>3. QED
    BY <2>2 DEF PageInv
<1>2. QED
  BY <1>1, PageInvInit, PTL DEF Spec

(* TypeOK: page, wrapper and mailboxes hold what their types allow; in     *)
(* particular there is never a second poll timer.                          *)
THEOREM PageTypeCorrect == Spec => []TypeOK
<1> DEFINE VideoOK == video \in {"requested", "refused", "loading", "playing"}
<1>1. Init => VideoOK
  BY DEF Init
<1>2. ASSUME VideoOK, [Next]_vars
      PROVE  VideoOK'
  BY <1>2 DEF Next, WorkerHandles, PageHandles, OnRuntimeInitialized, OnReplyWhenReady,
              OnFrameImageData, OnGetRomData, OnReady, OnRomData, GotStream, OnPlay,
              PollTimer, CaptureTick, Decode, Callback, HeapTraps, vars, pageVars
<1>3. ASSUME TokenInv, VideoOK
      PROVE  TypeOK
  <2>1. {is_heavylifting_ready, is_video_ready, is_capture_frame_started,
         is_ready, reply_when_ready} \subseteq BOOLEAN
    BY <1>3, Zenon DEF TokenInv, Flags
  <2>2. /\ Posted(to_worker, "get_rom_data") \in Nat /\ Posted(to_page, "rom_data") \in Nat
        /\ poll_timers \in Nat
    BY <1>3, Counted DEF TokenInv, Mail
  <2>3. poll_timers \in 0 .. 1
    BY <1>3, <2>2 DEF TokenInv, OnePoll
  <2>4. \A i \in 1 .. Len(to_worker) : to_worker[i] \in ToWorker
    BY <1>3 DEF TokenInv, Mail
  <2>5. \A i \in 1 .. Len(to_page) : to_page[i] \in ToPage
    BY <1>3 DEF TokenInv, Mail
  <2>6. \A m \in ToPage : m.id \in {"ready", "rom_data"}
    BY Messages DEF ToPage
  <2>7. \A m \in ToWorker : \/ m \in {ReplyWhenReady, GetRomData}
                            \/ \E image \in Images : m = FrameImageData(image)
    BY DEF ToWorker
  <2>8. romout \in Seq(Byte \cup {P!ROM_BYTE_UNKNOWN})
    BY <1>3 DEF TokenInv, Mail, Rom
  <2>9. QED
    BY <1>3, <2>1, <2>3, <2>4, <2>5, <2>6, <2>7, <2>8 DEF TypeOK
<1>4. QED
  BY <1>1, <1>2, <1>3, PageInvariant, PTL DEF Spec, PageInv

(* OnePoll: once capture has started there is exactly one request, answer  *)
(* or timer, whatever gets ready first.                                    *)
THEOREM PollIsAToken == Spec => []OnePoll
BY PageInvariant, PTL DEF PageInv, TokenInv

(* CallsAfterInit: nothing that calls into the runtime is posted before    *)
(* onRuntimeInitialized.                                                   *)
THEOREM RuntimeFirst == Spec => []CallsAfterInit
<1>1. ASSUME TokenInv
      PROVE  CallsAfterInit
  <2>1. /\ Posted(to_worker, "get_rom_data") \in Nat /\ Posted(to_page, "rom_data") \in Nat
        /\ Posted(to_worker, "frame_image_data") \in Nat /\ poll_timers \in Nat
    BY <1>1, Counted DEF TokenInv, Mail
  <2>2. Posted(to_worker, "get_rom_data") > 0 => is_capture_frame_started
    BY <1>1, <2>1 DEF TokenInv, OnePoll
  <2>3. QED
    BY <1>1, <2>1, <2>2 DEF TokenInv, StartOrder, CallsAfterInit
<1>2. QED
  BY <1>1, PageInvariant, PTL DEF PageInv

(* ShownGenuine: until something is written outside the ROM image, every   *)
(* byte on the page stands where the header of a frame that was handed to  *)
(* the decoder put it.                                                     *)
THEOREM PageShowsWhatWasSeen == Spec => []ShownGenuine
<1>1. ASSUME TokenInv, PoolSide, ~broken => ShowInv
      PROVE  ShownGenuine
  <2> SUFFICES ASSUME ~broken,
                      NEW i \in 1 .. Len(romout), romout[i] # P!ROM_BYTE_UNKNOWN
               PROVE  \E image \in submitted :
                        /\ P!Storable(image)
                        /\ P!Spans(P!FragmentOf(image), i - 1)
                        /\ romout[i] = P!FragmentOf(image).bytes[i - P!FragmentOf(image).offset]
    BY DEF ShownGenuine
  <2>1. Len(romout) \in Nat /\ Len(romout) <= MaxRomSize /\ MaxRomSize \in Nat
    BY <1>1, PageAssumption DEF TokenInv, Mail, Rom, ShowInv, MayShow
  <2>2. i - 1 \in P!Addr /\ i - 1 < Len(romout) /\ (i - 1) + 1 = i
    BY <2>1 DEF P!Addr
  <2>3. HasByte(romout, i - 1)
    BY <2>2 DEF HasByte
  <2>4. PICK image \in submitted :
          /\ PP!Storable(image)
          /\ PP!Spans(PP!FragmentOf(image), i - 1)
          /\ romout[i] = PP!FragmentOf(image).bytes[(i - 1) - PP!FragmentOf(image).offset + 1]
    BY <1>1, <2>2, <2>3 DEF ShowInv, MayShow, Seen
  <2>5. /\ P!Storable(image)
        /\ P!Spans(P!FragmentOf(image), i - 1)
        /\ P!FragmentOf(image) = PP!FragmentOf(image)
    BY <2>4, SameSight
  <2>6. (i - 1) - P!FragmentOf(image).offset + 1 = i - P!FragmentOf(image).offset
    <3>1. image \in Images
      BY <1>1 DEF PoolSide, PP!PoolInv, PP!TypeOK
    <3>2. PP!FragmentOf(image) \in PP!Fragment
      BY <2>4, <3>1, PP!FragmentType, PoolAssumptions DEF PP!Storable, PP!Accepted
    <3>3. P!FragmentOf(image).offset \in Nat
      BY <2>5, <3>2 DEF PP!Fragment
    <3>4. QED
      BY <2>2, <3>3
  <2>7. QED
    BY <2>4, <2>5, <2>6
<1>2. QED
  BY <1>1, PageInvariant, PTL DEF PageInv

(* ShownStays: no later snapshot takes a byte off the page, with the same  *)
(* reservation.                                                            *)
THEOREM PageForgetsNothing == Spec => ShownStays
<1>1. ASSUME PageInv, [Next]_vars, ~broken'
      PROVE  \A a \in P!Addr : Shown(a) => Shown(a)'
  <2>1. Extend(romout', romout)
    BY <1>1, ShowInvStep DEF PageInv
  <2>2. QED
    BY <2>1 DEF Extend, HasByte, Shown
<1>2. QED
  BY <1>1, PageInvariant, PTL DEF Spec, ShownStays

=============================================================================
