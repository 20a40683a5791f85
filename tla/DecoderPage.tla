----------------------------- MODULE DecoderPage -----------------------------
(***************************************************************************)
(* The web page: main.js, which shows the ROM image and feeds the camera's *)
(* frames in, and wrap_heavylifting_worker.js, the thread that holds       *)
(* heavylifting_main (DecodePool).                                         *)
(*                                                                         *)
(* The two threads share nothing but two mailboxes, which keep the order   *)
(* of what is posted.  A message handler or timer callback runs to its end *)
(* before its thread looks at the next event, so each is one action.       *)
(***************************************************************************)
EXTENDS FragmentCodec, FiniteSets

CONSTANTS N_IMGDEC_WORKERS, MaxRomSize, DecodedBufLen, Images,  \* see DecodePool
          MaxAwaited   \* bound: frames on their way and calls per worker

VARIABLES
  video,                     \* where getUserMedia and the video element are
  is_heavylifting_ready,
  is_video_ready,
  is_capture_frame_started,
  poll_timers,               \* timeouts of setTimeout(send_get_rom_data_message)
  romout,                    \* the ROM image the page shows
  to_worker,                 \* posted to the worker, not yet handled
  to_page,                   \* posted to the page, not yet handled
  is_ready,
  reply_when_ready,
  rom_data, rom_data_not_unknown_min, rom_data_not_unknown_max, broken, aborted,
  queue, responses, awaited, alive, submitted

P == INSTANCE DecodePool

(* What the decoder assumes of its constants (see DecodePool).             *)
ASSUME PageAssumption ==
  /\ N_IMGDEC_WORKERS \in Nat \ {0}
  /\ MaxRomSize \in Nat \ {0} /\ MaxRomSize < WordSize
  /\ DecodedBufLen \in Nat /\ DecodedBufLen < WordSize
  /\ MaxAwaited \in Nat
  /\ Images \subseteq Seq(Seq(Byte))

pageVars    == <<video, is_heavylifting_ready, is_video_ready,
                 is_capture_frame_started, poll_timers, romout>>
wrapperVars == <<is_ready, reply_when_ready>>
poolVars    == <<rom_data, rom_data_not_unknown_min, rom_data_not_unknown_max,
                 broken, aborted, queue, responses, awaited, alive, submitted>>
vars        == <<pageVars, to_worker, to_page, wrapperVars, poolVars>>

\* The messages, named by their id.
ReplyWhenReady == [id |-> "reply-when-ready"]
FrameImageData(image) == [id |-> "frame_image_data", image |-> image]
GetRomData == [id |-> "get_rom_data"]
Ready == [id |-> "ready"]
RomData(rom) == [id |-> "rom_data", rom_data |-> rom]

\* How many messages of one kind wait in a mailbox.
Posted(mailbox, id) == Cardinality({i \in 1 .. Len(mailbox) : mailbox[i].id = id})

(* The page's script has run to its end; the worker is still loading.      *)
Init ==
  /\ video = "requested"
  /\ is_heavylifting_ready = FALSE
  /\ is_video_ready = FALSE
  /\ is_capture_frame_started = FALSE
  /\ poll_timers = 0
  /\ romout = <<>>
  /\ to_worker = <<ReplyWhenReady>>
  /\ to_page = <<>>
  /\ is_ready = FALSE
  /\ reply_when_ready = FALSE
  /\ P!Init

-----------------------------------------------------------------------------
(* The worker.                                                             *)

WorkerTakes(id) ==
  /\ to_worker # <<>>
  /\ Head(to_worker).id = id
  /\ to_worker' = Tail(to_worker)

PostToPage(posts, message) ==
  to_page' = IF posts THEN Append(to_page, message) ELSE to_page

\* onRuntimeInitialized: heavylifting_init, and the calls exist from here on.
OnRuntimeInitialized ==
  /\ ~is_ready
  /\ is_ready' = TRUE
  /\ PostToPage(reply_when_ready, Ready)
  /\ UNCHANGED <<pageVars, to_worker, reply_when_ready, poolVars>>

\* Faulty: the runtime is expected to be up later than the question.
OnReplyWhenReady_NotYet ==
  /\ WorkerTakes("reply-when-ready")
  /\ reply_when_ready' = TRUE
  /\ UNCHANGED <<pageVars, to_page, is_ready, poolVars>>

OnReplyWhenReady ==
  /\ WorkerTakes("reply-when-ready")
  /\ reply_when_ready' = TRUE
  /\ PostToPage(is_ready /\ ~reply_when_ready, Ready)
  /\ UNCHANGED <<pageVars, is_ready, poolVars>>

\* process_frame
OnFrameImageData ==
  /\ WorkerTakes("frame_image_data")
  /\ P!ProcessFrame(Head(to_worker).image)
  /\ UNCHANGED <<pageVars, to_page, wrapperVars>>

\* Faulty: starts at the first known byte.
Snapshot_FromMin ==
  [i \in 1 .. rom_data_not_unknown_max - rom_data_not_unknown_min
     |-> rom_data[rom_data_not_unknown_min + i - 1]]

Snapshot ==
  IF rom_data_not_unknown_min < rom_data_not_unknown_max
    THEN [i \in 1 .. rom_data_not_unknown_max |-> rom_data[i - 1]]
    ELSE <<>>

\* send_rom_data
OnGetRomData ==
  /\ WorkerTakes("get_rom_data")
  /\ PostToPage(TRUE, RomData(Snapshot))
  /\ UNCHANGED <<pageVars, wrapperVars, poolVars>>

\* decode_image_callback runs in this thread too.
Callback(w) ==
  /\ P!Callback(w)
  /\ UNCHANGED <<pageVars, to_worker, to_page, wrapperVars>>

HeapTraps ==
  /\ P!HeapTraps
  /\ UNCHANGED <<pageVars, to_worker, to_page, wrapperVars>>

Decode(w) ==
  /\ P!DecodeImage(w) \/ P!DecodeImageAsserts(w)
  /\ UNCHANGED <<pageVars, to_worker, to_page, wrapperVars>>

-----------------------------------------------------------------------------
(* The page.                                                               *)

PageTakes(id) ==
  /\ to_page # <<>>
  /\ Head(to_page).id = id
  /\ to_page' = Tail(to_page)

\* check_start_capture_frame and do_start_capture_frame: capture starts when
\* both are ready, and with it the first poll.
check_start_capture_frame(heavylifting, ready_video) ==
  LET starts == heavylifting /\ ready_video /\ ~is_capture_frame_started
  IN  /\ is_capture_frame_started' = (is_capture_frame_started \/ starts)
      /\ to_worker' = IF starts THEN Append(to_worker, GetRomData) ELSE to_worker

GotStream ==
  /\ video = "requested"
  /\ video' \in {"loading", "refused"}
  /\ UNCHANGED <<is_heavylifting_ready, is_video_ready, is_capture_frame_started,
                 poll_timers, romout, to_worker, to_page, wrapperVars, poolVars>>

\* video_play_listener removes itself: it runs at the first play event only.
OnPlay ==
  /\ video = "loading"
  /\ video' = "playing"
  /\ is_video_ready' = TRUE
  /\ check_start_capture_frame(is_heavylifting_ready, TRUE)
  /\ UNCHANGED <<is_heavylifting_ready, poll_timers, romout, to_page,
                 wrapperVars, poolVars>>

\* A second "ready" would find capture started, and change nothing.
OnReady ==
  /\ PageTakes("ready")
  /\ is_heavylifting_ready' = TRUE
  /\ check_start_capture_frame(TRUE, is_video_ready)
  /\ UNCHANGED <<video, is_video_ready, poll_timers, romout, wrapperVars, poolVars>>

\* Faulty: an empty image is not worth another poll.
OnRomData_StopsAtEmpty ==
  /\ PageTakes("rom_data")
  /\ romout' = Head(to_page).rom_data
  /\ poll_timers' = IF romout' = <<>> THEN poll_timers ELSE poll_timers + 1
  /\ UNCHANGED <<video, is_heavylifting_ready, is_video_ready,
                 is_capture_frame_started, to_worker, wrapperVars, poolVars>>

\* received_rom_data
OnRomData ==
  /\ PageTakes("rom_data")
  /\ romout' = Head(to_page).rom_data
  /\ poll_timers' = poll_timers + 1
  /\ UNCHANGED <<video, is_heavylifting_ready, is_video_ready,
                 is_capture_frame_started, to_worker, wrapperVars, poolVars>>

\* Faulty: a timer that stays.
PollTimer_Interval ==
  /\ poll_timers > 0
  /\ to_worker' = Append(to_worker, GetRomData)
  /\ UNCHANGED <<pageVars, to_page, wrapperVars, poolVars>>

PollTimer ==
  /\ poll_timers > 0
  /\ poll_timers' = poll_timers - 1
  /\ to_worker' = Append(to_worker, GetRomData)
  /\ UNCHANGED <<video, is_heavylifting_ready, is_video_ready,
                 is_capture_frame_started, romout, to_page, wrapperVars, poolVars>>

FramesUnderWay == Posted(to_worker, "frame_image_data")

\* The callback of capture_frames, called at its own pace: nothing tells it how
\* far the decoder has got.  MaxAwaited bounds it, not the code.
CaptureTick(image) ==
  /\ is_capture_frame_started
  /\ \A w \in P!Workers : awaited[w] + FramesUnderWay < MaxAwaited
  /\ to_worker' = Append(to_worker, FrameImageData(image))
  /\ UNCHANGED <<pageVars, to_page, wrapperVars, poolVars>>

-----------------------------------------------------------------------------
WorkerHandles == OnReplyWhenReady \/ OnFrameImageData \/ OnGetRomData

PageHandles == OnReady \/ OnRomData

Next ==
  \/ OnRuntimeInitialized
  \/ WorkerHandles
  \/ PageHandles
  \/ GotStream
  \/ OnPlay
  \/ PollTimer
  \/ \E image \in Images : CaptureTick(image)
  \/ \E w \in P!Workers : Decode(w) \/ Callback(w)
  \/ HeapTraps

Spec == Init /\ [][Next]_vars

(* The event loops run, and the wasm module loads.  Nothing is asked of    *)
(* the camera: the user may refuse it, and it may deliver no frame.        *)
Fairness ==
  /\ WF_vars(OnRuntimeInitialized)
  /\ WF_vars(WorkerHandles)
  /\ WF_vars(PageHandles)
  /\ WF_vars(OnPlay)
  /\ WF_vars(PollTimer)
  /\ \A w \in P!Workers : WF_vars(Decode(w)) /\ WF_vars(Callback(w))

FairSpec == Spec /\ Fairness

-----------------------------------------------------------------------------
(* Properties.                                                             *)

\* Type correctness of the page's and the wrapper's variables.
TypeOK ==
  /\ video \in {"requested", "refused", "loading", "playing"}
  /\ {is_heavylifting_ready, is_video_ready, is_capture_frame_started,
      is_ready, reply_when_ready} \subseteq BOOLEAN
  /\ poll_timers \in 0 .. 1
  /\ romout \in Seq(Byte \cup {P!ROM_BYTE_UNKNOWN})
  /\ \A i \in 1 .. Len(to_worker) :
       \/ to_worker[i] \in {ReplyWhenReady, GetRomData}
       \/ \E image \in Images : to_worker[i] = FrameImageData(image)
  /\ \A i \in 1 .. Len(to_page) : to_page[i].id \in {"ready", "rom_data"}

\* The poll is a token: from the start of the capture on there is one request,
\* one answer or one timer, never two and never none, whatever the order in
\* which the runtime, the handshake and the camera get ready.
OnePoll ==
  Posted(to_worker, "get_rom_data") + Posted(to_page, "rom_data") + poll_timers
    = IF is_capture_frame_started THEN 1 ELSE 0

\* What makes the worker call into the runtime is posted only after
\* onRuntimeInitialized has defined the calls.
CallsAfterInit ==
  Posted(to_worker, "get_rom_data") + Posted(to_worker, "frame_image_data") > 0
    => is_ready

\* The page shows nothing that was not seen: a byte stands where the header of
\* some submitted frame put it.  Here and below nothing is claimed once the decoder
\* has written outside its ROM image (see DecodePool).
ShownGenuine ==
  ~broken => \A i \in 1 .. Len(romout) :
    romout[i] # P!ROM_BYTE_UNKNOWN =>
      \E image \in submitted :
        /\ P!Storable(image)
        /\ P!Spans(P!FragmentOf(image), i - 1)
        /\ romout[i] = P!FragmentOf(image).bytes[i - P!FragmentOf(image).offset]

Shown(a) == a < Len(romout) /\ romout[a + 1] # P!ROM_BYTE_UNKNOWN

\* The page never forgets a byte: polls are answered and shown in order, and the
\* window of the snapshots only grows.
ShownStays == [][~broken' => \A a \in P!Addr : Shown(a) => Shown(a)']_vars

\* No wakeup is lost in the handshake: if the camera is granted, capture starts.
CaptureStarts == video = "loading" ~> is_capture_frame_started

\* Every known byte gets to the page, however many frames are in its way, and
\* even if an assertion has ended the decoder.
KnownIsShown == \A a \in P!Addr : P!Known(a) ~> Shown(a) \/ broken

=============================================================================
