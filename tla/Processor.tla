------------------------------- MODULE Processor -------------------------------
(***************************************************************************)
(* A threaded zbar processor, zbar/processor.c: application threads call   *)
(* its functions while the video thread captures images, scans them and    *)
(* calls the application's handler, which may call the functions in turn.  *)
(* Every function takes the API lock of ProcessorLock first and lets it go *)
(* last; between the two it runs without the mutex.                        *)
(*                                                                         *)
(* A thread has a stack of the calls it is in.  The functions that only    *)
(* read or set a field between the two are one operation, "field".         *)
(***************************************************************************)
EXTENDS ProcessorLock

CONSTANTS
  Apps,            \* the application's threads
  Video,           \* the video thread
  Calls,           \* the calls each application thread makes
  HandlerCalls,    \* the calls the application's handler makes
  visible,         \* the display window is shown
  DeviceMayFail    \* the video device may refuse to start or to stop

ASSUME ProcessorAssumption ==
  /\ Threads = Apps \cup {Video} /\ Video \notin Apps
  /\ visible \in BOOLEAN /\ DeviceMayFail \in BOOLEAN

VARIABLES
  streaming,     \* proc->streaming
  active,        \* video->active: the device delivers images
  video_at,      \* where the video thread is
  video_event,   \* the event video_thread.notify
  stack          \* the calls a thread is in, the innermost last

vars == <<lockVars, streaming, active, video_at, video_event, stack>>
devVars == <<streaming, active, video_at, video_event>>

\* A call: arg says whether a wait has a timeout, or what set_active shall set;
\* at is the place in the function, and ok what the last call it made returned.
Call(op, arg) == [op |-> op, arg |-> arg, at |-> "start", ok |-> TRUE]

AppCalls ==
  { Call("field", FALSE), Call("image", FALSE) }
    \cup { Call(op, arg) : op \in {"set_active", "process_one", "user_wait"}, arg \in BOOLEAN }

ASSUME CallsAssumption ==
  Calls \in [Apps -> SUBSET AppCalls] /\ HandlerCalls \subseteq AppCalls

PInit ==
  /\ Init
  /\ streaming = FALSE /\ active = FALSE
  /\ video_at = "top" /\ video_event = 0
  /\ stack = [t \in Threads |-> <<>>]

Depth(t) == Len(stack[t])
Top(t)   == stack[t][Depth(t)]

\* t runs in a call of op, at the place given.
At(t, op, place) == Runs(t) /\ Depth(t) > 0 /\ Top(t).op = op /\ Top(t).at = place

Goto(t, place) == stack' = [stack EXCEPT ![t][Depth(t)].at = place]

\* proc_enter: the mutex and the API lock, for which it may have to wait.
Enter(t, call) == Lock(t) /\ stack' = [stack EXCEPT ![t] = Append(@, call)]

\* A call made from within a function, which goes on at the place given.
EnterFrom(t, call, place) ==
  /\ Lock(t)
  /\ stack' = [stack EXCEPT ![t] = Append([stack[t] EXCEPT ![Depth(t)].at = place], call)]

\* proc_leave: the caller is told whether the call worked.
Back(t, ok) ==
  LET outer == SubSeq(stack[t], 1, Depth(t) - 1) IN
  stack' = [stack EXCEPT ![t] =
              IF outer = <<>> THEN outer ELSE [outer EXCEPT ![Len(outer)].ok = ok]]

Leave(t, op) == At(t, op, "leave") /\ Unlock(t) /\ Back(t, Top(t).ok)

-----------------------------------------------------------------------------
(* zbar_processor_set_active.                                              *)

VideoEnable(t) ==
  /\ At(t, "set_active", "start")
  /\ \/ active' = Top(t).arg /\ Goto(t, "enabled")
     \/ /\ DeviceMayFail /\ active # Top(t).arg
        /\ active' = Top(t).arg
        /\ stack' = [stack EXCEPT ![t][Depth(t)] = [@ EXCEPT !.at = "leave", !.ok = FALSE]]
  /\ UNCHANGED <<lockVars, streaming, video_at, video_event>>

SetStreaming(t) ==
  /\ At(t, "set_active", "enabled")
  /\ streaming' = Top(t).arg
  /\ Goto(t, "leave")
  /\ UNCHANGED <<lockVars, active, video_at, video_event>>

\* The video thread, if it was ever started, is woken up before the lock goes.
LeaveSetActive(t) ==
  /\ Leave(t, "set_active")
  /\ video_event' = 1
  /\ UNCHANGED <<streaming, active, video_at>>

-----------------------------------------------------------------------------
(* zbar_process_one and zbar_processor_user_wait.                          *)

\* It turns the video on unless it is on, and then off again in the end.
OneStart(t) ==
  /\ At(t, "process_one", "start")
  /\ IF streaming
     THEN Goto(t, "wait") /\ UNCHANGED lockVars
     ELSE EnterFrom(t, Call("set_active", TRUE), "turned_on")
  /\ UNCHANGED devVars

OneTurnedOn(t) ==
  /\ At(t, "process_one", "turned_on")
  /\ Goto(t, IF Top(t).ok THEN "wait_on" ELSE "leave")
  /\ UNCHANGED <<lockVars, devVars>>

OneWait(t) ==
  /\ \/ At(t, "process_one", "wait") /\ Goto(t, "leave")
     \/ At(t, "process_one", "wait_on") /\ Goto(t, "turn_off")
  /\ Wait(t, EVENT_OUTPUT, Top(t).arg)
  /\ UNCHANGED devVars

OneTurnOff(t) ==
  /\ At(t, "process_one", "turn_off")
  /\ EnterFrom(t, Call("set_active", FALSE), "leave")
  /\ UNCHANGED devVars

UserWait(t) ==
  /\ At(t, "user_wait", "start")
  /\ IF visible \/ streaming \/ Top(t).arg
     THEN Wait(t, EVENT_INPUT, Top(t).arg)
     ELSE UNCHANGED lockVars
  /\ Goto(t, "leave")
  /\ UNCHANGED devVars

-----------------------------------------------------------------------------
(* _zbar_process_image, for zbar_process_image and for the video thread.   *)

\* The scan: an image without symbols is done with; otherwise the threads that
\* wait for output are notified and the handler is called.
ScanImage(t) ==
  /\ At(t, "image", "start")
  /\ \/ Goto(t, "leave") /\ UNCHANGED lockVars
     \/ Notify({EVENT_OUTPUT}) /\ Goto(t, "handler")
  /\ UNCHANGED devVars

Handler(t) ==
  /\ At(t, "image", "handler")
  /\ \/ Goto(t, "leave") /\ UNCHANGED lockVars
     \/ \E call \in HandlerCalls : EnterFrom(t, call, "leave")
  /\ UNCHANGED devVars

-----------------------------------------------------------------------------
(* proc_video_thread.                                                      *)

\* while(!streaming) wait for the event; the wait resets it.
VideoTop ==
  /\ video_at = "top"
  /\ video_at' = IF streaming THEN "capture" ELSE "sleep"
  /\ UNCHANGED <<lockVars, streaming, active, video_event, stack>>

VideoWake ==
  /\ video_at = "sleep" /\ video_event = 1
  /\ video_event' = 0 /\ video_at' = "top"
  /\ UNCHANGED <<lockVars, streaming, active, stack>>

\* zbar_video_next_image: an image, or NULL once the device is off.
Capture ==
  /\ video_at = "capture"
  /\ video_at' = IF active THEN "image" ELSE "no_image"
  /\ UNCHANGED <<lockVars, streaming, active, video_event, stack>>

\* No image: go on if the streaming is over, else end the thread.
NoImage ==
  /\ video_at = "no_image"
  /\ video_at' = IF streaming THEN "ended" ELSE "top"
  /\ UNCHANGED <<lockVars, streaming, active, video_event, stack>>

VideoEnter ==
  /\ video_at = "image"
  /\ Enter(Video, Call("image", FALSE))
  /\ video_at' = "scan"
  /\ UNCHANGED <<streaming, active, video_event>>

\* Faulty: the API lock is not let go.
VideoDrop_KeepLock ==
  /\ At(Video, "image", "start") /\ ~ streaming
  /\ Back(Video, TRUE)
  /\ video_at' = "top"
  /\ UNCHANGED <<lockVars, streaming, active, video_event>>

\* An image that comes after the streaming is over is dropped.
VideoDrop ==
  /\ At(Video, "image", "start") /\ ~ streaming
  /\ Goto(Video, "leave")
  /\ UNCHANGED <<lockVars, devVars>>

LeaveImage(t) ==
  /\ Leave(t, "image")
  /\ video_at' = IF t = Video THEN "top" ELSE video_at
  /\ UNCHANGED <<streaming, active, video_event>>

-----------------------------------------------------------------------------

CallApi(t) ==
  /\ stack[t] = <<>>
  /\ \E call \in Calls[t] : Enter(t, call)
  /\ UNCHANGED devVars

LeaveField(t) ==
  /\ \/ At(t, "field", "start") /\ Unlock(t) /\ Back(t, TRUE)
     \/ Leave(t, "process_one") \/ Leave(t, "user_wait")
  /\ UNCHANGED devVars

\* _zbar_processor_handle_input, in the input thread: no API lock.
HandleInput ==
  /\ \/ Notify({EVENT_INPUT})
     \/ Notify({EVENT_INPUT, EVENT_CANCELED}
               \cup (IF visible /\ streaming THEN {EVENT_OUTPUT} ELSE {}))
  /\ UNCHANGED <<devVars, stack>>

\* A blocked thread returns.  A wait that ends with -1 makes process_one and
\* user_wait return that.
Resume(t) ==
  /\ Wake(t)
  /\ UNCHANGED <<devVars, stack>>

TimerExpires(t) == Expire(t) /\ UNCHANGED <<devVars, stack>>

Step(t) ==
  \/ VideoEnable(t) \/ SetStreaming(t) \/ LeaveSetActive(t)
  \/ OneStart(t) \/ OneTurnedOn(t) \/ OneWait(t) \/ OneTurnOff(t) \/ UserWait(t)
  \/ (t \in Apps \/ streaming) /\ ScanImage(t)
  \/ Handler(t) \/ LeaveImage(t) \/ LeaveField(t) \/ Resume(t)

VideoStep == VideoTop \/ VideoWake \/ Capture \/ NoImage \/ VideoEnter \/ VideoDrop

PNext ==
  \/ \E t \in Threads : Step(t) \/ TimerExpires(t)
  \/ \E t \in Apps : CallApi(t)
  \/ VideoStep
  \/ HandleInput

PSpec == PInit /\ [][PNext]_vars

\* Threads are scheduled, timers expire, images come; nobody has to make a
\* call, to close the window or to find a symbol.
Fairness ==
  /\ \A t \in Threads : WF_vars(Step(t)) /\ WF_vars(TimerExpires(t))
  /\ WF_vars(VideoStep)

FairPSpec == PSpec /\ Fairness

-----------------------------------------------------------------------------
(* Properties.                                                             *)

\* A thread that runs has the lock while it is in a call, at one level for each
\* call it is in: what a wait dropped is back.
LevelsBalanced ==
  \A t \in Threads : Runs(t) =>
    /\ Holds(t) <=> Depth(t) > 0
    /\ Holds(t) => lock_level = Depth(t)

\* A thread whose events have come, or that waits for the lock only, runs again,
\* unless the event that told it so got lost.
LockComes ==
  [](\A t \in Threads : Granted(t) => Signalled(t))
    => \A t \in Threads :
         (Waits(t, Blocked) /\ ~ Pending(waiters, waiter[t])) ~> Runs(t)

\* A wait with a timeout returns.
TimedWaitReturns ==
  \A t \in Threads : Waits(t, {"doze"}) ~> Runs(t)
=============================================================================
