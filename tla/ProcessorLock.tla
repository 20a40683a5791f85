----------------------------- MODULE ProcessorLock -----------------------------
(***************************************************************************)
(* The API lock of a zbar processor, zbar/processor/lock.c: a recursive    *)
(* lock whose holder can drop all its levels and sleep until an event, and *)
(* that is handed over to the oldest thread that can go on.  It is built   *)
(* on one waiter record per blocked thread, each with an event of its own  *)
(* (zbar/processor/posix.c, with pthread).                                 *)
(*                                                                         *)
(* Every function runs under proc->mutex, so each is one action up to the  *)
(* next wait; _zbar_event_wait gives the mutex up and takes it again.      *)
(* The threads are free to call the functions in any order the asserts     *)
(* allow; module Processor says in which order processor.c calls them.     *)
(*                                                                         *)
(* The list of waiters is a sequence of records, wait_head first, and      *)
(* wait_next an index of it (0: NULL): records leave the list behind       *)
(* wait_next only.  The order of the list of free records is left out.     *)
(***************************************************************************)
EXTENDS Integers, Sequences, FiniteSets

CONSTANTS
  Threads,
  NoThread,     \* stands for the owner of a free lock in the abstract lock
  MaxLevel      \* bound: levels a thread takes the lock to

ASSUME LockAssumption == MaxLevel \in Nat \ {0} /\ NoThread \notin Threads

EVENT_INPUT    == "input"
EVENT_OUTPUT   == "output"
EVENT_CANCELED == "canceled"
EVENTS_PENDING == {EVENT_INPUT, EVENT_OUTPUT}
Events         == EVENTS_PENDING \cup {EVENT_CANCELED}

VARIABLES
  lock_level,
  lock_owner,
  wait_list,      \* wait_head .. wait_tail: indices of waiters
  wait_next,
  free_waiter,    \* the records on the list of free ones
  waiters,        \* every record ever allocated
  pc,             \* what a thread is doing
  waiter,         \* a blocked thread's record (a local variable)
  save_level      \* the levels a sleeping thread gave up (a local variable)

lockVars == <<lock_level, lock_owner, wait_list, wait_next, free_waiter, waiters,
              pc, waiter, save_level>>

\* "run": outside the functions of lock.c.  "lock": waits in
\* _zbar_processor_lock.  "sleep" and "doze": waits in _zbar_processor_wait for
\* its events, doze with a timeout.  "expired": the timeout is over, but the
\* thread does not have the mutex again.  "relock": waits for the lock only.
Asleep  == {"sleep", "doze", "expired"}
Blocked == Asleep \cup {"lock", "relock"}

Waiter == [notify : {0, 1}, requester : Threads \cup {NoThread}, events : SUBSET Events]

Init ==
  /\ lock_level = 0
  /\ lock_owner \in Threads
  /\ wait_list = <<>> /\ wait_next = 0
  /\ free_waiter = {} /\ waiters = <<>>
  /\ pc = [t \in Threads |-> "run"]
  /\ waiter = [t \in Threads |-> 0]
  /\ save_level = [t \in Threads |-> 0]

Holds(t) == lock_level > 0 /\ lock_owner = t
Runs(t)  == pc[t] = "run"
Waits(t, W) == pc[t] \in W

-----------------------------------------------------------------------------
(* The helpers of lock.c.                                                  *)

\* proc_waiter_queue takes a free record or allocates one: the record, the
\* records that stay free and all the records afterwards.
Records(t, events) ==
  IF free_waiter # {}
  THEN { [w    |-> w,
          free |-> free_waiter \ {w},
          all  |-> [waiters EXCEPT ![w] = [@ EXCEPT !.requester = t, !.events = events]]] :
         w \in free_waiter }
  ELSE { [w    |-> Len(waiters) + 1,
          free |-> {},
          all  |-> Append(waiters, [notify |-> 0, requester |-> t, events |-> events])] }

Pending(all, w) == all[w].events \cap EVENTS_PENDING # {}

\* The place of the record proc_waiter_dequeue returns: the first one behind the
\* cursor that waits for no event.
Eligible(all, list, next) == {i \in next + 1 .. Len(list) : ~ Pending(all, list[i])}

\* Faulty: the thread that came last.
First_Last(I) == CHOOSE i \in I : \A j \in I : j <= i

First(I) == CHOOSE i \in I : \A j \in I : i <= j

Without(list, i) ==
  [k \in 1 .. Len(list) - 1 |-> IF k < i THEN list[k] ELSE list[k + 1]]

\* Faulty: the lock stays free until the thread that is woken up takes it.
HandOver_LeaveFree(all, list, next) ==
  LET I == Eligible(all, list, next) IN
  /\ lock_level' = 0
  /\ IF I = {}
     THEN /\ wait_list' = list /\ wait_next' = Len(list)
          /\ waiters' = all
          /\ UNCHANGED lock_owner
     ELSE LET i == First(I) IN
          /\ lock_owner' = all[list[i]].requester
          /\ wait_list' = Without(list, i) /\ wait_next' = i - 1
          /\ waiters' = [all EXCEPT ![list[i]] = [@ EXCEPT !.notify = 1]]

\* proc_waiter_dequeue and _zbar_event_trigger of what it returns: the lock,
\* which is free, goes to the requester of that record.
HandOver(all, list, next) ==
  LET I == Eligible(all, list, next) IN
  IF I = {}
  THEN /\ lock_level' = 0
       /\ wait_list' = list /\ wait_next' = Len(list)
       /\ waiters' = all
       /\ UNCHANGED lock_owner
  ELSE LET i == First(I) IN
       /\ lock_level' = 1
       /\ lock_owner' = all[list[i]].requester
       /\ wait_list' = Without(list, i) /\ wait_next' = i - 1
       /\ waiters' = [all EXCEPT ![list[i]] = [@ EXCEPT !.notify = 1]]

\* proc_waiter_release, and the end of the local variables.  What a free record
\* keeps is its event: its other fields, which are overwritten before they are
\* read again, are cleared here.
Release(t) ==
  /\ free_waiter' = free_waiter \cup {waiter[t]}
  /\ waiter' = [waiter EXCEPT ![t] = 0]
  /\ save_level' = [save_level EXCEPT ![t] = 0]

-----------------------------------------------------------------------------
(* _zbar_processor_lock.                                                   *)

LockFree(t) ==
  /\ Runs(t) /\ lock_level = 0
  /\ lock_owner' = t /\ lock_level' = 1
  /\ UNCHANGED <<wait_list, wait_next, free_waiter, waiters, pc, waiter, save_level>>

LockAgain(t) ==
  /\ Runs(t) /\ Holds(t) /\ lock_level < MaxLevel
  /\ lock_level' = lock_level + 1
  /\ UNCHANGED <<lock_owner, wait_list, wait_next, free_waiter, waiters, pc, waiter,
                 save_level>>

LockQueue(t) ==
  /\ Runs(t) /\ lock_level > 0 /\ lock_owner # t
  /\ \E r \in Records(t, {}) :
       /\ waiter' = [waiter EXCEPT ![t] = r.w]
       /\ free_waiter' = r.free /\ waiters' = r.all
       /\ wait_list' = Append(wait_list, r.w)
  /\ pc' = [pc EXCEPT ![t] = "lock"]
  /\ UNCHANGED <<lock_level, lock_owner, wait_next, save_level>>

Lock(t) == LockFree(t) \/ LockAgain(t) \/ LockQueue(t)

\* _zbar_event_wait finds the event set: it takes the mutex and resets it.
Signalled(t) == waiters[waiter[t]].notify = 1

ResetEvent(t) ==
  waiters' = [waiters EXCEPT ![waiter[t]] = [@ EXCEPT !.notify = 0, !.events = {}, !.requester = NoThread]]

LockGranted(t) ==
  /\ Waits(t, {"lock"}) /\ Signalled(t)
  /\ ResetEvent(t) /\ Release(t)
  /\ pc' = [pc EXCEPT ![t] = "run"]
  /\ UNCHANGED <<lock_level, lock_owner, wait_list, wait_next>>

-----------------------------------------------------------------------------
(* _zbar_processor_unlock with all = 0, and _zbar_processor_notify.        *)

Unlock(t) ==
  /\ Runs(t) /\ Holds(t)
  /\ IF lock_level > 1
     THEN /\ lock_level' = lock_level - 1
          /\ UNCHANGED <<lock_owner, wait_list, wait_next, waiters>>
     ELSE HandOver(waiters, wait_list, wait_next)
  /\ UNCHANGED <<free_waiter, pc, waiter, save_level>>

Notified(events) ==
  [w \in DOMAIN waiters |->
     IF \E i \in DOMAIN wait_list : wait_list[i] = w
     THEN [waiters[w] EXCEPT !.events = (@ \ events) \cup (events \cap {EVENT_CANCELED})]
     ELSE waiters[w]]

\* Faulty: the cursor stays behind the waiters whose events have come.
Notify_KeepCursor(events) ==
  /\ IF lock_level = 0
     THEN HandOver(Notified(events), wait_list, wait_next)
     ELSE /\ waiters' = Notified(events)
          /\ UNCHANGED <<lock_level, lock_owner, wait_list, wait_next>>
  /\ UNCHANGED <<free_waiter, pc, waiter, save_level>>

Notify(events) ==
  /\ IF lock_level = 0
     THEN HandOver(Notified(events), wait_list, 0)
     ELSE /\ waiters' = Notified(events) /\ wait_next' = 0
          /\ UNCHANGED <<lock_level, lock_owner, wait_list>>
  /\ UNCHANGED <<free_waiter, pc, waiter, save_level>>

-----------------------------------------------------------------------------
(* _zbar_processor_wait, threaded.                                         *)

\* Up to _zbar_event_wait: all levels are dropped.
Wait(t, event, timed) ==
  /\ Runs(t) /\ Holds(t)
  /\ save_level' = [save_level EXCEPT ![t] = lock_level]
  /\ \E r \in Records(t, {event}) :
       /\ waiter' = [waiter EXCEPT ![t] = r.w]
       /\ free_waiter' = r.free
       /\ HandOver(r.all, Append(wait_list, r.w), wait_next)
  /\ pc' = [pc EXCEPT ![t] = IF timed THEN "doze" ELSE "sleep"]

\* The end of _zbar_processor_wait: the thread has the lock once more.
Return(t) ==
  /\ lock_level' = save_level[t]
  /\ Release(t)
  /\ pc' = [pc EXCEPT ![t] = "run"]

\* Faulty: the thread waits on until no event is left, a cancellation included.
WaitGranted_NoneLeft(t) ==
  /\ Waits(t, {"sleep", "doze"}) /\ Signalled(t)
  /\ waiters[waiter[t]].events = {}
  /\ ResetEvent(t)
  /\ Return(t)
  /\ UNCHANGED <<lock_owner, wait_list, wait_next>>

WaitGranted(t) ==
  /\ Waits(t, {"sleep", "doze"}) /\ Signalled(t)
  /\ ResetEvent(t)
  /\ Return(t)
  /\ UNCHANGED <<lock_owner, wait_list, wait_next>>

\* pthread_cond_timedwait gives up.  It takes the mutex again before it
\* returns, and other threads may run before it gets it.
Expire(t) ==
  /\ Waits(t, {"doze"}) /\ ~ Signalled(t)
  /\ pc' = [pc EXCEPT ![t] = "expired"]
  /\ UNCHANGED <<lock_level, lock_owner, wait_list, wait_next, free_waiter, waiters, waiter,
                 save_level>>

\* _zbar_event_wait resets the event and returns 0: the thread waits for no
\* event any more.
NoEvents(t) ==
  LET w == waiter[t] IN
  [waiters EXCEPT ![w] = [@ EXCEPT !.notify = 0, !.events = waiters[w].events \cap {EVENT_CANCELED}]]

TimedOutFree(t) ==
  /\ Waits(t, {"expired"}) /\ lock_level = 0
  /\ ResetEvent(t)
  /\ LET I == Eligible(NoEvents(t), wait_list, 0) IN
     /\ I # {}
     /\ wait_list' = Without(wait_list, First(I))
     /\ wait_next' = First(I) - 1
     /\ lock_owner' = waiters[wait_list[First(I)]].requester
  /\ Return(t)

TimedOutHeld(t) ==
  /\ Waits(t, {"expired"}) /\ lock_level > 0
  /\ waiters' = NoEvents(t) /\ wait_next' = 0
  /\ pc' = [pc EXCEPT ![t] = "relock"]
  /\ UNCHANGED <<lock_level, lock_owner, wait_list, free_waiter, waiter, save_level>>

Relocked(t) ==
  /\ Waits(t, {"relock"}) /\ Signalled(t)
  /\ ResetEvent(t)
  /\ Return(t)
  /\ UNCHANGED <<lock_owner, wait_list, wait_next>>

\* The steps a blocked thread takes on its own.
Wake(t) == LockGranted(t) \/ WaitGranted(t) \/ TimedOutFree(t) \/ TimedOutHeld(t) \/ Relocked(t)

\* What _zbar_process_image and _zbar_processor_handle_input notify: output, and
\* user input, which a closed window turns into a cancellation.
Notifications ==
  { {EVENT_OUTPUT}, {EVENT_INPUT}, {EVENT_INPUT, EVENT_CANCELED},
    {EVENT_INPUT, EVENT_OUTPUT, EVENT_CANCELED} }

Next ==
  \/ \E t \in Threads :
       \/ Lock(t) \/ Unlock(t) \/ Wake(t) \/ Expire(t)
       \/ \E event \in EVENTS_PENDING, timed \in BOOLEAN : Wait(t, event, timed)
  \/ \E events \in Notifications : Notify(events)

Spec == Init /\ [][Next]_lockVars

-----------------------------------------------------------------------------
(* Properties.                                                             *)

Listed(list, w) == \E i \in DOMAIN list : list[i] = w
Queued(w)       == Listed(wait_list, w)

\* A blocked thread whose record has left the list: the lock is its own.
Granted(t) == Waits(t, Blocked) /\ ~ Queued(waiter[t])

TypeOK ==
  /\ lock_level \in 0 .. MaxLevel
  /\ lock_owner \in Threads
  /\ waiters \in Seq(Waiter)
  /\ wait_list \in Seq(DOMAIN waiters)
  /\ wait_next \in 0 .. Len(wait_list)
  /\ free_waiter \subseteq DOMAIN waiters
  /\ pc \in [Threads -> Blocked \cup {"run"}]
  /\ waiter \in [Threads -> Nat]
  /\ save_level \in [Threads -> 0 .. MaxLevel]

\* The lock is never free while a thread waits for nothing but the lock:
\* whoever lets it go, or notifies while it is free, hands it over.
HandedOver ==
  lock_level = 0 => \A i \in DOMAIN wait_list : Pending(waiters, wait_list[i])

\* The asserts behind each _zbar_event_wait: a thread that is woken up owns
\* the lock at its first level, whatever ran since the event was set.
AssertsHold ==
  \A t \in Threads : Granted(t) => lock_level = 1 /\ lock_owner = t

\* An event is set in no other record than that of the thread that has been
\* given the lock: a record on the free list carries no stale event over to
\* the thread that takes it next.
NoStaleEvent ==
  \A w \in DOMAIN waiters :
    waiters[w].notify = 1 => \E t \in Threads : Granted(t) /\ waiter[t] = w

\* Every blocked thread has a record that says so, no record is on the list
\* twice or both on the list and free.
RecordsSound ==
  /\ \A t \in Threads : Waits(t, Blocked) =>
       /\ waiter[t] \in DOMAIN waiters \ free_waiter
       /\ waiters[waiter[t]].requester = t
  /\ \A i \in DOMAIN wait_list :
       LET t == waiters[wait_list[i]].requester IN
       t \in Threads /\ Waits(t, Blocked) /\ waiter[t] = wait_list[i]
  /\ \A i, j \in DOMAIN wait_list : wait_list[i] = wait_list[j] => i = j

\* wait_next skips records that still wait for an event and no other.
CursorSkipsSleepers ==
  \A i \in 1 .. wait_next : Pending(waiters, wait_list[i])

-----------------------------------------------------------------------------
(* The lock implements its promise.  A blocked thread that has been given  *)
(* the lock has its levels there already, although it has yet to run.      *)

Owner == IF lock_level = 0 THEN NoThread ELSE lock_owner

Depths ==
  [t \in Threads |->
     CASE pc[t] = "lock"                    -> 1
       [] pc[t] \in Asleep \cup {"relock"}  -> save_level[t]
       [] Runs(t) /\ Holds(t)               -> lock_level
       [] OTHER                             -> 0]

Line == [i \in DOMAIN wait_list |-> waiters[wait_list[i]].requester]

Until ==
  [t \in Threads |->
     IF Waits(t, Asleep) THEN waiters[waiter[t]].events \cap EVENTS_PENDING ELSE {}]

A == INSTANCE ApiLock WITH
  Events <- EVENTS_PENDING, holder <- Owner, depth <- Depths, line <- Line, until <- Until

\* Every step of the lock, the timeouts and the late wake-ups included, is a
\* step of the abstract lock or none.
ImplementsApiLock == A!Spec
=============================================================================
