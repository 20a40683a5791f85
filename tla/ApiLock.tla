-------------------------------- MODULE ApiLock --------------------------------
(***************************************************************************)
(* What the API lock of a zbar processor promises (zbar/processor/lock.c,  *)
(* the comment at its head): a recursive mutex whose holder may drop all   *)
(* lock levels before it blocks, and waiting threads that are unblocked    *)
(* together with the hand-over of the lock, oldest first.  There are no    *)
(* records, events or cursors here, and a thread has the lock as soon as   *)
(* it is given it.                                                         *)
(***************************************************************************)
EXTENDS Integers, Sequences

CONSTANTS Threads, Events, NoThread

VARIABLES
  holder,     \* the thread that has the lock, or NoThread
  depth,      \* the levels a thread has, or will have once it gets the lock
  line,       \* the threads that want the lock, oldest first
  until       \* the events such a thread wants to see before it wants the lock

vars == <<holder, depth, line, until>>

Init ==
  /\ holder = NoThread
  /\ depth = [t \in Threads |-> 0]
  /\ line = <<>>
  /\ until = [t \in Threads |-> {}]

InLine(t) == \E i \in DOMAIN line : line[i] = t

\* A free lock goes to the first in line whose events have come, if any.
Serve(l, u) ==
  \/ /\ \A i \in DOMAIN l : u[l[i]] # {}
     /\ holder' = NoThread /\ line' = l
  \/ \E i \in DOMAIN l :
       /\ u[l[i]] = {} /\ \A j \in 1 .. i - 1 : u[l[j]] # {}
       /\ holder' = l[i]
       /\ line' = SubSeq(l, 1, i - 1) \o SubSeq(l, i + 1, Len(l))

Enter(t) ==
  /\ ~ InLine(t)
  /\ \/ /\ holder \in {NoThread, t} /\ holder' = t
        /\ depth' = [depth EXCEPT ![t] = @ + 1]
        /\ UNCHANGED line
     \/ /\ holder \notin {NoThread, t}
        /\ line' = Append(line, t)
        /\ depth' = [depth EXCEPT ![t] = 1]
        /\ UNCHANGED holder
  /\ UNCHANGED until

Leave(t) ==
  /\ holder = t
  /\ depth' = [depth EXCEPT ![t] = @ - 1]
  /\ IF depth[t] = 1 THEN Serve(line, until) ELSE UNCHANGED <<holder, line>>
  /\ UNCHANGED until

\* The levels are kept for the return.
Sleep(t, events) ==
  /\ holder = t
  /\ until' = [until EXCEPT ![t] = events]
  /\ Serve(Append(line, t), until')
  /\ UNCHANGED depth

\* Events come, or the time of one sleeper is over.
Settle(u) ==
  /\ until' = u
  /\ IF holder = NoThread THEN Serve(line, u) ELSE UNCHANGED <<holder, line>>
  /\ UNCHANGED depth

Happen(events) == Settle([t \in Threads |-> until[t] \ events])
GiveUp(t)      == Settle([until EXCEPT ![t] = {}])

Next ==
  \/ \E t \in Threads :
       \/ Enter(t) \/ Leave(t) \/ GiveUp(t)
       \/ \E event \in Events : Sleep(t, {event})
  \/ \E events \in SUBSET Events : Happen(events)

Spec == Init /\ [][Next]_vars
=============================================================================
