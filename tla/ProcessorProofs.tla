---------------------------- MODULE ProcessorProofs ----------------------------
(***************************************************************************)
(* The API lock of a processor is safe and keeps the promise of module     *)
(* ApiLock, for any number of threads and levels, whatever calls the       *)
(* threads make.                                                           *)
(***************************************************************************)
EXTENDS Processor, SequenceTheorems, WellFoundedInduction, TLAPS

\* Any set of numbers has a smallest one.
LEMMA LeastIndex == ASSUME NEW I \in SUBSET Nat, I # {}
                    PROVE  First(I) \in I /\ \A j \in I : First(I) <= j
<1> DEFINE R == OpToRel(<, Nat)
<1>1. \A m \in Nat, n \in Nat : <<n, m>> \in R <=> n < m
  BY DEF OpToRel
<1>2. IsWellFoundedOn(R, Nat)
  BY NatLessThanWellFounded
<1> HIDE DEF R
<1>3. PICK i \in I : \A j \in I : ~ (<<j, i>> \in R)
  BY <1>2, WFMin
<1>4. \A j \in I : i <= j
  <2> TAKE j \in I
  <2>1. ~ (j < i)
    BY <1>1, <1>3
  <2>2. QED
    BY <2>1
<1>5. QED
  BY <1>4 DEF First

-----------------------------------------------------------------------------
(* The invariant: who has the lock, and what the records say of those that *)
(* wait for it.  Its parts rest on each other: a thread is handed the lock *)
(* alone because no event is set, and its record is its own.               *)

\* A sleeping thread had the lock, at one level at least, and will have it again.
LevelsKept ==
  \A t \in Threads : Waits(t, Asleep \cup {"relock"}) => save_level[t] # 0

LockInv ==
  /\ TypeOK
  /\ LevelsKept
  /\ RecordsSound
  /\ CursorSkipsSleepers
  /\ HandedOver
  /\ AssertsHold
  /\ NoStaleEvent

\* Taking a record off the list.
LEMMA WithoutType ==
  ASSUME NEW S, NEW list \in Seq(S), NEW i \in DOMAIN list
  PROVE  /\ Without(list, i) \in Seq(S)
         /\ Len(Without(list, i)) = Len(list) - 1
         /\ \A k \in 1 .. Len(list) - 1 :
              Without(list, i)[k] = IF k < i THEN list[k] ELSE list[k + 1]
<1>1. Len(list) \in Nat \ {0} /\ DOMAIN list = 1 .. Len(list)
  OBVIOUS
<1>2. \A k \in 1 .. Len(list) - 1 : (IF k < i THEN list[k] ELSE list[k + 1]) \in S
  BY <1>1
<1>3. Without(list, i) \in [1 .. Len(list) - 1 -> S]
  BY <1>2 DEF Without
<1>4. QED
  BY <1>1, <1>3 DEF Without

\* What is left are the other records, each once.
LEMMA WithoutRest ==
  ASSUME NEW S, NEW list \in Seq(S), NEW i \in DOMAIN list
  PROVE  LET rest == Without(list, i) IN
         /\ DOMAIN rest = 1 .. Len(list) - 1
         /\ \A k \in DOMAIN rest : \E j \in DOMAIN list : j # i /\ rest[k] = list[j]
         /\ \A j \in DOMAIN list : j # i => Listed(rest, list[j])
         /\ \A k \in 1 .. i - 1 : k \in DOMAIN list /\ rest[k] = list[k]
         /\ (\A k, l \in DOMAIN list : list[k] = list[l] => k = l)
              => \A k, l \in DOMAIN rest : rest[k] = rest[l] => k = l
<1> DEFINE rest == Without(list, i)
           n    == Len(list)
<1>1. n \in Nat /\ DOMAIN list = 1 .. n /\ i \in 1 .. n
  OBVIOUS
<1>2. DOMAIN rest = 1 .. n - 1
  <2>1. rest \in Seq(S) /\ Len(rest) = n - 1
    BY WithoutType
  <2>2. QED
    BY <2>1
<1>3. \A k \in 1 .. n - 1 : rest[k] = IF k < i THEN list[k] ELSE list[k + 1]
  BY WithoutType
<1> HIDE DEF rest, n
<1>4. \A k \in DOMAIN rest : \E j \in DOMAIN list : j # i /\ rest[k] = list[j]
  <2> SUFFICES ASSUME NEW k \in 1 .. n - 1
               PROVE  \E j \in 1 .. n : j # i /\ rest[k] = list[j]
    BY <1>1, <1>2
  <2>1. k \in 1 .. n /\ k + 1 \in 1 .. n
    BY <1>1
  <2>2. k < i \/ k + 1 # i
    BY <1>1
  <2>3. QED
    BY <1>1, <1>3, <2>1, <2>2
<1>5. \A j \in DOMAIN list : j # i => Listed(rest, list[j])
  <2> SUFFICES ASSUME NEW j \in 1 .. n, j # i
               PROVE  \E k \in 1 .. n - 1 : rest[k] = list[j]
    BY <1>1, <1>2 DEF Listed
  <2>1. CASE j < i
    BY <1>1, <1>3, <2>1
  <2>2. CASE ~ (j < i)
    <3>1. j - 1 \in 1 .. n - 1 /\ ~ (j - 1 < i) /\ (j - 1) + 1 = j
      BY <1>1, <2>2
    <3>2. rest[j - 1] = list[j]
      BY <1>3, <3>1
    <3>3. QED
      BY <3>1, <3>2
  <2>3. QED
    BY <2>1, <2>2
<1>6. \A k \in 1 .. i - 1 : k \in DOMAIN list /\ rest[k] = list[k]
  <2> TAKE k \in 1 .. i - 1
  <2>1. k \in 1 .. n - 1 /\ k \in 1 .. n /\ k < i
    BY <1>1
  <2>2. QED
    BY <1>1, <1>3, <2>1
<1>7. ASSUME \A k, l \in DOMAIN list : list[k] = list[l] => k = l,
             NEW k \in 1 .. n - 1, NEW l \in 1 .. n - 1, rest[k] = rest[l]
      PROVE  k = l
  <2>1. k \in 1 .. n /\ k + 1 \in 1 .. n /\ l \in 1 .. n /\ l + 1 \in 1 .. n
    BY <1>1
  <2>2. CASE k < i /\ l < i
    BY <1>1, <1>3, <1>7, <2>1, <2>2
  <2>3. CASE k < i /\ ~ (l < i)
    <3>1. k = l + 1
      BY <1>1, <1>3, <1>7, <2>1, <2>3
    <3>2. QED
      BY <1>1, <2>3, <3>1
  <2>4. CASE ~ (k < i) /\ l < i
    <3>1. k + 1 = l
      BY <1>1, <1>3, <1>7, <2>1, <2>4
    <3>2. QED
      BY <1>1, <2>4, <3>1
  <2>5. CASE ~ (k < i) /\ ~ (l < i)
    <3>1. k + 1 = l + 1
      BY <1>1, <1>3, <1>7, <2>1, <2>5
    <3>2. QED
      BY <3>1
  <2>6. QED
    BY <2>2, <2>3, <2>4, <2>5
<1>8. QED
  BY <1>2, <1>4, <1>5, <1>6, <1>7 DEF rest, n

\* Either every record waits for an event, and the list stays as it is, or the
\* first one that does not is taken off, and its thread has the lock.
LEMMA HandOverEffect ==
  ASSUME NEW all, NEW list \in Seq(DOMAIN all), NEW next \in 0 .. Len(list),
         \A i \in 1 .. next : Pending(all, list[i]),
         HandOver(all, list, next)
  PROVE  \/ /\ \A i \in DOMAIN list : Pending(all, list[i])
            /\ lock_level' = 0 /\ lock_owner' = lock_owner
            /\ wait_list' = list /\ wait_next' = Len(list)
            /\ waiters' = all
         \/ \E i \in DOMAIN list :
              /\ ~ Pending(all, list[i])
              /\ \A j \in 1 .. i - 1 : Pending(all, list[j])
              /\ lock_level' = 1 /\ lock_owner' = all[list[i]].requester
              /\ wait_list' = Without(list, i) /\ wait_next' = i - 1
              /\ waiters' = [all EXCEPT ![list[i]] = [@ EXCEPT !.notify = 1]]
<1> DEFINE I == Eligible(all, list, next)
<1>1. Len(list) \in Nat /\ DOMAIN list = 1 .. Len(list)
  OBVIOUS
<1>2. CASE I = {}
  <2>1. \A i \in DOMAIN list : Pending(all, list[i])
    BY <1>1, <1>2 DEF Eligible
  <2>2. QED
    BY <1>2, <2>1 DEF HandOver
<1>3. CASE I # {}
  <2>1. I \in SUBSET Nat
    BY <1>1 DEF Eligible
  <2>2. First(I) \in I /\ \A j \in I : First(I) <= j
    BY <1>3, <2>1, LeastIndex
  <2> DEFINE i == First(I)
  <2>3. i \in DOMAIN list /\ ~ Pending(all, list[i])
    BY <1>1, <2>2 DEF Eligible
  <2>4. \A j \in 1 .. i - 1 : Pending(all, list[j])
    <3> SUFFICES ASSUME NEW j \in 1 .. i - 1 PROVE Pending(all, list[j])
      OBVIOUS
    <3>1. j \in 1 .. Len(list) /\ ~ (i <= j) /\ i \in Nat
      BY <1>1, <2>3
    <3>2. j \notin I
      BY <2>2, <3>1
    <3>3. QED
      BY <1>1, <3>1, <3>2 DEF Eligible
  <2>5. QED
    BY <1>3, <2>3, <2>4 DEF HandOver
<1>4. QED
  BY <1>2, <1>3

LEMMA LockInvInit == Init => LockInv
BY LockAssumption
   DEF Init, LockInv, TypeOK, RecordsSound, CursorSkipsSleepers, HandedOver, AssertsHold,
       NoStaleEvent, LevelsKept, Granted, Waits, Blocked, Asleep, Holds

\* Changing one record.
LEMMA RecordChanged ==
  ASSUME NEW all \in Seq(Waiter), NEW w \in DOMAIN all, NEW r \in Waiter
  PROVE  /\ [all EXCEPT ![w] = r] \in Seq(Waiter)
         /\ DOMAIN [all EXCEPT ![w] = r] = DOMAIN all
         /\ Len([all EXCEPT ![w] = r]) = Len(all)
         /\ \A v \in DOMAIN all : [all EXCEPT ![w] = r][v] = IF v = w THEN r ELSE all[v]
<1>1. Len(all) \in Nat /\ DOMAIN all = 1 .. Len(all) /\ all \in [1 .. Len(all) -> Waiter]
  OBVIOUS
<1>2. [all EXCEPT ![w] = r] \in [1 .. Len(all) -> Waiter]
  BY <1>1
<1>3. QED
  BY <1>1, <1>2

LEMMA EventSet ==
  ASSUME NEW r \in Waiter
  PROVE  /\ [r EXCEPT !.notify = 1] \in Waiter
         /\ [r EXCEPT !.notify = 1].notify = 1
         /\ [r EXCEPT !.notify = 1].requester = r.requester
         /\ [r EXCEPT !.notify = 1].events = r.events
BY DEF Waiter

\* A free lock is handed over from a state in which nobody has been given it:
\* every blocked thread is in the list.
LEMMA HandOverKeeps ==
  ASSUME NEW all \in Seq(Waiter), NEW list \in Seq(DOMAIN all), NEW next \in 0 .. Len(list),
         HandOver(all, list, next),
         lock_owner \in Threads,
         free_waiter' \subseteq DOMAIN all,
         pc' \in [Threads -> Blocked \cup {"run"}],
         waiter' \in [Threads -> Nat],
         save_level' \in [Threads -> 0 .. MaxLevel],
         LevelsKept',
         \A i \in 1 .. next : Pending(all, list[i]),
         \A w \in DOMAIN all : all[w].notify = 0,
         \A t \in Threads : pc'[t] \in Blocked =>
           /\ waiter'[t] \in DOMAIN all \ free_waiter'
           /\ all[waiter'[t]].requester = t
           /\ Listed(list, waiter'[t]),
         \A i \in DOMAIN list :
           LET t == all[list[i]].requester IN
           t \in Threads /\ pc'[t] \in Blocked /\ waiter'[t] = list[i],
         \A i, j \in DOMAIN list : list[i] = list[j] => i = j
  PROVE  LockInv'
<1>1. Len(list) \in Nat /\ DOMAIN list = 1 .. Len(list)
  OBVIOUS
<1>2. CASE /\ \A i \in DOMAIN list : Pending(all, list[i])
           /\ lock_level' = 0 /\ lock_owner' = lock_owner
           /\ wait_list' = list /\ wait_next' = Len(list)
           /\ waiters' = all
  <2>1. TypeOK'
    BY <1>1, <1>2, LockAssumption DEF TypeOK
  <2>2. RecordsSound'
    BY <1>1, <1>2 DEF RecordsSound, Waits
  <2>3. CursorSkipsSleepers' /\ HandedOver'
    BY <1>1, <1>2 DEF CursorSkipsSleepers, HandedOver, Pending
  <2>4. AssertsHold' /\ NoStaleEvent'
    BY <1>1, <1>2 DEF AssertsHold, NoStaleEvent, Granted, Queued, Listed, Waits
  <2>5. QED
    BY <2>1, <2>2, <2>3, <2>4 DEF LockInv
<1>3. ASSUME NEW i \in DOMAIN list,
             ~ Pending(all, list[i]),
             \A j \in 1 .. i - 1 : Pending(all, list[j]),
             lock_level' = 1, lock_owner' = all[list[i]].requester,
             wait_list' = Without(list, i), wait_next' = i - 1,
             waiters' = [all EXCEPT ![list[i]] = [@ EXCEPT !.notify = 1]]
      PROVE  LockInv'
  <2> DEFINE u == all[list[i]].requester
  <2> DEFINE W == DOMAIN all
  <2>0. list \in Seq(W)
    OBVIOUS
  <2>1. wait_list' \in Seq(DOMAIN all) /\ Len(wait_list') = Len(list) - 1
    <3> HIDE DEF W
    <3>1. Without(list, i) \in Seq(W) /\ Len(Without(list, i)) = Len(list) - 1
      BY <2>0, WithoutType
    <3>2. QED
      BY <1>3, <3>1 DEF W
  <2>2. /\ DOMAIN waiters' = DOMAIN all /\ waiters' \in Seq(Waiter)
        /\ \A w \in DOMAIN all :
             /\ waiters'[w].requester = all[w].requester
             /\ waiters'[w].events = all[w].events
             /\ waiters'[w].notify = IF w = list[i] THEN 1 ELSE 0
    <3> DEFINE w == list[i]
                r == [all[w] EXCEPT !.notify = 1]
    <3>1. w \in DOMAIN all /\ all[w] \in Waiter
      OBVIOUS
    <3>2. /\ r \in Waiter /\ r.notify = 1
          /\ r.requester = all[w].requester /\ r.events = all[w].events
      BY <3>1, EventSet
    <3>3. waiters' = [all EXCEPT ![w] = r]
      BY <1>3
    <3> HIDE DEF w, r
    <3>4. /\ waiters' \in Seq(Waiter) /\ DOMAIN waiters' = DOMAIN all
          /\ \A v \in DOMAIN all : waiters'[v] = IF v = w THEN r ELSE all[v]
      BY <3>1, <3>2, <3>3, RecordChanged
    <3>5. QED
      BY <3>2, <3>4 DEF w
  <2>3. /\ DOMAIN wait_list' = 1 .. Len(list) - 1
        /\ \A k \in DOMAIN wait_list' : \E j \in DOMAIN list : j # i /\ wait_list'[k] = list[j]
        /\ \A j \in DOMAIN list : j # i => Listed(wait_list', list[j])
        /\ \A k \in 1 .. i - 1 : k \in DOMAIN list /\ wait_list'[k] = list[k]
        /\ \A k, l \in DOMAIN wait_list' : wait_list'[k] = wait_list'[l] => k = l
    <3> HIDE DEF W
    <3> DEFINE rest == Without(list, i)
    <3>1. /\ DOMAIN rest = 1 .. Len(list) - 1
          /\ \A k \in DOMAIN rest : \E j \in DOMAIN list : j # i /\ rest[k] = list[j]
          /\ \A j \in DOMAIN list : j # i => Listed(rest, list[j])
          /\ \A k \in 1 .. i - 1 : k \in DOMAIN list /\ rest[k] = list[k]
          /\ \A k, l \in DOMAIN rest : rest[k] = rest[l] => k = l
      BY <2>0, WithoutRest, Zenon
    <3>2. QED
      BY <1>3, <3>1, Zenon
  <2>4. u \in Threads /\ pc'[u] \in Blocked /\ waiter'[u] = list[i]
    OBVIOUS
  <2>7. ~ Listed(wait_list', list[i])
    BY <2>3 DEF Listed
  <2>8. \A t \in Threads : Granted(t)' <=> t = u
    <3> SUFFICES ASSUME NEW t \in Threads PROVE Granted(t)' <=> t = u
      OBVIOUS
    <3>1. CASE t = u
      BY <2>4, <2>7, <3>1 DEF Granted, Waits, Queued, Listed
    <3>2. CASE t # u
      <4>1. pc'[t] \in Blocked => Listed(wait_list', waiter'[t])
        <5> HAVE pc'[t] \in Blocked
        <5>1. PICK j \in DOMAIN list : list[j] = waiter'[t]
          BY DEF Listed
        <5>2. all[list[j]].requester = t
          BY <5>1
        <5>3. j # i
          BY <3>2, <5>2
        <5>4. QED
          BY <2>3, <5>1, <5>3
      <4>2. QED
        BY <3>2, <4>1 DEF Granted, Waits, Queued, Listed
    <3>3. QED
      BY <3>1, <3>2
  <2>9. TypeOK'
    <3>1. lock_level' \in 0 .. MaxLevel
      BY <1>3, LockAssumption
    <3>2. wait_next' \in 0 .. Len(wait_list')
      BY <1>1, <1>3, <2>1
    <3>3. QED
      BY <1>3, <2>1, <2>2, <2>4, <3>1, <3>2 DEF TypeOK
  <2>10. RecordsSound'
    <3>1. \A t \in Threads : pc'[t] \in Blocked =>
            /\ waiter'[t] \in DOMAIN waiters' \ free_waiter'
            /\ waiters'[waiter'[t]].requester = t
      BY <2>2
    <3>2. \A k \in DOMAIN wait_list' :
            LET t == waiters'[wait_list'[k]].requester IN
            t \in Threads /\ pc'[t] \in Blocked /\ waiter'[t] = wait_list'[k]
      <4> SUFFICES ASSUME NEW k \in DOMAIN wait_list'
                   PROVE  LET t == waiters'[wait_list'[k]].requester IN
                          t \in Threads /\ pc'[t] \in Blocked /\ waiter'[t] = wait_list'[k]
        OBVIOUS
      <4>1. PICK j \in DOMAIN list : wait_list'[k] = list[j]
        BY <2>3
      <4>2. list[j] \in DOMAIN all
        OBVIOUS
      <4>3. waiters'[wait_list'[k]].requester = all[list[j]].requester
        BY <2>2, <4>1, <4>2
      <4>4. QED
        BY <4>1, <4>3
    <3>3. \A k, l \in DOMAIN wait_list' : wait_list'[k] = wait_list'[l] => k = l
      BY <2>3
    <3>4. QED
      BY <3>1, <3>2, <3>3 DEF RecordsSound, Waits
  <2>11. CursorSkipsSleepers'
    <3> SUFFICES ASSUME NEW k \in 1 .. i - 1 PROVE Pending(waiters', wait_list'[k])
      BY <1>3 DEF CursorSkipsSleepers, Pending
    <3>1. wait_list'[k] = list[k] /\ k \in DOMAIN list /\ list[k] \in DOMAIN all
      BY <2>3
    <3>2. QED
      BY <1>3, <2>2, <3>1 DEF Pending
  <2>12. HandedOver'
    BY <1>3 DEF HandedOver
  <2>13. AssertsHold'
    BY <1>3, <2>8 DEF AssertsHold
  <2>14. NoStaleEvent'
    <3> SUFFICES ASSUME NEW w \in DOMAIN waiters', waiters'[w].notify = 1
                 PROVE  \E t \in Threads : Granted(t)' /\ waiter'[t] = w
      BY DEF NoStaleEvent
    <3>1. w = list[i]
      BY <2>2
    <3>2. QED
      BY <2>4, <2>8, <3>1
  <2>15. QED
    BY <2>9, <2>10, <2>11, <2>12, <2>13, <2>14 DEF LockInv
<1>4. QED
  BY <1>2, <1>3, HandOverEffect

-----------------------------------------------------------------------------
(* Taking a record, and waking up.                                         *)

\* The record a thread takes is nobody else's and carries no event.
LEMMA RecordTaken ==
  ASSUME LockInv, NEW t \in Threads, NEW events \in SUBSET Events, NEW r \in Records(t, events)
  PROVE  /\ r.all \in Seq(Waiter)
         /\ DOMAIN waiters \subseteq DOMAIN r.all
         /\ r.free \subseteq DOMAIN r.all /\ r.free \subseteq free_waiter
         /\ r.w \in DOMAIN r.all \ r.free
         /\ r.w \in free_waiter \/ r.w \notin DOMAIN waiters
         /\ r.w \in Nat
         /\ \A v \in DOMAIN waiters : v # r.w => r.all[v] = waiters[v]
         /\ \A v \in DOMAIN r.all : v # r.w => v \in DOMAIN waiters
         /\ r.all[r.w].requester = t /\ r.all[r.w].events = events /\ r.all[r.w].notify = 0
<1>1. /\ waiters \in Seq(Waiter) /\ free_waiter \subseteq DOMAIN waiters
      /\ Len(waiters) \in Nat /\ DOMAIN waiters = 1 .. Len(waiters)
  BY DEF LockInv, TypeOK
<1>2. CASE free_waiter # {}
  <2>1. PICK w \in free_waiter :
          r = [w    |-> w,
               free |-> free_waiter \ {w},
               all  |-> [waiters EXCEPT ![w] = [@ EXCEPT !.requester = t, !.events = events]]]
    BY <1>2 DEF Records
  <2> DEFINE x == [waiters[w] EXCEPT !.requester = t, !.events = events]
  <2>2. w \in DOMAIN waiters /\ waiters[w] \in Waiter
    BY <1>1
  <2>3. waiters[w].notify = 0
    <3>1. waiters[w].notify \in {0, 1}
      BY <2>2 DEF Waiter
    <3>2. ~ \E u \in Threads : Granted(u) /\ waiter[u] = w
      BY DEF LockInv, RecordsSound, Granted
    <3>3. QED
      BY <2>2, <3>1, <3>2 DEF LockInv, NoStaleEvent
  <2>4. x \in Waiter /\ x.requester = t /\ x.events = events /\ x.notify = 0
    BY <2>2, <2>3 DEF Waiter
  <2>5. r.all = [waiters EXCEPT ![w] = x] /\ r.w = w /\ r.free = free_waiter \ {w}
    BY <2>1
  <2> HIDE DEF x
  <2>6. /\ r.all \in Seq(Waiter) /\ DOMAIN r.all = DOMAIN waiters
        /\ \A v \in DOMAIN waiters : r.all[v] = IF v = w THEN x ELSE waiters[v]
    BY <1>1, <2>2, <2>4, <2>5, RecordChanged
  <2>7. QED
    BY <1>1, <2>2, <2>4, <2>5, <2>6
<1>3. CASE free_waiter = {}
  <2> DEFINE x == [notify |-> 0, requester |-> t, events |-> events]
             n == Len(waiters)
  <2>1. r = [w |-> n + 1, free |-> {}, all |-> Append(waiters, x)]
    BY <1>3 DEF Records
  <2>2. x \in Waiter /\ x.requester = t /\ x.events = events /\ x.notify = 0
    BY DEF Waiter
  <2>3. r.all = Append(waiters, x) /\ r.w = n + 1 /\ r.free = {}
    BY <2>1
  <2> HIDE DEF x
  <2>4. /\ r.all \in Seq(Waiter) /\ DOMAIN r.all = 1 .. n + 1
        /\ \A v \in 1 .. n : r.all[v] = waiters[v]
        /\ r.all[n + 1] = x
    BY <1>1, <2>2, <2>3
  <2>5. QED
    BY <1>1, <2>2, <2>3, <2>4
<1>4. QED
  BY <1>2, <1>3

\* While the lock is free, and while its owner runs, nobody has been given it:
\* everyone who is blocked is in the list, and no event is set.
LEMMA NobodyGranted ==
  ASSUME LockInv,
         lock_level = 0 \/ \E t \in Threads : Runs(t) /\ lock_owner = t
  PROVE  /\ \A t \in Threads : pc[t] \in Blocked => Listed(wait_list, waiter[t])
         /\ \A w \in DOMAIN waiters : waiters[w].notify = 0
<1>1. \A t \in Threads : ~ Granted(t)
  BY DEF LockInv, AssertsHold, Granted, Waits, Runs, Blocked, Asleep
<1>2. \A w \in DOMAIN waiters : waiters[w].notify \in {0, 1}
  <2>1. \A w \in DOMAIN waiters : waiters[w] \in Waiter
    BY DEF LockInv, TypeOK
  <2>2. QED
    BY <2>1 DEF Waiter
<1>3. QED
  BY <1>1, <1>2 DEF LockInv, NoStaleEvent, Granted, Waits, Queued

\* A thread whose event is set has the lock and is the only one to have it.
LEMMA OnlyOneSignalled ==
  ASSUME LockInv, NEW t \in Threads, Waits(t, Blocked), Signalled(t)
  PROVE  /\ Granted(t) /\ lock_level = 1 /\ lock_owner = t
         /\ \A u \in Threads : u # t /\ Waits(u, Blocked)
              => Listed(wait_list, waiter[u]) /\ waiter[u] # waiter[t]
         /\ \A w \in DOMAIN waiters : w # waiter[t] => waiters[w].notify # 1
         /\ \A i \in DOMAIN wait_list : wait_list[i] # waiter[t]
<1>1. waiter[t] \in DOMAIN waiters /\ waiters[waiter[t]].requester = t
  BY DEF LockInv, RecordsSound
<1>2. PICK u \in Threads : Granted(u) /\ waiter[u] = waiter[t]
  BY <1>1 DEF LockInv, NoStaleEvent, Signalled
<1>3. u = t
  BY <1>1, <1>2 DEF LockInv, RecordsSound, Granted
<1>4. lock_level = 1 /\ lock_owner = t
  BY <1>2, <1>3 DEF LockInv, AssertsHold
<1>5. \A v \in Threads : v # t => ~ Granted(v)
  BY <1>4 DEF LockInv, AssertsHold
<1>6. \A v \in Threads : v # t /\ Waits(v, Blocked) => waiter[v] # waiter[t]
  BY <1>1 DEF LockInv, RecordsSound
<1>7. \A w \in DOMAIN waiters : w # waiter[t] => waiters[w].notify # 1
  BY <1>5 DEF LockInv, NoStaleEvent
<1>8. QED
  BY <1>2, <1>3, <1>4, <1>5, <1>6, <1>7 DEF Granted, Queued, Listed

\* The record is put at the end of the list: it is no other thread's.
QueuedAs(t, r, list) ==
  /\ list \in Seq(DOMAIN r.all)
  /\ wait_next \in 0 .. Len(list)
  /\ \A i \in DOMAIN wait_list : i \in DOMAIN list /\ list[i] = wait_list[i]
  /\ \A i \in DOMAIN list : i \in DOMAIN wait_list \/ list[i] = r.w
  /\ Listed(list, r.w)
  /\ \A i, j \in DOMAIN list : list[i] = list[j] => i = j
  /\ \A i \in DOMAIN list :
       LET u == r.all[list[i]].requester IN
       /\ u \in Threads
       /\ \/ u = t /\ list[i] = r.w
          \/ u # t /\ pc[u] \in Blocked /\ waiter[u] = list[i]
  /\ \A u \in Threads : pc[u] \in Blocked =>
       /\ u # t /\ waiter[u] # r.w
       /\ waiter[u] \in DOMAIN r.all \ r.free
       /\ r.all[waiter[u]].requester = u
  /\ \A i \in 1 .. wait_next : Pending(r.all, list[i])

LEMMA RecordQueued ==
  ASSUME LockInv, NEW t \in Threads, Runs(t),
         NEW events \in SUBSET Events, NEW r \in Records(t, events),
         NEW list, list = Append(wait_list, r.w)
  PROVE  QueuedAs(t, r, list)
<1> DEFINE n == Len(wait_list)
           W == DOMAIN r.all
<1>1. /\ n \in Nat /\ DOMAIN wait_list = 1 .. n /\ wait_next \in 0 .. n
      /\ wait_list \in Seq(DOMAIN waiters)
      /\ \A i \in 1 .. n : wait_list[i] \in DOMAIN waiters
  BY DEF LockInv, TypeOK
<1>2. /\ DOMAIN waiters \subseteq W
      /\ r.free \subseteq free_waiter
      /\ r.w \in W /\ r.w \notin r.free
      /\ (r.w \in free_waiter \/ r.w \notin DOMAIN waiters)
      /\ \A v \in DOMAIN waiters : v # r.w => r.all[v] = waiters[v]
      /\ r.all[r.w].requester = t
  BY RecordTaken
<1>3. \A u \in Threads : pc[u] \in Blocked =>
        /\ u # t /\ waiter[u] # r.w
        /\ waiter[u] \in W \ r.free
        /\ r.all[waiter[u]].requester = u
  <2> SUFFICES ASSUME NEW u \in Threads, pc[u] \in Blocked
               PROVE  /\ u # t /\ waiter[u] # r.w
                      /\ waiter[u] \in W \ r.free
                      /\ r.all[waiter[u]].requester = u
    OBVIOUS
  <2>1. u # t
    BY DEF Runs, Blocked, Asleep
  <2>2. waiter[u] \in DOMAIN waiters \ free_waiter /\ waiters[waiter[u]].requester = u
    BY DEF LockInv, RecordsSound, Waits
  <2>3. waiter[u] # r.w
    BY <1>2, <2>2
  <2>4. QED
    BY <1>2, <2>1, <2>2, <2>3
<1>4. \A i \in 1 .. n :
        LET u == waiters[wait_list[i]].requester IN
        u \in Threads /\ pc[u] \in Blocked /\ waiter[u] = wait_list[i]
  BY <1>1 DEF LockInv, RecordsSound, Waits
<1>5. \A i \in 1 .. n :
        /\ wait_list[i] # r.w
        /\ r.all[wait_list[i]] = waiters[wait_list[i]]
  BY <1>1, <1>2, <1>3, <1>4
<1> HIDE DEF W
<1>6. /\ list \in Seq(W) /\ Len(list) = n + 1 /\ DOMAIN list = 1 .. n + 1
      /\ \A i \in 1 .. n : list[i] = wait_list[i]
      /\ list[n + 1] = r.w
  <2>1. wait_list \in Seq(W)
    BY <1>1, <1>2
  <2>2. QED
    BY <1>1, <1>2, <2>1
<1> HIDE DEF n
<1>7. \A i \in 1 .. n + 1 : i \in 1 .. n \/ i = n + 1
  BY <1>1
<1>8. \A i, j \in DOMAIN list : list[i] = list[j] => i = j
  <2>1. \A i, j \in 1 .. n : wait_list[i] = wait_list[j] => i = j
    BY <1>1 DEF LockInv, RecordsSound
  <2>2. QED
    BY <1>5, <1>6, <1>7, <2>1
<1>9. \A i \in DOMAIN list :
        LET u == r.all[list[i]].requester IN
        /\ u \in Threads
        /\ \/ u = t /\ list[i] = r.w
           \/ u # t /\ pc[u] \in Blocked /\ waiter[u] = list[i]
  <2> TAKE i \in DOMAIN list
  <2>1. CASE i \in 1 .. n
    <3>1. r.all[list[i]].requester = waiters[wait_list[i]].requester /\ list[i] = wait_list[i]
      BY <1>5, <1>6, <2>1
    <3>2. QED
      BY <1>3, <1>4, <2>1, <3>1
  <2>2. CASE i = n + 1
    <3>1. list[i] = r.w
      BY <1>6, <2>2
    <3>2. r.all[list[i]].requester = t
      BY <1>2, <3>1
    <3>3. QED
      BY <3>1, <3>2
  <2>3. QED
    BY <1>6, <1>7, <2>1, <2>2
<1>10. \A i \in 1 .. wait_next : Pending(r.all, list[i])
  <2> TAKE i \in 1 .. wait_next
  <2>1. i \in 1 .. n
    BY <1>1
  <2>2. Pending(waiters, wait_list[i])
    BY DEF LockInv, CursorSkipsSleepers
  <2>3. QED
    BY <1>5, <1>6, <2>1, <2>2 DEF Pending
<1>11. n + 1 \in DOMAIN list /\ wait_next \in 0 .. Len(list)
  BY <1>1, <1>6
<1>12. \A i \in DOMAIN wait_list : i \in DOMAIN list /\ list[i] = wait_list[i]
  BY <1>1, <1>6
<1>13. \A i \in DOMAIN list : i \in DOMAIN wait_list \/ list[i] = r.w
  BY <1>1, <1>6, <1>7
<1>14. QED
  BY <1>3, <1>6, <1>8, <1>9, <1>10, <1>11, <1>12, <1>13 DEF QueuedAs, W, n, Listed

\* What _zbar_processor_notify does to the records.
LEMMA NotifiedRecords ==
  ASSUME LockInv, NEW events \in SUBSET Events
  PROVE  /\ Notified(events) \in Seq(Waiter) /\ DOMAIN Notified(events) = DOMAIN waiters
         /\ \A w \in DOMAIN waiters :
              /\ Notified(events)[w].requester = waiters[w].requester
              /\ Notified(events)[w].notify = waiters[w].notify
<1> DEFINE n  == Len(waiters)
           ev(w) == (waiters[w].events \ events) \cup (events \cap {EVENT_CANCELED})
<1>1. n \in Nat /\ DOMAIN waiters = 1 .. n /\ \A w \in 1 .. n : waiters[w] \in Waiter
  BY DEF LockInv, TypeOK
<1>2. \A w \in 1 .. n : waiters[w].events \in SUBSET Events
  BY <1>1 DEF Waiter
<1>3. \A w \in 1 .. n : ev(w) \in SUBSET Events
  BY <1>2
<1> HIDE DEF ev
<1>4. \A w \in 1 .. n :
        LET x == [waiters[w] EXCEPT !.events = ev(w)] IN
        x \in Waiter /\ x.requester = waiters[w].requester /\ x.notify = waiters[w].notify
  BY <1>1, <1>3 DEF Waiter
<1>5. Notified(events) = [w \in 1 .. n |->
        IF Queued(w) THEN [waiters[w] EXCEPT !.events = ev(w)] ELSE waiters[w]]
  BY <1>1 DEF Notified, Queued, Listed, ev
<1>6. Notified(events) \in [1 .. n -> Waiter]
  BY <1>1, <1>4, <1>5
<1>7. QED
  BY <1>1, <1>4, <1>5, <1>6

-----------------------------------------------------------------------------
(* The steps.                                                              *)

\* A woken thread resets its event, frees its record and runs.
LEMMA WokenKeeps ==
  ASSUME LockInv, NEW t \in Threads, Waits(t, Blocked), Signalled(t),
         ResetEvent(t), Release(t), pc' = [pc EXCEPT ![t] = "run"],
         lock_level' \in 1 .. MaxLevel,
         UNCHANGED <<lock_owner, wait_list, wait_next>>
  PROVE  LockInv'
<1> DEFINE x == [waiters[waiter[t]] EXCEPT !.notify = 0, !.events = {}, !.requester = NoThread]
<1>1. /\ waiters \in Seq(Waiter) /\ waiter[t] \in DOMAIN waiters \ free_waiter
      /\ waiters[waiter[t]] \in Waiter
  BY DEF LockInv, TypeOK, RecordsSound
<1>2. x \in Waiter /\ x.notify = 0
  BY <1>1 DEF Waiter
<1>3. waiters' = [waiters EXCEPT ![waiter[t]] = x]
  BY DEF ResetEvent
<1> HIDE DEF x
<1>4. /\ waiters' \in Seq(Waiter) /\ DOMAIN waiters' = DOMAIN waiters
      /\ \A v \in DOMAIN waiters : waiters'[v] = IF v = waiter[t] THEN x ELSE waiters[v]
  BY <1>1, <1>2, <1>3, RecordChanged
<1>5. /\ Granted(t) /\ lock_level = 1 /\ lock_owner = t
      /\ \A u \in Threads : u # t /\ Waits(u, Blocked)
           => Listed(wait_list, waiter[u]) /\ waiter[u] # waiter[t]
      /\ \A w \in DOMAIN waiters : w # waiter[t] => waiters[w].notify # 1
      /\ \A i \in DOMAIN wait_list : wait_list[i] # waiter[t]
  BY OnlyOneSignalled
<1>6. /\ pc \in [Threads -> Blocked \cup {"run"}] /\ waiter \in [Threads -> Nat]
      /\ save_level \in [Threads -> 0 .. MaxLevel]
      /\ wait_list \in Seq(DOMAIN waiters) /\ wait_next \in 0 .. Len(wait_list)
      /\ free_waiter \subseteq DOMAIN waiters /\ lock_owner \in Threads
  BY DEF LockInv, TypeOK
<1>7. /\ \A u \in Threads \ {t} :
           pc'[u] = pc[u] /\ waiter'[u] = waiter[u] /\ save_level'[u] = save_level[u]
      /\ pc'[t] = "run"
  BY <1>6 DEF Release
<1>8. "run" \notin Blocked
  BY DEF Blocked, Asleep
<1>9. TypeOK'
  <2>1. /\ pc' \in [Threads -> Blocked \cup {"run"}] /\ waiter' \in [Threads -> Nat]
        /\ save_level' \in [Threads -> 0 .. MaxLevel]
    BY <1>6, LockAssumption DEF Release
  <2>2. lock_level' \in 0 .. MaxLevel
    BY LockAssumption
  <2>3. free_waiter' \subseteq DOMAIN waiters'
    BY <1>1, <1>4, <1>6 DEF Release
  <2>4. wait_list' \in Seq(DOMAIN waiters') /\ wait_next' \in 0 .. Len(wait_list')
    BY <1>4, <1>6
  <2>5. QED
    BY <1>4, <1>6, <2>1, <2>2, <2>3, <2>4 DEF TypeOK
<1>10. LevelsKept'
  BY <1>6, <1>7 DEF LockInv, LevelsKept, Waits, Asleep
<1>11. RecordsSound'
  <2>1. \A u \in Threads : pc'[u] \in Blocked =>
          /\ waiter'[u] \in DOMAIN waiters' \ free_waiter'
          /\ waiters'[waiter'[u]].requester = u
    <3> SUFFICES ASSUME NEW u \in Threads, pc'[u] \in Blocked
                 PROVE  /\ waiter'[u] \in DOMAIN waiters' \ free_waiter'
                        /\ waiters'[waiter'[u]].requester = u
      OBVIOUS
    <3>1. u # t /\ waiter'[u] = waiter[u] /\ Waits(u, Blocked)
      BY <1>6, <1>7, <1>8 DEF Waits
    <3>2. waiter[u] \in DOMAIN waiters \ free_waiter /\ waiters[waiter[u]].requester = u
      BY <3>1 DEF LockInv, RecordsSound
    <3>3. QED
      BY <1>4, <1>5, <3>1, <3>2 DEF Release
  <2>2. \A i \in DOMAIN wait_list' :
          LET u == waiters'[wait_list'[i]].requester IN
          u \in Threads /\ pc'[u] \in Blocked /\ waiter'[u] = wait_list'[i]
    <3> TAKE i \in DOMAIN wait_list'
    <3>0. i \in DOMAIN wait_list /\ wait_list' = wait_list
      OBVIOUS
    <3>1. wait_list[i] \in DOMAIN waiters /\ wait_list[i] # waiter[t]
      BY <1>5, <1>6, <3>0
    <3>2. waiters'[wait_list[i]] = waiters[wait_list[i]]
      BY <1>4, <3>1
    <3>3. LET u == waiters[wait_list[i]].requester IN
          u \in Threads /\ pc[u] \in Blocked /\ waiter[u] = wait_list[i]
      BY <3>0 DEF LockInv, RecordsSound, Waits
    <3>4. QED
      BY <1>6, <1>7, <3>0, <3>1, <3>2, <3>3
  <2>3. \A i, j \in DOMAIN wait_list' : wait_list'[i] = wait_list'[j] => i = j
    BY DEF LockInv, RecordsSound
  <2>4. QED
    BY <2>1, <2>2, <2>3 DEF RecordsSound, Waits
<1>12. CursorSkipsSleepers'
  <2> SUFFICES ASSUME NEW i \in 1 .. wait_next PROVE Pending(waiters', wait_list[i])
    BY DEF CursorSkipsSleepers, Pending
  <2>1. i \in DOMAIN wait_list /\ wait_list[i] \in DOMAIN waiters /\ Pending(waiters, wait_list[i])
    BY <1>6 DEF LockInv, CursorSkipsSleepers
  <2>2. QED
    BY <1>4, <1>5, <2>1 DEF Pending
<1>13. HandedOver'
  BY DEF HandedOver
<1>14. AssertsHold'
  <2>1. \A u \in Threads : pc'[u] \in Blocked => Listed(wait_list', waiter'[u])
    BY <1>5, <1>6, <1>7, <1>8 DEF Waits
  <2>2. QED
    BY <2>1 DEF AssertsHold, Granted, Waits, Queued
<1>15. NoStaleEvent'
  BY <1>2, <1>4, <1>5 DEF NoStaleEvent
<1>16. QED
  BY <1>9, <1>10, <1>11, <1>12, <1>13, <1>14, <1>15 DEF LockInv

LEMMA LockStep ==
  ASSUME LockInv, NEW t \in Threads, Lock(t)
  PROVE  LockInv'
<1>0. /\ TypeOK /\ "run" \notin Blocked /\ t \in Threads
      /\ LevelsKept /\ RecordsSound /\ CursorSkipsSleepers /\ HandedOver
      /\ AssertsHold /\ NoStaleEvent
  BY DEF LockInv, Blocked, Asleep
<1>1. CASE LockFree(t)
  <2>1. /\ \A u \in Threads : pc[u] \in Blocked => Listed(wait_list, waiter[u])
        /\ \A w \in DOMAIN waiters : waiters[w].notify = 0
    BY <1>1, NobodyGranted DEF LockFree
  <2>2. /\ UNCHANGED <<wait_list, wait_next, free_waiter, waiters, pc, waiter, save_level>>
        /\ lock_owner' = t /\ lock_level' = 1
    BY <1>1 DEF LockFree
  <2>3. TypeOK'
    BY <1>0, <2>2, LockAssumption DEF TypeOK
  <2>4. LevelsKept' /\ RecordsSound' /\ CursorSkipsSleepers' /\ HandedOver'
    BY <1>0, <2>2 DEF LevelsKept, RecordsSound, CursorSkipsSleepers, HandedOver, Waits, Pending
  <2>5. AssertsHold' /\ NoStaleEvent'
    BY <2>1, <2>2 DEF AssertsHold, NoStaleEvent, Granted, Waits, Queued
  <2>6. QED
    BY <2>3, <2>4, <2>5 DEF LockInv
<1>2. CASE LockAgain(t)
  <2>1. /\ \A u \in Threads : pc[u] \in Blocked => Listed(wait_list, waiter[u])
        /\ \A w \in DOMAIN waiters : waiters[w].notify = 0
    BY <1>2, NobodyGranted DEF LockAgain, Holds
  <2>2. /\ UNCHANGED <<lock_owner, wait_list, wait_next, free_waiter, waiters, pc, waiter,
                       save_level>>
        /\ lock_level' = lock_level + 1 /\ lock_level < MaxLevel
    BY <1>2 DEF LockAgain
  <2>3. TypeOK'
    BY <1>0, <2>2, LockAssumption DEF TypeOK
  <2>4. LevelsKept' /\ RecordsSound' /\ CursorSkipsSleepers'
    BY <1>0, <2>2 DEF LevelsKept, RecordsSound, CursorSkipsSleepers, Waits, Pending
  <2>5. HandedOver'
    BY <1>0, <2>2, LockAssumption DEF HandedOver, TypeOK
  <2>6. AssertsHold' /\ NoStaleEvent'
    BY <2>1, <2>2 DEF AssertsHold, NoStaleEvent, Granted, Waits, Queued
  <2>7. QED
    BY <2>3, <2>4, <2>5, <2>6 DEF LockInv
<1>3. CASE LockQueue(t)
  <2>1. PICK r \in Records(t, {}) :
          /\ waiter' = [waiter EXCEPT ![t] = r.w]
          /\ free_waiter' = r.free /\ waiters' = r.all
          /\ wait_list' = Append(wait_list, r.w)
    BY <1>3 DEF LockQueue
  <2>2. /\ Runs(t) /\ lock_level > 0 /\ lock_owner # t
        /\ pc' = [pc EXCEPT ![t] = "lock"]
        /\ UNCHANGED <<lock_level, lock_owner, wait_next, save_level>>
    BY <1>3 DEF LockQueue
  <2>3. /\ waiters' \in Seq(Waiter)
        /\ DOMAIN waiters \subseteq DOMAIN waiters'
        /\ free_waiter' \subseteq DOMAIN waiters'
        /\ r.w \in DOMAIN waiters' \ free_waiter' /\ r.w \in Nat
        /\ \A v \in DOMAIN waiters : v # r.w => waiters'[v] = waiters[v]
        /\ \A v \in DOMAIN waiters' : v # r.w => v \in DOMAIN waiters
        /\ waiters'[r.w].requester = t /\ waiters'[r.w].events = {} /\ waiters'[r.w].notify = 0
    BY <2>1, RecordTaken
  <2>4. /\ wait_list' \in Seq(DOMAIN waiters')
        /\ wait_next \in 0 .. Len(wait_list')
        /\ \A i \in DOMAIN wait_list : i \in DOMAIN wait_list' /\ wait_list'[i] = wait_list[i]
        /\ \A i \in DOMAIN wait_list' : i \in DOMAIN wait_list \/ wait_list'[i] = r.w
        /\ Listed(wait_list', r.w)
        /\ \A i, j \in DOMAIN wait_list' : wait_list'[i] = wait_list'[j] => i = j
        /\ \A i \in DOMAIN wait_list' :
             LET u == waiters'[wait_list'[i]].requester IN
             /\ u \in Threads
             /\ \/ u = t /\ wait_list'[i] = r.w
                \/ u # t /\ pc[u] \in Blocked /\ waiter[u] = wait_list'[i]
        /\ \A u \in Threads : pc[u] \in Blocked =>
             /\ u # t /\ waiter[u] # r.w
             /\ waiter[u] \in DOMAIN waiters' \ free_waiter'
             /\ waiters'[waiter[u]].requester = u
        /\ \A i \in 1 .. wait_next : Pending(waiters', wait_list'[i])
    <3> DEFINE list == Append(wait_list, r.w)
    <3>1. QueuedAs(t, r, list)
      BY <2>2, RecordQueued
    <3> HIDE DEF list
    <3>2. wait_list' = list /\ waiters' = r.all /\ free_waiter' = r.free
      BY <2>1 DEF list
    <3>3. QED
      BY <3>1, <3>2 DEF QueuedAs
  <2>5. /\ pc \in [Threads -> Blocked \cup {"run"}] /\ waiter \in [Threads -> Nat]
        /\ save_level \in [Threads -> 0 .. MaxLevel] /\ lock_owner \in Threads
        /\ lock_level \in 0 .. MaxLevel /\ "lock" \in Blocked
    BY <1>0 DEF TypeOK, Blocked
  <2>6. /\ \A u \in Threads \ {t} : pc'[u] = pc[u] /\ waiter'[u] = waiter[u]
        /\ pc'[t] = "lock" /\ waiter'[t] = r.w
        /\ pc' \in [Threads -> Blocked \cup {"run"}] /\ waiter' \in [Threads -> Nat]
    BY <2>1, <2>2, <2>3, <2>5
  <2>7. TypeOK'
    BY <2>2, <2>3, <2>4, <2>5, <2>6 DEF TypeOK
  <2>8. LevelsKept'
    BY <1>0, <2>2, <2>6 DEF LevelsKept, Waits, Asleep
  <2>9. RecordsSound'
    <3>1. \A u \in Threads : pc'[u] \in Blocked =>
            /\ waiter'[u] \in DOMAIN waiters' \ free_waiter'
            /\ waiters'[waiter'[u]].requester = u
      <4> TAKE u \in Threads
      <4>1. CASE u = t
        BY <2>3, <2>6, <4>1
      <4>2. CASE u # t
        <5>1. pc'[u] = pc[u] /\ waiter'[u] = waiter[u]
          BY <2>6, <4>2
        <5>2. QED
          BY <2>4, <5>1
      <4>3. QED
        BY <4>1, <4>2
    <3>2. \A i \in DOMAIN wait_list' :
            LET u == waiters'[wait_list'[i]].requester IN
            u \in Threads /\ pc'[u] \in Blocked /\ waiter'[u] = wait_list'[i]
      BY <2>4, <2>5, <2>6
    <3>3. QED
      BY <2>4, <3>1, <3>2 DEF RecordsSound, Waits
  <2>10. CursorSkipsSleepers'
    BY <2>2, <2>4 DEF CursorSkipsSleepers, Pending
  <2>11. HandedOver'
    BY <2>2, <2>5 DEF HandedOver
  <2>12. ASSUME NEW u \in Threads
         PROVE  Granted(u)' <=> Granted(u)
    <3>1. CASE u = t
      BY <1>0, <2>2, <2>4, <2>6, <3>1 DEF Granted, Waits, Queued, Runs
    <3>2. CASE u # t
      <4>1. ASSUME pc[u] \in Blocked
            PROVE  Listed(wait_list', waiter[u]) <=> Listed(wait_list, waiter[u])
        <5>1. ASSUME Listed(wait_list', waiter[u]) PROVE Listed(wait_list, waiter[u])
          <6>1. PICK i \in DOMAIN wait_list' : wait_list'[i] = waiter[u]
            BY <5>1 DEF Listed
          <6>2. i \in DOMAIN wait_list
            BY <2>4, <4>1, <6>1
          <6>3. QED
            BY <2>4, <6>1, <6>2 DEF Listed
        <5>2. ASSUME Listed(wait_list, waiter[u]) PROVE Listed(wait_list', waiter[u])
          BY <2>4, <5>2 DEF Listed
        <5>3. QED
          BY <5>1, <5>2
      <4>2. QED
        BY <2>6, <3>2, <4>1 DEF Granted, Waits, Queued
    <3>3. QED
      BY <3>1, <3>2
  <2>13. AssertsHold'
    BY <1>0, <2>2, <2>12 DEF AssertsHold
  <2>14. NoStaleEvent'
    <3> SUFFICES ASSUME NEW w \in DOMAIN waiters', waiters'[w].notify = 1
                 PROVE  \E u \in Threads : Granted(u)' /\ waiter'[u] = w
      BY DEF NoStaleEvent
    <3>1. w # r.w
      BY <2>3
    <3>2. w \in DOMAIN waiters /\ waiters[w].notify = 1
      BY <2>3, <3>1
    <3>3. PICK u \in Threads : Granted(u) /\ waiter[u] = w
      BY <1>0, <3>2 DEF NoStaleEvent
    <3>4. u # t
      BY <1>0, <2>2, <3>3 DEF Granted, Waits, Runs
    <3>5. QED
      BY <2>6, <2>12, <3>3, <3>4
  <2>15. QED
    BY <2>7, <2>8, <2>9, <2>10, <2>11, <2>13, <2>14 DEF LockInv
<1>4. QED
  BY <1>1, <1>2, <1>3 DEF Lock

LEMMA UnlockStep ==
  ASSUME LockInv, NEW t \in Threads, Unlock(t)
  PROVE  LockInv'
<1>0. /\ TypeOK /\ LevelsKept /\ RecordsSound /\ CursorSkipsSleepers /\ HandedOver
      /\ AssertsHold /\ NoStaleEvent
  BY DEF LockInv
<1>1. /\ Runs(t) /\ lock_owner = t
      /\ UNCHANGED <<free_waiter, pc, waiter, save_level>>
  BY DEF Unlock, Holds
<1>2. /\ \A u \in Threads : pc[u] \in Blocked => Listed(wait_list, waiter[u])
      /\ \A w \in DOMAIN waiters : waiters[w].notify = 0
  BY <1>1, NobodyGranted
<1>3. CASE lock_level > 1
  <2>1. lock_level' = lock_level - 1 /\ UNCHANGED <<lock_owner, wait_list, wait_next, waiters>>
    BY <1>3 DEF Unlock
  <2>2. TypeOK' /\ HandedOver'
    BY <1>0, <1>1, <1>3, <2>1, LockAssumption DEF TypeOK, HandedOver
  <2>3. LevelsKept' /\ RecordsSound' /\ CursorSkipsSleepers'
    BY <1>0, <1>1, <2>1 DEF LevelsKept, RecordsSound, CursorSkipsSleepers, Waits, Pending
  <2>4. AssertsHold' /\ NoStaleEvent'
    BY <1>1, <1>2, <2>1 DEF AssertsHold, NoStaleEvent, Granted, Waits, Queued
  <2>5. QED
    BY <2>2, <2>3, <2>4 DEF LockInv
<1>4. CASE ~ (lock_level > 1)
  <2>1. HandOver(waiters, wait_list, wait_next)
    BY <1>4 DEF Unlock
  <2>2. LevelsKept'
    BY <1>0, <1>1 DEF LevelsKept, Waits
  <2>3. \A i \in 1 .. wait_next : Pending(waiters, wait_list[i])
    BY <1>0 DEF CursorSkipsSleepers
  <2>4. /\ \A u \in Threads : pc'[u] \in Blocked =>
             /\ waiter'[u] \in DOMAIN waiters \ free_waiter'
             /\ waiters[waiter'[u]].requester = u
             /\ Listed(wait_list, waiter'[u])
        /\ \A i \in DOMAIN wait_list :
             LET u == waiters[wait_list[i]].requester IN
             u \in Threads /\ pc'[u] \in Blocked /\ waiter'[u] = wait_list[i]
        /\ \A i, j \in DOMAIN wait_list : wait_list[i] = wait_list[j] => i = j
    BY <1>0, <1>1, <1>2 DEF RecordsSound, Waits
  <2>5. /\ waiters \in Seq(Waiter) /\ wait_list \in Seq(DOMAIN waiters)
        /\ wait_next \in 0 .. Len(wait_list) /\ lock_owner \in Threads
        /\ free_waiter' \subseteq DOMAIN waiters
        /\ pc' \in [Threads -> Blocked \cup {"run"}]
        /\ waiter' \in [Threads -> Nat] /\ save_level' \in [Threads -> 0 .. MaxLevel]
    BY <1>0, <1>1 DEF TypeOK
  <2>6. QED
    BY <1>2, <2>1, <2>2, <2>3, <2>4, <2>5, HandOverKeeps
<1>5. QED
  BY <1>3, <1>4

LEMMA NotifyStep ==
  ASSUME LockInv, NEW events \in SUBSET Events, Notify(events)
  PROVE  LockInv'
<1>0. /\ TypeOK /\ LevelsKept /\ RecordsSound /\ CursorSkipsSleepers /\ HandedOver
      /\ AssertsHold /\ NoStaleEvent
  BY DEF LockInv
<1>1. UNCHANGED <<free_waiter, pc, waiter, save_level>>
  BY DEF Notify
<1> DEFINE all == Notified(events)
<1>2. /\ all \in Seq(Waiter) /\ DOMAIN all = DOMAIN waiters
      /\ \A w \in DOMAIN waiters :
           all[w].requester = waiters[w].requester /\ all[w].notify = waiters[w].notify
  BY NotifiedRecords
<1> HIDE DEF all
<1>3. /\ waiters \in Seq(Waiter) /\ wait_list \in Seq(DOMAIN all)
      /\ 0 \in 0 .. Len(wait_list) /\ lock_owner \in Threads
      /\ free_waiter' \subseteq DOMAIN all
      /\ pc' \in [Threads -> Blocked \cup {"run"}]
      /\ waiter' \in [Threads -> Nat] /\ save_level' \in [Threads -> 0 .. MaxLevel]
      /\ lock_level \in 0 .. MaxLevel
      /\ \A i \in DOMAIN wait_list : wait_list[i] \in DOMAIN waiters
  BY <1>0, <1>1, <1>2 DEF TypeOK
<1>4. /\ \A u \in Threads : pc[u] \in Blocked =>
           waiter[u] \in DOMAIN all \ free_waiter /\ all[waiter[u]].requester = u
      /\ \A i \in DOMAIN wait_list :
           LET u == all[wait_list[i]].requester IN
           u \in Threads /\ pc[u] \in Blocked /\ waiter[u] = wait_list[i]
      /\ \A i, j \in DOMAIN wait_list : wait_list[i] = wait_list[j] => i = j
  BY <1>0, <1>2, <1>3 DEF RecordsSound, Waits
<1>5. CASE lock_level = 0
  <2>1. HandOver(all, wait_list, 0)
    BY <1>5 DEF Notify, all
  <2>2. /\ \A u \in Threads : pc[u] \in Blocked => Listed(wait_list, waiter[u])
        /\ \A w \in DOMAIN all : all[w].notify = 0
    BY <1>2, <1>5, NobodyGranted
  <2>3. LevelsKept'
    BY <1>0, <1>1 DEF LevelsKept, Waits
  <2>4. \A u \in Threads : pc'[u] \in Blocked =>
             /\ waiter'[u] \in DOMAIN all \ free_waiter'
             /\ all[waiter'[u]].requester = u
             /\ Listed(wait_list, waiter'[u])
    BY <1>1, <1>4, <2>2
  <2>5. /\ \A i \in 1 .. 0 : Pending(all, wait_list[i])
        /\ \A i \in DOMAIN wait_list :
             LET u == all[wait_list[i]].requester IN
             u \in Threads /\ pc'[u] \in Blocked /\ waiter'[u] = wait_list[i]
    BY <1>1, <1>4
  <2>6. QED
    BY <1>2, <1>3, <1>4, <2>1, <2>2, <2>3, <2>4, <2>5, HandOverKeeps
<1>6. CASE lock_level # 0
  <2>1. waiters' = all /\ wait_next' = 0 /\ UNCHANGED <<lock_level, lock_owner, wait_list>>
    BY <1>6 DEF Notify, all
  <2>2. TypeOK'
    BY <1>2, <1>3, <2>1 DEF TypeOK
  <2>3. LevelsKept' /\ CursorSkipsSleepers' /\ HandedOver'
    BY <1>0, <1>1, <1>6, <2>1 DEF LevelsKept, CursorSkipsSleepers, HandedOver, Waits
  <2>4. RecordsSound'
    BY <1>1, <1>4, <2>1 DEF RecordsSound, Waits
  <2>5. \A u \in Threads : Granted(u)' <=> Granted(u)
    BY <1>1, <2>1 DEF Granted, Waits, Queued
  <2>6. AssertsHold' /\ NoStaleEvent'
    BY <1>0, <1>1, <1>2, <2>1, <2>5 DEF AssertsHold, NoStaleEvent
  <2>7. QED
    BY <2>2, <2>3, <2>4, <2>6 DEF LockInv
<1>7. QED
  BY <1>5, <1>6

LEMMA WaitStep ==
  ASSUME LockInv, NEW t \in Threads, NEW event \in EVENTS_PENDING, NEW timed,
         Wait(t, event, timed)
  PROVE  LockInv'
<1>0. TypeOK /\ LevelsKept
  BY DEF LockInv
<1>1. /\ Runs(t) /\ lock_owner = t /\ lock_level > 0
      /\ save_level' = [save_level EXCEPT ![t] = lock_level]
      /\ pc' = [pc EXCEPT ![t] = IF timed THEN "doze" ELSE "sleep"]
  BY DEF Wait, Holds
<1>2. {event} \in SUBSET Events
  BY DEF Events
<1>3. PICK r \in Records(t, {event}) :
        /\ waiter' = [waiter EXCEPT ![t] = r.w]
        /\ free_waiter' = r.free
        /\ HandOver(r.all, Append(wait_list, r.w), wait_next)
  BY DEF Wait
<1> DEFINE list == Append(wait_list, r.w)
<1>4. QueuedAs(t, r, list)
  BY <1>1, <1>2, RecordQueued
<1>5. HandOver(r.all, list, wait_next)
  BY <1>3
<1> HIDE DEF list
<1>6. /\ r.all \in Seq(Waiter) /\ r.free \subseteq DOMAIN r.all
      /\ r.w \in DOMAIN r.all \ r.free /\ r.w \in Nat
      /\ \A v \in DOMAIN waiters : v # r.w => r.all[v] = waiters[v]
      /\ \A v \in DOMAIN r.all : v # r.w => v \in DOMAIN waiters
      /\ r.all[r.w].requester = t /\ r.all[r.w].notify = 0
  BY <1>2, RecordTaken
<1>7. /\ \A u \in Threads : pc[u] \in Blocked => Listed(wait_list, waiter[u])
      /\ \A w \in DOMAIN waiters : waiters[w].notify = 0
  BY <1>1, NobodyGranted
<1>8. /\ pc \in [Threads -> Blocked \cup {"run"}] /\ waiter \in [Threads -> Nat]
      /\ save_level \in [Threads -> 0 .. MaxLevel] /\ lock_owner \in Threads
      /\ lock_level \in 0 .. MaxLevel /\ {"sleep", "doze"} \subseteq Blocked
  BY <1>0 DEF TypeOK, Blocked, Asleep
<1>9. /\ \A u \in Threads \ {t} :
           pc'[u] = pc[u] /\ waiter'[u] = waiter[u] /\ save_level'[u] = save_level[u]
      /\ pc'[t] \in Blocked /\ waiter'[t] = r.w /\ save_level'[t] = lock_level
      /\ pc' \in [Threads -> Blocked \cup {"run"}] /\ waiter' \in [Threads -> Nat]
      /\ save_level' \in [Threads -> 0 .. MaxLevel]
  BY <1>1, <1>3, <1>6, <1>8
<1>10. LevelsKept'
  BY <1>0, <1>1, <1>9 DEF LevelsKept, Waits, Asleep
<1>11. \A w \in DOMAIN r.all : r.all[w].notify = 0
  BY <1>6, <1>7
<1>12. ASSUME NEW u \in Threads, pc'[u] \in Blocked
       PROVE  /\ waiter'[u] \in DOMAIN r.all \ free_waiter'
              /\ r.all[waiter'[u]].requester = u
              /\ Listed(list, waiter'[u])
  <2>1. CASE u = t
    BY <1>3, <1>4, <1>6, <1>9, <2>1 DEF QueuedAs
  <2>2. CASE u # t
    <3>1. pc[u] \in Blocked /\ waiter'[u] = waiter[u]
      BY <1>9, <1>12, <2>2
    <3>2. PICK i \in DOMAIN wait_list : wait_list[i] = waiter[u]
      BY <1>7, <3>1 DEF Listed
    <3>3. Listed(list, waiter[u])
      BY <1>4, <3>2 DEF QueuedAs, Listed
    <3>4. QED
      BY <1>3, <1>4, <3>1, <3>3 DEF QueuedAs
  <2>3. QED
    BY <2>1, <2>2
<1>13. \A i \in DOMAIN list :
         LET u == r.all[list[i]].requester IN
         u \in Threads /\ pc'[u] \in Blocked /\ waiter'[u] = list[i]
  BY <1>4, <1>9 DEF QueuedAs
<1>14. /\ list \in Seq(DOMAIN r.all) /\ wait_next \in 0 .. Len(list)
       /\ \A i \in 1 .. wait_next : Pending(r.all, list[i])
       /\ \A i, j \in DOMAIN list : list[i] = list[j] => i = j
  BY <1>4 DEF QueuedAs
<1>15. free_waiter' \subseteq DOMAIN r.all
  BY <1>3, <1>6
<1>16. QED
  BY <1>5, <1>6, <1>8, <1>9, <1>10, <1>11, <1>12, <1>13, <1>14, <1>15, HandOverKeeps

LEMMA ExpireStep ==
  ASSUME LockInv, NEW t \in Threads, Expire(t)
  PROVE  LockInv'
<1>0. /\ TypeOK /\ LevelsKept /\ RecordsSound /\ CursorSkipsSleepers /\ HandedOver
      /\ AssertsHold /\ NoStaleEvent
  BY DEF LockInv
<1>1. /\ pc[t] = "doze" /\ pc' = [pc EXCEPT ![t] = "expired"]
      /\ UNCHANGED <<lock_level, lock_owner, wait_list, wait_next, free_waiter, waiters, waiter,
                     save_level>>
  BY DEF Expire, Waits
<1>2. /\ pc \in [Threads -> Blocked \cup {"run"}]
      /\ "doze" \in Blocked /\ "expired" \in Blocked
  BY <1>0 DEF TypeOK, Blocked, Asleep
<1>3. /\ pc' \in [Threads -> Blocked \cup {"run"}]
      /\ \A u \in Threads : pc'[u] \in Blocked <=> pc[u] \in Blocked
  BY <1>1, <1>2
<1>4. TypeOK' /\ HandedOver' /\ CursorSkipsSleepers'
  BY <1>0, <1>1, <1>3 DEF TypeOK, HandedOver, CursorSkipsSleepers, Pending
<1>5. LevelsKept'
  BY <1>0, <1>1, <1>2 DEF LevelsKept, Waits, Asleep
<1>6. RecordsSound'
  BY <1>0, <1>1, <1>3 DEF RecordsSound, Waits
<1>7. \A u \in Threads : Granted(u)' <=> Granted(u)
  BY <1>1, <1>3 DEF Granted, Waits, Queued
<1>8. AssertsHold' /\ NoStaleEvent'
  BY <1>0, <1>1, <1>7 DEF AssertsHold, NoStaleEvent
<1>9. QED
  BY <1>4, <1>5, <1>6, <1>8 DEF LockInv

\* The waiting thread finds the lock free: it alone is eligible, and takes itself
\* off the list.
LEMMA TimedOutAlone ==
  ASSUME LockInv, NEW t \in Threads, TimedOutFree(t)
  PROVE  \E k \in DOMAIN wait_list :
           /\ wait_list[k] = waiter[t]
           /\ wait_list' = Without(wait_list, k) /\ wait_next' = k - 1
           /\ lock_owner' = t
<1>0. TypeOK /\ RecordsSound /\ HandedOver
  BY DEF LockInv
<1>1. /\ pc[t] = "expired" /\ lock_level = 0
      /\ ResetEvent(t) /\ Return(t)
  BY DEF TimedOutFree, Waits
<1>2. /\ \A u \in Threads : pc[u] \in Blocked => Listed(wait_list, waiter[u])
      /\ \A w \in DOMAIN waiters : waiters[w].notify = 0
  BY <1>1, NobodyGranted
<1>3. /\ waiters \in Seq(Waiter) /\ wait_list \in Seq(DOMAIN waiters)
      /\ pc \in [Threads -> Blocked \cup {"run"}] /\ waiter \in [Threads -> Nat]
      /\ save_level \in [Threads -> 0 .. MaxLevel] /\ free_waiter \subseteq DOMAIN waiters
      /\ pc[t] \in Blocked /\ "run" \notin Blocked
  BY <1>0, <1>1 DEF TypeOK, Blocked, Asleep
<1>4. /\ waiter[t] \in DOMAIN waiters \ free_waiter /\ waiters[waiter[t]].requester = t
      /\ waiters[waiter[t]] \in Waiter
  BY <1>0, <1>3 DEF RecordsSound, Waits
<1>5. PICK k \in DOMAIN wait_list : wait_list[k] = waiter[t]
  BY <1>2, <1>3 DEF Listed
<1> DEFINE n == Len(wait_list)
           I == Eligible(NoEvents(t), wait_list, 0)
<1>6. /\ wait_list' = Without(wait_list, First(I)) /\ wait_next' = First(I) - 1
      /\ lock_owner' = waiters[wait_list[First(I)]].requester /\ I # {}
  BY DEF TimedOutFree
<1>7. n \in Nat /\ DOMAIN wait_list = 1 .. n
  BY <1>3
<1>8. First(I) = k
  <2>1. ASSUME NEW j \in I PROVE j = k
    <3>1. j \in DOMAIN wait_list /\ ~ Pending(NoEvents(t), wait_list[j])
      BY <1>7 DEF Eligible
    <3>2. Pending(waiters, wait_list[j]) /\ wait_list[j] \in DOMAIN waiters
      BY <1>0, <1>1, <1>3, <3>1 DEF HandedOver
    <3>3. wait_list[j] = waiter[t]
      <4>1. SUFFICES ASSUME wait_list[j] # waiter[t] PROVE FALSE
        OBVIOUS
      <4>2. NoEvents(t)[wait_list[j]] = waiters[wait_list[j]]
        BY <1>3, <3>2, <4>1 DEF NoEvents
      <4>3. QED
        BY <3>1, <3>2, <4>2 DEF Pending
    <3>4. QED
      BY <1>0, <1>5, <3>1, <3>3 DEF RecordsSound
  <2>2. I \in SUBSET Nat
    BY <1>7 DEF Eligible
  <2>3. First(I) \in I
    BY <1>6, <2>2, LeastIndex
  <2>4. QED
    BY <2>1, <2>3
<1>9. QED
  BY <1>4, <1>5, <1>6, <1>8

LEMMA TimedOutFreeStep ==
  ASSUME LockInv, NEW t \in Threads, TimedOutFree(t)
  PROVE  LockInv'
<1>0. /\ TypeOK /\ LevelsKept /\ RecordsSound /\ CursorSkipsSleepers /\ HandedOver
      /\ AssertsHold /\ NoStaleEvent
  BY DEF LockInv
<1>1. /\ pc[t] = "expired" /\ lock_level = 0
      /\ ResetEvent(t) /\ Return(t)
  BY DEF TimedOutFree, Waits
<1>2. /\ \A u \in Threads : pc[u] \in Blocked => Listed(wait_list, waiter[u])
      /\ \A w \in DOMAIN waiters : waiters[w].notify = 0
  BY <1>1, NobodyGranted
<1>3. /\ waiters \in Seq(Waiter) /\ wait_list \in Seq(DOMAIN waiters)
      /\ pc \in [Threads -> Blocked \cup {"run"}] /\ waiter \in [Threads -> Nat]
      /\ save_level \in [Threads -> 0 .. MaxLevel] /\ free_waiter \subseteq DOMAIN waiters
      /\ pc[t] \in Blocked /\ "run" \notin Blocked
  BY <1>0, <1>1 DEF TypeOK, Blocked, Asleep
<1>4. /\ waiter[t] \in DOMAIN waiters \ free_waiter /\ waiters[waiter[t]].requester = t
      /\ waiters[waiter[t]] \in Waiter
  BY <1>0, <1>3 DEF RecordsSound, Waits
<1>5. PICK k \in DOMAIN wait_list :
        /\ wait_list[k] = waiter[t]
        /\ wait_list' = Without(wait_list, k) /\ wait_next' = k - 1 /\ lock_owner' = t
  BY TimedOutAlone
<1> DEFINE n == Len(wait_list)
<1>7. n \in Nat /\ DOMAIN wait_list = 1 .. n
  BY <1>3
<1> HIDE DEF n
<1> DEFINE rest == Without(wait_list, k)
           W    == DOMAIN waiters
<1>9. /\ wait_list' = rest /\ wait_next' = k - 1 /\ lock_owner' = t
  BY <1>5
<1>10. /\ rest \in Seq(W) /\ DOMAIN rest = 1 .. n - 1 /\ Len(rest) = n - 1
       /\ \A i \in DOMAIN rest : \E j \in DOMAIN wait_list : j # k /\ rest[i] = wait_list[j]
       /\ \A j \in DOMAIN wait_list : j # k => Listed(rest, wait_list[j])
       /\ \A i \in 1 .. k - 1 : i \in DOMAIN wait_list /\ rest[i] = wait_list[i]
       /\ \A i, j \in DOMAIN rest : rest[i] = rest[j] => i = j
  <2>1. wait_list \in Seq(W)
    BY <1>3
  <2> HIDE DEF W
  <2>2. \A i, j \in DOMAIN wait_list : wait_list[i] = wait_list[j] => i = j
    BY <1>0 DEF RecordsSound
  <2>3. rest \in Seq(W) /\ Len(rest) = Len(wait_list) - 1
    BY <2>1, WithoutType
  <2>4. /\ DOMAIN rest = 1 .. Len(wait_list) - 1
        /\ \A i \in DOMAIN rest : \E j \in DOMAIN wait_list : j # k /\ rest[i] = wait_list[j]
        /\ \A j \in DOMAIN wait_list : j # k => Listed(rest, wait_list[j])
        /\ \A i \in 1 .. k - 1 : i \in DOMAIN wait_list /\ rest[i] = wait_list[i]
        /\ \A i, j \in DOMAIN rest : rest[i] = rest[j] => i = j
    BY <2>1, <2>2, WithoutRest, Zenon
  <2>5. QED
    BY <2>3, <2>4 DEF n
<1> HIDE DEF rest
<1> DEFINE x == [waiters[waiter[t]] EXCEPT !.notify = 0, !.events = {}, !.requester = NoThread]
<1>11. x \in Waiter /\ x.notify = 0
  BY <1>4 DEF Waiter
<1>12. waiters' = [waiters EXCEPT ![waiter[t]] = x]
  BY <1>1 DEF ResetEvent
<1> HIDE DEF x
<1>13. /\ waiters' \in Seq(Waiter) /\ DOMAIN waiters' = W
       /\ \A v \in W : waiters'[v] = IF v = waiter[t] THEN x ELSE waiters[v]
  BY <1>3, <1>4, <1>11, <1>12, RecordChanged
<1>14. /\ lock_level' = save_level[t] /\ pc' = [pc EXCEPT ![t] = "run"]
       /\ free_waiter' = free_waiter \cup {waiter[t]}
       /\ waiter' = [waiter EXCEPT ![t] = 0]
       /\ save_level' = [save_level EXCEPT ![t] = 0]
  BY <1>1 DEF Return, Release
<1>15. lock_level' \in 1 .. MaxLevel
  BY <1>0, <1>1, <1>3, <1>14, LockAssumption DEF LevelsKept, Waits, Asleep
<1>16. /\ \A u \in Threads \ {t} :
            pc'[u] = pc[u] /\ waiter'[u] = waiter[u] /\ save_level'[u] = save_level[u]
       /\ pc'[t] = "run"
       /\ pc' \in [Threads -> Blocked \cup {"run"}] /\ waiter' \in [Threads -> Nat]
       /\ save_level' \in [Threads -> 0 .. MaxLevel]
  BY <1>3, <1>14, LockAssumption
<1>17. \A j \in DOMAIN wait_list : j # k => wait_list[j] # waiter[t] /\ wait_list[j] \in W
  BY <1>0, <1>3, <1>5 DEF RecordsSound
<1>18. \A u \in Threads \ {t} : pc[u] \in Blocked =>
         waiter[u] # waiter[t] /\ Listed(rest, waiter[u])
  <2> SUFFICES ASSUME NEW u \in Threads \ {t}, pc[u] \in Blocked
               PROVE  waiter[u] # waiter[t] /\ Listed(rest, waiter[u])
    OBVIOUS
  <2>1. waiters[waiter[u]].requester = u
    BY <1>0 DEF RecordsSound, Waits
  <2>2. waiter[u] # waiter[t]
    BY <1>4, <2>1
  <2>3. PICK j \in DOMAIN wait_list : wait_list[j] = waiter[u]
    BY <1>2 DEF Listed
  <2>4. QED
    BY <1>5, <1>10, <2>2, <2>3
<1>19. TypeOK'
  <2>1. k - 1 \in 0 .. n - 1
    BY <1>7
  <2>2. QED
    BY <1>3, <1>4, <1>9, <1>10, <1>13, <1>14, <1>15, <1>16, <2>1 DEF TypeOK
<1>20. LevelsKept'
  BY <1>0, <1>16 DEF LevelsKept, Waits, Asleep
<1>21. RecordsSound'
  <2>1. ASSUME NEW u \in Threads, pc'[u] \in Blocked
        PROVE  /\ waiter'[u] \in DOMAIN waiters' \ free_waiter'
               /\ waiters'[waiter'[u]].requester = u
    <3>1. u # t /\ waiter'[u] = waiter[u] /\ pc[u] \in Blocked
      BY <1>3, <1>16, <2>1
    <3>2. waiter[u] \in W \ free_waiter /\ waiters[waiter[u]].requester = u
      BY <1>0, <3>1 DEF RecordsSound, Waits
    <3>3. waiter[u] # waiter[t]
      BY <1>18, <3>1
    <3>4. QED
      BY <1>13, <1>14, <3>1, <3>2, <3>3
  <2>2. ASSUME NEW i \in DOMAIN rest
        PROVE  LET u == waiters'[rest[i]].requester IN
               u \in Threads /\ pc'[u] \in Blocked /\ waiter'[u] = rest[i]
    <3>1. PICK j \in DOMAIN wait_list : j # k /\ rest[i] = wait_list[j]
      BY <1>10
    <3>2. waiters'[rest[i]] = waiters[wait_list[j]] /\ wait_list[j] # waiter[t]
      BY <1>13, <1>17, <3>1
    <3>3. LET u == waiters[wait_list[j]].requester IN
          u \in Threads /\ pc[u] \in Blocked /\ waiter[u] = wait_list[j]
      BY <1>0 DEF RecordsSound, Waits
    <3>4. QED
      BY <1>16, <3>1, <3>2, <3>3
  <2>3. QED
    BY <1>9, <1>10, <2>1, <2>2 DEF RecordsSound, Waits
<1>22. CursorSkipsSleepers'
  <2> SUFFICES ASSUME NEW i \in 1 .. k - 1 PROVE Pending(waiters', rest[i])
    BY <1>9 DEF CursorSkipsSleepers, Pending
  <2>1. i \in DOMAIN wait_list /\ rest[i] = wait_list[i] /\ i # k
    BY <1>7, <1>10
  <2>2. Pending(waiters, wait_list[i])
    BY <1>0, <1>1, <2>1 DEF HandedOver
  <2>3. QED
    BY <1>13, <1>17, <2>1, <2>2 DEF Pending
<1>23. HandedOver'
  BY <1>15 DEF HandedOver
<1>24. AssertsHold'
  <2>1. \A u \in Threads : pc'[u] \in Blocked => Listed(rest, waiter'[u])
    BY <1>3, <1>16, <1>18
  <2>2. QED
    BY <1>9, <2>1 DEF AssertsHold, Granted, Waits, Queued
<1>25. NoStaleEvent'
  BY <1>2, <1>11, <1>13 DEF NoStaleEvent
<1>26. QED
  BY <1>19, <1>20, <1>21, <1>22, <1>23, <1>24, <1>25 DEF LockInv

LEMMA TimedOutHeldStep ==
  ASSUME LockInv, NEW t \in Threads, TimedOutHeld(t)
  PROVE  LockInv'
<1>0. /\ TypeOK /\ LevelsKept /\ RecordsSound /\ CursorSkipsSleepers /\ HandedOver
      /\ AssertsHold /\ NoStaleEvent
  BY DEF LockInv
<1>1. /\ pc[t] = "expired" /\ lock_level > 0
      /\ waiters' = NoEvents(t) /\ wait_next' = 0
      /\ pc' = [pc EXCEPT ![t] = "relock"]
      /\ UNCHANGED <<lock_level, lock_owner, wait_list, free_waiter, waiter, save_level>>
  BY DEF TimedOutHeld, Waits
<1>2. /\ pc \in [Threads -> Blocked \cup {"run"}]
      /\ "relock" \in Blocked /\ "expired" \in Blocked
      /\ lock_level \in 0 .. MaxLevel
  BY <1>0 DEF TypeOK, Blocked, Asleep
<1>3. /\ pc' \in [Threads -> Blocked \cup {"run"}]
      /\ \A u \in Threads : pc'[u] \in Blocked <=> pc[u] \in Blocked
  BY <1>1, <1>2
<1>4. /\ waiters \in Seq(Waiter) /\ waiter[t] \in DOMAIN waiters
      /\ waiters[waiter[t]] \in Waiter
  BY <1>0, <1>1, <1>2 DEF TypeOK, RecordsSound, Waits
<1> DEFINE x == [waiters[waiter[t]] EXCEPT !.notify = 0,
                   !.events = waiters[waiter[t]].events \cap {EVENT_CANCELED}]
<1>5. x \in Waiter /\ x.notify = 0 /\ x.requester = waiters[waiter[t]].requester
  BY <1>4 DEF Waiter
<1>6. waiters' = [waiters EXCEPT ![waiter[t]] = x]
  BY <1>1 DEF NoEvents
<1> HIDE DEF x
<1>7. /\ waiters' \in Seq(Waiter) /\ DOMAIN waiters' = DOMAIN waiters
      /\ \A v \in DOMAIN waiters : waiters'[v] = IF v = waiter[t] THEN x ELSE waiters[v]
  BY <1>4, <1>5, <1>6, RecordChanged
<1>8. \A v \in DOMAIN waiters :
        waiters'[v].requester = waiters[v].requester /\ (waiters'[v].notify = 1 => waiters[v].notify = 1)
  BY <1>5, <1>7
<1>9. TypeOK'
  BY <1>0, <1>1, <1>3, <1>7 DEF TypeOK
<1>10. LevelsKept'
  BY <1>0, <1>1, <1>2 DEF LevelsKept, Waits, Asleep
<1>11. RecordsSound'
  <2>1. \A u \in Threads : pc'[u] \in Blocked =>
          /\ waiter'[u] \in DOMAIN waiters' \ free_waiter'
          /\ waiters'[waiter'[u]].requester = u
    BY <1>0, <1>1, <1>3, <1>7, <1>8 DEF RecordsSound, Waits
  <2>2. \A i \in DOMAIN wait_list : wait_list[i] \in DOMAIN waiters
    BY <1>0 DEF TypeOK
  <2>3. \A i \in DOMAIN wait_list' :
          LET u == waiters'[wait_list'[i]].requester IN
          u \in Threads /\ pc'[u] \in Blocked /\ waiter'[u] = wait_list'[i]
    BY <1>0, <1>1, <1>3, <1>8, <2>2 DEF RecordsSound, Waits
  <2>4. QED
    BY <1>0, <1>1, <2>1, <2>3 DEF RecordsSound, Waits
<1>12. CursorSkipsSleepers' /\ HandedOver'
  BY <1>1, <1>2 DEF CursorSkipsSleepers, HandedOver
<1>13. \A u \in Threads : Granted(u)' <=> Granted(u)
  BY <1>1, <1>3 DEF Granted, Waits, Queued
<1>14. AssertsHold' /\ NoStaleEvent'
  BY <1>0, <1>1, <1>7, <1>8, <1>13 DEF AssertsHold, NoStaleEvent
<1>15. QED
  BY <1>9, <1>10, <1>11, <1>12, <1>14 DEF LockInv

LEMMA WakeStep ==
  ASSUME LockInv, NEW t \in Threads, Wake(t)
  PROVE  LockInv'
<1>1. CASE LockGranted(t)
  <2>1. Waits(t, Blocked) /\ Signalled(t)
    BY <1>1 DEF LockGranted, Waits, Blocked
  <2>2. lock_level = 1
    BY <2>1, OnlyOneSignalled
  <2>3. /\ ResetEvent(t) /\ Release(t) /\ pc' = [pc EXCEPT ![t] = "run"]
        /\ UNCHANGED <<lock_level, lock_owner, wait_list, wait_next>>
    BY <1>1 DEF LockGranted
  <2>4. lock_level' \in 1 .. MaxLevel
    BY <2>2, <2>3, LockAssumption
  <2>5. QED
    BY <2>1, <2>3, <2>4, WokenKeeps
<1>2. CASE WaitGranted(t) \/ Relocked(t)
  <2>1. Waits(t, Blocked) /\ Signalled(t) /\ Waits(t, Asleep \cup {"relock"})
    BY <1>2 DEF WaitGranted, Relocked, Waits, Blocked, Asleep
  <2>2. /\ ResetEvent(t) /\ Release(t) /\ pc' = [pc EXCEPT ![t] = "run"]
        /\ lock_level' = save_level[t]
        /\ UNCHANGED <<lock_owner, wait_list, wait_next>>
    BY <1>2 DEF WaitGranted, Relocked, Return
  <2>3. save_level[t] \in 0 .. MaxLevel /\ save_level[t] # 0
    BY <2>1 DEF LockInv, TypeOK, LevelsKept
  <2>4. lock_level' \in 1 .. MaxLevel
    BY <2>2, <2>3, LockAssumption
  <2>5. QED
    BY <2>1, <2>2, <2>4, WokenKeeps
<1>3. CASE TimedOutFree(t)
  BY <1>3, TimedOutFreeStep
<1>4. CASE TimedOutHeld(t)
  BY <1>4, TimedOutHeldStep
<1>5. QED
  BY <1>1, <1>2, <1>3, <1>4 DEF Wake

LEMMA LockInvStutters == LockInv /\ UNCHANGED lockVars => LockInv'
BY DEF LockInv, lockVars, TypeOK, LevelsKept, RecordsSound, CursorSkipsSleepers, HandedOver,
       AssertsHold, NoStaleEvent, Granted, Queued, Waits, Pending

LEMMA LockInvStep == LockInv /\ [Next]_lockVars => LockInv'
<1> SUFFICES ASSUME LockInv, [Next]_lockVars PROVE LockInv'
  OBVIOUS
<1>1. CASE UNCHANGED lockVars
  BY <1>1, LockInvStutters
<1>2. ASSUME NEW t \in Threads, Lock(t) \/ Unlock(t) \/ Wake(t) \/ Expire(t) PROVE LockInv'
  BY <1>2, LockStep, UnlockStep, WakeStep, ExpireStep
<1>3. ASSUME NEW t \in Threads, NEW event \in EVENTS_PENDING, NEW timed \in BOOLEAN,
             Wait(t, event, timed)
      PROVE  LockInv'
  BY <1>3, WaitStep
<1>4. ASSUME NEW events \in Notifications, Notify(events) PROVE LockInv'
  <2>1. events \in SUBSET Events
    BY DEF Notifications, Events, EVENTS_PENDING
  <2>2. QED
    BY <1>4, <2>1, NotifyStep
<1>5. QED
  BY <1>1, <1>2, <1>3, <1>4 DEF Next

\* The lock keeps the invariant whatever the threads do with it.
THEOREM LockInvariant == Spec => []LockInv
BY LockInvInit, LockInvStep, PTL DEF Spec

-----------------------------------------------------------------------------
(* The processor uses the lock in no other way.                            *)

LEMMA ProcessorUsesLock ==
  ASSUME PNext
  PROVE  \/ \E t \in Threads : Lock(t) \/ Unlock(t) \/ Wake(t) \/ Expire(t)
         \/ \E t \in Threads, event \in EVENTS_PENDING : \E timed : Wait(t, event, timed)
         \/ \E events \in Notifications : Notify(events)
         \/ UNCHANGED lockVars
<1>0. /\ EVENT_OUTPUT \in EVENTS_PENDING /\ EVENT_INPUT \in EVENTS_PENDING
      /\ {EVENT_OUTPUT} \in Notifications /\ {EVENT_INPUT} \in Notifications
      /\ \A b : {EVENT_INPUT, EVENT_CANCELED} \cup (IF b THEN {EVENT_OUTPUT} ELSE {})
              \in Notifications
  BY DEF EVENTS_PENDING, Notifications
<1>1. ASSUME NEW t \in Threads, Step(t) \/ TimerExpires(t)
      PROVE  \/ Lock(t) \/ Unlock(t) \/ Wake(t) \/ Expire(t) \/ UNCHANGED lockVars
             \/ \E event \in EVENTS_PENDING : \E timed : Wait(t, event, timed)
             \/ \E events \in Notifications : Notify(events)
  <2>1. CASE VideoEnable(t) \/ SetStreaming(t) \/ OneTurnedOn(t)
    BY <2>1 DEF VideoEnable, SetStreaming, OneTurnedOn
  <2>2. CASE LeaveSetActive(t) \/ LeaveImage(t) \/ LeaveField(t)
    BY <2>2 DEF LeaveSetActive, LeaveImage, LeaveField, Leave
  <2>3. CASE OneStart(t) \/ OneTurnOff(t) \/ Handler(t)
    BY <2>3 DEF OneStart, OneTurnOff, Handler, EnterFrom
  <2>4. CASE OneWait(t)
    BY <1>0, <2>4 DEF OneWait
  <2>5. CASE UserWait(t)
    BY <1>0, <2>5 DEF UserWait
  <2>6. CASE ScanImage(t)
    BY <1>0, <2>6 DEF ScanImage
  <2>7. CASE Resume(t) \/ TimerExpires(t)
    BY <2>7 DEF Resume, TimerExpires
  <2>8. QED
    BY <1>1, <2>1, <2>2, <2>3, <2>4, <2>5, <2>6, <2>7 DEF Step
<1>2. ASSUME NEW t \in Apps, CallApi(t)
      PROVE  t \in Threads /\ Lock(t)
  BY <1>2, ProcessorAssumption DEF CallApi, Enter
<1>3. CASE VideoStep
  BY <1>3, ProcessorAssumption
     DEF VideoStep, VideoTop, VideoWake, Capture, NoImage, VideoEnter, VideoDrop, Enter
<1>4. CASE HandleInput
  BY <1>0, <1>4 DEF HandleInput
<1>5. QED
  BY <1>1, <1>2, <1>3, <1>4 DEF PNext

LEMMA ProcessorLockStep == LockInv /\ [PNext]_vars => LockInv'
<1> SUFFICES ASSUME LockInv, [PNext]_vars PROVE LockInv'
  OBVIOUS
<1>1. CASE UNCHANGED vars
  BY <1>1, LockInvStutters DEF vars
<1>2. CASE PNext
  <2>1. \A events \in Notifications : events \in SUBSET Events
    BY DEF Notifications, Events, EVENTS_PENDING
  <2>2. QED
    BY <1>2, <2>1, ProcessorUsesLock, LockStep, UnlockStep, WakeStep, ExpireStep, WaitStep,
       NotifyStep, LockInvStutters
<1>3. QED
  BY <1>1, <1>2

\* The lock keeps its invariant in a whole processor: with the API functions, the
\* video thread and the handler of processor.c as its users.
THEOREM ProcessorLockInvariant == PSpec => []LockInv
<1>1. PInit => LockInv
  BY LockInvInit DEF PInit
<1>2. QED
  BY <1>1, ProcessorLockStep, PTL DEF PSpec

\* The asserts of lock.c hold, whatever calls the threads of a processor make.
THEOREM AssertsAlwaysHold == PSpec => []AssertsHold
BY ProcessorLockInvariant, PTL DEF LockInv

\* A free lock never keeps anybody waiting who needs nothing else.
THEOREM LockIsHandedOver == PSpec => []HandedOver
BY ProcessorLockInvariant, PTL DEF LockInv

-----------------------------------------------------------------------------
(* The lock keeps the promise of module ApiLock, alone and in a processor: *)
(* every step of its waiter records, its cursor and its hand-over is a     *)
(* step of the abstract lock or leaves it as it is.                        *)

(* What the abstract variables are, as functions of the concrete ones.     *)

DepthOf(p, s, owner, level, t) ==
  CASE p[t] = "lock"                          -> 1
    [] p[t] \in Asleep \cup {"relock"}        -> s[t]
    [] p[t] = "run" /\ level > 0 /\ owner = t -> level
    [] OTHER                                  -> 0

UntilOf(p, all, w, t) ==
  IF p[t] \in Asleep THEN all[w[t]].events \cap EVENTS_PENDING ELSE {}

LineOf(all, list) == [i \in DOMAIN list |-> all[list[i]].requester]

LEMMA Mapping ==
  /\ Depths = [t \in Threads |-> DepthOf(pc, save_level, lock_owner, lock_level, t)]
  /\ Depths' = [t \in Threads |-> DepthOf(pc', save_level', lock_owner', lock_level', t)]
  /\ Until = [t \in Threads |-> UntilOf(pc, waiters, waiter, t)]
  /\ Until' = [t \in Threads |-> UntilOf(pc', waiters', waiter', t)]
  /\ Line = LineOf(waiters, wait_list)
  /\ Line' = LineOf(waiters', wait_list')
  /\ Owner = IF lock_level = 0 THEN NoThread ELSE lock_owner
  /\ Owner' = IF lock_level' = 0 THEN NoThread ELSE lock_owner'
BY DEF Depths, DepthOf, Until, UntilOf, Line, LineOf, Owner, Holds, Waits, Runs

LEMMA DepthValues ==
  ASSUME NEW p, NEW s, NEW owner, NEW level, NEW t
  PROVE  /\ p[t] = "lock" => DepthOf(p, s, owner, level, t) = 1
         /\ p[t] \in Asleep \cup {"relock"} => DepthOf(p, s, owner, level, t) = s[t]
         /\ p[t] = "run" /\ level > 0 /\ owner = t => DepthOf(p, s, owner, level, t) = level
         /\ p[t] = "run" /\ ~ (level > 0 /\ owner = t) => DepthOf(p, s, owner, level, t) = 0
<1>1. ASSUME p[t] = "lock" PROVE DepthOf(p, s, owner, level, t) = 1
  BY <1>1 DEF DepthOf, Asleep
<1>2. ASSUME p[t] \in Asleep \cup {"relock"} PROVE DepthOf(p, s, owner, level, t) = s[t]
  <2>1. p[t] # "lock" /\ p[t] # "run"
    BY <1>2 DEF Asleep
  <2>2. QED
    BY <1>2, <2>1 DEF DepthOf
<1>3. ASSUME p[t] = "run"
      PROVE  DepthOf(p, s, owner, level, t) = IF level > 0 /\ owner = t THEN level ELSE 0
  <2>1. p[t] # "lock" /\ p[t] \notin Asleep \cup {"relock"}
    BY <1>3 DEF Asleep
  <2>2. QED
    BY <1>3, <2>1 DEF DepthOf
<1>4. QED
  BY <1>1, <1>2, <1>3

LEMMA SameDepth ==
  ASSUME NEW p, NEW s, NEW owner, NEW level, NEW q, NEW r, NEW new, NEW now, NEW t,
         \/ p[t] = "lock" /\ q[t] = "lock"
         \/ /\ p[t] \in Asleep \cup {"relock"} /\ q[t] \in Asleep \cup {"relock"}
            /\ s[t] = r[t]
         \/ /\ p[t] = "run" /\ q[t] = "run"
            /\ ~ (level > 0 /\ owner = t) /\ ~ (now > 0 /\ new = t)
  PROVE  DepthOf(q, r, new, now, t) = DepthOf(p, s, owner, level, t)
<1>1. CASE p[t] = "lock" /\ q[t] = "lock"
  BY <1>1, DepthValues
<1>2. CASE /\ p[t] \in Asleep \cup {"relock"} /\ q[t] \in Asleep \cup {"relock"}
           /\ s[t] = r[t]
  <2>1. DepthOf(p, s, owner, level, t) = s[t]
    BY <1>2, DepthValues
  <2>2. DepthOf(q, r, new, now, t) = r[t]
    BY <1>2, DepthValues
  <2>3. QED
    BY <1>2, <2>1, <2>2
<1>3. CASE /\ p[t] = "run" /\ q[t] = "run"
           /\ ~ (level > 0 /\ owner = t) /\ ~ (now > 0 /\ new = t)
  <2>1. DepthOf(p, s, owner, level, t) = 0
    BY <1>3, DepthValues
  <2>2. DepthOf(q, r, new, now, t) = 0
    BY <1>3, DepthValues
  <2>3. QED
    BY <2>1, <2>2
<1>4. QED
  BY <1>1, <1>2, <1>3

\* A thread that waits for the lock only, or that has been given it, waits for
\* no event any more.
EventsOver(p, all, w, list) ==
  \A t \in Threads :
    p[t] \in {"lock", "relock"} \/ (p[t] \in Blocked /\ ~ Listed(list, w[t]))
      => ~ Pending(all, w[t])

MapInv == LockInv /\ EventsOver(pc, waiters, waiter, wait_list)

-----------------------------------------------------------------------------
(* The hand-over.                                                          *)

\* The line without its i-th thread.
LeavesOut(rest, line, i) ==
  /\ Len(rest) = Len(line) - 1
  /\ \A k \in 1 .. Len(line) - 1 : rest[k] = IF k < i THEN line[k] ELSE line[k + 1]

Cut(line, i) == SubSeq(line, 1, i - 1) \o SubSeq(line, i + 1, Len(line))

LEMMA LineWithout ==
  ASSUME NEW S, NEW line \in Seq(S), NEW i \in 1 .. Len(line), NEW rest \in Seq(S),
         LeavesOut(rest, line, i)
  PROVE  rest = Cut(line, i)
<1> DEFINE n == Len(line)
           a == SubSeq(line, 1, i - 1)
           b == SubSeq(line, i + 1, n)
<1>1. n \in Nat /\ DOMAIN line = 1 .. n /\ (\A k \in 1 .. n : line[k] \in S) /\ i \in 1 .. n
  OBVIOUS
<1>2. /\ a \in Seq(S) /\ Len(a) = i - 1 /\ \A k \in 1 .. i - 1 : a[k] = line[k]
  OBVIOUS
<1>3. /\ b \in Seq(S) /\ Len(b) = n - i /\ \A k \in 1 .. n - i : b[k] = line[i + k]
  OBVIOUS
<1>4. /\ Len(rest) = n - 1
      /\ \A k \in 1 .. n - 1 : rest[k] = IF k < i THEN line[k] ELSE line[k + 1]
  BY DEF LeavesOut
<1> HIDE DEF n, a, b
<1>5. /\ a \o b \in Seq(S) /\ Len(a \o b) = Len(a) + Len(b)
      /\ \A k \in 1 .. Len(a) + Len(b) :
           (a \o b)[k] = IF k <= Len(a) THEN a[k] ELSE b[k - Len(a)]
  BY <1>2, <1>3, ConcatProperties, Zenon
<1> DEFINE c == a \o b
<1> HIDE DEF c
<1>6. Len(c) = n - 1 /\ \A k \in 1 .. n - 1 : c[k] = IF k < i THEN line[k] ELSE line[k + 1]
  <2>1. Len(c) = n - 1
    BY <1>1, <1>2, <1>3, <1>5 DEF c
  <2>2. ASSUME NEW k \in 1 .. n - 1 PROVE c[k] = IF k < i THEN line[k] ELSE line[k + 1]
    <3>1. c[k] = IF k <= i - 1 THEN a[k] ELSE b[k - (i - 1)]
      BY <1>1, <1>2, <1>3, <1>5 DEF c
    <3>2. CASE k < i
      <4>1. k \in 1 .. i - 1 /\ k <= i - 1
        BY <1>1, <3>2
      <4>2. QED
        BY <1>2, <3>1, <3>2, <4>1
    <3>3. CASE ~ (k < i)
      <4>1. k - (i - 1) \in 1 .. n - i /\ i + (k - (i - 1)) = k + 1 /\ ~ (k <= i - 1)
        BY <1>1, <3>3
      <4>2. QED
        BY <1>3, <3>1, <3>3, <4>1
    <3>4. QED
      BY <3>2, <3>3
  <2>3. QED
    BY <2>1, <2>2
<1>7. c \in Seq(S)
  BY <1>5 DEF c
<1>8. rest = c
  <2>1. Len(rest) = Len(c) /\ \A k \in 1 .. Len(rest) : rest[k] = c[k]
    BY <1>4, <1>6
  <2>2. QED
    BY <1>7, <2>1, SeqEqual, Zenon
<1>9. QED
  BY <1>8 DEF a, b, c, n, Cut

LEMMA LineOfType ==
  ASSUME NEW all, NEW list \in Seq(DOMAIN all),
         \A i \in DOMAIN list : all[list[i]].requester \in Threads
  PROVE  /\ LineOf(all, list) \in Seq(Threads) /\ Len(LineOf(all, list)) = Len(list)
         /\ DOMAIN LineOf(all, list) = DOMAIN list
         /\ \A i \in DOMAIN list : LineOf(all, list)[i] = all[list[i]].requester
<1>1. Len(list) \in Nat /\ DOMAIN list = 1 .. Len(list)
  OBVIOUS
<1>2. LineOf(all, list) \in [1 .. Len(list) -> Threads]
  BY <1>1 DEF LineOf
<1>3. QED
  BY <1>1, <1>2 DEF LineOf

\* The line of the threads without the i-th, whatever becomes of its record.
LEMMA LineTakenOff ==
  ASSUME NEW all, NEW list \in Seq(DOMAIN all), NEW i \in DOMAIN list,
         \A j \in DOMAIN list : all[list[j]].requester \in Threads,
         NEW new, DOMAIN new = DOMAIN all,
         \A j \in DOMAIN list : j # i => new[list[j]].requester = all[list[j]].requester
  PROVE  LineOf(new, Without(list, i)) = Cut(LineOf(all, list), i)
<1> DEFINE W    == DOMAIN all
           rest == Without(list, i)
           l    == LineOf(all, list)
           m    == LineOf(new, rest)
           n    == Len(list)
<1>1. /\ l \in Seq(Threads) /\ Len(l) = n /\ DOMAIN l = DOMAIN list
      /\ \A j \in DOMAIN list : l[j] = all[list[j]].requester
  BY LineOfType
<1>2. n \in Nat /\ DOMAIN list = 1 .. n /\ list \in Seq(W) /\ i \in 1 .. n
  OBVIOUS
<1>3. /\ rest \in Seq(W) /\ Len(rest) = n - 1
      /\ \A k \in 1 .. n - 1 : rest[k] = IF k < i THEN list[k] ELSE list[k + 1]
  <2> HIDE DEF W
  <2>1. QED
    BY <1>2, WithoutType
<1> HIDE DEF rest, l, W, n
<1>4. DOMAIN rest = 1 .. n - 1
  BY <1>2, <1>3
<1>5. ASSUME NEW k \in 1 .. n - 1
      PROVE  /\ new[rest[k]].requester \in Threads
             /\ new[rest[k]].requester = IF k < i THEN l[k] ELSE l[k + 1]
  <2>1. k \in 1 .. n /\ k + 1 \in 1 .. n /\ k \in Nat /\ i \in Nat
    BY <1>2
  <2>2. CASE k < i
    <3>1. rest[k] = list[k] /\ k # i
      BY <1>3, <2>1, <2>2
    <3>2. QED
      BY <1>1, <1>2, <2>1, <2>2, <3>1
  <2>3. CASE ~ (k < i)
    <3> DEFINE k1 == k + 1
    <3>1. rest[k] = list[k1] /\ k1 # i /\ k1 \in DOMAIN list
      BY <1>2, <1>3, <2>1, <2>3
    <3> HIDE DEF k1
    <3>2. new[list[k1]].requester = l[k1] /\ new[list[k1]].requester \in Threads
      BY <1>1, <3>1
    <3>3. QED
      BY <2>3, <3>1, <3>2 DEF k1
  <2>4. QED
    BY <2>2, <2>3
<1>6. /\ m \in Seq(Threads) /\ Len(m) = Len(rest)
      /\ \A k \in DOMAIN rest : m[k] = new[rest[k]].requester
  <2>1. rest \in Seq(DOMAIN new)
    BY <1>3 DEF W
  <2>2. \A k \in DOMAIN rest : new[rest[k]].requester \in Threads
    BY <1>4, <1>5
  <2>3. QED
    BY <2>1, <2>2, LineOfType
<1> HIDE DEF m
<1>7. LeavesOut(m, l, i)
  BY <1>1, <1>3, <1>4, <1>5, <1>6 DEF LeavesOut
<1>8. i \in 1 .. Len(l)
  BY <1>1, <1>2
<1>9. m = Cut(l, i)
  BY <1>1, <1>6, <1>7, <1>8, LineWithout, Zenon
<1>10. QED
  BY <1>9 DEF m, l, rest

\* A list that holds the record of every blocked thread, once, and none besides.
Ready(all, list, p, w) ==
  /\ \A t \in Threads : p[t] \in Blocked =>
       w[t] \in DOMAIN all /\ all[w[t]].requester = t /\ Listed(list, w[t])
  /\ \A i \in DOMAIN list :
       LET t == all[list[i]].requester IN
       t \in Threads /\ p[t] \in Blocked /\ w[t] = list[i]
  /\ \A t \in Threads : p[t] \in {"lock", "relock"} => ~ Pending(all, w[t])
  /\ \A i, j \in DOMAIN list : list[i] = list[j] => i = j

Untils(p, all, w) == [t \in Threads |-> UntilOf(p, all, w, t)]

HandedOverWell(all, list, p, w) ==
  /\ A!Serve(LineOf(all, list), Untils(p, all, w))
  /\ Untils(p, waiters', w) = Untils(p, all, w)
  /\ EventsOver(p, waiters', w, wait_list')
  /\ \A t \in Threads : p[t] \notin Blocked => ~ (lock_level' > 0 /\ lock_owner' = t)

\* A free lock is handed over as the abstract lock serves the first in line
\* whose events have come.
LEMMA HandOverServes ==
  ASSUME NEW all \in Seq(Waiter), NEW list \in Seq(DOMAIN all), NEW next \in 0 .. Len(list),
         HandOver(all, list, next),
         \A i \in 1 .. next : Pending(all, list[i]),
         NEW p, NEW w, Ready(all, list, p, w)
  PROVE  HandedOverWell(all, list, p, w)
<1> DEFINE l == LineOf(all, list)
           u == Untils(p, all, w)
<1>1. /\ l \in Seq(Threads) /\ Len(l) = Len(list) /\ DOMAIN l = DOMAIN list
      /\ \A i \in DOMAIN list : l[i] = all[list[i]].requester /\ l[i] \in Threads
  <2>1. \A i \in DOMAIN list : all[list[i]].requester \in Threads
    BY DEF Ready
  <2>2. QED
    BY <2>1, LineOfType
<1>2. \A i \in DOMAIN list : u[l[i]] = {} <=> ~ Pending(all, list[i])
  <2> TAKE i \in DOMAIN list
  <2>1. l[i] \in Threads /\ p[l[i]] \in Blocked /\ w[l[i]] = list[i]
    BY <1>1 DEF Ready
  <2>2. u[l[i]] = UntilOf(p, all, w, l[i])
    BY <2>1 DEF Untils
  <2>3. CASE p[l[i]] \in Asleep
    BY <2>1, <2>2, <2>3 DEF UntilOf, Pending
  <2>4. CASE p[l[i]] \notin Asleep
    BY <2>1, <2>2, <2>4 DEF UntilOf, Blocked, Ready
  <2>5. QED
    BY <2>3, <2>4
<1>3. Line' = LineOf(waiters', wait_list')
  BY Mapping
<1> HIDE DEF l, u
<1>4. CASE /\ \A i \in DOMAIN list : Pending(all, list[i])
           /\ lock_level' = 0 /\ lock_owner' = lock_owner
           /\ wait_list' = list /\ wait_next' = Len(list)
           /\ waiters' = all
  <2>1. Owner' = NoThread /\ Line' = l
    BY <1>3, <1>4, Mapping DEF l
  <2>2. \A i \in DOMAIN l : u[l[i]] # {}
    BY <1>1, <1>2, <1>4
  <2>3. A!Serve(l, u)
    BY <2>1, <2>2 DEF A!Serve
  <2>4. EventsOver(p, waiters', w, wait_list')
    BY <1>4 DEF EventsOver, Ready
  <2>5. QED
    BY <1>4, <2>3, <2>4 DEF HandedOverWell, l, u
<1>5. ASSUME NEW i \in DOMAIN list,
             ~ Pending(all, list[i]),
             \A j \in 1 .. i - 1 : Pending(all, list[j]),
             lock_level' = 1, lock_owner' = all[list[i]].requester,
             wait_list' = Without(list, i), wait_next' = i - 1,
             waiters' = [all EXCEPT ![list[i]] = [@ EXCEPT !.notify = 1]]
      PROVE  HandedOverWell(all, list, p, w)
  <2>0. /\ Len(list) \in Nat /\ DOMAIN list = 1 .. Len(list) /\ i \in 1 .. Len(list)
        /\ \A j \in 1 .. i - 1 : j \in DOMAIN list
    OBVIOUS
  <2>1. Owner' = l[i]
    BY <1>1, <1>5, Mapping
  <2>2. u[l[i]] = {} /\ \A j \in 1 .. i - 1 : u[l[j]] # {}
    BY <1>2, <1>5, <2>0
  <2> DEFINE v   == list[i]
             r   == [all[v] EXCEPT !.notify = 1]
             new == [all EXCEPT ![v] = r]
             W   == DOMAIN all
             rest == Without(list, i)
  <2>3. v \in W /\ all[v] \in Waiter /\ r \in Waiter
        /\ r.requester = all[v].requester /\ r.events = all[v].events
    BY EventSet
  <2>4. waiters' = new
    BY <1>5
  <2>5. /\ DOMAIN new = W
        /\ \A x \in W : new[x].requester = all[x].requester /\ new[x].events = all[x].events
    <3> HIDE DEF v, r
    <3>1. QED
      BY <2>3, RecordChanged
  <2>6. rest \in Seq(W) /\ \A j \in DOMAIN list : j # i => Listed(rest, list[j])
    <3>1. list \in Seq(W)
      OBVIOUS
    <3> HIDE DEF W, rest
    <3>2. rest \in Seq(W)
      BY <3>1, WithoutType DEF rest
    <3>3. \A j \in DOMAIN list : j # i => Listed(rest, list[j])
      BY <3>1, WithoutRest, Zenon DEF rest
    <3>4. QED
      BY <3>2, <3>3
  <2> HIDE DEF v, r, new, rest
  <2>7. \A j \in DOMAIN list :
          list[j] \in W /\ all[list[j]].requester \in Threads
    BY DEF Ready
  <2>8. LineOf(new, rest) = Cut(l, i)
    <3>1. \A j \in DOMAIN list : j # i => new[list[j]].requester = all[list[j]].requester
      BY <2>5, <2>7
    <3>2. QED
      BY <2>5, <2>7, <3>1, LineTakenOff, Zenon DEF l, rest, W
  <2>9. Line' = SubSeq(l, 1, i - 1) \o SubSeq(l, i + 1, Len(l))
    BY <1>3, <1>5, <2>4, <2>8 DEF Cut, rest
  <2>10. A!Serve(l, u)
    BY <1>1, <2>1, <2>2, <2>9 DEF A!Serve
  <2>11. \A x \in W : Pending(waiters', x) <=> Pending(all, x)
    BY <2>4, <2>5 DEF Pending
  <2>12. Untils(p, waiters', w) = u
    <3>1. ASSUME NEW t \in Threads PROVE UntilOf(p, waiters', w, t) = UntilOf(p, all, w, t)
      <4>1. p[t] \in Asleep => w[t] \in W
        BY DEF Ready, Blocked
      <4>2. QED
        BY <2>4, <2>5, <4>1 DEF UntilOf
    <3>2. QED
      BY <3>1 DEF Untils, u
  <2>13. EventsOver(p, waiters', w, wait_list')
    <3> SUFFICES ASSUME NEW t \in Threads,
                        p[t] \in {"lock", "relock"} \/ (p[t] \in Blocked /\ ~ Listed(rest, w[t]))
                 PROVE  ~ Pending(waiters', w[t])
      BY <1>5 DEF EventsOver, rest
    <3>1. p[t] \in Blocked /\ w[t] \in W /\ Listed(list, w[t])
      BY DEF Ready, Blocked
    <3>2. CASE p[t] \in {"lock", "relock"}
      BY <2>11, <3>1, <3>2 DEF Ready
    <3>3. CASE ~ Listed(rest, w[t])
      <4>1. PICK j \in DOMAIN list : list[j] = w[t]
        BY <3>1 DEF Listed
      <4>2. j = i
        BY <2>6, <3>3, <4>1
      <4>3. QED
        BY <1>5, <2>11, <3>1, <4>1, <4>2
    <3>4. QED
      BY <3>2, <3>3
  <2>14. \A t \in Threads : p[t] \notin Blocked => ~ (lock_level' > 0 /\ lock_owner' = t)
    BY <1>5 DEF Ready
  <2>15. QED
    BY <2>10, <2>12, <2>13, <2>14 DEF HandedOverWell, l, u
<1>6. QED
  BY <1>4, <1>5, HandOverEffect

-----------------------------------------------------------------------------
(* The steps.                                                              *)

\* A step is one of the abstract lock or none, and leaves the depths d.
StepMaps(d) ==
  /\ [A!Next]_(A!vars)
  /\ EventsOver(pc', waiters', waiter', wait_list')
  /\ Depths' = d

\* What the invariant says of the threads.
LEMMA ThreadFacts ==
  ASSUME MapInv
  PROVE  /\ pc \in [Threads -> Blocked \cup {"run"}] /\ waiter \in [Threads -> Nat]
         /\ save_level \in [Threads -> 0 .. MaxLevel]
         /\ lock_level \in 0 .. MaxLevel /\ lock_owner \in Threads
         /\ waiters \in Seq(Waiter) /\ wait_list \in Seq(DOMAIN waiters)
         /\ wait_next \in 0 .. Len(wait_list)
         /\ \A i \in DOMAIN wait_list :
              LET t == waiters[wait_list[i]].requester IN
              t \in Threads /\ pc[t] \in Blocked /\ waiter[t] = wait_list[i]
         /\ \A i, j \in DOMAIN wait_list : wait_list[i] = wait_list[j] => i = j
         /\ \A t \in Threads : pc[t] \in Blocked =>
              waiter[t] \in DOMAIN waiters /\ waiters[waiter[t]].requester = t
         /\ \A i \in 1 .. wait_next : Pending(waiters, wait_list[i])
         /\ EventsOver(pc, waiters, waiter, wait_list)
         /\ "run" \notin Blocked /\ Blocked = Asleep \cup {"lock", "relock"}
         /\ Asleep = {"sleep", "doze", "expired"}
         /\ NoThread \notin Threads
BY LockAssumption
   DEF MapInv, LockInv, TypeOK, RecordsSound, CursorSkipsSleepers, Waits, Blocked, Asleep

LEMMA SameLine ==
  ASSUME NEW all, NEW new, NEW list,
         \A i \in DOMAIN list : new[list[i]].requester = all[list[i]].requester
  PROVE  LineOf(new, list) = LineOf(all, list)
BY DEF LineOf

\* A thread that puts its record at the end of the list gets in line.
QueuedTail(t, r, events, list) ==
  /\ QueuedAs(t, r, list)
  /\ LineOf(r.all, list) = Append(LineOf(waiters, wait_list), t)
  /\ r.all \in Seq(Waiter) /\ r.w \in Nat
  /\ r.all[r.w].events = events
  /\ \A u \in Threads : pc[u] \in Blocked => r.all[waiter[u]] = waiters[waiter[u]]

LEMMA QueueTail ==
  ASSUME MapInv, NEW t \in Threads, Runs(t),
         NEW events \in SUBSET Events, NEW r \in Records(t, events),
         NEW list, list = Append(wait_list, r.w)
  PROVE  QueuedTail(t, r, events, list)
<1>1. QueuedAs(t, r, list)
  BY RecordQueued DEF MapInv
<1>2. /\ r.all \in Seq(Waiter) /\ r.w \in Nat
      /\ \A v \in DOMAIN waiters : v # r.w => r.all[v] = waiters[v]
      /\ r.all[r.w].requester = t /\ r.all[r.w].events = events
  BY RecordTaken DEF MapInv
<1>3. \A u \in Threads : pc[u] \in Blocked => r.all[waiter[u]] = waiters[waiter[u]]
  BY <1>1, <1>2, ThreadFacts DEF QueuedAs
<1> DEFINE n == Len(wait_list)
           l == LineOf(waiters, wait_list)
           m == LineOf(r.all, list)
<1>4. /\ n \in Nat /\ DOMAIN wait_list = 1 .. n
      /\ list \in Seq(DOMAIN r.all) /\ DOMAIN list = 1 .. n + 1 /\ Len(list) = n + 1
      /\ \A i \in 1 .. n : list[i] = wait_list[i]
      /\ list[n + 1] = r.w
  <2>1. wait_list \in Seq(DOMAIN waiters) /\ list \in Seq(DOMAIN r.all)
    BY <1>1, ThreadFacts DEF QueuedAs
  <2>2. QED
    BY <2>1
<1>5. /\ l \in Seq(Threads) /\ Len(l) = n /\ DOMAIN l = 1 .. n
      /\ \A i \in 1 .. n : l[i] = waiters[wait_list[i]].requester
  <2>1. wait_list \in Seq(DOMAIN waiters)
        /\ \A i \in DOMAIN wait_list : waiters[wait_list[i]].requester \in Threads
    BY ThreadFacts
  <2>2. QED
    BY <1>4, <2>1, LineOfType
<1>6. /\ m \in Seq(Threads) /\ Len(m) = n + 1
      /\ \A i \in 1 .. n + 1 : m[i] = r.all[list[i]].requester
  <2>1. \A i \in DOMAIN list : r.all[list[i]].requester \in Threads
    BY <1>1 DEF QueuedAs
  <2>2. m \in Seq(Threads) /\ Len(m) = Len(list) /\ \A i \in DOMAIN list : m[i] = r.all[list[i]].requester
    <3>1. list \in Seq(DOMAIN r.all)
      BY <1>4
    <3>2. QED
      BY <2>1, <3>1, LineOfType
  <2> HIDE DEF m, n
  <2>3. QED
    BY <1>4, <2>2
<1> HIDE DEF l, m, n
<1>7. \A i \in 1 .. n : m[i] = l[i]
  <2> TAKE i \in 1 .. n
  <2>1. list[i] = wait_list[i] /\ i \in 1 .. n + 1 /\ i \in DOMAIN wait_list
    BY <1>4
  <2>2. PICK u \in Threads : pc[u] \in Blocked /\ waiter[u] = wait_list[i]
    BY <2>1, ThreadFacts
  <2>3. QED
    BY <1>3, <1>5, <1>6, <2>1, <2>2
<1>8. m[n + 1] = t
  BY <1>2, <1>4, <1>6
<1>9. m = Append(l, t)
  <2> DEFINE a == Append(l, t)
  <2>1. /\ a \in Seq(Threads) /\ Len(a) = n + 1
        /\ \A i \in 1 .. n : a[i] = l[i]
        /\ a[n + 1] = t
    BY <1>4, <1>5
  <2> HIDE DEF a
  <2>2. \A i \in 1 .. n + 1 : i \in 1 .. n \/ i = n + 1
    BY <1>4
  <2>3. Len(m) = Len(a) /\ \A i \in 1 .. Len(m) : m[i] = a[i]
    BY <1>6, <1>7, <1>8, <2>1, <2>2
  <2>4. m = a
    BY <1>6, <2>1, <2>3, SeqEqual, Zenon
  <2>5. QED
    BY <2>4 DEF a
<1>10. QED
  BY <1>1, <1>2, <1>3, <1>9 DEF QueuedTail, l, m

\* A thread outside the lock is not in line.
LEMMA RunsNotInLine ==
  ASSUME MapInv, NEW t \in Threads, Runs(t)
  PROVE  ~ A!InLine(t)
BY ThreadFacts, Mapping DEF A!InLine, LineOf, Runs

LEMMA LockMaps ==
  ASSUME MapInv, NEW t \in Threads, Lock(t)
  PROVE  StepMaps([Depths EXCEPT ![t] = Depths[t] + 1])
<1> DEFINE d == [Depths EXCEPT ![t] = Depths[t] + 1]
<1>0. Runs(t) /\ ~ A!InLine(t) /\ pc[t] = "run"
  BY RunsNotInLine DEF Lock, LockFree, LockAgain, LockQueue, Runs
<1>1. ASSUME LockFree(t) \/ LockAgain(t)
      PROVE  StepMaps(d)
  <2>1. /\ UNCHANGED <<wait_list, wait_next, free_waiter, waiters, pc, waiter, save_level>>
        /\ lock_owner' = t /\ lock_level' = lock_level + 1 /\ (lock_level = 0 \/ lock_owner = t)
    BY <1>1 DEF LockFree, LockAgain, Holds
  <2>2. Line' = Line /\ Until' = Until
    BY <2>1, Mapping
  <2>3. Owner \in {NoThread, t} /\ Owner' = t
    BY <2>1, Mapping, ThreadFacts
  <2>4. Depths' = d
    <3>1. ASSUME NEW u \in Threads
          PROVE  DepthOf(pc, save_level, t, lock_level + 1, u)
                   = IF u = t THEN DepthOf(pc, save_level, lock_owner, lock_level, u) + 1
                     ELSE DepthOf(pc, save_level, lock_owner, lock_level, u)
      <4>1. pc[u] = "run" \/ pc[u] \in Asleep \cup {"relock"} \/ pc[u] = "lock"
        BY ThreadFacts
      <4>2. lock_level \in Nat
        BY ThreadFacts
      <4>3. CASE u = t
        BY <1>0, <2>1, <4>2, <4>3, DepthValues
      <4>4. CASE u # t
        BY <2>1, <4>1, <4>2, <4>4, DepthValues
      <4>5. QED
        BY <4>3, <4>4
    <3>2. QED
      BY <2>1, <3>1, Mapping
  <2>5. A!Enter(t)
    BY <1>0, <2>2, <2>3, <2>4 DEF A!Enter
  <2>6. EventsOver(pc', waiters', waiter', wait_list')
    BY <2>1, ThreadFacts
  <2>7. QED
    BY <2>4, <2>5, <2>6 DEF StepMaps, A!Next
<1>2. ASSUME LockQueue(t) PROVE StepMaps(d)
  <2>1. PICK r \in Records(t, {}) :
          /\ waiter' = [waiter EXCEPT ![t] = r.w]
          /\ free_waiter' = r.free /\ waiters' = r.all
          /\ wait_list' = Append(wait_list, r.w)
    BY <1>2 DEF LockQueue
  <2>2. /\ lock_level > 0 /\ lock_owner # t
        /\ pc' = [pc EXCEPT ![t] = "lock"]
        /\ UNCHANGED <<lock_level, lock_owner, wait_next, save_level>>
    BY <1>2 DEF LockQueue
  <2> DEFINE list == Append(wait_list, r.w)
  <2>3. QueuedTail(t, r, {}, list) /\ wait_list' = list
    BY <1>0, <2>1, QueueTail
  <2> HIDE DEF list
  <2>4. Line' = Append(Line, t)
    BY <2>1, <2>3, Mapping DEF QueuedTail
  <2>5. /\ \A u \in Threads \ {t} : pc'[u] = pc[u] /\ waiter'[u] = waiter[u]
        /\ pc'[t] = "lock" /\ waiter'[t] = r.w
    BY <2>1, <2>2, ThreadFacts
  <2>6. Owner' = Owner /\ Owner \notin {NoThread, t}
    BY <2>2, Mapping, ThreadFacts
  <2>7. Depths' = d /\ d = [Depths EXCEPT ![t] = 1]
    <3>1. ASSUME NEW u \in Threads
          PROVE  DepthOf(pc', save_level, lock_owner, lock_level, u)
                   = IF u = t THEN 1 ELSE DepthOf(pc, save_level, lock_owner, lock_level, u)
      <4>1. pc[u] = "run" \/ pc[u] \in Asleep \cup {"relock"} \/ pc[u] = "lock"
        BY ThreadFacts
      <4>2. QED
        BY <2>5, <4>1, DepthValues
    <3>2. Depths[t] = 0
      BY <1>0, <2>2, DepthValues, Mapping
    <3>3. Depths' = [u \in Threads |-> IF u = t THEN 1 ELSE Depths[u]]
      <4>1. \A u \in Threads : Depths[u] = DepthOf(pc, save_level, lock_owner, lock_level, u)
        BY Mapping
      <4>2. Depths' = [u \in Threads |-> DepthOf(pc', save_level, lock_owner, lock_level, u)]
        BY <2>2, Mapping
      <4>3. QED
        BY <3>1, <4>1, <4>2
    <3>4. \A k : [Depths EXCEPT ![t] = k] = [u \in Threads |-> IF u = t THEN k ELSE Depths[u]]
      BY Mapping
    <3>5. Depths[t] + 1 = 1
      BY <3>2
    <3>6. QED
      BY <3>3, <3>4, <3>5
  <2>8. Until' = Until
    <3>1. ASSUME NEW u \in Threads
          PROVE  UntilOf(pc', r.all, waiter', u) = UntilOf(pc, waiters, waiter, u)
      <4>1. CASE u = t
        BY <1>0, <2>5, <4>1, ThreadFacts DEF UntilOf
      <4>2. CASE u # t
        <5>1. pc[u] \in Asleep => r.all[waiter[u]] = waiters[waiter[u]]
          BY <2>3, ThreadFacts DEF QueuedTail
        <5>2. QED
          BY <2>5, <4>2, <5>1 DEF UntilOf
      <4>3. QED
        BY <4>1, <4>2
    <3>2. QED
      BY <2>1, <3>1, Mapping
  <2>9. A!Enter(t)
    BY <1>0, <2>4, <2>6, <2>7, <2>8 DEF A!Enter
  <2>10. EventsOver(pc', waiters', waiter', wait_list')
    <3> SUFFICES ASSUME NEW u \in Threads,
                        \/ pc'[u] \in {"lock", "relock"}
                        \/ pc'[u] \in Blocked /\ ~ Listed(wait_list', waiter'[u])
                 PROVE  ~ Pending(r.all, waiter'[u])
      BY <2>1 DEF EventsOver
    <3>1. CASE u = t
      BY <2>3, <2>5, <3>1 DEF QueuedTail, Pending
    <3>2. CASE u # t
      <4>1. pc[u] = pc'[u] /\ waiter[u] = waiter'[u] /\ pc[u] \in Blocked
        BY <2>5, <3>2, ThreadFacts
      <4>2. r.all[waiter[u]] = waiters[waiter[u]]
        BY <2>3, <4>1 DEF QueuedTail
      <4>3. Listed(wait_list, waiter[u]) => Listed(wait_list', waiter[u])
        BY <2>3 DEF QueuedTail, QueuedAs, Listed
      <4>4. QED
        BY <4>1, <4>2, <4>3, ThreadFacts DEF EventsOver, Pending
    <3>3. QED
      BY <3>1, <3>2
  <2>11. QED
    BY <2>7, <2>9, <2>10 DEF StepMaps, A!Next
<1>3. QED
  BY <1>1, <1>2 DEF Lock

\* While nobody has been given the lock, every blocked thread is in the list.
LEMMA ReadyNow ==
  ASSUME MapInv, lock_level = 0 \/ \E t \in Threads : Runs(t) /\ lock_owner = t
  PROVE  Ready(waiters, wait_list, pc, waiter)
<1>1. \A t \in Threads : pc[t] \in Blocked => Listed(wait_list, waiter[t])
  BY NobodyGranted DEF MapInv
<1>2. QED
  BY <1>1, ThreadFacts DEF Ready, EventsOver

LEMMA UnlockMaps ==
  ASSUME MapInv, NEW t \in Threads, Unlock(t)
  PROVE  StepMaps([Depths EXCEPT ![t] = Depths[t] - 1])
<1> DEFINE d == [Depths EXCEPT ![t] = Depths[t] - 1]
<1>1. /\ pc[t] = "run" /\ lock_owner = t /\ lock_level > 0 /\ lock_level \in Nat
      /\ UNCHANGED <<free_waiter, pc, waiter, save_level>>
  BY ThreadFacts DEF Unlock, Holds, Runs
<1>2. Owner = t /\ Depths[t] = lock_level
  BY <1>1, Mapping, DepthValues
<1>3. ASSUME NEW u \in Threads PROVE pc[u] = "run" \/ pc[u] \in Asleep \cup {"relock"} \/ pc[u] = "lock"
  BY ThreadFacts
<1>4. CASE lock_level > 1
  <2>1. lock_level' = lock_level - 1 /\ UNCHANGED <<lock_owner, wait_list, wait_next, waiters>>
    BY <1>4 DEF Unlock
  <2>2. Line' = Line /\ Until' = Until /\ Owner' = Owner
    BY <1>1, <1>4, <2>1, Mapping
  <2>3. Depths' = d
    <3>1. ASSUME NEW u \in Threads
          PROVE  DepthOf(pc, save_level, t, lock_level - 1, u)
                   = IF u = t THEN DepthOf(pc, save_level, t, lock_level, u) - 1
                     ELSE DepthOf(pc, save_level, t, lock_level, u)
      BY <1>1, <1>3, <1>4, DepthValues
    <3>2. QED
      BY <1>1, <2>1, <3>1, Mapping
  <2>4. A!Leave(t)
    BY <1>2, <1>4, <2>2, <2>3 DEF A!Leave
  <2>5. EventsOver(pc', waiters', waiter', wait_list')
    BY <1>1, <2>1, ThreadFacts
  <2>6. QED
    BY <2>3, <2>4, <2>5 DEF StepMaps, A!Next
<1>5. CASE ~ (lock_level > 1)
  <2>1. HandOver(waiters, wait_list, wait_next)
    BY <1>5 DEF Unlock
  <2>2. Ready(waiters, wait_list, pc, waiter)
    BY <1>1, ReadyNow DEF Runs
  <2>3. HandedOverWell(waiters, wait_list, pc, waiter)
    BY <2>1, <2>2, ThreadFacts, HandOverServes
  <2>4. /\ A!Serve(Line, Until) /\ Until' = Until
        /\ EventsOver(pc', waiters', waiter', wait_list')
        /\ \A u \in Threads : pc[u] \notin Blocked => ~ (lock_level' > 0 /\ lock_owner' = u)
    BY <1>1, <2>3, Mapping DEF HandedOverWell, Untils
  <2>5. Depths' = d
    <3>1. ASSUME NEW u \in Threads
          PROVE  DepthOf(pc, save_level, lock_owner', lock_level', u)
                   = IF u = t THEN DepthOf(pc, save_level, t, lock_level, u) - 1
                     ELSE DepthOf(pc, save_level, t, lock_level, u)
      <4>1. pc[u] = "run" => ~ (lock_level' > 0 /\ lock_owner' = u)
        BY <2>4, ThreadFacts
      <4>2. lock_level = 1
        BY <1>1, <1>5
      <4>3. QED
        BY <1>1, <1>3, <4>1, <4>2, DepthValues
    <3>2. QED
      BY <1>1, <3>1, Mapping
  <2>6. Depths[t] = 1
    BY <1>1, <1>2, <1>5
  <2>7. A!Leave(t)
    BY <1>2, <2>4, <2>5, <2>6 DEF A!Leave
  <2>8. QED
    BY <2>4, <2>5, <2>7 DEF StepMaps, A!Next
<1>6. QED
  BY <1>4, <1>5

\* What a notification leaves of the events.
LEMMA NotifiedEvents ==
  ASSUME MapInv, NEW events \in SUBSET Events, NEW w \in DOMAIN waiters
  PROVE  /\ Queued(w) => Notified(events)[w].events \cap EVENTS_PENDING
                           = (waiters[w].events \cap EVENTS_PENDING) \ events
         /\ ~ Queued(w) => Notified(events)[w] = waiters[w]
<1>1. waiters[w] \in Waiter /\ EVENT_CANCELED \notin EVENTS_PENDING
  BY ThreadFacts DEF EVENT_CANCELED, EVENTS_PENDING, EVENT_INPUT, EVENT_OUTPUT
<1>2. Notified(events)[w] =
        IF Queued(w)
        THEN [waiters[w] EXCEPT
                !.events = (waiters[w].events \ events) \cup (events \cap {EVENT_CANCELED})]
        ELSE waiters[w]
  BY DEF Notified, Queued, Listed
<1>3. Queued(w) => Notified(events)[w].events
                     = (waiters[w].events \ events) \cup (events \cap {EVENT_CANCELED})
  BY <1>1, <1>2 DEF Waiter
<1>4. QED
  BY <1>1, <1>2, <1>3

LEMMA NotifyMaps ==
  ASSUME MapInv, NEW events \in SUBSET Events, Notify(events)
  PROVE  StepMaps(Depths)
<1> DEFINE all == Notified(events)
           u0  == [t \in Threads |-> Until[t] \ (events \cap EVENTS_PENDING)]
<1>1. UNCHANGED <<free_waiter, pc, waiter, save_level>>
  BY DEF Notify
<1>2. /\ all \in Seq(Waiter) /\ DOMAIN all = DOMAIN waiters
      /\ \A w \in DOMAIN waiters : all[w].requester = waiters[w].requester
      /\ \A w \in DOMAIN waiters :
           /\ Listed(wait_list, w) => all[w].events \cap EVENTS_PENDING
                                        = (waiters[w].events \cap EVENTS_PENDING) \ events
           /\ ~ Listed(wait_list, w) => all[w] = waiters[w]
  BY NotifiedRecords, NotifiedEvents DEF MapInv, Queued
<1> HIDE DEF all
<1>3. \A i \in DOMAIN wait_list : wait_list[i] \in DOMAIN waiters
  BY ThreadFacts
<1>4. LineOf(all, wait_list) = Line
  BY <1>2, <1>3, SameLine, Mapping
<1>5. Untils(pc, all, waiter) = u0
  <2>1. ASSUME NEW t \in Threads
        PROVE  UntilOf(pc, all, waiter, t)
                 = UntilOf(pc, waiters, waiter, t) \ (events \cap EVENTS_PENDING)
    <3>1. CASE pc[t] \notin Asleep
      BY <3>1 DEF UntilOf
    <3>2. CASE pc[t] \in Asleep
      <4>1. waiter[t] \in DOMAIN waiters /\ pc[t] \in Blocked
        BY <3>2, ThreadFacts
      <4>2. CASE Listed(wait_list, waiter[t])
        BY <1>2, <3>2, <4>1, <4>2 DEF UntilOf
      <4>3. CASE ~ Listed(wait_list, waiter[t])
        <5>1. waiters[waiter[t]].events \cap EVENTS_PENDING = {}
          BY <4>1, <4>3, ThreadFacts DEF EventsOver, Pending
        <5>2. QED
          BY <1>2, <3>2, <4>1, <4>3, <5>1 DEF UntilOf
      <4>4. QED
        BY <4>2, <4>3
    <3>3. QED
      BY <3>1, <3>2
  <2>2. QED
    BY <2>1, Mapping DEF Untils
<1>6. \A w \in DOMAIN waiters : Pending(all, w) => Pending(waiters, w)
  BY <1>2 DEF Pending
<1>7. events \cap EVENTS_PENDING \in SUBSET EVENTS_PENDING
  OBVIOUS
<1>8. CASE lock_level = 0
  <2>1. HandOver(all, wait_list, 0)
    BY <1>8 DEF Notify, all
  <2>2. Ready(all, wait_list, pc, waiter)
    <3>1. Ready(waiters, wait_list, pc, waiter)
      BY <1>8, ReadyNow
    <3>2. QED
      BY <1>2, <1>3, <1>6, <3>1, ThreadFacts DEF Ready
  <2>3. HandedOverWell(all, wait_list, pc, waiter)
    <3>1. wait_list \in Seq(DOMAIN all) /\ 0 \in 0 .. Len(wait_list)
      BY <1>2, ThreadFacts
    <3>2. \A i \in 1 .. 0 : Pending(all, wait_list[i])
      OBVIOUS
    <3>3. QED
      BY <1>2, <2>1, <2>2, <3>1, <3>2, HandOverServes
  <2>4. /\ A!Serve(Line, u0) /\ Until' = u0
        /\ EventsOver(pc', waiters', waiter', wait_list')
        /\ \A t \in Threads : pc[t] \notin Blocked => ~ (lock_level' > 0 /\ lock_owner' = t)
    BY <1>1, <1>4, <1>5, <2>3, Mapping DEF HandedOverWell, Untils
  <2>5. Depths' = Depths
    <3>1. ASSUME NEW t \in Threads
          PROVE  DepthOf(pc, save_level, lock_owner', lock_level', t)
                   = DepthOf(pc, save_level, lock_owner, lock_level, t)
      <4>1. pc[t] = "run" => ~ (lock_level' > 0 /\ lock_owner' = t)
        BY <2>4, ThreadFacts
      <4>2. pc[t] = "run" \/ pc[t] \in Asleep \cup {"relock"} \/ pc[t] = "lock"
        BY ThreadFacts
      <4>3. QED
        BY <1>8, <4>1, <4>2, DepthValues
    <3>2. QED
      BY <1>1, <3>1, Mapping
  <2>6. Owner = NoThread
    BY <1>8, Mapping
  <2> HIDE DEF u0
  <2>7. A!Settle(u0)
    BY <2>4, <2>5, <2>6 DEF A!Settle
  <2>8. A!Happen(events \cap EVENTS_PENDING)
    BY <2>7 DEF A!Happen, u0
  <2>9. QED
    BY <1>7, <2>4, <2>5, <2>8 DEF StepMaps, A!Next
<1>9. CASE lock_level # 0
  <2>1. waiters' = all /\ UNCHANGED <<lock_level, lock_owner, wait_list>>
    BY <1>9 DEF Notify, all
  <2>2. Line' = Line /\ Until' = u0 /\ Owner' = Owner /\ Depths' = Depths
    BY <1>1, <1>4, <1>5, <2>1, Mapping DEF Untils
  <2>3. Owner # NoThread
    BY <1>9, Mapping, ThreadFacts
  <2>4. EventsOver(pc', waiters', waiter', wait_list')
    BY <1>1, <1>6, <2>1, ThreadFacts DEF EventsOver
  <2> HIDE DEF u0
  <2>5. A!Settle(u0)
    BY <2>2, <2>3 DEF A!Settle
  <2>6. A!Happen(events \cap EVENTS_PENDING)
    BY <2>5 DEF A!Happen, u0
  <2>7. QED
    BY <1>7, <2>2, <2>4, <2>6 DEF StepMaps, A!Next
<1>10. QED
  BY <1>8, <1>9

LEMMA WaitMaps ==
  ASSUME MapInv, NEW t \in Threads, NEW event \in EVENTS_PENDING, NEW timed,
         Wait(t, event, timed)
  PROVE  StepMaps(Depths)
<1>1. /\ Runs(t) /\ pc[t] = "run" /\ lock_owner = t /\ lock_level > 0
      /\ save_level' = [save_level EXCEPT ![t] = lock_level]
      /\ pc' = [pc EXCEPT ![t] = IF timed THEN "doze" ELSE "sleep"]
  BY DEF Wait, Holds, Runs
<1>2. {event} \in SUBSET Events /\ {event} \cap EVENTS_PENDING = {event}
  BY DEF Events
<1>3. PICK r \in Records(t, {event}) :
        /\ waiter' = [waiter EXCEPT ![t] = r.w]
        /\ free_waiter' = r.free
        /\ HandOver(r.all, Append(wait_list, r.w), wait_next)
  BY DEF Wait
<1> DEFINE list == Append(wait_list, r.w)
           u0   == [Until EXCEPT ![t] = {event}]
<1>4. QueuedTail(t, r, {event}, list)
  BY <1>1, <1>2, QueueTail
<1>5. HandOver(r.all, list, wait_next)
  BY <1>3
<1> HIDE DEF list
<1>6. /\ \A u \in Threads \ {t} : pc'[u] = pc[u] /\ waiter'[u] = waiter[u] /\ save_level'[u] = save_level[u]
      /\ pc'[t] \in Asleep /\ waiter'[t] = r.w /\ save_level'[t] = lock_level
  BY <1>1, <1>3, <1>4, ThreadFacts DEF QueuedTail
<1>7. /\ \A i \in DOMAIN wait_list : i \in DOMAIN list /\ list[i] = wait_list[i]
      /\ Listed(list, r.w)
      /\ r.w \in DOMAIN r.all /\ r.all[r.w].requester = t
      /\ r.all[r.w].events = {event}
      /\ \A u \in Threads : pc[u] \in Blocked =>
           /\ u # t /\ r.all[waiter[u]] = waiters[waiter[u]]
           /\ waiter[u] \in DOMAIN r.all /\ r.all[waiter[u]].requester = u
      /\ \A i \in DOMAIN list :
           LET u == r.all[list[i]].requester IN
           u \in Threads /\ ((u = t /\ list[i] = r.w) \/ (u # t /\ pc[u] \in Blocked /\ waiter[u] = list[i]))
      /\ \A i, j \in DOMAIN list : list[i] = list[j] => i = j
  <2>1. r.w \in DOMAIN r.all /\ r.all[r.w].requester = t
    BY <1>2, RecordTaken DEF MapInv
  <2>2. QueuedAs(t, r, list) /\ r.all[r.w].events = {event}
        /\ \A u \in Threads : pc[u] \in Blocked => r.all[waiter[u]] = waiters[waiter[u]]
    BY <1>4 DEF QueuedTail
  <2>3. /\ \A i \in DOMAIN list :
             LET u == r.all[list[i]].requester IN
             u \in Threads /\ ((u = t /\ list[i] = r.w) \/ (u # t /\ pc[u] \in Blocked /\ waiter[u] = list[i]))
        /\ \A i, j \in DOMAIN list : list[i] = list[j] => i = j
        /\ Listed(list, r.w)
        /\ \A i \in DOMAIN wait_list : i \in DOMAIN list /\ list[i] = wait_list[i]
    <3>1. \A i \in DOMAIN list :
            LET u == r.all[list[i]].requester IN
            u \in Threads /\ ((u = t /\ list[i] = r.w) \/ (u # t /\ pc[u] \in Blocked /\ waiter[u] = list[i]))
      BY <2>2, Zenon DEF QueuedAs
    <3>2. /\ \A i, j \in DOMAIN list : list[i] = list[j] => i = j
          /\ Listed(list, r.w)
          /\ \A i \in DOMAIN wait_list : i \in DOMAIN list /\ list[i] = wait_list[i]
      BY <2>2, Zenon DEF QueuedAs
    <3>3. QED
      BY <3>1, <3>2, Zenon
  <2>4. \A u \in Threads : pc[u] \in Blocked =>
          u # t /\ waiter[u] \in DOMAIN r.all /\ r.all[waiter[u]].requester = u
    BY <2>2 DEF QueuedAs
  <2>5. QED
    BY <2>1, <2>2, <2>3, <2>4
<1>8. Ready(r.all, list, pc', waiter')
  <2>1. ASSUME NEW u \in Threads, pc'[u] \in Blocked
        PROVE  waiter'[u] \in DOMAIN r.all /\ r.all[waiter'[u]].requester = u /\ Listed(list, waiter'[u])
    <3>1. CASE u = t
      BY <1>6, <1>7, <3>1
    <3>2. CASE u # t
      <4>1. pc[u] \in Blocked /\ waiter'[u] = waiter[u]
        BY <1>6, <2>1, <3>2
      <4>2. Listed(wait_list, waiter[u])
        BY <1>1, <4>1, ReadyNow DEF Ready
      <4>3. Listed(list, waiter[u])
        BY <1>7, <4>2 DEF Listed
      <4>4. QED
        BY <1>7, <4>1, <4>3
    <3>3. QED
      BY <3>1, <3>2
  <2>2. \A i \in DOMAIN list :
          LET u == r.all[list[i]].requester IN
          u \in Threads /\ pc'[u] \in Blocked /\ waiter'[u] = list[i]
    BY <1>6, <1>7, ThreadFacts
  <2>3. ASSUME NEW u \in Threads, pc'[u] \in {"lock", "relock"}
        PROVE  ~ Pending(r.all, waiter'[u])
    <3>1. u # t
      BY <1>6, <2>3, ThreadFacts
    <3>2. pc[u] = pc'[u] /\ waiter'[u] = waiter[u] /\ r.all[waiter[u]] = waiters[waiter[u]]
      BY <1>6, <1>7, <2>3, <3>1, ThreadFacts
    <3>3. QED
      BY <2>3, <3>2, ThreadFacts DEF EventsOver, Pending
  <2>4. QED
    BY <1>7, <2>1, <2>2, <2>3 DEF Ready
<1>9. HandedOverWell(r.all, list, pc', waiter')
  <2>1. /\ r.all \in Seq(Waiter) /\ list \in Seq(DOMAIN r.all) /\ wait_next \in 0 .. Len(list)
        /\ \A i \in 1 .. wait_next : Pending(r.all, list[i])
    BY <1>4 DEF QueuedTail, QueuedAs
  <2>2. QED
    BY <1>5, <1>8, <2>1, HandOverServes
<1>10. Untils(pc', r.all, waiter') = u0
  <2>1. ASSUME NEW u \in Threads
        PROVE  UntilOf(pc', r.all, waiter', u)
                 = IF u = t THEN {event} ELSE UntilOf(pc, waiters, waiter, u)
    <3>1. CASE u = t
      BY <1>2, <1>6, <1>7, <3>1 DEF UntilOf
    <3>2. CASE u # t
      <4>1. pc[u] \in Asleep => r.all[waiter[u]] = waiters[waiter[u]]
        BY <1>7, ThreadFacts
      <4>2. QED
        BY <1>6, <3>2, <4>1 DEF UntilOf
    <3>3. QED
      BY <3>1, <3>2
  <2>2. QED
    BY <2>1, Mapping DEF Untils
<1>11. LineOf(r.all, list) = Append(Line, t)
  BY <1>4, Mapping DEF QueuedTail
<1>12. /\ A!Serve(Append(Line, t), u0) /\ Until' = u0
       /\ EventsOver(pc', waiters', waiter', wait_list')
       /\ \A u \in Threads : pc'[u] \notin Blocked => ~ (lock_level' > 0 /\ lock_owner' = u)
  BY <1>9, <1>10, <1>11, Mapping DEF HandedOverWell, Untils
<1>13. Depths' = Depths
  <2>1. ASSUME NEW u \in Threads
        PROVE  DepthOf(pc', save_level', lock_owner', lock_level', u)
                 = DepthOf(pc, save_level, lock_owner, lock_level, u)
    <3>1. CASE u = t
      <4>1. DepthOf(pc', save_level', lock_owner', lock_level', t) = lock_level
        <5>1. pc'[t] \in Asleep \cup {"relock"}
          BY <1>6
        <5>2. DepthOf(pc', save_level', lock_owner', lock_level', t) = save_level'[t]
          BY <5>1, DepthValues
        <5>3. QED
          BY <1>6, <5>2
      <4>2. DepthOf(pc, save_level, lock_owner, lock_level, t) = lock_level
        BY <1>1, DepthValues
      <4>3. QED
        BY <3>1, <4>1, <4>2
    <3>2. CASE u # t
      <4>1. pc[u] = "run" => ~ (lock_level' > 0 /\ lock_owner' = u)
        BY <1>6, <1>12, <3>2, ThreadFacts
      <4>2. pc[u] = "run" \/ pc[u] \in Asleep \cup {"relock"} \/ pc[u] = "lock"
        BY ThreadFacts
      <4>3. pc'[u] = pc[u] /\ save_level'[u] = save_level[u]
        BY <1>6, <3>2
      <4>4. CASE pc[u] = "lock"
        BY <4>3, <4>4, SameDepth
      <4>5. CASE pc[u] \in Asleep \cup {"relock"}
        BY <4>3, <4>5, SameDepth
      <4>6. CASE pc[u] = "run"
        <5>1. ~ (lock_level > 0 /\ lock_owner = u) /\ ~ (lock_level' > 0 /\ lock_owner' = u)
          BY <1>1, <3>2, <4>1, <4>6
        <5>2. QED
          BY <4>3, <4>6, <5>1, SameDepth
      <4>7. QED
        BY <4>2, <4>4, <4>5, <4>6
    <3>3. QED
      BY <3>1, <3>2
  <2>2. QED
    BY <2>1, Mapping
<1>14. Owner = t
  BY <1>1, Mapping
<1> HIDE DEF u0
<1>15. A!Sleep(t, {event})
  BY <1>12, <1>13, <1>14 DEF A!Sleep, u0
<1>16. QED
  BY <1>12, <1>13, <1>15 DEF StepMaps, A!Next

LEMMA WokenDepths ==
  ASSUME MapInv, NEW t \in Threads, lock_level = 0 \/ lock_owner = t,
         lock_owner' = t, lock_level' = Depths[t], lock_level' \in 1 .. MaxLevel,
         pc'[t] = "run",
         \A u \in Threads \ {t} : pc'[u] = pc[u] /\ save_level'[u] = save_level[u]
  PROVE  Depths' = Depths
<1>1. ASSUME NEW p, NEW s, NEW q, NEW r, NEW owner, NEW level, NEW k \in Nat \ {0},
             NEW u \in Threads, level = 0 \/ owner = t, q[t] = "run", u # t => q[u] = p[u] /\ r[u] = s[u],
             p[u] = "run" \/ p[u] \in Asleep \cup {"relock"} \/ p[u] = "lock",
             DepthOf(p, s, owner, level, t) = k
      PROVE  DepthOf(q, r, t, k, u) = DepthOf(p, s, owner, level, u)
  <2>1. CASE u = t
    BY <1>1, <2>1, DepthValues
  <2>2. CASE u # t
    <3>1. q[u] = p[u] /\ r[u] = s[u]
      BY <1>1, <2>2
    <3>2. CASE p[u] = "lock"
      BY <3>1, <3>2, SameDepth
    <3>3. CASE p[u] \in Asleep \cup {"relock"}
      BY <3>1, <3>3, SameDepth
    <3>4. CASE p[u] = "run"
      BY <1>1, <2>2, <3>1, <3>4, SameDepth
    <3>5. QED
      BY <1>1, <3>2, <3>3, <3>4
  <2>3. QED
    BY <2>1, <2>2
<1>2. Depths[t] \in Nat \ {0} /\ Depths[t] = DepthOf(pc, save_level, lock_owner, lock_level, t)
  BY Mapping, LockAssumption
<1>3. ASSUME NEW u \in Threads
      PROVE  DepthOf(pc', save_level', t, Depths[t], u) = DepthOf(pc, save_level, lock_owner, lock_level, u)
  <2>1. pc[u] = "run" \/ pc[u] \in Asleep \cup {"relock"} \/ pc[u] = "lock"
    BY ThreadFacts
  <2>2. QED
    BY <1>1, <1>2, <2>1
<1>4. QED
  BY <1>3, Mapping

\* A thread that is woken up has had the lock, and its levels, in the abstract
\* lock since it was handed over.
LEMMA WokenMaps ==
  ASSUME MapInv, NEW t \in Threads, Waits(t, Blocked), Signalled(t),
         ResetEvent(t), Release(t), pc' = [pc EXCEPT ![t] = "run"],
         lock_level' = Depths[t], lock_level' \in 1 .. MaxLevel,
         UNCHANGED <<lock_owner, wait_list, wait_next>>
  PROVE  StepMaps(Depths)
<1>1. /\ Granted(t) /\ lock_level = 1 /\ lock_owner = t
      /\ \A u \in Threads : u # t /\ Waits(u, Blocked)
           => Listed(wait_list, waiter[u]) /\ waiter[u] # waiter[t]
      /\ \A i \in DOMAIN wait_list : wait_list[i] # waiter[t]
  BY OnlyOneSignalled DEF MapInv
<1>2. waiter[t] \in DOMAIN waiters /\ pc[t] \in Blocked
  BY ThreadFacts DEF Waits
<1>3. \A w \in DOMAIN waiters : w # waiter[t] => waiters'[w] = waiters[w]
  <2> DEFINE x == [waiters[waiter[t]] EXCEPT !.notify = 0, !.events = {}, !.requester = NoThread]
  <2>1. waiters' = [waiters EXCEPT ![waiter[t]] = x]
    BY DEF ResetEvent
  <2> HIDE DEF x
  <2>2. QED
    BY <2>1, ThreadFacts
<1>4. /\ \A u \in Threads \ {t} : pc'[u] = pc[u] /\ waiter'[u] = waiter[u] /\ save_level'[u] = save_level[u]
      /\ pc'[t] = "run"
  BY ThreadFacts DEF Release
<1>5. Owner' = Owner
  BY <1>1, Mapping
<1>6. Line' = Line
  <2>1. \A i \in DOMAIN wait_list : waiters'[wait_list[i]].requester = waiters[wait_list[i]].requester
    BY <1>1, <1>3, ThreadFacts
  <2>2. QED
    BY <2>1, SameLine, Mapping
<1>7. Depths' = Depths
  BY <1>1, <1>4, WokenDepths
<1>8. Until' = Until
  <2>1. ASSUME NEW u \in Threads
        PROVE  UntilOf(pc', waiters', waiter', u) = UntilOf(pc, waiters, waiter, u)
    <3>1. CASE u = t
      <4>1. ~ Pending(waiters, waiter[t])
        BY <1>1, ThreadFacts DEF EventsOver, Granted, Waits, Queued
      <4>2. pc'[t] \notin Asleep
        BY <1>4, ThreadFacts
      <4>3. QED
        BY <3>1, <4>1, <4>2 DEF UntilOf, Pending
    <3>2. CASE u # t
      <4>1. pc[u] \in Asleep => waiters'[waiter[u]] = waiters[waiter[u]]
        BY <1>1, <1>3, <3>2, ThreadFacts DEF Waits
      <4>2. QED
        BY <1>4, <3>2, <4>1 DEF UntilOf
    <3>3. QED
      BY <3>1, <3>2
  <2>2. QED
    BY <2>1, Mapping
<1>9. EventsOver(pc', waiters', waiter', wait_list')
  <2> SUFFICES ASSUME NEW u \in Threads,
                      \/ pc'[u] \in {"lock", "relock"}
                      \/ pc'[u] \in Blocked /\ ~ Listed(wait_list', waiter'[u])
               PROVE  ~ Pending(waiters', waiter'[u])
    BY DEF EventsOver
  <2>1. u # t
    BY <1>4, ThreadFacts
  <2>2. pc[u] = pc'[u] /\ waiter[u] = waiter'[u] /\ pc[u] \in Blocked
    BY <1>4, <2>1, ThreadFacts
  <2>3. waiters'[waiter[u]] = waiters[waiter[u]]
    BY <1>1, <1>3, <2>1, <2>2, ThreadFacts DEF Waits
  <2>4. QED
    BY <2>2, <2>3, ThreadFacts DEF EventsOver, Pending
<1>10. QED
  BY <1>5, <1>6, <1>7, <1>8, <1>9 DEF StepMaps, A!vars

LEMMA ExpireMaps ==
  ASSUME MapInv, NEW t \in Threads, Expire(t)
  PROVE  StepMaps(Depths)
<1>1. /\ pc[t] = "doze" /\ pc' = [pc EXCEPT ![t] = "expired"]
      /\ UNCHANGED <<lock_level, lock_owner, wait_list, wait_next, free_waiter, waiters, waiter,
                     save_level>>
  BY DEF Expire, Waits
<1>2. /\ \A u \in Threads : u # t => pc'[u] = pc[u]
      /\ pc'[t] = "expired" /\ {"doze", "expired"} \subseteq Asleep
  BY <1>1, ThreadFacts
<1>3. Owner' = Owner /\ Line' = Line
  BY <1>1, Mapping
<1>4. Depths' = Depths
  <2>1. ASSUME NEW u \in Threads
        PROVE  DepthOf(pc', save_level, lock_owner, lock_level, u)
                 = DepthOf(pc, save_level, lock_owner, lock_level, u)
    <3>1. pc[u] = "run" \/ pc[u] \in Asleep \cup {"relock"} \/ pc[u] = "lock"
      BY ThreadFacts
    <3>2. \/ pc'[u] = pc[u]
          \/ pc'[u] \in Asleep \cup {"relock"} /\ pc[u] \in Asleep \cup {"relock"}
      BY <1>1, <1>2
    <3>3. CASE pc'[u] = pc[u]
      BY <3>3 DEF DepthOf
    <3>4. CASE pc'[u] # pc[u]
      BY <3>2, <3>4, SameDepth
    <3>5. QED
      BY <3>3, <3>4
  <2>2. QED
    BY <1>1, <2>1, Mapping
<1>5. Until' = Until
  <2>1. \A u \in Threads : UntilOf(pc', waiters, waiter, u) = UntilOf(pc, waiters, waiter, u)
    BY <1>1, <1>2 DEF UntilOf
  <2>2. QED
    BY <1>1, <2>1, Mapping
<1>6. EventsOver(pc', waiters', waiter', wait_list')
  BY <1>1, <1>2, ThreadFacts DEF EventsOver
<1>7. QED
  BY <1>3, <1>4, <1>5, <1>6 DEF StepMaps, A!vars

\* A thread whose time is over waits for the lock only, as in the abstract lock.
LEMMA TimedOutHeldMaps ==
  ASSUME MapInv, NEW t \in Threads, TimedOutHeld(t)
  PROVE  StepMaps(Depths)
<1>1. /\ pc[t] = "expired" /\ lock_level > 0
      /\ waiters' = NoEvents(t) /\ wait_next' = 0
      /\ pc' = [pc EXCEPT ![t] = "relock"]
      /\ UNCHANGED <<lock_level, lock_owner, wait_list, free_waiter, waiter, save_level>>
  BY DEF TimedOutHeld, Waits
<1>2. /\ \A u \in Threads : u # t => pc'[u] = pc[u]
      /\ pc'[t] = "relock" /\ "relock" \notin Asleep /\ pc[t] \in Blocked /\ pc[t] \in Asleep
  BY <1>1, ThreadFacts
<1> DEFINE x == [waiters[waiter[t]] EXCEPT !.notify = 0,
                   !.events = waiters[waiter[t]].events \cap {EVENT_CANCELED}]
<1>3. /\ waiters \in Seq(Waiter) /\ waiter[t] \in DOMAIN waiters
      /\ waiters[waiter[t]] \in Waiter
  BY <1>2, ThreadFacts
<1>4. x.requester = waiters[waiter[t]].requester /\ x.events \cap EVENTS_PENDING = {}
  BY <1>3 DEF Waiter, EVENT_CANCELED, EVENTS_PENDING, EVENT_INPUT, EVENT_OUTPUT
<1>5. waiters' = [waiters EXCEPT ![waiter[t]] = x]
  BY <1>1 DEF NoEvents
<1> HIDE DEF x
<1>6. \A w \in DOMAIN waiters : waiters'[w] = IF w = waiter[t] THEN x ELSE waiters[w]
  BY <1>3, <1>5
<1>7. Owner' = Owner /\ Owner # NoThread
  BY <1>1, Mapping, ThreadFacts
<1>8. Line' = Line
  <2>1. \A i \in DOMAIN wait_list : waiters'[wait_list[i]].requester = waiters[wait_list[i]].requester
    BY <1>4, <1>6, ThreadFacts
  <2>2. QED
    BY <1>1, <2>1, SameLine, Mapping
<1>9. Depths' = Depths
  <2>1. ASSUME NEW u \in Threads
        PROVE  DepthOf(pc', save_level, lock_owner, lock_level, u)
                 = DepthOf(pc, save_level, lock_owner, lock_level, u)
    <3>1. pc[u] = "run" \/ pc[u] \in Asleep \cup {"relock"} \/ pc[u] = "lock"
      BY ThreadFacts
    <3>2. \/ pc'[u] = pc[u]
          \/ pc'[u] \in Asleep \cup {"relock"} /\ pc[u] \in Asleep \cup {"relock"}
      BY <1>2
    <3>3. CASE pc'[u] = pc[u]
      BY <3>3 DEF DepthOf
    <3>4. CASE pc'[u] # pc[u]
      BY <3>2, <3>4, SameDepth
    <3>5. QED
      BY <3>3, <3>4
  <2>2. QED
    BY <1>1, <2>1, Mapping
<1>10. \A u \in Threads : u # t /\ pc[u] \in Blocked => waiters'[waiter[u]] = waiters[waiter[u]]
  <2>1. ASSUME NEW u \in Threads, u # t, pc[u] \in Blocked
        PROVE  waiter[u] \in DOMAIN waiters /\ waiter[u] # waiter[t]
    <3>1. waiters[waiter[t]].requester = t /\ waiters[waiter[u]].requester = u
      BY <1>2, <2>1, ThreadFacts
    <3>2. QED
      BY <2>1, <3>1, ThreadFacts
  <2>2. QED
    BY <1>6, <2>1
<1>11. ~ Pending(waiters', waiter[t])
  BY <1>3, <1>4, <1>6 DEF Pending
<1>12. Until' = [Until EXCEPT ![t] = {}]
  <2>1. ASSUME NEW u \in Threads
        PROVE  UntilOf(pc', waiters', waiter, u)
                 = IF u = t THEN {} ELSE UntilOf(pc, waiters, waiter, u)
    <3>1. CASE u = t
      BY <1>2, <3>1 DEF UntilOf
    <3>2. CASE u # t
      <4>1. pc[u] \in Asleep => waiters'[waiter[u]] = waiters[waiter[u]]
        BY <1>10, <3>2, ThreadFacts
      <4>2. QED
        BY <1>2, <3>2, <4>1 DEF UntilOf
    <3>3. QED
      BY <3>1, <3>2
  <2>2. QED
    BY <1>1, <2>1, Mapping
<1>13. EventsOver(pc', waiters', waiter', wait_list')
  <2> SUFFICES ASSUME NEW u \in Threads,
                      \/ pc'[u] \in {"lock", "relock"}
                      \/ pc'[u] \in Blocked /\ ~ Listed(wait_list, waiter[u])
               PROVE  ~ Pending(waiters', waiter[u])
    BY <1>1 DEF EventsOver
  <2>1. CASE u = t
    BY <1>11, <2>1
  <2>2. CASE u # t
    <3>1. pc[u] = pc'[u] /\ pc[u] \in Blocked
      BY <1>2, <2>2, ThreadFacts
    <3>2. QED
      BY <1>10, <2>2, <3>1, ThreadFacts DEF EventsOver, Pending
  <2>3. QED
    BY <2>1, <2>2
<1> DEFINE u0 == [Until EXCEPT ![t] = {}]
<1>14. A!Settle(u0)
  BY <1>7, <1>8, <1>9, <1>12 DEF A!Settle
<1> HIDE DEF u0
<1>15. A!GiveUp(t)
  BY <1>14 DEF A!GiveUp, u0
<1>16. QED
  BY <1>9, <1>13, <1>15 DEF StepMaps, A!Next

\* A thread that finds the lock free when its time is over takes it, as the
\* abstract lock serves it.
LEMMA TimedOutFreeMaps ==
  ASSUME MapInv, NEW t \in Threads, TimedOutFree(t)
  PROVE  StepMaps(Depths)
<1>1. /\ pc[t] = "expired" /\ lock_level = 0 /\ pc[t] \in Asleep /\ pc[t] \in Blocked
      /\ ResetEvent(t) /\ Release(t) /\ pc' = [pc EXCEPT ![t] = "run"]
      /\ lock_level' = save_level[t]
  BY ThreadFacts DEF TimedOutFree, Waits, Return
<1>2. PICK k \in DOMAIN wait_list :
        /\ wait_list[k] = waiter[t]
        /\ wait_list' = Without(wait_list, k)
        /\ lock_owner' = t
  BY TimedOutAlone DEF MapInv
<1>3. /\ DOMAIN waiters' = DOMAIN waiters
      /\ \A w \in DOMAIN waiters : w # waiter[t] => waiters'[w] = waiters[w]
  <2> DEFINE x == [waiters[waiter[t]] EXCEPT !.notify = 0, !.events = {}, !.requester = NoThread]
  <2>1. waiters' = [waiters EXCEPT ![waiter[t]] = x]
    BY <1>1 DEF ResetEvent
  <2> HIDE DEF x
  <2>2. QED
    BY <2>1, ThreadFacts
<1>4. /\ \A u \in Threads \ {t} : pc'[u] = pc[u] /\ waiter'[u] = waiter[u] /\ save_level'[u] = save_level[u]
      /\ pc'[t] = "run"
  BY <1>1, ThreadFacts DEF Release
<1>5. lock_level' = Depths[t] /\ lock_level' \in 1 .. MaxLevel
  <2>1. Depths[t] = save_level[t]
    <3>1. Depths[t] = DepthOf(pc, save_level, lock_owner, lock_level, t)
      BY Mapping
    <3>2. QED
      BY <1>1, <3>1, DepthValues
  <2>2. save_level[t] \in 0 .. MaxLevel /\ save_level[t] # 0
    BY <1>1, ThreadFacts DEF MapInv, LockInv, LevelsKept, Waits
  <2>3. QED
    BY <1>1, <2>1, <2>2, LockAssumption
<1>6. Depths' = Depths
  BY <1>1, <1>2, <1>4, <1>5, WokenDepths
<1>7. Owner = NoThread /\ Owner' = t
  BY <1>1, <1>2, <1>5, Mapping
<1>8. \A j \in DOMAIN wait_list : j # k => wait_list[j] # waiter[t] /\ wait_list[j] \in DOMAIN waiters
  BY <1>2, ThreadFacts
<1>9. Line' = Cut(Line, k)
  <2>1. \A j \in DOMAIN wait_list : waiters[wait_list[j]].requester \in Threads
    BY ThreadFacts
  <2>2. \A j \in DOMAIN wait_list : j # k =>
          waiters'[wait_list[j]].requester = waiters[wait_list[j]].requester
    BY <1>3, <1>8
  <2>3. wait_list \in Seq(DOMAIN waiters)
    BY ThreadFacts
  <2>4. LineOf(waiters', Without(wait_list, k)) = Cut(LineOf(waiters, wait_list), k)
    BY <1>3, <2>1, <2>2, <2>3, LineTakenOff, Zenon
  <2>5. QED
    BY <1>2, <2>4, Mapping
<1>10. /\ DOMAIN Line = DOMAIN wait_list
       /\ \A j \in DOMAIN wait_list : Line[j] = waiters[wait_list[j]].requester
  BY Mapping DEF LineOf
<1> DEFINE u0 == [Until EXCEPT ![t] = {}]
<1>11. /\ Line[k] = t /\ u0[t] = {}
       /\ \A j \in 1 .. k - 1 : u0[Line[j]] # {}
  <2>1. Line[k] = t /\ t \in DOMAIN Until
    BY <1>1, <1>2, <1>10, ThreadFacts, Mapping
  <2>2. ASSUME NEW j \in 1 .. k - 1 PROVE u0[Line[j]] # {}
    <3> DEFINE v == Line[j]
    <3>1. j \in DOMAIN wait_list /\ j # k
      <4>1. wait_list \in Seq(DOMAIN waiters)
        BY ThreadFacts
      <4>2. QED
        BY <4>1
    <3>2. v \in Threads /\ pc[v] \in Blocked /\ waiter[v] = wait_list[j]
      BY <1>10, <3>1, ThreadFacts
    <3>3. v # t
      BY <1>8, <3>1, <3>2
    <3>4. Pending(waiters, waiter[v])
      BY <1>1, <3>1, <3>2 DEF MapInv, LockInv, HandedOver
    <3> HIDE DEF v
    <3>5. pc[v] \in Asleep
      BY <3>2, <3>4, ThreadFacts DEF EventsOver
    <3>6. UntilOf(pc, waiters, waiter, v) # {}
      BY <3>4, <3>5 DEF UntilOf, Pending
    <3>7. u0[v] # {}
      BY <3>2, <3>3, <3>6, Mapping
    <3>8. QED
      BY <3>7 DEF v
  <2>3. QED
    BY <2>1, <2>2
<1>12. Until' = u0
  <2>1. ASSUME NEW u \in Threads
        PROVE  UntilOf(pc', waiters', waiter', u)
                 = IF u = t THEN {} ELSE UntilOf(pc, waiters, waiter, u)
    <3>1. CASE u = t
      BY <1>4, <3>1, ThreadFacts DEF UntilOf
    <3>2. CASE u # t
      <4>1. pc[u] \in Asleep => waiters'[waiter[u]] = waiters[waiter[u]]
        <5> SUFFICES ASSUME pc[u] \in Asleep PROVE waiters'[waiter[u]] = waiters[waiter[u]]
          OBVIOUS
        <5>1. waiters[waiter[t]].requester = t /\ waiters[waiter[u]].requester = u
              /\ waiter[u] \in DOMAIN waiters
          BY <1>1, ThreadFacts
        <5>2. QED
          BY <1>3, <3>2, <5>1
      <4>2. QED
        BY <1>4, <3>2, <4>1 DEF UntilOf
    <3>3. QED
      BY <3>1, <3>2
  <2>2. QED
    BY <2>1, Mapping
<1> HIDE DEF u0
<1>13. A!Serve(Line, u0)
  BY <1>7, <1>9, <1>10, <1>11 DEF A!Serve, Cut
<1>14. A!Settle(u0)
  BY <1>6, <1>7, <1>12, <1>13 DEF A!Settle
<1>15. A!GiveUp(t)
  BY <1>14 DEF A!GiveUp, u0
<1>16. EventsOver(pc', waiters', waiter', wait_list')
  <2> SUFFICES ASSUME NEW u \in Threads,
                      \/ pc'[u] \in {"lock", "relock"}
                      \/ pc'[u] \in Blocked /\ ~ Listed(wait_list', waiter'[u])
               PROVE  ~ Pending(waiters', waiter'[u])
    BY DEF EventsOver
  <2>1. u # t
    BY <1>4, ThreadFacts
  <2>2. pc[u] = pc'[u] /\ waiter[u] = waiter'[u] /\ pc[u] \in Blocked
    BY <1>4, <2>1, ThreadFacts
  <2>3. waiters[waiter[t]].requester = t /\ waiters[waiter[u]].requester = u
        /\ waiter[u] \in DOMAIN waiters
    BY <1>1, <2>2, ThreadFacts
  <2>4. waiters'[waiter[u]] = waiters[waiter[u]]
    BY <1>3, <2>1, <2>3
  <2>5. Listed(wait_list, waiter[u])
    BY <1>1, <2>2, ReadyNow DEF Ready
  <2>6. PICK j \in DOMAIN wait_list : wait_list[j] = waiter[u] /\ j # k
    BY <1>2, <2>1, <2>3, <2>5 DEF Listed
  <2>7. Listed(wait_list', waiter[u])
    <3>1. \A i \in DOMAIN wait_list : i # k => Listed(Without(wait_list, k), wait_list[i])
      <4>1. wait_list \in Seq(DOMAIN waiters)
        BY ThreadFacts
      <4>2. QED
        BY <4>1, WithoutRest, Zenon
    <3>2. QED
      BY <1>2, <2>6, <3>1
  <2>8. pc[u] \in {"lock", "relock"}
    BY <2>2, <2>7
  <2>9. ~ Pending(waiters, waiter[u])
    BY <2>8, ThreadFacts DEF EventsOver
  <2>10. QED
    BY <2>2, <2>4, <2>9 DEF Pending
<1>17. QED
  BY <1>6, <1>15, <1>16 DEF StepMaps, A!Next

LEMMA WakeMaps ==
  ASSUME MapInv, NEW t \in Threads, Wake(t)
  PROVE  StepMaps(Depths)
<1>0. Depths[t] = DepthOf(pc, save_level, lock_owner, lock_level, t)
  BY Mapping
<1>1. CASE LockGranted(t)
  <2>1. pc[t] = "lock" /\ Waits(t, Blocked) /\ Signalled(t)
    BY <1>1 DEF LockGranted, Waits, Blocked
  <2>2. lock_level = 1
    BY <2>1, OnlyOneSignalled DEF MapInv
  <2>3. /\ ResetEvent(t) /\ Release(t) /\ pc' = [pc EXCEPT ![t] = "run"]
        /\ UNCHANGED <<lock_level, lock_owner, wait_list, wait_next>>
    BY <1>1 DEF LockGranted
  <2>4. Depths[t] = 1
    BY <1>0, <2>1, DepthValues
  <2>5. lock_level' = Depths[t] /\ lock_level' \in 1 .. MaxLevel
    BY <2>2, <2>3, <2>4, LockAssumption
  <2>6. QED
    BY <2>1, <2>3, <2>5, WokenMaps
<1>2. CASE WaitGranted(t) \/ Relocked(t)
  <2>1. Waits(t, Blocked) /\ Signalled(t) /\ pc[t] \in Asleep \cup {"relock"}
    BY <1>2 DEF WaitGranted, Relocked, Waits, Blocked, Asleep
  <2>2. /\ ResetEvent(t) /\ Release(t) /\ pc' = [pc EXCEPT ![t] = "run"]
        /\ lock_level' = save_level[t]
        /\ UNCHANGED <<lock_owner, wait_list, wait_next>>
    BY <1>2 DEF WaitGranted, Relocked, Return
  <2>3. save_level[t] \in 0 .. MaxLevel /\ save_level[t] # 0
    BY <2>1 DEF MapInv, LockInv, TypeOK, LevelsKept, Waits
  <2>4. Depths[t] = save_level[t]
    BY <1>0, <2>1, DepthValues
  <2>5. lock_level' = Depths[t] /\ lock_level' \in 1 .. MaxLevel
    BY <2>2, <2>3, <2>4, LockAssumption
  <2>6. QED
    BY <2>1, <2>2, <2>5, WokenMaps
<1>3. CASE TimedOutFree(t)
  BY <1>3, TimedOutFreeMaps
<1>4. CASE TimedOutHeld(t)
  BY <1>4, TimedOutHeldMaps
<1>5. QED
  BY <1>1, <1>2, <1>3, <1>4 DEF Wake

LEMMA StutterMaps ==
  ASSUME MapInv, UNCHANGED lockVars
  PROVE  StepMaps(Depths)
<1>1. Owner' = Owner /\ Line' = Line /\ Depths' = Depths /\ Until' = Until
  BY Mapping DEF lockVars
<1>2. EventsOver(pc', waiters', waiter', wait_list')
  BY DEF lockVars, MapInv
<1>3. QED
  BY <1>1, <1>2 DEF StepMaps, A!vars

-----------------------------------------------------------------------------
(* The refinement.                                                         *)

LEMMA MapInit == Init => MapInv /\ A!Init /\ Depths = [t \in Threads |-> 0]
<1> SUFFICES ASSUME Init PROVE MapInv /\ A!Init /\ Depths = [t \in Threads |-> 0]
  OBVIOUS
<1>1. \A t \in Threads : pc[t] = "run" /\ pc[t] \notin Blocked /\ pc[t] \notin Asleep
  BY DEF Init, Blocked, Asleep
<1>2. MapInv
  BY <1>1, LockInvInit DEF MapInv, EventsOver, Blocked
<1>3. \A t \in Threads : DepthOf(pc, save_level, lock_owner, lock_level, t) = 0
  <2>1. lock_level = 0
    BY DEF Init
  <2>2. QED
    BY <1>1, <2>1, DepthValues
<1>4. \A t \in Threads : UntilOf(pc, waiters, waiter, t) = {}
  BY <1>1 DEF UntilOf
<1>5. Owner = NoThread /\ Line = <<>>
  BY Mapping DEF Init, LineOf
<1>6. QED
  BY <1>2, <1>3, <1>4, <1>5, Mapping DEF A!Init

LEMMA NextMaps ==
  ASSUME MapInv, [Next]_lockVars
  PROVE  MapInv' /\ [A!Next]_(A!vars)
<1>1. \E d : StepMaps(d)
  <2>1. CASE UNCHANGED lockVars
    BY <2>1, StutterMaps
  <2>2. ASSUME NEW t \in Threads, Lock(t) \/ Unlock(t) \/ Wake(t) \/ Expire(t)
        PROVE  \E d : StepMaps(d)
    BY <2>2, LockMaps, UnlockMaps, WakeMaps, ExpireMaps
  <2>3. ASSUME NEW t \in Threads, NEW event \in EVENTS_PENDING, NEW timed \in BOOLEAN,
               Wait(t, event, timed)
        PROVE  \E d : StepMaps(d)
    BY <2>3, WaitMaps
  <2>4. ASSUME NEW events \in Notifications, Notify(events) PROVE \E d : StepMaps(d)
    <3>1. events \in SUBSET Events
      BY DEF Notifications, Events, EVENTS_PENDING
    <3>2. QED
      BY <2>4, <3>1, NotifyMaps
  <2>5. QED
    BY <2>1, <2>2, <2>3, <2>4 DEF Next
<1>2. LockInv'
  BY LockInvStep DEF MapInv
<1>3. QED
  BY <1>1, <1>2 DEF StepMaps, MapInv

\* The lock keeps its promise whatever the threads do with it.
THEOREM LockKeepsPromise == Spec => ImplementsApiLock
<1>1. Init => MapInv /\ A!Init
  BY MapInit
<1>2. MapInv /\ [Next]_lockVars => MapInv'
  BY NextMaps
<1>3. MapInv /\ [Next]_lockVars => [A!Next]_(A!vars)
  BY NextMaps
<1>4. QED
  BY <1>1, <1>2, <1>3, PTL DEF Spec, ImplementsApiLock, A!Spec

-----------------------------------------------------------------------------
(* The lock in a processor.  The abstract depth of a thread, which it keeps *)
(* while it is blocked, is the number of calls the thread is in.           *)

IsSeq(s) == \E S : s \in Seq(S)
StackOK  == stack = [t \in Threads |-> stack[t]] /\ \A t \in Threads : IsSeq(stack[t])
Lens     == [t \in Threads |-> Depth(t)]

\* The step leaves the thread t with n calls.
LeavesCalls(t, n) == StackOK' /\ Lens' = [Lens EXCEPT ![t] = n]

LEMMA ItemChanged ==
  ASSUME NEW s, IsSeq(s), NEW i \in DOMAIN s, NEW item
  PROVE  IsSeq([s EXCEPT ![i] = item]) /\ Len([s EXCEPT ![i] = item]) = Len(s)
<1>1. PICK S : s \in Seq(S)
  BY DEF IsSeq
<1> DEFINE R == S \cup {item}
<1>2. Len(s) \in Nat /\ DOMAIN s = 1 .. Len(s) /\ s \in [1 .. Len(s) -> R]
  BY <1>1
<1>3. [s EXCEPT ![i] = item] \in [1 .. Len(s) -> R]
  BY <1>2
<1>4. [s EXCEPT ![i] = item] \in Seq(R) /\ Len([s EXCEPT ![i] = item]) = Len(s)
  BY <1>2, <1>3
<1>5. QED
  BY <1>4 DEF IsSeq

LEMMA ItemAdded ==
  ASSUME NEW s, IsSeq(s), NEW item
  PROVE  IsSeq(Append(s, item)) /\ Len(Append(s, item)) = Len(s) + 1
<1>1. PICK S : s \in Seq(S)
  BY DEF IsSeq
<1> DEFINE R == S \cup {item}
<1>2. s \in Seq(R) /\ item \in R
  BY <1>1
<1> HIDE DEF R
<1>3. Append(s, item) \in Seq(R) /\ Len(Append(s, item)) = Len(s) + 1
  BY <1>2
<1>4. QED
  BY <1>3 DEF IsSeq

LEMMA LastDropped ==
  ASSUME NEW s, IsSeq(s), Len(s) > 0
  PROVE  LET r == SubSeq(s, 1, Len(s) - 1) IN
         IsSeq(r) /\ Len(r) = Len(s) - 1 /\ Len(r) \in Nat /\ (r # <<>> => Len(r) \in DOMAIN r)
<1>1. PICK S : s \in Seq(S)
  BY DEF IsSeq
<1> DEFINE n == Len(s)
           r == SubSeq(s, 1, n - 1)
<1>2. n \in Nat \ {0} /\ n - 1 \in Nat /\ \A i \in 1 .. n - 1 : s[i] \in S
  BY <1>1
<1>3. r \in Seq(S) /\ Len(r) = n - 1
  <2>1. ASSUME NEW i \in 1 .. Len(s)
        PROVE  SubSeq(s, 1, i - 1) \in Seq(S) /\ Len(SubSeq(s, 1, i - 1)) = i - 1
    BY <1>1
  <2>2. n \in 1 .. Len(s)
    BY <1>2
  <2> HIDE DEF n
  <2>3. QED
    BY <2>1, <2>2
<1> HIDE DEF r
<1>4. r # <<>> => Len(r) \in DOMAIN r
  BY <1>2, <1>3
<1>5. QED
  BY <1>2, <1>3, <1>4 DEF IsSeq, r

LEMMA StackChanged ==
  ASSUME StackOK, NEW t \in Threads, NEW s, IsSeq(s), stack' = [stack EXCEPT ![t] = s]
  PROVE  LeavesCalls(t, Len(s))
<1>1. stack' = [u \in Threads |-> IF u = t THEN s ELSE stack[u]]
  BY DEF StackOK
<1>2. StackOK'
  BY <1>1 DEF StackOK
<1>3. \A u \in Threads : Len(stack'[u]) = IF u = t THEN Len(s) ELSE Len(stack[u])
  BY <1>1
<1>4. Lens' = [Lens EXCEPT ![t] = Len(s)]
  BY <1>3 DEF Lens, Depth
<1>5. QED
  BY <1>2, <1>4 DEF LeavesCalls

LEMMA GotoKeeps ==
  ASSUME StackOK, NEW t \in Threads, Depth(t) > 0, NEW place, Goto(t, place)
  PROVE  LeavesCalls(t, Depth(t))
<1> DEFINE item == [stack[t][Depth(t)] EXCEPT !.at = place]
           s    == [stack[t] EXCEPT ![Depth(t)] = item]
<1>1. IsSeq(stack[t]) /\ Depth(t) \in DOMAIN stack[t] /\ Depth(t) = Len(stack[t])
  BY DEF StackOK, Depth, IsSeq
<1>2. stack' = [stack EXCEPT ![t] = s]
  BY DEF Goto
<1> HIDE DEF item
<1>3. IsSeq(s) /\ Len(s) = Depth(t)
  BY <1>1, ItemChanged
<1> HIDE DEF s
<1>4. QED
  BY <1>2, <1>3, StackChanged

LEMMA BackLeaves ==
  ASSUME StackOK, NEW t \in Threads, Depth(t) > 0, NEW ok, Back(t, ok)
  PROVE  LeavesCalls(t, Depth(t) - 1)
<1> DEFINE outer == SubSeq(stack[t], 1, Depth(t) - 1)
           item  == [outer[Len(outer)] EXCEPT !.ok = ok]
           s     == IF outer = <<>> THEN outer ELSE [outer EXCEPT ![Len(outer)] = item]
<1>1. IsSeq(outer) /\ Len(outer) = Depth(t) - 1 /\ (outer # <<>> => Len(outer) \in DOMAIN outer)
  BY LastDropped DEF StackOK, Depth
<1>2. stack' = [stack EXCEPT ![t] = s]
  BY DEF Back
<1> HIDE DEF outer, item
<1>3. IsSeq(s) /\ Len(s) = Depth(t) - 1
  BY <1>1, ItemChanged
<1> HIDE DEF s
<1>4. QED
  BY <1>2, <1>3, StackChanged

LEMMA EnterAdds ==
  ASSUME StackOK, NEW t \in Threads, NEW call, Enter(t, call)
  PROVE  Lock(t) /\ LeavesCalls(t, Depth(t) + 1)
<1> DEFINE s == Append(stack[t], call)
<1>1. IsSeq(s) /\ Len(s) = Depth(t) + 1
  BY ItemAdded DEF StackOK, Depth
<1>2. stack' = [stack EXCEPT ![t] = s] /\ Lock(t)
  BY DEF Enter
<1> HIDE DEF s
<1>3. QED
  BY <1>1, <1>2, StackChanged

LEMMA EnterFromAdds ==
  ASSUME StackOK, NEW t \in Threads, Depth(t) > 0, NEW call, NEW place,
         EnterFrom(t, call, place)
  PROVE  Lock(t) /\ LeavesCalls(t, Depth(t) + 1)
<1> DEFINE item == [stack[t][Depth(t)] EXCEPT !.at = place]
           s0   == [stack[t] EXCEPT ![Depth(t)] = item]
           s    == Append(s0, call)
<1>1. IsSeq(stack[t]) /\ Depth(t) \in DOMAIN stack[t] /\ Depth(t) = Len(stack[t])
  BY DEF StackOK, Depth, IsSeq
<1>2. stack' = [stack EXCEPT ![t] = s] /\ Lock(t)
  BY DEF EnterFrom
<1> HIDE DEF item
<1>3. IsSeq(s0) /\ Len(s0) = Depth(t)
  BY <1>1, ItemChanged
<1> HIDE DEF s0
<1>4. IsSeq(s) /\ Len(s) = Depth(t) + 1
  BY <1>3, ItemAdded
<1> HIDE DEF s
<1>5. QED
  BY <1>2, <1>4, StackChanged

SameCalls == StackOK' /\ Lens' = Lens

LEMMA SameNumber ==
  ASSUME NEW t \in Threads, LeavesCalls(t, Depth(t))
  PROVE  SameCalls
BY DEF LeavesCalls, SameCalls, Lens

\* What a step of the processor does to the lock, and to the number of calls.
LEMMA CallsCounted ==
  ASSUME StackOK, PNext
  PROVE  \/ \E t \in Threads : Lock(t) /\ LeavesCalls(t, Depth(t) + 1)
         \/ \E t \in Threads : Unlock(t) /\ LeavesCalls(t, Depth(t) - 1)
         \/ SameCalls /\ \E t \in Threads : Wake(t) \/ Expire(t)
         \/ SameCalls /\ \E t \in Threads, event \in EVENTS_PENDING : \E timed : Wait(t, event, timed)
         \/ SameCalls /\ \E events \in Notifications : Notify(events)
         \/ SameCalls /\ UNCHANGED lockVars
<1>0. /\ EVENT_OUTPUT \in EVENTS_PENDING /\ EVENT_INPUT \in EVENTS_PENDING
      /\ {EVENT_OUTPUT} \in Notifications /\ {EVENT_INPUT} \in Notifications
      /\ \A b : {EVENT_INPUT, EVENT_CANCELED} \cup (IF b THEN {EVENT_OUTPUT} ELSE {})
              \in Notifications
  BY DEF EVENTS_PENDING, Notifications
<1>1. ASSUME UNCHANGED stack PROVE SameCalls
  BY <1>1 DEF SameCalls, StackOK, Lens, Depth
<1>2. ASSUME NEW t \in Threads, Depth(t) > 0, NEW place, Goto(t, place) PROVE SameCalls
  BY <1>2, GotoKeeps, SameNumber
<1>3. ASSUME NEW t \in Threads, Step(t) \/ TimerExpires(t)
      PROVE  \/ Lock(t) /\ LeavesCalls(t, Depth(t) + 1)
             \/ Unlock(t) /\ LeavesCalls(t, Depth(t) - 1)
             \/ SameCalls /\ (Wake(t) \/ Expire(t))
             \/ SameCalls /\ \E event \in EVENTS_PENDING : \E timed : Wait(t, event, timed)
             \/ SameCalls /\ \E events \in Notifications : Notify(events)
             \/ SameCalls /\ UNCHANGED lockVars
  <2>1. CASE VideoEnable(t)
    <3>1. UNCHANGED lockVars /\ Depth(t) > 0
      BY <2>1 DEF VideoEnable, At
    <3>2. CASE Goto(t, "enabled")
      BY <1>2, <3>1, <3>2
    <3>3. CASE stack' = [stack EXCEPT ![t][Depth(t)] = [@ EXCEPT !.at = "leave", !.ok = FALSE]]
      <4> DEFINE item == [stack[t][Depth(t)] EXCEPT !.at = "leave", !.ok = FALSE]
                 s    == [stack[t] EXCEPT ![Depth(t)] = item]
      <4>1. IsSeq(stack[t]) /\ Depth(t) \in DOMAIN stack[t] /\ Depth(t) = Len(stack[t])
        BY <3>1 DEF StackOK, Depth, IsSeq
      <4>2. stack' = [stack EXCEPT ![t] = s]
        BY <3>3
      <4> HIDE DEF item
      <4>3. IsSeq(s) /\ Len(s) = Depth(t)
        BY <4>1, ItemChanged
      <4> HIDE DEF s
      <4>4. LeavesCalls(t, Depth(t))
        BY <4>2, <4>3, StackChanged
      <4>5. QED
        BY <3>1, <4>4, SameNumber
    <3>4. QED
      BY <2>1, <3>2, <3>3 DEF VideoEnable
  <2>2. CASE SetStreaming(t) \/ OneTurnedOn(t)
    <3>1. UNCHANGED lockVars /\ Depth(t) > 0 /\ \E place : Goto(t, place)
      BY <2>2 DEF SetStreaming, OneTurnedOn, At
    <3>2. QED
      BY <1>2, <3>1
  <2>3. CASE LeaveSetActive(t) \/ LeaveImage(t) \/ LeaveField(t)
    <3>1. Unlock(t) /\ Depth(t) > 0 /\ \E ok : Back(t, ok)
      BY <2>3 DEF LeaveSetActive, LeaveImage, LeaveField, Leave, At
    <3>2. QED
      BY <3>1, BackLeaves
  <2>4. CASE OneStart(t) \/ OneTurnOff(t) \/ Handler(t)
    <3>1. Depth(t) > 0 /\ \/ UNCHANGED lockVars /\ \E place : Goto(t, place)
                          \/ \E call, place : EnterFrom(t, call, place)
      BY <2>4 DEF OneStart, OneTurnOff, Handler, At
    <3>2. QED
      BY <1>2, <3>1, EnterFromAdds
  <2>5. CASE OneWait(t)
    <3>1. Depth(t) > 0 /\ (\E place : Goto(t, place)) /\ Wait(t, EVENT_OUTPUT, Top(t).arg)
      BY <2>5 DEF OneWait, At
    <3>2. QED
      BY <1>0, <1>2, <3>1
  <2>6. CASE UserWait(t)
    <3>1. /\ Depth(t) > 0 /\ (\E place : Goto(t, place))
          /\ Wait(t, EVENT_INPUT, Top(t).arg) \/ UNCHANGED lockVars
      BY <2>6 DEF UserWait, At
    <3>2. QED
      BY <1>0, <1>2, <3>1
  <2>7. CASE ScanImage(t)
    <3>1. /\ Depth(t) > 0 /\ (\E place : Goto(t, place))
          /\ Notify({EVENT_OUTPUT}) \/ UNCHANGED lockVars
      BY <2>7 DEF ScanImage, At
    <3>2. QED
      BY <1>0, <1>2, <3>1
  <2>8. CASE Resume(t) \/ TimerExpires(t)
    BY <1>1, <2>8 DEF Resume, TimerExpires
  <2>9. QED
    BY <1>3, <2>1, <2>2, <2>3, <2>4, <2>5, <2>6, <2>7, <2>8 DEF Step
<1>4. ASSUME NEW t \in Apps, CallApi(t)
      PROVE  t \in Threads /\ Lock(t) /\ LeavesCalls(t, Depth(t) + 1)
  <2>1. t \in Threads /\ \E call : Enter(t, call)
    BY <1>4, ProcessorAssumption DEF CallApi
  <2>2. QED
    BY <2>1, EnterAdds
<1>5. CASE VideoStep
  <2>0. Video \in Threads
    BY ProcessorAssumption
  <2>1. CASE VideoTop \/ VideoWake \/ Capture \/ NoImage
    BY <1>1, <2>1 DEF VideoTop, VideoWake, Capture, NoImage
  <2>2. CASE VideoEnter
    <3>1. \E call : Enter(Video, call)
      BY <2>2 DEF VideoEnter
    <3>2. QED
      BY <2>0, <3>1, EnterAdds
  <2>3. CASE VideoDrop
    <3>1. UNCHANGED lockVars /\ Depth(Video) > 0 /\ \E place : Goto(Video, place)
      BY <2>3 DEF VideoDrop, At
    <3>2. QED
      BY <1>2, <2>0, <3>1
  <2>4. QED
    BY <1>5, <2>1, <2>2, <2>3 DEF VideoStep
<1>6. CASE HandleInput
  BY <1>0, <1>1, <1>6 DEF HandleInput
<1>7. QED
  BY <1>3, <1>4, <1>5, <1>6 DEF PNext

\* The invariant of a processor: the lock's, and as many levels as calls.
ProcessorInv == MapInv /\ StackOK /\ Depths = Lens

LEMMA ProcessorInvStep ==
  ASSUME ProcessorInv, [PNext]_vars
  PROVE  ProcessorInv' /\ [A!Next]_(A!vars)
<1>0. MapInv /\ StackOK /\ Depths = Lens /\ \A t \in Threads : Lens[t] = Depth(t)
  BY DEF ProcessorInv, Lens
<1>1. \E d : StepMaps(d) /\ d = Lens' /\ StackOK'
  <2>1. CASE UNCHANGED vars
    <3>1. StepMaps(Depths)
      BY <1>0, <2>1, StutterMaps DEF vars
    <3>2. Lens' = Lens /\ StackOK'
      BY <1>0, <2>1 DEF vars, Lens, StackOK, Depth
    <3>3. QED
      BY <1>0, <3>1, <3>2
  <2>2. ASSUME NEW t \in Threads, Lock(t), LeavesCalls(t, Depth(t) + 1)
        PROVE  \E d : StepMaps(d) /\ d = Lens' /\ StackOK'
    BY <1>0, <2>2, LockMaps DEF LeavesCalls
  <2>3. ASSUME NEW t \in Threads, Unlock(t), LeavesCalls(t, Depth(t) - 1)
        PROVE  \E d : StepMaps(d) /\ d = Lens' /\ StackOK'
    BY <1>0, <2>3, UnlockMaps DEF LeavesCalls
  <2>4. ASSUME SameCalls, StepMaps(Depths)
        PROVE  \E d : StepMaps(d) /\ d = Lens' /\ StackOK'
    BY <1>0, <2>4 DEF SameCalls
  <2>5. \A events \in Notifications : events \in SUBSET Events
    BY DEF Notifications, Events, EVENTS_PENDING
  <2>6. CASE PNext
    BY <1>0, <2>2, <2>3, <2>4, <2>5, <2>6, CallsCounted, WakeMaps, ExpireMaps, WaitMaps,
       NotifyMaps, StutterMaps
  <2>7. QED
    BY <2>1, <2>6
<1>2. LockInv'
  BY <1>0, ProcessorLockStep DEF MapInv
<1>3. QED
  BY <1>1, <1>2 DEF StepMaps, MapInv, ProcessorInv

LEMMA ProcessorInvInit == PInit => ProcessorInv /\ A!Init
<1> SUFFICES ASSUME PInit PROVE ProcessorInv /\ A!Init
  OBVIOUS
<1>1. MapInv /\ A!Init /\ Depths = [t \in Threads |-> 0]
  BY MapInit DEF PInit
<1>2. stack = [t \in Threads |-> <<>>]
  BY DEF PInit
<1>3. \A t \in Threads : stack[t] = <<>> /\ Len(stack[t]) = 0 /\ stack[t] \in Seq({})
  BY <1>2
<1>4. Lens = [t \in Threads |-> 0]
  BY <1>3 DEF Lens, Depth
<1>5. StackOK
  BY <1>2, <1>3 DEF StackOK, IsSeq
<1>6. QED
  BY <1>1, <1>4, <1>5 DEF ProcessorInv

\* A processor makes no other use of the lock than the abstract lock allows.
THEOREM ProcessorKeepsPromise == PSpec => ImplementsApiLock
<1>1. ProcessorInv /\ [PNext]_vars => ProcessorInv'
  BY ProcessorInvStep
<1>2. ProcessorInv /\ [PNext]_vars => [A!Next]_(A!vars)
  BY ProcessorInvStep
<1>3. QED
  BY <1>1, <1>2, ProcessorInvInit, PTL DEF PSpec, ImplementsApiLock, A!Spec

\* A thread that runs in a call of processor.c has the lock, at one level for each
\* call it is in, whatever waits the calls went through.
THEOREM LevelsMatchCalls == PSpec => []LevelsBalanced
<1>1. ProcessorInv /\ [PNext]_vars => ProcessorInv'
  BY ProcessorInvStep
<1>2. ProcessorInv => LevelsBalanced
  <2> SUFFICES ASSUME ProcessorInv, NEW t \in Threads, Runs(t)
               PROVE  (Holds(t) <=> Depth(t) > 0) /\ (Holds(t) => lock_level = Depth(t))
    BY DEF LevelsBalanced
  <2>1. Depth(t) = DepthOf(pc, save_level, lock_owner, lock_level, t) /\ pc[t] = "run"
    BY Mapping DEF ProcessorInv, Lens, Runs
  <2>2. CASE Holds(t)
    <3>1. lock_level > 0 /\ lock_owner = t
      BY <2>2 DEF Holds
    <3>2. Depth(t) = lock_level
      BY <2>1, <3>1, DepthValues
    <3>3. QED
      BY <2>2, <3>1, <3>2
  <2>3. CASE ~ Holds(t)
    <3>1. Depth(t) = 0
      BY <2>1, <2>3, DepthValues DEF Holds
    <3>2. QED
      BY <2>3, <3>1
  <2>4. QED
    BY <2>2, <2>3
<1>3. QED
  BY <1>1, <1>2, ProcessorInvInit, PTL DEF PSpec
=============================================================================
