------------------------------ MODULE QrTextProofs ------------------------------
(***************************************************************************)
(* Groups of codes are kept apart, no code is passed over, and what is     *)
(* reported of a symbol is the text of its codes in order, with a mark     *)
(* where one is missing, for every list of codes.                          *)
(*                                                                         *)
(* The texts and their sizes are folds over the entries of a code and the  *)
(* codes of a group.  Each is a "run": a function from 0 .. n that a step  *)
(* leads from one place to the next.  What holds at 0 and is kept by a     *)
(* step holds at every place (UpTo), since a nonempty set of naturals has  *)
(* a least element (LeastIndex).                                           *)
(***************************************************************************)
EXTENDS QrText, SequenceTheorems, FiniteSetTheorems, WellFoundedInduction, TLAPS

\* A nonempty set of naturals has a least element.
LEMMA LeastIndex == ASSUME NEW T \in SUBSET Nat, T # {}
                    PROVE  \E m \in T : \A n \in T : m <= n
<1> DEFINE R == OpToRel(<, Nat)
<1>1. \A m \in Nat, n \in Nat : <<n, m>> \in R <=> n < m
  BY DEF OpToRel
<1>2. IsWellFoundedOn(R, Nat)
  BY NatLessThanWellFounded
<1> HIDE DEF R
<1>3. PICK m \in T : \A n \in T : ~ (<<n, m>> \in R)
  BY <1>2, WFMin
<1>4. ASSUME NEW n \in T
      PROVE  m <= n
  <2>1. m \in Nat /\ n \in Nat
    OBVIOUS
  <2>2. ~ (n < m)
    BY <1>1, <1>3, <2>1
  <2>3. QED
    BY <2>1, <2>2
<1>5. QED
  BY <1>4

-----------------------------------------------------------------------------
(* Folds: what a recursive function over the first n elements does.        *)

LEMMA UpTo ==
  ASSUME NEW N \in Nat, NEW T, 0 \in T, \A n \in 1 .. N : n - 1 \in T => n \in T
  PROVE  \A n \in 0 .. N : n \in T
<1> DEFINE Out == {n \in 0 .. N : n \notin T}
<1>1. SUFFICES ASSUME Out # {} PROVE FALSE
  OBVIOUS
<1>2. PICK m \in Out : \A n \in Out : m <= n
  <2>1. Out \in SUBSET Nat
    OBVIOUS
  <2> HIDE DEF Out
  <2>2. QED
    BY <1>1, <2>1, LeastIndex
<1>3. m \in 1 .. N /\ m - 1 \in 0 .. N /\ m - 1 \notin Out
  BY <1>2
<1>4. QED
  BY <1>2, <1>3

LEMMA MaxUpTo ==
  ASSUME NEW n \in Nat \ {0}
  PROVE  1 .. n # {} /\ Max(1 .. n) = n /\ (1 .. n) \ {n} = 1 .. n - 1
<1>1. n \in 1 .. n /\ \A y \in 1 .. n : n >= y
  OBVIOUS
<1>2. \A x \in 1 .. n : (\A y \in 1 .. n : x >= y) => x = n
  BY <1>1
<1>3. Max(1 .. n) = n
  BY <1>1, <1>2 DEF Max
<1>4. QED
  BY <1>1, <1>3

LEMMA MaxIn ==
  ASSUME NEW N \in Nat, NEW s \in SUBSET (1 .. N), s # {}
  PROVE  Max(s) \in s /\ Max(s) \in 1 .. N
<1> DEFINE Above == {n \in 0 .. N : \A y \in s : n >= y}
<1>1. PICK m \in Above : \A n \in Above : m <= n
  <2>1. N \in Above /\ Above \in SUBSET Nat
    OBVIOUS
  <2> HIDE DEF Above
  <2>2. QED
    BY <2>1, LeastIndex
<1>2. m \in s
  <2>1. SUFFICES ASSUME m \notin s PROVE FALSE
    OBVIOUS
  <2>2. \A y \in s : y \in 1 .. N /\ m >= y /\ m # y
    BY <1>1, <2>1
  <2>3. m # 0
    <3>1. PICK y \in s : TRUE
      OBVIOUS
    <3>2. y \in 1 .. N /\ m >= y /\ m \in 0 .. N
      BY <1>1, <2>2, <3>1
    <3>3. QED
      BY <3>2
  <2>4. m - 1 \in 0 .. N /\ \A y \in s : m - 1 >= y
    BY <1>1, <2>2, <2>3
  <2>5. QED
    BY <1>1, <2>4
<1>3. \E x \in s : \A y \in s : x >= y
  BY <1>1, <1>2
<1>4. QED
  BY <1>3 DEF Max

\* f computes a fold: f[s] is what becomes of base by the steps in s.
IsFold(N, A, base, step, f) ==
  /\ f \in [SUBSET (1 .. N) -> A]
  /\ \A s \in SUBSET (1 .. N) :
       f[s] = IF s = {} THEN base ELSE step[<<f[s \ {Max(s)}], Max(s)>>]

LEMMA FoldDefined ==
  ASSUME NEW N \in Nat, NEW A, NEW base \in A, NEW step \in [A \X (1 .. N) -> A]
  PROVE  \E f : IsFold(N, A, base, step, f)
<1> DEFINE Folds(n, f) == \A s \in SUBSET (1 .. n) :
                             f[s] = IF s = {} THEN base ELSE step[<<f[s \ {Max(s)}], Max(s)>>]
           T == {n \in 0 .. N : \E f \in [SUBSET (1 .. n) -> A] : Folds(n, f)}
<1>1. 0 \in T
  <2> DEFINE f == [s \in SUBSET (1 .. 0) |-> base]
  <2>1. f \in [SUBSET (1 .. 0) -> A] /\ Folds(0, f)
    BY 1 .. 0 = {}
  <2> HIDE DEF f
  <2>2. \E h \in [SUBSET (1 .. 0) -> A] : Folds(0, h)
    BY <2>1, Zenon
  <2>3. 0 \in 0 .. N
    OBVIOUS
  <2>4. QED
    BY <2>2, <2>3, Zenon
<1>2. ASSUME NEW n \in 1 .. N, n - 1 \in T
      PROVE  n \in T
  <2>1. PICK f \in [SUBSET (1 .. n - 1) -> A] : Folds(n - 1, f)
    BY <1>2
  <2> DEFINE g == [s \in SUBSET (1 .. n) |-> IF n \in s THEN step[<<f[s \ {n}], n>>] ELSE f[s]]
  <2>2. \A s \in SUBSET (1 .. n) : n \notin s => s \in SUBSET (1 .. n - 1)
    OBVIOUS
  <2>3. \A s \in SUBSET (1 .. n) : s \ {n} \in SUBSET (1 .. n - 1)
    OBVIOUS
  <2>4. g \in [SUBSET (1 .. n) -> A]
    BY <2>2, <2>3
  <2>5. ASSUME NEW s \in SUBSET (1 .. n)
        PROVE  g[s] = IF s = {} THEN base ELSE step[<<g[s \ {Max(s)}], Max(s)>>]
    <3>1. CASE n \in s
      <4>1. Max(s) = n
        <5>1. n \in s /\ \A y \in s : n >= y
          BY <3>1
        <5>2. \A x \in s : (\A y \in s : x >= y) => x = n
          BY <5>1
        <5>3. QED
          BY <5>1, <5>2 DEF Max
      <4>2. s \ {n} \in SUBSET (1 .. n) /\ n \notin s \ {n}
        OBVIOUS
      <4>3. g[s \ {n}] = f[s \ {n}] /\ g[s] = step[<<f[s \ {n}], n>>]
        BY <3>1, <4>2
      <4>4. QED
        BY <3>1, <4>1, <4>3
    <3>2. CASE n \notin s
      <4>1. s \in SUBSET (1 .. n - 1)
        BY <2>2, <3>2
      <4>2. s \ {Max(s)} \in SUBSET (1 .. n) /\ n \notin s \ {Max(s)}
        BY <3>2
      <4>3. g[s] = f[s] /\ g[s \ {Max(s)}] = f[s \ {Max(s)}]
        BY <3>2, <4>2
      <4>4. f[s] = IF s = {} THEN base ELSE step[<<f[s \ {Max(s)}], Max(s)>>]
        BY <2>1, <4>1
      <4>5. QED
        BY <4>3, <4>4
    <3>3. QED
      BY <3>1, <3>2
  <2> HIDE DEF g
  <2>6. \E h \in [SUBSET (1 .. n) -> A] : Folds(n, h)
    BY <2>4, <2>5, Zenon
  <2>7. n \in 0 .. N
    OBVIOUS
  <2>8. QED
    BY <2>6, <2>7, Zenon
<1> HIDE DEF T
<1>3. N \in T
  BY <1>1, <1>2, UpTo
<1>4. QED
  BY <1>3 DEF T, IsFold

(* The values of a fold on the way. *)
Stepwise(N, A, base, step, f) ==
  /\ f[{}] = base
  /\ \A n \in 1 .. N : f[1 .. n - 1] \in A => f[1 .. n] = step[<<f[1 .. n - 1], n>>]
IsRun(N, A, base, step, f, run) ==
  /\ run \in [0 .. N -> A] /\ run[0] = base /\ run[N] = f[1 .. N]
  /\ \A n \in 1 .. N : run[n] = step[<<run[n - 1], n>>]

LEMMA FoldRuns ==
  ASSUME NEW N \in Nat, NEW A, NEW base \in A, NEW step \in [A \X (1 .. N) -> A],
         NEW f, Stepwise(N, A, base, step, f)
  PROVE  \E run : IsRun(N, A, base, step, f, run)
<1> DEFINE run == [n \in 0 .. N |-> f[1 .. n]]
           T == {n \in 0 .. N : f[1 .. n] \in A}
<1>1. 1 .. 0 = {}
  OBVIOUS
<1>2. 0 \in T
  BY <1>1 DEF Stepwise
<1>2a. ASSUME NEW n \in 1 .. N, n - 1 \in T
     PROVE  n \in T
  <2>1. f[1 .. n - 1] \in A /\ n \in 0 .. N
    BY <1>2a
  <2>2. f[1 .. n] = step[<<f[1 .. n - 1], n>>]
    BY <2>1 DEF Stepwise
  <2>3. f[1 .. n] \in A
    BY <2>1, <2>2
  <2>4. QED
    BY <2>1, <2>3
<1> HIDE DEF T
<1>3. \A n \in 0 .. N : n \in T
  BY <1>2, <1>2a, UpTo
<1>4. \A n \in 0 .. N : f[1 .. n] \in A
  BY <1>3 DEF T
<1>5. \A n \in 0 .. N : run[n] = f[1 .. n]
  OBVIOUS
<1>6. run \in [0 .. N -> A]
  BY <1>4
<1> HIDE DEF run
<1>7. \A n \in 1 .. N : run[n] = step[<<run[n - 1], n>>]
  BY <1>4, <1>5 DEF Stepwise
<1>8. run[0] = base /\ f[1 .. N] = run[N]
  BY <1>1, <1>5 DEF Stepwise
<1>9. QED
  BY <1>6, <1>7, <1>8 DEF IsRun

\* run[n] is the sum of the first n.
IsTally(N, seq, run) ==
  /\ run \in [0 .. N -> Nat] /\ run[0] = 0 /\ Sum(seq) = run[N]
  /\ \A n \in 1 .. N : run[n] = run[n - 1] + seq[n]

LEMMA SumRuns ==
  ASSUME NEW N \in Nat, NEW seq \in [1 .. N -> Nat]
  PROVE  \E run : IsTally(N, seq, run)
<1> DEFINE Fold(f) == f = [s \in SUBSET (1 .. N) |-> IF s = {} THEN 0 ELSE f[s \ {Max(s)}] + seq[Max(s)]]
<1>1. PICK step \in [Nat \X (1 .. N) -> Nat] : \A x \in Nat, n \in 1 .. N : step[<<x, n>>] = x + seq[n]
  <2> DEFINE step == [p \in Nat \X (1 .. N) |-> p[1] + seq[p[2]]]
  <2>1. step \in [Nat \X (1 .. N) -> Nat] /\ \A x \in Nat, n \in 1 .. N : step[<<x, n>>] = x + seq[n]
    OBVIOUS
  <2>2. QED
    BY <2>1, Zenon
<1>2. \E g : Fold(g)
  <2>2. PICK g : IsFold(N, Nat, 0, step, g)
    BY FoldDefined
  <2>3. ASSUME NEW s \in SUBSET (1 .. N), s # {}
        PROVE  g[s] = g[s \ {Max(s)}] + seq[Max(s)]
    <3>1. Max(s) \in 1 .. N /\ s \ {Max(s)} \in SUBSET (1 .. N)
      BY <2>3, MaxIn
    <3>2. g[s \ {Max(s)}] \in Nat /\ g[s] = step[<<g[s \ {Max(s)}], Max(s)>>]
      BY <2>2, <2>3, <3>1 DEF IsFold
    <3>3. QED
      BY <1>1, <3>1, <3>2
  <2>4. g = [s \in SUBSET (1 .. N) |-> g[s]] /\ g[{}] = 0
    BY <2>2 DEF IsFold
  <2>5. Fold(g)
    BY <2>3, <2>4
  <2>6. QED
    BY <2>5
<1>3. PICK f : Fold(f) /\ Sum(seq) = f[1 .. N]
  <2>1. Sum(seq) = (CHOOSE f : Fold(f))[1 .. N]
    BY DEF Sum, FoldLeft, MapThenFoldSet
  <2>2. QED
    BY <1>2, <2>1
<1>4. f[{}] = 0
  BY <1>3
<1>5. ASSUME NEW n \in 1 .. N, f[1 .. n - 1] \in Nat
      PROVE  f[1 .. n] = step[<<f[1 .. n - 1], n>>]
  <2>1. /\ 1 .. n \in SUBSET (1 .. N) /\ n \in Nat \ {0}
    OBVIOUS
  <2>2. 1 .. n # {} /\ Max(1 .. n) = n /\ (1 .. n) \ {n} = 1 .. n - 1
    BY <2>1, MaxUpTo
  <2>3. f[1 .. n] = f[1 .. n - 1] + seq[n]
    BY <1>3, <2>1, <2>2
  <2>4. QED
    BY <1>1, <1>5, <2>3
<1>8. Stepwise(N, Nat, 0, step, f)
  BY <1>4, <1>5 DEF Stepwise
<1>9. PICK run : IsRun(N, Nat, 0, step, f, run)
  BY <1>8, FoldRuns
<1>10. ASSUME NEW n \in 1 .. N
       PROVE  run[n] = run[n - 1] + seq[n]
  <2>1. n - 1 \in 0 .. N
    OBVIOUS
  <2>2. run[n] = step[<<run[n - 1], n>>] /\ run[n - 1] \in Nat
    BY <1>9, <2>1 DEF IsRun
  <2>3. QED
    BY <1>1, <2>2
<1>11. QED
  BY <1>3, <1>9, <1>10 DEF IsRun, IsTally

-----------------------------------------------------------------------------
\* A sequence whose elements are not typed: those it has.
Elements(s) == {s[k] : k \in DOMAIN s}

LEMMA Appended ==
  ASSUME NEW s, s \in Seq(Elements(s)), NEW x
  PROVE  /\ Append(s, x) \in Seq(Elements(Append(s, x)))
         /\ DOMAIN Append(s, x) = DOMAIN s \union {Len(s) + 1}
         /\ \A k \in DOMAIN s : Append(s, x)[k] = s[k]
         /\ Append(s, x)[Len(s) + 1] = x
         /\ Len(s) + 1 \notin DOMAIN s
<1> DEFINE S == Elements(s) \union {x}
<1>1. s \in Seq(S)
  OBVIOUS
<1>2. /\ DOMAIN Append(s, x) = 1 .. Len(s) + 1 /\ DOMAIN s = 1 .. Len(s) /\ Len(s) \in Nat
      /\ \A k \in 1 .. Len(s) : Append(s, x)[k] = s[k]
      /\ Append(s, x)[Len(s) + 1] = x
      /\ Append(s, x) \in Seq(S)
  BY <1>1
<1>3. S \subseteq Elements(Append(s, x))
  BY <1>2 DEF Elements
<1> HIDE DEF S
<1>4. Append(s, x) \in Seq(Elements(Append(s, x)))
  BY <1>2, <1>3
<1>5. QED
  BY <1>2, <1>4

-----------------------------------------------------------------------------
(* What one round takes.                                                   *)

LEMMA ListTypes ==
  ASSUME list \in Seq(Code), NEW c \in DOMAIN list
  PROVE  /\ c \in Nat \ {0}
         /\ list[c].sa_size \in 0 .. 16
         /\ list[c].sa_index \in Nat
         /\ list[c].sa_size # 0 /\ ~Misplaced(c) => list[c].sa_index \in 0 .. list[c].sa_size - 1
         /\ list[c].entries \in Seq(Entry)
<1>1. c \in 1 .. Len(list) /\ list[c] \in Code
  OBVIOUS
<1>2. /\ list[c].sa_size \in 0 .. 16 /\ list[c].sa_index \in 0 .. 15
      /\ list[c].entries \in Seq(Entry)
  BY <1>1 DEF Code
<1>3. list[c].sa_size # 0 /\ ~Misplaced(c) => list[c].sa_index \in 0 .. list[c].sa_size - 1
  <2>1. \A size \in 0 .. 16, index \in 0 .. 15 : ~(index >= size) => index \in 0 .. size - 1
    OBVIOUS
  <2>2. QED
    BY <1>2, <2>1 DEF Misplaced
<1>4. QED
  BY <1>1, <1>2, <1>3

(* The least of some codes is one of them. *)
LEMMA LeastCode ==
  ASSUME list \in Seq(Code), NEW those \in SUBSET (DOMAIN list), those # {}
  PROVE  LET least == CHOOSE j \in those : \A k \in those : j <= k
         IN least \in those /\ \A k \in those : least <= k
<1>1. those \in SUBSET Nat
  BY ListTypes
<1>2. \E j \in those : \A k \in those : j <= k
  BY <1>1, LeastIndex
<1>3. QED
  BY <1>2

LEMMA GroupAt ==
  ASSUME list \in Seq(Code), NEW i \in DOMAIN list,
         NEW n \in 0 .. list[i].sa_size - 1, Group(i)[n] # 0
  PROVE  /\ Group(i)[n] \in DOMAIN list /\ Belongs(i, Group(i)[n])
         /\ list[Group(i)[n]].sa_index = n /\ ~Misplaced(Group(i)[n])
<1> DEFINE those == {j \in DOMAIN list : Belongs(i, j) /\ list[j].sa_index = n}
           least == CHOOSE j \in those : \A k \in those : j <= k
<1>1. Group(i)[n] = IF those = {} THEN 0 ELSE least
  BY DEF Group
<1>2. those # {} /\ Group(i)[n] = least
  BY <1>1
<1>3. those \in SUBSET DOMAIN list
  OBVIOUS
<1> HIDE DEF those
<1>4. Group(i)[n] \in those
  BY <1>2, <1>3, LeastCode
<1>5. /\ Group(i)[n] \in DOMAIN list /\ Belongs(i, Group(i)[n])
      /\ list[Group(i)[n]].sa_index = n
  BY <1>4 DEF those
<1>6. ~Misplaced(Group(i)[n])
  <2>1. list[Group(i)[n]].sa_size = list[i].sa_size /\ list[i].sa_size \in 0 .. 16
    BY <1>5, ListTypes DEF Belongs
  <2>2. ~(n >= list[i].sa_size)
    BY <2>1
  <2>3. QED
    BY <1>5, <2>1, <2>2 DEF Misplaced
<1>7. QED
  BY <1>5, <1>6

(* A group has the code it was started for, if that is at a place in it.   *)
LEMMA GroupHasFirst ==
  ASSUME list \in Seq(Code), NEW i \in DOMAIN list, i \notin mark, list[i].sa_size # 0, ~Misplaced(i)
  PROVE  Group(i)[list[i].sa_index] = i /\ list[i].sa_index \in 0 .. list[i].sa_size - 1
<1> DEFINE n == list[i].sa_index
           those == {j \in DOMAIN list : Belongs(i, j) /\ list[j].sa_index = n}
           least == CHOOSE j \in those : \A k \in those : j <= k
<1>1. n \in 0 .. list[i].sa_size - 1 /\ i \in Nat
  BY ListTypes
<1>2. Group(i)[n] = IF those = {} THEN 0 ELSE least
  BY <1>1 DEF Group
<1>3. i \in those
  BY <1>1 DEF Belongs
<1>4. those \in SUBSET DOMAIN list /\ \A j \in those : j >= i
  BY DEF Belongs
<1> HIDE DEF those
<1>5. those # {}
  BY <1>3
<1>6. least \in those /\ \A k \in those : least <= k
  BY <1>4, <1>5, LeastCode
<1>7. least <= i /\ least >= i /\ least \in Nat
  BY <1>3, <1>4, <1>6, ListTypes
<1>8. least = i
  BY <1>1, <1>7
<1>9. QED
  BY <1>1, <1>2, <1>3, <1>8

(* What is put together has the next code, if that is at a place in its    *)
(* group, has nothing that was taken before, and is a group.               *)
LEMMA MembersTaken ==
  ASSUME list \in Seq(Code), NEW i \in DOMAIN list, i \notin mark
  PROVE  /\ ~Misplaced(i) => i \in Codes(Members(i))
         /\ \A j \in Codes(Members(i)) : j \in DOMAIN list /\ j >= i /\ j \notin mark
         /\ \A j \in Codes(Members(i)) : ~Misplaced(j)
         /\ \A j \in Codes(Members(i)) : list[j].sa_size = list[i].sa_size
         /\ list[i].sa_size = 0 => Codes(Members(i)) = {i}
         /\ OfOneGroup(Members(i))
<1>1. CASE list[i].sa_size = 0
  <2>1. Members(i) = [n \in 0 .. 0 |-> i]
    BY <1>1 DEF Members
  <2>2. i # 0 /\ i >= i
    BY ListTypes
  <2>3. Codes(Members(i)) = {i}
    BY <2>1, <2>2 DEF Codes
  <2>4. OfOneGroup(Members(i))
    BY <1>1, <2>1 DEF OfOneGroup
  <2>5. ~Misplaced(i)
    BY <1>1 DEF Misplaced
  <2>6. QED
    BY <1>1, <2>2, <2>3, <2>4, <2>5
<1>2. CASE list[i].sa_size # 0
  <2>1. Members(i) = Group(i) /\ DOMAIN Group(i) = 0 .. list[i].sa_size - 1
    BY <1>2 DEF Members, Group
  <2>2. ASSUME NEW n \in DOMAIN Group(i), Group(i)[n] # 0
        PROVE  /\ Group(i)[n] \in DOMAIN list /\ Belongs(i, Group(i)[n])
               /\ list[Group(i)[n]].sa_index = n /\ ~Misplaced(Group(i)[n])
    BY <2>1, <2>2, GroupAt
  <2>3. ~Misplaced(i) =>
          Group(i)[list[i].sa_index] = i /\ list[i].sa_index \in DOMAIN Group(i) /\ i # 0
    BY <1>2, <2>1, GroupHasFirst, ListTypes
  <2>4. ~Misplaced(i) => i \in Codes(Group(i))
    BY <2>3 DEF Codes
  <2>5. \A j \in Codes(Group(i)) : j \in DOMAIN list /\ Belongs(i, j) /\ ~Misplaced(j)
    BY <2>2 DEF Codes
  <2>6. OfOneGroup(Group(i))
    BY <2>2 DEF OfOneGroup, Belongs
  <2>7. QED
    BY <1>2, <2>1, <2>4, <2>5, <2>6 DEF Belongs
<1>3. QED
  BY <1>1, <1>2

-----------------------------------------------------------------------------
(* Texts, sizes and what is put together.                                  *)

Place == Nat \X Nat \X Nat
Texts == Seq(Place)
Out == [text : Texts, bytebuf : Texts, err : BOOLEAN, partial : BOOLEAN]

\* run[n] is the first n of the sequences, one behind the other.
IsJoin(N, S, seqs, run) ==
  /\ run \in [0 .. N -> Seq(S)] /\ run[0] = <<>> /\ FlattenSeq(seqs) = run[N]
  /\ \A n \in 1 .. N : run[n] = run[n - 1] \o seqs[n]

LEMMA FlattenRuns ==
  ASSUME NEW N \in Nat, NEW S, NEW seqs \in [1 .. N -> Seq(S)]
  PROVE  \E run : IsJoin(N, S, seqs, run)
<1> DEFINE Fold(f) == f = [i \in 1 .. N |-> IF i = 1 THEN seqs[i] ELSE f[i - 1] \o seqs[i]]
<1>1. PICK step \in [Seq(S) \X (1 .. N) -> Seq(S)] :
             \A x \in Seq(S), n \in 1 .. N : step[<<x, n>>] = x \o seqs[n]
  <2> DEFINE step == [p \in Seq(S) \X (1 .. N) |-> p[1] \o seqs[p[2]]]
  <2>1. \A x \in Seq(S), n \in 1 .. N : x \o seqs[n] \in Seq(S)
    BY ConcatProperties
  <2>2. step \in [Seq(S) \X (1 .. N) -> Seq(S)] /\ \A x \in Seq(S), n \in 1 .. N : step[<<x, n>>] = x \o seqs[n]
    BY <2>1
  <2>3. QED
    BY <2>2, Zenon
<1>2. PICK g : IsFold(N, Seq(S), <<>>, step, g)
  <2>1. <<>> \in Seq(S)
    OBVIOUS
  <2>2. QED
    BY <2>1, FoldDefined
<1>3. Stepwise(N, Seq(S), <<>>, step, g)
  <2>1. g[{}] = <<>>
    BY <1>2 DEF IsFold
  <2>2. ASSUME NEW n \in 1 .. N
        PROVE  g[1 .. n] = step[<<g[1 .. n - 1], n>>]
    <3>1. 1 .. n \in SUBSET (1 .. N) /\ n \in Nat \ {0}
      OBVIOUS
    <3>2. 1 .. n # {} /\ Max(1 .. n) = n /\ (1 .. n) \ {n} = 1 .. n - 1
      BY <3>1, MaxUpTo
    <3>3. QED
      BY <1>2, <3>1, <3>2 DEF IsFold
  <2>3. QED
    BY <2>1, <2>2 DEF Stepwise
<1>4. PICK run : IsRun(N, Seq(S), <<>>, step, g, run)
  <2>1. <<>> \in Seq(S)
    OBVIOUS
  <2>2. QED
    BY <1>3, <2>1, FoldRuns
<1>5. /\ run \in [0 .. N -> Seq(S)] /\ run[0] = <<>>
      /\ \A n \in 1 .. N : run[n] = run[n - 1] \o seqs[n]
  <2>1. ASSUME NEW n \in 1 .. N
        PROVE  run[n] = run[n - 1] \o seqs[n]
    <3>1. n - 1 \in 0 .. N
      OBVIOUS
    <3>2. run[n] = step[<<run[n - 1], n>>] /\ run[n - 1] \in Seq(S)
      BY <1>4, <3>1 DEF IsRun
    <3>3. QED
      BY <1>1, <3>2
  <2>2. QED
    BY <1>4, <2>1 DEF IsRun
<1>6. N # 0 => run[1] = seqs[1]
  <2> SUFFICES ASSUME N # 0 PROVE run[1] = seqs[1]
    OBVIOUS
  <2>1. 1 \in 1 .. N /\ 1 - 1 = 0
    OBVIOUS
  <2>2. run[1] = run[1 - 1] \o seqs[1] /\ seqs[1] \in Seq(S)
    BY <1>5, <2>1
  <2>3. <<>> \o seqs[1] = seqs[1]
    BY <2>2, ConcatEmptySeq
  <2>4. QED
    BY <1>5, <2>1, <2>2, <2>3
<1>7. FlattenSeq(seqs) = run[N]
  <2>1. Len(seqs) = N
    OBVIOUS
  <2>2. CASE N = 0
    <3>1. seqs = <<>>
      BY <2>2
    <3>2. QED
      BY <1>5, <2>1, <2>2, <3>1 DEF FlattenSeq
  <2>3. CASE N # 0
    <3> DEFINE h == [i \in 1 .. N |-> run[i]]
    <3>1. Fold(h)
      <4>1. ASSUME NEW i \in 1 .. N
            PROVE  h[i] = IF i = 1 THEN seqs[i] ELSE h[i - 1] \o seqs[i]
        <5>1. CASE i = 1
          BY <1>6, <5>1
        <5>2. CASE i # 1
          <6>1. i - 1 \in 1 .. N
            BY <5>2
          <6>2. QED
            BY <1>5, <5>2, <6>1
        <5>3. QED
          BY <5>1, <5>2
      <4>2. QED
        BY <4>1
    <3>2. PICK f : Fold(f) /\ FlattenSeq(seqs) = f[N]
      <4>1. FlattenSeq(seqs) = (CHOOSE f : Fold(f))[N]
        BY <2>1, <2>3 DEF FlattenSeq
      <4>2. QED
        BY <3>1, <4>1
    <3> HIDE DEF h
    <3>3. \A n \in 0 .. N : n \in {k \in 0 .. N : k # 0 => f[k] = run[k]}
      <4> DEFINE T == {k \in 0 .. N : k # 0 => f[k] = run[k]}
      <4>1. 0 \in T
        OBVIOUS
      <4>2. ASSUME NEW n \in 1 .. N, n - 1 \in T
            PROVE  n \in T
        <5>1. CASE n = 1
          <6>1. f[1] = seqs[1]
            BY <3>2, <5>1
          <6>2. QED
            BY <1>6, <5>1, <6>1
        <5>2. CASE n # 1
          <6>1. n - 1 \in 1 .. N /\ f[n - 1] = run[n - 1]
            BY <4>2, <5>2
          <6>2. f[n] = f[n - 1] \o seqs[n]
            BY <3>2, <5>2
          <6>3. f[n] = run[n]
            BY <1>5, <6>1, <6>2
          <6>4. QED
            BY <6>3
        <5>3. QED
          BY <5>1, <5>2
      <4> HIDE DEF T
      <4>3. \A n \in 0 .. N : n \in T
        BY <4>1, <4>2, UpTo
      <4>4. QED
        BY <4>3 DEF T
    <3>4. N \in 0 .. N
      OBVIOUS
    <3>5. f[N] = run[N]
      BY <2>3, <3>3, <3>4
    <3>6. QED
      BY <3>2, <3>5
  <2>4. QED
    BY <2>2, <2>3
<1>8. QED
  BY <1>5, <1>7 DEF IsJoin

LEMMA TextFacts ==
  \A x, y \in Texts :
    /\ x \o y \in Texts /\ x \o <<>> = x /\ <<>> \o x = x /\ <<>> \in Texts
    /\ Len(x) \in Nat /\ Len(x \o y) = Len(x) + Len(y)
<1> SUFFICES ASSUME NEW x \in Seq(Place), NEW y \in Seq(Place)
             PROVE  /\ x \o y \in Seq(Place) /\ x \o <<>> = x /\ <<>> \o x = x
                    /\ <<>> \in Seq(Place) /\ Len(x) \in Nat /\ Len(x \o y) = Len(x) + Len(y)
  BY DEF Texts
<1>1. x \o y \in Seq(Place) /\ Len(x \o y) = Len(x) + Len(y)
  BY ConcatProperties
<1>2. x \o <<>> = x /\ <<>> \o x = x
  BY ConcatEmptySeq
<1>3. QED
  BY <1>1, <1>2

LEMMA TextsJoin == \A x, y, z \in Texts : (x \o y) \o z = x \o (y \o z)
BY ConcatAssociative DEF Texts

-----------------------------------------------------------------------------
(* A code: its entries, one behind the other.                              *)

LEMMA EntryTypes ==
  ASSUME list \in Seq(Code), NEW c \in DOMAIN list, NEW k \in DOMAIN list[c].entries
  PROVE  /\ list[c].entries[k].mode \in {"NUM", "ALNUM", "BYTE", "KANJI"}
         /\ list[c].entries[k].len \in Nat
         /\ Bytes(c, k) \in Texts /\ Len(Bytes(c, k)) = list[c].entries[k].len
<1>1. c \in Nat /\ list[c].entries \in Seq(Entry)
  BY ListTypes
<1>2. k \in Nat /\ list[c].entries[k] \in Entry
  BY <1>1
<1>3. list[c].entries[k].mode \in {"NUM", "ALNUM", "BYTE", "KANJI"} /\ list[c].entries[k].len \in Nat
  BY <1>2 DEF Entry
<1> DEFINE len == list[c].entries[k].len
<1>4. len \in Nat
  BY <1>3
<1> HIDE DEF len
<1>5. Bytes(c, k) = [n \in 1 .. len |-> <<c, k, n>>]
  BY DEF Bytes, len
<1>6. \A n \in 1 .. len : <<c, k, n>> \in Place
  BY <1>1, <1>2, <1>4 DEF Place
<1>7. Bytes(c, k) \in Seq(Place) /\ Len(Bytes(c, k)) = len
  BY <1>4, <1>5, <1>6
<1>8. QED
  BY <1>3, <1>7 DEF Texts, len

(* An entry goes behind what there is, and fits if there is room for it.   *)
LEMMA EntryAdded ==
  ASSUME list \in Seq(Code), NEW c \in DOMAIN list, NEW k \in DOMAIN list[c].entries,
         NEW size \in Nat, NEW o \in Out
  PROVE  LET p == AddEntry(o, c, k, size)
             before == o.text \o o.bytebuf
         IN /\ p \in Out /\ p.partial = o.partial /\ p.err \in {o.err, TRUE}
            /\ ~ p.err => p.text \o p.bytebuf = before \o Bytes(c, k)
            /\ before \in Texts
            /\ ~ o.err /\ Len(before) + Len(Bytes(c, k)) <= size => ~ p.err
<1> DEFINE e == list[c].entries[k]
           bytes == Bytes(c, k)
           before == o.text \o o.bytebuf
           f == Flush(o)
           p == AddEntry(o, c, k, size)
<1>1. /\ e.mode \in {"NUM", "ALNUM", "BYTE", "KANJI"} /\ e.len \in Nat
      /\ bytes \in Texts /\ Len(bytes) = e.len
  BY EntryTypes
<1>2. o.text \in Texts /\ o.bytebuf \in Texts /\ before \in Texts
  BY ConcatProperties DEF Out, Texts
<1>3. /\ f \in Out /\ f.text = before /\ f.bytebuf = <<>> /\ f.err = o.err
      /\ f.partial = o.partial
  <2>1. <<>> \in Texts
    BY DEF Texts
  <2>2. QED
    BY <1>2, <2>1 DEF Flush, Out
<1> HIDE DEF bytes
<1>4. /\ o.bytebuf \o bytes \in Texts /\ before \o bytes \in Texts
      /\ o.text \o (o.bytebuf \o bytes) = before \o bytes
  <2>1. ASSUME NEW x \in Seq(Place), NEW y \in Seq(Place), NEW z \in Seq(Place)
        PROVE  y \o z \in Seq(Place) /\ (x \o y) \o z \in Seq(Place) /\ x \o (y \o z) = (x \o y) \o z
    <3>1. y \o z \in Seq(Place) /\ x \o y \in Seq(Place)
      BY ConcatProperties
    <3>2. (x \o y) \o z \in Seq(Place)
      BY <3>1, ConcatProperties
    <3>3. (x \o y) \o z = x \o (y \o z)
      BY ConcatAssociative
    <3>4. QED
      BY <3>1, <3>2, <3>3
  <2>2. o.text \in Seq(Place) /\ o.bytebuf \in Seq(Place) /\ bytes \in Seq(Place)
    BY <1>1, <1>2 DEF Texts
  <2>3. /\ o.bytebuf \o bytes \in Seq(Place) /\ (o.text \o o.bytebuf) \o bytes \in Seq(Place)
        /\ o.text \o (o.bytebuf \o bytes) = (o.text \o o.bytebuf) \o bytes
    BY ONLY <2>1, <2>2
  <2>4. QED
    BY ONLY <2>3 DEF Texts, before
<1> HIDE DEF before, f
<1>5. Len(before) \in Nat /\ Len(bytes) \in Nat
  BY <1>1, <1>2 DEF Texts
<1>6. p = IF e.mode \in {"BYTE", "KANJI"} THEN [o EXCEPT !.bytebuf = @ \o bytes]
          ELSE IF HasRoom(size, Len(f.text), e.len) THEN [f EXCEPT !.text = @ \o bytes]
          ELSE [f EXCEPT !.err = TRUE]
  BY DEF AddEntry, bytes, f
<1> HIDE DEF p, e
<1>7. CASE e.mode \in {"BYTE", "KANJI"}
  <2>1. p = [o EXCEPT !.bytebuf = @ \o bytes]
    BY <1>6, <1>7
  <2>2. p \in Out /\ p.partial = o.partial /\ p.err = o.err /\ p.text = o.text /\ p.bytebuf = o.bytebuf \o bytes
    BY <1>4, <2>1 DEF Out
  <2>3. QED
    BY <1>2, <1>4, <2>2 DEF p, bytes, before
<1>8. CASE ~ (e.mode \in {"BYTE", "KANJI"}) /\ HasRoom(size, Len(f.text), e.len)
  <2>1. p = [f EXCEPT !.text = @ \o bytes]
    BY <1>6, <1>8
  <2>2. p \in Out /\ p.partial = o.partial /\ p.err = o.err /\ p.text = before \o bytes /\ p.bytebuf = <<>>
    BY <1>3, <1>4, <2>1 DEF Out
  <2>3. (before \o bytes) \o <<>> = before \o bytes
    BY <1>4, ConcatEmptySeq DEF Texts
  <2>4. QED
    BY <1>2, <2>2, <2>3 DEF p, bytes, before
<1>9. CASE ~ (e.mode \in {"BYTE", "KANJI"}) /\ ~ (HasRoom(size, Len(f.text), e.len))
  <2>1. p = [f EXCEPT !.err = TRUE]
    BY <1>6, <1>9
  <2>2. p \in Out /\ p.partial = o.partial /\ p.err
    BY <1>3, <2>1 DEF Out
  <2>3. ~ (Len(before) + Len(bytes) <= size)
    BY <1>1, <1>3, <1>5, <1>9 DEF HasRoom
  <2>4. QED
    BY <1>2, <2>2, <2>3 DEF p, bytes, before
<1>10. QED
  BY <1>7, <1>8, <1>9

(* A text grows with the number of its parts. *)
LEMMA TextGrows ==
  ASSUME NEW N \in Nat, NEW S, NEW seqs \in [1 .. N -> Seq(S)], NEW run \in [0 .. N -> Seq(S)],
         \A n \in 1 .. N : run[n] = run[n - 1] \o seqs[n]
  PROVE  \A n \in 1 .. N : Len(run[n - 1]) + Len(seqs[n]) <= Len(run[N])
<1>1. ASSUME NEW n \in 1 .. N
      PROVE  Len(run[n]) = Len(run[n - 1]) + Len(seqs[n]) /\ Len(run[n]) \in Nat /\ Len(seqs[n]) \in Nat
  <2>1. n - 1 \in 0 .. N
    OBVIOUS
  <2>2. run[n] = run[n - 1] \o seqs[n] /\ run[n - 1] \in Seq(S) /\ seqs[n] \in Seq(S)
    BY <2>1
  <2>3. QED
    BY <2>2, ConcatProperties
<1> DEFINE T == {d \in 0 .. N : Len(run[N - d]) <= Len(run[N])}
<1>2. 0 \in T
  BY run[N] \in Seq(S)
<1>3. ASSUME NEW d \in 1 .. N, d - 1 \in T
      PROVE  d \in T
  <2>1. N - (d - 1) \in 1 .. N /\ N - (d - 1) - 1 = N - d /\ N - d \in 0 .. N
    OBVIOUS
  <2>2. /\ Len(run[N - (d - 1)]) = Len(run[N - d]) + Len(seqs[N - (d - 1)])
        /\ Len(seqs[N - (d - 1)]) \in Nat
    BY <1>1, <2>1
  <2>3. Len(run[N - (d - 1)]) <= Len(run[N])
    BY <1>3
  <2>4. run[N] \in Seq(S) /\ run[N - d] \in Seq(S)
    BY <2>1
  <2>5. Len(run[N]) \in Nat /\ Len(run[N - d]) \in Nat
    BY <2>4
  <2>6. Len(run[N - d]) <= Len(run[N])
    <3> DEFINE x == Len(run[N - d])
               y == Len(run[N - (d - 1)])
               z == Len(run[N])
               s == Len(seqs[N - (d - 1)])
    <3>1. x \in Nat /\ z \in Nat /\ s \in Nat /\ y = x + s /\ y <= z
      BY <2>2, <2>3, <2>5
    <3> HIDE DEF x, y, z, s
    <3>2. x <= z
      BY <3>1
    <3>3. QED
      BY <3>2 DEF x, z
  <2>7. QED
    BY <2>1, <2>6
<1> HIDE DEF T
<1>4. \A d \in 0 .. N : d \in T
  BY <1>2, <1>3, UpTo
<1>5. ASSUME NEW n \in 1 .. N
      PROVE  Len(run[n - 1]) + Len(seqs[n]) <= Len(run[N])
  <2>1. N - n \in 0 .. N /\ N - (N - n) = n
    OBVIOUS
  <2>2. Len(run[n]) <= Len(run[N])
    BY <1>4, <2>1 DEF T
  <2>3. QED
    BY <1>1, <2>2
<1>6. QED
  BY <1>5

\* run[k] is what the first k entries of a code make of out.
IsCodeRun(c, K, size, out, run) ==
  /\ run \in [0 .. K -> Out] /\ run[0] = out
  /\ AddCode(out, c, size) = IF run[K].err THEN run[K] ELSE Flush(run[K])
  /\ \A k \in 1 .. K :
       run[k] = IF run[k - 1].err THEN run[k - 1] ELSE AddEntry(run[k - 1], c, k, size)

LEMMA CodeRuns ==
  ASSUME list \in Seq(Code), NEW c \in DOMAIN list, NEW size \in Nat, NEW out \in Out
  PROVE  \E run : IsCodeRun(c, Len(list[c].entries), size, out, run)
<1> DEFINE K == Len(list[c].entries)
           Then(o, k) == IF o.err THEN o ELSE AddEntry(o, c, k, size)
           seq == [k \in DOMAIN list[c].entries |-> k]
           Fold(f) == f = [s \in SUBSET (DOMAIN seq) |->
                            IF s = {} THEN out ELSE Then(f[s \ {Max(s)}], seq[Max(s)])]
<1>1. K \in Nat /\ DOMAIN list[c].entries = 1 .. K
  BY ListTypes
<1>2. DOMAIN seq = 1 .. K /\ \A k \in 1 .. K : seq[k] = k
  BY <1>1
<1>3. \A o \in Out, k \in 1 .. K : Then(o, k) \in Out
  BY <1>1, EntryAdded
<1>4. AddCode(out, c, size) = LET done == (CHOOSE f : Fold(f))[DOMAIN seq]
                              IN IF done.err THEN done ELSE Flush(done)
  BY DEF AddCode, FoldLeft, MapThenFoldSet
<1> HIDE DEF K, Then, seq
<1>5. PICK step \in [Out \X (1 .. K) -> Out] : \A o \in Out, k \in 1 .. K : step[<<o, k>>] = Then(o, k)
  <2> DEFINE step == [p \in Out \X (1 .. K) |-> Then(p[1], p[2])]
  <2>1. step \in [Out \X (1 .. K) -> Out] /\ \A o \in Out, k \in 1 .. K : step[<<o, k>>] = Then(o, k)
    BY <1>3
  <2>2. QED
    BY <2>1, Zenon
<1>6. \E g : Fold(g)
  <2>1. PICK g : IsFold(K, Out, out, step, g)
    BY <1>1, FoldDefined
  <2>2. ASSUME NEW s \in SUBSET (1 .. K), s # {}
        PROVE  g[s] = Then(g[s \ {Max(s)}], seq[Max(s)])
    <3>1. Max(s) \in 1 .. K /\ s \ {Max(s)} \in SUBSET (1 .. K)
      BY <1>1, <2>2, MaxIn
    <3>2. g[s \ {Max(s)}] \in Out /\ g[s] = step[<<g[s \ {Max(s)}], Max(s)>>]
      BY <2>1, <2>2, <3>1 DEF IsFold
    <3>3. QED
      BY <1>2, <1>5, <3>1, <3>2
  <2>3. g = [s \in SUBSET (1 .. K) |-> g[s]] /\ g[{}] = out
    BY <2>1 DEF IsFold
  <2>4. Fold(g)
    BY <1>2, <2>2, <2>3
  <2>5. QED
    BY <2>4
<1>7. PICK f : Fold(f) /\ AddCode(out, c, size) = IF f[1 .. K].err THEN f[1 .. K] ELSE Flush(f[1 .. K])
  BY <1>2, <1>4, <1>6
<1>7a. \A s \in SUBSET (1 .. K) : f[s] = IF s = {} THEN out ELSE Then(f[s \ {Max(s)}], seq[Max(s)])
  BY <1>2, <1>7
<1> HIDE DEF Fold
<1>8. ASSUME NEW k \in 1 .. K, f[1 .. k - 1] \in Out
      PROVE  f[1 .. k] = step[<<f[1 .. k - 1], k>>]
  <2>1. /\ 1 .. k \in SUBSET (1 .. K) /\ k \in Nat \ {0}
    BY <1>1
  <2>2. 1 .. k # {} /\ Max(1 .. k) = k /\ (1 .. k) \ {k} = 1 .. k - 1
    BY <2>1, MaxUpTo
  <2>3. f[1 .. k] = Then(f[1 .. k - 1], k)
    BY <1>2, <1>7a, <2>1, <2>2
  <2>4. QED
    BY <1>5, <1>8, <2>3
<1>9. Stepwise(K, Out, out, step, f)
  <2>1. f[{}] = out
    BY <1>7a
  <2>2. QED
    BY <1>8, <2>1 DEF Stepwise
<1>10. PICK run : IsRun(K, Out, out, step, f, run)
  BY <1>1, <1>9, FoldRuns
<1>11. ASSUME NEW k \in 1 .. K
       PROVE  run[k] = Then(run[k - 1], k)
  <2>1. k - 1 \in 0 .. K
    BY <1>1
  <2>2. run[k] = step[<<run[k - 1], k>>] /\ run[k - 1] \in Out
    BY <1>10, <2>1 DEF IsRun
  <2>3. QED
    BY <1>5, <2>2
<1>12. /\ run \in [0 .. K -> Out] /\ run[0] = out
       /\ AddCode(out, c, size) = IF run[K].err THEN run[K] ELSE Flush(run[K])
  BY <1>7, <1>10 DEF IsRun
<1>13. IsCodeRun(c, K, size, out, run)
  BY <1>11, <1>12 DEF IsCodeRun, Then
<1>14. QED
  BY <1>13 DEF K

(* The text of a code is that of its entries, one behind the other. *)
LEMMA TextRuns ==
  ASSUME list \in Seq(Code), NEW c \in DOMAIN list
  PROVE  LET K == Len(list[c].entries) IN
         /\ Text(c) \in Texts
         /\ \E run \in [0 .. K -> Texts] :
              /\ run[0] = <<>> /\ run[K] = Text(c)
              /\ \A k \in 1 .. K : run[k] = run[k - 1] \o Bytes(c, k)
              /\ \A k \in 1 .. K : Len(run[k - 1]) + Len(Bytes(c, k)) <= Len(Text(c))
<1> DEFINE K == Len(list[c].entries)
           seqs == [k \in DOMAIN list[c].entries |-> Bytes(c, k)]
<1>1. K \in Nat /\ DOMAIN list[c].entries = 1 .. K
  BY ListTypes
<1>2. seqs \in [1 .. K -> Seq(Place)] /\ \A k \in 1 .. K : seqs[k] = Bytes(c, k)
  BY <1>1, EntryTypes DEF Texts
<1>3. Text(c) = FlattenSeq(seqs)
  BY DEF Text
<1> HIDE DEF K, seqs
<1>4. PICK run : IsJoin(K, Place, seqs, run)
  BY <1>1, <1>2, FlattenRuns
<1>5. \A k \in 1 .. K : Len(run[k - 1]) + Len(seqs[k]) <= Len(run[K])
  BY <1>1, <1>2, <1>4, TextGrows DEF IsJoin
<1>6. Text(c) \in Texts
  <2>1. K \in 0 .. K
    BY <1>1
  <2>2. QED
    BY <1>3, <1>4, <2>1 DEF Texts, IsJoin
<1>7. /\ run \in [0 .. K -> Texts] /\ run[0] = <<>> /\ run[K] = Text(c)
      /\ \A k \in 1 .. K : run[k] = run[k - 1] \o Bytes(c, k)
      /\ \A k \in 1 .. K : Len(run[k - 1]) + Len(Bytes(c, k)) <= Len(Text(c))
  BY <1>2, <1>3, <1>4, <1>5 DEF Texts, IsJoin
<1>8. QED
  BY <1>6, <1>7 DEF K

(* A code goes behind what there is, and fits if there is room for it.     *)
LEMMA CodeAdded ==
  ASSUME list \in Seq(Code), NEW c \in DOMAIN list, NEW size \in Nat, NEW out \in Out,
         ~ out.err, out.bytebuf = <<>>
  PROVE  LET p == AddCode(out, c, size)
         IN /\ p \in Out /\ p.partial = out.partial
            /\ ~ p.err => p.text = out.text \o Text(c) /\ p.bytebuf = <<>>
            /\ Len(out.text) + Len(Text(c)) <= size => ~ p.err
<1> DEFINE K == Len(list[c].entries)
           p == AddCode(out, c, size)
           before == out.text
<1>1. K \in Nat /\ DOMAIN list[c].entries = 1 .. K
  BY ListTypes
<1>2. PICK run : IsCodeRun(c, K, size, out, run)
  BY CodeRuns
<1>2a. /\ run \in [0 .. K -> Out] /\ run[0] = out
       /\ p = IF run[K].err THEN run[K] ELSE Flush(run[K])
       /\ \A k \in 1 .. K :
            run[k] = IF run[k - 1].err THEN run[k - 1] ELSE AddEntry(run[k - 1], c, k, size)
  BY <1>2 DEF IsCodeRun
<1>3. Text(c) \in Texts
  BY TextRuns
<1>4. PICK trun \in [0 .. K -> Texts] :
        /\ trun[0] = <<>> /\ trun[K] = Text(c)
        /\ \A k \in 1 .. K : trun[k] = trun[k - 1] \o Bytes(c, k)
        /\ \A k \in 1 .. K : Len(trun[k - 1]) + Len(Bytes(c, k)) <= Len(Text(c))
  BY TextRuns
<1>5. before \in Texts
  BY DEF Out
<1>5a. ASSUME NEW o \in Out, ~ o.err, NEW k \in 1 .. K
       PROVE  LET next == AddEntry(o, c, k, size)
              IN /\ next.partial = o.partial
                 /\ ~ next.err => next.text \o next.bytebuf = (o.text \o o.bytebuf) \o Bytes(c, k)
                 /\ Len(o.text \o o.bytebuf) + Len(Bytes(c, k)) <= size => ~ next.err
                 /\ Bytes(c, k) \in Texts
  <2>1. k \in DOMAIN list[c].entries
    BY <1>1
  <2>2. Bytes(c, k) \in Texts
    BY <2>1, EntryTypes
  <2>3. QED
    BY <1>5a, <2>1, <2>2, EntryAdded
<1> HIDE DEF K, p, before
<1> DEFINE Whole(o) == o.text \o o.bytebuf
           Fits == Len(before) + Len(Text(c)) <= size
           Good(k) == /\ run[k].partial = out.partial
                      /\ ~ run[k].err => Whole(run[k]) = before \o trun[k]
                      /\ Fits => ~ run[k].err
           T == {k \in 0 .. K : Good(k)}
<1>6. 0 \in T
  <2>1. before \o <<>> = before
    BY <1>5, TextFacts
  <2>2. Whole(out) = before \o <<>>
    BY DEF before
  <2>3. 0 \in 0 .. K
    BY <1>1
  <2>4. QED
    BY <1>2a, <1>4, <2>2, <2>3
<1>7. ASSUME NEW k \in 1 .. K, k - 1 \in T
      PROVE  k \in T
  <2> DEFINE o == run[k - 1]
             bytes == Bytes(c, k)
  <2>1. k - 1 \in 0 .. K /\ k \in 0 .. K /\ k \in DOMAIN list[c].entries
    BY <1>1
  <2>2. o \in Out /\ run[k] = IF o.err THEN o ELSE AddEntry(o, c, k, size)
    BY <1>2a, <2>1
  <2>3. Good(k - 1)
    BY <1>7
  <2>4. CASE o.err
    BY <2>1, <2>2, <2>3, <2>4
  <2>5. CASE ~ o.err
    <3>1. run[k] = AddEntry(o, c, k, size)
      BY <2>2, <2>5
    <3>2. /\ run[k].partial = o.partial
          /\ ~ run[k].err => Whole(run[k]) = Whole(o) \o bytes
          /\ Len(Whole(o)) + Len(bytes) <= size => ~ run[k].err
          /\ bytes \in Texts
      BY <1>5a, <2>2, <2>5, <3>1
    <3>3. Whole(o) = before \o trun[k - 1]
      BY <2>3, <2>5
    <3>4. trun[k - 1] \in Texts /\ trun[k] = trun[k - 1] \o bytes
      BY <1>4, <2>1
    <3>4a. Len(trun[k - 1]) + Len(bytes) <= Len(Text(c))
      BY <1>4
    <3> DEFINE t == trun[k - 1]
    <3> HIDE DEF Whole, Fits, o, bytes, t
    <3>5. (before \o t) \o bytes = before \o trun[k]
      <4>1. t \in Texts /\ trun[k] = t \o bytes
        BY <3>4 DEF t
      <4>2. (before \o t) \o bytes = before \o (t \o bytes)
        BY <1>5, <3>2, <4>1, TextsJoin
      <4>3. QED
        BY <4>1, <4>2
    <3>6. Fits => Len(Whole(o)) + Len(bytes) <= size
      <4> DEFINE x == Len(before)
                 y == Len(t)
                 z == Len(bytes)
                 l == Len(Text(c))
      <4>1. Len(before \o t) = x + y /\ x \in Nat /\ y \in Nat /\ z \in Nat /\ l \in Nat
        BY <1>3, <1>5, <3>2, <3>4, TextFacts DEF t
      <4>2. y + z <= l
        BY <3>4a DEF t
      <4> HIDE DEF x, y, z, l
      <4>3. x + l <= size => (x + y) + z <= size
        BY <4>1, <4>2
      <4>4. QED
        BY <3>3, <4>1, <4>3 DEF x, z, l, t, Fits
    <3>7. QED
      BY <2>1, <2>3, <2>5, <3>2, <3>3, <3>5, <3>6 DEF t, o
  <2>6. QED
    BY <2>4, <2>5
<1> HIDE DEF T
<1>8. \A k \in 0 .. K : k \in T
  BY <1>1, <1>6, <1>7, UpTo
<1>9. Good(K) /\ run[K] \in Out
  <2>1. K \in 0 .. K
    BY <1>1
  <2>2. K \in T /\ run[K] \in Out
    BY <1>2a, <1>8, <2>1
  <2>3. QED
    BY <2>2 DEF T
<1>10. CASE run[K].err
  BY <1>2a, <1>9, <1>10 DEF p, before
<1>11. CASE ~ run[K].err
  <2>1. p = Flush(run[K])
    BY <1>2a, <1>11
  <2>2. Whole(run[K]) = before \o Text(c)
    BY <1>4, <1>9, <1>11
  <2>3. Whole(run[K]) \in Texts
    BY <1>9, ConcatProperties DEF Out, Texts
  <2>4. <<>> \in Texts
    BY DEF Texts
  <2>5. p \in Out /\ p.text = Whole(run[K]) /\ p.bytebuf = <<>> /\ p.err = FALSE /\ p.partial = run[K].partial
    BY <1>9, <1>11, <2>1, <2>3, <2>4 DEF Flush, Out
  <2>6. QED
    BY <1>9, <2>2, <2>5 DEF p, before
<1>12. QED
  BY <1>10, <1>11

-----------------------------------------------------------------------------
(* A group: its codes, by their indices.                                   *)

\* The codes of a group by their index, 0 where one is missing.
IsGroup(sa, N) == N \in Nat /\ sa \in [0 .. N - 1 -> DOMAIN list \union {0}]

LEMMA MembersShape ==
  ASSUME list \in Seq(Code), NEW i \in DOMAIN list
  PROVE  \E N : IsGroup(Members(i), N)
<1>1. CASE list[i].sa_size = 0
  <2>1. Members(i) = [n \in 0 .. 0 |-> i]
    BY <1>1 DEF Members
  <2>2. IsGroup(Members(i), 1)
    BY <2>1 DEF IsGroup
  <2>3. QED
    BY <2>2
<1>2. CASE list[i].sa_size # 0
  <2> DEFINE N == list[i].sa_size
  <2>1. Members(i) = Group(i) /\ N \in Nat
    <3>1. N \in 0 .. 16
      BY ListTypes
    <3>2. QED
      BY <1>2, <3>1 DEF Members
  <2>2. \A n \in 0 .. N - 1 : Group(i)[n] # 0 => Group(i)[n] \in DOMAIN list
    BY GroupAt
  <2>3. Group(i) \in [0 .. N - 1 -> DOMAIN list \union {0}]
    <3>1. Group(i) = [n \in 0 .. N - 1 |-> Group(i)[n]]
      BY DEF Group
    <3> HIDE DEF N
    <3>2. QED
      BY <2>2, <3>1
  <2>4. IsGroup(Members(i), N)
    BY <2>1, <2>3 DEF IsGroup
  <2>5. QED
    BY <2>4
<1>3. QED
  BY <1>1, <1>2

LEMMA GroupFacts ==
  ASSUME list \in Seq(Code), NEW sa, NEW N, IsGroup(sa, N)
  PROVE  /\ N \in Nat /\ DOMAIN sa = 0 .. N - 1 /\ Cardinality(DOMAIN sa) = N
         /\ \A n \in 1 .. N : n - 1 \in 0 .. N - 1 /\ (sa[n - 1] # 0 => sa[n - 1] \in DOMAIN list)
<1>1. N \in Nat /\ DOMAIN sa = 0 .. N - 1
  BY DEF IsGroup
<1>2. Cardinality(0 .. N - 1) = N
  <2>1. Cardinality(0 .. N - 1) = IF 0 > N - 1 THEN 0 ELSE (N - 1) - 0 + 1
    BY <1>1, FS_Interval
  <2>2. QED
    BY <1>1, <2>1
<1>3. ASSUME NEW n \in 1 .. N
      PROVE  n - 1 \in 0 .. N - 1 /\ (sa[n - 1] # 0 => sa[n - 1] \in DOMAIN list)
  <2>1. n - 1 \in 0 .. N - 1
    BY <1>1
  <2>2. sa[n - 1] \in DOMAIN list \union {0}
    BY <2>1 DEF IsGroup
  <2>3. QED
    BY <2>1, <2>2
<1>4. QED
  BY <1>1, <1>2, <1>3

(* The buffer has three bytes more than the text for each byte in it that  *)
(* is not a digit.                                                         *)
LEMMA CapacityIs ==
  ASSUME list \in Seq(Code), NEW c \in DOMAIN list
  PROVE  /\ Capacity(c) \in Nat /\ InBytes(c) \in Nat /\ Len(Text(c)) \in Nat
         /\ Capacity(c) = Len(Text(c)) + 3 * InBytes(c)
<1> DEFINE K == Len(list[c].entries)
           cap == [k \in DOMAIN list[c].entries |-> Shift(list[c].entries[k]) * list[c].entries[k].len]
           inb == [k \in DOMAIN list[c].entries |->
                     IF list[c].entries[k].mode \in {"BYTE", "KANJI"} THEN list[c].entries[k].len ELSE 0]
<1>1. K \in Nat /\ DOMAIN list[c].entries = 1 .. K
  BY ListTypes
<1>2. ASSUME NEW k \in 1 .. K
      PROVE  /\ cap[k] \in Nat /\ inb[k] \in Nat /\ Bytes(c, k) \in Texts
             /\ Len(Bytes(c, k)) \in Nat /\ cap[k] = Len(Bytes(c, k)) + 3 * inb[k]
  <2>1. k \in DOMAIN list[c].entries
    BY <1>1
  <2> DEFINE e == list[c].entries[k]
             len == e.len
  <2>2. /\ len \in Nat /\ Bytes(c, k) \in Texts /\ Len(Bytes(c, k)) = len
    BY <2>1, EntryTypes
  <2>3. cap[k] = Shift(e) * len /\ inb[k] = IF e.mode \in {"BYTE", "KANJI"} THEN len ELSE 0
    BY <2>1
  <2>4. Shift(e) = IF e.mode \in {"BYTE", "KANJI"} THEN 4 ELSE 1
    BY DEF Shift
  <2> HIDE DEF e, len, cap, inb
  <2>5. QED
    BY <2>2, <2>3, <2>4
<1>3. Capacity(c) = Sum(cap) /\ InBytes(c) = Sum(inb)
  BY DEF Capacity, InBytes
<1>4. cap \in [1 .. K -> Nat] /\ inb \in [1 .. K -> Nat]
  BY <1>1, <1>2
<1> HIDE DEF cap, inb, K
<1>5. PICK crun : IsTally(K, cap, crun)
  BY <1>1, <1>4, SumRuns
<1>6. PICK brun : IsTally(K, inb, brun)
  BY <1>1, <1>4, SumRuns
<1>7. PICK trun \in [0 .. K -> Texts] :
        /\ trun[0] = <<>> /\ trun[K] = Text(c)
        /\ \A k \in 1 .. K : trun[k] = trun[k - 1] \o Bytes(c, k)
  BY TextRuns DEF K
<1> DEFINE Good(k) == crun[k] = Len(trun[k]) + 3 * brun[k]
           T == {k \in 0 .. K : Good(k)}
<1>8. 0 \in T
  <2>1. crun[0] = 0 /\ brun[0] = 0 /\ Len(trun[0]) = 0 /\ 0 \in 0 .. K
    BY <1>1, <1>5, <1>6, <1>7 DEF IsTally
  <2>2. QED
    BY <2>1
<1>9. ASSUME NEW k \in 1 .. K, k - 1 \in T
      PROVE  k \in T
  <2>1. k - 1 \in 0 .. K /\ k \in 0 .. K
    BY <1>1
  <2>2. /\ crun[k] = crun[k - 1] + cap[k] /\ brun[k] = brun[k - 1] + inb[k]
        /\ crun[k - 1] \in Nat /\ brun[k - 1] \in Nat
    BY <1>5, <1>6, <2>1 DEF IsTally
  <2>3. trun[k] = trun[k - 1] \o Bytes(c, k) /\ trun[k - 1] \in Texts /\ Bytes(c, k) \in Texts
    BY <1>2, <1>7, <2>1
  <2>4. Len(trun[k]) = Len(trun[k - 1]) + Len(Bytes(c, k)) /\ Len(trun[k - 1]) \in Nat
    BY <2>3, TextFacts
  <2>5. crun[k - 1] = Len(trun[k - 1]) + 3 * brun[k - 1]
    BY <1>9
  <2> DEFINE t == Len(trun[k - 1])
             b == Len(Bytes(c, k))
             s == Len(trun[k])
  <2>6. /\ s = t + b /\ t \in Nat /\ crun[k - 1] = t + 3 * brun[k - 1]
        /\ cap[k] \in Nat /\ inb[k] \in Nat /\ b \in Nat /\ cap[k] = b + 3 * inb[k]
    BY <1>2, <2>4, <2>5
  <2> HIDE DEF t, b, s, T, Good
  <2>7. crun[k] = s + 3 * brun[k]
    <3>1. \A x, y, z, w \in Nat : (x + 3 * z) + (y + 3 * w) = (x + y) + 3 * (z + w)
      OBVIOUS
    <3> DEFINE q == brun[k - 1]
               i == inb[k]
    <3>2. q \in Nat /\ i \in Nat /\ t \in Nat /\ b \in Nat
      BY <2>2, <2>6
    <3>3. crun[k] = (t + 3 * q) + (b + 3 * i) /\ brun[k] = q + i
      BY <2>2, <2>6
    <3> HIDE DEF q, i
    <3>4. QED
      BY <2>6, <3>1, <3>2, <3>3
  <2>8. QED
    BY <2>1, <2>7 DEF s, T, Good
<1> HIDE DEF T
<1>10. K \in T
  <2>1. \A k \in 0 .. K : k \in T
    BY <1>1, <1>8, <1>9, UpTo
  <2>2. QED
    BY <1>1, <2>1
<1>11. crun[K] = Sum(cap) /\ brun[K] = Sum(inb) /\ crun[K] \in Nat /\ brun[K] \in Nat
  <2>1. K \in 0 .. K
    BY <1>1
  <2>2. QED
    BY <1>5, <1>6, <2>1 DEF IsTally
<1>12. Good(K)
  BY <1>10 DEF T
<1>13. Len(Text(c)) \in Nat
  BY TextRuns, TextFacts
<1>14. QED
  BY <1>3, <1>7, <1>11, <1>12, <1>13

\* Between two codes no bytes wait.
Between == {o \in Out : ~ o.err => o.bytebuf = <<>>}
Nothing == [text |-> <<>>, bytebuf |-> <<>>, err |-> FALSE, partial |-> FALSE]

LEMMA BufferSize ==
  ASSUME list \in Seq(Code), NEW sa, NEW N, IsGroup(sa, N)
  PROVE  sa_ctext(sa) \in Nat
<1> DEFINE seq == [n \in 1 .. Cardinality(DOMAIN sa) |-> IF sa[n - 1] = 0 THEN 0 ELSE Capacity(sa[n - 1])]
<1>1. /\ N \in Nat /\ Cardinality(DOMAIN sa) = N
      /\ \A n \in 1 .. N : sa[n - 1] # 0 => sa[n - 1] \in DOMAIN list
  BY GroupFacts
<1>2. seq \in [1 .. N -> Nat]
  BY <1>1, CapacityIs
<1>3. sa_ctext(sa) = Sum(seq)
  BY DEF sa_ctext
<1> HIDE DEF seq
<1>4. PICK run : IsTally(N, seq, run)
  BY <1>1, <1>2, SumRuns
<1>5. N \in 0 .. N
  BY <1>1
<1>6. QED
  BY <1>3, <1>4, <1>5 DEF IsTally

LEMMA MemberAdded ==
  ASSUME list \in Seq(Code), NEW sa, NEW N, IsGroup(sa, N), NEW size \in Nat,
         NEW o \in Between, NEW n \in 1 .. N
  PROVE  AddMember(o, sa, n - 1, size) \in Between
<1> DEFINE c == sa[n - 1]
           last == \A k \in DOMAIN sa : k >= n - 1 => sa[k] = 0
           p == AddMember(o, sa, n - 1, size)
<1>1. c # 0 => c \in DOMAIN list
  BY GroupFacts
<1>2. p = o \/ (~ o.err /\ c = 0 /\ p = AddGap(o, last)) \/ (~ o.err /\ c # 0 /\ p = AddCode(o, c, size))
  BY DEF AddMember
<1> HIDE DEF c, p, last
<1>3. CASE ~ o.err /\ c = 0 /\ p = AddGap(o, last)
  <2>1. Append(o.text, NUL) \in Texts
    <3>1. o.text \in Seq(Place) /\ NUL \in Place
      BY DEF Between, Out, Texts, NUL, Place
    <3>2. QED
      BY <3>1, AppendProperties DEF Texts
  <2>2. QED
    BY <1>3, <2>1 DEF AddGap, Between, Out, p
<1>4. CASE ~ o.err /\ c # 0 /\ p = AddCode(o, c, size)
  <2>1. o \in Out /\ o.bytebuf = <<>> /\ c \in DOMAIN list
    BY <1>1, <1>4 DEF Between
  <2>2. p \in Out /\ (~ p.err => p.bytebuf = <<>>)
    BY <1>4, <2>1, CodeAdded
  <2>3. QED
    BY <2>2 DEF Between, p
<1>5. QED
  BY <1>2, <1>3, <1>4 DEF p

\* run[n] is what the first n members of a group become.
IsConversion(sa, N, run) ==
  /\ run \in [0 .. N -> Between] /\ run[0] = Nothing /\ Convert(sa) = run[N]
  /\ \A n \in 1 .. N : run[n] = AddMember(run[n - 1], sa, n - 1, sa_ctext(sa))

LEMMA ConvertRuns ==
  ASSUME list \in Seq(Code), NEW sa, NEW N, IsGroup(sa, N)
  PROVE  \E run : IsConversion(sa, N, run)
<1> DEFINE size == sa_ctext(sa)
           Then(o, n) == AddMember(o, sa, n - 1, size)
           seq == [n \in 1 .. Cardinality(DOMAIN sa) |-> n]
           Fold(f) == f = [s \in SUBSET (DOMAIN seq) |->
                            IF s = {} THEN Nothing ELSE Then(f[s \ {Max(s)}], seq[Max(s)])]
<1>1. N \in Nat /\ Cardinality(DOMAIN sa) = N
  BY GroupFacts
<1>2. DOMAIN seq = 1 .. N /\ \A n \in 1 .. N : seq[n] = n
  BY <1>1
<1>3. \A o \in Between, n \in 1 .. N : Then(o, n) \in Between
  BY BufferSize, MemberAdded
<1>3a. Nothing \in Between
  BY DEF Between, Out, Nothing, Texts
<1>4. Convert(sa) = (CHOOSE f : Fold(f))[DOMAIN seq]
  BY DEF Convert, FoldLeft, MapThenFoldSet, Nothing
<1> HIDE DEF Then, seq
<1>5. PICK step \in [Between \X (1 .. N) -> Between] :
        \A o \in Between, n \in 1 .. N : step[<<o, n>>] = Then(o, n)
  <2> DEFINE step == [p \in Between \X (1 .. N) |-> Then(p[1], p[2])]
  <2>1. /\ step \in [Between \X (1 .. N) -> Between]
        /\ \A o \in Between, n \in 1 .. N : step[<<o, n>>] = Then(o, n)
    BY <1>3
  <2>2. QED
    BY <2>1, Zenon
<1>6. \E g : Fold(g)
  <2>1. PICK g : IsFold(N, Between, Nothing, step, g)
    BY <1>1, <1>3a, FoldDefined
  <2>2. ASSUME NEW s \in SUBSET (1 .. N), s # {}
        PROVE  g[s] = Then(g[s \ {Max(s)}], seq[Max(s)])
    <3>1. Max(s) \in 1 .. N /\ s \ {Max(s)} \in SUBSET (1 .. N)
      BY <1>1, <2>2, MaxIn
    <3>2. g[s \ {Max(s)}] \in Between /\ g[s] = step[<<g[s \ {Max(s)}], Max(s)>>]
      BY <2>1, <2>2, <3>1 DEF IsFold
    <3>3. QED
      BY <1>2, <1>5, <3>1, <3>2
  <2>3. g = [s \in SUBSET (1 .. N) |-> g[s]] /\ g[{}] = Nothing
    BY <2>1 DEF IsFold
  <2>4. Fold(g)
    BY <1>2, <2>2, <2>3
  <2>5. QED
    BY <2>4
<1>7. PICK f : Fold(f) /\ Convert(sa) = f[1 .. N]
  BY <1>2, <1>4, <1>6
<1>7a. \A s \in SUBSET (1 .. N) : f[s] = IF s = {} THEN Nothing ELSE Then(f[s \ {Max(s)}], seq[Max(s)])
  BY <1>2, <1>7
<1> HIDE DEF Fold
<1>8. ASSUME NEW n \in 1 .. N, f[1 .. n - 1] \in Between
      PROVE  f[1 .. n] = step[<<f[1 .. n - 1], n>>]
  <2>1. /\ 1 .. n \in SUBSET (1 .. N) /\ n \in Nat \ {0}
    BY <1>1
  <2>2. 1 .. n # {} /\ Max(1 .. n) = n /\ (1 .. n) \ {n} = 1 .. n - 1
    BY <2>1, MaxUpTo
  <2>3. f[1 .. n] = Then(f[1 .. n - 1], n)
    BY <1>2, <1>7a, <2>1, <2>2
  <2>4. QED
    BY <1>5, <1>8, <2>3
<1>9. Stepwise(N, Between, Nothing, step, f)
  <2>1. f[{}] = Nothing
    BY <1>7a
  <2>2. QED
    BY <1>8, <2>1 DEF Stepwise
<1>10. PICK run : IsRun(N, Between, Nothing, step, f, run)
  BY <1>1, <1>3a, <1>9, FoldRuns
<1>11. ASSUME NEW n \in 1 .. N
       PROVE  run[n] = Then(run[n - 1], n)
  <2>1. n - 1 \in 0 .. N
    BY <1>1
  <2>2. run[n] = step[<<run[n - 1], n>>] /\ run[n - 1] \in Between
    BY <1>10, <2>1 DEF IsRun
  <2>3. QED
    BY <1>5, <2>2
<1>12. run \in [0 .. N -> Between] /\ run[0] = Nothing /\ Convert(sa) = run[N]
  BY <1>7, <1>10 DEF IsRun
<1>13. QED
  BY <1>11, <1>12 DEF IsConversion, Then

-----------------------------------------------------------------------------
\* What a member adds to the text that is asked for.
Piece(sa, k) ==
  IF sa[k - 1] = 0 THEN <<>>
  ELSE (IF k > 1 /\ sa[k - 2] = 0 THEN <<NUL>> ELSE <<>>) \o Text(sa[k - 1])

IsText(sa, N, run) ==
  /\ run \in [0 .. N -> Texts] /\ run[0] = <<>> /\ run[N] = Joined(sa)
  /\ \A n \in 1 .. N : Piece(sa, n) \in Texts /\ run[n] = run[n - 1] \o Piece(sa, n)
  /\ \A n \in 1 .. N : Len(run[n]) <= Len(Joined(sa))

LEMMA JoinedRuns ==
  ASSUME list \in Seq(Code), NEW sa, NEW N, IsGroup(sa, N)
  PROVE  \E run : IsText(sa, N, run)
<1> DEFINE seqs == [k \in 1 .. Cardinality(DOMAIN sa) |-> Piece(sa, k)]
<1>1. /\ N \in Nat /\ Cardinality(DOMAIN sa) = N
      /\ \A n \in 1 .. N : sa[n - 1] # 0 => sa[n - 1] \in DOMAIN list
  BY GroupFacts
<1>2. <<NUL>> \in Texts /\ <<>> \in Texts
  BY DEF Texts, NUL, Place
<1>3. ASSUME NEW n \in 1 .. N
      PROVE  Piece(sa, n) \in Texts
  <2>1. CASE sa[n - 1] = 0
    BY <1>2, <2>1 DEF Piece
  <2>2. CASE sa[n - 1] # 0
    <3> DEFINE gap == IF n > 1 /\ sa[n - 2] = 0 THEN <<NUL>> ELSE <<>>
               t == Text(sa[n - 1])
    <3>1. Piece(sa, n) = gap \o t
      BY <2>2 DEF Piece
    <3>2. gap \in Texts /\ t \in Texts
      BY <1>1, <1>2, <2>2, TextRuns
    <3> HIDE DEF gap, t
    <3>3. QED
      BY <3>1, <3>2, TextFacts
  <2>3. QED
    BY <2>1, <2>2
<1>4. Joined(sa) = FlattenSeq(seqs)
  BY DEF Joined, Piece
<1>5. seqs \in [1 .. N -> Seq(Place)] /\ \A n \in 1 .. N : seqs[n] = Piece(sa, n)
  BY <1>1, <1>3 DEF Texts
<1> HIDE DEF seqs
<1>6. PICK run : IsJoin(N, Place, seqs, run)
  BY <1>1, <1>5, FlattenRuns
<1>7. \A n \in 1 .. N : Len(run[n - 1]) + Len(seqs[n]) <= Len(run[N])
  BY <1>1, <1>5, <1>6, TextGrows DEF IsJoin
<1>8. ASSUME NEW n \in 1 .. N
      PROVE  /\ Piece(sa, n) \in Texts /\ run[n] = run[n - 1] \o Piece(sa, n)
             /\ Len(run[n]) <= Len(Joined(sa))
  <2>1. n - 1 \in 0 .. N
    BY <1>1
  <2>2. Piece(sa, n) \in Texts /\ run[n - 1] \in Texts /\ run[n] = run[n - 1] \o Piece(sa, n)
    BY <1>3, <1>5, <1>6, <2>1 DEF IsJoin, Texts
  <2>3. Len(run[n]) = Len(run[n - 1]) + Len(Piece(sa, n))
    BY <2>2, TextFacts
  <2>4. run[N] = Joined(sa)
    BY <1>4, <1>6 DEF IsJoin
  <2>5. QED
    BY <1>5, <1>7, <2>2, <2>3, <2>4
<1>9. run \in [0 .. N -> Texts] /\ run[0] = <<>> /\ run[N] = Joined(sa)
  BY <1>4, <1>6 DEF IsJoin, Texts
<1>10. QED
  BY <1>8, <1>9 DEF IsText

(* What is put together is what is asked for, unless it did not fit.       *)
LEMMA ConvertJoins ==
  ASSUME list \in Seq(Code), NEW sa, NEW N, IsGroup(sa, N)
  PROVE  LET out == Convert(sa)
         IN /\ ~ out.err => /\ out.text = Joined(sa)
                            /\ out.partial <=> \E n \in DOMAIN sa : sa[n] = 0
            /\ Len(Joined(sa)) <= sa_ctext(sa) => ~ out.err
<1> DEFINE size == sa_ctext(sa)
           Fits == Len(Joined(sa)) <= size
<1>1. /\ N \in Nat /\ DOMAIN sa = 0 .. N - 1
      /\ \A n \in 1 .. N : n - 1 \in 0 .. N - 1 /\ (sa[n - 1] # 0 => sa[n - 1] \in DOMAIN list)
  BY GroupFacts
<1>2. size \in Nat
  BY BufferSize
<1>3. PICK run : IsConversion(sa, N, run)
  BY ConvertRuns
<1>4. PICK text : IsText(sa, N, text)
  BY JoinedRuns
<1> HIDE DEF size, Fits
\* The mark for missing codes comes at once, if a code follows.
<1> DEFINE Gap(n) == n > 0 /\ sa[n - 1] = 0
           Follows(n) == \E m \in n .. N - 1 : sa[m] # 0
           Mark(n) == IF Gap(n) /\ Follows(n) THEN <<NUL>> ELSE <<>>
           Misses(n) == \E m \in 0 .. n - 1 : sa[m] = 0
           Good(n) == /\ ~ run[n].err => /\ run[n].text = text[n] \o Mark(n)
                                         /\ run[n].partial <=> Misses(n)
                      /\ Fits => ~ run[n].err
           T == {n \in 0 .. N : Good(n)}
<1>5. 0 \in T
  <2>1. run[0] = Nothing /\ text[0] = <<>>
    BY <1>3, <1>4 DEF IsConversion, IsText
  <2>2. ~ Gap(0) /\ ~ Misses(0)
    OBVIOUS
  <2>3. Mark(0) = <<>>
    BY <2>2
  <2>4. <<>> \o <<>> = <<>>
    BY TextFacts DEF Texts
  <2> HIDE DEF Mark, Misses
  <2>5. Good(0) /\ 0 \in 0 .. N
    BY <1>1, <2>1, <2>2, <2>3, <2>4 DEF Nothing
  <2>6. QED
    BY <2>5
<1>6. ASSUME NEW n \in 1 .. N, n - 1 \in T
      PROVE  n \in T
  <2> DEFINE o == run[n - 1]
             c == sa[n - 1]
             last == \A k \in DOMAIN sa : k >= n - 1 => sa[k] = 0
             t == text[n - 1]
  <2>1. n - 1 \in 0 .. N /\ n \in 0 .. N /\ n \in Nat /\ n - 1 \in Nat /\ n - 1 \in DOMAIN sa /\ n - 1 \in 0 .. N - 1
    BY <1>1
  <2>2. /\ o \in Between /\ o \in Out /\ (~ o.err => o.bytebuf = <<>>)
        /\ run[n] = AddMember(o, sa, n - 1, size)
    BY <1>3, <2>1 DEF IsConversion, size, Between
  <2>3. Good(n - 1)
    BY <1>6
  <2>4. /\ t \in Texts /\ Piece(sa, n) \in Texts /\ text[n] = t \o Piece(sa, n)
        /\ Len(text[n]) <= Len(Joined(sa)) /\ text[n] \in Texts
    BY <1>4, <2>1 DEF IsText
  <2>5. /\ Gap(n) <=> c = 0
        /\ Follows(n - 1) <=> c # 0 \/ Follows(n)
        /\ Misses(n) <=> c = 0 \/ Misses(n - 1)
        /\ Gap(n - 1) => Misses(n - 1)
        /\ last <=> c = 0 /\ ~ Follows(n)
    <3>1. n - 1 .. N - 1 = {n - 1} \union n .. N - 1
      BY <1>1, <2>1
    <3>2. 0 .. n - 1 = {n - 1} \union 0 .. n - 1 - 1
      BY <2>1
    <3>3. Gap(n) <=> c = 0
      BY <2>1
    <3>4. Follows(n - 1) <=> c # 0 \/ Follows(n)
      BY <3>1
    <3>5. Misses(n) <=> c = 0 \/ Misses(n - 1)
      BY <3>2
    <3>6. Gap(n - 1) => Misses(n - 1)
      BY <2>1
    <3>7. last <=> ~ Follows(n - 1)
      BY <1>1, <2>1
    <3>8. QED
      BY <3>3, <3>4, <3>5, <3>6, <3>7
  <2>6. Piece(sa, n) = IF c = 0 THEN <<>> ELSE (IF Gap(n - 1) THEN <<NUL>> ELSE <<>>) \o Text(c)
    <3>1. n > 1 <=> n - 1 > 0
      BY <2>1
    <3>2. n - 2 = n - 1 - 1
      BY <2>1
    <3>3. QED
      BY <3>1, <3>2 DEF Piece
  <2>7. run[n] = IF o.err \/ (Gap(n - 1) /\ c = 0) THEN o
                 ELSE IF c = 0 THEN AddGap(o, last)
                 ELSE AddCode(o, c, size)
    BY <2>2 DEF AddMember
  <2>8. <<NUL>> \in Texts /\ <<>> \in Texts
    BY DEF Texts, NUL, Place
  <2>9. CASE o.err
    BY <2>1, <2>3, <2>7, <2>9
  <2> HIDE DEF Follows, Gap, Misses, o, c, last, t
  <2>10. CASE ~ o.err /\ c = 0
    <3>1. text[n] = t
      BY <2>4, <2>6, <2>10, TextFacts
    <3>2. o.text = t \o Mark(n - 1) /\ (o.partial <=> Misses(n - 1))
      BY <2>3, <2>10 DEF o, t
    <3>3. CASE Gap(n - 1)
      <4>1. run[n] = o /\ Mark(n) = Mark(n - 1) /\ Misses(n) /\ Misses(n - 1)
        BY <2>5, <2>7, <2>10, <3>3
      <4> HIDE DEF Mark
      <4>2. Good(n)
        BY <2>3, <2>10, <3>1, <3>2, <4>1
      <4>3. QED
        BY <2>1, <4>2
    <3>4. CASE ~ Gap(n - 1)
      <4>1. run[n] = AddGap(o, last) /\ Mark(n - 1) = <<>> /\ Misses(n)
        BY <2>5, <2>7, <2>10, <3>4
      <4>2. o.text = t
        BY <2>4, <3>2, <4>1, TextFacts
      <4>3. Mark(n) = IF last THEN <<>> ELSE <<NUL>>
        BY <2>5, <2>10
      <4>4. Append(t, NUL) = t \o <<NUL>>
        <5>1. t \in Seq(Place) /\ NUL \in Place
          BY <2>4 DEF Texts, NUL, Place
        <5>2. QED
          BY <5>1, AppendIsConcat
      <4>5. t \o <<>> = t
        BY <2>4, TextFacts
      <4> HIDE DEF Mark
      <4>6. run[n].text = text[n] \o Mark(n) /\ run[n].partial /\ run[n].err = o.err
        BY <2>2, <3>1, <4>1, <4>2, <4>3, <4>4, <4>5 DEF AddGap, Out
      <4>7. Good(n)
        BY <2>10, <4>1, <4>6
      <4>8. QED
        BY <2>1, <4>7
    <3>5. QED
      BY <3>3, <3>4
  <2>11. CASE ~ o.err /\ c # 0
    <3>1. c \in DOMAIN list /\ Text(c) \in Texts
      BY <1>1, <2>11, TextRuns DEF c
    <3>2. o.text = t \o Mark(n - 1) /\ (o.partial <=> Misses(n - 1))
      BY <2>3, <2>11 DEF o, t
    <3>3. Mark(n - 1) = (IF Gap(n - 1) THEN <<NUL>> ELSE <<>>) /\ Mark(n) = <<>>
      BY <2>5, <2>11
    <3>3a. Mark(n - 1) \in Texts
      BY <2>8, <3>3
    <3> HIDE DEF Mark
    <3>4. text[n] = o.text \o Text(c)
      <4> DEFINE m == Mark(n - 1)
                 x == Text(c)
      <4>1. text[n] = t \o (m \o x)
        BY <2>4, <2>6, <2>11, <3>3
      <4>2. m \in Texts /\ x \in Texts
        BY <3>1, <3>3a
      <4> HIDE DEF m, x
      <4>3. (t \o m) \o x = t \o (m \o x)
        BY <2>4, <4>2, TextsJoin
      <4>4. QED
        BY <3>2, <4>1, <4>3 DEF m, x
    <3>5. /\ run[n].partial = o.partial
          /\ ~ run[n].err => run[n].text = o.text \o Text(c)
          /\ Len(o.text) + Len(Text(c)) <= size => ~ run[n].err
      <4>1. run[n] = AddCode(o, c, size)
        BY <2>7, <2>11
      <4>2. o \in Out /\ o.bytebuf = <<>> /\ ~ o.err
        BY <2>2, <2>11
      <4>3. QED
        BY <1>2, <3>1, <4>1, <4>2, CodeAdded
    <3>6. Fits => Len(o.text) + Len(Text(c)) <= size
      <4>1. o.text \in Texts
        BY <2>2 DEF Out
      <4>2. Len(text[n]) = Len(o.text) + Len(Text(c)) /\ Len(text[n]) \in Nat
        BY <2>4, <3>1, <3>4, <4>1, TextFacts
      <4>3. Joined(sa) \in Texts
        <5>1. N \in 0 .. N
          BY <1>1
        <5>2. QED
          BY <1>4, <5>1 DEF IsText
      <4>4. Len(Joined(sa)) \in Nat
        BY <4>3, TextFacts
      <4> DEFINE x == Len(text[n])
                 z == Len(Joined(sa))
      <4>5. x \in Nat /\ z \in Nat /\ x <= z
        BY <2>4, <4>2, <4>4
      <4> HIDE DEF x, z
      <4>6. z <= size => x <= size
        BY <1>2, <4>5
      <4>7. QED
        BY <4>2, <4>6 DEF x, z, Fits
    <3>7. text[n] \o Mark(n) = text[n]
      BY <2>4, <3>3, TextFacts
    <3>8. Misses(n) <=> Misses(n - 1)
      BY <2>5, <2>11
    <3>9. Good(n)
      BY <3>2, <3>4, <3>5, <3>6, <3>7, <3>8
    <3>10. QED
      BY <2>1, <3>9
  <2>12. QED
    BY <2>9, <2>10, <2>11
<1>7. Good(N)
  <2> HIDE DEF T
  <2>1. \A n \in 0 .. N : n \in T
    BY <1>1, <1>5, <1>6, UpTo
  <2>2. N \in T
    BY <1>1, <2>1
  <2>3. QED
    BY <2>2 DEF T
<1>8. Mark(N) = <<>> /\ (Misses(N) <=> \E n \in DOMAIN sa : sa[n] = 0)
  <2>1. ~ Follows(N)
    BY <1>1
  <2>2. QED
    BY <1>1, <2>1
<1>9. text[N] = Joined(sa) /\ text[N] \in Texts /\ Convert(sa) = run[N]
  <2>1. N \in 0 .. N
    BY <1>1
  <2>2. QED
    BY <1>3, <1>4, <2>1 DEF IsText, IsConversion
<1>10. text[N] \o <<>> = text[N]
  BY <1>9, TextFacts
<1> HIDE DEF Mark, Misses
<1>11. QED
  BY <1>7, <1>8, <1>9, <1>10 DEF Fits, size

(* The text that is asked for is as long as those of the codes and the     *)
(* marks.                                                                  *)
LEMMA RoomForMarks ==
  ASSUME list \in Seq(Code), NEW sa, NEW N, IsGroup(sa, N)
  PROVE  /\ sa_ctext(sa) + Cardinality(Marks(sa)) = Len(Joined(sa)) + Spare(sa)
         /\ Cardinality(Marks(sa)) \in Nat /\ Spare(sa) \in Nat /\ Len(Joined(sa)) \in Nat
<1> DEFINE cap == [n \in 1 .. Cardinality(DOMAIN sa) |-> IF sa[n - 1] = 0 THEN 0 ELSE Capacity(sa[n - 1])]
           inb == [n \in 1 .. Cardinality(DOMAIN sa) |-> IF sa[n - 1] = 0 THEN 0 ELSE InBytes(sa[n - 1])]
           Before(n) == {m \in Marks(sa) : m < n}
           marks(n) == Cardinality(Before(n))
<1>1. /\ N \in Nat /\ DOMAIN sa = 0 .. N - 1 /\ Cardinality(DOMAIN sa) = N
      /\ \A n \in 1 .. N : n - 1 \in 0 .. N - 1 /\ (sa[n - 1] # 0 => sa[n - 1] \in DOMAIN list)
  BY GroupFacts
<1>2. cap \in [1 .. N -> Nat] /\ inb \in [1 .. N -> Nat]
  BY <1>1, CapacityIs
<1>3. sa_ctext(sa) = Sum(cap) /\ Spare(sa) = 3 * Sum(inb)
  BY DEF sa_ctext, Spare
<1>4. \A n \in 1 .. N : /\ cap[n] = IF sa[n - 1] = 0 THEN 0 ELSE Capacity(sa[n - 1])
                        /\ inb[n] = IF sa[n - 1] = 0 THEN 0 ELSE InBytes(sa[n - 1])
  BY <1>1
<1> HIDE DEF cap, inb
<1>5. PICK crun : IsTally(N, cap, crun)
  BY <1>1, <1>2, SumRuns
<1>6. PICK brun : IsTally(N, inb, brun)
  BY <1>1, <1>2, SumRuns
<1>7. PICK text : IsText(sa, N, text)
  BY JoinedRuns
<1>8. IsFiniteSet(Marks(sa)) /\ \A n : IsFiniteSet(Before(n)) /\ marks(n) \in Nat
  <2>1. IsFiniteSet(0 .. N - 1)
    BY <1>1, FS_Interval
  <2>2. Marks(sa) \in SUBSET (0 .. N - 1)
    BY <1>1 DEF Marks
  <2>3. IsFiniteSet(Marks(sa))
    BY <2>1, <2>2, FS_Subset
  <2>4. \A n : Before(n) \in SUBSET Marks(sa)
    OBVIOUS
  <2>5. \A n : IsFiniteSet(Before(n))
    BY <2>3, <2>4, FS_Subset
  <2>6. \A n : marks(n) \in Nat
    BY <2>5, FS_CardinalityType
  <2>7. QED
    BY <2>3, <2>5, <2>6
<1> DEFINE Good(n) == crun[n] + marks(n) = Len(text[n]) + 3 * brun[n]
           T == {n \in 0 .. N : Good(n)}
<1>9. 0 \in T
  <2>1. Before(0) = {}
    BY <1>1 DEF Marks
  <2>2. marks(0) = 0
    BY <2>1, FS_EmptySet
  <2>3. crun[0] = 0 /\ brun[0] = 0 /\ Len(text[0]) = 0 /\ 0 \in 0 .. N
    BY <1>1, <1>5, <1>6, <1>7 DEF IsTally, IsText
  <2> HIDE DEF marks
  <2>4. QED
    BY <2>2, <2>3
<1>10. ASSUME NEW n \in 1 .. N, n - 1 \in T
       PROVE  n \in T
  <2> DEFINE c == sa[n - 1]
             marked == c # 0 /\ n > 1 /\ sa[n - 2] = 0
             t == Len(text[n - 1])
             q == brun[n - 1]
             r == crun[n - 1]
             x == IF c = 0 THEN 0 ELSE Len(Text(c))
             w == IF c = 0 THEN 0 ELSE InBytes(c)
             g == IF marked THEN 1 ELSE 0
             k == marks(n - 1)
  <2>1. n - 1 \in 0 .. N /\ n \in 0 .. N /\ n - 1 \in 0 .. N - 1 /\ n - 2 = n - 1 - 1 /\ (n > 1 <=> n - 1 > 0) /\ n - 1 \in Nat
    BY <1>1
  <2>2. c # 0 => /\ Capacity(c) = Len(Text(c)) + 3 * InBytes(c)
                 /\ Capacity(c) \in Nat /\ InBytes(c) \in Nat /\ Len(Text(c)) \in Nat
                 /\ Text(c) \in Texts
    BY <1>1, CapacityIs, TextRuns
  <2>3. marks(n) = k + g
    <3>1. n - 1 \in Marks(sa) <=> marked
      BY <1>1, <2>1 DEF Marks
    <3>2. \A m \in Marks(sa) : m \in Nat
      BY <1>1 DEF Marks
    <3>3. CASE marked
      <4>1. Before(n) = Before(n - 1) \union {n - 1} /\ n - 1 \notin Before(n - 1)
        BY <2>1, <3>1, <3>2, <3>3
      <4>2. IsFiniteSet(Before(n - 1))
        BY <1>8
      <4> HIDE DEF Before, marked
      <4>3. QED
        BY <3>3, <4>1, <4>2, FS_AddElement
    <3>4. CASE ~ marked
      <4>1. Before(n) = Before(n - 1)
        BY <2>1, <3>1, <3>2, <3>4
      <4>2. marks(n - 1) \in Nat
        BY <1>8
      <4> HIDE DEF Before, marked
      <4>3. QED
        BY <3>4, <4>1, <4>2
    <3>5. QED
      BY <3>3, <3>4
  <2>4. Len(text[n]) = t + (g + x) /\ t \in Nat
    <3>1. text[n - 1] \in Texts /\ Piece(sa, n) \in Texts /\ text[n] = text[n - 1] \o Piece(sa, n)
      BY <1>7, <2>1 DEF IsText
    <3>2. Len(Piece(sa, n)) = g + x
      <4>1. Len(<<>>) = 0 /\ Len(<<NUL>>) = 1 /\ <<>> \in Texts /\ <<NUL>> \in Texts
        BY DEF Texts, NUL, Place
      <4>2. CASE c = 0
        BY <4>1, <4>2 DEF Piece
      <4>3. CASE c # 0
        <5> DEFINE gap == IF marked THEN <<NUL>> ELSE <<>>
        <5>1. Piece(sa, n) = gap \o Text(c) /\ x = Len(Text(c))
          BY <4>3 DEF Piece
        <5>2. gap \in Texts /\ Len(gap) = g
          BY <4>1
        <5> HIDE DEF gap, g, x
        <5>3. Len(gap \o Text(c)) = Len(gap) + Len(Text(c))
          BY <2>2, <4>3, <5>2, TextFacts
        <5>4. QED
          BY <5>1, <5>2, <5>3
      <4>4. QED
        BY <4>2, <4>3
    <3>3. Len(text[n]) = t + Len(Piece(sa, n)) /\ t \in Nat
      BY <3>1, TextFacts
    <3> HIDE DEF g, x, t
    <3>4. QED
      BY <3>2, <3>3
  <2>5. crun[n] = r + (x + 3 * w) /\ brun[n] = q + w
    BY <1>4, <1>5, <1>6, <2>2 DEF IsTally
  <2>6. /\ r \in Nat /\ q \in Nat /\ x \in Nat /\ w \in Nat /\ g \in Nat /\ k \in Nat
        /\ r + k = t + 3 * q
    <3>1. x \in Nat /\ w \in Nat
      BY <2>2
    <3>2. r \in Nat /\ q \in Nat
      BY <1>5, <1>6, <2>1 DEF IsTally
    <3>3. g \in Nat /\ k \in Nat
      BY <1>8
    <3>4. r + k = t + 3 * q
      BY <1>10
    <3>5. QED
      BY <3>1, <3>2, <3>3, <3>4
  <2> HIDE DEF c, marked, t, q, r, x, w, g, k, marks
  <2>7. (r + (x + 3 * w)) + (k + g) = (t + (g + x)) + 3 * (q + w)
    BY <2>4, <2>6
  <2>8. Good(n)
    BY <2>3, <2>4, <2>5, <2>7
  <2>9. QED
    BY <2>1, <2>8
<1>11. Good(N)
  <2> HIDE DEF T
  <2>1. \A n \in 0 .. N : n \in T
    BY <1>1, <1>9, <1>10, UpTo
  <2>2. N \in T
    BY <1>1, <2>1
  <2>3. QED
    BY <2>2 DEF T
<1>12. Before(N) = Marks(sa)
  BY <1>1 DEF Marks
<1>13. /\ crun[N] = Sum(cap) /\ brun[N] = Sum(inb) /\ brun[N] \in Nat
       /\ text[N] = Joined(sa) /\ Joined(sa) \in Texts
  <2>1. N \in 0 .. N
    BY <1>1
  <2>2. QED
    BY <1>5, <1>6, <1>7, <2>1 DEF IsTally, IsText
<1>14. Len(Joined(sa)) \in Nat
  BY <1>13, TextFacts
<1>15. Cardinality(Marks(sa)) \in Nat
  BY <1>8, FS_CardinalityType
<1>16. Spare(sa) \in Nat
  BY <1>3, <1>13
<1> HIDE DEF Before
<1>17. QED
  BY <1>3, <1>11, <1>12, <1>13, <1>14, <1>15, <1>16

(* What a round leaves of a group.                                         *)
LEMMA RoundJoins ==
  ASSUME list \in Seq(Code), NEW i \in DOMAIN list
  PROVE  LET sa == Members(i)
             out == Convert(sa)
         IN /\ IF out.err THEN TooFull(sa) ELSE InOrder(Symbol(sa, out))
            /\ Overruns(sa, out) => TooFull(sa)
<1> DEFINE sa == Members(i)
           out == Convert(sa)
           size == sa_ctext(sa)
           k == Cardinality(Marks(sa))
           l == Len(Joined(sa))
           s == Spare(sa)
<1>1. PICK N : IsGroup(sa, N)
  BY MembersShape
<1>2. /\ ~ out.err => /\ out.text = Joined(sa)
                      /\ out.partial <=> \E n \in DOMAIN sa : sa[n] = 0
      /\ l <= size => ~ out.err
  BY <1>1, ConvertJoins
<1>3. size + k = l + s /\ k \in Nat /\ s \in Nat /\ l \in Nat
  BY <1>1, RoomForMarks
<1>4. size \in Nat
  BY <1>1, BufferSize
<1>5. ~ (l <= size) => TooFull(sa)
  <2> HIDE DEF size, k, l, s
  <2>1. ~ (l <= size) => s < k
    BY <1>3, <1>4
  <2>2. QED
    BY <2>1 DEF s, k, TooFull
<1>6. Overruns(sa, out) => ~ (l <= size)
  <2>1. Overruns(sa, out) => ~ out.err /\ Len(out.text) > size
    BY DEF Overruns
  <2> HIDE DEF size, out, sa
  <2>2. Overruns(sa, out) => l > size
    BY <1>2, <2>1
  <2> HIDE DEF l
  <2>3. l > size => ~ (l <= size)
    BY <1>3, <1>4
  <2>4. QED
    BY <2>2, <2>3
<1>7. ~ out.err => InOrder(Symbol(sa, out))
  BY <1>2 DEF InOrder, Symbol
<1>8. QED
  BY <1>2, <1>5, <1>6, <1>7

-----------------------------------------------------------------------------
(* The invariant.                                                          *)

\* What the outer loop has taken: the marked codes, and those of their own that it
\* has passed.
Used == mark \union {c \in 1 .. next_code - 1 : list[c].sa_size = 0}

\* Codes that are not placed are marked or passed, and never taken.
TextInv ==
  /\ list \in Seq(Code)
  /\ next_code \in 1 .. Len(list) + 1
  /\ mark \subseteq DOMAIN list
  /\ symbols \in Seq(Elements(symbols))
  /\ \A k \in DOMAIN symbols : Codes(symbols[k].members) \subseteq DOMAIN list
  /\ (1 .. next_code - 1) \intersect Placed \subseteq Used
  /\ Used \intersect Placed = Taken
  /\ Apart

LEMMA PlacedAre ==
  ASSUME list \in Seq(Code)
  PROVE  Placed \subseteq DOMAIN list /\ \A c \in DOMAIN list : c \in Placed <=> ~Misplaced(c)
BY DEF Placed

(* The invariant's last part after a step.                                 *)
LEMMA GroupsAfter ==
  ASSUME list' = list,
         \A k \in DOMAIN symbols' : OfOneGroup(symbols'[k].members),
         \A k, l \in DOMAIN symbols' :
           k # l => Codes(symbols'[k].members) \intersect Codes(symbols'[l].members) = {}
  PROVE  Apart'
<1>1. ASSUME NEW k \in DOMAIN symbols'
      PROVE  OfOneGroup(symbols[k].members)'
  <2>1. OfOneGroup(symbols'[k].members)
    OBVIOUS
  <2> DEFINE sa == symbols'[k].members
  <2> HIDE DEF sa
  <2>2. \A m, n \in DOMAIN sa : sa[m] # 0 /\ sa[n] # 0 /\ list'[sa[n]].sa_size # 0 =>
          /\ list'[sa[n]].sa_index = n
          /\ list'[sa[m]].sa_size = list'[sa[n]].sa_size
          /\ list'[sa[m]].sa_parity = list'[sa[n]].sa_parity
    BY <2>1 DEF OfOneGroup, sa
  <2>3. QED
    BY <2>2 DEF OfOneGroup, sa
<1>2. QED
  BY <1>1 DEF Apart, Codes

LEMMA GroupsNow ==
  ASSUME Apart
  PROVE  /\ \A k \in DOMAIN symbols : OfOneGroup(symbols[k].members)
         /\ \A k, l \in DOMAIN symbols :
              k # l => Codes(symbols[k].members) \intersect Codes(symbols[l].members) = {}
BY DEF Apart

LEMMA InitText == Init => TextInv
<1> SUFFICES ASSUME Init PROVE TextInv
  OBVIOUS
<1>1. list \in Seq(Code) /\ next_code = 1 /\ mark = {} /\ symbols = <<>> /\ dropped = {}
  BY ListAssumption DEF Init
<1>2. symbols \in Seq(Elements(symbols)) /\ DOMAIN symbols = {}
  BY <1>1 DEF Elements
<1>3. Used = {} /\ Taken = {}
  BY <1>1, <1>2 DEF Used, Taken
<1>4. QED
  BY <1>1, <1>2, <1>3 DEF TextInv, Apart

\* Nothing that the invariant looks at changes.
LEMMA TextStays ==
  ASSUME TextInv, list' = list, mark' = mark, symbols' = symbols, dropped' = dropped,
         next_code' = next_code
  PROVE  TextInv'
<1>1. Used' = Used /\ Taken' = Taken /\ Placed' = Placed
  BY DEF Used, Taken, Codes, Placed, Misplaced
<1>2. Apart'
  BY GroupsNow, GroupsAfter DEF TextInv
<1>3. QED
  BY <1>1, <1>2 DEF TextInv, Elements, Codes

LEMMA SkipKeeps == TextInv /\ Skip => TextInv'
<1> SUFFICES ASSUME TextInv, Skip PROVE TextInv'
  OBVIOUS
<1>1. /\ list' = list /\ mark' = mark /\ symbols' = symbols /\ dropped' = dropped
      /\ next_code' = next_code + 1 /\ next_code \in mark /\ next_code <= Len(list)
  BY DEF Skip
<1>2. next_code \in Nat /\ 1 .. next_code' - 1 = (1 .. next_code - 1) \union {next_code}
  BY <1>1 DEF TextInv
<1>3. Placed' = Placed /\ Used \subseteq Used'
  BY <1>1, <1>2 DEF Used, Placed, Misplaced
<1>4. Used' \subseteq Used
  BY <1>1, <1>2 DEF Used
<1>5. Taken' = Taken
  BY <1>1 DEF Taken, Codes
<1>6. Apart'
  BY <1>1, GroupsNow, GroupsAfter DEF TextInv
<1>7. (1 .. next_code' - 1) \intersect Placed' \subseteq Used'
  <2>1. next_code \in Used
    BY <1>1 DEF Used
  <2>2. QED
    BY <1>2, <1>3, <2>1 DEF TextInv
<1>8. next_code' \in 1 .. Len(list') + 1
  BY <1>1 DEF TextInv
<1>9. QED
  BY <1>1, <1>3, <1>4, <1>5, <1>6, <1>7, <1>8 DEF TextInv, Elements, Codes

(* A round: whether its text fits or not, its codes are used from then on, *)
(* and of the others only some that are not placed.                        *)
LEMMA RoundUses ==
  ASSUME TextInv, Extract
  PROVE  LET sa == Members(next_code) IN
         /\ next_code \in DOMAIN list /\ (next_code \in Placed => next_code \in Codes(sa))
         /\ Used \union Codes(sa) \subseteq Used' /\ mark' \subseteq DOMAIN list
         /\ Used' \intersect Placed = (Used \intersect Placed) \union Codes(sa)
         /\ Codes(sa) \subseteq Placed /\ Codes(sa) \intersect Used = {}
         /\ OfOneGroup(sa)
<1> DEFINE sa == Members(next_code)
           i == next_code
<1>1. list' = list /\ next_code' = i + 1 /\ i \notin mark
  BY DEF Extract
<1>2. /\ list \in Seq(Code) /\ i \in DOMAIN list /\ i \in Nat /\ mark \subseteq DOMAIN list
  BY DEF TextInv, Extract
<1>3. /\ ~Misplaced(i) => i \in Codes(sa)
      /\ \A j \in Codes(sa) : j \in DOMAIN list /\ j >= i /\ j \notin mark
      /\ \A j \in Codes(sa) : ~Misplaced(j)
      /\ \A j \in Codes(sa) : list[j].sa_size = list[i].sa_size
      /\ list[i].sa_size = 0 => Codes(sa) = {i}
      /\ OfOneGroup(sa)
  BY <1>1, <1>2, MembersTaken
<1>4. PICK some \in SUBSET (DOMAIN list \ Placed) :
        mark' = IF list[i].sa_size = 0 THEN mark ELSE mark \union Codes(sa) \union some
  <2>1. PICK negative : mark' = IF list[i].sa_size = 0 THEN mark
                                ELSE mark \union Codes(sa) \union Marked(i, negative)
    BY DEF Extract
  <2>2. Marked(i, negative) \in SUBSET (DOMAIN list \ Placed)
    BY DEF Marked, Strays, Placed
  <2>3. QED
    BY <2>1, <2>2
<1> HIDE DEF sa
<1>5. 1 .. next_code' - 1 = (1 .. i - 1) \union {i}
  BY <1>1, <1>2
<1>6. /\ Used' = mark' \union {c \in 1 .. next_code' - 1 : list[c].sa_size = 0}
      /\ Used = mark \union {c \in 1 .. i - 1 : list[c].sa_size = 0}
  BY <1>1 DEF Used
<1>7. Codes(sa) \subseteq Placed /\ Placed \subseteq DOMAIN list
  BY <1>2, <1>3, PlacedAre
<1>8. \E more \in SUBSET (DOMAIN list \ Placed) :
        Used' = Used \union Codes(sa) \union more /\ mark' \subseteq DOMAIN list
  <2>1. CASE list[i].sa_size = 0
    <3>1. mark' = mark /\ Codes(sa) = {i}
      BY <1>3, <1>4, <2>1
    <3> DEFINE own == {c \in 1 .. i - 1 : list[c].sa_size = 0}
    <3>2. {c \in 1 .. next_code' - 1 : list[c].sa_size = 0} = own \union {i}
      BY <1>5, <2>1
    <3>2a. Used' = mark \union (own \union {i}) /\ Used = mark \union own
      BY <1>6, <3>1, <3>2
    <3> HIDE DEF own
    <3>3. Used' = Used \union Codes(sa) \union {} /\ mark' \subseteq DOMAIN list
      BY <1>2, <3>1, <3>2a
    <3>4. {} \in SUBSET (DOMAIN list \ Placed)
      OBVIOUS
    <3>5. QED
      BY <3>3, <3>4, Zenon
  <2>2. CASE list[i].sa_size # 0
    <3>1. Used' = Used \union Codes(sa) \union some /\ mark' \subseteq DOMAIN list
      BY <1>2, <1>3, <1>4, <1>5, <1>6, <2>2
    <3>2. QED
      BY <3>1
  <2>3. QED
    BY <2>1, <2>2
<1>9. \A j \in Codes(sa) : j \notin 1 .. i - 1
  BY <1>2, <1>3
<1>10. Codes(sa) \intersect Used = {}
  BY <1>3, <1>9 DEF Used
<1>11. i \in Placed => i \in Codes(sa)
  BY <1>2, <1>3, PlacedAre
<1>12. /\ Used \union Codes(sa) \subseteq Used' /\ mark' \subseteq DOMAIN list
       /\ Used' \intersect Placed = (Used \intersect Placed) \union Codes(sa)
  BY <1>7, <1>8
<1>13. QED
  BY <1>2, <1>3, <1>7, <1>10, <1>11, <1>12 DEF sa

LEMMA ExtractKeeps == TextInv /\ Extract => TextInv'
<1> SUFFICES ASSUME TextInv, Extract PROVE TextInv'
  OBVIOUS
<1> DEFINE sa == Members(next_code)
           out == Convert(sa)
           new == Symbol(sa, out)
<1>1. /\ list' = list /\ next_code' = next_code + 1
      /\ \/ symbols' = symbols /\ dropped' = dropped \union {sa}
         \/ symbols' = Append(symbols, new) /\ dropped' = dropped
  BY DEF Extract
<1>2. /\ next_code \in DOMAIN list /\ (next_code \in Placed => next_code \in Codes(sa))
      /\ Used \union Codes(sa) \subseteq Used' /\ mark' \subseteq DOMAIN list
      /\ Used' \intersect Placed = (Used \intersect Placed) \union Codes(sa)
      /\ Codes(sa) \subseteq Placed /\ Codes(sa) \intersect Used = {}
      /\ OfOneGroup(sa)
  BY RoundUses
<1>3. new.members = sa
  BY DEF Symbol
<1>4. /\ list \in Seq(Code) /\ next_code \in 1 .. Len(list) /\ Used \intersect Placed = Taken
      /\ symbols \in Seq(Elements(symbols)) /\ Apart
      /\ (1 .. next_code - 1) \intersect Placed \subseteq Used
      /\ \A k \in DOMAIN symbols : Codes(symbols[k].members) \subseteq DOMAIN list
  BY <1>2 DEF TextInv
<1> HIDE DEF sa, out, new
<1>4a. Placed' = Placed /\ Codes(sa) \subseteq DOMAIN list
  <2>1. Placed' = Placed
    BY <1>1 DEF Placed, Misplaced
  <2>2. Placed \subseteq DOMAIN list
    BY <1>4, PlacedAre
  <2>3. QED
    BY <1>2, <2>1, <2>2
<1>5. next_code' \in 1 .. Len(list') + 1 /\ list' \in Seq(Code) /\ mark' \subseteq DOMAIN list'
  BY <1>1, <1>2, <1>4
<1>6. (1 .. next_code' - 1) \intersect Placed' \subseteq Used'
  <2>1. 1 .. next_code' - 1 = (1 .. next_code - 1) \union {next_code}
    BY <1>1, <1>4
  <2>2. QED
    BY <1>2, <1>4, <1>4a, <2>1
<1>7. CASE symbols' = symbols /\ dropped' = dropped \union {sa}
  <2>1. Taken' = Taken \union Codes(sa)
    BY <1>1, <1>4a, <1>7 DEF Taken, Codes
  <2>2. Apart'
    BY <1>1, <1>4, <1>7, GroupsNow, GroupsAfter
  <2>3. Used' \intersect Placed' = Taken'
    BY <1>2, <1>4, <1>4a, <2>1
  <2>4. QED
    BY <1>1, <1>4, <1>5, <1>6, <1>7, <2>2, <2>3 DEF TextInv, Elements, Codes
<1>8. CASE symbols' = Append(symbols, new) /\ dropped' = dropped
  <2> DEFINE last == Len(symbols) + 1
  <2>1. /\ symbols' \in Seq(Elements(symbols'))
        /\ DOMAIN symbols' = DOMAIN symbols \union {last}
        /\ \A k \in DOMAIN symbols : symbols'[k] = symbols[k]
        /\ symbols'[last] = new /\ last \notin DOMAIN symbols
    BY <1>4, <1>8, Appended
  <2> HIDE DEF last
  <2>2. Taken' = Taken \union Codes(sa)
    BY <1>1, <1>3, <1>4a, <1>8, <2>1 DEF Taken, Codes
  <2>3. \A k \in DOMAIN symbols : Codes(symbols[k].members) \subseteq Used
    BY <1>4 DEF Taken
  <2>4. Apart'
    <3>1. \A k \in DOMAIN symbols' : OfOneGroup(symbols'[k].members)
      BY <1>2, <1>3, <1>4, <2>1, GroupsNow
    <3>2. ASSUME NEW k \in DOMAIN symbols', NEW l \in DOMAIN symbols', k # l
          PROVE  Codes(symbols'[k].members) \intersect Codes(symbols'[l].members) = {}
      BY <1>2, <1>3, <1>4, <2>1, <2>3, <3>2, GroupsNow
    <3>3. QED
      BY <1>1, <3>1, <3>2, GroupsAfter
  <2>5. \A k \in DOMAIN symbols' : Codes(symbols'[k].members) \subseteq DOMAIN list'
    BY <1>1, <1>3, <1>4, <1>4a, <2>1
  <2>6. Used' \intersect Placed' = Taken'
    BY <1>2, <1>4, <1>4a, <2>2
  <2>7. QED
    BY <1>5, <1>6, <2>1, <2>4, <2>5, <2>6 DEF TextInv, Elements, Codes
<1>9. QED
  BY <1>1, <1>7, <1>8

LEMMA TextInvHolds == Spec => []TextInv
<1>1. TextInv /\ [Next]_vars => TextInv'
  <2>1. TextInv /\ UNCHANGED vars => TextInv'
    BY TextStays DEF vars
  <2>2. TextInv /\ Trap => TextInv'
    BY TextStays DEF Trap
  <2>3. QED
    BY <2>1, <2>2, SkipKeeps, ExtractKeeps DEF Next
<1>2. QED
  BY <1>1, InitText, PTL DEF Spec

\* Both in terms of the list alone.
JoinInv ==
  /\ \A k \in DOMAIN symbols : InOrder(symbols[k])
  /\ \A sa \in dropped \union overran : TooFull(sa)

LEMMA JoinsAfter ==
  ASSUME list' = list,
         \A k \in DOMAIN symbols' : InOrder(symbols'[k]),
         \A sa \in dropped' \union overran' : TooFull(sa)
  PROVE  JoinInv'
<1>1. ASSUME NEW k \in DOMAIN symbols'
      PROVE  InOrder(symbols[k])'
  <2>1. InOrder(symbols'[k])
    OBVIOUS
  <2>2. Joined(symbols[k].members)' = Joined(symbols'[k].members)
    BY DEF Joined, Text, Bytes
  <2>3. QED
    BY <2>1, <2>2 DEF InOrder
<1>2. ASSUME NEW sa \in dropped' \union overran'
      PROVE  TooFull(sa)'
  <2>1. Spare(sa)' = Spare(sa) /\ Marks(sa)' = Marks(sa)
    BY DEF Spare, InBytes, Marks
  <2>2. QED
    BY <2>1 DEF TooFull
<1>3. QED
  BY <1>1, <1>2 DEF JoinInv

LEMMA JoinInvHolds == Spec => []JoinInv
<1>1. Init => JoinInv
  BY DEF Init, JoinInv
<1>2. TextInv /\ JoinInv /\ [Next]_vars => JoinInv'
  <2>1. ASSUME JoinInv, UNCHANGED <<list, symbols, dropped, overran>>
        PROVE  JoinInv'
    BY <2>1, JoinsAfter DEF JoinInv
  <2>2. ASSUME TextInv, JoinInv, Extract
        PROVE  JoinInv'
    <3> DEFINE sa == Members(next_code)
               out == Convert(sa)
               new == Symbol(sa, out)
    <3>1. list \in Seq(Code) /\ next_code \in DOMAIN list /\ symbols \in Seq(Elements(symbols))
      BY <2>2 DEF TextInv, Extract
    <3>2. /\ IF out.err THEN TooFull(sa) ELSE InOrder(new)
          /\ Overruns(sa, out) => TooFull(sa)
      BY <3>1, RoundJoins
    <3>3. /\ list' = list
          /\ overran' = IF Overruns(sa, out) THEN overran \union {sa} ELSE overran
          /\ IF out.err THEN dropped' = dropped \union {sa} /\ symbols' = symbols
             ELSE symbols' = Append(symbols, new) /\ dropped' = dropped
      BY <2>2 DEF Extract
    <3> HIDE DEF sa, out, new
    <3>4. \A full \in dropped' \union overran' : TooFull(full)
      BY <2>2, <3>2, <3>3 DEF JoinInv
    <3>5. \A k \in DOMAIN symbols' : InOrder(symbols'[k])
      <4>1. CASE out.err
        BY <2>2, <3>3, <4>1 DEF JoinInv
      <4>2. CASE ~ out.err
        <5>1. /\ DOMAIN symbols' = DOMAIN symbols \union {Len(symbols) + 1}
              /\ \A k \in DOMAIN symbols : symbols'[k] = symbols[k]
              /\ symbols'[Len(symbols) + 1] = new
          BY <3>1, <3>3, <4>2, Appended
        <5>2. QED
          BY <2>2, <3>2, <4>2, <5>1 DEF JoinInv
      <4>3. QED
        BY <4>1, <4>2
    <3>6. QED
      BY <3>3, <3>4, <3>5, JoinsAfter
  <2>3. Skip \/ Trap \/ UNCHANGED vars => UNCHANGED <<list, symbols, dropped, overran>>
    BY DEF Skip, Trap, vars
  <2>4. QED
    BY <2>1, <2>2, <2>3 DEF Next
<1>3. QED
  BY <1>1, <1>2, TextInvHolds, PTL DEF Spec

-----------------------------------------------------------------------------
(* GroupsKeptApart: codes are put together only if they are of one group,  *)
(* each at its index, and no code is in two symbols, as long as no text    *)
(* went past its buffer.                                                   *)
THEOREM GroupsStayApart == Spec => []GroupsKeptApart
<1>1. TextInv => GroupsKeptApart
  BY DEF TextInv, GroupsKeptApart
<1>2. QED
  BY <1>1, TextInvHolds, PTL

(* EveryCodeTaken: at the end, if no text went past its buffer, the codes  *)
(* in a symbol, or in a group that was dropped because its text did not    *)
(* fit, are those whose index is below the size of their group: each of    *)
(* these, and no other, for every list of codes.                           *)
THEOREM EveryCodeIsTaken == Spec => []EveryCodeTaken
<1>1. TextInv => EveryCodeTaken
  <2> SUFFICES ASSUME TextInv, Done PROVE Taken = Placed
    BY DEF EveryCodeTaken
  <2>1. /\ list \in Seq(Code) /\ next_code - 1 = Len(list)
        /\ (1 .. next_code - 1) \intersect Placed \subseteq Used
        /\ Used \intersect Placed = Taken
    BY DEF TextInv, Done
  <2>2. Placed \subseteq 1 .. next_code - 1
    BY <2>1, PlacedAre
  <2>3. QED
    BY <2>1, <2>2
<1>2. QED
  BY <1>1, TextInvHolds, PTL

(* TextInOrder: the text of a symbol is that of its codes in the order of  *)
(* their indices, byte by byte, with a mark for every run of missing codes *)
(* that another code follows, and the symbol is partial just if one is     *)
(* missing: for every list of codes and of entries in them, as long as no  *)
(* text went past its buffer.                                              *)
THEOREM TextsAreInOrder == Spec => []TextInOrder
<1>1. JoinInv => TextInOrder
  BY DEF JoinInv, TextInOrder
<1>2. QED
  BY <1>1, JoinInvHolds, PTL

(* NoCodeLost: every code with an index below the size of its group ends   *)
(* in a symbol or in a group that was dropped.  A group is dropped, or its *)
(* text goes past its buffer, only if the marks for its missing codes are  *)
(* more than the bytes its buffer has to spare.                            *)
THEOREM NoCodeIsLost == Spec => []NoCodeLost
<1>1. JoinInv /\ EveryCodeTaken => NoCodeLost
  BY DEF JoinInv, NoCodeLost
<1>2. QED
  BY <1>1, JoinInvHolds, EveryCodeIsTaken, PTL
=============================================================================
