-------------------------------- MODULE RomCopy --------------------------------
(***************************************************************************)
(* What the decoder promises: a copy of the ROM that is put together, a    *)
(* whole fragment at a time, from fragments that were seen.  In which      *)
(* order and how often a fragment is written is left open.  The promise    *)
(* ends with a fragment that does not fit.                                 *)
(***************************************************************************)
EXTENDS Integers, Sequences

CONSTANTS
  Addr,        \* the addresses of the copy
  Unknown,     \* the value of an address no fragment has covered
  Fragments    \* records [offset, bytes]

VARIABLES
  rom,    \* the copy
  seen,   \* the fragments that were seen
  broken  \* a fragment was written that has no room in the copy

Spans(f, a) == f.offset <= a /\ a < f.offset + Len(f.bytes)

Fits(f) == \A i \in 1 .. Len(f.bytes) : f.offset + i - 1 \in Addr

Init ==
  /\ rom = [a \in Addr |-> Unknown]
  /\ seen = {}
  /\ broken = FALSE

See ==
  /\ \E f \in Fragments : seen' = seen \cup {f}
  /\ UNCHANGED <<rom, broken>>

Write ==
  /\ ~broken
  /\ \E f \in {g \in seen : Fits(g)} :
       rom' = [a \in Addr |-> IF Spans(f, a) THEN f.bytes[a - f.offset + 1]
                                             ELSE rom[a]]
  /\ UNCHANGED <<seen, broken>>

(* Nothing is promised of the copy once something was written next to it,  *)
(* which takes a fragment that was seen and does not fit.                  *)
Break ==
  /\ broken \/ \E f \in seen : ~Fits(f)
  /\ broken' = TRUE
  /\ UNCHANGED seen

Next == See \/ Write \/ Break

Spec == Init /\ [][Next]_<<rom, seen, broken>>

=============================================================================
