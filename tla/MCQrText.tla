-------------------------------- MODULE MCQrText --------------------------------
(***************************************************************************)
(* Images for the run of QrText: up to three codes, each alone or in one   *)
(* of four groups, two of which have the same size.  Two places are beyond *)
(* the size of their group, and the codes 1 and 3 of the group of four     *)
(* need two marks.                                                         *)
(***************************************************************************)
EXTENDS QrText

Byte(n) == [mode |-> "BYTE", len |-> n]
Num(n) == [mode |-> "NUM", len |-> n]

\* Size, index and parity.
Places ==
  UNION {{<<0, 0, 0>>}, {2} \X {0, 1} \X {0, 1}, {3} \X {0, 1, 2} \X {0},
         {2} \X {2, 5} \X {0}, {4} \X {1, 3} \X {0}}
CodeAt(place, entries) ==
  [sa_size |-> place[1], sa_index |-> place[2], sa_parity |-> place[3], entries |-> entries]

\* Every arrangement of one to three codes, whose entries are those of contents in turn.
Lists(contents) ==
  UNION {{[k \in 1 .. n |-> CodeAt(places[k], contents[k])] : places \in [1 .. n -> Places]} : n \in 1 .. 3}

\* Bytes and digits in each code, or nothing but digits.
MCLists ==
  UNION {Lists(<< <<Byte(1)>>, <<Byte(2), Num(1)>>, <<Num(1), Byte(1)>> >>),
         Lists(<< <<Num(1), Byte(1), Num(2)>>, <<Byte(1), Byte(1)>>, <<Byte(1), Num(1)>> >>),
         Lists(<< <<Num(1)>>, <<Num(1)>>, <<Num(2)>> >>)}
=============================================================================
