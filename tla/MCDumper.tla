------------------------------- MODULE MCDumper -------------------------------
(***************************************************************************)
(* A cartridge for the runs of Dumper: bytes have 3 values, so a word has  *)
(* 81, and neighbouring bytes differ.                                      *)
(***************************************************************************)
EXTENDS Dumper

MCCartByte(a) == (a + a \div 3) % 3

AnyKeys == SUBSET Buttons

=============================================================================
