----------------------------- MODULE MCDumpSystem -----------------------------
(***************************************************************************)
(* A cartridge for the runs of DumpSystem, and two operators: one dumps    *)
(* with auto advance, the other by hand, in fragments that overlap.        *)
(***************************************************************************)
EXTENDS DumpSystem

MCCartByte(a) == (a + a \div 3) % ByteBase

AutoKeys == { {}, {"A"}, {"B"} }
StepKeys == { {}, {"A"}, {"down"} }

=============================================================================
