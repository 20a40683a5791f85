-------------------------------- MODULE RomDump --------------------------------
(***************************************************************************)
(* What the dump as a whole promises: a copy of the cartridge that grows   *)
(* by one fragment at a time.  Console, camera and decoder are left open;  *)
(* RomCopy is the promise of the decoder alone, which knows of fragments   *)
(* but not of a cartridge.                                                 *)
(***************************************************************************)
EXTENDS Integers

CONSTANTS
  Addr,      \* the addresses of the copy
  Unknown,   \* the value of an address that was not copied yet
  Cart(_),   \* the cartridge's byte at an address
  Size,      \* the bytes of a fragment
  Offsets    \* where fragments begin

VARIABLE
  rom        \* the copy

Init == rom = [a \in Addr |-> Unknown]

Copy(offset) ==
  rom' = [a \in Addr |-> IF offset <= a /\ a < offset + Size THEN Cart(a) ELSE rom[a]]

Next == \E offset \in Offsets : Copy(offset)

Spec == Init /\ [][Next]_rom

=============================================================================
