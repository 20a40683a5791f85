---------------------------- MODULE FragmentCodec ----------------------------
(***************************************************************************)
(* The payload of one QR code: a frame counter, the ROM offset in big      *)
(* endian, then the ROM bytes.  main.c (main_dumping) writes it,           *)
(* heavylifting_imgdec.c (heavylifting_decode_image) reads it back.        *)
(***************************************************************************)
EXTENDS Integers, Sequences

CONSTANT ByteBase   \* how many values a byte has: 256 in the code

ASSUME ByteBaseAssumption == ByteBase \in Nat /\ ByteBase >= 2

Byte == 0 .. ByteBase - 1

\* How many values a uint32_t has.
WordSize == ByteBase * ByteBase * ByteBase * ByteBase

n_header_bytes_per_frame == 5

-----------------------------------------------------------------------------
(* Writing: qrdata[0 .. 4], then memcpy of the ROM bytes.                  *)

Shift8(x) == x \div ByteBase

Payload(counter, rom_offset, rombuf) ==
  << counter,
     Shift8(Shift8(Shift8(rom_offset))) % ByteBase,
     Shift8(Shift8(rom_offset)) % ByteBase,
     Shift8(rom_offset) % ByteBase,
     rom_offset % ByteBase >> \o rombuf

-----------------------------------------------------------------------------
(* Reading: the shifted bytes do not overlap, so | is +.  The counter in   *)
(* data[1] is read and never used.                                         *)

\* Faulty: the last byte is taken for a signed one, so its sign covers the others.
OffsetOf_Signed(data) ==
  IF 2 * data[5] >= ByteBase
    THEN WordSize - ByteBase + data[5]
    ELSE ((data[2] * ByteBase + data[3]) * ByteBase + data[4]) * ByteBase + data[5]

OffsetOf(data) ==
  ((data[2] * ByteBase + data[3]) * ByteBase + data[4]) * ByteBase + data[5]

BytesOf(data) == SubSeq(data, n_header_bytes_per_frame + 1, Len(data))

=============================================================================
