------------------------------ MODULE DumpSystem ------------------------------
(***************************************************************************)
(* The whole dump: Dumper shows codes, a camera looks at its screen, and   *)
(* DecodePool puts the ROM image together.  The picture is all that passes *)
(* between them, and nothing ever goes back: the dumper does not know what *)
(* was read.                                                               *)
(***************************************************************************)
EXTENDS FragmentCodec

CONSTANTS
  qrcode_max_bytes, N_BUFFERS, CartByte(_), KeyCombos, MaxOffset,  \* see Dumper
  N_IMGDEC_WORKERS, MaxRomSize, DecodedBufLen, MaxAwaited          \* see DecodePool

VARIABLES
  pc, show_console, auto_advance, rom_offset, counter, rombuf, dma,
  showing, ready, drawing,
  rom_data, rom_data_not_unknown_min, rom_data_not_unknown_max, broken, aborted,
  queue, responses, awaited, alive, submitted

D == INSTANCE Dumper

\* What the cartridge holds from an offset on, as much as one code carries.
CartFragment(offset) == [i \in 1 .. D!nrombytes_per_frame |-> CartByte(offset + i - 1)]

\* The images that can reach the decoder: no code, or one that tells the truth of
\* a halfword's offset.
Offsets == {offset \in 0 .. MaxOffset : offset % 2 = 0}
CameraImages ==
  {<<>>} \cup { <<Payload(c, offset, CartFragment(offset))>> : c \in Byte, offset \in Offsets }

P == INSTANCE DecodePool WITH Images <- CameraImages

(* What the two halves assume of their constants, and that a code's last    *)
(* byte has an address that fits a word.                                    *)
ASSUME SystemAssumption ==
  /\ qrcode_max_bytes \in Nat /\ D!nrombytes_per_frame >= 8
  /\ N_BUFFERS \in Nat /\ N_BUFFERS >= 2
  /\ KeyCombos \subseteq SUBSET D!Buttons
  /\ MaxOffset \in Nat /\ MaxOffset + D!nrombytes_per_frame < WordSize
  /\ \A a \in 0 .. MaxOffset + D!nrombytes_per_frame : CartByte(a) \in Byte
  /\ N_IMGDEC_WORKERS \in Nat \ {0}
  /\ MaxRomSize \in Nat \ {0} /\ MaxRomSize < WordSize
  /\ DecodedBufLen \in Nat /\ DecodedBufLen < WordSize
  /\ MaxAwaited \in Nat

dumperVars  == <<pc, show_console, auto_advance, rom_offset, counter, rombuf, dma,
                 showing, ready, drawing>>
decoderVars == <<rom_data, rom_data_not_unknown_min, rom_data_not_unknown_max,
                 broken, aborted, queue, responses, awaited, alive, submitted>>
vars        == <<dumperVars, decoderVars>>

Init == D!Init /\ P!Init

-----------------------------------------------------------------------------
DumperStep == D!Next /\ UNCHANGED decoderVars

\* What a picture of a surface shows: its code, or nothing that zbar can read
\* (the camera moved, or caught the screen between two surfaces).
Pictures(surf) == {<<>>} \cup (IF D!IsFrame(surf) THEN {<<surf.data>>} ELSE {})

\* A tick of capture_frames: the picture goes through the page to a worker.
Capture(image) == P!ProcessFrame(image) /\ UNCHANGED dumperVars

Decode(w) == (P!DecodeImage(w) \/ P!DecodeImageAsserts(w)) /\ UNCHANGED dumperVars

Callback(w) == P!Callback(w) /\ UNCHANGED dumperVars

\* P!HeapTraps has no place here: see StaysInside.
Next ==
  \/ DumperStep
  \/ \E image \in Pictures(showing) : Capture(image)
  \/ \E w \in P!Workers : Decode(w) \/ Callback(w)

Spec == Init /\ [][Next]_vars

CaptureCode == D!IsFrame(showing) /\ Capture(<<showing.data>>)

(* The console and the threads of the decoder run on, and a code that stays *)
(* on the screen is in a readable picture again and again.                  *)
Fairness ==
  /\ WF_vars(DumperStep /\ pc' # pc)
  /\ WF_vars(D!DmaTransfer /\ UNCHANGED decoderVars)
  /\ WF_vars(D!VBlank /\ UNCHANGED decoderVars)
  /\ SF_vars(CaptureCode)
  /\ \A w \in P!Workers : WF_vars(Decode(w)) /\ WF_vars(Callback(w))

FairSpec == Spec /\ Fairness

-----------------------------------------------------------------------------
(* Properties.                                                             *)

\* The dump is a copy of the cartridge: every known byte of the ROM image is the
\* byte the cartridge has at that address.  It takes the alignment and the wait
\* for the DMA on one side, and the addressing of the other, to keep this.
RomGenuine ==
  \A a \in P!Addr : P!Known(a) => rom_data[a] = CartByte(a)

\* The assertions of the two halves agree: no code of the dumper ends a decoding
\* worker (heavylifting_imgdec.c:173), so every call is answered, and the queue
\* sizes that heavylifting_process_frame compares are the true backlogs.
WorkersSurvive ==
  \A w \in P!Workers : alive[w] /\ (~aborted => awaited[w] = P!Backlog(w))

\* No code of the dumper makes the decoder write outside rom_data: the sum in the
\* assertion (heavylifting_main.c:60) wraps for none, whatever is shown and seen.
StaysInside == ~broken

\* Both: no code of the dumper does the decoder any harm but at the end of the ROM
\* image (see StoreFits).
DecoderUnharmed == WorkersSurvive /\ StaysInside

\* The system as a whole implements RomDump: between two states of the ROM image
\* lies one whole fragment of the cartridge, from a halfword on, and nothing that was
\* stored is lost or changed, whatever is shown, seen, decoded and answered meanwhile.
RomDumpImpl ==
  INSTANCE RomDump WITH
    Addr    <- P!Addr,
    Unknown <- P!ROM_BYTE_UNKNOWN,
    Cart    <- CartByte,
    Size    <- D!nrombytes_per_frame,
    Offsets <- {offset \in Offsets : offset + D!nrombytes_per_frame <= MaxRomSize},
    rom     <- rom_data
ImplementsRomDump == RomDumpImpl!Spec

\* assert(rom_frag->offset + rom_frag->n_bytes <= max_rom_size)
\* (heavylifting_main.c:60): the dumper's codes never end past the ROM image.
StoreFits == ~aborted

\* An offset that stays on the screen is dumped: if the operator stops there, all
\* of its bytes get known, or the console comes up over an encoding error.
StayingOffsetIsDumped ==
  \A offset \in {o \in 0 .. MaxOffset : o + D!nrombytes_per_frame <= MaxRomSize} :
    <>[](rom_offset = offset /\ ~show_console /\ ~auto_advance)
      => <>(aborted \/ \A i \in 0 .. D!nrombytes_per_frame - 1 : P!Known(offset + i))

=============================================================================
