-------------------------------- MODULE Dumper --------------------------------
(***************************************************************************)
(* main_dumping in main.c: the loop on the console that reads the          *)
(* cartridge over DMA and shows it, one fragment per frame, as QR codes.   *)
(*                                                                         *)
(* The loop is sequential; two engines run next to it.  The DMA engine     *)
(* fills rombuf a halfword at a time after dma_read_async, and the display *)
(* flips to the next surface that is ready at every vertical blank.  pc    *)
(* names the calls in which the loop waits for one of them, or for time.   *)
(***************************************************************************)
EXTENDS FragmentCodec

CONSTANTS
  qrcode_max_bytes,   \* what one QR code of the configured version holds
  N_BUFFERS,          \* surfaces of the display
  CartByte(_),        \* what the cartridge has at an offset
  KeyCombos,          \* the sets of keys the operator may press at once
  MaxOffset           \* bound: the operator goes no further than this

Buttons == {"A", "B", "up", "down"}

ASSUME DumperAssumption ==
  /\ qrcode_max_bytes \in Nat
  /\ N_BUFFERS \in Nat /\ N_BUFFERS >= 2
  /\ KeyCombos \subseteq SUBSET Buttons
  /\ MaxOffset \in Nat /\ MaxOffset < WordSize

nrombytes_per_frame ==
  ((qrcode_max_bytes - n_header_bytes_per_frame) \div 2) * 2

\* assert(nrombytes_per_frame >= 8), over the length of a DMA transfer.
ASSUME DmaLengthAssumption == nrombytes_per_frame >= 8

\* The offsets a frame within the bound reaches.
ASSUME CartAssumption ==
  \A a \in 0 .. MaxOffset + nrombytes_per_frame : CartByte(a) \in Byte

\* What a surface can show.
NoCode == [kind |-> "no code"]                 \* one colour, or the console
Frame(data) == [kind |-> "code", data |-> data]

IsFrame(surf) == surf.kind = "code"

Uninitialized == -1   \* what malloc leaves in rombuf

VARIABLES
  pc,             \* where the loop waits
  show_console,
  auto_advance,
  rom_offset,
  counter,
  rombuf,
  dma,            \* the transfer: its address, and the bytes still to come
  showing,        \* the surface on the screen
  ready,          \* the surfaces display_show has queued behind it
  drawing         \* how many surfaces display_get has handed out

loopVars    == <<show_console, auto_advance, rom_offset, counter>>
displayVars == <<showing, ready, drawing>>
vars        == <<pc, show_console, auto_advance, rom_offset, counter, rombuf, dma,
                 showing, ready, drawing>>

-----------------------------------------------------------------------------
Init ==
  /\ pc = "scan"
  /\ show_console = TRUE
  /\ auto_advance = FALSE
  /\ rom_offset = 0
  /\ counter = 0
  /\ rombuf = [i \in 1 .. nrombytes_per_frame |-> Uninitialized]
  /\ dma = [addr |-> 0, left |-> 0]
  /\ showing = NoCode
  /\ ready = <<>>
  /\ drawing = 0

-----------------------------------------------------------------------------
(* The display and the DMA engine.                                         *)

display_get_returns == Len(ready) + drawing + 1 < N_BUFFERS

VBlank ==
  /\ ready # <<>>
  /\ showing' = Head(ready)
  /\ ready' = Tail(ready)
  /\ UNCHANGED <<pc, loopVars, rombuf, dma, drawing>>

dma_read_async(addr) == dma' = [addr |-> addr, left |-> nrombytes_per_frame]

DmaTransfer ==
  LET done == nrombytes_per_frame - dma.left
  IN  /\ dma.left > 0
      /\ rombuf' = [rombuf EXCEPT ![done + 1] = CartByte(dma.addr + done),
                                  ![done + 2] = CartByte(dma.addr + done + 1)]
      /\ dma' = [dma EXCEPT !.left = @ - 2]
      /\ UNCHANGED <<pc, loopVars, displayVars>>

-----------------------------------------------------------------------------
(* The loop.                                                               *)

PressA(keys) ==
  /\ pc = "scan"
  /\ "A" \in keys
  /\ show_console' = ~show_console
  /\ pc' = "blank"
  /\ UNCHANGED <<auto_advance, rom_offset, counter, rombuf, dma, displayVars>>

\* Faulty: paints the surface that is queued instead of asking for one.
ShowBlank_NoGet ==
  /\ pc = "blank"
  /\ ready' = <<NoCode>>
  /\ pc' = "scan"
  /\ UNCHANGED <<loopVars, rombuf, dma, showing, drawing>>

ShowBlank ==
  /\ pc = "blank"
  /\ display_get_returns
  /\ ready' = Append(ready, NoCode)
  /\ pc' = "scan"
  /\ UNCHANGED <<loopVars, rombuf, dma, showing, drawing>>

\* rom_offset after the up and the down key have been looked at.
Moved(offset, keys) ==
  LET up == IF "up" \notin keys THEN offset
            ELSE IF offset < 4  THEN 0
            ELSE offset - 4
  IN  IF "down" \in keys THEN up + 4 ELSE up

PressKeys(keys) ==
  /\ pc = "scan"
  /\ "A" \notin keys
  /\ auto_advance' = (auto_advance # ("B" \in keys))
  /\ rom_offset' = Moved(rom_offset, keys)
  /\ rom_offset' <= MaxOffset
  /\ auto_advance' => rom_offset' + nrombytes_per_frame <= MaxOffset
  /\ \/ /\ show_console
        /\ pc' = "render"
        /\ UNCHANGED dma
     \/ /\ ~show_console
        /\ dma_read_async(rom_offset')
        /\ pc' = "draw"
  /\ UNCHANGED <<show_console, counter, rombuf, displayVars>>

RenderConsole ==
  /\ pc = "render"
  /\ display_get_returns
  /\ ready' = Append(ready, NoCode)
  /\ pc' = "scan"
  /\ UNCHANGED <<loopVars, rombuf, dma, showing, drawing>>

TakeSurface ==
  /\ pc = "draw"
  /\ display_get_returns
  /\ drawing' = drawing + 1
  /\ pc' = "dma_wait"
  /\ UNCHANGED <<loopVars, rombuf, dma, showing, ready>>

\* Faulty: without dma_wait.
ShowFrame_NoWait(surf) ==
  /\ pc = "dma_wait"
  /\ counter' = (counter + 1) % ByteBase
  /\ ready' = Append(ready, surf)
  /\ drawing' = drawing - 1
  /\ pc' = "hold"
  /\ UNCHANGED <<auto_advance, rom_offset, rombuf, dma, showing>>

\* From dma_wait to display_show.
ShowFrame(surf) ==
  /\ pc = "dma_wait"
  /\ dma.left = 0
  /\ counter' = (counter + 1) % ByteBase
  /\ ready' = Append(ready, surf)
  /\ drawing' = drawing - 1
  /\ pc' = "hold"
  /\ UNCHANGED <<auto_advance, rom_offset, rombuf, dma, showing>>

EncodeFrame ==
  /\ ShowFrame(Frame(Payload(counter, rom_offset, rombuf)))
  /\ UNCHANGED show_console

\* Faulty: the error leaves the loop's body before display_show.
EncodeFails_Leak ==
  /\ pc = "dma_wait"
  /\ dma.left = 0
  /\ counter' = (counter + 1) % ByteBase
  /\ show_console' = TRUE
  /\ pc' = "scan"
  /\ UNCHANGED <<auto_advance, rom_offset, rombuf, dma, displayVars>>

\* Faulty: the error is not put on the screen.
EncodeFails_Silent ==
  /\ ShowFrame(NoCode)
  /\ UNCHANGED show_console

\* QRcode_encodeData returns NULL: the surface stays white.
EncodeFails ==
  /\ ShowFrame(NoCode)
  /\ show_console' = TRUE

\* wait_ms is over.
EndHold ==
  /\ pc = "hold"
  /\ rom_offset' = IF auto_advance THEN rom_offset + nrombytes_per_frame ELSE rom_offset
  /\ pc' = "scan"
  /\ UNCHANGED <<show_console, auto_advance, counter, rombuf, dma, displayVars>>

Scan == \E keys \in KeyCombos : PressA(keys) \/ PressKeys(keys)

Next == \/ Scan
        \/ ShowBlank
        \/ RenderConsole
        \/ TakeSurface
        \/ EncodeFrame
        \/ EncodeFails
        \/ EndHold
        \/ DmaTransfer
        \/ VBlank

Spec == Init /\ [][Next]_vars

(* The processor, the DMA engine and the display never stop.               *)
Fairness ==
  /\ WF_vars(Scan \/ ShowBlank \/ RenderConsole \/ TakeSurface
               \/ EncodeFrame \/ EncodeFails \/ EndHold)
  /\ WF_vars(DmaTransfer)
  /\ WF_vars(VBlank)

FairSpec == Spec /\ Fairness

-----------------------------------------------------------------------------
(* Properties.                                                             *)

Surfaces == {NoCode} \cup [kind : {"code"}, data : Seq(Byte \cup {Uninitialized})]

\* Type correctness of every variable.
TypeOK ==
  /\ pc \in {"scan", "blank", "render", "draw", "dma_wait", "hold"}
  /\ show_console \in BOOLEAN
  /\ auto_advance \in BOOLEAN
  /\ rom_offset \in 0 .. MaxOffset
  /\ counter \in Byte
  /\ rombuf \in [1 .. nrombytes_per_frame -> Byte \cup {Uninitialized}]
  /\ dma \in [addr : 0 .. MaxOffset, left : 0 .. nrombytes_per_frame]
  /\ showing \in Surfaces
  /\ ready \in Seq(Surfaces)
  /\ drawing \in Nat

\* "must stay a multiple of 2 for dma" (main.c:234), through every mixture of
\* auto advance, steps by four and the stop at 0; the transfer that is under way
\* ends on a halfword too.
DmaAligned ==
  /\ rom_offset % 2 = 0
  /\ dma.addr % 2 = 0 /\ dma.left % 2 = 0

\* The code on a surface tells the truth: its bytes are what the cartridge has
\* from the offset in its header on, which is one the DMA can start from
\* (main.c:234), whatever keys and auto advance led to it.
Genuine(surf) ==
  IsFrame(surf) =>
    /\ OffsetOf(surf.data) % 2 = 0
    /\ Len(BytesOf(surf.data)) = nrombytes_per_frame
    /\ \A i \in 1 .. nrombytes_per_frame :
         BytesOf(surf.data)[i] = CartByte(OffsetOf(surf.data) + i - 1)

\* Everything the camera can see now or will see next is genuine, whatever the
\* DMA engine does while the loop waits for a surface.
FramesGenuine ==
  /\ Genuine(showing)
  /\ \A i \in 1 .. Len(ready) : Genuine(ready[i])

\* The surface the display will end up showing if nothing more is queued.
LastShown == IF ready = <<>> THEN showing ELSE ready[Len(ready)]

\* The loop leaves no fragment out without a word: it advances only past an
\* offset whose code was just given to the display, or it has brought up the
\* console with the error.
NoSilentSkip ==
  [][ pc = "hold" /\ rom_offset' # rom_offset
        => \/ /\ IsFrame(LastShown)
              /\ OffsetOf(LastShown.data) = rom_offset
           \/ show_console ]_vars

\* No surface leaks: between the calls of the loop the display has all of them
\* but the one that is being drawn, so display_get can always return again.
SurfacesAccounted ==
  /\ drawing = IF pc = "dma_wait" THEN 1 ELSE 0
  /\ Len(ready) + drawing + 1 <= N_BUFFERS

\* A code that is held is put on the screen, it is not replaced before.
HeldCodeIsShown ==
  \A offset \in 0 .. MaxOffset :
    pc = "hold" /\ IsFrame(LastShown) /\ OffsetOf(LastShown.data) = offset
      ~> IsFrame(showing) /\ OffsetOf(showing.data) = offset

=============================================================================
