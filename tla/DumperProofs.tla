----------------------------- MODULE DumperProofs -----------------------------
(***************************************************************************)
(* Proofs about Dumper, for every cartridge, number of surfaces and        *)
(* capacity of a QR code that its assumptions allow.                       *)
(***************************************************************************)
EXTENDS Dumper, SequenceTheorems, TLAPS

-----------------------------------------------------------------------------
(* The header of a code, for every byte size.                              *)

LEMMA MulType == \A a, b \in Nat : a * b \in Nat
  OBVIOUS

LEMMA WordSizeType == WordSize \in Nat
  BY ByteBaseAssumption, MulType DEF WordSize

LEMMA DivMod ==
  \A x, b \in Nat : b >= 2 => /\ x \div b \in Nat
                              /\ x % b \in Nat /\ x % b < b
                              /\ (x \div b) * b + (x % b) = x
  OBVIOUS

LEMMA DivBound == \A x, b, c \in Nat : b >= 2 /\ x < c * b => x \div b < c
  OBVIOUS

(* A header in front of some bytes is taken off again. *)
LEMMA SplitHeader ==
  ASSUME NEW S, NEW h \in Seq(S), Len(h) = n_header_bytes_per_frame, NEW bs \in Seq(S)
  PROVE  /\ \A i \in 1 .. n_header_bytes_per_frame : (h \o bs)[i] = h[i]
         /\ BytesOf(h \o bs) = bs
<1>1. Len(h) = 5 /\ Len(bs) \in Nat
  BY DEF n_header_bytes_per_frame
<1>2. /\ h \o bs \in Seq(S) /\ Len(h \o bs) = Len(bs) + 5
      /\ \A i \in 1 .. Len(bs) + 5 : (h \o bs)[i] = IF i <= 5 THEN h[i] ELSE bs[i - 5]
  <2>1. /\ h \o bs \in Seq(S) /\ Len(h \o bs) = Len(h) + Len(bs)
        /\ \A i \in 1 .. Len(h) + Len(bs) :
              (h \o bs)[i] = IF i <= Len(h) THEN h[i] ELSE bs[i - Len(h)]
    BY ConcatProperties
  <2>2. Len(h) + Len(bs) = Len(bs) + 5
    BY <1>1
  <2>3. QED
    BY <1>1, <2>1, <2>2
<1> DEFINE s == h \o bs
           t == SubSeq(s, 6, Len(bs) + 5)
<1> HIDE DEF s
<1>3. \A i \in 6 .. Len(bs) + 5 : s[i] \in S
  BY <1>1, <1>2 DEF s
<1>4. /\ t \in Seq(S)
      /\ Len(t) = Len(bs)
      /\ \A i \in 1 .. Len(bs) : t[i] = s[i + 5]
  BY <1>1, <1>3, SubSeqProperties
<1>5. \A i \in 1 .. Len(bs) : s[i + 5] = bs[i]
  BY <1>1, <1>2 DEF s
<1> HIDE DEF t
<1>6. t = bs
  BY <1>4, <1>5, SeqEqual
<1>7. BytesOf(h \o bs) = bs
  BY <1>2, <1>6 DEF BytesOf, n_header_bytes_per_frame, s, t
<1>8. QED
  BY <1>1, <1>2, <1>7 DEF n_header_bytes_per_frame

LEMMA ModIsByte ==
  ASSUME NEW n \in Nat
  PROVE  n % ByteBase \in Byte
BY ByteBaseAssumption, DivMod DEF Byte

(* RoundTrip: heavylifting_decode_image reads back the offset and the      *)
(* bytes main_dumping wrote, as long as the offset fits into a word.       *)
THEOREM RoundTrip ==
  ASSUME NEW c \in Byte, NEW offset \in Nat, offset < WordSize,
         NEW bytes \in Seq(Byte)
  PROVE  /\ OffsetOf(Payload(c, offset, bytes)) = offset
         /\ BytesOf(Payload(c, offset, bytes)) = bytes
<1> DEFINE B  == ByteBase
           o1 == Shift8(offset)
           o2 == Shift8(o1)
           o3 == Shift8(o2)
           h  == <<c, o3 % B, o2 % B, o1 % B, offset % B>>
<1>1. B \in Nat /\ B >= 2 /\ B * B \in Nat /\ B * B * B \in Nat
  BY ByteBaseAssumption
<1>2. o1 \in Nat /\ o2 \in Nat /\ o3 \in Nat
  BY <1>1, DivMod DEF Shift8
<1>3. o1 < (B * B) * B
  BY <1>1, DivBound DEF Shift8, WordSize
<1>4. o2 < B * B
  BY <1>1, <1>2, <1>3, DivBound DEF Shift8
<1>5. o3 < B
  BY <1>1, <1>2, <1>4, DivBound DEF Shift8
<1>6. o3 % B = o3
  BY <1>1, <1>2, <1>5
<1>7. /\ o3 * B + (o2 % B) = o2
      /\ o2 * B + (o1 % B) = o1
      /\ o1 * B + (offset % B) = offset
  BY <1>1, <1>2, DivMod DEF Shift8
<1>8. /\ h \in Seq(Byte) /\ Len(h) = n_header_bytes_per_frame
      /\ h[2] = o3 % B /\ h[3] = o2 % B /\ h[4] = o1 % B /\ h[5] = offset % B
  <2>1. /\ o3 % B \in Byte /\ o2 % B \in Byte
        /\ o1 % B \in Byte /\ offset % B \in Byte
    BY <1>1, <1>2, ModIsByte
  <2>2. QED
    BY <2>1 DEF n_header_bytes_per_frame
<1>9. Payload(c, offset, bytes) = h \o bytes
  BY DEF Payload
<1> HIDE DEF h, o1, o2, o3
<1> DEFINE data == h \o bytes
<1>10. /\ data[2] = h[2] /\ data[3] = h[3] /\ data[4] = h[4] /\ data[5] = h[5]
       /\ BytesOf(data) = bytes
  BY <1>8, SplitHeader DEF n_header_bytes_per_frame
<1> HIDE DEF data
<1>11. OffsetOf(data) = ((data[2] * B + data[3]) * B + data[4]) * B + data[5]
  BY DEF OffsetOf
<1>12. OffsetOf(data) = offset
  BY <1>6, <1>7, <1>8, <1>10, <1>11
<1>13. QED
  BY <1>9, <1>10, <1>12 DEF data

-----------------------------------------------------------------------------
(* The dump loop.                                                          *)

(* Frames have an even number of bytes, of which there are some.           *)
LEMMA FrameLength ==
  /\ nrombytes_per_frame \in Nat
  /\ nrombytes_per_frame >= 8
  /\ nrombytes_per_frame % 2 = 0
<1>1. (qrcode_max_bytes - n_header_bytes_per_frame) \div 2 \in Int
  BY DumperAssumption DEF n_header_bytes_per_frame
<1>2. QED
  BY <1>1, DmaLengthAssumption DEF nrombytes_per_frame

LEMMA EvenSums ==
  \A a, b \in Int : a % 2 = 0 /\ b % 2 = 0 => (a + b) % 2 = 0 /\ (a - b) % 2 = 0
  OBVIOUS

(* The keys keep the offset even and never take it below 0.                *)
LEMMA MovedEven ==
  ASSUME NEW offset \in Nat, offset % 2 = 0, NEW keys
  PROVE  Moved(offset, keys) \in Nat /\ Moved(offset, keys) % 2 = 0
  BY DEF Moved

-----------------------------------------------------------------------------
(* Type correctness and alignment.  That the offset stays within the bound *)
(* needs that auto_advance, while a frame is under way, has room for it.   *)

HasRoom ==
  auto_advance /\ pc \in {"draw", "dma_wait", "hold"}
    => rom_offset + nrombytes_per_frame <= MaxOffset

AlignedInv == TypeOK /\ DmaAligned /\ HasRoom

LEMMA AlignedInvInit == Init => AlignedInv
<1> SUFFICES ASSUME Init
             PROVE  AlignedInv
  OBVIOUS
<1>1. show_console \in BOOLEAN /\ auto_advance \in BOOLEAN /\ ~auto_advance
  BY Zenon DEF Init
<1>2. NoCode \in Surfaces
  BY DEF Surfaces
<1>3. TypeOK
  BY <1>1, <1>2, FrameLength, DumperAssumption, ByteBaseAssumption
     DEF Init, TypeOK, Byte
<1>4. DmaAligned
  BY DEF Init, DmaAligned
<1>5. QED
  BY <1>1, <1>3, <1>4 DEF AlignedInv, HasRoom

(* A payload is a sequence of bytes and uninitialized bytes.               *)
LEMMA PayloadType ==
  ASSUME TypeOK
  PROVE  Frame(Payload(counter, rom_offset, rombuf)) \in Surfaces
<1> DEFINE S == Byte \cup {Uninitialized}
           h == <<counter,
                  Shift8(Shift8(Shift8(rom_offset))) % ByteBase,
                  Shift8(Shift8(rom_offset)) % ByteBase,
                  Shift8(rom_offset) % ByteBase,
                  rom_offset % ByteBase>>
<1>1. ByteBase \in Nat /\ ByteBase >= 2 /\ rom_offset \in Nat /\ counter \in Byte
  BY ByteBaseAssumption, DumperAssumption DEF TypeOK
<1>2. /\ Shift8(rom_offset) \in Nat
      /\ Shift8(Shift8(rom_offset)) \in Nat
      /\ Shift8(Shift8(Shift8(rom_offset))) \in Nat
  BY <1>1, DivMod DEF Shift8
<1>3. h \in Seq(S)
  <2>1. \A x \in Nat : x % ByteBase \in S
    BY <1>1, DivMod DEF Byte
  <2>2. QED
    BY <1>1, <1>2, <2>1
<1>4. rombuf \in Seq(S)
  BY FrameLength DEF TypeOK
<1> HIDE DEF h, S
<1>5. h \o rombuf \in Seq(S)
  BY <1>3, <1>4, ConcatProperties
<1>6. QED
  BY <1>5 DEF Payload, Frame, Surfaces, h, S

(* The display keeps its type when it flips or is given a surface.         *)
LEMMA QueueTypes ==
  ASSUME ready \in Seq(Surfaces)
  PROVE  /\ \A surf \in Surfaces : Append(ready, surf) \in Seq(Surfaces)
         /\ ready # <<>> => Head(ready) \in Surfaces /\ Tail(ready) \in Seq(Surfaces)
  OBVIOUS

LEMMA NoCodeType == NoCode \in Surfaces
  BY DEF Surfaces

(* Steps that only queue a surface without a code, and wait.               *)
LEMMA BlankAligned ==
  ASSUME AlignedInv, ShowBlank \/ RenderConsole
  PROVE  AlignedInv'
<1>1. /\ ready' = Append(ready, NoCode) /\ pc' = "scan"
      /\ UNCHANGED <<loopVars, rombuf, dma, showing, drawing>>
  BY DEF ShowBlank, RenderConsole
<1>2. show_console' \in BOOLEAN /\ auto_advance' \in BOOLEAN
  BY <1>1, Zenon DEF AlignedInv, TypeOK, loopVars
<1>3. ready' \in Seq(Surfaces)
  BY <1>1, QueueTypes, NoCodeType DEF AlignedInv, TypeOK
<1>4. TypeOK'
  BY <1>1, <1>2, <1>3 DEF AlignedInv, TypeOK, loopVars
<1>5. QED
  BY <1>1, <1>4 DEF AlignedInv, DmaAligned, HasRoom, loopVars

LEMMA PressAAligned ==
  ASSUME AlignedInv, NEW keys, PressA(keys)
  PROVE  AlignedInv'
<1>1. show_console' \in BOOLEAN /\ auto_advance' \in BOOLEAN
  BY Zenon DEF AlignedInv, TypeOK, PressA
<1>2. TypeOK'
  BY <1>1 DEF AlignedInv, TypeOK, PressA, displayVars
<1>3. QED
  BY <1>2 DEF AlignedInv, DmaAligned, HasRoom, PressA

LEMMA PressKeysAligned ==
  ASSUME AlignedInv, NEW keys, PressKeys(keys)
  PROVE  AlignedInv'
<1>1. show_console' \in BOOLEAN /\ auto_advance' \in BOOLEAN
  <2>1. show_console' \in BOOLEAN
    BY Zenon DEF AlignedInv, TypeOK, PressKeys
  <2>2. auto_advance' = (auto_advance # ("B" \in keys))
    BY DEF PressKeys
  <2>3. QED
    BY <2>1, <2>2, Zenon
<1>2. /\ rom_offset \in Nat /\ rom_offset % 2 = 0
      /\ rom_offset' = Moved(rom_offset, keys) /\ rom_offset' <= MaxOffset
  BY DumperAssumption DEF AlignedInv, TypeOK, DmaAligned, PressKeys
<1>3. rom_offset' \in 0 .. MaxOffset /\ rom_offset' % 2 = 0
  BY <1>2, MovedEven, DumperAssumption
<1>4. \/ dma' = dma
      \/ dma' = [addr |-> rom_offset', left |-> nrombytes_per_frame]
  BY DEF PressKeys, dma_read_async
<1>5. /\ dma' \in [addr : 0 .. MaxOffset, left : 0 .. nrombytes_per_frame]
      /\ dma'.addr % 2 = 0 /\ dma'.left % 2 = 0
  <2>1. CASE dma' = dma
    BY <2>1 DEF AlignedInv, TypeOK, DmaAligned
  <2>2. CASE dma' = [addr |-> rom_offset', left |-> nrombytes_per_frame]
    <3>1. nrombytes_per_frame \in 0 .. nrombytes_per_frame
      BY FrameLength
    <3>2. QED
      BY <1>3, <2>2, <3>1, FrameLength
  <2>3. QED
    BY <1>4, <2>1, <2>2
<1>6. pc' \in {"render", "draw"}
      /\ UNCHANGED <<show_console, counter, rombuf, showing, ready, drawing>>
  BY DEF PressKeys, displayVars
<1>7. TypeOK'
  BY <1>1, <1>3, <1>5, <1>6 DEF AlignedInv, TypeOK
<1>8. HasRoom'
  BY DEF PressKeys, HasRoom
<1>9. QED
  BY <1>3, <1>5, <1>7, <1>8 DEF AlignedInv, DmaAligned

LEMMA TakeSurfaceAligned ==
  ASSUME AlignedInv, TakeSurface
  PROVE  AlignedInv'
<1>1. show_console' \in BOOLEAN /\ auto_advance' \in BOOLEAN
  BY Zenon DEF AlignedInv, TypeOK, TakeSurface, loopVars
<1>2. TypeOK'
  BY <1>1 DEF AlignedInv, TypeOK, TakeSurface, loopVars
<1>3. QED
  BY <1>2 DEF AlignedInv, DmaAligned, HasRoom, TakeSurface, loopVars

LEMMA ShowFrameAligned ==
  ASSUME AlignedInv, drawing >= 1, NEW surf \in Surfaces, ShowFrame(surf),
         show_console' \in BOOLEAN
  PROVE  AlignedInv'
<1>1. auto_advance' \in BOOLEAN
  BY Zenon DEF AlignedInv, TypeOK, ShowFrame
<1>2. counter' \in Byte
  <2>1. counter + 1 \in Nat /\ ByteBase \in Nat /\ ByteBase >= 2
    BY ByteBaseAssumption DEF AlignedInv, TypeOK, Byte
  <2>2. QED
    BY <2>1, DivMod DEF ShowFrame, Byte
<1>3. ready' \in Seq(Surfaces) /\ drawing' \in Nat
  BY QueueTypes DEF AlignedInv, TypeOK, ShowFrame
<1>4. TypeOK'
  BY <1>1, <1>2, <1>3 DEF AlignedInv, TypeOK, ShowFrame
<1>5. QED
  BY <1>4 DEF AlignedInv, DmaAligned, HasRoom, ShowFrame

LEMMA EndHoldAligned ==
  ASSUME AlignedInv, EndHold
  PROVE  AlignedInv'
<1>1. show_console' \in BOOLEAN /\ auto_advance' \in BOOLEAN
  BY Zenon DEF AlignedInv, TypeOK, EndHold
<1>2. rom_offset' \in 0 .. MaxOffset /\ rom_offset' % 2 = 0
  <2>1. rom_offset \in Nat /\ rom_offset % 2 = 0 /\ rom_offset <= MaxOffset
    BY DumperAssumption DEF AlignedInv, TypeOK, DmaAligned
  <2>2. CASE auto_advance
    BY <2>1, <2>2, FrameLength, EvenSums, DumperAssumption
       DEF AlignedInv, HasRoom, EndHold
  <2>3. CASE ~auto_advance
    BY <2>1, <2>3, DumperAssumption DEF EndHold
  <2>4. QED
    BY <2>2, <2>3
<1>3. TypeOK'
  BY <1>1, <1>2 DEF AlignedInv, TypeOK, EndHold, displayVars
<1>4. QED
  BY <1>2, <1>3 DEF AlignedInv, DmaAligned, HasRoom, EndHold

(* What one step of the DMA engine puts into rombuf.                       *)
LEMMA TransferStep ==
  ASSUME AlignedInv, DmaTransfer
  PROVE  LET done == nrombytes_per_frame - dma.left
         IN  /\ done \in Nat /\ done + 2 <= nrombytes_per_frame /\ dma.left >= 2
             /\ dma.addr \in Nat /\ dma.addr <= MaxOffset
             /\ dma'.addr = dma.addr /\ dma'.left = dma.left - 2
             /\ rombuf' \in [1 .. nrombytes_per_frame -> Byte \cup {Uninitialized}]
             /\ \A i \in 1 .. nrombytes_per_frame :
                  rombuf'[i] = IF i \in {done + 1, done + 2} THEN CartByte(dma.addr + i - 1)
                                                             ELSE rombuf[i]
<1> DEFINE done == nrombytes_per_frame - dma.left
<1>1. /\ dma.left \in Nat /\ dma.left <= nrombytes_per_frame
      /\ dma.addr \in Nat /\ dma.addr <= MaxOffset
      /\ dma.left % 2 = 0 /\ dma.left > 0
      /\ rombuf \in [1 .. nrombytes_per_frame -> Byte \cup {Uninitialized}]
  BY DumperAssumption, FrameLength DEF AlignedInv, TypeOK, DmaAligned, DmaTransfer
<1>2. dma.left >= 2
  BY <1>1
<1>3. done \in Nat /\ done + 2 <= nrombytes_per_frame
  BY <1>1, <1>2, FrameLength
<1>4. /\ rombuf' = [rombuf EXCEPT ![done + 1] = CartByte(dma.addr + done),
                                  ![done + 2] = CartByte(dma.addr + done + 1)]
      /\ dma' = [dma EXCEPT !.left = @ - 2]
  BY DEF DmaTransfer
<1>5. dma'.addr = dma.addr /\ dma'.left = dma.left - 2
  BY <1>4 DEF AlignedInv, TypeOK
<1> HIDE DEF done
<1>6. CartByte(dma.addr + done) \in Byte /\ CartByte(dma.addr + done + 1) \in Byte
  <2>1. /\ dma.addr + done \in 0 .. MaxOffset + nrombytes_per_frame
        /\ dma.addr + done + 1 \in 0 .. MaxOffset + nrombytes_per_frame
    BY <1>1, <1>3, FrameLength, DumperAssumption
  <2>2. QED
    BY <2>1, CartAssumption
<1>7. /\ rombuf' \in [1 .. nrombytes_per_frame -> Byte \cup {Uninitialized}]
      /\ \A i \in 1 .. nrombytes_per_frame :
           rombuf'[i] = IF i = done + 2 THEN CartByte(dma.addr + done + 1)
                        ELSE IF i = done + 1 THEN CartByte(dma.addr + done)
                        ELSE rombuf[i]
  BY <1>1, <1>3, <1>4, <1>6, FrameLength
<1>8. done + 1 # done + 2
  BY <1>3
<1>9. \A i \in 1 .. nrombytes_per_frame :
        rombuf'[i] = IF i \in {done + 1, done + 2} THEN CartByte(dma.addr + i - 1)
                                                   ELSE rombuf[i]
  <2> SUFFICES ASSUME NEW i \in 1 .. nrombytes_per_frame
               PROVE  rombuf'[i] = IF i \in {done + 1, done + 2}
                                     THEN CartByte(dma.addr + i - 1) ELSE rombuf[i]
    OBVIOUS
  <2>1. CASE i = done + 2
    <3>1. rombuf'[i] = CartByte(dma.addr + done + 1)
      BY <1>7, <2>1
    <3>2. dma.addr + i - 1 = dma.addr + done + 1
      BY <1>1, <1>3, <2>1
    <3>3. QED
      BY <2>1, <3>1, <3>2
  <2>2. CASE i = done + 1
    <3>1. rombuf'[i] = CartByte(dma.addr + done)
      BY <1>7, <1>8, <2>2
    <3>2. dma.addr + i - 1 = dma.addr + done
      BY <1>1, <1>3, <2>2
    <3>3. QED
      BY <2>2, <3>1, <3>2
  <2>3. CASE i \notin {done + 1, done + 2}
    BY <1>7, <2>3
  <2>4. QED
    BY <2>1, <2>2, <2>3
<1>10. QED
  BY <1>1, <1>2, <1>3, <1>5, <1>7, <1>9 DEF done

LEMMA DmaTransferAligned ==
  ASSUME AlignedInv, DmaTransfer
  PROVE  AlignedInv'
<1>1. show_console' \in BOOLEAN /\ auto_advance' \in BOOLEAN
  BY Zenon DEF AlignedInv, TypeOK, DmaTransfer, loopVars
<1>2. /\ dma' \in [addr : 0 .. MaxOffset, left : 0 .. nrombytes_per_frame]
      /\ dma'.addr % 2 = 0 /\ dma'.left % 2 = 0
  <2>1. /\ dma' = [dma EXCEPT !.left = @ - 2]
        /\ dma \in [addr : 0 .. MaxOffset, left : 0 .. nrombytes_per_frame]
        /\ dma.addr % 2 = 0 /\ dma.left % 2 = 0 /\ dma.left >= 2
    BY TransferStep DEF AlignedInv, TypeOK, DmaAligned, DmaTransfer
  <2>2. dma.left \in Nat /\ dma.left - 2 \in 0 .. nrombytes_per_frame
        /\ (dma.left - 2) % 2 = 0
    BY <2>1, FrameLength
  <2>3. QED
    BY <2>1, <2>2
<1>3. rombuf' \in [1 .. nrombytes_per_frame -> Byte \cup {Uninitialized}]
  BY TransferStep
<1>4. TypeOK'
  BY <1>1, <1>2, <1>3 DEF AlignedInv, TypeOK, DmaTransfer, loopVars, displayVars
<1>5. QED
  BY <1>2, <1>4 DEF AlignedInv, DmaAligned, HasRoom, DmaTransfer, loopVars

LEMMA VBlankAligned ==
  ASSUME AlignedInv, VBlank
  PROVE  AlignedInv'
<1>1. show_console' \in BOOLEAN /\ auto_advance' \in BOOLEAN
  BY Zenon DEF AlignedInv, TypeOK, VBlank, loopVars
<1>2. showing' \in Surfaces /\ ready' \in Seq(Surfaces)
  BY QueueTypes DEF AlignedInv, TypeOK, VBlank
<1>3. TypeOK'
  BY <1>1, <1>2 DEF AlignedInv, TypeOK, VBlank, loopVars
<1>4. QED
  BY <1>3 DEF AlignedInv, DmaAligned, HasRoom, VBlank, loopVars

-----------------------------------------------------------------------------
(* Surfaces.                                                               *)

LEMMA QueueLengths ==
  ASSUME TypeOK
  PROVE  /\ Len(ready) \in Nat
         /\ \A surf \in Surfaces : Len(Append(ready, surf)) = Len(ready) + 1
         /\ ready # <<>> => Len(ready) >= 1 /\ Len(Tail(ready)) = Len(ready) - 1
<1>1. ready \in Seq(Surfaces)
  BY DEF TypeOK
<1>2. QED
  BY <1>1

LEMMA SurfacesStep ==
  ASSUME TypeOK, SurfacesAccounted, [Next]_vars
  PROVE  SurfacesAccounted'
<1> USE DumperAssumption
<1>1. Len(ready) \in Nat /\ drawing \in Nat
      /\ drawing = (IF pc = "dma_wait" THEN 1 ELSE 0)
      /\ Len(ready) + drawing + 1 <= N_BUFFERS
  BY QueueLengths DEF TypeOK, SurfacesAccounted
<1>2. CASE ShowBlank \/ RenderConsole
  <2>1. /\ Len(ready') = Len(ready) + 1 /\ drawing' = drawing
        /\ pc # "dma_wait" /\ pc' # "dma_wait" /\ display_get_returns
    BY <1>2, QueueLengths, NoCodeType DEF ShowBlank, RenderConsole
  <2>2. QED
    BY <1>1, <2>1 DEF SurfacesAccounted, display_get_returns
<1>3. CASE TakeSurface
  BY <1>1, <1>3 DEF TakeSurface, SurfacesAccounted, display_get_returns
<1>4. ASSUME NEW surf \in Surfaces, ShowFrame(surf)
      PROVE  SurfacesAccounted'
  <2>1. /\ Len(ready') = Len(ready) + 1 /\ drawing' = drawing - 1
        /\ pc = "dma_wait" /\ pc' = "hold"
    BY <1>4, QueueLengths DEF ShowFrame
  <2>2. QED
    BY <1>1, <2>1 DEF SurfacesAccounted
<1>5. CASE EncodeFrame
  BY <1>4, <1>5, PayloadType DEF EncodeFrame
<1>6. CASE EncodeFails
  BY <1>4, <1>6, NoCodeType DEF EncodeFails
<1>7. CASE VBlank
  <2>1. Len(ready') = Len(ready) - 1 /\ drawing' = drawing /\ pc' = pc
    BY <1>7, QueueLengths DEF VBlank
  <2>2. QED
    BY <1>1, <2>1 DEF SurfacesAccounted
<1>8. CASE \/ Scan \/ EndHold \/ DmaTransfer \/ UNCHANGED vars
  <2>1. ready' = ready /\ drawing' = drawing
    BY <1>8 DEF Scan, PressA, PressKeys, EndHold, DmaTransfer, displayVars, vars
  <2>2. pc' = "dma_wait" <=> pc = "dma_wait"
    BY <1>8 DEF Scan, PressA, PressKeys, EndHold, DmaTransfer, vars
  <2>3. QED
    BY <1>1, <2>1, <2>2 DEF SurfacesAccounted
<1>9. QED
  BY <1>2, <1>3, <1>5, <1>6, <1>7, <1>8 DEF Next

LoopInv == AlignedInv /\ SurfacesAccounted

LEMMA AlignedStep ==
  ASSUME LoopInv, [Next]_vars
  PROVE  AlignedInv'
<1>1. ASSUME NEW keys, PressA(keys)
      PROVE  AlignedInv'
  BY <1>1, PressAAligned DEF LoopInv
<1>2. ASSUME NEW keys, PressKeys(keys)
      PROVE  AlignedInv'
  BY <1>2, PressKeysAligned DEF LoopInv
<1>3. CASE ShowBlank \/ RenderConsole
  BY <1>3, BlankAligned DEF LoopInv
<1>4. CASE TakeSurface
  BY <1>4, TakeSurfaceAligned DEF LoopInv
<1>5. ASSUME NEW surf \in Surfaces, ShowFrame(surf), show_console' \in BOOLEAN
      PROVE  AlignedInv'
  <2>1. drawing >= 1
    BY <1>5 DEF LoopInv, SurfacesAccounted, ShowFrame
  <2>2. QED
    BY <1>5, <2>1, ShowFrameAligned DEF LoopInv
<1>6. CASE EncodeFrame
  <2>1. show_console' \in BOOLEAN
    BY <1>6, Zenon DEF EncodeFrame, LoopInv, AlignedInv, TypeOK
  <2>2. QED
    BY <1>5, <1>6, <2>1, PayloadType DEF EncodeFrame, LoopInv, AlignedInv
<1>7. CASE EncodeFails
  <2>1. show_console' \in BOOLEAN
    BY <1>7, Zenon DEF EncodeFails
  <2>2. QED
    BY <1>5, <1>7, <2>1, NoCodeType DEF EncodeFails
<1>8. CASE EndHold
  BY <1>8, EndHoldAligned DEF LoopInv
<1>9. CASE DmaTransfer
  BY <1>9, DmaTransferAligned DEF LoopInv
<1>10. CASE VBlank
  BY <1>10, VBlankAligned DEF LoopInv
<1>11. CASE UNCHANGED vars
  <2>1. show_console' \in BOOLEAN /\ auto_advance' \in BOOLEAN
    BY <1>11, Zenon DEF vars, LoopInv, AlignedInv, TypeOK
  <2>2. TypeOK'
    BY <1>11, <2>1 DEF vars, LoopInv, AlignedInv, TypeOK
  <2>3. QED
    BY <1>11, <2>2 DEF vars, LoopInv, AlignedInv, DmaAligned, HasRoom
<1>12. QED
  BY <1>1, <1>2, <1>3, <1>4, <1>6, <1>7, <1>8, <1>9, <1>10, <1>11 DEF Next, Scan

THEOREM LoopInvariant == Spec => []LoopInv
<1>1. Init => LoopInv
  BY AlignedInvInit, DumperAssumption DEF LoopInv, Init, SurfacesAccounted
<1>2. LoopInv /\ [Next]_vars => LoopInv'
  BY AlignedStep, SurfacesStep DEF LoopInv, AlignedInv
<1>3. QED
  BY <1>1, <1>2, PTL DEF Spec

(* TypeOK: the variables of the loop keep their types.                     *)
THEOREM DumperTypeCorrect == Spec => []TypeOK
<1>1. LoopInv => TypeOK
  BY DEF LoopInv, AlignedInv
<1>2. QED
  BY <1>1, LoopInvariant, PTL

(* DmaAligned: the offset and every transfer stay on halfwords.            *)
THEOREM OffsetStaysAligned == Spec => []DmaAligned
<1>1. LoopInv => DmaAligned
  BY DEF LoopInv, AlignedInv
<1>2. QED
  BY <1>1, LoopInvariant, PTL

(* SurfacesAccounted: the loop gives back every surface it takes.          *)
THEOREM NoSurfaceLeaks == Spec => []SurfacesAccounted
<1>1. LoopInv => SurfacesAccounted
  BY DEF LoopInv
<1>2. QED
  BY <1>1, LoopInvariant, PTL

-----------------------------------------------------------------------------
(* What the codes say.  While a frame is under way the part of rombuf that *)
(* has arrived is the cartridge's, from the offset that the header gets.   *)

TransferInv ==
  pc \in {"draw", "dma_wait"} =>
    /\ dma.addr = rom_offset
    /\ \A i \in 1 .. nrombytes_per_frame :
         i <= nrombytes_per_frame - dma.left => rombuf[i] = CartByte(dma.addr + i - 1)

LEMMA TransferInvStep ==
  ASSUME AlignedInv, TransferInv, [Next]_vars
  PROVE  TransferInv'
<1>0. ASSUME NEW keys, PressA(keys)
      PROVE  TransferInv'
  BY <1>0 DEF PressA, TransferInv
<1>1. CASE ShowBlank \/ RenderConsole \/ EndHold
  BY <1>1 DEF ShowBlank, RenderConsole, EndHold, TransferInv
<1>2. ASSUME NEW keys, PressKeys(keys)
      PROVE  TransferInv'
  <2>1. CASE show_console
    BY <1>2, <2>1 DEF PressKeys, TransferInv
  <2>2. CASE ~show_console
    <3>1. dma' = [addr |-> rom_offset', left |-> nrombytes_per_frame]
      BY <1>2, <2>2 DEF PressKeys, dma_read_async
    <3>2. dma'.addr = rom_offset' /\ dma'.left = nrombytes_per_frame
      BY <3>1
    <3>3. \A i \in 1 .. nrombytes_per_frame : ~(i <= nrombytes_per_frame - dma'.left)
      BY <3>2, FrameLength
    <3>4. QED
      BY <3>2, <3>3 DEF TransferInv
  <2>3. QED
    BY <2>1, <2>2
<1>3. CASE EncodeFrame \/ EncodeFails
  BY <1>3 DEF EncodeFrame, EncodeFails, ShowFrame, TransferInv
<1>4. CASE TakeSurface \/ VBlank \/ UNCHANGED vars
  BY <1>4 DEF TakeSurface, VBlank, vars, loopVars, TransferInv
<1>5. CASE DmaTransfer
  <2> DEFINE done == nrombytes_per_frame - dma.left
  <2>1. /\ done \in Nat /\ dma'.addr = dma.addr /\ dma'.left = dma.left - 2
        /\ dma.left \in Nat /\ nrombytes_per_frame \in Nat
        /\ \A i \in 1 .. nrombytes_per_frame :
             rombuf'[i] = IF i \in {done + 1, done + 2} THEN CartByte(dma.addr + i - 1)
                                                        ELSE rombuf[i]
    BY <1>5, TransferStep, FrameLength DEF AlignedInv, TypeOK
  <2>2. pc' = pc /\ rom_offset' = rom_offset
    BY <1>5 DEF DmaTransfer, loopVars
  <2>3. ASSUME pc \in {"draw", "dma_wait"}, NEW i \in 1 .. nrombytes_per_frame,
               i <= nrombytes_per_frame - dma'.left
        PROVE  rombuf'[i] = CartByte(dma.addr + i - 1)
    <3>1. i <= done \/ i \in {done + 1, done + 2}
      BY <2>1, <2>3
    <3>2. CASE i \in {done + 1, done + 2}
      BY <2>1, <3>2
    <3>3. CASE i \notin {done + 1, done + 2}
      BY <2>1, <2>3, <3>1, <3>3 DEF TransferInv
    <3>4. QED
      BY <3>2, <3>3
  <2>4. QED
    BY <2>1, <2>2, <2>3 DEF TransferInv
<1>6. QED
  BY <1>0, <1>1, <1>2, <1>3, <1>4, <1>5 DEF Next, Scan

(* The codes on the surfaces are payloads: what the cartridge has from a   *)
(* halfword within the bound on, behind the header for its offset.         *)
Halfwords == {offset \in 0 .. MaxOffset : offset % 2 = 0}
CartBytes(offset) == [i \in 1 .. nrombytes_per_frame |-> CartByte(offset + i - 1)]

Made(surf) ==
  IsFrame(surf) =>
    \E c \in Byte, offset \in Halfwords : surf.data = Payload(c, offset, CartBytes(offset))

FramesMade == Made(showing) /\ \A i \in 1 .. Len(ready) : Made(ready[i])

LEMMA CartBytesType ==
  ASSUME NEW offset \in 0 .. MaxOffset
  PROVE  /\ offset \in Nat /\ offset < WordSize
         /\ CartBytes(offset) \in Seq(Byte)
         /\ Len(CartBytes(offset)) = nrombytes_per_frame
<1>1. /\ nrombytes_per_frame \in Nat /\ offset \in Nat /\ offset <= MaxOffset
      /\ MaxOffset \in Nat /\ WordSize \in Nat /\ MaxOffset < WordSize
  BY FrameLength, DumperAssumption, WordSizeType
<1>2. \A i \in 1 .. nrombytes_per_frame : CartByte(offset + i - 1) \in Byte
  BY <1>1, CartAssumption
<1>3. QED
  BY <1>1, <1>2 DEF CartBytes

LEMMA MadeIsGenuine ==
  ASSUME NEW surf, Made(surf)
  PROVE  Genuine(surf)
<1> SUFFICES ASSUME IsFrame(surf)
             PROVE  Genuine(surf)
  BY DEF Genuine
<1>1. PICK c \in Byte, offset \in Halfwords :
        surf.data = Payload(c, offset, CartBytes(offset))
  BY DEF Made
<1> offset \in 0 .. MaxOffset /\ offset % 2 = 0
  BY DEF Halfwords
<1>2. OffsetOf(surf.data) = offset /\ BytesOf(surf.data) = CartBytes(offset)
  BY <1>1, CartBytesType, RoundTrip
<1>3. \A i \in 1 .. nrombytes_per_frame : CartBytes(offset)[i] = CartByte(offset + i - 1)
  BY DEF CartBytes
<1>4. QED
  BY <1>2, <1>3, CartBytesType DEF Genuine

(* The code that is made after dma_wait, and the offset it carries.        *)
LEMMA PayloadMade ==
  ASSUME AlignedInv, TransferInv, pc = "dma_wait", dma.left = 0
  PROVE  /\ Made(Frame(Payload(counter, rom_offset, rombuf)))
         /\ OffsetOf(Payload(counter, rom_offset, rombuf)) = rom_offset
<1>1. nrombytes_per_frame \in Nat /\ counter \in Byte /\ rom_offset \in 0 .. MaxOffset
  BY FrameLength DEF AlignedInv, TypeOK
<1>2. \A i \in 1 .. nrombytes_per_frame : rombuf[i] = CartByte(rom_offset + i - 1)
  BY <1>1 DEF TransferInv
<1>3. rombuf = CartBytes(rom_offset)
  BY <1>1, <1>2 DEF AlignedInv, TypeOK, CartBytes
<1>4. OffsetOf(Payload(counter, rom_offset, rombuf)) = rom_offset
  BY <1>1, <1>3, CartBytesType, RoundTrip
<1>5. rom_offset \in Halfwords
  BY <1>1 DEF AlignedInv, DmaAligned, Halfwords
<1>6. QED
  BY <1>1, <1>3, <1>4, <1>5 DEF Made, Frame

(* Appending to the queue keeps what is in it; a flip keeps its order.     *)
LEMMA QueueElements ==
  ASSUME TypeOK
  PROVE  /\ \A surf \in Surfaces :
              /\ \A i \in 1 .. Len(ready) : Append(ready, surf)[i] = ready[i]
              /\ Append(ready, surf)[Len(ready) + 1] = surf
              /\ Append(ready, surf) # <<>>
         /\ ready # <<>> =>
              /\ Head(ready) = ready[1]
              /\ \A i \in 1 .. Len(ready) - 1 : Tail(ready)[i] = ready[i + 1]
              /\ Tail(ready) = <<>> <=> Len(ready) = 1
<1>1. ready \in Seq(Surfaces)
  BY DEF TypeOK
<1>2. ASSUME NEW surf \in Surfaces
      PROVE  /\ \A i \in 1 .. Len(ready) : Append(ready, surf)[i] = ready[i]
             /\ Append(ready, surf)[Len(ready) + 1] = surf
             /\ Append(ready, surf) # <<>>
  BY <1>1
<1>3. ASSUME ready # <<>>
      PROVE  /\ Head(ready) = ready[1]
             /\ \A i \in 1 .. Len(ready) - 1 : Tail(ready)[i] = ready[i + 1]
             /\ Tail(ready) = <<>> <=> Len(ready) = 1
  <2>1. /\ Head(ready) = ready[1]
        /\ \A i \in 1 .. Len(ready) - 1 : Tail(ready)[i] = ready[i + 1]
    BY <1>1, <1>3
  <2>2. Tail(ready) \in Seq(Surfaces) /\ Len(Tail(ready)) = Len(ready) - 1
        /\ Len(ready) \in Nat
    BY <1>1, <1>3
  <2>3. Tail(ready) = <<>> <=> Len(Tail(ready)) = 0
    BY <2>2, EmptySeq
  <2>4. QED
    BY <2>1, <2>2, <2>3
<1>4. QED
  BY <1>2, <1>3

LEMMA QueueMade ==
  ASSUME TypeOK, FramesMade, NEW surf \in Surfaces, Made(surf),
         ready' = Append(ready, surf), showing' = showing
  PROVE  FramesMade'
<1>1. Len(ready') = Len(ready) + 1 /\ Len(ready) \in Nat
  BY QueueLengths
<1>2. ASSUME NEW i \in 1 .. Len(ready')
      PROVE  Made(ready'[i])
  <2>1. CASE i = Len(ready) + 1
    BY <2>1, QueueElements
  <2>2. CASE i # Len(ready) + 1
    <3>1. i \in 1 .. Len(ready)
      BY <1>1, <2>2
    <3>2. QED
      BY <3>1, QueueElements DEF FramesMade
  <2>3. QED
    BY <2>1, <2>2
<1>3. QED
  BY <1>2 DEF FramesMade, Made, IsFrame

LEMMA FramesMadeStep ==
  ASSUME AlignedInv, TransferInv, FramesMade, [Next]_vars
  PROVE  FramesMade'
<1>1. TypeOK
  BY DEF AlignedInv
<1>2. CASE ShowBlank \/ RenderConsole \/ EncodeFails
  <2>1. ready' = Append(ready, NoCode) /\ showing' = showing
    BY <1>2 DEF ShowBlank, RenderConsole, EncodeFails, ShowFrame
  <2>2. Made(NoCode)
    BY DEF Made, IsFrame, NoCode
  <2>3. QED
    BY <1>1, <2>1, <2>2, NoCodeType, QueueMade
<1>3. CASE EncodeFrame
  <2> DEFINE surf == Frame(Payload(counter, rom_offset, rombuf))
  <2>1. ready' = Append(ready, surf) /\ showing' = showing
    BY <1>3 DEF EncodeFrame, ShowFrame
  <2>2. Made(surf) /\ surf \in Surfaces
    BY <1>1, <1>3, PayloadMade, PayloadType DEF EncodeFrame, ShowFrame
  <2> HIDE DEF surf
  <2>3. QED
    BY <1>1, <2>1, <2>2, QueueMade
<1>4. CASE VBlank
  <2>1. ready # <<>> /\ showing' = Head(ready) /\ ready' = Tail(ready)
    BY <1>4 DEF VBlank
  <2>2. Len(ready') = Len(ready) - 1 /\ Len(ready) >= 1 /\ Len(ready) \in Nat
    BY <1>1, <2>1, QueueLengths
  <2>3. Made(showing')
    BY <1>1, <2>1, <2>2, QueueElements DEF FramesMade
  <2>4. \A i \in 1 .. Len(ready') : Made(ready'[i])
    <3> SUFFICES ASSUME NEW i \in 1 .. Len(ready')
                 PROVE  Made(ready'[i])
      OBVIOUS
    <3>1. i \in 1 .. Len(ready) - 1 /\ i + 1 \in 1 .. Len(ready)
      BY <2>2
    <3>2. ready'[i] = ready[i + 1]
      BY <1>1, <2>1, <3>1, QueueElements
    <3>3. QED
      BY <3>1, <3>2 DEF FramesMade
  <2>5. QED
    BY <2>3, <2>4 DEF FramesMade, Made, IsFrame
<1>5. CASE Scan \/ TakeSurface \/ EndHold \/ DmaTransfer \/ UNCHANGED vars
  <2>1. ready' = ready /\ showing' = showing
    BY <1>5 DEF Scan, PressA, PressKeys, TakeSurface, EndHold, DmaTransfer, displayVars,
                vars
  <2>2. QED
    BY <2>1 DEF FramesMade, Made, IsFrame
<1>6. QED
  BY <1>2, <1>3, <1>4, <1>5 DEF Next

GenuineInv == LoopInv /\ TransferInv /\ FramesMade

LEMMA GenuineInvInit == Init => GenuineInv
<1>1. Init => LoopInv
  BY AlignedInvInit, DumperAssumption DEF LoopInv, Init, SurfacesAccounted
<1>2. Init => TransferInv
  BY DEF Init, TransferInv
<1>3. Made(NoCode)
  BY DEF Made, IsFrame, NoCode
<1>4. Init => FramesMade
  BY <1>3 DEF Init, FramesMade
<1>5. QED
  BY <1>1, <1>2, <1>4 DEF GenuineInv

LEMMA GenuineInvStep == GenuineInv /\ [Next]_vars => GenuineInv'
BY AlignedStep, SurfacesStep, TransferInvStep, FramesMadeStep
   DEF GenuineInv, LoopInv, AlignedInv

LEMMA GenuineInvariant == Spec => []GenuineInv
BY GenuineInvInit, GenuineInvStep, PTL DEF Spec

(* FramesGenuine: whatever code the camera can see, its bytes are those of *)
(* the cartridge from the offset in its header on, a multiple of 2.        *)
THEOREM CodesTellTheTruth == Spec => []FramesGenuine
<1>1. GenuineInv => FramesGenuine
  BY MadeIsGenuine DEF GenuineInv, FramesMade, FramesGenuine
<1>2. QED
  BY <1>1, GenuineInvariant, PTL

-----------------------------------------------------------------------------
(* What the loop passes over.                                              *)

HeldInv ==
  pc = "hold" => \/ show_console
                 \/ IsFrame(LastShown) /\ OffsetOf(LastShown.data) = rom_offset

LEMMA HeldInvStep ==
  ASSUME AlignedInv, TransferInv, HeldInv, [Next]_vars
  PROVE  HeldInv'
<1>1. TypeOK
  BY DEF AlignedInv
<1>2. CASE Scan \/ ShowBlank \/ RenderConsole \/ TakeSurface \/ EndHold
  BY <1>2 DEF Scan, PressA, PressKeys, ShowBlank, RenderConsole, TakeSurface, EndHold,
              HeldInv
<1>3. CASE EncodeFails
  BY <1>3 DEF EncodeFails, HeldInv
<1>4. CASE EncodeFrame
  <2> DEFINE surf == Frame(Payload(counter, rom_offset, rombuf))
  <2>1. ready' = Append(ready, surf) /\ rom_offset' = rom_offset
    BY <1>4 DEF EncodeFrame, ShowFrame
  <2>2. surf \in Surfaces /\ IsFrame(surf) /\ OffsetOf(surf.data) = rom_offset
    BY <1>1, <1>4, PayloadMade, PayloadType DEF EncodeFrame, ShowFrame, Frame, IsFrame
  <2> HIDE DEF surf
  <2>3. LastShown' = surf
    BY <1>1, <2>1, <2>2, QueueElements, QueueLengths DEF LastShown
  <2>4. QED
    BY <2>1, <2>2, <2>3 DEF HeldInv, IsFrame, OffsetOf
<1>5. CASE VBlank
  <2>1. /\ ready # <<>> /\ showing' = Head(ready) /\ ready' = Tail(ready)
        /\ UNCHANGED <<pc, show_console, rom_offset>>
    BY <1>5 DEF VBlank, loopVars
  <2>2. LastShown' = LastShown
    <3>1. /\ Len(ready) \in Nat /\ Len(ready) >= 1
          /\ Len(ready') = Len(ready) - 1
      BY <1>1, <2>1, QueueLengths
    <3>2. CASE Len(ready) = 1
      BY <1>1, <2>1, <3>1, <3>2, QueueElements DEF LastShown
    <3>3. CASE Len(ready) # 1
      <4>1. ready' # <<>> /\ Len(ready) - 1 \in 1 .. Len(ready) - 1
        BY <1>1, <2>1, <3>1, <3>3, QueueElements
      <4>2. ready'[Len(ready) - 1] = ready[Len(ready)]
        BY <1>1, <2>1, <3>1, <4>1, QueueElements
      <4>3. QED
        BY <2>1, <3>1, <4>1, <4>2 DEF LastShown
    <3>4. QED
      BY <3>2, <3>3
  <2>3. QED
    BY <2>1, <2>2 DEF HeldInv, IsFrame, OffsetOf
<1>6. CASE DmaTransfer \/ UNCHANGED vars
  BY <1>6 DEF DmaTransfer, loopVars, displayVars, vars, HeldInv, LastShown, IsFrame,
              OffsetOf
<1>7. QED
  BY <1>2, <1>3, <1>4, <1>5, <1>6 DEF Next

(* NoSilentSkip: the loop advances past an offset only when its code has   *)
(* been given to the display or the console is up with the error.          *)
THEOREM NothingSkippedSilently == Spec => NoSilentSkip
<1>1. Init => HeldInv
  BY DEF Init, HeldInv
<1>2. GenuineInv /\ HeldInv /\ [Next]_vars => HeldInv'
  BY HeldInvStep DEF GenuineInv, LoopInv
<1>3. HeldInv => [pc = "hold" /\ rom_offset' # rom_offset
                    => \/ /\ IsFrame(LastShown)
                          /\ OffsetOf(LastShown.data) = rom_offset
                       \/ show_console]_vars
  BY DEF HeldInv
<1>4. QED
  BY <1>1, <1>2, <1>3, GenuineInvariant, PTL DEF Spec, NoSilentSkip

=============================================================================
