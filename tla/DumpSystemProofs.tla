--------------------------- MODULE DumpSystemProofs ---------------------------
(***************************************************************************)
(* The whole dump, for every cartridge: what is known of the ROM image is  *)
(* what the cartridge holds, and the dumper's codes end no worker of the   *)
(* decoder.  The proof puts together what DumperProofs shows of the        *)
(* console and DecodePoolProofs of the decoder.                            *)
(***************************************************************************)
EXTENDS DumpSystem, SequenceTheorems, TLAPS

DP == INSTANCE DumperProofs
PP == INSTANCE DecodePoolProofs WITH Images <- CameraImages

-----------------------------------------------------------------------------
(* The halves of the system are those the two proof modules are about.     *)

LEMMA SameCodec ==
  /\ DP!Byte = Byte /\ DP!WordSize = WordSize
  /\ PP!Byte = Byte /\ PP!WordSize = WordSize
  /\ DP!nrombytes_per_frame = D!nrombytes_per_frame
  /\ PP!n_header_bytes_per_frame = n_header_bytes_per_frame
BY DEF DP!Byte, Byte, DP!WordSize, WordSize, PP!Byte, PP!WordSize,
       DP!nrombytes_per_frame, D!nrombytes_per_frame, DP!n_header_bytes_per_frame,
       D!n_header_bytes_per_frame, PP!n_header_bytes_per_frame, n_header_bytes_per_frame

LEMMA SamePayload ==
  ASSUME NEW c, NEW offset, NEW bytes
  PROVE  /\ DP!Payload(c, offset, bytes) = Payload(c, offset, bytes)
         /\ D!Payload(c, offset, bytes) = Payload(c, offset, bytes)
BY DEF DP!Payload, DP!Shift8, D!Payload, D!Shift8, Payload, Shift8

LEMMA SameReading ==
  ASSUME NEW data
  PROVE  /\ PP!OffsetOf(data) = OffsetOf(data) /\ PP!BytesOf(data) = BytesOf(data)
         /\ DP!OffsetOf(data) = OffsetOf(data) /\ DP!BytesOf(data) = BytesOf(data)
BY DEF PP!OffsetOf, OffsetOf, PP!BytesOf, BytesOf, PP!n_header_bytes_per_frame,
       n_header_bytes_per_frame, DP!OffsetOf, DP!BytesOf, DP!n_header_bytes_per_frame

LEMMA SameDisplay ==
  /\ DP!NoCode = D!NoCode
  /\ \A data : DP!Frame(data) = D!Frame(data)
  /\ \A surf : DP!IsFrame(surf) <=> D!IsFrame(surf)
  /\ DP!display_get_returns <=> D!display_get_returns
BY DEF DP!NoCode, D!NoCode, DP!Frame, D!Frame, DP!IsFrame, D!IsFrame,
       DP!display_get_returns, D!display_get_returns

LEMMA SameInit == D!Init => DP!Init
BY SameCodec, SameDisplay DEF D!Init, DP!Init, DP!Uninitialized, D!Uninitialized

LEMMA SameDumper == D!Next => DP!Next
<1>1. ASSUME NEW keys
      PROVE  /\ D!PressA(keys) => DP!PressA(keys)
             /\ D!PressKeys(keys) => DP!PressKeys(keys)
  BY SameCodec DEF D!PressA, DP!PressA, D!PressKeys, DP!PressKeys, D!Moved, DP!Moved,
                   D!dma_read_async, DP!dma_read_async, D!displayVars, DP!displayVars
<1>2. D!Scan => DP!Scan
  BY <1>1 DEF D!Scan, DP!Scan
<1>3. /\ D!ShowBlank => DP!ShowBlank
      /\ D!RenderConsole => DP!RenderConsole
      /\ D!TakeSurface => DP!TakeSurface
  BY SameDisplay DEF D!ShowBlank, DP!ShowBlank, D!RenderConsole, DP!RenderConsole,
                     D!TakeSurface, DP!TakeSurface, D!loopVars, DP!loopVars
<1>4. ASSUME NEW surf
      PROVE  D!ShowFrame(surf) => DP!ShowFrame(surf)
  BY DEF D!ShowFrame, DP!ShowFrame
<1>5. D!EncodeFrame => DP!EncodeFrame
  BY <1>4, SameDisplay, SamePayload DEF D!EncodeFrame, DP!EncodeFrame
<1>6. D!EncodeFails => DP!EncodeFails
  BY <1>4, SameDisplay DEF D!EncodeFails, DP!EncodeFails
<1>7. D!EndHold => DP!EndHold
  BY SameCodec DEF D!EndHold, DP!EndHold, D!displayVars, DP!displayVars
<1>8. D!DmaTransfer => DP!DmaTransfer
  BY SameCodec DEF D!DmaTransfer, DP!DmaTransfer, D!loopVars, DP!loopVars,
                   D!displayVars, DP!displayVars
<1>9. D!VBlank => DP!VBlank
  BY DEF D!VBlank, DP!VBlank, D!loopVars, DP!loopVars
<1>10. QED
  BY <1>2, <1>3, <1>5, <1>6, <1>7, <1>8, <1>9 DEF D!Next, DP!Next

LEMMA SamePoolTerms ==
  /\ P!Workers = PP!Workers /\ P!Addr = PP!Addr
  /\ P!ROM_BYTE_UNKNOWN = PP!ROM_BYTE_UNKNOWN
  /\ P!LeastBusy = PP!LeastBusy
  /\ P!storeVars = PP!storeVars
  /\ \A w : P!Backlog(w) = PP!Backlog(w)
  /\ \A a : P!Known(a) <=> PP!Known(a)
BY DEF P!Workers, PP!Workers, P!Addr, PP!Addr, P!ROM_BYTE_UNKNOWN, PP!ROM_BYTE_UNKNOWN,
       P!LeastBusy, PP!LeastBusy, P!storeVars, PP!storeVars,
       P!Backlog, PP!Backlog, P!Known, PP!Known

LEMMA SamePoolInit == P!Init => PP!Init
BY SamePoolTerms DEF P!Init, PP!Init

LEMMA SameImage ==
  ASSUME NEW image
  PROVE  /\ P!Decodable(image) <=> PP!Decodable(image)
         /\ P!HasHeader(image) <=> PP!HasHeader(image)
         /\ P!Answer(image) = PP!Answer(image)
BY DEF P!Decodable, PP!Decodable, P!HasHeader, PP!HasHeader, P!Answer, PP!Answer,
       P!FragmentOf, PP!FragmentOf, P!OffsetOf, PP!OffsetOf, P!BytesOf, PP!BytesOf,
       P!n_header_bytes_per_frame, PP!n_header_bytes_per_frame, P!HL_SUCCESS,
       PP!HL_SUCCESS, P!HL_FAIL, PP!HL_FAIL

LEMMA SameProcessFrame ==
  ASSUME NEW image, P!ProcessFrame(image)
  PROVE  PP!ProcessFrame(image)
BY SamePoolTerms DEF P!ProcessFrame, PP!ProcessFrame, P!storeVars, PP!storeVars

LEMMA SameDecode ==
  ASSUME NEW w, P!DecodeImage(w) \/ P!DecodeImageAsserts(w)
  PROVE  PP!DecodeImage(w) \/ PP!DecodeImageAsserts(w)
BY SameImage DEF P!DecodeImage, PP!DecodeImage, P!DecodeImageAsserts, PP!DecodeImageAsserts,
                 P!storeVars, PP!storeVars

LEMMA SameFragment ==
  ASSUME NEW frag
  PROVE  /\ P!StoreAsserts(frag) <=> PP!StoreAsserts(frag)
         /\ P!Outside(frag) <=> PP!Outside(frag)
         /\ \A rom : P!Overlay(rom, frag) = PP!Overlay(rom, frag)
         /\ \A min : P!LowerMin(min, frag) = PP!LowerMin(min, frag)
         /\ \A max : P!RaiseMax(max, frag) = PP!RaiseMax(max, frag)
<1>1. P!WordSize = PP!WordSize /\ P!Addr = PP!Addr /\ P!End(frag) = PP!End(frag)
  BY DEF P!WordSize, PP!WordSize, P!Addr, PP!Addr, P!End, PP!End
<1>2. \A a : P!Place(frag, a) = PP!Place(frag, a)
  BY <1>1 DEF P!Place, PP!Place
<1>3. P!Outside(frag) <=> PP!Outside(frag)
  BY <1>1 DEF P!Outside, PP!Outside
<1>4. \A rom : P!Overlay(rom, frag) = PP!Overlay(rom, frag)
  BY <1>2 DEF P!Overlay, PP!Overlay
<1>5. QED
  BY <1>1, <1>3, <1>4
     DEF P!StoreAsserts, PP!StoreAsserts, P!LowerMin, PP!LowerMin, P!RaiseMax, PP!RaiseMax

LEMMA SameStore ==
  ASSUME NEW frag
  PROVE  P!store_rom_fragment(frag) => PP!store_rom_fragment(frag)
BY SameFragment DEF P!store_rom_fragment, PP!store_rom_fragment

LEMMA SameCallback ==
  ASSUME NEW w, P!Callback(w)
  PROVE  PP!Callback(w)
<1>1. P!TakeResponse(w) => PP!TakeResponse(w)
  BY DEF P!TakeResponse, PP!TakeResponse
<1>2. P!CallbackFails(w) => PP!CallbackFails(w)
  BY <1>1 DEF P!CallbackFails, PP!CallbackFails, P!storeVars, PP!storeVars, P!HL_SUCCESS,
              PP!HL_SUCCESS
<1>3. P!CallbackStores(w) => PP!CallbackStores(w)
  BY <1>1, SameStore DEF P!CallbackStores, PP!CallbackStores, P!HL_SUCCESS, PP!HL_SUCCESS
<1>4. P!CallbackAsserts(w) => PP!CallbackAsserts(w)
  BY <1>1, SameFragment DEF P!CallbackAsserts, PP!CallbackAsserts, P!HL_SUCCESS,
                         PP!HL_SUCCESS, P!storeVars, PP!storeVars
<1>5. P!CallbackDropped(w) => PP!CallbackDropped(w)
  BY DEF P!CallbackDropped, PP!CallbackDropped, P!storeVars, PP!storeVars
<1>6. QED
  BY <1>2, <1>3, <1>4, <1>5 DEF P!Callback, PP!Callback

-----------------------------------------------------------------------------
(* What the two proof modules assume holds here.                           *)

LEMMA MulType == \A a, b \in Nat : a * b \in Nat
  OBVIOUS

LEMMA WordSizeType == WordSize \in Nat
  BY ByteBaseAssumption, MulType DEF WordSize

LEMMA DumperAssumptions ==
  /\ DP!ByteBaseAssumption /\ DP!DumperAssumption
  /\ DP!DmaLengthAssumption /\ DP!CartAssumption
<1>1. D!nrombytes_per_frame \in Int
  BY SystemAssumption DEF D!nrombytes_per_frame, D!n_header_bytes_per_frame
<1>2. MaxOffset < WordSize
  BY <1>1, SystemAssumption, WordSizeType
<1>3. DP!DumperAssumption
  BY <1>2, SystemAssumption, SameCodec DEF DP!DumperAssumption, DP!Buttons, D!Buttons
<1>4. QED
  BY <1>3, SystemAssumption, SameCodec, ByteBaseAssumption
     DEF DP!ByteBaseAssumption, DP!DmaLengthAssumption, DP!CartAssumption

LEMMA CartFragmentType ==
  ASSUME NEW offset \in 0 .. MaxOffset
  PROVE  /\ offset \in Nat /\ offset < WordSize
         /\ CartFragment(offset) \in Seq(Byte)
         /\ Len(CartFragment(offset)) = D!nrombytes_per_frame
         /\ offset + D!nrombytes_per_frame < WordSize
         /\ D!nrombytes_per_frame \in Nat
<1>1. D!nrombytes_per_frame \in Nat
  BY SystemAssumption DEF D!nrombytes_per_frame, D!n_header_bytes_per_frame
<1>2. /\ offset \in Nat /\ offset < WordSize
      /\ offset + D!nrombytes_per_frame < WordSize
  BY <1>1, SystemAssumption, WordSizeType
<1>3. \A i \in 1 .. D!nrombytes_per_frame : CartByte(offset + i - 1) \in Byte
  BY <1>1, SystemAssumption
<1>4. QED
  BY <1>1, <1>2, <1>3 DEF CartFragment

LEMMA CartFragmentAt ==
  ASSUME NEW offset \in Nat, NEW a \in Int, D!nrombytes_per_frame \in Nat,
         offset <= a, a < offset + D!nrombytes_per_frame
  PROVE  CartFragment(offset)[a - offset + 1] = CartByte(a)
<1>1. a - offset + 1 \in 1 .. D!nrombytes_per_frame /\ offset + (a - offset + 1) - 1 = a
  OBVIOUS
<1>2. CartFragment(offset)[a - offset + 1] = CartByte(offset + (a - offset + 1) - 1)
  BY <1>1 DEF CartFragment
<1>3. QED
  BY <1>1, <1>2

(* A code of the dumper, and how the decoder reads it.                     *)
LEMMA CodeRead ==
  ASSUME NEW c \in Byte, NEW offset \in 0 .. MaxOffset
  PROVE  /\ Payload(c, offset, CartFragment(offset)) \in Seq(Byte)
         /\ Len(Payload(c, offset, CartFragment(offset))) >= n_header_bytes_per_frame
         /\ OffsetOf(Payload(c, offset, CartFragment(offset))) = offset
         /\ BytesOf(Payload(c, offset, CartFragment(offset))) = CartFragment(offset)
<1> DEFINE h == << c,
                   Shift8(Shift8(Shift8(offset))) % ByteBase,
                   Shift8(Shift8(offset)) % ByteBase,
                   Shift8(offset) % ByteBase,
                   offset % ByteBase >>
           bytes == CartFragment(offset)
<1>1. offset \in Nat /\ offset < WordSize /\ bytes \in Seq(Byte)
  BY CartFragmentType
<1>2. /\ Shift8(offset) \in Nat
      /\ Shift8(Shift8(offset)) \in Nat
      /\ Shift8(Shift8(Shift8(offset))) \in Nat
  BY <1>1, DP!DivMod, ByteBaseAssumption DEF Shift8
<1>3. h \in Seq(Byte) /\ Len(h) = 5
  BY <1>1, <1>2, DP!DivMod, ByteBaseAssumption DEF Byte
<1>4. Payload(c, offset, bytes) = h \o bytes
  BY DEF Payload
<1>5. OffsetOf(Payload(c, offset, bytes)) = offset /\ BytesOf(Payload(c, offset, bytes)) = bytes
  BY <1>1, DP!RoundTrip, DumperAssumptions, SameCodec, SamePayload, SameReading
<1> HIDE DEF h, bytes
<1>6. h \o bytes \in Seq(Byte) /\ Len(h \o bytes) = Len(h) + Len(bytes)
  BY <1>1, <1>3, ConcatProperties
<1>7. Len(h \o bytes) >= n_header_bytes_per_frame
  BY <1>1, <1>3, <1>6 DEF n_header_bytes_per_frame
<1>8. QED
  BY <1>4, <1>5, <1>6, <1>7 DEF bytes

(* Every picture is one the decoder's assumptions allow.                   *)
LEMMA PictureRead ==
  ASSUME NEW image \in CameraImages
  PROVE  /\ image \in Seq(Seq(Byte))
         /\ PP!Decodable(image) =>
              /\ PP!HasHeader(image)
              /\ \E offset \in Offsets :
                   /\ PP!OffsetOf(image[1]) = offset
                   /\ PP!BytesOf(image[1]) = CartFragment(offset)
<1>1. CASE image = <<>>
  BY <1>1 DEF PP!Decodable
<1>2. CASE image # <<>>
  <2>1. PICK c \in Byte, offset \in Offsets :
          image = <<Payload(c, offset, CartFragment(offset))>>
    BY <1>2 DEF CameraImages
  <2> DEFINE data == Payload(c, offset, CartFragment(offset))
  <2>2. /\ data \in Seq(Byte) /\ Len(data) >= n_header_bytes_per_frame
        /\ OffsetOf(data) = offset /\ BytesOf(data) = CartFragment(offset)
    BY CodeRead DEF Offsets
  <2>3. image = <<data>>
    BY <2>1
  <2> HIDE DEF data
  <2>4. image[1] = data /\ image \in Seq(Seq(Byte))
    BY <2>2, <2>3
  <2>5. QED
    BY <2>2, <2>4, SameReading, SameCodec DEF PP!HasHeader
<1>3. QED
  BY <1>1, <1>2

LEMMA PoolAssumptions ==
  PP!ByteBaseAssumption /\ PP!PoolAssumption
<1>1. CameraImages \subseteq Seq(Seq(PP!Byte))
  BY PictureRead, SameCodec
<1>2. PP!PoolAssumption
  BY <1>1, SystemAssumption, SameCodec DEF PP!PoolAssumption
<1>3. QED
  BY <1>2, ByteBaseAssumption DEF PP!ByteBaseAssumption

-----------------------------------------------------------------------------
(* The invariant of the system: those of the two halves.                   *)

DumperInv == DP!GenuineInv
DecoderInv == PP!PoolInv /\ PP!OnlyWrapsBreak /\ PP!BytesGenuine /\ PP!SizesExact

SystemInv == DumperInv /\ DecoderInv

LEMMA SystemInvInit == Init => SystemInv
<1>1. DP!Init => DP!GenuineInv
  BY DP!GenuineInvInit, DumperAssumptions
<1>2. PP!Init => PP!PoolInv
  BY PP!PoolInvInit, PoolAssumptions
<1>3. PP!Init => PP!BytesGenuine
  BY DEF PP!Init, PP!BytesGenuine, PP!Known
<1>4. PP!Init => PP!SizesExact
  BY PP!SizesExactInit, PoolAssumptions
<1>5. PP!Init => PP!OnlyWrapsBreak
  BY DEF PP!Init, PP!OnlyWrapsBreak
<1>6. QED
  BY <1>1, <1>2, <1>3, <1>4, <1>5, SameInit, SamePoolInit
     DEF Init, SystemInv, DumperInv, DecoderInv

(* What the camera sees is a picture the decoder is prepared for.          *)
LEMMA PicturesAreImages ==
  ASSUME DumperInv
  PROVE  Pictures(showing) \subseteq CameraImages
<1>1. DP!Made(showing)
  BY DEF DumperInv, DP!GenuineInv, DP!FramesMade
<1>2. ASSUME D!IsFrame(showing)
      PROVE  <<showing.data>> \in CameraImages
  <2>1. PICK c \in Byte, offset \in Offsets :
          showing.data = DP!Payload(c, offset, DP!CartBytes(offset))
    BY <1>1, <1>2, SameDisplay, SameCodec DEF DP!Made, DP!Halfwords, Offsets
  <2>2. DP!CartBytes(offset) = CartFragment(offset)
    BY SameCodec DEF DP!CartBytes, CartFragment
  <2>3. showing.data = Payload(c, offset, CartFragment(offset))
    BY <2>1, <2>2, SamePayload
  <2>4. QED
    BY <2>3 DEF CameraImages
<1>3. <<>> \in CameraImages
  BY DEF CameraImages
<1>4. QED
  BY <1>2, <1>3 DEF Pictures

LEMMA DumperInvStep ==
  ASSUME DumperInv, [DP!Next]_(DP!vars)
  PROVE  DumperInv'
BY DP!GenuineInvStep, DumperAssumptions DEF DumperInv

LEMMA DecoderInvStep ==
  ASSUME DecoderInv, [PP!Next]_(PP!vars)
  PROVE  DecoderInv'
<1>1. PP!PoolInv'
  BY PP!PoolInvStep, PoolAssumptions DEF DecoderInv
<1>2. PP!BytesGenuine'
  BY PP!BytesGenuineStep, PoolAssumptions DEF DecoderInv
<1>3. PP!SizesExact'
  BY PP!SizesExactStep, PoolAssumptions DEF DecoderInv
<1>4. PP!OnlyWrapsBreak'
  BY PP!OnlyWrapsBreakStep, PoolAssumptions DEF DecoderInv
<1>5. QED
  BY <1>1, <1>2, <1>3, <1>4 DEF DecoderInv

(* A step of the system is one of either half, or none.                    *)
LEMMA HalvesStep ==
  ASSUME SystemInv, [Next]_vars
  PROVE  [DP!Next]_(DP!vars) /\ [PP!Next]_(PP!vars)
<1>1. CASE DumperStep
  BY <1>1, SameDumper DEF DumperStep, PP!vars, decoderVars
<1>2. ASSUME NEW image \in Pictures(showing), Capture(image)
      PROVE  [DP!Next]_(DP!vars) /\ [PP!Next]_(PP!vars)
  <2>1. image \in CameraImages
    BY <1>2, PicturesAreImages DEF SystemInv
  <2>2. PP!Next
    BY <1>2, <2>1, SameProcessFrame DEF Capture, PP!Next
  <2>3. QED
    BY <1>2, <2>2 DEF Capture, DP!vars, dumperVars
<1>3. ASSUME NEW w \in P!Workers, Decode(w) \/ Callback(w)
      PROVE  [DP!Next]_(DP!vars) /\ [PP!Next]_(PP!vars)
  <2>1. PP!DecodeImage(w) \/ PP!DecodeImageAsserts(w) \/ PP!Callback(w)
    BY <1>3, SameDecode, SameCallback DEF Decode, Callback
  <2>2. PP!Next
    BY <1>3, <2>1, SamePoolTerms DEF PP!Next
  <2>3. QED
    BY <1>3, <2>2 DEF Decode, Callback, DP!vars, dumperVars
<1>4. CASE UNCHANGED vars
  BY <1>4 DEF vars, PP!vars, decoderVars, DP!vars, dumperVars
<1>5. QED
  BY <1>1, <1>2, <1>3, <1>4 DEF Next

LEMMA SystemInvStep == SystemInv /\ [Next]_vars => SystemInv'
BY HalvesStep, DumperInvStep, DecoderInvStep DEF SystemInv

LEMMA SystemInvariant == Spec => []SystemInv
BY SystemInvInit, SystemInvStep, PTL DEF Spec

-----------------------------------------------------------------------------
(* What follows from it.                                                   *)

(* A fragment that is accepted is one of the cartridge's.                  *)
LEMMA StoredIsCart ==
  ASSUME SystemInv, NEW image \in submitted, PP!Accepted(image)
  PROVE  \E offset \in Offsets :
           /\ PP!FragmentOf(image).offset = offset
           /\ PP!FragmentOf(image).bytes = CartFragment(offset)
           /\ PP!End(PP!FragmentOf(image)) = offset + D!nrombytes_per_frame
           /\ offset + D!nrombytes_per_frame < WordSize
           /\ offset + D!nrombytes_per_frame <= MaxRomSize
<1>1. image \in CameraImages
  BY DEF SystemInv, DecoderInv, PP!PoolInv, PP!TypeOK
<1>2. PICK offset \in Offsets :
        PP!OffsetOf(image[1]) = offset /\ PP!BytesOf(image[1]) = CartFragment(offset)
  BY <1>1, PictureRead DEF PP!Accepted
<1>3. /\ PP!FragmentOf(image).offset = offset
      /\ PP!FragmentOf(image).bytes = CartFragment(offset)
  BY <1>2 DEF PP!FragmentOf
<1>4. /\ offset \in Nat /\ D!nrombytes_per_frame \in Nat
      /\ Len(CartFragment(offset)) = D!nrombytes_per_frame
      /\ offset + D!nrombytes_per_frame < WordSize
  BY CartFragmentType DEF Offsets
<1>5. PP!End(PP!FragmentOf(image)) = offset + D!nrombytes_per_frame
  BY <1>3, <1>4 DEF PP!End
<1>6. (offset + D!nrombytes_per_frame) % WordSize = offset + D!nrombytes_per_frame
  BY <1>4, WordSizeType
<1>7. offset + D!nrombytes_per_frame <= MaxRomSize
  BY <1>3, <1>4, <1>5, <1>6, SameCodec DEF PP!Accepted, PP!StoreAsserts
<1>8. QED
  BY <1>3, <1>4, <1>5, <1>7

LEMMA NothingBroken == SystemInv => ~broken
<1> SUFFICES ASSUME SystemInv, broken
             PROVE  FALSE
  OBVIOUS
<1>1. PICK image \in submitted :
        PP!Accepted(image) /\ PP!End(PP!FragmentOf(image)) >= WordSize
  BY SameCodec DEF SystemInv, DecoderInv, PP!OnlyWrapsBreak
<1>2. PICK offset \in Offsets :
        /\ PP!End(PP!FragmentOf(image)) = offset + D!nrombytes_per_frame
        /\ offset + D!nrombytes_per_frame < WordSize
  BY <1>1, StoredIsCart
<1>3. offset \in Nat /\ D!nrombytes_per_frame \in Nat /\ WordSize \in Nat
  BY CartFragmentType, WordSizeType DEF Offsets
<1>4. QED
  BY <1>1, <1>2, <1>3

(* StaysInside: no code of the dumper makes store_rom_fragment write       *)
(* outside rom_data.                                                       *)
THEOREM NothingWrittenOutside == Spec => []StaysInside
BY NothingBroken, SystemInvariant, PTL DEF StaysInside

(* RomGenuine: every known byte of the ROM image is the byte the cartridge *)
(* has at that address, through rounding, DMA, header, pool and store.     *)
THEOREM DumpIsACopy == Spec => []RomGenuine
<1>1. ASSUME SystemInv
      PROVE  RomGenuine
  <2> SUFFICES ASSUME NEW a \in P!Addr, P!Known(a)
               PROVE  rom_data[a] = CartByte(a)
    BY DEF RomGenuine
  <2>1. PICK image \in submitted :
          /\ PP!Storable(image)
          /\ PP!Spans(PP!FragmentOf(image), a)
          /\ rom_data[a] = PP!FragmentOf(image).bytes[a - PP!FragmentOf(image).offset + 1]
    BY <1>1, SamePoolTerms, NothingBroken DEF SystemInv, DecoderInv, PP!BytesGenuine
  <2>2. PICK offset \in Offsets :
          /\ PP!FragmentOf(image).offset = offset
          /\ PP!FragmentOf(image).bytes = CartFragment(offset)
          /\ PP!End(PP!FragmentOf(image)) = offset + D!nrombytes_per_frame
    BY <1>1, <2>1, StoredIsCart DEF PP!Storable
  <2>3. offset \in Nat /\ D!nrombytes_per_frame \in Nat /\ a \in Int
    BY CartFragmentType, SystemAssumption DEF P!Addr, Offsets
  <2>4. offset <= a /\ a < offset + D!nrombytes_per_frame
    BY <2>1, <2>2, <2>3 DEF PP!Spans
  <2>5. rom_data[a] = CartFragment(offset)[a - offset + 1]
    BY <2>1, <2>2
  <2>6. QED
    BY <2>3, <2>4, <2>5, CartFragmentAt
<1>2. QED
  BY <1>1, SystemInvariant, PTL

LEMMA RomDumpInit == Init => RomDumpImpl!Init
BY DEF Init, P!Init, RomDumpImpl!Init

LEMMA RomDumpStep == SystemInv /\ [Next]_vars => [RomDumpImpl!Next]_rom_data
<1> SUFFICES ASSUME SystemInv, [Next]_vars, rom_data' # rom_data
             PROVE  RomDumpImpl!Next
  BY DEF RomDumpImpl!Next
<1>1. [PP!Next]_(PP!vars)
  BY HalvesStep
<1>2. PICK w \in PP!Workers : PP!CallbackStores(w)
  BY <1>1, PP!StoreChanges, PoolAssumptions DEF PP!storeVars
<1>3. PICK image \in submitted :
        /\ PP!Accepted(image)
        /\ PP!FragmentOf(image) \in PP!Fragment
        /\ rom_data' = PP!Overlay(rom_data, PP!FragmentOf(image))
  BY <1>2, PP!AcceptedFragment, PoolAssumptions DEF SystemInv, DecoderInv
<1>4. PICK offset \in Offsets :
        /\ PP!FragmentOf(image).offset = offset
        /\ PP!FragmentOf(image).bytes = CartFragment(offset)
        /\ PP!End(PP!FragmentOf(image)) = offset + D!nrombytes_per_frame
        /\ offset + D!nrombytes_per_frame < WordSize
        /\ offset + D!nrombytes_per_frame <= MaxRomSize
  BY <1>3, StoredIsCart
<1>5. rom_data \in [PP!Addr -> PP!Byte \cup {PP!ROM_BYTE_UNKNOWN}] /\ P!Addr = PP!Addr
  BY SamePoolTerms DEF SystemInv, DecoderInv, PP!PoolInv, PP!TypeOK
<1>6. rom_data' = [a \in P!Addr |->
                     IF offset <= a /\ a < offset + D!nrombytes_per_frame
                     THEN CartFragment(offset)[a - offset + 1] ELSE rom_data[a]]
  BY <1>3, <1>4, <1>5, PP!OverlayFits, PoolAssumptions, SameCodec DEF PP!Spans
<1>7. ASSUME NEW a \in P!Addr, offset <= a, a < offset + D!nrombytes_per_frame
      PROVE  CartFragment(offset)[a - offset + 1] = CartByte(a)
  <2>1. offset \in Nat /\ D!nrombytes_per_frame \in Nat /\ a \in Int
    BY CartFragmentType, SystemAssumption DEF P!Addr, Offsets
  <2>2. QED
    BY <1>7, <2>1, CartFragmentAt
<1>8. rom_data' = [a \in P!Addr |->
                     IF offset <= a /\ a < offset + D!nrombytes_per_frame
                     THEN CartByte(a) ELSE rom_data[a]]
  BY <1>6, <1>7
<1>9. QED
  BY <1>4, <1>8 DEF RomDumpImpl!Next, RomDumpImpl!Copy

(* ImplementsRomDump: console, camera and decoder together implement       *)
(* RomDump, for every cartridge, capacity, number of surfaces and workers: *)
(* between two states of the ROM image lies one whole fragment of the      *)
(* cartridge, from a halfword on.                                          *)
THEOREM DumpImplementsRomDump == Spec => ImplementsRomDump
BY RomDumpInit, RomDumpStep, SystemInvariant, PTL DEF Spec, ImplementsRomDump, RomDumpImpl!Spec

(* WorkersSurvive: no code of the dumper fails the assertion on its length *)
(* in a worker, and the queue sizes stay what is left to do.               *)
THEOREM NoWorkerDies == Spec => []WorkersSurvive
<1>1. ASSUME SystemInv
      PROVE  WorkersSurvive
  <2>1. \A image \in submitted : PP!Decodable(image) => PP!HasHeader(image)
    BY <1>1, PictureRead DEF SystemInv, DecoderInv, PP!PoolInv, PP!TypeOK
  <2>2. PP!WellFormed
    BY <2>1 DEF PP!WellFormed
  <2>3. QED
    BY <1>1, <2>2, SamePoolTerms DEF SystemInv, DecoderInv, PP!SizesExact, WorkersSurvive
<1>2. QED
  BY <1>1, SystemInvariant, PTL

(* DecoderUnharmed: both together.                                         *)
THEOREM DecoderIsUnharmed == Spec => []DecoderUnharmed
BY NoWorkerDies, NothingWrittenOutside, PTL DEF DecoderUnharmed

=============================================================================
