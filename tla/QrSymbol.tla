-------------------------------- MODULE QrSymbol --------------------------------
(***************************************************************************)
(* The layout of a QR code, twice: as libqrencode draws it on the N64      *)
(* (qrencode/qrspec.c, qrencode.c, mask.c) and as zbar reads it on the     *)
(* other side of the capture card (zbar/qrcode/qrdec.c).  The two have no  *)
(* line in common: tables here stand against formulas there, and a walk    *)
(* over the symbol in one against a scan of its columns in the other.      *)
(*                                                                         *)
(* x and u count columns, y and v rows, both from 0.  Only what the code   *)
(* says of QR codes proper is here, nothing of Micro QR.                   *)
(***************************************************************************)
EXTENDS Integers, Sequences

Versions == 1 .. 40
Levels   == 0 .. 3        \* QR_ECLEVEL_L, M, Q and H
Masks    == 0 .. 7

-----------------------------------------------------------------------------
(* qrspec.c: the capacity of symbols.                                      *)

\* Width, codewords, remainder bits, and error correction words per level.
qrspecCapacity == <<
  <<21, 26, 0, <<7, 10, 13, 17>>>>, <<25, 44, 7, <<10, 16, 22, 28>>>>,
  <<29, 70, 7, <<15, 26, 36, 44>>>>, <<33, 100, 7, <<20, 36, 52, 64>>>>,
  <<37, 134, 7, <<26, 48, 72, 88>>>>, <<41, 172, 7, <<36, 64, 96, 112>>>>,
  <<45, 196, 0, <<40, 72, 108, 130>>>>, <<49, 242, 0, <<48, 88, 132, 156>>>>,
  <<53, 292, 0, <<60, 110, 160, 192>>>>, <<57, 346, 0, <<72, 130, 192, 224>>>>,
  <<61, 404, 0, <<80, 150, 224, 264>>>>, <<65, 466, 0, <<96, 176, 260, 308>>>>,
  <<69, 532, 0, <<104, 198, 288, 352>>>>, <<73, 581, 3, <<120, 216, 320, 384>>>>,
  <<77, 655, 3, <<132, 240, 360, 432>>>>, <<81, 733, 3, <<144, 280, 408, 480>>>>,
  <<85, 815, 3, <<168, 308, 448, 532>>>>, <<89, 901, 3, <<180, 338, 504, 588>>>>,
  <<93, 991, 3, <<196, 364, 546, 650>>>>, <<97, 1085, 3, <<224, 416, 600, 700>>>>,
  <<101, 1156, 4, <<224, 442, 644, 750>>>>, <<105, 1258, 4, <<252, 476, 690, 816>>>>,
  <<109, 1364, 4, <<270, 504, 750, 900>>>>, <<113, 1474, 4, <<300, 560, 810, 960>>>>,
  <<117, 1588, 4, <<312, 588, 870, 1050>>>>, <<121, 1706, 4, <<336, 644, 952, 1110>>>>,
  <<125, 1828, 4, <<360, 700, 1020, 1200>>>>, <<129, 1921, 3, <<390, 728, 1050, 1260>>>>,
  <<133, 2051, 3, <<420, 784, 1140, 1350>>>>, <<137, 2185, 3, <<450, 812, 1200, 1440>>>>,
  <<141, 2323, 3, <<480, 868, 1290, 1530>>>>, <<145, 2465, 3, <<510, 924, 1350, 1620>>>>,
  <<149, 2611, 3, <<540, 980, 1440, 1710>>>>, <<153, 2761, 3, <<570, 1036, 1530, 1800>>>>,
  <<157, 2876, 0, <<570, 1064, 1590, 1890>>>>, <<161, 3034, 0, <<600, 1120, 1680, 1980>>>>,
  <<165, 3196, 0, <<630, 1204, 1770, 2100>>>>, <<169, 3362, 0, <<660, 1260, 1860, 2220>>>>,
  <<173, 3532, 0, <<720, 1316, 1950, 2310>>>>, <<177, 3706, 0, <<750, 1372, 2040, 2430>>>> >>

\* Blocks of either length, per level.
eccTable == <<
  <<<<1, 0>>, <<1, 0>>, <<1, 0>>, <<1, 0>>>>, <<<<1, 0>>, <<1, 0>>, <<1, 0>>, <<1, 0>>>>,
  <<<<1, 0>>, <<1, 0>>, <<2, 0>>, <<2, 0>>>>, <<<<1, 0>>, <<2, 0>>, <<2, 0>>, <<4, 0>>>>,
  <<<<1, 0>>, <<2, 0>>, <<2, 2>>, <<2, 2>>>>, <<<<2, 0>>, <<4, 0>>, <<4, 0>>, <<4, 0>>>>,
  <<<<2, 0>>, <<4, 0>>, <<2, 4>>, <<4, 1>>>>, <<<<2, 0>>, <<2, 2>>, <<4, 2>>, <<4, 2>>>>,
  <<<<2, 0>>, <<3, 2>>, <<4, 4>>, <<4, 4>>>>, <<<<2, 2>>, <<4, 1>>, <<6, 2>>, <<6, 2>>>>,
  <<<<4, 0>>, <<1, 4>>, <<4, 4>>, <<3, 8>>>>, <<<<2, 2>>, <<6, 2>>, <<4, 6>>, <<7, 4>>>>,
  <<<<4, 0>>, <<8, 1>>, <<8, 4>>, <<12, 4>>>>, <<<<3, 1>>, <<4, 5>>, <<11, 5>>, <<11, 5>>>>,
  <<<<5, 1>>, <<5, 5>>, <<5, 7>>, <<11, 7>>>>, <<<<5, 1>>, <<7, 3>>, <<15, 2>>, <<3, 13>>>>,
  <<<<1, 5>>, <<10, 1>>, <<1, 15>>, <<2, 17>>>>, <<<<5, 1>>, <<9, 4>>, <<17, 1>>, <<2, 19>>>>,
  <<<<3, 4>>, <<3, 11>>, <<17, 4>>, <<9, 16>>>>, <<<<3, 5>>, <<3, 13>>, <<15, 5>>, <<15, 10>>>>,
  <<<<4, 4>>, <<17, 0>>, <<17, 6>>, <<19, 6>>>>, <<<<2, 7>>, <<17, 0>>, <<7, 16>>, <<34, 0>>>>,
  <<<<4, 5>>, <<4, 14>>, <<11, 14>>, <<16, 14>>>>, <<<<6, 4>>, <<6, 14>>, <<11, 16>>, <<30, 2>>>>,
  <<<<8, 4>>, <<8, 13>>, <<7, 22>>, <<22, 13>>>>, <<<<10, 2>>, <<19, 4>>, <<28, 6>>, <<33, 4>>>>,
  <<<<8, 4>>, <<22, 3>>, <<8, 26>>, <<12, 28>>>>, <<<<3, 10>>, <<3, 23>>, <<4, 31>>, <<11, 31>>>>,
  <<<<7, 7>>, <<21, 7>>, <<1, 37>>, <<19, 26>>>>, <<<<5, 10>>, <<19, 10>>, <<15, 25>>, <<23, 25>>>>,
  <<<<13, 3>>, <<2, 29>>, <<42, 1>>, <<23, 28>>>>, <<<<17, 0>>, <<10, 23>>, <<10, 35>>, <<19, 35>>>>,
  <<<<17, 1>>, <<14, 21>>, <<29, 19>>, <<11, 46>>>>, <<<<13, 6>>, <<14, 23>>, <<44, 7>>, <<59, 1>>>>,
  <<<<12, 7>>, <<12, 26>>, <<39, 14>>, <<22, 41>>>>, <<<<6, 14>>, <<6, 34>>, <<46, 10>>, <<2, 64>>>>,
  <<<<17, 4>>, <<29, 14>>, <<49, 10>>, <<24, 46>>>>, <<<<4, 18>>, <<13, 32>>, <<48, 14>>, <<42, 32>>>>,
  <<<<20, 4>>, <<40, 7>>, <<43, 22>>, <<10, 67>>>>, <<<<19, 6>>, <<18, 31>>, <<34, 34>>, <<20, 61>>>> >>

\* The second and the third coordinate of the alignment patterns.
alignmentPattern == <<
  <<0, 0>>, <<18, 0>>, <<22, 0>>, <<26, 0>>, <<30, 0>>, <<34, 0>>, <<22, 38>>, <<24, 42>>,
  <<26, 46>>, <<28, 50>>, <<30, 54>>, <<32, 58>>, <<34, 62>>, <<26, 46>>, <<26, 48>>, <<26, 50>>,
  <<30, 54>>, <<30, 56>>, <<30, 58>>, <<34, 62>>, <<28, 50>>, <<26, 50>>, <<30, 54>>, <<28, 54>>,
  <<32, 58>>, <<30, 58>>, <<34, 62>>, <<26, 50>>, <<30, 54>>, <<26, 52>>, <<30, 56>>, <<34, 60>>,
  <<30, 58>>, <<34, 62>>, <<30, 54>>, <<24, 50>>, <<28, 54>>, <<32, 58>>, <<26, 54>>, <<30, 58>> >>

Width(version)     == qrspecCapacity[version][1]
Words(version)     == qrspecCapacity[version][2]
Remainder(version) == qrspecCapacity[version][3]

EccLength(version, level)  == qrspecCapacity[version][4][level + 1]
DataLength(version, level) == Words(version) - EccLength(version, level)

\* Faulty: one codeword is to spare.
MinimumVersion_Spare(size, level) ==
  LET V == {v \in Versions : DataLength(v, level) > size} IN
  IF V = {} THEN 40 ELSE CHOOSE v \in V : \A w \in V : v <= w

\* The first version whose data codewords suffice, or the last one there is.
MinimumVersion(size, level) ==
  LET V == {v \in Versions : DataLength(v, level) >= size} IN
  IF V = {} THEN 40 ELSE CHOOSE v \in V : \A w \in V : v <= w

\* QRspec_lengthIndicator in byte mode.
LengthIndicator(version) == IF version <= 9 THEN 8 ELSE 16

\* QRspec_getEccSpec: b1 blocks of data codewords, then b2 with one more.
EccSpec(version, level) ==
  LET b == eccTable[version][level + 1] IN
  [b1   |-> b[1],
   b2   |-> b[2],
   data |-> DataLength(version, level) \div (b[1] + b[2]),
   ecc  |-> EccLength(version, level) \div (b[1] + b[2])]

Blocks(spec)           == spec.b1 + spec.b2
BlockData(spec, block) == spec.data + (IF block < spec.b1 THEN 0 ELSE 1)

\* What the frame is filled with: QRspec_rsDataLength and QRspec_rsEccLength.
SpecData(spec) == spec.b1 * spec.data + spec.b2 * (spec.data + 1)
SpecEcc(spec)  == Blocks(spec) * spec.ecc

\* QRraw_getCode: where the codeword with that number comes from.  Places in a
\* block count its data first and its error correction after that.
GetCode(spec, count) ==
  IF count < SpecData(spec)
  THEN LET col == count \div Blocks(spec) IN
       [block |-> (count % Blocks(spec)) + (IF col >= spec.data THEN spec.b1 ELSE 0),
        index |-> col]
  ELSE LET c == count - SpecData(spec)
           b == c % Blocks(spec) IN
       [block |-> b, index |-> BlockData(spec, b) + (c \div Blocks(spec))]

-----------------------------------------------------------------------------
(* QRspec_createFrame: the modules that hold no data, marked with 0x80.    *)

\* QRspec_putAlignmentPattern: the centres of the alignment patterns.
Markers(version) ==
  IF version < 2 THEN {}
  ELSE LET first == alignmentPattern[version][1]
           d     == alignmentPattern[version][2] - first
           w     == IF d < 0 THEN 2 ELSE (Width(version) - first) \div d + 2
           c(i)  == first + (i - 1) * d
       IN IF w = 2
          THEN { <<first, first>> }
          ELSE { <<6, c(i)>> : i \in 1 .. w - 2 } \cup { <<c(i), 6>> : i \in 1 .. w - 2 }
                 \cup { <<c(i), c(j)>> : i, j \in 1 .. w - 1 }

FrameMarkers == [version \in Versions |-> Markers(version)]

Reserved(version, x, y) ==
  LET w == Width(version) IN
  \/ x < 9 /\ y < 9                                   \* finders, separators and
  \/ x >= w - 8 /\ y < 9                              \* format information
  \/ x < 9 /\ y >= w - 8
  \/ x = 6 \/ y = 6                                   \* timing
  \/ version >= 7 /\ \/ x < 6 /\ y \in w - 11 .. w - 9
                     \/ y < 6 /\ x \in w - 11 .. w - 9
  \/ \E m \in FrameMarkers[version] : x - m[1] \in -2 .. 2 /\ y - m[2] \in -2 .. 2

-----------------------------------------------------------------------------
(* FrameFiller: the walk over the modules that hold data.                  *)

FrameFiller_set(version) ==
  [x |-> Width(version) - 1, y |-> Width(version) - 1, dir |-> -1, bit |-> -1]

\* One step in the pair of columns, or over to the next pair; past the last
\* pair the new x is negative.
Advance(w, f) ==
  LET x == IF f.bit = 0 THEN f.x - 1 ELSE f.x + 1
      y == IF f.bit = 0 THEN f.y ELSE f.y + f.dir
      pair == IF x - 2 = 6 THEN 5 ELSE x - 2
      skip == IF x - 2 = 6 THEN 9 ELSE 0
  IN CASE f.dir < 0 /\ y < 0 -> [x |-> pair, y |-> skip, dir |-> 1, bit |-> 1 - f.bit]
       [] f.dir > 0 /\ y = w ->
            [x |-> pair, y |-> w - 1 - (IF x - 2 = 6 THEN 8 ELSE 0), dir |-> -1, bit |-> 1 - f.bit]
       [] OTHER -> [f EXCEPT !.x = x, !.y = y, !.bit = 1 - f.bit]

Filler == [x : Int, y : Int, dir : {-1, 1}, bit : {-1, 0, 1}]

FrameFiller_next(version, f) ==
  LET from[g \in Filler] ==
        IF g.x >= 0 /\ g.y >= 0 /\ Reserved(version, g.x, g.y)
        THEN from[Advance(Width(version), g)]
        ELSE g
  IN IF f.bit = -1 THEN [f EXCEPT !.bit = 0] ELSE from[Advance(Width(version), f)]

\* The fillers at the next n modules.
Fill(version, f, n) ==
  LET More(fillers) ==
        LET g == IF fillers = <<>> THEN f ELSE fillers[Len(fillers)]
        IN IF g.x < 0 THEN fillers ELSE Append(fillers, FrameFiller_next(version, g))
      first[k \in 0 .. n] == IF k = 0 THEN <<>> ELSE More(first[k - 1])
  IN first[n]

-----------------------------------------------------------------------------
(* mask.c: mask m inverts a module.                                        *)

Mask_mask(m, x, y) ==
  LET xy == x * y IN
  CASE m = 0 -> (x + y) % 2 = 0
    [] m = 1 -> y % 2 = 0
    [] m = 2 -> x % 3 = 0
    [] m = 3 -> (x + y) % 3 = 0
    [] m = 4 -> ((y \div 2) + (x \div 3)) % 2 = 0
    [] m = 5 -> (xy % 2) + (xy % 3) = 0
    [] m = 6 -> ((xy % 2) + (xy % 3)) % 2 = 0
    [] m = 7 -> ((xy % 3) + ((x + y) % 2)) % 2 = 0

-----------------------------------------------------------------------------
(* qrdec.c: the function pattern mask.                                     *)

QR_ALIGNMENT_SPACING == <<
  16, 18, 20, 22, 24, 26, 28, 20, 22, 24, 24, 26, 28, 28, 22, 24, 24,
  26, 26, 28, 28, 24, 24, 26, 26, 26, 28, 28, 24, 26, 26, 26, 28, 28 >>

Dim(version) == 17 + 4 * version

\* align_pos, counted from 0 as there.
AlignPos(version, i) ==
  LET nalign == version \div 7 + 2 IN
  CASE i = 0 -> 6
    [] i > 0 /\ version > 6 ->
         Dim(version) - 7 - (nalign - 1 - i) * QR_ALIGNMENT_SPACING[version - 6]
    [] OTHER -> Dim(version) - 7

\* The diagonal sweep visits all pairs but the three that are finders.
GridPatterns(version) ==
  LET last == version \div 7 + 1 IN
  IF version < 2 THEN {}
  ELSE { <<AlignPos(version, p[2]), AlignPos(version, p[1])>> :
         p \in ((0 .. last) \X (0 .. last)) \ {<<0, 0>>, <<0, last>>, <<last, 0>>} }

GridMarkers == [version \in Versions |-> GridPatterns(version)]

InRect(u, v, u0, v0, w, h) == u \in u0 .. u0 + w - 1 /\ v \in v0 .. v0 + h - 1

InFp(version, u, v) ==
  LET dim == Dim(version) IN
  \/ InRect(u, v, 0, 0, 9, 9)
  \/ InRect(u, v, 0, dim - 8, 9, 8)
  \/ InRect(u, v, dim - 8, 0, 8, 9)
  \/ version > 6 /\ \/ InRect(u, v, 0, dim - 11, 6, 3)
                    \/ InRect(u, v, dim - 11, 0, 3, 6)
  \/ InRect(u, v, 9, 6, dim - 17, 1)
  \/ InRect(u, v, 6, 9, 1, dim - 17)
  \/ \E p \in GridMarkers[version] : InRect(u, v, p[1] - 2, p[2] - 2, 5, 5)

-----------------------------------------------------------------------------
(* qr_samples_unpack: a scan of column pairs, j and j - 1, from right to   *)
(* left and up and down in turn.  bits holds the places of the bits read   *)
(* that are in no byte yet.                                                *)

ScanStart(version) ==
  [j |-> Dim(version) - 1, row |-> Dim(version) - 1, up |-> TRUE, bits |-> <<>>]

Scanned(s) == s.j <= 0

\* One row of a pair of columns, the right one first.
ScanRow(version, s) ==
  LET right == IF InFp(version, s.j, s.row) THEN <<>> ELSE << <<s.j, s.row>> >>
      left  == IF InFp(version, s.j - 1, s.row) THEN <<>> ELSE << <<s.j - 1, s.row>> >>
      bits  == s.bits \o right \o left
  IN CASE s.up /\ s.row > 0 -> [s EXCEPT !.row = @ - 1, !.bits = bits]
       [] s.up /\ s.row = 0 ->
            [j |-> IF s.j - 2 = 6 THEN 5 ELSE s.j - 2, row |-> 0, up |-> FALSE, bits |-> bits]
       [] ~ s.up /\ s.row < Dim(version) - 1 -> [s EXCEPT !.row = @ + 1, !.bits = bits]
       [] OTHER -> [j |-> s.j - 2, row |-> Dim(version) - 1, up |-> TRUE, bits |-> bits]

\* The scan up to the row that completes a byte, or to its end.
Scan == [j : Int, row : Int, up : BOOLEAN, bits : Seq(Int \X Int)]

ScanByte(version, s) ==
  LET from[t \in Scan] ==
        IF Len(t.bits) >= 8 \/ Scanned(t) THEN t ELSE from[ScanRow(version, t)]
  IN from[s]

-----------------------------------------------------------------------------
(* qr_data_mask_fill: the mask that the sampled bits are combined with is  *)
(* filled by words of 32 rows of a column, whose period of 3 or 6 rows is  *)
(* shifted from word to word.                                              *)

Phase(v, period) == ((v % 32) + (v \div 32) * (32 % period)) % period

DataMask(pattern, u, v) ==
  LET i == Phase(v, 6) IN
  CASE pattern = 0 -> v % 2 = u % 2
    [] pattern = 1 -> v % 2 = 0
    [] pattern = 2 -> u % 3 = 0
    [] pattern = 3 -> (Phase(v, 3) + u) % 3 = 0
    [] pattern = 4 -> v % 4 \in (IF u % 6 < 3 THEN {0, 1} ELSE {2, 3})
    [] pattern = 5 -> (i * u) % 6 = 0
    [] pattern = 6 -> (((i * u) % 3) + i * u + 1) % 2 = 1
    [] OTHER       -> (((i * u) % 3) + i + u + 1) % 2 = 1

-----------------------------------------------------------------------------
(* qr_code_decode: codewords and blocks.                                   *)

QR_RS_NPAR_VALS == <<
  7, 10, 13, 17, 10, 16, 22, 28, 26, 26, 26, 22, 24, 22, 22, 26, 24, 18,
  22, 15, 26, 18, 22, 24, 30, 24, 20, 24, 18, 16, 24, 28, 28, 28, 28, 30,
  24, 20, 18, 18, 26, 24, 28, 24, 30, 26, 28, 28, 26, 28, 30, 30, 22, 20,
  24, 20, 18, 26, 16, 20, 30, 28, 24, 22, 26, 28, 26, 30, 28, 30, 30 >>

QR_RS_NPAR_OFFS == <<
  0, 4, 19, 55, 15, 28, 37, 12, 51, 39, 59, 62, 10, 24, 22, 41, 31, 44, 7, 65,
  47, 33, 67, 67, 48, 32, 67, 67, 67, 67, 67, 67, 67, 67, 67, 67, 67, 67, 67, 67 >>

QR_RS_NBLOCKS == <<
  <<1, 1, 1, 1>>, <<1, 1, 1, 1>>, <<1, 1, 2, 2>>, <<1, 2, 2, 4>>, <<1, 2, 4, 4>>,
  <<2, 4, 4, 4>>, <<2, 4, 6, 5>>, <<2, 4, 6, 6>>, <<2, 5, 8, 8>>, <<4, 5, 8, 8>>,
  <<4, 5, 8, 11>>, <<4, 8, 10, 11>>, <<4, 9, 12, 16>>, <<4, 9, 16, 16>>, <<6, 10, 12, 18>>,
  <<6, 10, 17, 16>>, <<6, 11, 16, 19>>, <<6, 13, 18, 21>>, <<7, 14, 21, 25>>, <<8, 16, 20, 25>>,
  <<8, 17, 23, 25>>, <<9, 17, 23, 34>>, <<9, 18, 25, 30>>, <<10, 20, 27, 32>>, <<12, 21, 29, 35>>,
  <<12, 23, 34, 37>>, <<12, 25, 34, 40>>, <<13, 26, 35, 42>>, <<14, 28, 38, 45>>, <<15, 29, 40, 48>>,
  <<16, 31, 43, 51>>, <<17, 33, 45, 54>>, <<18, 35, 48, 57>>, <<19, 37, 51, 60>>, <<19, 38, 53, 63>>,
  <<20, 40, 56, 66>>, <<21, 43, 59, 70>>, <<22, 45, 62, 74>>, <<24, 47, 65, 77>>, <<25, 49, 68, 81>> >>

qr_code_ncodewords(version) ==
  IF version = 1 THEN 26
  ELSE LET nalign == version \div 7 + 2 IN
       (16 * version * (version + 8) - 5 * nalign * (5 * nalign - 2)
          + (IF version < 7 THEN 36 ELSE 0) + 83) \div 8

NBlocks(version, level) == QR_RS_NBLOCKS[version][level + 1]
NPar(version, level)    == QR_RS_NPAR_VALS[QR_RS_NPAR_OFFS[version] + level + 1]
BlockSz(version, level) == qr_code_ncodewords(version) \div NBlocks(version, level)

NShort(version, level) ==
  NBlocks(version, level) - (qr_code_ncodewords(version) % NBlocks(version, level))

\* The codewords of a block: block_sz, and one more in a long block.
BlockSize(version, level, block) ==
  BlockSz(version, level) + (IF block >= NShort(version, level) THEN 1 ELSE 0)

\* Where qr_samples_unpack puts the next byte: the block, how often it came round
\* to the first one, and how much each block holds.
PutStart(version, level) ==
  [blocki |-> 0, blockj |-> 0, held |-> [b \in 0 .. NBlocks(version, level) - 1 |-> 0]]

\* Faulty: it never goes straight to the long blocks.
PutByte_NoSkip(version, level, p) ==
  LET around == p.blocki + 1 >= NBlocks(version, level) IN
  [held   |-> [p.held EXCEPT ![p.blocki] = @ + 1],
   blockj |-> IF around THEN p.blockj + 1 ELSE p.blockj,
   blocki |-> IF around THEN 0 ELSE p.blocki + 1]

PutByte(version, level, p) ==
  LET held   == [p.held EXCEPT ![p.blocki] = @ + 1]
      nshort == IF NShort(version, level) >= NBlocks(version, level) THEN 0
                                                                   ELSE NShort(version, level)
      around == p.blocki + 1 >= NBlocks(version, level)
      ndata  == BlockSz(version, level) - NPar(version, level)
  IN [held   |-> held,
      blockj |-> IF around THEN p.blockj + 1 ELSE p.blockj,
      blocki |-> CASE ~ around                -> p.blocki + 1
                   [] around /\ p.blockj + 1 = ndata -> nshort
                   [] OTHER                   -> 0]
=============================================================================
