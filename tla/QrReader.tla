-------------------------------- MODULE QrReader --------------------------------
(***************************************************************************)
(* A QR code from the bytes main.c hands to libqrencode to the bytes zbar  *)
(* gets out of the picture: qr_reader_try_configuration, once the geometry *)
(* of the picture is known.  The reader learns the version, the level and  *)
(* the mask from what the symbol says of itself, samples the symbol, and   *)
(* corrects and parses what it has got.                                    *)
(*                                                                         *)
(* main.c draws data[x * width + y] in column x and row y, and so every    *)
(* code of the dumper is seen as in a mirror.  zbar takes it for a code    *)
(* that it cannot read, and then tries again with the two finders swapped. *)
(*                                                                         *)
(* How finders are found and the picture is sampled is left out: a module  *)
(* is seen as it was drawn, except where Captured, VersionDamage,          *)
(* FormatDamage and BlockDamage say that it is not.                        *)
(***************************************************************************)
EXTENDS QrSymbol, QrCodes

CONSTANTS
  Codes,           \* the codes drawn: their version, level and mask
  VersionDamage,   \* pairs of sets of bits seen wrong in the two copies
  FormatDamage,    \*   of the version, and of the format information
  BlockDamage,     \* codewords of a block seen wrong: functions to what is added
  Sizes            \* how many bytes are encoded

ASSUME CodesAssumption ==
  /\ Codes \subseteq [version : Versions, level : Levels, mask : Masks]
  /\ \A c \in Codes : /\ VersionDamage[c] \subseteq (SUBSET (0 .. 17)) \X (SUBSET (0 .. 17))
                    /\ FormatDamage[c] \subseteq (SUBSET (0 .. 14)) \X (SUBSET (0 .. 14))

VARIABLES
  code,      \* the code that is drawn
  phase,     \* what the reader does next
  image,     \* the dark modules it has looked at, where they are seen
  turned,    \* the finders are swapped
  damage,    \* what is wrong in it
  read,      \* the estimates of the version next to two finders, the version and
             \* the format information: -1 for none
  sample,    \* the walks of both sides over the data
  block,     \* a block as it is sampled, and the codewords that are wrong in it
  size       \* the number of bytes in the stream that is parsed

vars == <<code, phase, image, turned, damage, read, sample, block, size>>

-----------------------------------------------------------------------------
(* What main.c asks for, and the version it gets.                          *)

\* The settings in main.c, the ones that are compiled first.
Settings == {
  [version |-> 24, level |-> 3, width |-> 113, max_bytes |-> 511],
  [version |-> 15, level |-> 3, width |-> 77,  max_bytes |-> 220],
  [version |-> 40, level |-> 3, width |-> 177, max_bytes |-> 1273],
  [version |-> 25, level |-> 3, width |-> 117, max_bytes |-> 535],
  [version |-> 15, level |-> 0, width |-> 77,  max_bytes |-> 520] }

\* QRinput_estimateBitStreamSize of n bytes.
Estimate(n, version) ==
  LET l == LengthIndicator(version) IN 8 * n + ((n + 2^l - 1) \div 2^l) * (4 + l)

EstimateVersion(n, level) ==
  LET from[prev \in 0 .. 40] ==
        LET v == MinimumVersion((Estimate(n, IF prev = 0 THEN 1 ELSE prev) + 7) \div 8, level)
            version == IF prev = 0 /\ v > 1 THEN v - 1 ELSE v
        IN IF version > prev THEN from[version] ELSE version
  IN from[0]

\* QRinput_convertData: the version grows until the stream fits.
Grown(n, level, version) ==
  LET from[w \in Versions] ==
        LET v == MinimumVersion((4 + LengthIndicator(w) + 8 * n + 7) \div 8, level)
        IN IF v > w THEN from[v] ELSE w
  IN from[version]

ConvertedVersion(n, level, version) ==
  LET v == EstimateVersion(n, level) IN Grown(n, level, IF v > version THEN v ELSE version)

-----------------------------------------------------------------------------
(* The information areas as they are drawn.                                *)

versionPattern == <<
  31892, 34236, 39577, 42195, 48118, 51042, 55367, 58893, 63784,
  68472, 70749, 76311, 79154, 84390, 87683, 92361, 96236, 102084,
  102881, 110507, 110734, 117786, 119615, 126325, 127568, 133589, 136944,
  141498, 145311, 150283, 152622, 158308, 161089, 167017 >>

formatInfo == <<
  <<30660, 29427, 32170, 30877, 26159, 25368, 27713, 26998>>,
  <<21522, 20773, 24188, 23371, 17913, 16590, 20375, 19104>>,
  <<13663, 12392, 16177, 14854, 9396, 8579, 11994, 11245>>,
  <<5769, 5054, 7399, 6608, 1890, 597, 3340, 2107>> >>

\* Where QRspec_createFrame puts bit k: at the bottom left and the top right.
BottomLeft(w, k) == <<k \div 3, w - 11 + (k % 3)>>
TopRight(w, k)   == <<w - 11 + (k % 3), k \div 3>>

DrawnVersion(c, d) ==
  IF c.version < 7 THEN {}
  ELSE LET w == Width(c.version)
           pattern == Bits(versionPattern[c.version - 6], 18)
       IN { TopRight(w, k) : k \in Diff(pattern, d[1]) }
            \cup { BottomLeft(w, k) : k \in Diff(pattern, d[2]) }

\* Where Mask_writeFormatInformation puts bit k: around the finder at the top
\* left, and next to the other two.
AtCorner(w, k) ==
  CASE k < 6 -> <<8, k>> [] k \in {6, 7} -> <<8, k + 1>> [] k = 8 -> <<7, 8>> [] OTHER -> <<14 - k, 8>>
AtOthers(w, k) == IF k < 8 THEN <<w - 1 - k, 8>> ELSE <<8, w - 15 + k>>

DrawnFormat(c, d) ==
  LET w == Width(c.version)
      format == Bits(formatInfo[c.level + 1][c.mask + 1], 15)
  IN { AtCorner(w, k) : k \in Diff(format, d[1]) }
       \cup { AtOthers(w, k) : k \in Diff(format, d[2]) }

\* data[x * width + y] is the module in column y and row x.
Captured(modules) == { <<m[2], m[1]>> : m \in modules }

-----------------------------------------------------------------------------
(* The version, qr_finder_version_decode.                                  *)

QR_LARGE_VERSION_SLACK == 3

VersionBits(w, dark, dir) ==
  { k \in 0 .. 17 : (IF dir = 0 THEN <<w - 11 + (k % 3), k \div 3>>
                                ELSE <<k \div 3, w - 11 + (k % 3)>>) \in dark }

Apart(a, b) == a - b > QR_LARGE_VERSION_SLACK \/ b - a > QR_LARGE_VERSION_SLACK

\* The version next to a finder, where it is estimated to be e.
NextTo(w, dark, dir, e) ==
  LET v == bch18_6_correct(VersionBits(w, dark, dir)) IN
  IF e < 7 - QR_LARGE_VERSION_SLACK \/ Apart(v, e) THEN -1 ELSE v

\* Faulty: it is not asked whether both copies say the same.
FoundVersion_AnyOfTwo(w, dark, ur, dl) ==
  LET uv == NextTo(w, dark, 0, ur) IN
  CASE ur = dl /\ ur < 7 -> ur
    [] ~ (ur = dl /\ ur < 7) /\ Apart(ur, dl) -> -1
    [] OTHER -> IF uv >= 0 THEN uv ELSE NextTo(w, dark, 1, dl)

\* The version out of both estimates and of what is read: -1 for a failure.
FoundVersion(w, dark, ur, dl) ==
  LET uv == NextTo(w, dark, 0, ur)
      dv == NextTo(w, dark, 1, dl)
  IN CASE ur = dl /\ ur < 7 -> ur
       [] ~ (ur = dl /\ ur < 7) /\ Apart(ur, dl) -> -1
       [] OTHER -> IF uv >= 0 /\ dv >= 0 /\ uv # dv THEN -1 ELSE IF uv >= 0 THEN uv ELSE dv

-----------------------------------------------------------------------------
(* The format information, qr_finder_fmt_info_decode.                      *)

\* Faulty: the column of the timing pattern is not left out.
HiCorner_NoSkip == << <<7, 8>>, <<6, 8>>, <<5, 8>>, <<4, 8>>, <<3, 8>>, <<2, 8>>, <<1, 8>> >>

\* The words read around the corner and next to the other finders.
LoCorner == << <<8, 0>>, <<8, 1>>, <<8, 2>>, <<8, 3>>, <<8, 4>>, <<8, 5>>, <<8, 7>>, <<8, 8>> >>
HiCorner == << <<7, 8>>, <<5, 8>>, <<4, 8>>, <<3, 8>>, <<2, 8>>, <<1, 8>>, <<0, 8>> >>

Lo(w, dark, copy) ==
  { k \in 0 .. 7 : (IF copy = 0 THEN LoCorner[k + 1] ELSE <<w - 1 - k, 8>>) \in dark }
Hi(w, dark, copy) ==
  { k \in 8 .. 14 : (IF copy = 0 THEN HiCorner[k - 7] ELSE <<8, w - 15 + k>>) \in dark }

\* What is made of a word.
Attempt(y) ==
  LET r == bch15_5_correct(Diff(y, Bits(21522, 15)))
  IN [fmt_info |-> Data5(r.word), nerrs |-> IF r.errors < 0 THEN 4 ELSE r.errors]

\* Which of the four combinations are tried.
Tried(lo, hi) ==
  { i \in (IF hi[1] = hi[2] THEN 0 .. 1 ELSE 0 .. 3) : lo[1] = lo[2] => i % 2 = 0 }

\* The attempts at the same value, which first comes up in combination i.
Group(a, I, i) ==
  LET same == { k \in I : a[k].fmt_info = a[i].fmt_info } IN
  [fmt_info |-> a[i].fmt_info,
   count    |-> Cardinality(same),
   nerrs    |-> CHOOSE n \in {a[k].nerrs : k \in same} : \A k \in same : n <= a[k].nerrs]

Beats(g, best) ==
  \/ best.nerrs > 3 /\ g.nerrs <= 3
  \/ g.count > best.count
  \/ g.count = best.count /\ g.nerrs < best.nerrs

\* The winner among the groups that come up in combinations 0 to 3.
Better(a, I, n, best) ==
  LET isNew == n \in I /\ \A k \in I : k < n => a[k].fmt_info # a[n].fmt_info
  IN IF isNew /\ Beats(Group(a, I, n), best) THEN Group(a, I, n) ELSE best
Best(a, I) ==
  LET upto[n \in 0 .. 3] == IF n = 0 THEN Group(a, I, 0) ELSE Better(a, I, n, upto[n - 1])
  IN upto[3]

Chosen(lo, hi) ==
  LET a == [i \in 0 .. 3 |-> Attempt(lo[(i % 2) + 1] \cup hi[(i \div 2) + 1])]
      best == Best(a, Tried(lo, hi))
  IN IF best.nerrs < 4 THEN best.fmt_info ELSE -1

\* The picture with rows for columns, if the finders are swapped.
Seen(dark, swapped) == IF swapped THEN { <<m[2], m[1]>> : m \in dark } ELSE dark

FormatInfo(w, dark, swapped) ==
  LET seen == Seen(dark, swapped)
  IN Chosen(<<Lo(w, seen, 0), Lo(w, seen, 1)>>, <<Hi(w, seen, 0), Hi(w, seen, 1)>>)

-----------------------------------------------------------------------------
(* The stream of n bytes, and what is parsed out of it.                    *)

\* Byte i of what is encoded.
Byte(i) == (37 * i + 11) % 256

Bit(number, width, i) == (number \div 2^(width - 1 - i)) % 2

\* Bit k of the stream: the mode, the length, the bytes, zeros to the end of a
\* codeword, and two codewords in turn to the end of the data.
StreamBit(version, n, k) ==
  LET l     == LengthIndicator(version)
      bytes == k - 4 - l
      words == (4 + l + 8 * n + 4 + 7) \div 8
      pad   == (k \div 8) - words
  IN CASE k < 4               -> Bit(4, 4, k)
       [] k >= 4 /\ bytes < 0 -> Bit(n, l, k - 4)
       [] bytes >= 0 /\ bytes < 8 * n -> Bit(Byte(bytes \div 8), 8, bytes % 8)
       [] bytes >= 8 * n /\ pad < 0   -> 0
       [] OTHER -> Bit(IF pad % 2 = 1 THEN 17 ELSE 236, 8, k % 8)

\* BitStream_toByte.
Stream(version, level, n) ==
  Stored([i \in 0 .. DataLength(version, level) - 1 |->
            LET bit(j) == StreamBit(version, n, 8 * i + j) * 2^(7 - j)
            IN bit(0) + bit(1) + bit(2) + bit(3) + bit(4) + bit(5) + bit(6) + bit(7)])

\* qr_pack_buf_read at bit k, with no fewer bits left.
PackRead(data, k, bits) ==
  LET at(i) == IF i \in DOMAIN data THEN data[i] ELSE 0
      b     == k \div 8
  IN ((65536 * at(b) + 256 * at(b + 1) + at(b + 2)) \div 2^(24 - (k % 8) - bits)) % 2^bits

\* qr_code_data_parse, for streams of mode 8 (others are not encoded, and fail
\* here): from bit k on, an entry and what follows it, or the end.
data_parse(data, version) ==
  LET total == 8 * Cardinality(DOMAIN data)
      l     == IF version > 9 THEN 16 ELSE 8
      Bytes(k, len) == [i \in 1 .. len |-> PackRead(data, k + 8 * (i - 1), 8)]
      Before(bytes, r) ==
        IF r.ret < 0 THEN r ELSE [ret |-> r.ret, entries |-> <<bytes>> \o r.entries]
      from[k \in Nat] ==
        LET len == PackRead(data, k + 4, l)
            end == k + 4 + l + 8 * len
        IN CASE total - k < 4 \/ PackRead(data, k, 4) = 0 -> [ret |-> 0, entries |-> <<>>]
             [] total - k >= 4 /\ PackRead(data, k, 4) = 4 /\ total >= k + 4 + l /\ total >= end ->
                  Before(Bytes(k + 4 + l, len), from[end])
             [] OTHER -> [ret |-> -1, entries |-> <<>>]
  IN from[0]

-----------------------------------------------------------------------------
NotRead == [ur |-> 0, dl |-> 0, version |-> -1, format |-> -1]

Start(c) ==
  [pen |-> FrameFiller_set(c.version), scan |-> ScanStart(c.version),
   put |-> PutStart(c.version, c.level), count |-> 0,
   drawn |-> <<>>, sampled |-> <<>>, from |-> <<>>, to |-> <<>>]

Init ==
  /\ code \in Codes
  /\ phase = "version" /\ turned = FALSE /\ read = NotRead
  /\ image = {} /\ damage = <<{}, {}>>
  /\ sample = Start(code)
  /\ block = [index |-> 0, wrong |-> <<>>]
  /\ size = 0

\* The finders are as far apart as in this code, and the estimates near it: the
\* right ones, if there is no version to be read.
ReadVersion ==
  /\ phase = "version"
  /\ \E d \in VersionDamage[code], ur, dl \in code.version - 3 .. code.version + 3 :
       /\ code.version < 7 => ur = code.version /\ dl = code.version
       /\ damage' = d
       /\ image' = Captured(DrawnVersion(code, d))
       /\ read' = [NotRead EXCEPT !.ur = ur, !.dl = dl,
                      !.version = FoundVersion(Width(code.version), image', ur, dl)]
  /\ phase' = "version found"
  /\ UNCHANGED <<code, turned, sample, block, size>>

\* What follows is of a code whose version is right.
VersionFound ==
  /\ phase = "version found" /\ read.version = code.version
  /\ read' = [NotRead EXCEPT !.version = read.version]
  /\ phase' = "format" /\ image' = {} /\ damage' = <<{}, {}>>
  /\ UNCHANGED <<code, turned, sample, block, size>>

ReadFormat ==
  /\ phase = "format"
  /\ \E d \in FormatDamage[code] :
       /\ damage' = d
       /\ image' = Captured(DrawnFormat(code, d))
       /\ read' = [read EXCEPT !.format = FormatInfo(Width(code.version), image', FALSE)]
  /\ phase' = "data"
  /\ UNCHANGED <<code, turned, sample, block, size>>

\* What is read of a code in the mirror is no format information, or no block
\* that can be corrected: the finders are swapped.
SwapFinders ==
  /\ phase = "data" /\ ~ turned
  /\ turned' = TRUE
  /\ read' = [read EXCEPT !.format = FormatInfo(Width(code.version), image, TRUE)]
  /\ UNCHANGED <<code, phase, image, damage, sample, block, size>>

\* qr_code_decode has the level and the mask out of the format information.
ecc_level == Xor4[read.format \div 8][1]
mask      == read.format % 8

ReadRight ==
  /\ read.version = code.version
  /\ read.format >= 0 /\ ecc_level = code.level /\ mask = code.mask

\* What follows is of a code whose format information is right as well.
BeginSampling ==
  /\ phase = "data" /\ turned /\ ReadRight
  /\ phase' = "sample" /\ image' = {} /\ damage' = <<{}, {}>>
  /\ UNCHANGED <<code, turned, read, sample, block, size>>

\* One more codeword, drawn by QRcode_encodeMask and sampled and put into a block
\* by qr_samples_unpack.  The one is done before the other begins: here they go
\* side by side.
SampleCodeword ==
  LET spec == EccSpec(code.version, code.level) IN
  /\ phase = "sample"
  /\ sample.count < SpecData(spec) + SpecEcc(spec)
  /\ \E pens \in {Fill(code.version, sample.pen, 8)}, scan \in {ScanByte(read.version, sample.scan)} :
       sample' = [pen     |-> pens[Len(pens)],
                  scan    |-> [scan EXCEPT !.bits = SubSeq(@, 9, Len(@))],
                  put     |-> PutByte(read.version, ecc_level, sample.put),
                  count   |-> sample.count + 1,
                  drawn   |-> [i \in DOMAIN pens |-> <<pens[i].x, pens[i].y>>],
                  sampled |-> SubSeq(scan.bits, 1, 8),
                  from    |-> GetCode(spec, sample.count),
                  to      |-> [block |-> sample.put.blocki,
                               index |-> sample.put.held[sample.put.blocki]]]
  /\ UNCHANGED <<code, phase, image, turned, damage, read, block, size>>

\* The remainder bits, which are drawn and sampled and are in no codeword.
SampleRemainder ==
  LET spec == EccSpec(code.version, code.level) IN
  /\ phase = "sample"
  /\ sample.count = SpecData(spec) + SpecEcc(spec)
  /\ \E pens \in {Fill(code.version, sample.pen, Remainder(code.version))},
        scan \in {ScanByte(read.version, sample.scan)} :
       sample' = [sample EXCEPT !.drawn = [i \in DOMAIN pens |-> <<pens[i].x, pens[i].y>>],
                                !.sampled = scan.bits, !.scan = scan]
  /\ phase' = "blocks"
  /\ UNCHANGED <<code, image, turned, damage, read, block, size>>

\* A block is corrected, if it can be.
CorrectBlock ==
  /\ phase = "blocks"
  /\ \E b \in {0, NBlocks(read.version, ecc_level) - 1}, wrong \in BlockDamage[code] :
       block' = [index |-> b, wrong |-> wrong]
  /\ phase' = "corrected"
  /\ UNCHANGED <<code, image, turned, damage, read, sample, size>>

\* The data of blocks that are right is parsed.
ParseStream ==
  /\ phase = "blocks"
  /\ \E n \in Sizes :
       /\ 4 + LengthIndicator(code.version) + 8 * n <= 8 * DataLength(code.version, code.level)
       /\ size' = n
  /\ phase' = "parsed"
  /\ UNCHANGED <<code, image, turned, damage, read, sample, block>>

Next ==
  \/ ReadVersion \/ VersionFound \/ ReadFormat \/ SwapFinders \/ BeginSampling
  \/ SampleCodeword \/ SampleRemainder \/ CorrectBlock \/ ParseStream

Spec == Init /\ [][Next]_vars

-----------------------------------------------------------------------------
(* Properties.                                                             *)

Few(copy) == Cardinality(damage[copy]) <= 3

\* VersionRead: with up to three wrong bits in either copy of the version it is
\* read, if the estimates are near each other; and a copy that is lost never
\* makes it a wrong version (qr_reader_try_configuration).  Below version 10
\* estimates that agree may be taken for what they are not, and the code says so.
VersionRead ==
  (phase = "version found" /\ code.version >= 10) =>
    /\ Few(1) /\ Few(2) /\ ~ Apart(read.ur, read.dl) => read.version = code.version
    /\ Few(1) \/ Few(2) => read.version \in {code.version, -1}

\* FormatRead: with up to three wrong bits in either copy of the format
\* information, and whatever the mixed pairs of halves give, the level and the
\* mask are read, of the code in the mirror (qr_finder_fmt_info_decode).
FormatRead == (phase = "data" /\ turned /\ Few(1) /\ Few(2)) => ReadRight

SamePlaces ==
  /\ Len(sample.drawn) = Len(sample.sampled)
  /\ \A i \in DOMAIN sample.drawn :
       LET m == sample.drawn[i]
           n == sample.sampled[i]
       IN <<m[2], m[1]>> = (IF turned THEN <<n[2], n[1]>> ELSE n)

\* Each codeword of the encoder is sampled from the modules it was drawn in, bit by
\* bit, with the same of them inverted under every mask; the symbol has room for all
\* codewords and for none more, and its remainder bits are what the scan ends with
\* (FrameFiller_next against qr_samples_unpack, Mask_mask against qr_data_mask_fill,
\* QRspec_createFrame against qr_sampling_grid_init).
InModules ==
  /\ phase = "sample" =>
       /\ SamePlaces
       /\ \A m \in Masks, i \in DOMAIN sample.drawn :
            Mask_mask(m, sample.drawn[i][1], sample.drawn[i][2])
              = DataMask(m, sample.sampled[i][1], sample.sampled[i][2])
  /\ phase = "blocks" =>
       /\ Scanned(sample.scan) /\ SamePlaces
       /\ FrameFiller_next(code.version, sample.pen).x < 0 \/ Remainder(code.version) > 0

\* Each codeword goes to its place in the block it comes from, and both sides cut the
\* same blocks into data and parity (QRraw_getCode against qr_samples_unpack, the
\* tables of qrspec.c against those of qrdec.c and qr_code_ncodewords).
InBlocks ==
  LET spec == EccSpec(code.version, code.level) IN
  /\ phase = "sample" => sample.from = sample.to
  /\ phase = "blocks" =>
       /\ sample.count = qr_code_ncodewords(read.version)
       /\ NBlocks(read.version, ecc_level) = Blocks(spec)
       /\ \A b \in DOMAIN sample.put.held :
            /\ sample.put.held[b] = BlockSize(read.version, ecc_level, b)
            /\ sample.put.held[b] - NPar(read.version, ecc_level) = BlockData(spec, b)

\* CodewordsArrive: what libqrencode draws is what zbar samples, codeword by codeword,
\* and in the end all of it.
CodewordsArrive == InModules /\ InBlocks

\* Faulty: nothing is reserved for detection.
Accepts_All(version, level, ret) == ret >= 0

\* qr_code_decode's condition on what rs_correct returns for a block.
Accepts(version, level, ret) ==
  /\ ret >= 0
  /\ ~ (version = 1 /\ ret > 2 * (level + 1))
  /\ ~ (version = 2 /\ level = 0 /\ ret > 4)

\* The parity that the comment there reserves for detection.
ForDetection(version, level) ==
  CASE version = 1 /\ level = 0 -> 3
    [] version = 1 /\ level = 1 -> 2
    [] version = 1 /\ level > 1 -> 1
    [] version = 2 /\ level = 0 -> 2
    [] version = 3 /\ level = 0 -> 1
    [] OTHER                    -> 0

Correctable(version, level) == (NPar(version, level) - ForDetection(version, level)) \div 2

Sent(b) ==
  LET spec == EccSpec(code.version, code.level)
  IN Block(Stored([i \in 0 .. BlockData(spec, b) - 1 |-> Byte(i + b)]), spec.ecc)

\* BlocksCorrected: a block is put right when half of the parity that is not
\* reserved for detection tells its errors, and with more errors it is rejected
\* and not taken for another block, as far as the parity can tell at all
\* (RSECC_encode against rs_correct and the limits of qr_code_decode).
BlocksCorrected ==
  LET n         == Cardinality(DOMAIN block.wrong)
      npar      == NPar(read.version, ecc_level)
      limit     == Correctable(read.version, ecc_level)
      Damaged(sent) == Stored([i \in DOMAIN sent |->
                       IF i \in DOMAIN block.wrong THEN Xor(sent[i], block.wrong[i]) ELSE sent[i]])
      Right(sent, r) ==
        LET accepted == Accepts(read.version, ecc_level, r.errors)
        IN /\ n <= limit => accepted /\ r.data = sent
           /\ n > limit /\ n <= npar - limit => ~ accepted
      RightAfter(sent) == Right(sent, rs_correct(Damaged(sent), npar))
  IN phase = "corrected" => RightAfter(Sent(block.index))

\* AskedIsGot: as many bytes as main.c allows do not make libqrencode take a larger
\* version than it was asked for, so that the width it asserts is right; and the
\* bytes that were encoded are the one entry that zbar parses, with a length of 8 or
\* 16 bits.
AskedIsGot ==
  phase = "parsed" =>
    /\ \A s \in Settings :
         (s.version = code.version /\ s.level = code.level /\ size <= s.max_bytes)
           => Width(ConvertedVersion(size, s.level, s.version)) = s.width
    /\ data_parse(Stream(code.version, code.level, size), read.version)
         = [ret |-> 0, entries |-> << [i \in 1 .. size |-> Byte(i - 1)] >>]
=============================================================================
