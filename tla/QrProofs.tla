-------------------------------- MODULE QrProofs --------------------------------
(***************************************************************************)
(* Of every code, whatever its version and level: each codeword that       *)
(* libqrencode draws goes to its place in the block that zbar corrects,    *)
(* and zbar reads the version, the level and the mask that libqrencode     *)
(* wrote, with up to three wrong bits in either copy of either.            *)
(***************************************************************************)
EXTENDS QrReader, FiniteSetTheorems, WellFoundedInduction, TLAPS

-----------------------------------------------------------------------------
(* The tables of qrspec.c against those of qrdec.c.                        *)

\* Blocks of either length.
Short(v, l) == eccTable[v][l + 1][1]
Long(v, l)  == eccTable[v][l + 1][2]

LEMMA SameWidth == \A v \in Versions : Width(v) = Dim(v)
BY DEF Versions, Width, Dim, qrspecCapacity

LEMMA SameWords == \A v \in Versions : Words(v) = qr_code_ncodewords(v)
<1> USE DEF qr_code_ncodewords
<1>1. qr_code_ncodewords(1) = 26 OBVIOUS   <1>2. qr_code_ncodewords(2) = 44 OBVIOUS
<1>3. qr_code_ncodewords(3) = 70 OBVIOUS   <1>4. qr_code_ncodewords(4) = 100 OBVIOUS
<1>5. qr_code_ncodewords(5) = 134 OBVIOUS   <1>6. qr_code_ncodewords(6) = 172 OBVIOUS
<1>7. qr_code_ncodewords(7) = 196 OBVIOUS   <1>8. qr_code_ncodewords(8) = 242 OBVIOUS
<1>9. qr_code_ncodewords(9) = 292 OBVIOUS   <1>10. qr_code_ncodewords(10) = 346 OBVIOUS
<1>11. qr_code_ncodewords(11) = 404 OBVIOUS   <1>12. qr_code_ncodewords(12) = 466 OBVIOUS
<1>13. qr_code_ncodewords(13) = 532 OBVIOUS   <1>14. qr_code_ncodewords(14) = 581 OBVIOUS
<1>15. qr_code_ncodewords(15) = 655 OBVIOUS   <1>16. qr_code_ncodewords(16) = 733 OBVIOUS
<1>17. qr_code_ncodewords(17) = 815 OBVIOUS   <1>18. qr_code_ncodewords(18) = 901 OBVIOUS
<1>19. qr_code_ncodewords(19) = 991 OBVIOUS   <1>20. qr_code_ncodewords(20) = 1085 OBVIOUS
<1>21. qr_code_ncodewords(21) = 1156 OBVIOUS   <1>22. qr_code_ncodewords(22) = 1258 OBVIOUS
<1>23. qr_code_ncodewords(23) = 1364 OBVIOUS   <1>24. qr_code_ncodewords(24) = 1474 OBVIOUS
<1>25. qr_code_ncodewords(25) = 1588 OBVIOUS   <1>26. qr_code_ncodewords(26) = 1706 OBVIOUS
<1>27. qr_code_ncodewords(27) = 1828 OBVIOUS   <1>28. qr_code_ncodewords(28) = 1921 OBVIOUS
<1>29. qr_code_ncodewords(29) = 2051 OBVIOUS   <1>30. qr_code_ncodewords(30) = 2185 OBVIOUS
<1>31. qr_code_ncodewords(31) = 2323 OBVIOUS   <1>32. qr_code_ncodewords(32) = 2465 OBVIOUS
<1>33. qr_code_ncodewords(33) = 2611 OBVIOUS   <1>34. qr_code_ncodewords(34) = 2761 OBVIOUS
<1>35. qr_code_ncodewords(35) = 2876 OBVIOUS   <1>36. qr_code_ncodewords(36) = 3034 OBVIOUS
<1>37. qr_code_ncodewords(37) = 3196 OBVIOUS   <1>38. qr_code_ncodewords(38) = 3362 OBVIOUS
<1>39. qr_code_ncodewords(39) = 3532 OBVIOUS   <1>40. qr_code_ncodewords(40) = 3706 OBVIOUS
<1> HIDE DEF qr_code_ncodewords
<1>41. QED
  BY <1>1, <1>2, <1>3, <1>4, <1>5, <1>6, <1>7, <1>8, <1>9, <1>10,
     <1>11, <1>12, <1>13, <1>14, <1>15, <1>16, <1>17, <1>18, <1>19, <1>20,
     <1>21, <1>22, <1>23, <1>24, <1>25, <1>26, <1>27, <1>28, <1>29, <1>30,
     <1>31, <1>32, <1>33, <1>34, <1>35, <1>36, <1>37, <1>38, <1>39, <1>40
  DEF Versions, Words, qrspecCapacity

LEMMA SameBlocks ==
  \A v \in Versions, l \in Levels :
     /\ Short(v, l) \in Nat /\ Short(v, l) >= 1 /\ Long(v, l) \in Nat
     /\ NBlocks(v, l) = Short(v, l) + Long(v, l)
<1> DEFINE Same(l) == \A v \in Versions :
                       /\ Short(v, l) \in Nat /\ Short(v, l) >= 1 /\ Long(v, l) \in Nat
                       /\ NBlocks(v, l) = Short(v, l) + Long(v, l)
<1> USE DEF Versions, NBlocks, Short, Long, eccTable, QR_RS_NBLOCKS
<1>1. Same(0)
  BY SMTT(150)
<1>2. Same(1)
  BY SMTT(150)
<1>3. Same(2)
  BY SMTT(150)
<1>4. Same(3)
  BY SMTT(150)
<1> HIDE DEF Short, Long, NBlocks
<1>5. QED
  BY <1>1, <1>2, <1>3, <1>4 DEF Levels

LEMMA SameParity ==
  \A v \in Versions, l \in Levels :
     /\ NPar(v, l) \in Nat /\ NPar(v, l) >= 1
     /\ EccLength(v, l) = NBlocks(v, l) * NPar(v, l)
<1> DEFINE Same(l) == \A v \in Versions :
                       /\ NPar(v, l) \in Nat /\ NPar(v, l) >= 1
                       /\ EccLength(v, l) = NBlocks(v, l) * NPar(v, l)
<1> USE DEF Versions, NBlocks, NPar, EccLength, qrspecCapacity, QR_RS_NBLOCKS, QR_RS_NPAR_VALS,
            QR_RS_NPAR_OFFS
<1>1. Same(0)
  BY SMTT(60)
<1>2. Same(1)
  BY SMTT(60)
<1>3. Same(2)
  BY SMTT(60)
<1>4. Same(3)
  BY SMTT(60)
<1> HIDE DEF NPar, EccLength, NBlocks
<1>5. QED
  BY <1>1, <1>2, <1>3, <1>4 DEF Levels

LEMMA WordsInBlocks ==
  \A v \in Versions, l \in Levels :
     /\ Words(v) \in Nat
     /\ Words(v) % NBlocks(v, l) = Long(v, l)
     /\ Words(v) > NBlocks(v, l) * (NPar(v, l) + 1)
<1> DEFINE Rest(l) == \A v \in Versions : Words(v) % NBlocks(v, l) = Long(v, l)
           More(l) == \A v \in Versions : Words(v) > NBlocks(v, l) * (NPar(v, l) + 1)
<1> USE DEF Versions, NBlocks, Long, eccTable, Words, qrspecCapacity, QR_RS_NBLOCKS
<1>1. Rest(0)
  BY SMTT(60)
<1>2. Rest(1)
  BY SMTT(60)
<1>3. Rest(2)
  BY SMTT(60)
<1>4. Rest(3)
  BY SMTT(60)
<1>5. More(0)
  BY SMTT(60) DEF NPar, QR_RS_NPAR_VALS, QR_RS_NPAR_OFFS
<1>6. More(1)
  BY SMTT(60) DEF NPar, QR_RS_NPAR_VALS, QR_RS_NPAR_OFFS
<1>7. More(2)
  BY SMTT(60) DEF NPar, QR_RS_NPAR_VALS, QR_RS_NPAR_OFFS
<1>8. More(3)
  BY SMTT(60) DEF NPar, QR_RS_NPAR_VALS, QR_RS_NPAR_OFFS
<1>9. \A v \in Versions : Words(v) \in Nat
  OBVIOUS
<1> HIDE DEF NBlocks, Long, Words
<1>10. QED
  BY <1>1, <1>2, <1>3, <1>4, <1>5, <1>6, <1>7, <1>8, <1>9 DEF Levels

\* Division by a number that need not be known.
LEMMA Quotient ==
  ASSUME NEW n \in Nat, NEW b \in Nat, NEW q \in Nat, NEW r \in Nat, r < b, n = b * q + r
  PROVE  n \div b = q /\ n % b = r
OBVIOUS

LEMMA Division ==
  ASSUME NEW n \in Nat, NEW b \in Nat, b >= 1
  PROVE  /\ n \div b \in Nat /\ n % b \in Nat /\ n % b < b
         /\ n = b * (n \div b) + (n % b)
OBVIOUS

LEMMA Products ==
  /\ \A a, b \in Nat : a * b \in Nat
  /\ \A a, b, c \in Nat : a * (b + c) = a * b + a * c
OBVIOUS

\* Both sides cut a code into the same blocks.
LEMMA SameCut ==
  ASSUME NEW v \in Versions, NEW l \in Levels
  PROVE  LET spec == EccSpec(v, l)
             B    == NBlocks(v, l)
         IN /\ spec.b1 \in Nat /\ spec.b1 >= 1 /\ spec.b2 \in Nat
            /\ spec.data \in Nat /\ spec.data >= 1 /\ spec.ecc \in Nat /\ spec.ecc >= 1
            /\ B = spec.b1 + spec.b2 /\ B = Blocks(spec)
            /\ NShort(v, l) = spec.b1
            /\ NPar(v, l) = spec.ecc
            /\ BlockSz(v, l) = spec.data + spec.ecc
            /\ SpecData(spec) = B * spec.data + spec.b2
            /\ SpecEcc(spec) = B * spec.ecc
            /\ SpecData(spec) + SpecEcc(spec) = qr_code_ncodewords(v)
<1> DEFINE B == NBlocks(v, l)
           b1 == Short(v, l)
           b2 == Long(v, l)
           e == NPar(v, l)
           q == Words(v) \div B
           d == q - e
           spec == EccSpec(v, l)
<1>1. /\ b1 \in Nat /\ b1 >= 1 /\ b2 \in Nat /\ B = b1 + b2
      /\ e \in Nat /\ e >= 1 /\ EccLength(v, l) = B * e
      /\ Words(v) \in Nat /\ Words(v) % B = b2 /\ Words(v) > B * (e + 1)
      /\ qr_code_ncodewords(v) = Words(v)
  BY SameWords, SameBlocks, SameParity, WordsInBlocks
<1> HIDE DEF B, b1, b2, e
<1>2. B \in Nat /\ B >= 1 /\ b2 < B
  BY <1>1
<1>3. q \in Nat /\ Words(v) = B * q + b2
  BY <1>1, <1>2, Division
<1> HIDE DEF q
<1>4. q > e
  <2>1. SUFFICES ASSUME q <= e
                 PROVE  FALSE
    BY <1>1, <1>3
  <2>2. B * q <= B * e
    BY <1>1, <1>2, <1>3, <2>1
  <2>3. B * (e + 1) = B * e + B
    BY <1>1, <1>2
  <2>4. B * q \in Nat /\ B * e \in Nat
    BY <1>1, <1>2, <1>3
  <2>5. QED
    BY <1>1, <1>2, <1>3, <2>2, <2>3, <2>4
<1>5. d \in Nat /\ d >= 1 /\ q = d + e
  BY <1>1, <1>3, <1>4
<1> HIDE DEF d
<1>6. B * q = B * d + B * e /\ B * d \in Nat /\ B * e \in Nat
  BY <1>1, <1>2, <1>5, Products
<1>7. DataLength(v, l) = B * d + b2
  BY <1>1, <1>3, <1>6 DEF DataLength
<1>8. DataLength(v, l) \div B = d
  <2>1. b2 \in Nat /\ DataLength(v, l) \in Nat
    BY <1>1, <1>6, <1>7
  <2>2. QED
    BY <2>1, <1>2, <1>5, <1>7, Quotient
<1>9. EccLength(v, l) \div B = e
  <2>1. e \in Nat /\ EccLength(v, l) \in Nat /\ EccLength(v, l) = B * e + 0
    BY <1>1, <1>6
  <2>2. QED
    BY <2>1, <1>2, Quotient
<1>10. spec = [b1 |-> b1, b2 |-> b2, data |-> d, ecc |-> e]
  BY <1>1, <1>8, <1>9 DEF EccSpec, Short, Long, b1, b2
<1> HIDE DEF spec
<1>11. /\ NShort(v, l) = b1
       /\ BlockSz(v, l) = d + e
  BY <1>1, <1>2, <1>5 DEF NShort, BlockSz, B, q
<1>12. Blocks(spec) = B /\ SpecEcc(spec) = B * e
  BY <1>1, <1>10 DEF Blocks, SpecEcc
<1>13. SpecData(spec) = B * d + b2
  <2>1. SpecData(spec) = b1 * d + b2 * (d + 1)
    BY <1>10 DEF SpecData
  <2>2. b1 * d + b2 * (d + 1) = (b1 + b2) * d + b2
    BY <1>1, <1>5
  <2>3. QED
    BY <1>1, <2>1, <2>2
<1>14. SpecData(spec) + SpecEcc(spec) = Words(v)
  BY <1>1, <1>3, <1>6, <1>12, <1>13
<1>15. QED
  BY <1>1, <1>5, <1>10, <1>11, <1>12, <1>13, <1>14 DEF B, e, spec
-----------------------------------------------------------------------------
(* Where the next codeword goes, after count of them.                      *)

\* The codewords that all blocks have data for, those of the long blocks after them,
\* and the parity.
AtData(v, l, put, count) ==
  LET spec == EccSpec(v, l) IN
  /\ put.blockj < spec.data
  /\ count = NBlocks(v, l) * put.blockj + put.blocki
  /\ \A b \in DOMAIN put.held : put.held[b] = put.blockj + (IF b < put.blocki THEN 1 ELSE 0)

AtLong(v, l, put, count) ==
  LET spec == EccSpec(v, l) IN
  /\ put.blockj = spec.data /\ put.blocki >= spec.b1
  /\ count = NBlocks(v, l) * spec.data + (put.blocki - spec.b1)
  /\ \A b \in DOMAIN put.held :
       put.held[b] = spec.data + (IF b >= spec.b1 /\ b < put.blocki THEN 1 ELSE 0)

InRound(v, l, put, count, c) ==
  LET spec == EccSpec(v, l) IN
  /\ put.blockj >= spec.data
  /\ count = SpecData(spec) + NBlocks(v, l) * c + put.blocki
  /\ \A b \in DOMAIN put.held :
       put.held[b] = BlockData(spec, b) + c + (IF b < put.blocki THEN 1 ELSE 0)

AtParity(v, l, put, count) == \E c \in Nat : InRound(v, l, put, count, c)

Places(v, l) == [blocki : 0 .. NBlocks(v, l) - 1, blockj : Nat,
                 held : [0 .. NBlocks(v, l) - 1 -> Nat]]

AtPlace(v, l, put, count) ==
  /\ put \in Places(v, l)
  /\ AtData(v, l, put, count) \/ AtLong(v, l, put, count) \/ AtParity(v, l, put, count)

LEMMA StartPlace ==
  ASSUME NEW v \in Versions, NEW l \in Levels
  PROVE  AtPlace(v, l, PutStart(v, l), 0)
<1>1. LET spec == EccSpec(v, l) IN
      /\ NBlocks(v, l) \in Nat /\ NBlocks(v, l) >= 1 /\ spec.data >= 1 /\ spec.data \in Nat
  BY SameCut
<1>2. PutStart(v, l) \in Places(v, l)
  BY <1>1 DEF PutStart, Places
<1>3. AtData(v, l, PutStart(v, l), 0)
  BY <1>1 DEF PutStart, AtData
<1>4. QED
  BY <1>2, <1>3 DEF AtPlace

LEMMA NextPlace ==
  ASSUME NEW v \in Versions, NEW l \in Levels, NEW put, NEW count \in Nat,
         AtPlace(v, l, put, count)
  PROVE  /\ AtPlace(v, l, PutByte(v, l, put), count + 1)
         /\ GetCode(EccSpec(v, l), count)
              = [block |-> put.blocki, index |-> put.held[put.blocki]]
<1> DEFINE spec == EccSpec(v, l)
           B == NBlocks(v, l)
           d == spec.data
           b1 == spec.b1
           b2 == spec.b2
           S == SpecData(spec)
           i == put.blocki
           j == put.blockj
           h == put.held
           next == PutByte(v, l, put)
           ni == next.blocki
           nj == next.blockj
           nh == next.held
<1>1. /\ b1 \in Nat /\ b1 >= 1 /\ b2 \in Nat /\ d \in Nat /\ d >= 1
      /\ B = b1 + b2
  BY SameCut
<1>11. S = B * d + b2
  BY SameCut
<1>12. /\ B = Blocks(spec)
       /\ NShort(v, l) = b1
       /\ BlockSz(v, l) - NPar(v, l) = d
  BY SameCut
<1>13. spec.b1 = b1 /\ spec.data = d /\ SpecData(spec) = S
  OBVIOUS
<1> HIDE DEF b1, b2, S, B, d, spec
<1>2. B \in Nat /\ B >= 1 /\ b1 <= B /\ B - b1 = b2
  BY <1>1
<1>21. B * d \in Nat /\ S \in Nat
  BY <1>1, <1>11, <1>2, Products
<1>3. i \in 0 .. B - 1 /\ j \in Nat /\ h \in [0 .. B - 1 -> Nat]
  BY DEF AtPlace, Places, B
<1>31. i \in Nat /\ i < B /\ \A b \in 0 .. B - 1 : h[b] \in Nat
  BY <1>2, <1>3
<1>4. /\ nh = [h EXCEPT ![i] = @ + 1]
      /\ nj = IF i + 1 >= B THEN j + 1 ELSE j
      /\ ni = CASE ~ (i + 1 >= B) -> i + 1
                [] i + 1 >= B /\ j + 1 = d -> (IF b1 >= B THEN 0 ELSE b1)
                [] OTHER -> 0
      /\ next = [held |-> nh, blockj |-> nj, blocki |-> ni]
  BY <1>1, <1>12 DEF PutByte, B, spec, d, b1
<1> HIDE DEF next, i, j, h, ni, nj, nh
<1>41. i + 1 < B => ni = i + 1 /\ nj = j
  BY <1>2, <1>31, <1>4
<1>42. i + 1 >= B => /\ nj = j + 1 /\ i + 1 = B
                     /\ j + 1 = d => ni = IF b1 >= B THEN 0 ELSE b1
                     /\ j + 1 # d => ni = 0
  BY <1>2, <1>31, <1>4
<1>43. nj \in Nat /\ ni \in 0 .. B - 1
  <2>1. CASE i + 1 < B
    BY <1>2, <1>3, <1>31, <1>41, <2>1
  <2>2. CASE i + 1 >= B
    BY <1>1, <1>2, <1>3, <1>42, <2>2
  <2>3. QED
    BY <1>2, <1>31, <2>1, <2>2
<1>5. /\ next \in Places(v, l)
      /\ DOMAIN next.held = 0 .. B - 1 /\ DOMAIN put.held = 0 .. B - 1
      /\ \A b \in 0 .. B - 1 : nh[b] = IF b = i THEN h[b] + 1 ELSE h[b]
  <2>1. nh \in [0 .. B - 1 -> Nat]
    BY <1>3, <1>31, <1>4
  <2>2. next \in Places(v, l)
    BY <1>4, <1>43, <2>1 DEF Places, B
  <2>3. QED
    BY <1>3, <1>4, <2>1, <2>2 DEF nh, h
<1>6. \A b \in 0 .. B - 1 : BlockData(spec, b) = d + (IF b < b1 THEN 0 ELSE 1)
  BY DEF BlockData, d, b1
<1>7. CASE AtData(v, l, put, count)
  <2>1. j < d /\ count = B * j + i
        /\ \A b \in 0 .. B - 1 : h[b] = j + (IF b < i THEN 1 ELSE 0)
    BY <1>5, <1>7 DEF AtData, B, d, b1, b2, S, spec, i, j, h, ni, nj, nh
  <2>2. B * j \in Nat /\ B * (j + 1) = B * j + B /\ B * 0 = 0
    BY <1>2, <1>3, <1>31, Products
  <2>3. AtPlace(v, l, next, count + 1)
    <3>1. CASE i + 1 < B
      <4>1. ni = i + 1 /\ nj = j
        BY <1>2, <1>3, <1>31, <1>41, <1>42, <3>1
      <4>2. \A b \in 0 .. B - 1 : nh[b] = j + (IF b < i + 1 THEN 1 ELSE 0)
        BY <1>2, <1>3, <1>31, <1>5, <2>1
      <4>3. count + 1 = B * j + (i + 1)
        BY <1>2, <1>3, <1>31, <2>1, <2>2
      <4>4. AtData(v, l, next, count + 1)
        BY <1>5, <2>1, <4>1, <4>2, <4>3 DEF AtData, B, d, b1, b2, S, spec, i, j, h, ni, nj, nh
      <4>5. QED
        BY <1>5, <4>4 DEF AtPlace
    <3>2. CASE i + 1 >= B /\ j + 1 # d
      <4>1. ni = 0 /\ nj = j + 1 /\ i + 1 = B
        BY <1>2, <1>3, <1>31, <1>41, <1>42, <3>2
      <4>2. \A b \in 0 .. B - 1 : nh[b] = (j + 1) + (IF b < 0 THEN 1 ELSE 0)
        BY <1>2, <1>3, <1>31, <1>5, <2>1, <4>1
      <4>3. count + 1 = B * (j + 1) + 0 /\ j + 1 < d
        BY <1>1, <1>2, <1>3, <1>31, <2>1, <2>2, <3>2, <4>1
      <4>4. AtData(v, l, next, count + 1)
        BY <1>5, <4>1, <4>2, <4>3 DEF AtData, B, d, b1, b2, S, spec, i, j, h, ni, nj, nh
      <4>5. QED
        BY <1>5, <4>4 DEF AtPlace
    <3>3. CASE i + 1 >= B /\ j + 1 = d
      <4>1. /\ ni = IF b1 >= B THEN 0 ELSE b1
            /\ nj = d /\ i + 1 = B
        BY <1>2, <1>3, <1>31, <1>41, <1>42, <3>3
      <4>2. \A b \in 0 .. B - 1 : nh[b] = d
        BY <1>2, <1>3, <1>31, <1>5, <2>1, <3>3, <4>1
      <4>3. count + 1 = B * d
        BY <1>1, <1>2, <1>3, <1>31, <2>1, <2>2, <3>3, <4>1
      <4>4. CASE b1 < B
        <5>1. ni = b1
          BY <1>1, <1>2, <4>1, <4>4
        <5>2. count + 1 = B * d + (b1 - b1)
          BY <1>1, <1>2, <4>3
        <5>3. \A b \in 0 .. B - 1 :
                nh[b] = d + (IF b >= b1 /\ b < b1 THEN 1 ELSE 0)
          BY <1>1, <4>2
        <5>4. AtLong(v, l, next, count + 1)
          BY <1>1, <1>5, <4>1, <5>1, <5>2, <5>3 DEF AtLong, B, d, b1, b2, S, spec, i, j, h, ni, nj, nh
        <5>5. QED
          BY <1>5, <5>4 DEF AtPlace
      <4>5. CASE b1 >= B
        <5>1. ni = 0 /\ b2 = 0
          BY <1>1, <1>2, <4>1, <4>5
        <5>2. count + 1 = S + B * 0 + 0
          BY <1>1, <1>11, <1>21, <2>2, <4>3, <5>1
        <5>3. \A b \in 0 .. B - 1 :
                nh[b] = BlockData(spec, b) + 0 + (IF b < 0 THEN 1 ELSE 0)
          BY <1>1, <1>2, <1>6, <4>2, <4>5
        <5>4. InRound(v, l, next, count + 1, 0)
          BY <1>1, <1>5, <4>1, <5>1, <5>2, <5>3 DEF InRound, B, d, b1, b2, S, spec, i, j, h, ni, nj, nh
        <5>5. QED
          BY <1>5, <5>4 DEF AtPlace, AtParity
      <4>6. QED
        BY <1>1, <1>2, <4>4, <4>5
    <3>4. QED
      BY <1>2, <1>3, <1>31, <3>1, <3>2, <3>3
  <2>4. GetCode(spec, count) = [block |-> i, index |-> h[i]]
    <3>1. count \div B = j /\ count % B = i
      BY <1>2, <1>3, <1>31, <2>1, Quotient
    <3>2. count < S
      <4>1. B * j + B <= B * d
        <5>1. PICK k \in Nat : d = (j + 1) + k
          <6>1. d - (j + 1) \in Nat /\ d = (j + 1) + (d - (j + 1))
            BY <1>1, <1>2, <1>3, <1>31, <2>1
          <6>2. QED
            BY <6>1
        <5>2. B * d = B * (j + 1) + B * k /\ B * k \in Nat
          BY <1>2, <1>3, <1>31, <5>1, Products
        <5>3. QED
          BY <1>2, <2>2, <5>2
      <4>2. QED
        BY <1>1, <1>11, <1>2, <1>21, <1>31, <2>1, <2>2, <4>1
    <3>3. GetCode(spec, count)
            = [block |-> (count % B) + (IF count \div B >= d THEN b1 ELSE 0),
               index |-> count \div B]
      BY <1>12, <1>13, <3>2 DEF GetCode
    <3>4. h[i] = j
      BY <1>2, <1>3, <1>31, <2>1
    <3>5. ~ (j >= d) /\ i + 0 = i
      BY <1>1, <1>31, <1>3, <2>1
    <3>6. QED
      BY <3>1, <3>3, <3>4, <3>5
  <2>5. QED
    BY <2>3, <2>4 DEF next, spec, i, h
<1>8. CASE AtLong(v, l, put, count)
  <2>1. /\ j = d /\ i >= b1 /\ count = B * d + (i - b1)
        /\ \A b \in 0 .. B - 1 :
             h[b] = d + (IF b >= b1 /\ b < i THEN 1 ELSE 0)
    BY <1>5, <1>8 DEF AtLong, B, d, b1, b2, S, spec, i, j, h, ni, nj, nh
  <2>2. AtPlace(v, l, next, count + 1)
    <3>1. CASE i + 1 < B
      <4>1. ni = i + 1 /\ nj = d
        BY <1>2, <1>3, <1>31, <1>41, <1>42, <2>1, <3>1
      <4>2. \A b \in 0 .. B - 1 :
              nh[b] = d + (IF b >= b1 /\ b < i + 1 THEN 1 ELSE 0)
        BY <1>1, <1>2, <1>3, <1>31, <1>5, <2>1
      <4>3. count + 1 = B * d + ((i + 1) - b1) /\ i + 1 >= b1
        BY <1>1, <1>2, <1>3, <1>31, <2>1
      <4>4. AtLong(v, l, next, count + 1)
        BY <1>5, <4>1, <4>2, <4>3 DEF AtLong, B, d, b1, b2, S, spec, i, j, h, ni, nj, nh
      <4>5. QED
        BY <1>5, <4>4 DEF AtPlace
    <3>2. CASE i + 1 >= B
      <4>1. ni = 0 /\ nj = d + 1 /\ i + 1 = B
        BY <1>1, <1>2, <1>3, <1>31, <1>41, <1>42, <2>1, <3>2
      <4>2. \A b \in 0 .. B - 1 :
              nh[b] = BlockData(spec, b) + 0 + (IF b < 0 THEN 1 ELSE 0)
        BY <1>1, <1>2, <1>3, <1>31, <1>5, <1>6, <2>1, <4>1
      <4>3. count + 1 = S + B * 0 + 0
        <5>1. B * 0 = 0
          BY <1>2
        <5>2. QED
          BY <1>1, <1>11, <1>2, <1>21, <1>31, <2>1, <4>1, <5>1
      <4>4. InRound(v, l, next, count + 1, 0)
        BY <1>1, <1>5, <4>1, <4>2, <4>3 DEF InRound, B, d, b1, b2, S, spec, i, j, h, ni, nj, nh
      <4>5. QED
        BY <1>5, <4>4 DEF AtPlace, AtParity
    <3>3. QED
      BY <1>2, <1>3, <1>31, <3>1, <3>2
  <2>3. GetCode(spec, count) = [block |-> i, index |-> h[i]]
    <3>1. i - b1 \in Nat /\ i - b1 < B /\ i - b1 < b2
      BY <1>1, <1>2, <1>3, <1>31, <2>1
    <3>2. count \div B = d /\ count % B = i - b1
      BY <1>1, <1>2, <2>1, <3>1, Quotient
    <3>3. count < S
      BY <1>1, <1>11, <1>21, <2>1, <3>1
    <3>4. GetCode(spec, count) = [block |-> (i - b1) + b1, index |-> d]
      BY <1>12, <1>13, <1>1, <3>2, <3>3 DEF GetCode
    <3>5. h[i] = d
      BY <1>1, <1>2, <1>3, <1>31, <2>1
    <3>6. QED
      BY <1>1, <1>2, <1>3, <1>31, <3>4, <3>5
  <2>4. QED
    BY <2>2, <2>3 DEF next, spec, i, h
<1>9. CASE AtParity(v, l, put, count)
  <2>1. PICK c \in Nat : InRound(v, l, put, count, c)
    BY <1>9 DEF AtParity
  <2>2. /\ j >= d /\ count = S + B * c + i
    BY <2>1 DEF InRound, B, S, d, spec, i, j
  <2>22. \A b \in 0 .. B - 1 : h[b] = BlockData(spec, b) + c + (IF b < i THEN 1 ELSE 0)
    BY <1>5, <2>1 DEF InRound, B, spec, i, h
  <2>3. B * c \in Nat /\ B * (c + 1) = B * c + B
    BY <1>2, Products
  <2>4. \A b \in 0 .. B - 1 : BlockData(spec, b) \in Nat
    BY <1>1, <1>6
  <2>5. AtPlace(v, l, next, count + 1)
    <3>1. CASE i + 1 < B
      <4>1. ni = i + 1 /\ nj = j
        BY <1>2, <1>3, <1>31, <1>41, <1>42, <3>1
      <4>2. \A b \in 0 .. B - 1 :
              nh[b] = BlockData(spec, b) + c + (IF b < i + 1 THEN 1 ELSE 0)
        <5>1. SUFFICES ASSUME NEW b \in 0 .. B - 1
                       PROVE  nh[b] = BlockData(spec, b) + c + (IF b < i + 1 THEN 1 ELSE 0)
          OBVIOUS
        <5> DEFINE D == BlockData(spec, b)
        <5>2. /\ b \in Int /\ D \in Nat /\ h[b] = D + c + (IF b < i THEN 1 ELSE 0)
              /\ nh[b] = IF b = i THEN h[b] + 1 ELSE h[b]
          BY <1>2, <1>5, <2>22, <2>4
        <5> HIDE DEF D
        <5>3. nh[b] = D + c + (IF b < i + 1 THEN 1 ELSE 0)
          BY <1>31, <5>2
        <5>4. QED
          BY <5>3 DEF D
      <4>3. count + 1 = S + B * c + (i + 1)
        BY <1>2, <1>21, <1>31, <2>2, <2>3
      <4>4. InRound(v, l, next, count + 1, c)
        BY <1>5, <2>2, <4>1, <4>2, <4>3 DEF InRound, B, d, b1, b2, S, spec, i, j, h, ni, nj, nh
      <4>5. QED
        BY <1>5, <4>4 DEF AtPlace, AtParity
    <3>2. CASE i + 1 >= B
      <4>1. ni = 0 /\ nj = j + 1 /\ i + 1 = B
        BY <1>1, <1>2, <1>3, <1>31, <1>42, <2>2, <3>2
      <4>2. \A b \in 0 .. B - 1 :
              nh[b] = BlockData(spec, b) + (c + 1) + (IF b < 0 THEN 1 ELSE 0)
        <5>1. SUFFICES ASSUME NEW b \in 0 .. B - 1
                       PROVE  nh[b] = BlockData(spec, b) + (c + 1) + (IF b < 0 THEN 1 ELSE 0)
          OBVIOUS
        <5> DEFINE D == BlockData(spec, b)
        <5>2. /\ b \in Nat /\ b < B /\ D \in Nat /\ h[b] = D + c + (IF b < i THEN 1 ELSE 0)
              /\ nh[b] = IF b = i THEN h[b] + 1 ELSE h[b]
          BY <1>2, <1>5, <2>22, <2>4
        <5> HIDE DEF D
        <5>3. nh[b] = D + (c + 1) + (IF b < 0 THEN 1 ELSE 0)
          BY <1>2, <1>31, <4>1, <5>2
        <5>4. QED
          BY <5>3 DEF D
      <4>3. count + 1 = S + B * (c + 1) + 0
        BY <1>2, <1>21, <1>31, <2>2, <2>3, <4>1
      <4>4. c + 1 \in Nat /\ j + 1 >= d
        BY <1>1, <1>2, <1>3, <1>31, <2>2
      <4>5. InRound(v, l, next, count + 1, c + 1)
        BY <1>5, <4>1, <4>2, <4>3, <4>4 DEF InRound, B, d, b1, b2, S, spec, i, j, h, ni, nj, nh
      <4>6. QED
        BY <1>5, <4>4, <4>5 DEF AtPlace, AtParity
    <3>3. QED
      BY <1>2, <1>3, <1>31, <3>1, <3>2
  <2>6. GetCode(spec, count) = [block |-> i, index |-> h[i]]
    <3> DEFINE r == count - S
    <3>1. r \in Nat /\ r = B * c + i /\ ~ (count < S)
      BY <1>2, <1>21, <1>31, <2>2, <2>3
    <3> HIDE DEF r
    <3>2. r \div B = c /\ r % B = i
      BY <1>2, <1>3, <1>31, <3>1, Quotient
    <3>3. GetCode(spec, count) = [block |-> i, index |-> BlockData(spec, i) + c]
      BY <1>12, <1>13, <1>1, <3>1, <3>2 DEF GetCode, r
    <3>4. h[i] = BlockData(spec, i) + c
      BY <1>2, <1>3, <1>31, <2>22, <2>4
    <3>5. QED
      BY <3>3, <3>4
  <2>7. QED
    BY <2>5, <2>6 DEF next, spec, i, h
<1>10. QED
  BY <1>7, <1>8, <1>9 DEF AtPlace

LEMMA LastPlace ==
  ASSUME NEW v \in Versions, NEW l \in Levels, NEW put,
         AtPlace(v, l, put, SpecData(EccSpec(v, l)) + SpecEcc(EccSpec(v, l)))
  PROVE  /\ DOMAIN put.held = 0 .. NBlocks(v, l) - 1
         /\ \A b \in DOMAIN put.held :
              /\ put.held[b] = BlockSize(v, l, b)
              /\ put.held[b] - NPar(v, l) = BlockData(EccSpec(v, l), b)
<1> DEFINE spec == EccSpec(v, l)
           B == NBlocks(v, l)
           d == spec.data
           e == spec.ecc
           b1 == spec.b1
           b2 == spec.b2
           S == SpecData(spec)
           i == put.blocki
           j == put.blockj
           h == put.held
<1>1. /\ b1 \in Nat /\ b1 >= 1 /\ b2 \in Nat /\ d \in Nat /\ d >= 1 /\ e \in Nat /\ e >= 1
      /\ B = b1 + b2
  BY SameCut
<1>2. S = B * d + b2 /\ SpecEcc(spec) = B * e
  BY SameCut
<1>3. NShort(v, l) = b1 /\ NPar(v, l) = e /\ BlockSz(v, l) = d + e
  BY SameCut
<1>4. i \in 0 .. B - 1 /\ j \in Nat /\ h \in [0 .. B - 1 -> Nat]
  BY DEF AtPlace, Places
<1>5. AtData(v, l, put, S + B * e) => S + B * e = B * j + i /\ j < d
  BY DEF AtData
<1>6. AtLong(v, l, put, S + B * e) => S + B * e = B * d + (i - b1)
  BY DEF AtLong
<1>7. \A c \in Nat : InRound(v, l, put, S + B * e, c) =>
        /\ S + B * e = S + B * c + i
        /\ \A b \in 0 .. B - 1 :
             h[b] = BlockData(spec, b) + c + (IF b < i THEN 1 ELSE 0)
  BY <1>4 DEF InRound
<1>8. \A b \in 0 .. B - 1 :
        /\ BlockData(spec, b) = d + (IF b < b1 THEN 0 ELSE 1)
        /\ BlockSize(v, l, b) = (d + e) + (IF b >= b1 THEN 1 ELSE 0)
  BY <1>3 DEF BlockData, BlockSize
<1>9. AtData(v, l, put, S + B * e) \/ AtLong(v, l, put, S + B * e)
        \/ \E c \in Nat : InRound(v, l, put, S + B * e, c)
  BY <1>2 DEF AtPlace, AtParity
<1> HIDE DEF spec, B, d, e, b1, b2, S, i, j, h
<1>10. B \in Nat /\ B >= 1 /\ b1 <= B /\ b2 < B /\ i \in Nat /\ i < B
  BY <1>1, <1>4
<1>11. B * d \in Nat /\ B * e \in Nat /\ B * j \in Nat /\ S \in Nat /\ B * e >= B
  <2>1. PICK k \in Nat : e = 1 + k
    <3>1. e - 1 \in Nat /\ e = 1 + (e - 1)
      BY <1>1
    <3>2. QED
      BY <3>1
  <2>2. B * e = B * 1 + B * k /\ B * k \in Nat /\ B * 1 = B
    BY <1>10, <2>1, Products
  <2>3. B * d \in Nat /\ B * e \in Nat /\ B * j \in Nat
    BY <1>1, <1>4, <1>10, Products
  <2>4. QED
    BY <1>1, <1>2, <1>10, <2>2, <2>3
<1>12. ~ AtData(v, l, put, S + B * e)
  <2>1. SUFFICES ASSUME S + B * e = B * j + i, j < d
                 PROVE  FALSE
    BY <1>5
  <2>2. PICK k \in Nat : d = j + k
    <3>1. d - j \in Nat /\ d = j + (d - j)
      BY <1>1, <1>4, <2>1
    <3>2. QED
      BY <3>1
  <2>3. B * d = B * j + B * k /\ B * k \in Nat
    BY <1>4, <1>10, <2>2, Products
  <2>4. QED
    BY <1>1, <1>2, <1>10, <1>11, <2>1, <2>3
<1>13. ~ AtLong(v, l, put, S + B * e)
  BY <1>1, <1>2, <1>6, <1>10, <1>11
<1>14. PICK c \in Nat : InRound(v, l, put, S + B * e, c)
  BY <1>9, <1>12, <1>13
<1>15. B * e = B * c + i
  <2>1. B * c \in Nat
    BY <1>10, Products
  <2>2. QED
    BY <1>7, <1>10, <1>11, <1>14, <2>1
<1>16. c = e /\ i = 0
  <2>1. (B * e) \div B = c /\ (B * e) % B = i
    BY <1>10, <1>11, <1>15, Quotient
  <2>2. B * e = B * e + 0
    BY <1>11
  <2>3. (B * e) \div B = e /\ (B * e) % B = 0
    BY <1>1, <1>10, <1>11, <2>2, Quotient
  <2>4. QED
    BY <2>1, <2>3
<1>17. \A b \in 0 .. B - 1 : h[b] = d + (IF b < b1 THEN 0 ELSE 1) + e
  BY <1>1, <1>7, <1>8, <1>10, <1>14, <1>16
<1>18. DOMAIN put.held = 0 .. B - 1
  BY <1>4 DEF h
<1>19. \A b \in 0 .. B - 1 : /\ h[b] = BlockSize(v, l, b)
                             /\ h[b] - NPar(v, l) = BlockData(spec, b)
  BY <1>1, <1>3, <1>8, <1>10, <1>17
<1>20. QED
  BY <1>18, <1>19 DEF B, h, spec

-----------------------------------------------------------------------------
(* The reader.                                                             *)

Sampling == {"sample", "blocks", "corrected", "parsed"}

\* What the reader knows of the code once it samples, and where the codewords are.
SampleInv ==
  /\ code \in Codes
  /\ phase \in Sampling => ReadRight
  /\ DOMAIN sample = {"pen", "scan", "put", "count", "drawn", "sampled", "from", "to"}
  /\ sample.from = sample.to
  /\ sample.count \in Nat
  /\ AtPlace(code.version, code.level, sample.put, sample.count)
  /\ phase = "blocks" =>
       LET spec == EccSpec(code.version, code.level)
       IN sample.count = SpecData(spec) + SpecEcc(spec)

LEMMA CodeType == ASSUME NEW c \in Codes PROVE c.version \in Versions /\ c.level \in Levels
BY CodesAssumption

LEMMA SampleInit == Init => SampleInv
<1>1. SUFFICES ASSUME Init
               PROVE  SampleInv
  OBVIOUS
<1>2. code.version \in Versions /\ code.level \in Levels
  BY <1>1, CodeType DEF Init
<1>3. AtPlace(code.version, code.level, PutStart(code.version, code.level), 0)
  BY <1>2, StartPlace
<1>4. QED
  BY <1>1, <1>3 DEF Init, SampleInv, Sampling, Start

LEMMA SampleStep == SampleInv /\ [Next]_vars => SampleInv'
<1>1. SUFFICES ASSUME SampleInv, [Next]_vars
               PROVE  SampleInv'
  OBVIOUS
<1>2. code.version \in Versions /\ code.level \in Levels
  BY <1>1, CodeType DEF SampleInv
<1>3. CASE /\ UNCHANGED <<code, sample>>
           /\ phase' \in Sampling => ReadRight'
           /\ phase' # "blocks" \/ UNCHANGED phase
  <2>1. /\ code' = code /\ sample' = sample
        /\ phase' = "blocks" => phase = "blocks"
    BY <1>3
  <2>2. (phase \in Sampling => ReadRight)'
    BY <1>3 DEF Sampling
  <2>3. QED
    BY <1>1, <2>1, <2>2 DEF SampleInv
<1>4. CASE ReadVersion
  BY <1>3, <1>4 DEF ReadVersion, Sampling
<1>5. CASE VersionFound
  BY <1>3, <1>5 DEF VersionFound, Sampling
<1>6. CASE ReadFormat
  BY <1>3, <1>6 DEF ReadFormat, Sampling
<1>7. CASE SwapFinders
  BY <1>3, <1>7 DEF SwapFinders, Sampling
<1>8. CASE BeginSampling
  BY <1>3, <1>8 DEF BeginSampling, Sampling, ReadRight, ecc_level, mask
<1>9. CASE SampleCodeword
  <2> DEFINE spec == EccSpec(code.version, code.level)
  <2>1. /\ ReadRight /\ phase = "sample" /\ UNCHANGED <<code, read, phase>>
    BY <1>1, <1>9 DEF SampleInv, SampleCodeword, Sampling
  <2>2. /\ DOMAIN sample' = {"pen", "scan", "put", "count", "drawn", "sampled", "from", "to"}
        /\ sample'.put = PutByte(code.version, code.level, sample.put)
        /\ sample'.count = sample.count + 1
        /\ sample'.from = GetCode(spec, sample.count)
        /\ sample'.to = [block |-> sample.put.blocki,
                         index |-> sample.put.held[sample.put.blocki]]
    BY <1>9, <2>1 DEF SampleCodeword, ReadRight
  <2>3. /\ sample.count \in Nat
        /\ AtPlace(code.version, code.level, sample.put, sample.count)
    BY <1>1 DEF SampleInv
  <2>4. /\ AtPlace(code.version, code.level, sample'.put, sample'.count)
        /\ sample'.from = sample'.to
    BY <1>2, <2>2, <2>3, NextPlace
  <2>5. ReadRight'
    BY <2>1 DEF ReadRight, ecc_level, mask
  <2>6. QED
    BY <1>1, <2>1, <2>2, <2>3, <2>4, <2>5 DEF SampleInv
<1>10. CASE SampleRemainder
  <2> DEFINE spec == EccSpec(code.version, code.level)
  <2>1. /\ ReadRight /\ UNCHANGED <<code, read>>
        /\ sample.count = SpecData(spec) + SpecEcc(spec)
    BY <1>1, <1>10 DEF SampleInv, SampleRemainder, Sampling
  <2>2. /\ DOMAIN sample' = DOMAIN sample
        /\ sample'.put = sample.put /\ sample'.count = sample.count
        /\ sample'.from = sample.from /\ sample'.to = sample.to
    BY <1>1, <1>10 DEF SampleInv, SampleRemainder
  <2>3. ReadRight'
    BY <2>1 DEF ReadRight, ecc_level, mask
  <2>4. QED
    BY <1>1, <2>1, <2>2, <2>3 DEF SampleInv
<1>11. CASE CorrectBlock
  BY <1>1, <1>3, <1>11 DEF CorrectBlock, SampleInv, Sampling, ReadRight, ecc_level, mask
<1>12. CASE ParseStream
  BY <1>1, <1>3, <1>12 DEF ParseStream, SampleInv, Sampling, ReadRight, ecc_level, mask
<1>13. CASE UNCHANGED vars
  BY <1>1, <1>3, <1>13 DEF vars, SampleInv, ReadRight, ecc_level, mask
<1>14. QED
  BY <1>1, <1>4, <1>5, <1>6, <1>7, <1>8, <1>9, <1>10, <1>11, <1>12, <1>13 DEF Next

LEMMA PlacedIsInBlocks == SampleInv => InBlocks
<1>1. SUFFICES ASSUME SampleInv
               PROVE  InBlocks
  OBVIOUS
<1> DEFINE v == code.version
           l == code.level
           spec == EccSpec(v, l)
<1>2. v \in Versions /\ l \in Levels
  BY <1>1, CodeType DEF SampleInv
<1>3. phase = "sample" => sample.from = sample.to
  BY <1>1 DEF SampleInv
<1>4. ASSUME phase = "blocks"
      PROVE  /\ sample.count = qr_code_ncodewords(read.version)
             /\ NBlocks(read.version, ecc_level) = Blocks(spec)
             /\ \A b \in DOMAIN sample.put.held :
                  /\ sample.put.held[b] = BlockSize(read.version, ecc_level, b)
                  /\ sample.put.held[b] - NPar(read.version, ecc_level) = BlockData(spec, b)
  <2>1. /\ read.version = v /\ ecc_level = l
        /\ sample.count = SpecData(spec) + SpecEcc(spec)
        /\ AtPlace(v, l, sample.put, SpecData(spec) + SpecEcc(spec))
    BY <1>1, <1>4 DEF SampleInv, Sampling, ReadRight
  <2>2. SpecData(spec) + SpecEcc(spec) = qr_code_ncodewords(v) /\ NBlocks(v, l) = Blocks(spec)
    BY <1>2, SameCut
  <2>3. \A b \in DOMAIN sample.put.held :
          /\ sample.put.held[b] = BlockSize(v, l, b)
          /\ sample.put.held[b] - NPar(v, l) = BlockData(spec, b)
    BY <1>2, <2>1, LastPlace
  <2>4. QED
    BY <2>1, <2>2, <2>3
<1>5. QED
  BY <1>3, <1>4 DEF InBlocks

\* InBlocks: of every code, each codeword goes to its place in the block it comes from, and
\* both sides cut the same blocks into data and parity (QRraw_getCode against
\* qr_samples_unpack, the tables of qrspec.c against those of qrdec.c).
THEOREM CodewordsGoToTheirBlocks == Spec => []InBlocks
<1>1. SampleInv /\ [Next]_vars => SampleInv'
  BY SampleStep
<1>2. QED
  BY <1>1, SampleInit, PlacedIsInBlocks, PTL DEF Spec

-----------------------------------------------------------------------------
(* The words of the version information.  A word is linear in the digits   *)
(* of its version, and each sum of words but the empty one has at least    *)
(* seven ones: so two words are seven bits apart.                          *)

\* The powers of two that words of version information are made of.
LEMMA Powers ==
  /\ 2^0 = 1
  /\ 2^1 = 2
  /\ 2^2 = 4
  /\ 2^3 = 8
  /\ 2^4 = 16
  /\ 2^5 = 32
  /\ 2^6 = 64
  /\ 2^7 = 128
  /\ 2^8 = 256
  /\ 2^9 = 512
  /\ 2^10 = 1024
  /\ 2^11 = 2048
  /\ 2^12 = 4096
  /\ 2^13 = 8192
  /\ 2^14 = 16384
  /\ 2^15 = 32768
  /\ 2^16 = 65536
  /\ 2^17 = 131072
OBVIOUS

\* Bit i of the word for six digits: the digits, from bit 12 on, and sums of them.
CodeBit(i, a) ==
  CASE i = 0 -> (a[0] + a[1] + a[5]) % 2
    [] i = 1 -> (a[1] + a[2]) % 2
    [] i = 2 -> (a[0] + a[1] + a[2] + a[3] + a[5]) % 2
    [] i = 3 -> (a[1] + a[2] + a[3] + a[4]) % 2
    [] i = 4 -> (a[2] + a[3] + a[4] + a[5]) % 2
    [] i = 5 -> (a[0] + a[1] + a[3] + a[4]) % 2
    [] i = 6 -> (a[1] + a[2] + a[4] + a[5]) % 2
    [] i = 7 -> (a[2] + a[3] + a[5]) % 2
    [] i = 8 -> (a[0] + a[1] + a[3] + a[4] + a[5]) % 2
    [] i = 9 -> (a[0] + a[2] + a[4]) % 2
    [] i = 10 -> (a[0] + a[3]) % 2
    [] i = 11 -> (a[0] + a[4] + a[5]) % 2
    [] i = 12 -> (a[0]) % 2
    [] i = 13 -> (a[1]) % 2
    [] i = 14 -> (a[2]) % 2
    [] i = 15 -> (a[3]) % 2
    [] i = 16 -> (a[4]) % 2
    [] i = 17 -> (a[5]) % 2

Digits == [0 .. 5 -> {0, 1}]
DigitsOf(v) == [j \in 0 .. 5 |-> CASE j = 0 -> v % 2
                                  [] j = 1 -> (v \div 2) % 2
                                  [] j = 2 -> (v \div 4) % 2
                                  [] j = 3 -> (v \div 8) % 2
                                  [] j = 4 -> (v \div 16) % 2
                                  [] j = 5 -> (v \div 32) % 2]

LEMMA WordBits ==
  \A v \in 7 .. 40, i \in 0 .. 17 : (BCH18_6_CODES[v - 6] \div 2^i) % 2 = CodeBit(i, DigitsOf(v))
<1> DEFINE P(i) == \A v \in 7 .. 40 : (BCH18_6_CODES[v - 6] \div 2^i) % 2 = CodeBit(i, DigitsOf(v))
<1>0. P(0)
  BY Powers, SMTT(60) DEF BCH18_6_CODES, CodeBit, DigitsOf
<1>1. P(1)
  BY Powers, SMTT(60) DEF BCH18_6_CODES, CodeBit, DigitsOf
<1>2. P(2)
  BY Powers, SMTT(60) DEF BCH18_6_CODES, CodeBit, DigitsOf
<1>3. P(3)
  BY Powers, SMTT(60) DEF BCH18_6_CODES, CodeBit, DigitsOf
<1>4. P(4)
  BY Powers, SMTT(60) DEF BCH18_6_CODES, CodeBit, DigitsOf
<1>5. P(5)
  BY Powers, SMTT(60) DEF BCH18_6_CODES, CodeBit, DigitsOf
<1>6. P(6)
  BY Powers, SMTT(60) DEF BCH18_6_CODES, CodeBit, DigitsOf
<1>7. P(7)
  BY Powers, SMTT(60) DEF BCH18_6_CODES, CodeBit, DigitsOf
<1>8. P(8)
  BY Powers, SMTT(60) DEF BCH18_6_CODES, CodeBit, DigitsOf
<1>9. P(9)
  BY Powers, SMTT(60) DEF BCH18_6_CODES, CodeBit, DigitsOf
<1>10. P(10)
  BY Powers, SMTT(60) DEF BCH18_6_CODES, CodeBit, DigitsOf
<1>11. P(11)
  BY Powers, SMTT(60) DEF BCH18_6_CODES, CodeBit, DigitsOf
<1>12. P(12)
  BY Powers, SMTT(60) DEF BCH18_6_CODES, CodeBit, DigitsOf
<1>13. P(13)
  BY Powers, SMTT(60) DEF BCH18_6_CODES, CodeBit, DigitsOf
<1>14. P(14)
  BY Powers, SMTT(60) DEF BCH18_6_CODES, CodeBit, DigitsOf
<1>15. P(15)
  BY Powers, SMTT(60) DEF BCH18_6_CODES, CodeBit, DigitsOf
<1>16. P(16)
  BY Powers, SMTT(60) DEF BCH18_6_CODES, CodeBit, DigitsOf
<1>17. P(17)
  BY Powers, SMTT(60) DEF BCH18_6_CODES, CodeBit, DigitsOf
<1> HIDE DEF P
<1>18. \A i \in 0 .. 17 : P(i)
  BY <1>0, <1>1, <1>2, <1>3, <1>4, <1>5, <1>6, <1>7, <1>8, <1>9, <1>10, <1>11, <1>12, <1>13, <1>14, <1>15, <1>16, <1>17
<1>19. QED
  BY <1>18 DEF P

Number(c) ==
  CodeBit(0, c) + CodeBit(1, c) + CodeBit(2, c) + CodeBit(3, c) + CodeBit(4, c) + CodeBit(5, c)
    + CodeBit(6, c) + CodeBit(7, c) + CodeBit(8, c) + CodeBit(9, c) + CodeBit(10, c) + CodeBit(11, c)
    + CodeBit(12, c) + CodeBit(13, c) + CodeBit(14, c) + CodeBit(15, c) + CodeBit(16, c) + CodeBit(17, c)

Sum2(a, b) == [j \in 0 .. 5 |-> (a[j] + b[j]) % 2]

LEMMA CodeBitRange == \A c \in Digits, i \in 0 .. 17 : CodeBit(i, c) \in {0, 1}
BY DEF Digits, CodeBit

LEMMA CodeIsLinear ==
  ASSUME NEW a \in Digits, NEW b \in Digits
  PROVE  /\ Sum2(a, b) \in Digits
         /\ \A i \in 0 .. 17 : CodeBit(i, Sum2(a, b)) = (CodeBit(i, a) + CodeBit(i, b)) % 2
BY DEF Digits, CodeBit, Sum2

LEMMA SevenOnes ==
  ASSUME NEW c \in Digits, \E j \in 0 .. 5 : c[j] # 0
  PROVE  Number(c) >= 7
BY SMTT(60) DEF Digits, CodeBit, Number

LEMMA DigitsDiffer ==
  ASSUME NEW v \in 7 .. 40, NEW w \in 7 .. 40, v # w
  PROVE  /\ DigitsOf(v) \in Digits /\ DigitsOf(w) \in Digits
         /\ \E j \in 0 .. 5 : Sum2(DigitsOf(v), DigitsOf(w))[j] # 0
BY DEF Digits, DigitsOf, Sum2

\* How many members a set of bits has.
One(p) == IF p THEN 1 ELSE 0
LEMMA CountUpTo ==
  ASSUME NEW S \in SUBSET (0 .. 17), NEW k \in Nat
  PROVE  /\ Cardinality(S \cap 0 .. k) \in Nat
         /\ Cardinality(S \cap 0 .. k) = Cardinality(S \cap 0 .. k - 1) + One(k \in S)
<1> DEFINE T == S \cap 0 .. k - 1
           U == S \cap 0 .. k
<1>1. \A a, b \in Int : IsFiniteSet(a .. b)
  BY FS_Interval
<1>2. IsFiniteSet(0 .. k - 1)
  <2>1. 0 \in Int /\ k - 1 \in Int
    OBVIOUS
  <2>2. QED
    BY <1>1, <2>1, Zenon
<1>3. T \in SUBSET (0 .. k - 1)
  OBVIOUS
<1>4. U = IF k \in S THEN T \cup {k} ELSE T
  OBVIOUS
<1>5. k \notin T
  OBVIOUS
<1> HIDE DEF T, U
<1>6. IsFiniteSet(T)
  BY <1>2, <1>3, FS_Subset
<1>7. Cardinality(T) \in Nat
  BY <1>6, FS_CardinalityType
<1>8. Cardinality(T \cup {k}) = Cardinality(T) + 1
  BY <1>5, <1>6, FS_AddElement
<1>9. CASE k \in S
  <2>1. Cardinality(U) = Cardinality(T) + 1
    BY <1>4, <1>8, <1>9, Zenon
  <2>2. One(k \in S) = 1
    BY <1>9 DEF One
  <2>3. QED
    BY <1>7, <2>1, <2>2 DEF T, U
<1>10. CASE k \notin S
  <2>1. Cardinality(U) = Cardinality(T)
    BY <1>4, <1>10, Zenon
  <2>2. One(k \in S) = 0
    BY <1>10 DEF One
  <2>3. Cardinality(U) \in Nat /\ Cardinality(U) = Cardinality(T) + 0
    BY <1>7, <2>1
  <2>4. QED
    BY <2>2, <2>3 DEF T, U
<1>11. QED
  BY <1>9, <1>10

LEMMA Count ==
  ASSUME NEW S \in SUBSET (0 .. 17)
  PROVE  Cardinality(S) = One(0 \in S) + One(1 \in S) + One(2 \in S) + One(3 \in S) + One(4 \in S) + One(5 \in S)
           + One(6 \in S) + One(7 \in S) + One(8 \in S) + One(9 \in S) + One(10 \in S) + One(11 \in S)
           + One(12 \in S) + One(13 \in S) + One(14 \in S) + One(15 \in S) + One(16 \in S) + One(17 \in S)
<1> DEFINE C(k) == Cardinality(S \cap 0 .. k)
           O(k) == One(k \in S)
<1>1. C(17) = Cardinality(S)
  <2>1. S \cap 0 .. 17 = S
    OBVIOUS
  <2>2. QED
    BY <2>1, Zenon
<1>2. C(-1) = 0
  <2>1. S \cap 0 .. -1 = {}
    OBVIOUS
  <2>2. QED
    BY <2>1, FS_EmptySet, Zenon
<1>3. \A k \in Nat : O(k) \in Nat /\ C(k) \in Nat /\ C(k) = C(k - 1) + O(k)
  BY CountUpTo DEF One
<1> HIDE DEF C, O
<1>4. C(0) = C(-1) + O(0)
  BY <1>3
<1>5. C(1) = C(0) + O(1)
  BY <1>3
<1>6. C(2) = C(1) + O(2)
  BY <1>3
<1>7. C(3) = C(2) + O(3)
  BY <1>3
<1>8. C(4) = C(3) + O(4)
  BY <1>3
<1>9. C(5) = C(4) + O(5)
  BY <1>3
<1>10. C(6) = C(5) + O(6)
  BY <1>3
<1>11. C(7) = C(6) + O(7)
  BY <1>3
<1>12. C(8) = C(7) + O(8)
  BY <1>3
<1>13. C(9) = C(8) + O(9)
  BY <1>3
<1>14. C(10) = C(9) + O(10)
  BY <1>3
<1>15. C(11) = C(10) + O(11)
  BY <1>3
<1>16. C(12) = C(11) + O(12)
  BY <1>3
<1>17. C(13) = C(12) + O(13)
  BY <1>3
<1>18. C(14) = C(13) + O(14)
  BY <1>3
<1>19. C(15) = C(14) + O(15)
  BY <1>3
<1>20. C(16) = C(15) + O(16)
  BY <1>3
<1>21. C(17) = C(16) + O(17)
  BY <1>3
<1>22. C(17) = O(0) + O(1) + O(2) + O(3) + O(4) + O(5)
             + O(6) + O(7) + O(8) + O(9) + O(10) + O(11)
             + O(12) + O(13) + O(14) + O(15) + O(16) + O(17)
  BY <1>2, <1>3, <1>4, <1>5, <1>6, <1>7, <1>8, <1>9, <1>10, <1>11, <1>12, <1>13, <1>14, <1>15, <1>16, <1>17, <1>18, <1>19, <1>20, <1>21
<1>23. QED
  BY <1>1, <1>22 DEF O

LEMMA InWord ==
  ASSUME NEW v \in 7 .. 40
  PROVE  /\ VersionWord[v] \in SUBSET (0 .. 17)
         /\ \A i \in 0 .. 17 : i \in VersionWord[v] <=> CodeBit(i, DigitsOf(v)) = 1
<1>1. VersionWord[v] = {i \in 0 .. 17 : (BCH18_6_CODES[v - 6] \div 2^i) % 2 = 1}
  BY DEF VersionWord, Bits
<1>2. \A i \in 0 .. 17 : (BCH18_6_CODES[v - 6] \div 2^i) % 2 = CodeBit(i, DigitsOf(v))
  BY WordBits

<1>3. QED
  BY <1>1, <1>2, Zenon

LEMMA Distance ==
  ASSUME NEW v \in 7 .. 40, NEW w \in 7 .. 40, v # w
  PROVE  Cardinality(Diff(VersionWord[v], VersionWord[w])) >= 7
<1> DEFINE a == DigitsOf(v)
           b == DigitsOf(w)
           c == Sum2(a, b)
           S == Diff(VersionWord[v], VersionWord[w])
<1>1. /\ a \in Digits /\ b \in Digits
      /\ \E j \in 0 .. 5 : c[j] # 0
  BY DigitsDiffer
<1> HIDE DEF a, b
<1>2. /\ c \in Digits
      /\ \A i \in 0 .. 17 : CodeBit(i, c) = (CodeBit(i, a) + CodeBit(i, b)) % 2
  BY <1>1, CodeIsLinear
<1> HIDE DEF c
<1>3. Number(c) >= 7
  BY <1>1, <1>2, SevenOnes
<1>4. /\ VersionWord[v] \in SUBSET (0 .. 17) /\ VersionWord[w] \in SUBSET (0 .. 17)
      /\ \A i \in 0 .. 17 : i \in VersionWord[v] <=> CodeBit(i, a) = 1
      /\ \A i \in 0 .. 17 : i \in VersionWord[w] <=> CodeBit(i, b) = 1
  BY InWord DEF a, b
<1>5. S \in SUBSET (0 .. 17)
  BY <1>4 DEF Diff
<1>6. \A i \in 0 .. 17 : One(i \in S) = CodeBit(i, c)
  <2>1. SUFFICES ASSUME NEW i \in 0 .. 17
                 PROVE  One(i \in S) = CodeBit(i, c)
    OBVIOUS
  <2> DEFINE p == CodeBit(i, a)
             q == CodeBit(i, b)
             r == CodeBit(i, c)
  <2>2. p \in {0, 1} /\ q \in {0, 1} /\ r = (p + q) % 2
    BY <1>1, <1>2, CodeBitRange
  <2>3. i \in S <=> ((p = 1 /\ ~ (q = 1)) \/ (q = 1 /\ ~ (p = 1)))
    BY <1>4 DEF Diff
  <2> HIDE DEF p, q, r, S
  <2>4. One(i \in S) = r
    BY <2>2, <2>3 DEF One
  <2>5. QED
    BY <2>4 DEF r
<1> HIDE DEF S
<1>7. Cardinality(S) = One(0 \in S) + One(1 \in S) + One(2 \in S) + One(3 \in S) + One(4 \in S) + One(5 \in S)
           + One(6 \in S) + One(7 \in S) + One(8 \in S) + One(9 \in S) + One(10 \in S) + One(11 \in S)
           + One(12 \in S) + One(13 \in S) + One(14 \in S) + One(15 \in S) + One(16 \in S) + One(17 \in S)
  BY <1>5, Count
<1>8. Cardinality(S) = Number(c)
  BY <1>6, <1>7 DEF Number
<1>9. QED
  BY <1>3, <1>8 DEF S

\* Up to three wrong bits leave a word nearer to its own version than to any other.
LEMMA NearOne ==
  ASSUME NEW v \in 7 .. 40, NEW y \in SUBSET (0 .. 17),
         Cardinality(Diff(y, VersionWord[v])) <= 3
  PROVE  bch18_6_correct(y) = v
<1> DEFINE A(w) == Diff(y, VersionWord[w])
<1>1. \A w \in 7 .. 40 : VersionWord[w] \in SUBSET (0 .. 17)
  BY InWord, Zenon
<1>2. IsFiniteSet(0 .. 17)
  <2>1. \A a, b \in Int : IsFiniteSet(a .. b)
    BY FS_Interval
  <2>2. 0 \in Int /\ 17 \in Int
    OBVIOUS
  <2>3. QED
    BY <2>1, <2>2, Zenon
<1>3. ASSUME NEW S \in SUBSET (0 .. 17)
      PROVE  IsFiniteSet(S) /\ Cardinality(S) \in Nat
  BY <1>2, FS_Subset, FS_CardinalityType, Zenon
<1>4. \A w \in 7 .. 40 : A(w) \in SUBSET (0 .. 17)
  BY <1>1 DEF Diff
<1>5. ASSUME NEW w \in 7 .. 40, Cardinality(A(w)) < 4
      PROVE  w = v
  <2>1. SUFFICES ASSUME v # w
                 PROVE  FALSE
    OBVIOUS
  <2> DEFINE D == Diff(VersionWord[v], VersionWord[w])
             U == A(v) \cup A(w)
  <2>2. Cardinality(D) >= 7
    BY <2>1, Distance
  <2>3. D \subseteq U
    BY DEF Diff
  <2>4. A(v) \in SUBSET (0 .. 17) /\ A(w) \in SUBSET (0 .. 17)
    BY <1>4
  <2>5. /\ IsFiniteSet(A(v)) /\ IsFiniteSet(A(w))
        /\ Cardinality(A(v)) \in Nat /\ Cardinality(A(w)) \in Nat
    BY <1>3, <2>4
  <2>6. Cardinality(A(v)) <= 3 /\ Cardinality(A(w)) < 4
    BY <1>5
  <2> HIDE DEF A, D
  <2>7. /\ IsFiniteSet(U)
        /\ Cardinality(U) = Cardinality(A(v)) + Cardinality(A(w)) - Cardinality(A(v) \cap A(w))
    BY <2>5, FS_Union
  <2>8. Cardinality(A(v) \cap A(w)) \in Nat
    BY <2>5, FS_Intersection, FS_CardinalityType
  <2>9. Cardinality(U) \in Nat
    BY <2>7, FS_CardinalityType
  <2>10. Cardinality(D) <= Cardinality(U) /\ Cardinality(D) \in Nat
    BY <2>3, <2>7, FS_Subset, FS_CardinalityType
  <2> HIDE DEF U
  <2>11. QED
    BY <2>2, <2>5, <2>6, <2>7, <2>8, <2>9, <2>10
<1> DEFINE V == {w \in 7 .. 40 : Near(y, w)}
<1>6. \A w \in 7 .. 40 : Near(y, w) <=> Cardinality(A(w)) < 4
  BY DEF Near
<1>7. Cardinality(A(v)) < 4
  <2>1. Cardinality(A(v)) \in Nat
    BY <1>3, <1>4
  <2>2. Cardinality(A(v)) <= 3
    OBVIOUS
  <2> HIDE DEF A
  <2>3. QED
    BY <2>1, <2>2
<1> HIDE DEF A
<1>8. V = {v}
  BY <1>5, <1>6, <1>7
<1> DEFINE x == LET bit(i) == IF i + 12 \in y THEN 2^i ELSE 0
                IN bit(0) + bit(1) + bit(2) + bit(3) + bit(4) + bit(5)
<1>9. bch18_6_correct(y) = CASE x \in V -> x
                             [] x \notin V /\ V # {} -> CHOOSE u \in V : \A w \in V : u <= w
                             [] OTHER -> -1
  BY DEF bch18_6_correct
<1> HIDE DEF x, V
<1>10. v <= v
  OBVIOUS
<1>11. CASE x \in V
  BY <1>8, <1>9, <1>11
<1>12. CASE x \notin V
  <2>1. bch18_6_correct(y) = CHOOSE u \in V : \A w \in V : u <= w
    BY <1>8, <1>9, <1>12
  <2>2. v \in V /\ \A u \in V : u = v
    BY <1>8
  <2>3. QED
    BY <2>1, <2>2, <1>10, Zenon
<1>13. QED
  BY <1>11, <1>12

-----------------------------------------------------------------------------
(* Reading the version.                                                    *)

LEMMA SamePattern ==
  ASSUME NEW v \in 7 .. 40
  PROVE  Bits(versionPattern[v - 6], 18) = VersionWord[v]
<1>1. versionPattern = BCH18_6_CODES
  BY DEF versionPattern, BCH18_6_CODES
<1>2. QED
  BY <1>1 DEF VersionWord

\* In both areas each bit has a module of its own, and none of the other area.
LEMMA OwnModules ==
  ASSUME NEW w \in Nat, w >= 45, NEW k \in 0 .. 17, NEW n \in 0 .. 17
  PROVE  /\ TopRight(w, k) = TopRight(w, n) => k = n
         /\ BottomLeft(w, k) = BottomLeft(w, n) => k = n
         /\ TopRight(w, k) # BottomLeft(w, n)
         /\ BottomLeft(w, k) = <<TopRight(w, k)[2], TopRight(w, k)[1]>>
         /\ TopRight(w, k) = <<BottomLeft(w, k)[2], BottomLeft(w, k)[1]>>
BY DEF TopRight, BottomLeft

\* What is drawn in either area is read next to the other finder, with the bits that
\* are damaged.
LEMMA BitsOfArea ==
  ASSUME NEW c \in Codes, c.version >= 7, NEW d \in (SUBSET (0 .. 17)) \X (SUBSET (0 .. 17))
  PROVE  LET w     == Width(c.version)
             image0 == Captured(DrawnVersion(c, d))
         IN /\ VersionBits(w, image0, 0) = Diff(VersionWord[c.version], d[2])
            /\ VersionBits(w, image0, 1) = Diff(VersionWord[c.version], d[1])
<1> DEFINE v == c.version
           w == Width(v)
           T(k) == TopRight(w, k)
           B(k) == BottomLeft(w, k)
           P(i) == Diff(VersionWord[v], d[i])
           seen == Captured(DrawnVersion(c, d))
<1>1. v \in 7 .. 40
  BY CodesAssumption DEF Versions
<1>2. w \in Nat /\ w >= 45
  <2>1. w = Dim(v)
    BY <1>1, SameWidth DEF Versions
  <2>2. QED
    BY <1>1, <2>1 DEF Dim
<1>3. P(1) \in SUBSET (0 .. 17) /\ P(2) \in SUBSET (0 .. 17)
  <2>1. VersionWord[v] \in SUBSET (0 .. 17)
    BY <1>1, InWord
  <2>2. d[1] \in SUBSET (0 .. 17) /\ d[2] \in SUBSET (0 .. 17)
    OBVIOUS
  <2>3. QED
    BY <2>1, <2>2 DEF Diff
<1>4. DrawnVersion(c, d) = { T(k) : k \in P(1) } \cup { B(k) : k \in P(2) }
  <2>1. Bits(versionPattern[v - 6], 18) = VersionWord[v]
    BY <1>1, SamePattern
  <2>2. ~ (v < 7)
    BY <1>1
  <2>3. QED
    BY <2>1, <2>2, Zenon DEF DrawnVersion
<1>5. \A k \in 0 .. 17, n \in 0 .. 17 :
         /\ T(k) = T(n) => k = n
         /\ B(k) = B(n) => k = n
         /\ T(k) # B(n)
         /\ B(k) = <<T(k)[2], T(k)[1]>>
         /\ T(k) = <<B(k)[2], B(k)[1]>>
  BY <1>2, OwnModules, Zenon
<1> HIDE DEF v, w, P
<1>6. VersionBits(w, seen, 0) = { k \in 0 .. 17 : T(k) \in seen }
  BY DEF VersionBits, TopRight
<1>7. VersionBits(w, seen, 1) = { k \in 0 .. 17 : B(k) \in seen }
  BY DEF VersionBits, BottomLeft
<1>8. seen = { <<m[2], m[1]>> : m \in { T(k) : k \in P(1) } \cup { B(k) : k \in P(2) } }
  BY <1>4, Zenon DEF Captured
<1> HIDE DEF T, B, seen
<1>9. \A m : m \in seen <=> (\E k \in P(1) : m = B(k)) \/ (\E k \in P(2) : m = T(k))
  <2>1. \A m : m \in seen <=> \E n \in { T(k) : k \in P(1) } \cup { B(k) : k \in P(2) } : m = <<n[2], n[1]>>
    BY <1>8, Zenon
  <2>2. \A k \in P(1) : B(k) = <<T(k)[2], T(k)[1]>>
    BY <1>3, <1>5, Zenon
  <2>3. \A k \in P(2) : T(k) = <<B(k)[2], B(k)[1]>>
    BY <1>3, <1>5, Zenon
  <2>4. ASSUME NEW m \in seen
        PROVE  (\E k \in P(1) : m = B(k)) \/ (\E k \in P(2) : m = T(k))
    <3>1. PICK n \in { T(k) : k \in P(1) } \cup { B(k) : k \in P(2) } : m = <<n[2], n[1]>>
      BY <2>1, Zenon
    <3>2. CASE n \in { T(k) : k \in P(1) }
      BY <2>2, <3>1, <3>2
    <3>3. CASE n \in { B(k) : k \in P(2) }
      BY <2>3, <3>1, <3>3
    <3>4. QED
      BY <3>1, <3>2, <3>3
  <2>5. \A k \in P(1) : B(k) \in seen
    BY <2>1, <2>2
  <2>6. \A k \in P(2) : T(k) \in seen
    BY <2>1, <2>3
  <2>7. QED
    BY <2>4, <2>5, <2>6, Zenon
<1>10. \A k \in 0 .. 17 : T(k) \in seen <=> k \in P(2)
  <2>1. ASSUME NEW k \in 0 .. 17, T(k) \in seen
        PROVE  k \in P(2)
    <3>1. \A n \in P(1) : T(k) # B(n)
      BY <1>3, <1>5
    <3>2. PICK n \in P(2) : T(k) = T(n)
      BY <1>9, <2>1, <3>1, Zenon
    <3>3. k = n
      BY <1>3, <1>5, <3>2
    <3>4. QED
      BY <3>3
  <2>2. QED
    BY <1>9, <2>1, Zenon
<1>11. \A k \in 0 .. 17 : B(k) \in seen <=> k \in P(1)
  <2>1. ASSUME NEW k \in 0 .. 17, B(k) \in seen
        PROVE  k \in P(1)
    <3>1. \A n \in P(2) : B(k) # T(n)
      BY <1>3, <1>5
    <3>2. PICK n \in P(1) : B(k) = B(n)
      BY <1>9, <2>1, <3>1, Zenon
    <3>3. k = n
      BY <1>3, <1>5, <3>2
    <3>4. QED
      BY <3>3
  <2>2. QED
    BY <1>9, <2>1, Zenon
<1>12. VersionBits(w, seen, 0) = P(2)
  BY <1>3, <1>6, <1>10
<1>13. VersionBits(w, seen, 1) = P(1)
  BY <1>3, <1>7, <1>11
<1>14. QED
  BY <1>12, <1>13 DEF P, v, w, seen

\* A copy with up to three wrong bits tells the version.
LEMMA NextToRight ==
  ASSUME NEW c \in Codes, c.version >= 10, NEW d \in (SUBSET (0 .. 17)) \X (SUBSET (0 .. 17)),
         NEW e \in c.version - 3 .. c.version + 3
  PROVE  LET w     == Width(c.version)
             image0 == Captured(DrawnVersion(c, d))
         IN /\ Cardinality(d[2]) <= 3 => NextTo(w, image0, 0, e) = c.version
            /\ Cardinality(d[1]) <= 3 => NextTo(w, image0, 1, e) = c.version
<1> DEFINE v == c.version
           w == Width(v)
           seen == Captured(DrawnVersion(c, d))
<1>1. v \in 7 .. 40 /\ v \in 10 .. 40
  BY CodesAssumption DEF Versions
<1>2. /\ VersionBits(w, seen, 0) = Diff(VersionWord[v], d[2])
      /\ VersionBits(w, seen, 1) = Diff(VersionWord[v], d[1])
  BY <1>1, BitsOfArea
<1>3. e \in Int /\ ~ (e < 7 - QR_LARGE_VERSION_SLACK) /\ ~ Apart(v, e)
  BY <1>1 DEF Apart, QR_LARGE_VERSION_SLACK
<1>4. d[1] \in SUBSET (0 .. 17) /\ d[2] \in SUBSET (0 .. 17)
  OBVIOUS
<1> HIDE DEF v, w, seen
<1>5. ASSUME NEW b \in SUBSET (0 .. 17), Cardinality(b) <= 3
      PROVE  bch18_6_correct(Diff(VersionWord[v], b)) = v
  <2> DEFINE y == Diff(VersionWord[v], b)
  <2>1. VersionWord[v] \in SUBSET (0 .. 17)
    BY <1>1, InWord
  <2>2. y \in SUBSET (0 .. 17) /\ Diff(y, VersionWord[v]) = b
    BY <2>1, <1>5 DEF Diff
  <2> HIDE DEF y
  <2>3. Cardinality(Diff(y, VersionWord[v])) <= 3
    BY <1>5, <2>2, Zenon
  <2>4. bch18_6_correct(y) = v
    BY <1>1, <2>2, <2>3, NearOne
  <2>5. QED
    BY <2>4 DEF y
<1>6. ASSUME Cardinality(d[2]) <= 3
      PROVE  NextTo(w, seen, 0, e) = v
  <2>1. bch18_6_correct(VersionBits(w, seen, 0)) = v
    BY <1>2, <1>4, <1>5, <1>6, Zenon
  <2>2. QED
    BY <1>3, <2>1, Zenon DEF NextTo
<1>7. ASSUME Cardinality(d[1]) <= 3
      PROVE  NextTo(w, seen, 1, e) = v
  <2>1. bch18_6_correct(VersionBits(w, seen, 1)) = v
    BY <1>2, <1>4, <1>5, <1>7, Zenon
  <2>2. QED
    BY <1>3, <2>1, Zenon DEF NextTo
<1>8. QED
  BY <1>6, <1>7 DEF v, w, seen

VersionInv == code \in Codes /\ VersionRead

LEMMA VersionInit == Init => VersionInv
BY DEF Init, VersionInv, VersionRead

LEMMA VersionStep == VersionInv /\ [Next]_vars => VersionInv'
<1>1. SUFFICES ASSUME VersionInv, [Next]_vars
               PROVE  VersionInv'
  OBVIOUS
<1>2. CASE code' = code /\ phase' # "version found"
  BY <1>1, <1>2 DEF VersionInv, VersionRead
<1>3. CASE ReadVersion
  <2>1. PICK d \in VersionDamage[code], ur, dl \in code.version - 3 .. code.version + 3 :
          /\ damage' = d
          /\ image' = Captured(DrawnVersion(code, d))
          /\ read' = [NotRead EXCEPT !.ur = ur, !.dl = dl,
                        !.version = FoundVersion(Width(code.version), image', ur, dl)]
    BY <1>3 DEF ReadVersion
  <2> DEFINE v == code.version
             uv == NextTo(Width(v), image', 0, ur)
             dv == NextTo(Width(v), image', 1, dl)
             found == FoundVersion(Width(v), image', ur, dl)
  <2>2. code \in Codes /\ code' = code
    BY <1>1, <1>3 DEF VersionInv, ReadVersion
  <2>3. read'.ur = ur /\ read'.dl = dl /\ read'.version = found
    BY <2>1 DEF NotRead
  <2>4. d \in (SUBSET (0 .. 17)) \X (SUBSET (0 .. 17)) /\ v \in Int
    BY <2>2, CodesAssumption DEF Versions
  <2>5. ASSUME v >= 10
        PROVE  /\ Few(1)' /\ Few(2)' /\ ~ Apart(ur, dl) => found = v
               /\ Few(1)' \/ Few(2)' => found \in {v, -1}
    <3>1. (Few(2)' => uv = v) /\ (Few(1)' => dv = v)
      BY <2>1, <2>2, <2>4, <2>5, NextToRight DEF Few
    <3>2. ~ (ur = dl /\ ur < 7)
      BY <2>4, <2>5
    <3> HIDE DEF uv, dv
    <3>3. found = CASE ur = dl /\ ur < 7 -> ur
                    [] ~ (ur = dl /\ ur < 7) /\ Apart(ur, dl) -> -1
                    [] OTHER -> IF uv >= 0 /\ dv >= 0 /\ uv # dv THEN -1 ELSE IF uv >= 0 THEN uv ELSE dv
      BY DEF FoundVersion, uv, dv
    <3> HIDE DEF found, v
    <3>4. v >= 0
      BY <2>4, <2>5
    <3>5. Few(1)' \in BOOLEAN /\ Few(2)' \in BOOLEAN /\ Apart(ur, dl) \in BOOLEAN
      BY DEF Few, Apart
    <3>6. found = IF Apart(ur, dl) THEN -1
                  ELSE IF uv >= 0 /\ dv >= 0 /\ uv # dv THEN -1 ELSE IF uv >= 0 THEN uv ELSE dv
      BY <3>2, <3>3, Zenon
    <3>7. QED
      BY <3>1, <3>4, <3>5, <3>6, Zenon
  <2> HIDE DEF found
  <2>6. VersionRead'
    BY <2>2, <2>3, <2>5, Zenon DEF VersionRead
  <2>7. QED
    BY <2>2, <2>6 DEF VersionInv
<1>4. CASE VersionFound
  BY <1>2, <1>4 DEF VersionFound
<1>5. CASE ReadFormat
  BY <1>2, <1>5 DEF ReadFormat
<1>6. CASE SwapFinders
  BY <1>2, <1>6 DEF SwapFinders
<1>7. CASE BeginSampling
  BY <1>2, <1>7 DEF BeginSampling
<1>8. CASE SampleCodeword
  BY <1>2, <1>8 DEF SampleCodeword
<1>9. CASE SampleRemainder
  BY <1>2, <1>9 DEF SampleRemainder
<1>10. CASE CorrectBlock
  BY <1>2, <1>10 DEF CorrectBlock
<1>11. CASE ParseStream
  BY <1>2, <1>11 DEF ParseStream
<1>12. CASE UNCHANGED vars
  BY <1>1, <1>12 DEF vars, VersionInv, VersionRead, Few
<1>13. QED
  BY <1>1, <1>3, <1>4, <1>5, <1>6, <1>7, <1>8, <1>9, <1>10, <1>11, <1>12 DEF Next

THEOREM VersionIsRead == Spec => []VersionRead
<1>1. VersionInv => VersionRead
  BY DEF VersionInv
<1>2. QED
  BY <1>1, VersionInit, VersionStep, PTL DEF Spec

-----------------------------------------------------------------------------
(* Numbers of four bits, with ^ for their sum and the tables of bch15_5.c *)
(* for their product, are a field: what bch15_5_correct computes are sums,*)
(* products and polynomials over it.                                      *)

\* The field.
F == 0 .. 15

\* Bit i of a number of four bits.
NumberBit(a, i) == CASE i = 0 -> a % 2 [] i = 1 -> (a \div 2) % 2 [] i = 2 -> (a \div 4) % 2 [] i = 3 -> (a \div 8) % 2

\* a ^ b, bit by bit.
LEMMA XorIs ==
  \A a, b \in F : Xor(a, b) = ((a + b) % 2) + 2 * ((a \div 2 + b \div 2) % 2)
          + 4 * ((a \div 4 + b \div 4) % 2) + 8 * ((a \div 8 + b \div 8) % 2)
<1>1. SUFFICES ASSUME NEW a \in F, NEW b \in F
      PROVE  Xor(a, b) = ((a + b) % 2) + 2 * ((a \div 2 + b \div 2) % 2)
          + 4 * ((a \div 4 + b \div 4) % 2) + 8 * ((a \div 8 + b \div 8) % 2)
  OBVIOUS
<1>2. a \div 16 = 0 /\ b \div 16 = 0 /\ a % 16 = a /\ b % 16 = b
  BY DEF F
<1>3. \A c, d \in F : Xor4[c][d] = ((c + d) % 2) + 2 * ((c \div 2 + d \div 2) % 2)
          + 4 * ((c \div 4 + d \div 4) % 2) + 8 * ((c \div 8 + d \div 8) % 2)
  <2>1. \A c, d \in F : Xor4[c][d] = XorBit(c, d, 0) + XorBit(c, d, 1) + XorBit(c, d, 2) + XorBit(c, d, 3)
    BY DEF Xor4, F
  <2>2. \A c, d \in F : /\ XorBit(c, d, 0) = (c + d) % 2
                        /\ XorBit(c, d, 1) = 2 * ((c \div 2 + d \div 2) % 2)
                        /\ XorBit(c, d, 2) = 4 * ((c \div 4 + d \div 4) % 2)
                        /\ XorBit(c, d, 3) = 8 * ((c \div 8 + d \div 8) % 2)
    BY Powers DEF XorBit, F
  <2>3. SUFFICES ASSUME NEW c \in F, NEW d \in F
                 PROVE  Xor4[c][d] = ((c + d) % 2) + 2 * ((c \div 2 + d \div 2) % 2)
          + 4 * ((c \div 4 + d \div 4) % 2) + 8 * ((c \div 8 + d \div 8) % 2)
    OBVIOUS
  <2>4. Xor4[c][d] = XorBit(c, d, 0) + XorBit(c, d, 1) + XorBit(c, d, 2) + XorBit(c, d, 3)
    BY <2>1, Zenon
  <2>5. /\ XorBit(c, d, 0) = (c + d) % 2
        /\ XorBit(c, d, 1) = 2 * ((c \div 2 + d \div 2) % 2)
        /\ XorBit(c, d, 2) = 4 * ((c \div 4 + d \div 4) % 2)
        /\ XorBit(c, d, 3) = 8 * ((c \div 8 + d \div 8) % 2)
    BY <2>2, Zenon
  <2>6. QED
    BY <2>4, <2>5
<1>4. Xor4[0][0] = 0
  BY <1>3 DEF F
<1>5. Xor(a, b) = Xor4[a][b]
  BY <1>2, <1>3, <1>4 DEF Xor, F
<1>6. QED
  BY <1>3, <1>5

\* A number of four bits is made of them.
LEMMA SumOfBits ==
  \A a \in F : /\ a = (a % 2) + 2 * ((a \div 2) % 2) + 4 * ((a \div 4) % 2) + 8 * ((a \div 8) % 2)
               /\ \A i \in 0 .. 3 : NumberBit(a, i) \in {0, 1}
BY DEF F, NumberBit

\* Each bit of a ^ b is the sum of theirs.
LEMMA XorBits ==
  ASSUME NEW a \in F, NEW b \in F
  PROVE  /\ Xor(a, b) \in F
         /\ \A i \in 0 .. 3 : NumberBit(Xor(a, b), i) = (NumberBit(a, i) + NumberBit(b, i)) % 2
<1>1. Xor(a, b) = ((a + b) % 2) + 2 * ((a \div 2 + b \div 2) % 2)
          + 4 * ((a \div 4 + b \div 4) % 2) + 8 * ((a \div 8 + b \div 8) % 2)
  BY XorIs
<1> DEFINE x == Xor(a, b)
<1>2. QED
  BY <1>1, SMTT(30) DEF F, NumberBit

\* Numbers with the same bits are the same.
LEMMA SameBits ==
  ASSUME NEW a \in F, NEW b \in F, \A i \in 0 .. 3 : NumberBit(a, i) = NumberBit(b, i)
  PROVE  a = b
BY SMTT(30) DEF F, NumberBit

\* Numbers of four bits are a group under ^, in which each is its own inverse.
LEMMA XorGroup ==
  /\ \A a, b \in F : Xor(a, b) \in F /\ Xor(a, b) = Xor(b, a)
  /\ \A a, b, c \in F : Xor(Xor(a, b), c) = Xor(a, Xor(b, c))
  /\ \A a \in F : Xor(a, a) = 0 /\ Xor(a, 0) = a /\ Xor(0, a) = a
<1>1. \A a, b \in F : Xor(a, b) \in F
  BY XorBits
<1>2. \A a, b \in F : Xor(a, b) = Xor(b, a)
  <2>1. SUFFICES ASSUME NEW a \in F, NEW b \in F
                 PROVE  Xor(a, b) = Xor(b, a)
    OBVIOUS
  <2>2. \A i \in 0 .. 3 : NumberBit(Xor(a, b), i) = NumberBit(Xor(b, a), i)
    BY XorBits, SumOfBits
  <2>3. QED
    BY <1>1, <2>2, SameBits
<1>3. \A a, b, c \in F : Xor(Xor(a, b), c) = Xor(a, Xor(b, c))
  <2>1. SUFFICES ASSUME NEW a \in F, NEW b \in F, NEW c \in F
                 PROVE  Xor(Xor(a, b), c) = Xor(a, Xor(b, c))
    OBVIOUS
  <2>2. ASSUME NEW i \in 0 .. 3
        PROVE  NumberBit(Xor(Xor(a, b), c), i) = NumberBit(Xor(a, Xor(b, c)), i)
    <3> DEFINE p == NumberBit(a, i)
               q == NumberBit(b, i)
               r == NumberBit(c, i)
    <3>1. p \in {0, 1} /\ q \in {0, 1} /\ r \in {0, 1}
      BY SumOfBits
    <3>2. NumberBit(Xor(Xor(a, b), c), i) = (((p + q) % 2) + r) % 2
      BY <1>1, XorBits
    <3>3. NumberBit(Xor(a, Xor(b, c)), i) = (p + ((q + r) % 2)) % 2
      BY <1>1, XorBits
    <3> HIDE DEF p, q, r
    <3>4. QED
      BY <3>1, <3>2, <3>3
  <2>3. QED
    BY <1>1, <2>2, SameBits
<1>4. \A a \in F : Xor(a, a) = 0 /\ Xor(a, 0) = a /\ Xor(0, a) = a
  <2>1. SUFFICES ASSUME NEW a \in F
                 PROVE  Xor(a, a) = 0 /\ Xor(a, 0) = a /\ Xor(0, a) = a
    OBVIOUS
  <2>2. 0 \in F /\ \A i \in 0 .. 3 : NumberBit(0, i) = 0
    BY DEF F, NumberBit
  <2>3. \A i \in 0 .. 3 : NumberBit(a, i) \in {0, 1}
    BY SumOfBits
  <2>4. \A i \in 0 .. 3 : NumberBit(Xor(a, a), i) = 0 /\ NumberBit(Xor(a, 0), i) = NumberBit(a, i)
    BY <2>2, <2>3, XorBits
  <2>5. Xor(a, a) = 0 /\ Xor(a, 0) = a
    BY <1>1, <2>2, <2>4, SameBits
  <2>6. QED
    BY <1>2, <2>2, <2>5
<1>5. QED
  BY <1>1, <1>2, <1>3, <1>4

\* The tables of gf16_exp and gf16_log, which are each other's inverse.
LEMMA Powers4 ==
  /\ \A i \in Nat : Exp4(i) \in 1 .. 15 /\ Exp4(i) = Exp4(i % 15) /\ Exp4(i + 15) = Exp4(i)
  /\ \A i \in 0 .. 14 : Log4(Exp4(i)) = i
  /\ \A a \in 1 .. 15 : Log4(a) \in 0 .. 14 /\ Exp4(Log4(a)) = a
  /\ Exp4(0) = 1
<1>1. \A i \in 0 .. 14 : Exp4(i) = gf16_exp[i + 1] /\ Exp4(i) \in 1 .. 15 /\ Log4(Exp4(i)) = i
  BY DEF Exp4, Log4, gf16_exp, gf16_log
<1>2. \A a \in 1 .. 15 : Log4(a) \in 0 .. 14 /\ Exp4(Log4(a)) = a
  BY DEF Exp4, Log4, gf16_exp, gf16_log
<1>3. \A i \in Nat : i % 15 \in 0 .. 14 /\ (i + 15) % 15 = i % 15 /\ (i % 15) % 15 = i % 15
  OBVIOUS
<1>4. \A i \in Nat : Exp4(i) = Exp4(i % 15) /\ Exp4(i + 15) = Exp4(i)
  BY <1>3, Zenon DEF Exp4
<1>5. \A i \in Nat : Exp4(i) \in 1 .. 15
  BY <1>1, <1>3, <1>4, Zenon
<1>6. Exp4(0) = 1
  BY DEF Exp4, gf16_exp
<1>7. QED
  BY <1>1, <1>2, <1>4, <1>5, <1>6

\* 1 + alpha^d is alpha^Zech[d].
Zech == <<4, 8, 14, 1, 10, 13, 9, 2, 7, 5, 12, 11, 6, 3>>

\* The sum of two powers is a power: this is what ties the tables to ^.
LEMMA SumOfPowers ==
  \A i \in 0 .. 14, d \in 1 .. 14 : Xor(Exp4(i), Exp4(i + d)) = Exp4(i + Zech[d])
<1> DEFINE P(d) == \A i \in 0 .. 14 : Xor(Exp4(i), Exp4(i + d)) = Exp4(i + Zech[d])
<1>1. \A a, b \in F : Xor(a, b) = ((a + b) % 2) + 2 * ((a \div 2 + b \div 2) % 2)
          + 4 * ((a \div 4 + b \div 4) % 2) + 8 * ((a \div 8 + b \div 8) % 2)
  BY XorIs
<1>2. \A i \in 0 .. 28 : Exp4(i) \in F
  BY Powers4 DEF F
<1>3. P(1)
  BY <1>1, <1>2, SMTT(30) DEF Exp4, gf16_exp, Zech
<1>4. P(2)
  BY <1>1, <1>2, SMTT(30) DEF Exp4, gf16_exp, Zech
<1>5. P(3)
  BY <1>1, <1>2, SMTT(30) DEF Exp4, gf16_exp, Zech
<1>6. P(4)
  BY <1>1, <1>2, SMTT(30) DEF Exp4, gf16_exp, Zech
<1>7. P(5)
  BY <1>1, <1>2, SMTT(30) DEF Exp4, gf16_exp, Zech
<1>8. P(6)
  BY <1>1, <1>2, SMTT(30) DEF Exp4, gf16_exp, Zech
<1>9. P(7)
  BY <1>1, <1>2, SMTT(30) DEF Exp4, gf16_exp, Zech
<1>10. P(8)
  BY <1>1, <1>2, SMTT(30) DEF Exp4, gf16_exp, Zech
<1>11. P(9)
  BY <1>1, <1>2, SMTT(30) DEF Exp4, gf16_exp, Zech
<1>12. P(10)
  BY <1>1, <1>2, SMTT(30) DEF Exp4, gf16_exp, Zech
<1>13. P(11)
  BY <1>1, <1>2, SMTT(30) DEF Exp4, gf16_exp, Zech
<1>14. P(12)
  BY <1>1, <1>2, SMTT(30) DEF Exp4, gf16_exp, Zech
<1>15. P(13)
  BY <1>1, <1>2, SMTT(30) DEF Exp4, gf16_exp, Zech
<1>16. P(14)
  BY <1>1, <1>2, SMTT(30) DEF Exp4, gf16_exp, Zech
<1> HIDE DEF P
<1>17. \A d \in 1 .. 14 : P(d)
  BY <1>3, <1>4, <1>5, <1>6, <1>7, <1>8, <1>9, <1>10, <1>11, <1>12, <1>13, <1>14, <1>15, <1>16
<1>18. QED
  BY <1>17 DEF P

-----------------------------------------------------------------------------
(* Its operations.                                                         *)

a \oplus b == Xor(a, b)
a \odot b == Mul4(a, b)

\* The rules of the field, for sums.
LEMMA SumRules ==
  /\ \A a, b \in F : a \oplus b \in F /\ a \oplus b = b \oplus a
  /\ \A a, b, c \in F : (a \oplus b) \oplus c = a \oplus (b \oplus c)
  /\ \A a \in F : a \oplus a = 0 /\ a \oplus 0 = a /\ 0 \oplus a = a
BY XorGroup DEF \oplus

\* Every number of four bits but 0 is a power.
LEMMA IsPower == \A a \in F : a # 0 => \E i \in 0 .. 14 : a = Exp4(i)
BY Powers4 DEF F

\* A product adds the exponents.
LEMMA ProductOfPowers == \A i, j \in Nat : Exp4(i) \odot Exp4(j) = Exp4(i + j)
<1>1. SUFFICES ASSUME NEW i \in Nat, NEW j \in Nat
               PROVE  Exp4(i) \odot Exp4(j) = Exp4(i + j)
  OBVIOUS
<1> DEFINE p == i % 15
           q == j % 15
<1>2. p \in 0 .. 14 /\ q \in 0 .. 14 /\ Exp4(i) = Exp4(p) /\ Exp4(j) = Exp4(q)
  BY Powers4
<1>3. Exp4(p) # 0 /\ Exp4(q) # 0 /\ Log4(Exp4(p)) = p /\ Log4(Exp4(q)) = q
  BY <1>2, Powers4
<1>4. (p + q) % 15 = (i + j) % 15
  OBVIOUS
<1> HIDE DEF p, q
<1>5. Exp4(p) \odot Exp4(q) = Exp4(p + q)
  BY <1>3 DEF \odot, Mul4
<1>6. Exp4(p + q) = Exp4(i + j)
  BY <1>4 DEF Exp4
<1>7. QED
  BY <1>2, <1>5, <1>6

\* The rules for products.
LEMMA ProductRules ==
  /\ \A a, b \in F : a \odot b \in F /\ a \odot b = b \odot a /\ (a \odot b = 0 <=> a = 0 \/ b = 0)
  /\ \A a, b, c \in F : (a \odot b) \odot c = a \odot (b \odot c)
  /\ \A a \in F : a \odot 0 = 0 /\ 0 \odot a = 0 /\ a \odot 1 = a /\ 1 \odot a = a
<1>1. \A a, b \in F : (a \odot b = 0 <=> a = 0 \/ b = 0) /\ a \odot b \in F
  <2>1. SUFFICES ASSUME NEW a \in F, NEW b \in F
                 PROVE  (a \odot b = 0 <=> a = 0 \/ b = 0) /\ a \odot b \in F
    OBVIOUS
  <2>2. CASE a = 0 \/ b = 0
    BY <2>2 DEF \odot, Mul4, F
  <2>3. CASE a # 0 /\ b # 0
    <3>1. PICK i \in 0 .. 14 : a = Exp4(i)
      BY <2>3, IsPower
    <3>2. PICK j \in 0 .. 14 : b = Exp4(j)
      BY <2>3, IsPower
    <3>3. i \in Nat /\ j \in Nat /\ i + j \in Nat
      OBVIOUS
    <3>4. a \odot b = Exp4(i + j) /\ Exp4(i + j) \in 1 .. 15
      BY <3>1, <3>2, <3>3, ProductOfPowers, Powers4
    <3>5. QED
      BY <2>3, <3>4 DEF F
  <2>4. QED
    BY <2>2, <2>3
<1>2. \A a, b \in F : a \odot b = b \odot a
  <2>1. SUFFICES ASSUME NEW a \in F, NEW b \in F
                 PROVE  a \odot b = b \odot a
    OBVIOUS
  <2>2. CASE a = 0 \/ b = 0
    BY <2>2 DEF \odot, Mul4
  <2>3. CASE a # 0 /\ b # 0
    <3>1. Log4(a) \in Nat /\ Log4(b) \in Nat
      BY <2>3, Powers4 DEF F
    <3>2. Log4(a) + Log4(b) = Log4(b) + Log4(a)
      BY <3>1
    <3>3. QED
      BY <2>3, <3>2, Zenon DEF \odot, Mul4
  <2>4. QED
    BY <2>2, <2>3
<1>3. \A a, b, c \in F : (a \odot b) \odot c = a \odot (b \odot c)
  <2>1. SUFFICES ASSUME NEW a \in F, NEW b \in F, NEW c \in F
                 PROVE  (a \odot b) \odot c = a \odot (b \odot c)
    OBVIOUS
  <2>2. CASE a = 0 \/ b = 0 \/ c = 0
    BY <2>2, <1>1
  <2>3. CASE a # 0 /\ b # 0 /\ c # 0
    <3>1. PICK i \in 0 .. 14 : a = Exp4(i)
      BY <2>3, IsPower
    <3>2. PICK j \in 0 .. 14 : b = Exp4(j)
      BY <2>3, IsPower
    <3>3. PICK k \in 0 .. 14 : c = Exp4(k)
      BY <2>3, IsPower
    <3>4. /\ i \in Nat /\ j \in Nat /\ k \in Nat /\ i + j \in Nat /\ j + k \in Nat
          /\ (i + j) + k = i + (j + k)
      OBVIOUS
    <3>5. (a \odot b) \odot c = Exp4((i + j) + k) /\ a \odot (b \odot c) = Exp4(i + (j + k))
      BY <3>1, <3>2, <3>3, <3>4, ProductOfPowers
    <3>6. QED
      BY <3>4, <3>5
  <2>4. QED
    BY <2>2, <2>3
<1>4. \A a \in F : a \odot 0 = 0 /\ 0 \odot a = 0
  BY <1>1 DEF F
<1>5. \A a \in F : a \odot 1 = a
  <2>1. SUFFICES ASSUME NEW a \in F
                 PROVE  a \odot 1 = a
    OBVIOUS
  <2>2. CASE a = 0
    BY <2>2 DEF \odot, Mul4
  <2>3. CASE a # 0
    <3>1. PICK i \in 0 .. 14 : a = Exp4(i)
      BY <2>3, IsPower
    <3>2. i \in Nat /\ 0 \in Nat /\ i + 0 = i /\ Exp4(0) = 1
      BY Powers4
    <3>3. QED
      BY <3>1, <3>2, ProductOfPowers
  <2>4. QED
    BY <2>2, <2>3
<1>6. 1 \in F
  BY DEF F
<1>7. QED
  BY <1>1, <1>2, <1>3, <1>4, <1>5, <1>6

\* The rule for both.
LEMMA Distributes ==
  \A a, b, c \in F : /\ a \odot (b \oplus c) = a \odot b \oplus a \odot c
                     /\ (b \oplus c) \odot a = b \odot a \oplus c \odot a
<1>1. ASSUME NEW a \in F, NEW b \in F, NEW c \in F
      PROVE  a \odot (b \oplus c) = a \odot b \oplus a \odot c
  <2>1. CASE a = 0 \/ b = 0 \/ c = 0
    <3>0. 0 \in F
      BY DEF F
    <3>1. /\ a \odot b \in F /\ a \odot c \in F /\ b \oplus c \in F /\ 0 \in F
          /\ a = 0 => a \odot b = 0 /\ a \odot c = 0 /\ a \odot (b \oplus c) = 0
          /\ a \odot 0 = 0
      BY <3>0, SumRules, ProductRules, Zenon
    <3>2. /\ 0 \oplus 0 = 0 /\ 0 \oplus c = c /\ b \oplus 0 = b
          /\ 0 \oplus (a \odot c) = a \odot c /\ (a \odot b) \oplus 0 = a \odot b
      BY <3>1, SumRules, Zenon
    <3>3. QED
      BY <2>1, <3>1, <3>2, Zenon
  <2>2. CASE b = c
    BY <2>2, SumRules, ProductRules
  <2>3. CASE a # 0 /\ b # 0 /\ c # 0 /\ b # c
    <3>1. PICK i \in 0 .. 14 : b = Exp4(i)
      BY <2>3, IsPower
    <3>2. PICK k \in 0 .. 14 : c = Exp4(k)
      BY <2>3, IsPower
    <3>3. PICK n \in 0 .. 14 : a = Exp4(n)
      BY <2>3, IsPower
    <3> DEFINE d == (k - i) % 15
               m == (n + i) % 15
    <3>4. d \in 1 .. 14 /\ m \in 0 .. 14
      BY <2>3, <3>1, <3>2
    <3>5. (i + d) % 15 = k % 15 /\ (m + d) % 15 = (n + k) % 15 /\ m % 15 = (n + i) % 15
      OBVIOUS
    <3>51. Zech[d] \in Nat
      BY <3>4 DEF Zech
    <3>6. i + Zech[d] \in Nat /\ m + Zech[d] \in Nat /\ (n + (i + Zech[d])) % 15 = (m + Zech[d]) % 15
      BY <3>4, <3>51
    <3> HIDE DEF d, m
    <3>7. c = Exp4(i + d) /\ Exp4(n + k) = Exp4(m + d) /\ Exp4(n + i) = Exp4(m)
          /\ Exp4(n + (i + Zech[d])) = Exp4(m + Zech[d])
      BY <3>2, <3>5, <3>6, Zenon DEF Exp4
    <3>8. b \oplus c = Exp4(i + Zech[d])
      BY <3>1, <3>4, <3>7, SumOfPowers DEF \oplus
    <3>9. a \odot (b \oplus c) = Exp4(m + Zech[d])
      <4>1. n \in Nat /\ i + Zech[d] \in Nat
        BY <3>6
      <4>2. QED
        BY <3>3, <3>7, <3>8, <4>1, ProductOfPowers, Zenon
    <3>10. a \odot b = Exp4(m) /\ a \odot c = Exp4(m + d)
      <4>1. n \in Nat /\ i \in Nat /\ k \in Nat
        OBVIOUS
      <4>2. QED
        BY <3>1, <3>2, <3>3, <3>7, <4>1, ProductOfPowers, Zenon
    <3>11. a \odot b \oplus a \odot c = Exp4(m + Zech[d])
      BY <3>4, <3>10, SumOfPowers DEF \oplus
    <3>12. QED
      BY <3>9, <3>11
  <2>4. QED
    BY <2>1, <2>2, <2>3
<1>2. QED
  BY <1>1, SumRules, ProductRules

\* The rule for quotients.
LEMMA Quotients ==
  ASSUME NEW a \in F, NEW b \in F, b # 0
  PROVE  Div4(a \odot b, b) = a
<1>1. CASE a = 0
  BY <1>1, ProductRules DEF Div4
<1>2. CASE a # 0
  <2>1. PICK i \in 0 .. 14 : a = Exp4(i)
    BY <1>2, IsPower
  <2>2. PICK j \in 0 .. 14 : b = Exp4(j)
    BY IsPower
  <2>3. a \odot b = Exp4((i + j) % 15)
    <3>1. i \in Nat /\ j \in Nat /\ i + j \in Nat
      OBVIOUS
    <3>2. a \odot b = Exp4(i + j)
      BY <2>1, <2>2, <3>1, ProductOfPowers, Zenon
    <3>3. QED
      BY <3>1, <3>2, Powers4, Zenon
  <2>4. (i + j) % 15 \in 0 .. 14 /\ (((i + j) % 15) + 15 - j) % 15 = i % 15
    OBVIOUS
  <2>5. Log4(Exp4((i + j) % 15)) = (i + j) % 15 /\ Log4(b) = j
    BY <2>2, <2>4, Powers4
  <2>6. a \odot b # 0
    BY <1>2, ProductRules
  <2>7. Div4(a \odot b, b) = Exp4(((i + j) % 15) + 15 - j)
    BY <2>3, <2>5, <2>6 DEF Div4
  <2>8. QED
    BY <2>1, <2>4, <2>7 DEF Exp4
<1>3. QED
  BY <1>1, <1>2

-----------------------------------------------------------------------------
(* Three errors are the roots of the locator that the syndromes give.      *)

\* Sums in another order.
LEMMA Sums ==
  ASSUME NEW a \in F, NEW b \in F, NEW c \in F, NEW d \in F
  PROVE  /\ (a \oplus b) \oplus (c \oplus d) = (a \oplus c) \oplus (b \oplus d)
         /\ (a \oplus b) \oplus b = a
         /\ a \oplus (a \oplus b) = b
         /\ a \oplus b = 0 <=> a = b
<1>0. 0 \in F
  BY DEF F
<1>1. (a \oplus b) \oplus (c \oplus d) = (a \oplus c) \oplus (b \oplus d)
  <2>1. a \oplus b \in F /\ c \oplus d \in F /\ b \oplus c \in F /\ b \oplus d \in F /\ c \oplus b \in F
    BY SumRules
  <2>2. (a \oplus b) \oplus (c \oplus d) = a \oplus (b \oplus (c \oplus d))
    BY <2>1, SumRules
  <2>3. b \oplus (c \oplus d) = (b \oplus c) \oplus d
    BY <2>1, SumRules
  <2>4. (b \oplus c) \oplus d = (c \oplus b) \oplus d
    BY SumRules
  <2>5. (c \oplus b) \oplus d = c \oplus (b \oplus d)
    BY SumRules
  <2>6. (a \oplus c) \oplus (b \oplus d) = a \oplus (c \oplus (b \oplus d))
    BY <2>1, SumRules
  <2>7. QED
    BY <2>2, <2>3, <2>4, <2>5, <2>6
<1>2. (a \oplus b) \oplus b = a
  BY SumRules
<1>3. a \oplus (a \oplus b) = b
  BY SumRules
<1>4. a \oplus b = 0 <=> a = b
  BY <1>0, <1>2, SumRules
<1>5. QED
  BY <1>1, <1>2, <1>3, <1>4

\* Squares and cubes.
Sq(x) == x \odot x
Cu(x) == (x \odot x) \odot x

\* A product of two factors, and of three, multiplied out.
LEMMA Quadratic4 ==
  ASSUME NEW x \in F, NEW a \in F, NEW b \in F
  PROVE  (x \oplus a) \odot (x \oplus b) = (Sq(x) \oplus ((a \oplus b) \odot x)) \oplus (a \odot b)
<1>1. /\ x \oplus a \in F /\ x \oplus b \in F /\ a \oplus b \in F /\ x \odot x \in F /\ x \odot b \in F
      /\ a \odot x \in F /\ a \odot b \in F /\ b \odot x \in F
  BY SumRules, ProductRules
<1>2. (x \oplus a) \odot (x \oplus b) = (x \odot (x \oplus b)) \oplus (a \odot (x \oplus b))
  BY <1>1, Distributes
<1>3. x \odot (x \oplus b) = (x \odot x) \oplus (b \odot x)
  BY Distributes, ProductRules
<1>4. a \odot (x \oplus b) = (a \odot x) \oplus (a \odot b)
  BY Distributes
<1>5. ((x \odot x) \oplus (b \odot x)) \oplus ((a \odot x) \oplus (a \odot b))
        = (((x \odot x) \oplus (b \odot x)) \oplus (a \odot x)) \oplus (a \odot b)
  BY <1>1, SumRules
<1>6. ((x \odot x) \oplus (b \odot x)) \oplus (a \odot x) = (x \odot x) \oplus ((b \odot x) \oplus (a \odot x))
  BY <1>1, SumRules
<1>7. (b \odot x) \oplus (a \odot x) = (a \oplus b) \odot x
  BY <1>1, Distributes, SumRules
<1>8. QED
  BY <1>2, <1>3, <1>4, <1>5, <1>6, <1>7 DEF Sq

LEMMA Cubic4 ==
  ASSUME NEW x \in F, NEW p \in F, NEW q \in F, NEW z \in F
  PROVE  ((Sq(x) \oplus (p \odot x)) \oplus q) \odot (x \oplus z)
           = (Cu(x) \oplus ((p \oplus z) \odot Sq(x))) \oplus (((q \oplus (p \odot z)) \odot x) \oplus (q \odot z))
<1> DEFINE S == Sq(x)
           A == S \oplus (p \odot x)
           U == (Cu(x) \oplus ((p \oplus z) \odot S))
           pz == p \odot z
<1>1. /\ S \in F /\ p \odot x \in F /\ A \in F /\ x \oplus z \in F /\ q \odot x \in F /\ q \odot z \in F
      /\ p \oplus z \in F /\ (p \oplus z) \odot S \in F /\ Cu(x) \in F /\ pz \in F /\ U \in F
      /\ A \odot x \in F /\ A \odot z \in F /\ p \odot S \in F /\ z \odot S \in F /\ pz \odot x \in F
      /\ q \oplus pz \in F
  BY SumRules, ProductRules DEF Sq, Cu
<1>2. (A \oplus q) \odot (x \oplus z) = (A \odot (x \oplus z)) \oplus (q \odot (x \oplus z))
  BY <1>1, Distributes
<1>3. A \odot (x \oplus z) = (A \odot x) \oplus (A \odot z) /\ q \odot (x \oplus z) = (q \odot x) \oplus (q \odot z)
  BY <1>1, Distributes
<1>4. A \odot x = Cu(x) \oplus (p \odot S)
  <2>1. A \odot x = (S \odot x) \oplus ((p \odot x) \odot x)
    BY <1>1, Distributes
  <2>2. (p \odot x) \odot x = p \odot S
    BY ProductRules DEF Sq
  <2>3. QED
    BY <2>1, <2>2 DEF Cu, Sq
<1>5. A \odot z = (z \odot S) \oplus (pz \odot x)
  <2>1. A \odot z = (S \odot z) \oplus ((p \odot x) \odot z)
    BY <1>1, Distributes
  <2>2. (p \odot x) \odot z = p \odot (x \odot z) /\ (p \odot z) \odot x = p \odot (z \odot x) /\ x \odot z = z \odot x
    BY ProductRules
  <2>3. S \odot z = z \odot S
    BY <1>1, ProductRules
  <2>4. QED
    BY <2>1, <2>2, <2>3
<1> DEFINE c == Cu(x)
           ps == p \odot S
           zs == z \odot S
           px == pz \odot x
<1>6. (c \oplus ps) \oplus (zs \oplus px) = U \oplus px
  <2>1. c \in F /\ ps \in F /\ zs \in F /\ px \in F /\ c \oplus ps \in F
    BY <1>1, SumRules
  <2>2. U = c \oplus (ps \oplus zs)
    BY <1>1, Distributes
  <2> HIDE DEF c, ps, zs, px, U
  <2>3. (c \oplus ps) \oplus (zs \oplus px) = ((c \oplus ps) \oplus zs) \oplus px
    BY <2>1, SumRules
  <2>4. (c \oplus ps) \oplus zs = c \oplus (ps \oplus zs)
    BY <2>1, SumRules
  <2>5. QED
    BY <2>2, <2>3, <2>4
<1>7. (U \oplus px) \oplus ((q \odot x) \oplus (q \odot z)) = U \oplus (((q \oplus pz) \odot x) \oplus (q \odot z))
  <2> DEFINE qx == q \odot x
             qz == q \odot z
  <2>1. U \in F /\ px \in F /\ qx \in F /\ qz \in F /\ qx \oplus qz \in F
    BY <1>1, SumRules
  <2>2. (q \oplus pz) \odot x = qx \oplus px
    BY <1>1, Distributes
  <2> HIDE DEF qx, qz, px, U
  <2>3. (U \oplus px) \oplus (qx \oplus qz) = U \oplus (px \oplus (qx \oplus qz))
    BY <2>1, SumRules
  <2>4. px \oplus (qx \oplus qz) = (px \oplus qx) \oplus qz /\ px \oplus qx = qx \oplus px
    BY <2>1, SumRules
  <2>5. (U \oplus px) \oplus (qx \oplus qz) = U \oplus (((q \oplus pz) \odot x) \oplus qz)
    BY <2>2, <2>3, <2>4
  <2>6. QED
    BY <2>5 DEF qx, qz
<1>8. QED
  BY <1>2, <1>3, <1>4, <1>5, <1>6, <1>7

\* The coefficients of the polynomial with the roots a, b and c.
S1(a, b, c) == (a \oplus b) \oplus c
S2(a, b, c) == (a \odot b) \oplus ((a \oplus b) \odot c)
S3(a, b, c) == (a \odot b) \odot c

\* The polynomial with these coefficients has these roots.
LEMMA Vieta ==
  ASSUME NEW a \in F, NEW b \in F, NEW c \in F
  PROVE  /\ S1(a, b, c) \in F /\ S2(a, b, c) \in F /\ S3(a, b, c) \in F
         /\ \A x \in F :
              (Cu(x) \oplus (S1(a, b, c) \odot Sq(x))) \oplus ((S2(a, b, c) \odot x) \oplus S3(a, b, c))
                = ((x \oplus a) \odot (x \oplus b)) \odot (x \oplus c)
<1>1. a \oplus b \in F /\ a \odot b \in F
  BY SumRules, ProductRules
<1>2. S1(a, b, c) \in F /\ S2(a, b, c) \in F /\ S3(a, b, c) \in F
  BY SumRules, ProductRules DEF S1, S2, S3
<1>3. ASSUME NEW x \in F
      PROVE  (Cu(x) \oplus (S1(a, b, c) \odot Sq(x))) \oplus ((S2(a, b, c) \odot x) \oplus S3(a, b, c))
                = ((x \oplus a) \odot (x \oplus b)) \odot (x \oplus c)
  BY <1>1, Quadratic4, Cubic4 DEF S1, S2, S3
<1>4. QED
  BY <1>2, <1>3

\* Sums over three errors.
Over3(a, b, c) == (a \oplus b) \oplus c

\* A common factor, a sum of squares, and a sum of the same.
LEMMA SumOfProducts ==
  \A a, b, c, k \in F : Over3(k \odot a, k \odot b, k \odot c) = k \odot Over3(a, b, c)
<1> SUFFICES ASSUME NEW a \in F, NEW b \in F, NEW c \in F, NEW k \in F
             PROVE  Over3(k \odot a, k \odot b, k \odot c) = k \odot Over3(a, b, c)
  OBVIOUS
<1>1. a \oplus b \in F /\ k \odot a \in F /\ k \odot b \in F /\ k \odot c \in F
  BY SumRules, ProductRules
<1>2. QED
  BY <1>1, Distributes DEF Over3

LEMMA SumOfSquares ==
  \A a, b, c \in F : Over3(Sq(a), Sq(b), Sq(c)) = Sq(Over3(a, b, c))
<1> SUFFICES ASSUME NEW a \in F, NEW b \in F, NEW c \in F
             PROVE  Over3(Sq(a), Sq(b), Sq(c)) = Sq(Over3(a, b, c))
  OBVIOUS
<1>1. ASSUME NEW p \in F, NEW q \in F
      PROVE  Sq(p \oplus q) = Sq(p) \oplus Sq(q)
  <2>1. (p \oplus q) \odot (p \oplus q) = ((p \odot p) \oplus (p \odot q)) \oplus ((q \odot p) \oplus (q \odot q))
    BY SumRules, ProductRules, Distributes
  <2>2. p \odot p \in F /\ p \odot q \in F /\ q \odot q \in F /\ q \odot p = p \odot q
    BY ProductRules
  <2>3. QED
    BY <2>1, <2>2, SumRules DEF Sq
<1>2. QED
  BY <1>1, SumRules DEF Over3

\* Terms of three sums, added up.
AddedUp(a, b, c, x, y, z) ==
  Over3(a \oplus x, b \oplus y, c \oplus z) = Over3(a, b, c) \oplus Over3(x, y, z)

LEMMA SumsOfThree == \A a, b, c, x, y, z \in F : AddedUp(a, b, c, x, y, z)
<1> SUFFICES ASSUME NEW a \in F, NEW b \in F, NEW c \in F, NEW x \in F, NEW y \in F, NEW z \in F
             PROVE  AddedUp(a, b, c, x, y, z)
  OBVIOUS
<1> DEFINE p == a \oplus b
           q == x \oplus y
<1>1. p \in F /\ q \in F
  BY SumRules
<1>2. (a \oplus x) \oplus (b \oplus y) = p \oplus q
  BY Sums
<1> HIDE DEF p, q
<1>3. (p \oplus q) \oplus (c \oplus z) = (p \oplus c) \oplus (q \oplus z)
  BY <1>1, Sums
<1>4. QED
  BY <1>2, <1>3 DEF AddedUp, Over3, p, q

LEMMA SumOfSame == \A k \in F : Over3(k, k, k) = k
BY SumRules DEF Over3

\* Newton's identities.
LEMMA Newton ==
  ASSUME NEW a \in F, NEW b \in F, NEW c \in F
  PROVE  LET s1 == S1(a, b, c)
             s2 == S2(a, b, c)
             s3 == S3(a, b, c)
             p3 == Over3(Cu(a), Cu(b), Cu(c))
             p5 == Over3(Cu(a) \odot Sq(a), Cu(b) \odot Sq(b), Cu(c) \odot Sq(c))
             dd == p3 \oplus (s1 \odot Sq(s1))
         IN /\ s1 = Over3(a, b, c)
            /\ dd = (s2 \odot s1) \oplus s3
            /\ p5 \oplus (Sq(s1) \odot p3) = s2 \odot dd
            /\ dd \oplus (s1 \odot s2) = s3
            /\ a # b /\ b # c /\ a # c => dd # 0
<1> DEFINE s1 == S1(a, b, c)
           s2 == S2(a, b, c)
           s3 == S3(a, b, c)
           p3 == Over3(Cu(a), Cu(b), Cu(c))
           p5 == Over3(Cu(a) \odot Sq(a), Cu(b) \odot Sq(b), Cu(c) \odot Sq(c))
           dd == p3 \oplus (s1 \odot Sq(s1))
<1>0. \A x \in F : Sq(x) \in F /\ Cu(x) \in F /\ Cu(x) \odot Sq(x) \in F
  BY ProductRules DEF Sq, Cu
<1>01. /\ Sq(a) \in F /\ Sq(b) \in F /\ Sq(c) \in F
       /\ Cu(a) \in F /\ Cu(b) \in F /\ Cu(c) \in F
  BY <1>0
<1>1. s1 \in F /\ s2 \in F /\ s3 \in F
  BY Vieta
<1>2. s1 = Over3(a, b, c)
  BY DEF S1, Over3
<1>3. \A x, y \in F : x \oplus y \in F /\ x \odot y \in F
  BY SumRules, ProductRules
<1>4. p3 \in F /\ p5 \in F
  BY <1>0, <1>3 DEF Over3
<1>5. \A x \in {a, b, c} : Cu(x) = (s1 \odot Sq(x)) \oplus ((s2 \odot x) \oplus s3)
  <2>1. SUFFICES ASSUME NEW x \in {a, b, c}
                 PROVE  Cu(x) = (s1 \odot Sq(x)) \oplus ((s2 \odot x) \oplus s3)
    OBVIOUS
  <2>2. x \in F /\ x \oplus a \in F /\ x \oplus b \in F /\ x \oplus c \in F
        /\ (x \oplus a = 0 \/ x \oplus b = 0 \/ x \oplus c = 0)
    BY SumRules
  <2>3. ((x \oplus a) \odot (x \oplus b)) \odot (x \oplus c) = 0
    BY <2>2, ProductRules
  <2>4. (Cu(x) \oplus (s1 \odot Sq(x))) \oplus ((s2 \odot x) \oplus s3) = 0
    BY <2>2, <2>3, Vieta
  <2> DEFINE u == Cu(x)
             v == s1 \odot Sq(x)
             w == (s2 \odot x) \oplus s3
  <2>5. u \in F /\ v \in F /\ w \in F
    BY <1>0, <1>1, <1>3, <2>2
  <2> HIDE DEF u, v, w
  <2>6. u \oplus v = w
    <3>1. u \oplus v \in F /\ (u \oplus v) \oplus w = 0
      BY <1>3, <2>4, <2>5 DEF u, v, w
    <3>2. QED
      BY <2>5, <3>1, Sums
  <2>7. u = w \oplus v
    BY <2>5, <2>6, Sums
  <2>8. QED
    BY <2>5, <2>7, SumRules DEF u, v, w
<1>6. p3 = (s1 \odot Sq(s1)) \oplus ((s2 \odot s1) \oplus s3)
  <2> DEFINE va == s1 \odot Sq(a)
             vb == s1 \odot Sq(b)
             vc == s1 \odot Sq(c)
             wa == s2 \odot a
             wb == s2 \odot b
             wc == s2 \odot c
  <2>1. /\ va \in F /\ vb \in F /\ vc \in F
        /\ wa \in F /\ wb \in F /\ wc \in F
        /\ wa \oplus s3 \in F /\ wb \oplus s3 \in F /\ wc \oplus s3 \in F
    BY <1>01, <1>1, <1>3
  <2>2. p3 = Over3(va \oplus (wa \oplus s3), vb \oplus (wb \oplus s3), vc \oplus (wc \oplus s3))
    BY <1>5
  <2>3. Over3(va, vb, vc) = s1 \odot Sq(s1)
    BY <1>01, <1>1, <1>2, SumOfProducts, SumOfSquares
  <2>4. Over3(wa, wb, wc) = s2 \odot s1
    BY <1>1, <1>2, SumOfProducts
  <2>5. Over3(s3, s3, s3) = s3
    BY <1>1, SumOfSame
  <2> HIDE DEF va, vb, vc, wa, wb, wc, p3, s1, s2, s3
  <2>6. p3 = Over3(va, vb, vc) \oplus Over3(wa \oplus s3, wb \oplus s3, wc \oplus s3)
    <3>1. AddedUp(va, vb, vc, wa \oplus s3, wb \oplus s3, wc \oplus s3)
      BY <2>1, SumsOfThree
    <3>2. QED
      BY <2>2, <3>1 DEF AddedUp
  <2>7. Over3(wa \oplus s3, wb \oplus s3, wc \oplus s3) = Over3(wa, wb, wc) \oplus Over3(s3, s3, s3)
    <3>1. AddedUp(wa, wb, wc, s3, s3, s3)
      BY <1>1, <2>1, SumsOfThree
    <3>2. QED
      BY <3>1 DEF AddedUp
  <2>8. QED
    BY <2>3, <2>4, <2>5, <2>6, <2>7
<1>7. p5 = (s1 \odot Sq(Sq(s1))) \oplus ((s2 \odot p3) \oplus (s3 \odot Sq(s1)))
  <2> DEFINE va == s1 \odot Sq(Sq(a))
             vb == s1 \odot Sq(Sq(b))
             vc == s1 \odot Sq(Sq(c))
             wa == s2 \odot Cu(a)
             wb == s2 \odot Cu(b)
             wc == s2 \odot Cu(c)
             ua == s3 \odot Sq(a)
             ub == s3 \odot Sq(b)
             uc == s3 \odot Sq(c)
  <2>0. Sq(Sq(a)) \in F /\ Sq(Sq(b)) \in F /\ Sq(Sq(c)) \in F
    BY <1>0
  <2>1. /\ va \in F /\ vb \in F /\ vc \in F
        /\ wa \in F /\ wb \in F /\ wc \in F
        /\ ua \in F /\ ub \in F /\ uc \in F
        /\ wa \oplus ua \in F /\ wb \oplus ub \in F /\ wc \oplus uc \in F
    BY <1>01, <1>1, <1>3, <2>0
  <2>2. ASSUME NEW x \in {a, b, c}
        PROVE  Cu(x) \odot Sq(x) = (s1 \odot Sq(Sq(x))) \oplus ((s2 \odot Cu(x)) \oplus (s3 \odot Sq(x)))
    <3> DEFINE q == Sq(x)
    <3>1. x \in F /\ q \in F /\ s1 \odot q \in F /\ s2 \odot x \in F /\ (s2 \odot x) \oplus s3 \in F
      BY <1>0, <1>1, <1>3
    <3>2. Cu(x) \odot q = ((s1 \odot q) \odot q) \oplus (((s2 \odot x) \odot q) \oplus (s3 \odot q))
      BY <1>1, <1>5, <3>1, Distributes
    <3>3. (s1 \odot q) \odot q = s1 \odot (q \odot q) /\ (s2 \odot x) \odot q = s2 \odot (x \odot q) /\ x \odot q = q \odot x
      BY <1>1, <3>1, ProductRules
    <3>4. QED
      BY <3>2, <3>3 DEF Sq, Cu
  <2>3. Over3(va, vb, vc) = s1 \odot Sq(Sq(s1))
    <3>1. Over3(Sq(Sq(a)), Sq(Sq(b)), Sq(Sq(c))) = Sq(Sq(s1))
      BY <1>01, <1>2, SumOfSquares
    <3>2. QED
      BY <1>1, <2>0, <3>1, SumOfProducts
  <2>4. Over3(wa, wb, wc) = s2 \odot p3
    BY <1>01, <1>1, SumOfProducts
  <2>5. Over3(ua, ub, uc) = s3 \odot Sq(s1)
    BY <1>01, <1>1, <1>2, SumOfProducts, SumOfSquares
  <2>50. p5 = Over3(va \oplus (wa \oplus ua), vb \oplus (wb \oplus ub), vc \oplus (wc \oplus uc))
    BY <2>2
  <2> HIDE DEF va, vb, vc, wa, wb, wc, ua, ub, uc, p3, p5, s1, s2, s3
  <2>6. p5 = Over3(va, vb, vc) \oplus Over3(wa \oplus ua, wb \oplus ub, wc \oplus uc)
    <3>1. AddedUp(va, vb, vc, wa \oplus ua, wb \oplus ub, wc \oplus uc)
      BY <2>1, SumsOfThree
    <3>2. QED
      BY <2>50, <3>1 DEF AddedUp
  <2>7. Over3(wa \oplus ua, wb \oplus ub, wc \oplus uc) = Over3(wa, wb, wc) \oplus Over3(ua, ub, uc)
    <3>1. AddedUp(wa, wb, wc, ua, ub, uc)
      BY <2>1, SumsOfThree
    <3>2. QED
      BY <3>1 DEF AddedUp
  <2>8. QED
    BY <2>3, <2>4, <2>5, <2>6, <2>7
<1>8. dd = (s2 \odot s1) \oplus s3
  <2> DEFINE k == s1 \odot Sq(s1)
             m == (s2 \odot s1) \oplus s3
  <2>1. k \in F /\ m \in F /\ p3 = k \oplus m
    BY <1>0, <1>1, <1>3, <1>6
  <2> HIDE DEF k, m, p3
  <2>2. p3 \oplus k = m
    BY <2>1, SumRules, Sums
  <2>3. QED
    BY <2>2 DEF k, m
<1>9. p5 \oplus (Sq(s1) \odot p3) = s2 \odot dd
  <2> DEFINE q == Sq(s1)
             k == s1 \odot q
             m == s2 \odot s1
  <2>1. q \in F /\ k \in F /\ m \in F /\ m \oplus s3 \in F /\ dd \in F /\ s2 \odot p3 \in F /\ s3 \odot q \in F
        /\ s1 \odot Sq(q) \in F /\ s2 \odot k \in F
    BY <1>0, <1>1, <1>3, <1>4
  <2>2. q \odot p3 = (s1 \odot Sq(q)) \oplus ((s2 \odot k) \oplus (s3 \odot q))
    <3>1. q \odot p3 = (q \odot k) \oplus ((q \odot m) \oplus (q \odot s3))
      BY <1>1, <1>6, <2>1, Distributes
    <3>2. q \odot k = s1 \odot (q \odot q) /\ q \odot m = s2 \odot k /\ q \odot s3 = s3 \odot q
      BY <1>1, <2>1, ProductRules
    <3>3. QED
      BY <3>1, <3>2 DEF Sq
  <2> DEFINE A == s1 \odot Sq(q)
             B == s2 \odot p3
             C == s3 \odot q
             D == s2 \odot k
  <2>3. p5 = A \oplus (B \oplus C) /\ q \odot p3 = A \oplus (D \oplus C)
    BY <1>7, <2>2
  <2>4. s2 \odot dd = B \oplus D
    BY <1>1, <1>4, <2>1, Distributes
  <2>5. A \in F /\ B \in F /\ C \in F /\ D \in F /\ B \oplus C \in F /\ D \oplus C \in F
    BY <1>3, <2>1
  <2> HIDE DEF A, B, C, D
  <2>6. (A \oplus (B \oplus C)) \oplus (A \oplus (D \oplus C)) = (A \oplus A) \oplus ((B \oplus C) \oplus (D \oplus C))
    BY <2>5, Sums
  <2>7. (B \oplus C) \oplus (D \oplus C) = (B \oplus D) \oplus (C \oplus C)
    BY <2>5, Sums
  <2>8. QED
    BY <1>3, <2>3, <2>4, <2>5, <2>6, <2>7, SumRules
<1>10. dd \oplus (s1 \odot s2) = s3
  <2>1. s2 \odot s1 \in F /\ s1 \odot s2 = s2 \odot s1
    BY <1>1, ProductRules
  <2>2. QED
    BY <1>1, <1>8, <2>1, Sums, SumRules
<1>11. ASSUME a # b, b # c, a # c
       PROVE  dd # 0
  <2>1. (Cu(s1) \oplus (s1 \odot Sq(s1))) \oplus ((s2 \odot s1) \oplus s3)
          = ((s1 \oplus a) \odot (s1 \oplus b)) \odot (s1 \oplus c)
    BY <1>1, Vieta
  <2>2. Cu(s1) = s1 \odot Sq(s1) /\ Cu(s1) \in F /\ (s2 \odot s1) \oplus s3 \in F
    BY <1>0, <1>1, <1>3, ProductRules DEF Cu, Sq
  <2>3. dd = ((s1 \oplus a) \odot (s1 \oplus b)) \odot (s1 \oplus c)
    BY <1>8, <2>1, <2>2, SumRules
  <2>4. s1 \oplus a = b \oplus c /\ s1 \oplus b = a \oplus c /\ s1 \oplus c = a \oplus b
    BY SumRules, Sums DEF S1
  <2>5. b \oplus c # 0 /\ a \oplus c # 0 /\ a \oplus b # 0
    BY <1>11, Sums
  <2>6. QED
    BY <1>3, <2>3, <2>4, <2>5, ProductRules
<1>12. QED
  BY <1>2, <1>8, <1>9, <1>10, <1>11

-----------------------------------------------------------------------------
(* The syndromes of a word are those of its errors.                        *)

\* A set of numbers has a least one.
LEMMA LeastIndex == ASSUME NEW T \in SUBSET Nat, T # {}
                    PROVE  \E m \in T : \A n \in T : m <= n
<1> DEFINE R == OpToRel(<, Nat)
<1>1. \A m \in Nat, n \in Nat : <<n, m>> \in R <=> n < m
  BY DEF OpToRel
<1>2. IsWellFoundedOn(R, Nat)
  BY NatLessThanWellFounded
<1> HIDE DEF R
<1>3. PICK m \in T : \A n \in T : ~ (<<n, m>> \in R)
  BY <1>2, WFMin
<1>4. ASSUME NEW n \in T
      PROVE  m <= n
  <2>1. m \in Nat /\ n \in Nat
    OBVIOUS
  <2>2. ~ (n < m)
    BY <1>1, <1>3, <2>1
  <2>3. QED
    BY <2>1, <2>2
<1>5. QED
  BY <1>4

\* What holds of 0, and of each number after one it holds of, holds of all up to N.
LEMMA UpTo ==
  ASSUME NEW N \in Nat, NEW T, 0 \in T, \A n \in 1 .. N : n - 1 \in T => n \in T
  PROVE  \A n \in 0 .. N : n \in T
<1> DEFINE Out == {n \in 0 .. N : n \notin T}
<1>1. ASSUME NEW m \in Out
      PROVE  m \in 1 .. N /\ m - 1 \in Out
  <2>1. m \in 1 .. N /\ m \notin T
    OBVIOUS
  <2>2. m - 1 \notin T
    BY <2>1
  <2>3. QED
    BY <2>1, <2>2
<1>2. Out = {}
  <2>1. SUFFICES ASSUME Out # {}
                 PROVE  FALSE
    OBVIOUS
  <2>2. Out \in SUBSET Nat
    OBVIOUS
  <2> HIDE DEF Out
  <2>3. PICK m \in Out : \A n \in Out : m <= n
    BY <2>1, <2>2, LeastIndex
  <2>4. m \in 1 .. N /\ m <= m - 1
    BY <1>1, <2>3
  <2>5. QED
    BY <2>4
<1>3. QED
  BY <1>2

\* p[i] is the sum of f[i] .. f[14].
IsSum(f, p) ==
  /\ p \in [0 .. 15 -> F] /\ p[15] = 0
  /\ \A i \in 0 .. 14 : p[i] = f[i] \oplus p[i + 1]

\* XorSum is the first of those sums.
LEMMA SumIs ==
  ASSUME NEW f, NEW p, IsSum(f, p)
  PROVE  XorSum(f, 0, 14) = p[0]
<1> DEFINE Step(from) == [i \in 0 .. 14 + 1 |-> IF i > 14 THEN 0 ELSE Xor(f[i], from[i + 1])]
           chosen == CHOOSE from : from = Step(from)
<1>0. 14 + 1 = 15
  OBVIOUS
<1>1. XorSum(f, 0, 14) = chosen[0]
  BY DEF XorSum
<1>2. p = Step(p)
  <2>1. \A i \in 0 .. 15 : p[i] = Step(p)[i]
    BY DEF IsSum, \oplus
  <2>2. QED
    BY <1>0, <2>1 DEF IsSum
<1>3. chosen = Step(chosen)
  BY <1>2
<1>4. \A i \in 0 .. 15 : chosen[i] = IF i > 14 THEN 0 ELSE Xor(f[i], chosen[i + 1])
  BY <1>0, <1>3
<1> HIDE DEF chosen, Step
<1> DEFINE T == {n \in 0 .. 15 : chosen[15 - n] = p[15 - n]}
<1>5. 0 \in T
  BY <1>4 DEF IsSum
<1>6. ASSUME NEW n \in 1 .. 15, n - 1 \in T
      PROVE  n \in T
  <2>1. 15 - n \in 0 .. 14 /\ (15 - n) + 1 = 15 - (n - 1)
    OBVIOUS
  <2> DEFINE i == 15 - n
  <2>2. i \in 0 .. 14 /\ chosen[i + 1] = p[i + 1]
    BY <1>6, <2>1
  <2>3. p[i] = Xor(f[i], p[i + 1])
    BY <2>2 DEF IsSum, \oplus
  <2>4. chosen[i] = Xor(f[i], chosen[i + 1])
    BY <1>4, <2>2
  <2>5. QED
    BY <2>2, <2>3, <2>4
<1>7. 15 \in T
  <2> HIDE DEF T
  <2>1. \A n \in 0 .. 15 : n \in T
    BY <1>5, <1>6, UpTo
  <2>2. QED
    BY <2>1
<1>8. QED
  BY <1>1, <1>7

\* What the bits of y add to syndrome k.
Terms(y, k) == [i \in 0 .. 14 |-> IF i \in y THEN Exp4(k * i) ELSE 0]
HasSyndrome(y, k, s) == \E p : IsSum(Terms(y, k), p) /\ p[0] = s

\* The three syndromes are what bch15_5_calc_syndrome finds.
LEMMA SyndromeIs ==
  ASSUME NEW y, NEW a, NEW b, NEW c, HasSyndrome(y, 1, a), HasSyndrome(y, 3, b), HasSyndrome(y, 5, c)
  PROVE  bch15_5_calc_syndrome(y) = <<a, b, c>>
<1>1. ASSUME NEW k, NEW s, HasSyndrome(y, k, s)
      PROVE  XorSum(Terms(y, k), 0, 14) = s
  BY <1>1, SumIs DEF HasSyndrome
<1>2. QED
  BY <1>1 DEF bch15_5_calc_syndrome, Terms

\* The syndromes of no bit, of one, and of the bits in one of two words and not in both.
LEMMA NoSyndrome == ASSUME NEW k PROVE HasSyndrome({}, k, 0)
<1> DEFINE p == [i \in 0 .. 15 |-> 0]
<1>1. 0 \in F /\ 0 \oplus 0 = 0
  BY SumRules DEF F
<1>2. IsSum(Terms({}, k), p) /\ p[0] = 0
  BY <1>1 DEF IsSum, Terms
<1>3. QED
  BY <1>2 DEF HasSyndrome

LEMMA OneSyndrome ==
  ASSUME NEW k \in Nat, NEW j \in 0 .. 14
  PROVE  HasSyndrome({j}, k, Exp4(k * j))
<1> DEFINE v == Exp4(k * j)
           p == [i \in 0 .. 15 |-> IF i <= j THEN v ELSE 0]
<1>1. v \in F
  <2>1. k * j \in Nat
    OBVIOUS
  <2>2. QED
    BY <2>1, Powers4 DEF F
<1>2. v \oplus 0 = v /\ 0 \oplus v = v /\ 0 \oplus 0 = 0 /\ 0 \in F
  BY <1>1, SumRules DEF F
<1>3. \A i \in 0 .. 14 : Terms({j}, k)[i] = IF i = j THEN v ELSE 0
  BY DEF Terms
<1> HIDE DEF v
<1>4. IsSum(Terms({j}, k), p) /\ p[0] = v
  <2>1. p \in [0 .. 15 -> F] /\ p[15] = 0 /\ p[0] = v
    BY <1>1, <1>2
  <2>2. ASSUME NEW i \in 0 .. 14
        PROVE  p[i] = Terms({j}, k)[i] \oplus p[i + 1]
    <3>1. CASE i < j
      BY <1>2, <1>3, <3>1
    <3>2. CASE i = j
      BY <1>2, <1>3, <3>2
    <3>3. CASE i > j
      BY <1>2, <1>3, <3>3
    <3>4. QED
      BY <3>1, <3>2, <3>3
  <2>3. QED
    BY <2>1, <2>2 DEF IsSum
<1>5. QED
  BY <1>4 DEF HasSyndrome, v

LEMMA SyndromeOfDiff ==
  ASSUME NEW x, NEW y, NEW k \in Nat, NEW a, NEW b, HasSyndrome(x, k, a), HasSyndrome(y, k, b)
  PROVE  HasSyndrome(Diff(x, y), k, a \oplus b)
<1>1. PICK p : IsSum(Terms(x, k), p) /\ p[0] = a
  BY DEF HasSyndrome
<1>2. PICK q : IsSum(Terms(y, k), q) /\ q[0] = b
  BY DEF HasSyndrome
<1> DEFINE r == [i \in 0 .. 15 |-> p[i] \oplus q[i]]
           z == Diff(x, y)
<1>3. \A i \in 0 .. 15 : p[i] \in F /\ q[i] \in F
  BY <1>1, <1>2 DEF IsSum
<1>4. ASSUME NEW i \in 0 .. 14
      PROVE  Terms(x, k)[i] \in F /\ Terms(y, k)[i] \in F
             /\ Terms(z, k)[i] = Terms(x, k)[i] \oplus Terms(y, k)[i]
  <2> DEFINE v == Exp4(k * i)
  <2>1. v \in F /\ 0 \in F
    <3>1. k * i \in Nat
      OBVIOUS
    <3>2. QED
      BY <3>1, Powers4 DEF F
  <2>2. v \oplus v = 0 /\ v \oplus 0 = v /\ 0 \oplus v = v /\ 0 \oplus 0 = 0
    BY <2>1, SumRules
  <2>3. \A w : Terms(w, k)[i] = IF i \in w THEN v ELSE 0
    BY DEF Terms
  <2>4. i \in z <=> ((i \in x /\ i \notin y) \/ (i \in y /\ i \notin x))
    BY DEF Diff
  <2> HIDE DEF v, z
  <2>5. QED
    BY <2>1, <2>2, <2>3, <2>4
<1>5. IsSum(Terms(z, k), r)
  <2>1. r \in [0 .. 15 -> F] /\ r[15] = 0
    <3>1. p[15] = 0 /\ q[15] = 0 /\ 0 \in F
      BY <1>1, <1>2 DEF IsSum, F
    <3>2. \A i \in 0 .. 15 : p[i] \oplus q[i] \in F
      BY <1>3, SumRules
    <3>3. 0 \oplus 0 = 0
      BY <3>1, SumRules
    <3>4. r[15] = 0
      BY <3>1, <3>3
    <3>5. QED
      BY <3>2, <3>4
  <2>2. ASSUME NEW i \in 0 .. 14
        PROVE  r[i] = Terms(z, k)[i] \oplus r[i + 1]
    <3>1. i \in 0 .. 15 /\ i + 1 \in 0 .. 15
      OBVIOUS
    <3>2. p[i + 1] \in F /\ q[i + 1] \in F
      BY <1>3, <3>1
    <3>3. p[i] = Terms(x, k)[i] \oplus p[i + 1] /\ q[i] = Terms(y, k)[i] \oplus q[i + 1]
      BY <1>1, <1>2 DEF IsSum
    <3>4. r[i] = p[i] \oplus q[i] /\ r[i + 1] = p[i + 1] \oplus q[i + 1]
      BY <3>1
    <3> DEFINE u == Terms(x, k)[i]
               v == Terms(y, k)[i]
    <3>5. u \in F /\ v \in F /\ Terms(z, k)[i] = u \oplus v
      BY <1>4
    <3>6. p[i] = u \oplus p[i + 1] /\ q[i] = v \oplus q[i + 1]
      BY <3>3
    <3> HIDE DEF r, u, v, z
    <3>7. (u \oplus p[i + 1]) \oplus (v \oplus q[i + 1]) = (u \oplus v) \oplus (p[i + 1] \oplus q[i + 1])
      BY <3>2, <3>5, Sums
    <3>8. QED
      BY <3>4, <3>5, <3>6, <3>7
  <2>3. QED
    BY <2>1, <2>2 DEF IsSum
<1>6. r[0] = a \oplus b
  BY <1>1, <1>2
<1>7. QED
  BY <1>5, <1>6 DEF HasSyndrome

\* t are the terms of a syndrome, and q their sums from the last one on.
ZeroSum(y, k, t, q) ==
  /\ \A i \in 0 .. 14 : t[i + 1] = (IF i \in y THEN Exp4(k * i) ELSE 0)
  /\ \A i \in 0 .. 14 : q[i + 1] = t[i + 1] \oplus q[i + 2]
  /\ \A i \in 0 .. 15 : q[i + 1] \in F
  /\ q[1] = 0 /\ q[16] = 0

\* Such sums show that a syndrome is zero.
LEMMA ZeroSyndrome ==
  ASSUME NEW y, NEW k, NEW t, NEW q, ZeroSum(y, k, t, q)
  PROVE  HasSyndrome(y, k, 0)
<1> DEFINE p == [i \in 0 .. 15 |-> q[i + 1]]
<1>1. p \in [0 .. 15 -> F] /\ p[15] = 0 /\ p[0] = 0
  BY DEF ZeroSum
<1>2. \A i \in 0 .. 14 : Terms(y, k)[i] = t[i + 1] /\ p[i] = q[i + 1] /\ p[i + 1] = q[i + 2]
  BY DEF ZeroSum, Terms
<1>3. \A i \in 0 .. 14 : p[i] = Terms(y, k)[i] \oplus p[i + 1]
  BY <1>2 DEF ZeroSum
<1> HIDE DEF p
<1>4. QED
  BY <1>1, <1>3 DEF HasSyndrome, IsSum

\* Each of the five words that bch15_5_encode is made of has no syndromes.
LEMMA InRow0 ==
  \A i \in 0 .. 14 : i \in Bits(1335, 15) <=> i \in {0, 1, 2, 4, 5, 8, 10}
<1> DEFINE w == Bits(1335, 15)
<1>1. 0 \in w /\ 1 \in w /\ 2 \in w /\ 4 \in w /\ 5 \in w /\ 8 \in w /\ 10 \in w
  BY Powers DEF Bits
<1>2. 3 \notin w /\ 6 \notin w /\ 7 \notin w /\ 9 \notin w /\ 11 \notin w /\ 12 \notin w /\ 13 \notin w /\ 14 \notin w
  BY Powers DEF Bits
<1> HIDE DEF w
<1>3. \A i \in 0 .. 14 : i \in w <=> i \in {0, 1, 2, 4, 5, 8, 10}
  BY <1>1, <1>2
<1>4. QED
  BY <1>3 DEF w

LEMMA Row0 ==
  LET w == Bits(1335, 15)
  IN  HasSyndrome(w, 1, 0) /\ HasSyndrome(w, 3, 0) /\ HasSyndrome(w, 5, 0)
<1> DEFINE w == Bits(1335, 15)
<1>1. \A i \in 0 .. 14 : i \in w <=> i \in {0, 1, 2, 4, 5, 8, 10}
  BY InRow0
<1> HIDE DEF w
<1>2. HasSyndrome(w, 1, 0)
  <2> DEFINE t == <<1, 2, 4, 0, 3, 6, 0, 0, 5, 0, 7, 0, 0, 0, 0>>
             q == <<0, 1, 3, 7, 7, 4, 2, 2, 2, 7, 7, 0, 0, 0, 0, 0>>
  <2>1. \A i \in 0 .. 14 : t[i + 1] = (IF i \in w THEN Exp4(1 * i) ELSE 0)
    BY <1>1 DEF Exp4, gf16_exp
  <2>2. \A i \in 0 .. 14 : q[i + 1] = t[i + 1] \oplus q[i + 2]
    BY XorIs DEF \oplus, F
  <2>3. (\A i \in 0 .. 15 : q[i + 1] \in F) /\ q[1] = 0 /\ q[16] = 0
    BY DEF F
  <2> HIDE DEF t, q
  <2>4. ZeroSum(w, 1, t, q)
    BY <2>1, <2>2, <2>3 DEF ZeroSum
  <2>5. QED
    BY <2>4, ZeroSyndrome
<1>3. HasSyndrome(w, 3, 0)
  <2> DEFINE t == <<1, 8, 12, 0, 15, 1, 0, 0, 10, 0, 1, 0, 0, 0, 0>>
             q == <<0, 1, 9, 5, 5, 10, 11, 11, 11, 1, 1, 0, 0, 0, 0, 0>>
  <2>1. \A i \in 0 .. 14 : t[i + 1] = (IF i \in w THEN Exp4(3 * i) ELSE 0)
    BY <1>1 DEF Exp4, gf16_exp
  <2>2. \A i \in 0 .. 14 : q[i + 1] = t[i + 1] \oplus q[i + 2]
    BY XorIs DEF \oplus, F
  <2>3. (\A i \in 0 .. 15 : q[i + 1] \in F) /\ q[1] = 0 /\ q[16] = 0
    BY DEF F
  <2> HIDE DEF t, q
  <2>4. ZeroSum(w, 3, t, q)
    BY <2>1, <2>2, <2>3 DEF ZeroSum
  <2>5. QED
    BY <2>4, ZeroSyndrome
<1>4. HasSyndrome(w, 5, 0)
  <2> DEFINE t == <<1, 6, 7, 0, 6, 7, 0, 0, 7, 0, 6, 0, 0, 0, 0>>
             q == <<0, 1, 7, 0, 0, 6, 1, 1, 1, 6, 6, 0, 0, 0, 0, 0>>
  <2>1. \A i \in 0 .. 14 : t[i + 1] = (IF i \in w THEN Exp4(5 * i) ELSE 0)
    BY <1>1 DEF Exp4, gf16_exp
  <2>2. \A i \in 0 .. 14 : q[i + 1] = t[i + 1] \oplus q[i + 2]
    BY XorIs DEF \oplus, F
  <2>3. (\A i \in 0 .. 15 : q[i + 1] \in F) /\ q[1] = 0 /\ q[16] = 0
    BY DEF F
  <2> HIDE DEF t, q
  <2>4. ZeroSum(w, 5, t, q)
    BY <2>1, <2>2, <2>3 DEF ZeroSum
  <2>5. QED
    BY <2>4, ZeroSyndrome
<1>5. QED
  BY <1>2, <1>3, <1>4 DEF w

LEMMA InRow1 ==
  \A i \in 0 .. 14 : i \in Bits(2670, 15) <=> i \in {1, 2, 3, 5, 6, 9, 11}
<1> DEFINE w == Bits(2670, 15)
<1>1. 1 \in w /\ 2 \in w /\ 3 \in w /\ 5 \in w /\ 6 \in w /\ 9 \in w /\ 11 \in w
  BY Powers DEF Bits
<1>2. 0 \notin w /\ 4 \notin w /\ 7 \notin w /\ 8 \notin w /\ 10 \notin w /\ 12 \notin w /\ 13 \notin w /\ 14 \notin w
  BY Powers DEF Bits
<1> HIDE DEF w
<1>3. \A i \in 0 .. 14 : i \in w <=> i \in {1, 2, 3, 5, 6, 9, 11}
  BY <1>1, <1>2
<1>4. QED
  BY <1>3 DEF w

LEMMA Row1 ==
  LET w == Bits(2670, 15)
  IN  HasSyndrome(w, 1, 0) /\ HasSyndrome(w, 3, 0) /\ HasSyndrome(w, 5, 0)
<1> DEFINE w == Bits(2670, 15)
<1>1. \A i \in 0 .. 14 : i \in w <=> i \in {1, 2, 3, 5, 6, 9, 11}
  BY InRow1
<1> HIDE DEF w
<1>2. HasSyndrome(w, 1, 0)
  <2> DEFINE t == <<0, 2, 4, 8, 0, 6, 12, 0, 0, 10, 0, 14, 0, 0, 0>>
             q == <<0, 0, 2, 6, 14, 14, 8, 4, 4, 4, 14, 14, 0, 0, 0, 0>>
  <2>1. \A i \in 0 .. 14 : t[i + 1] = (IF i \in w THEN Exp4(1 * i) ELSE 0)
    BY <1>1 DEF Exp4, gf16_exp
  <2>2. \A i \in 0 .. 14 : q[i + 1] = t[i + 1] \oplus q[i + 2]
    BY XorIs DEF \oplus, F
  <2>3. (\A i \in 0 .. 15 : q[i + 1] \in F) /\ q[1] = 0 /\ q[16] = 0
    BY DEF F
  <2> HIDE DEF t, q
  <2>4. ZeroSum(w, 1, t, q)
    BY <2>1, <2>2, <2>3 DEF ZeroSum
  <2>5. QED
    BY <2>4, ZeroSyndrome
<1>3. HasSyndrome(w, 3, 0)
  <2> DEFINE t == <<0, 8, 12, 10, 0, 1, 8, 0, 0, 15, 0, 8, 0, 0, 0>>
             q == <<0, 0, 8, 4, 14, 14, 15, 7, 7, 7, 8, 8, 0, 0, 0, 0>>
  <2>1. \A i \in 0 .. 14 : t[i + 1] = (IF i \in w THEN Exp4(3 * i) ELSE 0)
    BY <1>1 DEF Exp4, gf16_exp
  <2>2. \A i \in 0 .. 14 : q[i + 1] = t[i + 1] \oplus q[i + 2]
    BY XorIs DEF \oplus, F
  <2>3. (\A i \in 0 .. 15 : q[i + 1] \in F) /\ q[1] = 0 /\ q[16] = 0
    BY DEF F
  <2> HIDE DEF t, q
  <2>4. ZeroSum(w, 3, t, q)
    BY <2>1, <2>2, <2>3 DEF ZeroSum
  <2>5. QED
    BY <2>4, ZeroSyndrome
<1>4. HasSyndrome(w, 5, 0)
  <2> DEFINE t == <<0, 6, 7, 1, 0, 7, 1, 0, 0, 1, 0, 7, 0, 0, 0>>
             q == <<0, 0, 6, 1, 0, 0, 7, 6, 6, 6, 7, 7, 0, 0, 0, 0>>
  <2>1. \A i \in 0 .. 14 : t[i + 1] = (IF i \in w THEN Exp4(5 * i) ELSE 0)
    BY <1>1 DEF Exp4, gf16_exp
  <2>2. \A i \in 0 .. 14 : q[i + 1] = t[i + 1] \oplus q[i + 2]
    BY XorIs DEF \oplus, F
  <2>3. (\A i \in 0 .. 15 : q[i + 1] \in F) /\ q[1] = 0 /\ q[16] = 0
    BY DEF F
  <2> HIDE DEF t, q
  <2>4. ZeroSum(w, 5, t, q)
    BY <2>1, <2>2, <2>3 DEF ZeroSum
  <2>5. QED
    BY <2>4, ZeroSyndrome
<1>5. QED
  BY <1>2, <1>3, <1>4 DEF w

LEMMA InRow2 ==
  \A i \in 0 .. 14 : i \in Bits(4587, 15) <=> i \in {0, 1, 3, 5, 6, 7, 8, 12}
<1> DEFINE w == Bits(4587, 15)
<1>1. 0 \in w /\ 1 \in w /\ 3 \in w /\ 5 \in w /\ 6 \in w /\ 7 \in w /\ 8 \in w /\ 12 \in w
  BY Powers DEF Bits
<1>2. 2 \notin w /\ 4 \notin w /\ 9 \notin w /\ 10 \notin w /\ 11 \notin w /\ 13 \notin w /\ 14 \notin w
  BY Powers DEF Bits
<1> HIDE DEF w
<1>3. \A i \in 0 .. 14 : i \in w <=> i \in {0, 1, 3, 5, 6, 7, 8, 12}
  BY <1>1, <1>2
<1>4. QED
  BY <1>3 DEF w

LEMMA Row2 ==
  LET w == Bits(4587, 15)
  IN  HasSyndrome(w, 1, 0) /\ HasSyndrome(w, 3, 0) /\ HasSyndrome(w, 5, 0)
<1> DEFINE w == Bits(4587, 15)
<1>1. \A i \in 0 .. 14 : i \in w <=> i \in {0, 1, 3, 5, 6, 7, 8, 12}
  BY InRow2
<1> HIDE DEF w
<1>2. HasSyndrome(w, 1, 0)
  <2> DEFINE t == <<1, 2, 0, 8, 0, 6, 12, 11, 5, 0, 0, 0, 15, 0, 0>>
             q == <<0, 1, 3, 3, 11, 11, 13, 1, 10, 15, 15, 15, 15, 0, 0, 0>>
  <2>1. \A i \in 0 .. 14 : t[i + 1] = (IF i \in w THEN Exp4(1 * i) ELSE 0)
    BY <1>1 DEF Exp4, gf16_exp
  <2>2. \A i \in 0 .. 14 : q[i + 1] = t[i + 1] \oplus q[i + 2]
    BY XorIs DEF \oplus, F
  <2>3. (\A i \in 0 .. 15 : q[i + 1] \in F) /\ q[1] = 0 /\ q[16] = 0
    BY DEF F
  <2> HIDE DEF t, q
  <2>4. ZeroSum(w, 1, t, q)
    BY <2>1, <2>2, <2>3 DEF ZeroSum
  <2>5. QED
    BY <2>4, ZeroSyndrome
<1>3. HasSyndrome(w, 3, 0)
  <2> DEFINE t == <<1, 8, 0, 10, 0, 1, 8, 12, 10, 0, 0, 0, 12, 0, 0>>
             q == <<0, 1, 9, 9, 3, 3, 2, 10, 6, 12, 12, 12, 12, 0, 0, 0>>
  <2>1. \A i \in 0 .. 14 : t[i + 1] = (IF i \in w THEN Exp4(3 * i) ELSE 0)
    BY <1>1 DEF Exp4, gf16_exp
  <2>2. \A i \in 0 .. 14 : q[i + 1] = t[i + 1] \oplus q[i + 2]
    BY XorIs DEF \oplus, F
  <2>3. (\A i \in 0 .. 15 : q[i + 1] \in F) /\ q[1] = 0 /\ q[16] = 0
    BY DEF F
  <2> HIDE DEF t, q
  <2>4. ZeroSum(w, 3, t, q)
    BY <2>1, <2>2, <2>3 DEF ZeroSum
  <2>5. QED
    BY <2>4, ZeroSyndrome
<1>4. HasSyndrome(w, 5, 0)
  <2> DEFINE t == <<1, 6, 0, 1, 0, 7, 1, 6, 7, 0, 0, 0, 1, 0, 0>>
             q == <<0, 1, 7, 7, 6, 6, 1, 0, 6, 1, 1, 1, 1, 0, 0, 0>>
  <2>1. \A i \in 0 .. 14 : t[i + 1] = (IF i \in w THEN Exp4(5 * i) ELSE 0)
    BY <1>1 DEF Exp4, gf16_exp
  <2>2. \A i \in 0 .. 14 : q[i + 1] = t[i + 1] \oplus q[i + 2]
    BY XorIs DEF \oplus, F
  <2>3. (\A i \in 0 .. 15 : q[i + 1] \in F) /\ q[1] = 0 /\ q[16] = 0
    BY DEF F
  <2> HIDE DEF t, q
  <2>4. ZeroSum(w, 5, t, q)
    BY <2>1, <2>2, <2>3 DEF ZeroSum
  <2>5. QED
    BY <2>4, ZeroSyndrome
<1>5. QED
  BY <1>2, <1>3, <1>4 DEF w

LEMMA InRow3 ==
  \A i \in 0 .. 14 : i \in Bits(9174, 15) <=> i \in {1, 2, 4, 6, 7, 8, 9, 13}
<1> DEFINE w == Bits(9174, 15)
<1>1. 1 \in w /\ 2 \in w /\ 4 \in w /\ 6 \in w /\ 7 \in w /\ 8 \in w /\ 9 \in w /\ 13 \in w
  BY Powers DEF Bits
<1>2. 0 \notin w /\ 3 \notin w /\ 5 \notin w /\ 10 \notin w /\ 11 \notin w /\ 12 \notin w /\ 14 \notin w
  BY Powers DEF Bits
<1> HIDE DEF w
<1>3. \A i \in 0 .. 14 : i \in w <=> i \in {1, 2, 4, 6, 7, 8, 9, 13}
  BY <1>1, <1>2
<1>4. QED
  BY <1>3 DEF w

LEMMA Row3 ==
  LET w == Bits(9174, 15)
  IN  HasSyndrome(w, 1, 0) /\ HasSyndrome(w, 3, 0) /\ HasSyndrome(w, 5, 0)
<1> DEFINE w == Bits(9174, 15)
<1>1. \A i \in 0 .. 14 : i \in w <=> i \in {1, 2, 4, 6, 7, 8, 9, 13}
  BY InRow3
<1> HIDE DEF w
<1>2. HasSyndrome(w, 1, 0)
  <2> DEFINE t == <<0, 2, 4, 0, 3, 0, 12, 11, 5, 10, 0, 0, 0, 13, 0>>
             q == <<0, 0, 2, 6, 6, 5, 5, 9, 2, 7, 13, 13, 13, 13, 0, 0>>
  <2>1. \A i \in 0 .. 14 : t[i + 1] = (IF i \in w THEN Exp4(1 * i) ELSE 0)
    BY <1>1 DEF Exp4, gf16_exp
  <2>2. \A i \in 0 .. 14 : q[i + 1] = t[i + 1] \oplus q[i + 2]
    BY XorIs DEF \oplus, F
  <2>3. (\A i \in 0 .. 15 : q[i + 1] \in F) /\ q[1] = 0 /\ q[16] = 0
    BY DEF F
  <2> HIDE DEF t, q
  <2>4. ZeroSum(w, 1, t, q)
    BY <2>1, <2>2, <2>3 DEF ZeroSum
  <2>5. QED
    BY <2>4, ZeroSyndrome
<1>3. HasSyndrome(w, 3, 0)
  <2> DEFINE t == <<0, 8, 12, 0, 15, 0, 8, 12, 10, 15, 0, 0, 0, 10, 0>>
             q == <<0, 0, 8, 4, 4, 11, 11, 3, 15, 5, 10, 10, 10, 10, 0, 0>>
  <2>1. \A i \in 0 .. 14 : t[i + 1] = (IF i \in w THEN Exp4(3 * i) ELSE 0)
    BY <1>1 DEF Exp4, gf16_exp
  <2>2. \A i \in 0 .. 14 : q[i + 1] = t[i + 1] \oplus q[i + 2]
    BY XorIs DEF \oplus, F
  <2>3. (\A i \in 0 .. 15 : q[i + 1] \in F) /\ q[1] = 0 /\ q[16] = 0
    BY DEF F
  <2> HIDE DEF t, q
  <2>4. ZeroSum(w, 3, t, q)
    BY <2>1, <2>2, <2>3 DEF ZeroSum
  <2>5. QED
    BY <2>4, ZeroSyndrome
<1>4. HasSyndrome(w, 5, 0)
  <2> DEFINE t == <<0, 6, 7, 0, 6, 0, 1, 6, 7, 1, 0, 0, 0, 6, 0>>
             q == <<0, 0, 6, 1, 1, 7, 7, 6, 0, 7, 6, 6, 6, 6, 0, 0>>
  <2>1. \A i \in 0 .. 14 : t[i + 1] = (IF i \in w THEN Exp4(5 * i) ELSE 0)
    BY <1>1 DEF Exp4, gf16_exp
  <2>2. \A i \in 0 .. 14 : q[i + 1] = t[i + 1] \oplus q[i + 2]
    BY XorIs DEF \oplus, F
  <2>3. (\A i \in 0 .. 15 : q[i + 1] \in F) /\ q[1] = 0 /\ q[16] = 0
    BY DEF F
  <2> HIDE DEF t, q
  <2>4. ZeroSum(w, 5, t, q)
    BY <2>1, <2>2, <2>3 DEF ZeroSum
  <2>5. QED
    BY <2>4, ZeroSyndrome
<1>5. QED
  BY <1>2, <1>3, <1>4 DEF w

LEMMA InRow4 ==
  \A i \in 0 .. 14 : i \in Bits(17051, 15) <=> i \in {0, 1, 3, 4, 7, 9, 14}
<1> DEFINE w == Bits(17051, 15)
<1>1. 0 \in w /\ 1 \in w /\ 3 \in w /\ 4 \in w /\ 7 \in w /\ 9 \in w /\ 14 \in w
  BY Powers DEF Bits
<1>2. 2 \notin w /\ 5 \notin w /\ 6 \notin w /\ 8 \notin w /\ 10 \notin w /\ 11 \notin w /\ 12 \notin w /\ 13 \notin w
  BY Powers DEF Bits
<1> HIDE DEF w
<1>3. \A i \in 0 .. 14 : i \in w <=> i \in {0, 1, 3, 4, 7, 9, 14}
  BY <1>1, <1>2
<1>4. QED
  BY <1>3 DEF w

LEMMA Row4 ==
  LET w == Bits(17051, 15)
  IN  HasSyndrome(w, 1, 0) /\ HasSyndrome(w, 3, 0) /\ HasSyndrome(w, 5, 0)
<1> DEFINE w == Bits(17051, 15)
<1>1. \A i \in 0 .. 14 : i \in w <=> i \in {0, 1, 3, 4, 7, 9, 14}
  BY InRow4
<1> HIDE DEF w
<1>2. HasSyndrome(w, 1, 0)
  <2> DEFINE t == <<1, 2, 0, 8, 3, 0, 0, 11, 0, 10, 0, 0, 0, 0, 9>>
             q == <<0, 1, 3, 3, 11, 8, 8, 8, 3, 3, 9, 9, 9, 9, 9, 0>>
  <2>1. \A i \in 0 .. 14 : t[i + 1] = (IF i \in w THEN Exp4(1 * i) ELSE 0)
    BY <1>1 DEF Exp4, gf16_exp
  <2>2. \A i \in 0 .. 14 : q[i + 1] = t[i + 1] \oplus q[i + 2]
    BY XorIs DEF \oplus, F
  <2>3. (\A i \in 0 .. 15 : q[i + 1] \in F) /\ q[1] = 0 /\ q[16] = 0
    BY DEF F
  <2> HIDE DEF t, q
  <2>4. ZeroSum(w, 1, t, q)
    BY <2>1, <2>2, <2>3 DEF ZeroSum
  <2>5. QED
    BY <2>4, ZeroSyndrome
<1>3. HasSyndrome(w, 3, 0)
  <2> DEFINE t == <<1, 8, 0, 10, 15, 0, 0, 12, 0, 15, 0, 0, 0, 0, 15>>
             q == <<0, 1, 9, 9, 3, 12, 12, 12, 0, 0, 15, 15, 15, 15, 15, 0>>
  <2>1. \A i \in 0 .. 14 : t[i + 1] = (IF i \in w THEN Exp4(3 * i) ELSE 0)
    BY <1>1 DEF Exp4, gf16_exp
  <2>2. \A i \in 0 .. 14 : q[i + 1] = t[i + 1] \oplus q[i + 2]
    BY XorIs DEF \oplus, F
  <2>3. (\A i \in 0 .. 15 : q[i + 1] \in F) /\ q[1] = 0 /\ q[16] = 0
    BY DEF F
  <2> HIDE DEF t, q
  <2>4. ZeroSum(w, 3, t, q)
    BY <2>1, <2>2, <2>3 DEF ZeroSum
  <2>5. QED
    BY <2>4, ZeroSyndrome
<1>4. HasSyndrome(w, 5, 0)
  <2> DEFINE t == <<1, 6, 0, 1, 6, 0, 0, 6, 0, 1, 0, 0, 0, 0, 7>>
             q == <<0, 1, 7, 7, 6, 0, 0, 0, 6, 6, 7, 7, 7, 7, 7, 0>>
  <2>1. \A i \in 0 .. 14 : t[i + 1] = (IF i \in w THEN Exp4(5 * i) ELSE 0)
    BY <1>1 DEF Exp4, gf16_exp
  <2>2. \A i \in 0 .. 14 : q[i + 1] = t[i + 1] \oplus q[i + 2]
    BY XorIs DEF \oplus, F
  <2>3. (\A i \in 0 .. 15 : q[i + 1] \in F) /\ q[1] = 0 /\ q[16] = 0
    BY DEF F
  <2> HIDE DEF t, q
  <2>4. ZeroSum(w, 5, t, q)
    BY <2>1, <2>2, <2>3 DEF ZeroSum
  <2>5. QED
    BY <2>4, ZeroSyndrome
<1>5. QED
  BY <1>2, <1>3, <1>4 DEF w

\* A sum of such words has none either,
LEMMA NoSyndromeOfBoth ==
  ASSUME NEW x, NEW y, NEW k \in Nat, HasSyndrome(x, k, 0), HasSyndrome(y, k, 0)
  PROVE  HasSyndrome(Diff(x, y), k, 0)
<1>1. 0 \oplus 0 = 0
  BY SumRules DEF F
<1>2. HasSyndrome(Diff(x, y), k, 0 \oplus 0)
  BY SyndromeOfDiff
<1>3. QED
  BY <1>1, <1>2

\* and so has no word of bch15_5_encode.
LEMMA EncodedSyndromes ==
  ASSUME NEW x, NEW k \in {1, 3, 5}
  PROVE  HasSyndrome(bch15_5_encode(x), k, 0)
<1> DEFINE rows == <<1335, 2670, 4587, 9174, 17051>>
           row(i) == IF i \in Bits(x, 5) THEN Bits(rows[i + 1], 15) ELSE {}
<1>1. k \in Nat /\ HasSyndrome({}, k, 0)
  BY NoSyndrome
<1>2. HasSyndrome(Bits(1335, 15), k, 0) /\ HasSyndrome(Bits(2670, 15), k, 0) /\ HasSyndrome(Bits(4587, 15), k, 0)
  BY Row0, Row1, Row2
<1>3. HasSyndrome(Bits(9174, 15), k, 0) /\ HasSyndrome(Bits(17051, 15), k, 0)
  BY Row3, Row4
<1>4. HasSyndrome(row(0), k, 0) /\ HasSyndrome(row(1), k, 0) /\ HasSyndrome(row(2), k, 0)
  BY <1>1, <1>2
<1>5. HasSyndrome(row(3), k, 0) /\ HasSyndrome(row(4), k, 0)
  BY <1>1, <1>3
<1>6. bch15_5_encode(x) = Diff(row(0), Diff(row(1), Diff(row(2), Diff(row(3), row(4)))))
  BY DEF bch15_5_encode
<1> DEFINE r0 == row(0)
           r1 == row(1)
           r2 == row(2)
           r3 == row(3)
           r4 == row(4)
<1>7. bch15_5_encode(x) = Diff(r0, Diff(r1, Diff(r2, Diff(r3, r4))))
  BY <1>6
<1>8. HasSyndrome(r0, k, 0) /\ HasSyndrome(r1, k, 0) /\ HasSyndrome(r2, k, 0)
  BY <1>4
<1>9. HasSyndrome(r3, k, 0) /\ HasSyndrome(r4, k, 0)
  BY <1>5
<1> HIDE DEF r0, r1, r2, r3, r4
<1>10. HasSyndrome(Diff(r2, Diff(r3, r4)), k, 0)
  BY <1>1, <1>8, <1>9, NoSyndromeOfBoth
<1>11. QED
  BY <1>1, <1>7, <1>8, <1>10, NoSyndromeOfBoth

-----------------------------------------------------------------------------
(* The words of the format information.                                    *)

\* Bit j of five, and what it adds to bit i of its word.
DataBit(x, j) == CASE j = 0 -> x % 2
                   [] j = 1 -> (x \div 2) % 2
                   [] j = 2 -> (x \div 4) % 2
                   [] j = 3 -> (x \div 8) % 2
                   [] j = 4 -> (x \div 16) % 2
InRowSet(i, j) == CASE j = 0 -> i \in {0, 1, 2, 4, 5, 8, 10}
                 [] j = 1 -> i \in {1, 2, 3, 5, 6, 9, 11}
                 [] j = 2 -> i \in {0, 1, 3, 5, 6, 7, 8, 12}
                 [] j = 3 -> i \in {1, 2, 4, 6, 7, 8, 9, 13}
                 [] j = 4 -> i \in {0, 1, 3, 4, 7, 9, 14}
FromRow(x, i, j) == IF InRowSet(i, j) THEN DataBit(x, j) ELSE 0
EncodedBit(x, i) ==
  (FromRow(x, i, 0) + FromRow(x, i, 1) + FromRow(x, i, 2) + FromRow(x, i, 3) + FromRow(x, i, 4)) % 2

\* Bit j as an element of the set of bits.
LEMMA DataBits ==
  ASSUME NEW x \in 0 .. 31, NEW j \in 0 .. 4
  PROVE  (j \in Bits(x, 5) <=> DataBit(x, j) = 1) /\ DataBit(x, j) \in {0, 1}
<1>1. /\ 0 \in Bits(x, 5) <=> x % 2 = 1
      /\ 1 \in Bits(x, 5) <=> (x \div 2) % 2 = 1
      /\ 2 \in Bits(x, 5) <=> (x \div 4) % 2 = 1
      /\ 3 \in Bits(x, 5) <=> (x \div 8) % 2 = 1
      /\ 4 \in Bits(x, 5) <=> (x \div 16) % 2 = 1
  BY Powers DEF Bits
<1>2. QED
  BY <1>1 DEF DataBit

\* One bit of five sets.
LEMMA InDiffOfFive ==
  ASSUME NEW i, NEW A, NEW B, NEW C, NEW D, NEW E,
         NEW a \in {0, 1}, NEW b \in {0, 1}, NEW c \in {0, 1}, NEW d \in {0, 1}, NEW e \in {0, 1},
         i \in A <=> a = 1, i \in B <=> b = 1, i \in C <=> c = 1, i \in D <=> d = 1, i \in E <=> e = 1
  PROVE  i \in Diff(A, Diff(B, Diff(C, Diff(D, E)))) <=> (a + b + c + d + e) % 2 = 1
<1>1. i \in Diff(D, E) <=> (d + e) % 2 = 1
  BY DEF Diff
<1>2. i \in Diff(C, Diff(D, E)) <=> (c + d + e) % 2 = 1
  <2> DEFINE X == Diff(D, E)
  <2>1. i \in X <=> (d + e) % 2 = 1
    BY <1>1
  <2> HIDE DEF X
  <2>2. i \in Diff(C, X) <=> (c + d + e) % 2 = 1
    BY <2>1 DEF Diff
  <2>3. QED
    BY <2>2 DEF X
<1>3. i \in Diff(B, Diff(C, Diff(D, E))) <=> (b + c + d + e) % 2 = 1
  <2> DEFINE X == Diff(C, Diff(D, E))
  <2>1. i \in X <=> (c + d + e) % 2 = 1
    BY <1>2
  <2> HIDE DEF X
  <2>2. i \in Diff(B, X) <=> (b + c + d + e) % 2 = 1
    BY <2>1 DEF Diff
  <2>3. QED
    BY <2>2 DEF X
<1>4. QED
  <2> DEFINE X == Diff(B, Diff(C, Diff(D, E)))
  <2>1. i \in X <=> (b + c + d + e) % 2 = 1
    BY <1>3
  <2> HIDE DEF X
  <2>2. i \in Diff(A, X) <=> (a + b + c + d + e) % 2 = 1
    BY <2>1 DEF Diff
  <2>3. QED
    BY <2>2 DEF X

\* Bit i of a word of bch15_5_encode.
LEMMA InEncoded ==
  ASSUME NEW x \in 0 .. 31
  PROVE  /\ bch15_5_encode(x) \in SUBSET (0 .. 14)
         /\ \A i \in 0 .. 14 : i \in bch15_5_encode(x) <=> EncodedBit(x, i) = 1
<1> DEFINE rows == <<1335, 2670, 4587, 9174, 17051>>
           row(i) == IF i \in Bits(x, 5) THEN Bits(rows[i + 1], 15) ELSE {}
           A == row(0)
           B == row(1)
           C == row(2)
           D == row(3)
           E == row(4)
<1>1. bch15_5_encode(x) = Diff(A, Diff(B, Diff(C, Diff(D, E))))
  BY DEF bch15_5_encode
<1>2. /\ A = (IF 0 \in Bits(x, 5) THEN Bits(1335, 15) ELSE {})
      /\ B = (IF 1 \in Bits(x, 5) THEN Bits(2670, 15) ELSE {})
      /\ C = (IF 2 \in Bits(x, 5) THEN Bits(4587, 15) ELSE {})
      /\ D = (IF 3 \in Bits(x, 5) THEN Bits(9174, 15) ELSE {})
      /\ E = (IF 4 \in Bits(x, 5) THEN Bits(17051, 15) ELSE {})
  OBVIOUS
<1> HIDE DEF A, B, C, D, E
<1>3. \A n : Bits(n, 15) \in SUBSET (0 .. 14)
  BY DEF Bits
<1>4. A \subseteq 0 .. 14 /\ B \subseteq 0 .. 14 /\ C \subseteq 0 .. 14 /\ D \subseteq 0 .. 14 /\ E \subseteq 0 .. 14
  BY <1>2, <1>3
<1>5. bch15_5_encode(x) \subseteq 0 .. 14
  BY <1>1, <1>4, Zenon DEF Diff
<1>6. ASSUME NEW i \in 0 .. 14
      PROVE  i \in bch15_5_encode(x) <=> EncodedBit(x, i) = 1
  <2> DEFINE a == FromRow(x, i, 0)
             b == FromRow(x, i, 1)
             c == FromRow(x, i, 2)
             d == FromRow(x, i, 3)
             e == FromRow(x, i, 4)
  <2>1. a \in {0, 1} /\ (i \in A <=> a = 1)
    BY <1>2, DataBits, InRow0 DEF FromRow, InRowSet
  <2>2. b \in {0, 1} /\ (i \in B <=> b = 1)
    BY <1>2, DataBits, InRow1 DEF FromRow, InRowSet
  <2>3. c \in {0, 1} /\ (i \in C <=> c = 1)
    BY <1>2, DataBits, InRow2 DEF FromRow, InRowSet
  <2>4. d \in {0, 1} /\ (i \in D <=> d = 1)
    BY <1>2, DataBits, InRow3 DEF FromRow, InRowSet
  <2>5. e \in {0, 1} /\ (i \in E <=> e = 1)
    BY <1>2, DataBits, InRow4 DEF FromRow, InRowSet
  <2>6. EncodedBit(x, i) = (a + b + c + d + e) % 2
    BY DEF EncodedBit
  <2> HIDE DEF a, b, c, d, e
  <2>7. i \in Diff(A, Diff(B, Diff(C, Diff(D, E)))) <=> (a + b + c + d + e) % 2 = 1
    BY <2>1, <2>2, <2>3, <2>4, <2>5, InDiffOfFive
  <2>8. QED
    BY <1>1, <2>6, <2>7
<1>7. QED
  BY <1>5, <1>6

\* The data bits of a word are what was encoded.
LEMMA DataOfEncoded ==
  ASSUME NEW x \in 0 .. 31
  PROVE  Data5(bch15_5_encode(x)) = x
<1> DEFINE y == bch15_5_encode(x)
<1>1. ASSUME NEW j \in 0 .. 4
      PROVE  10 + j \in y <=> DataBit(x, j) = 1
  <2>1. 10 + j \in y <=> EncodedBit(x, 10 + j) = 1
    BY InEncoded
  <2>2. EncodedBit(x, 10 + j) = DataBit(x, j)
    BY DEF EncodedBit, FromRow, InRowSet, DataBit
  <2>3. QED
    BY <2>1, <2>2
<1>2. /\ 0 + 10 \in y <=> x % 2 = 1
      /\ 1 + 10 \in y <=> (x \div 2) % 2 = 1
      /\ 2 + 10 \in y <=> (x \div 4) % 2 = 1
      /\ 3 + 10 \in y <=> (x \div 8) % 2 = 1
      /\ 4 + 10 \in y <=> (x \div 16) % 2 = 1
  BY <1>1 DEF DataBit
<1> HIDE DEF y
<1> DEFINE bit(i) == IF i + 10 \in y THEN 2^i ELSE 0
<1>3. Data5(y) = bit(0) + bit(1) + bit(2) + bit(3) + bit(4)
  BY DEF Data5
<1>4. /\ bit(0) = x % 2
      /\ bit(1) = 2 * ((x \div 2) % 2)
      /\ bit(2) = 4 * ((x \div 4) % 2)
      /\ bit(3) = 8 * ((x \div 8) % 2)
      /\ bit(4) = 16 * ((x \div 16) % 2)
  BY <1>2, Powers
<1>5. x = (x % 2) + 2 * ((x \div 2) % 2) + 4 * ((x \div 4) % 2) + 8 * ((x \div 8) % 2) + 16 * ((x \div 16) % 2)
  OBVIOUS
<1> HIDE DEF bit
<1>6. QED
  BY <1>3, <1>4, <1>5 DEF y

\* What the format information of a level and a mask says.
FormatData(l, m) == 8 * (CASE l = 0 -> 1 [] l = 1 -> 0 [] l = 2 -> 3 [] l = 3 -> 2) + m
LowBit(l)  == IF l \in {0, 2} THEN 1 ELSE 0
HighBit(l) == IF l \in {2, 3} THEN 1 ELSE 0

\* Its bits: those of the mask, and those of the level.
LEMMA FormatDataBits ==
  ASSUME NEW l \in 0 .. 3, NEW m \in 0 .. 7
  PROVE  LET x == FormatData(l, m)
         IN /\ x \in 0 .. 31
            /\ DataBit(x, 0) = m % 2
            /\ DataBit(x, 1) = (m \div 2) % 2
            /\ DataBit(x, 2) = (m \div 4) % 2
            /\ DataBit(x, 3) = LowBit(l)
            /\ DataBit(x, 4) = HighBit(l)
<1> DEFINE x == FormatData(l, m)
           h == CASE l = 0 -> 1 [] l = 1 -> 0 [] l = 2 -> 3 [] l = 3 -> 2
<1>1. x = 8 * h + m /\ h \in 0 .. 3 /\ h % 2 = LowBit(l) /\ h \div 2 = HighBit(l)
  BY DEF FormatData, LowBit, HighBit
<1> HIDE DEF x, h
<1>2. x \in 0 .. 31 /\ x % 2 = m % 2 /\ (x \div 2) % 2 = (m \div 2) % 2 /\ (x \div 4) % 2 = (m \div 4) % 2
  BY <1>1
<1>3. (x \div 8) % 2 = h % 2 /\ (x \div 16) % 2 = h \div 2
  BY <1>1
<1>4. QED
  BY <1>1, <1>2, <1>3 DEF DataBit, x

\* Bit i of that information, without its mask.
FormatBit(l, m, i) ==
  i \in Diff(Bits(formatInfo[l + 1][m + 1], 15), Bits(21522, 15)) <=> EncodedBit(FormatData(l, m), i) = 1

\* The table of Mask_writeFormatInformation, bit by bit.
LEMMA FormatBits == \A l \in 0 .. 3, m \in 0 .. 7, i \in 0 .. 14 : FormatBit(l, m, i)
<1>0. ASSUME NEW l \in 0 .. 3, NEW m \in 0 .. 7
      PROVE  FormatBit(l, m, 0)
  <2>1. (formatInfo[l + 1][m + 1] \div 2^0) % 2 = ((m % 2) + ((m \div 4) % 2) + HighBit(l) + 0) % 2
    BY Powers, SMTT(60) DEF formatInfo, LowBit, HighBit
  <2>2. EncodedBit(FormatData(l, m), 0) = ((m % 2) + ((m \div 4) % 2) + HighBit(l)) % 2
    <3> DEFINE x == FormatData(l, m)
    <3>1. /\ DataBit(x, 0) = m % 2 /\ DataBit(x, 1) = (m \div 2) % 2 /\ DataBit(x, 2) = (m \div 4) % 2
          /\ DataBit(x, 3) = LowBit(l) /\ DataBit(x, 4) = HighBit(l)
      BY FormatDataBits
    <3>2. LowBit(l) \in {0, 1} /\ HighBit(l) \in {0, 1}
      BY DEF LowBit, HighBit
    <3> HIDE DEF x
    <3>3. EncodedBit(x, 0) = ((m % 2) + ((m \div 4) % 2) + HighBit(l)) % 2
      BY <3>1, <3>2 DEF EncodedBit, FromRow, InRowSet
    <3>4. QED
      BY <3>3 DEF x
  <2>3. (21522 \div 2^0) % 2 = 0
    BY Powers
  <2>4. LowBit(l) \in {0, 1} /\ HighBit(l) \in {0, 1}
    BY DEF LowBit, HighBit
  <2>5. QED
    <3> DEFINE A == Bits(formatInfo[l + 1][m + 1], 15)
               B == Bits(21522, 15)
    <3>1. 0 \in A <=> (formatInfo[l + 1][m + 1] \div 2^0) % 2 = 1
      BY DEF Bits
    <3>2. 0 \in B <=> (21522 \div 2^0) % 2 = 1
      BY DEF Bits
    <3> HIDE DEF A, B
    <3>3. 0 \in Diff(A, B) <=> EncodedBit(FormatData(l, m), 0) = 1
      BY <2>1, <2>2, <2>3, <2>4, <3>1, <3>2 DEF Diff
    <3>4. QED
      BY <3>3 DEF FormatBit, A, B
<1>1. ASSUME NEW l \in 0 .. 3, NEW m \in 0 .. 7
      PROVE  FormatBit(l, m, 1)
  <2>1. (formatInfo[l + 1][m + 1] \div 2^1) % 2 = ((m % 2) + ((m \div 2) % 2) + ((m \div 4) % 2) + LowBit(l) + HighBit(l) + 1) % 2
    BY Powers, SMTT(60) DEF formatInfo, LowBit, HighBit
  <2>2. EncodedBit(FormatData(l, m), 1) = ((m % 2) + ((m \div 2) % 2) + ((m \div 4) % 2) + LowBit(l) + HighBit(l)) % 2
    <3> DEFINE x == FormatData(l, m)
    <3>1. /\ DataBit(x, 0) = m % 2 /\ DataBit(x, 1) = (m \div 2) % 2 /\ DataBit(x, 2) = (m \div 4) % 2
          /\ DataBit(x, 3) = LowBit(l) /\ DataBit(x, 4) = HighBit(l)
      BY FormatDataBits
    <3>2. LowBit(l) \in {0, 1} /\ HighBit(l) \in {0, 1}
      BY DEF LowBit, HighBit
    <3> HIDE DEF x
    <3>3. EncodedBit(x, 1) = ((m % 2) + ((m \div 2) % 2) + ((m \div 4) % 2) + LowBit(l) + HighBit(l)) % 2
      BY <3>1, <3>2 DEF EncodedBit, FromRow, InRowSet
    <3>4. QED
      BY <3>3 DEF x
  <2>3. (21522 \div 2^1) % 2 = 1
    BY Powers
  <2>4. LowBit(l) \in {0, 1} /\ HighBit(l) \in {0, 1}
    BY DEF LowBit, HighBit
  <2>5. QED
    <3> DEFINE A == Bits(formatInfo[l + 1][m + 1], 15)
               B == Bits(21522, 15)
    <3>1. 1 \in A <=> (formatInfo[l + 1][m + 1] \div 2^1) % 2 = 1
      BY DEF Bits
    <3>2. 1 \in B <=> (21522 \div 2^1) % 2 = 1
      BY DEF Bits
    <3> HIDE DEF A, B
    <3>3. 1 \in Diff(A, B) <=> EncodedBit(FormatData(l, m), 1) = 1
      BY <2>1, <2>2, <2>3, <2>4, <3>1, <3>2 DEF Diff
    <3>4. QED
      BY <3>3 DEF FormatBit, A, B
<1>2. ASSUME NEW l \in 0 .. 3, NEW m \in 0 .. 7
      PROVE  FormatBit(l, m, 2)
  <2>1. (formatInfo[l + 1][m + 1] \div 2^2) % 2 = ((m % 2) + ((m \div 2) % 2) + LowBit(l) + 0) % 2
    BY Powers, SMTT(60) DEF formatInfo, LowBit, HighBit
  <2>2. EncodedBit(FormatData(l, m), 2) = ((m % 2) + ((m \div 2) % 2) + LowBit(l)) % 2
    <3> DEFINE x == FormatData(l, m)
    <3>1. /\ DataBit(x, 0) = m % 2 /\ DataBit(x, 1) = (m \div 2) % 2 /\ DataBit(x, 2) = (m \div 4) % 2
          /\ DataBit(x, 3) = LowBit(l) /\ DataBit(x, 4) = HighBit(l)
      BY FormatDataBits
    <3>2. LowBit(l) \in {0, 1} /\ HighBit(l) \in {0, 1}
      BY DEF LowBit, HighBit
    <3> HIDE DEF x
    <3>3. EncodedBit(x, 2) = ((m % 2) + ((m \div 2) % 2) + LowBit(l)) % 2
      BY <3>1, <3>2 DEF EncodedBit, FromRow, InRowSet
    <3>4. QED
      BY <3>3 DEF x
  <2>3. (21522 \div 2^2) % 2 = 0
    BY Powers
  <2>4. LowBit(l) \in {0, 1} /\ HighBit(l) \in {0, 1}
    BY DEF LowBit, HighBit
  <2>5. QED
    <3> DEFINE A == Bits(formatInfo[l + 1][m + 1], 15)
               B == Bits(21522, 15)
    <3>1. 2 \in A <=> (formatInfo[l + 1][m + 1] \div 2^2) % 2 = 1
      BY DEF Bits
    <3>2. 2 \in B <=> (21522 \div 2^2) % 2 = 1
      BY DEF Bits
    <3> HIDE DEF A, B
    <3>3. 2 \in Diff(A, B) <=> EncodedBit(FormatData(l, m), 2) = 1
      BY <2>1, <2>2, <2>3, <2>4, <3>1, <3>2 DEF Diff
    <3>4. QED
      BY <3>3 DEF FormatBit, A, B
<1>3. ASSUME NEW l \in 0 .. 3, NEW m \in 0 .. 7
      PROVE  FormatBit(l, m, 3)
  <2>1. (formatInfo[l + 1][m + 1] \div 2^3) % 2 = (((m \div 2) % 2) + ((m \div 4) % 2) + HighBit(l) + 0) % 2
    BY Powers, SMTT(60) DEF formatInfo, LowBit, HighBit
  <2>2. EncodedBit(FormatData(l, m), 3) = (((m \div 2) % 2) + ((m \div 4) % 2) + HighBit(l)) % 2
    <3> DEFINE x == FormatData(l, m)
    <3>1. /\ DataBit(x, 0) = m % 2 /\ DataBit(x, 1) = (m \div 2) % 2 /\ DataBit(x, 2) = (m \div 4) % 2
          /\ DataBit(x, 3) = LowBit(l) /\ DataBit(x, 4) = HighBit(l)
      BY FormatDataBits
    <3>2. LowBit(l) \in {0, 1} /\ HighBit(l) \in {0, 1}
      BY DEF LowBit, HighBit
    <3> HIDE DEF x
    <3>3. EncodedBit(x, 3) = (((m \div 2) % 2) + ((m \div 4) % 2) + HighBit(l)) % 2
      BY <3>1, <3>2 DEF EncodedBit, FromRow, InRowSet
    <3>4. QED
      BY <3>3 DEF x
  <2>3. (21522 \div 2^3) % 2 = 0
    BY Powers
  <2>4. LowBit(l) \in {0, 1} /\ HighBit(l) \in {0, 1}
    BY DEF LowBit, HighBit
  <2>5. QED
    <3> DEFINE A == Bits(formatInfo[l + 1][m + 1], 15)
               B == Bits(21522, 15)
    <3>1. 3 \in A <=> (formatInfo[l + 1][m + 1] \div 2^3) % 2 = 1
      BY DEF Bits
    <3>2. 3 \in B <=> (21522 \div 2^3) % 2 = 1
      BY DEF Bits
    <3> HIDE DEF A, B
    <3>3. 3 \in Diff(A, B) <=> EncodedBit(FormatData(l, m), 3) = 1
      BY <2>1, <2>2, <2>3, <2>4, <3>1, <3>2 DEF Diff
    <3>4. QED
      BY <3>3 DEF FormatBit, A, B
<1>4. ASSUME NEW l \in 0 .. 3, NEW m \in 0 .. 7
      PROVE  FormatBit(l, m, 4)
  <2>1. (formatInfo[l + 1][m + 1] \div 2^4) % 2 = ((m % 2) + LowBit(l) + HighBit(l) + 1) % 2
    BY Powers, SMTT(60) DEF formatInfo, LowBit, HighBit
  <2>2. EncodedBit(FormatData(l, m), 4) = ((m % 2) + LowBit(l) + HighBit(l)) % 2
    <3> DEFINE x == FormatData(l, m)
    <3>1. /\ DataBit(x, 0) = m % 2 /\ DataBit(x, 1) = (m \div 2) % 2 /\ DataBit(x, 2) = (m \div 4) % 2
          /\ DataBit(x, 3) = LowBit(l) /\ DataBit(x, 4) = HighBit(l)
      BY FormatDataBits
    <3>2. LowBit(l) \in {0, 1} /\ HighBit(l) \in {0, 1}
      BY DEF LowBit, HighBit
    <3> HIDE DEF x
    <3>3. EncodedBit(x, 4) = ((m % 2) + LowBit(l) + HighBit(l)) % 2
      BY <3>1, <3>2 DEF EncodedBit, FromRow, InRowSet
    <3>4. QED
      BY <3>3 DEF x
  <2>3. (21522 \div 2^4) % 2 = 1
    BY Powers
  <2>4. LowBit(l) \in {0, 1} /\ HighBit(l) \in {0, 1}
    BY DEF LowBit, HighBit
  <2>5. QED
    <3> DEFINE A == Bits(formatInfo[l + 1][m + 1], 15)
               B == Bits(21522, 15)
    <3>1. 4 \in A <=> (formatInfo[l + 1][m + 1] \div 2^4) % 2 = 1
      BY DEF Bits
    <3>2. 4 \in B <=> (21522 \div 2^4) % 2 = 1
      BY DEF Bits
    <3> HIDE DEF A, B
    <3>3. 4 \in Diff(A, B) <=> EncodedBit(FormatData(l, m), 4) = 1
      BY <2>1, <2>2, <2>3, <2>4, <3>1, <3>2 DEF Diff
    <3>4. QED
      BY <3>3 DEF FormatBit, A, B
<1>5. ASSUME NEW l \in 0 .. 3, NEW m \in 0 .. 7
      PROVE  FormatBit(l, m, 5)
  <2>1. (formatInfo[l + 1][m + 1] \div 2^5) % 2 = ((m % 2) + ((m \div 2) % 2) + ((m \div 4) % 2) + 0) % 2
    BY Powers, SMTT(60) DEF formatInfo, LowBit, HighBit
  <2>2. EncodedBit(FormatData(l, m), 5) = ((m % 2) + ((m \div 2) % 2) + ((m \div 4) % 2)) % 2
    <3> DEFINE x == FormatData(l, m)
    <3>1. /\ DataBit(x, 0) = m % 2 /\ DataBit(x, 1) = (m \div 2) % 2 /\ DataBit(x, 2) = (m \div 4) % 2
          /\ DataBit(x, 3) = LowBit(l) /\ DataBit(x, 4) = HighBit(l)
      BY FormatDataBits
    <3>2. LowBit(l) \in {0, 1} /\ HighBit(l) \in {0, 1}
      BY DEF LowBit, HighBit
    <3> HIDE DEF x
    <3>3. EncodedBit(x, 5) = ((m % 2) + ((m \div 2) % 2) + ((m \div 4) % 2)) % 2
      BY <3>1, <3>2 DEF EncodedBit, FromRow, InRowSet
    <3>4. QED
      BY <3>3 DEF x
  <2>3. (21522 \div 2^5) % 2 = 0
    BY Powers
  <2>4. LowBit(l) \in {0, 1} /\ HighBit(l) \in {0, 1}
    BY DEF LowBit, HighBit
  <2>5. QED
    <3> DEFINE A == Bits(formatInfo[l + 1][m + 1], 15)
               B == Bits(21522, 15)
    <3>1. 5 \in A <=> (formatInfo[l + 1][m + 1] \div 2^5) % 2 = 1
      BY DEF Bits
    <3>2. 5 \in B <=> (21522 \div 2^5) % 2 = 1
      BY DEF Bits
    <3> HIDE DEF A, B
    <3>3. 5 \in Diff(A, B) <=> EncodedBit(FormatData(l, m), 5) = 1
      BY <2>1, <2>2, <2>3, <2>4, <3>1, <3>2 DEF Diff
    <3>4. QED
      BY <3>3 DEF FormatBit, A, B
<1>6. ASSUME NEW l \in 0 .. 3, NEW m \in 0 .. 7
      PROVE  FormatBit(l, m, 6)
  <2>1. (formatInfo[l + 1][m + 1] \div 2^6) % 2 = (((m \div 2) % 2) + ((m \div 4) % 2) + LowBit(l) + 0) % 2
    BY Powers, SMTT(60) DEF formatInfo, LowBit, HighBit
  <2>2. EncodedBit(FormatData(l, m), 6) = (((m \div 2) % 2) + ((m \div 4) % 2) + LowBit(l)) % 2
    <3> DEFINE x == FormatData(l, m)
    <3>1. /\ DataBit(x, 0) = m % 2 /\ DataBit(x, 1) = (m \div 2) % 2 /\ DataBit(x, 2) = (m \div 4) % 2
          /\ DataBit(x, 3) = LowBit(l) /\ DataBit(x, 4) = HighBit(l)
      BY FormatDataBits
    <3>2. LowBit(l) \in {0, 1} /\ HighBit(l) \in {0, 1}
      BY DEF LowBit, HighBit
    <3> HIDE DEF x
    <3>3. EncodedBit(x, 6) = (((m \div 2) % 2) + ((m \div 4) % 2) + LowBit(l)) % 2
      BY <3>1, <3>2 DEF EncodedBit, FromRow, InRowSet
    <3>4. QED
      BY <3>3 DEF x
  <2>3. (21522 \div 2^6) % 2 = 0
    BY Powers
  <2>4. LowBit(l) \in {0, 1} /\ HighBit(l) \in {0, 1}
    BY DEF LowBit, HighBit
  <2>5. QED
    <3> DEFINE A == Bits(formatInfo[l + 1][m + 1], 15)
               B == Bits(21522, 15)
    <3>1. 6 \in A <=> (formatInfo[l + 1][m + 1] \div 2^6) % 2 = 1
      BY DEF Bits
    <3>2. 6 \in B <=> (21522 \div 2^6) % 2 = 1
      BY DEF Bits
    <3> HIDE DEF A, B
    <3>3. 6 \in Diff(A, B) <=> EncodedBit(FormatData(l, m), 6) = 1
      BY <2>1, <2>2, <2>3, <2>4, <3>1, <3>2 DEF Diff
    <3>4. QED
      BY <3>3 DEF FormatBit, A, B
<1>7. ASSUME NEW l \in 0 .. 3, NEW m \in 0 .. 7
      PROVE  FormatBit(l, m, 7)
  <2>1. (formatInfo[l + 1][m + 1] \div 2^7) % 2 = (((m \div 4) % 2) + LowBit(l) + HighBit(l) + 0) % 2
    BY Powers, SMTT(60) DEF formatInfo, LowBit, HighBit
  <2>2. EncodedBit(FormatData(l, m), 7) = (((m \div 4) % 2) + LowBit(l) + HighBit(l)) % 2
    <3> DEFINE x == FormatData(l, m)
    <3>1. /\ DataBit(x, 0) = m % 2 /\ DataBit(x, 1) = (m \div 2) % 2 /\ DataBit(x, 2) = (m \div 4) % 2
          /\ DataBit(x, 3) = LowBit(l) /\ DataBit(x, 4) = HighBit(l)
      BY FormatDataBits
    <3>2. LowBit(l) \in {0, 1} /\ HighBit(l) \in {0, 1}
      BY DEF LowBit, HighBit
    <3> HIDE DEF x
    <3>3. EncodedBit(x, 7) = (((m \div 4) % 2) + LowBit(l) + HighBit(l)) % 2
      BY <3>1, <3>2 DEF EncodedBit, FromRow, InRowSet
    <3>4. QED
      BY <3>3 DEF x
  <2>3. (21522 \div 2^7) % 2 = 0
    BY Powers
  <2>4. LowBit(l) \in {0, 1} /\ HighBit(l) \in {0, 1}
    BY DEF LowBit, HighBit
  <2>5. QED
    <3> DEFINE A == Bits(formatInfo[l + 1][m + 1], 15)
               B == Bits(21522, 15)
    <3>1. 7 \in A <=> (formatInfo[l + 1][m + 1] \div 2^7) % 2 = 1
      BY DEF Bits
    <3>2. 7 \in B <=> (21522 \div 2^7) % 2 = 1
      BY DEF Bits
    <3> HIDE DEF A, B
    <3>3. 7 \in Diff(A, B) <=> EncodedBit(FormatData(l, m), 7) = 1
      BY <2>1, <2>2, <2>3, <2>4, <3>1, <3>2 DEF Diff
    <3>4. QED
      BY <3>3 DEF FormatBit, A, B
<1>8. ASSUME NEW l \in 0 .. 3, NEW m \in 0 .. 7
      PROVE  FormatBit(l, m, 8)
  <2>1. (formatInfo[l + 1][m + 1] \div 2^8) % 2 = ((m % 2) + ((m \div 4) % 2) + LowBit(l) + 0) % 2
    BY Powers, SMTT(60) DEF formatInfo, LowBit, HighBit
  <2>2. EncodedBit(FormatData(l, m), 8) = ((m % 2) + ((m \div 4) % 2) + LowBit(l)) % 2
    <3> DEFINE x == FormatData(l, m)
    <3>1. /\ DataBit(x, 0) = m % 2 /\ DataBit(x, 1) = (m \div 2) % 2 /\ DataBit(x, 2) = (m \div 4) % 2
          /\ DataBit(x, 3) = LowBit(l) /\ DataBit(x, 4) = HighBit(l)
      BY FormatDataBits
    <3>2. LowBit(l) \in {0, 1} /\ HighBit(l) \in {0, 1}
      BY DEF LowBit, HighBit
    <3> HIDE DEF x
    <3>3. EncodedBit(x, 8) = ((m % 2) + ((m \div 4) % 2) + LowBit(l)) % 2
      BY <3>1, <3>2 DEF EncodedBit, FromRow, InRowSet
    <3>4. QED
      BY <3>3 DEF x
  <2>3. (21522 \div 2^8) % 2 = 0
    BY Powers
  <2>4. LowBit(l) \in {0, 1} /\ HighBit(l) \in {0, 1}
    BY DEF LowBit, HighBit
  <2>5. QED
    <3> DEFINE A == Bits(formatInfo[l + 1][m + 1], 15)
               B == Bits(21522, 15)
    <3>1. 8 \in A <=> (formatInfo[l + 1][m + 1] \div 2^8) % 2 = 1
      BY DEF Bits
    <3>2. 8 \in B <=> (21522 \div 2^8) % 2 = 1
      BY DEF Bits
    <3> HIDE DEF A, B
    <3>3. 8 \in Diff(A, B) <=> EncodedBit(FormatData(l, m), 8) = 1
      BY <2>1, <2>2, <2>3, <2>4, <3>1, <3>2 DEF Diff
    <3>4. QED
      BY <3>3 DEF FormatBit, A, B
<1>9. ASSUME NEW l \in 0 .. 3, NEW m \in 0 .. 7
      PROVE  FormatBit(l, m, 9)
  <2>1. (formatInfo[l + 1][m + 1] \div 2^9) % 2 = (((m \div 2) % 2) + LowBit(l) + HighBit(l) + 0) % 2
    BY Powers, SMTT(60) DEF formatInfo, LowBit, HighBit
  <2>2. EncodedBit(FormatData(l, m), 9) = (((m \div 2) % 2) + LowBit(l) + HighBit(l)) % 2
    <3> DEFINE x == FormatData(l, m)
    <3>1. /\ DataBit(x, 0) = m % 2 /\ DataBit(x, 1) = (m \div 2) % 2 /\ DataBit(x, 2) = (m \div 4) % 2
          /\ DataBit(x, 3) = LowBit(l) /\ DataBit(x, 4) = HighBit(l)
      BY FormatDataBits
    <3>2. LowBit(l) \in {0, 1} /\ HighBit(l) \in {0, 1}
      BY DEF LowBit, HighBit
    <3> HIDE DEF x
    <3>3. EncodedBit(x, 9) = (((m \div 2) % 2) + LowBit(l) + HighBit(l)) % 2
      BY <3>1, <3>2 DEF EncodedBit, FromRow, InRowSet
    <3>4. QED
      BY <3>3 DEF x
  <2>3. (21522 \div 2^9) % 2 = 0
    BY Powers
  <2>4. LowBit(l) \in {0, 1} /\ HighBit(l) \in {0, 1}
    BY DEF LowBit, HighBit
  <2>5. QED
    <3> DEFINE A == Bits(formatInfo[l + 1][m + 1], 15)
               B == Bits(21522, 15)
    <3>1. 9 \in A <=> (formatInfo[l + 1][m + 1] \div 2^9) % 2 = 1
      BY DEF Bits
    <3>2. 9 \in B <=> (21522 \div 2^9) % 2 = 1
      BY DEF Bits
    <3> HIDE DEF A, B
    <3>3. 9 \in Diff(A, B) <=> EncodedBit(FormatData(l, m), 9) = 1
      BY <2>1, <2>2, <2>3, <2>4, <3>1, <3>2 DEF Diff
    <3>4. QED
      BY <3>3 DEF FormatBit, A, B
<1>10. ASSUME NEW l \in 0 .. 3, NEW m \in 0 .. 7
      PROVE  FormatBit(l, m, 10)
  <2>1. (formatInfo[l + 1][m + 1] \div 2^10) % 2 = ((m % 2) + 1) % 2
    BY Powers, SMTT(60) DEF formatInfo, LowBit, HighBit
  <2>2. EncodedBit(FormatData(l, m), 10) = ((m % 2)) % 2
    <3> DEFINE x == FormatData(l, m)
    <3>1. /\ DataBit(x, 0) = m % 2 /\ DataBit(x, 1) = (m \div 2) % 2 /\ DataBit(x, 2) = (m \div 4) % 2
          /\ DataBit(x, 3) = LowBit(l) /\ DataBit(x, 4) = HighBit(l)
      BY FormatDataBits
    <3>2. LowBit(l) \in {0, 1} /\ HighBit(l) \in {0, 1}
      BY DEF LowBit, HighBit
    <3> HIDE DEF x
    <3>3. EncodedBit(x, 10) = ((m % 2)) % 2
      BY <3>1, <3>2 DEF EncodedBit, FromRow, InRowSet
    <3>4. QED
      BY <3>3 DEF x
  <2>3. (21522 \div 2^10) % 2 = 1
    BY Powers
  <2>4. LowBit(l) \in {0, 1} /\ HighBit(l) \in {0, 1}
    BY DEF LowBit, HighBit
  <2>5. QED
    <3> DEFINE A == Bits(formatInfo[l + 1][m + 1], 15)
               B == Bits(21522, 15)
    <3>1. 10 \in A <=> (formatInfo[l + 1][m + 1] \div 2^10) % 2 = 1
      BY DEF Bits
    <3>2. 10 \in B <=> (21522 \div 2^10) % 2 = 1
      BY DEF Bits
    <3> HIDE DEF A, B
    <3>3. 10 \in Diff(A, B) <=> EncodedBit(FormatData(l, m), 10) = 1
      BY <2>1, <2>2, <2>3, <2>4, <3>1, <3>2 DEF Diff
    <3>4. QED
      BY <3>3 DEF FormatBit, A, B
<1>11. ASSUME NEW l \in 0 .. 3, NEW m \in 0 .. 7
      PROVE  FormatBit(l, m, 11)
  <2>1. (formatInfo[l + 1][m + 1] \div 2^11) % 2 = (((m \div 2) % 2) + 0) % 2
    BY Powers, SMTT(60) DEF formatInfo, LowBit, HighBit
  <2>2. EncodedBit(FormatData(l, m), 11) = (((m \div 2) % 2)) % 2
    <3> DEFINE x == FormatData(l, m)
    <3>1. /\ DataBit(x, 0) = m % 2 /\ DataBit(x, 1) = (m \div 2) % 2 /\ DataBit(x, 2) = (m \div 4) % 2
          /\ DataBit(x, 3) = LowBit(l) /\ DataBit(x, 4) = HighBit(l)
      BY FormatDataBits
    <3>2. LowBit(l) \in {0, 1} /\ HighBit(l) \in {0, 1}
      BY DEF LowBit, HighBit
    <3> HIDE DEF x
    <3>3. EncodedBit(x, 11) = (((m \div 2) % 2)) % 2
      BY <3>1, <3>2 DEF EncodedBit, FromRow, InRowSet
    <3>4. QED
      BY <3>3 DEF x
  <2>3. (21522 \div 2^11) % 2 = 0
    BY Powers
  <2>4. LowBit(l) \in {0, 1} /\ HighBit(l) \in {0, 1}
    BY DEF LowBit, HighBit
  <2>5. QED
    <3> DEFINE A == Bits(formatInfo[l + 1][m + 1], 15)
               B == Bits(21522, 15)
    <3>1. 11 \in A <=> (formatInfo[l + 1][m + 1] \div 2^11) % 2 = 1
      BY DEF Bits
    <3>2. 11 \in B <=> (21522 \div 2^11) % 2 = 1
      BY DEF Bits
    <3> HIDE DEF A, B
    <3>3. 11 \in Diff(A, B) <=> EncodedBit(FormatData(l, m), 11) = 1
      BY <2>1, <2>2, <2>3, <2>4, <3>1, <3>2 DEF Diff
    <3>4. QED
      BY <3>3 DEF FormatBit, A, B
<1>12. ASSUME NEW l \in 0 .. 3, NEW m \in 0 .. 7
      PROVE  FormatBit(l, m, 12)
  <2>1. (formatInfo[l + 1][m + 1] \div 2^12) % 2 = (((m \div 4) % 2) + 1) % 2
    BY Powers, SMTT(60) DEF formatInfo, LowBit, HighBit
  <2>2. EncodedBit(FormatData(l, m), 12) = (((m \div 4) % 2)) % 2
    <3> DEFINE x == FormatData(l, m)
    <3>1. /\ DataBit(x, 0) = m % 2 /\ DataBit(x, 1) = (m \div 2) % 2 /\ DataBit(x, 2) = (m \div 4) % 2
          /\ DataBit(x, 3) = LowBit(l) /\ DataBit(x, 4) = HighBit(l)
      BY FormatDataBits
    <3>2. LowBit(l) \in {0, 1} /\ HighBit(l) \in {0, 1}
      BY DEF LowBit, HighBit
    <3> HIDE DEF x
    <3>3. EncodedBit(x, 12) = (((m \div 4) % 2)) % 2
      BY <3>1, <3>2 DEF EncodedBit, FromRow, InRowSet
    <3>4. QED
      BY <3>3 DEF x
  <2>3. (21522 \div 2^12) % 2 = 1
    BY Powers
  <2>4. LowBit(l) \in {0, 1} /\ HighBit(l) \in {0, 1}
    BY DEF LowBit, HighBit
  <2>5. QED
    <3> DEFINE A == Bits(formatInfo[l + 1][m + 1], 15)
               B == Bits(21522, 15)
    <3>1. 12 \in A <=> (formatInfo[l + 1][m + 1] \div 2^12) % 2 = 1
      BY DEF Bits
    <3>2. 12 \in B <=> (21522 \div 2^12) % 2 = 1
      BY DEF Bits
    <3> HIDE DEF A, B
    <3>3. 12 \in Diff(A, B) <=> EncodedBit(FormatData(l, m), 12) = 1
      BY <2>1, <2>2, <2>3, <2>4, <3>1, <3>2 DEF Diff
    <3>4. QED
      BY <3>3 DEF FormatBit, A, B
<1>13. ASSUME NEW l \in 0 .. 3, NEW m \in 0 .. 7
      PROVE  FormatBit(l, m, 13)
  <2>1. (formatInfo[l + 1][m + 1] \div 2^13) % 2 = (LowBit(l) + 0) % 2
    BY Powers, SMTT(60) DEF formatInfo, LowBit, HighBit
  <2>2. EncodedBit(FormatData(l, m), 13) = (LowBit(l)) % 2
    <3> DEFINE x == FormatData(l, m)
    <3>1. /\ DataBit(x, 0) = m % 2 /\ DataBit(x, 1) = (m \div 2) % 2 /\ DataBit(x, 2) = (m \div 4) % 2
          /\ DataBit(x, 3) = LowBit(l) /\ DataBit(x, 4) = HighBit(l)
      BY FormatDataBits
    <3>2. LowBit(l) \in {0, 1} /\ HighBit(l) \in {0, 1}
      BY DEF LowBit, HighBit
    <3> HIDE DEF x
    <3>3. EncodedBit(x, 13) = (LowBit(l)) % 2
      BY <3>1, <3>2 DEF EncodedBit, FromRow, InRowSet
    <3>4. QED
      BY <3>3 DEF x
  <2>3. (21522 \div 2^13) % 2 = 0
    BY Powers
  <2>4. LowBit(l) \in {0, 1} /\ HighBit(l) \in {0, 1}
    BY DEF LowBit, HighBit
  <2>5. QED
    <3> DEFINE A == Bits(formatInfo[l + 1][m + 1], 15)
               B == Bits(21522, 15)
    <3>1. 13 \in A <=> (formatInfo[l + 1][m + 1] \div 2^13) % 2 = 1
      BY DEF Bits
    <3>2. 13 \in B <=> (21522 \div 2^13) % 2 = 1
      BY DEF Bits
    <3> HIDE DEF A, B
    <3>3. 13 \in Diff(A, B) <=> EncodedBit(FormatData(l, m), 13) = 1
      BY <2>1, <2>2, <2>3, <2>4, <3>1, <3>2 DEF Diff
    <3>4. QED
      BY <3>3 DEF FormatBit, A, B
<1>14. ASSUME NEW l \in 0 .. 3, NEW m \in 0 .. 7
      PROVE  FormatBit(l, m, 14)
  <2>1. (formatInfo[l + 1][m + 1] \div 2^14) % 2 = (HighBit(l) + 1) % 2
    BY Powers, SMTT(60) DEF formatInfo, LowBit, HighBit
  <2>2. EncodedBit(FormatData(l, m), 14) = (HighBit(l)) % 2
    <3> DEFINE x == FormatData(l, m)
    <3>1. /\ DataBit(x, 0) = m % 2 /\ DataBit(x, 1) = (m \div 2) % 2 /\ DataBit(x, 2) = (m \div 4) % 2
          /\ DataBit(x, 3) = LowBit(l) /\ DataBit(x, 4) = HighBit(l)
      BY FormatDataBits
    <3>2. LowBit(l) \in {0, 1} /\ HighBit(l) \in {0, 1}
      BY DEF LowBit, HighBit
    <3> HIDE DEF x
    <3>3. EncodedBit(x, 14) = (HighBit(l)) % 2
      BY <3>1, <3>2 DEF EncodedBit, FromRow, InRowSet
    <3>4. QED
      BY <3>3 DEF x
  <2>3. (21522 \div 2^14) % 2 = 1
    BY Powers
  <2>4. LowBit(l) \in {0, 1} /\ HighBit(l) \in {0, 1}
    BY DEF LowBit, HighBit
  <2>5. QED
    <3> DEFINE A == Bits(formatInfo[l + 1][m + 1], 15)
               B == Bits(21522, 15)
    <3>1. 14 \in A <=> (formatInfo[l + 1][m + 1] \div 2^14) % 2 = 1
      BY DEF Bits
    <3>2. 14 \in B <=> (21522 \div 2^14) % 2 = 1
      BY DEF Bits
    <3> HIDE DEF A, B
    <3>3. 14 \in Diff(A, B) <=> EncodedBit(FormatData(l, m), 14) = 1
      BY <2>1, <2>2, <2>3, <2>4, <3>1, <3>2 DEF Diff
    <3>4. QED
      BY <3>3 DEF FormatBit, A, B
<1>15. QED
  BY <1>0, <1>1, <1>2, <1>3, <1>4, <1>5, <1>6, <1>7, <1>8, <1>9, <1>10, <1>11, <1>12, <1>13, <1>14

\* The table has the words of bch15_5_encode, with the mask 21522 on them.
LEMMA FormatWord ==
  ASSUME NEW l \in 0 .. 3, NEW m \in 0 .. 7
  PROVE  Diff(Bits(formatInfo[l + 1][m + 1], 15), Bits(21522, 15)) = bch15_5_encode(FormatData(l, m))
<1> DEFINE A == Bits(formatInfo[l + 1][m + 1], 15)
           B == Bits(21522, 15)
           x == FormatData(l, m)
           C == bch15_5_encode(x)
<1>1. x \in 0 .. 31
  BY FormatDataBits
<1> HIDE DEF x
<1>2. C \in SUBSET (0 .. 14) /\ \A i \in 0 .. 14 : i \in C <=> EncodedBit(x, i) = 1
  BY <1>1, InEncoded
<1>3. A \in SUBSET (0 .. 14) /\ B \in SUBSET (0 .. 14)
  BY DEF Bits
<1>4. \A i \in 0 .. 14 : i \in Diff(A, B) <=> EncodedBit(x, i) = 1
  BY FormatBits DEF FormatBit, x
<1>6. Diff(A, B) \in SUBSET (0 .. 14)
  BY <1>3 DEF Diff
<1> HIDE DEF A, B, C
<1>7. Diff(A, B) = C
  BY <1>2, <1>4, <1>6
<1>8. QED
  BY <1>7 DEF A, B, C, x

\* What one wrong bit adds to the syndromes.
LEMMA PowersOf ==
  ASSUME NEW i \in 0 .. 14
  PROVE  LET a == Exp4(i)
         IN /\ a \in F /\ a # 0
            /\ Exp4(1 * i) = a
            /\ Exp4(2 * i) = Sq(a)
            /\ Exp4(3 * i) = Cu(a)
            /\ Exp4(5 * i) = Cu(a) \odot Sq(a)
<1> DEFINE a == Exp4(i)
<1>1. a \in F /\ a # 0
  BY Powers4 DEF F
<1>2. i \in Nat /\ 2 * i \in Nat /\ 3 * i \in Nat
  OBVIOUS
<1>3. i + i = 2 * i /\ 2 * i + i = 3 * i /\ 3 * i + 2 * i = 5 * i /\ 1 * i = i
  OBVIOUS
<1>4. Exp4(2 * i) = Sq(a)
  BY <1>2, <1>3, ProductOfPowers DEF Sq
<1>5. Exp4(3 * i) = Cu(a)
  <2>1. Exp4(2 * i) \odot Exp4(i) = Exp4(3 * i)
    BY <1>2, <1>3, ProductOfPowers
  <2>2. QED
    BY <1>4, <2>1 DEF Cu, Sq
<1>6. Exp4(5 * i) = Cu(a) \odot Sq(a)
  <2>1. Exp4(3 * i) \odot Exp4(2 * i) = Exp4(5 * i)
    BY <1>2, <1>3, ProductOfPowers
  <2>2. QED
    BY <1>4, <1>5, <2>1
<1>7. QED
  BY <1>1, <1>3, <1>4, <1>5, <1>6

\* What bch15_5_calc_omega finds, with sums and products for its operations.
LEMMA OmegaIs ==
  ASSUME NEW s1, NEW p3, NEW p5
  PROVE  LET dd == p3 \oplus (s1 \odot Sq(s1))
             tt == p5 \oplus (Sq(s1) \odot p3)
             o1 == IF dd # 0 THEN Div4(tt, dd) ELSE 0
         IN  bch15_5_calc_omega(<<s1, p3, p5>>) = <<s1, o1, dd \oplus (s1 \odot o1)>>
BY DEF bch15_5_calc_omega, \oplus, \odot, Sq

-----------------------------------------------------------------------------
(* Up to three wrong bits of a word are corrected, bch15_5_correct.       *)

\* The syndromes of errors at powers a, b and c.
Syndromes(a, b, c) ==
  <<Over3(a, b, c), Over3(Cu(a), Cu(b), Cu(c)),
    Over3(Cu(a) \odot Sq(a), Cu(b) \odot Sq(b), Cu(c) \odot Sq(c))>>

\* The locator of three errors, or of two and none, has the errors for roots.
LEMMA OmegaOfThree ==
  ASSUME NEW a \in F, NEW b \in F, NEW c \in F, a # b, b # c, a # c
  PROVE  /\ bch15_5_calc_omega(Syndromes(a, b, c)) = <<S1(a, b, c), S2(a, b, c), S3(a, b, c)>>
         /\ Syndromes(a, b, c) # <<0, 0, 0>>
<1> DEFINE s1 == S1(a, b, c)
           s2 == S2(a, b, c)
           s3 == S3(a, b, c)
           p3 == Over3(Cu(a), Cu(b), Cu(c))
           p5 == Over3(Cu(a) \odot Sq(a), Cu(b) \odot Sq(b), Cu(c) \odot Sq(c))
           dd == p3 \oplus (s1 \odot Sq(s1))
           tt == p5 \oplus (Sq(s1) \odot p3)
<1>1. /\ s1 = Over3(a, b, c)
      /\ tt = s2 \odot dd
      /\ dd \oplus (s1 \odot s2) = s3
      /\ dd # 0
  BY Newton
<1>2. s1 \in F /\ s2 \in F /\ p3 \in F
  <2>1. Cu(a) \in F /\ Cu(b) \in F /\ Cu(c) \in F
    BY ProductRules DEF Cu
  <2>2. QED
    BY <2>1, Vieta, SumRules DEF Over3
<1>3. dd \in F
  BY <1>2, SumRules, ProductRules DEF Sq
<1>4. Syndromes(a, b, c) = <<s1, p3, p5>>
  BY <1>1 DEF Syndromes
<1> HIDE DEF s1, s2, s3, p3, p5
<1>5. Div4(tt, dd) = s2
  <2> HIDE DEF dd, tt
  <2>1. QED
    BY <1>1, <1>2, <1>3, Quotients
<1>6. bch15_5_calc_omega(<<s1, p3, p5>>) = <<s1, s2, s3>>
  BY <1>1, <1>5, OmegaIs
<1>7. <<s1, p3, p5>> # <<0, 0, 0>>
  <2>1. 0 \in F
    BY DEF F
  <2>2. 0 \oplus (0 \odot Sq(0)) = 0
    BY <2>1, SumRules, ProductRules DEF Sq
  <2>3. s1 # 0 \/ p3 # 0
    BY <1>1, <2>2
  <2>4. QED
    BY <2>3
<1>8. QED
  BY <1>4, <1>6, <1>7 DEF s1, s2, s3

\* The locator of one error.
LEMMA OmegaOfOne ==
  ASSUME NEW a \in F, a # 0
  PROVE  /\ bch15_5_calc_omega(Syndromes(a, 0, 0)) = <<a, 0, 0>>
         /\ Syndromes(a, 0, 0) # <<0, 0, 0>>
<1> DEFINE q == Cu(a) \odot Sq(a)
<1>0. 0 \in F
  BY DEF F
<1>1. Sq(a) \in F /\ Cu(a) \in F /\ q \in F /\ Sq(0) = 0 /\ Cu(0) = 0 /\ Cu(0) \odot Sq(0) = 0
  BY <1>0, ProductRules DEF Sq, Cu
<1>2. \A x \in F : Over3(x, 0, 0) = x
  BY SumRules DEF Over3, F
<1>3. Syndromes(a, 0, 0) = <<a, Cu(a), q>>
  BY <1>1, <1>2 DEF Syndromes
<1>4. a \odot Sq(a) = Cu(a)
  BY ProductRules DEF Sq, Cu
<1>5. Cu(a) \oplus (a \odot Sq(a)) = 0
  BY <1>1, <1>4, SumRules
<1>6. 0 \oplus (a \odot 0) = 0
  BY <1>0, SumRules, ProductRules
<1> HIDE DEF q
<1>7. bch15_5_calc_omega(<<a, Cu(a), q>>) = <<a, 0, 0>>
  BY <1>5, <1>6, OmegaIs
<1>8. QED
  BY <1>3, <1>7

\* The roots of the error locator are the places of the errors.
LEMMA Roots ==
  ASSUME NEW a \in F, NEW b \in F, NEW c \in F, NEW i \in 0 .. 14
  PROVE  Xor(Xor(Exp4(3 * i), Mul4(S1(a, b, c), Exp4(2 * i))),
             Xor(Mul4(S2(a, b, c), Exp4(i)), S3(a, b, c))) = 0
           <=> Exp4(i) \in {a, b, c}
<1> DEFINE x == Exp4(i)
           v == (Cu(x) \oplus (S1(a, b, c) \odot Sq(x))) \oplus ((S2(a, b, c) \odot x) \oplus S3(a, b, c))
<1>1. x \in F /\ Exp4(2 * i) = Sq(x) /\ Exp4(3 * i) = Cu(x)
  BY PowersOf
<1>2. Xor(Xor(Exp4(3 * i), Mul4(S1(a, b, c), Exp4(2 * i))), Xor(Mul4(S2(a, b, c), Exp4(i)), S3(a, b, c))) = v
  BY <1>1 DEF \oplus, \odot
<1> HIDE DEF x, v
<1>3. v = ((x \oplus a) \odot (x \oplus b)) \odot (x \oplus c)
  BY <1>1, Vieta DEF v
<1>4. x \oplus a \in F /\ x \oplus b \in F /\ x \oplus c \in F /\ (x \oplus a) \odot (x \oplus b) \in F
  BY <1>1, SumRules, ProductRules
<1>5. v = 0 <=> (x \oplus a = 0 \/ x \oplus b = 0 \/ x \oplus c = 0)
  <2> DEFINE z == (x \oplus a) \odot (x \oplus b)
  <2>1. z = 0 <=> x \oplus a = 0 \/ x \oplus b = 0
    BY <1>4, ProductRules
  <2>2. z \in F /\ v = z \odot (x \oplus c)
    BY <1>3, <1>4
  <2> HIDE DEF z
  <2>3. v = 0 <=> z = 0 \/ x \oplus c = 0
    BY <1>4, <2>2, ProductRules
  <2>4. QED
    BY <2>1, <2>3
<1>6. v = 0 <=> (x = a \/ x = b \/ x = c)
  BY <1>1, <1>5, Sums
<1>7. QED
  BY <1>2, <1>6 DEF x

\* bch15_5_calc_epos finds the places of two and of three errors.
LEMMA PlacesOfErrors ==
  ASSUME NEW a \in F, NEW b \in F, NEW c \in F, NEW E \in SUBSET (0 .. 14), a # 0, b # 0,
         \A i \in 0 .. 14 : Exp4(i) \in {a, b, c} <=> i \in E,
         Cardinality(E) = 3 \/ (Cardinality(E) = 2 /\ c = 0)
  PROVE  bch15_5_calc_epos(<<S1(a, b, c), S2(a, b, c), S3(a, b, c)>>) = E
<1> DEFINE o == <<S1(a, b, c), S2(a, b, c), S3(a, b, c)>>
           value(i) == Xor(Xor(Exp4(3 * i), Mul4(o[1], Exp4(2 * i))), Xor(Mul4(o[2], Exp4(i)), o[3]))
           roots == {i \in 0 .. 14 : value(i) = 0}
           d     == IF o[3] # 0 THEN 3 ELSE IF o[2] # 0 THEN 2 ELSE IF o[1] # 0 THEN 1 ELSE 0
<1>1. roots = E
  <2>1. o[1] = S1(a, b, c) /\ o[2] = S2(a, b, c) /\ o[3] = S3(a, b, c)
    OBVIOUS
  <2>2. \A i \in 0 .. 14 : value(i) = 0 <=> i \in E
    BY <2>1, Roots
  <2> HIDE DEF value
  <2>3. QED
    BY <2>2
<1>2. c = 0 => S3(a, b, c) = 0 /\ S2(a, b, c) # 0
  <2>1. a \odot b \in F /\ a \odot b # 0 /\ a \oplus b \in F
    BY SumRules, ProductRules
  <2>2. (a \odot b) \odot 0 = 0 /\ (a \odot b) \oplus ((a \oplus b) \odot 0) = a \odot b
    BY <2>1, SumRules, ProductRules
  <2>3. QED
    BY <2>1, <2>2 DEF S2, S3
<1>3. c # 0 => S3(a, b, c) # 0
  <2>1. a \odot b \in F /\ a \odot b # 0
    BY ProductRules
  <2>2. QED
    BY <2>1, ProductRules DEF S3
<1>4. d \in {2, 3} /\ ~ (Cardinality(E) < d)
  BY <1>2, <1>3
<1>5. bch15_5_calc_epos(o) =
        CASE d = 0 -> {}
          [] d = 1 -> {Log4(o[1])}
          [] OTHER -> IF Cardinality(roots) < d THEN {} ELSE roots
  BY DEF bch15_5_calc_epos
<1> HIDE DEF o, d, roots
<1>6. bch15_5_calc_epos(o) = E
  BY <1>1, <1>4, <1>5
<1>7. QED
  BY <1>6 DEF o

\* E are errors at the powers a, b and c, of which some may be 0.
ErrorsAt(E, a, b, c) ==
  /\ a \in F /\ b \in F /\ c \in F
  /\ HasSyndrome(E, 1, Over3(a, b, c))
  /\ HasSyndrome(E, 3, Over3(Cu(a), Cu(b), Cu(c)))
  /\ HasSyndrome(E, 5, Over3(Cu(a) \odot Sq(a), Cu(b) \odot Sq(b), Cu(c) \odot Sq(c)))

\* The rules for an error that is none.
LEMMA PowerRules ==
  /\ 0 \in F /\ Sq(0) = 0 /\ Cu(0) = 0 /\ Cu(0) \odot Sq(0) = 0
  /\ \A a \in F : Sq(a) \in F /\ Cu(a) \in F /\ Cu(a) \odot Sq(a) \in F
  /\ \A a, b \in F : Over3(a, 0, 0) = a /\ Over3(a, b, 0) = a \oplus b
<1>1. 0 \in F
  BY DEF F
<1>2. Sq(0) = 0 /\ Cu(0) = 0 /\ Cu(0) \odot Sq(0) = 0
  BY <1>1, ProductRules DEF Sq, Cu
<1>3. \A a \in F : Sq(a) \in F /\ Cu(a) \in F /\ Cu(a) \odot Sq(a) \in F
  BY ProductRules DEF Sq, Cu
<1>4. \A a, b \in F : Over3(a, 0, 0) = a /\ Over3(a, b, 0) = a \oplus b
  BY <1>1, SumRules DEF Over3
<1>5. QED
  BY <1>1, <1>2, <1>3, <1>4

\* One, two and three errors have these syndromes.
LEMMA OneError ==
  ASSUME NEW i \in 0 .. 14
  PROVE  ErrorsAt({i}, Exp4(i), 0, 0)
<1> DEFINE a == Exp4(i)
<1>1. a \in F /\ Exp4(1 * i) = a /\ Exp4(3 * i) = Cu(a) /\ Exp4(5 * i) = Cu(a) \odot Sq(a)
  BY PowersOf
<1>2. HasSyndrome({i}, 1, Exp4(1 * i)) /\ HasSyndrome({i}, 3, Exp4(3 * i)) /\ HasSyndrome({i}, 5, Exp4(5 * i))
  BY OneSyndrome
<1> HIDE DEF a
<1>3. ErrorsAt({i}, a, 0, 0)
  BY <1>1, <1>2, PowerRules DEF ErrorsAt
<1>4. QED
  BY <1>3 DEF a

LEMMA TwoErrors ==
  ASSUME NEW i \in 0 .. 14, NEW j \in 0 .. 14, i # j
  PROVE  ErrorsAt({i, j}, Exp4(i), Exp4(j), 0)
<1> DEFINE a == Exp4(i)
           b == Exp4(j)
<1>1. ErrorsAt({i}, a, 0, 0) /\ ErrorsAt({j}, b, 0, 0)
  BY OneError
<1> HIDE DEF a, b
<1>2. {i, j} = Diff({i}, {j})
  BY DEF Diff
<1>3. a \in F /\ b \in F
  BY <1>1 DEF ErrorsAt
<1>4. /\ HasSyndrome({i}, 1, a) /\ HasSyndrome({i}, 3, Cu(a)) /\ HasSyndrome({i}, 5, Cu(a) \odot Sq(a))
      /\ HasSyndrome({j}, 1, b) /\ HasSyndrome({j}, 3, Cu(b)) /\ HasSyndrome({j}, 5, Cu(b) \odot Sq(b))
  BY <1>1, <1>3, PowerRules DEF ErrorsAt
<1>5. /\ HasSyndrome({i, j}, 1, a \oplus b)
      /\ HasSyndrome({i, j}, 3, Cu(a) \oplus Cu(b))
      /\ HasSyndrome({i, j}, 5, (Cu(a) \odot Sq(a)) \oplus (Cu(b) \odot Sq(b)))
  BY <1>2, <1>4, SyndromeOfDiff
<1>6. ErrorsAt({i, j}, a, b, 0)
  BY <1>3, <1>5, PowerRules DEF ErrorsAt
<1>7. QED
  BY <1>6 DEF a, b

LEMMA ThreeErrors ==
  ASSUME NEW i \in 0 .. 14, NEW j \in 0 .. 14, NEW k \in 0 .. 14, i # j, i # k, j # k
  PROVE  ErrorsAt({i, j, k}, Exp4(i), Exp4(j), Exp4(k))
<1> DEFINE a == Exp4(i)
           b == Exp4(j)
           c == Exp4(k)
<1>1. ErrorsAt({i, j}, a, b, 0) /\ ErrorsAt({k}, c, 0, 0)
  BY OneError, TwoErrors
<1> HIDE DEF a, b, c
<1>2. {i, j, k} = Diff({i, j}, {k})
  BY DEF Diff
<1>3. a \in F /\ b \in F /\ c \in F
  BY <1>1 DEF ErrorsAt
<1>4. /\ HasSyndrome({i, j}, 1, a \oplus b)
      /\ HasSyndrome({i, j}, 3, Cu(a) \oplus Cu(b))
      /\ HasSyndrome({i, j}, 5, (Cu(a) \odot Sq(a)) \oplus (Cu(b) \odot Sq(b)))
      /\ HasSyndrome({k}, 1, c) /\ HasSyndrome({k}, 3, Cu(c)) /\ HasSyndrome({k}, 5, Cu(c) \odot Sq(c))
  BY <1>1, <1>3, PowerRules DEF ErrorsAt
<1>5. /\ HasSyndrome({i, j, k}, 1, Over3(a, b, c))
      /\ HasSyndrome({i, j, k}, 3, Over3(Cu(a), Cu(b), Cu(c)))
      /\ HasSyndrome({i, j, k}, 5, Over3(Cu(a) \odot Sq(a), Cu(b) \odot Sq(b), Cu(c) \odot Sq(c)))
  BY <1>2, <1>4, SyndromeOfDiff DEF Over3
<1>6. ErrorsAt({i, j, k}, a, b, c)
  BY <1>3, <1>5 DEF ErrorsAt
<1>7. QED
  BY <1>6 DEF a, b, c

\* A damaged word has the syndromes of its errors.
LEMMA SyndromesAfter ==
  ASSUME NEW x, NEW E, NEW a, NEW b, NEW c, ErrorsAt(E, a, b, c)
  PROVE  bch15_5_calc_syndrome(Diff(bch15_5_encode(x), E)) = Syndromes(a, b, c)
<1> DEFINE w == bch15_5_encode(x)
           p1 == Over3(a, b, c)
           p3 == Over3(Cu(a), Cu(b), Cu(c))
           p5 == Over3(Cu(a) \odot Sq(a), Cu(b) \odot Sq(b), Cu(c) \odot Sq(c))
<1>1. HasSyndrome(w, 1, 0) /\ HasSyndrome(w, 3, 0) /\ HasSyndrome(w, 5, 0)
  BY EncodedSyndromes
<1>2. HasSyndrome(E, 1, p1) /\ HasSyndrome(E, 3, p3) /\ HasSyndrome(E, 5, p5)
  BY DEF ErrorsAt
<1>3. p1 \in F /\ p3 \in F /\ p5 \in F
  <2>1. a \in F /\ b \in F /\ c \in F
    BY DEF ErrorsAt
  <2>2. /\ Cu(a) \in F /\ Cu(b) \in F /\ Cu(c) \in F
        /\ Cu(a) \odot Sq(a) \in F /\ Cu(b) \odot Sq(b) \in F /\ Cu(c) \odot Sq(c) \in F
    BY <2>1, PowerRules
  <2>3. \A u, v, t \in F : Over3(u, v, t) \in F
    BY SumRules DEF Over3
  <2>4. QED
    BY <2>1, <2>2, <2>3
<1>4. Syndromes(a, b, c) = <<p1, p3, p5>>
  BY DEF Syndromes
<1> HIDE DEF w, p1, p3, p5
<1>5. HasSyndrome(Diff(w, E), 1, p1) /\ HasSyndrome(Diff(w, E), 3, p3) /\ HasSyndrome(Diff(w, E), 5, p5)
  <2>1. 0 \oplus p1 = p1 /\ 0 \oplus p3 = p3 /\ 0 \oplus p5 = p5
    BY <1>3, SumRules
  <2>2. /\ HasSyndrome(Diff(w, E), 1, 0 \oplus p1)
        /\ HasSyndrome(Diff(w, E), 3, 0 \oplus p3)
        /\ HasSyndrome(Diff(w, E), 5, 0 \oplus p5)
    BY <1>1, <1>2, SyndromeOfDiff
  <2>3. QED
    BY <2>1, <2>2
<1>6. bch15_5_calc_syndrome(Diff(w, E)) = <<p1, p3, p5>>
  BY <1>5, SyndromeIs
<1>7. QED
  BY <1>4, <1>6 DEF w

\* The errors taken out of the damaged word leave the word.
LEMMA DiffTwice == \A A, B : Diff(Diff(A, B), B) = A
BY DEF Diff

\* If the errors are found, they are corrected.
LEMMA CorrectsErrors ==
  ASSUME NEW x \in 0 .. 31, NEW E, NEW a, NEW b, NEW c, ErrorsAt(E, a, b, c), E # {},
         Syndromes(a, b, c) # <<0, 0, 0>>,
         bch15_5_calc_epos(bch15_5_calc_omega(Syndromes(a, b, c))) = E
  PROVE  bch15_5_correct(Diff(bch15_5_encode(x), E)) = [word |-> bch15_5_encode(x), errors |-> Cardinality(E)]
<1> DEFINE w == bch15_5_encode(x)
           y == Diff(w, E)
<1>1. bch15_5_calc_syndrome(y) = Syndromes(a, b, c)
  BY SyndromesAfter
<1>2. Diff(y, E) = w
  BY DiffTwice
<1>3. bch15_5_encode(Data5(w)) = w
  BY DataOfEncoded
<1> HIDE DEF w, y
<1> DEFINE s == bch15_5_calc_syndrome(y)
           epos == bch15_5_calc_epos(bch15_5_calc_omega(s))
           z == Diff(y, epos)
<1>4. epos = E /\ z = w /\ s # <<0, 0, 0>>
  BY <1>1, <1>2
<1>5. bch15_5_correct(y) =
        CASE s = <<0, 0, 0>> -> [word |-> y, errors |-> 0]
          [] s # <<0, 0, 0>> /\ epos # {} /\ bch15_5_encode(Data5(z)) = z ->
               [word |-> z, errors |-> Cardinality(epos)]
          [] OTHER -> [word |-> y, errors |-> -1]
  BY DEF bch15_5_correct
<1> HIDE DEF s, epos, z
<1>6. bch15_5_correct(y) = [word |-> w, errors |-> Cardinality(E)]
  BY <1>3, <1>4, <1>5
<1>7. QED
  BY <1>6 DEF w, y

\* A word that is right stays as it is.
LEMMA NoErrors ==
  ASSUME NEW x \in 0 .. 31
  PROVE  bch15_5_correct(bch15_5_encode(x)) = [word |-> bch15_5_encode(x), errors |-> 0]
<1> DEFINE w == bch15_5_encode(x)
<1>1. HasSyndrome(w, 1, 0) /\ HasSyndrome(w, 3, 0) /\ HasSyndrome(w, 5, 0)
  BY EncodedSyndromes
<1> HIDE DEF w
<1>2. bch15_5_calc_syndrome(w) = <<0, 0, 0>>
  BY <1>1, SyndromeIs
<1>3. bch15_5_correct(w) = [word |-> w, errors |-> 0]
  BY <1>2 DEF bch15_5_correct
<1>4. QED
  BY <1>3 DEF w

\* Sets of up to three.
LEMMA UpToThree ==
  ASSUME NEW E \in SUBSET (0 .. 14), Cardinality(E) <= 3
  PROVE  \/ E = {} /\ Cardinality(E) = 0
         \/ \E i \in 0 .. 14 : E = {i} /\ Cardinality(E) = 1
         \/ \E i, j \in 0 .. 14 : E = {i, j} /\ i # j /\ Cardinality(E) = 2
         \/ \E i, j, k \in 0 .. 14 : E = {i, j, k} /\ i # j /\ i # k /\ j # k /\ Cardinality(E) = 3
<1>1. IsFiniteSet(E)
  <2>1. \A a, b \in Int : IsFiniteSet(a .. b)
    BY FS_Interval
  <2>2. 0 \in Int /\ 14 \in Int
    OBVIOUS
  <2>3. IsFiniteSet(0 .. 14)
    BY <2>1, <2>2, Zenon
  <2>4. QED
    BY <2>3, FS_Subset
<1>2. CASE E = {}
  BY <1>2, FS_EmptySet
<1>3. CASE E # {}
  <2>1. PICK i \in E : TRUE
    BY <1>3
  <2> DEFINE A == E \ {i}
  <2>2. A \in SUBSET (0 .. 14) /\ IsFiniteSet(A) /\ Cardinality(A) = Cardinality(E) - 1 /\ E = A \cup {i} /\ i \notin A
    BY <1>1, <2>1, FS_RemoveElement
  <2>3. Cardinality(E) \in Nat /\ Cardinality(A) \in Nat
    BY <1>1, <2>2, FS_CardinalityType
  <2> HIDE DEF A
  <2>4. CASE A = {}
    <3>1. Cardinality(A) = 0
      BY <2>4, FS_EmptySet
    <3>2. E = {i} /\ Cardinality(E) = 1 /\ i \in 0 .. 14
      BY <2>1, <2>2, <2>3, <2>4, <3>1
    <3>3. QED
      BY <3>2
  <2>5. CASE A # {}
    <3>1. PICK j \in A : TRUE
      BY <2>5
    <3> DEFINE B == A \ {j}
    <3>2. B \in SUBSET (0 .. 14) /\ IsFiniteSet(B) /\ Cardinality(B) = Cardinality(A) - 1 /\ A = B \cup {j} /\ j \notin B
      BY <2>2, <3>1, FS_RemoveElement
    <3>3. Cardinality(B) \in Nat
      BY <3>2, FS_CardinalityType
    <3> HIDE DEF B
    <3>4. i \in 0 .. 14 /\ j \in 0 .. 14 /\ i # j /\ E = {i, j} \cup B /\ i \notin B
      BY <2>1, <2>2, <3>1, <3>2
    <3>5. CASE B = {}
      <4>1. Cardinality(B) = 0
        BY <3>5, FS_EmptySet
      <4>2. E = {i, j} /\ Cardinality(E) = 2
        BY <2>2, <2>3, <3>2, <3>4, <3>5, <4>1
      <4>3. QED
        BY <3>4, <4>2
    <3>6. CASE B # {}
      <4>1. PICK k \in B : TRUE
        BY <3>6
      <4> DEFINE C == B \ {k}
      <4>2. IsFiniteSet(C) /\ Cardinality(C) = Cardinality(B) - 1 /\ B = C \cup {k}
        BY <3>2, <4>1, FS_RemoveElement
      <4>3. Cardinality(C) \in Nat
        BY <4>2, FS_CardinalityType
      <4> HIDE DEF C
      <4>4. Cardinality(C) = 0 /\ Cardinality(E) = 3
        BY <2>2, <2>3, <3>2, <3>3, <4>2, <4>3
      <4>5. C = {}
        BY <4>2, <4>4, FS_EmptySet
      <4>6. E = {i, j, k} /\ k \in 0 .. 14 /\ i # k /\ j # k
        BY <3>2, <3>4, <4>1, <4>2, <4>5
      <4>7. QED
        BY <3>4, <4>4, <4>6
    <3>7. QED
      BY <3>5, <3>6
  <2>6. QED
    BY <2>4, <2>5
<1>4. QED
  BY <1>2, <1>3

\* Errors at different places are different powers.
LEMMA DistinctPowers ==
  ASSUME NEW i \in 0 .. 14, NEW j \in 0 .. 14
  PROVE  Exp4(i) = Exp4(j) <=> i = j
BY Powers4

\* Up to three wrong bits of any word of the format information are corrected, and
\* counted (bch15_5_correct on the words of bch15_5_encode).
THEOREM ThreeErrorsAreCorrected ==
  ASSUME NEW x \in 0 .. 31, NEW E \in SUBSET (0 .. 14), Cardinality(E) <= 3
  PROVE  bch15_5_correct(Diff(bch15_5_encode(x), E)) = [word |-> bch15_5_encode(x), errors |-> Cardinality(E)]
<1> DEFINE Right == bch15_5_correct(Diff(bch15_5_encode(x), E)) = [word |-> bch15_5_encode(x), errors |-> Cardinality(E)]
<1>1. ASSUME E = {}, Cardinality(E) = 0
      PROVE  Right
  <2>1. Diff(bch15_5_encode(x), E) = bch15_5_encode(x)
    BY <1>1 DEF Diff
  <2>2. QED
    BY <1>1, <2>1, NoErrors
<1>2. ASSUME NEW i \in 0 .. 14, E = {i}, Cardinality(E) = 1
      PROVE  Right
  <2> DEFINE a == Exp4(i)
  <2>1. a \in F /\ a # 0 /\ Log4(a) = i
    BY PowersOf, Powers4
  <2>2. ErrorsAt(E, a, 0, 0) /\ E # {}
    BY <1>2, OneError
  <2> HIDE DEF a
  <2>3. /\ bch15_5_calc_omega(Syndromes(a, 0, 0)) = <<a, 0, 0>>
        /\ Syndromes(a, 0, 0) # <<0, 0, 0>>
    BY <2>1, OmegaOfOne
  <2>4. bch15_5_calc_epos(<<a, 0, 0>>) = {Log4(a)}
    <3> DEFINE o == <<a, 0, 0>>
               d == IF o[3] # 0 THEN 3 ELSE IF o[2] # 0 THEN 2 ELSE IF o[1] # 0 THEN 1 ELSE 0
               value(n) == Xor(Xor(Exp4(3 * n), Mul4(o[1], Exp4(2 * n))), Xor(Mul4(o[2], Exp4(n)), o[3]))
               roots == {n \in 0 .. 14 : value(n) = 0}
    <3>1. d = 1 /\ o[1] = a
      BY <2>1
    <3>2. bch15_5_calc_epos(o) =
            CASE d = 0 -> {}
              [] d = 1 -> {Log4(o[1])}
              [] OTHER -> IF Cardinality(roots) < d THEN {} ELSE roots
      BY DEF bch15_5_calc_epos
    <3> HIDE DEF o, d, roots
    <3>3. bch15_5_calc_epos(o) = {Log4(a)}
      BY <3>1, <3>2
    <3>4. QED
      BY <3>3 DEF o
  <2>5. bch15_5_calc_epos(bch15_5_calc_omega(Syndromes(a, 0, 0))) = E
    BY <1>2, <2>1, <2>3, <2>4
  <2>6. QED
    BY <2>2, <2>3, <2>5, CorrectsErrors
<1>3. ASSUME NEW i \in 0 .. 14, NEW j \in 0 .. 14, E = {i, j}, i # j, Cardinality(E) = 2
      PROVE  Right
  <2> DEFINE a == Exp4(i)
             b == Exp4(j)
  <2>1. a \in F /\ a # 0 /\ b \in F /\ b # 0 /\ a # b /\ 0 \in F
    BY <1>3, PowersOf, DistinctPowers, PowerRules
  <2>2. \A n \in 0 .. 14 : Exp4(n) \in {a, b, 0} <=> n \in E
    <3>1. \A n \in 0 .. 14 : Exp4(n) # 0 /\ (Exp4(n) = a <=> n = i) /\ (Exp4(n) = b <=> n = j)
      BY PowersOf, DistinctPowers
    <3> HIDE DEF a, b
    <3>2. QED
      BY <1>3, <3>1
  <2>3. ErrorsAt(E, a, b, 0) /\ E # {}
    BY <1>3, TwoErrors
  <2> HIDE DEF a, b
  <2>4. /\ bch15_5_calc_omega(Syndromes(a, b, 0)) = <<S1(a, b, 0), S2(a, b, 0), S3(a, b, 0)>>
        /\ Syndromes(a, b, 0) # <<0, 0, 0>>
    BY <2>1, OmegaOfThree
  <2>5. bch15_5_calc_epos(<<S1(a, b, 0), S2(a, b, 0), S3(a, b, 0)>>) = E
    BY <1>3, <2>1, <2>2, PlacesOfErrors
  <2>6. QED
    BY <2>3, <2>4, <2>5, CorrectsErrors
<1>4. ASSUME NEW i \in 0 .. 14, NEW j \in 0 .. 14, NEW k \in 0 .. 14, E = {i, j, k}, i # j, i # k, j # k,
             Cardinality(E) = 3
      PROVE  Right
  <2> DEFINE a == Exp4(i)
             b == Exp4(j)
             c == Exp4(k)
  <2>1. a \in F /\ a # 0 /\ b \in F /\ b # 0 /\ c \in F /\ a # b /\ a # c /\ b # c
    BY <1>4, PowersOf, DistinctPowers
  <2>2. \A n \in 0 .. 14 : Exp4(n) \in {a, b, c} <=> n \in E
    <3>1. \A n \in 0 .. 14 : (Exp4(n) = a <=> n = i) /\ (Exp4(n) = b <=> n = j) /\ (Exp4(n) = c <=> n = k)
      BY DistinctPowers
    <3> HIDE DEF a, b, c
    <3>2. QED
      BY <1>4, <3>1
  <2>3. ErrorsAt(E, a, b, c) /\ E # {}
    BY <1>4, ThreeErrors
  <2> HIDE DEF a, b, c
  <2>4. /\ bch15_5_calc_omega(Syndromes(a, b, c)) = <<S1(a, b, c), S2(a, b, c), S3(a, b, c)>>
        /\ Syndromes(a, b, c) # <<0, 0, 0>>
    BY <2>1, OmegaOfThree
  <2>5. bch15_5_calc_epos(<<S1(a, b, c), S2(a, b, c), S3(a, b, c)>>) = E
    BY <1>4, <2>1, <2>2, PlacesOfErrors
  <2>6. QED
    BY <2>3, <2>4, <2>5, CorrectsErrors
<1>5. \/ E = {} /\ Cardinality(E) = 0
      \/ \E i \in 0 .. 14 : E = {i} /\ Cardinality(E) = 1
      \/ \E i, j \in 0 .. 14 : E = {i, j} /\ i # j /\ Cardinality(E) = 2
      \/ \E i, j, k \in 0 .. 14 : E = {i, j, k} /\ i # j /\ i # k /\ j # k /\ Cardinality(E) = 3
  BY UpToThree
<1>6. Right
  <2> HIDE DEF Right
  <2>1. QED
    BY <1>1, <1>2, <1>3, <1>4, <1>5
<1>7. QED
  BY <1>6

\* The places that are found are a finite set.
LEMMA ErrorCount ==
  ASSUME NEW y
  PROVE  bch15_5_correct(y).errors \in Nat \cup {-1}
<1>1. \A o : IsFiniteSet(bch15_5_calc_epos(o))
  <2>1. SUFFICES ASSUME NEW o
                 PROVE  IsFiniteSet(bch15_5_calc_epos(o))
    OBVIOUS
  <2> DEFINE d == IF o[3] # 0 THEN 3 ELSE IF o[2] # 0 THEN 2 ELSE IF o[1] # 0 THEN 1 ELSE 0
             value(n) == Xor(Xor(Exp4(3 * n), Mul4(o[1], Exp4(2 * n))), Xor(Mul4(o[2], Exp4(n)), o[3]))
             roots == {n \in 0 .. 14 : value(n) = 0}
  <2>2. IsFiniteSet(roots)
    <3>1. \A a, b \in Int : IsFiniteSet(a .. b)
      BY FS_Interval
    <3>2. 0 \in Int /\ 14 \in Int
      OBVIOUS
    <3>3. IsFiniteSet(0 .. 14)
      BY <3>1, <3>2, Zenon
    <3>4. roots \subseteq 0 .. 14
      OBVIOUS
    <3> HIDE DEF roots
    <3>5. QED
      BY <3>3, <3>4, FS_Subset
  <2>3. bch15_5_calc_epos(o) =
          CASE d = 0 -> {}
            [] d = 1 -> {Log4(o[1])}
            [] OTHER -> IF Cardinality(roots) < d THEN {} ELSE roots
    BY DEF bch15_5_calc_epos
  <2> HIDE DEF d, roots
  <2>4. bch15_5_calc_epos(o) \in {{}, {Log4(o[1])}, roots}
    BY <2>3
  <2>5. IsFiniteSet({}) /\ IsFiniteSet({Log4(o[1])})
    BY FS_EmptySet, FS_Singleton
  <2>6. QED
    BY <2>2, <2>4, <2>5, Zenon
<1> DEFINE s == bch15_5_calc_syndrome(y)
           epos == bch15_5_calc_epos(bch15_5_calc_omega(s))
           z == Diff(y, epos)
<1>2. Cardinality(epos) \in Nat
  BY <1>1, FS_CardinalityType
<1>3. bch15_5_correct(y) =
        CASE s = <<0, 0, 0>> -> [word |-> y, errors |-> 0]
          [] s # <<0, 0, 0>> /\ epos # {} /\ bch15_5_encode(Data5(z)) = z ->
               [word |-> z, errors |-> Cardinality(epos)]
          [] OTHER -> [word |-> y, errors |-> -1]
  BY DEF bch15_5_correct
<1> HIDE DEF s, epos, z
<1>4. QED
  BY <1>2, <1>3

\* So the errors of an attempt are counted, or are 4 for a failure.
LEMMA AttemptErrors ==
  ASSUME NEW y
  PROVE  Attempt(y).nerrs \in Nat
<1> DEFINE r == bch15_5_correct(Diff(y, Bits(21522, 15)))
<1>1. r.errors \in Nat \cup {-1}
  BY ErrorCount
<1>2. Attempt(y) = [fmt_info |-> Data5(r.word), nerrs |-> IF r.errors < 0 THEN 4 ELSE r.errors]
  BY DEF Attempt
<1> HIDE DEF r
<1>3. QED
  BY <1>1, <1>2

\* The word that is drawn.
FormatOf(l, m) == Bits(formatInfo[l + 1][m + 1], 15)

\* With up to three bits wrong, the attempt is right.
LEMMA RightAttempt ==
  ASSUME NEW l \in 0 .. 3, NEW m \in 0 .. 7, NEW E \in SUBSET (0 .. 14), Cardinality(E) <= 3
  PROVE  LET y == Diff(FormatOf(l, m), E)
         IN  /\ Attempt(y).fmt_info = FormatData(l, m)
             /\ Attempt(y).nerrs <= 3
<1> DEFINE W == FormatOf(l, m)
           B == Bits(21522, 15)
           y == Diff(W, E)
           x == FormatData(l, m)
           w == bch15_5_encode(x)
           r == bch15_5_correct(Diff(y, B))
<1>1. Diff(W, B) = w /\ x \in 0 .. 31
  BY FormatWord, FormatDataBits DEF FormatOf
<1>3. Diff(y, B) = Diff(Diff(W, B), E)
  BY DEF Diff
<1>4. Attempt(y) = [fmt_info |-> Data5(r.word), nerrs |-> IF r.errors < 0 THEN 4 ELSE r.errors]
  BY DEF Attempt
<1>5. Cardinality(E) \in Nat
  <2>1. \A a, b \in Int : IsFiniteSet(a .. b)
    BY FS_Interval
  <2>2. 0 \in Int /\ 14 \in Int
    OBVIOUS
  <2>3. IsFiniteSet(0 .. 14)
    BY <2>1, <2>2, Zenon
  <2>4. QED
    BY <2>3, FS_Subset, FS_CardinalityType
<1> HIDE DEF W, B, y, x
<1>6. bch15_5_correct(Diff(w, E)) = [word |-> w, errors |-> Cardinality(E)]
  BY <1>1, ThreeErrorsAreCorrected
<1>7. r = [word |-> w, errors |-> Cardinality(E)]
  BY <1>1, <1>3, <1>6
<1>8. Data5(w) = x
  BY <1>1, DataOfEncoded
<1> HIDE DEF w, r
<1>9. Attempt(y).fmt_info = x /\ Attempt(y).nerrs <= 3
  BY <1>4, <1>5, <1>7, <1>8
<1>10. QED
  BY <1>9 DEF y, W, x

-----------------------------------------------------------------------------
(* Which attempt is chosen, qr_finder_fmt_info_decode.                     *)

\* The attempts when at most one of those that are tried is wrong.
Mostly(a, I, value) ==
  /\ I \subseteq 0 .. 3 /\ 0 \in I
  /\ \A k \in I : a[k].nerrs \in Nat
  /\ a[0].fmt_info = value /\ a[0].nerrs <= 3
  /\ \A n \in I : a[n].fmt_info # value =>
       \E j, k \in I \ {0} : j # k /\ \A i \in I : a[i].fmt_info = value <=> i \in {0, j, k}

\* The first group has the right value, and all of the rest if one is wrong.
LEMMA FirstGroup ==
  ASSUME NEW a, NEW I, NEW value, Mostly(a, I, value)
  PROVE  LET g == Group(a, I, 0)
         IN  /\ g.fmt_info = value /\ g.nerrs \in Nat /\ g.nerrs <= 3
             /\ \A n \in I : a[n].fmt_info # value => g.count = 3
<1> DEFINE same == {k \in I : a[k].fmt_info = a[0].fmt_info}
           N == {a[k].nerrs : k \in same}
           least == CHOOSE n \in N : \A k \in same : n <= a[k].nerrs
           g == Group(a, I, 0)
<1>1. g = [fmt_info |-> a[0].fmt_info, count |-> Cardinality(same), nerrs |-> least]
  BY DEF Group
<1>2. 0 \in same /\ \A k \in same : a[k].nerrs \in Nat
  BY DEF Mostly
<1>3. least \in N /\ \A k \in same : least <= a[k].nerrs
  <2>1. N \in SUBSET Nat /\ N # {}
    BY <1>2
  <2>2. PICK n \in N : \A k \in N : n <= k
    <3> HIDE DEF N
    <3>1. QED
      BY <2>1, LeastIndex
  <2>3. \A k \in same : n <= a[k].nerrs
    BY <2>2
  <2> HIDE DEF N, same
  <2>4. QED
    BY <2>2, <2>3
<1>4. least \in Nat /\ least <= 3
  <2>1. least <= a[0].nerrs /\ least \in Nat /\ a[0].nerrs \in Nat /\ a[0].nerrs <= 3
    <3>1. least <= a[0].nerrs
      BY <1>2, <1>3
    <3>2. least \in Nat
      BY <1>2, <1>3
    <3>3. a[0].nerrs \in Nat /\ a[0].nerrs <= 3
      BY DEF Mostly
    <3>4. QED
      BY <3>1, <3>2, <3>3
  <2>2. QED
    BY <2>1
<1>5. ASSUME NEW n \in I, a[n].fmt_info # value
      PROVE  Cardinality(same) = 3
  <2>1. PICK j, k \in I \ {0} : j # k /\ \A i \in I : a[i].fmt_info = value <=> i \in {0, j, k}
    BY <1>5 DEF Mostly
  <2>2. same = {0, j, k}
    BY <2>1 DEF Mostly
  <2>3. Cardinality({0, j, k}) = 3
    <3>1. IsFiniteSet({}) /\ Cardinality({}) = 0
      BY FS_EmptySet
    <3>2. IsFiniteSet({0}) /\ Cardinality({0}) = 1
      BY FS_Singleton
    <3>3. IsFiniteSet({0} \cup {j}) /\ Cardinality({0} \cup {j}) = Cardinality({0}) + 1
      <4>1. j \notin {0}
        BY <2>1
      <4>2. QED
        BY <3>2, <4>1, FS_AddElement, Zenon
    <3>4. Cardinality(({0} \cup {j}) \cup {k}) = Cardinality({0} \cup {j}) + 1
      <4>1. k \notin {0} \cup {j}
        BY <2>1
      <4>2. QED
        BY <3>3, <4>1, FS_AddElement, Zenon
    <3>5. ({0} \cup {j}) \cup {k} = {0, j, k}
      OBVIOUS
    <3>6. Cardinality({0, j, k}) = (1 + 1) + 1
      BY <3>2, <3>3, <3>4, <3>5
    <3>7. QED
      BY <3>6
  <2>4. QED
    BY <2>2, <2>3
<1> HIDE DEF same, least, N
<1>6. QED
  BY <1>1, <1>4, <1>5 DEF Mostly

\* No other group beats it,
LEMMA NotBetter ==
  ASSUME NEW a, NEW I, NEW value, Mostly(a, I, value), NEW n \in 1 .. 3
  PROVE  Better(a, I, n, Group(a, I, 0)) = Group(a, I, 0)
<1> DEFINE g == Group(a, I, 0)
           h == Group(a, I, n)
           isNew == n \in I /\ \A k \in I : k < n => a[k].fmt_info # a[n].fmt_info
<1>1. /\ g.nerrs \in Nat /\ g.nerrs <= 3
      /\ \A k \in I : a[k].fmt_info # value => g.count = 3
  BY FirstGroup
<1>2. ASSUME isNew
      PROVE  ~ Beats(h, g)
  <2>1. n \in I /\ a[n].fmt_info # value
    BY <1>2 DEF Mostly
  <2>2. h.count = 1
    <3> DEFINE same == {k \in I : a[k].fmt_info = a[n].fmt_info}
    <3>1. same = {n}
      <4>1. PICK j, k \in I \ {0} : j # k /\ \A i \in I : a[i].fmt_info = value <=> i \in {0, j, k}
        BY <2>1 DEF Mostly
      <4>2. n \notin {0, j, k} /\ I \subseteq {0, j, k, n}
        BY <2>1, <4>1 DEF Mostly
      <4>3. \A i \in I : a[i].fmt_info = a[n].fmt_info <=> i = n
        BY <2>1, <4>1, <4>2
      <4>4. QED
        BY <2>1, <4>3
    <3>2. h.count = Cardinality(same)
      BY DEF Group
    <3>3. QED
      BY <3>1, <3>2, FS_Singleton
  <2>3. g.count = 3
    BY <1>1, <2>1
  <2> HIDE DEF g, h
  <2>4. QED
    BY <1>1, <2>2, <2>3 DEF Beats
<1>3. Better(a, I, n, g) = IF isNew /\ Beats(h, g) THEN h ELSE g
  BY DEF Better
<1> HIDE DEF g, h, isNew
<1>4. Better(a, I, n, g) = g
  BY <1>2, <1>3
<1>5. QED
  BY <1>4 DEF g

\* and so it is the best.
LEMMA BestIsFirst ==
  ASSUME NEW a, NEW I, NEW value, Mostly(a, I, value)
  PROVE  Best(a, I) = Group(a, I, 0)
<1> DEFINE Step(upto) == [n \in 0 .. 3 |-> IF n = 0 THEN Group(a, I, 0) ELSE Better(a, I, n, upto[n - 1])]
           chosen == CHOOSE upto : upto = Step(upto)
           g == Group(a, I, 0)
           p == [n \in 0 .. 3 |-> g]
<1>1. Best(a, I) = chosen[3]
  BY DEF Best
<1>2. \A n \in 1 .. 3 : Better(a, I, n, g) = g
  BY NotBetter
<1>3. p = Step(p)
  <2>1. \A n \in 0 .. 3 : p[n] = Step(p)[n]
    <3>1. SUFFICES ASSUME NEW n \in 0 .. 3
                   PROVE  Step(p)[n] = g
      OBVIOUS
    <3>2. CASE n = 0
      BY <3>2
    <3>3. CASE n \in 1 .. 3
      <4>1. n - 1 \in 0 .. 3 /\ n # 0
        BY <3>3
      <4>2. p[n - 1] = g
        BY <4>1
      <4>3. Step(p)[n] = Better(a, I, n, p[n - 1])
        BY <4>1
      <4>4. QED
        BY <1>2, <3>3, <4>2, <4>3
    <3>4. QED
      BY <3>2, <3>3
  <2>2. QED
    BY <2>1
<1>4. chosen = Step(chosen)
  BY <1>3
<1>5. /\ chosen[0] = g
      /\ chosen[1] = Better(a, I, 1, chosen[0])
      /\ chosen[2] = Better(a, I, 2, chosen[1])
      /\ chosen[3] = Better(a, I, 3, chosen[2])
  <2>1. \A n \in 0 .. 3 : chosen[n] = IF n = 0 THEN g ELSE Better(a, I, n, chosen[n - 1])
    BY <1>4
  <2> HIDE DEF chosen, g
  <2>2. 1 - 1 = 0 /\ 2 - 1 = 1 /\ 3 - 1 = 2
    OBVIOUS
  <2>3. QED
    BY <2>1, <2>2
<1> HIDE DEF chosen, g
<1>6. chosen[3] = g
  <2>1. 1 \in 1 .. 3 /\ 2 \in 1 .. 3 /\ 3 \in 1 .. 3
    OBVIOUS
  <2>2. QED
    BY <1>2, <1>5, <2>1
<1>7. QED
  BY <1>1, <1>6 DEF g

\* The halves of a word, which are read on their own.
Lower(A) == A \cap (0 .. 7)
Upper(A) == A \cap (8 .. 14)

\* Sets of bits are finite.
LEMMA SmallSets ==
  ASSUME NEW A \in SUBSET (0 .. 14)
  PROVE  IsFiniteSet(A) /\ Cardinality(A) \in Nat
<1>1. \A a, b \in Int : IsFiniteSet(a .. b)
  BY FS_Interval
<1>2. 0 \in Int /\ 14 \in Int
  OBVIOUS
<1>3. IsFiniteSet(0 .. 14)
  BY <1>1, <1>2, Zenon
<1>4. QED
  BY <1>3, FS_Subset, FS_CardinalityType

\* A word is its halves, and has the bits of both.
LEMMA Halves ==
  ASSUME NEW A \in SUBSET (0 .. 14), NEW B \in SUBSET (0 .. 14)
  PROVE  /\ Lower(A) \cup Upper(A) = A
         /\ Lower(A) \cup Upper(B) \in SUBSET (0 .. 14)
         /\ Cardinality(Lower(A) \cup Upper(B)) = Cardinality(Lower(A)) + Cardinality(Upper(B))
         /\ Cardinality(Lower(A)) \in Nat /\ Cardinality(Upper(B)) \in Nat
<1>1. Lower(A) \in SUBSET (0 .. 14) /\ Upper(B) \in SUBSET (0 .. 14) /\ Lower(A) \cap Upper(B) = {}
  BY DEF Lower, Upper
<1>2. Lower(A) \cup Upper(A) = A
  <2>1. \A i \in 0 .. 14 : i \in 0 .. 7 \/ i \in 8 .. 14
    OBVIOUS
  <2>2. QED
    BY <2>1 DEF Lower, Upper
<1> DEFINE L == Lower(A)
           U == Upper(B)
<1>3. /\ IsFiniteSet(L) /\ Cardinality(L) \in Nat
      /\ IsFiniteSet(U) /\ Cardinality(U) \in Nat
  BY <1>1, SmallSets
<1>4. Cardinality(L \cup U) = Cardinality(L) + Cardinality(U)
  <2>1. L \cap U = {} /\ Cardinality({}) = 0
    BY <1>1, FS_EmptySet
  <2> HIDE DEF L, U
  <2>2. Cardinality(L \cup U) = Cardinality(L) + Cardinality(U) - Cardinality(L \cap U)
    BY <1>3, FS_Union
  <2>3. Cardinality(L \cup U) = Cardinality(L) + Cardinality(U) - 0
    BY <2>1, <2>2
  <2>4. QED
    BY <1>3, <2>3
<1>5. QED
  BY <1>1, <1>2, <1>3, <1>4

\* What is wrong in a word of two halves is half of what is wrong in each.
Mixed(W, d1, d2) ==
  Lower(Diff(W, d1)) \cup Upper(Diff(W, d2)) = Diff(W, Lower(d1) \cup Upper(d2))

\* With this the words of mixed halves are seen as damaged words too.
LEMMA MixedHalves == \A W, d1, d2 : W \subseteq 0 .. 14 => Mixed(W, d1, d2)
<1> SUFFICES ASSUME NEW W, NEW d1, NEW d2, W \subseteq 0 .. 14
             PROVE  Lower(Diff(W, d1)) \cup Upper(Diff(W, d2)) = Diff(W, Lower(d1) \cup Upper(d2))
  BY DEF Mixed
<1>1. ASSUME NEW i \in 0 .. 14
      PROVE  i \in Lower(Diff(W, d1)) \cup Upper(Diff(W, d2)) <=> i \in Diff(W, Lower(d1) \cup Upper(d2))
  <2>1. CASE i \in 0 .. 7
    <3>1. i \notin 8 .. 14
      BY <2>1
    <3>2. QED
      BY <2>1, <3>1 DEF Lower, Upper, Diff
  <2>2. CASE i \in 8 .. 14
    <3>1. i \notin 0 .. 7
      BY <2>2
    <3>2. QED
      BY <2>2, <3>1 DEF Lower, Upper, Diff
  <2>3. QED
    BY <2>1, <2>2
<1>2. Lower(Diff(W, d1)) \cup Upper(Diff(W, d2)) \subseteq 0 .. 14
  BY DEF Lower, Upper, Diff
<1>3. Diff(W, Lower(d1) \cup Upper(d2)) \subseteq 0 .. 14
  <2>1. Lower(d1) \cup Upper(d2) \subseteq 0 .. 14
    BY DEF Lower, Upper
  <2>2. QED
    BY <2>1 DEF Diff
<1>4. QED
  BY <1>1, <1>2, <1>3, Zenon

\* Of both copies and the two words of mixed halves, at least three are right, and the
\* copies are among those that are tried.
LEMMA ChosenIsRight ==
  ASSUME NEW l \in 0 .. 3, NEW m \in 0 .. 7,
         NEW d1 \in SUBSET (0 .. 14), NEW d2 \in SUBSET (0 .. 14), Cardinality(d1) <= 3, Cardinality(d2) <= 3
  PROVE  LET A == Diff(FormatOf(l, m), d1)
             B == Diff(FormatOf(l, m), d2)
         IN Chosen(<<Lower(A), Lower(B)>>, <<Upper(A), Upper(B)>>) = FormatData(l, m)
<1> DEFINE W == FormatOf(l, m)
           A == Diff(W, d1)
           B == Diff(W, d2)
           value == FormatData(l, m)
           lo == <<Lower(A), Lower(B)>>
           hi == <<Upper(A), Upper(B)>>
           w0 == Lower(A) \cup Upper(A)
           w1 == Lower(B) \cup Upper(A)
           w2 == Lower(A) \cup Upper(B)
           w3 == Lower(B) \cup Upper(B)
           a    == [i \in 0 .. 3 |-> Attempt(lo[(i % 2) + 1] \cup hi[(i \div 2) + 1])]
           I    == Tried(lo, hi)
           best == Best(a, I)
           Right(w) == Attempt(w).fmt_info = value /\ Attempt(w).nerrs <= 3
<1>1. W \in SUBSET (0 .. 14) /\ A \in SUBSET (0 .. 14) /\ B \in SUBSET (0 .. 14)
  <2>1. W \in SUBSET (0 .. 14)
    BY DEF FormatOf, Bits
  <2> HIDE DEF W
  <2>2. QED
    BY <2>1 DEF Diff
<1>2. w0 = A /\ w3 = B
  BY <1>1, Halves
<1>3. Right(w0) /\ Right(w3)
  BY <1>2, RightAttempt
<1>4. Right(w1) \/ Right(w2)
  <2> DEFINE e1 == Lower(d2) \cup Upper(d1)
             e2 == Lower(d1) \cup Upper(d2)
  <2>1. w1 = Diff(W, e1) /\ w2 = Diff(W, e2)
    <3> HIDE DEF W
    <3>1. W \subseteq 0 .. 14
      BY <1>1
    <3>2. \A x, y : Mixed(W, x, y)
      BY <3>1, MixedHalves
    <3>3. Mixed(W, d2, d1) /\ Mixed(W, d1, d2)
      BY <3>2
    <3>4. QED
      BY <3>3 DEF Mixed
  <2>2. e1 \in SUBSET (0 .. 14) /\ e2 \in SUBSET (0 .. 14)
    BY Halves
  <2>3. Cardinality(e1) <= 3 \/ Cardinality(e2) <= 3
    <3>1. /\ Cardinality(e1) = Cardinality(Lower(d2)) + Cardinality(Upper(d1))
          /\ Cardinality(e2) = Cardinality(Lower(d1)) + Cardinality(Upper(d2))
      BY Halves
    <3>2. /\ Cardinality(Lower(d1)) \in Nat /\ Cardinality(Upper(d1)) \in Nat
          /\ Cardinality(Lower(d2)) \in Nat /\ Cardinality(Upper(d2)) \in Nat
      BY Halves
    <3>3. /\ Cardinality(d1) = Cardinality(Lower(d1)) + Cardinality(Upper(d1))
          /\ Cardinality(d2) = Cardinality(Lower(d2)) + Cardinality(Upper(d2))
      BY Halves
    <3> HIDE DEF e1, e2
    <3>4. QED
      BY <3>1, <3>2, <3>3
  <2> HIDE DEF e1, e2
  <2>4. QED
    BY <2>1, <2>2, <2>3, RightAttempt
<1>5. a[0] = Attempt(w0) /\ a[1] = Attempt(w1) /\ a[2] = Attempt(w2) /\ a[3] = Attempt(w3)
  <2>1. /\ (0 % 2) + 1 = 1 /\ (1 % 2) + 1 = 2 /\ (2 % 2) + 1 = 1 /\ (3 % 2) + 1 = 2
        /\ (0 \div 2) + 1 = 1 /\ (1 \div 2) + 1 = 1 /\ (2 \div 2) + 1 = 2 /\ (3 \div 2) + 1 = 2
    OBVIOUS
  <2>2. \A i \in 0 .. 3 : a[i] = Attempt(lo[(i % 2) + 1] \cup hi[(i \div 2) + 1])
    OBVIOUS
  <2>3. lo[1] = Lower(A) /\ lo[2] = Lower(B) /\ hi[1] = Upper(A) /\ hi[2] = Upper(B)
    OBVIOUS
  <2> DEFINE at(i, j, k) == a[i] = Attempt(lo[j] \cup hi[k])
  <2>4. \A i \in 0 .. 3 : at(i, (i % 2) + 1, (i \div 2) + 1)
    BY <2>2
  <2> HIDE DEF at
  <2>5. at(0, 1, 1) /\ at(1, 2, 1) /\ at(2, 1, 2) /\ at(3, 2, 2)
    BY <2>1, <2>4
  <2> HIDE DEF a, lo, hi, A, B
  <2>6. QED
    BY <2>3, <2>5, Zenon DEF at
<1>6. I = { i \in (IF Upper(A) = Upper(B) THEN 0 .. 1 ELSE 0 .. 3) : Lower(A) = Lower(B) => i % 2 = 0 }
  BY DEF Tried
<1>7. /\ Upper(A) = Upper(B) => w1 = w3
      /\ Lower(A) = Lower(B) => w2 = w3
  OBVIOUS
<1>8. \A w : Attempt(w).nerrs \in Nat
  BY AttemptErrors
<1>9. Chosen(lo, hi) = IF best.nerrs < 4 THEN best.fmt_info ELSE -1
  BY DEF Chosen
<1> HIDE DEF W, A, B, lo, hi, value, w0, w1, w2, w3, a, I
<1>10. Mostly(a, I, value)
  <2>1. I \subseteq 0 .. 3 /\ 0 \in I
    BY <1>6
  <2>2. \A k \in I : a[k].nerrs \in Nat
    <3>1. \A k \in 0 .. 3 : a[k].nerrs \in Nat
      BY <1>5, <1>8
    <3>2. QED
      BY <2>1, <3>1
  <2>3. a[0].fmt_info = value /\ a[0].nerrs <= 3
    BY <1>3, <1>5
  <2>4. ASSUME NEW n \in I, a[n].fmt_info # value
        PROVE  \E j, k \in I \ {0} : j # k /\ \A i \in I : a[i].fmt_info = value <=> i \in {0, j, k}
    <3>1. n \in {1, 2}
      BY <1>3, <1>5, <2>1, <2>4
    <3>2. CASE n = 1
      <4>1. ~ Right(w1) /\ Right(w2) /\ 1 \in I
        BY <1>4, <1>5, <2>4, <3>2
      <4>2. Upper(A) # Upper(B) /\ Lower(A) # Lower(B)
        BY <1>3, <1>6, <1>7, <4>1
      <4>3. 2 \in I \ {0} /\ 3 \in I \ {0}
        BY <1>6, <4>2
      <4>4. \A i \in I : a[i].fmt_info = value <=> i \in {0, 2, 3}
        BY <1>3, <1>5, <2>1, <2>4, <3>2, <4>1
      <4>5. QED
        BY <4>3, <4>4
    <3>3. CASE n = 2
      <4>1. ~ Right(w2) /\ Right(w1) /\ 2 \in I
        BY <1>4, <1>5, <2>4, <3>3
      <4>2. Upper(A) # Upper(B) /\ Lower(A) # Lower(B)
        BY <1>3, <1>6, <1>7, <4>1
      <4>3. 1 \in I \ {0} /\ 3 \in I \ {0}
        BY <1>6, <4>2
      <4>4. \A i \in I : a[i].fmt_info = value <=> i \in {0, 1, 3}
        BY <1>3, <1>5, <2>1, <2>4, <3>3, <4>1
      <4>5. QED
        BY <4>3, <4>4
    <3>4. QED
      BY <3>1, <3>2, <3>3
  <2>5. QED
    BY <2>1, <2>2, <2>3, <2>4 DEF Mostly
<1>11. best.fmt_info = value /\ best.nerrs \in Nat /\ best.nerrs <= 3
  BY <1>10, BestIsFirst, FirstGroup
<1> HIDE DEF best
<1>12. Chosen(lo, hi) = value
  BY <1>9, <1>11
<1>13. QED
  BY <1>12 DEF lo, hi, A, B, W, value

-----------------------------------------------------------------------------
(* Reading the format information.                                         *)

\* In both areas each bit has a module of its own, and none of the other area.
LEMMA OwnFormatModules ==
  ASSUME NEW w \in Nat, w >= 21, NEW k \in 0 .. 14, NEW n \in 0 .. 14
  PROVE  /\ AtCorner(w, k) = AtCorner(w, n) => k = n
         /\ AtOthers(w, k) = AtOthers(w, n) => k = n
         /\ AtCorner(w, k) # AtOthers(w, n)
         /\ AtCorner(w, k) = <<AtCorner(w, k)[1], AtCorner(w, k)[2]>>
         /\ AtOthers(w, k) = <<AtOthers(w, k)[1], AtOthers(w, k)[2]>>
<1>1. \/ k < 6 /\ AtCorner(w, k) = <<8, k>>
      \/ k \in {6, 7} /\ AtCorner(w, k) = <<8, k + 1>>
      \/ k = 8 /\ AtCorner(w, k) = <<7, 8>>
      \/ k > 8 /\ AtCorner(w, k) = <<14 - k, 8>>
  BY DEF AtCorner
<1>2. \/ n < 6 /\ AtCorner(w, n) = <<8, n>>
      \/ n \in {6, 7} /\ AtCorner(w, n) = <<8, n + 1>>
      \/ n = 8 /\ AtCorner(w, n) = <<7, 8>>
      \/ n > 8 /\ AtCorner(w, n) = <<14 - n, 8>>
  BY DEF AtCorner
<1>3. AtCorner(w, k) = AtCorner(w, n) => k = n
  BY <1>1, <1>2
<1>4. AtOthers(w, k) = AtOthers(w, n) => k = n
  BY DEF AtOthers
<1>5. AtCorner(w, k) # AtOthers(w, n)
  BY <1>1 DEF AtOthers
<1>6. AtCorner(w, k) = <<AtCorner(w, k)[1], AtCorner(w, k)[2]>>
  BY <1>1
<1>7. AtOthers(w, k) = <<AtOthers(w, k)[1], AtOthers(w, k)[2]>>
  BY DEF AtOthers
<1>8. QED
  BY <1>3, <1>4, <1>5, <1>6, <1>7

\* The words around the corner are read where they are written.
LEMMA WordsAtCorner ==
  ASSUME NEW w
  PROVE  /\ \A k \in 0 .. 7 : LoCorner[k + 1] = AtCorner(w, k)
         /\ \A k \in 8 .. 14 : HiCorner[k - 7] = AtCorner(w, k)
<1>1. ASSUME NEW k \in 0 .. 7 PROVE LoCorner[k + 1] = AtCorner(w, k)
  <2>1. k \in {0, 1, 2, 3, 4, 5, 6, 7}
    OBVIOUS
  <2>2. QED
    BY <2>1 DEF LoCorner, AtCorner
<1>2. ASSUME NEW k \in 8 .. 14 PROVE HiCorner[k - 7] = AtCorner(w, k)
  <2>1. k \in {8, 9, 10, 11, 12, 13, 14}
    OBVIOUS
  <2>2. QED
    BY <2>1 DEF HiCorner, AtCorner
<1>3. QED
  BY <1>1, <1>2

\* What is drawn in either area is read there with the finders swapped, with the bits
\* that are damaged.
LEMMA BitsOfFormat ==
  ASSUME NEW c \in Codes, NEW d \in (SUBSET (0 .. 14)) \X (SUBSET (0 .. 14))
  PROVE  LET w    == Width(c.version)
             seen == Seen(Captured(DrawnFormat(c, d)), TRUE)
             A    == Diff(FormatOf(c.level, c.mask), d[1])
             B    == Diff(FormatOf(c.level, c.mask), d[2])
         IN /\ Lo(w, seen, 0) = Lower(A) /\ Lo(w, seen, 1) = Lower(B)
            /\ Hi(w, seen, 0) = Upper(A) /\ Hi(w, seen, 1) = Upper(B)
<1> DEFINE w == Width(c.version)
           C(k) == AtCorner(w, k)
           O(k) == AtOthers(w, k)
           P(i) == Diff(FormatOf(c.level, c.mask), d[i])
           drawn == { C(k) : k \in P(1) } \cup { O(k) : k \in P(2) }
           seen == Seen(Captured(DrawnFormat(c, d)), TRUE)
<1>1. w \in Nat /\ w >= 21
  <2>1. c.version \in Versions
    BY CodesAssumption
  <2>2. w = Dim(c.version)
    BY <2>1, SameWidth
  <2>3. QED
    BY <2>1, <2>2 DEF Dim, Versions
<1>2. P(1) \in SUBSET (0 .. 14) /\ P(2) \in SUBSET (0 .. 14)
  <2>1. FormatOf(c.level, c.mask) \in SUBSET (0 .. 14)
    BY DEF FormatOf, Bits
  <2>2. d[1] \in SUBSET (0 .. 14) /\ d[2] \in SUBSET (0 .. 14)
    OBVIOUS
  <2>3. QED
    BY <2>1, <2>2 DEF Diff
<1>3. DrawnFormat(c, d) = drawn
  BY Zenon DEF DrawnFormat, FormatOf
<1>4. \A k \in 0 .. 14, n \in 0 .. 14 :
         /\ C(k) = C(n) => k = n
         /\ O(k) = O(n) => k = n
         /\ C(k) # O(n)
         /\ C(k) = <<C(k)[1], C(k)[2]>>
         /\ O(k) = <<O(k)[1], O(k)[2]>>
  BY <1>1, OwnFormatModules, Zenon
<1>5. /\ Lo(w, seen, 0) = { k \in 0 .. 7 : LoCorner[k + 1] \in seen }
      /\ Hi(w, seen, 0) = { k \in 8 .. 14 : HiCorner[k - 7] \in seen }
  BY DEF Lo, Hi
<1>6. /\ Lo(w, seen, 1) = { k \in 0 .. 7 : O(k) \in seen }
      /\ Hi(w, seen, 1) = { k \in 8 .. 14 : O(k) \in seen }
  <2>1. \A k \in 0 .. 7 : O(k) = <<w - 1 - k, 8>>
    BY DEF AtOthers
  <2>2. \A k \in 8 .. 14 : O(k) = <<8, w - 15 + k>>
    BY DEF AtOthers
  <2>3. /\ Lo(w, seen, 1) = { k \in 0 .. 7 : <<w - 1 - k, 8>> \in seen }
        /\ Hi(w, seen, 1) = { k \in 8 .. 14 : <<8, w - 15 + k>> \in seen }
    BY DEF Lo, Hi
  <2> HIDE DEF w, O, seen
  <2>4. QED
    BY <2>1, <2>2, <2>3
<1>7. /\ \A k \in 0 .. 7 : LoCorner[k + 1] = C(k)
      /\ \A k \in 8 .. 14 : HiCorner[k - 7] = C(k)
  BY WordsAtCorner, Zenon
<1>8. seen = { <<m[2], m[1]>> : m \in { <<m[2], m[1]>> : m \in drawn } }
  BY <1>3, Zenon DEF Seen, Captured
<1> HIDE DEF w, P, C, O, seen
<1>9. \A m \in drawn : m = <<m[1], m[2]>>
  BY <1>2, <1>4
<1> HIDE DEF drawn
<1>10. \A m : m \in seen <=> m \in drawn
  <2>1. \A m : m \in seen <=> \E n \in drawn : m = << <<n[2], n[1]>>[2], <<n[2], n[1]>>[1] >>
    BY <1>8
  <2>2. \A n : << <<n[2], n[1]>>[2], <<n[2], n[1]>>[1] >> = <<n[1], n[2]>>
    OBVIOUS
  <2>3. \A m : m \in seen <=> \E n \in drawn : m = <<n[1], n[2]>>
    BY <2>1, <2>2
  <2>4. ASSUME NEW m \in seen PROVE m \in drawn
    <3>1. PICK n \in drawn : m = <<n[1], n[2]>>
      BY <2>3
    <3>2. m = n
      BY <1>9, <3>1, Zenon
    <3>3. QED
      BY <3>2
  <2>5. ASSUME NEW m \in drawn PROVE m \in seen
    <3>1. m = <<m[1], m[2]>>
      BY <1>9, Zenon
    <3>2. QED
      BY <2>3, <3>1, Zenon
  <2>6. QED
    BY <2>4, <2>5
<1>101. \A m : m \in drawn <=> (\E n \in P(1) : m = C(n)) \/ (\E n \in P(2) : m = O(n))
  BY DEF drawn
<1>11. \A k \in 0 .. 14 : C(k) \in seen <=> k \in P(1)
  <2>1. SUFFICES ASSUME NEW k \in 0 .. 14
                 PROVE  C(k) \in seen <=> k \in P(1)
    OBVIOUS
  <2>2. /\ \A n \in P(1) : C(k) = C(n) => k = n
        /\ \A n \in P(2) : C(k) # O(n)
    BY <1>2, <1>4, Zenon
  <2>3. QED
    BY <1>10, <1>101, <2>2, Zenon
<1>12. \A k \in 0 .. 14 : O(k) \in seen <=> k \in P(2)
  <2>1. SUFFICES ASSUME NEW k \in 0 .. 14
                 PROVE  O(k) \in seen <=> k \in P(2)
    OBVIOUS
  <2>2. /\ \A n \in P(2) : O(k) = O(n) => k = n
        /\ \A n \in P(1) : O(k) # C(n)
    BY <1>2, <1>4, Zenon
  <2>3. QED
    BY <1>10, <1>101, <2>2, Zenon
<1>13. Lo(w, seen, 0) = Lower(P(1)) /\ Hi(w, seen, 0) = Upper(P(1))
  <2>1. \A k \in 0 .. 7 : k \in 0 .. 14
    OBVIOUS
  <2>2. \A k \in 8 .. 14 : k \in 0 .. 14
    OBVIOUS
  <2>3. \A k \in 0 .. 7 : LoCorner[k + 1] \in seen <=> k \in P(1)
    BY <1>7, <1>11, <2>1, Zenon
  <2>4. \A k \in 8 .. 14 : HiCorner[k - 7] \in seen <=> k \in P(1)
    BY <1>7, <1>11, <2>2, Zenon
  <2>5. QED
    BY <1>5, <2>3, <2>4 DEF Lower, Upper
<1>14. Lo(w, seen, 1) = Lower(P(2)) /\ Hi(w, seen, 1) = Upper(P(2))
  <2>1. \A k \in 0 .. 7 : k \in 0 .. 14
    OBVIOUS
  <2>2. \A k \in 8 .. 14 : k \in 0 .. 14
    OBVIOUS
  <2>3. QED
    BY <1>6, <1>12, <2>1, <2>2 DEF Lower, Upper
<1>15. QED
  BY <1>13, <1>14 DEF P, w, seen

\* With up to three bits wrong in either copy the format information is read.
LEMMA FormatInfoRight ==
  ASSUME NEW c \in Codes, NEW d \in (SUBSET (0 .. 14)) \X (SUBSET (0 .. 14)),
         Cardinality(d[1]) <= 3, Cardinality(d[2]) <= 3
  PROVE  FormatInfo(Width(c.version), Captured(DrawnFormat(c, d)), TRUE) = FormatData(c.level, c.mask)
<1> DEFINE w    == Width(c.version)
           dark == Captured(DrawnFormat(c, d))
           seen == Seen(dark, TRUE)
           A    == Diff(FormatOf(c.level, c.mask), d[1])
           B    == Diff(FormatOf(c.level, c.mask), d[2])
<1>1. /\ Lo(w, seen, 0) = Lower(A) /\ Lo(w, seen, 1) = Lower(B)
      /\ Hi(w, seen, 0) = Upper(A) /\ Hi(w, seen, 1) = Upper(B)
  BY BitsOfFormat, Zenon
<1>2. FormatInfo(w, dark, TRUE)
        = Chosen(<<Lo(w, seen, 0), Lo(w, seen, 1)>>, <<Hi(w, seen, 0), Hi(w, seen, 1)>>)
  BY DEF FormatInfo
<1>3. c.level \in 0 .. 3 /\ c.mask \in 0 .. 7
  BY CodesAssumption DEF Levels, Masks
<1>4. d[1] \in SUBSET (0 .. 14) /\ d[2] \in SUBSET (0 .. 14)
  OBVIOUS
<1>5. Chosen(<<Lower(A), Lower(B)>>, <<Upper(A), Upper(B)>>) = FormatData(c.level, c.mask)
  BY <1>3, <1>4, ChosenIsRight, Zenon
<1> HIDE DEF seen, A, B
<1>6. QED
  BY <1>1, <1>2, <1>5

\* The level and the mask in it.
LEMMA LevelAndMask ==
  ASSUME NEW l \in 0 .. 3, NEW m \in 0 .. 7
  PROVE  LET x == FormatData(l, m) IN x >= 0 /\ Xor4[x \div 8][1] = l /\ x % 8 = m
<1> DEFINE h == CASE l = 0 -> 1 [] l = 1 -> 0 [] l = 2 -> 3 [] l = 3 -> 2
           x == FormatData(l, m)
<1>1. h \in 0 .. 3 /\ l = 2 * (h \div 2) + (((h % 2) + 1) % 2)
  OBVIOUS
<1>2. x = 8 * h + m
  BY DEF FormatData
<1>3. Xor4[h][1] = l
  <2>1. \A a, b \in 0 .. 15 :
           Xor4[a][b] = XorBit(a, b, 0) + XorBit(a, b, 1) + XorBit(a, b, 2) + XorBit(a, b, 3)
    BY DEF Xor4
  <2>2. Xor4[h][1] = XorBit(h, 1, 0) + XorBit(h, 1, 1) + XorBit(h, 1, 2) + XorBit(h, 1, 3)
    BY <1>1, <2>1
  <2>3. /\ XorBit(h, 1, 0) = ((h % 2) + 1) % 2
        /\ XorBit(h, 1, 1) = 2 * (h \div 2)
        /\ XorBit(h, 1, 2) = 0
        /\ XorBit(h, 1, 3) = 0
    <3> HIDE DEF h
    <3>1. h \in {0, 1, 2, 3}
      BY <1>1
    <3>2. 2^0 = 1 /\ 2^1 = 2 /\ 2^2 = 4 /\ 2^3 = 8
      BY Powers
    <3>3. QED
      BY <3>1, <3>2 DEF XorBit
  <2> HIDE DEF h
  <2>4. QED
    BY <1>1, <2>2, <2>3
<1> HIDE DEF h, x
<1>4. x >= 0 /\ x \div 8 = h /\ x % 8 = m
  BY <1>1, <1>2
<1>5. QED
  BY <1>3, <1>4 DEF x

\* What is seen while the format information is read, and what is made of it.
FormatSeen ==
  /\ damage \in (SUBSET (0 .. 14)) \X (SUBSET (0 .. 14))
  /\ image = Captured(DrawnFormat(code, damage))
  /\ \E f : read = [NotRead EXCEPT !.version = code.version, !.format = f]
  /\ turned => read.format = FormatInfo(Width(code.version), image, TRUE)

\* The invariant: the finders are swapped only after the format information was read once.
FormatInv ==
  /\ code \in Codes
  /\ phase \in {"version", "version found", "format"} => ~ turned
  /\ phase = "format" => read = [NotRead EXCEPT !.version = code.version]
  /\ phase = "data" => FormatSeen

\* It holds at first,
LEMMA FormatInit == Init => FormatInv
BY DEF Init, FormatInv

\* every step keeps it,
LEMMA FormatStep == FormatInv /\ [Next]_vars => FormatInv'
<1>1. SUFFICES ASSUME FormatInv, [Next]_vars
               PROVE  FormatInv'
  OBVIOUS
<1>2. CASE code' = code /\ phase' \notin {"version", "version found", "format", "data"}
  BY <1>1, <1>2 DEF FormatInv
<1>3. CASE ReadVersion
  BY <1>1, <1>3 DEF ReadVersion, FormatInv
<1>4. CASE VersionFound
  BY <1>1, <1>4 DEF VersionFound, FormatInv
<1>5. CASE ReadFormat
  <2>1. PICK d \in FormatDamage[code] :
          /\ damage' = d
          /\ image' = Captured(DrawnFormat(code, d))
          /\ read' = [read EXCEPT !.format = FormatInfo(Width(code.version), image', FALSE)]
    BY <1>5 DEF ReadFormat
  <2>2. phase = "format" /\ phase' = "data" /\ code' = code /\ turned' = turned
    BY <1>5 DEF ReadFormat
  <2>3. code \in Codes /\ ~ turned /\ read = [NotRead EXCEPT !.version = code.version]
    BY <1>1, <2>2 DEF FormatInv
  <2>4. d \in (SUBSET (0 .. 14)) \X (SUBSET (0 .. 14))
    BY <2>3, CodesAssumption
  <2>5. \E f : read' = [NotRead EXCEPT !.version = code.version, !.format = f]
    BY <2>1, <2>3 DEF NotRead
  <2>6. FormatSeen'
    BY <2>1, <2>2, <2>3, <2>4, <2>5 DEF FormatSeen
  <2>7. QED
    BY <2>2, <2>3, <2>6 DEF FormatInv
<1>6. CASE SwapFinders
  <2>1. /\ phase = "data" /\ turned'
        /\ read' = [read EXCEPT !.format = FormatInfo(Width(code.version), image, TRUE)]
        /\ code' = code /\ phase' = phase /\ image' = image /\ damage' = damage
    BY <1>6 DEF SwapFinders
  <2>2. code \in Codes /\ FormatSeen
    BY <1>1, <2>1 DEF FormatInv
  <2>3. PICK f : read = [NotRead EXCEPT !.version = code.version, !.format = f]
    BY <2>2 DEF FormatSeen
  <2> DEFINE g == FormatInfo(Width(code.version), image, TRUE)
  <2>4. read' = [read EXCEPT !.format = g]
    BY <2>1
  <2>5. g = FormatInfo(Width(code'.version), image', TRUE)
    BY <2>1
  <2> HIDE DEF g
  <2>6. read' = [NotRead EXCEPT !.version = code.version, !.format = g] /\ read'.format = g
    BY <2>3, <2>4 DEF NotRead
  <2>7. FormatSeen'
    BY <2>1, <2>2, <2>5, <2>6 DEF FormatSeen
  <2>8. QED
    BY <2>1, <2>2, <2>7 DEF FormatInv
<1>7. CASE BeginSampling
  BY <1>2, <1>7 DEF BeginSampling
<1>8. CASE SampleCodeword
  BY <1>2, <1>8 DEF SampleCodeword
<1>9. CASE SampleRemainder
  BY <1>2, <1>9 DEF SampleRemainder
<1>10. CASE CorrectBlock
  BY <1>2, <1>10 DEF CorrectBlock
<1>11. CASE ParseStream
  BY <1>2, <1>11 DEF ParseStream
<1>12. CASE UNCHANGED vars
  BY <1>1, <1>12 DEF vars, FormatInv, FormatSeen
<1>13. QED
  BY <1>1, <1>3, <1>4, <1>5, <1>6, <1>7, <1>8, <1>9, <1>10, <1>11, <1>12 DEF Next

\* and it implies that what is read is right.
LEMMA SeenIsRight == FormatInv => FormatRead
<1>1. SUFFICES ASSUME FormatInv, phase = "data", turned, Few(1), Few(2)
               PROVE  ReadRight
  BY DEF FormatRead
<1>2. code \in Codes /\ FormatSeen
  BY <1>1 DEF FormatInv
<1> DEFINE x == FormatData(code.level, code.mask)
<1>3. read.format = x
  <2>1. /\ damage \in (SUBSET (0 .. 14)) \X (SUBSET (0 .. 14))
        /\ Cardinality(damage[1]) <= 3 /\ Cardinality(damage[2]) <= 3
    BY <1>1, <1>2 DEF FormatSeen, Few
  <2>2. FormatInfo(Width(code.version), Captured(DrawnFormat(code, damage)), TRUE) = x
    BY <1>2, <2>1, FormatInfoRight, Zenon
  <2>3. image = Captured(DrawnFormat(code, damage)) /\ read.format = FormatInfo(Width(code.version), image, TRUE)
    BY <1>1, <1>2 DEF FormatSeen
  <2>4. QED
    BY <2>2, <2>3, Zenon
<1>4. read.version = code.version
  BY <1>2 DEF FormatSeen, NotRead
<1>5. code.level \in 0 .. 3 /\ code.mask \in 0 .. 7
  BY <1>2, CodesAssumption DEF Levels, Masks
<1>6. x >= 0 /\ Xor4[x \div 8][1] = code.level /\ x % 8 = code.mask
  BY <1>5, LevelAndMask
<1> HIDE DEF x
<1>7. QED
  BY <1>3, <1>4, <1>6 DEF ReadRight, ecc_level, mask

\* FormatRead, for every version, level and mask, and whatever is wrong: with up to
\* three wrong bits in either copy of the format information zbar has the level and the
\* mask of the code in the mirror (Mask_writeFormatInformation against
\* qr_finder_fmt_info_decode and bch15_5_correct).
THEOREM FormatIsRead == Spec => []FormatRead
<1>1. QED
  BY FormatInit, FormatStep, SeenIsRight, PTL DEF Spec
=================================================================================
