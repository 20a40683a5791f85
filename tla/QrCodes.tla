-------------------------------- MODULE QrCodes --------------------------------
(***************************************************************************)
(* The error-correcting codes of a QR code: the Reed-Solomon encoder of    *)
(* libqrencode (qrencode/rsecc.c), and the decoders of zbar for its blocks *)
(* (zbar/qrcode/rs.c), for the format information (zbar/qrcode/bch15_5.c)  *)
(* and for the version information (bch18_6_correct in qrdec.c).           *)
(*                                                                         *)
(* A field element is a number, as in the code.  A polynomial is a         *)
(* function from 0 on, with the coefficient of x^i at i, and a block a     *)
(* function from 0 on in the order of the code.  A received word of format *)
(* or version information is the set of its bits that are one.  Erasures,  *)
(* which no caller of rs_correct passes, are left out.                     *)
(***************************************************************************)
EXTENDS Integers, Sequences, FiniteSets, TLC

Bits(n, width) == {i \in 0 .. width - 1 : (n \div 2^i) % 2 = 1}
Diff(A, B)     == (A \ B) \cup (B \ A)

\* a ^ b for numbers of four and of eight bits.
XorBit(a, b, i) == 2^i * ((a \div 2^i + b \div 2^i) % 2)
Xor4 == [a \in 0 .. 15 |-> [b \in 0 .. 15 |->
           XorBit(a, b, 0) + XorBit(a, b, 1) + XorBit(a, b, 2) + XorBit(a, b, 3)]]

Xor(a, b) == 16 * Xor4[a \div 16][b \div 16] + Xor4[a % 16][b % 16]

\* f, which TLC then computes once, and not again wherever it is applied.
Stored(f) == f @@ << >>

\* The sum of f[m] .. f[n].
XorSum(f, m, n) ==
  LET from[i \in m .. n + 1] == IF i > n THEN 0 ELSE Xor(f[i], from[i + 1])
  IN from[m]

-----------------------------------------------------------------------------
(* bch15_5.c.                                                              *)

gf16_exp == <<1, 2, 4, 8, 3, 6, 12, 11, 5, 10, 7, 14, 15, 13, 9>>
gf16_log == <<0, 1, 4, 2, 8, 5, 10, 3, 14, 9, 7, 6, 13, 11, 12>>

Exp4(i)   == gf16_exp[(i % 15) + 1]
Log4(a)   == gf16_log[a]
Mul4(a, b) == IF a = 0 \/ b = 0 THEN 0 ELSE Exp4(Log4(a) + Log4(b))
Div4(a, b) == IF a = 0 THEN 0 ELSE Exp4(Log4(a) + 15 - Log4(b))

bch15_5_encode(x) ==
  LET rows == <<1335, 2670, 4587, 9174, 17051>>
      row(i) == IF i \in Bits(x, 5) THEN Bits(rows[i + 1], 15) ELSE {}
  IN Diff(row(0), Diff(row(1), Diff(row(2), Diff(row(3), row(4)))))

\* The five data bits of a word.
Data5(y) == LET bit(i) == IF i + 10 \in y THEN 2^i ELSE 0
            IN bit(0) + bit(1) + bit(2) + bit(3) + bit(4)

bch15_5_calc_syndrome(y) ==
  LET s(k) == XorSum([i \in 0 .. 14 |-> IF i \in y THEN Exp4(k * i) ELSE 0], 0, 14)
  IN <<s(1), s(3), s(5)>>

\* The coefficients of the error locator, the one of the highest power first.
bch15_5_calc_omega(s) ==
  LET s02 == Mul4(s[1], s[1])
      dd  == Xor(s[2], Mul4(s[1], s02))
      tt  == Xor(s[3], Mul4(s02, s[2]))
      o1  == IF dd # 0 THEN Div4(tt, dd) ELSE 0
  IN <<s[1], o1, Xor(dd, Mul4(s[1], o1))>>

\* The positions of the errors, or all if there are too few roots.
bch15_5_calc_epos(o) ==
  LET d     == IF o[3] # 0 THEN 3 ELSE IF o[2] # 0 THEN 2 ELSE IF o[1] # 0 THEN 1 ELSE 0
      value(i) == Xor(Xor(Exp4(3 * i), Mul4(o[1], Exp4(2 * i))), Xor(Mul4(o[2], Exp4(i)), o[3]))
      roots == {i \in 0 .. 14 : value(i) = 0}
  IN CASE d = 0 -> {}
       [] d = 1 -> {Log4(o[1])}
       [] OTHER -> IF Cardinality(roots) < d THEN {} ELSE roots

\* The corrected word and the number of errors, -1 for too many.
bch15_5_correct(y) ==
  LET s    == bch15_5_calc_syndrome(y)
      epos == bch15_5_calc_epos(bch15_5_calc_omega(s))
      z    == Diff(y, epos)
  IN CASE s = <<0, 0, 0>> -> [word |-> y, errors |-> 0]
       [] s # <<0, 0, 0>> /\ epos # {} /\ bch15_5_encode(Data5(z)) = z ->
            [word |-> z, errors |-> Cardinality(epos)]
       [] OTHER -> [word |-> y, errors |-> -1]

-----------------------------------------------------------------------------
(* bch18_6_correct: the version with a codeword within three errors.  The  *)
(* version the data bits say is tried first.                               *)

BCH18_6_CODES == <<
  31892, 34236, 39577, 42195, 48118, 51042, 55367, 58893, 63784,
  68472, 70749, 76311, 79154, 84390, 87683, 92361, 96236, 102084,
  102881, 110507, 110734, 117786, 119615, 126325, 127568, 133589, 136944,
  141498, 145311, 150283, 152622, 158308, 161089, 167017 >>

VersionWord == [v \in 7 .. 40 |-> Bits(BCH18_6_CODES[v - 6], 18)]

Near(y, v) == Cardinality(Diff(y, VersionWord[v])) < 4

bch18_6_correct(y) ==
  LET x == LET bit(i) == IF i + 12 \in y THEN 2^i ELSE 0
           IN bit(0) + bit(1) + bit(2) + bit(3) + bit(4) + bit(5)
      V == {v \in 7 .. 40 : Near(y, v)}
  IN CASE x \in V -> x
       [] x \notin V /\ V # {} -> CHOOSE v \in V : \A w \in V : v <= w
       [] OTHER -> -1

-----------------------------------------------------------------------------
(* GF(256), by the tables of rs_gf256_init.  RSECC_initLookupTable builds  *)
(* the same ones.                                                          *)

QR_PPOLY == 29

\* p times x.
Double == [p \in 0 .. 255 |-> Xor((2 * p) % 256, IF p >= 128 THEN QR_PPOLY ELSE 0)]

gf_exp ==
  LET p[i \in 0 .. 254] == IF i = 0 THEN 1 ELSE Double[p[i - 1]]
  IN [i \in 0 .. 254 |-> p[i]]

\* log[0] is 0.
gf_log ==
  [a \in 0 .. 255 |-> IF a = 0 THEN 0 ELSE CHOOSE i \in 0 .. 254 : gf_exp[i] = a]

gexp(i)     == gf_exp[i % 255]
glog(a)     == gf_log[a]
gmul(a, b)  == IF a = 0 \/ b = 0 THEN 0 ELSE gexp(glog(a) + glog(b))
gdiv(a, b)  == IF a = 0 THEN 0 ELSE gexp(glog(a) + 255 - glog(b))
hgmul(a, l) == IF a = 0 THEN 0 ELSE gexp(glog(a) + l)

\* The logarithm of a square root.
half(l)  == (l + 255 * (l % 2)) \div 2
gsqrt(a) == IF a = 0 THEN 0 ELSE gexp(half(glog(a)))

-----------------------------------------------------------------------------
(* Roots of polynomials over GF(256), as sequences.                        *)
(* What the code keeps in a local variable and uses more than once is the  *)
(* argument of an operator here.                                           *)

\* z^2 + alpha^l z + c.
Quadratic(z, l, c) == Xor(Xor(gmul(z, z), hgmul(z, l)), c)

\* Walker's formulas for x^2 + alpha^lb x + c, with alpha^lb outside of GF(16):
\* a quadratic in GF(16), then one in GF(4), and back.
BackFrom4(z3, z2, c0, lb) ==
  Xor(z3, hgmul(Xor(hgmul(hgmul(Quadratic(z2, 238, c0), 34), 85), hgmul(z2, 17)), lb))

In4(z3, c0, lb) ==
  BackFrom4(z3,
            gdiv(hgmul(Xor(hgmul(c0, 221), gmul(c0, c0)), 238), Xor(gexp(187), gexp(238))),
            c0, lb)

In16(z3, lb, c) == In4(z3, hgmul(hgmul(Quadratic(z3, lb, c), 510 - 2 * lb), 221), lb)

Walker(g3, lb, c) ==
  IF glog(g3) % 17 # 0 THEN <<>> ELSE << In16(gdiv(g3, Xor(gexp(16 * lb), gexp(lb))), lb, c) >>

WalkerLogs(lb, lc) ==
  Walker(hgmul(Xor(Xor(gexp(14 * lb + lc), gexp(12 * lb + 2 * lc)),
                   Xor(gexp(8 * lb + 4 * lc), gexp(8 * lc))), lb),
         lb, gexp(lc))

\* The roots, of which x is the first but for its scale.
Scaled(x, inc, b) ==
  IF x = <<>> THEN <<>> ELSE << gexp(glog(x[1]) + inc), Xor(gexp(glog(x[1]) + inc), b) >>

QuadraticNonzero(b, c, inc) ==
  Scaled(WalkerLogs((glog(b) + 254 * inc) % 255, (glog(c) + 253 * inc) % 255), inc, b)

\* If b lies in GF(16), x is scaled to move it out.
rs_quadratic_solve(b, c) ==
  CASE b = 0          -> << gsqrt(c) >>
    [] b # 0 /\ c = 0 -> <<0, b>>
    [] OTHER          -> QuadraticNonzero(b, c, IF glog(b) % 17 = 0 THEN 1 ELSE 0)

\* (x + a)^3 = alpha^l.
Cube(a, l) ==
  IF l % 3 # 0 THEN <<>>
  ELSE LET x(i) == gexp(l \div 3 + 85 * i)
       IN << Xor(a, x(0)), Xor(a, x(1)), Xor(a, Xor(x(0), x(1))) >>

\* The roots a + (w + 1/w) alpha^ld, where alpha^lz is w^3.
Triple(a, lz, ld) ==
  CASE lz = 0                  -> <<a>>
    [] lz # 0 /\ lz % 3 # 0    -> <<>>
    [] OTHER ->
         LET lw(i) == lz \div 3 + 85 * i
             x(i)  == gexp(glog(Xor(gexp(lw(i)), gexp(255 - lw(i)))) + ld)
         IN << Xor(x(0), a), Xor(x(1), a), Xor(Xor(x(0), x(1)), a) >>

FromCube(z, a, ld) == IF z = <<>> THEN <<>> ELSE Triple(a, glog(z[1]), ld)

\* x^3 + a x^2 + b x + c with c other than 0; d2 is a^2 + b, and k is a b + c.
CubicNonzero(a, d2, k) ==
  CASE d2 = 0 /\ k = 0 -> <<a>>
    [] d2 = 0 /\ k # 0 -> Cube(a, glog(k))
    [] OTHER -> FromCube(rs_quadratic_solve(gdiv(k, gexp(half(glog(d2)) + glog(d2))), 1),
                         a, half(glog(d2)))

rs_cubic_solve(a, b, c) ==
  IF c = 0
  THEN rs_quadratic_solve(a, b) \o (IF b # 0 THEN <<0>> ELSE <<>>)
  ELSE CubicNonzero(a, Xor(gmul(a, a), b), Xor(gmul(a, b), c))

\* The roots of (x^2 + r x + s) (x^2 + r x + t).
Factored(r, st) ==
  IF Len(st) < 2 THEN <<>> ELSE rs_quadratic_solve(r, st[1]) \o rs_quadratic_solve(r, st[2])

FromCubic(r, c, d) ==
  IF r = <<>> THEN <<>> ELSE Factored(r[1], rs_quadratic_solve(gdiv(c, r[1]), d))

\* 1/y + s for the roots y.
Inverted(y, s) == [i \in DOMAIN y |-> Xor(gexp(255 - glog(y[i])), s)]

With(q, s) == IF Len(q) = 2 /\ (q[1] = s \/ q[2] = s) THEN q ELSE Append(q, s)

\* x^4 + b x^2 + c x + d with d other than 0.
Depressed(b, c, d) ==
  IF c = 0 THEN rs_quadratic_solve(gsqrt(b), gsqrt(d)) ELSE FromCubic(rs_cubic_solve(0, b, c), c, d)

\* With a and d other than 0: r is c / a, s its square root, and t the polynomial's
\* value there.
Shifted(a, b, r, s, t) ==
  IF t # 0
  THEN Inverted(Depressed(hgmul(Xor(b, hgmul(s, glog(a))), 255 - glog(t)),
                          gexp(glog(a) + 255 - glog(t)), gexp(255 - glog(t))), s)
  ELSE With(rs_quadratic_solve(a, Xor(b, r)), s)

ShiftedBy(a, b, d, r) == Shifted(a, b, r, gsqrt(r), Xor(d, Xor(gmul(b, r), gmul(r, r))))

\* x^4 + a x^3 + b x^2 + c x + d.
rs_quartic_solve(a, b, c, d) ==
  CASE d = 0          -> rs_cubic_solve(a, b, c) \o (IF c # 0 THEN <<0>> ELSE <<>>)
    [] d # 0 /\ a # 0 -> ShiftedBy(a, b, d, hgmul(c, 255 - glog(a)))
    [] OTHER          -> Depressed(b, c, d)

-----------------------------------------------------------------------------
(* rs.c: correction of a block.                                            *)

\* Horner's rule over the block, with alpha^k for x.
Evaluate(data, k) ==
  LET n == Cardinality(DOMAIN data)
      sum[i \in 0 .. n] == IF i = 0 THEN 0 ELSE Xor(data[i - 1], hgmul(sum[i - 1], k))
  IN sum[n]

rs_calc_syndrome(data, npar) == Stored([j \in 0 .. npar - 1 |-> Evaluate(data, j)])

\* Round n of rs_modified_berlekamp_massey: the error locator lambda of degree
\* l, and tt, the correction to it.
Massey(s, npar, n, m) ==
  LET tt == Stored([i \in 0 .. npar |-> IF i = 0 THEN 0 ELSE m.tt[i - 1]])
      d  == XorSum([i \in 0 .. m.l |-> gmul(m.lambda[i], s[n - 1 - i])], 0, m.l)
      lambda == Stored([i \in 0 .. npar |-> Xor(m.lambda[i], hgmul(tt[i], glog(d)))])
  IN CASE d = 0 -> [m EXCEPT !.tt = tt]
       [] d # 0 /\ m.l < n - m.k ->
            [lambda |-> lambda,
             tt     |-> Stored([i \in 0 .. npar |-> hgmul(m.lambda[i], 255 - glog(d))]),
             l      |-> n - m.k,
             k      |-> n - m.l]
       [] OTHER -> [m EXCEPT !.tt = tt, !.lambda = lambda]

rs_modified_berlekamp_massey(s, npar) ==
  LET one == [i \in 0 .. npar |-> IF i = 0 THEN 1 ELSE 0]
      after[n \in 0 .. npar] ==
        IF n = 0 THEN [lambda |-> one, tt |-> one, l |-> 0, k |-> 0]
        ELSE Massey(s, npar, n, after[n - 1])
  IN after[npar]

\* The first npar coefficients of lambda times s.
Omega(lambda, l, s, npar) ==
  Stored([i \in 0 .. npar - 1 |->
     XorSum([j \in 0 .. npar - 1 |-> IF j <= l /\ j <= i THEN gmul(lambda[j], s[i - j]) ELSE 0],
            0, npar - 1)])

\* The places, counted from the end of the block, where the locator says errors
\* are: by the explicit solutions up to four errors, else by trying them all.
rs_find_roots(lambda, nerrors, ndata) ==
  LET coef(i)    == IF i \in DOMAIN lambda THEN lambda[i] ELSE 0
      IsLog(r)   == r # 0 /\ glog(r) < ndata
      IsError(a) == XorSum([i \in 0 .. nerrors |-> hgmul(lambda[nerrors - i], a * i)],
                           0, nerrors) = 0
      Logs(x)    == [i \in DOMAIN x |-> glog(x[i])]
  IN IF nerrors <= 4
     THEN Logs(SelectSeq(rs_quartic_solve(coef(1), coef(2), coef(3), coef(4)), IsLog))
     ELSE SelectSeq([i \in 1 .. ndata |-> i - 1], IsError)

\* The error at a place.
Magnitude(lambda, omega, npar, alpha) ==
  LET a == XorSum([j \in 0 .. npar - 1 |-> hgmul(omega[j], j * (255 - alpha))], 0, npar - 1)
      b == XorSum([j \in 0 .. npar |-> IF j % 2 = 1 THEN hgmul(lambda[j], j * (255 - alpha)) ELSE 0],
                  0, npar)
  IN gdiv(a, b)

\* The block with the errors at the places epos put right, which the locator must
\* have as many of as its degree; -1 for too many errors.
Corrected(data, npar, s, m, epos) ==
  LET omega    == Omega(m.lambda, m.l, s, npar)
      place(i) == Cardinality(DOMAIN data) - 1 - i
  IN IF m.l <= 0 \/ m.l > npar \div 2 \/ Len(epos) < m.l
     THEN [data |-> data, errors |-> -1]
     ELSE [errors |-> m.l,
           data |-> [i \in DOMAIN data |->
                       IF \E r \in DOMAIN epos : epos[r] = place(i)
                       THEN Xor(data[i], Magnitude(m.lambda, omega, npar, place(i)))
                       ELSE data[i]]]

Located(data, npar, s, m) ==
  Corrected(data, npar, s, m, rs_find_roots(m.lambda, m.l, Cardinality(DOMAIN data)))

Checked(data, npar, s) ==
  IF \A j \in DOMAIN s : s[j] = 0
  THEN [data |-> data, errors |-> 0]
  ELSE Located(data, npar, s, rs_modified_berlekamp_massey(s, npar))

\* The block after correction and the number of errors.
rs_correct(data, npar) == Checked(data, npar, rs_calc_syndrome(data, npar))

-----------------------------------------------------------------------------
(* rsecc.c.                                                                *)

\* generator_init: the product of x + alpha^i for i < length.
Times(g, n) ==
  Stored([j \in 0 .. n |->
     Xor(IF j > 0 THEN g[j - 1] ELSE 0, IF j < n THEN hgmul(g[j], n - 1) ELSE 0)])
Generator(length) ==
  LET product[n \in 0 .. length] == IF n = 0 THEN [i \in 0 .. 0 |-> 1] ELSE Times(product[n - 1], n)
  IN product[length]

\* RSECC_encode: the shift register after one more byte, and what is left of the
\* data after division by the generator gen.
ShiftIn(feedback, gen, ecc, length) ==
  Stored([j \in 0 .. length - 1 |->
     Xor(IF j + 1 < length THEN ecc[j + 1] ELSE 0, gmul(feedback, gen[length - 1 - j]))])
Remaining(data, gen, length) ==
  LET n == Cardinality(DOMAIN data)
      Next1(byte, ecc) == ShiftIn(Xor(byte, ecc[0]), gen, ecc, length)
      ecc[i \in 0 .. n] == IF i = 0 THEN [j \in 0 .. length - 1 |-> 0] ELSE Next1(data[i - 1], ecc[i - 1])
  IN ecc[n]

RSECC_encode(data, length) == Remaining(data, Generator(length), length)

\* A block as it is drawn.
Block(data, length) ==
  LET n   == Cardinality(DOMAIN data)
      ecc == RSECC_encode(data, length)
  IN Stored([i \in 0 .. n + length - 1 |-> IF i < n THEN data[i] ELSE ecc[i - n]])
=============================================================================
