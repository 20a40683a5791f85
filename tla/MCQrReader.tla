------------------------------- MODULE MCQrReader -------------------------------
(* QR codes of every version, with every mask and every level among them, and  *)
(* those of main.c and the smallest ones with damage.                           *)
EXTENDS QrReader

Code(version, level, m) == [version |-> version, level |-> level, mask |-> m]

\* The codes of main.c, and small ones whose blocks are not corrected as far as
\* they could be.
Shown == { Code(s.version, s.level, 3) : s \in Settings }
Small == { Code(1, l, 5) : l \in Levels } \cup { Code(2, 0, 6) }

MCCodes == { Code(v, v % 4, v % 8) : v \in Versions } \cup Shown \cup Small

Lone == { Code(24, 3, 3) }

\* No damage, up to three wrong bits, and copies in which another version can be
\* read.
MCVersionDamage ==
  LET few  == { {}, {5}, {3, 12}, {12, 14, 16}, {0, 9, 17} }
      lost == { Diff(VersionWord[24], VersionWord[v]) : v \in {23, 25, 26} } \cup {0 .. 17}
  IN [c \in MCCodes |->
        IF c \in Shown THEN (few \X few) \cup (few \X lost) \cup (lost \X few) ELSE {<<{}, {}>>}]

MCFormatDamage ==
  LET few == { {}, {0}, {14}, {3, 12}, {10, 12, 14}, {0, 7, 8}, {1, 2, 3}, {8, 11, 13} }
  IN [c \in MCCodes |-> IF c \in Shown \cup Small THEN few \X few ELSE {<<{}, {}>>}]

\* One copy with two bits wrong, and another one that is all light.
LostFormat ==
  [c \in MCCodes |-> { <<{1, k}, Bits(formatInfo[c.level + 1][c.mask + 1], 15)>> : k \in 10 .. 14 }]

\* n wrong codewords, every step-th of m.
Spread(n, m, step) ==
  [i \in {(j * step) % m : j \in 0 .. n - 1} |-> (((i * 29) + n) % 255) + 1]

\* Half of the codewords in which two blocks differ.
Halfway(spec) ==
  LET word  == Block([i \in 0 .. spec.data - 1 |-> IF i = 0 THEN 1 ELSE 0], spec.ecc)
      where == {i \in DOMAIN word : word[i] # 0}
  IN { [i \in {i \in where : (i + 1) % 2 = k \/ i < s} |-> word[i]] : k \in {0, 1}, s \in {0, 2} }

MCBlockDamage ==
  [c \in MCCodes |->
     LET spec == EccSpec(c.version, c.level)
         m    == spec.data + spec.ecc
     IN CASE c \in Small -> Halfway(spec) \cup
               { Spread(n, m, s) : n \in 0 .. spec.ecc - Correctable(c.version, c.level), s \in {1, 5} }
          [] c \in Shown -> { Spread(n, m, 1) : n \in 0 .. spec.ecc \div 2 }
          [] OTHER       -> { Spread(n, m, 1) : n \in {0, spec.ecc \div 2} }]

MCSizes == {1, 2, 17, 115, 220, 255, 256, 510, 511, 520, 535, 1273}
=============================================================================
