--------------------------------- MODULE QrText ---------------------------------
(***************************************************************************)
(* qr_code_data_list_extract_text: the codes that were read in an image    *)
(* become symbols.  Codes of a structured append group are put together in *)
(* the order of their indices, a part that is missing leaves a mark.  The  *)
(* decoder page sets ZBAR_CFG_BINARY: bytes are copied as they are, and no *)
(* text encoding is looked for.                                            *)
(*                                                                         *)
(* The buffer of a text has room for what the codes hold, but not for the  *)
(* marks: a text that grows too long is dropped or written past the end of *)
(* its buffer.  From then on nothing is known of the memory, and the       *)
(* program may go on or trap.                                              *)
(*                                                                         *)
(* A byte of text is known by the code, the entry and the place it comes   *)
(* from.  Left out are ECI, whose conversions are iconv's, FNC1's escapes  *)
(* in the alphanumeric mode, bounding boxes, and the slices of the text    *)
(* that belong to the parts of a group.                                    *)
(***************************************************************************)
EXTENDS Integers, FiniteSets, SequencesExt

CONSTANTS
  QrLists    \* the codes of an image, as they were read

\* qr_code_data_entry and qr_code_data.  Index and size of a group are read from the
\* code and not compared with each other; size 0: a code of its own.
Entry == [mode : {"NUM", "ALNUM", "BYTE", "KANJI"}, len : Nat]
Code == [sa_size : 0 .. 16, sa_index : 0 .. 15, sa_parity : 0 .. 255, entries : Seq(Entry)]

ASSUME ListAssumption == QrLists \subseteq Seq(Code)

VARIABLES
  list,      \* qrdata
  mark,      \* the codes that are in a group that was put together
  next_code, \* i: the next code to look at
  symbols,   \* the symbols made so far
  dropped,   \* history: the groups whose text did not fit
  overran,   \* history: the groups whose text went past the end of its buffer
  trapped    \* the program stopped on its broken memory

vars == <<list, mark, next_code, symbols, dropped, overran, trapped>>

NUL == <<0, 0, 0>>

\* The bytes of an entry, and of a whole code.
Bytes(c, k) == [n \in 1 .. list[c].entries[k].len |-> <<c, k, n>>]
Text(c) == FlattenSeq([k \in DOMAIN list[c].entries |-> Bytes(c, k)])

-----------------------------------------------------------------------------
(* Step 0: the codes of a group, by index; 0 where there is none.          *)

\* Faulty: codes of another group of the same size are taken too.
Belongs_AnyParity(i, j) == j >= i /\ j \notin mark /\ list[j].sa_size = list[i].sa_size

Belongs(i, j) ==
  /\ j >= i /\ j \notin mark
  /\ list[j].sa_size = list[i].sa_size /\ list[j].sa_parity = list[i].sa_parity

\* Of two codes with one index the first is taken.
Group(i) ==
  [n \in 0 .. list[i].sa_size - 1 |->
    LET those == {j \in DOMAIN list : Belongs(i, j) /\ list[j].sa_index = n}
    IN IF those = {} THEN 0 ELSE CHOOSE j \in those : \A k \in those : j <= k]

\* A code of its own is a group of one.
Members(i) == IF list[i].sa_size = 0 THEN [n \in 0 .. 0 |-> i] ELSE Group(i)

\* Codes whose index is not below the size of their group.  sa[] has sixteen slots
\* and those of the group are set: such a code meets a slot that was not.
Misplaced(j) == list[j].sa_size # 0 /\ list[j].sa_index >= list[j].sa_size
Strays(i) == {j \in DOMAIN list : Belongs(i, j) /\ Misplaced(j)}

\* Where that slot is negative the first of them is marked, and not looked at again.
Marked(i, negative) ==
  {j \in Strays(i) : /\ list[j].sa_index \in negative
                     /\ \A k \in Strays(i) : list[k].sa_index = list[j].sa_index => j <= k}

\* The codes of a group that are there.
Codes(sa) == {sa[n] : n \in {m \in DOMAIN sa : sa[m] # 0}}

-----------------------------------------------------------------------------
(* Step 1: the size of the buffer, four bytes for each in a byte mode.     *)

\* Faulty: a byte is taken to become one byte of text, as a digit does.
Shift_Same(e) == 1

Shift(e) == IF e.mode \in {"BYTE", "KANJI"} THEN 4 ELSE 1
Sum(seq) == FoldLeft(LAMBDA x, y : x + y, 0, seq)
Capacity(c) == Sum([k \in DOMAIN list[c].entries |-> Shift(list[c].entries[k]) * list[c].entries[k].len])
sa_ctext(sa) == Sum([n \in 1 .. Cardinality(DOMAIN sa) |-> IF sa[n - 1] = 0 THEN 0 ELSE Capacity(sa[n - 1])])

-----------------------------------------------------------------------------
(* Step 2: the entries.  out has the text, the bytes that wait in bytebuf, *)
(* whether the text did not fit and whether a code is missing.             *)

Flush(out) == [out EXCEPT !.text = @ \o out.bytebuf, !.bytebuf = <<>>]

\* sa_ctext-sa_ntext >= len, in size_t: once the text is longer than its buffer the
\* difference wraps to a number that no length reaches.
HasRoom(size, ntext, len) == ntext > size \/ size - ntext >= len

\* Faulty: bytes wait until the end of the code.
AddEntry_LateBytes(out, c, k, size) ==
  IF list[c].entries[k].mode \in {"BYTE", "KANJI"} THEN [out EXCEPT !.bytebuf = @ \o Bytes(c, k)]
  ELSE [out EXCEPT !.text = @ \o Bytes(c, k)]

AddEntry(out, c, k, size) ==
  LET e == list[c].entries[k]
      f == Flush(out)
  IN IF e.mode \in {"BYTE", "KANJI"} THEN [out EXCEPT !.bytebuf = @ \o Bytes(c, k)]
     ELSE IF HasRoom(size, Len(f.text), e.len) THEN [f EXCEPT !.text = @ \o Bytes(c, k)]
     ELSE [f EXCEPT !.err = TRUE]

AddCode(out, c, size) ==
  LET done == FoldLeft(LAMBDA o, k : IF o.err THEN o ELSE AddEntry(o, c, k, size), out,
                       [k \in DOMAIN list[c].entries |-> k])
  IN IF done.err THEN done ELSE Flush(done)

\* Missing codes in a row: one placeholder, and a mark in the text if others follow,
\* which is written without a look at the size.
AddGap(out, last) ==
  [out EXCEPT !.partial = TRUE, !.text = IF last THEN @ ELSE Append(@, NUL)]

AddMember(out, sa, n, size) ==
  LET last == \A k \in DOMAIN sa : k >= n => sa[k] = 0
      gap == n > 0 /\ sa[n - 1] = 0
  IN IF out.err \/ (gap /\ sa[n] = 0) THEN out
     ELSE IF sa[n] = 0 THEN AddGap(out, last)
     ELSE AddCode(out, sa[n], size)

Convert(sa) ==
  FoldLeft(LAMBDA out, n : AddMember(out, sa, n - 1, sa_ctext(sa)),
           [text |-> <<>>, bytebuf |-> <<>>, err |-> FALSE, partial |-> FALSE],
           [n \in 1 .. Cardinality(DOMAIN sa) |-> n])

\* The buffer has one byte more than sa_ctext, for the NUL that ends the text.
Overruns(sa, out) == ~out.err /\ Len(out.text) > sa_ctext(sa)

Symbol(sa, out) == [members |-> sa, text |-> out.text, partial |-> out.partial]

-----------------------------------------------------------------------------
Init ==
  /\ list \in QrLists
  /\ mark = {}
  /\ next_code = 1
  /\ symbols = <<>>
  /\ dropped = {} /\ overran = {} /\ trapped = FALSE

Skip ==
  /\ ~trapped /\ next_code <= Len(list) /\ next_code \in mark
  /\ next_code' = next_code + 1
  /\ UNCHANGED <<list, mark, symbols, dropped, overran, trapped>>

\* One round of the outer loop.  A group whose text did not fit is dropped, one that
\* went past its buffer is reported.
Extract ==
  /\ ~trapped /\ next_code <= Len(list) /\ next_code \notin mark
  /\ LET sa == Members(next_code)
         out == Convert(sa)
     IN /\ \E negative \in SUBSET {list[j].sa_index : j \in Strays(next_code)} :
             mark' = IF list[next_code].sa_size = 0 THEN mark
                     ELSE mark \union Codes(sa) \union Marked(next_code, negative)
        /\ overran' = IF Overruns(sa, out) THEN overran \union {sa} ELSE overran
        /\ IF out.err THEN /\ dropped' = dropped \union {sa}
                          /\ symbols' = symbols
           ELSE /\ symbols' = Append(symbols, Symbol(sa, out))
                /\ dropped' = dropped
  /\ next_code' = next_code + 1
  /\ UNCHANGED <<list, trapped>>

\* What was written over is used, by the allocator or by the decoder.
Trap ==
  /\ overran # {} /\ ~trapped
  /\ trapped' = TRUE
  /\ UNCHANGED <<list, mark, next_code, symbols, dropped, overran>>

Next == Skip \/ Extract \/ Trap

Spec == Init /\ [][Next]_vars /\ WF_vars(Next)

-----------------------------------------------------------------------------
Done == next_code > Len(list)

\* No text went past its buffer: of the memory nothing else is known.  Step 1 of the code
\* is there to see to it, but does not count the marks, so it does not always hold.
Sound == overran = {}

\* As long as the memory is sound, a group is what belongs together: one size, one
\* parity, each at its index, and no code is in two symbols, so that two groups in one
\* image are not mixed up.
OfOneGroup(sa) ==
  \A m, n \in DOMAIN sa : sa[m] # 0 /\ sa[n] # 0 /\ list[sa[n]].sa_size # 0 =>
    /\ list[sa[n]].sa_index = n
    /\ list[sa[m]].sa_size = list[sa[n]].sa_size
    /\ list[sa[m]].sa_parity = list[sa[n]].sa_parity
Apart ==
  /\ \A k \in DOMAIN symbols : OfOneGroup(symbols[k].members)
  /\ \A k, l \in DOMAIN symbols :
       k # l => Codes(symbols[k].members) \intersect Codes(symbols[l].members) = {}
GroupsKeptApart == Sound => Apart

\* As long as the memory is sound, the text of a symbol is that of its codes in the
\* order of their indices, byte by byte, with a mark for every run of missing codes that
\* another code follows; and the symbol says that it is partial if a code is missing,
\* and only then.
Joined(sa) ==
  FlattenSeq([k \in 1 .. Cardinality(DOMAIN sa) |->
    IF sa[k - 1] = 0 THEN <<>>
    ELSE (IF k > 1 /\ sa[k - 2] = 0 THEN <<NUL>> ELSE <<>>) \o Text(sa[k - 1])])
InOrder(symbol) ==
  /\ symbol.text = Joined(symbol.members)
  /\ symbol.partial <=> \E n \in DOMAIN symbol.members : symbol.members[n] = 0
TextInOrder == Sound => \A k \in DOMAIN symbols : InOrder(symbols[k])

\* The codes that are taken, into a symbol or into a group that is dropped, are at the
\* end those whose index is below the size of their group: no other is ever in a symbol.
Taken == {c \in DOMAIN list : \/ \E k \in DOMAIN symbols : c \in Codes(symbols[k].members)
                              \/ \E sa \in dropped : c \in Codes(sa)}
Placed == {c \in DOMAIN list : ~Misplaced(c)}
EveryCodeTaken == Sound /\ Done => Taken = Placed

\* No code with such an index gets lost, and no text goes past its buffer, but in a
\* group that has more marks for missing codes than its buffer has bytes to spare: three
\* for each byte that is not a digit.
InBytes(c) == Sum([k \in DOMAIN list[c].entries |->
  IF list[c].entries[k].mode \in {"BYTE", "KANJI"} THEN list[c].entries[k].len ELSE 0])
Spare(sa) == 3 * Sum([n \in 1 .. Cardinality(DOMAIN sa) |-> IF sa[n - 1] = 0 THEN 0 ELSE InBytes(sa[n - 1])])
Marks(sa) == {n \in DOMAIN sa : n > 0 /\ sa[n] # 0 /\ sa[n - 1] = 0}
TooFull(sa) == Spare(sa) < Cardinality(Marks(sa))
NoCodeLost ==
  /\ EveryCodeTaken
  /\ \A sa \in dropped \union overran : TooFull(sa)
=============================================================================
