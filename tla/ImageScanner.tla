------------------------------ MODULE ImageScanner ------------------------------
(***************************************************************************)
(* zbar's image scanner as the keeper of what it finds: symbols, the sets  *)
(* they are in, who refers to them, the symbols kept for reuse and the     *)
(* cache that tells a new result from one of the last image.  A set is     *)
(* shared by the scanner, images, the processor and the application, and   *)
(* every scan takes back what nobody else holds.                           *)
(*                                                                         *)
(* A list linked by next is a sequence here, and list has all of them: the *)
(* sets' lists, the cache, and the buckets of symbols for reuse.  Memory   *)
(* is handed out lowest first.  Time is in seconds, as differences.        *)
(***************************************************************************)
EXTENDS Integers, FiniteSets, SequencesExt

CONSTANTS
  Setups,        \* the ways to use a scanner: records, see the definitions below
  Type(_),       \* a code's zbar_symbol_type_t
  Length(_),     \*   the bytes of its payload, with the final 0
  Parts(_),      \*   the codes of a structured append group, 0 for other codes
  Uncertainty(_), \*  ZBAR_CFG_UNCERTAINTY of its symbology
  Reversed,      \* codes in light on dark: seen in the inverted copy only
  Composite,     \* the code that is put together from an EAN code and an add-on
  Images,        \* the application's images
  Copies,        \* the converted and the inverted copy: <<tmp, inv>>
  Sets,          \* the sets that can be allocated: numbers
  Passes,        \* how many lines in a row cross a code: 4 are enough for any filter
  None, Free     \* NULL, and memory that is not allocated

VARIABLES
  setup,    \* how this scanner is used
  mem,      \* symbols, sets, lists, the scanner's and the images' sets
  proc,     \* proc->syms
  held,     \* the sets and symbols the application has references to
  cache_on, \* enable_cache
  scan,     \* the scan in progress, or Idle
  alive,    \* the scanner is not destroyed
  news      \* history: how long ago a code was seen, whether it was reported since, and
            \*   whether the cache was dropped since

\* What images can show: a symbology and a payload each.
Codes == setup.codes
\* ZBAR_CFG_TEST_INVERTED.
TestInverted == setup.test_inverted
\* ean_config: an EAN code and an add-on are put together.
EanConfig == setup.ean_config
\* The scanner is a processor's, and not the application's own.
Processed == setup.processed
\* The cache is enabled at times.
CacheAllowed == setup.cache
\* Bounds on what is allocated, on what is found in an image, and on what the
\* application holds at a time.
Symbols == 1 .. setup.symbols
MaxFinds == setup.finds
MaxHeld == setup.held

vars == <<setup, mem, proc, held, cache_on, scan, alive, news>>

CACHE_PROXIMITY == 1
CACHE_HYSTERESIS == 2
CACHE_TIMEOUT == 2 * CACHE_HYSTERESIS
RECYCLE_BUCKETS == 5

QRCODE == 64
CODABAR == 38
COMPOSITE == 15
ISBN10 == 10
EAN5 == 5
PARTIAL == 1
DATABARS == {34, 35}

Idle == [img |-> None, on |-> None, lines |-> FALSE, found |-> 0]
AllImages == Images \union {Copies[1], Copies[2]}

\* Whose lists there are: sets 1, 2, ..., the cache, and the buckets.
Cache == 0
Bucket(i) == -1 - i
Buckets == {Bucket(i) : i \in 0 .. RECYCLE_BUCKETS - 1}
Owners == Sets \union {Cache} \union Buckets

\* A symbol as calloc leaves it.
Blank == [code |-> None, refs |-> 0, comps |-> None, alloc |-> 0, count |-> 0, quality |-> 0, age |-> 0]

Unseen == [ago |-> CACHE_HYSTERESIS, run |-> 0, shown |-> FALSE, lost |-> FALSE]

Listed(m, s) == {o \in Owners : s \in ToSet(m.list[o])}
Lowest(S) == CHOOSE x \in S : \A y \in S : x <= y
FreeSymbols(m) == {s \in Symbols : m.sym[s] = Free}
FreeSets(m) == {t \in Sets : m.set[t] = Free}

-----------------------------------------------------------------------------
(* References: symbol.h, symbol.c.                                         *)

\* _zbar_symbol_refcnt of a symbol that has no parts.
UnrefPlain(m, s) ==
  IF m.sym[s] = Free \/ m.sym[s].refs <= 0 THEN [m EXCEPT !.fault = TRUE]
  ELSE IF m.sym[s].refs > 1 THEN [m EXCEPT !.sym[s].refs = @ - 1]
  ELSE [m EXCEPT !.sym[s] = Free]

\* _zbar_symbol_set_free, for a set of such symbols.
FreePlainSet(m, t) ==
  [FoldLeft(UnrefPlain, m, m.list[t]) EXCEPT !.set[t] = Free, !.list[t] = <<>>]

\* _zbar_symbol_free.
FreeSymbol(m, s) ==
  LET t == m.sym[s].comps
      n == IF t = None THEN m
           ELSE IF m.set[t].refs > 1 THEN [m EXCEPT !.set[t].refs = @ - 1]
           ELSE FreePlainSet(m, t)
  IN [n EXCEPT !.sym[s] = Free]

Unref(m, s) ==
  IF m.sym[s] # Free /\ m.sym[s].refs = 1 THEN FreeSymbol(m, s) ELSE UnrefPlain(m, s)

FreeSet(m, t) == [FoldLeft(Unref, m, m.list[t]) EXCEPT !.set[t] = Free, !.list[t] = <<>>]

\* zbar_symbol_set_ref.
SetRef(m, t, delta) ==
  IF m.set[t] = Free \/ m.set[t].refs + delta < 0 THEN [m EXCEPT !.fault = TRUE]
  ELSE IF m.set[t].refs + delta = 0 /\ delta < 0 THEN FreeSet(m, t)
  ELSE [m EXCEPT !.set[t].refs = @ + delta]

\* _zbar_symbol_set_create: the new set is the first that was free.
NewSet(m) == Lowest(FreeSets(m))
SetCreate(m) == [m EXCEPT !.set[NewSet(m)] = [refs |-> 1, nsyms |-> 0, tail |-> None]]

-----------------------------------------------------------------------------
(* Reuse.                                                                  *)

\* The bucket that a symbol with so many bytes goes to, and the first that is
\* searched for that many: RECYCLE_BUCKETS if there is none.
BucketFor(size) == Lowest({i \in 0 .. RECYCLE_BUCKETS : size < 4^i \/ i = RECYCLE_BUCKETS})
SearchFrom(size) == Lowest({i \in 0 .. RECYCLE_BUCKETS - 1 : size <= 4^i \/ i = RECYCLE_BUCKETS - 1})

\* A bucket is kept in the order of numbers: which of its symbols is taken next does
\* not matter.
Sorted(S) == SetToSortSeq(S, <)

\* A symbol that nobody refers to goes to a bucket, and a large one loses its data.
Shelve(m, s) ==
  LET large == BucketFor(m.sym[s].alloc) = RECYCLE_BUCKETS
      i == IF large THEN 0 ELSE BucketFor(m.sym[s].alloc)
  IN [m EXCEPT !.sym[s] = [Blank EXCEPT !.alloc = IF large THEN 0 ELSE m.sym[s].alloc],
               !.list[Bucket(i)] = Sorted(ToSet(@) \union {s})]

\* _zbar_image_scanner_recycle_syms of one symbol without parts: one that is
\* still referred to is only unlinked.
RecyclePlain(m, s) ==
  IF m.sym[s] = Free THEN [m EXCEPT !.fault = TRUE]
  ELSE IF m.sym[s].refs > 1
       THEN [m EXCEPT !.sym[s].refs = @ - 1, !.fault = @ \/ m.sym[s].alloc = 0]
  ELSE Shelve(m, s)

\* ... and of any symbol: the parts go first.
Recycle(m, s) ==
  IF m.sym[s] = Free \/ m.sym[s].refs > 1 \/ m.sym[s].comps = None THEN RecyclePlain(m, s)
  ELSE LET t == m.sym[s].comps
           n == FoldLeft(RecyclePlain, m, m.list[t])
       IN Shelve([n EXCEPT !.set[t] = Free, !.list[t] = <<>>,
                           !.fault = @ \/ m.set[t].refs # 1], s)

RecycleAll(m, list) == FoldLeft(Recycle, m, list)

\* Faulty: a set is emptied although others hold it.
RecycleSet_EvenShared(m, t) ==
  [RecycleAll(m, m.list[t]) EXCEPT !.set[t] = [refs |-> m.set[t].refs - 1, nsyms |-> 0, tail |-> None],
                                   !.list[t] = <<>>]

\* recycle_syms: nothing but the count if others hold the set.
RecycleSet(m, t) ==
  IF m.set[t].refs > 1 THEN [m EXCEPT !.set[t].refs = @ - 1]
  ELSE LET n == RecycleAll(m, m.list[t])
       IN [n EXCEPT !.set[t] = [refs |-> 0, nsyms |-> 0, tail |-> None], !.list[t] = <<>>]

\* The scanner's own set in zbar_image_scanner_recycle_image.
RecycleResults(m) ==
  LET t == m.results IN
  IF t = None \/ m.set[t].refs = 0 THEN m
  ELSE IF m.set[t].refs > 1 THEN [RecycleSet(m, t) EXCEPT !.results = None]
  ELSE RecycleSet(m, t)

\* ... and then the image's set: of two sets that are left one is kept.
KeepOne(m, t, shared) ==
  IF shared THEN m
  ELSE IF m.results # None THEN FreeSet(m, t)
  ELSE [m EXCEPT !.results = t]
RecycleOther(m, t) ==
  IF t = None THEN m ELSE KeepOne(RecycleSet(m, t), t, m.set[t].refs > 1)

\* zbar_image_scanner_recycle_image.
RecycleImage(m, i) == [RecycleOther(RecycleResults(m), m.image[i]) EXCEPT !.image[i] = None]

\* _zbar_image_scanner_alloc_sym: which symbol it returns, and what it leaves.  The
\* bucket of symbols without data is never searched.
Reusable(m, size) ==
  {i \in 1 .. SearchFrom(size) : m.list[Bucket(i)] # <<>>}
NewSymbol(m, size) ==
  IF Reusable(m, size) = {} THEN Lowest(FreeSymbols(m))
  ELSE Head(m.list[Bucket(CHOOSE i \in Reusable(m, size) :
                                 \A j \in Reusable(m, size) : j <= i)])
AllocSym(m, code, size) ==
  LET s == NewSymbol(m, size)
      old == IF m.sym[s] = Free THEN Blank ELSE m.sym[s]
      alloc == IF size = 0 \/ old.alloc < size THEN size ELSE old.alloc
  IN [m EXCEPT !.sym[s] = [old EXCEPT !.code = code, !.quality = 1, !.alloc = alloc],
               !.fault = @ \/ old.comps # None,
               !.list = [o \in Owners |-> IF o \in Buckets THEN Remove(@[o], s) ELSE @[o]]]

-----------------------------------------------------------------------------
(* The cache.                                                              *)

\* cache_lookup: stale entries in front of the one that matches are recycled.
Entry(m, code) == SelectInSeq(m.list[Cache], LAMBDA e : m.sym[e].code = code)
CacheLookup(m, code) ==
  LET list == m.list[Cache]
      n == Entry(m, code)
      front == IF n = 0 THEN list ELSE SubSeq(list, 1, n - 1)
      back == IF n = 0 THEN <<>> ELSE SubSeq(list, n, Len(list))
      Stale(e) == m.sym[e].age > CACHE_TIMEOUT
  IN RecycleAll([m EXCEPT !.list[Cache] = SelectSeq(front, LAMBDA e : ~Stale(e)) \o back],
                SelectSeq(front, Stale))

\* Faulty: a code counts as new after CACHE_PROXIMITY.
Recount_ShortHysteresis(count, age, code) ==
  IF age >= CACHE_PROXIMITY THEN -Uncertainty(code) ELSE IF count < 1 THEN count + 1 ELSE count
\* What becomes of the entry's count when its code is seen again after age.  Above
\* 0 it only says that there were duplicates, and counts no further than 1.
Recount(count, age, code) ==
  LET near == age < CACHE_PROXIMITY
      far == age >= CACHE_HYSTERESIS
      dup == count >= 0
  IN IF (~dup /\ ~near) \/ far THEN -Uncertainty(code)
     ELSE IF (dup \/ near) /\ count < 1 THEN count + 1 ELSE count

\* cache_sym, for symbol s that was just seen: it gets an entry if it has none, and
\* the count that its entry then has.
EntryOf(m, code) == m.list[Cache][Entry(m, code)]
NewEntry(m, e) ==
  [m EXCEPT !.sym[e].age = CACHE_HYSTERESIS, !.sym[e].count = 0, !.list[Cache] = <<e>> \o @]
Remembered(m, code) ==
  IF Entry(m, code) # 0 THEN m
  ELSE NewEntry(AllocSym(m, code, Length(code)), NewSymbol(m, Length(code)))
CountedIn(m, e, s, count) ==
  [m EXCEPT !.sym[e].age = 0, !.sym[e].count = count, !.sym[s].count = count]
Counted(m, e, s) == CountedIn(m, e, s, Recount(m.sym[e].count, m.sym[e].age, m.sym[e].code))
CountedAs(m, s, code) == Counted(m, EntryOf(m, code), s)
CacheSym(m, s) ==
  IF ~cache_on THEN [m EXCEPT !.sym[s].count = 0]
  ELSE CountedAs(Remembered(CacheLookup(m, m.sym[s].code), m.sym[s].code), s, m.sym[s].code)

\* The link in _zbar_image_scanner_add_sym: a verified symbol goes behind the tail,
\* in whatever list the tail is.
Link(m, s) ==
  LET t == m.results
      tail == m.set[t].tail
      After(list) == LET k == SelectInSeq(list, LAMBDA x : x = tail) IN InsertAt(list, k + 1, s)
  IN IF m.sym[s].count # 0 \/ tail = None
     THEN [m EXCEPT !.list[t] = <<s>> \o @]
     ELSE [m EXCEPT !.list = [o \in Owners |-> IF o \in Listed(m, tail) THEN After(@[o]) ELSE @[o]],
                    !.fault = @ \/ Listed(m, tail) = {}]

\* _zbar_image_scanner_add_sym.
Added(m, s) ==
  LET t == m.results
      verified == m.sym[s].count = 0
  IN [Link(m, s) EXCEPT !.set[t].nsyms = IF verified THEN @ + 1 ELSE @,
                        !.set[t].tail = IF ~verified /\ @ = None THEN s ELSE @,
                        !.sym[s].refs = @ + 1]
AddSym(m, s) == Added(CacheSym(m, s), s)

-----------------------------------------------------------------------------
(* A scan.                                                                 *)

\* Faulty: one reference for the scanner and the image together.
Shared_OneReference(m, i) ==
  LET t == IF m.results # None THEN m.results ELSE NewSet(m)
  IN [SetRef(IF m.results # None THEN m ELSE SetCreate(m), t, 1) EXCEPT !.results = t, !.image[i] = t]

\* The start of _zbar_scan_image on image i, which gets the scanner's set.
Shared(m, i) ==
  IF m.results # None
  THEN [SetRef(m, m.results, 2) EXCEPT !.image[i] = m.results]
  ELSE [SetRef(SetCreate(m), NewSet(m), 1) EXCEPT !.results = NewSet(m), !.image[i] = NewSet(m)]
Start(m, i) == Shared(RecycleImage(m, i), i)

\* zbar_scan_image on an image of the application's.
ScanImage(i) ==
  /\ scan = Idle /\ alive /\ ~Processed
  /\ mem.image[i] # Free
  /\ FreeSets(mem) # {}
  /\ mem' = Start(mem, i)
  /\ scan' = [img |-> i, on |-> i, lines |-> TRUE, found |-> 0]
  /\ UNCHANGED <<setup, proc, held, cache_on, alive, news>>

\* The processor lets go of its results.
Released == IF proc = None THEN mem ELSE SetRef(mem, proc, -1)

\* _zbar_process_image up to the scan: the processor's results are dropped, and a
\* converted copy is scanned.
ProcessImage(i) ==
  /\ scan = Idle /\ alive /\ Processed
  /\ mem.image[i] # Free
  /\ Cardinality(FreeSets(mem)) >= 2
  /\ mem' = Start([RecycleImage(Released, i) EXCEPT !.image[Copies[1]] = None], Copies[1])
  /\ proc' = None
  /\ scan' = [img |-> i, on |-> Copies[1], lines |-> TRUE, found |-> 0]
  /\ UNCHANGED <<setup, held, cache_on, alive, news>>

\* The history of a code that is seen now, reported if its symbol is verified.
Sighting(code, s) ==
  news' = [news EXCEPT ![code] =
    [ago |-> 0,
     run |-> IF @.ago >= CACHE_PROXIMITY THEN 1 ELSE IF @.run < 3 THEN @.run + 1 ELSE 3,
     shown |-> mem'.sym[s].count = 0 \/ (@.shown /\ @.ago < CACHE_HYSTERESIS),
     lost |-> FALSE]]

\* There are symbols for n more and a composite one, and for their cache entries.
Room(n) == Cardinality(FreeSymbols(mem)) >= n + 1 + (IF cache_on THEN 2 ELSE 0)

Seen(c) == scan.on = Copies[2] <=> c \in Reversed

\* symbol_handler: the code crosses passes lines in a row.
SeeCode(c, passes) ==
  LET known == SelectInSeq(mem.list[mem.results], LAMBDA s : mem.sym[s].code = c)
      s == IF known = 0 THEN NewSymbol(mem, Length(c)) ELSE mem.list[mem.results][known]
      m == IF known = 0 THEN AddSym(AllocSym(mem, c, Length(c)), s) ELSE mem
      more == IF known = 0 THEN passes - 1 ELSE passes
  IN /\ scan # Idle /\ scan.lines
     /\ scan.found < MaxFinds
     /\ Room(1)
     /\ Seen(c)
     /\ Type(c) # QRCODE
     /\ mem' = [m EXCEPT !.sym[s].quality = IF @ + more > 4 THEN 4 ELSE @ + more]
     /\ IF known = 0 THEN Sighting(c, s) ELSE UNCHANGED news
     /\ scan' = [scan EXCEPT !.found = @ + 1]
     /\ UNCHANGED <<setup, proc, held, cache_on, alive>>

\* The parts of a group: symbols without data of their own, in a set of their own.
AddParts(m, s, n) ==
  LET t == NewSet(m)
      Add(h, k) == LET p == NewSymbol(h, 0)
                   IN [AllocSym(h, None, 0) EXCEPT !.sym[p].refs = 1, !.list[t] = Append(@, p)]
  IN IF n = 0 THEN m
     ELSE FoldLeft(Add, [SetCreate(m) EXCEPT !.sym[s].comps = t], [k \in 1 .. n |-> k])

\* qr_code_data_list_extract_text, for one code or one group: its text becomes the
\* symbol's data.
SeeQrCode(c) ==
  LET s == NewSymbol(mem, 0)
      m == AddParts(AllocSym(mem, c, 0), s, Parts(c))
  IN /\ scan # Idle
     /\ scan.found < MaxFinds
     /\ Room(1 + Parts(c))
     /\ Seen(c)
     /\ Cardinality(FreeSets(mem)) >= 2
     /\ Type(c) = QRCODE
     /\ mem' = AddSym([m EXCEPT !.sym[s].alloc = Length(c)], s)
     /\ Sighting(c, s)
     /\ scan' = [scan EXCEPT !.lines = FALSE, !.found = @ + 1]
     /\ UNCHANGED <<setup, proc, held, cache_on, alive>>

\* The end of _zbar_scan_image.  What the filter looks at, what it drops, and
\* what becomes of the set's list.
Linear(m, s) == Type(m.sym[s].code) > PARTIAL /\ Type(m.sym[s].code) < COMPOSITE
Examined(m, s) ==
  /\ m.sym[s].count <= 0
  /\ Linear(m, s) \/ Type(m.sym[s].code) \in DATABARS \union {CODABAR}
Dropped(m, s) ==
  Examined(m, s) /\ (Type(m.sym[s].code) = CODABAR \/ ~cache_on) /\ m.sym[s].quality < 4

Reverted(m, code) ==
  IF Entry(m, code) = 0 THEN [m EXCEPT !.fault = TRUE]
  ELSE [m EXCEPT !.sym[EntryOf(m, code)].count = @ - 1]
Unlinked(m, t, s) == [m EXCEPT !.list[t] = Remove(@, s), !.set[t].nsyms = @ - 1]
Drop(m, s) ==
  LET code == m.sym[s].code
  IN Recycle(Unlinked(IF cache_on THEN Reverted(CacheLookup(m, code), code) ELSE m,
                      m.results, s), s)

Filter(m) == FoldLeft(LAMBDA n, s : IF Dropped(n, s) THEN Drop(n, s) ELSE n, m, m.list[m.results])

\* The EAN codes and add-ons that are left.
Eans(m) == {s \in ToSet(m.list[m.results]) :
  Examined(m, s) /\ Linear(m, s) /\ Type(m.sym[s].code) > EAN5 /\ Type(m.sym[s].code) # ISBN10}
Addons(m) == {s \in ToSet(m.list[m.results]) :
  Examined(m, s) /\ Linear(m, s) /\ Type(m.sym[s].code) <= EAN5}

\* Both become parts of a composite symbol.
Compose(m) ==
  LET t == m.results
      moved == SelectSeq(m.list[t], LAMBDA s : Linear(m, s))
      ean == SelectLastInSeq(moved, LAMBDA s : Type(m.sym[s].code) > EAN5)
      addon == SelectLastInSeq(moved, LAMBDA s : Type(m.sym[s].code) <= EAN5)
      n == [m EXCEPT !.list[t] = SelectSeq(@, LAMBDA s : ~Linear(m, s)),
                     !.set[t].nsyms = @ - Len(moved)]
      s == NewSymbol(n, Length(Composite))
      parts == NewSet(n)
      o == [SetCreate(AllocSym(n, Composite, Length(Composite))) EXCEPT
              !.sym[s].comps = parts, !.set[parts].nsyms = 2,
              !.list[parts] = <<moved[ean], moved[addon]>>]
  IN AddSym(o, s)

Composed(m) ==
  IF EanConfig /\ Cardinality(Eans(m)) = 1 /\ Cardinality(Addons(m)) = 1 THEN Compose(m) ELSE m
Results(m) == IF m.set[m.results].nsyms = 0 THEN m ELSE Composed(Filter(m))

\* zbar_scan_image goes on with the inverted image if nothing was verified, and
\* the cache is dropped for it.
ScanCopy(m) ==
  /\ m.set[m.results].nsyms = 0
  /\ mem' = Start([RecycleAll(m, m.list[Cache]) EXCEPT !.list[Cache] = <<>>, !.image[Copies[2]] = None],
                  Copies[2])
Inverted ==
  /\ scan # Idle /\ TestInverted /\ scan.on # Copies[2]
  /\ FreeSets(mem) # {}
  /\ ScanCopy(Results(mem))
  /\ scan' = [scan EXCEPT !.on = Copies[2], !.lines = TRUE, !.found = 0]
  /\ news' = [c \in Codes |-> [news[c] EXCEPT !.lost = @ \/ Entry(mem, c) # 0]]
  /\ UNCHANGED <<setup, proc, held, cache_on, alive>>

\* _zbar_image_swap_symbols of a and b, and zbar_image_destroy of b.
SwapAndDestroy(m, a, b) ==
  LET n == [m EXCEPT !.image[a] = m.image[b], !.image[b] = Free]
  IN IF m.image[a] = None THEN n ELSE SetRef(n, m.image[a], -1)

\* The end of zbar_scan_image, and of _zbar_process_image when it has called it.
Swapped(m) ==
  IF scan.on = Copies[2] THEN SwapAndDestroy(m, IF Processed THEN Copies[1] ELSE scan.img, Copies[2])
  ELSE m
Finish(m) == mem' = SetRef(m, m.results, 1) /\ proc' = m.results
ScanReturns(m) ==
  /\ scan.on # Copies[2] => m.set[m.results].nsyms # 0 \/ ~TestInverted
  /\ IF Processed THEN Finish(SwapAndDestroy(Swapped(m), scan.img, Copies[1]))
     ELSE mem' = Swapped(m) /\ proc' = proc
EndScan ==
  /\ scan # Idle
  /\ ScanReturns(Results(mem))
  /\ scan' = Idle
  /\ UNCHANGED <<setup, held, cache_on, alive, news>>

-----------------------------------------------------------------------------
(* What the application does between scans.                                *)

Ready == scan = Idle

CreateImage(i) ==
  /\ Ready /\ alive /\ mem.image[i] = Free
  /\ mem' = [mem EXCEPT !.image[i] = None]
  /\ UNCHANGED <<setup, proc, held, cache_on, scan, alive, news>>

\* zbar_image_destroy of an image nobody else refers to, and
\* zbar_image_set_symbols(i, NULL).
Detach(m, i, left) ==
  LET n == [m EXCEPT !.image[i] = left]
  IN IF m.image[i] = None THEN n ELSE SetRef(n, m.image[i], -1)

DestroyImage(i) ==
  /\ Ready /\ mem.image[i] # Free
  /\ mem' = Detach(mem, i, Free)
  /\ UNCHANGED <<setup, proc, held, cache_on, scan, alive, news>>

ClearSymbols(i) ==
  /\ Ready /\ mem.image[i] \in Sets
  /\ mem' = Detach(mem, i, None)
  /\ UNCHANGED <<setup, proc, held, cache_on, scan, alive, news>>

Recycled(i) ==
  /\ Ready /\ alive /\ ~Processed
  /\ mem.image[i] # Free
  /\ mem' = RecycleImage(mem, i)
  /\ UNCHANGED <<setup, proc, held, cache_on, scan, alive, news>>

\* The sets the application can get at: an image's, the processor's, and the
\* scanner's until the image is recycled.
Offered == {mem.image[i] : i \in Images} \union {proc}
  \union (IF ~Processed /\ mem.results # None /\ mem.set[mem.results].refs > 0 THEN {mem.results} ELSE {})

Holding == Cardinality(held.sets) + Cardinality(held.symbols)

HoldSet(t) ==
  /\ Ready /\ Holding < MaxHeld
  /\ t \in Offered \ held.sets
  /\ mem' = SetRef(mem, t, 1)
  /\ held' = [held EXCEPT !.sets = @ \union {t}]
  /\ UNCHANGED <<setup, proc, cache_on, scan, alive, news>>

ReleaseSet(t) ==
  /\ Ready /\ t \in held.sets
  /\ mem' = SetRef(mem, t, -1)
  /\ held' = [held EXCEPT !.sets = @ \ {t}]
  /\ UNCHANGED <<setup, proc, cache_on, scan, alive, news>>

\* zbar_symbol_ref: a symbol, never a part of one.
HoldSymbol(s) ==
  /\ Ready /\ Holding < MaxHeld
  /\ s \notin held.symbols
  /\ \E t \in (Offered \union held.sets) \intersect Sets : s \in ToSet(mem.list[t])
  /\ mem' = [mem EXCEPT !.sym[s].refs = @ + 1]
  /\ held' = [held EXCEPT !.symbols = @ \union {s}]
  /\ UNCHANGED <<setup, proc, cache_on, scan, alive, news>>

ReleaseSymbol(s) ==
  /\ Ready /\ s \in held.symbols
  /\ mem' = Unref(mem, s)
  /\ held' = [held EXCEPT !.symbols = @ \ {s}]
  /\ UNCHANGED <<setup, proc, cache_on, scan, alive, news>>

\* zbar_image_scanner_enable_cache, which clears the cache.
EnableCache(enable) ==
  /\ Ready /\ alive
  /\ enable => CacheAllowed
  /\ mem' = [RecycleAll(mem, mem.list[Cache]) EXCEPT !.list[Cache] = <<>>]
  /\ cache_on' = enable
  /\ news' = [c \in Codes |-> Unseen]
  /\ UNCHANGED <<setup, proc, held, scan, alive>>

\* A second passes; ages count no further than they matter.
Tick ==
  /\ Ready /\ cache_on
  /\ LET Later(age, cap) == IF age < cap THEN age + 1 ELSE cap
     IN /\ mem' = [mem EXCEPT !.sym = [s \in Symbols |->
                     IF s \in ToSet(mem.list[Cache])
                     THEN [@[s] EXCEPT !.age = Later(@, CACHE_TIMEOUT + 1)] ELSE @[s]]]
        /\ news' = [c \in Codes |-> [news[c] EXCEPT !.ago = Later(@, CACHE_HYSTERESIS)]]
  /\ UNCHANGED <<setup, proc, held, cache_on, scan, alive>>

\* The symbols that wait for reuse.
Shelved(m) == UNION {ToSet(m.list[b]) : b \in Buckets}

\* zbar_image_scanner_destroy, which leaves the cache behind.
GiveBack(m) ==
  IF m.results = None THEN m
  ELSE IF m.set[m.results].refs > 0 THEN SetRef(m, m.results, -1) ELSE FreeSet(m, m.results)
Emptied(m) ==
  [m EXCEPT !.results = None,
            !.sym = [s \in Symbols |-> IF s \in Shelved(m) THEN Free ELSE @[s]],
            !.list = [o \in Owners |-> IF o \in Buckets THEN <<>> ELSE @[o]]]

\* zbar_processor_destroy lets go of the processor's results first.
Destroy ==
  /\ Ready /\ alive
  /\ mem' = Emptied(GiveBack(Released))
  /\ proc' = None
  /\ alive' = FALSE
  /\ UNCHANGED <<setup, held, cache_on, scan, news>>

-----------------------------------------------------------------------------
Init ==
  /\ setup \in Setups
  /\ mem = [sym |-> [s \in Symbols |-> Free], set |-> [t \in Sets |-> Free],
            list |-> [o \in Owners |-> <<>>], results |-> None,
            image |-> [i \in AllImages |-> Free], fault |-> FALSE]
  /\ proc = None
  /\ held = [sets |-> {}, symbols |-> {}]
  /\ cache_on = FALSE
  /\ scan = Idle
  /\ alive = TRUE
  /\ news = [c \in Codes |-> Unseen]

Next ==
  \/ \E i \in Images : \/ CreateImage(i) \/ DestroyImage(i) \/ ClearSymbols(i) \/ Recycled(i)
                       \/ ScanImage(i) \/ ProcessImage(i)
  \/ \E c \in Codes : SeeQrCode(c) \/ \E passes \in Passes : SeeCode(c, passes)
  \/ Inverted \/ EndScan
  \/ \E t \in Sets : HoldSet(t) \/ ReleaseSet(t)
  \/ \E s \in Symbols : HoldSymbol(s) \/ ReleaseSymbol(s)
  \/ \E enable \in BOOLEAN : EnableCache(enable)
  \/ Tick \/ Destroy

Spec == Init /\ [][Next]_vars

-----------------------------------------------------------------------------
LiveSymbols == {s \in Symbols : mem.sym[s] # Free}
LiveSets == {t \in Sets : mem.set[t] # Free}
Verified(c) ==
  IF mem.results = None THEN {}
  ELSE {s \in ToSet(mem.list[mem.results]) : mem.sym[s].code = c /\ mem.sym[s].count = 0}

\* What points to memory points to what is allocated, and no assertion has failed.
Intact ==
  /\ \A s \in LiveSymbols : mem.sym[s].refs \in Nat /\ mem.sym[s].comps \in LiveSets \union {None}
  /\ \A t \in LiveSets : mem.set[t].refs \in Nat
  /\ \A i \in AllImages : mem.image[i] \in LiveSets \union {None, Free}
  /\ mem.results \in LiveSets \union {None}
  /\ proc \in LiveSets \union {None}
  /\ ~mem.fault

\* A symbol is on one list, once, or with the application alone.
OnePlace ==
  /\ \A s \in Symbols :
       /\ Cardinality(Listed(mem, s)) <= (IF s \in LiveSymbols THEN 1 ELSE 0)
       /\ Listed(mem, s) \intersect Buckets # {} => mem.sym[s].refs = 0 /\ s \notin held.symbols
  /\ \A o \in Owners : IsInjective(mem.list[o])

\* A set's references are those of the scanner, images, the processor, a symbol it
\* has the parts of and the application; a symbol's those of its set and the
\* application.
Holders(t) ==
  (IF mem.results = t THEN 1 ELSE 0)
  + Cardinality({i \in AllImages : mem.image[i] = t})
  + (IF proc = t THEN 1 ELSE 0)
  + Cardinality({s \in LiveSymbols : mem.sym[s].comps = t})
  + (IF t \in held.sets THEN 1 ELSE 0)
RefsCounted ==
  /\ \A t \in LiveSets :
       \/ mem.set[t].refs = Holders(t)
       \/ t = mem.results /\ mem.set[t].refs = 0 /\ Holders(t) = 1 /\ mem.list[t] = <<>>
  /\ \A s \in LiveSymbols :
       mem.sym[s].refs = Cardinality(Listed(mem, s) \intersect Sets)
                           + (IF s \in held.symbols THEN 1 ELSE 0)

\* When the scanner and all images are gone and nothing is held, all is free, if the
\* cache was never used: zbar_image_scanner_destroy leaves the cache behind.
AllGivenBack ==
  /\ ~alive /\ ~CacheAllowed
  /\ \A i \in Images : mem.image[i] = Free
  /\ held = [sets |-> {}, symbols |-> {}]
  => LiveSymbols = {} /\ LiveSets = {}

\* "last of unfiltered symbol results" (symbol.h:40): a set's tail is one of its
\* symbols.  It is not when the tail was moved into a composite symbol or dropped,
\* which only happens with the cache, where a tail has a count other than 0: to
\* an EAN code or to a CODABAR code.
TailListed ==
  \A t \in Sets : mem.set[t] # Free /\ mem.set[t].tail # None => mem.set[t].tail \in ToSet(mem.list[t])
TailStays == ~(CacheAllowed /\ (EanConfig \/ \E c \in Codes : Type(c) = CODABAR))

\* Memory is sound, in every setup in which no tail is moved or dropped: every symbol
\* is in one place, every reference is counted, nothing else is, and in the end nothing
\* is left (zbar_image_scanner_recycle_image, _zbar_image_scanner_recycle_syms,
\* zbar_symbol_set_ref, zbar_image_scanner_destroy).
MemorySound == TailStays => Intact /\ TailListed /\ OnePlace /\ RefsCounted /\ AllGivenBack

\* What the application holds stays as it is, in these setups: a symbol until it is
\* released, the list of a set too (recycle_syms leaves a set alone that others refer
\* to).
HeldStays ==
  [][TailStays =>
     /\ \A s \in held.symbols \intersect held'.symbols :
          mem'.sym[s] # Free /\ mem'.sym[s].code = mem.sym[s].code
     /\ \A t \in held.sets \intersect held'.sets :
          mem'.set[t] # Free /\ (scan = Idle => mem'.list[t] = mem.list[t])]_vars

\* The code is reported while the cache is on.
Reported(c) == cache_on /\ ~(Verified(c)' \subseteq Verified(c))

\* With the cache a code is reported once, until it was not seen for CACHE_HYSTERESIS or
\* its entry was dropped for an inverted image; and not before it was seen in as many
\* images as its symbology's uncertainty, each less than CACHE_PROXIMITY after the last.
\* "the cache filters duplicate results from consecutive images" (zbar.h:1371) promises it
\* without the inverted image: an image of duplicates has nothing to report, its inverted
\* copy is scanned, and the cache goes (img_scanner.c:1150).
ReportedOnce ==
  [][\A c \in Codes : Reported(c) =>
       /\ ~news[c].shown \/ news[c].ago >= CACHE_HYSTERESIS \/ news[c].lost
       /\ \/ Uncertainty(c) = 0
          \/ news[c].ago < CACHE_PROXIMITY /\ news[c].run >= Uncertainty(c)]_vars
=============================================================================
