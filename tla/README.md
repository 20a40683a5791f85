# Formal models of the flashcart assisted dump

## The system

A Nintendo 64 program (`src/main.c`) is booted from a flashcart and survives the
console's reset, so that it can go on with the cartridge that is to be dumped.
It reads that cartridge over DMA and shows it, one fragment per frame, as QR
codes.  A web page (`src/webdecoder/`) films the screen, decodes the codes in
WebAssembly workers and puts the ROM image together.

| component | source | state | operations |
|---|---|---|---|
| Reset takeover | `main.c` 13-145, 365-397, `cpu_utils.c` | watch registers, registered exception handler, status register, SC64 lock | `setup_initial_boot`, `my_reset_handler`, `my_exception_handler`, `return_from_watch_exception`, `flashcart_unlock_sc64_regs` |
| Dump loop | `main.c` 147-363 | `show_console`, `auto_advance`, `rom_offset`, `counter`, `rombuf`, surfaces, the DMA transfer | `main_dumping`'s loop |
| Fragment codec | `main.c` 301-313, `heavylifting_imgdec.c` 175-182 | none | header and bytes to payload, and back |
| Decode pool | `heavylifting_main.c`, `heavylifting_imgdec.c`, `heavylifting.h` | the ROM image, the window of known bytes, four workers' mailboxes and queue sizes | `heavylifting_init`, `heavylifting_process_frame`, `heavylifting_decode_image`, `decode_image_callback`, `store_rom_fragment` |
| Decoder page | `main.js`, `wrap_heavylifting_worker.js`, `capture_video.js` | ready flags, poll timer, what is shown, two mailboxes | the handshake, `process_frame`, `send_rom_data`, `received_rom_data`, capture ticks |
| Code layout | `main.c` 168-227, 332-345 | none | which version is asked for, placing modules on the screen |
| QR encoder | `qrencode/`: `qrinput.c`, `qrspec.c`, `qrencode.c`, `mask.c`, `rsecc.c`, `bitstream.c` | the symbol being filled | `QRcode_encodeData` in byte mode |
| QR decoder | `zbar/qrcode/`: `qrdec.c`, `rs.c`, `bch15_5.c` | the symbol being sampled | `qr_reader_try_configuration` |
| Image scanner | `zbar/img_scanner.c`, `symbol.c`, `symbol.h`, `image.c`, `image.h`, `refcnt.h` | symbols, sets of symbols, their references, symbols kept for reuse, the cache | `zbar_scan_image`, `_zbar_process_image`, references and images of the application, `zbar_image_scanner_enable_cache` |
| Code texts | `zbar/qrcode/qrdectxt.c` | the list of codes of an image, the codes that are used up, the symbols made | `qr_code_data_list_extract_text` |
| zbar processor | `zbar/processor.c`, `processor/lock.c`, `processor/posix.c` | the API lock, its waiters and their events, the video thread, streaming | lock, unlock, wait, notify; the API functions that wait, scan or switch the video |
| Rest of zbar and libqrencode | `webdecoder/zbar/`, `qrencode/` | | linear symbologies, drivers, windows, bindings, tools |
| Serving and building | `https_server/`, `build*.sh`, `hex2ascii.py`, `Makefile`, `main.html` | none | |

How they interact:

- Takeover to dump loop: the exception handler rewrites `epc`, so the console
  "returns" from IPL1 into `main_dumping`.  Memory survives, the cpu's status
  register does not.
- Dump loop to decoder: the picture, and nothing else.  There is no way back: the
  console does not know what was read, seen or stored.
- Page to wrapper worker to image workers: `postMessage` mailboxes, each in
  order, none in step with another.  The ROM image belongs to the wrapper's
  thread alone.
- The loop, the DMA engine and the display run concurrently on the console.
- The encoder and the decoder agree on a QR code's every module and bit, each with
  tables and formulas of its own.
- The QR decoder leaves a list of codes per image; `qrdectxt.c` makes symbols of
  them, and the image scanner keeps these in a set that the image, the processor
  and the application share.
- The worker that decodes an image makes an unthreaded zbar processor for it,
  disables all symbologies but QR codes, asks for binary texts, calls
  `zbar_process_image` and destroys it.  Of `processor.c` a dump therefore runs the
  scan alone.  The API lock, the video thread and the waiting calls are modelled as
  the part of the vendored code that is concurrent.

What is hard, and what makes each component correct:

- *Takeover.* The NMI comes between any two statements, and other exceptions come
  before it.  Correct: the watch registers are set only while the handler that
  knows them is registered, they are clear when anything goes wrong, and nothing
  that is ignored disarms them.
- *Dump loop.* Three concurrent engines, a fixed set of surfaces, an encoder that
  may fail.  Correct: a code never mixes two offsets or shows bytes that have
  not arrived, offsets stay fit for DMA, surfaces are not lost, nothing is
  skipped without a word.
- *Decode pool.* Answers in any order, assertions that end a worker or the whole
  module, an end that wraps in 32 bits and passes the assertion on it.  Correct: bytes
  stand where their header put them, the window is exact, no frame gets lost, and
  nothing of the dumper's is ever written outside the ROM image.
- *Page.* Start-up events in any order, a poll that its own answer keeps alive.
  Correct: the capture starts, exactly one poll is under way, the page never
  goes back.
- *QR codes.* Forty versions with four levels and eight masks, two implementations,
  a picture in the mirror, damaged modules.  Correct: each codeword arrives where
  it belongs, damage within the limits is put right, and more of it is noticed.
- *Image scanner.* A set of symbols has up to four kinds of owners, and each scan takes
  back what nobody else holds, to hand it out again.  Correct: what is referred to
  is neither freed nor handed out, what is not referred to is given back, and the
  cache reports a code when it is sure of it and then not again until its entry is gone.
- *Code texts.* Codes of several groups in any order, some twice, some missing, some
  with an index that their group does not have; marks for what is missing that nobody
  makes room for.  Correct: no group takes another's codes, texts are in order, and a code
  of a group disappears only if the group's marks do not fit.
- *zbar processor.* A recursive lock whose holder gives up all levels in the middle
  of a call, timeouts against hand-overs, a handler that calls back.  Correct: the
  lock is handed over in order and never lost, calls get back what they gave up.
- *Whole dump.* Correct: every known byte is the cartridge's, and an offset that
  stays on the screen is dumped.

## Modules

| module | models | composes |
|---|---|---|
| `FragmentCodec` | the payload of a code, written and read | |
| `DecodePool` | `heavylifting_main.c` and `heavylifting_imgdec.c` | `FragmentCodec` |
| `RomCopy` | what the decoder promises, whatever frames are in the picture (abstract) | refined by `DecodePool` |
| `RomDump` | what the dump as a whole promises (abstract) | refined by `DumpSystem` |
| `Dumper` | `main_dumping` with display and DMA | `FragmentCodec` |
| `DumpSystem` | console, camera and decoder | `Dumper`, `DecodePool` |
| `DecoderPage` | `main.js`, the wrapper worker, `capture_video.js` | `DecodePool` |
| `ResetTakeover` | reset and exception handlers | |
| `QrSymbol` | where the modules and codewords of a symbol are, for `qrspec.c` and `qrencode.c` and for `qrdec.c` | |
| `QrCodes` | the error correcting codes: `bch15_5.c`, the version's code, `rs.c`, `rsecc.c` | |
| `QrReader` | a code from the bytes given to libqrencode to those zbar gets | `QrSymbol`, `QrCodes` |
| `QrText` | `qr_code_data_list_extract_text` in binary mode | |
| `ImageScanner` | the scanner's symbols, sets, references and cache | |
| `ProcessorLock` | `processor/lock.c`, with the events of `processor/posix.c` | |
| `ApiLock` | what that lock promises (abstract) | refined by `Processor` |
| `Processor` | `processor.c`: application threads, the video thread, the handler | `ProcessorLock` |
| `MCDecodePool`, `MCDumper`, `MCDumpSystem`, `MCDecoderPage`, `MCQrReader`, `MCQrText`, `MCImageScanner`, `MCProcessor` | images, cartridges, codes, calls for TLC | |
| `DecodePoolProofs`, `DumperProofs` (with the header of a code), `DumpSystemProofs`, `DecoderPageProofs`, `ResetTakeoverProofs`, `ProcessorProofs`, `QrProofs`, `QrTextProofs` | TLAPS proofs | |

State and actions keep the source's names.  The operators marked *Faulty* are
plausible mistakes in the definition that follows them; no specification uses
them, they show that the properties notice.

**DecodePool.**  One action per handler: `ProcessFrame` is
`heavylifting_process_frame` up to its `emscripten_call_worker`, `DecodeImage`
and `DecodeImageAsserts` are the two ends of `heavylifting_decode_image` in a
worker, `Callback` is `decode_image_callback` with `store_rom_fragment`, split by
the result code and the assertions.  An image stands for the sequence of payloads
zbar finds in it: `<<>>` for none, one, or several (the code treats both others
as a failure).  `awaited` is emscripten's queue size: one up per call with a
callback, one down before the callback runs.  `submitted` is a history variable.
External behaviour that is assumed: an answer is taken off the queue size before
the callback, an aborted module drops later answers but its exported getters
still work, and a failed assertion in a worker answers nothing.  Whether that
worker takes further calls is left open (`alive`).
`store_rom_fragment` adds offset and length in 32 bits, and so does the model
(`StoreAsserts`, `Place`): a code whose end wraps passes, and what has no place in the
ROM image is written outside it (`Outside`).  `broken` remembers that.  The other bytes
still go where the sum of offset and index takes them; what else may happen then is that
the heap traps (`HeapTraps`).  Nothing is claimed of the ROM image from there on, so the
properties of the pool are about the time before, and `OnlyWrapsBreak`, a part of
`WindowExact`, says what it takes to end it.

**Dumper.**  `pc` names the calls in which the loop waits: for keys (`scan`), a
surface (`blank`, `render`, `draw`), the DMA (`dma_wait`) and time (`hold`).  What
the code does between two waits is one action: `PressKeys` is B, up and down, then
`dma_read_async`, for one set of keys.  `DmaTransfer` moves a halfword, `VBlank` flips to
the next surface in the queue.  `display_get` returns while fewer than
`N_BUFFERS` surfaces are on the screen, queued or handed out.  A surface is a
code or no code; `EncodeFails` is `QRcode_encodeData` returning `NULL`.  The
geometry of a code and the text on the console are left out.

**DumpSystem.**  A picture (`Pictures`) of the surface on the screen is its code
or nothing readable, and goes to a worker (`Capture`).  Delay between
picture and decoding is the queue's.  `CameraImages` are the images a truthful
dumper can cause; that it is truthful is `FramesGenuine`.  None of
them wraps, so nothing is written outside the ROM image (`StaysInside`), and none is too
short for a worker (`WorkersSurvive`): both are `DecoderUnharmed`.  `RomDump` is what a
user sees of all this: a ROM image that grows by a whole fragment of the cartridge at a
time.

**DecoderPage.**  One action per message handler and timer callback.  Two
mailboxes in order.  The wrapper's thread runs `decode_image_callback` too, so
`P!Callback` is an action of it, and a snapshot is taken between callbacks.
`CaptureTick` is the 60 Hz timer.  The text and the download link made of a
snapshot are left out.

**ResetTakeover.**  `pc` names the next statement of the handlers or the code that
runs instead (`wait`, `dumping`, `ipl1`, `rebooted`, `halted`).  `NMI` is enabled
at every one of them after the pre-NMI.  Exceptions are raised in the main thread
and by IPL1, not inside handlers: the cpu postpones them there.
libdragon's default handler either halts or returns.  It calls the reset handler
once; after a takeover its state may say that there was a reset, and both
outcomes are allowed.

**QrSymbol, QrCodes, QrReader.**  Both sides are written down apart, each from its
own source: the encoder's frame filler against the decoder's sampling grid, the
encoder's alignment table against the decoder's formula, `eccTable` against
`QR_RS_NBLOCKS`, `RSECC_encode` against `rs_correct`.  `QrReader` goes through one
code in the order of `qr_reader_try_configuration`: the version (`ReadVersion`), the
format information (`ReadFormat`), the attempt on the mirrored code and the one
with the finders swapped (`SwapFinders`), one codeword after the other (`SampleCodeword`),
one block (`CorrectBlock`) and one stream (`ParseStream`).  A module is the place
where it is drawn; what is dark there matters only for the version and the
format.  Damage is a set of wrong bits in either copy of the version or of
the format, or of wrong codewords in a block.  Assumed of the geometry: a finder's
estimate of the version is within 3 of the truth, and the first attempt on a code
in the mirror fails, if not for the version then for its data.  Left out: finding
finders, lines, homographies and binarization, erasures, versions and formats
that are read wrong (the reader's work on them is not followed further), the other
modes, and libqrencode's choice of a mask (any mask is allowed).

**QrText.**  `Extract` is one turn of the loop over `qrdata`: the group of the next code
that is not in one yet, the size of its buffer, its entries in order, and the symbol
or, if the text does not fit, none.  `Skip` passes over a code that is in a group.
`HasRoom` is the check of lines 343, 361 and 377 as it is, a difference in `size_t` that wraps
once the marks, which nothing checks, have carried the text past its buffer: from then on
everything has room and the group is reported (`overran`).  The program may trap on what
was written over (`Trap`) or go on.  A code's index is not compared with the size of
its group by the code: one that is not below it meets a slot of `sa[]` that was never
set, so whether the code is marked is left open (`Marked`), and its text is in no symbol.
A byte of text is known by the code, the entry and the place it comes from, so that a byte
out of place shows.  The page asks for binary texts, and so no text encoding is
looked for; ECI, FNC1 and the slices of the text that belong to the parts are left out.

**ImageScanner.**  `mem` is the scanner's memory: symbols, sets, and all linked lists as
sequences (of a set, of the cache, of the buckets for reuse).  `Recycle`, `SetRef`,
`AllocSym`, `CacheSym` and `AddSym` are functions from memory to memory, one
per C function, and an action applies those that its code calls, in their order.  A failed
assertion, a count below zero and a use of what is free set `fault`.  A scan begins with
`ScanImage` (a scanner of the application's) or `ProcessImage` (`_zbar_process_image`), then
finds codes in any order (`SeeCode`, with the number of lines that cross it,
`SeeQrCode`), then goes on with the inverted copy (`Inverted`) or ends (`EndScan`), where
unsure symbols are filtered out and an EAN code and an add-on become one.  In between the application
takes and releases references, clears images and the cache, and time passes (`Tick`).
`Inverted` drops the cache as the code does; `news`, what was reported of a code and
when, is a history variable that remembers it (`lost`).
Where the lines of a code are in the image, and how its symbology is recognized, is left out.

**ProcessorLock, Processor.**  Every function of `lock.c` runs under one mutex, so it
is one action up to `_zbar_event_wait`, and one from there on.  A record keeps its
event as `notify`: `Expire` is a timeout, after which the thread has to get the
mutex again, and `ResetEvent` what `posix.c` does to the event then.  In
`Processor` a thread has a stack of the calls it is in, as the handler may make
calls in the middle of a scan.  The functions that only read or set a field under
the lock are one operation.  The video device is external: it starts, stops or
refuses to, and delivers an image or none.

## Runs

| run | checks | shows |
|---|---|---|
| `pool_foreign` | `WindowExact BytesGenuine NoFragmentLost ImplementsRomCopy SharedEvenly EventuallyCovered` | frames that overlap and disagree, and codes the dumper does not make: past the end, too long, shorter than a header, with an end that wraps |
| `reset` | `ArmedIsHandled BrokenIsDisarmed ArmedForNMI CleanStart TakesOver` | the takeover at every position of the NMI, three resets |
| `dumper` | `FramesGenuine SurfacesAccounted NoSilentSkip HeldCodeIsShown` | any keys, DMA and display timing, encoding failures; a held code reaches the screen, so no wait is for ever |
| `page` | `OnePoll ShownGenuine ShownStays CaptureStarts KnownIsShown` | start-up in any order without a lost wakeup, the poll as a token, every known byte is shown; a code that aborts the decoder and one that breaks its memory |
| `system` | `RomGenuine DecoderUnharmed ImplementsRomDump` | a dump by auto advance that stops in time |
| `system_live` | `StayingOffsetIsDumped` | a dump by hand with overlapping fragments |
| `processor` | `HandedOver AssertsHold LevelsBalanced ImplementsApiLock LockComes` | a thread that scans image by image, one that waits and switches the video off, a handler that waits with a timeout, a device that may fail |
| `qr` | `VersionRead FormatRead CodewordsArrive BlocksCorrected AskedIsGot` | all 40 versions, drawn by libqrencode and read by zbar, with damage within the limits and beyond them |
| `scanner` | `MemorySound HeldStays ReportedOnce` | a processor's scanner with inverted pictures and groups of QR codes, the application's own with EAN add-ons, one with the cache, one with the cache and inverted pictures |
| `text` | `GroupsKeptApart TextInOrder NoCodeLost` | lists of up to three codes, alone or in groups that overlap, repeat and have gaps, with indices beyond their group, of bytes or of digits; two marks in a buffer of two bytes |
| `system_end` | `StoreFits`, violated | see Findings |
| `lock_timeout` | `TimedWaitReturns`, violated | see Findings |

Bounds, and why they are enough:

- `ByteBase` is 2 to 4 in place of 256, so a word has 16 to 256 values.  Codec and
  address arithmetic are the same for every base, as `RoundTrip` proves.  Neighbouring
  bytes of the cartridges differ, so a shifted or stale byte is noticed.
- `qrcode_max_bytes = 14` gives 8 bytes per fragment, the least the code's own
  assertion allows, after rounding down from 9.
- `MaxOffset` stops the operator after a few fragments: 24 in `dumper` is three auto
  advance steps with all mixtures of steps by four between them.
- `N_BUFFERS`: two surfaces are the least a display works with and the tightest
  case; `dumper` has three.
- Two workers give every reordering of two answers; the others are symmetric to
  them.  `MaxAwaited` bounds unanswered calls per worker to 1 to 3.  It is a bound of
  the models: the code posts frames without looking at the backlog.
- ROM images of 2 to 16 bytes hold two to four fragments, with overlaps, a
  neighbour and the end of the image.  A word has so few values that a code with two
  or three bytes wraps from the last address to the first ones.
- `MaxTakeovers = 3` has a first reset, one after a takeover and one after that.
- `qr` has each of the 40 versions once, with levels and masks in turn, and the
  five settings of `main.c` and the smallest versions with damage: up to three
  wrong bits, a lost copy, a copy that reads as a neighbouring version, wrong
  codewords up to and beyond half of the parity.  Bytes are of one pattern; sizes
  are those around a setting's limit and around the 8 bits of a length.
- `processor` has two application threads and the video thread, two levels, so that
  a handler's call nests in a call.  Records are reused, never more than
  there are threads.
- `scanner` has four setups, each with the codes and settings one part of the
  code is about, the cache alone and with inverted pictures among them.  The cache is not
  combined with `ean_config` or with CODABAR codes: a set's tail goes astray there (see
  What the models show besides), and `MemorySound` and `HeldStays` say so (`TailStays`).
  Memory is bounded by the symbols and sets a setup needs at
  most and is handed out lowest first, which one is taken being of no
  consequence; one image and one or two finds per scan, one reference of the application's at a
  time.  A code crosses 1 line or 4, the filter's threshold.  Ages are
  in seconds, up to the first at which nothing changes any more (hysteresis 2, timeout 4).
- `text` has all lists of up to three codes of groups of two and three and of single
  codes, with every index within its group, the indices 2 and 5 for a group of two, and the
  second and the fourth part of a group of four, which need two marks.  Two codes of one
  group, one of another and a missing part fit into three.
- Deadlock is checked in `dumper`, `system`, `system_live`, `processor` and
  `lock_timeout`.  The others may really stop: an aborted module, dead workers, a
  refused camera, a rebooted or halted console, a code that has been read, a list
  that is done, a scanner that is destroyed.

A type invariant is stated in each module of a component.  `DumperTypeCorrect`,
`TypeCorrect`, `TakeoverTypeCorrect` and `LockInvariant` prove it; the QR modules do
not state one, as each of their variables is compared with what it has to be.

Fairness.  The console's loop, its DMA engine and its display never stop, so
each is weakly fair; which key is pressed, whether encoding works and when is
not.  A browser thread that has a message handles it, so every mailbox is
weakly fair, and the wasm module loads.  Capture ticks and the camera's
permission are not fair.  `system_live` alone asks something of the camera:
strong fairness of reading the code on the screen, as a code that is shown over
and over while the operator waits is read at some time.  Without it a lossy one
way channel promises nothing.  In `Processor` threads are scheduled, timers expire
and the device delivers images; nobody has to make a call, find a symbol or press
a key.  `LockComes` is asked only of behaviours in which no hand-over is lost to a
timeout: that one is the finding of `lock_timeout`.

## Findings

- `system_end`: `store_rom_fragment`'s assertion that a fragment ends within the ROM
  image fails on the dumper's own codes.  The image is 64 MiB, auto advance goes in
  steps of 506 bytes without an end, and 67108864 is no multiple of 506: the code
  at 67108756 ends past the image.  The assertion aborts the module that holds
  the dump, the last 108 bytes are not stored, and later codes are not either.
  (What is known stays on the page: `KnownIsShown`.)
- `lock_timeout`: `_zbar_event_wait` resets the event also when it returns for a
  timeout.  When the thread is given the lock between the timeout and its return,
  that event is lost, and `_zbar_processor_wait` finds the lock held (by itself) and
  waits for the event without a timeout.  The call that promised to return after
  its timeout never does, and nobody gets the lock again.

## What the models show besides

These behaviours are in the models, and the properties are stated around them.  None
of them concerns a dump: the dumper's offsets do not wrap (`DecoderUnharmed`), it makes
no groups, and the page's processors have no cache.

- `DecodePool`: `assert(rom_frag->offset + rom_frag->n_bytes <= max_rom_size)`
  (`heavylifting_main.c:60`) adds in 32 bits.  A code whose end wraps passes it: its last
  bytes go to the start of the ROM image, its first ones somewhere else, and the window
  follows the wrapped end alone, so the comment over the bounds, that all is unknown
  outside them, does not hold from there on.  `WindowExact` says that it takes such a code.
- `QrText`: the size of a text's buffer is estimated from its codes, and the marks for
  missing parts are written into it without a check (`qrdectxt.c:210`).  With parts 1 and 3
  of four, one digit each, the text is a mark, a digit, a mark and a digit in a buffer for
  two digits and a NUL; the check before the last digit wraps and passes.  Texts with
  bytes have three to spare for each.  `NoCodeLost` is the exact account of which groups
  are dropped or overrun.
- `ImageScanner`: zbar.h says that the cache filters duplicate results from consecutive
  images (1371).  With `ZBAR_CFG_TEST_INVERTED` it does not: an image with duplicates only
  has no new result, so the inverted copy is scanned, the cache is dropped for it
  (`img_scanner.c:1150`), and the next image reports the code again.  `ReportedOnce` has
  that exception (`lost`) and no other.
- `ImageScanner`: a set's `tail` is the "last of unfiltered symbol results"
  (`symbol.h:40`).  With the cache and `ean_config` an EAN code that is not sure yet is the
  tail when it is moved into a composite symbol, which is then linked behind it, into its
  own list of parts (`img_scanner.c:356`, 1102-1130); a CODABAR code can be the tail when
  it is recycled (1085).  `MemorySound` includes that the tail is listed (`TailListed`) and
  excludes these two settings (`TailStays`): with them, and the cache, it does not hold.

## Proved

TLAPS checks these for every value of the constants that the named assumptions
allow.

- `RoundTrip` (`DumperProofs`): the decoder reads back the offset and bytes
  the dumper wrote.
- `DecodePoolProofs`: `PoolInvariant` (types, queued images were submitted, answers
  answer them, the backlog never exceeds the queue size) is inductive and gives
  `TypeCorrect`.  With the shape of the window it gives `WindowIsExact`; with each
  answer's origin, `BytesAreGenuine` and `NoFragmentIsLost`.  All of them are about any
  codes, wrapping ones included, up to the moment something is written outside the ROM
  image; `OnlyWrapsWriteOutside`, the other half of `WindowExact`, shows that it takes an
  accepted code whose end does not fit a word: any other has all its bytes below the end
  that was compared.  `RefinesRomCopy` maps
  every step to a step of `RomCopy` or a stutter.  `FramesAreShared` adds `SizesExact`: as
  long as every code has a header no worker ends, and the queue sizes equal the backlogs.
- `DumperProofs`: `LoopInvariant` (`TypeOK`, `DmaAligned`, `SurfacesAccounted`, room for
  the fragment that is auto advanced to) is inductive.  `CodesTellTheTruth` adds
  `TransferInv`: the part of `rombuf` that has arrived is the cartridge's from the
  transfer's address, which is `rom_offset` until the code is made; hence `FramesMade`: every
  code on a surface is a payload of cartridge bytes.  `RoundTrip` reads it back.
  `NothingSkippedSilently` adds what was last given to the display.
- `DumpSystemProofs`: `SystemInv` is the conjunction of the two halves' invariants.  A
  step of one half leaves the other alone, and `FramesMade` shows that what the camera
  sees is in `CameraImages`, which satisfy what the decoder assumes of its images
  (`PoolAssumptions`).  `DumpIsACopy` follows from `BytesGenuine` and `RoundTrip`,
  `NoWorkerDies` from `SizesExact`: every payload is longer than its header.
  `NothingWrittenOutside` follows from `OnlyWrapsBreak` and `RoundTrip`: an offset within
  `MaxOffset` and a fragment's length stay below a word.  With `NoWorkerDies` it is
  `DecoderIsUnharmed`.
  `DumpImplementsRomDump`: a change of the ROM image is `store_rom_fragment`'s (`StoreChanges`);
  the fragment is one of `submitted` that fits (`StoredFragment`), so its bytes are
  the cartridge's from its offset on (`StoredIsCart`), which is a halfword's address
  as `FramesMade` says so of every code on a surface.
- `DecoderPageProofs`: `TokenInv` says who may have posted what: one poll, and nothing is started or
  announced before the runtime is up (`StartOrder`).  It gives `PollIsAToken`,
  `RuntimeFirst` and `PageTypeCorrect`.  `ShowInv` adds that every snapshot on its way shows
  seen and known bytes only, and at least those the page shows.  It gives
  `PageShowsWhatWasSeen` and `PageForgetsNothing`, which needs `PollIsAToken` (a
  second answer under way could be older) and `WindowExact` (a snapshot ends at the bound).
  The pool's own invariants are taken over from `DecodePoolProofs`.
- `ResetTakeoverProofs`: `TakeoverInvariant`, what watch, handler and return place are
  at every statement, and that the handler stays registered from the pre-NMI to the
  takeover only.  Its consequences are the run's invariants and `ResetAssertHolds`.
- `ProcessorProofs`: `LockInv` (types, `LevelsKept`, `RecordsSound`: records in the list,
  free ones and those given out are disjoint, `CursorSkipsSleepers`, `HandedOver`,
  `AssertsHold`, `NoStaleEvent`: who is told that the lock is its own owns it) is
  inductive, for any number of threads and levels.  `HandedOver` alone is not: a
  notification starts at the cursor, so what is in front of it has to be known to
  sleep, and a reused record must bring no event with it.  `LockInvariant` is
  about threads that call the lock in any order, `ProcessorLockInvariant` about the calls of
  `processor.c`; `AssertsAlwaysHold` and `LockIsHandedOver` follow.
- Also in `ProcessorProofs`: the lock implements `ApiLock`.  The mapping takes the levels of a
  sleeper from `save_level`, the line from the requesters of `wait_list`, and what a
  sleeper waits for from the events left in its record.  `MapInv` adds to `LockInv`
  that a thread that waits for the lock only, or was given it, has no event pending in
  its record (`EventsOver`); without it a woken thread would still be waiting for
  events in the abstract lock.  `LockKeepsPromise` is about threads that call the lock in any order,
  `ProcessorKeepsPromise` about the calls of `processor.c`.  The latter needs
  `ProcessorInv`, that the levels a thread has, awake or asleep, are its calls
  (`Depths = Lens`), which gives `LevelsMatchCalls` too.

- `QrTextProofs`: `TextInv` says of the loop that a marked code is in a symbol,
  in a group that was dropped, or has an index that its group does not have, that every such
  group is of one size and parity with each code at its index, and that no two of them
  share a code.  It gives `GroupsStayApart`, and with `Skip`'s guard `EveryCodeIsTaken`: no code
  of a group is passed over, and none with an index beyond it is ever taken.  Both hold as long as
  no text went past its buffer, as nothing is known of the memory from then on.
- Also in `QrTextProofs`: `TextsAreInOrder` and `NoCodeIsLost`, about what is reported of a
  group.  `JoinInv` says of each symbol that its text is the joined text of its codes in order,
  and of each group that was dropped or went past its buffer that its marks do not fit.
  Texts and sizes are folds, so
  each is first shown to be a run of its step (`IsRun`, `IsTally`, `IsJoin`), and what a step keeps
  holds at every place by a least counterexample (`UpTo`).  `ConvertJoins`: the
  conversion gives exactly the joined text, partial exactly if a part is missing, and
  fails, or goes past the buffer, only where the text does not fit, the check that wraps
  included (`HasRoom`).  The room is an account (`RoomForMarks`): the buffer and
  a byte for every mark are the joined text and the bytes to spare, so a group fails or overruns
  only if its missing parts have more marks than its codes have spare bytes.
- `QrProofs`, about the version: `VersionIsRead`, for any damage of the two copies and not
  only that of the run.  Bit `i` of a version's word is a sum of some of its six digits
  (`WordBits`, from the table), so the sum of two words is the word of the sum of their
  digits; every word but the empty one has at least seven ones (`SevenOnes`, `Distance`).
  So with up to three wrong bits no other version is as near (`NearOne`), whichever
  bit is tried first.  What is drawn in one area is seen next to the
  other finder and nowhere else (`BitsOfArea`, the code is mirrored).  Then both copies
  agree, or one is lost and whatever is read there is either refused or the same.
- `QrProofs`, about the format information: `FormatIsRead`, for every version, level and mask
  and any damage.  Numbers of four bits with `^` and the tables of `bch15_5.c` are a field
  (`SumRules`, `ProductRules`, `Distributes`, `Quotients`; `SumOfPowers` is the one fact
  that ties the tables to `^`).  Each of the five words a code is made of has no syndromes
  (`Row0` to `Row4`), so a damaged word has those of its errors alone (`SyndromesAfter`);
  by Newton's identities `bch15_5_calc_omega` makes of them the coefficients of the
  polynomial whose roots are the errors (`OmegaOfThree`, `Vieta`), and the places it
  vanishes at are theirs (`PlacesOfErrors`): `ThreeErrorsAreCorrected`.  The reader also
  tries the words of mixed halves, which have the errors of half a copy each.
  Together they have no more errors than both copies, so at least one of them is right too
  (`ChosenIsRight`) and a wrong value is outvoted three to one.  What is drawn in
  either area is read there with the finders swapped (`BitsOfFormat`); `FormatInv` says
  that the picture and the format that is read from it still are those of the code.
- `QrProofs`, about the codewords: `CodewordsGoToTheirBlocks`, the part `InBlocks` of
  `CodewordsArrive`, for every version and level.  The tables of the two programs are
  compared entry by entry (`SameWords`, `SameBlocks`, `SameParity`).  `AtPlace` says how
  far each block is filled after a number of codewords: the columns of the data that all blocks
  have, the last one of the long blocks, and the parity.  It is kept by every codeword
  (`NextPlace`) and says that the number `QRraw_getCode` takes for a
  codeword names the same place; in the end all blocks are full (`LastPlace`).

`AwaitedCounts`, `DmaAligned`, `WorkersSurvive`, `StaysInside`, `CallsAfterInit` and
`ResetAssertHolds` are proved as parts of these; no run states them by themselves.

Assumptions: bytes have at least two values; fragments have at least 8 bytes; the
cartridge holds bytes within the reach of `MaxOffset`, which fits a word
(`DumperAssumption`, `CartAssumption`); the ROM image and the buffer of a code are shorter
than a word has values (`PoolAssumption`), while a payload's offset may be any word; a
thread takes the lock to at most `MaxLevel` levels, and no thread is called `NoThread`
(`LockAssumption`); a code's index and the size of its group
are numbers of four bits, a size of up to 16, in any relation (`ListAssumption`); a code
drawn has a version, level and mask that there are, and
what is damaged of its version and format information are bits they have
(`CodesAssumption`).  `SystemAssumption` and `PageAssumption` say the same for the
constants of the compositions.  TLC evaluates each of them.

Only model-checked: all liveness (fairness and `ENABLED` are beyond the prover), and
these safety properties, not proved:

- of the QR codes, that both walks visit the same modules in the same order
  (`InModules`), that what is left over after decoding is the code sent
  (`BlocksCorrected`), and the stream and its parsing (`AskedIsGot`).  Of
  these the walks, masks and function patterns depend on the version only, and the run
  has all 40 versions with all masks; damage and contents it has in samples.
- `MemorySound`, `HeldStays` and `ReportedOnce`: the image scanner's sets are reused
  through folds over lists.

## Plan

Order of the modules: decode pool first (it owns the result), then the dump loop,
the whole dump, the page, the takeover, the QR codes, the processor, and the proofs
about each.  All are there.  What could follow:

1. More of the QR codes by proof: `InModules`, that `FrameFiller_next` and the columns
   of `qr_samples_unpack` visit the same modules.  `BlocksCorrected`, the algebra of
   `FormatIsRead` over 256 elements and with recursive polynomials, stays with TLC.
2. The unthreaded wait of the processor and its polling of file descriptors, with
   the start and stop of its threads.
3. Numeric mode and structured append on both sides of a code, should the dumper
   ever use them.

## Not modelled

- Most of the repository's lines are vendored code that a dump never runs: zbar's
  linear symbologies, video drivers and windows for four systems, bindings for Perl,
  Python and Qt, examples, libqrencode's command line tool and Micro QR.  Their
  share of the lines is why the modules cover a small part of them, although they
  cover most of the dumper's and the page's own code.  The linear decoders are a state
  machine per symbology over the widths of bars, which never get to see a symbol.
- Of zbar's image scanner and QR decoder: the scan lines, finder patterns, lines,
  homographies and binarization.  They are numeric code on pixels, and a model of it that
  says something would be about pictures, not states.
- Of libqrencode: the penalties that choose a mask, structured append, kanji and
  numeric modes, and running out of memory but for the `NULL` that `Dumper` has.
- Of the processor: starting, stopping and joining threads, the wait without threads, the
  input thread's polling, opening windows.
- The size and place of modules on the screen (compile time constants and
  rounding), the web server, build scripts, `hex2ascii.py` (a text filter), the
  page's markup and logging.
- The stack that repeated takeovers use up and the memory that unbounded backlogs
  take.
