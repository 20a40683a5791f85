----------------------------- MODULE MCDecodePool -----------------------------
(***************************************************************************)
(* Images for the run of DecodePool: bytes have 4 values, so a word has    *)
(* 256, and the ROM image has 4 addresses.                                 *)
(***************************************************************************)
EXTENDS DecodePool

Shows(counter, offset, bytes) == << Payload(counter, offset, bytes) >>

\* A code shorter than the header.
ShortCode == << <<1, 2>> >>

\* The frame at the end of the image: its second byte lies past it.
PastEnd == Shows(3, 3, <<1, 2>>)

\* A code that is too long for the buffer.
TooLong == Shows(0, 0, <<1, 1, 1, 1>>)

\* Two fragments that overlap and disagree on a byte.
Overlapping == { Shows(0, 0, <<1, 2>>), Shows(2, 1, <<2, 2>>) }

\* A code whose end does not fit a word: its last two bytes go to addresses 0 and 1.
Wraps == Shows(1, 255, <<3, 1, 2>>)

ForeignImages == Overlapping \cup { ShortCode, PastEnd, TooLong, Wraps }

=============================================================================
