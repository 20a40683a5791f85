----------------------------- MODULE MCImageScanner -----------------------------
(***************************************************************************)
(* Codes and setups for the run of ImageScanner.                           *)
(***************************************************************************)
EXTENDS ImageScanner

MCType(c) ==
  CASE c = "qr_group" -> 64
    [] c = "ean13" -> 13
    [] c = "ean2" -> 2
    [] c = "code128" -> 128
    [] c = "white" -> 13
    [] c = "composite" -> 15
    [] OTHER -> 1

MCLength(c) ==
  CASE c = "qr_group" -> 300
    [] c \in {"ean13", "white"} -> 14
    [] c = "ean2" -> 3
    [] c = "composite" -> 16
    [] OTHER -> 9

MCCopies == <<"tmp", "inv">>
MCSets == 1 .. 4

MCParts(c) == IF c = "qr_group" THEN 2 ELSE 0

MCUncertainty(c) == IF c \in {"ean13", "white", "ean2"} THEN 2 ELSE 0

\* The processor's scanner, for a group of QR codes and a code in light on dark.
Page ==
  [codes |-> {"qr_group", "white"}, test_inverted |-> TRUE, ean_config |-> FALSE,
   processed |-> TRUE, cache |-> FALSE, symbols |-> 5, finds |-> 1, held |-> 1]

\* The application's own, for an EAN code and an add-on that are put together.
Own ==
  [codes |-> {"ean13", "ean2"}, test_inverted |-> FALSE, ean_config |-> TRUE,
   processed |-> FALSE, cache |-> FALSE, symbols |-> 4, finds |-> 2, held |-> 1]

\* One that looks at one picture after the other, with the cache.
Video ==
  [codes |-> {"code128", "ean13"}, test_inverted |-> FALSE, ean_config |-> FALSE,
   processed |-> TRUE, cache |-> TRUE, symbols |-> 6, finds |-> 2, held |-> 0]

\* One with the cache that looks at inverted copies too.
Inverting ==
  [codes |-> {"code128", "white"}, test_inverted |-> TRUE, ean_config |-> FALSE,
   processed |-> TRUE, cache |-> TRUE, symbols |-> 6, finds |-> 1, held |-> 0]

MCSetups == {Page, Own, Video, Inverting}
=============================================================================
