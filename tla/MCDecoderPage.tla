---------------------------- MODULE MCDecoderPage ----------------------------
(***************************************************************************)
(* Images for the run of DecoderPage: bytes have 2 values, so a word has   *)
(* 16, and the ROM image has 2 addresses.                                  *)
(***************************************************************************)
EXTENDS DecoderPage

\* Two neighbouring fragments, a header without bytes, which makes an assertion fail,
\* and a fragment whose end does not fit a word: its second byte goes to address 0.
PageImages ==
  { << Payload(0, 1, <<1>>) >>, << Payload(1, 0, <<1>>) >>,
    << Payload(0, 1, <<>>) >>, << Payload(0, 15, <<1, 1>>) >> }

=============================================================================
