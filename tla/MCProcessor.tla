------------------------------ MODULE MCProcessor ------------------------------
(***************************************************************************)
(* Calls for the runs of Processor.                                        *)
(***************************************************************************)
EXTENDS Processor

CONSTANTS scanner, listener

\* One thread scans, the other waits for the user and turns the video off.
MCCalls ==
  [t \in Apps |->
     IF t = scanner
     THEN { Call("process_one", FALSE) }
     ELSE { Call("user_wait", FALSE), Call("set_active", FALSE) }]

MCHandlerCalls == { Call("user_wait", TRUE) }
=============================================================================
