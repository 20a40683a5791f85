---------------------------- MODULE ResetTakeover ----------------------------
(***************************************************************************)
(* How main.c keeps the console through a reset.  The cpu's watch          *)
(* registers make IPL1, the first code that runs after an NMI, trap into   *)
(* my_exception_handler, which goes on to main_dumping instead.            *)
(*                                                                         *)
(* pc names the next statement of this code that matters, or the code that *)
(* runs in its place.  The NMI can come between any two of them.           *)
(***************************************************************************)
EXTENDS Integers, Sequences

CONSTANT MaxTakeovers   \* bound: how often the operator resets the console

ASSUME TakeoverAssumption == MaxTakeovers \in Nat \ {0}

VARIABLES
  pc,
  resume,             \* where an exception or interrupt handler returns to
  exception_handler,  \* registered: "default" or "my"
  watch,              \* the watch registers are set to reads of SP_STATUS
  ex,                 \* the exception that is being handled
  sr,                 \* the status register: "ours", or as IPL1 sets it
  usb_locked,         \* the SC64 has locked its registers
  nmi_pending,        \* the pre-NMI interrupt has come, the NMI has not
  takeovers

vars == <<pc, resume, exception_handler, watch, ex, sr, usb_locked, nmi_pending, takeovers>>

\* The code outside of all handlers.
MainThread == {"wait", "dumping"}

NoException == [code |-> "none", epc |-> "none"]

\* The watch registers keep their value through a power cycle for a while, so
\* nothing is assumed of them.
Init ==
  /\ pc = "setup"
  /\ resume = "setup"
  /\ exception_handler = "default"
  /\ watch \in BOOLEAN
  /\ ex = NoException
  /\ sr = "ours"
  /\ usb_locked = FALSE
  /\ nmi_pending = FALSE
  /\ takeovers = 0

-----------------------------------------------------------------------------
(* setup_initial_boot, then the loop of main_wait_reset.                   *)
SetupInitialBoot ==
  /\ pc = "setup"
  /\ pc' = "wait"
  /\ watch' = FALSE
  /\ UNCHANGED <<resume, exception_handler, ex, sr, usb_locked, nmi_pending, takeovers>>

\* Faulty: the watch registers first.
MyResetHandler_WatchFirst == <<"watch_ipl1_set", "register">>

MyResetHandler == <<"register", "watch_ipl1_set">>

\* What follows a statement of my_reset_handler.
AfterReset(statement) ==
  IF statement = MyResetHandler[1] THEN MyResetHandler[2] ELSE resume

\* The reset button.  libdragon calls my_reset_handler at the first pre-NMI; once
\* a reset has been survived its state says that there was one, and it may not.
PreNMI ==
  /\ pc \in MainThread
  /\ ~nmi_pending
  /\ takeovers < MaxTakeovers
  /\ nmi_pending' = TRUE
  /\ resume' = pc
  /\ \/ pc' = MyResetHandler[1]
     \/ takeovers > 0 /\ UNCHANGED pc
  /\ UNCHANGED <<exception_handler, watch, ex, sr, usb_locked, takeovers>>

\* register_exception_handler, and the assertion on what it returns.
RegisterMine ==
  /\ pc = "register"
  /\ exception_handler' = "my"
  /\ pc' = IF exception_handler = "default" THEN AfterReset(pc) ELSE "halted"
  /\ UNCHANGED <<resume, watch, ex, sr, usb_locked, nmi_pending, takeovers>>

SetWatch ==
  /\ pc = "watch_ipl1_set"
  /\ watch' = TRUE
  /\ pc' = AfterReset(pc)
  /\ UNCHANGED <<resume, exception_handler, ex, sr, usb_locked, nmi_pending, takeovers>>

-----------------------------------------------------------------------------
(* The cpu.                                                                *)

\* The cpu drops whatever it was doing; the SC64 locks its registers.
NMI ==
  /\ nmi_pending
  /\ nmi_pending' = FALSE
  /\ pc' = "ipl1"
  /\ sr' = "ipl1"
  /\ usb_locked' = TRUE
  /\ UNCHANGED <<resume, exception_handler, watch, ex, takeovers>>

Raise(code, epc) ==
  /\ ex' = [code |-> code, epc |-> epc]
  /\ resume' = pc
  /\ pc' = IF exception_handler = "my" THEN "my_exception_handler" ELSE "default_handler"
  /\ UNCHANGED <<exception_handler, watch, sr, usb_locked, nmi_pending, takeovers>>

\* IPL1 reads SP_STATUS: without the watch it boots the console as usual.
IPL1Trapped ==
  /\ pc = "ipl1" /\ watch
  /\ Raise("watch", "pif rom")

IPL1GoesOn ==
  /\ pc = "ipl1" /\ ~watch
  /\ pc' = "rebooted"
  /\ UNCHANGED <<resume, exception_handler, watch, ex, sr, usb_locked, nmi_pending, takeovers>>

\* libdragon reads SP_STATUS too, and other exceptions happen.
Exception ==
  /\ pc \in MainThread
  /\ \E code \in {"watch", "other"} : /\ code = "watch" => watch
                                      /\ Raise(code, "elsewhere")

-----------------------------------------------------------------------------
(* my_exception_handler.                                                   *)

\* Faulty: the registers stay set while the exception is handled.
ClearWatch_Keep ==
  /\ pc = "my_exception_handler"
  /\ pc' = "look"
  /\ UNCHANGED <<resume, exception_handler, watch, ex, sr, usb_locked, nmi_pending, takeovers>>

ClearWatch ==
  /\ pc = "my_exception_handler"
  /\ watch' = FALSE
  /\ pc' = "look"
  /\ UNCHANGED <<resume, exception_handler, ex, sr, usb_locked, nmi_pending, takeovers>>

\* Faulty: the cached address.
InIPL1_Cached(epc) == epc = "cached pif rom"

InIPL1(epc) == epc = "pif rom"

NotWatch ==
  /\ pc = "look"
  /\ ex.code # "watch"
  /\ pc' = "default_handler"
  /\ UNCHANGED <<resume, exception_handler, watch, ex, sr, usb_locked, nmi_pending, takeovers>>

\* Faulty: returns without setting the registers again.
IgnoredWatch_NoRearm ==
  /\ pc = "look"
  /\ ex.code = "watch" /\ ~InIPL1(ex.epc)
  /\ pc' = resume
  /\ UNCHANGED <<resume, exception_handler, watch, ex, sr, usb_locked, nmi_pending, takeovers>>

IgnoredWatch ==
  /\ pc = "look"
  /\ ex.code = "watch" /\ ~InIPL1(ex.epc)
  /\ pc' = "rearm"
  /\ UNCHANGED <<resume, exception_handler, watch, ex, sr, usb_locked, nmi_pending, takeovers>>

Rearm ==
  /\ pc = "rearm"
  /\ watch' = TRUE
  /\ pc' = resume
  /\ UNCHANGED <<resume, exception_handler, ex, sr, usb_locked, nmi_pending, takeovers>>

\* exception_default_handler: stops with the error, or returns.
DefaultHandlerHalts ==
  /\ pc = "default_handler"
  /\ pc' = "halted"
  /\ UNCHANGED <<resume, exception_handler, watch, ex, sr, usb_locked, nmi_pending, takeovers>>

DefaultHandlerReturns ==
  /\ pc = "default_handler"
  /\ pc' = IF exception_handler = "my" THEN "rearm" ELSE resume
  /\ UNCHANGED <<resume, exception_handler, watch, ex, sr, usb_locked, nmi_pending, takeovers>>

\* Faulty: my_exception_handler stays registered.
TakeOver_StaysRegistered ==
  /\ pc = "look"
  /\ ex.code = "watch" /\ InIPL1(ex.epc)
  /\ sr' = "ours"
  /\ pc' = "main_dumping"
  /\ takeovers' = takeovers + 1
  /\ UNCHANGED <<resume, exception_handler, watch, ex, usb_locked, nmi_pending>>

\* The handler returns to return_from_watch_exception, not to IPL1.
TakeOver ==
  /\ pc = "look"
  /\ ex.code = "watch" /\ InIPL1(ex.epc)
  /\ exception_handler' = "default"
  /\ sr' = "ours"
  /\ pc' = "main_dumping"
  /\ takeovers' = takeovers + 1
  /\ UNCHANGED <<resume, watch, ex, usb_locked, nmi_pending>>

\* main_dumping up to its loop: flashcart_unlock_sc64_regs.
StartDumping ==
  /\ pc = "main_dumping"
  /\ usb_locked' = FALSE
  /\ pc' = "dumping"
  /\ UNCHANGED <<resume, exception_handler, watch, ex, sr, nmi_pending, takeovers>>

-----------------------------------------------------------------------------
MyExceptionHandler ==
  \/ ClearWatch
  \/ NotWatch
  \/ IgnoredWatch
  \/ Rearm
  \/ TakeOver

Cpu ==
  \/ SetupInitialBoot
  \/ RegisterMine
  \/ SetWatch
  \/ IPL1Trapped
  \/ IPL1GoesOn
  \/ MyExceptionHandler
  \/ DefaultHandlerHalts
  \/ DefaultHandlerReturns
  \/ StartDumping

Next == Cpu \/ Exception \/ PreNMI \/ NMI

Spec == Init /\ [][Next]_vars

(* The cpu runs, and the NMI follows the pre-NMI.                          *)
FairSpec == Spec /\ WF_vars(Cpu) /\ WF_vars(NMI)

-----------------------------------------------------------------------------
(* Properties.                                                             *)

\* Type correctness of every variable.
TypeOK ==
  LET places == {"setup", "wait", "register", "watch_ipl1_set", "ipl1", "rebooted",
                 "my_exception_handler", "look", "rearm", "default_handler", "halted",
                 "main_dumping", "dumping"}
  IN  /\ pc \in places
      /\ resume \in MainThread \cup {"setup", "ipl1"}
      /\ exception_handler \in {"default", "my"}
      /\ watch \in BOOLEAN
      /\ ex \in [code : {"none", "watch", "other"}, epc : {"none", "pif rom", "elsewhere"}]
      /\ sr \in {"ours", "ipl1"}
      /\ usb_locked \in BOOLEAN
      /\ nmi_pending \in BOOLEAN
      /\ takeovers \in Nat

\* A watch exception never reaches libdragon's handler: the registers are set
\* only while my_exception_handler is registered, at every point between two
\* statements at which IPL1 or a read of SP_STATUS may trap.
ArmedIsHandled == pc # "setup" /\ watch => exception_handler = "my"

\* "to avoid leaving the watch regs set in case something goes wrong"
\* (main.c:44): if the default handler takes the cpu, they are clear, and the
\* console can be powered off and on.
BrokenIsDisarmed == pc \in {"default_handler", "halted"} => ~watch

\* The exceptions that are ignored do not cost the takeover: whenever the main
\* thread runs after my_reset_handler, the registers are set for the NMI.
ArmedForNMI ==
  pc \in MainThread /\ exception_handler = "my" => watch

\* assert(old_exception_handler == exception_default_handler) (main.c:33), at the
\* second and later resets too.
ResetAssertHolds == pc = "register" => exception_handler = "default"

\* main_dumping starts with a console that is as good as new: libdragon's handler,
\* no watch, interrupts on; and while it dumps the SC64 answers.
CleanStart ==
  /\ pc = "main_dumping" => /\ exception_handler = "default"
                            /\ ~watch
                            /\ sr = "ours"
  /\ pc \in MainThread => ~usb_locked

\* If IPL1 finds the registers set, the dump starts.
TakesOver == pc = "ipl1" /\ watch ~> pc = "dumping"

=============================================================================
