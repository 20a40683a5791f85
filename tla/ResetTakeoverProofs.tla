------------------------- MODULE ResetTakeoverProofs -------------------------
(***************************************************************************)
(* The safety of ResetTakeover, for any number of resets.                  *)
(***************************************************************************)
EXTENDS ResetTakeover, TLAPS

(* The inductive invariant: at every statement, what the watch registers   *)
(* and the handler are.                                                    *)

StatementInv ==
  /\ pc \in MainThread /\ exception_handler = "my" => watch
  /\ pc # "setup" /\ watch => exception_handler = "my"
  /\ pc \in {"setup", "register"} => exception_handler = "default"
  /\ pc \in {"watch_ipl1_set", "my_exception_handler", "look", "rearm"}
       => exception_handler = "my"
  /\ pc \in {"look", "rearm", "default_handler", "halted"} => ~watch
  /\ pc = "main_dumping" => exception_handler = "default" /\ ~watch /\ sr = "ours"

\* A handler returns to the main thread, and only the trap of IPL1 is ever at
\* the end of a handler that has no place to return to.
ResumeInv ==
  /\ pc \in {"register", "watch_ipl1_set", "rearm"} => resume \in MainThread
  /\ pc = "default_handler" => resume \in MainThread
  /\ pc \in {"my_exception_handler", "look"} =>
       \/ resume \in MainThread /\ ex.epc = "elsewhere"
       \/ ex.code = "watch" /\ ex.epc = "pif rom"

\* The SC64 answers wherever a handler may return to the main thread.
UsbInv ==
  /\ pc \in MainThread => ~usb_locked
  /\ pc \in {"register", "watch_ipl1_set", "rearm", "default_handler"} => ~usb_locked
  /\ pc \in {"my_exception_handler", "look"} /\ resume \in MainThread
        /\ ex.epc = "elsewhere" => ~usb_locked
  /\ pc = "setup" => ~usb_locked /\ ~nmi_pending

\* my_exception_handler is registered from the pre-NMI to the takeover.
PendingInv ==
  /\ pc = "register" => nmi_pending
  /\ exception_handler = "my" /\ ~nmi_pending =>
       \/ pc \in {"ipl1", "rebooted"}
       \/ pc \in {"my_exception_handler", "look"} /\ ex.code = "watch" /\ ex.epc = "pif rom"

TakeoverInv == TypeOK /\ StatementInv /\ ResumeInv /\ UsbInv /\ PendingInv

LEMMA TakeoverInit == Init => TakeoverInv
<1> SUFFICES ASSUME Init PROVE TakeoverInv
  OBVIOUS
<1>1. watch \in BOOLEAN /\ usb_locked \in BOOLEAN /\ nmi_pending \in BOOLEAN
  BY Zenon DEF Init
<1>2. TypeOK
  BY <1>1 DEF Init, NoException, TypeOK
<1>3. StatementInv
  BY DEF Init, StatementInv, MainThread
<1>4. ResumeInv /\ UsbInv /\ PendingInv
  BY DEF Init, ResumeInv, UsbInv, PendingInv, MainThread
<1>5. QED
  BY <1>2, <1>3, <1>4 DEF TakeoverInv

LEMMA NatSucc == \A n \in Nat : n + 1 \in Nat
OBVIOUS

LEMMA TakeoverStep ==
  ASSUME TakeoverInv, [Next]_vars
  PROVE  TakeoverInv'
<1> USE DEF TakeoverInv, TypeOK, StatementInv, ResumeInv, UsbInv, PendingInv, MainThread
<1>1. CASE SetupInitialBoot
  BY <1>1 DEF SetupInitialBoot
<1>2. CASE RegisterMine
  <2>1. /\ pc' = "watch_ipl1_set" /\ exception_handler' = "my"
        /\ resume' = resume /\ ex' = ex /\ sr' = sr /\ takeovers' = takeovers
        /\ resume \in MainThread
    BY <1>2 DEF RegisterMine, AfterReset, MyResetHandler
  <2>2. /\ watch' \in BOOLEAN /\ usb_locked' \in BOOLEAN /\ nmi_pending' \in BOOLEAN
        /\ ~usb_locked' /\ nmi_pending'
    <3>1. ~usb_locked /\ nmi_pending
      BY <1>2 DEF RegisterMine
    <3>2. QED
      BY <1>2, <3>1, Zenon DEF RegisterMine
  <2>3. QED
    BY <2>1, <2>2
<1>3. CASE SetWatch
  BY <1>3 DEF SetWatch, AfterReset, MyResetHandler
<1>4. CASE IPL1Trapped
  BY <1>4 DEF IPL1Trapped, Raise
<1>5. CASE IPL1GoesOn
  BY <1>5 DEF IPL1GoesOn
<1>6. CASE ClearWatch
  BY <1>6 DEF ClearWatch
<1>7. CASE NotWatch
  <2>1. ex.code \in {"watch", "other", "none"} /\ pc = "look"
        /\ (ex.code # "watch" \/ ex.epc # "pif rom")
    BY <1>7 DEF NotWatch
  <2>2. resume \in MainThread /\ ex.epc = "elsewhere"
    BY <2>1
  <2>3. ~usb_locked /\ ~watch /\ exception_handler = "my"
    BY <2>1, <2>2
  <2>4. TypeOK'
    <3>1. nmi_pending' \in BOOLEAN /\ watch' \in BOOLEAN /\ usb_locked' \in BOOLEAN
      BY <1>7, Zenon DEF NotWatch
    <3>2. QED
      BY <1>7, <3>1 DEF NotWatch
  <2>5. StatementInv' /\ ResumeInv' /\ UsbInv'
    BY <1>7, <2>2, <2>3 DEF NotWatch
  <2>6. nmi_pending' = nmi_pending /\ nmi_pending
    BY <1>7, <2>1, <2>2, <2>3, Zenon DEF NotWatch
  <2>7. QED
    BY <2>4, <2>5, <2>6
<1>8. CASE IgnoredWatch
  <2>1. ex.code \in {"watch", "other", "none"} /\ pc = "look"
        /\ (ex.code # "watch" \/ ex.epc # "pif rom")
    BY <1>8 DEF IgnoredWatch, InIPL1
  <2>2. resume \in MainThread /\ ex.epc = "elsewhere"
    BY <2>1
  <2>3. ~usb_locked /\ ~watch /\ exception_handler = "my"
    BY <2>1, <2>2
  <2>4. TypeOK'
    <3>1. nmi_pending' \in BOOLEAN /\ watch' \in BOOLEAN /\ usb_locked' \in BOOLEAN
      BY <1>8, Zenon DEF IgnoredWatch, InIPL1
    <3>2. QED
      BY <1>8, <3>1 DEF IgnoredWatch, InIPL1
  <2>5. StatementInv' /\ ResumeInv' /\ UsbInv'
    BY <1>8, <2>2, <2>3 DEF IgnoredWatch, InIPL1
  <2>6. nmi_pending' = nmi_pending /\ nmi_pending
    BY <1>8, <2>1, <2>2, <2>3, Zenon DEF IgnoredWatch, InIPL1
  <2>7. QED
    BY <2>4, <2>5, <2>6
<1>9. CASE Rearm
  BY <1>9 DEF Rearm
<1>10. CASE TakeOver
  <2>1. nmi_pending' \in BOOLEAN /\ watch' \in BOOLEAN /\ usb_locked' \in BOOLEAN
    BY <1>10, Zenon DEF TakeOver, InIPL1
  <2>2. TypeOK'
    <3>1. takeovers' \in Nat
      <4>1. takeovers \in Nat /\ takeovers' = takeovers + 1
        BY <1>10, Zenon DEF TakeOver
      <4>2. QED
        BY <4>1, NatSucc, Zenon
    <3>2. QED
      BY <1>10, <2>1, <3>1 DEF TakeOver
  <2>3. StatementInv'
    BY <1>10 DEF TakeOver, InIPL1
  <2>4. ResumeInv'
    BY <1>10 DEF TakeOver, InIPL1
  <2>5. UsbInv' /\ PendingInv'
    BY <1>10 DEF TakeOver, InIPL1
  <2>6. QED
    BY <2>2, <2>3, <2>4, <2>5
<1>11. CASE DefaultHandlerHalts
  BY <1>11 DEF DefaultHandlerHalts
<1>12. CASE DefaultHandlerReturns
  BY <1>12 DEF DefaultHandlerReturns
<1>13. CASE StartDumping
  BY <1>13 DEF StartDumping
<1>14. ASSUME NEW code \in {"watch", "other"}, pc \in MainThread,
              code = "watch" => watch, Raise(code, "elsewhere")
       PROVE  TakeoverInv'
  <2>1. /\ ex' \in [code : {"none", "watch", "other"}, epc : {"none", "pif rom", "elsewhere"}]
        /\ ex'.epc = "elsewhere"
        /\ resume' \in MainThread
        /\ pc' = IF exception_handler = "my" THEN "my_exception_handler"
                                             ELSE "default_handler"
    BY <1>14 DEF Raise
  <2>2. /\ watch' = watch /\ usb_locked' = usb_locked /\ nmi_pending' = nmi_pending
        /\ watch' \in BOOLEAN /\ usb_locked' \in BOOLEAN /\ nmi_pending' \in BOOLEAN
    BY <1>14, Zenon DEF Raise
  <2>3. exception_handler' = exception_handler /\ sr' = sr /\ takeovers' = takeovers
    BY <1>14 DEF Raise
  <2>4. ~usb_locked' /\ (exception_handler = "default" => ~watch')
    <3>1. ~usb_locked /\ (exception_handler = "default" => ~watch)
      BY <1>14
    <3>2. QED
      BY <2>2, <3>1, Zenon
  <2>5. TypeOK'
    BY <2>1, <2>2, <2>3
  <2>6. StatementInv'
    BY <2>1, <2>3, <2>4
  <2>7. ResumeInv' /\ UsbInv'
    BY <2>1, <2>3, <2>4
  <2>8. exception_handler = "my" => nmi_pending'
    <3>1. exception_handler = "my" => nmi_pending
      BY <1>14
    <3>2. QED
      BY <2>2, <3>1, Zenon
  <2>9. QED
    BY <2>1, <2>3, <2>5, <2>6, <2>7, <2>8
<1>15. CASE PreNMI
  <2>1. /\ watch' = watch /\ usb_locked' = usb_locked
        /\ nmi_pending' \in BOOLEAN /\ watch' \in BOOLEAN /\ usb_locked' \in BOOLEAN
    BY <1>15, Zenon DEF PreNMI
  <2>2. /\ exception_handler' = exception_handler /\ sr' = sr /\ takeovers' = takeovers
        /\ ex' = ex /\ resume' = pc /\ pc \in MainThread
        /\ pc' \in MainThread => pc' = pc
        /\ pc' \in MainThread \cup {"register"}
    BY <1>15 DEF PreNMI, MyResetHandler
  <2>3. ~usb_locked' /\ (exception_handler = "default" => ~watch')
    <3>1. ~usb_locked /\ (exception_handler = "default" => ~watch)
      BY <2>2
    <3>2. QED
      BY <2>1, <3>1, Zenon
  <2>4. TypeOK'
    BY <2>1, <2>2
  <2>5. exception_handler = "my" => watch'
    <3>1. exception_handler = "my" => watch
      BY <2>2
    <3>2. QED
      BY <2>1, <3>1, Zenon
  <2>6. nmi_pending' /\ (pc' = "register" => exception_handler = "default")
    BY <1>15 DEF PreNMI
  <2>7. QED
    BY <2>2, <2>3, <2>4, <2>5, <2>6
<1>16. CASE NMI
  BY <1>16 DEF NMI
<1>17. CASE UNCHANGED vars
  <2>1. nmi_pending' \in BOOLEAN /\ watch' \in BOOLEAN /\ usb_locked' \in BOOLEAN
    BY <1>17, Zenon DEF vars
  <2>2. TypeOK'
    BY <1>17, <2>1 DEF vars
  <2>3. StatementInv'
    BY <1>17 DEF vars
  <2>4. ResumeInv'
    BY <1>17 DEF vars
  <2>5. UsbInv' /\ PendingInv'
    BY <1>17 DEF vars
  <2>6. QED
    BY <2>2, <2>3, <2>4, <2>5
<1>18. QED
  BY <1>1, <1>2, <1>3, <1>4, <1>5, <1>6, <1>7, <1>8, <1>9, <1>10, <1>11, <1>12, <1>13, <1>14, <1>15, <1>16, <1>17 DEF Next, Cpu, MyExceptionHandler, Exception

THEOREM TakeoverInvariant == Spec => []TakeoverInv
BY TakeoverInit, TakeoverStep, PTL DEF Spec

\* TypeOK: the variables keep their types, for any number of resets.
THEOREM TakeoverTypeCorrect == Spec => []TypeOK
<1>1. TakeoverInv => TypeOK
  BY DEF TakeoverInv, TypeOK, StatementInv, UsbInv, MainThread
<1>2. QED
  BY <1>1, TakeoverInvariant, PTL

\* ArmedIsHandled: no watch exception reaches libdragon's handler, wherever the NMI comes.
THEOREM WatchIsHandled == Spec => []ArmedIsHandled
<1>1. TakeoverInv => ArmedIsHandled
  BY DEF TakeoverInv, TypeOK, StatementInv, UsbInv, ArmedIsHandled, MainThread
<1>2. QED
  BY <1>1, TakeoverInvariant, PTL

\* BrokenIsDisarmed: when libdragon's handler takes the cpu the watch registers are clear.
THEOREM BrokenMeansDisarmed == Spec => []BrokenIsDisarmed
<1>1. TakeoverInv => BrokenIsDisarmed
  BY DEF TakeoverInv, TypeOK, StatementInv, UsbInv, BrokenIsDisarmed, MainThread
<1>2. QED
  BY <1>1, TakeoverInvariant, PTL

\* ArmedForNMI: exceptions between the pre-NMI and the NMI do not disarm the watch.
THEOREM StaysArmed == Spec => []ArmedForNMI
<1>1. TakeoverInv => ArmedForNMI
  BY DEF TakeoverInv, TypeOK, StatementInv, UsbInv, ArmedForNMI, MainThread
<1>2. QED
  BY <1>1, TakeoverInvariant, PTL

\* ResetAssertHolds: the assertion of my_reset_handler holds at every reset.
THEOREM ResetAssertionHolds == Spec => []ResetAssertHolds
<1>1. TakeoverInv => ResetAssertHolds
  BY DEF TakeoverInv, TypeOK, StatementInv, UsbInv, ResetAssertHolds, MainThread
<1>2. QED
  BY <1>1, TakeoverInvariant, PTL

\* CleanStart: main_dumping finds libdragon's handler, no watch and its status register.
THEOREM StartsClean == Spec => []CleanStart
<1>1. TakeoverInv => CleanStart
  BY DEF TakeoverInv, TypeOK, StatementInv, UsbInv, CleanStart, MainThread
<1>2. QED
  BY <1>1, TakeoverInvariant, PTL

=============================================================================
