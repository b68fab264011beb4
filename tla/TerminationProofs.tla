------------------------- MODULE TerminationProofs --------------------------
(***************************************************************************)
(* Proofs about Termination, for any number of callers:                    *)
(*                                                                         *)
(*   TerminationTypeCorrect  Spec => []TypeOK                              *)
(*   ErrorReachesACaller     Spec => []ErrorDelivered                      *)
(***************************************************************************)
EXTENDS Termination, TLAPS

\* Before the supervisor goroutine is rid of its error, no call is past its
\* receive and nothing is recorded; it sends an error only if it has one.
BeforeTheEnd ==
    /\ sup = "running" => supErr = NoError
    /\ sup \in {"running", "sending"} =>
           /\ ~terminated
           /\ \A c \in Client : call[c] \in {"idle", "checking", "receiving"}

\* The caller that met the supervisor in its send holds the error, and has
\* announced it when its call is over.
OneHasTheError ==
    (supErr = SupError /\ sup \notin {"running", "sending"}) =>
        \E c \in Client :
            /\ result[c] = SupError
            /\ \/ call[c] \in {"storing", "notifying"}
               \/ call[c] = "done" /\ "Failed" \in events

DeliveryInv == TypeOK /\ BeforeTheEnd /\ OneHasTheError

\* At first the supervisor runs and nobody calls.
LEMMA DeliveryInit == Init => DeliveryInv
  BY DEF Init, DeliveryInv, TypeOK, BeforeTheEnd, OneHasTheError, Error

\* Every step keeps the types: one case per action.
LEMMA TerminationTypeStep == TypeOK /\ [Next]_vars => TypeOK'
<1> SUFFICES ASSUME TypeOK, [Next]_vars
             PROVE  TypeOK'
  OBVIOUS
<1> USE DEF TypeOK, supVars, managerVars
<1>1. CASE MonitorEnds
  BY <1>1 DEF MonitorEnds, AfterMonitor, Error
<1>2. CASE CloseControl
  BY <1>2 DEF CloseControl
<1>3. CASE CloseTerminate
  BY <1>3 DEF CloseTerminate
<1>4. ASSUME NEW c \in Client, Begin(c)
      PROVE  TypeOK'
  BY <1>4 DEF Begin
<1>5. ASSUME NEW c \in Client, ClientStep(c)
      PROVE  TypeOK'
  <2>1. CASE GetTerminateErr(c)
    BY <2>1 DEF GetTerminateErr
  <2>2. CASE ReceiveError(c)
    BY <2>2 DEF ReceiveError
  <2>3. CASE ReceiveClosed(c)
    BY <2>3 DEF ReceiveClosed, Error
  <2>4. CASE StillRunning(c)
    BY <2>4 DEF StillRunning
  <2>5. CASE SetTerminationErr(c)
    BY <2>5 DEF SetTerminationErr
  <2>6. CASE Notify(c)
    BY <2>6 DEF Notify
  <2> QED
    BY <1>5, <2>1, <2>2, <2>3, <2>4, <2>5, <2>6 DEF ClientStep
<1>6. CASE UNCHANGED vars
  BY <1>6 DEF vars
<1> QED
  BY <1>1, <1>2, <1>3, <1>4, <1>5, <1>6 DEF Next, Over

\* Every step keeps track of who has the error: one case per action.
LEMMA DeliveryStep == DeliveryInv /\ [Next]_vars => DeliveryInv'
<1> SUFFICES ASSUME DeliveryInv, [Next]_vars
             PROVE  DeliveryInv'
  OBVIOUS
<1>0. TypeOK /\ TypeOK'
  BY TerminationTypeStep DEF DeliveryInv
<1>a. /\ call \in [Client -> {"idle", "checking", "receiving", "storing",
                              "notifying", "done"}]
      /\ result \in [Client -> Error]
      /\ sup \in {"running", "sending", "closing", "closingTerminate", "gone"}
      /\ supErr \in Error
      /\ termOpen <=> sup # "gone"
  BY <1>0 DEF TypeOK
<1> USE TerminationAssumption DEF DeliveryInv, BeforeTheEnd, OneHasTheError, supVars, managerVars
<1>1. CASE MonitorEnds
  BY <1>0, <1>a, <1>1 DEF MonitorEnds, AfterMonitor
<1>2. CASE CloseControl \/ CloseTerminate
  BY <1>0, <1>2 DEF CloseControl, CloseTerminate
<1>3. ASSUME NEW c \in Client, Begin(c)
      PROVE  DeliveryInv'
  BY <1>0, <1>a, <1>3 DEF Begin
<1>4. ASSUME NEW c \in Client, GetTerminateErr(c)
      PROVE  DeliveryInv'
  BY <1>0, <1>a, <1>4 DEF GetTerminateErr
<1>5. ASSUME NEW c \in Client, ReceiveError(c)
      PROVE  DeliveryInv'
  <2>1. result'[c] = supErr /\ call'[c] = "storing" /\ sup' = "closing" /\ supErr' = supErr
    BY <1>a, <1>5 DEF ReceiveError
  <2> QED
    BY <1>0, <2>1
<1>6. ASSUME NEW c \in Client, ReceiveClosed(c)
      PROVE  DeliveryInv'
  BY <1>0, <1>a, <1>6 DEF ReceiveClosed
<1>7. ASSUME NEW c \in Client, StillRunning(c)
      PROVE  DeliveryInv'
  BY <1>0, <1>a, <1>7 DEF StillRunning
<1>8. ASSUME NEW c \in Client, SetTerminationErr(c)
      PROVE  DeliveryInv'
  BY <1>0, <1>a, <1>8 DEF SetTerminationErr
<1>9. ASSUME NEW c \in Client, Notify(c)
      PROVE  DeliveryInv'
  <2>1. BeforeTheEnd'
    BY <1>a, <1>9 DEF Notify
  <2>2. OneHasTheError'
    <3> SUFFICES ASSUME supErr = SupError, sup \notin {"running", "sending"}
                 PROVE  OneHasTheError'
      BY <1>9 DEF Notify
    <3>1. PICK d \in Client :
              /\ result[d] = SupError
              /\ \/ call[d] \in {"storing", "notifying"}
                 \/ call[d] = "done" /\ "Failed" \in events
      OBVIOUS
    <3>2. result'[d] = SupError /\ call[c] = "notifying"
          /\ call' = [call EXCEPT ![c] = "done"]
      BY <1>9, <3>1 DEF Notify
    <3>3. CASE d = c
      <4>1. call'[d] = "done" /\ "Failed" \in events'
        BY <1>a, <1>9, <3>1, <3>2, <3>3 DEF Notify
      <4> QED
        BY <3>2, <4>1
    <3>4. CASE d # c
      <4>1. call'[d] = call[d] /\ events \subseteq events'
        BY <1>a, <1>9, <3>2, <3>4 DEF Notify
      <4> QED
        BY <3>1, <3>2, <4>1
    <3> QED
      BY <3>3, <3>4
  <2> QED
    BY <1>0, <2>1, <2>2
<1>10. CASE UNCHANGED vars
  BY <1>0, <1>10 DEF vars
<1> QED
  BY <1>1, <1>2, <1>3, <1>4, <1>5, <1>6, <1>7, <1>8, <1>9, <1>10
  DEF Next, ClientStep, Over

\* Who has the error is known throughout.
LEMMA DeliveryHolds == Spec => []DeliveryInv
  BY DeliveryInit, DeliveryStep, PTL DEF Spec

\* Every variable stays in its range, and onTerminate closes the two channels
\* in its order, whatever the callers do.
THEOREM TerminationTypeCorrect == Spec => []TypeOK
<1>1. DeliveryInv => TypeOK
  BY DEF DeliveryInv
<1> QED
  BY <1>1, DeliveryHolds, PTL

\* If anybody ever calls Terminate, Wait or GetCrashError, the error of the
\* supervisor is returned to one of the callers and announced by it, once all
\* calls are over, however many there are and whatever their order.
THEOREM ErrorReachesACaller == Client # {} => (Spec => []ErrorDelivered)
<1> SUFFICES ASSUME Client # {}
             PROVE  Spec => []ErrorDelivered
  OBVIOUS
<1>1. DeliveryInv => ErrorDelivered
  <2> SUFFICES ASSUME DeliveryInv, supErr = SupError, \A c \in Client : call[c] = "done"
               PROVE  /\ \E c \in Client : result[c] = SupError
                      /\ "Failed" \in events
    BY DEF ErrorDelivered
  <2>1. sup \notin {"running", "sending"}
    BY DEF DeliveryInv, BeforeTheEnd
  <2> QED
    BY <2>1 DEF DeliveryInv, OneHasTheError
<1> QED
  BY <1>1, DeliveryHolds, PTL
=============================================================================
