-------------------------- MODULE RunBindingProofs --------------------------
(***************************************************************************)
(* Proofs about RunBinding, for any number of runs, whether or not answers *)
(* are late and messages lost.                                             *)
(***************************************************************************)
EXTENDS RunBinding, TLAPS

(* What each step of the Qt thread relies on: the service is told before    *)
(* the engine is subscribed, and the engine is unsubscribed before it is    *)
(* told otherwise.                                                          *)
QtOrder ==
    /\ EnabledIsProcessing
    /\ upc = "subscribe" => processing
    /\ upc \in {"enable", "disable"} => ~token

(* A run that is covered has its stop document handled.                     *)
RunOrder ==
    /\ covered => subscribed
    /\ rpc # "idle" => run > 0
    /\ rpc = "start" => open # run
    /\ BoundRunIsStopped

IInv == BindingTypeOK /\ QtOrder /\ RunOrder

-----------------------------------------------------------------------------
LEMMA InitEstablishes == BindingInit => IInv
<1> SUFFICES ASSUME BindingInit PROVE IInv
  OBVIOUS
<1>1. BindingTypeOK
  <2>1. 0 \in 0 .. MaxRuns /\ 0 \in 0 .. 0
    BY BindingAssumption
  <2>2. QED BY <2>1 DEF BindingInit, BindingTypeOK
<1>2. QtOrder /\ RunOrder
  BY DEF BindingInit, QtOrder, RunOrder, EnabledIsProcessing, BoundRunIsStopped
<1>3. QED BY <1>1, <1>2 DEF IInv

(* The Qt thread: runs are left alone, but for the end of a subscription.   *)
LEMMA QtPreserves ==
  ASSUME IInv, ToggleOn \/ ToggleOff \/ Qt
  PROVE  IInv'
<1>1. CASE ToggleOn
  BY <1>1 DEF ToggleOn, engine, requests, IInv, BindingTypeOK, QtOrder, RunOrder, EnabledIsProcessing,
     BoundRunIsStopped
<1>2. CASE ToggleOff
  BY <1>2 DEF ToggleOff, engine, requests, IInv, BindingTypeOK, QtOrder, RunOrder, EnabledIsProcessing,
     BoundRunIsStopped
<1>3. ASSUME NEW o \in Outcome, Enable(o) PROVE IInv'
  BY <1>3 DEF Enable, Outcome, engine, requests, IInv, BindingTypeOK, QtOrder, RunOrder, EnabledIsProcessing,
     BoundRunIsStopped
<1>4. ASSUME NEW o \in Outcome, Disable(o) PROVE IInv'
  BY <1>4 DEF Disable, engine, requests, IInv, BindingTypeOK, QtOrder, RunOrder, EnabledIsProcessing,
     BoundRunIsStopped
<1>5. CASE Subscribe
  BY <1>5 DEF Subscribe, engine, requests, IInv, BindingTypeOK, QtOrder, RunOrder, EnabledIsProcessing,
     BoundRunIsStopped
<1>6. CASE SubscribeRaises
  BY <1>6 DEF SubscribeRaises, engine, requests, IInv, BindingTypeOK, QtOrder, RunOrder, EnabledIsProcessing,
     BoundRunIsStopped
<1>7. CASE Unsubscribe
  BY <1>7 DEF Unsubscribe, engine, requests, IInv, BindingTypeOK, QtOrder, RunOrder, EnabledIsProcessing,
     BoundRunIsStopped
<1>8. QED BY <1>1, <1>2, <1>3, <1>4, <1>5, <1>6, <1>7 DEF Qt

(* The run engine's thread: the button and the service's state are left     *)
(* alone.                                                                   *)
LEMMA DocumentsPreserve ==
  ASSUME IInv, Documents
  PROVE  IInv'
<1>1. CASE EmitStart
  <2>1. /\ run' = run + 1 /\ open' = open /\ bound' = bound
        /\ run < MaxRuns /\ rpc' \in {"start", "running"}
        /\ covered' = subscribed
        /\ UNCHANGED <<controller, requests>>
    BY <1>1 DEF EmitStart
  <2>2. /\ run' \in 0 .. MaxRuns /\ run' > 0 /\ open' # run'
        /\ open' \in 0 .. run' /\ bound' \in 0 .. run'
    BY <2>1, BindingAssumption DEF IInv, BindingTypeOK
  <2>3. BindingTypeOK'
    BY <2>1, <2>2 DEF controller, requests, IInv, BindingTypeOK
  <2>4. QtOrder' /\ RunOrder'
    BY <2>1, <2>2 DEF controller, requests, IInv, BindingTypeOK, QtOrder, RunOrder, EnabledIsProcessing,
       BoundRunIsStopped
  <2>5. QED BY <2>3, <2>4 DEF IInv
<1>2. CASE ResolveRaises
  BY <1>2 DEF ResolveRaises, controller, requests, IInv, BindingTypeOK, QtOrder, RunOrder, EnabledIsProcessing,
     BoundRunIsStopped
<1>3. CASE RememberRun
  BY <1>3 DEF RememberRun, controller, requests, IInv, BindingTypeOK, QtOrder, RunOrder, EnabledIsProcessing,
     BoundRunIsStopped
<1>4. CASE EmitStop
  BY <1>4 DEF EmitStop, controller, requests, IInv, BindingTypeOK, QtOrder, RunOrder, EnabledIsProcessing,
     BoundRunIsStopped
<1>5. ASSUME NEW arrives \in BOOLEAN, PublishBind(arrives) PROVE IInv'
  BY <1>5 DEF PublishBind, controller, requests, IInv, BindingTypeOK, QtOrder, RunOrder, EnabledIsProcessing,
     BoundRunIsStopped
<1>6. ASSUME NEW arrives \in BOOLEAN, PublishStop(arrives) PROVE IInv'
  BY <1>6 DEF PublishStop, StopUid, controller, requests, IInv, BindingTypeOK, QtOrder, RunOrder,
     EnabledIsProcessing, BoundRunIsStopped
<1>7. Delivered \subseteq BOOLEAN
  BY DEF Delivered
<1>8. QED BY <1>1, <1>2, <1>3, <1>4, <1>5, <1>6, <1>7 DEF Documents

(* IInv holds in every state of every behaviour.                            *)
THEOREM InductiveInvariant == BindingSpec => []IInv
<1>1. BindingInit => IInv
  BY InitEstablishes
<1>2. IInv /\ [BindingNext]_bindingVars => IInv'
  <2> SUFFICES ASSUME IInv, [BindingNext]_bindingVars PROVE IInv'
    OBVIOUS
  <2>1. CASE ToggleOn \/ ToggleOff \/ Qt
    BY <2>1, QtPreserves
  <2>2. CASE Documents
    BY <2>2, DocumentsPreserve
  <2>3. CASE UNCHANGED bindingVars
    BY <2>3 DEF bindingVars, controller, engine, requests, IInv, BindingTypeOK, QtOrder, RunOrder,
       EnabledIsProcessing, BoundRunIsStopped
  <2>4. QED BY <2>1, <2>2, <2>3 DEF BindingNext
<1>3. QED BY <1>1, <1>2, PTL DEF BindingSpec

(* The state keeps its types, and the controller has a token exactly while  *)
(* the run engine has its callback.                                         *)
THEOREM TypeCorrect == BindingSpec => []BindingTypeOK
<1>1. IInv => BindingTypeOK
  BY DEF IInv
<1>2. QED BY <1>1, InductiveInvariant, PTL

(* While the controller is enabled the service processes.                   *)
THEOREM EnabledImpliesProcessing == BindingSpec => []EnabledIsProcessing
<1>1. IInv => EnabledIsProcessing
  BY DEF IInv, QtOrder
<1>2. QED BY <1>1, InductiveInvariant, PTL

(* A run with an unbroken subscription is stopped if it was bound.          *)
THEOREM BoundRunsAreStopped == BindingSpec => []BoundRunIsStopped
<1>1. IInv => BoundRunIsStopped
  BY DEF IInv, RunOrder
<1>2. QED BY <1>1, InductiveInvariant, PTL
=============================================================================
