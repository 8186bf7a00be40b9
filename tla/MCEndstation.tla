---------------------------- MODULE MCEndstation ----------------------------
(***************************************************************************)
(* The parts of the endstation that share no state, checked in one run: a  *)
(* behaviour picks a part and follows it, the others rest in their initial *)
(* state.                                                                  *)
(***************************************************************************)
EXTENDS ScanFit, ScanColumns, AlignmentProcedure, DeadbandMotor, DetectorStaging,
        DiodeWidget, Discovery

VARIABLE part

vars == <<part, fitVars, columnsVars, procedureVars, motorVars, stagingVars, widgetVars,
          discoveryVars>>

Init ==
    /\ part \in {"fit", "columns", "procedure", "motor", "staging", "widget", "discovery"}
    /\ FitInit /\ ColumnsInit /\ ProcedureInit /\ MotorInit /\ StagingInit /\ WidgetInit
    /\ DiscoveryInit

(* Only this part takes a step.                                               *)
FollowFit ==
    /\ part = "fit"
    /\ UNCHANGED <<part, columnsVars, procedureVars, motorVars, stagingVars, widgetVars, discoveryVars>>

FollowColumns ==
    /\ part = "columns"
    /\ UNCHANGED <<part, fitVars, procedureVars, motorVars, stagingVars, widgetVars, discoveryVars>>

FollowProcedure ==
    /\ part = "procedure"
    /\ UNCHANGED <<part, fitVars, columnsVars, motorVars, stagingVars, widgetVars, discoveryVars>>

FollowMotor ==
    /\ part = "motor"
    /\ UNCHANGED <<part, fitVars, columnsVars, procedureVars, stagingVars, widgetVars, discoveryVars>>

FollowStaging ==
    /\ part = "staging"
    /\ UNCHANGED <<part, fitVars, columnsVars, procedureVars, motorVars, widgetVars, discoveryVars>>

FollowWidget ==
    /\ part = "widget"
    /\ UNCHANGED <<part, fitVars, columnsVars, procedureVars, motorVars, stagingVars, discoveryVars>>

FollowDiscovery ==
    /\ part = "discovery"
    /\ UNCHANGED <<part, fitVars, columnsVars, procedureVars, motorVars, stagingVars, widgetVars>>

Next ==
    \/ FollowFit /\ FitNext
    \/ FollowColumns /\ ColumnsNext
    \/ FollowProcedure /\ ProcedureNext
    \/ FollowMotor /\ MotorNext
    \/ FollowStaging /\ StagingNext
    \/ FollowWidget /\ WidgetNext
    \/ FollowDiscovery /\ DiscoveryNext

(* What has to go on in the part that is followed                            *)
Progress ==
    \/ FollowProcedure /\ ProcedureStep
    \/ FollowMotor /\ MotorProgress
    \/ FollowWidget /\ Refresh

Spec == Init /\ [][Next]_vars /\ WF_vars(Progress)

(* Types of the parts                                                         *)
PartsTypeOK ==
    /\ FitTypeOK /\ ColumnsTypeOK /\ ProcedureTypeOK /\ MotorTypeOK /\ StagingTypeOK
    /\ WidgetTypeOK /\ DiscoveryTypeOK

-----------------------------------------------------------------------------
(* Values of the constants that a configuration file cannot write *)

MCCameraOf == [i \in Interfaces |-> IF i = "b1" THEN "b" ELSE "a"]

MCLiftHalf == [coarse |-> 3, fine |-> 2, tight |-> 2]
MCThetaHalf == [wide \in BOOLEAN |-> IF wide THEN 4 ELSE 3]
MCLiftOffsets == {-2, 0, 1}
MCThetaOffsets == {0, 2}
=============================================================================
