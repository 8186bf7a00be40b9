------------------------------- MODULE MCXPCS -------------------------------
(***************************************************************************)
(* Two parts of the XPCS panel that share no state, the toggle with the    *)
(* run binding behind it and the regions, checked in one run: a behaviour  *)
(* follows one of them, the other rests in an initial state.               *)
(***************************************************************************)
EXTENDS ROIOverlay, RunBinding

VARIABLE part

Parts == {"toggle", "regions"}

xpcsVars == <<part, vars, bindingVars>>

(* A panel whose regions rest has none, and neither has the service.          *)
XPCSInit ==
    /\ part \in Parts
    /\ Init /\ BindingInit
    /\ part = "toggle" => backend = Nothing /\ backendMask = 0

FollowToggle == part = "toggle" /\ UNCHANGED <<part, vars>>

FollowRegions == part = "regions" /\ UNCHANGED <<part, bindingVars>>

XPCSNext ==
    \/ FollowToggle /\ BindingNext
    \/ FollowRegions /\ Next

(* The Qt loop runs, and each timer by itself.                                *)
XPCSSpec ==
    /\ XPCSInit /\ [][XPCSNext]_xpcsVars
    /\ WF_xpcsVars((FollowToggle /\ Qt) \/ (FollowRegions /\ Events))
    /\ \A r \in Ids : WF_xpcsVars(FollowRegions /\ Timer(r))
=============================================================================
