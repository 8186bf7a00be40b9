----------------------------- MODULE FrameFeed -----------------------------
(***************************************************************************)
(* What a viewer of the stream is promised while the network keeps its     *)
(* datagrams in order: every image shown was captured by the camera, and   *)
(* no image is shown after a newer one or a second time.  Images may be    *)
(* skipped.  FrameAssembler implements this module.                        *)
(***************************************************************************)
EXTENDS Naturals, Sequences

VARIABLES captured,   \* number of the last image the camera began to send
          shown       \* numbers of the images handed to the viewer so far

vars == <<captured, shown>>

Newest(s) == IF s = << >> THEN 0 ELSE s[Len(s)]

Init == captured = 0 /\ shown = << >>

Capture == captured' = captured + 1 /\ UNCHANGED shown

Show == \E f \in (Newest(shown) + 1) .. captured :
           /\ shown' = Append(shown, f)
           /\ UNCHANGED captured

Next == Capture \/ Show

Spec == Init /\ [][Next]_vars
=============================================================================
