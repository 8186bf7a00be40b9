----------------------------- MODULE ROIOverlay -----------------------------
(***************************************************************************)
(* The regions of interest of the XPCS panel: ROIOverlayManager of         *)
(* xpcs/roi_overlay.py, the handlers of xpcs/panel.py that use it, and the *)
(* copy of the regions that the XPCS service keeps.                        *)
(*                                                                         *)
(* All of the panel runs on the Qt thread, so each handler is one step.    *)
(* Its requests to the service leave over one connection, which keeps      *)
(* their order; one that finds no service is lost.  The answers are not    *)
(* looked at, save that of xpcs.status.                                    *)
(***************************************************************************)
EXTENDS Integers, FiniteSets, FiniteSetsExt, Functions

CONSTANTS Ids,        \* identifiers of regions; add_roi takes one that nobody uses
          Shapes,     \* rectangles
          Default,    \* DEFAULT_ROI
          NumColors,  \* length of ROI_COLORS
          MaxMasks,   \* bound: mask rectangles
          Faulty,     \* are requests lost, and do image views fail to be built?
          Restarts    \* does the service restart?

(* An identifier is "roi-" and eight hexadecimal digits of a UUID.            *)
ASSUME OverlayAssumption ==
    /\ IsFiniteSet(Ids)
    /\ Default \in Shapes
    /\ NumColors \in Nat \ {0} /\ MaxMasks \in Nat
    /\ Faulty \in BOOLEAN /\ Restarts \in BOOLEAN

VARIABLES
    rois,         \* ROIOverlayManager.rois: the regions shown, and their shapes
    colors,       \* _colors: the position in ROI_COLORS of each region's colour
    pending,      \* regions whose debounce timer runs
    masks,        \* _mask_rects, of which only the number is kept
    opening,      \* is the first resync of a new panel still to come?
    switching,    \* has a run bound another detector than the panel shows?
    backend,      \* service: the regions
    backendMask,  \* service: the number of rectangles of the mask in force
    lost,         \* history: has a request been lost, or the service restarted, since both agreed?
    dragged,      \* history: regions the user has moved, and the service not heard of
    peak          \* history: most regions shown since none was

overlay == <<rois, colors, pending, dragged, peak>>
service == <<backend, backendMask>>
vars == <<overlay, masks, opening, switching, service, lost>>

Palette == 1 .. NumColors
Shown   == DOMAIN rois

Nothing == <<>>

(* What may become of a request: does the service see it?                    *)
Arrives == IF Faulty THEN BOOLEAN ELSE {TRUE}

Init ==
    /\ rois = Nothing /\ colors = Nothing /\ pending = {} /\ masks = 0
    /\ opening = TRUE /\ switching = FALSE
    /\ \E R \in SUBSET Ids : backend \in [R -> Shapes]
    /\ backendMask \in 0 .. MaxMasks
    /\ lost = FALSE /\ dragged = {} /\ peak = 0

-----------------------------------------------------------------------------
(* ROIOverlayManager *)

With(f, x, y)  == [z \in DOMAIN f \cup {x} |-> IF z = x THEN y ELSE f[z]]
Without(f, S)  == Restrict(f, DOMAIN f \ S)

(* Fault: the colour is chosen by position.                                  *)
AllocateByCount == (Cardinality(DOMAIN colors) % NumColors) + 1

AllocateColor ==
    LET free == Palette \ Range(colors)
    IN IF free # {} THEN Min(free) ELSE (Cardinality(DOMAIN colors) % NumColors) + 1

AddRoi(r) ==
    /\ rois' = With(rois, r, Default)
    /\ colors' = With(colors, r, AllocateColor)
    /\ peak' = Max({peak, Cardinality(Shown) + 1})
    /\ UNCHANGED <<pending, dragged>>

(* Fault: the colours of removed regions stay taken.                         *)
RemoveRoisKeepColors(R) ==
    /\ rois' = Without(rois, R)
    /\ pending' = pending \ R
    /\ dragged' = dragged \ R
    /\ peak' = IF Shown \subseteq R THEN 0 ELSE peak
    /\ UNCHANGED colors

RemoveRois(R) ==
    /\ rois' = Without(rois, R)
    /\ colors' = Without(colors, R)
    /\ pending' = pending \ R
    /\ dragged' = dragged \ R
    /\ peak' = IF Shown \subseteq R THEN 0 ELSE peak

(* add_roi, once for each region of the status in some order, on an overlay  *)
(* that was emptied without a signal.                                        *)
Rebuilt ==
    /\ rois' = backend
    /\ \E position \in Bijection(DOMAIN backend, 1 .. Cardinality(DOMAIN backend)) :
          colors' = [r \in DOMAIN backend |-> ((position[r] - 1) % NumColors) + 1]
    /\ dragged' = {}
    /\ peak' = Cardinality(DOMAIN backend)

(* Fault: the timers of the regions that are gone run on.                    *)
SyncKeepsTimers == Rebuilt /\ UNCHANGED pending

SyncFromStatus == Rebuilt /\ pending' = {}

-----------------------------------------------------------------------------
(* The user *)

(* The button: a new region is shown and sent.                               *)
OnAddRoi(r, arrives) ==
    /\ r \notin Shown \cup DOMAIN backend
    /\ AddRoi(r)
    /\ backend' = IF arrives THEN With(backend, r, Default) ELSE backend
    /\ lost' = (lost \/ ~arrives)
    /\ UNCHANGED <<masks, opening, switching, backendMask>>

(* A region is dragged and released: _debounce (re)starts its timer.         *)
Drag(r, s) ==
    /\ rois' = [rois EXCEPT ![r] = s]
    /\ pending' = pending \cup {r}
    /\ dragged' = dragged \cup {r}
    /\ UNCHANGED <<colors, peak, masks, opening, switching, service, lost>>

(* remove_roi of the overlay: no control of the panel removes a single one.  *)
RemoveRoi(r, arrives) ==
    /\ RemoveRois({r})
    /\ backend' = IF arrives THEN Without(backend, {r}) ELSE backend
    /\ lost' = (lost \/ ~arrives)
    /\ UNCHANGED <<masks, opening, switching, backendMask>>

(* What is left of the service's regions when each of those shown was to be  *)
(* removed, and requests may have been lost.                                 *)
AfterRemovals ==
    {Without(backend, R) : R \in IF Faulty THEN SUBSET Shown ELSE {Shown}}

(* The regions are removed one by one, and then all at once.                 *)
OnClearRois(arrives) ==
    /\ RemoveRois(Shown)
    /\ backend' \in IF arrives THEN {Nothing} ELSE AfterRemovals
    /\ lost' = (backend' # Nothing)
    /\ UNCHANGED <<masks, opening, switching, backendMask>>

OnAddMask ==
    /\ masks < MaxMasks
    /\ masks' = masks + 1
    /\ UNCHANGED <<overlay, opening, switching, service, lost>>

OnApplyMask(arrives) ==
    /\ backendMask' = IF arrives THEN masks ELSE backendMask
    /\ UNCHANGED <<overlay, masks, opening, switching, backend, lost>>

OnClearMask(arrives) ==
    /\ masks' = 0
    /\ backendMask' = IF arrives THEN 0 ELSE backendMask
    /\ UNCHANGED <<overlay, opening, switching, backend, lost>>

(* The panel is closed, and another one opened.                              *)
Reopen ==
    /\ ~opening
    /\ rois' = Nothing /\ colors' = Nothing /\ pending' = {} /\ masks' = 0
    /\ dragged' = {} /\ peak' = 0
    /\ opening' = TRUE /\ switching' = FALSE
    /\ lost' = FALSE
    /\ UNCHANGED service

-----------------------------------------------------------------------------
(* Events of the Qt loop *)

(* Fault: the timer sends the shape the region was created with.             *)
TimerFiresWithOldShape(r, arrives) ==
    /\ r \in pending
    /\ pending' = pending \ {r}
    /\ dragged' = dragged \ {r}
    /\ backend' = IF arrives THEN With(backend, r, Default) ELSE backend
    /\ lost' = (lost \/ ~arrives)
    /\ UNCHANGED <<rois, colors, peak, masks, opening, switching, backendMask>>

TimerFires(r, arrives) ==
    /\ r \in pending
    /\ pending' = pending \ {r}
    /\ IF r \in Shown
       THEN /\ backend' = IF arrives THEN With(backend, r, rois[r]) ELSE backend
            /\ lost' = (lost \/ ~arrives)
            /\ dragged' = dragged \ {r}
       ELSE UNCHANGED <<backend, lost, dragged>>
    /\ UNCHANGED <<rois, colors, peak, masks, opening, switching, backendMask>>

Resync(arrives) ==
    /\ opening
    /\ opening' = FALSE
    /\ IF arrives
       THEN SyncFromStatus /\ lost' = FALSE
       ELSE lost' = TRUE /\ UNCHANGED overlay
    /\ UNCHANGED <<masks, switching, service>>

(* Fault: the new image gets an overlay, the old one's regions stay behind.  *)
OnDetectorResolvedQuietly ==
    /\ switching
    /\ switching' = FALSE
    /\ rois' = Nothing /\ colors' = Nothing /\ pending' = {} /\ masks' = 0
    /\ dragged' = {} /\ peak' = 0
    /\ lost' = FALSE
    /\ UNCHANGED <<opening, service>>

(* _on_detector_resolved: the overlay is emptied, signals and all, and       *)
(* another one takes its place on the new image.                             *)
OnDetectorResolved ==
    /\ switching
    /\ switching' = FALSE
    /\ RemoveRois(Shown)
    /\ masks' = 0
    /\ backend' \in AfterRemovals
    /\ lost' = (backend' # Nothing)
    /\ UNCHANGED <<opening, backendMask>>

ImageViewFails ==
    /\ Faulty /\ switching
    /\ switching' = FALSE
    /\ lost' = TRUE
    /\ UNCHANGED <<overlay, masks, opening, service>>

-----------------------------------------------------------------------------
(* The service *)

(* A run binds another detector, which clears regions and mask; the panel is *)
(* told through a queued signal.                                             *)
BindDetector ==
    /\ ~opening
    /\ switching' = TRUE
    /\ backend' = Nothing /\ backendMask' = 0
    /\ UNCHANGED <<overlay, masks, opening, lost>>

Restart ==
    /\ Restarts
    /\ service # <<Nothing, 0>>
    /\ backend' = Nothing /\ backendMask' = 0
    /\ lost' = TRUE
    /\ UNCHANGED <<overlay, masks, opening, switching>>

-----------------------------------------------------------------------------
User ==
    \/ \E r \in Shown, s \in Shapes : Drag(r, s)
    \/ \E arrives \in Arrives :
          \/ \E r \in Ids : OnAddRoi(r, arrives)
          \/ \E r \in Shown : RemoveRoi(r, arrives)
          \/ OnClearRois(arrives) \/ OnApplyMask(arrives) \/ OnClearMask(arrives)
    \/ OnAddMask
    \/ Reopen

Timer(r) == \E arrives \in Arrives : TimerFires(r, arrives)

Events ==
    \/ \E arrives \in Arrives : Resync(arrives)
    \/ OnDetectorResolved
    \/ ImageViewFails

Next == User \/ (\E r \in Ids : Timer(r)) \/ Events \/ BindDetector \/ Restart

Spec == Init /\ [][Next]_vars

(* The Qt loop runs: timers fire and queued events are handled.              *)
LiveSpec == Spec /\ WF_vars(Events) /\ \A r \in Ids : WF_vars(Timer(r))

-----------------------------------------------------------------------------
(* Properties *)

Regions == UNION {[R -> Shapes] : R \in SUBSET Ids}

(* Types of the state; every region that is shown has a colour, and no other  *)
(* has one or can still send a change.                                        *)
TypeOK ==
    /\ rois \in Regions
    /\ colors \in [Shown -> Palette]
    /\ pending \subseteq Shown
    /\ masks \in 0 .. MaxMasks
    /\ opening \in BOOLEAN /\ switching \in BOOLEAN
    /\ backend \in Regions
    /\ backendMask \in 0 .. MaxMasks
    /\ lost \in BOOLEAN
    /\ dragged \subseteq Shown
    /\ peak \in 0 .. Cardinality(Ids)

Agree(r) == /\ r \in Shown <=> r \in DOMAIN backend
            /\ r \in Shown => rois[r] = backend[r]

(* The panel and the service agree on every region but those whose timer runs, *)
(* unless a request was lost or the service has dropped its regions since the *)
(* panel last read them: no order of edits, timers and rebuilds gets them     *)
(* apart.                                                                     *)
PanelMatchesService ==
    ~(lost \/ opening \/ switching) => \A r \in Ids \ pending : Agree(r)

(* "Colors are recycled on removal so up to len(ROI_COLORS) live ROIs stay     *)
(* visually distinct": so it is as long as there were never more at once.  (A  *)
(* region that took a colour twice keeps it when others are removed.)         *)
ColorsDistinctSoFar == peak <= NumColors => IsInjective(colors)

(* A change is sent only of a region the user has moved since the panel was   *)
(* rebuilt from the service: a timer of before the rebuild does not report a  *)
(* region of the same name.                                                   *)
NoUnsolicitedChange ==
    [][ \A r \in Ids, arrives \in BOOLEAN :
           TimerFires(r, arrives) /\ r \in Shown => r \in dragged ]_vars

(* However they got apart - a timer runs, a panel opens, a run binds another  *)
(* detector -, panel and service come to agree on every region, unless a      *)
(* request is lost or the service restarts meanwhile.                         *)
Recovers == \A r \in Ids : ~Agree(r) ~> Agree(r) \/ lost
=============================================================================
