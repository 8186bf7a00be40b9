----------------------------- MODULE XPCSPanel ------------------------------
(***************************************************************************)
(* The live panel of XPCS: what the events of the XPCS service and the     *)
(* resync of a newly opened panel leave on its plots (xpcs/panel.py,       *)
(* xpcs/plots.py, the events and the fetches of xpcs/client.py).           *)
(*                                                                         *)
(* Events reach the panel through a queue of the Qt thread, in the order   *)
(* in which the service sent them.  A request blocks that thread: what the *)
(* service sends meanwhile waits in the queue, though the answer, which is *)
(* newer, is used at once.  Everything plotted is stamped with its run.    *)
(* Regions and masks are in ROIOverlay, the run binding in RunBinding.     *)
(***************************************************************************)
EXTENDS Naturals, SequencesExt

CONSTANTS MaxRuns,      \* bound: runs bound to the service
          MaxSections,  \* bound: sections of a run
          MaxFrames,    \* bound: frames of a run
          MaxEvents,    \* bound: what the service and the user do, in total
          PageLimit,    \* sections in a page of xpcs.sections.get, 20 in the code
          States,       \* states of the service, which the panel only displays
          Rois,         \* identifiers of regions with curves of their own
          Lossy         \* are requests left unanswered?

ASSUME PanelAssumption ==
    /\ MaxRuns \in Nat /\ MaxSections \in Nat /\ MaxFrames \in Nat /\ MaxEvents \in Nat
    /\ PageLimit \in Nat \ {0}
    /\ {"Disabled", "Processing"} \subseteq States
    /\ "average" \notin Rois
    /\ Lossy \in BOOLEAN

VARIABLES
    service,     \* the service: its state, run, and the run's sections and frames
    queue,       \* events sent and not yet handled
    events,      \* how much has happened, at most MaxEvents
    phase,       \* of the Qt thread: resync is due, fetches pages, or is over
    wanted,      \* resync: n_sections
    fetched,     \* resync: fetched
    label,       \* _state_label
    run_uid,     \* _run_uid: the run the panel has heard of last, or NoRun
    file_path,   \* _file_path: the run whose file was seen last, or NoRun
    error,       \* _error_label: shows "none", a message of the "service" or of a failed "toggle"
    g2, intensity,  \* _g2_plot, _intensity_plot: the run behind each curve
    sections,    \* _sections_plot: the sections drawn
    series,      \* _convergence_plot: for each curve the frames, with their run
    early,        \* history: was the run bound before the panel opened?
    missed,       \* history: have sections of the run been kept from the panel?
    wasReset,     \* history: has the service's run been reset?
    failing,      \* history: has the service met an error since it first streamed its file?
    toggleFailed, \* history: has the enable toggle failed since then, or since that error?
    streamed      \* history: the run the service last sent results of to this panel

resync == <<phase, wanted, fetched>>
plots == <<g2, intensity, sections, series>>
history == <<early, missed, wasReset, failing, toggleFailed, streamed>>
texts == <<label, run_uid, file_path, error>>
vars == <<service, queue, events, resync, plots, texts, history>>

NoRun    == 0
Curves   == Rois \cup {"average"}
NoCurve  == <<>>
Missing  == "backend not found"

(* What may become of a request.                                             *)
Answered == IF Lossy THEN BOOLEAN ELSE {TRUE}

Init ==
    /\ phase = "opening" /\ wanted = 0 /\ fetched = 0
    /\ label = "-" /\ run_uid = NoRun /\ file_path = NoRun /\ error = "none"
    /\ g2 = NoCurve /\ intensity = NoCurve /\ sections = <<>> /\ series = NoCurve
    /\ queue = <<>> /\ failing = FALSE /\ toggleFailed = FALSE /\ streamed = NoRun
    /\ events = 0
    /\ service \in [state : States, run : {NoRun}, sections : {0}, frames : {0}]
               \cup [state : States, run : {1} \cap (0 .. MaxRuns),
                     sections : 0 .. MaxSections, frames : {0}]
    /\ early = (service.run # NoRun) /\ missed = FALSE
    /\ wasReset = FALSE

-----------------------------------------------------------------------------
(* The service *)

Happens == /\ events < MaxEvents
           /\ events' = events + 1

Send(event) == queue' = Append(queue, event)

State(state, run) == [subject |-> "state", state |-> state, run |-> run]

BindRun ==
    /\ Happens
    /\ service.run < MaxRuns
    /\ service' = [state |-> "Processing", run |-> service.run + 1, sections |-> 0, frames |-> 0]
    /\ Send(State("Processing", service.run + 1))
    /\ early' = FALSE /\ missed' = FALSE /\ wasReset' = FALSE
    /\ UNCHANGED <<resync, plots, texts, failing, toggleFailed, streamed>>

Transition(state) ==
    /\ Happens
    /\ state # service.state
    /\ service' = [service EXCEPT !.state = state]
    /\ \E run \in {service.run, NoRun} : Send(State(state, run))
    /\ UNCHANGED <<resync, plots, texts, history>>

CompleteSection ==
    /\ Happens
    /\ service.state = "Processing" /\ service.run # NoRun
    /\ service.sections < MaxSections
    /\ service' = [service EXCEPT !.sections = @ + 1]
    /\ Send([subject |-> "section", run |-> service.run, index |-> service.sections + 1])
    /\ UNCHANGED <<resync, plots, texts, history>>

(* Results carry the curves of the average and of some regions; the arrays   *)
(* of a region that is new may not match the others in length.               *)
PublishG2(ids, ragged, more) ==
    /\ Happens
    /\ service.state = "Processing" /\ service.run # NoRun
    /\ service.frames + more \in 1 .. MaxFrames
    /\ service' = [service EXCEPT !.frames = @ + more]
    /\ Send([subject |-> "g2", run |-> service.run, frames |-> service.frames + more,
             ids |-> ids, ragged |-> ragged])
    /\ streamed' = service.run
    /\ failing' = (failing /\ streamed = service.run)
    /\ toggleFailed' = (toggleFailed /\ streamed = service.run)
    /\ UNCHANGED <<resync, plots, texts, early, missed, wasReset>>

ReportError ==
    /\ Happens
    /\ Send([subject |-> "error"])
    /\ failing' = TRUE /\ toggleFailed' = FALSE
    /\ UNCHANGED <<service, resync, plots, texts, early, missed, wasReset, streamed>>

-----------------------------------------------------------------------------
(* The plots *)

(* Fault: the series survive.                                                *)
ClearCurvesOnly == g2' = NoCurve /\ intensity' = NoCurve /\ sections' = <<>> /\ UNCHANGED series

ClearPlots == g2' = NoCurve /\ intensity' = NoCurve /\ sections' = <<>> /\ series' = NoCurve

(* G2Plot: a curve that cannot be drawn keeps what it showed.                *)
G2Curves(e) ==
    [c \in (e.ids \ e.ragged) \cup (e.ids \cap DOMAIN g2) |->
        IF c \in e.ragged THEN g2[c] ELSE e.run]

(* IntensityPlot: it goes.                                                   *)
IntensityCurves(e) == [c \in e.ids \ e.ragged |-> e.run]

(* Fault: a repeated result is a point of its own.                           *)
EveryPoint(points, e) == Append(points, [run |-> e.run, frames |-> e.frames])

WithPoint(points, e) ==
    IF points # <<>> /\ Last(points).frames = e.frames
    THEN points
    ELSE Append(points, [run |-> e.run, frames |-> e.frames])

ConvergenceSeries(e) ==
    [c \in DOMAIN series \cup e.ids |->
        LET points == IF c \in DOMAIN series THEN series[c] ELSE <<>>
        IN IF c \in e.ids THEN WithPoint(points, e) ELSE points]

AddSection(drawn, run, index) == Append(drawn, [run |-> run, index |-> index])

-----------------------------------------------------------------------------
(* The handlers of events *)

(* Fault: the error stays until the panel is closed.                         *)
OnG2KeepsError(e) ==
    /\ e.subject = "g2"
    /\ g2' = G2Curves(e) /\ intensity' = IntensityCurves(e) /\ series' = ConvergenceSeries(e)
    /\ file_path' = e.run
    /\ UNCHANGED <<sections, label, run_uid, error>>

OnG2Updated(e) ==
    /\ e.subject = "g2"
    /\ g2' = G2Curves(e) /\ intensity' = IntensityCurves(e) /\ series' = ConvergenceSeries(e)
    /\ file_path' = e.run
    /\ error' = IF file_path = e.run THEN error ELSE "none"
    /\ UNCHANGED <<sections, label, run_uid>>

OnSectionCompleted(e) ==
    /\ e.subject = "section"
    /\ sections' = AddSection(sections, e.run, e.index)
    /\ UNCHANGED <<g2, intensity, series, texts>>

(* Fault: the panel is cleared by every event that names a run.              *)
OnEveryStateClear(e) ==
    /\ e.subject = "state"
    /\ label' = e.state
    /\ IF e.run # NoRun
       THEN run_uid' = e.run /\ ClearPlots
       ELSE UNCHANGED <<run_uid, plots>>
    /\ UNCHANGED <<file_path, error>>

OnStateChanged(e) ==
    /\ e.subject = "state"
    /\ label' = e.state
    /\ IF e.run \notin {NoRun, run_uid}
       THEN run_uid' = e.run /\ ClearPlots
       ELSE UNCHANGED <<run_uid, plots>>
    /\ UNCHANGED <<file_path, error>>

OnError(e) ==
    /\ e.subject = "error"
    /\ error' = "service"
    /\ UNCHANGED <<plots, label, run_uid, file_path>>

HandleEvent ==
    /\ phase \in {"opening", "ready"}
    /\ queue # <<>>
    /\ queue' = Tail(queue)
    /\ LET e == Head(queue)
       IN OnG2Updated(e) \/ OnSectionCompleted(e) \/ OnStateChanged(e) \/ OnError(e)
    /\ UNCHANGED <<service, events, resync, history>>

-----------------------------------------------------------------------------
(* resync: the status, and then the sections page by page *)

ResyncStatus(answered) ==
    /\ phase = "opening"
    /\ IF answered
       THEN /\ label' = service.state
            /\ wanted' = service.sections
            /\ sections' = IF service.sections > 0 THEN <<>> ELSE sections
       ELSE /\ label' = Missing
            /\ UNCHANGED <<wanted, sections>>
    /\ phase' = IF wanted' > 0 THEN "paging" ELSE "ready"
    /\ missed' = (missed \/ (~answered /\ early))
    /\ UNCHANGED <<service, queue, events, fetched, g2, intensity, series,
                   run_uid, file_path, error, early, wasReset, failing, toggleFailed, streamed>>

Page(answered) ==
    IF answered
    THEN [i \in 1 .. Min({PageLimit, service.sections - Min({fetched, service.sections})}) |->
             [run |-> service.run, index |-> fetched + i]]
    ELSE <<>>

(* Fault: the loop ends when it has all it wants, and not before.            *)
ResyncPageUntilAll(answered) ==
    /\ phase = "paging"
    /\ sections' = sections \o Page(answered)
    /\ fetched' = fetched + Len(Page(answered))
    /\ phase' = IF fetched' < wanted THEN "paging" ELSE "ready"
    /\ missed' = (missed \/ ~answered)
    /\ UNCHANGED <<service, queue, events, wanted, g2, intensity, series, texts,
                   early, wasReset, failing, toggleFailed, streamed>>

ResyncPage(answered) ==
    /\ phase = "paging"
    /\ sections' = sections \o Page(answered)
    /\ fetched' = fetched + Len(Page(answered))
    /\ phase' = IF Len(Page(answered)) = PageLimit /\ fetched' < wanted THEN "paging" ELSE "ready"
    /\ missed' = (missed \/ ~answered)
    /\ UNCHANGED <<service, queue, events, wanted, g2, intensity, series, texts,
                   early, wasReset, failing, toggleFailed, streamed>>

-----------------------------------------------------------------------------
(* The user *)

(* The reset button, of which only the service takes notice.                 *)
Reset ==
    /\ Happens
    /\ phase = "ready"
    /\ service' = [service EXCEPT !.sections = 0, !.frames = 0]
    /\ wasReset' = TRUE
    /\ UNCHANGED <<queue, resync, plots, texts, early, missed, failing, toggleFailed, streamed>>

OnClearRois ==
    /\ Happens
    /\ phase = "ready"
    /\ g2' = NoCurve /\ intensity' = NoCurve
    /\ UNCHANGED <<service, queue, resync, sections, series, texts, history>>

(* Enabling or disabling raises: the error label shows what the exception      *)
(* says, which may be nothing.  What it changed of the service is a           *)
(* Transition of the service.                                                 *)
ToggleFails ==
    /\ Happens
    /\ phase = "ready"
    /\ error' \in {"toggle", "none"}
    /\ toggleFailed' = TRUE
    /\ UNCHANGED <<service, queue, resync, plots, label, run_uid, file_path,
                   early, missed, wasReset, failing, streamed>>

(* The panel is closed, which disables the service if it was enabled from    *)
(* here, and another one opened.                                             *)
Reopen ==
    /\ Happens
    /\ phase = "ready"
    /\ phase' = "opening" /\ wanted' = 0 /\ fetched' = 0
    /\ label' = "-" /\ run_uid' = NoRun /\ file_path' = NoRun /\ error' = "none"
    /\ g2' = NoCurve /\ intensity' = NoCurve /\ sections' = <<>> /\ series' = NoCurve
    /\ queue' = <<>> /\ failing' = FALSE /\ toggleFailed' = FALSE /\ streamed' = NoRun
    /\ service' \in {service, [service EXCEPT !.state = "Disabled"]}
    /\ early' = (service.run # NoRun) /\ missed' = FALSE
    /\ UNCHANGED wasReset

Service ==
    \/ BindRun \/ CompleteSection \/ ReportError
    \/ \E state \in States : Transition(state)
    \/ \E ids \in {Curves, {"average"}}, more \in {0, 1} :
          \E ragged \in SUBSET (ids \ {"average"}) : PublishG2(ids, ragged, more)

Resync == \E answered \in Answered : ResyncStatus(answered) \/ ResyncPage(answered)

Next == Service \/ Reset \/ OnClearRois \/ ToggleFails \/ Reopen \/ HandleEvent \/ Resync

Spec == Init /\ [][Next]_vars

(* The Qt loop runs.                                                         *)
LiveSpec == Spec /\ WF_vars(HandleEvent) /\ WF_vars(Resync)

-----------------------------------------------------------------------------
(* Properties *)

RunStamps == 1 .. MaxRuns
Points == [run : RunStamps, frames : 1 .. MaxFrames]

(* Types of the panel and of the service it listens to.                      *)
TypeOK ==
    /\ service \in [state : States, run : 0 .. MaxRuns,
                    sections : 0 .. MaxSections, frames : 0 .. MaxFrames]
    /\ events \in 0 .. MaxEvents /\ Len(queue) <= events
    /\ phase \in {"opening", "paging", "ready"}
    /\ wanted \in 0 .. MaxSections
    /\ fetched \in 0 .. MaxSections
    /\ label \in States \cup {"-", Missing}
    /\ run_uid \in 0 .. MaxRuns /\ file_path \in 0 .. MaxRuns
    /\ error \in {"none", "service", "toggle"}
    /\ \A plot \in {g2, intensity} : DOMAIN plot \subseteq Curves /\ Range(plot) \subseteq RunStamps
    /\ DOMAIN series \subseteq Curves /\ \A c \in DOMAIN series : ToSet(series[c]) \subseteq Points
    /\ ToSet(sections) \subseteq [run : RunStamps, index : 1 .. MaxSections]

(* The panel has nothing left to do.                                         *)
Quiet == phase = "ready" /\ queue = <<>>

ShownRuns ==
    Range(g2) \cup Range(intensity) \cup {s.run : s \in ToSet(sections)}
    \cup UNION {{p.run : p \in ToSet(series[c])} : c \in DOMAIN series}

(* "clear the accumulating plots so the display starts fresh too": once the   *)
(* panel has caught up, no curve, section or point is of an earlier run than  *)
(* the service's, even if runs change while resync fetches pages.             *)
OneRunShown == Quiet => ShownRuns \subseteq {service.run}

(* The convergence plot never mixes two runs in one line, caught up or not,   *)
(* and within a run that is not reset its frames ascend, so that the line     *)
(* never runs back.                                                           *)
SeriesAscend ==
    \A c \in DOMAIN series : \A i, j \in DOMAIN series[c] : i < j =>
        LET p == series[c][i]  q == series[c][j]
        IN /\ p.run = q.run
           /\ ~wasReset /\ p.run = service.run => p.frames < q.frames

DrawsSections ==
    \A i \in 1 .. service.sections : [run |-> service.run, index |-> i] \in ToSet(sections)

(* Once it has caught up, a panel that no answer of resync was kept from       *)
(* draws every section the service has of its run: the pages and the events   *)
(* that queue up behind them leave no gap.  A panel that was opened when the  *)
(* run was already bound does so until an event names that run.               *)
SectionsComplete == Quiet /\ ~missed /\ (early => run_uid = NoRun) => DrawsSections

(* "xpcs.sections.get backfills the section overlay ... Panel restarts and     *)
(* service restarts both recover cleanly": also after the first event that    *)
(* names the run.                                                             *)
SectionsBackfilled == Quiet /\ ~missed => DrawsSections

(* The answer of resync is newer than the events that wait behind it; still   *)
(* the state shown in the end is the one the service is in, or that it was    *)
(* not there to answer.                                                       *)
LabelIsCurrent == Quiet => label = service.state \/ (Lossy /\ label = Missing)

(* "any earlier error was for a stale path; drop it": once the panel has       *)
(* caught up, a message of the service is one it sent since it started to     *)
(* stream its present file, that of a toggle is newer than such messages, and *)
(* only a toggle that failed since then hides an error of the service.        *)
ErrorIsCurrent ==
    Quiet => /\ error = "service" => failing
             /\ error = "toggle" => toggleFailed
             /\ failing => error = "service" \/ toggleFailed

(* What the panel says of the service, once it has caught up, is so.          *)
TextsAreCurrent == LabelIsCurrent /\ ErrorIsCurrent

(* resync, which holds the Qt thread, ends: also when answers are lost or the *)
(* service drops its sections between two pages.                              *)
ResyncEnds == phase # "ready" ~> phase = "ready"
=============================================================================
