----------------------------- MODULE RunBinding -----------------------------
(***************************************************************************)
(* The XPCS panel's toggle and the run binding behind it:                  *)
(* RunBindingController of xpcs/binding.py, called by the Qt thread        *)
(* (enable, disable) and by the run engine's thread (documents), and what  *)
(* the XPCS service hears of it through XPCSClient.                        *)
(*                                                                         *)
(* A request is answered within its 2 s, or is performed without an answer *)
(* in time, or is lost; a publication arrives or is lost.  What the client *)
(* sends travels over one connection and is heard in the order of sending. *)
(***************************************************************************)
EXTENDS Naturals

CONSTANTS MaxRuns,  \* bound: runs of the run engine
          Late,     \* may an answer come too late?
          Lossy     \* may messages be lost, and the run engine be missing?

ASSUME BindingAssumption == MaxRuns \in Nat /\ Late \in BOOLEAN /\ Lossy \in BOOLEAN

VARIABLES
    toggle,      \* is the panel's Enable button down?
    token,       \* _token is not None: the controller is enabled
    subscribed,  \* has the run engine its callback?
    upc,         \* Qt thread: idle, enable, subscribe, unsubscribe, disable
    run,         \* run engine: the run it executes, or executed last
    rpc,         \* run engine's thread: idle, start, resolved, running, stop
    bound,       \* _bound_uid, 0 for None
    processing,  \* service: the last of enable and disable it has heard
    open,        \* service: the run it was told to bind and not yet to stop, 0 if none
    failed,      \* history: did the last enable or disable fail, or get no answer?
    covered      \* history: subscribed since the run began, and no publication of it lost

controller == <<toggle, token, subscribed, upc>>
engine     == <<run, rpc, bound>>
requests   == <<processing, failed>>
bindingVars == <<controller, engine, requests, open, covered>>

BindingInit ==
    /\ toggle = FALSE /\ token = FALSE /\ subscribed = FALSE /\ upc = "idle"
    /\ run = 0 /\ rpc = "idle" /\ bound = 0
    /\ processing = FALSE /\ failed = FALSE /\ open = 0 /\ covered = FALSE

Outcome == {"answered"} \cup (IF Late THEN {"unanswered"} ELSE {})
                        \cup (IF Lossy THEN {"lost"} ELSE {})

Delivered == IF Lossy THEN BOOLEAN ELSE {TRUE}

-----------------------------------------------------------------------------
(* The Qt thread *)

(* _on_enable_toggled(True); enable() returns at once when it has a token.   *)
ToggleOn ==
    /\ upc = "idle" /\ ~toggle
    /\ toggle' = TRUE
    /\ upc' = IF token THEN "idle" ELSE "enable"
    /\ UNCHANGED <<token, subscribed, engine, requests, open, covered>>

(* Fault: the reply is not looked at.                                        *)
EnableBlindly(o) ==
    /\ upc = "enable"
    /\ processing' = (processing \/ o # "lost")
    /\ failed' = (o # "answered")
    /\ upc' = "subscribe"
    /\ UNCHANGED <<toggle, token, subscribed, engine, open, covered>>

(* Without an answer enable() gives up, and leaves the button down.          *)
Enable(o) ==
    /\ upc = "enable"
    /\ processing' = (processing \/ o # "lost")
    /\ failed' = (o # "answered")
    /\ upc' = IF o = "answered" THEN "subscribe" ELSE "idle"
    /\ UNCHANGED <<toggle, token, subscribed, engine, open, covered>>

Subscribe ==
    /\ upc = "subscribe"
    /\ token' = TRUE /\ subscribed' = TRUE
    /\ upc' = "idle"
    /\ UNCHANGED <<toggle, engine, requests, open, covered>>

(* There is no run engine: the handler catches the exception and lets the    *)
(* button up again, which calls disable() of a controller without a token.   *)
SubscribeRaises ==
    /\ Lossy
    /\ upc = "subscribe"
    /\ toggle' = FALSE
    /\ failed' = TRUE
    /\ upc' = "idle"
    /\ UNCHANGED <<token, subscribed, engine, processing, open, covered>>

(* _on_enable_toggled(False), and _on_closing, after which a new panel with   *)
(* its button up takes the place of this one                                 *)
ToggleOff ==
    /\ upc = "idle" /\ toggle
    /\ toggle' = FALSE
    /\ upc' = IF token THEN "unsubscribe" ELSE "idle"
    /\ UNCHANGED <<token, subscribed, engine, requests, open, covered>>

Unsubscribe ==
    /\ upc = "unsubscribe"
    /\ subscribed' = FALSE /\ token' = FALSE
    /\ covered' = FALSE
    /\ upc' = "disable"
    /\ UNCHANGED <<toggle, engine, requests, open>>

(* Fault: the service is not told.                                           *)
DisableQuietly(o) ==
    /\ upc = "disable"
    /\ upc' = "idle"
    /\ UNCHANGED <<toggle, token, subscribed, engine, requests, open, covered>>

Disable(o) ==
    /\ upc = "disable"
    /\ processing' = (processing /\ o = "lost")
    /\ failed' = (o = "lost")
    /\ upc' = "idle"
    /\ UNCHANGED <<toggle, token, subscribed, engine, open, covered>>

-----------------------------------------------------------------------------
(* The run engine's thread: _on_document is called when it is subscribed at   *)
(* the moment the document is emitted.                                       *)

EmitStart ==
    /\ rpc = "idle" /\ run < MaxRuns
    /\ run' = run + 1
    /\ rpc' = IF subscribed THEN "start" ELSE "running"
    /\ covered' = subscribed
    /\ UNCHANGED <<controller, bound, requests, open>>

(* Credentials, device or session cannot be had: the run goes unbound.       *)
ResolveRaises ==
    /\ rpc = "start"
    /\ rpc' = "running"
    /\ UNCHANGED <<controller, run, bound, requests, open, covered>>

PublishBind(arrives) ==
    /\ rpc = "start"
    /\ open' = IF arrives THEN run ELSE open
    /\ covered' = (covered /\ arrives)
    /\ rpc' = "resolved"
    /\ UNCHANGED <<controller, run, bound, requests>>

(* The panel's slot for the new detector may raise.                          *)
RememberRun ==
    /\ rpc = "resolved"
    /\ bound' \in {run, bound}
    /\ rpc' = "running"
    /\ UNCHANGED <<controller, run, requests, open, covered>>

EmitStop ==
    /\ rpc = "running"
    /\ rpc' = IF subscribed THEN "stop" ELSE "idle"
    /\ UNCHANGED <<controller, run, bound, requests, open, covered>>

(* Fault: the run that is stopped is the one remembered.                     *)
StopUidRemembered == bound

(* The stop documents of the run engine name their run in run_start.         *)
StopUid == run

PublishStop(arrives) ==
    /\ rpc = "stop"
    /\ open' = IF arrives /\ open = StopUid THEN 0 ELSE open
    /\ covered' = (covered /\ arrives)
    /\ bound' = 0
    /\ rpc' = "idle"
    /\ UNCHANGED <<controller, run, requests>>

-----------------------------------------------------------------------------
Qt == \/ \E o \in Outcome : Enable(o) \/ Disable(o)
      \/ Subscribe \/ SubscribeRaises \/ Unsubscribe

Documents ==
    \/ EmitStart \/ ResolveRaises \/ RememberRun \/ EmitStop
    \/ \E arrives \in Delivered : PublishBind(arrives) \/ PublishStop(arrives)

BindingNext == ToggleOn \/ ToggleOff \/ Qt \/ Documents

BindingSpec == BindingInit /\ [][BindingNext]_bindingVars

(* The Qt thread goes on with what the user has started.                     *)
BindingLiveSpec == BindingSpec /\ WF_bindingVars(Qt)

-----------------------------------------------------------------------------
(* Properties *)

(* Types of the state; the controller has a token while it is subscribed.    *)
BindingTypeOK ==
    /\ toggle \in BOOLEAN /\ token \in BOOLEAN /\ subscribed = token
    /\ upc \in {"idle", "enable", "subscribe", "unsubscribe", "disable"}
    /\ run \in 0 .. MaxRuns
    /\ rpc \in {"idle", "start", "resolved", "running", "stop"}
    /\ bound \in 0 .. run
    /\ processing \in BOOLEAN /\ failed \in BOOLEAN
    /\ open \in 0 .. run
    /\ covered \in BOOLEAN

(* A controller that is enabled has a service that is: runs are not bound to  *)
(* a service that never heard of the enable.                                 *)
EnabledIsProcessing == token => processing

(* A run during which the controller stayed subscribed, and of which no       *)
(* publication was lost, is not left bound when it ends, also when its start  *)
(* document could not be handled to the end.                                 *)
BoundRunIsStopped == rpc = "idle" /\ covered => open # run

(* Unless the last request failed, or came too late, or enable() raised, a    *)
(* service does not go on processing after the button has been let up.        *)
DisableIsHeard ==
    ~toggle /\ processing /\ ~failed ~> toggle \/ ~processing \/ failed

(* "The panel's Enable Processing toggle drives everything", says the design, *)
(* without exception.                                                         *)
ToggleDrivesProcessing == ~toggle /\ processing ~> toggle \/ ~processing
=============================================================================
