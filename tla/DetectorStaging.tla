-------------------------- MODULE DetectorStaging ---------------------------
(***************************************************************************)
(* Staging, triggering and the shutter of the two area detectors,          *)
(* devices/andor.py and devices/pimte3.py, over ophyd's stage and unstage: *)
(* stage() writes the stage_sigs one by one and remembers what each        *)
(* replaced, unstage() writes it back in reverse, and a stage that fails   *)
(* unstages.  Every write waits for its readback and may time out, the     *)
(* value arrived or not.                                                   *)
(***************************************************************************)
EXTENDS Integers, SequencesExt

CONSTANTS MaxTimeouts,   \* bound: writes that time out
          Attempts       \* attempts of _try_set_and_wait, 5 in the code

ASSUME StagingAssumption == MaxTimeouts \in Nat /\ Attempts \in Nat \ {0}

VARIABLES
    model,      \* "andor" or "pimte"; "none" before it is built
    user,       \* the settings the user made
    settings,   \* the camera's settings
    originals,  \* _original_vals, in the order they were written: <<signal, value>>
    staged,     \* _staged
    phase,      \* the loop that runs, "idle" between calls
    goal,       \* what the call still has to do when the loop ends
    todo,       \* the writes the loop has left: <<signal, value>>
    saved,      \* original_vals of warmup()
    warm,       \* _warmed_up: has the plugin seen an array?
    lost,       \* history: stage signals whose write arrived and timed out, so was not remembered
    halfWarm,   \* history: has a warm-up failed half-way?
    shutter,    \* the camera's shutter mode
    asked,      \* the shutter mode asked for and the attempts made, or <<>>
    outcome,    \* how the last call ended
    timeouts    \* how many writes have timed out

stagingVars == <<model, user, settings, originals, staged, phase, goal, todo, saved,
                 warm, lost, halfWarm, shutter, asked, outcome, timeouts>>
cameraVars  == <<model, user, warm, shutter, asked, lost, halfWarm>>

Signals  == {"acquire", "image_mode", "trigger_mode"}
Settings == [acquire : {0, 1}, image_mode : {"Single", "Multiple", "Continuous"},
             trigger_mode : {"Internal", "External"}]
Shutters == {"normal", "open", "closed"}

StagingInit ==
    /\ model = "none" /\ warm = FALSE /\ shutter = "normal"
    /\ settings = [acquire |-> 0, image_mode |-> "Single", trigger_mode |-> "Internal"]
    /\ user = settings
    /\ originals = <<>> /\ staged = "no"
    /\ phase = "idle" /\ goal = "none" /\ todo = <<>> /\ saved = settings
    /\ lost = {} /\ halfWarm = FALSE /\ asked = <<>> /\ outcome = "none" /\ timeouts = 0

(* A camera that already acquires does so continuously.                      *)
Build ==
    /\ model = "none"
    /\ model' \in {"andor", "pimte"}
    /\ settings' \in {s \in Settings : s.acquire = 1 => s.image_mode = "Continuous"}
    /\ user' = settings'
    /\ warm' \in BOOLEAN
    /\ UNCHANGED <<originals, staged, phase, goal, todo, saved, lost, halfWarm, shutter,
                   asked, outcome, timeouts>>

-----------------------------------------------------------------------------
(* What each loop writes *)

StageSigs ==
    IF model = "andor" THEN << <<"acquire", 0>>, <<"image_mode", "Multiple">> >>
                       ELSE << <<"acquire", 0>> >>

WarmupSigs ==
    << <<"image_mode", "Single">>, <<"trigger_mode", "Internal">>, <<"acquire", 1>> >>

(* reversed(original_vals.items())                                           *)
RestoreSigs(values) ==
    [i \in 1 .. Len(WarmupSigs) |->
        LET signal == Reverse(WarmupSigs)[i][1] IN <<signal, values[signal]>>]

Remembers(signal) == \E i \in DOMAIN originals : originals[i][1] = signal

Begin(loop, writes) == phase' = loop /\ todo' = writes

Return(how) ==
    /\ Begin("idle", <<>>)
    /\ goal' = "none" /\ outcome' = how

-----------------------------------------------------------------------------
(* The calls *)

Idle == model # "none" /\ phase = "idle" /\ asked = <<>>

BeginStage ==
    /\ staged' = "partially"
    /\ Begin("staging", StageSigs)

BeginUnstage ==
    /\ staged' = "partially"
    /\ Begin("unstaging", Reverse(originals))

UnstagesFirst == IF model = "andor" THEN {"yes", "partially"} ELSE {"yes"}

(* Fault: a detector staged by half is staged anew.                          *)
StageAnew ==
    /\ Idle
    /\ \/ staged = "yes" /\ BeginUnstage /\ goal' = "stage" /\ UNCHANGED originals
       \/ staged # "yes" /\ BeginStage /\ goal' = "none" /\ originals' = <<>>
    /\ outcome' = "none"
    /\ UNCHANGED <<cameraVars, settings, saved, timeouts>>

Stage ==
    /\ Idle
    /\ \/ staged \in UnstagesFirst /\ BeginUnstage /\ goal' = "stage" /\ outcome' = "none"
       \/ staged = "no" /\ BeginStage /\ goal' = "none" /\ outcome' = "none"
       \/ /\ staged = "partially" /\ staged \notin UnstagesFirst
          /\ outcome' = "RedundantStaging"
          /\ UNCHANGED <<staged, phase, todo, goal>>
    /\ UNCHANGED <<cameraVars, settings, originals, saved, timeouts>>

Unstage ==
    /\ Idle
    /\ BeginUnstage /\ goal' = "none" /\ outcome' = "none"
    /\ UNCHANGED <<cameraVars, settings, originals, saved, timeouts>>

(* StageOnFirstTrigger and then SingleTrigger.trigger                        *)
Trigger ==
    /\ Idle
    /\ \/ /\ staged = "no" /\ BeginStage /\ goal' = "trigger" /\ outcome' = "none"
          /\ UNCHANGED settings
       \/ /\ staged = "partially" /\ outcome' = "RuntimeError"
          /\ UNCHANGED <<settings, staged, phase, todo, goal>>
       \/ /\ staged = "yes" /\ settings' = [settings EXCEPT !.acquire = 1] /\ outcome' = "ok"
          /\ UNCHANGED <<staged, phase, todo, goal>>
    /\ UNCHANGED <<cameraVars, originals, saved, timeouts>>

(* The user does not want it to acquire any more, or only what was staged     *)
(* ends: unstage() then writes back what acquire was.                         *)
StopAcquiring ==
    /\ Idle
    /\ settings' = [settings EXCEPT !.acquire = 0]
    /\ user' = IF Remembers("acquire") THEN user ELSE [user EXCEPT !.acquire = 0]
    /\ UNCHANGED <<model, warm, shutter, asked, lost, halfWarm, originals, staged, phase, goal,
                   todo, saved, outcome, timeouts>>

-----------------------------------------------------------------------------
(* The writes *)

Written == [settings EXCEPT ![Head(todo)[1]] = Head(todo)[2]]

Write ==
    /\ todo # <<>>
    /\ settings' = Written
    /\ todo' = Tail(todo)
    /\ originals' = CASE phase = "staging" ->
                           Append(originals, <<Head(todo)[1], settings[Head(todo)[1]]>>)
                      [] phase = "unstaging" -> Front(originals)
                      [] OTHER -> originals
    /\ UNCHANGED <<cameraVars, staged, phase, goal, saved, outcome, timeouts>>

(* A write times out, or a child of the staged device fails to stage.  A      *)
(* failed stage unstages, and only then raises; a failed unstage leaves the   *)
(* rest of the originals for the next.  stage() remembers what it replaced    *)
(* when the write has been confirmed, warmup() in a variable of its own.      *)
TimeOut ==
    /\ timeouts < MaxTimeouts
    /\ todo # <<>> \/ phase \in {"staging", "cooldown"}
    /\ settings' \in {settings} \cup (IF todo = <<>> THEN {} ELSE {Written})
    /\ timeouts' = timeouts + 1
    /\ IF phase = "unstaging"
       THEN Return("failed") /\ UNCHANGED <<staged, lost, halfWarm>>
       ELSE /\ BeginUnstage /\ goal' = "raise"
            /\ lost' = IF phase = "staging" /\ settings' # settings
                       THEN lost \cup {Head(todo)[1]} ELSE lost
            /\ halfWarm' = (halfWarm \/ (phase \in {"warmup", "cooldown"} /\ todo # <<>>))
            /\ UNCHANGED outcome
    /\ UNCHANGED <<model, user, warm, shutter, asked, originals, saved>>

(* Every loop done: the children of a stage are staged, the HDF5 plugin with  *)
(* its warm-up, and the call goes on to what it was made for.                 *)
UnstageDone ==
    /\ phase = "unstaging" /\ todo = <<>>
    /\ IF goal = "stage"
       THEN BeginStage /\ goal' = "none" /\ UNCHANGED outcome
       ELSE staged' = "no" /\ Return(IF goal = "raise" THEN "failed" ELSE "ok")
    /\ UNCHANGED <<cameraVars, settings, originals, saved, timeouts>>

Staged ==
    /\ staged' = "yes"
    /\ settings' = IF goal = "trigger" THEN [settings EXCEPT !.acquire = 1] ELSE settings
    /\ Return("ok")

StageDone ==
    /\ phase = "staging" /\ todo = <<>>
    /\ IF model = "andor" /\ ~warm
       THEN /\ Begin("warmup", WarmupSigs) /\ saved' = settings
            /\ UNCHANGED <<staged, settings, goal, outcome>>
       ELSE Staged /\ UNCHANGED saved
    /\ UNCHANGED <<cameraVars, originals, timeouts>>

WarmupDone ==
    /\ phase = "warmup" /\ todo = <<>>
    /\ Begin("cooldown", RestoreSigs(saved))
    /\ UNCHANGED <<cameraVars, settings, originals, staged, goal, saved, outcome, timeouts>>

CooldownDone ==
    /\ phase = "cooldown" /\ todo = <<>>
    /\ Staged
    /\ UNCHANGED <<cameraVars, originals, saved, timeouts>>

(* The camera ends what it acquires, unless it acquires continuously.        *)
Acquired ==
    /\ settings.acquire = 1 /\ settings.image_mode # "Continuous"
    /\ settings' = [settings EXCEPT !.acquire = 0]
    /\ warm' = TRUE
    /\ UNCHANGED <<model, user, shutter, asked, lost, halfWarm, originals, staged, phase,
                   goal, todo, saved, outcome, timeouts>>

-----------------------------------------------------------------------------
(* keep_open, keep_closed, shutter_normally *)

KeepShutter(mode) ==
    /\ Idle
    /\ asked' = <<mode, 0>>
    /\ shutter' \in IF model = "pimte" THEN {shutter, mode} ELSE {shutter}
    /\ UNCHANGED <<model, user, warm, lost, halfWarm, settings, originals, staged, phase,
                   goal, todo, saved, outcome, timeouts>>

ShutterSet ==
    /\ asked # <<>>
    /\ shutter' = asked[1]
    /\ outcome' = "ok" /\ asked' = <<>>
    /\ UNCHANGED <<model, user, warm, lost, halfWarm, settings, originals, staged, phase,
                   goal, todo, saved, timeouts>>

(* Only the PIMTE tries again.                                               *)
ShutterTimeOut ==
    /\ asked # <<>> /\ timeouts < MaxTimeouts
    /\ shutter' \in {shutter, asked[1]}
    /\ timeouts' = timeouts + 1
    /\ IF model = "pimte" /\ asked[2] + 1 < Attempts
       THEN asked' = <<asked[1], asked[2] + 1>> /\ UNCHANGED outcome
       ELSE asked' = <<>> /\ outcome' = "failed"
    /\ UNCHANGED <<model, user, warm, lost, halfWarm, settings, originals, staged, phase,
                   goal, todo, saved>>

StagingNext ==
    \/ Build
    \/ Stage \/ Unstage \/ Trigger \/ StopAcquiring
    \/ Write \/ TimeOut \/ UnstageDone \/ StageDone \/ WarmupDone \/ CooldownDone
    \/ Acquired
    \/ \E mode \in Shutters : KeepShutter(mode)
    \/ ShutterSet \/ ShutterTimeOut

StagingSpec == StagingInit /\ [][StagingNext]_stagingVars

-----------------------------------------------------------------------------
(* Properties *)

(* Types of the state; no original is remembered of an unstaged detector.     *)
StagingTypeOK ==
    /\ model \in {"none", "andor", "pimte"} /\ warm \in BOOLEAN /\ halfWarm \in BOOLEAN
    /\ settings \in Settings /\ user \in Settings /\ saved \in Settings
    /\ staged \in {"no", "partially", "yes"} /\ shutter \in Shutters
    /\ phase \in {"idle", "staging", "unstaging", "warmup", "cooldown"}
    /\ goal \in {"none", "stage", "trigger", "raise"}
    /\ outcome \in {"none", "ok", "failed", "RedundantStaging", "RuntimeError"}
    /\ lost \subseteq Signals /\ timeouts \in 0 .. MaxTimeouts
    /\ asked = <<>> \/ asked \in Shutters \X (0 .. Attempts - 1)
    /\ Len(originals) <= Len(StageSigs)
    /\ staged = "no" => originals = <<>>

Kept(signal) ==
    \/ settings[signal] = user[signal]
    \/ \E i \in DOMAIN originals : originals[i] = <<signal, user[signal]>>

(* What stage() changed can be given back: whatever fails in a stage, its     *)
(* warm-up, a trigger or an unstage, and however they follow one another, a   *)
(* stage signal is as the user set it or remembered with the user's value,    *)
(* unless it was written by a stage that did not live to see its readback (an *)
(* image mode lost so ends the acquisition as well).  trigger_mode, which     *)
(* only a warm-up changes, is the user's again unless a warm-up failed half-  *)
(* way.  And a staged Andor has the image mode of its stage signals, the      *)
(* warm-up in between notwithstanding.                                        *)
UserSettingsKept ==
    /\ "image_mode" \notin lost => Kept("image_mode")
    /\ lost = {} => Kept("acquire")
    /\ phase \in {"idle", "staging", "unstaging"} /\ ~halfWarm
          => settings.trigger_mode = user.trigger_mode
    /\ staged = "yes" /\ model = "andor" => settings.image_mode = "Multiple"
=============================================================================
