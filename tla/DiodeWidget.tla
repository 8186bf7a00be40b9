---------------------------- MODULE DiodeWidget -----------------------------
(***************************************************************************)
(* The read-out of a diode, widgets/diode.py: the controller that says     *)
(* which devices it is for, and the widget that follows the host's         *)
(* selection with a timer, reading a device that may be disconnected.      *)
(***************************************************************************)
EXTENDS Integers

CONSTANTS Devices,      \* devices of the tree
          DiodeClass,   \* those of class DetectorDiode
          DiodeTag,     \* those with a tag "diode" or "photodiode"
          HasDiode      \* those whose ophyd object has a component diode

Nothing == "nothing"

ASSUME WidgetAssumption == DiodeClass \subseteq HasDiode /\ Nothing \notin Devices

VARIABLES
    device,     \* _device
    signal,     \* the device of _diode_signal
    unitsOf,    \* whose units are shown
    valueOf,    \* whose value is shown
    connected,  \* devices whose reading works
    timerOn,    \* does the timer run?
    closed      \* has the widget been closed?

widgetVars == <<device, signal, unitsOf, valueOf, connected, timerOn, closed>>

WidgetInit ==
    /\ device = Nothing /\ signal = Nothing
    /\ unitsOf = Nothing /\ valueOf = Nothing
    /\ connected = Devices /\ timerOn = TRUE /\ closed = FALSE

(* can_control: the class before the tags, or not at all                     *)
Priority(d) == IF d \in DiodeClass THEN 100 ELSE IF d \in DiodeTag THEN 90 ELSE 0

(* _update_value: an error is ignored                                        *)
Update(s) == IF s \in connected THEN s ELSE valueOf

(* Fault: without a device the timer is stopped.                             *)
ClearItemsAndStop ==
    /\ ~closed
    /\ device' = Nothing /\ signal' = Nothing
    /\ timerOn' = FALSE
    /\ UNCHANGED <<unitsOf, valueOf, connected, closed>>

ClearItems ==
    /\ ~closed
    /\ device' = Nothing /\ signal' = Nothing
    /\ UNCHANGED <<unitsOf, valueOf, connected, timerOn, closed>>

(* A device without a diode leaves the signal of the one before.             *)
SetItem(d) ==
    /\ ~closed /\ Priority(d) > 0
    /\ device' = d
    /\ IF d \in HasDiode
       THEN signal' = d /\ unitsOf' = d /\ valueOf' = Update(d)
       ELSE UNCHANGED <<signal, unitsOf, valueOf>>
    /\ UNCHANGED <<connected, timerOn, closed>>

Refresh ==
    /\ timerOn /\ signal # Nothing
    /\ valueOf' = Update(signal)
    /\ UNCHANGED <<device, signal, unitsOf, connected, timerOn, closed>>

CloseWidget ==
    /\ ~closed
    /\ timerOn' = FALSE /\ closed' = TRUE
    /\ UNCHANGED <<device, signal, unitsOf, valueOf, connected>>

ConnectionChanges(d) ==
    /\ connected' = IF d \in connected THEN connected \ {d} ELSE connected \cup {d}
    /\ UNCHANGED <<device, signal, unitsOf, valueOf, timerOn, closed>>

WidgetNext ==
    \/ ClearItems \/ Refresh \/ CloseWidget
    \/ \E d \in Devices : SetItem(d) \/ ConnectionChanges(d)

(* The timer fires for as long as it runs.                                    *)
WidgetSpec == WidgetInit /\ [][WidgetNext]_widgetVars /\ WF_widgetVars(Refresh)

-----------------------------------------------------------------------------
(* Properties *)

(* Types of the state; a device that has a diode is the one that is read, and *)
(* the units shown are those of what is read.                                 *)
WidgetTypeOK ==
    /\ {device, signal, unitsOf, valueOf} \subseteq Devices \cup {Nothing}
    /\ connected \subseteq Devices /\ {timerOn, closed} \subseteq BOOLEAN
    /\ device \in HasDiode => signal = device
    /\ signal # Nothing => unitsOf = signal

(* A diode that stays selected and connected is shown in the end, after       *)
(* whatever selections, disconnections and empty selections came before.      *)
ShowsSelected ==
    \A d \in HasDiode :
        (device = d /\ d \in connected)
            ~> (valueOf = d \/ device # d \/ d \notin connected \/ closed)
=============================================================================
