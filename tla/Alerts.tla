------------------------------- MODULE Alerts -------------------------------
(***************************************************************************)
(* The alert banner: alert/actions.js and alert/reducer.js.                *)
(*                                                                         *)
(* set(alert) takes the next id from the module-level counter alertId and, *)
(* unless the alert is a "danger" one without autoClear, starts a 5000 ms  *)
(* timer that dispatches CLEAR with that id; then it dispatches SET, which *)
(* replaces whatever alert is shown.  CLEAR with an id clears only the     *)
(* alert of that id; CLEAR without one (the banner's dismiss button)       *)
(* clears any.  Timers of equal delay fire in the order they were started, *)
(* so pending timers form a queue.  The message is left out: no property  *)
(* depends on it.                                                          *)
(***************************************************************************)
EXTENDS Integers, Sequences

CONSTANTS
    MaxAlerts       \* bound on the alerts set (the alertId counter)

AlertTypes == {"danger", "success"}

VARIABLES
    alert,          \* the alert state: [show, id, type]
    alertId,        \* the module-level counter of actions.js
    timers,         \* ids of the started timers not yet fired, oldest first
    autoClearAsked  \* ids whose caller asked for an auto-clearing alert

vars == <<alert, alertId, timers, autoClearAsked>>

\* the reducer's initialState has no id (undefined, here -1, which no
\* set() hands out): a CLEAR with an id leaves it as it is
NoId == -1
initialState == [show |-> FALSE, id |-> NoId, type |-> "danger"]

Init ==
    /\ alert = initialState
    /\ alertId = 0
    /\ timers = <<>>
    /\ autoClearAsked = {}

\* the SET case of the reducer: the new alert replaces the state
SET(id, type) == [show |-> TRUE, id |-> id, type |-> type]

\* whether set() starts the auto-clear timer for an alert
AutoClearsDangerOnly(type, autoClear) == type = "danger" /\ ~autoClear

AutoClearsAlways(type, autoClear) == TRUE

AutoClears(type, autoClear) == type # "danger" \/ autoClear

(***************************************************************************)
(* set(alert), dispatched by a thunk: id, timer, SET.                      *)
(***************************************************************************)
\* the id taken as ++alertId instead of alertId++
SetPreIncrement(type, autoClear) ==
    /\ alertId < MaxAlerts
    /\ alertId' = alertId + 1
    /\ timers' = IF AutoClears(type, autoClear) THEN Append(timers, alertId + 1)
                                                ELSE timers
    /\ alert' = SET(alertId + 1, type)
    /\ autoClearAsked' = IF type # "danger" \/ autoClear
                           THEN autoClearAsked \cup {alertId + 1} ELSE autoClearAsked

Set(type, autoClear) ==
    /\ alertId < MaxAlerts
    /\ alertId' = alertId + 1
    /\ timers' = IF AutoClears(type, autoClear) THEN Append(timers, alertId)
                                                ELSE timers
    /\ alert' = SET(alertId, type)
    /\ autoClearAsked' = IF type # "danger" \/ autoClear
                           THEN autoClearAsked \cup {alertId} ELSE autoClearAsked

\* the CLEAR case of the reducer; id = NoId is a CLEAR without an alert
Clear(id) ==
    IF id # NoId /\ id # alert.id THEN alert ELSE initialState

\* The oldest timer fires
TimerFires ==
    /\ timers # <<>>
    /\ alert' = Clear(Head(timers))
    /\ timers' = Tail(timers)
    /\ UNCHANGED <<alertId, autoClearAsked>>

\* The user dismisses the banner: clear()
Dismiss ==
    /\ alert.show
    /\ alert' = Clear(NoId)
    /\ UNCHANGED <<alertId, timers, autoClearAsked>>

Next ==
    \/ \E type \in AlertTypes, autoClear \in BOOLEAN : Set(type, autoClear)
    \/ TimerFires
    \/ Dismiss

\* The browser fires every started timer; nobody has to set or dismiss.
Spec == Init /\ [][Next]_vars /\ WF_vars(TimerFires)

-----------------------------------------------------------------------------
TypeOK ==
    /\ alert \in [show: BOOLEAN, id: (0..MaxAlerts-1) \cup {NoId}, type: AlertTypes]
    /\ alertId \in 0..MaxAlerts
    /\ timers \in Seq(0..MaxAlerts-1)
    /\ autoClearAsked \subseteq 0..MaxAlerts-1

(***************************************************************************)
(* Every alert whose caller asked for it to clear by itself (any type but  *)
(* "danger", or "danger" with autoClear) eventually leaves the screen      *)
(* unless a newer alert replaces it first: set() starts its timer.         *)
(***************************************************************************)
AutoClearedAlertLeaves ==
    \A i \in 0..MaxAlerts :
        (alert.show /\ alert.id = i /\ i \in autoClearAsked)
        ~> (~alert.show \/ alert.id # i)

(***************************************************************************)
(* A "danger" alert set without autoClear is never taken down by a timer:  *)
(* only the user's dismiss or a newer alert removes it.                    *)
(***************************************************************************)
StickyAlertStays ==
    [][(timers # <<>> /\ timers' = Tail(timers) /\ alert.show
        /\ alert.id \notin autoClearAsked) => alert' = alert]_vars

=============================================================================
