------------------------------- MODULE Radio -------------------------------
(***************************************************************************)
(* The radio switch (backend/sys/rfkill.go) and the root object's          *)
(* WirelessEnabled and WirelessHardwareEnabled, with the iwd backend it    *)
(* powers: manager.onSetWirelessEnabled, which leaves the work to a        *)
(* goroutine, and rfkill.Subscribe, which polls and calls onRFKillEvent.   *)
(*                                                                         *)
(* The kernel's switches are one, as the code aggregates them.  A poll     *)
(* drains the queue of events, reads the state afresh when there was one   *)
(* and reports it if it differs from what it read last, so what counts is  *)
(* whether there is an event.  A property is stored under the lock of the  *)
(* property table, the callback of a Set included.                         *)
(***************************************************************************)
EXTENDS Iwd

CONSTANTS
    Setter,       \* the goroutines of onSetWirelessEnabled
    Users,        \* how clients and keys behave, see MaySet
    RfkillWorks,  \* opening /dev/rfkill always succeeds
    RadioBudgets  \* bounds to choose from, each with one for Iwd

\* How many Sets and switches there may be
RadioBudget == [sets : Nat, switches : Nat]

ASSUME RadioConstants ==
    /\ Users \in {"free", "patient"}
    /\ RfkillWorks \in BOOLEAN
    /\ RadioBudgets \subseteq Budgets \X RadioBudget

VARIABLES
    soft, hard,       \* the switch is blocked by software, by hardware
    event,            \* the poller's descriptor has an event
    poller,           \* where the poller is
    seen,             \* what it read last, and whether that was reported
    last,             \* lastSoft, lastHard
    wirelessEnabled,  \* the properties on the root object
    hardwareEnabled,
    setter,           \* where each goroutine is
    on,               \* what it was asked for
    radioLeft         \* what is left of the budget

radioVars  == <<soft, hard, event, poller, seen, last, wirelessEnabled,
                hardwareEnabled, setter, on, radioLeft>>
kernelVars == <<soft, hard>>
shownVars  == <<wirelessEnabled, hardwareEnabled>>
pollVars   == <<poller, seen, last>>

Blocks == [soft : BOOLEAN, hard : BOOLEAN]

State == [soft |-> soft, hard |-> hard]

\* (Bound: the switch is open where it cannot move.)
RadioInit ==
    /\ Init
    /\ soft \in BOOLEAN /\ hard \in BOOLEAN
    /\ event = FALSE
    /\ poller = "off" /\ seen = State /\ last = State
    /\ wirelessEnabled = TRUE
    /\ hardwareEnabled = ~hard
    /\ setter = [g \in Setter |-> "idle"]
    /\ on = [g \in Setter |-> TRUE]
    /\ \E b \in RadioBudgets : left = b[1] /\ radioLeft = b[2]
    /\ radioLeft.switches = 0 => ~soft /\ ~hard

SpendRadio(what) ==
    radioLeft[what] > 0 /\ radioLeft' = [radioLeft EXCEPT ![what] = @ - 1]

-----------------------------------------------------------------------------
\* All is told and done.
Settled ==
    /\ poller = "tick" /\ ~event
    /\ \A g \in Setter : setter[g] = "idle"

\* "free": calls and keys come at any time.  "patient": when all is settled.
MaySet == Users = "patient" => Settled

\* The switch changes; the kernel tells those who have it open if it does.
Switch(s, h) ==
    /\ soft' = s /\ hard' = h
    /\ event' = (event \/ (poller # "off" /\ <<s, h>> # <<soft, hard>>))

\* onSetWirelessEnabled accepts the Set at once.
SetWirelessEnabled(g, value) ==
    /\ setter[g] = "idle" /\ MaySet /\ SpendRadio("sets")
    /\ wirelessEnabled' = value
    /\ on' = [on EXCEPT ![g] = value]
    /\ setter' = [setter EXCEPT ![g] = "block"]
    /\ UNCHANGED <<kernelVars, event, pollVars, hardwareEnabled, vars>>

\* SetWifiBlocked
SetWifiBlocked(g) ==
    /\ setter[g] = "block"
    /\ setter' = [setter EXCEPT ![g] = "power"]
    /\ \/ Switch(~on[g], hard)
       \/ ~RfkillWorks /\ UNCHANGED <<kernelVars, event>>
    /\ UNCHANGED <<pollVars, shownVars, on, radioLeft, vars>>

\* Wifi.SetPowered, its error ignored
PowerDevices(g) ==
    /\ setter[g] = "power"
    /\ setter' = [setter EXCEPT ![g] = "idle"]
    /\ SetPowered(on[g]) \/ UNCHANGED vars
    /\ UNCHANGED <<kernelVars, event, pollVars, shownVars, on, radioLeft>>

\* Another program, a key, blocks or unblocks the switch.
SoftSwitch ==
    /\ MaySet /\ SpendRadio("switches")
    /\ Switch(~soft, hard)
    /\ UNCHANGED <<pollVars, shownVars, setter, on, vars>>

\* The slider on the case is moved, at any time.
HardSwitch ==
    /\ SpendRadio("switches")
    /\ Switch(soft, ~hard)
    /\ UNCHANGED <<pollVars, shownVars, setter, on, vars>>

-----------------------------------------------------------------------------
\* rfkill.Subscribe, in Run, opens its descriptor and drains it.  (Bound: not
\* where the switch cannot move any more.)
SubscribeRadio ==
    /\ poller = "off" /\ pc["new"] = "done"
    /\ radioLeft.sets + radioLeft.switches > 0
    /\ poller' = "first"
    /\ UNCHANGED <<kernelVars, event, seen, last, shownVars, setter, on,
                   radioLeft, vars>>

\* A tick that finds events: consumeEvents
ConsumeEvents ==
    /\ poller = "tick" /\ event
    /\ event' = FALSE
    /\ poller' = "read"
    /\ UNCHANGED <<kernelVars, seen, last, shownVars, setter, on, radioLeft,
                   vars>>

\* mutant: only the soft switch is compared
SoftNews == soft # last.soft
\* The comparison with lastSoft and lastHard
News == State # last

Seen(state) == seen' = state /\ last' = state

\* readWLANState.  What was read last is reported when it is new, and always
\* at first, when an error is taken for a switch that is not blocked.
ReadWLANState ==
    /\ poller \in {"first", "read"}
    /\ \/ Seen(State)
          /\ poller' = IF poller = "first" \/ News THEN "hardware" ELSE "tick"
       \/ /\ ~RfkillWorks /\ poller = "first"
          /\ Seen([soft |-> FALSE, hard |-> FALSE])
          /\ poller' = "hardware"
       \/ /\ ~RfkillWorks /\ poller = "read"
          /\ poller' = "tick" /\ UNCHANGED <<seen, last>>
    /\ UNCHANGED <<kernelVars, event, shownVars, setter, on, radioLeft, vars>>

\* onRFKillEvent: one property, then the other
ShowHardware ==
    /\ poller = "hardware"
    /\ hardwareEnabled' = ~seen.hard
    /\ poller' = "enabled"
    /\ UNCHANGED <<kernelVars, event, seen, last, wirelessEnabled, setter, on,
                   radioLeft, vars>>

ShowEnabled ==
    /\ poller = "enabled"
    /\ wirelessEnabled' = ~(seen.soft \/ seen.hard)
    /\ poller' = "tick"
    /\ UNCHANGED <<kernelVars, event, seen, last, hardwareEnabled, setter, on,
                   radioLeft, vars>>

Poll ==
    SubscribeRadio \/ ConsumeEvents \/ ReadWLANState \/ ShowHardware \/ ShowEnabled

-----------------------------------------------------------------------------
RadioNext ==
    \/ Next /\ UNCHANGED radioVars
    \/ \E g \in Setter, value \in BOOLEAN : SetWirelessEnabled(g, value)
    \/ \E g \in Setter : SetWifiBlocked(g) \/ PowerDevices(g)
    \/ SoftSwitch \/ HardSwitch
    \/ Poll

RadioSpec == RadioInit /\ [][RadioNext]_<<vars, radioVars>>

-----------------------------------------------------------------------------
\* The radio's own variables hold values of their kinds.
RadioTypeOK ==
    /\ TypeOK
    /\ {soft, hard, event, wirelessEnabled, hardwareEnabled} \subseteq BOOLEAN
    /\ seen \in Blocks /\ last \in Blocks
    /\ poller \in {"off", "first", "tick", "read", "hardware", "enabled"}
    /\ setter \in [Setter -> {"idle", "block", "power"}]
    /\ on \in [Setter -> BOOLEAN]
    /\ radioLeft \in RadioBudget

\* When all is settled the root object shows the switch as it is, however
\* calls, goroutines, keys, the slider and polls came together: a change that
\* a poll compared with the wrong state, or drained away, would stay unseen.
\* (A call may ask for a radio that the slider keeps off: then it is shown as
\* asked for.)
RadioShown ==
    Settled =>
        /\ last = State
        /\ hardwareEnabled = ~hard
        /\ ~hard => wirelessEnabled = ~soft
=============================================================================
