----------------------------- MODULE Activation -----------------------------
(***************************************************************************)
(* The connection life cycle of sinty-nmd (internal/nmapi): what the D-Bus *)
(* calls ActivateConnection, AddAndActivateConnection,                     *)
(* DeactivateConnection, Device.Disconnect, AddConnection and              *)
(* Connection.Delete do, the runActivation goroutine started for every     *)
(* activation, and the goroutine that applies the wifi backend's events.   *)
(*                                                                         *)
(* godbus serves every method call in a goroutine of its own, so the       *)
(* handlers below run concurrently; they share the registry (activeConns   *)
(* and primary, guarded by Manager.mu), the devices and their backends.    *)
(* An action is a stretch of code whose accesses to shared state no other  *)
(* goroutine can tell apart; every lock release and every backend call     *)
(* ends one.                                                               *)
(*                                                                         *)
(* An element of AC is an ActiveConnection object and also names the       *)
(* goroutine that brings it up.  The route that goes with an address is    *)
(* not tracked (the kernel drops it with the address), nor are the         *)
(* ActiveAccessPoint property and the root object's copies of the          *)
(* registry; WireGuard bring-up (vpn.go) is not part of this module.       *)
(***************************************************************************)
EXTENDS Naturals, Sequences, FiniteSets

CONSTANTS
    Client,         \* the goroutines serving D-Bus method calls
    AC,             \* the active connections that may ever be created
    Dev,            \* the registered devices
    Profile,        \* the settings connections that may ever exist
    Ssid,           \* the wifi networks in range
    Iwd,            \* the goroutine that runs onWifiEvent
    None,           \* nullPath, a nil pointer or an absent value
    Kind,           \* Kind[d]: the device kind
    SsidOf,         \* SsidOf[p]: the network a wifi profile names, else None
    Method,         \* Method[p]: the profile's ipv4 method
    Loaded,         \* the profiles read from disk at start
    Discipline,     \* how the clients behave, see MayBegin
    TeardownFails,  \* TRUE: the best-effort calls of deactivate may fail
    MaxRadio        \* bound on the backend's own connects and drops

Thread == Client \cup AC \cup {Iwd}

ASSUME ThreadsDistinct ==
    /\ Client \cap AC = {}
    /\ Iwd \notin Client \cup AC
    /\ None \notin AC \cup Dev \cup Profile \cup Ssid

ASSUME ConstantsTyped ==
    /\ Kind \in [Dev -> {"wifi", "ethernet", "other"}]
    /\ SsidOf \in [Profile -> Ssid \cup {None}]
    /\ Method \in [Profile -> {"auto", "manual", "disabled"}]
    /\ Loaded \subseteq Profile
    /\ Discipline \in {"free", "settled", "patient"}
    /\ TeardownFails \in BOOLEAN
    /\ MaxRadio \in Nat

VARIABLES
    activeConns,  \* Manager.activeConns: the listed active connections
    primary,      \* Manager.primary
    profState,    \* Settings.conns, as the stage each profile has reached
    acState, gone, cancelled, adopted, acDev, acConn,  \* ActiveConnection
    dev,          \* dev[d]: the Device object and its interface
    exported,     \* active connections whose IP4Config object is on the bus
    events,       \* wifi events not handled yet, oldest first
    radioMoves,   \* how often the radio moved by itself
    pc,           \* where each goroutine is
    todo,         \* active connections it still has to deactivate
    cur,          \* the active connection it is working on
    req           \* the call or the event it serves

acVars   == <<acState, gone, cancelled, adopted, acDev, acConn>>
shared   == <<activeConns, primary, profState, acVars, exported>>
wifiVars == <<events, radioMoves>>
locals   == <<todo, cur, req>>

vars == <<shared, dev, wifiVars, pc, locals>>

-----------------------------------------------------------------------------
\* deactivate, from ac.cancel() to the delete from activeConns
TearingDown == {"cancel", "mech", "flush", "revert", "unbind", "unip4", "drop"}

\* all of deactivate after the test and set of ac.gone
Teardown == TearingDown \cup {"final", "settle"}

\* runActivation up to the test of superseded
BringUp == {"start", "connect", "ip", "dhcp", "leaseFlush", "leaseAddr",
            "leaseDNS", "leaseIP4", "bringUpOk", "bringUpErr"}

\* runActivation after that test
Settle == {"failed", "activated", "devActivated", "setPrimary"}

PC == {"idle", "none", "done", "todo", "create", "bind", "launch", "remove",
       "adopt", "adoptBind", "adoptPrimary", "dropState", "dropBind",
       "dropDev"} \cup Teardown \cup BringUp \cup Settle

AcStates == {"unborn", "activating", "activated", "deactivating",
             "deactivated"}

DevStates == {"disconnected", "prepare", "config", "ipconfig", "activated",
              "deactivating", "failed"}

\* A device: its state, the connection it points at and its IP4Config object;
\* the connections with an address on the interface and with the DNS entry;
\* the network its radio is joined to
Devices == [state : DevStates, active : AC \cup {None},
            ip4 : AC \cup {None}, addr : SUBSET AC, dns : AC \cup {None},
            radio : Ssid \cup {None}]

\* What a goroutine serves: a request with the device and the profile it
\* names, or an event with its device and the network read for it
Requests == [op : {"none", "activate", "deactivate", "delete", "event"},
             dev : Dev \cup {None}, conn : Profile \cup {None},
             ssid : Ssid \cup {None}]

NoReq == [op |-> "none", dev |-> None, conn |-> None, ssid |-> None]

WifiEvents == [dev : Dev, state : {"connecting", "connected",
                                   "disconnecting", "disconnected"}]

Init ==
    /\ activeConns = {} /\ primary = None /\ exported = {}
    /\ profState = [p \in Profile |->
                      IF p \in Loaded THEN "present" ELSE "absent"]
    /\ acState = [a \in AC |-> "unborn"]
    /\ gone = {} /\ cancelled = {} /\ adopted = {}
    /\ acDev = [a \in AC |-> None]
    /\ acConn = [a \in AC |-> None]
    /\ dev = [d \in Dev |-> [state |-> "disconnected", active |-> None,
                             ip4 |-> None, addr |-> {}, dns |-> None,
                             radio |-> None]]
    /\ events = <<>> /\ radioMoves = 0
    /\ pc = [t \in Thread |-> IF t \in AC THEN "none" ELSE "idle"]
    /\ todo = [t \in Thread |-> {}]
    /\ cur = [t \in Thread |-> None]
    /\ req = [t \in Thread |-> NoReq]

-----------------------------------------------------------------------------
Goto(t, place) == pc' = [pc EXCEPT ![t] = place]

\* The handler returns.
Return(t) == Goto(t, "idle") /\ req' = [req EXCEPT ![t] = NoReq]

\* ac.setState, dev.setState and dev.setActiveConnection
SetAC(a, s) == acState' = [acState EXCEPT ![a] = s]

SetDev(d, s) == dev' = [dev EXCEPT ![d].state = s]

\* mutant: a null path does not replace the one the device points at
SetActiveUnlessNull(d, a) ==
    dev' = IF a = None THEN dev ELSE [dev EXCEPT ![d].active = a]

SetActive(d, a) == dev' = [dev EXCEPT ![d].active = a]

\* Connections leave the registry, under Manager.mu: the delete from
\* activeConns and the reset of a primary that points at one of them.
\* mutant: the entry is forgotten
UnlistForgotten(acs) == activeConns' = activeConns
Unlist(acs) == activeConns' = activeConns \ acs
ClearPrimary(acs) == primary' = IF primary \in acs THEN None ELSE primary

\* ac.cancel(), nil for an adopted connection
\* mutant: the bring-up is not told
CancelForgotten(a) == cancelled' = cancelled
CancelContext(a) == cancelled' = cancelled \cup ({a} \ adopted)

\* The device the goroutine t is deactivating or binding
DevOf(t) == acDev[cur[t]]

\* Manager.activeOn: the listed active connection the device points at.
\* The binding and the registry are read under two locks; a connection that
\* leaves the registry in between is found gone by deactivate, which then
\* does nothing, so one read stands for both.
ActiveOn(d) == {dev[d].active} \cap activeConns

\* Manager.superseded (the daemon's own shutdown, which cancels every
\* context, is not modelled)
Superseded(a) == a \in cancelled \/ a \in gone

\* The wifi events a backend call or a change of the radio gives rise to
Emit(d, states) ==
    events' = events \o [i \in 1..Len(states) |->
                           [dev |-> d, state |-> states[i]]]

\* Every goroutine has finished and no wifi event is waiting.
Quiet ==
    /\ \A t \in Thread : pc[t] \in {"idle", "none", "done"}
    /\ events = <<>>

\* "free": requests arrive at any time.  "settled": a request is made only
\* when the daemon is at rest.  "patient": and the radio then moves by itself
\* only at rest, too, and the client deactivates an adopted connection before
\* it activates another one on the device.
MayBegin == Discipline # "free" => Quiet

MayActivate(d) == Discipline = "patient" => ActiveOn(d) \cap adopted = {}

-----------------------------------------------------------------------------
\* D-Bus requests.  Each starts a goroutine and collects the active
\* connections it must deactivate first.

Request(c, op, acs, d, p) ==
    /\ pc[c] = "idle" /\ MayBegin
    /\ Goto(c, "todo")
    /\ req' = [req EXCEPT ![c] = [op |-> op, dev |-> d, conn |-> p,
                                  ssid |-> None]]
    /\ todo' = [todo EXCEPT ![c] = acs]
    /\ UNCHANGED <<activeConns, primary, acVars, exported, dev, wifiVars, cur>>

\* Manager.ActivateConnection, up to the activeOn test of activate.  An
\* explicit device path is taken whatever its kind (resolveDevice).
ActivateConnection(c, p, d) ==
    /\ profState[p] = "present" /\ MayActivate(d)
    /\ Request(c, "activate", ActiveOn(d), d, p)
    /\ UNCHANGED profState

\* Manager.AddAndActivateConnection: settings.add, then the same.
AddAndActivateConnection(c, p, d) ==
    /\ profState[p] = "absent" /\ MayActivate(d)
    /\ Request(c, "activate", ActiveOn(d), d, p)
    /\ profState' = [profState EXCEPT ![p] = "present"]

\* Settings.AddConnection
AddConnection(c, p) ==
    /\ profState[p] = "absent"
    /\ pc[c] = "idle" /\ MayBegin
    /\ profState' = [profState EXCEPT ![p] = "present"]
    /\ UNCHANGED <<activeConns, primary, acVars, exported, dev, wifiVars, pc,
                   locals>>

\* Manager.DeactivateConnection
DeactivateConnection(c, a) ==
    /\ a \in activeConns
    /\ Request(c, "deactivate", {a}, None, None)
    /\ UNCHANGED profState

\* Device.Disconnect on a device with an active connection
DeviceDisconnect(c, d) ==
    /\ dev[d].active # None
    /\ Request(c, "deactivate", ActiveOn(d), None, None)
    /\ UNCHANGED profState

\* The wifi backend's Disconnect: best effort, and without effect on a radio
\* that is not joined to a network
WifiDisconnect(d) ==
    \/ /\ dev[d].radio # None
       /\ dev' = [dev EXCEPT ![d].radio = None]
       /\ Emit(d, <<"disconnecting", "disconnected">>)
    \/ /\ dev[d].radio = None \/ TeardownFails
       /\ UNCHANGED <<dev, events>>

\* Device.Disconnect on a device without one only calls the wifi backend.
DeviceDisconnectRadio(c, d) ==
    /\ pc[c] = "idle" /\ MayBegin
    /\ dev[d].active = None /\ Kind[d] = "wifi"
    /\ WifiDisconnect(d)
    /\ UNCHANGED <<shared, radioMoves, pc, locals>>

\* SettingsConnection.Delete, up to the list of its users
Delete(c, p) ==
    /\ profState[p] = "present"
    /\ Request(c, "delete", {a \in activeConns : acConn[a] = p}, None, p)
    /\ UNCHANGED profState

-----------------------------------------------------------------------------
\* Manager.deactivate, run by the goroutine t for each of todo[t]

\* mutant: gone is set without being tested
MarkUntested(t, a) ==
    /\ pc[t] = "todo" /\ a \in todo[t]
    /\ todo' = [todo EXCEPT ![t] = @ \ {a}]
    /\ gone' = gone \cup {a}
    /\ cur' = [cur EXCEPT ![t] = a]
    /\ Goto(t, "cancel")
    /\ UNCHANGED <<activeConns, primary, profState, acState, cancelled,
                   adopted, acDev, acConn, exported, dev, wifiVars, req>>

\* The test and set of ac.gone under Manager.mu
Mark(t, a) ==
    /\ pc[t] = "todo" /\ a \in todo[t]
    /\ todo' = [todo EXCEPT ![t] = @ \ {a}]
    /\ \/ a \in gone /\ UNCHANGED <<gone, cur, pc>>
       \/ /\ a \notin gone
          /\ gone' = gone \cup {a}
          /\ cur' = [cur EXCEPT ![t] = a]
          /\ Goto(t, "cancel")
    /\ UNCHANGED <<activeConns, primary, profState, acState, cancelled,
                   adopted, acDev, acConn, exported, dev, wifiVars, req>>

\* ac.cancel() and both Deactivating states
Cancel(t) ==
    /\ pc[t] = "cancel"
    /\ CancelContext(cur[t])
    /\ SetAC(cur[t], "deactivating")
    /\ SetDev(DevOf(t), "deactivating")
    /\ Goto(t, IF Kind[DevOf(t)] = "wifi" THEN "mech" ELSE "flush")
    /\ UNCHANGED <<activeConns, primary, profState, gone, adopted, acDev,
                   acConn, exported, wifiVars, locals>>

\* Wifi.Disconnect
DisconnectMech(t) ==
    /\ pc[t] = "mech"
    /\ WifiDisconnect(DevOf(t))
    /\ Goto(t, "flush")
    /\ UNCHANGED <<shared, radioMoves, locals>>

\* Link.FlushAddrs, best effort
FlushAddrs(t) ==
    /\ pc[t] = "flush"
    /\ \/ dev' = [dev EXCEPT ![DevOf(t)].addr = {}]
       \/ TeardownFails /\ UNCHANGED dev
    /\ Goto(t, "revert")
    /\ UNCHANGED <<shared, wifiVars, locals>>

\* DNS.Revert (it forgets the entry before it rewrites the file)
RevertDNS(t) ==
    /\ pc[t] = "revert"
    /\ dev' = [dev EXCEPT ![DevOf(t)].dns = None]
    /\ Goto(t, "unbind")
    /\ UNCHANGED <<shared, wifiVars, locals>>

\* dev.setActiveConnection(nullPath)
Unbind(t) ==
    /\ pc[t] = "unbind"
    /\ SetActive(DevOf(t), None)
    /\ Goto(t, "unip4")
    /\ UNCHANGED <<shared, wifiVars, locals>>

\* mutant: ip4obj is set to nil before it is unexported
UnexportNil(t) ==
    /\ pc[t] = "unip4"
    /\ dev' = [dev EXCEPT ![DevOf(t)].ip4 = None]
    /\ Goto(t, "drop")
    /\ UNCHANGED <<shared, wifiVars, locals>>

\* dev.ip4obj.unexport(), dev.ip4obj = nil, dev.setIP4Config(nullPath)
UnexportIP4(t) ==
    /\ pc[t] = "unip4"
    /\ exported' = exported \ {dev[DevOf(t)].ip4}
    /\ dev' = [dev EXCEPT ![DevOf(t)].ip4 = None]
    /\ Goto(t, "drop")
    /\ UNCHANGED <<activeConns, primary, profState, acVars, wifiVars, locals>>

\* The delete from activeConns, and from primary, under Manager.mu
Drop(t) ==
    /\ pc[t] = "drop"
    /\ Unlist({cur[t]}) /\ ClearPrimary({cur[t]})
    /\ Goto(t, "final")
    /\ UNCHANGED <<profState, acVars, exported, dev, wifiVars, locals>>

\* ac.setState(Deactivated) and ac.unexport()
Deactivated(t) ==
    /\ pc[t] = "final"
    /\ SetAC(cur[t], "deactivated")
    /\ Goto(t, "settle")
    /\ UNCHANGED <<activeConns, primary, profState, gone, cancelled, adopted,
                   acDev, acConn, exported, dev, wifiVars, locals>>

\* dev.setState(Disconnected); deactivate returns
Disconnected(t) ==
    /\ pc[t] = "settle"
    /\ SetDev(DevOf(t), "disconnected")
    /\ cur' = [cur EXCEPT ![t] = None]
    /\ Goto(t, "todo")
    /\ UNCHANGED <<shared, wifiVars, todo, req>>

\* Nothing is left to deactivate: the goroutine goes on with its own work.
Proceed(t) ==
    /\ pc[t] = "todo" /\ todo[t] = {}
    /\ CASE req[t].op = "activate" -> Goto(t, "create") /\ UNCHANGED req
         [] req[t].op = "delete" -> Goto(t, "remove") /\ UNCHANGED req
         [] req[t].op = "deactivate" -> Return(t)
         [] OTHER -> Goto(t, "done") /\ UNCHANGED req
    /\ UNCHANGED <<shared, dev, wifiVars, todo, cur>>

DeactivateStep(t) ==
    \/ \E a \in AC : Mark(t, a)
    \/ Cancel(t) \/ DisconnectMech(t) \/ FlushAddrs(t) \/ RevertDNS(t)
    \/ Unbind(t) \/ UnexportIP4(t) \/ Drop(t) \/ Deactivated(t)
    \/ Disconnected(t) \/ Proceed(t)

-----------------------------------------------------------------------------
\* The rest of the request handlers

\* mutant: the profile stays when it has no user left
RemoveForgotten(c) ==
    /\ pc[c] = "remove"
    /\ Return(c)
    /\ UNCHANGED <<shared, dev, wifiVars, todo, cur>>

\* Settings.remove, at the end of Delete
RemoveProfile(c) ==
    /\ pc[c] = "remove"
    /\ profState' = [profState EXCEPT ![req[c].conn] = "deleted"]
    /\ Return(c)
    /\ UNCHANGED <<activeConns, primary, acVars, exported, dev, wifiVars, todo,
                   cur>>

\* A new ActiveConnection, listed under Manager.mu
NewAC(t, a, p, s) ==
    /\ acState[a] = "unborn"
    /\ SetAC(a, s)
    /\ acDev' = [acDev EXCEPT ![a] = req[t].dev]
    /\ acConn' = [acConn EXCEPT ![a] = p]
    /\ activeConns' = activeConns \cup {a}
    /\ cur' = [cur EXCEPT ![t] = a]
    /\ UNCHANGED <<primary, profState, gone, cancelled, exported, dev,
                   wifiVars, todo, req>>

\* activate: newActiveConnection and the insert
Create(c, a) ==
    /\ pc[c] = "create"
    /\ NewAC(c, a, req[c].conn, "activating")
    /\ Goto(c, "bind")
    /\ UNCHANGED adopted

\* The bound on AC is reached: the request ends like one whose object cannot
\* be exported.
CreateExhausted(c) ==
    /\ pc[c] = "create"
    /\ \A a \in AC : acState[a] # "unborn"
    /\ Return(c)
    /\ UNCHANGED <<shared, dev, wifiVars, todo, cur>>

\* ac.export failed: the entry is deleted again
ExportFails(t) ==
    /\ pc[t] \in {"bind", "adoptBind"}
    /\ Unlist({cur[t]})
    /\ cur' = [cur EXCEPT ![t] = None]
    /\ Return(t)
    /\ UNCHANGED <<primary, profState, acVars, exported, dev, wifiVars, todo>>

\* dev.setActiveConnection(ac.path)
Bind(t) ==
    /\ pc[t] \in {"bind", "adoptBind"}
    /\ SetActive(DevOf(t), cur[t])
    /\ Goto(t, IF pc[t] = "bind" THEN "launch" ELSE "adoptPrimary")
    /\ UNCHANGED <<shared, wifiVars, locals>>

\* dev.setState(Prepare) and go runActivation
Launch(c) ==
    /\ pc[c] = "launch"
    /\ SetDev(DevOf(c), "prepare")
    /\ pc' = [pc EXCEPT ![c] = "idle", ![cur[c]] = "start"]
    /\ req' = [req EXCEPT ![c] = NoReq]
    /\ cur' = [cur EXCEPT ![c] = None]
    /\ UNCHANGED <<shared, wifiVars, todo>>

HandlerStep(c) ==
    \/ DeactivateStep(c)
    \/ RemoveProfile(c)
    \/ \E a \in AC : Create(c, a)
    \/ CreateExhausted(c) \/ ExportFails(c) \/ Bind(c) \/ Launch(c)

-----------------------------------------------------------------------------
\* runActivation and the functions it calls, run by the goroutine of a

\* bringUp: Config and the call of Wifi.Connect on wifi, Link.SetUp on
\* ethernet, an error on a device of another kind
StartWifi(a) ==
    /\ pc[a] = "start" /\ Kind[acDev[a]] = "wifi"
    /\ SetDev(acDev[a], "config")
    /\ Emit(acDev[a], <<"connecting">>)
    /\ Goto(a, "connect")
    /\ UNCHANGED <<shared, radioMoves, locals>>

StartOther(a) ==
    /\ pc[a] = "start" /\ Kind[acDev[a]] # "wifi"
    /\ \/ Kind[acDev[a]] = "ethernet" /\ Goto(a, "ip")
       \/ Goto(a, "bringUpErr")
    /\ UNCHANGED <<shared, dev, wifiVars, locals>>

\* Wifi.Connect returns; the backend reports the outcome as an event too.
Connect(a) ==
    /\ pc[a] = "connect"
    /\ \/ /\ SsidOf[acConn[a]] # None
          /\ dev' = [dev EXCEPT ![acDev[a]].radio = SsidOf[acConn[a]]]
          /\ Emit(acDev[a], <<"connected">>)
          /\ Goto(a, "ip")
       \/ /\ dev' = [dev EXCEPT ![acDev[a]].radio = None]
          /\ Emit(acDev[a], <<"disconnected">>)
          /\ Goto(a, "bringUpErr")
    /\ UNCHANGED <<shared, radioMoves, locals>>

\* configureIPv4, and the IPConfig state set by its manual and DHCP branches
ConfigureIPv4(a) ==
    /\ pc[a] = "ip"
    /\ \/ /\ Method[acConn[a]] = "disabled"
          /\ Goto(a, "bringUpOk")
          /\ UNCHANGED dev
       \/ /\ Method[acConn[a]] # "disabled"
          /\ SetDev(acDev[a], "ipconfig")
          /\ Goto(a, IF Method[acConn[a]] = "manual" THEN "leaseFlush"
                                                     ELSE "dhcp")
    /\ UNCHANGED <<shared, wifiVars, locals>>

\* configureDHCP: unless the context is cancelled, Acquire accepts a lease or
\* gives up, which is an error except on a wired device (link-local address)
ConfigureDHCP(a) ==
    /\ pc[a] = "dhcp"
    /\ \/ a \notin cancelled /\ Goto(a, "leaseFlush")
       \/ /\ Kind[acDev[a]] # "ethernet" \/ a \in cancelled
          /\ Goto(a, "bringUpErr")
    /\ UNCHANGED <<shared, dev, wifiVars, locals>>

\* applyLease: FlushAddrs (or an invalid manual address, found just before)
LeaseFlush(a) ==
    /\ pc[a] = "leaseFlush"
    /\ \/ /\ dev' = [dev EXCEPT ![acDev[a]].addr = {}]
          /\ Goto(a, "leaseAddr")
       \/ UNCHANGED dev /\ Goto(a, "bringUpErr")
    /\ UNCHANGED <<shared, wifiVars, locals>>

\* applyLease: AddAddr of the lease and of a manual profile's further
\* addresses, any of which may fail
LeaseAddr(a) ==
    LET added == [dev EXCEPT ![acDev[a]].addr = @ \cup {a}] IN
    /\ pc[a] = "leaseAddr"
    /\ \/ dev' = added /\ Goto(a, "leaseDNS")
       \/ dev' = dev /\ Goto(a, "bringUpErr")
       \/ /\ Method[acConn[a]] = "manual"
          /\ dev' = added /\ Goto(a, "bringUpErr")
    /\ UNCHANGED <<shared, wifiVars, locals>>

\* applyLease: DNS.Set (it records the entry before it rewrites the file)
LeaseDNS(a) ==
    /\ pc[a] = "leaseDNS"
    /\ dev' = [dev EXCEPT ![acDev[a]].dns = a]
    /\ Goto(a, "leaseIP4")
    /\ UNCHANGED <<shared, wifiVars, locals>>

\* applyLease: the IP4Config object, unless it cannot be exported
LeaseIP4(a) ==
    /\ pc[a] = "leaseIP4"
    /\ \/ /\ exported' = exported \cup {a}
          /\ dev' = [dev EXCEPT ![acDev[a]].ip4 = a]
       \/ UNCHANGED <<exported, dev>>
    /\ Goto(a, "bringUpOk")
    /\ UNCHANGED <<activeConns, primary, profState, acVars, wifiVars, locals>>

\* mutant: a failed bring-up returns without deactivating
CheckDropsError(a) ==
    /\ pc[a] \in {"bringUpOk", "bringUpErr"}
    /\ Goto(a, IF Superseded(a) \/ pc[a] = "bringUpErr" THEN "done"
                                                        ELSE "activated")
    /\ UNCHANGED <<shared, dev, wifiVars, locals>>

\* runActivation: the test of superseded under Manager.mu
CheckSuperseded(a) ==
    /\ pc[a] \in {"bringUpOk", "bringUpErr"}
    /\ \/ Superseded(a) /\ Goto(a, "done")
       \/ /\ ~Superseded(a)
          /\ Goto(a, IF pc[a] = "bringUpErr" THEN "failed" ELSE "activated")
    /\ UNCHANGED <<shared, dev, wifiVars, locals>>

\* dev.setState(Failed), then deactivate(ac)
ActivationFailed(a) ==
    /\ pc[a] = "failed"
    /\ SetDev(acDev[a], "failed")
    /\ todo' = [todo EXCEPT ![a] = {a}]
    /\ Goto(a, "todo")
    /\ UNCHANGED <<shared, wifiVars, cur, req>>

\* ac.setState(Activated)
Activated(a) ==
    /\ pc[a] = "activated"
    /\ SetAC(a, "activated")
    /\ Goto(a, "devActivated")
    /\ UNCHANGED <<activeConns, primary, profState, gone, cancelled, adopted,
                   acDev, acConn, exported, dev, wifiVars, locals>>

\* dev.setState(Activated)
DevActivated(a) ==
    /\ pc[a] = "devActivated"
    /\ SetDev(acDev[a], "activated")
    /\ Goto(a, "setPrimary")
    /\ UNCHANGED <<shared, wifiVars, locals>>

\* mutant: the entry is written again
PrimaryRelists(a) ==
    /\ pc[a] = "setPrimary"
    /\ primary' = a
    /\ activeConns' = activeConns \cup {a}
    /\ Goto(a, "done")
    /\ UNCHANGED <<profState, acVars, exported, dev, wifiVars, locals>>

\* m.primary = ac.path under Manager.mu
SetPrimary(a) ==
    /\ pc[a] = "setPrimary"
    /\ primary' = a
    /\ Goto(a, "done")
    /\ UNCHANGED <<activeConns, profState, acVars, exported, dev, wifiVars,
                   locals>>

RunActivation(a) ==
    \/ StartWifi(a) \/ StartOther(a) \/ Connect(a)
    \/ ConfigureIPv4(a) \/ ConfigureDHCP(a)
    \/ LeaseFlush(a) \/ LeaseAddr(a) \/ LeaseDNS(a) \/ LeaseIP4(a)
    \/ CheckSuperseded(a) \/ ActivationFailed(a)
    \/ Activated(a) \/ DevActivated(a) \/ SetPrimary(a)
    \/ DeactivateStep(a)

-----------------------------------------------------------------------------
\* onWifiEvent, run by the goroutine Iwd for one event at a time

TakeEvent(state) ==
    /\ pc[Iwd] = "idle" /\ events # <<>>
    /\ Head(events).state = state
    /\ events' = Tail(events)
    /\ UNCHANGED <<profState, acVars, exported, radioMoves, todo>>

EventReq(ssid) ==
    req' = [req EXCEPT ![Iwd] = [op |-> "event", dev |-> Head(events).dev,
                                 conn |-> None, ssid |-> ssid]]

\* WifiConnecting and WifiDisconnecting only set the device state.
OnConnecting ==
    /\ TakeEvent("connecting")
    /\ SetDev(Head(events).dev, "config")
    /\ UNCHANGED <<activeConns, primary, pc, cur, req>>

OnDisconnecting ==
    /\ TakeEvent("disconnecting")
    /\ SetDev(Head(events).dev, "deactivating")
    /\ UNCHANGED <<activeConns, primary, pc, cur, req>>

\* WifiConnected: the network is the one the radio is on when the signal is
\* dispatched (iwd.emit), not when it was sent.
OnConnected ==
    /\ TakeEvent("connected")
    /\ SetDev(Head(events).dev, "activated")
    /\ EventReq(dev[Head(events).dev].radio)
    /\ Goto(Iwd, "adopt")
    /\ UNCHANGED <<activeConns, primary, cur>>

\* adoptWifi: a network the radio joined by itself becomes an active
\* connection, with the profile naming it when there is one.
Adopt(a) ==
    LET known == {p \in Profile : profState[p] = "present"
                                    /\ SsidOf[p] = req[Iwd].ssid} IN
    /\ pc[Iwd] = "adopt"
    /\ req[Iwd].ssid # None
    /\ dev[req[Iwd].dev].active = None
    /\ \E p \in IF known = {} THEN {None} ELSE known :
          NewAC(Iwd, a, p, "activated")
    /\ adopted' = adopted \cup {a}
    /\ Goto(Iwd, "adoptBind")

\* adoptWifi: no network, a busy device, or (the bound on AC) an object that
\* cannot be exported
NoAdopt ==
    /\ pc[Iwd] = "adopt"
    /\ \/ req[Iwd].ssid = None
       \/ dev[req[Iwd].dev].active # None
       \/ \A a \in AC : acState[a] # "unborn"
    /\ Return(Iwd)
    /\ UNCHANGED <<shared, dev, wifiVars, todo, cur>>

\* adoptWifi: primary when there is none, or one that is not listed
AdoptPrimary ==
    /\ pc[Iwd] = "adoptPrimary"
    /\ primary' = IF primary \in activeConns THEN primary ELSE cur[Iwd]
    /\ cur' = [cur EXCEPT ![Iwd] = None]
    /\ Return(Iwd)
    /\ UNCHANGED <<activeConns, profState, acVars, exported, dev, wifiVars,
                   todo>>

\* The active connection dropAdoptedWifi drops
Adopted(d) == ActiveOn(d) \cap adopted

\* WifiDisconnected: dropAdoptedWifi up to its unlock of Manager.mu
OnDisconnected ==
    LET dropped == Adopted(Head(events).dev) IN
    /\ TakeEvent("disconnected")
    /\ Unlist(dropped) /\ ClearPrimary(dropped)
    /\ EventReq(None)
    /\ \/ dropped = {} /\ Goto(Iwd, "dropDev") /\ UNCHANGED cur
       \/ \E a \in dropped : /\ cur' = [cur EXCEPT ![Iwd] = a]
                             /\ Goto(Iwd, "dropState")
    /\ UNCHANGED dev

\* ac.setState(Deactivated) and ac.unexport()
DropState ==
    /\ pc[Iwd] = "dropState"
    /\ SetAC(cur[Iwd], "deactivated")
    /\ Goto(Iwd, "dropBind")
    /\ UNCHANGED <<activeConns, primary, profState, gone, cancelled, adopted,
                   acDev, acConn, exported, dev, wifiVars, locals>>

\* d.setActiveConnection(nullPath)
DropBind ==
    /\ pc[Iwd] = "dropBind"
    /\ SetActive(req[Iwd].dev, None)
    /\ cur' = [cur EXCEPT ![Iwd] = None]
    /\ Goto(Iwd, "dropDev")
    /\ UNCHANGED <<shared, wifiVars, todo, req>>

\* the device state of a WifiDisconnected event
DropDev ==
    /\ pc[Iwd] = "dropDev"
    /\ SetDev(req[Iwd].dev, "disconnected")
    /\ Return(Iwd)
    /\ UNCHANGED <<shared, wifiVars, todo, cur>>

OnWifiEvent ==
    \/ OnConnecting \/ OnConnected \/ OnDisconnecting \/ OnDisconnected
    \/ \E a \in AC : Adopt(a)
    \/ NoAdopt \/ ExportFails(Iwd) \/ Bind(Iwd) \/ AdoptPrimary
    \/ DropState \/ DropBind \/ DropDev

-----------------------------------------------------------------------------
\* The radio moves by itself: it joins a network, or loses the one it is on.
RadioMoves(d, ssid, state) ==
    /\ Kind[d] = "wifi" /\ radioMoves < MaxRadio
    /\ Discipline = "patient" => Quiet
    /\ radioMoves' = radioMoves + 1
    /\ dev' = [dev EXCEPT ![d].radio = ssid]
    /\ Emit(d, <<state>>)
    /\ UNCHANGED <<shared, pc, locals>>

RadioConnects(d, s) == dev[d].radio = None /\ RadioMoves(d, s, "connected")

RadioDrops(d) == dev[d].radio # None /\ RadioMoves(d, None, "disconnected")

-----------------------------------------------------------------------------
NewRequest(c) ==
    \/ \E p \in Profile, d \in Dev : ActivateConnection(c, p, d)
    \/ \E p \in Profile, d \in Dev : AddAndActivateConnection(c, p, d)
    \/ \E p \in Profile : AddConnection(c, p)
    \/ \E a \in AC : DeactivateConnection(c, a)
    \/ \E d \in Dev : DeviceDisconnect(c, d)
    \/ \E d \in Dev : DeviceDisconnectRadio(c, d)
    \/ \E p \in Profile : Delete(c, p)

Radio ==
    \/ \E d \in Dev, s \in Ssid : RadioConnects(d, s)
    \/ \E d \in Dev : RadioDrops(d)

Next ==
    \/ \E c \in Client : NewRequest(c) \/ HandlerStep(c)
    \/ \E a \in AC : RunActivation(a)
    \/ OnWifiEvent
    \/ Radio

Spec == Init /\ [][Next]_vars

\* Every goroutine that has been started keeps running (each backend call
\* returns: DHCP gives up after maxTries, the others are answered by the
\* kernel or by iwd), and the event goroutine keeps reading.  Nothing is
\* assumed of the clients or of the radio.
FairSpec ==
    /\ Spec
    /\ \A c \in Client : WF_vars(HandlerStep(c))
    /\ \A a \in AC : WF_vars(RunActivation(a))
    /\ WF_vars(OnWifiEvent)

-----------------------------------------------------------------------------
\* Properties of every behaviour, whatever the clients do

\* Every variable holds a value of its kind.
TypeOK ==
    /\ activeConns \in SUBSET AC
    /\ primary \in AC \cup {None}
    /\ profState \in [Profile -> {"absent", "present", "deleted"}]
    /\ acState \in [AC -> AcStates]
    /\ gone \in SUBSET AC /\ cancelled \in SUBSET AC /\ adopted \in SUBSET AC
    /\ acDev \in [AC -> Dev \cup {None}]
    /\ acConn \in [AC -> Profile \cup {None}]
    /\ dev \in [Dev -> Devices]
    /\ exported \in SUBSET AC
    /\ events \in Seq(WifiEvents)
    /\ radioMoves \in Nat
    /\ pc \in [Thread -> PC]
    /\ todo \in [Thread -> SUBSET AC]
    /\ cur \in [Thread -> AC \cup {None}]
    /\ req \in [Thread -> Requests]

\* deactivate's body runs at most once at a time for an active connection:
\* however requests, a failing bring-up and Delete overlap, no two goroutines
\* are both tearing the same one down (the test and set of gone).
TeardownOnce ==
    \A t, u \in Thread :
        pc[t] \in Teardown /\ pc[u] \in Teardown /\ cur[t] = cur[u] => t = u

\* An active connection marked gone is listed only while some goroutine is on
\* its way to delete it: callers that find it gone and return at once
\* (activate.go, deactivate's early return) can rely on its removal.
GoneLeaves ==
    \A a \in gone \cap activeConns :
        \E t \in Thread : pc[t] \in TearingDown /\ cur[t] = a

\* A listed connection shown as activating has somebody working on it: the
\* handler that has yet to start its goroutine, that goroutine, or a teardown.
NoOrphanActivation ==
    \A a \in activeConns \ gone :
        acState[a] = "activating" =>
            \/ pc[a] \in BringUp \cup Settle \cup {"todo"}
            \/ \E c \in Client : pc[c] \in {"bind", "launch"} /\ cur[c] = a

\* A bring-up still running for a connection that is no longer listed has had
\* its context cancelled, so a DHCP exchange for it stops and nothing settles
\* it as activated later on account of the registry alone.
StrayBringUpCancelled ==
    \A a \in AC : pc[a] \in BringUp /\ a \notin activeConns => a \in cancelled

\* Once an active connection has left the registry it never comes back, even
\* if its bring-up is still running and goes on to finish.
NeverRelisted ==
    [][\A a \in AC : acState[a] # "unborn" /\ a \notin activeConns
                       => a \notin activeConns']_vars

-----------------------------------------------------------------------------
\* What must eventually happen

\* No activation hangs: a connection shown as activating is activated or
\* leaves the registry, also when its bring-up fails or is superseded.
ActivationSettles ==
    \A a \in AC :
        a \in activeConns /\ acState[a] = "activating"
            ~> acState[a] = "activated" \/ a \notin activeConns

\* A connection whose deactivation has begun leaves the registry.
DeactivationCompletes ==
    \A a \in AC : a \in gone ~> a \notin activeConns

\* Deleting a profile removes it after its users have been deactivated.
DeleteCompletes ==
    \A p \in Profile :
        (\E c \in Client : pc[c] = "todo" /\ req[c].op = "delete"
                             /\ req[c].conn = p)
            ~> profState[p] = "deleted"

-----------------------------------------------------------------------------
\* What a client that waits for the daemon to come to rest can rely on

\* At rest every device points at a listed connection of its own or at
\* nothing, and every listed connection is activated and its device points
\* back at it: no two connections share a device and none is unreachable.
\* PrimaryConnection is a listed one or nothing.  A wired device is shown
\* activated when it has a connection and else disconnected, never preparing,
\* failed or deactivating (the rescan loop and the clients act on that state).
RestBindings ==
    Quiet =>
        /\ \A d \in Dev : dev[d].active # None =>
              dev[d].active \in activeConns /\ acDev[dev[d].active] = d
        /\ \A a \in activeConns :
              dev[acDev[a]].active = a /\ acState[a] = "activated"
        /\ primary \in activeConns \cup {None}
        /\ \A d \in Dev : Kind[d] # "wifi" =>
              dev[d].state = IF dev[d].active = None THEN "disconnected"
                                                     ELSE "activated"

\* At rest a device carries addresses, a DNS entry and an IP4Config object
\* only of the connection it points at, and no other IP4Config object is left
\* on the bus: no failed, replaced or deactivated connection leaves residue.
RestNetwork ==
    Quiet =>
        /\ \A d \in Dev :
              /\ dev[d].addr \subseteq {dev[d].active}
              /\ {dev[d].dns, dev[d].ip4} \subseteq {None, dev[d].active}
        /\ exported \subseteq {dev[d].ip4 : d \in Dev}
=============================================================================
