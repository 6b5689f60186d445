-------------------------------- MODULE Vpn --------------------------------
(***************************************************************************)
(* WireGuard tunnels (internal/nmapi/vpn.go, with the WireGuard branches   *)
(* of manager.go and activate.go, onLinkEvent and backend/wg/wg.go).       *)
(*                                                                         *)
(* A tunnel's interface exists only while it is wanted: an activation      *)
(* creates the kernel link (ensureWireGuardDevice, and again at the start  *)
(* of bringUpWireGuard), its teardown removes it.  The Device object comes *)
(* and goes with the link, through link events that the monitor goroutine  *)
(* applies later, and addresses the link by the index it had when the      *)
(* object was made.  A tunnel that takes the default route needs a route   *)
(* to its peer outside of the tunnel; the connection records that route    *)
(* and its teardown removes it.                                            *)
(*                                                                         *)
(* The life cycle around the tunnel is module Activation's; here the       *)
(* connection is created, bound and launched in one step, and primary,     *)
(* the device states and the bus objects are left out.  A name stands for  *)
(* an interface and for the one profile that names it; a profile has an    *)
(* address, a name server and at most one peer with an endpoint.           *)
(***************************************************************************)
EXTENDS Naturals, Sequences

CONSTANTS
    Client,      \* the goroutines serving D-Bus method calls
    AC,          \* the active connections that may ever be created
    Name,        \* the tunnels: interface names and their profiles
    Host,        \* the peers' endpoints
    HostOf,      \* HostOf[n]: the endpoint of a full tunnel, None for others
    None,        \* an absent value
    Discipline,  \* how the clients behave, see MayBegin
    MaxFaults    \* bound on what goes wrong around the tunnels

ASSUME VpnConstants ==
    /\ Client \cap AC = {}
    /\ HostOf \in [Name -> Host \cup {None}]
    /\ None \notin AC \cup Host \cup Name \cup ({"lan", "tun"} \X Nat)
    /\ Discipline \in {"free", "considerate"}
    /\ MaxFaults \in Nat

Thread == Client \cup AC

VARIABLES
    link,        \* link[n]: the index of the kernel's link n, 0 if there is none
    made,        \* links created so far
    addr,        \* indices of the links that have their address
    routes,      \* routes into tunnels: index and kind of destination
    peerRoute,   \* peerRoute[h]: what the kernel's host route to h goes through
    dns,         \* dns[n]: the connection whose entry the DNS backend holds
    events,      \* link events the monitor has not applied yet
    underlay,    \* the connection underneath: its number and whether it is up
    faults,      \* faults so far
    devices,     \* every Device object made, oldest first
    devByIface,  \* Manager.devByIface: positions in devices, 0 if none
    activeConns, activated, gone, device, vpnRoutes,  \* ActiveConnection
    pc,          \* where each goroutine is
    name,        \* the tunnel a request is about
    held,        \* the Device (or, while it is made, the link) it holds
    new,         \* the connection it will create
    cur,         \* the connection a goroutine is deactivating
    via          \* what a bring-up found the default route to go through

kernel   == <<link, made, addr, routes, peerRoute, underlay>>
registry == <<devices, devByIface>>
acVars   == <<activeConns, activated, gone, device, vpnRoutes>>
locals   == <<name, held, new, cur, via>>

vars == <<kernel, dns, events, faults, registry, acVars, pc, locals>>

Via == {"lan", "tun"} \X Nat

-----------------------------------------------------------------------------
Ensure   == {"lookup", "configure", "wait", "seen"}
BringUp  == {"bringUp", "address", "setUp", "routes", "gateway", "peer",
             "record", "dns", "ok", "failed"}
Teardown == {"delRoutes", "forget", "remove", "flush", "drop"}
PC       == {"idle", "unborn", "done", "old", "mark", "create"}
              \cup Ensure \cup BringUp \cup Teardown

LinkEvents  == [name : Name, index : Nat, present : BOOLEAN]
DeviceTypes == [name : Name, index : Nat, active : AC \cup {None}]

Init ==
    /\ link = [n \in Name |-> 0] /\ made = 0
    /\ addr = {} /\ routes = {}
    /\ peerRoute = [h \in Host |-> None]
    /\ dns = [n \in Name |-> None]
    /\ events = <<>>
    /\ underlay = [number |-> 0, up |-> TRUE]
    /\ faults = 0
    /\ devices = <<>>
    /\ devByIface = [n \in Name |-> 0]
    /\ activeConns = {} /\ activated = {} /\ gone = {}
    /\ device = [a \in AC |-> 0]
    /\ vpnRoutes = [a \in AC |-> {}]
    /\ pc = [t \in Thread |-> IF t \in AC THEN "unborn" ELSE "idle"]
    /\ name = [c \in Client |-> None]
    /\ held = [c \in Client |-> 0]
    /\ new = [c \in Client |-> None]
    /\ cur = [t \in Thread |-> None]
    /\ via = [a \in AC |-> None]

-----------------------------------------------------------------------------
Goto(t, place) == pc' = [pc EXCEPT ![t] = place]

Exists(i)  == \E n \in Name : link[n] = i /\ i # 0
IndexOf(a) == devices[device[a]].index
NameOf(a)  == devices[device[a]].name

Fault == faults < MaxFaults /\ faults' = faults + 1

Notify(n, i, present) ==
    events' = Append(events, [name |-> n, index |-> i, present |-> present])

\* The kernel forgets a link's addresses, and with the last of them the
\* routes over it.
Flush(i) ==
    /\ addr' = addr \ {i}
    /\ routes' = {r \in routes : r[1] # i}

\* The link n goes: its addresses and routes go with it.
DeleteLink(n) ==
    /\ link' = [link EXCEPT ![n] = 0]
    /\ Flush(link[n])
    /\ Notify(n, link[n], FALSE)

\* wg.Configure creates the link unless it is there, and only then applies
\* the keys and peers: that a key is bad or an endpoint does not resolve is
\* found with the link already created.
CreateLink(n) ==
    IF link[n] # 0
    THEN UNCHANGED <<link, made, events>>
    ELSE /\ made' = made + 1
         /\ link' = [link EXCEPT ![n] = made + 1]
         /\ Notify(n, made + 1, TRUE)

\* mutant: a name that was registered before is not registered again
RegisterOnce(n, i) ==
    IF \E k \in DOMAIN devices : devices[k].name = n
    THEN UNCHANGED registry
    ELSE /\ devices' = Append(devices, [name |-> n, index |-> i,
                                        active |-> None])
         /\ devByIface' = [devByIface EXCEPT ![n] = Len(devices) + 1]

\* Manager.addDeviceLocked, under Manager.mu.  For a Device that exists
\* onLinkEvent only updates the link, which means nothing to a tunnel.
Register(n, i) ==
    IF devByIface[n] # 0
    THEN UNCHANGED registry
    ELSE /\ devices' = Append(devices, [name |-> n, index |-> i,
                                        active |-> None])
         /\ devByIface' = [devByIface EXCEPT ![n] = Len(devices) + 1]

\* onLinkEvent for a link that is gone looks its Device up by name.
Unregister(n) ==
    /\ devByIface' = [devByIface EXCEPT ![n] = 0]
    /\ UNCHANGED devices

\* The monitor goroutine applies the oldest link event.
OnLinkEvent ==
    /\ events # <<>>
    /\ LET e == Head(events) IN
       IF e.present THEN Register(e.name, e.index) ELSE Unregister(e.name)
    /\ events' = Tail(events)
    /\ UNCHANGED <<kernel, dns, faults, acVars, pc, locals>>

-----------------------------------------------------------------------------
\* No goroutine works on the tunnel n and no event of its link is waiting.
Serves(t) == IF t \in Client THEN name[t] ELSE NameOf(t)

Calm(n) ==
    /\ \A t \in Thread : pc[t] \notin {"idle", "unborn", "done"}
                           => Serves(t) # n
    /\ \A k \in DOMAIN events : events[k].name # n

\* "free": requests arrive at any time.  "considerate": a client waits until
\* the tunnel is at rest; what happens to other tunnels does not matter.
MayBegin(n) == Discipline = "considerate" => Calm(n)

\* A request about the tunnel n begins; it holds the Device dev.
Begin(c, n, dev, place) ==
    /\ pc[c] = "idle" /\ MayBegin(n)
    /\ name' = [name EXCEPT ![c] = n]
    /\ held' = [held EXCEPT ![c] = dev]
    /\ Goto(c, place)
    /\ UNCHANGED <<kernel, dns, events, faults, registry, acVars, via>>

\* ActivateConnection and AddAndActivateConnection: resolveDevice finds the
\* Device of the profile's interface or asks for it to be made.
Activate(c, a, n) ==
    /\ pc[a] = "unborn" /\ \A b \in Client : new[b] # a
    /\ new' = [new EXCEPT ![c] = a]
    /\ Begin(c, n, devByIface[n],
             IF devByIface[n] # 0 THEN "old" ELSE "lookup")
    /\ UNCHANGED cur

\* DeactivateConnection
Deactivate(c, a) ==
    /\ a \in activeConns
    /\ cur' = [cur EXCEPT ![c] = a]
    /\ Begin(c, NameOf(a), 0, "mark")
    /\ UNCHANGED new

\* The request returns, an activation without a connection.
Fail(c) ==
    /\ Goto(c, "idle")
    /\ name' = [name EXCEPT ![c] = None]
    /\ held' = [held EXCEPT ![c] = 0]
    /\ new' = [new EXCEPT ![c] = None]

\* ensureWireGuardDevice: the Device, or else the link, by name
Lookup(c) ==
    LET n == name[c] IN
    /\ pc[c] \in {"lookup", "wait"}
    /\ \/ /\ devByIface[n] # 0
          /\ held' = [held EXCEPT ![c] = devByIface[n]]
          /\ Goto(c, "old")
       \/ /\ devByIface[n] = 0 /\ pc[c] = "lookup"
          /\ Goto(c, "configure") /\ UNCHANGED held
       \/ /\ devByIface[n] = 0 /\ pc[c] = "wait" /\ link[n] # 0
          /\ held' = [held EXCEPT ![c] = link[n]]
          /\ Goto(c, "seen")
    /\ UNCHANGED <<kernel, dns, events, faults, registry, acVars, name, new,
                   cur, via>>

\* ensureWireGuardDevice: WG.Configure
ConfigureNew(c) ==
    /\ pc[c] = "configure"
    /\ CreateLink(name[c])
    /\ \/ Goto(c, "wait") /\ UNCHANGED <<name, held, new>>
       \/ Fail(c)
    /\ UNCHANGED <<addr, routes, peerRoute, underlay, dns, faults, registry,
                   acVars, cur, via>>

\* ensureWireGuardDevice: onLinkEvent with the link that LinkByName returned
RegisterSeen(c) ==
    /\ pc[c] = "seen"
    /\ Register(name[c], held[c])
    /\ Goto(c, "wait")
    /\ UNCHANGED <<kernel, dns, events, faults, acVars, locals>>

\* ensureWireGuardDevice: the interface did not appear in three seconds.
Deadline(c) ==
    /\ pc[c] = "wait"
    /\ Fail(c)
    /\ UNCHANGED <<kernel, dns, events, faults, registry, acVars, cur, via>>

\* activate: deactivate what is active on the Device first
Old(c) ==
    LET old == devices[held[c]].active IN
    /\ pc[c] = "old"
    /\ \/ /\ old \in activeConns
          /\ cur' = [cur EXCEPT ![c] = old]
          /\ Goto(c, "mark")
       \/ old \notin activeConns /\ Goto(c, "create") /\ UNCHANGED cur
    /\ UNCHANGED <<kernel, dns, events, faults, registry, acVars, name, held,
                   new, via>>

\* activate: the connection is listed and bound, its goroutine started.
Create(c) ==
    LET a == new[c] IN
    /\ pc[c] = "create"
    /\ activeConns' = activeConns \cup {a}
    /\ device' = [device EXCEPT ![a] = held[c]]
    /\ devices' = [devices EXCEPT ![held[c]].active = a]
    /\ pc' = [pc EXCEPT ![c] = "idle", ![a] = "bringUp"]
    /\ name' = [name EXCEPT ![c] = None]
    /\ held' = [held EXCEPT ![c] = 0]
    /\ new' = [new EXCEPT ![c] = None]
    /\ UNCHANGED <<kernel, dns, events, faults, devByIface, activated, gone,
                   vpnRoutes, cur, via>>

-----------------------------------------------------------------------------
\* Manager.deactivate for cur[t].  When it is over a bring-up that failed ends,
\* a client that deactivates returns, and one that activates goes on.
Deactivated(t) ==
    /\ cur' = [cur EXCEPT ![t] = None]
    /\ \/ t \in AC /\ Goto(t, "done") /\ UNCHANGED name
       \/ /\ t \in Client /\ new[t] = None
          /\ Goto(t, "idle") /\ name' = [name EXCEPT ![t] = None]
       \/ /\ t \in Client /\ new[t] # None
          /\ Goto(t, "create") /\ UNCHANGED name
    /\ UNCHANGED <<held, new, via>>

\* The test and set of ac.gone under Manager.mu
Mark(t) ==
    /\ pc[t] = "mark"
    /\ IF cur[t] \in gone
       THEN Deactivated(t) /\ UNCHANGED gone
       ELSE /\ gone' = gone \cup {cur[t]}
            /\ Goto(t, "delRoutes") /\ UNCHANGED locals
    /\ UNCHANGED <<kernel, dns, events, faults, registry, activeConns,
                   activated, device, vpnRoutes>>

\* mutants: the records go, the routes stay; every tunnel's routes go
ForgetRoutes(a) == UNCHANGED peerRoute
DelAllRoutes(a) == peerRoute' = [h \in Host |-> None]
\* Link.DelRoute of every recorded route that still is the one in the table
DelRoutes(a) ==
    peerRoute' = [h \in Host |-> IF <<peerRoute[h], h>> \in vpnRoutes[a]
                                 THEN None ELSE peerRoute[h]]

\* tearDownWireGuard: the routes, then the records of them.  No lock guards
\* the records: a bring-up that goes on may add one in between.
TearDownWireGuard(t) ==
    \/ /\ pc[t] = "delRoutes"
       /\ DelRoutes(cur[t])
       /\ Goto(t, "forget")
       /\ UNCHANGED <<link, made, addr, routes, underlay, dns, events, faults,
                      registry, acVars, locals>>
    \/ /\ pc[t] = "forget"
       /\ vpnRoutes' = [vpnRoutes EXCEPT ![cur[t]] = {}]
       /\ Goto(t, "remove")
       /\ UNCHANGED <<kernel, dns, events, faults, registry, activeConns,
                      activated, gone, device, locals>>

\* WG.Remove, by name: whichever link has it now
Remove(t) ==
    /\ pc[t] = "remove"
    /\ Goto(t, "flush")
    /\ IF link[NameOf(cur[t])] # 0
       THEN DeleteLink(NameOf(cur[t]))
       ELSE UNCHANGED <<link, addr, routes, events>>
    /\ UNCHANGED <<made, peerRoute, underlay, dns, faults, registry, acVars,
                   locals>>

\* mutant: the entry stays
RevertForgotten(n) == UNCHANGED dns
RevertDNS(n) == dns' = [dns EXCEPT ![n] = None]

\* Link.FlushAddrs, by index, and DNS.Revert, by name
FlushAndRevert(t) ==
    /\ pc[t] = "flush"
    /\ Flush(IndexOf(cur[t]))
    /\ RevertDNS(NameOf(cur[t]))
    /\ Goto(t, "drop")
    /\ UNCHANGED <<link, made, peerRoute, underlay, events, faults, registry,
                   acVars, locals>>

\* dev.setActiveConnection(nullPath) and the delete from activeConns
Drop(t) ==
    /\ pc[t] = "drop"
    /\ devices' = [devices EXCEPT ![device[cur[t]]].active = None]
    /\ activeConns' = activeConns \ {cur[t]}
    /\ Deactivated(t)
    /\ UNCHANGED <<kernel, dns, events, faults, devByIface, activated, gone,
                   device, vpnRoutes>>

DeactivateStep(t) ==
    \/ Mark(t) \/ TearDownWireGuard(t) \/ Remove(t) \/ FlushAndRevert(t)
    \/ Drop(t)

-----------------------------------------------------------------------------
\* bringUpWireGuard, run by the goroutine of the connection a.  It does not
\* look at its context.

\* WG.Configure, which makes the link again if it is gone
ConfigureAgain(a) ==
    /\ pc[a] = "bringUp"
    /\ CreateLink(NameOf(a))
    /\ Goto(a, "address") \/ Goto(a, "failed")
    /\ UNCHANGED <<addr, routes, peerRoute, underlay, dns, faults, registry,
                   acVars, locals>>

\* Link.FlushAddrs and Link.AddAddr, by index: an error when no such link is
\* there, or when one of the addresses is refused
Address(a) ==
    LET i == IndexOf(a) IN
    /\ pc[a] = "address"
    /\ routes' = {r \in routes : r[1] # i}
    /\ \/ Exists(i) /\ addr' = addr \cup {i} /\ Goto(a, "setUp")
       \/ Exists(i) /\ addr' = addr \cup {i} /\ Goto(a, "failed")
       \/ addr' = addr \ {i} /\ Goto(a, "failed")
    /\ UNCHANGED <<link, made, peerRoute, underlay, dns, events, faults,
                   registry, acVars, locals>>

\* Link.SetUp, by index
SetUp(a) ==
    /\ pc[a] = "setUp"
    /\ Goto(a, IF Exists(IndexOf(a)) THEN "routes" ELSE "failed")
    /\ UNCHANGED <<kernel, dns, events, faults, registry, acVars, locals>>

\* mutant: the default route is installed as it is
Whole(n) == IF HostOf[n] = None THEN "net" ELSE "default"
\* halves: instead of the default route two halves of it, which win over
\* every default route and are not taken for one
Halves(n) == IF HostOf[n] = None THEN "net" ELSE "halves"

\* Link.AddRoute for every allowed destination, errors ignored
AddRoutes(a) ==
    LET i == IndexOf(a) IN
    /\ pc[a] = "routes"
    /\ routes' = IF Exists(i) THEN routes \cup {<<i, Halves(NameOf(a))>>}
                              ELSE routes
    /\ Goto(a, IF HostOf[NameOf(a)] = None THEN "dns" ELSE "gateway")
    /\ UNCHANGED <<link, made, addr, peerRoute, underlay, dns, events, faults,
                   registry, acVars, locals>>

\* defaultGateway4: the best default route that is not the tunnel's own (a
\* tunnel's metric, 50, is better than the 100 of applyLease)
DefaultGateways(skip) ==
    LET others == {r \in routes : r[2] = "default" /\ r[1] # skip} IN
    IF others # {} THEN {<<"tun", r[1]>> : r \in others}
    ELSE IF underlay.up THEN {<<"lan", underlay.number>>} ELSE {}

LookupGateway(a) ==
    LET gws == DefaultGateways(IndexOf(a)) IN
    /\ pc[a] = "gateway"
    /\ \/ \E g \in gws : via' = [via EXCEPT ![a] = g] /\ Goto(a, "peer")
       \/ gws = {} /\ Goto(a, "dns") /\ UNCHANGED via
    /\ UNCHANGED <<kernel, dns, events, faults, registry, acVars, name, held,
                   new, cur>>

\* The host route to the peer: AddRoute replaces the one in the table.  The
\* endpoint may not resolve, or the route be refused: then nothing is done.
AddPeerRoute(a) ==
    LET h == HostOf[NameOf(a)] IN
    /\ pc[a] = "peer"
    /\ \/ /\ peerRoute' = [peerRoute EXCEPT ![h] = via[a]]
          /\ Goto(a, "record") /\ UNCHANGED via
       \/ /\ via' = [via EXCEPT ![a] = None]
          /\ Goto(a, "dns") /\ UNCHANGED peerRoute
    /\ UNCHANGED <<link, made, addr, routes, underlay, dns, events, faults,
                   registry, acVars, name, held, new, cur>>

\* The append to ac.vpnRoutes, after AddRoute has returned
RecordRoute(a) ==
    /\ pc[a] = "record"
    /\ vpnRoutes' = [vpnRoutes EXCEPT
                       ![a] = @ \cup {<<via[a], HostOf[NameOf(a)]>>}]
    /\ via' = [via EXCEPT ![a] = None]
    /\ Goto(a, "dns")
    /\ UNCHANGED <<kernel, dns, events, faults, registry, activeConns,
                   activated, gone, device, name, held, new, cur>>

\* DNS.Set, which records the entry whether or not the file can be written
SetDNS(a) ==
    /\ pc[a] = "dns"
    /\ dns' = [dns EXCEPT ![NameOf(a)] = a]
    /\ Goto(a, "ok")
    /\ UNCHANGED <<kernel, events, faults, registry, acVars, locals>>

\* runActivation: unless it was superseded the connection is activated, or
\* deactivated after an error.
Finish(a) ==
    /\ pc[a] \in {"ok", "failed"}
    /\ \/ a \in gone /\ Goto(a, "done") /\ UNCHANGED <<activated, cur>>
       \/ /\ a \notin gone /\ pc[a] = "ok"
          /\ activated' = activated \cup {a}
          /\ Goto(a, "done") /\ UNCHANGED cur
       \/ /\ a \notin gone /\ pc[a] = "failed"
          /\ cur' = [cur EXCEPT ![a] = a]
          /\ Goto(a, "mark") /\ UNCHANGED activated
    /\ UNCHANGED <<kernel, dns, events, faults, registry, activeConns, gone,
                   device, vpnRoutes, name, held, new, via>>

BringUpStep(a) ==
    \/ ConfigureAgain(a) \/ Address(a) \/ SetUp(a)
    \/ AddRoutes(a) \/ LookupGateway(a) \/ AddPeerRoute(a)
    \/ RecordRoute(a) \/ SetDNS(a) \/ Finish(a)

-----------------------------------------------------------------------------
\* What happens around the tunnels, at any time

\* The link is deleted by somebody else, or its driver goes.
LinkVanishes(n) ==
    /\ Fault
    /\ link[n] # 0
    /\ DeleteLink(n)
    /\ UNCHANGED <<made, peerRoute, underlay, dns, registry, acVars, pc,
                   locals>>

\* The default route moves to another connection, or there is none for a
\* while; the routes through the old one stay, or go with its address.
UnderlayMoves ==
    /\ Fault
    /\ underlay' \in [number : {underlay.number + 1}, up : BOOLEAN]
    /\ \/ UNCHANGED peerRoute
       \/ peerRoute' = [h \in Host |->
                          IF peerRoute[h] = <<"lan", underlay.number>>
                          THEN None ELSE peerRoute[h]]
    /\ UNCHANGED <<link, made, addr, routes, dns, events, registry, acVars,
                   pc, locals>>

-----------------------------------------------------------------------------
ClientStep(c) ==
    \/ Lookup(c) \/ ConfigureNew(c) \/ RegisterSeen(c) \/ Deadline(c)
    \/ Old(c) \/ Create(c) \/ DeactivateStep(c)

ACStep(a) == BringUpStep(a) \/ DeactivateStep(a)

Next ==
    \/ \E c \in Client, a \in AC, n \in Name : Activate(c, a, n)
    \/ \E c \in Client, a \in AC : Deactivate(c, a)
    \/ \E c \in Client : ClientStep(c)
    \/ \E a \in AC : ACStep(a)
    \/ OnLinkEvent
    \/ \E n \in Name : LinkVanishes(n)
    \/ UnderlayMoves

Spec == Init /\ [][Next]_vars

-----------------------------------------------------------------------------
\* Every variable holds a value of its kind.
TypeOK ==
    /\ link \in [Name -> 0 .. made] /\ made \in Nat
    /\ addr \subseteq 1 .. made
    /\ routes \subseteq (1 .. made) \X {"net", "halves"}
    /\ peerRoute \in [Host -> Via \cup {None}]
    /\ dns \in [Name -> AC \cup {None}]
    /\ events \in Seq(LinkEvents)
    /\ underlay \in [number : Nat, up : BOOLEAN]
    /\ faults \in 0 .. MaxFaults
    /\ devices \in Seq(DeviceTypes)
    /\ devByIface \in [Name -> 0 .. Len(devices)]
    /\ activeConns \subseteq AC /\ activated \subseteq AC /\ gone \subseteq AC
    /\ device \in [AC -> 0 .. Len(devices)]
    /\ vpnRoutes \in [AC -> SUBSET (Via \X Host)]
    /\ pc \in [Thread -> PC]
    /\ name \in [Client -> Name \cup {None}]
    /\ held \in [Client -> Nat]
    /\ new \in [Client -> AC \cup {None}]
    /\ cur \in [Thread -> AC \cup {None}]
    /\ via \in [AC -> Via \cup {None}]

\* Every route to a peer is one that some connection remembers having
\* installed, or is about to: ac.vpnRoutes is the only record of what is to be
\* removed, kept without a lock by bring-ups and teardowns, of tunnels that may
\* have a peer in common, while the underlay moves.
PeerRoutesRecorded ==
    \A h \in Host : peerRoute[h] # None =>
        \E a \in AC : \/ <<peerRoute[h], h>> \in vpnRoutes[a]
                     \/ /\ pc[a] = "record"
                        /\ <<via[a], HostOf[NameOf(a)]>> = <<peerRoute[h], h>>

\* A peer is never reached through a tunnel, which would send the tunnel's
\* packets into a tunnel again, with several full tunnels up as well.
PeersOutside ==
    \A h \in Host : peerRoute[h] # None => peerRoute[h][1] = "lan"

\* When a tunnel is at rest, every link of ours that exists has a Device on
\* the bus: no order of requests and link events hides one.
RestRegistered ==
    \A n \in Name : Calm(n) /\ link[n] # 0 => devByIface[n] # 0

\* When a tunnel is at rest, nothing of it diverts traffic that no listed
\* connection answers for: an address or a route has a connection on that very
\* link, the name servers are a listed connection's, a route to its peer is
\* recorded by one (and so goes with it).
RestResidue ==
    \A n \in Name : Calm(n) =>
        LET users == {a \in activeConns : NameOf(a) = n} IN
        /\ link[n] \in addr \cup {r[1] : r \in routes} =>
              \E a \in users : IndexOf(a) = link[n]
        /\ dns[n] \in users \cup {None}
        /\ HostOf[n] # None /\ peerRoute[HostOf[n]] # None =>
              \E a \in users : <<peerRoute[HostOf[n]], HostOf[n]>> \in vpnRoutes[a]

\* When a tunnel is at rest, a listed connection whose Device is there is a
\* tunnel that works: activated, on the link that has the name, with its
\* address, its routes and its name servers, and with the recorded route to
\* its peer in place unless the connection underneath has moved since.
RestTunnelUp ==
    \A n \in Name : Calm(n) =>
        \A a \in activeConns :
            device[a] = devByIface[n] =>
                /\ a \in activated
                /\ link[n] = IndexOf(a) /\ link[n] \in addr
                /\ \E r \in routes : r[1] = link[n]
                /\ dns[n] = a
                /\ \A r \in vpnRoutes[a] :
                      r[1] = <<"lan", underlay.number>> =>
                          peerRoute[r[2]] = r[1]
=============================================================================
