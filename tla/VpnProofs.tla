------------------------------ MODULE VpnProofs ------------------------------
(***************************************************************************)
(* Proofs about Vpn, for any number of clients, connections, tunnels and   *)
(* peers.                                                                  *)
(***************************************************************************)
EXTENDS Vpn, SequenceTheorems, TLAPS

\* The steps of a deactivation, and those of a request that activates before
Ending == {"mark"} \cup Teardown
Asking == Ensure \cup {"old", "create"}

\* A connection that was born has a Device.
Born ==
    /\ \A a \in AC : pc[a] # "unborn" => device[a] \in DOMAIN devices
    /\ \A a \in activeConns : pc[a] # "unborn"

\* A deactivation is of a connection that was born.
Current ==
    \A t \in Thread : pc[t] \in Ending =>
        cur[t] \in AC /\ pc[cur[t]] # "unborn"

\* A request has its own unborn connection to create, and once it has found a
\* Device that is one of its tunnel.
Requests ==
    \A c \in Client :
        /\ IF pc[c] = "idle" THEN new[c] = None ELSE name[c] \in Name
        /\ pc[c] \in Asking => new[c] # None
        /\ new[c] # None =>
              /\ pc[new[c]] = "unborn"
              /\ \A d \in Client : new[d] = new[c] => d = c
              /\ pc[c] \in {"old", "create"} \cup Ending =>
                    /\ held[c] \in DOMAIN devices
                    /\ devices[held[c]].name = name[c]

\* Devices are found under their names and know their connections.
Found ==
    /\ \A n \in Name : devByIface[n] # 0 => devices[devByIface[n]].name = n
    /\ \A k \in DOMAIN devices : devices[k].active # None =>
          /\ pc[devices[k].active] # "unborn"
          /\ device[devices[k].active] = k

\* A bring-up at the route to a peer has a peer, and a way to it.
Towards ==
    \A a \in AC :
        /\ pc[a] \in {"gateway", "peer", "record"} => HostOf[NameOf(a)] # None
        /\ pc[a] \in {"peer", "record"} => via[a] # None

Refs == Born /\ Current /\ Requests /\ Found /\ Towards

-----------------------------------------------------------------------------
LEMMA InitRefs == Init => TypeOK /\ Refs
<1> SUFFICES ASSUME Init PROVE TypeOK /\ Refs
  OBVIOUS
<1>1. /\ pc \in [Thread -> {"unborn", "idle"}]
      /\ \A c \in Client : pc[c] = "idle"
      /\ \A a \in AC : pc[a] = "unborn"
  BY VpnConstants DEF Init, Thread
<1>2. {"unborn", "idle"} \subseteq PC
  BY DEF PC
<1>3. devices = <<>> /\ <<>> \in Seq(DeviceTypes) /\ <<>> \in Seq(LinkEvents)
      /\ Len(devices) = 0 /\ DOMAIN devices = {}
  BY DEF Init
<1>4. TypeOK
  BY <1>1, <1>2, <1>3, VpnConstants DEF Init, TypeOK
<1>5. Refs
  BY <1>1, <1>3
  DEF Init, Refs, Born, Current, Requests, Found, Towards, Ending, Teardown,
      Asking, Ensure, Thread
<1> QED
  BY <1>4, <1>5

\* Devices are only ever added, and keep their name and index.
Kept ==
    /\ devices' \in Seq(DeviceTypes)
    /\ Len(devices) <= Len(devices')
    /\ DOMAIN devices \subseteq DOMAIN devices'
    /\ \A k \in DOMAIN devices : /\ devices'[k].name = devices[k].name
                                 /\ devices'[k].index = devices[k].index

LEMMA RegisterKept ==
    ASSUME TypeOK, NEW n \in Name, NEW i \in Nat, Register(n, i)
    PROVE  /\ Kept
           /\ devByIface' \in [Name -> 0 .. Len(devices')]
           /\ \A k \in DOMAIN devices : devices'[k] = devices[k]
           /\ \A k \in DOMAIN devices' \ DOMAIN devices : devices'[k].active = None
           /\ Found => \A m \in Name : devByIface'[m] # 0
                                   => devices'[devByIface'[m]].name = m
<1>0. /\ devices \in Seq(DeviceTypes) /\ devByIface \in [Name -> 0 .. Len(devices)]
      /\ DOMAIN devices = 1 .. Len(devices) /\ Len(devices) \in Nat
  BY DEF TypeOK
<1>1. CASE devByIface[n] # 0
  BY <1>0, <1>1 DEF Register, registry, Kept, Found
<1>2. CASE devByIface[n] = 0
  <2> DEFINE dev == [name |-> n, index |-> i, active |-> None]
  <2>1. dev \in DeviceTypes
    BY DEF DeviceTypes
  <2>2. devices' = Append(devices, dev)
        /\ devByIface' = [devByIface EXCEPT ![n] = Len(devices) + 1]
    BY <1>2 DEF Register
  <2>3. /\ devices' \in Seq(DeviceTypes) /\ Len(devices') = Len(devices) + 1
        /\ DOMAIN devices' = 1 .. Len(devices) + 1
        /\ \A k \in 1 .. Len(devices) : devices'[k] = devices[k]
        /\ devices'[Len(devices) + 1] = dev
    BY <1>0, <2>1, <2>2, AppendProperties
  <2> HIDE DEF dev
  <2>4. dev.name = n /\ dev.active = None
    BY DEF dev
  <2> QED
    BY <1>0, <2>2, <2>3, <2>4 DEF Kept, Found
<1> QED
  BY <1>1, <1>2

LEMMA SetActive ==
    ASSUME TypeOK, NEW k \in DOMAIN devices, NEW a \in AC \cup {None},
           devices' = [devices EXCEPT ![k].active = a]
    PROVE  /\ Kept /\ DOMAIN devices' = DOMAIN devices
           /\ Len(devices') = Len(devices)
           /\ \A j \in DOMAIN devices :
                 devices'[j].active = IF j = k THEN a ELSE devices[j].active
<1> DEFINE dev == [devices[k] EXCEPT !.active = a]
<1>0. devices \in Seq(DeviceTypes) /\ k \in 1 .. Len(devices)
  BY DEF TypeOK
<1>1. /\ dev \in DeviceTypes /\ dev.name = devices[k].name
      /\ dev.index = devices[k].index /\ dev.active = a
  <2>1. devices[k] \in DeviceTypes
    BY <1>0
  <2> QED
    BY <2>1 DEF DeviceTypes
<1>2. devices' = [devices EXCEPT ![k] = dev]
  OBVIOUS
<1> HIDE DEF dev
<1>3. /\ devices' \in Seq(DeviceTypes) /\ Len(devices') = Len(devices)
      /\ \A j \in 1 .. Len(devices) :
            devices'[j] = IF j = k THEN dev ELSE devices[j]
  BY <1>0, <1>1, <1>2, ExceptSeq
<1>4. DOMAIN devices = 1 .. Len(devices) /\ DOMAIN devices' = 1 .. Len(devices)
  BY <1>0, <1>3
<1> QED
  BY <1>1, <1>3, <1>4 DEF Kept

-----------------------------------------------------------------------------
\* Type correctness

\* The kernel's own operations
LEMMA KernelType ==
    ASSUME TypeOK, NEW n \in Name
    PROVE  /\ CreateLink(n) =>
                 /\ link' \in [Name -> 0 .. made'] /\ made' \in Nat
                 /\ made <= made' /\ events' \in Seq(LinkEvents)
           /\ DeleteLink(n) =>
                 /\ link' \in [Name -> 0 .. made] /\ events' \in Seq(LinkEvents)
                 /\ addr' \subseteq addr /\ routes' \subseteq routes
<1> USE DEF TypeOK
<1>1. ASSUME NEW i \in Nat, NEW b \in BOOLEAN
      PROVE  Append(events, [name |-> n, index |-> i, present |-> b])
                \in Seq(LinkEvents)
  BY DEF LinkEvents
<1>2. ASSUME CreateLink(n)
      PROVE  /\ link' \in [Name -> 0 .. made'] /\ made' \in Nat
             /\ made <= made' /\ events' \in Seq(LinkEvents)
  <2>1. CASE link[n] # 0
    BY <1>2, <2>1 DEF CreateLink
  <2>2. CASE link[n] = 0
    <3>1. made' = made + 1 /\ link' = [link EXCEPT ![n] = made + 1]
      BY <1>2, <2>2 DEF CreateLink
    <3>2. made + 1 \in Nat /\ link' \in [Name -> 0 .. made + 1]
      BY <3>1
    <3>3. events' \in Seq(LinkEvents)
      BY <1>1, <1>2, <2>2, <3>2 DEF CreateLink, Notify
    <3> QED
      BY <3>1, <3>2, <3>3
  <2> QED
    BY <2>1, <2>2
<1>3. ASSUME DeleteLink(n)
      PROVE  /\ link' \in [Name -> 0 .. made] /\ events' \in Seq(LinkEvents)
             /\ addr' \subseteq addr /\ routes' \subseteq routes
  <2>0. link[n] \in Nat
    OBVIOUS
  <2>1. events' \in Seq(LinkEvents)
    BY <1>1, <1>3, <2>0 DEF DeleteLink, Notify
  <2>2. link' \in [Name -> 0 .. made]
    BY <1>3 DEF DeleteLink
  <2> QED
    BY <1>3, <2>1, <2>2 DEF DeleteLink, Flush
<1> QED
  BY <1>2, <1>3

LEMMA GotoType ==
    ASSUME TypeOK, NEW t \in Thread,
           \E p \in PC : Goto(t, p)
    PROVE  pc' \in [Thread -> PC]
  BY DEF Goto, TypeOK

\* Every step keeps the variables well typed.
LEMMA TypeStep == TypeOK /\ Refs /\ [Next]_vars => TypeOK'
<1> SUFFICES ASSUME TypeOK, Refs, [Next]_vars PROVE TypeOK'
  OBVIOUS
<1>0. /\ Client \subseteq Thread /\ AC \subseteq Thread
      /\ \A d : d \in DOMAIN devices <=> d \in 1 .. Len(devices)
      /\ Len(devices) \in Nat
      /\ \A k \in DOMAIN devices : devices[k] \in DeviceTypes
  BY DEF TypeOK, Thread
<1>p. /\ {"lookup", "configure", "wait", "seen"} \subseteq PC
      /\ {"bringUp", "address", "setUp", "routes", "gateway", "peer",
          "record", "dns", "ok", "failed"} \subseteq PC
      /\ {"delRoutes", "forget", "remove", "flush", "drop"} \subseteq PC
      /\ {"idle", "unborn", "done", "old", "mark", "create"} \subseteq PC
  BY DEF PC, Ensure, BringUp, Teardown
<1> USE VpnConstants DEF kernel, registry, acVars, locals
<1>1. ASSUME NEW c \in Client, NEW a \in AC, NEW n \in Name, Activate(c, a, n)
      PROVE  TypeOK'
  BY <1>0, <1>1, <1>p, SMTT(30) DEF Activate, Begin, Goto, TypeOK
<1>2. ASSUME NEW c \in Client, NEW a \in AC, Deactivate(c, a) PROVE TypeOK'
  <2>1. NameOf(a) \in Name
    BY <1>0, <1>2 DEF Deactivate, NameOf, TypeOK, Refs, Born, DeviceTypes
  <2> QED
    BY <1>0, <1>2, <1>p, <2>1 DEF Deactivate, Begin, Goto, TypeOK
<1>3. ASSUME NEW c \in Client, Lookup(c) \/ Old(c) PROVE TypeOK'
  <2>1. CASE Lookup(c)
    <3>1. name[c] \in Name
      BY <2>1 DEF Lookup, Refs, Requests
    <3>2. pc' \in [Thread -> PC]
      BY <1>0, <1>p, <2>1, GotoType DEF Lookup
    <3>3. held' \in [Client -> Nat]
      BY <2>1, <3>1 DEF Lookup, TypeOK
    <3> QED
      BY <2>1, <3>2, <3>3 DEF Lookup, TypeOK
  <2>2. CASE Old(c)
    <3>1. pc' \in [Thread -> PC]
      BY <1>0, <1>p, <2>2, GotoType DEF Old
    <3>2. cur' \in [Thread -> AC \cup {None}]
      BY <1>0, <2>2 DEF Old, TypeOK
    <3> QED
      BY <2>2, <3>1, <3>2 DEF Old, TypeOK
  <2> QED
    BY <1>3, <2>1, <2>2
<1>4. ASSUME NEW c \in Client, ConfigureNew(c) PROVE TypeOK'
  <2>1. name[c] \in Name
    BY <1>4 DEF ConfigureNew, Refs, Requests
  <2>2. /\ link' \in [Name -> 0 .. made'] /\ made' \in Nat
        /\ made <= made' /\ events' \in Seq(LinkEvents)
    BY <1>4, <2>1, KernelType DEF ConfigureNew
  <2>3. addr \subseteq 1 .. made' /\ routes \subseteq (1 .. made') \X {"net", "halves"}
    BY <2>2 DEF TypeOK
  <2>4. /\ name' \in [Client -> Name \cup {None}] /\ held' \in [Client -> Nat]
        /\ new' \in [Client -> AC \cup {None}]
    <3>1. CASE UNCHANGED <<name, held, new>>
      BY <3>1 DEF TypeOK
    <3>2. CASE Fail(c)
      BY <3>2 DEF Fail, TypeOK
    <3> QED
      BY <1>4, <3>1, <3>2 DEF ConfigureNew
  <2>5. pc' \in [Thread -> PC]
    BY <1>0, <1>4, <1>p, GotoType DEF ConfigureNew, Fail
  <2> QED
    BY <1>4, <2>2, <2>3, <2>4, <2>5 DEF ConfigureNew, TypeOK
<1>5. ASSUME NEW c \in Client, RegisterSeen(c) PROVE TypeOK'
  <2>1. name[c] \in Name /\ held[c] \in Nat
    BY <1>5 DEF RegisterSeen, Refs, Requests, TypeOK
  <2>2. Kept /\ devByIface' \in [Name -> 0 .. Len(devices')]
    BY <1>5, <2>1, RegisterKept DEF RegisterSeen
  <2>3. device' \in [AC -> 0 .. Len(devices')]
    BY <1>0, <1>5, <2>2 DEF RegisterSeen, Kept, TypeOK
  <2> QED
    BY <1>0, <1>5, <1>p, <2>2, <2>3 DEF RegisterSeen, Kept, Goto, TypeOK
<1>6. ASSUME NEW c \in Client, Deadline(c) PROVE TypeOK'
  BY <1>0, <1>6, <1>p DEF Deadline, Fail, Goto, TypeOK
<1>7. ASSUME NEW c \in Client, Create(c) PROVE TypeOK'
  <2>1. new[c] \in AC /\ held[c] \in DOMAIN devices
    BY <1>7 DEF Create, Refs, Requests, Asking, TypeOK
  <2>2. Kept /\ Len(devices') = Len(devices)
    BY <1>7, <2>1, SetActive DEF Create
  <2>3. pc' \in [Thread -> PC]
    BY <1>0, <1>7, <1>p DEF Create, TypeOK
  <2>4. /\ device' \in [AC -> 0 .. Len(devices)]
        /\ name' \in [Client -> Name \cup {None}] /\ held' \in [Client -> Nat]
        /\ new' \in [Client -> AC \cup {None}] /\ activeConns' \subseteq AC
    BY <1>0, <1>7, <2>1 DEF Create, TypeOK
  <2> QED
    BY <1>7, <2>2, <2>3, <2>4 DEF Create, Kept, TypeOK
<1>8. ASSUME NEW t \in Thread, DeactivateStep(t) PROVE TypeOK'
  <2>0. cur[t] \in AC /\ device[cur[t]] \in DOMAIN devices
    BY <1>8 DEF DeactivateStep, Mark, TearDownWireGuard, Remove, FlushAndRevert,
       Drop, Refs, Current, Born, Ending, Teardown
  <2>1. NameOf(cur[t]) \in Name /\ IndexOf(cur[t]) \in Nat
    BY <1>0, <2>0 DEF NameOf, IndexOf, DeviceTypes
  <2>2. ASSUME Deactivated(t)
        PROVE  /\ pc' \in [Thread -> PC] /\ cur' \in [Thread -> AC \cup {None}]
               /\ name' \in [Client -> Name \cup {None}]
               /\ UNCHANGED <<held, new, via>>
    <3>1. pc' \in [Thread -> PC]
      BY <1>p, <2>2, GotoType DEF Deactivated
    <3> QED
      BY <2>2, <3>1 DEF Deactivated, TypeOK
  <2>3. CASE Mark(t)
    <3>1. CASE cur[t] \in gone
      BY <2>2, <2>3, <3>1 DEF Mark, TypeOK
    <3>2. CASE cur[t] \notin gone
      <4>1. pc' \in [Thread -> PC]
        BY <1>p, <2>3, <3>2, GotoType DEF Mark
      <4> QED
        BY <2>0, <2>3, <3>2, <4>1 DEF Mark, TypeOK
    <3> QED
      BY <3>1, <3>2
  <2>4. CASE TearDownWireGuard(t)
    <3>1. peerRoute' \in [Host -> Via \cup {None}]
      BY <2>4 DEF TearDownWireGuard, DelRoutes, TypeOK
    <3>2. pc' \in [Thread -> PC]
      BY <1>p, <2>4, GotoType DEF TearDownWireGuard
    <3>3. vpnRoutes' \in [AC -> SUBSET (Via \X Host)]
      BY <2>4 DEF TearDownWireGuard, TypeOK
    <3>4. /\ UNCHANGED <<link, made, addr, routes, underlay, dns, events, faults,
                        devices, devByIface>>
          /\ UNCHANGED <<activeConns, activated, gone, device, locals>>
      BY <2>4 DEF TearDownWireGuard
    <3> QED
      BY <3>1, <3>2, <3>3, <3>4 DEF TypeOK
  <2>5. CASE Remove(t)
    <3>1. CASE link[NameOf(cur[t])] # 0
      BY <1>p, <2>1, <2>5, <3>1, KernelType DEF Remove, Goto, TypeOK
    <3>2. CASE link[NameOf(cur[t])] = 0
      BY <1>p, <2>5, <3>2 DEF Remove, Goto, TypeOK
    <3> QED
      BY <3>1, <3>2
  <2>6. CASE FlushAndRevert(t)
    BY <1>p, <2>1, <2>6
    DEF FlushAndRevert, Flush, RevertDNS, Goto, TypeOK
  <2>7. CASE Drop(t)
    <3>1. Kept /\ Len(devices') = Len(devices)
      BY <2>0, <2>7, SetActive DEF Drop
    <3> QED
      BY <2>2, <2>7, <3>1 DEF Drop, Kept, TypeOK
  <2> QED
    BY <1>8, <2>3, <2>4, <2>5, <2>6, <2>7 DEF DeactivateStep
<1>9. ASSUME NEW a \in AC, BringUpStep(a) PROVE TypeOK'
  <2>0. device[a] \in DOMAIN devices
    BY <1>9 DEF BringUpStep, ConfigureAgain, Address, SetUp, AddRoutes,
       LookupGateway, AddPeerRoute, RecordRoute, SetDNS, Finish, Refs, Born
  <2>1. NameOf(a) \in Name /\ IndexOf(a) \in Nat
    BY <1>0, <2>0 DEF NameOf, IndexOf, DeviceTypes
  <2>2. Exists(IndexOf(a)) => IndexOf(a) \in 1 .. made
    BY DEF Exists, TypeOK
  <2>3. CASE ConfigureAgain(a)
    <3>1. /\ link' \in [Name -> 0 .. made'] /\ made' \in Nat
          /\ made <= made' /\ events' \in Seq(LinkEvents)
      BY <2>1, <2>3, KernelType DEF ConfigureAgain
    <3>2. addr \subseteq 1 .. made' /\ routes \subseteq (1 .. made') \X {"net", "halves"}
      BY <3>1 DEF TypeOK
    <3>3. pc' \in [Thread -> PC]
      BY <1>0, <1>p, <2>3, GotoType DEF ConfigureAgain
    <3> QED
      BY <2>3, <3>1, <3>2, <3>3 DEF ConfigureAgain, TypeOK
  <2>4. CASE Address(a)
    <3>1. pc' \in [Thread -> PC]
      BY <1>0, <1>p, <2>4, GotoType DEF Address
    <3>2. addr' \subseteq 1 .. made
      BY <2>2, <2>4, ZenonT(40) DEF Address, TypeOK
    <3>3. routes' \subseteq (1 .. made) \X {"net", "halves"}
      BY <2>4, SMTT(30) DEF Address, TypeOK
    <3> QED
      BY <2>4, <3>1, <3>2, <3>3 DEF Address, TypeOK
  <2>5. CASE SetUp(a)
    BY <1>0, <1>p, <2>5 DEF SetUp, Goto, TypeOK
  <2>6. CASE AddRoutes(a)
    <3>1. pc' \in [Thread -> PC]
      BY <1>0, <1>p, <2>6, GotoType DEF AddRoutes
    <3>2. routes' \subseteq (1 .. made) \X {"net", "halves"}
      BY <2>2, <2>6 DEF AddRoutes, Halves, TypeOK
    <3>3. /\ UNCHANGED <<link, made, addr, peerRoute, underlay, dns, events,
                        faults, devices, devByIface>>
          /\ UNCHANGED <<activeConns, activated, gone, device, vpnRoutes,
                        locals>>
      BY <2>6 DEF AddRoutes
    <3> QED
      BY <3>1, <3>2, <3>3 DEF TypeOK
  <2>7. CASE LookupGateway(a)
    <3>0. \A r \in routes : r[2] # "default"
      BY DEF TypeOK
    <3>1. DefaultGateways(IndexOf(a)) \subseteq {<<"lan", underlay.number>>}
      BY <3>0 DEF DefaultGateways
    <3>2. underlay.number \in Nat
      BY DEF TypeOK
    <3>3. DefaultGateways(IndexOf(a)) \subseteq Via
      BY <3>1, <3>2 DEF Via
    <3> QED
      <4>1. pc' \in [Thread -> PC]
        BY <1>0, <1>p, <2>7, GotoType DEF LookupGateway
      <4>2. via' \in [AC -> Via \cup {None}]
        BY <2>7, <3>3, ZenonT(40) DEF LookupGateway, TypeOK
      <4> QED
        BY <2>7, <4>1, <4>2 DEF LookupGateway, TypeOK
  <2>8. CASE AddPeerRoute(a)
    <3>1. pc' \in [Thread -> PC]
      BY <1>0, <1>p, <2>8, GotoType DEF AddPeerRoute
    <3>2. peerRoute' \in [Host -> Via \cup {None}] /\ via' \in [AC -> Via \cup {None}]
      BY <2>8 DEF AddPeerRoute, TypeOK
    <3>3. /\ UNCHANGED <<link, made, addr, routes, underlay, dns, events, faults,
                        devices, devByIface>>
          /\ UNCHANGED <<activeConns, activated, gone, device, vpnRoutes, name,
                        held, new, cur>>
      BY <2>8 DEF AddPeerRoute
    <3> QED
      BY <3>1, <3>2, <3>3 DEF TypeOK
  <2>9. CASE RecordRoute(a)
    <3>1. HostOf[NameOf(a)] \in Host /\ via[a] \in Via
      BY <2>1, <2>9 DEF RecordRoute, Refs, Towards, TypeOK
    <3> QED
      BY <1>0, <1>p, <2>9, <3>1 DEF RecordRoute, Goto, TypeOK
  <2>10. CASE SetDNS(a)
    BY <1>0, <1>p, <2>1, <2>10 DEF SetDNS, Goto, TypeOK
  <2>11. CASE Finish(a)
    <3>1. pc' \in [Thread -> PC]
      BY <1>0, <1>p, <2>11, GotoType DEF Finish
    <3>2. activated' \subseteq AC
      <4>1. activated' = activated \/ activated' = activated \cup {a}
        BY <2>11 DEF Finish
      <4> QED
        BY <4>1 DEF TypeOK
    <3>3. cur' = cur \/ cur' = [cur EXCEPT ![a] = a]
      BY <2>11 DEF Finish
    <3>4. cur' \in [Thread -> AC \cup {None}]
      <4>1. cur \in [Thread -> AC \cup {None}]
        BY DEF TypeOK
      <4>2. CASE cur' = cur
        BY <4>1, <4>2
      <4>3. CASE cur' = [cur EXCEPT ![a] = a]
        BY <4>1, <4>3
      <4> QED
        BY <3>3, <4>2, <4>3
    <3>5. /\ UNCHANGED <<link, made, addr, routes, peerRoute, underlay, dns,
                        events, faults, devices, devByIface>>
          /\ UNCHANGED <<activeConns, gone, device, vpnRoutes, name, held, new,
                        via>>
      BY <2>11 DEF Finish
    <3> QED
      BY <3>1, <3>2, <3>4, <3>5 DEF TypeOK
  <2> QED
    BY <1>9, <2>3, <2>4, <2>5, <2>6, <2>7, <2>8, <2>9, <2>10, <2>11
    DEF BringUpStep
<1>10. CASE OnLinkEvent
  <2> DEFINE e == Head(events)
  <2>1. e \in LinkEvents /\ events' \in Seq(LinkEvents)
    BY <1>10 DEF OnLinkEvent, TypeOK
  <2>2. e.name \in Name /\ e.index \in Nat
    BY <2>1 DEF LinkEvents
  <2>3. Kept /\ devByIface' \in [Name -> 0 .. Len(devices')]
    <3>1. CASE e.present
      BY <1>10, <2>2, <3>1, RegisterKept DEF OnLinkEvent
    <3>2. CASE ~e.present
      BY <1>0, <1>10, <2>2, <3>2 DEF OnLinkEvent, Unregister, Kept, TypeOK
    <3> QED
      BY <3>1, <3>2
  <2>4. device' \in [AC -> 0 .. Len(devices')]
    BY <1>0, <1>10, <2>3 DEF OnLinkEvent, Kept, TypeOK
  <2> QED
    BY <1>10, <2>1, <2>3, <2>4 DEF OnLinkEvent, Kept, TypeOK
<1>11. ASSUME NEW n \in Name, LinkVanishes(n) PROVE TypeOK'
  <2>1. /\ link' \in [Name -> 0 .. made] /\ events' \in Seq(LinkEvents)
        /\ addr' \subseteq addr /\ routes' \subseteq routes
    BY <1>11, KernelType DEF LinkVanishes
  <2>2. faults' \in 0 .. MaxFaults
    BY <1>11 DEF LinkVanishes, Fault, TypeOK
  <2> QED
    BY <1>11, <2>1, <2>2 DEF LinkVanishes, TypeOK
<1>12. CASE UnderlayMoves
  <2>1. peerRoute' \in [Host -> Via \cup {None}]
    BY <1>12 DEF UnderlayMoves, TypeOK
  <2>2. underlay' \in [number : Nat, up : BOOLEAN]
    BY <1>12 DEF UnderlayMoves, TypeOK
  <2> QED
    BY <1>12, <2>1, <2>2 DEF UnderlayMoves, Fault, TypeOK
<1>13. CASE UNCHANGED vars
  BY <1>13 DEF vars, TypeOK
<1> QED
  BY <1>1, <1>2, <1>3, <1>4, <1>5, <1>6, <1>7, <1>8, <1>9, <1>10, <1>11,
     <1>12, <1>13, <1>0
  DEF Next, ClientStep, ACStep

-----------------------------------------------------------------------------
\* The references

\* Whatever Devices come, go or lose their connection
Registered ==
    /\ Kept
    /\ \A k \in DOMAIN devices' :
          devices'[k].active # None =>
             k \in DOMAIN devices /\ devices'[k].active = devices[k].active
    /\ \A n \in Name : devByIface'[n] # 0 => devices'[devByIface'[n]].name = n

\* A goroutine moves on by itself, to p.
Move(t, p) ==
    /\ pc[t] # "unborn" /\ pc' = [pc EXCEPT ![t] = p]
    /\ Registered /\ activeConns' \subseteq activeConns /\ UNCHANGED device
    /\ \A u \in Thread \ {t} : cur'[u] = cur[u]
    /\ \A a \in AC \ {t} : via'[a] = via[a]
    /\ \A d \in Client \ {t} :
          name'[d] = name[d] /\ held'[d] = held[d] /\ new'[d] = new[d]
    /\ p \in Ending => cur'[t] \in AC /\ pc[cur'[t]] # "unborn"
    /\ t \in Client =>
          /\ new'[t] \in {new[t], None}
          /\ IF p = "idle" THEN new'[t] = None ELSE name'[t] \in Name
          /\ p \in Asking => new'[t] # None
          /\ new'[t] # None /\ p \in {"old", "create"} \cup Ending =>
                /\ held'[t] \in DOMAIN devices
                /\ devices[held'[t]].name = name'[t]
    /\ t \in AC =>
          /\ p \in {"gateway", "peer", "record"} => HostOf[NameOf(t)] # None
          /\ p \in {"peer", "record"} => via'[t] # None

LEMMA RefsMove ==
    ASSUME TypeOK, Refs, NEW t \in Thread, NEW p \in PC \ {"unborn"}, Move(t, p)
    PROVE  Refs'
<1>0. /\ pc \in [Thread -> PC] /\ AC \subseteq Thread /\ Client \subseteq Thread
      /\ new \in [Client -> AC \cup {None}]
      /\ \A k \in DOMAIN devices : devices[k].active \in AC \cup {None}
  <2>1. \A k \in DOMAIN devices : devices[k] \in DeviceTypes
    BY DEF TypeOK
  <2> QED
    BY <2>1 DEF TypeOK, Thread, DeviceTypes
<1>1. pc'[t] = p /\ \A u \in Thread : u # t => pc'[u] = pc[u]
  BY <1>0 DEF Move
<1>2. Born'
  BY <1>0, <1>1 DEF Refs, Born, Move, Registered, Kept, TypeOK
<1>3. Current'
  <2> SUFFICES ASSUME NEW u \in Thread, pc'[u] \in Ending
               PROVE  cur'[u] \in AC /\ pc'[cur'[u]] # "unborn"
    BY DEF Current
  <2>1. cur'[u] \in AC /\ pc[cur'[u]] # "unborn"
    BY <1>1 DEF Refs, Current, Move
  <2> QED
    BY <1>0, <1>1, <2>1
<1>4. Requests'
  <2> SUFFICES ASSUME NEW c \in Client
               PROVE
        /\ IF pc'[c] = "idle" THEN new'[c] = None ELSE name'[c] \in Name
        /\ pc'[c] \in Asking => new'[c] # None
        /\ new'[c] # None =>
              /\ pc'[new'[c]] = "unborn"
              /\ \A d \in Client : new'[d] = new'[c] => d = c
              /\ pc'[c] \in {"old", "create"} \cup Ending =>
                    /\ held'[c] \in DOMAIN devices'
                    /\ devices'[held'[c]].name = name'[c]
    BY DEF Requests
  <2>1. \A d \in Client : new'[d] \in {new[d], None}
    BY DEF Move
  <2>2. new'[c] # None => /\ pc'[new'[c]] = "unborn"
                          /\ \A d \in Client : new'[d] = new'[c] => d = c
    BY <1>0, <1>1, <2>1 DEF Refs, Requests, Move
  <2>3. /\ IF pc'[c] = "idle" THEN new'[c] = None ELSE name'[c] \in Name
        /\ pc'[c] \in Asking => new'[c] # None
    BY <1>0, <1>1 DEF Refs, Requests, Move
  <2>4. ASSUME new'[c] # None, pc'[c] \in {"old", "create"} \cup Ending
        PROVE  held'[c] \in DOMAIN devices /\ devices[held'[c]].name = name'[c]
    BY <1>0, <1>1, <2>4 DEF Refs, Requests, Move
  <2> QED
    BY <2>2, <2>3, <2>4 DEF Move, Registered, Kept
<1>5. Found'
  BY <1>0, <1>1 DEF Refs, Found, Move, Registered
<1>6. Towards'
  <2> SUFFICES ASSUME NEW a \in AC
               PROVE
        /\ pc'[a] \in {"gateway", "peer", "record"} => HostOf[NameOf(a)'] # None
        /\ pc'[a] \in {"peer", "record"} => via'[a] # None
    BY DEF Towards
  <2>1. pc'[a] # "unborn" => NameOf(a)' = NameOf(a)
    BY <1>1 DEF Refs, Born, NameOf, Move, Registered, Kept
  <2> QED
    BY <1>1, <2>1 DEF Refs, Towards, Move
<1> QED
  BY <1>2, <1>3, <1>4, <1>5, <1>6 DEF Refs

\* Nobody moves.
LEMMA RefsKept ==
    ASSUME TypeOK, Refs, Registered,
           UNCHANGED <<activeConns, device, name, held, new, cur, via, pc>>
    PROVE  Refs'
<1>1. Born' /\ Current'
  BY DEF Refs, Born, Current, Registered, Kept
<1>2. Requests'
  BY DEF Refs, Requests, Registered, Kept
<1>3. Found'
  BY DEF Refs, Found, Registered, Kept
<1>4. Towards'
  BY DEF Refs, Towards, Born, NameOf, Registered, Kept
<1> QED
  BY <1>1, <1>2, <1>3, <1>4 DEF Refs

LEMMA SameDevices ==
    ASSUME TypeOK, Refs, UNCHANGED <<devices, devByIface>>
    PROVE  Registered
  BY DEF TypeOK, Refs, Found, Registered, Kept

\* Manager.deactivate is over for t.
LEMMA DeactivatedMove ==
    ASSUME TypeOK, Refs, NEW t \in Thread, pc[t] \in Ending, Deactivated(t),
           Registered, activeConns' \subseteq activeConns, UNCHANGED device
    PROVE  Refs'
<1>0. /\ pc[t] # "unborn" /\ pc[t] # "idle" /\ "done" \notin Ending \cup Asking
      /\ "idle" \notin Ending \cup Asking /\ "create" \notin Ending
      /\ {"done", "idle", "create"} \subseteq PC \ {"unborn"}
  BY DEF Ending, Asking, Ensure, Teardown, PC
<1>1. CASE t \in AC /\ Goto(t, "done") /\ UNCHANGED name
  <2>1. Move(t, "done")
    BY <1>0, <1>1, VpnConstants DEF Deactivated, Goto, Move, TypeOK, locals
  <2> QED
    BY <1>0, <2>1, RefsMove
<1>2. CASE /\ t \in Client /\ new[t] = None
           /\ Goto(t, "idle") /\ name' = [name EXCEPT ![t] = None]
  <2>1. Move(t, "idle")
    BY <1>0, <1>2, VpnConstants DEF Deactivated, Goto, Move, TypeOK, locals
  <2> QED
    BY <1>0, <2>1, RefsMove
<1>3. CASE t \in Client /\ new[t] # None /\ Goto(t, "create") /\ UNCHANGED name
  <2>1. /\ name[t] \in Name /\ held[t] \in DOMAIN devices
        /\ devices[held[t]].name = name[t]
    BY <1>0, <1>3 DEF Refs, Requests
  <2>2. Move(t, "create")
    BY <1>0, <1>3, <2>1, VpnConstants DEF Deactivated, Goto, Move, TypeOK, locals
  <2> QED
    BY <1>0, <2>2, RefsMove
<1> QED
  BY <1>1, <1>2, <1>3 DEF Deactivated

\* Every step keeps the references.
LEMMA RefsStep == TypeOK /\ Refs /\ [Next]_vars => Refs'
<1> SUFFICES ASSUME TypeOK, Refs, [Next]_vars PROVE Refs'
  OBVIOUS
<1>0. /\ Client \subseteq Thread /\ AC \subseteq Thread
      /\ Client \cap AC = {}
      /\ None \notin AC /\ pc \in [Thread -> PC]
      /\ name \in [Client -> Name \cup {None}] /\ held \in [Client -> Nat]
      /\ new \in [Client -> AC \cup {None}] /\ cur \in [Thread -> AC \cup {None}]
      /\ via \in [AC -> Via \cup {None}]
      /\ device \in [AC -> 0 .. Len(devices)]
      /\ devByIface \in [Name -> 0 .. Len(devices)]
      /\ DOMAIN devices = 1 .. Len(devices) /\ Len(devices) \in Nat
  BY VpnConstants DEF TypeOK, Thread
<1>d. \A k \in DOMAIN devices : devices[k] \in DeviceTypes
  BY DEF TypeOK
<1>p. /\ Ending \cup Asking \cup BringUp \cup {"idle", "done"}
            \subseteq PC \ {"unborn"}
      /\ Ending \cap Asking = {} /\ (Ending \cup Asking) \cap BringUp = {}
      /\ {"idle", "done", "unborn"} \cap (Ending \cup Asking \cup BringUp) = {}
      /\ Asking = {"lookup", "configure", "wait", "seen", "old", "create"}
      /\ Ending = {"mark", "delRoutes", "forget", "remove", "flush", "drop"}
      /\ BringUp = {"bringUp", "address", "setUp", "routes", "gateway", "peer",
                    "record", "dns", "ok", "failed"}
  BY DEF Ending, Asking, Ensure, BringUp, Teardown, PC
<1> USE DEF kernel, registry, acVars, locals
<1>1. ASSUME NEW c \in Client, NEW a \in AC, NEW n \in Name, Activate(c, a, n)
      PROVE  Refs'
  <2> DEFINE p == IF devByIface[n] # 0 THEN "old" ELSE "lookup"
  <2>1. /\ pc[c] = "idle" /\ pc[a] = "unborn" /\ \A b \in Client : new[b] # a
        /\ new' = [new EXCEPT ![c] = a] /\ name' = [name EXCEPT ![c] = n]
        /\ held' = [held EXCEPT ![c] = devByIface[n]]
        /\ pc' = [pc EXCEPT ![c] = p] /\ p \in {"old", "lookup"}
        /\ p = "old" => devByIface[n] # 0
        /\ UNCHANGED <<devices, devByIface, activeConns, device, cur, via>>
    BY <1>1 DEF Activate, Begin, Goto
  <2> HIDE DEF p
  <2>2. /\ pc'[c] = p /\ \A u \in Thread : u # c => pc'[u] = pc[u]
        /\ new'[c] = a /\ name'[c] = n /\ held'[c] = devByIface[n]
        /\ \A d \in Client : d # c => /\ new'[d] = new[d]
                                      /\ name'[d] = name[d] /\ held'[d] = held[d]
    BY <1>0, <2>1
  <2>3. Born' /\ Current'
    BY <1>0, <1>p, <2>1, <2>2 DEF Refs, Born, Current
  <2>4. Requests'
    <3> SUFFICES ASSUME NEW d \in Client
                 PROVE
        /\ IF pc'[d] = "idle" THEN new'[d] = None ELSE name'[d] \in Name
        /\ pc'[d] \in Asking => new'[d] # None
        /\ new'[d] # None =>
              /\ pc'[new'[d]] = "unborn"
              /\ \A b \in Client : new'[b] = new'[d] => b = d
              /\ pc'[d] \in {"old", "create"} \cup Ending =>
                    /\ held'[d] \in DOMAIN devices'
                    /\ devices'[held'[d]].name = name'[d]
      BY DEF Requests
    <3>1. CASE d = c
      <4>1. devByIface[n] # 0 => /\ devByIface[n] \in DOMAIN devices
                                 /\ devices[devByIface[n]].name = n
        BY <1>0 DEF Refs, Found
      <4> QED
        BY <1>0, <1>p, <2>1, <2>2, <3>1, <4>1
    <3>2. CASE d # c
      BY <1>0, <2>1, <2>2, <3>2 DEF Refs, Requests
    <3> QED
      BY <3>1, <3>2
  <2>5. Found' /\ Towards'
    BY <1>0, <1>p, <2>1, <2>2 DEF Refs, Found, Towards, NameOf, DeviceTypes
  <2> QED
    BY <2>3, <2>4, <2>5 DEF Refs
<1>2. ASSUME NEW c \in Client, NEW a \in AC, Deactivate(c, a) PROVE Refs'
  <2>1. NameOf(a) \in Name /\ pc[a] # "unborn"
    BY <1>0, <1>2, <1>d DEF Deactivate, NameOf, Refs, Born, DeviceTypes
  <2>2. new[c] = None
    BY <1>2 DEF Deactivate, Begin, Refs, Requests
  <2>3. Registered
    BY <1>2, SameDevices DEF Deactivate, Begin
  <2>4. Move(c, "mark")
    BY <1>0, <1>2, <1>p, <2>1, <2>2, <2>3 DEF Deactivate, Begin, Goto, Move
  <2> QED
    BY <1>0, <1>p, <2>4, RefsMove
<1>3. ASSUME NEW c \in Client, Lookup(c) PROVE Refs'
  <2>1. name[c] \in Name /\ new[c] # None
    BY <1>3, <1>p DEF Lookup, Refs, Requests
  <2>2. Registered
    BY <1>3, SameDevices DEF Lookup
  <2>3. devByIface[name[c]] # 0 => /\ devByIface[name[c]] \in DOMAIN devices
                                   /\ devices[devByIface[name[c]]].name = name[c]
    BY <1>0, <2>1 DEF Refs, Found
  <2>4. Move(c, "old") \/ Move(c, "configure") \/ Move(c, "seen")
    <3>0. /\ pc[c] \in {"lookup", "wait"}
          /\ UNCHANGED <<activeConns, device, cur, via, name, new>>
          /\ \/ /\ devByIface[name[c]] # 0
                /\ held' = [held EXCEPT ![c] = devByIface[name[c]]]
                /\ pc' = [pc EXCEPT ![c] = "old"]
             \/ pc' = [pc EXCEPT ![c] = "configure"] /\ UNCHANGED held
             \/ /\ held' = [held EXCEPT ![c] = link[name[c]]]
                /\ pc' = [pc EXCEPT ![c] = "seen"]
      BY <1>3 DEF Lookup, Goto
    <3> QED
      BY <1>0, <1>p, <2>1, <2>2, <2>3, <3>0 DEF Move
  <2> QED
    BY <1>0, <1>p, <2>4, RefsMove
<1>4. ASSUME NEW c \in Client, Old(c) PROVE Refs'
  <2>1. /\ name[c] \in Name /\ new[c] # None /\ held[c] \in DOMAIN devices
        /\ devices[held[c]].name = name[c]
    BY <1>4, <1>p DEF Old, Refs, Requests
  <2>2. Registered
    BY <1>4, SameDevices DEF Old
  <2>3. CASE devices[held[c]].active \in activeConns
    <3>1. devices[held[c]].active \in AC /\ pc[devices[held[c]].active] # "unborn"
      BY <2>3 DEF Refs, Born, TypeOK
    <3>2. Move(c, "mark")
      BY <1>0, <1>4, <1>p, <2>1, <2>2, <2>3, <3>1 DEF Old, Goto, Move
    <3> QED
      BY <1>0, <1>p, <3>2, RefsMove
  <2>4. CASE devices[held[c]].active \notin activeConns
    <3>1. Move(c, "create")
      BY <1>0, <1>4, <1>p, <2>1, <2>2, <2>4 DEF Old, Goto, Move
    <3> QED
      BY <1>0, <1>p, <3>1, RefsMove
  <2> QED
    BY <2>3, <2>4
<1>5. ASSUME NEW c \in Client, ConfigureNew(c) \/ Deadline(c) PROVE Refs'
  <2>1. /\ pc[c] \in {"configure", "wait"}
        /\ UNCHANGED <<devices, devByIface, activeConns, device, cur, via>>
        /\ \/ pc' = [pc EXCEPT ![c] = "wait"] /\ UNCHANGED <<name, held, new>>
           \/ /\ pc' = [pc EXCEPT ![c] = "idle"]
              /\ name' = [name EXCEPT ![c] = None]
              /\ held' = [held EXCEPT ![c] = 0]
              /\ new' = [new EXCEPT ![c] = None]
    BY <1>5 DEF ConfigureNew, Deadline, Fail, Goto
  <2>2. name[c] \in Name /\ new[c] # None
    BY <1>p, <2>1 DEF Refs, Requests
  <2>3. Registered
    BY <2>1, SameDevices
  <2>4. Move(c, "wait") \/ Move(c, "idle")
    BY <1>0, <1>p, <2>1, <2>2, <2>3 DEF Move
  <2> QED
    BY <1>0, <1>p, <2>4, RefsMove
<1>6. ASSUME NEW c \in Client, RegisterSeen(c) PROVE Refs'
  <2>1. name[c] \in Name /\ new[c] # None /\ held[c] \in Nat
    BY <1>0, <1>6, <1>p DEF RegisterSeen, Refs, Requests
  <2>2. Registered
    BY <1>6, <2>1, RegisterKept DEF RegisterSeen, Registered, Kept, Refs
  <2>3. Move(c, "wait")
    BY <1>0, <1>6, <1>p, <2>1, <2>2 DEF RegisterSeen, Goto, Move
  <2> QED
    BY <1>0, <1>p, <2>3, RefsMove
<1>7. ASSUME NEW c \in Client, Create(c) PROVE Refs'
  <2> DEFINE a == new[c]
             k == held[c]
  <2>1. /\ a \in AC /\ pc[a] = "unborn" /\ k \in DOMAIN devices
        /\ \A d \in Client : new[d] = a => d = c
    BY <1>0, <1>7, <1>p DEF Create, Refs, Requests
  <2>2. /\ pc[c] = "create" /\ activeConns' = activeConns \cup {a}
        /\ device' = [device EXCEPT ![a] = k]
        /\ devices' = [devices EXCEPT ![k].active = a]
        /\ pc' = [pc EXCEPT ![c] = "idle", ![a] = "bringUp"]
        /\ name' = [name EXCEPT ![c] = None]
        /\ held' = [held EXCEPT ![c] = 0]
        /\ new' = [new EXCEPT ![c] = None]
        /\ UNCHANGED <<devByIface, cur, via>>
    BY <1>7 DEF Create
  <2> HIDE DEF a, k
  <2>3. /\ Kept /\ DOMAIN devices' = DOMAIN devices
        /\ \A j \in DOMAIN devices :
              devices'[j].active = IF j = k THEN a ELSE devices[j].active
    BY <2>1, <2>2, SetActive
  <2>4. /\ pc'[a] = "bringUp" /\ pc'[c] = "idle" /\ a # c
        /\ \A u \in Thread : u # a /\ u # c => pc'[u] = pc[u]
        /\ device'[a] = k /\ \A b \in AC : b # a => device'[b] = device[b]
        /\ new'[c] = None
        /\ \A d \in Client : d # c => /\ new'[d] = new[d]
                                      /\ name'[d] = name[d] /\ held'[d] = held[d]
    BY <1>0, <2>1, <2>2
  <2>5. Born' /\ Current'
    <3>1. \A u \in Thread : pc[u] # "unborn" => pc'[u] # "unborn"
      BY <2>4
    <3>2. \A b \in AC : pc'[b] # "unborn" => device'[b] \in DOMAIN devices
      BY <1>0, <2>1, <2>4 DEF Refs, Born
    <3>3. \A b \in activeConns' : pc'[b] # "unborn"
      <4>1. \A b \in activeConns : b \in Thread /\ pc[b] # "unborn"
        BY <1>0 DEF Refs, Born, TypeOK
      <4> QED
        BY <2>2, <2>4, <3>1, <4>1
    <3>4. \A u \in Thread : pc'[u] \in Ending => pc[u] \in Ending
      BY <1>p, <2>4
    <3>5. Current'
      BY <1>0, <2>2, <3>1, <3>4 DEF Refs, Current
    <3> QED
      BY <2>3, <3>2, <3>3, <3>5 DEF Born
  <2>6. Requests'
    <3> SUFFICES ASSUME NEW d \in Client
                 PROVE
        /\ IF pc'[d] = "idle" THEN new'[d] = None ELSE name'[d] \in Name
        /\ pc'[d] \in Asking => new'[d] # None
        /\ new'[d] # None =>
              /\ pc'[new'[d]] = "unborn"
              /\ \A b \in Client : new'[b] = new'[d] => b = d
              /\ pc'[d] \in {"old", "create"} \cup Ending =>
                    /\ held'[d] \in DOMAIN devices'
                    /\ devices'[held'[d]].name = name'[d]
      BY DEF Requests
    <3>1. CASE d = c
      BY <1>p, <2>4, <3>1
    <3>2. CASE d # c
      <4>1. pc'[d] = pc[d] /\ new[d] # a
        BY <1>0, <2>1, <2>4, <3>2
      <4>2. /\ IF pc[d] = "idle" THEN new[d] = None ELSE name[d] \in Name
            /\ pc[d] \in Asking => new[d] # None
            /\ new[d] # None =>
                  /\ pc[new[d]] = "unborn"
                  /\ \A b \in Client : new[b] = new[d] => b = d
                  /\ pc[d] \in {"old", "create"} \cup Ending =>
                        /\ held[d] \in DOMAIN devices
                        /\ devices[held[d]].name = name[d]
        BY DEF Refs, Requests
      <4>3. new[d] # None => pc'[new[d]] = "unborn"
        BY <1>0, <2>4, <4>1, <4>2
      <4>4. new[d] # None => \A b \in Client : new'[b] = new[d] => b = d
        BY <2>4, <4>2
      <4> QED
        BY <2>3, <2>4, <3>2, <4>1, <4>2, <4>3, <4>4 DEF Kept
    <3> QED
      BY <3>1, <3>2
  <2>7. Found'
    <3>1. \A n \in Name : devByIface'[n] # 0 => devices'[devByIface'[n]].name = n
      BY <1>0, <2>2, <2>3 DEF Refs, Found, Kept
    <3>2. ASSUME NEW j \in DOMAIN devices', devices'[j].active # None
          PROVE  /\ pc'[devices'[j].active] # "unborn"
                 /\ device'[devices'[j].active] = j
      <4>1. CASE j = k
        BY <2>3, <2>4, <4>1
      <4>2. CASE j # k
        <5>1. devices'[j].active = devices[j].active /\ j \in DOMAIN devices
          BY <2>3, <4>2
        <5>2. devices[j].active \in AC
          BY <1>d, <3>2, <5>1 DEF DeviceTypes
        <5>3. pc[devices[j].active] # "unborn" /\ device[devices[j].active] = j
          BY <3>2, <5>1 DEF Refs, Found
        <5> QED
          BY <1>0, <2>1, <2>4, <5>1, <5>2, <5>3
      <4> QED
        BY <4>1, <4>2
    <3> QED
      BY <3>1, <3>2 DEF Found
  <2>8. Towards'
    <3> SUFFICES ASSUME NEW b \in AC
                 PROVE
          /\ pc'[b] \in {"gateway", "peer", "record"} => HostOf[NameOf(b)'] # None
          /\ pc'[b] \in {"peer", "record"} => via'[b] # None
      BY DEF Towards
    <3>1. CASE b = a
      BY <2>4, <3>1
    <3>2. CASE b # a
      <4>1. pc'[b] = pc[b] /\ (pc[b] # "unborn" => NameOf(b)' = NameOf(b))
        BY <1>0, <2>3, <2>4, <3>2 DEF Refs, Born, NameOf, Kept
      <4> QED
        BY <2>2, <4>1 DEF Refs, Towards
    <3> QED
      BY <3>1, <3>2
  <2> QED
    BY <2>5, <2>6, <2>7, <2>8 DEF Refs
<1>8. ASSUME NEW t \in Thread, DeactivateStep(t) PROVE Refs'
  <2>0. pc[t] \in Ending
    BY <1>8, <1>p DEF DeactivateStep, Mark, TearDownWireGuard, Remove,
       FlushAndRevert, Drop
  <2>1. cur[t] \in AC /\ pc[cur[t]] # "unborn" /\ device[cur[t]] \in DOMAIN devices
    BY <2>0 DEF Refs, Current, Born
  <2>2. t \in Client => /\ name[t] \in Name
                        /\ new[t] # None => /\ held[t] \in DOMAIN devices
                                            /\ devices[held[t]].name = name[t]
    BY <1>p, <2>0 DEF Refs, Requests
  <2>3. ASSUME NEW p \in Ending, pc' = [pc EXCEPT ![t] = p],
               UNCHANGED <<devices, devByIface, activeConns, device, name, held,
                           new, cur, via>>
        PROVE  Refs'
    <3>1. Registered
      BY <2>3, SameDevices
    <3>2. Move(t, p)
      BY <1>0, <1>p, <2>0, <2>1, <2>2, <2>3, <3>1 DEF Move
    <3> QED
      BY <1>p, <3>2, RefsMove
  <2>4. CASE Mark(t)
    <3>1. CASE cur[t] \in gone
      <4>1. Registered
        BY <2>4, SameDevices DEF Mark
      <4> QED
        BY <2>0, <2>4, <3>1, <4>1, DeactivatedMove DEF Mark
    <3>2. CASE cur[t] \notin gone
      BY <1>p, <2>3, <2>4, <3>2 DEF Mark, Goto
    <3> QED
      BY <3>1, <3>2
  <2>5. CASE TearDownWireGuard(t)
    BY <1>p, <2>3, <2>5 DEF TearDownWireGuard, Goto
  <2>6. CASE Remove(t)
    BY <1>p, <2>3, <2>6 DEF Remove, Goto
  <2>7. CASE FlushAndRevert(t)
    BY <1>p, <2>3, <2>7 DEF FlushAndRevert, Goto
  <2>8. CASE Drop(t)
    <3>1. /\ Kept /\ DOMAIN devices' = DOMAIN devices
          /\ \A j \in DOMAIN devices :
                devices'[j].active = IF j = device[cur[t]] THEN None
                                     ELSE devices[j].active
      BY <2>1, <2>8, SetActive DEF Drop
    <3>2. Registered
      BY <1>0, <2>8, <3>1 DEF Drop, Registered, Kept, Refs, Found
    <3> QED
      BY <2>0, <2>8, <3>2, DeactivatedMove DEF Drop
  <2> QED
    BY <1>8, <2>4, <2>5, <2>6, <2>7, <2>8 DEF DeactivateStep
<1>9. ASSUME NEW a \in AC, BringUpStep(a) PROVE Refs'
  <2>0. /\ pc[a] \in BringUp /\ Registered
        /\ UNCHANGED <<devices, devByIface, activeConns, device, name, held, new>>
    <3>1. /\ pc[a] \in BringUp
          /\ UNCHANGED <<devices, devByIface, activeConns, device, name, held, new>>
      BY <1>9, <1>p DEF BringUpStep, ConfigureAgain, Address, SetUp, AddRoutes,
         LookupGateway, AddPeerRoute, RecordRoute, SetDNS, Finish
    <3> QED
      BY <3>1, SameDevices
  <2>1. ASSUME NEW p \in {"address", "setUp", "routes", "dns", "ok", "failed",
                          "done"},
               pc' = [pc EXCEPT ![a] = p], UNCHANGED cur,
               \A b \in AC \ {a} : via'[b] = via[b]
        PROVE  Refs'
    <3>1. Move(a, p)
      BY <1>0, <1>p, <2>0, <2>1 DEF Move
    <3> QED
      BY <1>0, <1>p, <3>1, RefsMove
  <2>2. CASE ConfigureAgain(a) \/ Address(a) \/ SetUp(a) \/ SetDNS(a)
    BY <2>1, <2>2 DEF ConfigureAgain, Address, SetUp, SetDNS, Goto
  <2>3. CASE AddRoutes(a)
    <3>1. CASE HostOf[NameOf(a)] = None
      BY <2>1, <2>3, <3>1 DEF AddRoutes, Goto
    <3>2. CASE HostOf[NameOf(a)] # None
      <4>1. Move(a, "gateway")
        BY <1>0, <1>p, <2>0, <2>3, <3>2 DEF AddRoutes, Goto, Move
      <4> QED
        BY <1>0, <1>p, <4>1, RefsMove
    <3> QED
      BY <3>1, <3>2
  <2>4. CASE LookupGateway(a)
    <3>1. CASE Goto(a, "dns") /\ UNCHANGED via
      BY <2>1, <2>4, <3>1 DEF LookupGateway, Goto
    <3>2. ASSUME NEW g \in DefaultGateways(IndexOf(a)),
                 via' = [via EXCEPT ![a] = g], Goto(a, "peer")
          PROVE  Refs'
      <4>1. g # None
        BY VpnConstants DEF DefaultGateways, TypeOK
      <4>2. HostOf[NameOf(a)] # None
        BY <2>4 DEF LookupGateway, Refs, Towards
      <4>3. Move(a, "peer")
        BY <1>0, <1>p, <2>0, <2>4, <3>2, <4>1, <4>2 DEF LookupGateway, Goto, Move
      <4> QED
        BY <1>0, <1>p, <4>3, RefsMove
    <3> QED
      BY <2>4, <3>1, <3>2 DEF LookupGateway
  <2>5. CASE AddPeerRoute(a)
    <3>1. CASE Goto(a, "record") /\ UNCHANGED via
      <4>1. HostOf[NameOf(a)] # None /\ via[a] # None
        BY <2>5 DEF AddPeerRoute, Refs, Towards
      <4>2. Move(a, "record")
        BY <1>0, <1>p, <2>0, <2>5, <3>1, <4>1 DEF AddPeerRoute, Goto, Move
      <4> QED
        BY <1>0, <1>p, <4>2, RefsMove
    <3>2. CASE via' = [via EXCEPT ![a] = None] /\ Goto(a, "dns")
      BY <1>0, <2>1, <2>5, <3>2 DEF AddPeerRoute, Goto
    <3> QED
      BY <2>5, <3>1, <3>2 DEF AddPeerRoute
  <2>6. CASE RecordRoute(a)
    BY <1>0, <2>1, <2>6 DEF RecordRoute, Goto
  <2>7. CASE Finish(a)
    <3>1. CASE Goto(a, "done") /\ UNCHANGED cur
      BY <2>1, <2>7, <3>1 DEF Finish, Goto
    <3>2. CASE cur' = [cur EXCEPT ![a] = a] /\ Goto(a, "mark")
      <4>1. Move(a, "mark")
        BY <1>0, <1>p, <2>0, <2>7, <3>2 DEF Finish, Goto, Move
      <4> QED
        BY <1>0, <1>p, <4>1, RefsMove
    <3> QED
      BY <2>7, <3>1, <3>2 DEF Finish
  <2> QED
    BY <1>9, <2>2, <2>3, <2>4, <2>5, <2>6, <2>7 DEF BringUpStep
<1>10. CASE OnLinkEvent
  <2> DEFINE e == Head(events)
  <2>1. e.name \in Name /\ e.index \in Nat
    <3>1. e \in LinkEvents
      BY <1>10 DEF OnLinkEvent, TypeOK
    <3> QED
      BY <3>1 DEF LinkEvents
  <2>2. Registered
    <3>1. CASE e.present
      BY <1>10, <2>1, <3>1, RegisterKept DEF OnLinkEvent, Registered, Kept, Refs
    <3>2. CASE ~e.present
      <4>1. devices' = devices /\ devByIface' = [devByIface EXCEPT ![e.name] = 0]
        BY <1>10, <3>2 DEF OnLinkEvent, Unregister
      <4>2. \A n \in Name : devByIface'[n] # 0 => devByIface'[n] = devByIface[n]
        BY <1>0, <4>1
      <4>3. Kept
        BY <4>1 DEF Kept, TypeOK
      <4> QED
        BY <4>1, <4>2, <4>3 DEF Registered, Refs, Found
    <3> QED
      BY <3>1, <3>2
  <2> QED
    BY <1>10, <2>2, RefsKept DEF OnLinkEvent
<1>11. CASE \/ \E n \in Name : LinkVanishes(n)
            \/ UnderlayMoves
            \/ UNCHANGED vars
  <2>1. UNCHANGED <<devices, devByIface, activeConns, device, name, held, new,
                    cur, via, pc>>
    BY <1>11 DEF LinkVanishes, UnderlayMoves, vars
  <2>2. Registered
    BY <2>1, SameDevices
  <2> QED
    BY <2>1, <2>2, RefsKept
<1> QED
  BY <1>0, <1>1, <1>2, <1>3, <1>4, <1>5, <1>6, <1>7, <1>8, <1>9, <1>10, <1>11
  DEF Next, ClientStep, ACStep

\* Type correctness, for any number of requests, tunnels and faults: whoever
\* runs when, no goroutine of vpn.go acts on a Device or connection that was
\* never made, and none gets one of another tunnel.
THEOREM TypeCorrect == Spec => [](TypeOK /\ Refs)
<1>1. TypeOK /\ Refs /\ [Next]_vars => TypeOK' /\ Refs'
  BY TypeStep, RefsStep
<1> QED
  BY InitRefs, <1>1, PTL DEF Spec

-----------------------------------------------------------------------------
\* Every way a bring-up has found to a peer leads outside of the tunnels.
Outside ==
    /\ \A a \in AC : via[a] # None => via[a][1] = "lan"
    /\ PeersOutside

\* Who changes the routes to peers, and the ways found to them
LEMMA OutsideFrame ==
    ASSUME TypeOK, Outside, UNCHANGED via,
           \A h \in Host : peerRoute'[h] \in {peerRoute[h], None}
    PROVE  Outside'
  BY DEF Outside, PeersOutside

LEMMA OutsideStep == TypeOK /\ Refs /\ Outside /\ [Next]_vars => Outside'
<1> SUFFICES ASSUME TypeOK, Refs, Outside, [Next]_vars PROVE Outside'
  OBVIOUS
<1>0. /\ via \in [AC -> Via \cup {None}]
      /\ peerRoute \in [Host -> Via \cup {None}]
  BY DEF TypeOK
<1> USE DEF kernel, registry, acVars, locals
<1>1. ASSUME UNCHANGED <<via, peerRoute>> PROVE Outside'
  BY <1>1, OutsideFrame
<1>2. CASE \/ \E c \in Client, a \in AC, n \in Name : Activate(c, a, n)
           \/ \E c \in Client, a \in AC : Deactivate(c, a)
           \/ OnLinkEvent
           \/ \E n \in Name : LinkVanishes(n)
           \/ UNCHANGED vars
  BY <1>1, <1>2 DEF Activate, Deactivate, Begin, OnLinkEvent, LinkVanishes, vars
<1>3. ASSUME NEW t \in Thread, DeactivateStep(t) PROVE Outside'
  <2>1. CASE TearDownWireGuard(t)
    <3>1. CASE DelRoutes(cur[t])
      <4>1. \A h \in Host : peerRoute'[h] \in {peerRoute[h], None}
        BY <3>1 DEF DelRoutes
      <4> QED
        BY <2>1, <4>1, OutsideFrame DEF TearDownWireGuard
    <3> QED
      BY <1>1, <2>1, <3>1 DEF TearDownWireGuard
  <2>2. CASE Mark(t) \/ Remove(t) \/ FlushAndRevert(t) \/ Drop(t)
    BY <1>1, <2>2 DEF Mark, Remove, FlushAndRevert, Drop, Deactivated
  <2> QED
    BY <1>3, <2>1, <2>2 DEF DeactivateStep
<1>4. ASSUME NEW c \in Client, ClientStep(c) PROVE Outside'
  BY <1>1, <1>3, <1>4
  DEF ClientStep, Lookup, ConfigureNew, RegisterSeen, Deadline, Old, Create,
      Thread
<1>5. ASSUME NEW a \in AC, BringUpStep(a) PROVE Outside'
  <2>1. CASE LookupGateway(a)
    <3>1. \A g \in DefaultGateways(IndexOf(a)) : g[1] = "lan"
      <4>1. \A r \in routes : r[2] # "default"
        BY DEF TypeOK
      <4>2. DefaultGateways(IndexOf(a)) \subseteq {<<"lan", underlay.number>>}
        BY <4>1 DEF DefaultGateways
      <4> QED
        BY <4>2
    <3>2. /\ peerRoute' = peerRoute
          /\ \/ via' = via
             \/ \E g \in DefaultGateways(IndexOf(a)) : via' = [via EXCEPT ![a] = g]
      BY <2>1 DEF LookupGateway
    <3>3. \A b \in AC : via'[b] = via[b] \/ via'[b][1] = "lan"
      BY <1>0, <3>1, <3>2
    <3> QED
      BY <3>2, <3>3 DEF Outside, PeersOutside
  <2>2. CASE AddPeerRoute(a)
    <3>1. via[a] # None
      BY <2>2 DEF AddPeerRoute, Refs, Towards
    <3> QED
      BY <1>0, <2>2, <3>1 DEF AddPeerRoute, Outside, PeersOutside
  <2>3. CASE RecordRoute(a)
    BY <1>0, <2>3 DEF RecordRoute, Outside, PeersOutside
  <2>4. CASE \/ ConfigureAgain(a) \/ Address(a) \/ SetUp(a) \/ AddRoutes(a)
             \/ SetDNS(a) \/ Finish(a)
    BY <1>1, <2>4 DEF ConfigureAgain, Address, SetUp, AddRoutes, SetDNS, Finish
  <2> QED
    BY <1>5, <2>1, <2>2, <2>3, <2>4 DEF BringUpStep
<1>6. CASE UnderlayMoves
  BY <1>0, <1>6, OutsideFrame DEF UnderlayMoves
<1> QED
  BY <1>2, <1>3, <1>4, <1>5, <1>6 DEF Next, ACStep, Thread

\* A peer is never reached through a tunnel, however many full tunnels are up,
\* whatever the clients and the underlay do: bringUpWireGuard installs its
\* default route in halves, so what defaultGateway4 finds is never a tunnel's.
THEOREM EndpointsOutside == Spec => []PeersOutside
<1>1. Init => Outside
  BY DEF Init, Outside, PeersOutside
<1>2. TypeOK /\ Refs /\ Outside /\ [Next]_vars => Outside'
  BY OutsideStep
<1>3. Outside => PeersOutside
  BY DEF Outside
<1> QED
  BY <1>1, <1>2, <1>3, TypeCorrect, PTL DEF Spec

-----------------------------------------------------------------------------
\* The records of the routes to peers, for considerate clients

Busy(t) == pc[t] \notin {"idle", "unborn", "done"}

\* At most one goroutine works on a tunnel, and it deactivates only connections
\* of that tunnel.
Alone ==
    /\ \A t, u \in Thread : Busy(t) /\ Busy(u) /\ Serves(t) = Serves(u) => t = u
    /\ \A t \in Thread : pc[t] \in Ending => NameOf(cur[t]) = Serves(t)

\* a has a record of the route to h, or is about to.
Recorder(a, h) ==
    \/ <<peerRoute[h], h>> \in vpnRoutes[a]
    \/ /\ pc[a] = "record"
       /\ <<via[a], HostOf[NameOf(a)]>> = <<peerRoute[h], h>>

Forgotten(a) == \E t \in Thread : pc[t] = "forget" /\ cur[t] = a

\* The strengthening of PeerRoutesRecorded: the record is not being dropped.
Records ==
    \A h \in Host : peerRoute[h] # None =>
        \E a \in AC : Recorder(a, h) /\ ~Forgotten(a)

\* A connection keeps its Device, and a Device its name and index.
SameDevice ==
    \A a \in AC : pc[a] # "unborn" =>
        NameOf(a)' = NameOf(a) /\ IndexOf(a)' = IndexOf(a)

LEMMA NameKept ==
    ASSUME TypeOK, Refs, [Next]_vars
    PROVE  SameDevice
<1>0. /\ \A a \in AC : pc[a] # "unborn" => device[a] \in DOMAIN devices
      /\ device \in [AC -> 0 .. Len(devices)]
      /\ \A k \in DOMAIN devices : devices[k] \in DeviceTypes
  BY DEF Refs, Born, TypeOK
<1> USE DEF kernel, registry, acVars, locals
<1>1. ASSUME UNCHANGED device, Kept
      PROVE  SameDevice
  BY <1>0, <1>1 DEF Kept, NameOf, IndexOf, SameDevice
<1>2. ASSUME UNCHANGED <<device, devices>>
      PROVE  SameDevice
  BY <1>2 DEF NameOf, IndexOf, SameDevice
<1>3. ASSUME NEW c \in Client, RegisterSeen(c)
      PROVE  SameDevice
  <2>1. name[c] \in Name /\ held[c] \in Nat
    BY <1>3 DEF RegisterSeen, Refs, Requests, TypeOK
  <2> QED
    BY <1>1, <1>3, <2>1, RegisterKept DEF RegisterSeen
<1>4. ASSUME NEW c \in Client, Create(c)
      PROVE  SameDevice
  <2>1. new[c] \in AC /\ held[c] \in DOMAIN devices /\ pc[new[c]] = "unborn"
    BY <1>4 DEF Create, Refs, Requests, Asking, TypeOK
  <2>2. Kept
    BY <1>4, <2>1, SetActive DEF Create
  <2>3. \A a \in AC : pc[a] # "unborn" => device'[a] = device[a]
    BY <1>0, <1>4, <2>1 DEF Create
  <2> QED
    BY <1>0, <2>2, <2>3 DEF Kept, NameOf, IndexOf, SameDevice
<1>5. ASSUME NEW t \in Thread, DeactivateStep(t)
      PROVE  SameDevice
  <2>1. CASE Drop(t)
    <3>1. device[cur[t]] \in DOMAIN devices
      BY <2>1 DEF Drop, Refs, Current, Born, Ending, Teardown
    <3> QED
      BY <1>1, <2>1, <3>1, SetActive DEF Drop
  <2>2. CASE Mark(t) \/ TearDownWireGuard(t) \/ Remove(t) \/ FlushAndRevert(t)
    BY <1>2, <2>2 DEF Mark, TearDownWireGuard, Remove, FlushAndRevert
  <2> QED
    BY <1>5, <2>1, <2>2 DEF DeactivateStep
<1>6. ASSUME NEW c \in Client, ClientStep(c)
      PROVE  SameDevice
  BY <1>2, <1>3, <1>4, <1>5, <1>6
  DEF ClientStep, Lookup, ConfigureNew, Deadline, Old, Thread
<1>7. ASSUME NEW a \in AC, BringUpStep(a)
      PROVE  SameDevice
  BY <1>2, <1>7 DEF BringUpStep, ConfigureAgain, Address, SetUp, AddRoutes,
     LookupGateway, AddPeerRoute, RecordRoute, SetDNS, Finish
<1>8. CASE OnLinkEvent
  <2>1. CASE UNCHANGED devices
    BY <1>2, <1>8, <2>1 DEF OnLinkEvent
  <2>2. CASE Register(Head(events).name, Head(events).index)
    <3>1. Head(events) \in LinkEvents
      BY <1>8 DEF OnLinkEvent, TypeOK
    <3>2. Head(events).name \in Name /\ Head(events).index \in Nat
      BY <3>1 DEF LinkEvents
    <3> QED
      BY <1>1, <1>8, <2>2, <3>2, RegisterKept DEF OnLinkEvent
  <2> QED
    BY <1>8, <2>1, <2>2 DEF OnLinkEvent, Unregister
<1>9. CASE \/ \E c \in Client, a \in AC, n \in Name : Activate(c, a, n)
           \/ \E c \in Client, a \in AC : Deactivate(c, a)
           \/ \E n \in Name : LinkVanishes(n)
           \/ UnderlayMoves \/ UNCHANGED vars
  BY <1>2, <1>9 DEF Activate, Deactivate, Begin, LinkVanishes, UnderlayMoves, vars
<1> QED
  BY <1>5, <1>6, <1>7, <1>8, <1>9 DEF Next, ACStep, Thread

\* A step that neither begins a request nor creates a connection: whoever is
\* busy was busy with the same tunnel.
LEMMA AloneFrame ==
    ASSUME TypeOK, Refs, [Next]_vars, Alone,
           \A u \in Thread : Busy(u)' => Busy(u),
           \A d \in Client : Busy(d)' => name'[d] = name[d],
           \A u \in Thread : pc'[u] \in Ending =>
              \/ pc[u] \in Ending /\ cur'[u] = cur[u]
              \/ cur'[u] \in AC /\ pc[cur'[u]] # "unborn" /\ NameOf(cur'[u]) = Serves(u)
    PROVE  Alone'
<1>0. \A a \in AC : pc[a] # "unborn" => NameOf(a)' = NameOf(a)
  BY NameKept DEF SameDevice
<1>1. \A u \in Thread : Busy(u)' => Busy(u)
  OBVIOUS
<1>2. ASSUME NEW u \in Thread, Busy(u)' PROVE Serves(u)' = Serves(u)
  BY <1>0, <1>1, <1>2 DEF Serves, Busy, Thread
<1>3. \A u \in Thread : pc'[u] \in Ending => Busy(u)'
  BY DEF Ending, Teardown, Busy
<1>4. ASSUME NEW u \in Thread, pc'[u] \in Ending
      PROVE  NameOf(cur[u])' = Serves(u)'
  <2>1. Serves(u)' = Serves(u)
    BY <1>2, <1>3, <1>4
  <2>2. \A a \in AC : pc[a] # "unborn" =>
           devices'[device'[a]].name = devices[device[a]].name
    BY <1>0 DEF NameOf
  <2>3. CASE pc[u] \in Ending /\ cur'[u] = cur[u]
    <3>1. cur[u] \in AC /\ pc[cur[u]] # "unborn"
      BY <2>3 DEF Refs, Current
    <3>2. devices[device[cur[u]]].name = Serves(u)
      BY <2>3 DEF Alone, NameOf
    <3> QED
      BY <2>1, <2>2, <2>3, <3>1, <3>2 DEF NameOf
  <2>4. CASE /\ cur'[u] \in AC /\ pc[cur'[u]] # "unborn"
             /\ NameOf(cur'[u]) = Serves(u)
    <3>1. devices[device[cur'[u]]].name = Serves(u)
      BY <2>4 DEF NameOf
    <3> QED
      BY <2>1, <2>2, <2>4, <3>1 DEF NameOf
  <2> QED
    BY <1>4, <2>3, <2>4
<1>5. \A u, v \in Thread :
         Busy(u)' /\ Busy(v)' /\ Serves(u)' = Serves(v)' => u = v
  BY <1>1, <1>2 DEF Alone
<1> QED
  BY <1>4, <1>5 DEF Alone

LEMMA AloneStep ==
    ASSUME TypeOK, Refs, Alone, Discipline = "considerate", [Next]_vars
    PROVE  Alone'
<1>0. /\ Client \subseteq Thread /\ AC \subseteq Thread /\ Client \cap AC = {}
      /\ pc \in [Thread -> PC] /\ name \in [Client -> Name \cup {None}]
      /\ cur \in [Thread -> AC \cup {None}] /\ new \in [Client -> AC \cup {None}]
  BY VpnConstants DEF TypeOK, Thread
<1>n. \A a \in AC : pc[a] # "unborn" => NameOf(a)' = NameOf(a)
  BY NameKept DEF SameDevice
<1>p. /\ Ending = {"mark", "delRoutes", "forget", "remove", "flush", "drop"}
      /\ {"idle", "done", "create", "old"} \cap Ending = {}
  BY DEF Ending, Teardown
<1> USE DEF kernel, registry, acVars, locals
\* A request begins when nobody serves its tunnel.
<1>1. ASSUME NEW c \in Client, NEW n \in Name, NEW dev, NEW place,
             Begin(c, n, dev, place),
             \A u \in Thread \ {c} : cur'[u] = cur[u],
             place \in Ending =>
                cur'[c] \in AC /\ pc[cur'[c]] # "unborn" /\ NameOf(cur'[c]) = n
      PROVE  Alone'
  <2>1. /\ pc[c] = "idle" /\ Calm(n)
        /\ name' = [name EXCEPT ![c] = n] /\ pc' = [pc EXCEPT ![c] = place]
        /\ UNCHANGED <<devices, device>>
    BY <1>1 DEF Begin, MayBegin, Goto
  <2>2. \A u \in Thread : Busy(u) => Serves(u) # n
    BY <2>1 DEF Calm, Busy
  <2>3. \A u \in Thread \ {c} : pc'[u] = pc[u]
    BY <1>0, <2>1
  <2>4. \A u \in Thread \ {c} : Serves(u)' = Serves(u)
    BY <1>0, <2>1 DEF Serves, NameOf
  <2>5. Serves(c)' = n
    BY <1>0, <2>1 DEF Serves
  <2>6. \A u \in Thread \ {c} : Busy(u)' => Busy(u)
    BY <2>3 DEF Busy
  <2>7. \A u, v \in Thread :
           Busy(u)' /\ Busy(v)' /\ Serves(u)' = Serves(v)' => u = v
    BY <2>2, <2>4, <2>5, <2>6 DEF Alone
  <2>8. ASSUME NEW u \in Thread, pc'[u] \in Ending
        PROVE  NameOf(cur[u])' = Serves(u)'
    <3>1. CASE u = c
      <4>1. pc'[c] = place
        BY <1>0, <2>1
      <4> QED
        BY <1>1, <2>1, <2>5, <2>8, <3>1, <4>1 DEF NameOf
    <3>2. CASE u # c
      BY <1>1, <2>1, <2>3, <2>4, <2>8, <3>2 DEF Alone, NameOf
    <3> QED
      BY <3>1, <3>2
  <2> QED
    BY <2>7, <2>8 DEF Alone
<1>2. ASSUME NEW c \in Client, NEW a \in AC, NEW n \in Name, Activate(c, a, n)
      PROVE  Alone'
  <2>1. UNCHANGED cur
    BY <1>2 DEF Activate
  <2>2. CASE devByIface[n] # 0
    BY <1>1, <1>2, <1>p, <2>1, <2>2 DEF Activate
  <2>3. CASE devByIface[n] = 0
    <3>1. Begin(c, n, devByIface[n], "lookup") /\ "lookup" \notin Ending
      BY <1>2, <1>p, <2>3 DEF Activate
    <3> QED
      BY <1>1, <2>1, <3>1
  <2> QED
    BY <2>2, <2>3
<1>3. ASSUME NEW c \in Client, NEW a \in AC, Deactivate(c, a) PROVE Alone'
  <2>1. /\ pc[a] # "unborn" /\ cur' = [cur EXCEPT ![c] = a]
        /\ Begin(c, NameOf(a), 0, "mark")
    BY <1>3 DEF Deactivate, Refs, Born
  <2>2. NameOf(a) \in Name
    <3>1. device[a] \in DOMAIN devices
      BY <2>1 DEF Refs, Born
    <3>2. devices[device[a]] \in DeviceTypes
      BY <3>1 DEF TypeOK
    <3> QED
      BY <3>2 DEF NameOf, DeviceTypes
  <2>3. cur'[c] = a /\ \A u \in Thread \ {c} : cur'[u] = cur[u]
    BY <1>0, <2>1
  <2> QED
    BY <1>1, <2>1, <2>2, <2>3
\* One goroutine moves on, for the same tunnel.
<1>4. ASSUME NEW t \in Thread, NEW p, Busy(t), pc' = [pc EXCEPT ![t] = p],
             \A u \in Thread \ {t} : cur'[u] = cur[u],
             \A d \in Client : d # t \/ p # "idle" => name'[d] = name[d],
             p \in Ending =>
                \/ pc[t] \in Ending /\ cur'[t] = cur[t]
                \/ /\ cur'[t] \in AC /\ pc[cur'[t]] # "unborn"
                   /\ NameOf(cur'[t]) = Serves(t)
      PROVE  Alone'
  <2>1. pc'[t] = p /\ \A u \in Thread \ {t} : pc'[u] = pc[u]
    BY <1>0, <1>4
  <2>2. \A u \in Thread : Busy(u)' => Busy(u)
    BY <1>4, <2>1 DEF Busy
  <2>3. \A d \in Client : Busy(d)' => name'[d] = name[d]
    BY <1>0, <1>4, <2>1 DEF Busy
  <2>4. \A u \in Thread : pc'[u] \in Ending =>
           \/ pc[u] \in Ending /\ cur'[u] = cur[u]
           \/ cur'[u] \in AC /\ pc[cur'[u]] # "unborn" /\ NameOf(cur'[u]) = Serves(u)
    BY <1>4, <2>1
  <2> QED
    BY <2>2, <2>3, <2>4, AloneFrame
<1>5. ASSUME NEW c \in Client,
             Lookup(c) \/ ConfigureNew(c) \/ RegisterSeen(c) \/ Deadline(c)
      PROVE  Alone'
  <2>1. /\ pc[c] \in Ensure /\ UNCHANGED cur
        /\ \E p \in {"old", "configure", "seen", "wait", "idle"} :
              /\ pc' = [pc EXCEPT ![c] = p]
              /\ \A d \in Client : d # c \/ p # "idle" => name'[d] = name[d]
    <3>1. CASE Lookup(c) \/ RegisterSeen(c)
      BY <3>1 DEF Lookup, RegisterSeen, Goto, Ensure
    <3>2. CASE ConfigureNew(c) \/ Deadline(c)
      BY <1>0, <3>2 DEF ConfigureNew, Deadline, Fail, Goto, Ensure
    <3> QED
      BY <1>5, <3>1, <3>2
  <2>2. Busy(c) /\ {"old", "configure", "seen", "wait", "idle"} \cap Ending = {}
    BY <1>p, <2>1 DEF Busy, Ensure
  <2> QED
    BY <1>0, <1>4, <2>1, <2>2
<1>6. ASSUME NEW c \in Client, Old(c) PROVE Alone'
  <2> DEFINE old == devices[held[c]].active
  <2>1. Busy(c) /\ pc[c] = "old" /\ UNCHANGED name
    BY <1>6 DEF Old, Busy
  <2>2. CASE old \notin activeConns /\ Goto(c, "create") /\ UNCHANGED cur
    BY <1>0, <1>4, <1>p, <2>1, <2>2 DEF Goto
  <2>3. CASE old \in activeConns /\ cur' = [cur EXCEPT ![c] = old] /\ Goto(c, "mark")
    <3>1. /\ new[c] # None /\ held[c] \in DOMAIN devices
          /\ devices[held[c]].name = name[c]
      BY <2>1 DEF Refs, Requests, Asking
    <3>2. old \in AC /\ old # None
      BY <2>3, VpnConstants DEF TypeOK
    <3>3. pc[old] # "unborn" /\ device[old] = held[c]
      BY <3>1, <3>2 DEF Refs, Found
    <3>4. NameOf(old) = Serves(c)
      BY <3>1, <3>3 DEF NameOf, Serves
    <3>5. cur'[c] = old /\ \A u \in Thread \ {c} : cur'[u] = cur[u]
      BY <1>0, <2>3
    <3> HIDE DEF old
    <3>6. pc' = [pc EXCEPT ![c] = "mark"]
      BY <2>3 DEF Goto
    <3>7. cur'[c] \in AC /\ pc[cur'[c]] # "unborn" /\ NameOf(cur'[c]) = Serves(c)
      BY <3>2, <3>3, <3>4, <3>5
    <3> QED
      BY <1>0, <1>4, <2>1, <3>5, <3>6, <3>7
  <2> QED
    BY <1>6, <2>2, <2>3 DEF Old
\* The connection that a request creates takes its tunnel over.
<1>7. ASSUME NEW c \in Client, Create(c) PROVE Alone'
  <2>0. PICK a \in AC : a = new[c]
    BY <1>0, <1>7 DEF Create, Refs, Requests, Asking
  <2>1. /\ a \in AC /\ pc[a] = "unborn" /\ held[c] \in DOMAIN devices
        /\ devices[held[c]].name = name[c]
    BY <1>0, <1>7, <2>0, VpnConstants DEF Create, Refs, Requests
  <2>2. /\ pc[c] = "create" /\ device' = [device EXCEPT ![a] = held[c]]
        /\ devices' = [devices EXCEPT ![held[c]].active = a]
        /\ pc' = [pc EXCEPT ![c] = "idle", ![a] = "bringUp"]
        /\ name' = [name EXCEPT ![c] = None]
        /\ UNCHANGED cur
    BY <1>7, <2>0 DEF Create
  <2>3. Kept
    BY <2>1, <2>2, SetActive
  <2>4. /\ pc'[a] = "bringUp" /\ pc'[c] = "idle" /\ a # c
        /\ \A u \in Thread : u # a /\ u # c => pc'[u] = pc[u]
        /\ \A d \in Client : d # c => name'[d] = name[d]
    BY <1>0, <2>1, <2>2
  <2>5. Serves(a)' = Serves(c) /\ Busy(c) /\ ~Busy(a)
    <3>1. device'[a] = held[c]
      BY <2>1, <2>2 DEF TypeOK
    <3>2. NameOf(a)' = name[c]
      BY <2>1, <2>3, <3>1 DEF NameOf, Kept
    <3> QED
      BY <1>0, <2>1, <2>2, <3>2 DEF Serves, Busy
  <2>6. \A u \in Thread : u # a /\ Busy(u)' =>
           u # c /\ Busy(u) /\ Serves(u)' = Serves(u)
    BY <1>0, <1>n, <2>4 DEF Busy, Serves, Thread
  <2>7. \A u, v \in Thread :
           Busy(u)' /\ Busy(v)' /\ Serves(u)' = Serves(v)' => u = v
    BY <1>0, <2>5, <2>6 DEF Alone
  <2>8. ASSUME NEW u \in Thread, pc'[u] \in Ending
        PROVE  NameOf(cur[u])' = Serves(u)'
    <3>1. u # a /\ u # c /\ pc[u] \in Ending /\ Busy(u)'
      BY <1>p, <2>4, <2>8 DEF Busy
    <3>2. cur[u] \in AC /\ pc[cur[u]] # "unborn" /\ NameOf(cur[u]) = Serves(u)
      BY <3>1 DEF Refs, Current, Alone
    <3> QED
      BY <1>n, <2>2, <2>6, <3>1, <3>2 DEF NameOf
  <2> QED
    BY <2>7, <2>8 DEF Alone
<1>8. ASSUME NEW t \in Thread, DeactivateStep(t) PROVE Alone'
  <2>0. pc[t] \in Ending /\ Busy(t)
    BY <1>8, <1>p DEF DeactivateStep, Mark, TearDownWireGuard, Remove,
       FlushAndRevert, Drop, Busy
  <2>1. ASSUME NEW p, pc' = [pc EXCEPT ![t] = p], UNCHANGED <<name, cur>>
        PROVE  Alone'
    BY <1>4, <2>0, <2>1
  <2>2. ASSUME Deactivated(t) PROVE Alone'
    <3>1. \A u \in Thread \ {t} : cur'[u] = cur[u]
      BY <1>0, <2>2 DEF Deactivated
    <3>2. \E p \in {"done", "idle", "create"} :
             /\ pc' = [pc EXCEPT ![t] = p]
             /\ \A d \in Client : d # t \/ p # "idle" => name'[d] = name[d]
      BY <1>0, <2>2 DEF Deactivated, Goto
    <3> QED
      BY <1>4, <1>p, <2>0, <3>1, <3>2
  <2>3. CASE Mark(t)
    BY <2>1, <2>2, <2>3 DEF Mark, Goto
  <2>4. CASE TearDownWireGuard(t) \/ Remove(t) \/ FlushAndRevert(t)
    BY <2>1, <2>4 DEF TearDownWireGuard, Remove, FlushAndRevert, Goto
  <2>5. CASE Drop(t)
    BY <2>2, <2>5 DEF Drop
  <2> QED
    BY <1>8, <2>3, <2>4, <2>5 DEF DeactivateStep
<1>9. ASSUME NEW a \in AC, BringUpStep(a) PROVE Alone'
  <2>0. Busy(a) /\ pc[a] # "unborn" /\ UNCHANGED name
    BY <1>9 DEF BringUpStep, ConfigureAgain, Address, SetUp, AddRoutes,
       LookupGateway, AddPeerRoute, RecordRoute, SetDNS, Finish, Busy
  <2>1. ASSUME NEW p, pc' = [pc EXCEPT ![a] = p], p \notin Ending, UNCHANGED cur
        PROVE  Alone'
    BY <1>0, <1>4, <2>0, <2>1
  <2>2. CASE \/ ConfigureAgain(a) \/ Address(a) \/ SetUp(a) \/ AddRoutes(a)
             \/ LookupGateway(a) \/ AddPeerRoute(a) \/ RecordRoute(a) \/ SetDNS(a)
    <3>1. UNCHANGED cur /\ \E p \in BringUp : pc' = [pc EXCEPT ![a] = p]
      BY <2>2 DEF ConfigureAgain, Address, SetUp, AddRoutes, LookupGateway,
         AddPeerRoute, RecordRoute, SetDNS, Goto, BringUp
    <3> QED
      BY <1>p, <2>1, <3>1 DEF BringUp
  <2>3. CASE Finish(a)
    <3>1. CASE Goto(a, "done") /\ UNCHANGED cur
      BY <1>p, <2>1, <3>1 DEF Goto
    <3>2. CASE cur' = [cur EXCEPT ![a] = a] /\ Goto(a, "mark")
      <4>1. cur'[a] = a /\ \A u \in Thread \ {a} : cur'[u] = cur[u]
        BY <1>0, <3>2
      <4>2. NameOf(a) = Serves(a)
        BY <1>0 DEF Serves
      <4>3. pc' = [pc EXCEPT ![a] = "mark"]
        BY <3>2 DEF Goto
      <4> QED
        BY <1>0, <1>4, <2>0, <4>1, <4>2, <4>3
    <3> QED
      BY <2>3, <3>1, <3>2 DEF Finish
  <2> QED
    BY <1>9, <2>2, <2>3 DEF BringUpStep
<1>10. CASE \/ OnLinkEvent \/ UnderlayMoves \/ UNCHANGED vars
            \/ \E n \in Name : LinkVanishes(n)
  <2>1. UNCHANGED <<pc, name, cur>>
    BY <1>10 DEF OnLinkEvent, UnderlayMoves, LinkVanishes, vars
  <2>2. \A u \in Thread : Busy(u)' => Busy(u)
    BY <2>1 DEF Busy
  <2> QED
    BY <2>1, <2>2, AloneFrame
<1> QED
  BY <1>0, <1>2, <1>3, <1>5, <1>6, <1>7, <1>8, <1>9, <1>10
  DEF Next, ClientStep, ACStep

\* Nobody records, forgets or changes a route to a peer, except by removing it.
LEMMA RecordsFrame ==
    ASSUME TypeOK, Refs, [Next]_vars, Records,
           UNCHANGED <<vpnRoutes, via>>,
           \A h \in Host : peerRoute'[h] \in {peerRoute[h], None},
           \A a \in AC : pc[a] = "record" => pc'[a] = "record",
           \A t \in Thread : pc'[t] = "forget" => pc[t] = "forget" /\ cur'[t] = cur[t]
    PROVE  Records'
<1> SUFFICES ASSUME NEW h \in Host, peerRoute'[h] # None
             PROVE  \E a \in AC : Recorder(a, h)' /\ ~Forgotten(a)'
  BY DEF Records
<1>0. peerRoute'[h] = peerRoute[h]
  OBVIOUS
<1>1. PICK a \in AC : Recorder(a, h) /\ ~Forgotten(a)
  BY <1>0 DEF Records
<1>2. Recorder(a, h)'
  BY <1>0, <1>1, NameKept DEF Recorder, SameDevice
<1>3. ~Forgotten(a)'
  BY <1>1 DEF Forgotten
<1> QED
  BY <1>2, <1>3

LEMMA RecordsStep ==
    ASSUME TypeOK, Refs, Alone, Records, [Next]_vars
    PROVE  Records'
<1>0. /\ Client \subseteq Thread /\ AC \subseteq Thread /\ Client \cap AC = {}
      /\ pc \in [Thread -> PC] /\ cur \in [Thread -> AC \cup {None}]
      /\ via \in [AC -> Via \cup {None}] /\ peerRoute \in [Host -> Via \cup {None}]
      /\ vpnRoutes \in [AC -> SUBSET (Via \X Host)]
      /\ new \in [Client -> AC \cup {None}]
  BY VpnConstants DEF TypeOK, Thread
<1>n. \A a \in AC : pc[a] # "unborn" => NameOf(a)' = NameOf(a)
  BY NameKept DEF SameDevice
<1> USE DEF kernel, registry, acVars, locals
\* A connection at work is deactivated by nobody but itself.
<1>1. ASSUME NEW a \in AC, NEW t \in Thread, Busy(a), pc[t] \in Ending, cur[t] = a
      PROVE  t = a
  BY <1>0, <1>1 DEF Alone, Serves, Busy, Ending, Teardown
\* A goroutine moves, neither from nor to where records change.
<1>2. ASSUME NEW t \in Thread, NEW p, pc[t] # "record", p # "forget",
             pc' = [pc EXCEPT ![t] = p],
             \A u \in Thread \ {t} : cur'[u] = cur[u],
             UNCHANGED <<peerRoute, vpnRoutes, via>>
      PROVE  Records'
  <2>1. pc'[t] = p /\ \A u \in Thread \ {t} : pc'[u] = pc[u]
    BY <1>0, <1>2
  <2>2. \A a \in AC : pc[a] = "record" => pc'[a] = "record"
    BY <1>0, <1>2, <2>1
  <2>3. \A u \in Thread : pc'[u] = "forget" => pc[u] = "forget" /\ cur'[u] = cur[u]
    BY <1>2, <2>1
  <2> QED
    BY <1>2, <2>2, <2>3, RecordsFrame
<1>3. ASSUME NEW c \in Client, NEW a \in AC, NEW n \in Name, Activate(c, a, n)
      PROVE  Records'
  BY <1>0, <1>2, <1>3 DEF Activate, Begin, Goto
<1>4. ASSUME NEW c \in Client, NEW a \in AC, Deactivate(c, a) PROVE Records'
  <2>1. /\ \A u \in Thread \ {c} : cur'[u] = cur[u]
        /\ pc[c] = "idle" /\ pc' = [pc EXCEPT ![c] = "mark"]
        /\ UNCHANGED <<peerRoute, vpnRoutes, via>>
    BY <1>0, <1>4 DEF Deactivate, Begin, Goto
  <2> QED
    BY <1>0, <1>2, <2>1
<1>5. ASSUME NEW c \in Client,
             \/ Lookup(c) \/ ConfigureNew(c) \/ RegisterSeen(c) \/ Deadline(c)
             \/ Old(c)
      PROVE  Records'
  <2>1. /\ pc[c] # "record" /\ UNCHANGED <<peerRoute, vpnRoutes, via>>
        /\ \A u \in Thread \ {c} : cur'[u] = cur[u]
        /\ \E p \in {"old", "configure", "seen", "wait", "idle", "mark",
                     "create"} : pc' = [pc EXCEPT ![c] = p]
    <3>1. CASE Lookup(c) \/ RegisterSeen(c)
      BY <3>1 DEF Lookup, RegisterSeen, Goto
    <3>2. CASE ConfigureNew(c) \/ Deadline(c)
      BY <3>2 DEF ConfigureNew, Deadline, Fail, Goto
    <3>3. CASE Old(c)
      BY <1>0, <3>3 DEF Old, Goto
    <3> QED
      BY <1>5, <3>1, <3>2, <3>3
  <2> QED
    BY <1>0, <1>2, <2>1
<1>6. ASSUME NEW c \in Client, Create(c) PROVE Records'
  <2>1. new[c] \in AC /\ pc[new[c]] = "unborn"
    BY <1>0, <1>6, VpnConstants DEF Create, Refs, Requests, Asking
  <2>2. /\ pc[c] = "create" /\ UNCHANGED <<cur, peerRoute, vpnRoutes, via>>
        /\ pc' = [pc EXCEPT ![c] = "idle", ![new[c]] = "bringUp"]
    BY <1>6 DEF Create
  <2>3. \A u \in Thread : \/ pc'[u] = pc[u]
                          \/ /\ pc'[u] \in {"idle", "bringUp"}
                             /\ pc[u] \in {"create", "unborn"}
    BY <1>0, <2>1, <2>2
  <2>4. \A a \in AC : pc[a] = "record" => pc'[a] = "record"
    BY <1>0, <2>3
  <2>5. \A u \in Thread : pc'[u] = "forget" => pc[u] = "forget" /\ cur'[u] = cur[u]
    BY <2>2, <2>3
  <2> QED
    BY <2>2, <2>4, <2>5, RecordsFrame
\* tearDownWireGuard removes what it forgets.
<1>7. ASSUME NEW t \in Thread, TearDownWireGuard(t) PROVE Records'
  <2> SUFFICES ASSUME NEW h \in Host, peerRoute'[h] # None
               PROVE  \E a \in AC : Recorder(a, h)' /\ ~Forgotten(a)'
    BY DEF Records
  <2>1. cur[t] \in AC /\ UNCHANGED <<via, cur>>
    BY <1>7 DEF TearDownWireGuard, Refs, Current, Ending, Teardown
  <2>2. CASE pc[t] = "delRoutes"
    <3>1. /\ DelRoutes(cur[t]) /\ pc' = [pc EXCEPT ![t] = "forget"]
          /\ UNCHANGED vpnRoutes
      BY <1>7, <2>2 DEF TearDownWireGuard, Goto
    <3>2. /\ peerRoute'[h] = peerRoute[h]
          /\ <<peerRoute[h], h>> \notin vpnRoutes[cur[t]]
      BY <3>1 DEF DelRoutes
    <3>3. PICK a \in AC : Recorder(a, h) /\ ~Forgotten(a)
      BY <3>2 DEF Records
    <3>4. a # cur[t]
      <4>1. CASE pc[a] = "record"
        BY <1>1, <2>1, <2>2, <4>1 DEF Busy, Ending, Teardown
      <4>2. CASE pc[a] # "record"
        BY <3>2, <3>3, <4>2 DEF Recorder
      <4> QED
        BY <4>1, <4>2
    <3>5. pc[a] = "record" => pc'[a] = "record"
      BY <1>0, <2>2, <3>1
    <3>6. Recorder(a, h)'
      BY <1>n, <2>1, <3>1, <3>2, <3>3, <3>5 DEF Recorder
    <3>7. ~Forgotten(a)'
      BY <1>0, <2>1, <3>1, <3>3, <3>4 DEF Forgotten
    <3> QED
      BY <3>6, <3>7
  <2>3. CASE pc[t] = "forget"
    <3>1. /\ vpnRoutes' = [vpnRoutes EXCEPT ![cur[t]] = {}]
          /\ pc' = [pc EXCEPT ![t] = "remove"] /\ UNCHANGED peerRoute
      BY <1>7, <2>3 DEF TearDownWireGuard, Goto
    <3>2. PICK a \in AC : Recorder(a, h) /\ ~Forgotten(a)
      BY <3>1 DEF Records
    <3>3. a # cur[t]
      BY <2>3, <3>2 DEF Forgotten
    <3>4. pc[a] = "record" => pc'[a] = "record"
      BY <1>0, <2>3, <3>1
    <3>5. vpnRoutes'[a] = vpnRoutes[a]
      BY <1>0, <3>1, <3>3
    <3>6. Recorder(a, h)'
      BY <1>n, <2>1, <3>1, <3>2, <3>4, <3>5 DEF Recorder
    <3>7. ~Forgotten(a)'
      BY <1>0, <2>1, <3>1, <3>2 DEF Forgotten
    <3> QED
      BY <3>6, <3>7
  <2> QED
    BY <1>7, <2>2, <2>3 DEF TearDownWireGuard
<1>8. ASSUME NEW t \in Thread, DeactivateStep(t) PROVE Records'
  <2>0. pc[t] # "record"
    BY <1>8 DEF DeactivateStep, Mark, TearDownWireGuard, Remove, FlushAndRevert,
       Drop
  <2>1. ASSUME Deactivated(t), UNCHANGED <<peerRoute, vpnRoutes>> PROVE Records'
    <3>1. /\ \A u \in Thread \ {t} : cur'[u] = cur[u]
          /\ \E p \in {"done", "idle", "create"} : pc' = [pc EXCEPT ![t] = p]
          /\ UNCHANGED via
      BY <1>0, <2>1 DEF Deactivated, Goto
    <3> QED
      BY <1>2, <2>0, <2>1, <3>1
  <2>2. CASE Mark(t)
    <3>1. UNCHANGED <<peerRoute, vpnRoutes>>
      BY <2>2 DEF Mark
    <3>2. CASE cur[t] \in gone
      BY <2>1, <2>2, <3>1, <3>2 DEF Mark
    <3>3. CASE cur[t] \notin gone
      BY <1>2, <2>0, <2>2, <3>1, <3>3 DEF Mark, Goto
    <3> QED
      BY <3>2, <3>3
  <2>3. CASE Remove(t) \/ FlushAndRevert(t)
    BY <1>2, <2>0, <2>3 DEF Remove, FlushAndRevert, Goto
  <2>4. CASE Drop(t)
    BY <2>1, <2>4 DEF Drop
  <2> QED
    BY <1>7, <1>8, <2>2, <2>3, <2>4 DEF DeactivateStep
\* A bring-up adds its route and its record of it while nobody tears it down.
<1>9. ASSUME NEW a \in AC, AddPeerRoute(a), Goto(a, "record") PROVE Records'
  <2> DEFINE g == HostOf[NameOf(a)]
  <2>0. pc[a] = "peer" /\ pc' = [pc EXCEPT ![a] = "record"] /\ ~Goto(a, "dns")
    <3>1. pc' = [pc EXCEPT ![a] = "record"]
      BY <1>9 DEF Goto
    <3>2. pc'[a] = "record"
      BY <1>0, <3>1
    <3>3. ~Goto(a, "dns")
      BY <1>0, <3>2 DEF Goto
    <3> QED
      BY <1>9, <3>1, <3>3 DEF AddPeerRoute
  <2>1. /\ pc[a] = "peer" /\ pc' = [pc EXCEPT ![a] = "record"]
        /\ UNCHANGED <<vpnRoutes, via, cur>>
    BY <1>9, <2>0 DEF AddPeerRoute
  <2>2. peerRoute' = [peerRoute EXCEPT ![g] = via[a]]
    BY <1>9, <2>0 DEF AddPeerRoute
  <2>3. \A b \in AC \ {a} : pc[b] = "record" => pc'[b] = "record"
    BY <1>0, <2>1
  <2>4. \A t \in Thread : pc'[t] = "forget" => pc[t] = "forget"
    BY <1>0, <2>1
  <2>5. HostOf[NameOf(a)'] = g
    BY <1>n, <2>1
  <2> HIDE DEF g
  <2> SUFFICES ASSUME NEW h \in Host, peerRoute'[h] # None
               PROVE  \E b \in AC : Recorder(b, h)' /\ ~Forgotten(b)'
    BY DEF Records
  <2>6. CASE h = g
    <3>1. peerRoute'[h] = via[a] /\ pc'[a] = "record"
      BY <1>0, <2>1, <2>2, <2>6
    <3>2. Recorder(a, h)'
      BY <2>1, <2>5, <2>6, <3>1 DEF Recorder
    <3>3. ~Forgotten(a)'
      BY <1>1, <2>1, <2>4 DEF Forgotten, Busy, Ending, Teardown
    <3> QED
      BY <3>2, <3>3
  <2>7. CASE h # g
    <3>1. peerRoute'[h] = peerRoute[h]
      BY <1>0, <2>2, <2>7
    <3>2. PICK b \in AC : Recorder(b, h) /\ ~Forgotten(b)
      BY <3>1 DEF Records
    <3>3. pc[b] = "record" => pc'[b] = "record"
      BY <2>1, <2>3
    <3>4. Recorder(b, h)'
      BY <1>n, <2>1, <3>1, <3>2, <3>3 DEF Recorder
    <3>5. ~Forgotten(b)'
      BY <2>1, <2>4, <3>2 DEF Forgotten
    <3> QED
      BY <3>4, <3>5
  <2> QED
    BY <2>6, <2>7
<1>10. ASSUME NEW a \in AC, RecordRoute(a) PROVE Records'
  <2>1. /\ pc[a] = "record" /\ pc' = [pc EXCEPT ![a] = "dns"]
        /\ vpnRoutes' = [vpnRoutes EXCEPT
                           ![a] = @ \cup {<<via[a], HostOf[NameOf(a)]>>}]
        /\ via' = [via EXCEPT ![a] = None]
        /\ UNCHANGED <<peerRoute, cur>>
    BY <1>10 DEF RecordRoute, Goto
  <2> SUFFICES ASSUME NEW h \in Host, peerRoute'[h] # None
               PROVE  \E b \in AC : Recorder(b, h)' /\ ~Forgotten(b)'
    BY DEF Records
  <2>2. PICK b \in AC : Recorder(b, h) /\ ~Forgotten(b)
    BY <2>1 DEF Records
  <2>3. ~Forgotten(b)'
    BY <1>0, <2>1, <2>2 DEF Forgotten
  <2>4. Recorder(b, h)'
    <3>1. CASE b = a
      <4>1. vpnRoutes'[a] = vpnRoutes[a] \cup {<<via[a], HostOf[NameOf(a)]>>}
        BY <1>0, <2>1
      <4> QED
        BY <2>1, <2>2, <3>1, <4>1 DEF Recorder
    <3>2. CASE b # a
      <4>1. vpnRoutes'[b] = vpnRoutes[b] /\ via'[b] = via[b]
        BY <1>0, <2>1, <3>2
      <4>2. pc[b] = "record" => pc'[b] = "record"
        BY <1>0, <2>1, <3>2
      <4> QED
        BY <1>n, <2>1, <2>2, <4>1, <4>2 DEF Recorder
    <3> QED
      BY <3>1, <3>2
  <2> QED
    BY <2>3, <2>4
\* A bring-up that is not at its record may change the way it found.
<1>11. ASSUME NEW a \in AC, NEW p, pc[a] # "record", p \notin {"record", "forget"},
              pc' = [pc EXCEPT ![a] = p],
              \A b \in AC \ {a} : via'[b] = via[b],
              \A u \in Thread \ {a} : cur'[u] = cur[u],
              UNCHANGED <<peerRoute, vpnRoutes>>
       PROVE  Records'
  <2>1. pc'[a] = p /\ \A u \in Thread \ {a} : pc'[u] = pc[u]
    BY <1>0, <1>11
  <2> SUFFICES ASSUME NEW h \in Host, peerRoute'[h] # None
               PROVE  \E b \in AC : Recorder(b, h)' /\ ~Forgotten(b)'
    BY DEF Records
  <2>2. PICK b \in AC : Recorder(b, h) /\ ~Forgotten(b)
    BY <1>11 DEF Records
  <2>3. ~Forgotten(b)'
    BY <1>11, <2>1, <2>2 DEF Forgotten
  <2>4. pc[b] = "record" => b # a /\ pc'[b] = "record" /\ via'[b] = via[b]
    BY <1>0, <1>11, <2>1
  <2>5. Recorder(b, h)'
    BY <1>n, <1>11, <2>2, <2>4 DEF Recorder
  <2> QED
    BY <2>3, <2>5
<1>12. ASSUME NEW a \in AC, BringUpStep(a) PROVE Records'
  <2>1. CASE AddPeerRoute(a)
    <3>1. CASE Goto(a, "record")
      BY <1>9, <2>1, <3>1
    <3>2. CASE UNCHANGED peerRoute /\ Goto(a, "dns") /\ via' = [via EXCEPT ![a] = None]
      BY <1>0, <1>11, <2>1, <3>2 DEF AddPeerRoute, Goto
    <3> QED
      BY <2>1, <3>1, <3>2 DEF AddPeerRoute
  <2>2. CASE RecordRoute(a)
    BY <1>10, <2>2
  <2>3. CASE \/ ConfigureAgain(a) \/ Address(a) \/ SetUp(a) \/ AddRoutes(a)
             \/ LookupGateway(a) \/ SetDNS(a)
    <3>1. /\ pc[a] # "record" /\ UNCHANGED <<peerRoute, vpnRoutes, cur>>
          /\ \A b \in AC \ {a} : via'[b] = via[b]
          /\ \E p \in {"address", "failed", "setUp", "routes", "dns", "gateway",
                       "peer", "ok"} : pc' = [pc EXCEPT ![a] = p]
      BY <1>0, <2>3 DEF ConfigureAgain, Address, SetUp, AddRoutes, LookupGateway,
         SetDNS, Goto
    <3> QED
      BY <1>0, <1>11, <3>1
  <2>4. CASE Finish(a)
    <3>1. /\ pc[a] # "record" /\ UNCHANGED <<peerRoute, vpnRoutes, via>>
          /\ \A u \in Thread \ {a} : cur'[u] = cur[u]
          /\ \E p \in {"done", "mark"} : pc' = [pc EXCEPT ![a] = p]
      <4>1. CASE Goto(a, "done") /\ UNCHANGED cur
        BY <2>4, <4>1 DEF Finish, Goto
      <4>2. CASE cur' = [cur EXCEPT ![a] = a] /\ Goto(a, "mark")
        BY <1>0, <2>4, <4>2 DEF Finish, Goto
      <4> QED
        BY <2>4, <4>1, <4>2 DEF Finish
    <3> QED
      BY <1>0, <1>11, <3>1
  <2> QED
    BY <1>12, <2>1, <2>2, <2>3, <2>4 DEF BringUpStep
<1>13. CASE \/ OnLinkEvent \/ UnderlayMoves \/ UNCHANGED vars
            \/ \E n \in Name : LinkVanishes(n)
  <2>1. /\ UNCHANGED <<vpnRoutes, via, pc, cur>>
        /\ \A h \in Host : peerRoute'[h] \in {peerRoute[h], None}
    BY <1>13 DEF OnLinkEvent, UnderlayMoves, LinkVanishes, vars
  <2> QED
    BY <2>1, RecordsFrame
<1> QED
  BY <1>0, <1>3, <1>4, <1>5, <1>6, <1>8, <1>12, <1>13 DEF Next, ClientStep, ACStep

\* With clients that wait for a tunnel to be at rest, every route to a peer in
\* the kernel is recorded by a connection, whose teardown will remove it - for
\* any number of tunnels that share peers, while links go and the underlay
\* moves.  The lock-free ac.vpnRoutes needs the one goroutine per tunnel.
THEOREM EndpointRoutesRecorded ==
    Discipline = "considerate" => (Spec => []PeerRoutesRecorded)
<1> SUFFICES ASSUME Discipline = "considerate" PROVE Spec => []PeerRoutesRecorded
  OBVIOUS
<1>1. Init => Alone /\ Records
  <2> SUFFICES ASSUME Init PROVE Alone /\ Records
    OBVIOUS
  <2>1. \A t \in Thread : ~Busy(t) /\ pc[t] \notin Ending
    BY DEF Init, Busy, Ending, Teardown
  <2> QED
    BY <2>1 DEF Init, Alone, Records
<1>2. TypeOK /\ Refs /\ Alone /\ Records /\ [Next]_vars => Alone' /\ Records'
  BY AloneStep, RecordsStep
<1>3. Records => PeerRoutesRecorded
  BY DEF Records, Recorder, PeerRoutesRecorded
<1> QED
  BY <1>1, <1>2, <1>3, TypeCorrect, PTL DEF Spec

-----------------------------------------------------------------------------
\* What every step does to the links, their events and the Devices of tunnels

\* The last waiting event of a link tells whether the link is there, and a link
\* that has no Device has an event waiting.
Last(k) == \A j \in DOMAIN events : j > k => events[j].name # events[k].name

Announced ==
    /\ \A k \in DOMAIN events :
          Last(k) => (events[k].present <=> link[events[k].name] # 0)
    /\ \A n \in Name : link[n] # 0 /\ devByIface[n] = 0 =>
          \E k \in DOMAIN events : events[k].name = n

LEMMA Notified ==
    ASSUME TypeOK, NEW n \in Name, NEW i \in Nat, NEW b \in BOOLEAN,
           Notify(n, i, b)
    PROVE  /\ Len(events) \in Nat /\ DOMAIN events = 1 .. Len(events)
           /\ DOMAIN events' = 1 .. Len(events) + 1
           /\ \A k \in DOMAIN events : events'[k] = events[k]
           /\ events'[Len(events) + 1] = [name |-> n, index |-> i, present |-> b]
<1> DEFINE e == [name |-> n, index |-> i, present |-> b]
<1>1. events \in Seq(LinkEvents) /\ e \in LinkEvents
  BY DEF TypeOK, LinkEvents
<1>2. events' = Append(events, e)
  BY DEF Notify
<1> HIDE DEF e
<1>3. /\ events' \in Seq(LinkEvents) /\ Len(events') = Len(events) + 1
      /\ \A k \in 1 .. Len(events) : events'[k] = events[k]
      /\ events'[Len(events) + 1] = e
  BY <1>1, <1>2, AppendProperties
<1>4. DOMAIN events = 1 .. Len(events) /\ DOMAIN events' = 1 .. Len(events')
      /\ Len(events) \in Nat
  BY <1>1, <1>3
<1> QED
  BY <1>3, <1>4 DEF e

LEMMA Applied ==
    ASSUME TypeOK, events # <<>>, events' = Tail(events)
    PROVE  /\ Len(events) \in Nat \ {0} /\ DOMAIN events = 1 .. Len(events)
           /\ DOMAIN events' = 1 .. Len(events) - 1
           /\ \A k \in DOMAIN events' : events'[k] = events[k + 1]
           /\ Head(events) = events[1]
           /\ events[1].name \in Name /\ events[1].index \in Nat
           /\ events[1].present \in BOOLEAN
<1>1. events \in Seq(LinkEvents)
  BY DEF TypeOK
<1>2. /\ events' \in Seq(LinkEvents) /\ Len(events') = Len(events) - 1
      /\ \A k \in 1 .. Len(events') : events'[k] = events[k + 1]
  BY <1>1, HeadTailProperties
<1>3. Head(events) = events[1] /\ events[1] \in LinkEvents
      /\ Len(events) \in Nat \ {0}
  BY <1>1
<1> QED
  BY <1>1, <1>2, <1>3 DEF LinkEvents

\* The kinds of steps: none to the links and the Devices' names; a goroutine
\* registers the link it has seen; a link is made, or goes; an event is applied.
Still ==
    /\ UNCHANGED <<link, made, events, devByIface>>
    /\ Kept /\ DOMAIN devices' = DOMAIN devices

LEMMA Effects ==
    ASSUME TypeOK, Refs, [Next]_vars
    PROVE  \/ Still
           \/ \E c \in Client : RegisterSeen(c)
           \/ \E n \in Name : CreateLink(n) /\ UNCHANGED registry
           \/ \E n \in Name : /\ link[n] # 0 /\ DeleteLink(n)
                              /\ UNCHANGED <<made, devices, devByIface>>
           \/ OnLinkEvent
<1>0. \/ Kept /\ DOMAIN devices' = DOMAIN devices
      \/ devices' # devices
  BY DEF Kept, TypeOK
<1> USE DEF kernel, registry, acVars, locals
<1>1. ASSUME NEW c \in Client, ClientStep(c), ~DeactivateStep(c)
      PROVE  \/ Still \/ RegisterSeen(c)
             \/ \E n \in Name : CreateLink(n) /\ UNCHANGED registry
  <2>1. CASE Lookup(c) \/ Deadline(c) \/ Old(c)
    BY <1>0, <2>1 DEF Lookup, Deadline, Old, Still
  <2>2. CASE ConfigureNew(c)
    <3>1. name[c] \in Name
      BY <2>2 DEF ConfigureNew, Refs, Requests
    <3> QED
      BY <2>2, <3>1 DEF ConfigureNew
  <2>3. CASE Create(c)
    <3>1. new[c] \in AC /\ held[c] \in DOMAIN devices
      BY <2>3 DEF Create, Refs, Requests, Asking, TypeOK
    <3> QED
      BY <2>3, <3>1, SetActive DEF Create, Still
  <2> QED
    BY <1>1, <2>1, <2>2, <2>3 DEF ClientStep
<1>2. ASSUME NEW t \in Thread, DeactivateStep(t)
      PROVE  \/ Still
             \/ \E n \in Name : /\ link[n] # 0 /\ DeleteLink(n)
                                /\ UNCHANGED <<made, devices, devByIface>>
  <2>0. cur[t] \in AC /\ device[cur[t]] \in DOMAIN devices
    BY <1>2 DEF DeactivateStep, Mark, TearDownWireGuard, Remove, FlushAndRevert,
       Drop, Refs, Current, Born, Ending, Teardown
  <2>1. CASE Mark(t) \/ TearDownWireGuard(t) \/ FlushAndRevert(t)
    BY <1>0, <2>1 DEF Mark, TearDownWireGuard, FlushAndRevert, Still
  <2>2. CASE Remove(t)
    <3>1. devices[device[cur[t]]] \in DeviceTypes
      BY <2>0 DEF TypeOK
    <3>2. NameOf(cur[t]) \in Name
      BY <3>1 DEF NameOf, DeviceTypes
    <3> QED
      BY <1>0, <2>2, <3>2 DEF Remove, Still
  <2>3. CASE Drop(t)
    BY <2>0, <2>3, SetActive DEF Drop, Still
  <2> QED
    BY <1>2, <2>1, <2>2, <2>3 DEF DeactivateStep
<1>3. ASSUME NEW a \in AC, BringUpStep(a)
      PROVE  Still \/ \E n \in Name : CreateLink(n) /\ UNCHANGED registry
  <2>1. CASE ConfigureAgain(a)
    <3>1. devices[device[a]] \in DeviceTypes
      BY <2>1 DEF ConfigureAgain, Refs, Born, TypeOK
    <3>2. NameOf(a) \in Name
      BY <3>1 DEF NameOf, DeviceTypes
    <3> QED
      BY <2>1, <3>2 DEF ConfigureAgain
  <2> QED
    BY <1>0, <1>3, <2>1 DEF BringUpStep, Address, SetUp, AddRoutes,
       LookupGateway, AddPeerRoute, RecordRoute, SetDNS, Finish, Still
<1>4. CASE \/ \E c \in Client, a \in AC, n \in Name : Activate(c, a, n)
           \/ \E c \in Client, a \in AC : Deactivate(c, a)
           \/ UnderlayMoves \/ UNCHANGED vars
  BY <1>0, <1>4 DEF Activate, Deactivate, Begin, UnderlayMoves, vars, Still
<1>5. CASE \E n \in Name : LinkVanishes(n)
  BY <1>5 DEF LinkVanishes
<1> QED
  BY <1>1, <1>2, <1>3, <1>4, <1>5 DEF Next, ACStep, Thread

LEMMA AnnouncedStep ==
    ASSUME TypeOK, Refs, Announced, [Next]_vars
    PROVE  Announced'
<1>0. /\ link \in [Name -> Nat] /\ made \in Nat
      /\ devByIface \in [Name -> 0 .. Len(devices)] /\ Len(devices) \in Nat
      /\ \A k \in DOMAIN events : events[k].name \in Name
  <2>1. \A k \in DOMAIN events : events[k] \in LinkEvents
    BY DEF TypeOK
  <2> QED
    BY <2>1 DEF TypeOK, LinkEvents
<1>1. CASE Still
  BY <1>1 DEF Still, Announced, Last
<1>2. ASSUME NEW c \in Client, RegisterSeen(c) PROVE Announced'
  <2>1. UNCHANGED <<link, events>> /\ Register(name[c], held[c])
    BY <1>2 DEF RegisterSeen, kernel
  <2>2. \A n \in Name : devByIface'[n] = 0 => devByIface[n] = 0
    BY <1>0, <2>1 DEF Register, registry
  <2> QED
    BY <2>1, <2>2 DEF Announced, Last
\* One more event, for the change of the link it is about
<1>3. ASSUME NEW n \in Name, NEW i \in Nat, NEW b \in BOOLEAN, Notify(n, i, b),
             NEW j \in Nat, link' = [link EXCEPT ![n] = j], b <=> j # 0,
             UNCHANGED devByIface
      PROVE  Announced'
  <2> DEFINE N == Len(events)
  <2>1. /\ N \in Nat /\ DOMAIN events = 1 .. N /\ DOMAIN events' = 1 .. N + 1
        /\ \A k \in DOMAIN events : events'[k] = events[k]
        /\ events'[N + 1] = [name |-> n, index |-> i, present |-> b]
    BY <1>3, Notified
  <2> HIDE DEF N
  <2>2. ASSUME NEW k \in DOMAIN events', Last(k)'
        PROVE  events'[k].present <=> link'[events'[k].name] # 0
    <3>1. CASE k = N + 1
      <4>1. events'[k].name = n /\ (events'[k].present <=> b)
        BY <2>1, <3>1
      <4> QED
        BY <1>0, <1>3, <4>1
    <3>2. CASE k # N + 1
      <4>1. k \in DOMAIN events /\ N + 1 \in DOMAIN events' /\ N + 1 > k
        BY <2>1, <3>2
      <4>2. events'[k].name # n
        BY <2>1, <2>2, <4>1 DEF Last
      <4>3. Last(k)
        <5> SUFFICES ASSUME NEW j0 \in DOMAIN events, j0 > k
                     PROVE  events[j0].name # events[k].name
          BY DEF Last
        <5>1. j0 \in DOMAIN events' /\ events'[j0] = events[j0]
              /\ events'[k] = events[k]
          BY <2>1, <4>1
        <5> QED
          BY <2>2, <5>1 DEF Last
      <4> QED
        BY <1>0, <1>3, <2>1, <4>1, <4>2, <4>3 DEF Announced
    <3> QED
      BY <3>1, <3>2
  <2>3. ASSUME NEW m \in Name, link'[m] # 0, devByIface'[m] = 0
        PROVE  \E k \in DOMAIN events' : events'[k].name = m
    <3>1. CASE m = n
      BY <2>1, <3>1
    <3>2. CASE m # n
      <4>1. PICK k \in DOMAIN events : events[k].name = m
        BY <1>0, <1>3, <2>3, <3>2 DEF Announced
      <4> QED
        BY <2>1, <4>1
    <3> QED
      BY <3>1, <3>2
  <2> QED
    BY <2>2, <2>3 DEF Announced
<1>4. ASSUME NEW n \in Name, CreateLink(n), UNCHANGED registry PROVE Announced'
  <2>1. CASE link[n] # 0
    BY <1>4, <2>1 DEF CreateLink, registry, Announced, Last
  <2>2. CASE link[n] = 0
    <3>1. /\ link' = [link EXCEPT ![n] = made + 1] /\ Notify(n, made + 1, TRUE)
          /\ UNCHANGED devByIface
      BY <1>4, <2>2, Zenon DEF CreateLink, registry
    <3>2. made + 1 \in Nat /\ made + 1 # 0
      BY <1>0
    <3> QED
      BY <1>3, <3>1, <3>2
  <2> QED
    BY <2>1, <2>2
<1>5. ASSUME NEW n \in Name, link[n] # 0, DeleteLink(n), UNCHANGED devByIface
      PROVE  Announced'
  BY <1>0, <1>3, <1>5 DEF DeleteLink
<1>6. CASE OnLinkEvent
  <2> DEFINE N == Len(events)
  <2>1. /\ N \in Nat \ {0} /\ DOMAIN events = 1 .. N /\ DOMAIN events' = 1 .. N - 1
        /\ \A k \in DOMAIN events' : events'[k] = events[k + 1]
        /\ Head(events) = events[1] /\ events[1].name \in Name
        /\ events[1].present \in BOOLEAN
    BY <1>6, Applied DEF OnLinkEvent
  <2>2. UNCHANGED link
    BY <1>6 DEF OnLinkEvent, kernel
  <2> HIDE DEF N
  <2>3. ASSUME NEW k \in DOMAIN events', Last(k)'
        PROVE  events'[k].present <=> link'[events'[k].name] # 0
    <3>1. k + 1 \in DOMAIN events /\ events'[k] = events[k + 1]
      BY <2>1
    <3>2. ASSUME NEW j \in DOMAIN events, j > k + 1
          PROVE  events[j].name # events[k + 1].name
      <4>1. j - 1 \in DOMAIN events' /\ j - 1 > k /\ (j - 1) + 1 = j
        BY <2>1, <3>2
      <4>2. events'[j - 1] = events[j]
        BY <2>1, <4>1
      <4>3. events'[j - 1].name # events'[k].name
        BY <2>3, <4>1 DEF Last
      <4> QED
        BY <3>1, <4>2, <4>3
    <3> QED
      BY <2>2, <3>1, <3>2 DEF Announced, Last
  <2>4. ASSUME NEW m \in Name, link'[m] # 0, devByIface'[m] = 0
        PROVE  \E k \in DOMAIN events' : events'[k].name = m
    <3>1. ASSUME NEW j \in DOMAIN events, j # 1, events[j].name = m
          PROVE  \E k \in DOMAIN events' : events'[k].name = m
      <4>1. j - 1 \in DOMAIN events' /\ (j - 1) + 1 = j
        BY <2>1, <3>1
      <4>2. events'[j - 1] = events[j]
        BY <2>1, <4>1
      <4> QED
        BY <3>1, <4>1, <4>2
    <3>2. CASE events[1].name # m
      <4>1. devByIface[m] = 0
        BY <1>0, <1>6, <2>1, <2>4, <3>2
        DEF OnLinkEvent, Register, Unregister, registry
      <4>2. PICK j \in DOMAIN events : events[j].name = m
        BY <2>2, <2>4, <4>1 DEF Announced
      <4> QED
        BY <3>1, <3>2, <4>2
    <3>3. CASE events[1].name = m
      <4>1. CASE Last(1)
        <5>1. events[1].present
          BY <2>1, <2>2, <2>4, <3>3, <4>1 DEF Announced
        <5>2. devByIface'[m] # 0
          BY <1>0, <1>6, <2>1, <3>3, <5>1 DEF OnLinkEvent, Register, registry
        <5> QED
          BY <2>4, <5>2
      <4>2. CASE ~Last(1)
        BY <2>1, <3>1, <3>3, <4>2 DEF Last
      <4> QED
        BY <4>1, <4>2
    <3> QED
      BY <3>2, <3>3
  <2> QED
    BY <2>3, <2>4 DEF Announced
<1> QED
  BY <1>1, <1>2, <1>4, <1>5, <1>6, Effects

\* A link of ours never stays without its Device: whoever makes, deletes or
\* registers links, and however late onLinkEvent runs, for any clients at all.
THEOREM LinksShown == Spec => []RestRegistered
<1>1. Init => Announced
  BY DEF Init, Announced
<1>2. TypeOK /\ Refs /\ Announced /\ [Next]_vars => Announced'
  BY AnnouncedStep
<1>3. Announced => RestRegistered
  BY DEF Announced, RestRegistered, Calm
<1> QED
  BY <1>1, <1>2, <1>3, TypeCorrect, PTL DEF Spec

-----------------------------------------------------------------------------
\* A link's index belongs to one name.

\* Somewhere i is taken for the index of the link n.
Sighted(i, n) ==
    \/ link[n] = i /\ i # 0
    \/ \E k \in DOMAIN devices : devices[k].index = i /\ devices[k].name = n
    \/ \E k \in DOMAIN events : events[k].index = i /\ events[k].name = n
    \/ \E c \in Client : pc[c] = "seen" /\ held[c] = i /\ name[c] = n

Numbered ==
    \A i \in Nat, n \in Name : Sighted(i, n) =>
        /\ i # 0 /\ i <= made
        /\ \A m \in Name : Sighted(i, m) => m = n

\* Who waits to register a link found it under the name.
SeenFrom(c) ==
    pc'[c] = "seen" =>
       /\ name'[c] = name[c]
       /\ \/ pc[c] = "seen" /\ held'[c] = held[c]
          \/ held'[c] = link[name[c]] /\ held'[c] # 0 /\ name[c] \in Name

LEMMA SeenStep ==
    ASSUME TypeOK, Refs, [Next]_vars, NEW c \in Client
    PROVE  SeenFrom(c)
<1>0. /\ Client \subseteq Thread /\ AC \subseteq Thread /\ Client \cap AC = {}
      /\ pc \in [Thread -> PC] /\ held \in [Client -> Nat]
      /\ name \in [Client -> Name \cup {None}] /\ link \in [Name -> Nat]
  BY VpnConstants DEF TypeOK, Thread
<1> USE DEF locals
<1>1. ASSUME NEW t \in Thread, NEW p, pc' = [pc EXCEPT ![t] = p], p # "seen",
             \A d \in Client \ {t} : name'[d] = name[d] /\ held'[d] = held[d]
      PROVE  SeenFrom(c)
  BY <1>0, <1>1 DEF SeenFrom
<1>2. ASSUME NEW d \in Client, ClientStep(d), ~DeactivateStep(d) PROVE SeenFrom(c)
  <2>1. CASE Lookup(d)
    <3>1. name[d] \in Name
      BY <2>1 DEF Lookup, Refs, Requests
    <3> QED
      BY <1>0, <2>1, <3>1 DEF Lookup, Goto, SeenFrom
  <2>2. CASE ConfigureNew(d) \/ Deadline(d)
    <3>1. CASE UNCHANGED <<name, held>> /\ Goto(d, "wait")
      BY <1>0, <1>1, <3>1 DEF Goto
    <3>2. CASE Fail(d)
      BY <1>0, <1>1, <3>2 DEF Fail, Goto
    <3> QED
      BY <2>2, <3>1, <3>2 DEF ConfigureNew, Deadline
  <2>3. CASE RegisterSeen(d)
    BY <1>0, <1>1, <2>3 DEF RegisterSeen, Goto
  <2>4. CASE Old(d)
    BY <1>0, <1>1, <2>4 DEF Old, Goto
  <2>5. CASE Create(d)
    <3>1. new[d] \in AC
      BY <2>5 DEF Create, Refs, Requests, Asking, TypeOK
    <3>2. /\ pc' = [pc EXCEPT ![d] = "idle", ![new[d]] = "bringUp"]
          /\ \A e \in Client \ {d} : name'[e] = name[e] /\ held'[e] = held[e]
      BY <1>0, <2>5 DEF Create
    <3> QED
      BY <1>0, <3>1, <3>2 DEF SeenFrom
  <2> QED
    BY <1>2, <2>1, <2>2, <2>3, <2>4, <2>5 DEF ClientStep
<1>3. ASSUME NEW t \in Thread, DeactivateStep(t) PROVE SeenFrom(c)
  <2>1. ASSUME Deactivated(t) PROVE SeenFrom(c)
    BY <1>0, <1>1, <2>1 DEF Deactivated, Goto
  <2>2. CASE Mark(t)
    BY <1>0, <1>1, <2>1, <2>2 DEF Mark, Goto
  <2>3. CASE TearDownWireGuard(t) \/ Remove(t) \/ FlushAndRevert(t)
    BY <1>0, <1>1, <2>3 DEF TearDownWireGuard, Remove, FlushAndRevert, Goto
  <2> QED
    BY <1>3, <2>1, <2>2, <2>3 DEF DeactivateStep, Drop
<1>4. ASSUME NEW a \in AC, BringUpStep(a) PROVE SeenFrom(c)
  <2>1. /\ \A d \in Client : name'[d] = name[d] /\ held'[d] = held[d]
        /\ \E p \in BringUp \cup {"done", "mark"} : pc' = [pc EXCEPT ![a] = p]
    BY <1>4 DEF BringUpStep, ConfigureAgain, Address, SetUp, AddRoutes,
       LookupGateway, AddPeerRoute, RecordRoute, SetDNS, Finish, Goto, BringUp
  <2> QED
    BY <1>0, <1>1, <2>1 DEF BringUp
<1>5. CASE \/ \E d \in Client, a \in AC, n \in Name : Activate(d, a, n)
           \/ \E d \in Client, a \in AC : Deactivate(d, a)
  <2>1. ASSUME NEW d \in Client, NEW n, NEW dev, NEW p \in {"old", "lookup", "mark"},
               Begin(d, n, dev, p)
        PROVE  SeenFrom(c)
    BY <1>0, <1>1, <2>1 DEF Begin, Goto
  <2>2. ASSUME NEW d \in Client, NEW a \in AC, NEW n \in Name, Activate(d, a, n)
        PROVE  SeenFrom(c)
    BY <2>1, <2>2, Zenon DEF Activate
  <2> QED
    BY <1>5, <2>1, <2>2 DEF Deactivate
<1>6. CASE \/ OnLinkEvent \/ UnderlayMoves \/ UNCHANGED vars
           \/ \E n \in Name : LinkVanishes(n)
  BY <1>6 DEF OnLinkEvent, UnderlayMoves, LinkVanishes, vars, SeenFrom
<1> QED
  BY <1>2, <1>3, <1>4, <1>5, <1>6 DEF Next, ACStep, Thread

\* A number that is new was made for one name.
Fresh(n) ==
    \A i \in Nat, m \in Name : Sighted(i, m)' =>
       Sighted(i, m) \/ (i = made + 1 /\ made' = made + 1 /\ m = n)

LEMMA SightedStep ==
    ASSUME TypeOK, Refs, [Next]_vars
    PROVE  made' \in {made, made + 1} /\ \E n \in Name \cup {None} : Fresh(n)
<1>0. /\ link \in [Name -> Nat] /\ made \in Nat /\ held \in [Client -> Nat]
      /\ devices \in Seq(DeviceTypes)
  BY DEF TypeOK
<1>1. ASSUME NEW i \in Nat, NEW m \in Name,
             \E c \in Client : pc'[c] = "seen" /\ held'[c] = i /\ name'[c] = m
      PROVE  Sighted(i, m)
  BY <1>1, SeenStep DEF SeenFrom, Sighted
<1>2. ASSUME Still PROVE Fresh(None)
  BY <1>1, <1>2 DEF Still, Kept, Fresh, Sighted
\* A Device that is added is of a link that was seen, or had an event.
<1>3. ASSUME NEW n \in Name, NEW j \in Nat, Register(n, j), Sighted(j, n)
      PROVE  \A i \in Nat, m \in Name :
                (\E k \in DOMAIN devices' :
                    devices'[k].index = i /\ devices'[k].name = m)
                => Sighted(i, m)
  <2> SUFFICES ASSUME NEW i \in Nat, NEW m \in Name, NEW k \in DOMAIN devices',
                      devices'[k].index = i, devices'[k].name = m
               PROVE  Sighted(i, m)
    OBVIOUS
  <2>1. CASE k \in DOMAIN devices
    <3>1. devices'[k] = devices[k]
      BY <1>3, <2>1, RegisterKept
    <3> QED
      BY <2>1, <3>1 DEF Sighted
  <2>2. CASE k \notin DOMAIN devices
    <3>1. devices' = Append(devices, [name |-> n, index |-> j, active |-> None])
      BY <1>3, <2>2 DEF Register, registry
    <3>2. [name |-> n, index |-> j, active |-> None] \in DeviceTypes
      BY DEF DeviceTypes
    <3>3. k = Len(devices) + 1
      BY <1>0, <2>2, <3>1, <3>2
    <3>4. devices'[k] = [name |-> n, index |-> j, active |-> None]
      BY <1>0, <3>1, <3>2, <3>3
    <3> QED
      BY <1>3, <3>4
  <2> QED
    BY <2>1, <2>2
<1>4. ASSUME NEW c \in Client, RegisterSeen(c)
      PROVE  made' = made /\ Fresh(None)
  <2>1. /\ name[c] \in Name /\ held[c] \in Nat /\ pc[c] = "seen"
        /\ Register(name[c], held[c]) /\ UNCHANGED <<link, made, events>>
    BY <1>4 DEF RegisterSeen, Refs, Requests, TypeOK, kernel
  <2>2. Sighted(held[c], name[c])
    BY <2>1 DEF Sighted
  <2>3. \A i \in Nat, m \in Name :
                (\E k \in DOMAIN devices' :
                    devices'[k].index = i /\ devices'[k].name = m)
                => Sighted(i, m)
    BY <1>3, <2>1, <2>2
  <2> QED
    BY <1>1, <2>1, <2>3 DEF Fresh, Sighted
<1>5. ASSUME NEW n \in Name, NEW i \in Nat, NEW b \in BOOLEAN, Notify(n, i, b),
             NEW m \in Name, NEW j \in Nat,
             \E k \in DOMAIN events' : events'[k].index = j /\ events'[k].name = m
      PROVE  Sighted(j, m) \/ (j = i /\ m = n)
  <2> DEFINE e == [name |-> n, index |-> i, present |-> b]
  <2>1. PICK k \in DOMAIN events' : events'[k].index = j /\ events'[k].name = m
    BY <1>5
  <2>2. /\ Len(events) \in Nat /\ DOMAIN events = 1 .. Len(events)
        /\ DOMAIN events' = 1 .. Len(events) + 1
        /\ \A l \in DOMAIN events : events'[l] = events[l]
        /\ events'[Len(events) + 1] = e
    BY <1>5, Notified
  <2>3. e.index = i /\ e.name = n
    OBVIOUS
  <2> HIDE DEF e
  <2> QED
    BY <2>1, <2>2, <2>3 DEF Sighted
<1>6. ASSUME NEW n \in Name, CreateLink(n), UNCHANGED registry
      PROVE  made' \in {made, made + 1} /\ Fresh(n)
  <2>1. CASE link[n] # 0
    BY <1>1, <1>6, <2>1 DEF CreateLink, registry, Fresh, Sighted
  <2>2. CASE link[n] = 0
    <3>1. /\ link' = [link EXCEPT ![n] = made + 1] /\ Notify(n, made + 1, TRUE)
          /\ made' = made + 1 /\ UNCHANGED devices
      BY <1>6, <2>2, Zenon DEF CreateLink, registry
    <3>2. made + 1 \in Nat
      BY <1>0
    <3>3. ASSUME NEW m \in Name, NEW j \in Nat,
                 \E k \in DOMAIN events' : events'[k].index = j /\ events'[k].name = m
          PROVE  Sighted(j, m) \/ (j = made + 1 /\ m = n)
      BY <1>5, <3>1, <3>2, <3>3
    <3>4. \A m \in Name, j \in Nat : link'[m] = j => link[m] = j \/ (j = made + 1 /\ m = n)
      BY <1>0, <3>1
    <3> QED
      BY <1>1, <3>1, <3>3, <3>4 DEF Fresh, Sighted
  <2> QED
    BY <2>1, <2>2
<1>7. ASSUME NEW n \in Name, link[n] # 0, DeleteLink(n),
             UNCHANGED <<made, devices, devByIface>>
      PROVE  Fresh(None)
  <2>1. /\ link' = [link EXCEPT ![n] = 0] /\ Notify(n, link[n], FALSE)
        /\ link[n] \in Nat
    BY <1>0, <1>7 DEF DeleteLink
  <2>2. ASSUME NEW m \in Name, NEW j \in Nat,
               \E k \in DOMAIN events' : events'[k].index = j /\ events'[k].name = m
        PROVE  Sighted(j, m)
    <3>1. Sighted(j, m) \/ (j = link[n] /\ m = n)
      BY <1>5, <2>1, <2>2
    <3> QED
      BY <1>7, <3>1 DEF Sighted
  <2>3. \A m \in Name, j \in Nat : link'[m] = j /\ j # 0 => link[m] = j
    BY <1>0, <2>1
  <2> QED
    BY <1>1, <1>7, <2>2, <2>3 DEF Fresh, Sighted
<1>8. CASE OnLinkEvent
  <2>1. /\ Len(events) \in Nat \ {0} /\ DOMAIN events = 1 .. Len(events)
        /\ DOMAIN events' = 1 .. Len(events) - 1
        /\ \A k \in DOMAIN events' : events'[k] = events[k + 1]
        /\ Head(events) = events[1]
        /\ events[1].name \in Name /\ events[1].index \in Nat
    BY <1>8, Applied DEF OnLinkEvent
  <2>2. UNCHANGED <<link, made, pc, held, name>>
    BY <1>8 DEF OnLinkEvent, kernel, locals
  <2>3. 1 \in DOMAIN events /\ Sighted(events[1].index, events[1].name)
    BY <2>1 DEF Sighted
  <2>4. \A i \in Nat, m \in Name :
                (\E k \in DOMAIN devices' :
                    devices'[k].index = i /\ devices'[k].name = m)
                => Sighted(i, m)
    <3>1. CASE UNCHANGED devices
      BY <3>1 DEF Sighted
    <3>2. CASE Register(events[1].name, events[1].index)
      BY <1>3, <2>1, <2>3, <3>2
    <3> QED
      BY <1>8, <2>1, <3>1, <3>2 DEF OnLinkEvent, Unregister
  <2>5. \A k \in DOMAIN events' : k + 1 \in DOMAIN events
    BY <2>1
  <2>6. \A i \in Nat, m \in Name :
           (\E k \in DOMAIN events' : events'[k].index = i /\ events'[k].name = m)
           => Sighted(i, m)
    BY <2>1, <2>5 DEF Sighted
  <2>7. ASSUME NEW i \in Nat, NEW m \in Name, Sighted(i, m)'
        PROVE  Sighted(i, m)
    <3>1. CASE \/ link'[m] = i /\ i # 0
               \/ \E c \in Client : pc'[c] = "seen" /\ held'[c] = i /\ name'[c] = m
      BY <2>2, <3>1 DEF Sighted
    <3> QED
      BY <2>4, <2>6, <2>7, <3>1 DEF Sighted
  <2>8. Fresh(None)
    BY <2>7 DEF Fresh
  <2> QED
    BY <2>2, <2>8
<1> QED
  BY <1>2, <1>4, <1>6, <1>7, <1>8, Effects DEF Still, OnLinkEvent, kernel

LEMMA NumberedStep ==
    ASSUME TypeOK, Refs, Numbered, [Next]_vars
    PROVE  Numbered'
<1>0. made \in Nat /\ made' \in {made, made + 1}
  BY SightedStep DEF TypeOK
<1>1. PICK n \in Name \cup {None} : Fresh(n)
  BY SightedStep
<1>2. ASSUME NEW i \in Nat, NEW m \in Name, Sighted(i, m)'
      PROVE  Sighted(i, m) \/ (i = made + 1 /\ made' = made + 1 /\ m = n)
  BY <1>1, <1>2 DEF Fresh
<1>3. \A m \in Name : ~Sighted(made + 1, m)
  BY <1>0 DEF Numbered
<1> QED
  BY <1>0, <1>2, <1>3 DEF Numbered

-----------------------------------------------------------------------------
\* Listed connections, their Devices and who serves them, for considerate
\* clients

\* A listed connection is its Device's; a connection that is brought up or torn
\* down is listed, and its own goroutine tears down no other.
Listed ==
    /\ \A a \in activeConns : devices[device[a]].active = a
    /\ \A a \in AC : pc[a] \in BringUp => a \in activeConns
    /\ \A t \in Thread : pc[t] \in Ending => cur[t] \in activeConns
    /\ \A a \in AC : pc[a] \in Ending => cur[a] = a

\* A listed connection is gone only while it is torn down, and activated once
\* its goroutine is done.
Marked ==
    /\ \A a \in activeConns :
          /\ a \in gone => \E t \in Thread : pc[t] \in Teardown /\ cur[t] = a
          /\ ~Busy(a) => a \in activated
    /\ \A a \in gone : pc[a] # "unborn"

\* A request that activates and has found its Device
Owns(c) == new[c] # None /\ pc[c] \in {"old", "create"} \cup Ending

\* What is brought up, and what a request found, is on the newest Device of the
\* tunnel that any connection is on.
Newest ==
    /\ \A a \in activeConns :
          devByIface[NameOf(a)] # 0 => device[a] <= devByIface[NameOf(a)]
    /\ \A b \in AC : pc[b] \in BringUp =>
          \A a \in activeConns \ {b} :
              NameOf(a) = NameOf(b) => device[a] < device[b]
    /\ \A c \in Client : Owns(c) =>
          /\ devByIface[name[c]] # 0 => held[c] <= devByIface[name[c]]
          /\ \A a \in activeConns : NameOf(a) = name[c] =>
                /\ device[a] <= held[c]
                /\ pc[c] = "create" => device[a] # held[c]
                /\ pc[c] \in Ending /\ device[a] = held[c] => a = cur[c]

LEMMA Kinds ==
    ASSUME TypeOK
    PROVE  /\ Client \subseteq Thread /\ AC \subseteq Thread /\ Client \cap AC = {}
           /\ Thread = Client \cup AC /\ None \notin AC /\ None \notin Host
           /\ pc \in [Thread -> PC] /\ cur \in [Thread -> AC \cup {None}]
           /\ name \in [Client -> Name \cup {None}] /\ held \in [Client -> Nat]
           /\ new \in [Client -> AC \cup {None}]
           /\ device \in [AC -> 0 .. Len(devices)]
           /\ devByIface \in [Name -> 0 .. Len(devices)]
           /\ Len(devices) \in Nat /\ DOMAIN devices = 1 .. Len(devices)
           /\ activeConns \subseteq AC
           /\ \A k \in DOMAIN devices :
                 /\ devices[k].name \in Name /\ devices[k].index \in Nat
                 /\ devices[k].active \in AC \cup {None}
<1>1. \A k \in DOMAIN devices : devices[k] \in DeviceTypes
  BY DEF TypeOK
<1> QED
  BY <1>1, VpnConstants, SMTT(30) DEF TypeOK, Thread, DeviceTypes

LEMMA Places ==
    /\ Ending = {"mark", "delRoutes", "forget", "remove", "flush", "drop"}
    /\ Teardown = {"delRoutes", "forget", "remove", "flush", "drop"}
    /\ BringUp = {"bringUp", "address", "setUp", "routes", "gateway", "peer",
                  "record", "dns", "ok", "failed"}
    /\ \A t : Busy(t) <=> pc[t] \notin {"idle", "unborn", "done"}
    /\ \A t : Busy(t)' <=> pc'[t] \notin {"idle", "unborn", "done"}
  BY DEF Ending, Teardown, BringUp, Busy

\* A connection that somebody works on is worked on by nobody else.
LEMMA Sole ==
    ASSUME TypeOK, Refs, Alone
    PROVE  /\ \A t \in Thread : pc[t] \in Ending => Busy(t) /\ Serves(t) = NameOf(cur[t])
           /\ \A t, u \in Thread :
                 pc[t] \in Ending /\ Busy(u) /\ Serves(u) = NameOf(cur[t]) => t = u
           /\ \A a \in AC, t \in Thread :
                 Busy(a) /\ pc[t] \in Ending /\ NameOf(cur[t]) = NameOf(a) => t = a
           /\ \A a, b \in AC :
                 Busy(a) /\ Busy(b) /\ NameOf(a) = NameOf(b) => a = b
           /\ \A a \in AC : Serves(a) = NameOf(a)
           /\ \A c \in Client : Serves(c) = name[c]
<1>1. /\ \A a \in AC : Serves(a) = NameOf(a)
      /\ \A c \in Client : Serves(c) = name[c]
  BY Kinds DEF Serves
<1>2. \A t \in Thread : pc[t] \in Ending => Busy(t) /\ Serves(t) = NameOf(cur[t])
  BY Places DEF Alone
<1> QED
  BY <1>1, <1>2, Kinds DEF Alone

\* A deactivation that begins is the first one of its connection, and a
\* bring-up that ends was not superseded.
LEMMA NotGone ==
    ASSUME TypeOK, Refs, Alone, Listed, Marked
    PROVE  /\ \A t \in Thread : pc[t] = "mark" => cur[t] \notin gone
           /\ \A a \in AC : pc[a] \in BringUp => a \notin gone
<1>1. ASSUME NEW t \in Thread, pc[t] = "mark", cur[t] \in gone PROVE FALSE
  <2>1. pc[t] \in Ending /\ cur[t] \in activeConns
    BY <1>1, Places DEF Listed
  <2>2. PICK u \in Thread : pc[u] \in Teardown /\ cur[u] = cur[t]
    BY <1>1, <2>1 DEF Marked
  <2>3. pc[u] \in Ending /\ u = t
    BY <2>1, <2>2, Sole, Places
  <2> QED
    BY <1>1, <2>2, <2>3, Places
<1>2. ASSUME NEW a \in AC, pc[a] \in BringUp, a \in gone PROVE FALSE
  <2>1. a \in activeConns /\ Busy(a)
    BY <1>2, Places DEF Listed
  <2>2. PICK u \in Thread : pc[u] \in Teardown /\ cur[u] = a
    BY <1>2, <2>1 DEF Marked
  <2>3. u = a
    BY <2>1, <2>2, Sole, Places
  <2> QED
    BY <1>2, <2>2, <2>3, Places
<1> QED
  BY <1>1, <1>2

\* How a goroutine moves when no connection is created or dropped
CourseOf(t) ==
    /\ pc'[t] \in BringUp => pc[t] \in BringUp
    /\ pc'[t] \in Ending => \/ pc[t] \in Ending /\ cur'[t] = cur[t]
                            \/ /\ cur'[t] \in activeConns
                               /\ t \in AC => cur'[t] = t
    /\ pc'[t] = "unborn" => pc[t] = "unborn"
    /\ pc[t] \in Teardown => pc'[t] \in Teardown /\ cur'[t] = cur[t]
    /\ t \in AC /\ ~Busy(t)' => ~Busy(t) \/ t \in activated'

\* How a request moves: it finds its Device, and what is active on it.
RequestOf(c) ==
    new'[c] # None /\ pc'[c] \in {"old", "create"} \cup Ending =>
       \/ /\ Owns(c) /\ name'[c] = name[c] /\ held'[c] = held[c]
          /\ pc'[c] = "create" =>
                \/ pc[c] = "create"
                \/ pc[c] = "old" /\ devices[held[c]].active \notin activeConns
          /\ pc'[c] \in Ending =>
                \/ pc[c] \in Ending /\ cur'[c] = cur[c]
                \/ cur'[c] = devices[held[c]].active
       \/ /\ pc'[c] = "old" /\ name'[c] \in Name
          /\ held'[c] = devByIface[name'[c]] /\ held'[c] # 0

Course ==
    /\ UNCHANGED <<activeConns, device>> /\ activated \subseteq activated'
    /\ \A k \in DOMAIN devices : devices'[k].active = devices[k].active
    /\ \A a \in gone' \ gone :
          \E t \in Thread : pc'[t] \in Teardown /\ cur'[t] = a
    /\ \A t \in Thread : CourseOf(t)
    /\ \A c \in Client : RequestOf(c)

\* One goroutine moves, and takes its course.
LEMMA CourseMove ==
    ASSUME TypeOK, NEW t \in Thread, NEW p, pc' = [pc EXCEPT ![t] = p],
           UNCHANGED <<activeConns, device>>, activated \subseteq activated',
           \A k \in DOMAIN devices : devices'[k].active = devices[k].active,
           \A a \in gone' \ gone : p \in Teardown /\ cur'[t] = a,
           \A u \in Thread \ {t} : cur'[u] = cur[u],
           \A d \in Client \ {t} :
              name'[d] = name[d] /\ held'[d] = held[d] /\ new'[d] = new[d],
           CourseOf(t), t \in Client => RequestOf(t)
    PROVE  Course
<1>1. pc'[t] = p /\ \A u \in Thread \ {t} : pc'[u] = pc[u]
  BY Kinds
<1>2. ASSUME NEW u \in Thread \ {t} PROVE CourseOf(u)
  BY <1>1, <1>2, Places DEF CourseOf
<1>3. ASSUME NEW c \in Client \ {t} PROVE RequestOf(c)
  BY <1>1, <1>3, Kinds DEF RequestOf, Owns
<1> QED
  BY <1>1, <1>2, <1>3 DEF Course

LEMMA Courses ==
    ASSUME TypeOK, Refs, Alone, Listed, Marked, [Next]_vars
    PROVE  \/ Course
           \/ \E c \in Client : Create(c)
           \/ \E t \in Thread : Drop(t)
<1> USE Kinds, Places DEF kernel, registry, acVars, locals
<1>1. ASSUME NEW c \in Client, NEW a \in AC, NEW n \in Name, Activate(c, a, n)
      PROVE  Course
  <2>1. /\ pc[c] = "idle" /\ UNCHANGED <<devices, activeConns, device, gone, activated, cur>>
        /\ name' = [name EXCEPT ![c] = n] /\ new' = [new EXCEPT ![c] = a]
        /\ held' = [held EXCEPT ![c] = devByIface[n]]
        /\ \/ devByIface[n] # 0 /\ pc' = [pc EXCEPT ![c] = "old"]
           \/ pc' = [pc EXCEPT ![c] = "lookup"]
    BY <1>1, Zenon DEF Activate, Begin, Goto
  <2>2. CourseOf(c) /\ RequestOf(c)
    BY <2>1 DEF CourseOf, RequestOf
  <2> QED
    BY <2>1, <2>2, CourseMove
<1>2. ASSUME NEW c \in Client, NEW a \in AC, Deactivate(c, a) PROVE Course
  <2>1. /\ pc[c] = "idle" /\ UNCHANGED <<devices, activeConns, device, gone, activated, new>>
        /\ name' = [name EXCEPT ![c] = NameOf(a)] /\ cur' = [cur EXCEPT ![c] = a]
        /\ held' = [held EXCEPT ![c] = 0] /\ a \in activeConns
        /\ pc' = [pc EXCEPT ![c] = "mark"]
    BY <1>2 DEF Deactivate, Begin, Goto
  <2>2. new[c] = None
    BY <2>1 DEF Refs, Requests
  <2>3. CourseOf(c) /\ RequestOf(c)
    BY <2>1, <2>2 DEF CourseOf, RequestOf
  <2> QED
    BY <2>1, <2>3, CourseMove
<1>3. ASSUME NEW c \in Client, Lookup(c) \/ Deadline(c) \/ ConfigureNew(c)
      PROVE  Course
  <2>1. /\ pc[c] \in {"lookup", "wait", "configure"}
        /\ UNCHANGED <<devices, activeConns, device, gone, activated, cur>>
        /\ \A d \in Client \ {c} :
              name'[d] = name[d] /\ held'[d] = held[d] /\ new'[d] = new[d]
    BY <1>3 DEF Lookup, Deadline, ConfigureNew, Fail
  <2>2. name[c] \in Name
    BY <2>1 DEF Refs, Requests
  <2>3. CASE /\ pc' = [pc EXCEPT ![c] = "old"] /\ devByIface[name[c]] # 0
             /\ held' = [held EXCEPT ![c] = devByIface[name[c]]] /\ name' = name
    <3>1. CourseOf(c) /\ RequestOf(c)
      BY <2>1, <2>2, <2>3 DEF CourseOf, RequestOf
    <3> QED
      BY <2>1, <2>3, <3>1, CourseMove
  <2>4. ASSUME NEW p \in {"configure", "seen", "wait", "idle"},
               pc' = [pc EXCEPT ![c] = p]
        PROVE  Course
    <3>1. CourseOf(c) /\ RequestOf(c)
      BY <2>1, <2>4 DEF CourseOf, RequestOf
    <3> QED
      BY <2>1, <2>4, <3>1, CourseMove
  <2> QED
    BY <1>3, <2>3, <2>4 DEF Lookup, Deadline, ConfigureNew, Fail, Goto
<1>4. ASSUME NEW c \in Client, RegisterSeen(c) PROVE Course
  <2>1. /\ name[c] \in Name /\ Register(name[c], held[c]) /\ pc[c] = "seen"
        /\ pc' = [pc EXCEPT ![c] = "wait"]
        /\ UNCHANGED <<activeConns, device, gone, activated, locals>>
    BY <1>4 DEF RegisterSeen, Goto, Refs, Requests
  <2>2. \A k \in DOMAIN devices : devices'[k] = devices[k]
    BY <2>1, RegisterKept
  <2>3. CourseOf(c) /\ RequestOf(c)
    BY <2>1 DEF CourseOf, RequestOf
  <2> QED
    BY <2>1, <2>2, <2>3, CourseMove
<1>5. ASSUME NEW c \in Client, Old(c) PROVE Course
  <2> DEFINE old == devices[held[c]].active
  <2>1. /\ pc[c] = "old" /\ UNCHANGED <<devices, activeConns, device, gone, activated>>
        /\ UNCHANGED <<name, held, new>>
    BY <1>5 DEF Old
  <2>2. new[c] # None
    BY <2>1 DEF Refs, Requests, Asking
  <2>3. CASE old \in activeConns /\ cur' = [cur EXCEPT ![c] = old] /\ Goto(c, "mark")
    <3>1. cur'[c] = old /\ pc' = [pc EXCEPT ![c] = "mark"] /\ pc'[c] = "mark"
          /\ \A u \in Thread \ {c} : cur'[u] = cur[u]
      BY <2>3 DEF Goto
    <3>2. CourseOf(c)
      BY <2>1, <2>3, <3>1 DEF CourseOf
    <3>3. RequestOf(c)
      BY <2>1, <2>2, <2>3, <3>1 DEF RequestOf, Owns
    <3> HIDE DEF old
    <3> QED
      BY <2>1, <3>1, <3>2, <3>3, CourseMove
  <2>4. CASE old \notin activeConns /\ Goto(c, "create") /\ UNCHANGED cur
    <3>1. pc' = [pc EXCEPT ![c] = "create"] /\ pc'[c] = "create"
      BY <2>4 DEF Goto
    <3>2. CourseOf(c)
      BY <2>1, <3>1 DEF CourseOf
    <3>3. RequestOf(c)
      BY <2>1, <2>2, <2>4, <3>1 DEF RequestOf, Owns
    <3> QED
      BY <2>1, <2>4, <3>1, <3>2, <3>3, CourseMove
  <2> QED
    BY <1>5, <2>3, <2>4 DEF Old
<1>6. ASSUME NEW t \in Thread, DeactivateStep(t), ~Drop(t) PROVE Course
  <2>1. CASE Mark(t)
    <3>1. cur[t] \notin gone
      BY <2>1, NotGone DEF Mark
    <3>2. /\ pc[t] = "mark" /\ gone' = gone \cup {cur[t]}
          /\ pc' = [pc EXCEPT ![t] = "delRoutes"]
          /\ UNCHANGED <<devices, activeConns, device, activated, locals>>
      BY <2>1, <3>1 DEF Mark, Goto
    <3>3. CourseOf(t) /\ (t \in Client => RequestOf(t))
      BY <3>2 DEF CourseOf, RequestOf, Owns
    <3> QED
      BY <3>2, <3>3, CourseMove
  <2>2. CASE TearDownWireGuard(t) \/ Remove(t) \/ FlushAndRevert(t)
    <3>1. UNCHANGED <<devices, activeConns, device, gone, activated, locals>>
      BY <2>2 DEF TearDownWireGuard, Remove, FlushAndRevert
    <3>2. PICK p \in {"forget", "remove", "flush", "drop"} :
             /\ pc[t] \in {"delRoutes", "forget", "remove", "flush"}
             /\ pc' = [pc EXCEPT ![t] = p]
      BY <2>2 DEF TearDownWireGuard, Remove, FlushAndRevert, Goto
    <3>3. CourseOf(t) /\ (t \in Client => RequestOf(t))
      BY <3>1, <3>2 DEF CourseOf, RequestOf, Owns
    <3> QED
      BY <3>1, <3>2, <3>3, CourseMove
  <2> QED
    BY <1>6, <2>1, <2>2 DEF DeactivateStep
<1>7. ASSUME NEW a \in AC, BringUpStep(a) PROVE Course
  <2>1. CASE \/ ConfigureAgain(a) \/ Address(a) \/ SetUp(a) \/ AddRoutes(a)
             \/ LookupGateway(a) \/ AddPeerRoute(a) \/ RecordRoute(a) \/ SetDNS(a)
    <3>1. /\ UNCHANGED <<devices, activeConns, device, gone, activated, cur>>
          /\ UNCHANGED <<name, held, new>>
      BY <2>1 DEF ConfigureAgain, Address, SetUp, AddRoutes, LookupGateway,
         AddPeerRoute, RecordRoute, SetDNS
    <3>2. pc[a] \in BringUp /\ \E p \in BringUp : pc' = [pc EXCEPT ![a] = p]
      BY <2>1 DEF ConfigureAgain, Address, SetUp, AddRoutes, LookupGateway,
         AddPeerRoute, RecordRoute, SetDNS, Goto
    <3>3. CourseOf(a)
      BY <3>2 DEF CourseOf
    <3> QED
      BY <3>1, <3>2, <3>3, CourseMove
  <2>2. CASE Finish(a)
    <3>1. /\ pc[a] \in {"ok", "failed"} /\ a \notin gone
          /\ UNCHANGED <<devices, activeConns, device, gone, name, held, new>>
      BY <2>2, NotGone DEF Finish
    <3>2. CASE /\ activated' = activated \cup {a} /\ Goto(a, "done") /\ UNCHANGED cur
      <4>1. CourseOf(a) /\ pc' = [pc EXCEPT ![a] = "done"]
        BY <3>1, <3>2 DEF CourseOf, Goto
      <4> QED
        BY <3>1, <3>2, <4>1, CourseMove
    <3>3. CASE cur' = [cur EXCEPT ![a] = a] /\ Goto(a, "mark") /\ UNCHANGED activated
      <4>1. CourseOf(a) /\ pc' = [pc EXCEPT ![a] = "mark"]
        BY <3>1, <3>3 DEF CourseOf, Goto, Listed
      <4> QED
        BY <3>1, <3>3, <4>1, CourseMove
    <3> QED
      BY <2>2, <3>1, <3>2, <3>3 DEF Finish
  <2> QED
    BY <1>7, <2>1, <2>2 DEF BringUpStep
<1>8. CASE \/ OnLinkEvent \/ UnderlayMoves \/ UNCHANGED vars
           \/ \E n \in Name : LinkVanishes(n)
  <2>1. UNCHANGED <<pc, activeConns, device, gone, activated, locals>>
    BY <1>8 DEF OnLinkEvent, UnderlayMoves, LinkVanishes, vars
  <2>2. \A k \in DOMAIN devices : devices'[k].active = devices[k].active
    <3>1. CASE OnLinkEvent
      <4>1. events[1].name \in Name /\ events[1].index \in Nat /\ Head(events) = events[1]
        BY <3>1, Applied DEF OnLinkEvent
      <4>2. CASE Register(events[1].name, events[1].index)
        BY <4>1, <4>2, RegisterKept
      <4> QED
        BY <3>1, <4>1, <4>2 DEF OnLinkEvent, Unregister
    <3> QED
      BY <1>8, <3>1 DEF UnderlayMoves, LinkVanishes, vars
  <2>3. \A t \in Thread : CourseOf(t)
    BY <2>1 DEF CourseOf
  <2>4. \A c \in Client : RequestOf(c)
    BY <2>1 DEF RequestOf, Owns
  <2> QED
    BY <2>1, <2>2, <2>3, <2>4 DEF Course
<1> QED
  BY <1>1, <1>2, <1>3, <1>4, <1>5, <1>6, <1>7, <1>8
  DEF Next, ClientStep, ACStep

\* What Drop and Create do
Dropped(t) ==
    /\ cur[t] \in AC /\ device[cur[t]] \in DOMAIN devices
    /\ pc[t] = "drop" /\ activeConns' = activeConns \ {cur[t]}
    /\ UNCHANGED <<device, gone, activated, held, new>> /\ Kept
    /\ \A k \in DOMAIN devices : k # device[cur[t]] =>
          devices'[k].active = devices[k].active
    /\ pc'[t] \in {"done", "idle", "create"}
    /\ pc'[t] = "create" => t \in Client /\ new[t] # None /\ name' = name
    /\ \A u \in Thread \ {t} : pc'[u] = pc[u] /\ cur'[u] = cur[u]
    /\ \A d \in Client \ {t} : name'[d] = name[d]

Created(c, a) ==
    /\ a = new[c] /\ pc[a] = "unborn" /\ a \notin activeConns
    /\ held[c] \in DOMAIN devices /\ name[c] \in Name
    /\ devices[held[c]].name = name[c]
    /\ pc[c] = "create" /\ Owns(c) /\ activeConns' = activeConns \cup {a}
    /\ UNCHANGED <<gone, activated, cur, devByIface>> /\ Kept
    /\ device'[a] = held[c] /\ devices'[held[c]].active = a
    /\ \A b \in AC \ {a} : device'[b] = device[b]
    /\ \A k \in DOMAIN devices : k # held[c] =>
          devices'[k].active = devices[k].active
    /\ NameOf(a)' = name[c]
    /\ pc'[a] = "bringUp" /\ pc'[c] = "idle" /\ new'[c] = None
    /\ \A u \in Thread \ {a, c} : pc'[u] = pc[u]
    /\ \A d \in Client \ {c} :
          name'[d] = name[d] /\ held'[d] = held[d] /\ new'[d] = new[d]

LEMMA DropEffect ==
    ASSUME TypeOK, Refs, NEW t \in Thread, Drop(t) PROVE Dropped(t)
<1> USE Kinds
<1>1. cur[t] \in AC /\ device[cur[t]] \in DOMAIN devices
  BY DEF Drop, Refs, Current, Born, Ending, Teardown
<1>2. /\ pc[t] = "drop" /\ activeConns' = activeConns \ {cur[t]}
      /\ UNCHANGED <<device, gone, activated, held, new>>
      /\ devices' = [devices EXCEPT ![device[cur[t]]].active = None]
      /\ Deactivated(t)
  BY DEF Drop, Deactivated
<1>3. /\ Kept
      /\ \A k \in DOMAIN devices : k # device[cur[t]] =>
            devices'[k].active = devices[k].active
  BY <1>1, <1>2, SetActive
<1>4. /\ pc'[t] \in {"done", "idle", "create"}
      /\ pc'[t] = "create" => t \in Client /\ new[t] # None /\ name' = name
      /\ \A u \in Thread \ {t} : pc'[u] = pc[u] /\ cur'[u] = cur[u]
      /\ \A d \in Client \ {t} : name'[d] = name[d]
  BY <1>2 DEF Deactivated, Goto
<1> QED
  BY <1>1, <1>2, <1>3, <1>4 DEF Dropped

LEMMA CreateEffect ==
    ASSUME TypeOK, Refs, NEW c \in Client, Create(c)
    PROVE  \E a \in AC : Created(c, a)
<1> USE Kinds
<1>1. PICK a \in AC : a = new[c]
  BY DEF Create, Refs, Requests, Asking
<1>2. /\ pc[c] = "create" /\ activeConns' = activeConns \cup {a}
      /\ device' = [device EXCEPT ![a] = held[c]]
      /\ devices' = [devices EXCEPT ![held[c]].active = a]
      /\ pc' = [pc EXCEPT ![c] = "idle", ![a] = "bringUp"]
      /\ name' = [name EXCEPT ![c] = None] /\ held' = [held EXCEPT ![c] = 0]
      /\ new' = [new EXCEPT ![c] = None]
      /\ UNCHANGED <<gone, activated, cur, devByIface>>
  BY <1>1 DEF Create
<1>3. /\ pc[a] = "unborn" /\ held[c] \in DOMAIN devices /\ name[c] \in Name
      /\ devices[held[c]].name = name[c] /\ a \notin activeConns /\ Owns(c)
  BY <1>1, <1>2 DEF Refs, Requests, Born, Owns
<1>4. /\ Kept /\ devices'[held[c]].active = a
      /\ \A k \in DOMAIN devices : k # held[c] =>
            devices'[k].active = devices[k].active
  <2>1. /\ held[c] \in DOMAIN devices /\ a \in AC \cup {None}
        /\ devices' = [devices EXCEPT ![held[c]].active = a]
    BY <1>2, <1>3
  <2>2. /\ Kept
        /\ \A j \in DOMAIN devices :
              devices'[j].active = IF j = held[c] THEN a ELSE devices[j].active
    BY <2>1, SetActive
  <2> QED
    BY <2>1, <2>2
<1>5. device'[a] = held[c] /\ \A b \in AC \ {a} : device'[b] = device[b]
  BY <1>2
<1>6. NameOf(a)' = name[c]
  BY <1>3, <1>4, <1>5 DEF NameOf, Kept
<1>7. /\ a # c /\ pc'[a] = "bringUp" /\ pc'[c] = "idle" /\ new'[c] = None
      /\ \A u \in Thread \ {a, c} : pc'[u] = pc[u]
      /\ \A d \in Client \ {c} :
            name'[d] = name[d] /\ held'[d] = held[d] /\ new'[d] = new[d]
  BY <1>2
<1> QED
  BY <1>1, <1>2, <1>3, <1>4, <1>5, <1>6, <1>7 DEF Created

\* No connection is listed on the Device that a new one will have.
LEMMA CreateFree ==
    ASSUME TypeOK, Refs, Newest, NEW c \in Client, Create(c)
    PROVE  \A b \in activeConns : device[b] # held[c]
<1>1. /\ pc[c] = "create" /\ Owns(c) /\ devices[held[c]].name = name[c]
  BY CreateEffect DEF Created
<1> QED
  BY <1>1 DEF Newest, NameOf

LEMMA ListedStep ==
    ASSUME TypeOK, Refs, Alone, Listed, Marked, Newest, [Next]_vars
    PROVE  Listed'
<1> USE Kinds, Places DEF Created, Dropped
<1>1. CASE Course
  <2>1. \A a \in activeConns' : devices'[device'[a]].active = a
    BY <1>1 DEF Course, Listed, Refs, Born
  <2>2. \A a \in AC : pc'[a] \in BringUp => a \in activeConns'
    BY <1>1 DEF Course, CourseOf, Listed
  <2>3. \A t \in Thread : pc'[t] \in Ending => cur'[t] \in activeConns'
    BY <1>1 DEF Course, CourseOf, Listed
  <2>4. \A a \in AC : pc'[a] \in Ending => cur'[a] = a
    BY <1>1 DEF Course, CourseOf, Listed
  <2> QED
    BY <2>1, <2>2, <2>3, <2>4 DEF Listed
<1>2. ASSUME NEW c \in Client, Create(c) PROVE Listed'
  <2>1. PICK a \in AC : Created(c, a)
    BY <1>2, CreateEffect
  <2>2. \A b \in activeConns : device[b] # held[c] /\ device[b] \in DOMAIN devices
    <3>1. \A b \in activeConns : device[b] # held[c]
      BY <1>2, CreateFree
    <3> QED
      BY <3>1 DEF Refs, Born
  <2>3. \A b \in activeConns' : devices'[device'[b]].active = b
    BY <2>1, <2>2 DEF Listed
  <2>4. \A b \in AC : pc'[b] \in BringUp => b \in activeConns'
    BY <2>1 DEF Listed
  <2>5. \A t \in Thread : pc'[t] \in Ending => cur'[t] \in activeConns'
    BY <2>1 DEF Listed
  <2>6. \A b \in AC : pc'[b] \in Ending => cur'[b] = b
    BY <2>1 DEF Listed
  <2> QED
    BY <2>3, <2>4, <2>5, <2>6 DEF Listed
<1>3. ASSUME NEW t \in Thread, Drop(t) PROVE Listed'
  <2>1. Dropped(t)
    BY <1>3, DropEffect
  <2>2. cur[t] \in activeConns /\ pc[t] \in Ending
    BY <2>1 DEF Listed
  <2>3. \A b \in activeConns' : devices'[device'[b]].active = b
    BY <2>1, <2>2, SMTT(30) DEF Listed, Refs, Born
  <2>4. ASSUME NEW b \in AC, pc'[b] \in BringUp PROVE b \in activeConns'
    <3>1. b # t /\ pc[b] \in BringUp /\ b \in activeConns /\ Busy(b)
      BY <2>1, <2>4 DEF Listed
    <3>2. b # cur[t]
      BY <2>2, <3>1, Sole
    <3> QED
      BY <2>1, <3>1, <3>2
  <2>5. ASSUME NEW u \in Thread, pc'[u] \in Ending PROVE cur'[u] \in activeConns'
    <3>1. u # t /\ pc[u] \in Ending /\ cur'[u] = cur[u] /\ cur[u] \in activeConns
      BY <2>1, <2>5 DEF Listed
    <3>2. cur[u] # cur[t]
      BY <2>2, <3>1, Sole
    <3> QED
      BY <2>1, <3>1, <3>2
  <2>6. \A b \in AC : pc'[b] \in Ending => cur'[b] = b
    BY <2>1 DEF Listed
  <2> QED
    BY <2>3, <2>4, <2>5, <2>6 DEF Listed
<1> QED
  BY <1>1, <1>2, <1>3, Courses

LEMMA MarkedStep ==
    ASSUME TypeOK, Refs, Alone, Listed, Marked, Newest, [Next]_vars
    PROVE  Marked'
<1> USE Kinds, Places DEF Created, Dropped
<1>0. ASSUME NEW a \in gone' PROVE pc'[a] # "unborn"
  <2>1. CASE Course
    <3>1. CASE a \in gone
      <4>1. a \in AC
        BY <3>1 DEF TypeOK
      <4> QED
        BY <2>1, <3>1, <4>1 DEF Course, CourseOf, Marked
    <3>2. CASE a \notin gone
      <4>1. PICK t \in Thread : pc'[t] \in Teardown /\ cur'[t] = a
        BY <2>1, <3>2 DEF Course
      <4> QED
        BY <4>1, RefsStep DEF Refs, Current
    <3> QED
      BY <3>1, <3>2
  <2>2. ASSUME NEW c \in Client, Create(c) PROVE pc'[a] # "unborn"
    <3>1. PICK b \in AC : Created(c, b)
      BY <2>2, CreateEffect
    <3>2. a \in AC /\ a \in gone
      BY <3>1 DEF TypeOK
    <3> QED
      BY <3>1, <3>2 DEF Marked
  <2>3. ASSUME NEW t \in Thread, Drop(t) PROVE pc'[a] # "unborn"
    <3>1. Dropped(t)
      BY <2>3, DropEffect
    <3>2. a \in AC /\ a \in gone
      BY <3>1 DEF TypeOK
    <3> QED
      BY <3>1, <3>2 DEF Marked
  <2> QED
    BY <2>1, <2>2, <2>3, Courses
<1> SUFFICES ASSUME NEW a \in activeConns'
             PROVE  /\ a \in gone' =>
                          \E t \in Thread : pc'[t] \in Teardown /\ cur'[t] = a
                    /\ ~Busy(a)' => a \in activated'
  BY <1>0 DEF Marked
<1>1. CASE Course
  <2>1. a \in activeConns
    BY <1>1 DEF Course
  <2>2. ASSUME a \in gone' PROVE \E t \in Thread : pc'[t] \in Teardown /\ cur'[t] = a
    <3>1. CASE a \in gone
      <4>1. PICK t \in Thread : pc[t] \in Teardown /\ cur[t] = a
        BY <2>1, <3>1 DEF Marked
      <4> QED
        BY <1>1, <4>1 DEF Course, CourseOf
    <3>2. CASE a \notin gone
      BY <1>1, <2>2, <3>2 DEF Course
    <3> QED
      BY <3>1, <3>2
  <2>3. ~Busy(a)' => a \in activated'
    BY <1>1, <2>1 DEF Course, CourseOf, Marked
  <2> QED
    BY <2>2, <2>3
<1>2. ASSUME NEW c \in Client, Create(c)
      PROVE  /\ a \in gone' =>
                   \E t \in Thread : pc'[t] \in Teardown /\ cur'[t] = a
             /\ ~Busy(a)' => a \in activated'
  <2>1. PICK b \in AC : Created(c, b)
    BY <1>2, CreateEffect
  <2>2. CASE a = b
    <3>1. b \notin gone
      BY <2>1 DEF Marked
    <3> QED
      BY <2>1, <2>2, <3>1
  <2>3. CASE a # b
    <3>1. a \in activeConns /\ a # c /\ pc'[a] = pc[a]
      BY <2>1, <2>3
    <3>2. ASSUME a \in gone'
          PROVE  \E t \in Thread : pc'[t] \in Teardown /\ cur'[t] = a
      <4>1. PICK t \in Thread : pc[t] \in Teardown /\ cur[t] = a
        BY <2>1, <3>1, <3>2 DEF Marked
      <4>2. t # b /\ t # c
        BY <2>1, <4>1
      <4> QED
        BY <2>1, <4>1, <4>2
    <3> QED
      BY <2>1, <3>1, <3>2 DEF Marked
  <2> QED
    BY <2>2, <2>3
<1>3. ASSUME NEW t \in Thread, Drop(t)
      PROVE  /\ a \in gone' =>
                   \E u \in Thread : pc'[u] \in Teardown /\ cur'[u] = a
             /\ ~Busy(a)' => a \in activated'
  <2>1. Dropped(t)
    BY <1>3, DropEffect
  <2>2. a \in activeConns /\ a # cur[t] /\ a # t
    BY <2>1 DEF Listed
  <2>3. ASSUME a \in gone'
        PROVE  \E u \in Thread : pc'[u] \in Teardown /\ cur'[u] = a
    <3>1. PICK u \in Thread : pc[u] \in Teardown /\ cur[u] = a
      BY <2>1, <2>2, <2>3 DEF Marked
    <3> QED
      BY <2>1, <2>2, <3>1
  <2>4. ~Busy(a)' => a \in activated'
    BY <2>1, <2>2 DEF Marked
  <2> QED
    BY <2>3, <2>4
<1> QED
  BY <1>1, <1>2, <1>3, Courses

LEMMA IfaceStep ==
    ASSUME TypeOK, Refs, [Next]_vars, NEW n \in Name
    PROVE  devByIface'[n] \in {0, devByIface[n]} \/ devByIface'[n] = Len(devices) + 1
<1> USE Kinds
<1>1. ASSUME NEW m \in Name, NEW i, Register(m, i)
      PROVE  devByIface'[n] = devByIface[n] \/ devByIface'[n] = Len(devices) + 1
  BY <1>1 DEF Register, registry
<1>2. CASE OnLinkEvent
  <2>1. Head(events) = events[1] /\ events[1].name \in Name
    BY <1>2, Applied DEF OnLinkEvent
  <2> QED
    BY <1>1, <1>2, <2>1 DEF OnLinkEvent, Unregister
<1>3. ASSUME NEW c \in Client, RegisterSeen(c)
      PROVE  devByIface'[n] = devByIface[n] \/ devByIface'[n] = Len(devices) + 1
  BY <1>1, <1>3 DEF RegisterSeen, Refs, Requests
<1> QED
  BY <1>2, <1>3, Effects DEF Still, registry

LEMMA NewestStep ==
    ASSUME TypeOK, Refs, Alone, Listed, Marked, Newest, [Next]_vars
    PROVE  Newest'
<1> USE Kinds, Places DEF Created, Dropped
<1>n. \A a \in activeConns :
         /\ a \in AC /\ NameOf(a)' = NameOf(a) /\ NameOf(a) \in Name
         /\ device[a] \in DOMAIN devices
  BY NameKept DEF Refs, Born, SameDevice, NameOf
<1>i. \A n \in Name :
         devByIface'[n] \in {0, devByIface[n]} \/ devByIface'[n] = Len(devices) + 1
  BY IfaceStep
\* The connections that were listed before
<1>1. ASSUME NEW a \in activeConns, device'[a] = device[a],
             devByIface'[NameOf(a)'] # 0
      PROVE  device'[a] <= devByIface'[NameOf(a)']
  BY <1>1, <1>i, <1>n DEF Newest
<1>2. ASSUME NEW b \in AC, pc[b] \in BringUp, device'[b] = device[b],
             NEW a \in activeConns \ {b}, device'[a] = device[a],
             NameOf(a)' = NameOf(b)'
      PROVE  device'[a] < device'[b]
  BY <1>2, <1>n DEF Newest, Listed
\* A request with the Device that it had
<1>3. ASSUME NEW c \in Client, Owns(c), name'[c] = name[c], held'[c] = held[c],
             devByIface'[name'[c]] # 0
      PROVE  held'[c] <= devByIface'[name'[c]]
  <2>1. held[c] \in DOMAIN devices /\ name[c] \in Name
    BY <1>3 DEF Owns, Refs, Requests
  <2> QED
    BY <1>3, <1>i, <2>1 DEF Newest
<1>4. CASE Course
  <2>1. UNCHANGED <<activeConns, device>>
    BY <1>4 DEF Course
  <2>2. \A a \in activeConns' :
           devByIface'[NameOf(a)'] # 0 => device'[a] <= devByIface'[NameOf(a)']
    BY <1>1, <2>1
  <2>3. ASSUME NEW b \in AC, pc'[b] \in BringUp, NEW a \in activeConns' \ {b},
               NameOf(a)' = NameOf(b)'
        PROVE  device'[a] < device'[b]
    <3>1. pc[b] \in BringUp
      BY <1>4, <2>3 DEF Course, CourseOf
    <3> QED
      BY <1>2, <2>1, <2>3, <3>1
  <2>4. ASSUME NEW c \in Client, Owns(c)'
        PROVE  /\ devByIface'[name'[c]] # 0 => held'[c] <= devByIface'[name'[c]]
               /\ \A a \in activeConns' : NameOf(a)' = name'[c] =>
                     /\ device'[a] <= held'[c]
                     /\ pc'[c] = "create" => device'[a] # held'[c]
                     /\ pc'[c] \in Ending /\ device'[a] = held'[c] => a = cur'[c]
    <3>0. RequestOf(c)
      BY <1>4 DEF Course
    <3>1. CASE /\ Owns(c) /\ name'[c] = name[c] /\ held'[c] = held[c]
               /\ pc'[c] = "create" =>
                     \/ pc[c] = "create"
                     \/ pc[c] = "old" /\ devices[held[c]].active \notin activeConns
               /\ pc'[c] \in Ending =>
                     \/ pc[c] \in Ending /\ cur'[c] = cur[c]
                     \/ cur'[c] = devices[held[c]].active
      <4>1. devByIface'[name'[c]] # 0 => held'[c] <= devByIface'[name'[c]]
        BY <1>3, <3>1
      <4>2. ASSUME NEW a \in activeConns', NameOf(a)' = name'[c]
            PROVE  /\ device'[a] <= held'[c]
                   /\ pc'[c] = "create" => device'[a] # held'[c]
                   /\ pc'[c] \in Ending /\ device'[a] = held'[c] => a = cur'[c]
        <5>1. a \in activeConns /\ NameOf(a) = name[c] /\ device'[a] = device[a]
              /\ devices[device[a]].active = a
          BY <1>n, <2>1, <3>1, <4>2 DEF Listed
        <5>2. /\ device[a] <= held[c]
              /\ pc[c] = "create" => device[a] # held[c]
              /\ pc[c] \in Ending /\ device[a] = held[c] => a = cur[c]
          BY <3>1, <5>1 DEF Newest
        <5> QED
          BY <3>1, <5>1, <5>2
      <4> QED
        BY <4>1, <4>2
    <3>2. CASE /\ pc'[c] = "old" /\ name'[c] \in Name
               /\ held'[c] = devByIface[name'[c]] /\ held'[c] # 0
      <4>1. devByIface'[name'[c]] # 0 => held'[c] <= devByIface'[name'[c]]
        <5>1. PICK n \in Name : n = name'[c] /\ held'[c] = devByIface[n]
          BY <3>2
        <5>2. devByIface[n] \in 0 .. Len(devices)
          OBVIOUS
        <5>3. \/ devByIface'[n] \in {0, devByIface[n]}
              \/ devByIface'[n] = Len(devices) + 1
          BY <1>i
        <5>4. devByIface'[n] # 0 => devByIface[n] <= devByIface'[n]
          BY <5>2, <5>3
        <5> QED
          BY <5>1, <5>4
      <4>2. \A a \in activeConns' : NameOf(a)' = name'[c] => device'[a] <= held'[c]
        BY <1>n, <2>1, <3>2 DEF Newest
      <4> QED
        BY <3>2, <4>1, <4>2
    <3> QED
      BY <2>4, <3>0, <3>1, <3>2 DEF RequestOf, Owns
  <2> QED
    BY <2>2, <2>3, <2>4 DEF Newest
<1>5. ASSUME NEW c \in Client, Create(c) PROVE Newest'
  <2>1. PICK a \in AC : Created(c, a)
    BY <1>5, CreateEffect
  <2>2. \A b \in activeConns : device[b] # held[c]
    BY <1>5, CreateFree
  <2>3. \A b \in activeConns : b # a /\ device'[b] = device[b]
    BY <2>1
  \* Nobody else works on the tunnel.
  <2>4. /\ \A b \in AC : Busy(b) => NameOf(b) # name[c]
        /\ \A d \in Client \ {c} : Busy(d) => name[d] # name[c]
    <3>1. Busy(c) /\ Serves(c) = name[c]
      BY <2>1, Sole
    <3>2. \A u \in Thread : Busy(u) /\ Serves(u) = name[c] => u = c
      BY <3>1 DEF Alone
    <3> QED
      BY <3>2, Sole
  <2>5. ASSUME NEW b \in activeConns', devByIface'[NameOf(b)'] # 0
        PROVE  device'[b] <= devByIface'[NameOf(b)']
    BY <1>1, <2>1, <2>3, <2>5 DEF Newest
  <2>6. ASSUME NEW b \in AC, pc'[b] \in BringUp, NEW d \in activeConns' \ {b},
               NameOf(d)' = NameOf(b)'
        PROVE  device'[d] < device'[b]
    <3>1. CASE b = a
      <4>1. d \in activeConns /\ NameOf(d) = name[c]
        BY <1>n, <2>1, <2>6, <3>1
      <4>2. device[d] <= held[c]
        BY <2>1, <4>1 DEF Newest
      <4> QED
        BY <1>n, <2>1, <2>2, <2>3, <3>1, <4>1, <4>2
    <3>2. CASE b # a
      <4>1. pc[b] \in BringUp /\ b \in activeConns /\ device'[b] = device[b]
        BY <2>1, <2>6, <3>2 DEF Listed
      <4>2. NameOf(b)' # name[c]
        BY <1>n, <2>4, <4>1
      <4> QED
        BY <1>2, <2>1, <2>3, <2>6, <4>1, <4>2
    <3> QED
      BY <3>1, <3>2
  <2>7. ASSUME NEW d \in Client, Owns(d)'
        PROVE  /\ devByIface'[name'[d]] # 0 => held'[d] <= devByIface'[name'[d]]
               /\ \A b \in activeConns' : NameOf(b)' = name'[d] =>
                     /\ device'[b] <= held'[d]
                     /\ pc'[d] = "create" => device'[b] # held'[d]
                     /\ pc'[d] \in Ending /\ device'[b] = held'[d] => b = cur'[d]
    <3>1. d # c /\ d # a
      BY <2>1, <2>7 DEF Owns
    <3>2. /\ Owns(d) /\ Busy(d) /\ name'[d] = name[d] /\ held'[d] = held[d]
          /\ pc'[d] = pc[d] /\ cur'[d] = cur[d] /\ name[d] # name[c]
      BY <2>1, <2>4, <2>7, <3>1 DEF Owns
    <3>3. \A b \in activeConns' : NameOf(b)' = name'[d] =>
             b \in activeConns /\ NameOf(b) = name[d] /\ device'[b] = device[b]
      BY <1>n, <2>1, <2>3, <3>2
    <3>4. devByIface'[name'[d]] # 0 => held'[d] <= devByIface'[name'[d]]
      BY <1>3, <3>2
    <3> QED
      BY <3>2, <3>3, <3>4 DEF Newest
  <2> QED
    BY <2>5, <2>6, <2>7 DEF Newest
<1>6. ASSUME NEW t \in Thread, Drop(t) PROVE Newest'
  <2>1. Dropped(t)
    BY <1>6, DropEffect
  <2>2. \A a \in activeConns' :
           devByIface'[NameOf(a)'] # 0 => device'[a] <= devByIface'[NameOf(a)']
    BY <1>1, <2>1
  <2>3. ASSUME NEW b \in AC, pc'[b] \in BringUp, NEW a \in activeConns' \ {b},
               NameOf(a)' = NameOf(b)'
        PROVE  device'[a] < device'[b]
    <3>1. pc[b] \in BringUp
      BY <2>1, <2>3
    <3> QED
      BY <1>2, <2>1, <2>3, <3>1
  <2>4. ASSUME NEW c \in Client, Owns(c)'
        PROVE  /\ devByIface'[name'[c]] # 0 => held'[c] <= devByIface'[name'[c]]
               /\ \A a \in activeConns' : NameOf(a)' = name'[c] =>
                     /\ device'[a] <= held'[c]
                     /\ pc'[c] = "create" => device'[a] # held'[c]
                     /\ pc'[c] \in Ending /\ device'[a] = held'[c] => a = cur'[c]
    <3>1. /\ Owns(c) /\ name'[c] = name[c] /\ held'[c] = held[c]
          /\ \/ pc'[c] = pc[c] /\ cur'[c] = cur[c]
             \/ c = t /\ pc'[c] = "create"
      <4>1. CASE c = t
        <5>1. pc'[c] = "create"
          BY <2>1, <2>4, <4>1 DEF Owns
        <5> QED
          BY <2>1, <4>1, <5>1 DEF Owns
      <4>2. CASE c # t
        <5>1. /\ pc'[c] = pc[c] /\ cur'[c] = cur[c] /\ name'[c] = name[c]
              /\ held'[c] = held[c] /\ new'[c] = new[c]
          BY <2>1, <4>2
        <5> QED
          BY <2>4, <5>1 DEF Owns
      <4> QED
        BY <4>1, <4>2
    <3>2. devByIface'[name'[c]] # 0 => held'[c] <= devByIface'[name'[c]]
      BY <1>3, <3>1
    <3>3. ASSUME NEW a \in activeConns', NameOf(a)' = name'[c]
          PROVE  /\ a \in activeConns /\ a # cur[t] /\ device'[a] = device[a]
                 /\ device[a] <= held[c]
                 /\ pc[c] = "create" => device[a] # held[c]
                 /\ pc[c] \in Ending /\ device[a] = held[c] => a = cur[c]
      BY <1>n, <2>1, <3>1, <3>3 DEF Newest
    <3> QED
      BY <2>1, <3>1, <3>2, <3>3
  <2> QED
    BY <2>2, <2>3, <2>4 DEF Newest
<1> QED
  BY <1>4, <1>5, <1>6, Courses

\* What holds of the connections of considerate clients
Served == Alone /\ Listed /\ Marked /\ Newest

LEMMA ServedStep ==
    ASSUME TypeOK, Refs, Served, Discipline = "considerate", [Next]_vars
    PROVE  Served'
  BY AloneStep, ListedStep, MarkedStep, NewestStep DEF Served

\* A connection that was born has a tunnel and an index, that of no other tunnel.
LEMMA OneIndex ==
    ASSUME TypeOK, Refs, Numbered, NEW a \in AC, pc[a] # "unborn"
    PROVE  /\ NameOf(a) \in Name /\ IndexOf(a) \in Nat /\ IndexOf(a) # 0
           /\ device[a] \in DOMAIN devices
           /\ \A b \in AC : pc[b] # "unborn" /\ IndexOf(b) = IndexOf(a)
                 => NameOf(b) = NameOf(a)
           /\ \A n \in Name : link[n] = IndexOf(a) => n = NameOf(a)
           /\ Exists(IndexOf(a)) => link[NameOf(a)] = IndexOf(a)
<1>1. \A b \in AC : pc[b] # "unborn" =>
         /\ device[b] \in DOMAIN devices
         /\ NameOf(b) \in Name /\ IndexOf(b) \in Nat
         /\ Sighted(IndexOf(b), NameOf(b))
  BY Kinds DEF Refs, Born, NameOf, IndexOf, Sighted
<1>2. IndexOf(a) # 0 /\ \A m \in Name : Sighted(IndexOf(a), m) => m = NameOf(a)
  BY <1>1 DEF Numbered
<1>3. \A n \in Name : link[n] = IndexOf(a) => n = NameOf(a)
  BY <1>1, <1>2 DEF Sighted
<1>4. \A b \in AC : pc[b] # "unborn" /\ IndexOf(b) = IndexOf(a)
                 => NameOf(b) = NameOf(a)
  BY <1>1, <1>2
<1> QED
  BY <1>1, <1>2, <1>3, <1>4 DEF Exists

\* The indices that addresses and routes are on
Used == addr \cup {r[1] : r \in routes}

\* How far a teardown has come
Cleared(t) ==
    /\ vpnRoutes[cur[t]] = {}
    /\ pc[t] \in {"flush", "drop"} => link[NameOf(cur[t])] = 0
    /\ pc[t] = "drop" => IndexOf(cur[t]) \notin Used /\ dns[NameOf(cur[t])] = None

Late == {"remove", "flush", "drop"}

\* Addresses, routes, name servers and records are those of listed connections,
\* and a connection that is about to be dropped has none.
Residue ==
    /\ \A i \in Used : \E a \in activeConns : IndexOf(a) = i
    /\ \A n \in Name : dns[n] # None => dns[n] \in activeConns /\ NameOf(dns[n]) = n
    /\ \A a \in AC : vpnRoutes[a] # {} => a \in activeConns
    /\ \A t \in Thread : pc[t] \in Late => Cleared(t)

\* Nothing is added, and who comes near the end of a teardown has cleared.
LEMMA ResidueFrame ==
    ASSUME TypeOK, Refs, Listed, Residue, [Next]_vars,
           activeConns \subseteq activeConns', Used' \subseteq Used,
           \A n \in Name : dns'[n] \in {dns[n], None} /\ link'[n] \in {link[n], 0},
           \A a \in AC : vpnRoutes'[a] \subseteq vpnRoutes[a],
           \A t \in Thread : pc'[t] \in Late =>
              (pc'[t] = pc[t] /\ cur'[t] = cur[t]) \/ Cleared(t)'
    PROVE  Residue'
<1> USE Kinds
<1>n. \A a \in activeConns :
         a \in AC /\ NameOf(a)' = NameOf(a) /\ IndexOf(a)' = IndexOf(a)
  BY NameKept DEF Refs, Born, SameDevice
<1>1. \A i \in Used' : \E a \in activeConns' : IndexOf(a)' = i
  BY <1>n DEF Residue
<1>2. \A n \in Name : dns'[n] # None => dns'[n] \in activeConns' /\ NameOf(dns[n])' = n
  <2> SUFFICES ASSUME NEW n \in Name, dns'[n] # None
               PROVE  dns'[n] \in activeConns' /\ NameOf(dns[n])' = n
    OBVIOUS
  <2>1. PICK a \in activeConns : dns'[n] = a /\ dns[n] = a /\ NameOf(a) = n
    BY DEF Residue
  <2>2. NameOf(a)' = n
    BY <1>n, <2>1
  <2> QED
    BY <2>1, <2>2 DEF NameOf
<1>3. \A a \in AC : vpnRoutes'[a] # {} => a \in activeConns'
  BY DEF Residue
<1>4. ASSUME NEW t \in Thread, pc'[t] \in Late PROVE Cleared(t)'
  <2>1. CASE pc'[t] = pc[t] /\ cur'[t] = cur[t]
    <3>1. Cleared(t) /\ cur[t] \in activeConns
      BY <1>4, <2>1, Places DEF Residue, Listed, Late
    <3>2. PICK a \in activeConns : cur[t] = a /\ cur'[t] = a
      BY <2>1, <3>1
    <3>3. a \in AC /\ NameOf(a)' = NameOf(a) /\ IndexOf(a)' = IndexOf(a)
      BY <1>n
    <3>4. NameOf(a) \in Name
      BY <3>3 DEF NameOf, Refs, Born
    <3>5. /\ NameOf(cur[t]) = NameOf(a) /\ NameOf(cur[t])' = NameOf(a)'
          /\ IndexOf(cur[t]) = IndexOf(a) /\ IndexOf(cur[t])' = IndexOf(a)'
      BY <3>2 DEF NameOf, IndexOf
    <3>6. /\ vpnRoutes'[a] = {}
          /\ pc'[t] \in {"flush", "drop"} => link'[NameOf(a)] = 0
          /\ pc'[t] = "drop" => IndexOf(a) \notin Used' /\ dns'[NameOf(a)] = None
      BY <2>1, <3>1, <3>2, <3>3, <3>4, <3>5 DEF Cleared
    <3> QED
      BY <3>2, <3>3, <3>5, <3>6 DEF Cleared
  <2> QED
    BY <1>4, <2>1
<1> QED
  BY <1>1, <1>2, <1>3, <1>4 DEF Residue

\* A goroutine works on the tunnel that it serves, for itself.
LEMMA ResidueWork ==
    ASSUME TypeOK, Refs, Served, Numbered, Residue, [Next]_vars,
           NEW u \in Thread, NEW p, Busy(u), pc[u] \notin Ending, p \notin Ending,
           u \in AC => pc[u] \in BringUp,
           pc' = [pc EXCEPT ![u] = p], UNCHANGED <<cur, activeConns>>,
           \A i \in Used' : i \in Used \/ (u \in AC /\ i = IndexOf(u)),
           \A n \in Name : n # Serves(u) => link'[n] = link[n] /\ dns'[n] = dns[n],
           \A n \in Name : dns'[n] = dns[n] \/ (u \in AC /\ dns'[n] = u),
           \A b \in AC : b = u \/ vpnRoutes'[b] = vpnRoutes[b]
    PROVE  Residue'
<1> USE Kinds
<1>n. \A a \in activeConns :
         a \in AC /\ NameOf(a)' = NameOf(a) /\ IndexOf(a)' = IndexOf(a)
  BY NameKept DEF Refs, Born, SameDevice
<1>s. /\ u \in AC => u \in activeConns /\ Serves(u) = NameOf(u)
      /\ \A t \in Thread : pc[t] \in Ending => NameOf(cur[t]) # Serves(u)
  BY Sole DEF Served, Listed, Alone
<1>1. \A i \in Used' : \E a \in activeConns' : IndexOf(a)' = i
  BY <1>n, <1>s DEF Residue
<1>2. ASSUME NEW n \in Name, dns'[n] # None
      PROVE  dns'[n] \in activeConns' /\ NameOf(dns[n])' = n
  <2>1. CASE dns'[n] = dns[n]
    <3>1. PICK a \in activeConns : dns'[n] = a /\ NameOf(a) = n
      BY <1>2, <2>1 DEF Residue
    <3> QED
      BY <1>n, <3>1 DEF NameOf
  <2>2. CASE dns'[n] # dns[n]
    <3>1. u \in AC /\ dns'[n] = u /\ n = NameOf(u) /\ u \in activeConns
      BY <1>s, <2>2
    <3> QED
      BY <1>n, <3>1 DEF NameOf
  <2> QED
    BY <2>1, <2>2
<1>3. \A a \in AC : vpnRoutes'[a] # {} => a \in activeConns'
  BY <1>s DEF Residue
<1>4. ASSUME NEW t \in Thread, pc'[t] \in Late PROVE Cleared(t)'
  <2>1. t # u /\ pc'[t] = pc[t] /\ cur'[t] = cur[t] /\ pc[t] \in Ending
    BY <1>4, Places DEF Late
  <2>2. Cleared(t) /\ cur[t] \in activeConns
    BY <1>4, <2>1 DEF Residue, Served, Listed
  <2>3. PICK a \in activeConns : cur[t] = a /\ cur'[t] = a
    BY <2>1, <2>2
  <2>4. /\ a \in AC /\ pc[a] # "unborn"
        /\ NameOf(a)' = NameOf(a) /\ IndexOf(a)' = IndexOf(a)
    BY <1>n DEF Refs, Born
  <2>5. /\ NameOf(cur[t]) = NameOf(a) /\ NameOf(cur[t])' = NameOf(a)'
        /\ IndexOf(cur[t]) = IndexOf(a) /\ IndexOf(cur[t])' = IndexOf(a)'
    BY <2>3 DEF NameOf, IndexOf
  <2>6. NameOf(a) \in Name /\ NameOf(a) # Serves(u) /\ (u \in AC => a # u)
    BY <1>s, <2>1, <2>4, <2>5, OneIndex
  <2>7. u \in AC => IndexOf(a) # IndexOf(u)
    <3>1. CASE u \in AC
      <4>1. pc[u] # "unborn"
        BY <3>1, Places
      <4> QED
        BY <1>s, <2>4, <2>6, <3>1, <4>1, OneIndex
    <3> QED
      BY <3>1
  <2>8. vpnRoutes'[a] = vpnRoutes[a]
    BY <2>4, <2>6
  <2>9. /\ vpnRoutes'[a] = {}
        /\ pc'[t] \in {"flush", "drop"} => link'[NameOf(a)] = 0
        /\ pc'[t] = "drop" => IndexOf(a) \notin Used' /\ dns'[NameOf(a)] = None
    BY <2>1, <2>2, <2>3, <2>5, <2>6, <2>7, <2>8 DEF Cleared
  <2> QED
    BY <2>3, <2>4, <2>5, <2>9 DEF Cleared
<1> QED
  BY <1>1, <1>2, <1>3, <1>4 DEF Residue

LEMMA ResidueStep ==
    ASSUME TypeOK, Refs, Served, Numbered, Residue, [Next]_vars
    PROVE  Residue'
<1> USE Kinds, Places DEF kernel, registry, acVars, locals, Late, Used
<1>l. link \in [Name -> Nat] /\ dns \in [Name -> AC \cup {None}]
      /\ vpnRoutes \in [AC -> SUBSET (Via \X Host)]
  BY DEF TypeOK
\* A goroutine moves, and takes nothing with it.
<1>1. ASSUME NEW t \in Thread, NEW p, p \notin Late, pc' = [pc EXCEPT ![t] = p],
             \A u \in Thread \ {t} : cur'[u] = cur[u],
             UNCHANGED <<link, addr, routes, dns, vpnRoutes, activeConns>>
      PROVE  Residue'
  <2>1. \A u \in Thread : pc'[u] \in Late => pc'[u] = pc[u] /\ cur'[u] = cur[u]
    BY <1>1
  <2> QED
    BY <1>1, <2>1, ResidueFrame DEF Served
<1>2. ASSUME NEW c \in Client, NEW a \in AC, NEW n \in Name, Activate(c, a, n)
      PROVE  Residue'
  <2>1. /\ UNCHANGED <<link, addr, routes, dns, vpnRoutes, activeConns, cur>>
        /\ \E p \in {"old", "lookup"} : pc' = [pc EXCEPT ![c] = p]
    BY <1>2 DEF Activate, Begin, Goto
  <2> QED
    BY <1>1, <2>1
<1>3. ASSUME NEW c \in Client, NEW a \in AC, Deactivate(c, a) PROVE Residue'
  <2>1. /\ UNCHANGED <<link, addr, routes, dns, vpnRoutes, activeConns>>
        /\ pc' = [pc EXCEPT ![c] = "mark"]
        /\ \A u \in Thread \ {c} : cur'[u] = cur[u]
    BY <1>3 DEF Deactivate, Begin, Goto
  <2> QED
    BY <1>1, <2>1
<1>4. ASSUME NEW c \in Client, Lookup(c) \/ RegisterSeen(c) \/ Deadline(c) \/ Old(c)
      PROVE  Residue'
  <2>1. /\ UNCHANGED <<link, addr, routes, dns, vpnRoutes, activeConns>>
        /\ \A u \in Thread \ {c} : cur'[u] = cur[u]
        /\ \E p \in {"old", "configure", "seen", "wait", "idle", "mark", "create"} :
              pc' = [pc EXCEPT ![c] = p]
    <3>1. CASE Lookup(c) \/ RegisterSeen(c)
      BY <3>1 DEF Lookup, RegisterSeen, Goto
    <3>2. CASE Deadline(c) \/ Old(c)
      BY <3>2 DEF Deadline, Fail, Old, Goto
    <3> QED
      BY <1>4, <3>1, <3>2
  <2> QED
    BY <1>1, <2>1
<1>5. ASSUME NEW c \in Client, ConfigureNew(c) PROVE Residue'
  <2>1. /\ pc[c] = "configure" /\ CreateLink(name[c])
        /\ UNCHANGED <<addr, routes, dns, vpnRoutes, activeConns, cur>>
        /\ \E p \in {"wait", "idle"} : pc' = [pc EXCEPT ![c] = p]
    BY <1>5 DEF ConfigureNew, Fail, Goto
  <2>2. Serves(c) = name[c] /\ Busy(c) /\ pc[c] \notin Ending /\ c \notin AC
    BY <2>1, Sole DEF Served
  <2>3. \A n \in Name : n # name[c] => link'[n] = link[n]
    <3>1. link' = link \/ link' = [link EXCEPT ![name[c]] = made + 1]
      BY <2>1 DEF CreateLink
    <3> QED
      BY <1>l, <3>1
  <2> QED
    BY <2>1, <2>2, <2>3, ResidueWork
<1>6. ASSUME NEW c \in Client, Create(c) PROVE Residue'
  <2>1. PICK a \in AC : Created(c, a)
    BY <1>6, CreateEffect
  <2>2. UNCHANGED <<link, addr, routes, dns, vpnRoutes>>
    BY <1>6 DEF Create
  <2>3. \A u \in Thread : pc'[u] \in Late => pc'[u] = pc[u] /\ cur'[u] = cur[u]
    BY <2>1 DEF Created
  <2>4. activeConns \subseteq activeConns'
    BY <2>1 DEF Created
  <2> QED
    BY <2>2, <2>3, <2>4, ResidueFrame DEF Served
\* The teardown
<1>7. ASSUME NEW t \in Thread, DeactivateStep(t) PROVE Residue'
  <2>0. pc[t] \in Ending
    BY <1>7 DEF DeactivateStep, Mark, TearDownWireGuard, Remove, FlushAndRevert,
       Drop
  <2>1. PICK a \in AC : cur[t] = a /\ pc[a] # "unborn" /\ a \in activeConns
    BY <2>0 DEF Refs, Current, Served, Listed
  <2>2. /\ NameOf(a) \in Name /\ NameOf(a)' = NameOf(a) /\ IndexOf(a)' = IndexOf(a)
        /\ NameOf(cur[t]) = NameOf(a) /\ IndexOf(cur[t]) = IndexOf(a)
    BY <2>1, OneIndex, NameKept DEF SameDevice, NameOf, IndexOf
  <2>3. ASSUME NEW p, pc' = [pc EXCEPT ![t] = p], cur' = cur,
               UNCHANGED activeConns, Used' \subseteq Used,
               \A n \in Name : dns'[n] \in {dns[n], None} /\ link'[n] \in {link[n], 0},
               \A b \in AC : vpnRoutes'[b] \subseteq vpnRoutes[b],
               p \in Late => /\ vpnRoutes'[a] = {}
                             /\ p \in {"flush", "drop"} => link'[NameOf(a)] = 0
                             /\ p = "drop" => /\ IndexOf(a) \notin Used'
                                              /\ dns'[NameOf(a)] = None
        PROVE  Residue'
    <3>1. ASSUME p \in Late PROVE Cleared(t)'
      <4>1. /\ pc'[t] = p /\ cur'[t] = a /\ NameOf(cur[t])' = NameOf(a)
            /\ IndexOf(cur[t])' = IndexOf(a)
        BY <2>1, <2>2, <2>3 DEF NameOf, IndexOf
      <4> QED
        BY <2>3, <3>1, <4>1 DEF Cleared
    <3>2. \A u \in Thread : pc'[u] \in Late =>
             (pc'[u] = pc[u] /\ cur'[u] = cur[u]) \/ Cleared(u)'
      BY <2>3, <3>1
    <3> QED
      BY <2>3, <3>2, ResidueFrame DEF Served
  <2>4. CASE Mark(t)
    <3>1. /\ pc' = [pc EXCEPT ![t] = "delRoutes"]
          /\ UNCHANGED <<link, addr, routes, dns, vpnRoutes, activeConns, cur>>
      BY <2>4, NotGone DEF Mark, Goto, Served
    <3> QED
      BY <1>1, <3>1
  <2>5. CASE TearDownWireGuard(t)
    <3>1. CASE pc[t] = "delRoutes"
      <4>1. /\ pc' = [pc EXCEPT ![t] = "forget"]
            /\ UNCHANGED <<link, addr, routes, dns, vpnRoutes, activeConns, cur>>
        BY <2>5, <3>1 DEF TearDownWireGuard, Goto
      <4> QED
        BY <1>1, <4>1
    <3>2. CASE pc[t] = "forget"
      <4>1. /\ pc' = [pc EXCEPT ![t] = "remove"]
            /\ vpnRoutes' = [vpnRoutes EXCEPT ![a] = {}]
            /\ UNCHANGED <<link, addr, routes, dns, activeConns, cur>>
        BY <2>1, <2>5, <3>2 DEF TearDownWireGuard, Goto
      <4>2. vpnRoutes'[a] = {} /\ \A b \in AC : vpnRoutes'[b] \subseteq vpnRoutes[b]
        BY <1>l, <4>1
      <4> QED
        BY <2>3, <4>1, <4>2
    <3> QED
      BY <2>5, <3>1, <3>2 DEF TearDownWireGuard
  <2>6. CASE Remove(t)
    <3>0. Cleared(t)
      BY <2>6 DEF Remove, Residue
    <3>1. /\ pc' = [pc EXCEPT ![t] = "flush"] /\ vpnRoutes[a] = {}
          /\ UNCHANGED <<dns, vpnRoutes, activeConns, cur>>
      BY <2>1, <2>6, <3>0 DEF Remove, Goto, Cleared
    <3>2. link'[NameOf(a)] = 0 /\ (\A n \in Name : link'[n] \in {link[n], 0})
          /\ addr' \subseteq addr /\ routes' \subseteq routes
      <4>1. CASE link[NameOf(a)] # 0
        <5>1. DeleteLink(NameOf(a))
          BY <2>2, <2>6, <4>1 DEF Remove
        <5> QED
          BY <1>l, <2>2, <5>1 DEF DeleteLink, Flush
      <4>2. CASE link[NameOf(a)] = 0
        BY <1>l, <2>2, <2>6, <4>2 DEF Remove
      <4> QED
        BY <4>1, <4>2
    <3>3. Used' \subseteq Used
      BY <3>2
    <3> QED
      BY <2>3, <3>1, <3>2, <3>3
  <2>7. CASE FlushAndRevert(t)
    <3>0. Cleared(t)
      BY <2>7 DEF FlushAndRevert, Residue
    <3>1. /\ pc' = [pc EXCEPT ![t] = "drop"] /\ vpnRoutes[a] = {}
          /\ link[NameOf(a)] = 0 /\ pc[t] = "flush"
          /\ UNCHANGED <<link, vpnRoutes, activeConns, cur>>
          /\ addr' = addr \ {IndexOf(a)} /\ routes' = {r \in routes : r[1] # IndexOf(a)}
          /\ dns' = [dns EXCEPT ![NameOf(a)] = None]
      BY <2>1, <2>2, <2>7, <3>0
      DEF FlushAndRevert, Flush, RevertDNS, Goto, Cleared
    <3>2. Used' \subseteq Used /\ IndexOf(a) \notin Used'
      BY <3>1
    <3>3. dns'[NameOf(a)] = None /\ \A n \in Name : dns'[n] \in {dns[n], None}
      BY <1>l, <2>2, <3>1
    <3> QED
      BY <2>3, <3>1, <3>2, <3>3
  <2>8. CASE Drop(t)
    <3>1. Dropped(t)
      BY <2>8, DropEffect
    <3>2. /\ pc[t] = "drop" /\ activeConns' = activeConns \ {a}
          /\ UNCHANGED <<link, addr, routes, dns, vpnRoutes, device>>
          /\ \A u \in Thread \ {t} : pc'[u] = pc[u] /\ cur'[u] = cur[u]
          /\ pc'[t] \notin Late
      BY <2>1, <2>8, <3>1 DEF Drop, Dropped
    <3>3. /\ vpnRoutes[a] = {} /\ IndexOf(a) \notin Used /\ dns[NameOf(a)] = None
      <4>1. Cleared(t)
        BY <3>2 DEF Residue
      <4> QED
        BY <2>1, <2>2, <3>2, <4>1 DEF Cleared
    <3>n. \A b \in activeConns :
             b \in AC /\ NameOf(b)' = NameOf(b) /\ IndexOf(b)' = IndexOf(b)
      BY NameKept DEF Refs, Born, SameDevice
    <3>4. ASSUME NEW i \in Used' PROVE \E b \in activeConns' : IndexOf(b)' = i
      <4>1. PICK b \in activeConns : IndexOf(b) = i
        BY <3>2 DEF Residue
      <4>2. b # a
        BY <3>2, <3>3, <4>1
      <4> QED
        BY <3>2, <3>n, <4>1, <4>2
    <3>5. ASSUME NEW n \in Name, dns'[n] # None
          PROVE  dns'[n] \in activeConns' /\ NameOf(dns[n])' = n
      <4>1. PICK b \in activeConns : dns'[n] = b /\ dns[n] = b /\ NameOf(b) = n
        BY <3>2, <3>5 DEF Residue
      <4>2. b # a
        BY <3>3, <4>1
      <4> QED
        BY <3>2, <3>n, <4>1, <4>2 DEF NameOf
    <3>6. \A b \in AC : vpnRoutes'[b] # {} => b \in activeConns'
      BY <3>2, <3>3 DEF Residue
    <3>7. ASSUME NEW u \in Thread, pc'[u] \in Late PROVE Cleared(u)'
      <4>1. /\ u # t /\ pc'[u] = pc[u] /\ cur'[u] = cur[u] /\ Cleared(u)
            /\ cur[u] \in activeConns
        BY <3>2, <3>7 DEF Residue, Served, Listed
      <4>2. PICK b \in activeConns : cur[u] = b /\ cur'[u] = b
        BY <4>1
      <4>3. /\ NameOf(cur[u])' = NameOf(cur[u]) /\ IndexOf(cur[u])' = IndexOf(cur[u])
        BY <3>n, <4>2 DEF NameOf, IndexOf
      <4> QED
        BY <3>2, <4>1, <4>3 DEF Cleared
    <3> QED
      BY <3>4, <3>5, <3>6, <3>7 DEF Residue
  <2> QED
    BY <1>7, <2>4, <2>5, <2>6, <2>7, <2>8 DEF DeactivateStep
\* The bring-up
<1>8. ASSUME NEW a \in AC, BringUpStep(a) PROVE Residue'
  <2>0. /\ pc[a] \in BringUp /\ Busy(a) /\ pc[a] # "unborn" /\ pc[a] \notin Ending
        /\ Serves(a) = NameOf(a) /\ NameOf(a) \in Name
    <3>1. pc[a] \in BringUp
      BY <1>8 DEF BringUpStep, ConfigureAgain, Address, SetUp, AddRoutes,
         LookupGateway, AddPeerRoute, RecordRoute, SetDNS, Finish
    <3> QED
      BY <3>1, Sole, OneIndex DEF Served
  <2>1. CASE ConfigureAgain(a)
    <3>1. /\ CreateLink(NameOf(a)) /\ UNCHANGED <<addr, routes, dns, vpnRoutes>>
          /\ UNCHANGED <<activeConns, cur>>
          /\ \E p \in {"address", "failed"} : pc' = [pc EXCEPT ![a] = p]
      BY <2>1 DEF ConfigureAgain, Goto
    <3>2. \A n \in Name : n # NameOf(a) => link'[n] = link[n]
      <4>1. link' = link \/ link' = [link EXCEPT ![NameOf(a)] = made + 1]
        BY <3>1 DEF CreateLink
      <4> QED
        BY <1>l, <4>1
    <3> QED
      BY <2>0, <3>1, <3>2, ResidueWork
  <2>2. CASE Address(a)
    <3>1. /\ UNCHANGED <<link, dns, vpnRoutes, activeConns, cur>>
          /\ \E p \in {"setUp", "failed"} : pc' = [pc EXCEPT ![a] = p]
          /\ addr' \subseteq addr \cup {IndexOf(a)} /\ routes' \subseteq routes
      BY <2>2 DEF Address, Goto
    <3>2. \A i \in Used' : i \in Used \/ i = IndexOf(a)
      BY <3>1
    <3> QED
      BY <2>0, <3>1, <3>2, ResidueWork
  <2>3. CASE AddRoutes(a)
    <3>1. /\ UNCHANGED <<link, addr, dns, vpnRoutes, activeConns, cur>>
          /\ \E p \in {"dns", "gateway"} : pc' = [pc EXCEPT ![a] = p]
          /\ routes' \subseteq routes \cup {<<IndexOf(a), Halves(NameOf(a))>>}
      BY <2>3 DEF AddRoutes, Goto
    <3>2. \A i \in Used' : i \in Used \/ i = IndexOf(a)
      BY <3>1
    <3> QED
      BY <2>0, <3>1, <3>2, ResidueWork
  <2>4. CASE RecordRoute(a)
    <3>1. /\ UNCHANGED <<link, addr, routes, dns, activeConns, cur>>
          /\ pc' = [pc EXCEPT ![a] = "dns"]
          /\ vpnRoutes' = [vpnRoutes EXCEPT
                             ![a] = @ \cup {<<via[a], HostOf[NameOf(a)]>>}]
      BY <2>4 DEF RecordRoute, Goto
    <3>2. /\ \A b \in AC : b = a \/ vpnRoutes'[b] = vpnRoutes[b]
          /\ \A i \in Used' : i \in Used
          /\ \A n \in Name : link'[n] = link[n] /\ dns'[n] = dns[n]
      BY <1>l, <3>1
    <3>3. "dns" \notin Ending
      OBVIOUS
    <3> QED
      BY <2>0, <3>1, <3>2, <3>3, ResidueWork
  <2>5. CASE SetDNS(a)
    <3>1. /\ UNCHANGED <<link, addr, routes, vpnRoutes, activeConns, cur>>
          /\ pc' = [pc EXCEPT ![a] = "ok"] /\ dns' = [dns EXCEPT ![NameOf(a)] = a]
      BY <2>5 DEF SetDNS, Goto
    <3>2. /\ \A n \in Name : n # NameOf(a) => dns'[n] = dns[n]
          /\ \A n \in Name : dns'[n] = dns[n] \/ dns'[n] = a
      BY <1>l, <3>1
    <3>3. (\A i \in Used' : i \in Used) /\ "ok" \notin Ending
      BY <3>1
    <3>4. \A n \in Name : n # Serves(a) => link'[n] = link[n] /\ dns'[n] = dns[n]
      BY <2>0, <3>1, <3>2
    <3> QED
      BY <2>0, <3>1, <3>2, <3>3, <3>4, ResidueWork
  <2>6. CASE SetUp(a) \/ LookupGateway(a) \/ AddPeerRoute(a) \/ Finish(a)
    <3>1. /\ UNCHANGED <<link, addr, routes, dns, vpnRoutes, activeConns>>
          /\ \A u \in Thread \ {a} : cur'[u] = cur[u]
          /\ \E p \in {"routes", "failed", "peer", "dns", "record", "done", "mark"} :
                pc' = [pc EXCEPT ![a] = p]
      <4>1. CASE SetUp(a) \/ LookupGateway(a) \/ AddPeerRoute(a)
        BY <4>1 DEF SetUp, LookupGateway, AddPeerRoute, Goto
      <4>2. CASE Finish(a)
        BY <4>2 DEF Finish, Goto
      <4> QED
        BY <2>6, <4>1, <4>2
    <3> QED
      BY <1>1, <3>1
  <2> QED
    BY <1>8, <2>1, <2>2, <2>3, <2>4, <2>5, <2>6 DEF BringUpStep
<1>9. CASE \E n \in Name : LinkVanishes(n)
  <2>1. PICK n \in Name : LinkVanishes(n)
    BY <1>9
  <2>2. /\ UNCHANGED <<dns, vpnRoutes, activeConns, pc, cur>>
        /\ link' = [link EXCEPT ![n] = 0]
        /\ addr' \subseteq addr /\ routes' \subseteq routes
    BY <2>1 DEF LinkVanishes, DeleteLink, Flush
  <2>3. Used' \subseteq Used /\ \A m \in Name : link'[m] \in {link[m], 0}
    BY <1>l, <2>2
  <2> QED
    BY <2>2, <2>3, ResidueFrame DEF Served
<1>10. CASE OnLinkEvent \/ UnderlayMoves \/ UNCHANGED vars
  <2>1. UNCHANGED <<link, addr, routes, dns, vpnRoutes, activeConns, pc, cur>>
    BY <1>10 DEF OnLinkEvent, UnderlayMoves, vars
  <2> QED
    BY <2>1, ResidueFrame DEF Served
<1> QED
  BY <1>2, <1>3, <1>4, <1>5, <1>6, <1>7, <1>8, <1>9, <1>10
  DEF Next, ClientStep, ACStep

\* A goroutine of a connection moves by a step of its own.
LEMMA Mover ==
    ASSUME TypeOK, Refs, [Next]_vars, NEW a \in AC, pc'[a] # pc[a]
    PROVE  \/ pc[a] = "unborn" /\ pc'[a] = "bringUp"
           \/ pc[a] \in BringUp /\ BringUpStep(a)
           \/ pc[a] \in Ending /\ DeactivateStep(a) /\ pc'[a] \in Ending \cup {"done"}
<1> USE Kinds, Places DEF kernel, registry, acVars, locals
<1>1. ASSUME NEW t \in Thread, t # a, \E p : pc' = [pc EXCEPT ![t] = p] PROVE FALSE
  BY <1>1
<1>2. ASSUME NEW t \in Thread, DeactivateStep(t)
      PROVE  t = a /\ pc[a] \in Ending /\ pc'[a] \in Ending \cup {"done"}
  <2>1. pc[t] \in Ending /\ \E p \in Ending \cup {"done", "idle", "create"} :
           /\ pc' = [pc EXCEPT ![t] = p]
           /\ t \in AC => p \in Ending \cup {"done"}
    BY <1>2 DEF DeactivateStep, Mark, TearDownWireGuard, Remove, FlushAndRevert,
       Drop, Deactivated, Goto
  <2>2. t = a
    BY <1>1, <2>1
  <2> QED
    BY <2>1, <2>2
<1>3. CASE \/ \E c \in Client, b \in AC, n \in Name : Activate(c, b, n)
           \/ \E c \in Client, b \in AC : Deactivate(c, b)
  <2>1. \E c \in Client : \E p : pc' = [pc EXCEPT ![c] = p]
    BY <1>3 DEF Activate, Deactivate, Begin, Goto
  <2> QED
    BY <1>1, <2>1
<1>4. ASSUME NEW c \in Client,
             Lookup(c) \/ ConfigureNew(c) \/ RegisterSeen(c) \/ Deadline(c) \/ Old(c)
      PROVE  FALSE
  <2>1. \E p : pc' = [pc EXCEPT ![c] = p]
    BY <1>4 DEF Lookup, ConfigureNew, RegisterSeen, Deadline, Old, Fail, Goto
  <2> QED
    BY <1>1, <2>1
<1>5. ASSUME NEW c \in Client, Create(c) PROVE pc[a] = "unborn" /\ pc'[a] = "bringUp"
  <2>1. PICK b \in AC : Created(c, b)
    BY <1>5, CreateEffect
  <2>2. a = b
    BY <2>1 DEF Created
  <2> QED
    BY <2>1, <2>2 DEF Created
<1>6. ASSUME NEW b \in AC, BringUpStep(b) PROVE b = a /\ pc[a] \in BringUp
  <2>1. pc[b] \in BringUp /\ \E p : pc' = [pc EXCEPT ![b] = p]
    BY <1>6 DEF BringUpStep, ConfigureAgain, Address, SetUp, AddRoutes,
       LookupGateway, AddPeerRoute, RecordRoute, SetDNS, Finish, Goto
  <2> QED
    BY <1>1, <2>1
<1>7. CASE OnLinkEvent \/ (\E n \in Name : LinkVanishes(n)) \/ UnderlayMoves
           \/ UNCHANGED vars
  BY <1>7 DEF OnLinkEvent, LinkVanishes, UnderlayMoves, vars
<1> QED
  BY <1>2, <1>3, <1>4, <1>5, <1>6, <1>7 DEF Next, ClientStep, ACStep

\* The stages of a bring-up follow each other.
Early == {"bringUp", "address", "setUp", "routes", "gateway", "peer", "record"}
Unrouted == {"setUp", "routes"}
Unnamed == {"setUp", "routes", "gateway", "peer", "record", "dns"}

LEMMA Stages ==
    ASSUME TypeOK, Refs, [Next]_vars, NEW a \in AC
    PROVE  /\ pc'[a] \in Early => pc[a] \in Early \cup {"unborn"}
           /\ pc'[a] = "record" => pc[a] = "record" \/ AddPeerRoute(a)
           /\ pc'[a] \in Unrouted => pc[a] \in Unrouted \/ Address(a)
           /\ pc[a] \in Unrouted =>
                 pc'[a] \in Unrouted \cup {"failed"} \/ AddRoutes(a)
           /\ pc[a] \in Unnamed => pc'[a] \in Unnamed \cup {"failed"} \/ SetDNS(a)
<1> USE Kinds, Places DEF Early, Unrouted, Unnamed
<1>1. CASE pc'[a] = pc[a]
  BY <1>1
<1>2. CASE pc[a] = "unborn" /\ pc'[a] = "bringUp"
  BY <1>2
<1>3. CASE pc[a] \in Ending /\ pc'[a] \in Ending \cup {"done"}
  BY <1>3
<1>4. CASE BringUpStep(a)
  <2>1. CASE ConfigureAgain(a)
    <3>1. pc[a] = "bringUp" /\ pc'[a] \in {"address", "failed"}
      BY <2>1 DEF ConfigureAgain, Goto
    <3> QED
      BY <3>1
  <2>2. CASE Address(a)
    <3>1. pc[a] = "address" /\ pc'[a] \in {"setUp", "failed"}
      BY <2>2 DEF Address, Goto
    <3> QED
      BY <2>2, <3>1
  <2>3. CASE SetUp(a)
    <3>1. pc[a] = "setUp" /\ pc'[a] \in {"routes", "failed"}
      BY <2>3 DEF SetUp, Goto
    <3> QED
      BY <3>1
  <2>4. CASE AddRoutes(a)
    <3>1. pc[a] = "routes" /\ pc'[a] \in {"dns", "gateway"}
      BY <2>4 DEF AddRoutes, Goto
    <3> QED
      BY <2>4, <3>1
  <2>5. CASE LookupGateway(a)
    <3>1. pc[a] = "gateway" /\ pc'[a] \in {"dns", "peer"}
      BY <2>5 DEF LookupGateway, Goto
    <3> QED
      BY <3>1
  <2>6. CASE AddPeerRoute(a)
    <3>1. pc[a] = "peer" /\ pc'[a] \in {"dns", "record"}
      BY <2>6 DEF AddPeerRoute, Goto
    <3> QED
      BY <2>6, <3>1
  <2>7. CASE RecordRoute(a) \/ SetDNS(a) \/ Finish(a)
    <3>1. \/ pc[a] = "record" /\ pc'[a] = "dns"
          \/ pc[a] = "dns" /\ SetDNS(a) /\ pc'[a] = "ok"
          \/ pc[a] \in {"ok", "failed"} /\ pc'[a] \in {"done", "mark"}
      BY <2>7 DEF RecordRoute, SetDNS, Finish, Goto
    <3> QED
      BY <3>1
  <2> QED
    BY <1>4, <2>1, <2>2, <2>3, <2>4, <2>5, <2>6, <2>7 DEF BringUpStep
<1> QED
  BY <1>1, <1>2, <1>3, <1>4, Mover

-----------------------------------------------------------------------------
\* A connection's records are of routes to its own peer, through underlays that
\* have been, and are made once, near the end of its bring-up.
RecordedOf(a) ==
    /\ \A r \in vpnRoutes[a] :
          r[2] = HostOf[NameOf(a)] /\ r[1][2] <= underlay.number
    /\ via[a] # None => via[a][2] <= underlay.number
    /\ pc[a] \in Early => vpnRoutes[a] = {}

Recorded == \A a \in AC : RecordedOf(a)

LEMMA RecordedFrame ==
    ASSUME TypeOK, Refs, Residue, [Next]_vars, NEW a \in AC, RecordedOf(a),
           vpnRoutes'[a] \subseteq vpnRoutes[a], via'[a] \in {via[a], None},
           underlay.number <= underlay'.number, underlay'.number \in Nat
    PROVE  RecordedOf(a)'
<1>0. /\ vpnRoutes \in [AC -> SUBSET (Via \X Host)] /\ via \in [AC -> Via \cup {None}]
      /\ underlay.number \in Nat
      /\ \A v \in Via : v[2] \in Nat
  BY DEF TypeOK, Via
<1>1. pc[a] = "unborn" => vpnRoutes[a] = {}
  BY DEF Residue, Refs, Born
<1>2. pc[a] # "unborn" => NameOf(a)' = NameOf(a)
  BY NameKept DEF SameDevice
<1>3. \A r \in vpnRoutes'[a] : r[2] = HostOf[NameOf(a)'] /\ r[1][2] <= underlay'.number
  BY <1>0, <1>1, <1>2 DEF RecordedOf
<1>4. via'[a] # None => via'[a][2] <= underlay'.number
  BY <1>0 DEF RecordedOf
<1>5. pc'[a] \in Early => vpnRoutes'[a] = {}
  BY <1>1, Stages DEF RecordedOf
<1> QED
  BY <1>3, <1>4, <1>5 DEF RecordedOf

LEMMA RecordedStep ==
    ASSUME TypeOK, Refs, Residue, Recorded, [Next]_vars
    PROVE  Recorded'
<1> SUFFICES ASSUME NEW a \in AC PROVE RecordedOf(a)'
  BY DEF Recorded
<1> USE DEF kernel, registry, acVars, locals
<1>0. /\ vpnRoutes \in [AC -> SUBSET (Via \X Host)] /\ via \in [AC -> Via \cup {None}]
      /\ underlay.number \in Nat /\ RecordedOf(a)
  BY DEF TypeOK, Recorded
<1>1. ASSUME UNCHANGED underlay, vpnRoutes'[a] \subseteq vpnRoutes[a],
             via'[a] \in {via[a], None}
      PROVE  RecordedOf(a)'
  BY <1>0, <1>1, RecordedFrame
<1>2. CASE UNCHANGED <<underlay, vpnRoutes, via>>
  BY <1>1, <1>2
<1>3. ASSUME NEW t \in Thread, DeactivateStep(t) PROVE RecordedOf(a)'
  <2>1. UNCHANGED <<underlay, via>> /\ vpnRoutes'[a] \in {{}, vpnRoutes[a]}
    <3>1. CASE TearDownWireGuard(t)
      BY <1>0, <3>1 DEF TearDownWireGuard
    <3>2. CASE Mark(t) \/ Remove(t) \/ FlushAndRevert(t) \/ Drop(t)
      BY <3>2 DEF Mark, Remove, FlushAndRevert, Drop, Deactivated
    <3> QED
      BY <1>3, <3>1, <3>2 DEF DeactivateStep
  <2> QED
    BY <1>1, <2>1
<1>4. ASSUME NEW c \in Client, ClientStep(c), ~DeactivateStep(c)
      PROVE  UNCHANGED <<underlay, vpnRoutes, via>>
  BY <1>4 DEF ClientStep, Lookup, ConfigureNew, RegisterSeen, Deadline, Fail, Old,
     Create
<1>5. ASSUME NEW b \in AC, BringUpStep(b) PROVE RecordedOf(a)'
  <2>1. CASE LookupGateway(b)
    <3>1. \A g \in DefaultGateways(IndexOf(b)) : g = <<"lan", underlay.number>>
      BY DEF DefaultGateways, TypeOK
    <3>2. /\ UNCHANGED <<underlay, vpnRoutes>>
          /\ via'[a] = via[a] \/ via'[a] = <<"lan", underlay.number>>
      BY <1>0, <2>1, <3>1 DEF LookupGateway
    <3>3. CASE via'[a] = via[a]
      BY <1>1, <3>2, <3>3
    <3>4. CASE via'[a] = <<"lan", underlay.number>> /\ via'[a] # via[a]
      <4>1. pc[a] = "gateway" /\ pc[a] \in Early
        BY <1>0, <2>1, <3>4 DEF LookupGateway, Early
      <4>2. vpnRoutes'[a] = {}
        BY <1>0, <3>2, <4>1 DEF RecordedOf
      <4> QED
        BY <1>0, <3>2, <3>4, <4>2 DEF RecordedOf
    <3> QED
      BY <3>2, <3>3, <3>4
  <2>2. CASE AddPeerRoute(b)
    <3>1. UNCHANGED <<underlay, vpnRoutes>> /\ via'[a] \in {via[a], None}
      BY <1>0, <2>2 DEF AddPeerRoute
    <3> QED
      BY <1>1, <3>1
  <2>3. CASE RecordRoute(b)
    <3>1. /\ underlay' = underlay /\ via' = [via EXCEPT ![b] = None]
          /\ vpnRoutes' = [vpnRoutes EXCEPT
                             ![b] = @ \cup {<<via[b], HostOf[NameOf(b)]>>}]
          /\ pc[b] = "record"
      BY <2>3 DEF RecordRoute
    <3>2. CASE a # b
      BY <1>0, <1>1, <3>1, <3>2
    <3>3. CASE a = b
      <4>1. vpnRoutes[a] = {} /\ via[a] # None
        BY <1>0, <3>1, <3>3 DEF RecordedOf, Early, Refs, Towards
      <4>2. vpnRoutes'[a] = {<<via[a], HostOf[NameOf(a)]>>} /\ via'[a] = None
        BY <1>0, <3>1, <3>3, <4>1
      <4>3. NameOf(a)' = NameOf(a) /\ pc'[a] = "dns"
        BY <2>3, <3>1, <3>3, NameKept, Kinds DEF SameDevice, RecordRoute, Goto
      <4> QED
        BY <1>0, <3>1, <4>1, <4>2, <4>3 DEF RecordedOf, Early
    <3> QED
      BY <3>2, <3>3
  <2>4. CASE \/ ConfigureAgain(b) \/ Address(b) \/ SetUp(b) \/ AddRoutes(b)
             \/ SetDNS(b) \/ Finish(b)
    <3>1. UNCHANGED <<underlay, vpnRoutes, via>>
      BY <2>4 DEF ConfigureAgain, Address, SetUp, AddRoutes, SetDNS, Finish
    <3> QED
      BY <1>2, <3>1
  <2> QED
    BY <1>5, <2>1, <2>2, <2>3, <2>4 DEF BringUpStep
<1>6. CASE UnderlayMoves
  <2>1. UNCHANGED <<vpnRoutes, via>> /\ underlay'.number = underlay.number + 1
    BY <1>6 DEF UnderlayMoves
  <2> QED
    BY <1>0, <2>1, RecordedFrame
<1>7. CASE \/ \E c \in Client, b \in AC, n \in Name : Activate(c, b, n)
           \/ \E c \in Client, b \in AC : Deactivate(c, b)
           \/ OnLinkEvent \/ \E n \in Name : LinkVanishes(n)
           \/ UNCHANGED vars
  <2>1. UNCHANGED <<underlay, vpnRoutes, via>>
    BY <1>7 DEF Activate, Deactivate, Begin, OnLinkEvent, LinkVanishes, vars
  <2> QED
    BY <1>2, <2>1
<1> QED
  BY <1>2, <1>3, <1>4, <1>5, <1>6, <1>7, Kinds DEF Next, ACStep

-----------------------------------------------------------------------------
\* a's Device is the one on the bus, its bring-up has put the address on the
\* link, and no event says that the link is gone.
Onto(a) ==
    /\ a \in activeConns /\ device[a] = devByIface[NameOf(a)]
    /\ pc[a] \notin {"bringUp", "address", "failed"} \cup Ending
    /\ \A k \in DOMAIN events : events[k].name = NameOf(a) => events[k].present

\* Such a connection is on the link that has the name.
Linked == \A a \in AC : Onto(a) => link[NameOf(a)] = IndexOf(a)

\* Where such a connection comes from
LEMMA OntoFrom ==
    ASSUME TypeOK, Refs, Served, [Next]_vars, NEW a \in AC, Onto(a)'
    PROVE  /\ a \in activeConns /\ pc[a] # "unborn" /\ NameOf(a) \in Name
           /\ NameOf(a)' = NameOf(a) /\ IndexOf(a)' = IndexOf(a)
           /\ link'[NameOf(a)] = link[NameOf(a)] \/ link[NameOf(a)] = 0
           /\ device[a] = devByIface[NameOf(a)]
           /\ \A n \in Name : DeleteLink(n) => n # NameOf(a)
           /\ Onto(a) \/ (Address(a) /\ pc'[a] = "setUp")
<1> USE Kinds, Places
<1>1. a \in activeConns /\ device'[a] = device[a] /\ pc[a] # "unborn"
  <2>1. ASSUME NEW c \in Client, NEW b \in AC, Created(c, b)
        PROVE  a \in activeConns /\ device'[a] = device[a]
    BY <2>1 DEF Created, Onto
  <2>2. ASSUME NEW t \in Thread, Dropped(t)
        PROVE  a \in activeConns /\ device'[a] = device[a]
    BY <2>2 DEF Dropped, Onto
  <2>3. a \in activeConns /\ device'[a] = device[a]
    BY <2>1, <2>2, Courses, CreateEffect, DropEffect DEF Served, Course, Onto
  <2> QED
    BY <2>3 DEF Refs, Born
<1>2. /\ NameOf(a)' = NameOf(a) /\ IndexOf(a)' = IndexOf(a) /\ NameOf(a) \in Name
      /\ device[a] \in DOMAIN devices
  BY <1>1, NameKept DEF SameDevice, Refs, Born, NameOf
<1>3. device[a] = devByIface[NameOf(a)] /\ devByIface'[NameOf(a)] # 0
  <2>1. device[a] = devByIface'[NameOf(a)] /\ device[a] \in 1 .. Len(devices)
    BY <1>1, <1>2 DEF Onto
  <2> QED
    BY <1>2, <2>1, IfaceStep
<1>4. ASSUME NEW n \in Name, DeleteLink(n) PROVE n # NameOf(a)
  <2>1. link[n] \in Nat
    BY DEF TypeOK
  <2>2. Notify(n, link[n], FALSE)
    BY <1>4 DEF DeleteLink
  <2>3. /\ Len(events) \in Nat /\ DOMAIN events' = 1 .. Len(events) + 1
        /\ events'[Len(events) + 1] = [name |-> n, index |-> link[n], present |-> FALSE]
    BY <2>1, <2>2, Notified
  <2>4. /\ Len(events) + 1 \in DOMAIN events'
        /\ events'[Len(events) + 1].name = n /\ ~events'[Len(events) + 1].present
    BY <2>3
  <2> QED
    BY <1>2, <2>4 DEF Onto
\* The events that wait
<1>5. ASSUME NEW k \in DOMAIN events, events[k].name = NameOf(a)
      PROVE  events[k].present
  <2>1. CASE events' = events
    BY <1>2, <1>5, <2>1 DEF Onto
  <2>2. ASSUME NEW e \in LinkEvents, events' = Append(events, e)
        PROVE  events[k].present
    <3>1. /\ Len(events) \in Nat /\ DOMAIN events = 1 .. Len(events)
          /\ DOMAIN events' = 1 .. Len(events) + 1
          /\ \A j \in 1 .. Len(events) : events'[j] = events[j]
      BY <2>2, AppendProperties DEF TypeOK
    <3>2. k \in DOMAIN events' /\ events'[k] = events[k]
      BY <3>1
    <3> QED
      BY <1>2, <1>5, <3>2 DEF Onto
  <2>3. CASE OnLinkEvent
    <3>1. events # <<>> /\ events' = Tail(events)
      BY <2>3 DEF OnLinkEvent
    <3>2. /\ Len(events) \in Nat \ {0} /\ DOMAIN events = 1 .. Len(events)
          /\ DOMAIN events' = 1 .. Len(events) - 1
          /\ \A j \in DOMAIN events' : events'[j] = events[j + 1]
          /\ Head(events) = events[1]
      BY <3>1, Applied
    <3>3. CASE k = 1
      <4>1. ~events[1].present => devByIface' = [devByIface EXCEPT ![NameOf(a)] = 0]
        BY <1>5, <2>3, <3>2, <3>3 DEF OnLinkEvent, Unregister
      <4> QED
        BY <1>2, <1>3, <3>3, <4>1
    <3>4. CASE k # 1
      <4>1. k - 1 \in DOMAIN events' /\ events'[k - 1] = events[k]
        BY <3>2, <3>4
      <4> QED
        BY <1>2, <1>5, <4>1 DEF Onto
    <3> QED
      BY <3>3, <3>4
  <2>4. ASSUME NEW n \in Name, CreateLink(n) PROVE events[k].present
    <3>1. [name |-> n, index |-> made + 1, present |-> TRUE] \in LinkEvents
      BY DEF TypeOK, LinkEvents
    <3> QED
      BY <2>1, <2>2, <2>4, <3>1 DEF CreateLink, Notify
  <2>5. ASSUME NEW n \in Name, DeleteLink(n) PROVE events[k].present
    <3>1. [name |-> n, index |-> link[n], present |-> FALSE] \in LinkEvents
      BY DEF TypeOK, LinkEvents
    <3> QED
      BY <2>2, <2>5, <3>1 DEF DeleteLink, Notify
  <2> QED
    BY <2>1, <2>3, <2>4, <2>5, Effects DEF Still, RegisterSeen
\* The link
<1>6. link'[NameOf(a)] = link[NameOf(a)] \/ link[NameOf(a)] = 0
  <2>1. link \in [Name -> Nat]
    BY DEF TypeOK
  <2>2. ASSUME NEW n \in Name, CreateLink(n)
        PROVE  link'[NameOf(a)] = link[NameOf(a)] \/ link[NameOf(a)] = 0
    <3>1. link' = link \/ (link[n] = 0 /\ link' = [link EXCEPT ![n] = made + 1])
      BY <2>2 DEF CreateLink
    <3> QED
      BY <1>2, <2>1, <3>1
  <2>3. ASSUME NEW n \in Name, DeleteLink(n)
        PROVE  link'[NameOf(a)] = link[NameOf(a)]
    <3>1. link' = [link EXCEPT ![n] = 0] /\ n # NameOf(a)
      BY <1>4, <2>3 DEF DeleteLink
    <3> QED
      BY <1>2, <2>1, <3>1
  <2>4. CASE OnLinkEvent \/ \E c \in Client : RegisterSeen(c)
    BY <2>4 DEF OnLinkEvent, RegisterSeen, kernel
  <2> QED
    BY <2>2, <2>3, <2>4, Effects DEF Still
\* The bring-up
<1>7. pc[a] \notin {"bringUp", "address", "failed"} \cup Ending
         \/ (Address(a) /\ pc'[a] = "setUp")
  <2>0. pc'[a] \notin {"bringUp", "address", "failed"} \cup Ending /\ a \in activeConns'
    BY DEF Onto
  <2>1. CASE pc'[a] = pc[a]
    BY <2>0, <2>1
  <2>2. CASE pc[a] \in Ending /\ DeactivateStep(a)
    <3>1. \/ cur[a] = a /\ a \notin gone
          \/ pc[a] # "mark"
      BY <2>2, NotGone DEF Served, Listed
    <3>2. ~Drop(a)
      BY <2>0, <2>2 DEF Served, Listed, Drop
    <3>3. ~Mark(a) /\ ~TearDownWireGuard(a) /\ ~Remove(a) /\ ~FlushAndRevert(a)
      <4>1. CASE Mark(a)
        <5>1. pc'[a] = "delRoutes"
          BY <2>2, <3>1, <4>1 DEF Mark, Goto, Served, Listed
        <5> QED
          BY <2>0, <5>1
      <4>2. CASE TearDownWireGuard(a) \/ Remove(a) \/ FlushAndRevert(a)
        <5>1. pc'[a] \in {"forget", "remove", "flush", "drop"}
          BY <4>2 DEF TearDownWireGuard, Remove, FlushAndRevert, Goto
        <5> QED
          BY <2>0, <5>1
      <4> QED
        BY <4>1, <4>2
    <3> QED
      BY <2>2, <3>2, <3>3 DEF DeactivateStep
  <2>3. CASE pc[a] \in BringUp /\ BringUpStep(a)
    <3>1. a \notin gone
      BY <2>3, NotGone DEF Served
    <3>2. CASE ConfigureAgain(a)
      <4>1. pc'[a] \in {"address", "failed"}
        BY <3>2 DEF ConfigureAgain, Goto
      <4> QED
        BY <2>0, <4>1
    <3>3. CASE Address(a)
      <4>1. pc'[a] \in {"setUp", "failed"}
        BY <3>3 DEF Address, Goto
      <4> QED
        BY <2>0, <3>3, <4>1
    <3>4. CASE Finish(a)
      <4>1. pc[a] = "ok" \/ pc'[a] = "mark"
        BY <3>1, <3>4 DEF Finish, Goto
      <4> QED
        BY <2>0, <4>1
    <3>5. CASE \/ SetUp(a) \/ AddRoutes(a) \/ LookupGateway(a) \/ AddPeerRoute(a)
               \/ RecordRoute(a) \/ SetDNS(a)
      <4>1. pc[a] \in {"setUp", "routes", "gateway", "peer", "record", "dns"}
        BY <3>5 DEF SetUp, AddRoutes, LookupGateway, AddPeerRoute, RecordRoute, SetDNS
      <4> QED
        BY <4>1
    <3> QED
      BY <2>3, <3>2, <3>3, <3>4, <3>5 DEF BringUpStep
  <2> QED
    BY <1>1, <2>1, <2>2, <2>3, Mover
<1> QED
  BY <1>1, <1>2, <1>3, <1>4, <1>5, <1>6, <1>7 DEF Onto

LEMMA LinkedStep ==
    ASSUME TypeOK, Refs, Served, Numbered, Linked, [Next]_vars
    PROVE  Linked'
<1> SUFFICES ASSUME NEW a \in AC, Onto(a)' PROVE (link[NameOf(a)] = IndexOf(a))'
  BY DEF Linked
<1>1. /\ pc[a] # "unborn" /\ NameOf(a)' = NameOf(a) /\ IndexOf(a)' = IndexOf(a)
      /\ link'[NameOf(a)] = link[NameOf(a)] \/ link[NameOf(a)] = 0
      /\ Onto(a) \/ (Address(a) /\ pc'[a] = "setUp")
  BY OntoFrom
<1>2. IndexOf(a) # 0
  BY <1>1, OneIndex
<1>3. link[NameOf(a)] = IndexOf(a)
  <2>1. CASE Onto(a)
    BY <2>1 DEF Linked
  <2>2. CASE Address(a) /\ pc'[a] = "setUp"
    <3>1. Exists(IndexOf(a))
      BY <2>2, Kinds DEF Address, Goto
    <3> QED
      BY <1>1, <3>1, OneIndex
  <2> QED
    BY <1>1, <2>1, <2>2
<1> QED
  BY <1>1, <1>2, <1>3

\* Somebody has begun to tear down a connection of the tunnel n.
Ended(n) == \E t \in Thread : pc[t] \in Teardown /\ NameOf(cur[t]) = n

\* What the bring-up of a has set up so far is there, its route to the peer
\* unless the underlay has moved.
Up(a) ==
    /\ IndexOf(a) \in addr
    /\ pc[a] \notin Unrouted => \E r \in routes : r[1] = IndexOf(a)
    /\ pc[a] \notin Unnamed => dns[NameOf(a)] = a
    /\ \A r \in vpnRoutes[a] :
          r[1] = <<"lan", underlay.number>> => peerRoute[r[2]] = r[1]
    /\ pc[a] = "record" /\ via[a] = <<"lan", underlay.number>> =>
          peerRoute[HostOf[NameOf(a)]] = via[a]

Works == \A a \in AC : Onto(a) /\ ~Ended(NameOf(a)) => Up(a)

\* Two tunnels have no peer in common.
OwnPeers ==
    \A m, n \in Name : HostOf[m] = HostOf[n] /\ HostOf[m] # None => m = n

\* What is up stays up while nobody touches it, whatever its bring-up does next.
Untouched(a) ==
    /\ IndexOf(a) \in addr'
    /\ \A r \in routes : r[1] = IndexOf(a) => r \in routes'
    /\ dns'[NameOf(a)] = dns[NameOf(a)]
    /\ vpnRoutes'[a] = vpnRoutes[a]
    /\ pc'[a] = "record" => pc[a] = "record" /\ via'[a] = via[a]
    /\ pc[a] \in Unrouted => pc'[a] \in Unrouted
    /\ pc[a] \in Unnamed => pc'[a] \in Unnamed
    /\ \/ /\ underlay'.number = underlay.number
          /\ \A h \in Host : h = HostOf[NameOf(a)] => peerRoute'[h] = peerRoute[h]
       \/ underlay'.number > underlay.number

LEMMA UpKept ==
    ASSUME TypeOK, Refs, [Next]_vars, NEW a \in AC, pc[a] # "unborn",
           RecordedOf(a), Up(a), Untouched(a)
    PROVE  Up(a)'
<1>0. /\ vpnRoutes \in [AC -> SUBSET (Via \X Host)] /\ via \in [AC -> Via \cup {None}]
      /\ underlay.number \in Nat /\ underlay'.number \in Nat
  BY TypeStep DEF TypeOK
<1>1. /\ NameOf(a)' = NameOf(a) /\ IndexOf(a)' = IndexOf(a)
      /\ device[a] \in DOMAIN devices
  BY NameKept DEF SameDevice, Refs, Born
<1>2. /\ IndexOf(a) \in addr'
      /\ pc'[a] \notin Unrouted => \E r \in routes' : r[1] = IndexOf(a)
      /\ pc'[a] \notin Unnamed => dns'[NameOf(a)] = a
  BY DEF Up, Untouched
<1>3. ASSUME NEW r \in vpnRoutes'[a], r[1] = <<"lan", underlay'.number>>
      PROVE  peerRoute'[r[2]] = r[1]
  <2>1. /\ r \in vpnRoutes[a] /\ r[2] = HostOf[NameOf(a)] /\ r[2] \in Host
        /\ r[1][2] <= underlay.number /\ r[1][2] = underlay'.number
    BY <1>0, <1>3 DEF Untouched, RecordedOf
  <2>2. underlay'.number = underlay.number
    BY <1>0, <2>1 DEF Untouched
  <2> QED
    BY <1>0, <1>3, <2>1, <2>2 DEF Up, Untouched
<1>4. ASSUME pc'[a] = "record", via'[a] = <<"lan", underlay'.number>>
      PROVE  peerRoute'[HostOf[NameOf(a)]] = via'[a]
  <2>1. pc[a] = "record" /\ via'[a] = via[a] /\ via[a] # None
    BY <1>4 DEF Untouched, Refs, Towards
  <2>2. via[a][2] <= underlay.number /\ via[a][2] = underlay'.number
    BY <1>4, <2>1 DEF RecordedOf
  <2>3. underlay'.number = underlay.number
    BY <1>0, <2>2 DEF Untouched
  <2>4. HostOf[NameOf(a)] \in Host
    BY <1>1, <2>1, Kinds, VpnConstants DEF Refs, Towards, NameOf
  <2> QED
    BY <1>0, <1>4, <2>1, <2>2, <2>3, <2>4 DEF Up, Untouched
<1> QED
  BY <1>1, <1>2, <1>3, <1>4 DEF Up

\* Who works on tunnels, while that of a is not being torn down, works on others.
LEMMA Apart ==
    ASSUME TypeOK, Refs, Served, Numbered, OwnPeers,
           NEW a \in activeConns, device[a] = devByIface[NameOf(a)],
           NEW b \in AC, pc[b] # "unborn",
           \/ b # a /\ pc[b] \in BringUp
           \/ ~Ended(NameOf(a)) /\ \E t \in Thread : pc[t] \in Teardown /\ cur[t] = b
    PROVE  /\ NameOf(b) # NameOf(a) /\ IndexOf(b) # IndexOf(a)
           /\ HostOf[NameOf(b)] # None => HostOf[NameOf(b)] # HostOf[NameOf(a)]
<1>1. a \in AC /\ pc[a] # "unborn" /\ device[a] # 0
  BY Kinds DEF Refs, Born
<1>2. NameOf(b) # NameOf(a)
  <2>1. CASE b # a /\ pc[b] \in BringUp
    <3>1. b \in activeConns /\ (NameOf(a) = NameOf(b) => device[a] < device[b])
      BY <2>1 DEF Served, Listed, Newest
    <3>2. NameOf(a) = NameOf(b) => device[b] <= device[a]
      BY <1>1, <3>1 DEF Served, Newest
    <3> QED
      BY <1>1, <3>1, <3>2, Kinds
  <2>2. CASE ~Ended(NameOf(a)) /\ \E t \in Thread : pc[t] \in Teardown /\ cur[t] = b
    BY <2>2 DEF Ended
  <2> QED
    BY <2>1, <2>2
<1>3. NameOf(a) \in Name /\ NameOf(b) \in Name /\ IndexOf(b) # IndexOf(a)
  BY <1>1, <1>2, OneIndex
<1> QED
  BY <1>2, <1>3 DEF OwnPeers

\* A teardown of a's tunnel is not over while a is on the link.
LEMMA EndedStays ==
    ASSUME TypeOK, Refs, Served, Numbered, Residue, Linked, [Next]_vars,
           NEW a \in AC, Onto(a)', ~Ended(NameOf(a))'
    PROVE  ~Ended(NameOf(a))
<1> USE Kinds, Places
<1> SUFFICES ASSUME NEW t \in Thread, pc[t] \in Teardown, NameOf(cur[t]) = NameOf(a)
             PROVE  FALSE
  BY DEF Ended
<1>1. /\ pc[a] # "unborn" /\ NameOf(a)' = NameOf(a)
      /\ Onto(a) \/ (Address(a) /\ pc'[a] = "setUp")
  BY OntoFrom
<1>2. link[NameOf(a)] = IndexOf(a) /\ IndexOf(a) # 0
  <2>1. CASE Onto(a)
    BY <1>1, <2>1, OneIndex DEF Linked
  <2>2. CASE Address(a) /\ pc'[a] = "setUp"
    <3>1. Exists(IndexOf(a))
      BY <2>2 DEF Address, Goto
    <3> QED
      BY <1>1, <3>1, OneIndex
  <2> QED
    BY <1>1, <2>1, <2>2
<1>3. pc'[t] \in Teardown /\ cur'[t] = cur[t]
  <2>1. CASE Course
    BY <2>1 DEF Course, CourseOf
  <2>2. ASSUME NEW c \in Client, Create(c)
        PROVE  pc'[t] \in Teardown /\ cur'[t] = cur[t]
    <3>1. PICK b \in AC : Created(c, b)
      BY <2>2, CreateEffect
    <3> QED
      BY <3>1 DEF Created
  <2>3. ASSUME NEW u \in Thread, Drop(u)
        PROVE  pc'[t] \in Teardown /\ cur'[t] = cur[t]
    <3>1. Dropped(u)
      BY <2>3, DropEffect
    <3>2. u # t
      <4>1. ASSUME u = t PROVE FALSE
        <5>1. Cleared(t) /\ pc[t] = "drop"
          BY <3>1, <4>1 DEF Residue, Late, Dropped
        <5> QED
          BY <1>2, <5>1 DEF Cleared
      <4> QED
        BY <4>1
    <3> QED
      BY <3>1, <3>2 DEF Dropped
  <2> QED
    BY <2>1, <2>2, <2>3, Courses DEF Served
<1>4. cur[t] \in AC /\ pc[cur[t]] # "unborn"
  BY DEF Refs, Current
<1>5. PICK b \in AC : b = cur[t] /\ b = cur'[t] /\ NameOf(b)' = NameOf(b)
  BY <1>3, <1>4, NameKept DEF SameDevice
<1>6. NameOf(cur[t])' = NameOf(b)' /\ NameOf(cur[t]) = NameOf(b)
  BY <1>5 DEF NameOf
<1> QED
  BY <1>1, <1>3, <1>5, <1>6 DEF Ended

\* A step that does not change what the tunnels have set up
LEMMA UpFrame ==
    ASSUME TypeOK, Refs, [Next]_vars, NEW a \in AC, pc[a] # "unborn",
           RecordedOf(a), Up(a), pc'[a] = pc[a], via'[a] = via[a],
           UNCHANGED <<addr, routes, dns, vpnRoutes, peerRoute, underlay>>
    PROVE  Up(a)'
<1>1. Untouched(a)
  BY DEF Untouched, Up
<1> QED
  BY <1>1, UpKept

\* The steps of a teardown, or somebody else's deletion of a link
LEMMA UpTornDown ==
    ASSUME TypeOK, Refs, Served, Numbered, Recorded, OwnPeers, [Next]_vars,
           NEW a \in AC, Onto(a), Onto(a)', ~Ended(NameOf(a)), Up(a),
           \/ \E t \in Thread : DeactivateStep(t)
           \/ \E n \in Name : LinkVanishes(n)
    PROVE  Up(a)'
<1> USE Kinds, Places DEF kernel, registry, acVars, locals
<1>0. /\ addr \subseteq Nat /\ dns \in [Name -> AC \cup {None}]
      /\ vpnRoutes \in [AC -> SUBSET (Via \X Host)] /\ RecordedOf(a)
  BY DEF TypeOK, Recorded
<1>1. /\ a \in activeConns /\ pc[a] # "unborn" /\ NameOf(a) \in Name
      /\ device[a] = devByIface[NameOf(a)]
      /\ \A n \in Name : DeleteLink(n) => n # NameOf(a)
  BY OntoFrom
\* A link that goes is not a's.
<1>2. ASSUME NEW n \in Name, DeleteLink(n), pc'[a] = pc[a],
             UNCHANGED <<dns, vpnRoutes, peerRoute, underlay, via>>
      PROVE  Up(a)'
  <2>1. link[n] # IndexOf(a)
    BY <1>1, <1>2, OneIndex
  <2>2. /\ IndexOf(a) \in addr'
        /\ \A r \in routes : r[1] = IndexOf(a) => r \in routes'
    BY <1>2, <2>1 DEF DeleteLink, Flush, Up
  <2>3. Untouched(a)
    BY <1>2, <2>2 DEF Untouched
  <2> QED
    BY <1>0, <1>1, <2>3, UpKept
<1>3. ASSUME NEW n \in Name, LinkVanishes(n) PROVE Up(a)'
  BY <1>2, <1>3 DEF LinkVanishes
<1>4. ASSUME NEW t \in Thread, DeactivateStep(t) PROVE Up(a)'
  <2>0. pc[t] \in Ending /\ pc'[a] = pc[a]
    <3>1. pc[t] \in Ending /\ \E p : pc' = [pc EXCEPT ![t] = p]
      BY <1>4 DEF DeactivateStep, Mark, TearDownWireGuard, Remove, FlushAndRevert,
         Drop, Deactivated, Goto
    <3>2. t # a
      BY <3>1 DEF Onto
    <3> QED
      BY <3>1, <3>2
  <2>b. PICK b \in AC : b = cur[t] /\ pc[b] # "unborn"
    BY <2>0 DEF Refs, Current
  <2>n. NameOf(cur[t]) = NameOf(b) /\ IndexOf(cur[t]) = IndexOf(b) /\ NameOf(b) \in Name
    BY <2>b, OneIndex DEF NameOf, IndexOf
  <2>1. ASSUME pc[t] \in Teardown
        PROVE  /\ b # a /\ NameOf(b) # NameOf(a) /\ IndexOf(b) # IndexOf(a)
               /\ HostOf[NameOf(b)] # None => HostOf[NameOf(b)] # HostOf[NameOf(a)]
    BY <1>1, <2>1, <2>b, Apart
  <2>2. CASE Mark(t) \/ Drop(t)
    <3>1. UNCHANGED <<addr, routes, dns, vpnRoutes, peerRoute, underlay, via>>
      BY <2>2 DEF Mark, Drop, Deactivated
    <3> QED
      BY <1>0, <1>1, <2>0, <3>1, UpFrame
  <2>3. CASE TearDownWireGuard(t)
    <3>1. /\ b # a /\ UNCHANGED <<addr, routes, dns, underlay, via>>
          /\ HostOf[NameOf(b)] # None => HostOf[NameOf(b)] # HostOf[NameOf(a)]
      BY <2>1, <2>3 DEF TearDownWireGuard
    <3>2. vpnRoutes'[a] = vpnRoutes[a]
      BY <1>0, <2>3, <2>b, <3>1 DEF TearDownWireGuard
    <3>3. \A h \in Host : h = HostOf[NameOf(a)] => peerRoute'[h] = peerRoute[h]
      <4>1. CASE peerRoute' = peerRoute
        BY <4>1
      <4>2. CASE DelRoutes(b)
        <5>1. ASSUME NEW h \in Host, h = HostOf[NameOf(a)] PROVE peerRoute'[h] = peerRoute[h]
          <6>1. <<peerRoute[h], h>> \notin vpnRoutes[b]
            <7>1. \A r \in vpnRoutes[b] : r[2] = HostOf[NameOf(b)]
              BY DEF Recorded, RecordedOf
            <7> QED
              BY <3>1, <5>1, <7>1
          <6> QED
            BY <4>2, <6>1 DEF DelRoutes
        <5> QED
          BY <5>1
      <4> QED
        BY <2>3, <2>b, <4>1, <4>2 DEF TearDownWireGuard
    <3>4. Untouched(a)
      BY <2>0, <3>1, <3>2, <3>3 DEF Untouched, Up
    <3> QED
      BY <1>0, <1>1, <3>4, UpKept
  <2>4. CASE Remove(t)
    <3>1. UNCHANGED <<dns, vpnRoutes, peerRoute, underlay, via>>
      BY <2>4 DEF Remove
    <3>2. DeleteLink(NameOf(b)) \/ UNCHANGED <<addr, routes>>
      BY <2>4, <2>n DEF Remove
    <3> QED
      BY <1>0, <1>1, <1>2, <2>0, <2>n, <3>1, <3>2, UpFrame
  <2>5. CASE FlushAndRevert(t)
    <3>1. /\ UNCHANGED <<vpnRoutes, peerRoute, underlay, via>>
          /\ addr' = addr \ {IndexOf(b)} /\ routes' = {r \in routes : r[1] # IndexOf(b)}
          /\ dns' = [dns EXCEPT ![NameOf(b)] = None]
          /\ NameOf(b) # NameOf(a) /\ IndexOf(b) # IndexOf(a)
      BY <2>1, <2>5, <2>n DEF FlushAndRevert, Flush, RevertDNS
    <3>2. dns'[NameOf(a)] = dns[NameOf(a)]
      BY <1>0, <1>1, <3>1
    <3>3. Untouched(a)
      BY <2>0, <3>1, <3>2 DEF Untouched, Up
    <3> QED
      BY <1>0, <1>1, <3>3, UpKept
  <2> QED
    BY <1>4, <2>2, <2>3, <2>4, <2>5 DEF DeactivateStep
<1> QED
  BY <1>3, <1>4

\* The bring-up of another connection
LEMMA UpOther ==
    ASSUME TypeOK, Refs, Served, Numbered, Recorded, OwnPeers, [Next]_vars,
           NEW a \in AC, Onto(a), Onto(a)', Up(a),
           NEW b \in AC, b # a, BringUpStep(b)
    PROVE  Up(a)'
<1> USE Kinds, Places DEF kernel, registry, acVars, locals
<1>0. /\ addr \subseteq Nat /\ dns \in [Name -> AC \cup {None}]
      /\ vpnRoutes \in [AC -> SUBSET (Via \X Host)] /\ RecordedOf(a)
      /\ via \in [AC -> Via \cup {None}] /\ peerRoute \in [Host -> Via \cup {None}]
  BY SMTT(30) DEF TypeOK, Recorded
<1>1. /\ a \in activeConns /\ pc[a] # "unborn" /\ NameOf(a) \in Name
      /\ device[a] = devByIface[NameOf(a)]
  BY OntoFrom
<1>2. pc[b] \in BringUp /\ pc[b] # "unborn" /\ pc'[a] = pc[a]
  <2>1. pc[b] \in BringUp /\ \E p : pc' = [pc EXCEPT ![b] = p]
    BY DEF BringUpStep, ConfigureAgain, Address, SetUp, AddRoutes,
       LookupGateway, AddPeerRoute, RecordRoute, SetDNS, Finish, Goto
  <2> QED
    BY <2>1
<1>3. /\ NameOf(b) # NameOf(a) /\ IndexOf(b) # IndexOf(a)
      /\ HostOf[NameOf(b)] # None => HostOf[NameOf(b)] # HostOf[NameOf(a)]
  BY <1>1, <1>2, Apart
<1>4. CASE ConfigureAgain(b) \/ SetUp(b) \/ LookupGateway(b) \/ Finish(b)
  <2>1. UNCHANGED <<addr, routes, dns, vpnRoutes, peerRoute, underlay>>
        /\ via'[a] = via[a]
    BY <1>0, <1>4 DEF ConfigureAgain, SetUp, LookupGateway, Finish
  <2> QED
    BY <1>0, <1>1, <1>2, <2>1, UpFrame
<1>5. CASE Address(b) \/ AddRoutes(b)
  <2>1. /\ UNCHANGED <<dns, vpnRoutes, peerRoute, underlay, via>>
        /\ \A i \in addr : i # IndexOf(b) => i \in addr'
        /\ \A r \in routes : r[1] # IndexOf(b) => r \in routes'
    BY <1>5 DEF Address, AddRoutes
  <2>2. Untouched(a)
    BY <1>2, <1>3, <2>1 DEF Untouched, Up
  <2> QED
    BY <1>0, <1>1, <2>2, UpKept
<1>6. CASE AddPeerRoute(b)
  <2>1. /\ UNCHANGED <<addr, routes, dns, vpnRoutes, underlay>> /\ via'[a] = via[a]
        /\ peerRoute' = peerRoute \/ peerRoute' = [peerRoute EXCEPT ![HostOf[NameOf(b)]] = via[b]]
        /\ HostOf[NameOf(b)] # None
    BY <1>0, <1>6 DEF AddPeerRoute, Refs, Towards
  <2>2. \A h \in Host : h = HostOf[NameOf(a)] => peerRoute'[h] = peerRoute[h]
    BY <1>0, <1>3, <2>1
  <2>3. Untouched(a)
    BY <1>2, <2>1, <2>2 DEF Untouched, Up
  <2> QED
    BY <1>0, <1>1, <2>3, UpKept
<1>7. CASE RecordRoute(b)
  <2>1. /\ UNCHANGED <<addr, routes, dns, peerRoute, underlay>> /\ via'[a] = via[a]
        /\ vpnRoutes'[a] = vpnRoutes[a]
    BY <1>0, <1>7 DEF RecordRoute
  <2>2. Untouched(a)
    BY <1>2, <2>1 DEF Untouched, Up
  <2> QED
    BY <1>0, <1>1, <2>2, UpKept
<1>8. CASE SetDNS(b)
  <2>1. /\ UNCHANGED <<addr, routes, vpnRoutes, peerRoute, underlay, via>>
        /\ dns' = [dns EXCEPT ![NameOf(b)] = b]
    BY <1>8 DEF SetDNS
  <2>2. dns'[NameOf(a)] = dns[NameOf(a)]
    BY <1>0, <1>1, <1>3, <2>1
  <2>3. Untouched(a)
    BY <1>2, <2>1, <2>2 DEF Untouched, Up
  <2> QED
    BY <1>0, <1>1, <2>3, UpKept
<1> QED
  BY <1>4, <1>5, <1>6, <1>7, <1>8 DEF BringUpStep

\* The bring-up of the connection itself
LEMMA UpOwn ==
    ASSUME TypeOK, Refs, Served, Numbered, Recorded, Linked, [Next]_vars,
           NEW a \in AC, Onto(a), Onto(a)', Up(a), BringUpStep(a)
    PROVE  Up(a)'
<1> USE Kinds, Places DEF kernel, registry, acVars, locals, Unrouted, Unnamed
<1>0. /\ dns \in [Name -> AC \cup {None}]
      /\ vpnRoutes \in [AC -> SUBSET (Via \X Host)] /\ RecordedOf(a)
      /\ via \in [AC -> Via \cup {None}] /\ peerRoute \in [Host -> Via \cup {None}]
  BY DEF TypeOK, Recorded
<1>1. /\ pc[a] # "unborn" /\ NameOf(a) \in Name
      /\ NameOf(a)' = NameOf(a) /\ IndexOf(a)' = IndexOf(a)
      /\ pc[a] \notin {"bringUp", "address", "failed"}
      /\ pc'[a] # "failed"
  BY OntoFrom DEF Onto
<1>2. CASE ConfigureAgain(a) \/ Address(a)
  BY <1>1, <1>2 DEF ConfigureAgain, Address
<1>3. CASE SetUp(a) \/ LookupGateway(a) \/ Finish(a)
  <2>1. UNCHANGED <<addr, routes, dns, vpnRoutes, peerRoute, underlay>>
    BY <1>3 DEF SetUp, LookupGateway, Finish
  <2>2. \/ pc[a] = "setUp" /\ pc'[a] = "routes"
        \/ pc[a] = "gateway" /\ pc'[a] \in {"peer", "dns"}
        \/ pc[a] = "ok" /\ pc'[a] \in {"done", "mark"}
    BY <1>1, <1>3 DEF SetUp, LookupGateway, Finish, Goto
  <2>3. Untouched(a)
    BY <2>1, <2>2 DEF Untouched, Up
  <2> QED
    BY <1>0, <1>1, <2>3, UpKept
<1>4. CASE AddRoutes(a)
  <2>1. Exists(IndexOf(a))
    BY <1>1, OneIndex DEF Linked, Exists
  <2>2. /\ UNCHANGED <<addr, dns, vpnRoutes, peerRoute, underlay>>
        /\ routes' = routes \cup {<<IndexOf(a), Halves(NameOf(a))>>}
        /\ pc'[a] \in {"dns", "gateway"} /\ pc[a] = "routes"
    BY <1>4, <2>1 DEF AddRoutes, Goto
  <2>3. \E r \in routes' : r[1] = IndexOf(a)
    <3>1. <<IndexOf(a), Halves(NameOf(a))>> \in routes'
      BY <2>2
    <3> QED
      BY <3>1
  <2> QED
    BY <1>1, <2>2, <2>3 DEF Up
<1>5. CASE AddPeerRoute(a)
  <2>1. /\ UNCHANGED <<addr, routes, dns, vpnRoutes, underlay>>
        /\ pc[a] = "peer" /\ pc'[a] \in {"record", "dns"}
        /\ pc'[a] = "record" => /\ via' = via
                                /\ peerRoute' = [peerRoute EXCEPT ![HostOf[NameOf(a)]] = via[a]]
        /\ HostOf[NameOf(a)] # None
    BY <1>5 DEF AddPeerRoute, Goto, Refs, Towards
  <2>2. vpnRoutes'[a] = {}
    BY <1>0, <2>1 DEF RecordedOf, Early
  <2>3. pc'[a] = "record" => peerRoute'[HostOf[NameOf(a)]] = via'[a]
    BY <1>0, <1>1, <2>1, VpnConstants
  <2> QED
    BY <1>1, <2>1, <2>2, <2>3 DEF Up
<1>6. CASE RecordRoute(a)
  <2>1. /\ UNCHANGED <<addr, routes, dns, peerRoute, underlay>>
        /\ pc[a] = "record" /\ pc'[a] = "dns"
        /\ vpnRoutes'[a] = vpnRoutes[a] \cup {<<via[a], HostOf[NameOf(a)]>>}
    BY <1>0, <1>6 DEF RecordRoute, Goto
  <2>2. vpnRoutes[a] = {}
    BY <1>0, <2>1 DEF RecordedOf, Early
  <2>3. \A r \in vpnRoutes'[a] : r = <<via[a], HostOf[NameOf(a)]>>
    BY <2>1, <2>2
  <2>4. \A r \in vpnRoutes'[a] :
           r[1] = <<"lan", underlay'.number>> => peerRoute'[r[2]] = r[1]
    BY <2>1, <2>3 DEF Up
  <2> QED
    BY <1>1, <2>1, <2>4 DEF Up
<1>7. CASE SetDNS(a)
  <2>1. /\ UNCHANGED <<addr, routes, vpnRoutes, peerRoute, underlay>>
        /\ pc[a] = "dns" /\ pc'[a] = "ok" /\ dns'[NameOf(a)] = a
    BY <1>0, <1>1, <1>7 DEF SetDNS, Goto
  <2> QED
    BY <1>1, <2>1 DEF Up
<1> QED
  BY <1>2, <1>3, <1>4, <1>5, <1>6, <1>7 DEF BringUpStep

LEMMA WorksStep ==
    ASSUME TypeOK, Refs, Served, Numbered, Residue, Recorded, Linked, Works,
           OwnPeers, [Next]_vars
    PROVE  Works'
<1> SUFFICES ASSUME NEW a \in AC, Onto(a)', ~Ended(NameOf(a))' PROVE Up(a)'
  BY DEF Works
<1> USE Kinds, Places DEF kernel, registry, acVars, locals
<1>0. RecordedOf(a) /\ vpnRoutes \in [AC -> SUBSET (Via \X Host)]
  BY DEF Recorded, TypeOK
<1>1. /\ a \in activeConns /\ pc[a] # "unborn" /\ NameOf(a) \in Name
      /\ NameOf(a)' = NameOf(a) /\ IndexOf(a)' = IndexOf(a)
      /\ Onto(a) \/ (Address(a) /\ pc'[a] = "setUp")
  BY OntoFrom
<1>2. ~Ended(NameOf(a))
  BY EndedStays
<1>3. CASE Address(a) /\ pc'[a] = "setUp"
  <2>1. /\ IndexOf(a) \in addr' /\ UNCHANGED <<vpnRoutes, underlay>>
        /\ pc[a] = "address"
    BY <1>3 DEF Address, Goto
  <2>2. vpnRoutes'[a] = {}
    BY <1>0, <2>1 DEF RecordedOf, Early
  <2> QED
    BY <1>1, <1>3, <2>1, <2>2 DEF Up, Unrouted, Unnamed
<1>4. CASE Onto(a)
  <2>1. Up(a)
    BY <1>2, <1>4 DEF Works
  <2>2. ASSUME UNCHANGED <<addr, routes, dns, vpnRoutes, peerRoute, underlay, via>>,
               pc'[a] = pc[a]
        PROVE  Up(a)'
    BY <1>0, <1>1, <2>1, <2>2, UpFrame
  <2>3. ASSUME NEW b \in AC, BringUpStep(b) PROVE Up(a)'
    BY <1>4, <2>1, <2>3, UpOther, UpOwn
  <2>4. CASE (\E t \in Thread : DeactivateStep(t)) \/ (\E n \in Name : LinkVanishes(n))
    BY <1>2, <1>4, <2>1, <2>4, UpTornDown
  <2>5. ASSUME NEW c \in Client, ClientStep(c), ~DeactivateStep(c) PROVE Up(a)'
    <3>1. UNCHANGED <<addr, routes, dns, vpnRoutes, peerRoute, underlay, via>>
      BY <2>5 DEF ClientStep, Lookup, ConfigureNew, RegisterSeen, Deadline, Fail,
         Old, Create
    <3>2. pc'[a] = pc[a]
      <4>1. CASE Create(c)
        <5>1. PICK b \in AC : Created(c, b)
          BY <4>1, CreateEffect
        <5>2. b # a
          BY <1>1, <5>1 DEF Created
        <5> QED
          BY <5>1, <5>2 DEF Created
      <4>2. CASE Lookup(c) \/ ConfigureNew(c) \/ RegisterSeen(c) \/ Deadline(c) \/ Old(c)
        <5>1. \E p : pc' = [pc EXCEPT ![c] = p]
          BY <4>2 DEF Lookup, ConfigureNew, RegisterSeen, Deadline, Fail, Old, Goto
        <5> QED
          BY <5>1
      <4> QED
        BY <2>5, <4>1, <4>2 DEF ClientStep
    <3> QED
      BY <2>2, <3>1, <3>2
  <2>6. CASE \/ \E c \in Client, b \in AC, n \in Name : Activate(c, b, n)
             \/ \E c \in Client, b \in AC : Deactivate(c, b)
             \/ OnLinkEvent \/ UNCHANGED vars
    <3>1. UNCHANGED <<addr, routes, dns, vpnRoutes, peerRoute, underlay, via>>
      BY <2>6 DEF Activate, Deactivate, Begin, OnLinkEvent, vars
    <3>2. pc' = pc \/ \E c \in Client : \E p : pc' = [pc EXCEPT ![c] = p]
      BY <2>6 DEF Activate, Deactivate, Begin, OnLinkEvent, vars, Goto
    <3>3. pc'[a] = pc[a]
      BY <3>2
    <3> QED
      BY <2>2, <3>1, <3>3
  <2>7. CASE UnderlayMoves
    <3>1. /\ UNCHANGED <<addr, routes, dns, vpnRoutes, via, pc>>
          /\ underlay'.number = underlay.number + 1 /\ underlay.number \in Nat
      BY <2>7 DEF UnderlayMoves, TypeOK
    <3>2. Untouched(a)
      BY <2>1, <3>1 DEF Untouched, Up
    <3> QED
      BY <1>0, <1>1, <2>1, <3>2, UpKept
  <2> QED
    BY <2>3, <2>4, <2>5, <2>6, <2>7 DEF Next, ACStep
<1> QED
  BY <1>1, <1>3, <1>4

-----------------------------------------------------------------------------
\* All of it, for considerate clients
Orderly == Served /\ Numbered /\ Residue /\ Records /\ Recorded /\ Linked

LEMMA InitOrderly == Init => Orderly /\ Works
<1> SUFFICES ASSUME Init PROVE Orderly /\ Works
  OBVIOUS
<1>1. TypeOK /\ Refs
  BY InitRefs
<1> USE <1>1, Kinds, Places
<1>2. /\ \A t \in Thread : pc[t] \in {"idle", "unborn"}
      /\ activeConns = {} /\ gone = {} /\ addr = {} /\ routes = {} /\ devices = <<>>
      /\ events = <<>> /\ link = [n \in Name |-> 0] /\ dns = [n \in Name |-> None]
      /\ vpnRoutes = [a \in AC |-> {}] /\ via = [a \in AC |-> None]
      /\ peerRoute = [h \in Host |-> None] /\ new = [c \in Client |-> None]
  BY DEF Init
<1>3. DOMAIN devices = {} /\ DOMAIN events = {}
  BY <1>2
<1>4. Alone /\ Listed /\ Marked /\ Newest
  BY <1>2 DEF Alone, Listed, Marked, Newest, Owns
<1>5. Numbered
  BY <1>2, <1>3 DEF Numbered, Sighted
<1>6. Residue
  BY <1>2 DEF Residue, Used, Late
<1>7. Records /\ Recorded
  BY <1>2 DEF Records, Recorded, RecordedOf
<1>8. Linked /\ Works
  BY <1>2 DEF Linked, Works, Onto
<1> QED
  BY <1>4, <1>5, <1>6, <1>7, <1>8 DEF Orderly, Served

LEMMA OrderlyStep ==
    ASSUME TypeOK, Refs, Orderly, Discipline = "considerate", [Next]_vars
    PROVE  Orderly'
<1>1. Served'
  BY ServedStep DEF Orderly
<1>2. Numbered'
  BY NumberedStep DEF Orderly
<1>3. Residue'
  BY ResidueStep DEF Orderly
<1>4. Records'
  BY RecordsStep DEF Orderly, Served
<1>5. Recorded'
  BY RecordedStep DEF Orderly
<1>6. Linked'
  BY LinkedStep DEF Orderly
<1> QED
  BY <1>1, <1>2, <1>3, <1>4, <1>5, <1>6 DEF Orderly

\* No goroutine works on a calm tunnel.
LEMMA AtRest ==
    ASSUME TypeOK, Refs, Alone, NEW n \in Name, Calm(n)
    PROVE  /\ \A a \in AC : NameOf(a) = n => ~Busy(a)
           /\ ~Ended(n)
<1> USE Kinds, Places
<1>1. \A t \in Thread : Busy(t) => Serves(t) # n
  BY DEF Calm
<1>2. \A t \in Thread : pc[t] \in Teardown => Busy(t) /\ NameOf(cur[t]) = Serves(t)
  BY Sole
<1> QED
  BY <1>1, <1>2, Sole DEF Ended

\* What a considerate client finds of a tunnel at rest is answered for: in every
\* interleaving of bring-ups, teardowns and link events, with links vanishing
\* and the underlay moving, every address, route, name server and peer route
\* that vpn.go has left in the kernel is a listed connection's.
THEOREM NothingLeftBehind ==
    Discipline = "considerate" /\ OwnPeers => (Spec => []RestResidue)
<1> SUFFICES ASSUME Discipline = "considerate", OwnPeers PROVE Spec => []RestResidue
  OBVIOUS
<1>1. TypeOK /\ Refs /\ Orderly /\ [Next]_vars => Orderly'
  BY OrderlyStep
<1>2. TypeOK /\ Refs /\ Orderly => RestResidue
  <2> SUFFICES ASSUME TypeOK, Refs, Orderly, NEW n \in Name, Calm(n)
               PROVE
        LET users == {a \in activeConns : NameOf(a) = n} IN
        /\ link[n] \in addr \cup {r[1] : r \in routes} =>
              \E a \in users : IndexOf(a) = link[n]
        /\ dns[n] \in users \cup {None}
        /\ HostOf[n] # None /\ peerRoute[HostOf[n]] # None =>
              \E a \in users : <<peerRoute[HostOf[n]], HostOf[n]>> \in vpnRoutes[a]
    BY DEF RestResidue
  <2> DEFINE users == {a \in activeConns : NameOf(a) = n}
  <2> USE Kinds, Places
  <2>0. /\ \A a \in activeConns : a \in AC /\ pc[a] # "unborn"
        /\ Served /\ Alone /\ Numbered /\ Residue /\ Records /\ Recorded
    BY DEF Orderly, Served, Refs, Born
  <2>1. ASSUME link[n] \in addr \cup {r[1] : r \in routes}
        PROVE  \E a \in users : IndexOf(a) = link[n]
    <3>1. PICK a \in activeConns : IndexOf(a) = link[n]
      BY <2>0, <2>1 DEF Residue, Used
    <3>2. NameOf(a) = n
      BY <2>0, <3>1, OneIndex
    <3> QED
      BY <3>1, <3>2
  <2>2. dns[n] \in users \cup {None}
    BY <2>0 DEF Residue
  <2>3. ASSUME HostOf[n] # None, peerRoute[HostOf[n]] # None
        PROVE  \E a \in users : <<peerRoute[HostOf[n]], HostOf[n]>> \in vpnRoutes[a]
    <3>0. HostOf[n] \in Host
      BY <2>3, VpnConstants
    <3>1. PICK a \in AC : Recorder(a, HostOf[n])
      BY <2>0, <2>3, <3>0 DEF Records
    <3>2. CASE <<peerRoute[HostOf[n]], HostOf[n]>> \in vpnRoutes[a]
      <4>1. a \in activeConns /\ HostOf[n] = HostOf[NameOf(a)]
        <5>1. \A r \in vpnRoutes[a] : r[2] = HostOf[NameOf(a)]
          BY <2>0 DEF Recorded, RecordedOf
        <5>2. a \in activeConns
          BY <2>0, <3>2 DEF Residue
        <5> QED
          BY <3>2, <5>1, <5>2
      <4>2. NameOf(a) = n
        BY <2>0, <2>3, <4>1, OneIndex DEF OwnPeers
      <4> QED
        BY <3>2, <4>1, <4>2
    <3>3. CASE /\ pc[a] = "record"
               /\ <<via[a], HostOf[NameOf(a)]>> = <<peerRoute[HostOf[n]], HostOf[n]>>
      <4>1. pc[a] # "unborn" /\ Busy(a) /\ HostOf[NameOf(a)] = HostOf[n]
        BY <3>3
      <4>2. NameOf(a) = n
        BY <2>0, <2>3, <4>1, OneIndex DEF OwnPeers
      <4> QED
        BY <2>0, <4>1, <4>2, AtRest
    <3> QED
      BY <3>1, <3>2, <3>3 DEF Recorder
  <2> QED
    BY <2>1, <2>2, <2>3
<1> QED
  BY InitOrderly, TypeCorrect, <1>1, <1>2, PTL DEF Spec

\* And a tunnel at rest whose Device is there works: what bringUpWireGuard set
\* up, step by step and by index, is still there, on the link that has the name,
\* whichever links went and came meanwhile and however the underlay moved.
THEOREM TunnelsWork ==
    Discipline = "considerate" /\ OwnPeers => (Spec => []RestTunnelUp)
<1> SUFFICES ASSUME Discipline = "considerate", OwnPeers PROVE Spec => []RestTunnelUp
  OBVIOUS
<1>1. TypeOK /\ Refs /\ Orderly /\ Works /\ [Next]_vars => Orderly' /\ Works'
  BY OrderlyStep, WorksStep DEF Orderly
<1>2. TypeOK /\ Refs /\ Orderly /\ Works => RestTunnelUp
  <2> SUFFICES ASSUME TypeOK, Refs, Orderly, Works, NEW n \in Name, Calm(n),
                      NEW a \in activeConns, device[a] = devByIface[n]
               PROVE  /\ a \in activated
                      /\ link[n] = IndexOf(a) /\ link[n] \in addr
                      /\ \E r \in routes : r[1] = link[n]
                      /\ dns[n] = a
                      /\ \A r \in vpnRoutes[a] :
                            r[1] = <<"lan", underlay.number>> =>
                                peerRoute[r[2]] = r[1]
    BY DEF RestTunnelUp
  <2> USE Kinds, Places
  <2>1. a \in AC /\ pc[a] # "unborn" /\ device[a] \in DOMAIN devices /\ NameOf(a) = n
    BY DEF Refs, Born, Found, NameOf
  <2>2. ~Busy(a) /\ ~Ended(n) /\ a \in activated
    BY <2>1, AtRest DEF Orderly, Served, Marked
  <2>3. Onto(a)
    BY <2>1, <2>2 DEF Onto, Calm
  <2>4. Up(a) /\ link[n] = IndexOf(a)
    BY <2>1, <2>2, <2>3 DEF Works, Orderly, Linked
  <2>5. pc[a] \notin Unrouted \cup Unnamed
    BY <2>2 DEF Unrouted, Unnamed
  <2> QED
    BY <2>1, <2>2, <2>4, <2>5 DEF Up
<1> QED
  BY InitOrderly, TypeCorrect, <1>1, <1>2, PTL DEF Spec
=============================================================================
