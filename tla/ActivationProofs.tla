-------------------------- MODULE ActivationProofs --------------------------
(***************************************************************************)
(* Proofs about Activation, for every set of clients, active connections,  *)
(* devices and profiles and every discipline of the clients.               *)
(*                                                                         *)
(* The safety invariants are not inductive by themselves.  IInv adds what  *)
(* they rest on: who may be where (Places), that a goroutine works on a    *)
(* connection that exists (Working), that a connection is handed from the  *)
(* request that creates it to one goroutine (Handover), and how gone,      *)
(* cancelled and adopted relate to the goroutines (Flags).                 *)
(*                                                                         *)
(* What holds at rest needs a client that waits for rest between its calls *)
(* and rests on a second invariant, of who works on which device and what  *)
(* the device carries meanwhile (Bindings to Exports, further down).       *)
(***************************************************************************)
EXTENDS Activation, SequenceTheorems, TLAPS

\* Connections that have been created
Born == {a \in AC : acState[a] # "unborn"}

\* Places at which cur names the connection being worked on
HasCur == Teardown \cup {"bind", "launch", "adoptBind", "adoptPrimary",
                         "dropState", "dropBind"}

\* deactivate after its call of ac.cancel()
AfterCancel == Teardown \ {"cancel"}

IwdPlaces == {"idle", "adopt", "adoptBind", "adoptPrimary", "dropState",
              "dropBind", "dropDev"}

\* The event goroutine runs no request and no bring-up.  A client's goroutine
\* deactivates only for a request, and a bring-up only its own connection,
\* which it begins to do, or finds begun, before it ends.
Places ==
    /\ pc[Iwd] \in IwdPlaces
    /\ \A c \in Client :
          /\ pc[c] \notin BringUp \cup Settle \cup {"none"}
                            \cup (IwdPlaces \ {"idle"})
          /\ pc[c] \in Teardown \cup {"todo"} =>
                req[c].op \in {"activate", "deactivate", "delete"}
    /\ \A a \in AC :
          /\ pc[a] \in {"none", "todo", "done"} \cup Teardown \cup BringUp
                          \cup Settle
          /\ req[a].op = "none"
          /\ todo[a] \subseteq {a}
          /\ pc[a] \in Teardown => a \in gone
          /\ pc[a] = "todo" => a \in gone \/ a \in todo[a]

\* What the goroutines work on has been created, on a device.
Working ==
    /\ activeConns \subseteq Born
    /\ \A a \in Born : acDev[a] \in Dev
    /\ \A t \in Thread :
          /\ todo[t] \subseteq Born
          /\ pc[t] \in HasCur => cur[t] \in Born
          /\ req[t].op = "activate" => req[t].dev \in Dev
                                         /\ req[t].conn \in Profile
          /\ req[t].op = "event" => req[t].dev \in Dev
          /\ pc[t] = "create" => req[t].op = "activate"
          /\ pc[t] \in {"adopt", "adoptBind", "dropDev", "dropState",
                        "dropBind"} => req[t].op = "event"
    /\ \A a \in AC : pc[a] # "none" => a \in Born /\ acConn[a] \in Profile

\* A created connection belongs to one request until its goroutine starts.
Handover ==
    \A c \in Client : pc[c] \in {"bind", "launch"} =>
        /\ pc[cur[c]] = "none"
        /\ cur[c] \notin adopted
        /\ cur[c] \in activeConns \cup cancelled
        /\ acConn[cur[c]] \in Profile
        /\ \A e \in Client :
              pc[e] \in {"bind", "launch"} /\ cur[e] = cur[c] => e = c

\* gone comes before cancelled, and before all of a teardown; an adopted
\* connection has no bring-up; one past setState(Activated) is not activating.
Flags ==
    /\ cancelled \subseteq gone /\ gone \subseteq Born
    /\ adopted \subseteq Born
    /\ \A a \in adopted : pc[a] = "none"
    /\ \A t \in Thread :
          /\ pc[t] \in Teardown => cur[t] \in gone
          /\ pc[t] \in AfterCancel => cur[t] \in cancelled \cup adopted
          /\ pc[t] = "adoptBind" => cur[t] \in adopted
    /\ \A a \in AC : pc[a] \in {"devActivated", "setPrimary"}
                       => acState[a] # "activating"

Safe == TeardownOnce /\ GoneLeaves /\ NoOrphanActivation
          /\ StrayBringUpCancelled

IInv == Places /\ Working /\ Handover /\ Flags /\ Safe

-----------------------------------------------------------------------------
\* Emitting events for a device keeps the queue a sequence of wifi events.
LEMMA EmitType ==
    ASSUME events \in Seq(WifiEvents), NEW d \in Dev,
           NEW states \in Seq({"connecting", "connected", "disconnecting",
                               "disconnected"}),
           Emit(d, states)
    PROVE  events' \in Seq(WifiEvents)
<1> DEFINE s == [i \in 1..Len(states) |-> [dev |-> d, state |-> states[i]]]
<1>1. s \in Seq(WifiEvents)
  BY DEF WifiEvents
<1>2. QED
  BY <1>1, ConcatProperties DEF Emit

\* The first event is a wifi event and the others are left in the queue.
LEMMA TakeType ==
    ASSUME events \in Seq(WifiEvents), events # <<>>
    PROVE  /\ Head(events) \in WifiEvents
           /\ Tail(events) \in Seq(WifiEvents)
  BY HeadTailProperties

\* Setting one field of a device leaves well-formed devices.
LEMMA DevType ==
    ASSUME dev \in [Dev -> Devices], NEW d
    PROVE  /\ \A s \in DevStates : SetDev(d, s) => dev' \in [Dev -> Devices]
           /\ \A a \in AC \cup {None} :
                 /\ SetActive(d, a) => dev' \in [Dev -> Devices]
                 /\ dev' = [dev EXCEPT ![d].ip4 = a]
                      => dev' \in [Dev -> Devices]
                 /\ dev' = [dev EXCEPT ![d].dns = a]
                      => dev' \in [Dev -> Devices]
           /\ \A acs \in SUBSET AC :
                 dev' = [dev EXCEPT ![d].addr = acs]
                   => dev' \in [Dev -> Devices]
           /\ \A s \in Ssid \cup {None} :
                 dev' = [dev EXCEPT ![d].radio = s]
                   => dev' \in [Dev -> Devices]
<1>1. ASSUME NEW s \in DevStates, SetDev(d, s)
      PROVE  dev' \in [Dev -> Devices]
  BY <1>1 DEF SetDev, Devices
<1>2. ASSUME NEW a \in AC \cup {None}, SetActive(d, a)
      PROVE  dev' \in [Dev -> Devices]
  BY <1>2 DEF SetActive, Devices
<1>3. ASSUME NEW a \in AC \cup {None}, dev' = [dev EXCEPT ![d].ip4 = a]
      PROVE  dev' \in [Dev -> Devices]
  BY <1>3 DEF Devices
<1>4. ASSUME NEW a \in AC \cup {None}, dev' = [dev EXCEPT ![d].dns = a]
      PROVE  dev' \in [Dev -> Devices]
  BY <1>4 DEF Devices
<1>5. ASSUME NEW acs \in SUBSET AC, dev' = [dev EXCEPT ![d].addr = acs]
      PROVE  dev' \in [Dev -> Devices]
  BY <1>5 DEF Devices
<1>6. ASSUME NEW s \in Ssid \cup {None}, dev' = [dev EXCEPT ![d].radio = s]
      PROVE  dev' \in [Dev -> Devices]
  BY <1>6 DEF Devices
<1>7. QED
  BY <1>1, <1>2, <1>3, <1>4, <1>5, <1>6

\* Disconnecting the radio leaves well-formed devices and events.
LEMMA WifiDisconnectType ==
    ASSUME TypeOK, NEW d \in Dev, WifiDisconnect(d)
    PROVE  dev' \in [Dev -> Devices] /\ events' \in Seq(WifiEvents)
<1>1. dev' \in [Dev -> Devices]
  BY DevType DEF WifiDisconnect, TypeOK
<1>2. CASE Emit(d, <<"disconnecting", "disconnected">>)
  <2>1. <<"disconnecting", "disconnected">>
          \in Seq({"connecting", "connected", "disconnecting",
                   "disconnected"})
    OBVIOUS
  <2>2. QED
    BY <1>1, <1>2, <2>1, EmitType DEF TypeOK
<1>3. CASE events' = events
  BY <1>1, <1>3 DEF TypeOK
<1>4. QED
  BY <1>2, <1>3 DEF WifiDisconnect

\* A request preserves the type invariant.
LEMMA RequestType ==
    ASSUME TypeOK, NEW c \in Client, NewRequest(c), IInv
    PROVE  TypeOK'
<1> USE DEF vars, shared, acVars, wifiVars, locals, Thread
<1>1. ASSUME NEW op \in {"activate", "deactivate", "delete"},
             NEW acs \in SUBSET AC, NEW d \in Dev \cup {None},
             NEW p \in Profile \cup {None}, Request(c, op, acs, d, p),
             profState' \in [Profile -> {"absent", "present", "deleted"}]
      PROVE  TypeOK'
  <2>1. pc' \in [Thread -> PC] /\ todo' \in [Thread -> SUBSET AC]
          /\ req' \in [Thread -> Requests]
    BY <1>1, ThreadsDistinct DEF TypeOK, Request, Goto, PC, Requests
  <2>2. QED
    BY <1>1, <2>1 DEF TypeOK, Request
<1>2. ASSUME NEW p \in Profile, NEW d \in Dev, ActivateConnection(c, p, d)
      PROVE  TypeOK'
  BY <1>1, <1>2 DEF ActivateConnection, ActiveOn, TypeOK
<1>3. ASSUME NEW p \in Profile, NEW d \in Dev,
             AddAndActivateConnection(c, p, d)
      PROVE  TypeOK'
  BY <1>1, <1>3 DEF AddAndActivateConnection, ActiveOn, TypeOK
<1>4. ASSUME NEW p \in Profile, AddConnection(c, p)
      PROVE  TypeOK'
  BY <1>4 DEF AddConnection, TypeOK
<1>5. ASSUME NEW a \in AC, DeactivateConnection(c, a)
      PROVE  TypeOK'
  BY <1>1, <1>5 DEF DeactivateConnection, TypeOK
<1>6. ASSUME NEW d \in Dev, DeviceDisconnect(c, d)
      PROVE  TypeOK'
  BY <1>1, <1>6 DEF DeviceDisconnect, ActiveOn, TypeOK
<1>7. ASSUME NEW d \in Dev, DeviceDisconnectRadio(c, d)
      PROVE  TypeOK'
  BY <1>7, WifiDisconnectType DEF DeviceDisconnectRadio, TypeOK
<1>8. ASSUME NEW p \in Profile, Delete(c, p)
      PROVE  TypeOK'
  BY <1>1, <1>8 DEF Delete, TypeOK
<1>9. QED
  BY <1>2, <1>3, <1>4, <1>5, <1>6, <1>7, <1>8 DEF NewRequest
\* A step of deactivate preserves the type invariant.
LEMMA DeactivateType ==
    ASSUME TypeOK, IInv, NEW t \in Thread, DeactivateStep(t)
    PROVE  TypeOK'
<1> USE DEF shared, acVars, wifiVars, locals
<1>0. pc[t] \in Teardown => cur[t] \in AC /\ DevOf(t) \in Dev
  BY DEF IInv, Working, HasCur, Born, DevOf, TypeOK
<1>1. ASSUME NEW a \in AC, Mark(t, a)
      PROVE  TypeOK'
  BY <1>1 DEF Mark, Goto, TypeOK, PC, Teardown, TearingDown
<1>2. CASE Cancel(t)
  <2>1. dev' \in [Dev -> Devices]
    BY <1>0, <1>2, DevType DEF Cancel, DevStates, TypeOK
  <2>2. QED
    BY <1>0, <1>2, <2>1 DEF Cancel, CancelContext, SetAC, Goto, TypeOK, PC,
      Teardown, TearingDown, AcStates
<1>3. CASE DisconnectMech(t)
  <2>1. DevOf(t) \in Dev
    BY <1>0, <1>3 DEF DisconnectMech, Teardown, TearingDown
  <2>2. pc' \in [Thread -> PC]
    BY <1>3 DEF DisconnectMech, Goto, TypeOK, PC, Teardown, TearingDown
  <2>3. QED
    BY <1>3, <2>1, <2>2, WifiDisconnectType DEF DisconnectMech, TypeOK
<1>4. CASE FlushAddrs(t)
  <2>1. dev' \in [Dev -> Devices]
    BY <1>4, DevType, {} \in SUBSET AC DEF FlushAddrs, TypeOK
  <2>2. QED
    BY <1>4, <2>1 DEF FlushAddrs, Goto, TypeOK, PC, Teardown, TearingDown
<1>5. CASE RevertDNS(t)
  <2>1. dev' \in [Dev -> Devices]
    BY <1>5, DevType DEF RevertDNS, TypeOK
  <2>2. QED
    BY <1>5, <2>1 DEF RevertDNS, Goto, TypeOK, PC, Teardown, TearingDown
<1>6. CASE Unbind(t)
  <2>1. dev' \in [Dev -> Devices]
    BY <1>6, DevType DEF Unbind, TypeOK
  <2>2. QED
    BY <1>6, <2>1 DEF Unbind, Goto, TypeOK, PC, Teardown, TearingDown
<1>7. CASE UnexportIP4(t)
  <2>1. dev' \in [Dev -> Devices]
    BY <1>7, DevType DEF UnexportIP4, TypeOK
  <2>2. QED
    BY <1>7, <2>1 DEF UnexportIP4, Goto, TypeOK, PC, Teardown, TearingDown
<1>8. CASE Drop(t)
  BY <1>8 DEF Drop, Unlist, ClearPrimary, Goto, TypeOK, PC, Teardown,
     TearingDown
<1>9. CASE Deactivated(t)
  BY <1>9 DEF Deactivated, SetAC, Goto, TypeOK, PC, Teardown, TearingDown,
     AcStates
<1>10. CASE Disconnected(t)
  <2>1. dev' \in [Dev -> Devices]
    BY <1>10, DevType DEF Disconnected, DevStates, TypeOK
  <2>2. QED
    BY <1>10, <2>1 DEF Disconnected, Goto, TypeOK, PC
<1>11. CASE Proceed(t)
  <2>1. NoReq \in Requests
    BY DEF NoReq, Requests
  <2>2. QED
    BY <1>11, <2>1 DEF Proceed, Return, Goto, TypeOK, PC
<1>12. QED
  BY <1>1, <1>2, <1>3, <1>4, <1>5, <1>6, <1>7, <1>8, <1>9, <1>10, <1>11
     DEF DeactivateStep

\* A step of a request handler preserves the type invariant.
LEMMA HandlerType ==
    ASSUME TypeOK, IInv, NEW c \in Client, HandlerStep(c)
    PROVE  TypeOK'
<1> USE DEF shared, acVars, wifiVars, locals
<1>0. c \in Thread /\ NoReq \in Requests
  BY DEF Thread, NoReq, Requests
<1>1. CASE DeactivateStep(c)
  BY <1>0, <1>1, DeactivateType
<1>2. CASE RemoveProfile(c)
  BY <1>0, <1>2 DEF RemoveProfile, Return, Goto, TypeOK, PC
<1>3. ASSUME NEW a \in AC, Create(c, a)
      PROVE  TypeOK'
  <2>1. req[c] \in Requests
    BY <1>0 DEF TypeOK
  <2>2. QED
    BY <1>0, <1>3, <2>1 DEF Create, NewAC, SetAC, Goto, TypeOK, PC, AcStates,
       Requests
<1>4. CASE CreateExhausted(c)
  BY <1>0, <1>4 DEF CreateExhausted, Return, Goto, TypeOK, PC
<1>5. CASE ExportFails(c)
  BY <1>0, <1>5 DEF ExportFails, Unlist, Return, Goto, TypeOK, PC
<1>6. CASE Bind(c)
  <2>1. dev' \in [Dev -> Devices]
    BY <1>0, <1>6, DevType DEF Bind, TypeOK
  <2>2. QED
    BY <1>0, <1>6, <2>1 DEF Bind, Goto, TypeOK, PC
<1>7. CASE Launch(c)
  <2>1. dev' \in [Dev -> Devices]
    BY <1>0, <1>7, DevType DEF Launch, DevStates, TypeOK
  <2>2. QED
    BY <1>0, <1>7, <2>1 DEF Launch, TypeOK, PC, BringUp
<1>8. QED
  BY <1>1, <1>2, <1>3, <1>4, <1>5, <1>6, <1>7 DEF HandlerStep

\* A step of a bring-up preserves the type invariant.
LEMMA RunActivationType ==
    ASSUME TypeOK, IInv, NEW a \in AC, RunActivation(a)
    PROVE  TypeOK'
<1> USE DEF shared, acVars, wifiVars, locals
<1>0. a \in Thread /\ acDev[a] \in Dev \cup {None}
  BY DEF Thread, TypeOK
<1>1. pc[a] # "none" => acDev[a] \in Dev /\ acConn[a] \in Profile
  BY DEF IInv, Working
<1>2. CASE StartWifi(a)
  <2>1. acDev[a] \in Dev
    BY <1>1, <1>2 DEF StartWifi
  <2>2. <<"connecting">> \in Seq({"connecting", "connected", "disconnecting",
                                  "disconnected"})
    OBVIOUS
  <2>3. events' \in Seq(WifiEvents)
    BY <1>2, <2>1, <2>2, EmitType DEF StartWifi, TypeOK
  <2>4. dev' \in [Dev -> Devices]
    BY <1>2, DevType DEF StartWifi, DevStates, TypeOK
  <2>5. QED
    BY <1>0, <1>2, <2>3, <2>4 DEF StartWifi, Goto, TypeOK, PC, BringUp
<1>3. CASE StartOther(a)
  BY <1>0, <1>3 DEF StartOther, Goto, TypeOK, PC, BringUp
<1>4. CASE Connect(a)
  <2>1. acDev[a] \in Dev /\ SsidOf[acConn[a]] \in Ssid \cup {None}
    BY <1>1, <1>4, ConstantsTyped DEF Connect
  <2>2. /\ <<"connected">> \in Seq({"connecting", "connected",
                                    "disconnecting", "disconnected"})
        /\ <<"disconnected">> \in Seq({"connecting", "connected",
                                       "disconnecting", "disconnected"})
    OBVIOUS
  <2>3. events' \in Seq(WifiEvents)
    BY <1>4, <2>1, <2>2, EmitType DEF Connect, TypeOK
  <2>4. dev' \in [Dev -> Devices]
    BY <1>4, <2>1, DevType DEF Connect, TypeOK
  <2>5. QED
    BY <1>0, <1>4, <2>3, <2>4 DEF Connect, Goto, TypeOK, PC, BringUp
<1>5. CASE ConfigureIPv4(a)
  <2>1. dev' \in [Dev -> Devices]
    BY <1>0, <1>5, DevType DEF ConfigureIPv4, DevStates, TypeOK
  <2>2. QED
    BY <1>0, <1>5, <2>1 DEF ConfigureIPv4, Goto, TypeOK, PC, BringUp
<1>6. CASE ConfigureDHCP(a)
  BY <1>0, <1>6 DEF ConfigureDHCP, Goto, TypeOK, PC, BringUp
<1>7. CASE LeaseFlush(a)
  <2>1. dev' \in [Dev -> Devices]
    BY <1>0, <1>7, DevType, {} \in SUBSET AC DEF LeaseFlush, TypeOK
  <2>2. QED
    BY <1>0, <1>7, <2>1 DEF LeaseFlush, Goto, TypeOK, PC, BringUp
<1>8. CASE LeaseAddr(a)
  <2>1. dev' \in [Dev -> Devices]
    <3>1. acDev[a] \in Dev
      BY <1>1, <1>8 DEF LeaseAddr
    <3>2. dev[acDev[a]].addr \cup {a} \in SUBSET AC
      BY <3>1 DEF TypeOK, Devices
    <3>3. CASE dev' = [dev EXCEPT ![acDev[a]].addr = @ \cup {a}]
      <4>1. dev' = [dev EXCEPT ![acDev[a]].addr = dev[acDev[a]].addr \cup {a}]
        BY <3>1, <3>3 DEF TypeOK
      <4>2. QED
        BY <3>2, <4>1, DevType, ZenonT(40) DEF TypeOK
    <3>4. CASE dev' = dev
      BY <3>4 DEF TypeOK
    <3>5. QED
      BY <1>8, <3>3, <3>4 DEF LeaseAddr
  <2>2. QED
    BY <1>0, <1>8, <2>1 DEF LeaseAddr, Goto, TypeOK, PC, BringUp
<1>9. CASE LeaseDNS(a)
  <2>1. dev' \in [Dev -> Devices]
    BY <1>0, <1>9, DevType DEF LeaseDNS, TypeOK
  <2>2. QED
    BY <1>0, <1>9, <2>1 DEF LeaseDNS, Goto, TypeOK, PC, BringUp
<1>10. CASE LeaseIP4(a)
  <2>1. dev' \in [Dev -> Devices]
    BY <1>0, <1>10, DevType DEF LeaseIP4, TypeOK
  <2>2. QED
    BY <1>0, <1>10, <2>1 DEF LeaseIP4, Goto, TypeOK, PC, BringUp
<1>11. CASE CheckSuperseded(a)
  BY <1>0, <1>11 DEF CheckSuperseded, Goto, TypeOK, PC, Settle
<1>12. CASE ActivationFailed(a)
  <2>1. dev' \in [Dev -> Devices]
    BY <1>0, <1>12, DevType DEF ActivationFailed, DevStates, TypeOK
  <2>2. QED
    BY <1>0, <1>12, <2>1 DEF ActivationFailed, Goto, TypeOK, PC
<1>13. CASE Activated(a)
  BY <1>0, <1>13 DEF Activated, SetAC, Goto, TypeOK, PC, Settle, AcStates
<1>14. CASE DevActivated(a)
  <2>1. dev' \in [Dev -> Devices]
    BY <1>0, <1>14, DevType DEF DevActivated, DevStates, TypeOK
  <2>2. QED
    BY <1>0, <1>14, <2>1 DEF DevActivated, Goto, TypeOK, PC, Settle
<1>15. CASE SetPrimary(a)
  BY <1>0, <1>15 DEF SetPrimary, Goto, TypeOK, PC
<1>16. CASE DeactivateStep(a)
  BY <1>0, <1>16, DeactivateType
<1>17. QED
  BY <1>2, <1>3, <1>4, <1>5, <1>6, <1>7, <1>8, <1>9, <1>10, <1>11, <1>12,
     <1>13, <1>14, <1>15, <1>16 DEF RunActivation

\* A step of the event goroutine preserves the type invariant.
LEMMA OnWifiEventType ==
    ASSUME TypeOK, IInv, OnWifiEvent
    PROVE  TypeOK'
<1> USE DEF shared, acVars, wifiVars, locals
<1>0. Iwd \in Thread /\ NoReq \in Requests
  BY DEF Thread, NoReq, Requests
<1>1. ASSUME events # <<>>
      PROVE  Head(events).dev \in Dev /\ Tail(events) \in Seq(WifiEvents)
  BY <1>1, TakeType DEF TypeOK, WifiEvents
<1>2. CASE OnConnecting \/ OnDisconnecting
  <2>1. dev' \in [Dev -> Devices]
    BY <1>2, DevType DEF OnConnecting, OnDisconnecting, DevStates, TypeOK
  <2>2. QED
    BY <1>1, <1>2, <2>1 DEF OnConnecting, OnDisconnecting, TakeEvent, TypeOK
<1>3. CASE OnConnected
  <2>1. /\ Head(events).dev \in Dev
        /\ dev[Head(events).dev].radio \in Ssid \cup {None}
        /\ events' \in Seq(WifiEvents)
    BY <1>1, <1>3 DEF OnConnected, TakeEvent, TypeOK, Devices
  <2>2. req' \in [Thread -> Requests]
    BY <1>0, <1>3, <2>1 DEF OnConnected, EventReq, TypeOK, Requests
  <2>3. dev' \in [Dev -> Devices]
    BY <1>3, DevType DEF OnConnected, DevStates, TypeOK
  <2>4. pc' \in [Thread -> PC]
    BY <1>0, <1>3 DEF OnConnected, Goto, TypeOK, PC
  <2>5. QED
    BY <1>3, <2>1, <2>2, <2>3, <2>4 DEF OnConnected, TakeEvent, TypeOK
<1>4. CASE OnDisconnected
  <2>1. /\ Head(events).dev \in Dev
        /\ events' \in Seq(WifiEvents)
    BY <1>1, <1>4 DEF OnDisconnected, TakeEvent, TypeOK
  <2>2. req' \in [Thread -> Requests]
    BY <1>0, <1>4, <2>1 DEF OnDisconnected, EventReq, TypeOK, Requests
  <2>3. cur' \in [Thread -> AC \cup {None}] /\ pc' \in [Thread -> PC]
    BY <1>0, <1>4 DEF OnDisconnected, Adopted, Goto, TypeOK, PC
  <2>4. QED
    BY <1>4, <2>1, <2>2, <2>3 DEF OnDisconnected, TakeEvent, Unlist,
       ClearPrimary, TypeOK
<1>5. ASSUME NEW a \in AC, Adopt(a)
      PROVE  TypeOK'
  <2>1. req[Iwd].dev \in Dev \cup {None}
    BY <1>0 DEF TypeOK, Requests
  <2>2. QED
    BY <1>0, <1>5, <2>1 DEF Adopt, NewAC, SetAC, Goto, TypeOK, PC, AcStates
<1>6. CASE NoAdopt
  BY <1>0, <1>6 DEF NoAdopt, Return, Goto, TypeOK, PC
<1>7. CASE ExportFails(Iwd)
  BY <1>0, <1>7 DEF ExportFails, Unlist, Return, Goto, TypeOK, PC
<1>8. CASE Bind(Iwd)
  <2>1. dev' \in [Dev -> Devices]
    BY <1>0, <1>8, DevType DEF Bind, TypeOK
  <2>2. QED
    BY <1>0, <1>8, <2>1 DEF Bind, Goto, TypeOK, PC
<1>9. CASE AdoptPrimary
  BY <1>0, <1>9 DEF AdoptPrimary, Return, Goto, TypeOK, PC
<1>10. CASE DropState
  BY <1>0, <1>10 DEF DropState, SetAC, Goto, TypeOK, PC, AcStates
<1>11. CASE DropBind
  <2>1. dev' \in [Dev -> Devices]
    BY <1>0, <1>11, DevType DEF DropBind, TypeOK
  <2>2. QED
    BY <1>0, <1>11, <2>1 DEF DropBind, Goto, TypeOK, PC
<1>12. CASE DropDev
  <2>1. dev' \in [Dev -> Devices]
    BY <1>0, <1>12, DevType DEF DropDev, DevStates, TypeOK
  <2>2. QED
    BY <1>0, <1>12, <2>1 DEF DropDev, Return, Goto, TypeOK, PC
<1>13. QED
  BY <1>2, <1>3, <1>4, <1>5, <1>6, <1>7, <1>8, <1>9, <1>10, <1>11, <1>12
     DEF OnWifiEvent

\* Every step preserves the type invariant.
LEMMA TypeStep ==
    ASSUME TypeOK, IInv, [Next]_vars
    PROVE  TypeOK'
<1> USE DEF shared, acVars, wifiVars, locals
<1>1. ASSUME NEW d \in Dev, NEW ssid \in Ssid \cup {None},
             NEW state \in {"connected", "disconnected"},
             RadioMoves(d, ssid, state)
      PROVE  TypeOK'
  <2>1. <<state>> \in Seq({"connecting", "connected", "disconnecting",
                           "disconnected"})
    OBVIOUS
  <2>2. events' \in Seq(WifiEvents)
    BY <1>1, <2>1, EmitType DEF RadioMoves, TypeOK
  <2>3. dev' \in [Dev -> Devices]
    BY <1>1, DevType DEF RadioMoves, TypeOK
  <2>4. QED
    BY <1>1, <2>2, <2>3 DEF RadioMoves, TypeOK
<1>2. CASE Radio
  BY <1>1, <1>2 DEF Radio, RadioConnects, RadioDrops
<1>3. CASE UNCHANGED vars
  BY <1>3 DEF vars, TypeOK
<1>4. QED
  BY <1>2, <1>3, RequestType, HandlerType, RunActivationType, OnWifiEventType
     DEF Next

-----------------------------------------------------------------------------
\* The three kinds of goroutines are distinct.
LEMMA Threads ==
    /\ Iwd \in Thread
    /\ \A a \in AC : a \in Thread /\ a # Iwd /\ a \notin Client
    /\ \A c \in Client : c \in Thread /\ c # Iwd /\ c \notin AC
    /\ \A t \in Thread : t \in AC \/ t \in Client \/ t = Iwd
  BY ThreadsDistinct DEF Thread

\* A goroutine moves within one stage of its work and changes nothing the
\* invariant speaks of.
Registry == <<activeConns, acVars, locals>>

SameStage(p, q) ==
    \/ p \in BringUp /\ q \in BringUp
    \/ p \in TearingDown \ {"cancel"} /\ q \in TearingDown \ {"cancel"}
    \/ p = "devActivated" /\ q = "setPrimary"
    \/ p = "bind" /\ q = "launch"

LEMMA MoveStep ==
    ASSUME TypeOK, IInv, NEW t \in Thread, NEW p \in PC, Goto(t, p),
           UNCHANGED Registry, SameStage(pc[t], p)
    PROVE  IInv'
<1> USE DEF Registry, acVars, locals, SameStage, Goto, IInv
<1>0. /\ pc' = [pc EXCEPT ![t] = p] /\ pc \in [Thread -> PC]
      /\ AC \subseteq Thread /\ Client \subseteq Thread
  BY DEF TypeOK, Thread
<1>1. Places'
  BY <1>0, ThreadsDistinct DEF Places, Teardown, TearingDown, BringUp, Settle,
     IwdPlaces, Thread
<1>2. Working'
  BY <1>0 DEF Working, Born, HasCur, Teardown, TearingDown, BringUp, Settle
<1>3. Handover'
  BY <1>0 DEF Handover, Places, Teardown, TearingDown, BringUp, Settle
<1>4. Flags'
  BY <1>0 DEF Flags, Born, AfterCancel, Teardown, TearingDown, BringUp, Settle
<1>5. TeardownOnce'
  BY <1>0 DEF Safe, TeardownOnce, Teardown, TearingDown, BringUp, Settle
<1>6. GoneLeaves'
  BY <1>0 DEF Safe, GoneLeaves, TearingDown, BringUp, Settle
<1>7. NoOrphanActivation'
  BY <1>0 DEF Safe, NoOrphanActivation, TearingDown, BringUp, Settle
<1>8. StrayBringUpCancelled'
  BY <1>0 DEF Safe, StrayBringUpCancelled, Places, TearingDown, BringUp, Settle
<1>9. QED
  BY <1>1, <1>2, <1>3, <1>4, <1>5, <1>6, <1>7, <1>8 DEF Safe

\* Nothing the invariant speaks of changes.
LEMMA StayStep ==
    ASSUME TypeOK, IInv, UNCHANGED <<Registry, pc>>
    PROVE  IInv'
<1> USE DEF Registry, acVars, locals, IInv
<1>0. AC \subseteq Thread /\ Client \subseteq Thread /\ Iwd \in Thread
        /\ pc \in [Thread -> PC] /\ todo \in [Thread -> SUBSET AC]
        /\ cur \in [Thread -> AC \cup {None}]
        /\ req \in [Thread -> Requests] /\ acState \in [AC -> AcStates]
  BY DEF TypeOK, Thread
<1>1. Places'
  BY <1>0, ThreadsDistinct DEF Places, IwdPlaces, Thread,
     Teardown, TearingDown, BringUp, Settle
<1>2. Working'
  BY <1>0 DEF Working, Born, HasCur,
     Teardown, TearingDown, BringUp, Settle
<1>3. Handover'
  BY <1>0 DEF Handover, Places, Working, Born, HasCur, Flags,
     Teardown, TearingDown, BringUp, Settle
<1>4. Flags'
  BY <1>0 DEF Flags, Born, AfterCancel, Places,
     Teardown, TearingDown, BringUp, Settle
<1>5. TeardownOnce'
  BY <1>0 DEF Safe, TeardownOnce, Flags, Places,
     Teardown, TearingDown, BringUp, Settle
<1>6. GoneLeaves'
  BY <1>0 DEF Safe, GoneLeaves, Flags, Places, Born,
     Teardown, TearingDown, BringUp, Settle
<1>7. NoOrphanActivation'
  BY <1>0 DEF Safe, NoOrphanActivation, Flags, Places, Born, Working,
     Teardown, TearingDown, BringUp, Settle
<1>8. StrayBringUpCancelled'
  BY <1>0 DEF Safe, StrayBringUpCancelled, Places, Flags, Handover, Working,
     Teardown, TearingDown, BringUp, Settle
<1>9. QED
  BY <1>1, <1>2, <1>3, <1>4, <1>5, <1>6, <1>7, <1>8 DEF Safe

\* A request begins, ends or goes on between its deactivations and its own
\* work.
LEMMA ClientStep ==
    ASSUME TypeOK, IInv, NEW c \in Client,
           NEW p \in {"idle", "todo", "create", "remove"},
           NEW acs \in SUBSET Born, NEW r \in Requests,
           pc[c] \in {"idle", "todo", "create", "remove"},
           Goto(c, p), todo' = [todo EXCEPT ![c] = acs],
           req' = [req EXCEPT ![c] = r], r.op # "event",
           r.op = "activate" => r.dev \in Dev /\ r.conn \in Profile,
           p = "create" => r.op = "activate",
           p = "todo" => r.op \in {"activate", "deactivate", "delete"},
           UNCHANGED <<activeConns, acVars, cur>>
    PROVE  IInv'
<1> USE DEF acVars, Goto, IInv
<1>0. AC \subseteq Thread /\ Client \subseteq Thread /\ Iwd \in Thread
        /\ pc \in [Thread -> PC] /\ todo \in [Thread -> SUBSET AC]
        /\ cur \in [Thread -> AC \cup {None}]
        /\ req \in [Thread -> Requests] /\ acState \in [AC -> AcStates]
        /\ activeConns \subseteq AC /\ gone \subseteq AC
        /\ cancelled \subseteq AC /\ adopted \subseteq AC
        /\ \A e \in Client : pc[e] \in {"bind", "launch"} => cur[e] \in AC
  BY DEF TypeOK, Thread, Working, HasCur, Born
<1>0a. /\ {pc[c], p} \cap (HasCur \cup BringUp \cup Settle \cup {"none"}) = {}
       /\ \A t \in Thread : t # c => pc'[t] = pc[t] /\ todo'[t] = todo[t]
                                       /\ req'[t] = req[t]
       /\ pc'[c] = p /\ todo'[c] = acs /\ req'[c] = r
       /\ c \in Thread /\ c \notin AC
       /\ \A a \in AC : pc'[a] = pc[a]
       /\ \A e \in Client : pc'[e] \in {"bind", "launch"} <=>
                               pc[e] \in {"bind", "launch"}
  BY <1>0, Threads
     DEF HasCur, Teardown, TearingDown, BringUp, Settle
<1>0b. Born' = Born
  BY DEF Born
<1>1. Places'
  BY <1>0, ThreadsDistinct DEF Places, IwdPlaces, Thread,
     Teardown, TearingDown, BringUp, Settle
<1>2. Working'
  <2>1. p \notin {"adopt", "adoptBind", "dropDev", "dropState", "dropBind"}
    OBVIOUS
  <2>2. QED
    BY <1>0, <1>0a, <1>0b, <2>1 DEF Working
<1>3. Handover'
  BY <1>0, <1>0a DEF Handover, HasCur
<1>4. Flags'
  <2>1. p \notin Teardown \cup AfterCancel \cup {"adoptBind"}
    BY <1>0a DEF HasCur, AfterCancel
  <2>2. QED
    BY <1>0, <1>0a, <1>0b, <2>1 DEF Flags
<1>5. TeardownOnce'
  BY <1>0a DEF Safe, TeardownOnce, HasCur
<1>6. GoneLeaves'
  BY <1>0a DEF Safe, GoneLeaves, HasCur, Teardown
<1>7. NoOrphanActivation'
  <2> SUFFICES ASSUME NEW a \in activeConns \ gone, acState[a] = "activating"
               PROVE  \/ pc[a] \in BringUp \cup Settle \cup {"todo"}
                      \/ \E e \in Client : pc'[e] \in {"bind", "launch"}
                                            /\ cur[e] = a
    BY <1>0, <1>0a DEF NoOrphanActivation, BringUp, Settle
  <2>1. QED
    BY <1>0a DEF Safe, NoOrphanActivation
<1>8. StrayBringUpCancelled'
  BY <1>0, <1>0a DEF Safe, StrayBringUpCancelled
<1>9. QED
  BY <1>1, <1>2, <1>3, <1>4, <1>5, <1>6, <1>7, <1>8 DEF Safe

\* The event goroutine moves on; it may drop adopted connections.
LEMMA IwdStep ==
    ASSUME TypeOK, IInv, NEW p \in IwdPlaces, NEW acs \in SUBSET adopted,
           NEW x, NEW r \in Requests,
           Goto(Iwd, p), cur' = [cur EXCEPT ![Iwd] = x],
           req' = [req EXCEPT ![Iwd] = r],
           r.op \in {"none", "event"}, r.op = "event" => r.dev \in Dev,
           p \in {"adopt", "adoptBind", "dropDev", "dropState", "dropBind"}
             => r.op = "event",
           p \in HasCur => x \in Born, p = "adoptBind" => x \in adopted,
           activeConns' = activeConns \ acs,
           UNCHANGED <<acVars, todo>>
    PROVE  IInv'
<1> USE DEF acVars, Goto, IInv
<1>0. AC \subseteq Thread /\ Client \subseteq Thread /\ Iwd \in Thread
        /\ pc \in [Thread -> PC] /\ todo \in [Thread -> SUBSET AC]
        /\ cur \in [Thread -> AC \cup {None}]
        /\ req \in [Thread -> Requests] /\ acState \in [AC -> AcStates]
        /\ activeConns \subseteq AC /\ gone \subseteq AC
        /\ cancelled \subseteq AC /\ adopted \subseteq AC
        /\ \A e \in Client : pc[e] \in {"bind", "launch"} => cur[e] \in AC
  BY DEF TypeOK, Thread, Working, HasCur, Born
<1>0a. /\ {pc[Iwd], p} \cap (Teardown \cup BringUp \cup Settle
                               \cup {"none", "create", "bind", "launch"}) = {}
       /\ \A t \in Thread : t # Iwd => pc'[t] = pc[t] /\ cur'[t] = cur[t]
                                        /\ req'[t] = req[t]
       /\ \A t \in AC : pc'[t] = pc[t] /\ cur'[t] = cur[t]
       /\ \A t \in Client : pc'[t] = pc[t] /\ cur'[t] = cur[t]
       /\ pc'[Iwd] = p /\ cur'[Iwd] = x /\ req'[Iwd] = r
       /\ Iwd \notin AC /\ Iwd \notin Client
  BY <1>0, Threads
     DEF Places, IwdPlaces, Teardown, TearingDown, BringUp, Settle
<1>0b. Born' = Born
  BY DEF Born
<1>0c. \A b \in adopted : pc[b] = "none" /\ b \in AC
  BY DEF Flags, Born
<1>1. Places'
  BY <1>0, ThreadsDistinct DEF Places, IwdPlaces, Thread,
     Teardown, TearingDown, BringUp, Settle
<1>2. Working'
  BY <1>0, <1>0a, <1>0b, ZenonT(40) DEF Working
<1>3. Handover'
  BY <1>0, <1>0a DEF Handover
<1>4. Flags'
  <2>1. p \notin AfterCancel
    BY <1>0a DEF AfterCancel
  <2>2. \A t \in Thread :
          /\ pc'[t] \in Teardown => cur'[t] \in gone
          /\ pc'[t] \in AfterCancel => cur'[t] \in cancelled \cup adopted
          /\ pc'[t] = "adoptBind" => cur'[t] \in adopted
    BY <1>0a, <2>1 DEF Flags
  <2>3. QED
    BY <1>0, <1>0a, <1>0b, <2>2 DEF Flags
<1>5. TeardownOnce'
  BY <1>0a DEF Safe, TeardownOnce
<1>6. GoneLeaves'
  <2>1. p \notin TearingDown /\ pc[Iwd] \notin TearingDown
    BY <1>0a DEF Teardown
  <2>2. QED
    BY <1>0a, <2>1 DEF Safe, GoneLeaves
<1>7. NoOrphanActivation'
  BY <1>0, <1>0a DEF Safe, NoOrphanActivation
<1>8. StrayBringUpCancelled'
  <2>1. "none" \notin BringUp
    BY DEF BringUp
  <2>2. QED
    BY <1>0a, <1>0c, <2>1 DEF Safe, StrayBringUpCancelled
<1>9. QED
  BY <1>1, <1>2, <1>3, <1>4, <1>5, <1>6, <1>7, <1>8 DEF Safe

\* A bring-up goes on after, or ends at, its test of superseded.
LEMMA WorkerStep ==
    ASSUME TypeOK, IInv, NEW a \in AC, NEW p \in Settle \cup {"done", "todo"},
           NEW s \in AcStates \ {"unborn"}, NEW acs \in SUBSET {a},
           pc[a] \in BringUp \cup Settle, Goto(a, p),
           acState' = [acState EXCEPT ![a] = s],
           todo' = [todo EXCEPT ![a] = acs],
           p = "done" => a \in gone \/ s # "activating",
           p = "todo" => a \in acs,
           p \in {"devActivated", "setPrimary"} => s # "activating",
           UNCHANGED <<activeConns, gone, cancelled, adopted, acDev, acConn,
                       cur, req>>
    PROVE  IInv'
<1> USE DEF Goto, IInv
<1>0. AC \subseteq Thread /\ Client \subseteq Thread /\ Iwd \in Thread
        /\ pc \in [Thread -> PC] /\ todo \in [Thread -> SUBSET AC]
        /\ cur \in [Thread -> AC \cup {None}]
        /\ req \in [Thread -> Requests] /\ acState \in [AC -> AcStates]
        /\ activeConns \subseteq AC /\ gone \subseteq AC
        /\ cancelled \subseteq AC /\ adopted \subseteq AC
        /\ \A e \in Client : pc[e] \in {"bind", "launch"} => cur[e] \in AC
  BY DEF TypeOK, Thread, Working, HasCur, Born
<1>0a. /\ a \in Born /\ acConn[a] \in Profile /\ a \notin adopted
       /\ pc[a] \notin HasCur \cup {"none"}
  BY <1>0 DEF Working, Flags, HasCur, Teardown, TearingDown, BringUp, Settle
<1>0b. Born' = Born
  BY <1>0, <1>0a DEF Born, AcStates
<1>0c. /\ p \notin HasCur \cup BringUp
                      \cup {"none", "create", "adopt", "dropDev"}
       /\ \A t \in Thread : t # a => pc'[t] = pc[t] /\ todo'[t] = todo[t]
       /\ pc'[a] = p /\ todo'[a] = acs /\ a \in Thread /\ a \notin Client
       /\ \A b \in AC \ {a} : pc'[b] = pc[b]
       /\ \A e \in Client : pc'[e] = pc[e] /\ e \in Thread /\ e # a
       /\ acState'[a] = s /\ \A b \in AC \ {a} : acState'[b] = acState[b]
  BY <1>0, Threads
     DEF HasCur, Teardown, TearingDown, BringUp, Settle
<1>1. Places'
  BY <1>0, ThreadsDistinct DEF Places, IwdPlaces, Thread,
     Teardown, TearingDown, BringUp, Settle
<1>2. Working'
  <2>1. \A t \in Thread :
          /\ todo'[t] \subseteq Born
          /\ pc'[t] \in HasCur => cur[t] \in Born
          /\ pc'[t] = "create" => req[t].op = "activate"
          /\ pc'[t] \in {"adopt", "adoptBind", "dropDev", "dropState",
                         "dropBind"} => req[t].op = "event"
    BY <1>0a, <1>0c DEF Working, HasCur
  <2>2. \A b \in AC : pc'[b] # "none" => b \in Born /\ acConn[b] \in Profile
    BY <1>0a, <1>0c DEF Working
  <2>3. QED
    BY <1>0b, <2>1, <2>2 DEF Working
<1>3. Handover'
  <2>1. ASSUME NEW c \in Client, pc'[c] \in {"bind", "launch"}
        PROVE  pc'[cur[c]] = "none"
    <3>1. pc[c] = pc'[c]
      BY <1>0c
    <3>2. cur[c] \in AC /\ pc[cur[c]] = "none"
      BY <1>0, <3>1, <2>1 DEF Handover
    <3>3. cur[c] # a
      BY <3>2, <1>0a
    <3>4. QED
      BY <1>0c, <3>2, <3>3
  <2>2. QED
    BY <1>0c, <2>1 DEF Handover
<1>4. Flags'
  <2>1. p \notin Teardown \cup AfterCancel \cup {"adoptBind"}
    BY <1>0c DEF HasCur, AfterCancel
  <2>2. QED
    BY <1>0, <1>0a, <1>0b, <1>0c, <2>1 DEF Flags
<1>5. TeardownOnce'
  BY <1>0c DEF Safe, TeardownOnce, HasCur
<1>6. GoneLeaves'
  <2>1. pc[a] \notin TearingDown
    BY <1>0a DEF HasCur, Teardown
  <2>2. QED
    BY <1>0c, <2>1 DEF Safe, GoneLeaves
<1>7. NoOrphanActivation'
  BY <1>0, <1>0a, <1>0c DEF Safe, NoOrphanActivation
<1>8. StrayBringUpCancelled'
  BY <1>0, <1>0c DEF Safe, StrayBringUpCancelled
<1>9. QED
  BY <1>1, <1>2, <1>3, <1>4, <1>5, <1>6, <1>7, <1>8 DEF Safe

-----------------------------------------------------------------------------
\* What the invariants say of the values at hand.
LEMMA Facts ==
    ASSUME TypeOK, IInv
    PROVE  /\ pc \in [Thread -> PC] /\ todo \in [Thread -> SUBSET AC]
           /\ cur \in [Thread -> AC \cup {None}]
           /\ req \in [Thread -> Requests]
           /\ acState \in [AC -> AcStates]
           /\ acDev \in [AC -> Dev \cup {None}]
           /\ acConn \in [AC -> Profile \cup {None}]
           /\ Born \subseteq AC /\ gone \subseteq Born
           /\ activeConns \subseteq Born /\ adopted \subseteq Born
           /\ cancelled \subseteq gone
           /\ \A t \in Thread : pc[t] \in HasCur => cur[t] \in Born
  BY DEF TypeOK, IInv, Working, Flags, Born

\* Marking an active connection gone preserves the invariant.
LEMMA MarkStep ==
    ASSUME TypeOK, IInv, NEW t \in Client \cup AC, NEW a \in AC, Mark(t, a)
    PROVE  IInv'
<1> USE DEF IInv
<1>0. /\ t \in Thread /\ t # Iwd /\ pc[t] = "todo" /\ a \in todo[t]
      /\ todo' = [todo EXCEPT ![t] = @ \ {a}]
      /\ \/ a \in gone /\ gone' = gone /\ cur' = cur /\ pc' = pc
         \/ /\ a \notin gone /\ gone' = gone \cup {a}
            /\ cur' = [cur EXCEPT ![t] = a]
            /\ pc' = [pc EXCEPT ![t] = "cancel"]
      /\ activeConns' = activeConns /\ acState' = acState
      /\ cancelled' = cancelled /\ adopted' = adopted /\ acDev' = acDev
      /\ acConn' = acConn /\ req' = req
  BY Facts, Threads DEF Mark, Goto
<1>1. Places'
  BY Facts, Threads, <1>0 DEF Places, IwdPlaces,
     HasCur, AfterCancel, Teardown, TearingDown, BringUp, Settle
<1>2. Working'
  BY Facts, Threads, <1>0 DEF Working, Born,
     HasCur, AfterCancel, Teardown, TearingDown, BringUp, Settle
<1>3. Handover'
  BY Facts, Threads, <1>0 DEF Handover, Working, Flags, Born,
     HasCur, AfterCancel, Teardown, TearingDown, BringUp, Settle
<1>4. Flags'
  BY Facts, Threads, <1>0 DEF Flags, Born, Places, Working,
     HasCur, AfterCancel, Teardown, TearingDown, BringUp, Settle
<1>5. TeardownOnce'
  BY Facts, Threads, <1>0 DEF TeardownOnce, Safe, Flags,
     HasCur, AfterCancel, Teardown, TearingDown, BringUp, Settle
<1>6. GoneLeaves'
  BY Facts, Threads, <1>0, SMTT(30) DEF GoneLeaves, Safe, Flags, Working,
     HasCur, AfterCancel, Teardown, TearingDown, BringUp, Settle
<1>7. NoOrphanActivation'
  BY Facts, Threads, <1>0 DEF NoOrphanActivation, Safe, Flags, Places, Working,
     HasCur, AfterCancel, Teardown, TearingDown, BringUp, Settle
<1>8. StrayBringUpCancelled'
  BY Facts, Threads, <1>0 DEF StrayBringUpCancelled, Safe, Flags, Places,
     HasCur, AfterCancel, Teardown, TearingDown, BringUp, Settle
<1>9. QED
  BY <1>1, <1>2, <1>3, <1>4, <1>5, <1>6, <1>7, <1>8 DEF Safe

\* Cancelling the context preserves the invariant.
LEMMA CancelStep ==
    ASSUME TypeOK, IInv, NEW t \in Client \cup AC, Cancel(t)
    PROVE  IInv'
<1> USE DEF IInv
<1>0. /\ t \in Thread /\ t # Iwd /\ pc[t] = "cancel" /\ cur[t] \in gone
      /\ cancelled' = cancelled \cup ({cur[t]} \ adopted)
      /\ acState' = [acState EXCEPT ![cur[t]] = "deactivating"]
      /\ \/ pc' = [pc EXCEPT ![t] = "mech"]
         \/ pc' = [pc EXCEPT ![t] = "flush"]
      /\ activeConns' = activeConns /\ gone' = gone /\ adopted' = adopted
      /\ acDev' = acDev /\ acConn' = acConn /\ req' = req
      /\ todo' = todo /\ cur' = cur
  BY Facts, Threads DEF Cancel, CancelContext, SetAC, Goto, locals, Flags,
     Teardown, TearingDown
<1>1. Places'
  BY Facts, Threads, <1>0 DEF Places, IwdPlaces,
     HasCur, AfterCancel, Teardown, TearingDown, BringUp, Settle
<1>2. Working'
  BY Facts, Threads, <1>0 DEF Working, Born,
     HasCur, AfterCancel, Teardown, TearingDown, BringUp, Settle
<1>3. Handover'
  BY Facts, Threads, <1>0 DEF Handover, Working, Flags, Born,
     HasCur, AfterCancel, Teardown, TearingDown, BringUp, Settle
<1>4. Flags'
  BY Facts, Threads, <1>0 DEF Flags, Born, Places, Working,
     HasCur, AfterCancel, Teardown, TearingDown, BringUp, Settle
<1>5. TeardownOnce'
  BY Facts, Threads, <1>0 DEF TeardownOnce, Safe, Flags,
     HasCur, AfterCancel, Teardown, TearingDown, BringUp, Settle
<1>6. GoneLeaves'
  BY Facts, Threads, <1>0, SMTT(30) DEF GoneLeaves, Safe, Flags, Working,
     HasCur, AfterCancel, Teardown, TearingDown, BringUp, Settle
<1>7. NoOrphanActivation'
  BY Facts, Threads, <1>0 DEF NoOrphanActivation, Safe, Flags, Places, Working,
     HasCur, AfterCancel, Teardown, TearingDown, BringUp, Settle
<1>8. StrayBringUpCancelled'
  BY Facts, Threads, <1>0 DEF StrayBringUpCancelled, Safe, Flags, Places,
     HasCur, AfterCancel, Teardown, TearingDown, BringUp, Settle
<1>9. QED
  BY <1>1, <1>2, <1>3, <1>4, <1>5, <1>6, <1>7, <1>8 DEF Safe

\* Deleting the connection from the registry preserves the invariant.
LEMMA DropStep ==
    ASSUME TypeOK, IInv, NEW t \in Client \cup AC, Drop(t)
    PROVE  IInv'
<1> USE DEF IInv
<1>0. /\ t \in Thread /\ t # Iwd /\ pc[t] = "drop" /\ cur[t] \in gone
      /\ cur[t] \in cancelled \cup adopted
      /\ activeConns' = activeConns \ {cur[t]}
      /\ pc' = [pc EXCEPT ![t] = "final"]
      /\ acState' = acState /\ gone' = gone /\ cancelled' = cancelled
      /\ adopted' = adopted /\ acDev' = acDev /\ acConn' = acConn
      /\ req' = req /\ todo' = todo /\ cur' = cur
  BY Facts, Threads DEF Drop, Unlist, Goto, acVars, locals, Flags, AfterCancel,
     Teardown, TearingDown
<1>1. Places'
  BY Facts, Threads, <1>0 DEF Places, IwdPlaces,
     HasCur, AfterCancel, Teardown, TearingDown, BringUp, Settle
<1>2. Working'
  BY Facts, Threads, <1>0 DEF Working, Born,
     HasCur, AfterCancel, Teardown, TearingDown, BringUp, Settle
<1>3. Handover'
  BY Facts, Threads, <1>0 DEF Handover, Working, Flags, Born,
     HasCur, AfterCancel, Teardown, TearingDown, BringUp, Settle
<1>4. Flags'
  BY Facts, Threads, <1>0 DEF Flags, Born, Places, Working,
     HasCur, AfterCancel, Teardown, TearingDown, BringUp, Settle
<1>5. TeardownOnce'
  BY Facts, Threads, <1>0 DEF TeardownOnce, Safe, Flags,
     HasCur, AfterCancel, Teardown, TearingDown, BringUp, Settle
<1>6. GoneLeaves'
  BY Facts, Threads, <1>0, SMTT(30) DEF GoneLeaves, Safe, Flags, Working,
     HasCur, AfterCancel, Teardown, TearingDown, BringUp, Settle
<1>7. NoOrphanActivation'
  BY Facts, Threads, <1>0 DEF NoOrphanActivation, Safe, Flags, Places, Working,
     HasCur, AfterCancel, Teardown, TearingDown, BringUp, Settle
<1>8. StrayBringUpCancelled'
  BY Facts, Threads, <1>0 DEF StrayBringUpCancelled, Safe, Flags, Places,
     HasCur, AfterCancel, Teardown, TearingDown, BringUp, Settle
<1>9. QED
  BY <1>1, <1>2, <1>3, <1>4, <1>5, <1>6, <1>7, <1>8 DEF Safe

\* The Deactivated state preserves the invariant.
LEMMA DeactivatedStep ==
    ASSUME TypeOK, IInv, NEW t \in Client \cup AC, Deactivated(t)
    PROVE  IInv'
<1> USE DEF IInv
<1>0. /\ t \in Thread /\ t # Iwd /\ pc[t] = "final" /\ cur[t] \in gone
      /\ acState' = [acState EXCEPT ![cur[t]] = "deactivated"]
      /\ pc' = [pc EXCEPT ![t] = "settle"]
      /\ activeConns' = activeConns /\ gone' = gone /\ cancelled' = cancelled
      /\ adopted' = adopted /\ acDev' = acDev /\ acConn' = acConn
      /\ req' = req /\ todo' = todo /\ cur' = cur
  BY Facts, Threads DEF Deactivated, SetAC, Goto, locals, Flags, Teardown
<1>1. Places'
  BY Facts, Threads, <1>0 DEF Places, IwdPlaces,
     HasCur, AfterCancel, Teardown, TearingDown, BringUp, Settle
<1>2. Working'
  BY Facts, Threads, <1>0 DEF Working, Born,
     HasCur, AfterCancel, Teardown, TearingDown, BringUp, Settle
<1>3. Handover'
  BY Facts, Threads, <1>0 DEF Handover, Working, Flags, Born,
     HasCur, AfterCancel, Teardown, TearingDown, BringUp, Settle
<1>4. Flags'
  BY Facts, Threads, <1>0 DEF Flags, Born, Places, Working,
     HasCur, AfterCancel, Teardown, TearingDown, BringUp, Settle
<1>5. TeardownOnce'
  BY Facts, Threads, <1>0 DEF TeardownOnce, Safe, Flags,
     HasCur, AfterCancel, Teardown, TearingDown, BringUp, Settle
<1>6. GoneLeaves'
  BY Facts, Threads, <1>0, SMTT(30) DEF GoneLeaves, Safe, Flags, Working,
     HasCur, AfterCancel, Teardown, TearingDown, BringUp, Settle
<1>7. NoOrphanActivation'
  BY Facts, Threads, <1>0 DEF NoOrphanActivation, Safe, Flags, Places, Working,
     HasCur, AfterCancel, Teardown, TearingDown, BringUp, Settle
<1>8. StrayBringUpCancelled'
  BY Facts, Threads, <1>0 DEF StrayBringUpCancelled, Safe, Flags, Places,
     HasCur, AfterCancel, Teardown, TearingDown, BringUp, Settle
<1>9. QED
  BY <1>1, <1>2, <1>3, <1>4, <1>5, <1>6, <1>7, <1>8 DEF Safe

\* The end of deactivate preserves the invariant.
LEMMA DisconnectedStep ==
    ASSUME TypeOK, IInv, NEW t \in Client \cup AC, Disconnected(t)
    PROVE  IInv'
<1> USE DEF IInv
<1>0. /\ t \in Thread /\ t # Iwd /\ pc[t] = "settle"
      /\ t \in AC => t \in gone
      /\ cur' = [cur EXCEPT ![t] = None]
      /\ pc' = [pc EXCEPT ![t] = "todo"]
      /\ activeConns' = activeConns /\ gone' = gone /\ cancelled' = cancelled
      /\ adopted' = adopted /\ acDev' = acDev /\ acConn' = acConn
      /\ acState' = acState /\ req' = req /\ todo' = todo
  BY Facts, Threads DEF Disconnected, Goto, shared, acVars, Places, Teardown
<1>1. Places'
  BY Facts, Threads, <1>0 DEF Places, IwdPlaces,
     HasCur, AfterCancel, Teardown, TearingDown, BringUp, Settle
<1>2. Working'
  BY Facts, Threads, <1>0 DEF Working, Born,
     HasCur, AfterCancel, Teardown, TearingDown, BringUp, Settle
<1>3. Handover'
  BY Facts, Threads, <1>0 DEF Handover, Working, Flags, Born,
     HasCur, AfterCancel, Teardown, TearingDown, BringUp, Settle
<1>4. Flags'
  BY Facts, Threads, <1>0 DEF Flags, Born, Places, Working,
     HasCur, AfterCancel, Teardown, TearingDown, BringUp, Settle
<1>5. TeardownOnce'
  BY Facts, Threads, <1>0 DEF TeardownOnce, Safe, Flags,
     HasCur, AfterCancel, Teardown, TearingDown, BringUp, Settle
<1>6. GoneLeaves'
  BY Facts, Threads, <1>0, SMTT(30) DEF GoneLeaves, Safe, Flags, Working,
     HasCur, AfterCancel, Teardown, TearingDown, BringUp, Settle
<1>7. NoOrphanActivation'
  BY Facts, Threads, <1>0 DEF NoOrphanActivation, Safe, Flags, Places, Working,
     HasCur, AfterCancel, Teardown, TearingDown, BringUp, Settle
<1>8. StrayBringUpCancelled'
  BY Facts, Threads, <1>0 DEF StrayBringUpCancelled, Safe, Flags, Places,
     HasCur, AfterCancel, Teardown, TearingDown, BringUp, Settle
<1>9. QED
  BY <1>1, <1>2, <1>3, <1>4, <1>5, <1>6, <1>7, <1>8 DEF Safe

\* A goroutine whose connection is deactivated ends.
LEMMA WorkerEnds ==
    ASSUME TypeOK, IInv, NEW t \in AC, Proceed(t)
    PROVE  IInv'
<1> USE DEF IInv
<1>0. /\ t \in Thread /\ t # Iwd /\ pc[t] = "todo" /\ t \in gone
      /\ pc' = [pc EXCEPT ![t] = "done"]
      /\ activeConns' = activeConns /\ gone' = gone /\ cancelled' = cancelled
      /\ adopted' = adopted /\ acDev' = acDev /\ acConn' = acConn
      /\ acState' = acState /\ req' = req /\ todo' = todo /\ cur' = cur
  BY Facts, Threads DEF Proceed, Goto, shared, acVars, Places
<1>1. Places'
  BY Facts, Threads, <1>0 DEF Places, IwdPlaces,
     HasCur, AfterCancel, Teardown, TearingDown, BringUp, Settle
<1>2. Working'
  BY Facts, Threads, <1>0 DEF Working, Born,
     HasCur, AfterCancel, Teardown, TearingDown, BringUp, Settle
<1>3. Handover'
  BY Facts, Threads, <1>0 DEF Handover, Working, Flags, Born,
     HasCur, AfterCancel, Teardown, TearingDown, BringUp, Settle
<1>4. Flags'
  BY Facts, Threads, <1>0 DEF Flags, Born, Places, Working,
     HasCur, AfterCancel, Teardown, TearingDown, BringUp, Settle
<1>5. TeardownOnce'
  BY Facts, Threads, <1>0 DEF TeardownOnce, Safe, Flags,
     HasCur, AfterCancel, Teardown, TearingDown, BringUp, Settle
<1>6. GoneLeaves'
  BY Facts, Threads, <1>0, SMTT(30) DEF GoneLeaves, Safe, Flags, Working,
     HasCur, AfterCancel, Teardown, TearingDown, BringUp, Settle
<1>7. NoOrphanActivation'
  BY Facts, Threads, <1>0 DEF NoOrphanActivation, Safe, Flags, Places, Working,
     HasCur, AfterCancel, Teardown, TearingDown, BringUp, Settle
<1>8. StrayBringUpCancelled'
  BY Facts, Threads, <1>0 DEF StrayBringUpCancelled, Safe, Flags, Places,
     HasCur, AfterCancel, Teardown, TearingDown, BringUp, Settle
<1>9. QED
  BY <1>1, <1>2, <1>3, <1>4, <1>5, <1>6, <1>7, <1>8 DEF Safe

\* Listing a new active connection preserves the invariant.
LEMMA CreateStep ==
    ASSUME TypeOK, IInv, NEW c \in Client, NEW a \in AC, Create(c, a)
    PROVE  IInv'
<1> USE DEF IInv
<1>0. /\ c \in Thread /\ c # Iwd /\ c \notin AC /\ pc[c] = "create"
      /\ acState[a] = "unborn" /\ a \notin Born /\ pc[a] = "none"
      /\ req[c].dev \in Dev /\ req[c].conn \in Profile
      /\ acState' = [acState EXCEPT ![a] = "activating"]
      /\ acDev' = [acDev EXCEPT ![a] = req[c].dev]
      /\ acConn' = [acConn EXCEPT ![a] = req[c].conn]
      /\ activeConns' = activeConns \cup {a}
      /\ cur' = [cur EXCEPT ![c] = a] /\ pc' = [pc EXCEPT ![c] = "bind"]
      /\ gone' = gone /\ cancelled' = cancelled /\ adopted' = adopted
      /\ req' = req /\ todo' = todo /\ Born' = Born \cup {a}
  BY Facts, Threads DEF Create, NewAC, SetAC, Goto, Working, Born
<1>1. Places'
  BY Facts, Threads, <1>0 DEF Places, IwdPlaces,
     HasCur, AfterCancel, Teardown, TearingDown, BringUp, Settle
<1>2. Working'
  BY Facts, Threads, <1>0 DEF Working, Born,
     HasCur, AfterCancel, Teardown, TearingDown, BringUp, Settle
<1>3. Handover'
  BY Facts, Threads, <1>0 DEF Handover, Working, Flags, Born,
     HasCur, AfterCancel, Teardown, TearingDown, BringUp, Settle
<1>4. Flags'
  BY Facts, Threads, <1>0 DEF Flags, Born, Places, Working,
     HasCur, AfterCancel, Teardown, TearingDown, BringUp, Settle
<1>5. TeardownOnce'
  BY Facts, Threads, <1>0 DEF TeardownOnce, Safe, Flags,
     HasCur, AfterCancel, Teardown, TearingDown, BringUp, Settle
<1>6. GoneLeaves'
  BY Facts, Threads, <1>0, SMTT(30) DEF GoneLeaves, Safe, Flags, Working,
     HasCur, AfterCancel, Teardown, TearingDown, BringUp, Settle
<1>7. NoOrphanActivation'
  BY Facts, Threads, <1>0 DEF NoOrphanActivation, Safe, Flags, Places, Working,
     HasCur, AfterCancel, Teardown, TearingDown, BringUp, Settle
<1>8. StrayBringUpCancelled'
  BY Facts, Threads, <1>0 DEF StrayBringUpCancelled, Safe, Flags, Places,
     HasCur, AfterCancel, Teardown, TearingDown, BringUp, Settle
<1>9. QED
  BY <1>1, <1>2, <1>3, <1>4, <1>5, <1>6, <1>7, <1>8 DEF Safe

\* Taking a connection that cannot be exported off the registry again preserves
\* the invariant.
LEMMA ClientExportFails ==
    ASSUME TypeOK, IInv, NEW c \in Client, ExportFails(c)
    PROVE  IInv'
<1> USE DEF IInv
<1>0. /\ c \in Thread /\ c # Iwd /\ c \notin AC /\ pc[c] = "bind"
      /\ pc[cur[c]] = "none" /\ cur[c] \in Born
      /\ activeConns' = activeConns \ {cur[c]}
      /\ cur' = [cur EXCEPT ![c] = None] /\ pc' = [pc EXCEPT ![c] = "idle"]
      /\ req' = [req EXCEPT ![c] = NoReq] /\ NoReq.op = "none"
      /\ acState' = acState /\ acDev' = acDev /\ acConn' = acConn
      /\ gone' = gone /\ cancelled' = cancelled /\ adopted' = adopted
      /\ todo' = todo
  BY Facts, Threads DEF ExportFails, Unlist, Return, Goto, NoReq, acVars,
     Places,
     IwdPlaces, Handover, HasCur
<1>1. Places'
  BY Facts, Threads, <1>0 DEF Places, IwdPlaces,
     HasCur, AfterCancel, Teardown, TearingDown, BringUp, Settle
<1>2. Working'
  BY Facts, Threads, <1>0 DEF Working, Born,
     HasCur, AfterCancel, Teardown, TearingDown, BringUp, Settle
<1>3. Handover'
  BY Facts, Threads, <1>0 DEF Handover, Working, Flags, Born,
     HasCur, AfterCancel, Teardown, TearingDown, BringUp, Settle
<1>4. Flags'
  BY Facts, Threads, <1>0 DEF Flags, Born, Places, Working,
     HasCur, AfterCancel, Teardown, TearingDown, BringUp, Settle
<1>5. TeardownOnce'
  BY Facts, Threads, <1>0 DEF TeardownOnce, Safe, Flags,
     HasCur, AfterCancel, Teardown, TearingDown, BringUp, Settle
<1>6. GoneLeaves'
  BY Facts, Threads, <1>0, SMTT(30) DEF GoneLeaves, Safe, Flags, Working,
     HasCur, AfterCancel, Teardown, TearingDown, BringUp, Settle
<1>7. NoOrphanActivation'
  BY Facts, Threads, <1>0 DEF NoOrphanActivation, Safe, Born
<1>8. StrayBringUpCancelled'
  BY Facts, Threads, <1>0 DEF StrayBringUpCancelled, Safe, Flags, Places,
     HasCur, AfterCancel, Teardown, TearingDown, BringUp, Settle
<1>9. QED
  BY <1>1, <1>2, <1>3, <1>4, <1>5, <1>6, <1>7, <1>8 DEF Safe

\* Starting the goroutine of a connection preserves the invariant.
LEMMA LaunchStep ==
    ASSUME TypeOK, IInv, NEW c \in Client, Launch(c)
    PROVE  IInv'
<1> USE DEF IInv
<1>0. /\ c \in Thread /\ c # Iwd /\ c \notin AC /\ pc[c] = "launch"
      /\ pc[cur[c]] = "none" /\ cur[c] \in Born /\ cur[c] \in AC
      /\ cur[c] \notin adopted /\ acConn[cur[c]] \in Profile
      /\ cur[c] \in activeConns \cup cancelled
      /\ cur' = [cur EXCEPT ![c] = None]
      /\ pc' = [pc EXCEPT ![c] = "idle", ![cur[c]] = "start"]
      /\ req' = [req EXCEPT ![c] = NoReq] /\ NoReq.op = "none"
      /\ activeConns' = activeConns
      /\ acState' = acState /\ acDev' = acDev /\ acConn' = acConn
      /\ gone' = gone /\ cancelled' = cancelled /\ adopted' = adopted
      /\ todo' = todo
  BY Facts, Threads DEF Launch, NoReq, shared, acVars, Handover, HasCur
<1>1. Places'
  BY Facts, Threads, <1>0 DEF Places, IwdPlaces,
     HasCur, AfterCancel, Teardown, TearingDown, BringUp, Settle
<1>2. Working'
  BY Facts, Threads, <1>0 DEF Working, Born,
     HasCur, AfterCancel, Teardown, TearingDown, BringUp, Settle
<1>3. Handover'
  BY Facts, Threads, <1>0 DEF Handover, Working, Flags, Born,
     HasCur, AfterCancel, Teardown, TearingDown, BringUp, Settle
<1>4. Flags'
  BY Facts, Threads, <1>0 DEF Flags, Born, Places, Working,
     HasCur, AfterCancel, Teardown, TearingDown, BringUp, Settle
<1>5. TeardownOnce'
  BY Facts, Threads, <1>0 DEF TeardownOnce, Safe, Flags,
     HasCur, AfterCancel, Teardown, TearingDown, BringUp, Settle
<1>6. GoneLeaves'
  BY Facts, Threads, <1>0, SMTT(30) DEF GoneLeaves, Safe, Flags, Working,
     HasCur, AfterCancel, Teardown, TearingDown, BringUp, Settle
<1>7. NoOrphanActivation'
  BY Facts, Threads, <1>0 DEF NoOrphanActivation, Safe, Flags, Places, Working,
     HasCur, AfterCancel, Teardown, TearingDown, BringUp, Settle
<1>8. StrayBringUpCancelled'
  BY Facts, Threads, <1>0 DEF StrayBringUpCancelled, Safe, Flags, Places,
     HasCur, AfterCancel, Teardown, TearingDown, BringUp, Settle
<1>9. QED
  BY <1>1, <1>2, <1>3, <1>4, <1>5, <1>6, <1>7, <1>8 DEF Safe

\* Showing an adopted connection as deactivated preserves the invariant.
LEMMA DropStateStep ==
    ASSUME TypeOK, IInv, DropState
    PROVE  IInv'
<1> USE DEF IInv
<1>0. /\ pc[Iwd] = "dropState" /\ cur[Iwd] \in Born /\ req[Iwd].op = "event"
      /\ acState' = [acState EXCEPT ![cur[Iwd]] = "deactivated"]
      /\ pc' = [pc EXCEPT ![Iwd] = "dropBind"]
      /\ activeConns' = activeConns /\ gone' = gone /\ cancelled' = cancelled
      /\ adopted' = adopted /\ acDev' = acDev /\ acConn' = acConn
      /\ req' = req /\ todo' = todo /\ cur' = cur
  BY Facts, Threads DEF DropState, SetAC, Goto, locals, Working, HasCur
<1>1. Places'
  BY Facts, Threads, <1>0 DEF Places, IwdPlaces,
     HasCur, AfterCancel, Teardown, TearingDown, BringUp, Settle
<1>2. Working'
  BY Facts, Threads, <1>0 DEF Working, Born,
     HasCur, AfterCancel, Teardown, TearingDown, BringUp, Settle
<1>3. Handover'
  BY Facts, Threads, <1>0 DEF Handover, Working, Flags, Born,
     HasCur, AfterCancel, Teardown, TearingDown, BringUp, Settle
<1>4. Flags'
  BY Facts, Threads, <1>0 DEF Flags, Born, Places, Working,
     HasCur, AfterCancel, Teardown, TearingDown, BringUp, Settle
<1>5. TeardownOnce'
  BY Facts, Threads, <1>0 DEF TeardownOnce, Safe, Flags,
     HasCur, AfterCancel, Teardown, TearingDown, BringUp, Settle
<1>6. GoneLeaves'
  BY Facts, Threads, <1>0, SMTT(30) DEF GoneLeaves, Safe, Flags, Working,
     HasCur, AfterCancel, Teardown, TearingDown, BringUp, Settle
<1>7. NoOrphanActivation'
  BY Facts, Threads, <1>0 DEF NoOrphanActivation, Safe, Flags, Places, Working,
     HasCur, AfterCancel, Teardown, TearingDown, BringUp, Settle
<1>8. StrayBringUpCancelled'
  BY Facts, Threads, <1>0 DEF StrayBringUpCancelled, Safe, Flags, Places,
     HasCur, AfterCancel, Teardown, TearingDown, BringUp, Settle
<1>9. QED
  BY <1>1, <1>2, <1>3, <1>4, <1>5, <1>6, <1>7, <1>8 DEF Safe

\* Adopting a network the radio joined preserves the invariant.
LEMMA AdoptStep ==
    ASSUME TypeOK, IInv, NEW a \in AC, Adopt(a)
    PROVE  IInv'
<1> USE DEF IInv
<1>0a. \E p : acConn' = [acConn EXCEPT ![a] = p]
  BY DEF Adopt, NewAC
<1>0b. /\ pc[Iwd] = "adopt" /\ acState[a] = "unborn"
       /\ acState' = [acState EXCEPT ![a] = "activated"]
       /\ acDev' = [acDev EXCEPT ![a] = req[Iwd].dev]
       /\ activeConns' = activeConns \cup {a} /\ adopted' = adopted \cup {a}
       /\ cur' = [cur EXCEPT ![Iwd] = a]
       /\ pc' = [pc EXCEPT ![Iwd] = "adoptBind"]
       /\ gone' = gone /\ cancelled' = cancelled
       /\ req' = req /\ todo' = todo
  BY DEF Adopt, NewAC, SetAC, Goto
<1>0c. /\ req[Iwd].dev \in Dev /\ req[Iwd].op = "event"
       /\ a \notin Born /\ pc[a] = "none" /\ Born' = Born \cup {a}
  BY Facts, Threads, <1>0b DEF Working, Born
<1>1. Places'
  BY Facts, Threads, <1>0a, <1>0b, <1>0c DEF Places, IwdPlaces,
     HasCur, AfterCancel, Teardown, TearingDown, BringUp, Settle
<1>2. Working'
  BY Facts, Threads, <1>0a, <1>0b, <1>0c DEF Working, Born,
     HasCur, AfterCancel, Teardown, TearingDown, BringUp, Settle
<1>3. Handover'
  BY Facts, Threads, <1>0a, <1>0b, <1>0c DEF Handover, Working, Flags, Born,
     HasCur, AfterCancel, Teardown, TearingDown, BringUp, Settle
<1>4. Flags'
  BY Facts, Threads, <1>0a, <1>0b, <1>0c DEF Flags, Born, Places, Working,
     HasCur, AfterCancel, Teardown, TearingDown, BringUp, Settle
<1>5. TeardownOnce'
  BY Facts, Threads, <1>0a, <1>0b, <1>0c DEF TeardownOnce, Safe, Flags,
     HasCur, AfterCancel, Teardown, TearingDown, BringUp, Settle
<1>6. GoneLeaves'
  BY Facts, Threads, <1>0a, <1>0b, <1>0c DEF GoneLeaves, Safe, Flags, Working,
     HasCur, AfterCancel, Teardown, TearingDown, BringUp, Settle
<1>7. NoOrphanActivation'
  BY Facts, Threads, <1>0a, <1>0b, <1>0c DEF NoOrphanActivation, Safe, Flags,
     Places, Working,
     HasCur, AfterCancel, Teardown, TearingDown, BringUp, Settle
<1>8. StrayBringUpCancelled'
  BY Facts, Threads, <1>0a, <1>0b, <1>0c DEF StrayBringUpCancelled, Safe,
     Flags, Places,
     HasCur, AfterCancel, Teardown, TearingDown, BringUp, Settle
<1>9. QED
  BY <1>1, <1>2, <1>3, <1>4, <1>5, <1>6, <1>7, <1>8 DEF Safe

-----------------------------------------------------------------------------
\* A new request preserves the invariant.
LEMMA RequestInv ==
    ASSUME TypeOK, IInv, NEW c \in Client, NewRequest(c)
    PROVE  IInv'
<1> USE DEF IInv
<1>1. ASSUME NEW op \in {"activate", "deactivate", "delete"},
             NEW acs \in SUBSET AC, acs \subseteq activeConns,
             NEW d \in Dev \cup {None}, NEW p \in Profile \cup {None},
             op = "activate" => d \in Dev /\ p \in Profile,
             Request(c, op, acs, d, p)
      PROVE  IInv'
  <2> DEFINE r == [op |-> op, dev |-> d, conn |-> p, ssid |-> None]
  <2>1. r \in Requests /\ r.op # "event" /\ (r.op = "activate" => d \in Dev)
    BY <1>1 DEF Requests
  <2>2. acs \in SUBSET Born
    BY <1>1, Facts
  <2>3. /\ pc[c] = "idle" /\ Goto(c, "todo")
        /\ todo' = [todo EXCEPT ![c] = acs] /\ req' = [req EXCEPT ![c] = r]
        /\ UNCHANGED <<activeConns, acVars, cur>>
    BY <1>1 DEF Request
  <2>4. QED
    BY <1>1, <2>1, <2>2, <2>3, ClientStep
<1>2. \A d \in Dev : ActiveOn(d) \in SUBSET AC /\ ActiveOn(d) \subseteq activeConns
  BY Facts DEF ActiveOn, Born
<1>3. \A a \in activeConns : {a} \in SUBSET AC /\ {a} \subseteq activeConns
  BY Facts DEF Born
<1>4. ASSUME NEW d \in Dev, NEW p \in Profile,
             ActivateConnection(c, p, d) \/ AddAndActivateConnection(c, p, d)
      PROVE  IInv'
  BY <1>1, <1>2, <1>4 DEF ActivateConnection, AddAndActivateConnection
<1>5. ASSUME NEW a \in AC, DeactivateConnection(c, a)
      PROVE  IInv'
  BY <1>1, <1>3, <1>5 DEF DeactivateConnection
<1>6. ASSUME NEW d \in Dev, DeviceDisconnect(c, d)
      PROVE  IInv'
  BY <1>1, <1>2, <1>6 DEF DeviceDisconnect
<1>7. ASSUME NEW p \in Profile, Delete(c, p)
      PROVE  IInv'
  <2> DEFINE acs == {a \in activeConns : acConn[a] = p}
  <2>1. acs \in SUBSET AC /\ acs \subseteq activeConns
    BY Facts DEF Born
  <2>2. Request(c, "delete", acs, None, p)
    BY <1>7 DEF Delete
  <2>3. QED
    BY <1>1, <2>1, <2>2
<1>8. ASSUME NEW p \in Profile, AddConnection(c, p)
      PROVE  IInv'
  BY <1>8, StayStep DEF AddConnection, Registry
<1>9. ASSUME NEW d \in Dev, DeviceDisconnectRadio(c, d)
      PROVE  IInv'
  BY <1>9, StayStep DEF DeviceDisconnectRadio, Registry, shared
<1>10. QED
  BY <1>4, <1>5, <1>6, <1>7, <1>8, <1>9 DEF NewRequest

\* A step of deactivate preserves the invariant.
LEMMA DeactivateInv ==
    ASSUME TypeOK, IInv, NEW t \in Client \cup AC, DeactivateStep(t)
    PROVE  IInv'
<1>0. t \in Thread
  BY Threads
<1>1. ASSUME NEW p \in TearingDown \ {"cancel"}, Goto(t, p),
             pc[t] \in TearingDown \ {"cancel"}, UNCHANGED Registry
      PROVE  IInv'
  BY <1>0, <1>1, MoveStep DEF SameStage, PC, Teardown
<1>2. CASE \E a \in AC : Mark(t, a)
  BY <1>2, MarkStep
<1>3. CASE Cancel(t)
  BY <1>3, CancelStep
<1>4. CASE DisconnectMech(t)
  BY <1>1, <1>4 DEF DisconnectMech, TearingDown, Registry, shared
<1>5. CASE FlushAddrs(t)
  BY <1>1, <1>5 DEF FlushAddrs, TearingDown, Registry, shared
<1>6. CASE RevertDNS(t)
  BY <1>1, <1>6 DEF RevertDNS, TearingDown, Registry, shared
<1>7. CASE Unbind(t)
  BY <1>1, <1>7 DEF Unbind, TearingDown, Registry, shared
<1>8. CASE UnexportIP4(t)
  BY <1>1, <1>8 DEF UnexportIP4, TearingDown, Registry
<1>9. CASE Drop(t)
  BY <1>9, DropStep
<1>10. CASE Deactivated(t)
  BY <1>10, DeactivatedStep
<1>11. CASE Disconnected(t)
  BY <1>11, DisconnectedStep
<1>12. CASE Proceed(t)
  <2>1. CASE t \in AC
    BY <1>12, <2>1, WorkerEnds
  <2>2. CASE t \in Client
    <3>1. /\ todo' = [todo EXCEPT ![t] = {}] /\ {} \in SUBSET Born
          /\ UNCHANGED <<activeConns, acVars, cur>> /\ pc[t] = "todo"
      BY <1>0, <1>12, Facts DEF Proceed, shared
    <3>2. req[t] \in Requests
            /\ (req[t].op = "activate" => req[t].dev \in Dev
                                             /\ req[t].conn \in Profile)
      BY <1>0, Facts DEF IInv, Working
    <3>3. NoReq \in Requests /\ NoReq.op = "none"
      BY DEF NoReq, Requests
    <3>4. CASE req[t].op = "deactivate"
      <4>1. Goto(t, "idle") /\ req' = [req EXCEPT ![t] = NoReq]
        BY <1>12, <3>4 DEF Proceed, Return
      <4>2. QED
        BY <2>2, <3>1, <3>3, <4>1, ClientStep
    <3>5. CASE req[t].op \in {"activate", "delete"}
      <4>1. /\ Goto(t, IF req[t].op = "activate" THEN "create" ELSE "remove")
            /\ req' = [req EXCEPT ![t] = req[t]]
        BY <1>0, <1>12, <3>5, Facts DEF Proceed
      <4>2. QED
        BY <2>2, <3>1, <3>2, <3>5, <4>1, ClientStep
    <3>6. req[t].op \in {"activate", "deactivate", "delete"}
      BY <2>2, <3>1 DEF IInv, Places
    <3>7. QED
      BY <3>4, <3>5, <3>6
  <2>3. QED
    BY <2>1, <2>2
<1>13. QED
  BY <1>2, <1>3, <1>4, <1>5, <1>6, <1>7, <1>8, <1>9, <1>10, <1>11, <1>12
     DEF DeactivateStep

\* A step of a request handler preserves the invariant.
LEMMA HandlerInv ==
    ASSUME TypeOK, IInv, NEW c \in Client, HandlerStep(c)
    PROVE  IInv'
<1>0. c \in Thread /\ c # Iwd
  BY Threads
<1>1. ASSUME pc[c] \in {"remove", "create"}, Return(c),
             UNCHANGED <<activeConns, acVars, cur, todo>>
      PROVE  IInv'
  <2>1. NoReq \in Requests /\ NoReq.op = "none"
    BY DEF NoReq, Requests
  <2>2. /\ todo' = [todo EXCEPT ![c] = todo[c]] /\ todo[c] \in SUBSET Born
        /\ Goto(c, "idle") /\ req' = [req EXCEPT ![c] = NoReq]
        /\ UNCHANGED <<activeConns, acVars, cur>>
    BY <1>0, <1>1, Facts DEF Return, IInv, Working
  <2>3. QED
    BY <1>1, <2>1, <2>2, ClientStep
<1>2. CASE DeactivateStep(c)
  BY <1>2, DeactivateInv
<1>3. CASE RemoveProfile(c)
  BY <1>1, <1>3 DEF RemoveProfile
<1>4. CASE \E a \in AC : Create(c, a)
  BY <1>4, CreateStep
<1>5. CASE CreateExhausted(c)
  BY <1>1, <1>5 DEF CreateExhausted, shared
<1>6. CASE ExportFails(c)
  BY <1>6, ClientExportFails
<1>7. CASE Bind(c)
  <2>1. pc[c] = "bind" /\ Goto(c, "launch") /\ UNCHANGED Registry
    BY <1>7 DEF Bind, IInv, Places, IwdPlaces, Registry, shared
  <2>2. QED
    BY <1>0, <2>1, MoveStep DEF SameStage, PC
<1>8. CASE Launch(c)
  BY <1>8, LaunchStep
<1>9. QED
  BY <1>2, <1>3, <1>4, <1>5, <1>6, <1>7, <1>8 DEF HandlerStep

\* A step of a connection's goroutine preserves the invariant.
LEMMA RunActivationInv ==
    ASSUME TypeOK, IInv, NEW a \in AC, RunActivation(a)
    PROVE  IInv'
<1>0. a \in Thread
  BY Threads
<1>1. ASSUME NEW p \in BringUp, Goto(a, p), pc[a] \in BringUp,
             UNCHANGED Registry
      PROVE  IInv'
  BY <1>0, <1>1, MoveStep DEF SameStage, PC
<1>2. ASSUME NEW p \in Settle \cup {"done"}, Goto(a, p),
             pc[a] \in BringUp \cup Settle, acState[a] # "unborn",
             p = "done" => a \in gone \/ acState[a] # "activating",
             p \notin {"devActivated", "setPrimary"},
             UNCHANGED <<activeConns, acVars, locals>>
      PROVE  IInv'
  <2>1. /\ acState[a] \in AcStates \ {"unborn"} /\ todo[a] \in SUBSET {a}
        /\ acState' = [acState EXCEPT ![a] = acState[a]]
        /\ todo' = [todo EXCEPT ![a] = todo[a]]
        /\ UNCHANGED <<activeConns, gone, cancelled, adopted, acDev, acConn,
                       cur, req>>
    BY <1>0, <1>2, Facts DEF acVars, locals, IInv, Places
  <2>2. p # "todo"
    BY <1>2 DEF Settle
  <2>3. QED
    BY <1>2, <2>1, <2>2, WorkerStep
<1>3. pc[a] \in BringUp \cup Settle => a \in Born /\ acState[a] # "unborn"
  BY DEF IInv, Working, Born, BringUp, Settle
<1>4. CASE StartWifi(a)
  BY <1>1, <1>4 DEF StartWifi, Registry, shared, BringUp
<1>5. CASE StartOther(a)
  BY <1>1, <1>5 DEF StartOther, Registry, shared, BringUp
<1>6. CASE Connect(a)
  BY <1>1, <1>6 DEF Connect, Registry, shared, BringUp
<1>7. CASE ConfigureIPv4(a)
  BY <1>1, <1>7 DEF ConfigureIPv4, Registry, shared, BringUp
<1>8. CASE ConfigureDHCP(a)
  BY <1>1, <1>8 DEF ConfigureDHCP, Registry, shared, BringUp
<1>9. CASE LeaseFlush(a)
  BY <1>1, <1>9 DEF LeaseFlush, Registry, shared, BringUp
<1>10. CASE LeaseAddr(a)
  BY <1>1, <1>10 DEF LeaseAddr, Registry, shared, BringUp
<1>11. CASE LeaseDNS(a)
  BY <1>1, <1>11 DEF LeaseDNS, Registry, shared, BringUp
<1>12. CASE LeaseIP4(a)
  BY <1>1, <1>12 DEF LeaseIP4, Registry, BringUp
<1>13. CASE CheckSuperseded(a)
  <2>1. pc[a] \in BringUp /\ UNCHANGED <<activeConns, acVars, locals>>
    BY <1>13 DEF CheckSuperseded, BringUp, shared
  <2>2. CASE Superseded(a)
    <3>1. a \in gone /\ Goto(a, "done")
      BY <1>13, <2>2, Facts DEF CheckSuperseded, Superseded
    <3>2. QED
      BY <1>2, <1>3, <2>1, <3>1
  <2>3. CASE ~Superseded(a)
    <3>1. Goto(a, "failed") \/ Goto(a, "activated")
      BY <1>13, <2>3 DEF CheckSuperseded
    <3>2. QED
      BY <1>2, <1>3, <2>1, <3>1 DEF Settle
  <2>4. QED
    BY <2>2, <2>3
<1>14. CASE ActivationFailed(a)
  <2>1. /\ pc[a] \in BringUp \cup Settle /\ Goto(a, "todo")
        /\ todo' = [todo EXCEPT ![a] = {a}]
        /\ UNCHANGED <<activeConns, acVars, cur, req>>
    BY <1>14 DEF ActivationFailed, shared, Settle
  <2>2. /\ acState[a] \in AcStates \ {"unborn"}
        /\ acState' = [acState EXCEPT ![a] = acState[a]]
    BY <1>3, <2>1, Facts DEF acVars
  <2>3. QED
    BY <2>1, <2>2, WorkerStep DEF acVars
<1>15. CASE Activated(a)
  <2>1. /\ pc[a] \in BringUp \cup Settle /\ Goto(a, "devActivated")
        /\ acState' = [acState EXCEPT ![a] = "activated"]
        /\ UNCHANGED <<activeConns, gone, cancelled, adopted, acDev, acConn,
                       cur, req>>
    BY <1>15 DEF Activated, SetAC, locals, Settle
  <2>2. /\ todo[a] \in SUBSET {a} /\ todo' = [todo EXCEPT ![a] = todo[a]]
        /\ "activated" \in AcStates \ {"unborn"}
    BY <1>0, <1>15, Facts DEF Activated, locals, IInv, Places, AcStates
  <2>3. QED
    BY <2>1, <2>2, WorkerStep DEF Settle
<1>16. CASE DevActivated(a)
  BY <1>0, <1>16, MoveStep DEF DevActivated, Registry, shared, SameStage, PC,
     Settle
<1>17. CASE SetPrimary(a)
  <2>1. acState[a] # "activating" /\ pc[a] \in Settle
    BY <1>17 DEF SetPrimary, IInv, Flags, Settle
  <2>2. QED
    BY <1>2, <1>3, <1>17, <2>1 DEF SetPrimary
<1>18. CASE DeactivateStep(a)
  BY <1>18, DeactivateInv
<1>19. QED
  BY <1>4, <1>5, <1>6, <1>7, <1>8, <1>9, <1>10, <1>11, <1>12, <1>13, <1>14,
     <1>15, <1>16, <1>17, <1>18 DEF RunActivation

\* A step of the event goroutine preserves the invariant.
LEMMA OnWifiEventInv ==
    ASSUME TypeOK, IInv, OnWifiEvent
    PROVE  IInv'
<1>0. /\ Iwd \in Thread /\ cur' \in [Thread -> AC \cup {None}]'
      /\ req[Iwd] \in Requests /\ NoReq \in Requests /\ NoReq.op = "none"
      /\ cur = [cur EXCEPT ![Iwd] = cur[Iwd]]
      /\ req = [req EXCEPT ![Iwd] = req[Iwd]]
  BY Facts, Threads, OnWifiEventType DEF NoReq, Requests, TypeOK
<1>1. CASE OnConnecting \/ OnDisconnecting
  BY <1>1, StayStep DEF OnConnecting, OnDisconnecting, TakeEvent, Registry,
     locals
<1>2. CASE OnConnected
  <2> DEFINE r == [op |-> "event", dev |-> Head(events).dev, conn |-> None,
                   ssid |-> dev[Head(events).dev].radio]
  <2>1. Head(events) \in WifiEvents
    BY <1>2, TakeType DEF OnConnected, TakeEvent, TypeOK
  <2>2. r \in Requests /\ r.op = "event" /\ r.dev \in Dev
    BY <2>1 DEF WifiEvents, Requests, TypeOK, Devices
  <2>3. /\ Goto(Iwd, "adopt") /\ req' = [req EXCEPT ![Iwd] = r]
        /\ cur' = [cur EXCEPT ![Iwd] = cur[Iwd]]
        /\ activeConns' = activeConns \ {} /\ UNCHANGED <<acVars, todo>>
    BY <1>0, <1>2 DEF OnConnected, TakeEvent, EventReq
  <2>4. "adopt" \in IwdPlaces \ HasCur
    BY DEF IwdPlaces, HasCur, Teardown, TearingDown
  <2>5. QED
    BY <2>2, <2>3, <2>4, IwdStep
<1>3. CASE OnDisconnected
  <2> DEFINE r == [op |-> "event", dev |-> Head(events).dev, conn |-> None,
                   ssid |-> None]
             dropped == Adopted(Head(events).dev)
  <2>1. Head(events) \in WifiEvents
    BY <1>3, TakeType DEF OnDisconnected, TakeEvent, TypeOK
  <2>2. r \in Requests /\ r.op = "event" /\ r.dev \in Dev
    BY <2>1 DEF WifiEvents, Requests
  <2>3. dropped \subseteq adopted /\ dropped \subseteq Born
    BY Facts DEF Adopted, ActiveOn
  <2>4. /\ req' = [req EXCEPT ![Iwd] = r] /\ activeConns' = activeConns \ dropped
        /\ UNCHANGED <<acVars, todo>>
    BY <1>3 DEF OnDisconnected, TakeEvent, EventReq, Unlist
  <2>5. /\ {"dropDev", "dropState"} \subseteq IwdPlaces
        /\ "dropDev" \notin HasCur
    BY DEF IwdPlaces, HasCur, Teardown, TearingDown
  <2>6. \/ Goto(Iwd, "dropDev") /\ cur' = [cur EXCEPT ![Iwd] = cur[Iwd]]
        \/ \E a \in dropped : /\ cur' = [cur EXCEPT ![Iwd] = a]
                              /\ Goto(Iwd, "dropState")
    BY <1>0, <1>3 DEF OnDisconnected
  <2>7. QED
    BY <2>2, <2>3, <2>4, <2>5, <2>6, IwdStep
<1>4. CASE \E a \in AC : Adopt(a)
  BY <1>4, AdoptStep
<1>5. ASSUME NEW x, NEW acs \in SUBSET adopted, Return(Iwd),
             cur' = [cur EXCEPT ![Iwd] = x], activeConns' = activeConns \ acs,
             UNCHANGED <<acVars, todo>>
      PROVE  IInv'
  <2>1. "idle" \in IwdPlaces \ HasCur
    BY DEF IwdPlaces, HasCur, Teardown, TearingDown
  <2>2. QED
    BY <1>0, <1>5, <2>1, IwdStep DEF Return
<1>5a. ASSUME NEW x, Return(Iwd), cur' = [cur EXCEPT ![Iwd] = x],
              UNCHANGED <<activeConns, acVars, todo>>
       PROVE  IInv'
  <2>1. {} \in SUBSET adopted /\ activeConns' = activeConns \ {}
          /\ UNCHANGED <<acVars, todo>>
    BY <1>5a
  <2>2. QED
    BY <1>5, <1>5a, <2>1
<1>6. CASE NoAdopt
  <2>1. /\ Return(Iwd) /\ cur' = [cur EXCEPT ![Iwd] = cur[Iwd]]
        /\ UNCHANGED <<activeConns, acVars, todo>>
    BY <1>0, <1>6 DEF NoAdopt, shared
  <2>2. QED
    BY <1>5a, <2>1
<1>7. CASE ExportFails(Iwd)
  <2>1. cur[Iwd] \in adopted
    BY <1>0, <1>7 DEF ExportFails, IInv, Places, Flags, IwdPlaces
  <2>2. QED
    BY <1>5, <1>7, <2>1, ZenonT(40) DEF ExportFails, Unlist
<1>8. CASE Bind(Iwd)
  <2>1. /\ pc[Iwd] = "adoptBind" /\ Goto(Iwd, "adoptPrimary")
        /\ UNCHANGED <<activeConns, acVars, locals>>
    BY <1>8 DEF Bind, shared, IInv, Places, IwdPlaces
  <2>2. cur[Iwd] \in Born /\ req[Iwd].op = "event" /\ req[Iwd].dev \in Dev
    BY <1>0, <2>1 DEF IInv, Working, HasCur
  <2>3. "adoptPrimary" \in IwdPlaces
    BY DEF IwdPlaces
  <2>4. /\ cur' = [cur EXCEPT ![Iwd] = cur[Iwd]]
        /\ req' = [req EXCEPT ![Iwd] = req[Iwd]]
        /\ activeConns' = activeConns \ {} /\ UNCHANGED <<acVars, todo>>
    BY <1>0, <2>1 DEF locals
  <2>5. QED
    BY <1>0, <2>1, <2>2, <2>3, <2>4, IwdStep
<1>9. CASE AdoptPrimary
  <2>1. /\ Return(Iwd) /\ cur' = [cur EXCEPT ![Iwd] = None]
        /\ UNCHANGED <<activeConns, acVars, todo>>
    BY <1>9 DEF AdoptPrimary
  <2>2. QED
    BY <1>5a, <2>1
<1>10. CASE DropState
  BY <1>10, DropStateStep
<1>11. CASE DropBind
  <2>1. req[Iwd].op = "event" /\ req[Iwd].dev \in Dev
    BY <1>0, <1>11 DEF DropBind, IInv, Working
  <2>2. "dropDev" \in IwdPlaces \ HasCur
    BY DEF IwdPlaces, HasCur, Teardown, TearingDown
  <2>3. /\ Goto(Iwd, "dropDev") /\ cur' = [cur EXCEPT ![Iwd] = None]
        /\ req' = [req EXCEPT ![Iwd] = req[Iwd]]
        /\ activeConns' = activeConns \ {} /\ UNCHANGED <<acVars, todo>>
    BY <1>0, <1>11 DEF DropBind, shared
  <2>4. QED
    BY <1>0, <2>1, <2>2, <2>3, IwdStep
<1>12. CASE DropDev
  <2>1. /\ Return(Iwd) /\ cur' = [cur EXCEPT ![Iwd] = cur[Iwd]]
        /\ UNCHANGED <<activeConns, acVars, todo>>
    BY <1>0, <1>12 DEF DropDev, shared
  <2>2. QED
    BY <1>5a, <2>1
<1>13. QED
  BY <1>1, <1>2, <1>3, <1>4, <1>6, <1>7, <1>8, <1>9, <1>10, <1>11, <1>12
     DEF OnWifiEvent

\* Every step preserves the strengthened invariant.
LEMMA InvStep ==
    ASSUME TypeOK, IInv, [Next]_vars
    PROVE  IInv'
<1>1. CASE Radio
  BY <1>1, StayStep DEF Radio, RadioConnects, RadioDrops, RadioMoves, Registry,
     shared
<1>2. CASE UNCHANGED vars
  BY <1>2, StayStep DEF vars, shared, Registry
<1>3. QED
  BY <1>1, <1>2, RequestInv, HandlerInv, RunActivationInv, OnWifiEventInv
     DEF Next

\* The initial state satisfies both invariants.
LEMMA InitInv ==
    ASSUME Init
    PROVE  TypeOK /\ IInv
<1>1. /\ \A a \in AC : pc[a] = "none" /\ req[a].op = "none" /\ todo[a] = {}
                       /\ acState[a] = "unborn"
      /\ \A c \in Client : pc[c] = "idle"
      /\ pc[Iwd] = "idle"
      /\ \A t \in Thread : pc[t] \in {"none", "idle"} /\ todo[t] = {}
                           /\ req[t].op = "none"
  BY Threads DEF Init, NoReq
<1>2. /\ activeConns = {} /\ gone = {} /\ cancelled = {} /\ adopted = {}
      /\ Born = {}
  BY <1>1 DEF Init, Born
<1>3. TypeOK
  BY ConstantsTyped DEF Init, TypeOK, AcStates, Devices, DevStates, PC, NoReq,
     Requests, Thread
<1>4. Places
  BY <1>1 DEF Places, IwdPlaces, Teardown, TearingDown, BringUp, Settle
<1>5. Working /\ Handover /\ Flags
  BY <1>1, <1>2 DEF Working, Handover, Flags, HasCur, AfterCancel, Teardown,
     TearingDown
<1>6. Safe
  BY <1>1, <1>2 DEF Safe, TeardownOnce, GoneLeaves, NoOrphanActivation,
     StrayBringUpCancelled, Teardown, TearingDown, BringUp
<1>7. QED
  BY <1>3, <1>4, <1>5, <1>6 DEF IInv

-----------------------------------------------------------------------------
\* The inductive invariant holds in every reachable state.
THEOREM Inductive == Spec => [](TypeOK /\ IInv)
<1>1. Init => TypeOK /\ IInv
  BY InitInv
<1>2. TypeOK /\ IInv /\ [Next]_vars => (TypeOK /\ IInv)'
  BY TypeStep, InvStep
<1>3. QED
  BY <1>1, <1>2, PTL DEF Spec

\* Every variable always holds a value of its kind.
THEOREM TypeCorrect == Spec => []TypeOK
  BY Inductive, PTL

\* No two goroutines ever tear the same active connection down at once: the
\* test and set of gone at the head of deactivate admits one of them.
THEOREM TeardownMutex == Spec => []TeardownOnce
<1>1. IInv => TeardownOnce
  BY DEF IInv, Safe
<1>2. QED
  BY <1>1, Inductive, PTL

\* An active connection marked gone is listed only while the goroutine that
\* marked it is on its way to delete it.
THEOREM GoneIsLeaving == Spec => []GoneLeaves
<1>1. IInv => GoneLeaves
  BY DEF IInv, Safe
<1>2. QED
  BY <1>1, Inductive, PTL

\* A listed connection shown as activating always has a goroutine that will
\* settle it or take it down.
THEOREM NoOrphans == Spec => []NoOrphanActivation
<1>1. IInv => NoOrphanActivation
  BY DEF IInv, Safe
<1>2. QED
  BY <1>1, Inductive, PTL

\* The context of a bring-up that outlives its connection is cancelled.
THEOREM StraysCancelled == Spec => []StrayBringUpCancelled
<1>1. IInv => StrayBringUpCancelled
  BY DEF IInv, Safe
<1>2. QED
  BY <1>1, Inductive, PTL

\* A step only takes connections off the registry or lists one that it
\* creates.
LEMMA RegistryStep ==
    ASSUME [Next]_vars
    PROVE  \/ activeConns' \subseteq activeConns
           \/ \E a \in AC : /\ acState[a] = "unborn"
                            /\ activeConns' = activeConns \cup {a}
<1> USE DEF shared, Request
<1>1. ASSUME NEW t, DeactivateStep(t)
      PROVE  activeConns' \subseteq activeConns
  BY <1>1 DEF DeactivateStep, Mark, Cancel, DisconnectMech, FlushAddrs,
     RevertDNS, Unbind, UnexportIP4, Drop, Unlist, Deactivated, Disconnected,
     Proceed
<1>2. ASSUME NEW c, NewRequest(c)
      PROVE  activeConns' \subseteq activeConns
  BY <1>2 DEF NewRequest, ActivateConnection, AddAndActivateConnection,
     AddConnection, DeactivateConnection, DeviceDisconnect,
     DeviceDisconnectRadio, Delete
<1>3. ASSUME NEW c, RemoveProfile(c) \/ CreateExhausted(c) \/ ExportFails(c)
                      \/ Bind(c) \/ Launch(c)
      PROVE  activeConns' \subseteq activeConns
  BY <1>3 DEF RemoveProfile, CreateExhausted, ExportFails, Unlist, Bind, Launch
<1>4. ASSUME NEW a, RunActivation(a)
      PROVE  activeConns' \subseteq activeConns
  BY <1>1, <1>4 DEF RunActivation, StartWifi, StartOther, Connect,
     ConfigureIPv4, ConfigureDHCP, LeaseFlush, LeaseAddr, LeaseDNS, LeaseIP4,
     CheckSuperseded, ActivationFailed, Activated, DevActivated, SetPrimary
<1>5. CASE OnConnecting \/ OnDisconnecting \/ OnConnected \/ OnDisconnected
             \/ NoAdopt \/ AdoptPrimary \/ DropState \/ DropBind \/ DropDev
  BY <1>5 DEF OnConnecting, OnDisconnecting, OnConnected, OnDisconnected,
     Unlist, NoAdopt, AdoptPrimary, DropState, DropBind, DropDev
<1>6. ASSUME NEW t, NEW a \in AC, NEW p, NEW s, NewAC(t, a, p, s)
      PROVE  acState[a] = "unborn" /\ activeConns' = activeConns \cup {a}
  BY <1>6 DEF NewAC
<1>7. ASSUME NEW a \in AC, (\E c \in Client : Create(c, a)) \/ Adopt(a)
      PROVE  acState[a] = "unborn" /\ activeConns' = activeConns \cup {a}
  BY <1>6, <1>7 DEF Create, Adopt
<1>8. CASE Radio \/ UNCHANGED vars
  BY <1>8 DEF Radio, RadioConnects, RadioDrops, RadioMoves, vars
<1>9. QED
  BY <1>1, <1>2, <1>3, <1>4, <1>5, <1>7, <1>8
     DEF Next, HandlerStep, OnWifiEvent

\* A connection that has left the registry is never listed again: only new
\* connections are, so a bring-up that outlives its own cannot bring it back.
THEOREM RelistedNever == Spec => NeverRelisted
<1> DEFINE Stays == \A a \in AC : acState[a] # "unborn" /\ a \notin activeConns
                                   => a \notin activeConns'
<1>1. [Next]_vars => [Stays]_vars
  BY RegistryStep
<1>2. QED
  BY <1>1, PTL DEF Spec, NeverRelisted

-----------------------------------------------------------------------------
(***************************************************************************)
(* The state at rest.  RestBindings and RestNetwork speak of states in     *)
(* which every goroutine has finished; the invariants below say what       *)
(* holds on the way there, for a client that waits for rest between its    *)
(* calls (Discipline = "patient").  Then one goroutine works at a time     *)
(* (Alone), but for the event goroutine, and no network is joined while a  *)
(* client's call is under way (Calm).                                      *)
(***************************************************************************)

\* The goroutines of calls and bring-ups, and the places where one is not at
\* work
Workers == Client \cup AC

Resting == {"idle", "none", "done"}

\* deactivate up to dev.setActiveConnection(nullPath), and after it
Bound == {"cancel", "mech", "flush", "revert", "unbind"}
Unbound == {"unip4", "drop", "final", "settle"}

\* Where the event goroutine takes over a network, and where it drops one
Joining == {"adopt", "adoptBind", "adoptPrimary"}
Dropping == {"dropState", "dropBind"}

\* What the device of the connection a points at
ActiveOf(a) == dev[acDev[a]].active

\* The goroutine of a is bringing it up, or is about to deactivate it.
Raising(a) ==
    \/ pc[a] \in BringUp \cup Settle
    \/ pc[a] = "todo" /\ a \in todo[a]

\* One call or bring-up is at work at a time.
Alone == \A t, u \in Workers :
            pc[t] \notin Resting /\ pc[u] \notin Resting => t = u

\* While a call is at work, nothing leads to an adoption.
Calm == (\E c \in Client : pc[c] \notin Resting) =>
            /\ pc[Iwd] \notin Joining
            /\ \A i \in 1 .. Len(events) : events[i].state # "connected"

\* What is to be deactivated has not been yet, and its device points at it
\* or no longer does.
Spare == \A t \in Thread :
            /\ todo[t] \cap gone = {}
            /\ pc[t] \notin Teardown \cup {"todo"} => todo[t] = {}
            /\ \A a \in todo[t] : ActiveOf(a) \in {a, None}

\* A client that is not in a call has no request.
Unasked == \A c \in Client : pc[c] \in Resting => req[c].op = "none"

\* A device points at connections of its own.
OwnDevice == \A d \in Dev : dev[d].active # None =>
                dev[d].active \in Born /\ acDev[dev[d].active] = d

\* A call that activates finds its device free when it comes to bind it:
\* what was there is deactivated first, and nothing there is adopted.
Preparing == \A c \in Client : req[c].op = "activate" =>
    /\ pc[Iwd] \in Dropping => req[Iwd].dev # req[c].dev
    /\ dev[req[c].dev].active \notin adopted
    /\ pc[c] = "todo" =>
          /\ dev[req[c].dev].active \in todo[c] \cup {None}
          /\ \A a \in todo[c] : dev[req[c].dev].active = a
    /\ pc[c] \in Teardown => acDev[cur[c]] = req[c].dev /\ todo[c] = {}
    /\ pc[c] \in Unbound \cup {"create"} => dev[req[c].dev].active = None
    /\ pc[c] \in {"bind", "launch"} => acDev[cur[c]] = req[c].dev

\* A new connection is listed before and bound after bind, and not primary.
Handing == \A c \in Client :
    /\ pc[c] \in {"bind", "launch"} => /\ req[c].op = "activate"
                                       /\ cur[c] \in activeConns \ gone
    /\ pc[c] = "bind" => ActiveOf(cur[c]) = None /\ primary # cur[c]
    /\ pc[c] = "launch" => ActiveOf(cur[c]) = cur[c]

\* A connection that is brought up is listed, on its device, and not gone.
Raised == \A a \in AC : Raising(a) =>
    a \in activeConns \ gone /\ ActiveOf(a) = a

\* A teardown finds its device pointing at the connection, and leaves it
\* pointing at nothing, unless the event goroutine has adopted a network
\* since.  A bring-up tears down its own connection.
Tearing == \A t \in Workers :
    /\ pc[t] \in Bound => ActiveOf(cur[t]) \in {cur[t], None}
    /\ pc[t] \in Unbound =>
          /\ ActiveOf(cur[t]) # cur[t]
          /\ Kind[acDev[cur[t]]] # "wifi" => ActiveOf(cur[t]) = None
    /\ t \in AC /\ pc[t] \in Teardown => cur[t] = t
    /\ t \in AC /\ pc[t] \in Bound => ActiveOf(t) = t

\* What the event goroutine adopts is listed and then bound to a free
\* device; what it drops is no longer listed and then no longer bound.
Adopting ==
    /\ pc[Iwd] \in {"adoptBind", "adoptPrimary"} \cup Dropping =>
          cur[Iwd] \in adopted /\ acDev[cur[Iwd]] = req[Iwd].dev
    /\ pc[Iwd] \in {"adoptBind", "adoptPrimary"} =>
          cur[Iwd] \in activeConns \ gone
    /\ pc[Iwd] = "adoptBind" =>
          ActiveOf(cur[Iwd]) = None /\ primary # cur[Iwd]
    /\ pc[Iwd] = "adoptPrimary" => ActiveOf(cur[Iwd]) = cur[Iwd]
    /\ pc[Iwd] \in Dropping =>
          /\ cur[Iwd] \notin activeConns
          /\ ActiveOf(cur[Iwd]) \in {cur[Iwd], None}

\* A device points at listed connections, or at one being dropped.
PointsAtListed == \A d \in Dev : dev[d].active # None =>
    \/ dev[d].active \in activeConns
    \/ pc[Iwd] \in Dropping /\ cur[Iwd] = dev[d].active

\* The device of a listed connection points back at it, or somebody is about
\* to bind it or to take it off the list.
PointsBack == \A a \in activeConns :
    \/ ActiveOf(a) = a
    \/ \E c \in Client : pc[c] = "bind" /\ cur[c] = a
    \/ pc[Iwd] = "adoptBind" /\ cur[Iwd] = a
    \/ \E t \in Workers : pc[t] \in {"unip4", "drop"} /\ cur[t] = a

\* The primary connection is a listed one.
PrimaryListed == primary \in activeConns \cup {None}

Bindings == /\ Alone /\ Spare /\ Unasked /\ OwnDevice /\ Preparing /\ Handing
            /\ Raised /\ Tearing /\ Adopting /\ PointsAtListed /\ PointsBack
            /\ PrimaryListed

\* Only wifi devices have events and a radio to disconnect or connect.
Wireless ==
    /\ \A i \in 1 .. Len(events) : Kind[events[i].dev] = "wifi"
    /\ req[Iwd].op = "event" => Kind[req[Iwd].dev] = "wifi"
    /\ \A t \in Workers : pc[t] = "mech" => Kind[acDev[cur[t]]] = "wifi"
    /\ \A a \in AC : pc[a] = "connect" => Kind[acDev[a]] = "wifi"

\* A listed connection that is not gone is activating or activated.
Shown == \A a \in activeConns \ gone :
            acState[a] \in {"activating", "activated"}

\* A goroutine is about to set the state of the device d.
MovingBy(t, d) ==
    \/ pc[t] \in Teardown \cup {"launch"} /\ acDev[cur[t]] = d
    \/ t \in AC /\ Raising(t) /\ pc[t] # "setPrimary" /\ acDev[t] = d

SteadyAt(d) ==
    dev[d].state = IF dev[d].active = None THEN "disconnected" ELSE "activated"

\* A wired device is shown as what it is, or is about to be.
Steady == \A d \in Dev : Kind[d] # "wifi" =>
            SteadyAt(d) \/ \E t \in Workers : MovingBy(t, d)

\* The address, the DNS entry and the IP4Config object of a device are its
\* connection's, and none are an adopted one's.  The addresses go first and
\* the DNS entry next; the object goes after the device has let go.
AddressesAt(d) ==
    /\ dev[d].addr \subseteq {dev[d].active} \ adopted
    /\ dev[d].dns \in {None, dev[d].active} \ adopted
    /\ dev[d].ip4 \notin adopted
    /\ \/ dev[d].ip4 \in {None, dev[d].active}
       \/ \E t \in Workers : /\ pc[t] = "unip4" /\ cur[t] = dev[d].ip4
                             /\ acDev[cur[t]] = d
    /\ \A t \in Workers :
          /\ pc[t] \in {"revert", "unbind"} /\ acDev[cur[t]] = d =>
                dev[d].addr = {}
          /\ pc[t] = "unbind" /\ acDev[cur[t]] = d => dev[d].dns = None

Addresses == \A d \in Dev : AddressesAt(d)

\* An IP4Config object on the bus is some device's.
Exports == exported \subseteq {dev[d].ip4 : d \in Dev}

-----------------------------------------------------------------------------
\* The kinds and places of goroutines, spelled out.
LEMMA WorkersAre ==
    /\ Workers \subseteq Thread /\ Iwd \in Thread /\ Iwd \notin Workers
    /\ Client \subseteq Workers /\ AC \subseteq Workers
    /\ \A t \in Thread : t = Iwd \/ t \in Workers
    /\ \A t \in Workers : \/ t \in Client /\ t \notin AC
                          \/ t \in AC /\ t \notin Client
    /\ None \notin AC
    /\ Teardown = Bound \cup Unbound
  BY ThreadsDistinct DEF Workers, Thread, Teardown, TearingDown, Bound, Unbound

\* What the variables and the goroutines' locals hold.
LEMMA Holds ==
    ASSUME TypeOK, IInv
    PROVE  /\ pc \in [Thread -> PC] /\ todo \in [Thread -> SUBSET AC]
           /\ cur \in [Thread -> AC \cup {None}]
           /\ req \in [Thread -> Requests]
           /\ acDev \in [AC -> Dev \cup {None}]
           /\ acState \in [AC -> AcStates]
           /\ dev \in [Dev -> Devices]
           /\ \A d \in Dev : dev[d].active \in AC \cup {None}
           /\ Born \subseteq AC /\ gone \subseteq Born /\ adopted \subseteq Born
           /\ activeConns \subseteq Born /\ None \notin Born
           /\ \A a \in Born : acDev[a] \in Dev
           /\ \A t \in Thread :
                 /\ pc[t] \in HasCur => cur[t] \in Born
                 /\ pc[t] \in Teardown => cur[t] \in gone
                 /\ todo[t] \subseteq Born
                 /\ req[t].op = "activate" => req[t].dev \in Dev
                 /\ req[t].op = "event" => req[t].dev \in Dev
                 /\ pc[t] = "create" => req[t].op = "activate"
           /\ \A a \in AC : /\ pc[a] # "none" => a \in Born /\ a \notin adopted
                            /\ req[a].op = "none" /\ todo[a] \subseteq {a}
                            /\ pc[a] \in {"none", "todo", "done"} \cup Teardown
                                          \cup BringUp \cup Settle
           /\ \A c \in Client : pc[c] \in {"bind", "launch"} =>
                 cur[c] \notin adopted /\ pc[cur[c]] = "none"
           /\ pc[Iwd] \in IwdPlaces
           /\ \A c \in Client : pc[c] \in {"idle", "todo", "create", "bind",
                                           "launch", "remove", "done"} \cup Teardown
<1>1. \A d \in Dev : dev[d].active \in AC \cup {None}
  BY DEF TypeOK, Devices
<1>2. \A c \in Client : pc[c] \in PC /\ pc[c] \notin BringUp \cup Settle \cup {"none"}
                            \cup (IwdPlaces \ {"idle"})
  BY WorkersAre DEF TypeOK, IInv, Places
<1>3. \A c \in Client : pc[c] \in {"idle", "todo", "create", "bind",
                                           "launch", "remove", "done"} \cup Teardown
  BY <1>2 DEF PC, IwdPlaces
<1>4. \A t \in Thread : pc[t] \in HasCur => cur[t] \in Born
  BY DEF IInv, Working
<1>5. \A a \in AC : pc[a] # "none" => a \in Born /\ a \notin adopted
  BY DEF IInv, Working, Flags
<1>6. \A c \in Client : pc[c] \in {"bind", "launch"} =>
         cur[c] \notin adopted /\ pc[cur[c]] = "none"
  BY DEF IInv, Handover
<1>7. activeConns \subseteq Born /\ gone \subseteq Born /\ adopted \subseteq Born
        /\ Born \subseteq AC /\ None \notin Born
  BY WorkersAre DEF IInv, Working, Flags, Born
<1> QED
  BY <1>1, <1>3, <1>4, <1>5, <1>6, <1>7, WorkersAre
     DEF TypeOK, IInv, Working, Flags, Places

\* While one goroutine works the others rest and hold nothing.
LEMMA OneWorks ==
    ASSUME TypeOK, IInv, Bindings, NEW t \in Workers, pc[t] \notin Resting
    PROVE  /\ \A u \in Workers : u # t => pc[u] \in Resting /\ todo[u] = {}
           /\ \A a \in AC : a # t => ~Raising(a)
           /\ \A c \in Client : c # t => req[c].op = "none"
           /\ todo[Iwd] = {}
<1>1. \A u \in Workers : u # t => pc[u] \in Resting
  BY DEF Bindings, Alone
<1>2. \A u \in Workers : u # t => todo[u] = {}
  BY <1>1, WorkersAre DEF Bindings, Spare, Resting, Teardown, TearingDown
<1>3. \A a \in AC : a # t => ~Raising(a)
  BY <1>1, WorkersAre DEF Raising, Resting, BringUp, Settle
<1>4. \A c \in Client : c # t => req[c].op = "none"
  BY <1>1, WorkersAre DEF Bindings, Unasked
<1>5. todo[Iwd] = {}
  BY Holds, WorkersAre DEF Bindings, Spare, IwdPlaces, Teardown, TearingDown
<1> QED
  BY <1>1, <1>2, <1>3, <1>4, <1>5

\* The bindings of the devices, and what else the bindings speak of
SameActive == \A d \in Dev : dev'[d].active = dev[d].active

Registered == <<activeConns, primary, gone, adopted, acDev, Born>>

\* A goroutine moves between places that the bindings do not tell apart.
SamePart(p, q) ==
    \/ p \in BringUp \cup Settle /\ q \in BringUp \cup Settle
    \/ p \in Bound /\ q \in Bound
    \/ p \in {"unip4", "drop"} /\ q \in {"unip4", "drop"}
    \/ p \in {"final", "settle"} /\ q \in {"final", "settle"}

LEMMA BindingsMove ==
    ASSUME TypeOK, IInv, Bindings, NEW t \in Workers, NEW p,
           Goto(t, p), SamePart(pc[t], p), UNCHANGED <<Registered, locals>>,
           SameActive
    PROVE  Bindings'
<1> USE DEF Registered, locals, Bindings
<1>0. /\ pc' = [pc EXCEPT ![t] = p] /\ t \in Thread /\ t # Iwd
      /\ activeConns' = activeConns /\ primary' = primary /\ gone' = gone
      /\ adopted' = adopted /\ acDev' = acDev /\ Born' = Born
      /\ todo' = todo /\ cur' = cur /\ req' = req
      /\ \A d \in Dev : dev'[d].active = dev[d].active
  BY WorkersAre DEF Goto, SameActive
<1>1. /\ pc[t] \notin Resting /\ p \notin Resting
      /\ p \notin {"todo", "create", "bind", "launch"}
      /\ pc[t] \notin {"todo", "create", "bind", "launch"}
      /\ pc[t] \in Bound <=> p \in Bound
      /\ pc[t] \in Unbound <=> p \in Unbound
      /\ pc[t] \in Teardown <=> p \in Teardown
      /\ pc[t] \in BringUp \cup Settle <=> p \in BringUp \cup Settle
      /\ pc[t] \in {"unip4", "drop"} <=> p \in {"unip4", "drop"}
  BY DEF SamePart, Resting, Bound, Unbound, Teardown, TearingDown, BringUp,
     Settle
<1>2. \A u \in Thread : u # t => pc'[u] = pc[u]
  BY <1>0, Holds
<1>3. pc'[t] = p /\ pc'[Iwd] = pc[Iwd]
  BY <1>0, <1>2, Holds, WorkersAre
<1>4. Alone' /\ Unasked' /\ PrimaryListed'
  BY <1>0, <1>1, <1>2, <1>3, WorkersAre DEF Alone, Unasked, PrimaryListed
<1>5. Spare'
  BY <1>0, <1>1, <1>2, <1>3, Holds DEF Spare, ActiveOf
<1>6. OwnDevice' /\ PointsAtListed'
  BY <1>0, <1>3 DEF OwnDevice, PointsAtListed
<1>7. Preparing'
  BY <1>0, <1>1, <1>2, <1>3, Holds, WorkersAre DEF Preparing
<1>8. Handing'
  BY <1>0, <1>1, <1>2, <1>3, Holds, WorkersAre DEF Handing, ActiveOf, HasCur
<1>9. Raised'
  BY <1>0, <1>1, <1>2, <1>3, Holds, WorkersAre DEF Raised, Raising, ActiveOf
<1>10. Tearing'
  BY <1>0, <1>1, <1>2, <1>3, Holds, WorkersAre
     DEF Tearing, ActiveOf, HasCur
<1>11. Adopting'
  BY <1>0, <1>3, Holds, WorkersAre DEF Adopting, ActiveOf, HasCur, Dropping
<1>12. PointsBack'
  BY <1>0, <1>1, <1>2, <1>3, Holds, WorkersAre DEF PointsBack, ActiveOf
<1> QED
  BY <1>4, <1>5, <1>6, <1>7, <1>8, <1>9, <1>10, <1>11, <1>12

\* A worker's steps that do change the bindings.  Each of the next lemmas
\* is one of them.
LEMMA BindingsMark ==
    ASSUME TypeOK, IInv, Bindings, Calm, NEW t \in Workers, NEW a \in AC,
           Mark(t, a)
    PROVE  Bindings'
<1> USE DEF Bindings
<1>1. a \in todo[t] /\ a \notin gone /\ pc[t] = "todo" /\ pc[t] \notin Resting
  BY WorkersAre DEF Mark, Spare, Resting
<1>0. /\ pc' = [pc EXCEPT ![t] = "cancel"] /\ cur' = [cur EXCEPT ![t] = a]
      /\ todo' = [todo EXCEPT ![t] = @ \ {a}] /\ gone' = gone \cup {a}
      /\ activeConns' = activeConns /\ primary' = primary /\ acDev' = acDev
      /\ adopted' = adopted /\ Born' = Born /\ req' = req /\ dev' = dev
  BY <1>1 DEF Mark, Goto, Born
<1>2. /\ t \in Thread /\ t # Iwd /\ pc'[t] = "cancel" /\ cur'[t] = a
      /\ todo'[t] = todo[t] \ {a} /\ a \in Born
      /\ \A u \in Thread : u # t => /\ pc'[u] = pc[u] /\ cur'[u] = cur[u]
                                    /\ todo'[u] = todo[u]
      /\ pc'[Iwd] = pc[Iwd] /\ cur'[Iwd] = cur[Iwd] /\ todo'[Iwd] = todo[Iwd]
  BY <1>0, <1>1, Holds, WorkersAre
<1>3. /\ \A u \in Workers : u # t => pc[u] \in Resting /\ todo[u] = {}
      /\ \A b \in AC : b # t => ~Raising(b)
      /\ \A c \in Client : c # t => req[c].op = "none"
      /\ todo[Iwd] = {}
  BY <1>1, OneWorks
<1>4. t \in AC => a = t /\ ActiveOf(a) = a
  BY <1>1, Holds DEF Raised, Raising
<1>5. ActiveOf(a) \in {a, None}
  BY <1>1, WorkersAre DEF Spare
<1>6. pc[Iwd] \in Joining => t \in AC
  BY <1>1, WorkersAre DEF Calm
<1>7. Alone' /\ Unasked' /\ PrimaryListed'
  BY <1>0, <1>2, <1>3, WorkersAre
     DEF Alone, Unasked, PrimaryListed, Resting
<1>8. Spare'
  BY <1>0, <1>2, <1>3, WorkersAre
     DEF Spare, ActiveOf, Teardown, TearingDown
<1>9. OwnDevice' /\ PointsAtListed'
  BY <1>0, <1>2 DEF OwnDevice, PointsAtListed
<1>10. Preparing'
  <2> SUFFICES ASSUME t \in Client, req[t].op = "activate"
               PROVE  acDev[a] = req[t].dev /\ todo[t] \ {a} = {}
    BY <1>0, <1>2, <1>3, WorkersAre
       DEF Preparing, Bound, Unbound, Dropping
  <2>1. /\ req[t].dev \in Dev /\ dev[req[t].dev].active = a
        /\ \A b \in todo[t] : dev[req[t].dev].active = b
    BY <1>1, <1>2, Holds DEF Preparing
  <2> QED
    BY <2>1, WorkersAre DEF OwnDevice
<1>11. Handing'
  BY <1>2, <1>3, WorkersAre DEF Handing, Resting
<1>12. Raised'
  BY <1>2, <1>3, WorkersAre DEF Raised, Raising, BringUp, Settle, Resting
<1>13. Tearing'
  BY <1>0, <1>2, <1>3, <1>4, <1>5, WorkersAre
     DEF Tearing, ActiveOf, Resting, Bound, Unbound
<1>14. Adopting'
  <2>1. pc[Iwd] \in {"adoptBind", "adoptPrimary"} => cur[Iwd] # a
    BY <1>1, <1>4, <1>6, Holds DEF Adopting, Joining
  <2> QED
    BY <1>0, <1>2, <2>1 DEF Adopting, ActiveOf
<1>15. PointsBack'
  BY <1>0, <1>1, <1>2, WorkersAre DEF PointsBack, ActiveOf
<1> QED
  BY <1>7, <1>8, <1>9, <1>10, <1>11, <1>12, <1>13, <1>14, <1>15

LEMMA BindingsUnbind ==
    ASSUME TypeOK, IInv, Bindings, NEW t \in Workers, Unbind(t)
    PROVE  Bindings'
<1> USE DEF Bindings
<1>1. /\ pc[t] = "unbind" /\ pc[t] \notin Resting /\ t \in Thread
      /\ cur[t] \in gone /\ cur[t] \in AC /\ DevOf(t) \in Dev /\ DevOf(t) = acDev[cur[t]]
      /\ dev[DevOf(t)].active \in {cur[t], None}
  BY Holds, WorkersAre DEF Unbind, Resting, DevOf, Bound, Tearing, ActiveOf
<1>0. /\ pc' = [pc EXCEPT ![t] = "unip4"]
      /\ dev' = [dev EXCEPT ![DevOf(t)].active = None]
      /\ activeConns' = activeConns /\ primary' = primary /\ acDev' = acDev
      /\ gone' = gone /\ adopted' = adopted /\ Born' = Born /\ req' = req
      /\ todo' = todo /\ cur' = cur
  BY DEF Unbind, SetActive, Goto, shared, acVars, locals, Born
<1>2. /\ \A d \in Dev : dev'[d].active = IF d = DevOf(t) THEN None
                                                        ELSE dev[d].active
      /\ t # Iwd /\ pc'[t] = "unip4" /\ pc'[Iwd] = pc[Iwd]
      /\ \A u \in Thread : u # t => pc'[u] = pc[u]
  BY <1>0, <1>1, Holds, WorkersAre
<1>3. /\ \A u \in Workers : u # t => pc[u] \in Resting /\ todo[u] = {}
      /\ \A b \in AC : b # t => ~Raising(b)
      /\ \A c \in Client : c # t => req[c].op = "none"
      /\ todo[Iwd] = {}
  BY <1>1, OneWorks
<1>4. \A a \in Born : /\ acDev[a] \in Dev
                      /\ ActiveOf(a)' = IF acDev[a] = DevOf(t) THEN None
                                                           ELSE ActiveOf(a)
  BY <1>0, <1>2, Holds DEF ActiveOf
<1>7. Alone' /\ Unasked' /\ PrimaryListed'
  BY <1>0, <1>2, <1>3, WorkersAre
     DEF Alone, Unasked, PrimaryListed, Resting
<1>8. Spare'
  BY <1>0, <1>1, <1>2, <1>3, <1>4, Holds, WorkersAre
     DEF Spare, Teardown, TearingDown
<1>9. OwnDevice' /\ PointsAtListed'
  BY <1>0, <1>2 DEF OwnDevice, PointsAtListed
<1>10. Preparing'
  <2> SUFFICES ASSUME t \in Client, req[t].op = "activate"
               PROVE  /\ acDev[cur[t]] = req[t].dev /\ todo[t] = {}
                      /\ pc[Iwd] \in Dropping => req[Iwd].dev # req[t].dev
    BY <1>0, <1>1, <1>2, <1>3, Holds, WorkersAre
       DEF Preparing, Bound, Unbound
  <2> QED
    BY <1>1, WorkersAre DEF Preparing, Bound
<1>11. Handing'
  BY <1>2, <1>3, WorkersAre DEF Handing, Resting
<1>12. Raised'
  BY <1>0, <1>2, <1>3, WorkersAre DEF Raised, Raising, BringUp, Settle, Resting
<1>13. Tearing'
  BY <1>0, <1>1, <1>2, <1>3, <1>4, Holds, WorkersAre
     DEF Tearing, Resting, Bound, Unbound
<1>14. Adopting'
  <2>1. pc[Iwd] \in {"adoptBind", "adoptPrimary"} \cup Dropping => cur[Iwd] \in Born
    BY Holds DEF Adopting
  <2>2. pc[Iwd] = "adoptPrimary" => acDev[cur[Iwd]] # DevOf(t)
    BY <1>1, <2>1, Holds DEF Adopting, ActiveOf
  <2> QED
    BY <1>0, <1>2, <1>4, <2>1, <2>2 DEF Adopting
<1>15. PointsBack'
  BY <1>0, <1>1, <1>2, <1>4, Holds, WorkersAre DEF PointsBack, ActiveOf
<1> QED
  BY <1>7, <1>8, <1>9, <1>10, <1>11, <1>12, <1>13, <1>14, <1>15

LEMMA BindingsDrop ==
    ASSUME TypeOK, IInv, Bindings, NEW t \in Workers, Drop(t)
    PROVE  Bindings'
<1> USE DEF Bindings
<1>1. /\ pc[t] = "drop" /\ pc[t] \notin Resting /\ t \in Thread
      /\ cur[t] \in gone /\ cur[t] \in Born /\ ActiveOf(cur[t]) # cur[t]
  BY Holds, WorkersAre DEF Drop, Resting, Unbound, Tearing
<1>0. /\ pc' = [pc EXCEPT ![t] = "final"] /\ dev' = dev
      /\ activeConns' = activeConns \ {cur[t]} /\ primary' \in {primary, None}
      /\ primary' # cur[t] /\ acDev' = acDev
      /\ gone' = gone /\ adopted' = adopted /\ Born' = Born /\ req' = req
      /\ todo' = todo /\ cur' = cur
  BY <1>1, Holds DEF Drop, Unlist, ClearPrimary, Goto, acVars, locals, Born
<1>2. /\ t # Iwd /\ pc'[t] = "final" /\ pc'[Iwd] = pc[Iwd]
      /\ \A u \in Thread : u # t => pc'[u] = pc[u]
  BY <1>0, <1>1, Holds, WorkersAre
<1>3. /\ \A u \in Workers : u # t => pc[u] \in Resting /\ todo[u] = {}
      /\ \A b \in AC : b # t => ~Raising(b)
      /\ \A c \in Client : c # t => req[c].op = "none"
      /\ todo[Iwd] = {}
  BY <1>1, OneWorks
<1>7. Alone' /\ Unasked' /\ PrimaryListed'
  BY <1>0, <1>2, <1>3, WorkersAre
     DEF Alone, Unasked, PrimaryListed, Resting
<1>8. Spare'
  BY <1>0, <1>1, <1>2, <1>3, WorkersAre
     DEF Spare, Teardown, TearingDown, ActiveOf
<1>9. OwnDevice' /\ PointsAtListed'
  <2>1. \A d \in Dev : dev[d].active # cur[t]
    BY <1>1, Holds DEF OwnDevice, ActiveOf
  <2> QED
    BY <1>0, <1>2, <2>1 DEF OwnDevice, PointsAtListed
<1>10. Preparing'
  BY <1>0, <1>1, <1>2, <1>3, WorkersAre DEF Preparing, Bound, Unbound
<1>11. Handing'
  BY <1>2, <1>3, WorkersAre DEF Handing, Resting
<1>12. Raised'
  BY <1>0, <1>2, <1>3, WorkersAre DEF Raised, Raising, BringUp, Settle, Resting
<1>13. Tearing'
  BY <1>0, <1>1, <1>2, <1>3, WorkersAre
     DEF Tearing, ActiveOf, Resting, Bound, Unbound
<1>14. Adopting'
  BY <1>0, <1>1, <1>2, Holds DEF Adopting, ActiveOf
<1>15. PointsBack'
  BY <1>0, <1>1, <1>2, WorkersAre DEF PointsBack, ActiveOf
<1> QED
  BY <1>7, <1>8, <1>9, <1>10, <1>11, <1>12, <1>13, <1>14, <1>15

LEMMA BindingsDisconnected ==
    ASSUME TypeOK, IInv, Bindings, NEW t \in Workers, Disconnected(t)
    PROVE  Bindings'
<1> USE DEF Bindings
<1>1. /\ pc[t] = "settle" /\ pc[t] \notin Resting /\ t \in Thread
      /\ cur[t] \in gone /\ cur[t] \in Born
  BY Holds, WorkersAre DEF Disconnected, Resting, Unbound
<1>0. /\ pc' = [pc EXCEPT ![t] = "todo"]
      /\ cur' = [cur EXCEPT ![t] = None]
      /\ \A d \in Dev : dev'[d].active = dev[d].active
      /\ activeConns' = activeConns /\ primary' = primary /\ acDev' = acDev
      /\ gone' = gone /\ adopted' = adopted /\ Born' = Born /\ req' = req
      /\ todo' = todo
  BY Holds DEF Disconnected, SetDev, Goto, shared, acVars, Born
<1>2. /\ t # Iwd /\ pc'[t] = "todo" /\ pc'[Iwd] = pc[Iwd]
      /\ cur'[Iwd] = cur[Iwd]
      /\ \A u \in Thread : u # t => pc'[u] = pc[u] /\ cur'[u] = cur[u]
  BY <1>0, <1>1, Holds, WorkersAre
<1>3. /\ \A u \in Workers : u # t => pc[u] \in Resting /\ todo[u] = {}
      /\ \A b \in AC : b # t => ~Raising(b)
      /\ \A c \in Client : c # t => req[c].op = "none"
      /\ todo[Iwd] = {}
  BY <1>1, OneWorks
<1>4. \A a \in Born : ActiveOf(a)' = ActiveOf(a)
  BY <1>0, Holds DEF ActiveOf
<1>5. t \in AC => t \notin todo[t]
  BY <1>1 DEF Tearing, Spare, Teardown, TearingDown
<1>7. Alone' /\ Unasked' /\ PrimaryListed'
  BY <1>0, <1>2, <1>3, WorkersAre
     DEF Alone, Unasked, PrimaryListed, Resting
<1>8. Spare'
  BY <1>0, <1>1, <1>2, <1>3, <1>4, Holds, WorkersAre
     DEF Spare, Teardown, TearingDown
<1>9. OwnDevice' /\ PointsAtListed'
  BY <1>0, <1>2 DEF OwnDevice, PointsAtListed
<1>10. Preparing'
  BY <1>0, <1>1, <1>2, <1>3, Holds, WorkersAre
     DEF Preparing, Teardown, TearingDown, Unbound
<1>11. Handing'
  BY <1>2, <1>3, WorkersAre DEF Handing, Resting
<1>12. Raised'
  BY <1>0, <1>2, <1>3, <1>5, WorkersAre DEF Raised, Raising, BringUp, Settle, Resting
<1>13. Tearing'
  BY <1>0, <1>1, <1>2, <1>3, WorkersAre
     DEF Tearing, ActiveOf, Resting, Bound, Unbound, Teardown, TearingDown
<1>14. Adopting'
  <2>1. pc[Iwd] \in {"adoptBind", "adoptPrimary"} \cup Dropping => cur[Iwd] \in Born
    BY Holds DEF Adopting
  <2> QED
    BY <1>0, <1>2, <1>4, <2>1 DEF Adopting
<1>15. PointsBack'
  BY <1>0, <1>1, <1>2, <1>4, Holds, WorkersAre DEF PointsBack
<1> QED
  BY <1>7, <1>8, <1>9, <1>10, <1>11, <1>12, <1>13, <1>14, <1>15

\* Nothing is left to deactivate, or a call ends after that.
LEMMA BindingsProceed ==
    ASSUME TypeOK, IInv, Bindings, NEW t \in Workers,
           \/ Proceed(t)
           \/ t \in Client /\ (RemoveProfile(t) \/ CreateExhausted(t))
    PROVE  Bindings'
<1> USE DEF Bindings
<1>1. /\ pc[t] \in {"todo", "remove", "create"} /\ t \in Thread /\ todo[t] = {}
      /\ pc[t] \notin Resting
  BY WorkersAre DEF Proceed, RemoveProfile, CreateExhausted, Resting, Spare,
     Teardown, TearingDown
<1>0. /\ \/ pc' = [pc EXCEPT ![t] = "create"] /\ req[t].op = "activate"
              /\ req' = req /\ pc[t] = "todo"
         \/ pc' = [pc EXCEPT ![t] = "remove"] /\ req[t].op = "delete"
              /\ req' = req
         \/ pc' = [pc EXCEPT ![t] = "idle"] /\ req' = [req EXCEPT ![t] = NoReq]
         \/ pc' = [pc EXCEPT ![t] = "done"] /\ req' = req /\ t \in AC
      /\ dev' = dev
      /\ activeConns' = activeConns /\ primary' = primary /\ acDev' = acDev
      /\ gone' = gone /\ adopted' = adopted /\ Born' = Born /\ cur' = cur
      /\ todo' = todo
  BY WorkersAre DEF Proceed, RemoveProfile, CreateExhausted, Return, Goto,
     shared, acVars, Born, IInv, Places
<1>2. /\ t # Iwd /\ pc'[t] \in {"create", "remove", "idle", "done"}
      /\ pc'[Iwd] = pc[Iwd] /\ req'[Iwd] = req[Iwd]
      /\ \A u \in Thread : u # t => pc'[u] = pc[u] /\ req'[u] = req[u]
      /\ pc'[t] = "create" => req[t].op = "activate" /\ req' = req
                                 /\ pc[t] = "todo"
      /\ pc'[t] = "remove" => req'[t].op = "delete"
      /\ pc'[t] \in {"idle", "done"} => req'[t].op = "none"
  BY <1>0, <1>1, Holds, WorkersAre DEF NoReq
<1>3. /\ \A u \in Workers : u # t => pc[u] \in Resting /\ todo[u] = {}
      /\ \A b \in AC : b # t => ~Raising(b)
      /\ \A c \in Client : c # t => req[c].op = "none"
      /\ todo[Iwd] = {}
  BY <1>1, OneWorks
<1>7. Alone' /\ Unasked' /\ PrimaryListed'
  BY <1>0, <1>1, <1>2, <1>3, WorkersAre
     DEF Alone, Unasked, PrimaryListed, Resting
<1>8. Spare'
  BY <1>0, <1>1, <1>2, <1>3, WorkersAre DEF Spare, ActiveOf
<1>9. OwnDevice' /\ PointsAtListed'
  BY <1>0, <1>2 DEF OwnDevice, PointsAtListed
<1>10. Preparing'
  BY <1>0, <1>1, <1>2, <1>3, Holds, WorkersAre
     DEF Preparing, Teardown, TearingDown, Unbound
<1>11. Handing'
  BY <1>2, <1>3, WorkersAre DEF Handing, Resting
<1>12. Raised'
  BY <1>0, <1>2, <1>3, WorkersAre DEF Raised, Raising, BringUp, Settle, Resting
<1>13. Tearing'
  BY <1>0, <1>1, <1>2, <1>3, WorkersAre
     DEF Tearing, ActiveOf, Resting, Bound, Unbound, Teardown, TearingDown
<1>14. Adopting'
  BY <1>0, <1>2 DEF Adopting, ActiveOf
<1>15. PointsBack'
  BY <1>0, <1>1, <1>2, Holds, WorkersAre DEF PointsBack, ActiveOf
<1> QED
  BY <1>7, <1>8, <1>9, <1>10, <1>11, <1>12, <1>13, <1>14, <1>15

LEMMA BindingsCreate ==
    ASSUME TypeOK, IInv, Bindings, Calm, NEW c \in Client, NEW a \in AC,
           Create(c, a)
    PROVE  Bindings'
<1> USE DEF Bindings
<1>1. /\ pc[c] = "create" /\ c \in Workers /\ pc[c] \notin Resting
      /\ c \in Thread /\ req[c].op = "activate" /\ req[c].dev \in Dev
      /\ a \notin Born /\ pc[Iwd] \notin Joining /\ todo[c] = {}
      /\ dev[req[c].dev].active = None
  BY Holds, WorkersAre DEF Create, NewAC, Resting, Born, Calm, Spare,
     Teardown, TearingDown, Preparing
<1>0. /\ pc' = [pc EXCEPT ![c] = "bind"] /\ cur' = [cur EXCEPT ![c] = a]
      /\ activeConns' = activeConns \cup {a} /\ primary' = primary
      /\ acDev' = [acDev EXCEPT ![a] = req[c].dev] /\ dev' = dev
      /\ gone' = gone /\ adopted' = adopted /\ req' = req /\ todo' = todo
      /\ Born' = Born \cup {a}
  BY Holds DEF Create, NewAC, SetAC, Goto, Born
<1>2. /\ c # Iwd /\ pc'[c] = "bind" /\ pc'[Iwd] = pc[Iwd] /\ cur'[c] = a
      /\ cur'[Iwd] = cur[Iwd] /\ acDev'[a] = req[c].dev
      /\ \A u \in Thread : u # c => pc'[u] = pc[u] /\ cur'[u] = cur[u]
      /\ \A b \in Born : b # a /\ acDev'[b] = acDev[b]
  BY <1>0, <1>1, Holds, WorkersAre
<1>3. /\ \A u \in Workers : u # c => pc[u] \in Resting /\ todo[u] = {}
      /\ \A b \in AC : b # c => ~Raising(b)
      /\ \A e \in Client : e # c => req[e].op = "none"
      /\ todo[Iwd] = {}
  BY <1>1, OneWorks
<1>4. /\ \A b \in Born : ActiveOf(b)' = ActiveOf(b)
      /\ ActiveOf(a)' = None
  BY <1>0, <1>1, <1>2 DEF ActiveOf
<1>7. Alone' /\ Unasked' /\ PrimaryListed'
  BY <1>0, <1>2, <1>3, WorkersAre
     DEF Alone, Unasked, PrimaryListed, Resting
<1>8. Spare'
  BY <1>0, <1>1, <1>2, <1>3, WorkersAre DEF Spare
<1>9. OwnDevice' /\ PointsAtListed'
  BY <1>0, <1>2 DEF OwnDevice, PointsAtListed
<1>10. Preparing'
  BY <1>0, <1>1, <1>2, <1>3, Holds, WorkersAre
     DEF Preparing, Teardown, TearingDown, Unbound
<1>11. Handing'
  BY <1>0, <1>1, <1>2, <1>3, <1>4, Holds, WorkersAre
     DEF Handing, Resting, PrimaryListed
<1>12. Raised'
  BY <1>0, <1>2, <1>3, WorkersAre DEF Raised, Raising, BringUp, Settle, Resting
<1>13. Tearing'
  BY <1>0, <1>1, <1>2, <1>3, WorkersAre
     DEF Tearing, ActiveOf, Resting, Bound, Unbound, Teardown, TearingDown
<1>14. Adopting'
  <2>1. pc[Iwd] \in Dropping => cur[Iwd] \in Born
    BY Holds DEF Adopting
  <2> QED
    BY <1>0, <1>1, <1>2, <1>4, <2>1 DEF Adopting, Joining
<1>15. PointsBack'
  BY <1>0, <1>1, <1>2, <1>4, Holds, WorkersAre DEF PointsBack
<1> QED
  BY <1>7, <1>8, <1>9, <1>10, <1>11, <1>12, <1>13, <1>14, <1>15

LEMMA BindingsExportFails ==
    ASSUME TypeOK, IInv, Bindings, Calm, NEW c \in Client, ExportFails(c)
    PROVE  Bindings'
<1> USE DEF Bindings
<1>1. /\ pc[c] = "bind" /\ c \in Workers /\ pc[c] \notin Resting
      /\ c \in Thread /\ cur[c] \in Born /\ todo[c] = {}
      /\ cur[c] \notin adopted /\ ActiveOf(cur[c]) = None /\ primary # cur[c]
      /\ pc[Iwd] \notin Joining
  BY Holds, WorkersAre DEF ExportFails, Resting, HasCur, Spare,
     Teardown, TearingDown, Handing, Calm
<1>0. /\ pc' = [pc EXCEPT ![c] = "idle"] /\ cur' = [cur EXCEPT ![c] = None]
      /\ req' = [req EXCEPT ![c] = NoReq]
      /\ activeConns' = activeConns \ {cur[c]} /\ primary' = primary
      /\ acDev' = acDev /\ dev' = dev /\ todo' = todo
      /\ gone' = gone /\ adopted' = adopted /\ Born' = Born
  BY DEF ExportFails, Unlist, Return, Goto, acVars, Born
<1>2. /\ c # Iwd /\ pc'[c] = "idle" /\ pc'[Iwd] = pc[Iwd]
      /\ req'[c].op = "none" /\ req'[Iwd] = req[Iwd] /\ cur'[Iwd] = cur[Iwd]
      /\ \A u \in Thread : u # c => /\ pc'[u] = pc[u] /\ cur'[u] = cur[u]
                                    /\ req'[u] = req[u]
  BY <1>0, <1>1, Holds, WorkersAre DEF NoReq
<1>3. /\ \A u \in Workers : u # c => pc[u] \in Resting /\ todo[u] = {}
      /\ \A b \in AC : b # c => ~Raising(b)
      /\ \A e \in Client : e # c => req[e].op = "none"
      /\ todo[Iwd] = {}
  BY <1>1, OneWorks
<1>7. Alone' /\ Unasked' /\ PrimaryListed'
  BY <1>0, <1>1, <1>2, <1>3, WorkersAre
     DEF Alone, Unasked, PrimaryListed, Resting
<1>8. Spare'
  BY <1>0, <1>1, <1>2, <1>3, WorkersAre DEF Spare, ActiveOf
<1>9. OwnDevice' /\ PointsAtListed'
  <2>1. \A d \in Dev : dev[d].active # cur[c]
    BY <1>1, Holds DEF OwnDevice, ActiveOf
  <2> QED
    BY <1>0, <1>2, <2>1 DEF OwnDevice, PointsAtListed
<1>10. Preparing'
  BY <1>0, <1>1, <1>2, <1>3, Holds, WorkersAre DEF Preparing
<1>11. Handing'
  BY <1>2, <1>3, WorkersAre DEF Handing, Resting
<1>12. Raised'
  BY <1>0, <1>2, <1>3, WorkersAre DEF Raised, Raising, BringUp, Settle, Resting
<1>13. Tearing'
  BY <1>0, <1>1, <1>2, <1>3, WorkersAre
     DEF Tearing, ActiveOf, Resting, Bound, Unbound, Teardown, TearingDown
<1>14. Adopting'
  BY <1>0, <1>1, <1>2 DEF Adopting, Joining, ActiveOf
<1>15. PointsBack'
  BY <1>0, <1>1, <1>2, Holds, WorkersAre DEF PointsBack, ActiveOf
<1> QED
  BY <1>7, <1>8, <1>9, <1>10, <1>11, <1>12, <1>13, <1>14, <1>15

LEMMA BindingsBind ==
    ASSUME TypeOK, IInv, Bindings, Calm, NEW c \in Client, Bind(c)
    PROVE  Bindings'
<1> USE DEF Bindings
<1> DEFINE a == cur[c]
<1>1. /\ pc[c] = "bind" /\ c \in Workers /\ pc[c] \notin Resting
      /\ c \in Thread /\ a \in Born /\ todo[c] = {} /\ a \in activeConns \ gone
      /\ a \notin adopted /\ ActiveOf(a) = None /\ DevOf(c) = acDev[a]
      /\ pc[Iwd] \notin Joining /\ req[c].op = "activate" /\ DevOf(c) \in Dev
      /\ req[c].dev = DevOf(c) /\ a # None
      /\ pc[Iwd] \in Dropping => req[Iwd].dev # req[c].dev
  BY Holds, WorkersAre DEF Bind, Resting, HasCur, Spare, IwdPlaces,
     Teardown, TearingDown, Handing, Calm, DevOf, Preparing, Dropping
<1>0. /\ pc' = [pc EXCEPT ![c] = "launch"] /\ cur' = cur /\ req' = req
      /\ dev' = [dev EXCEPT ![DevOf(c)].active = a]
      /\ activeConns' = activeConns /\ primary' = primary
      /\ acDev' = acDev /\ todo' = todo
      /\ gone' = gone /\ adopted' = adopted /\ Born' = Born
  BY <1>1 DEF Bind, SetActive, Goto, shared, acVars, locals, Born
<1>2. /\ c # Iwd /\ pc'[c] = "launch" /\ pc'[Iwd] = pc[Iwd]
      /\ \A u \in Thread : u # c => pc'[u] = pc[u]
      /\ \A d \in Dev : dev'[d].active = IF d = DevOf(c) THEN a
                                                        ELSE dev[d].active
  BY <1>0, <1>1, Holds, WorkersAre
<1>3. /\ \A u \in Workers : u # c => pc[u] \in Resting /\ todo[u] = {}
      /\ \A b \in AC : b # c => ~Raising(b)
      /\ \A e \in Client : e # c => req[e].op = "none"
      /\ todo[Iwd] = {}
  BY <1>1, OneWorks
<1>4. \A b \in Born : /\ acDev[b] \in Dev
                      /\ ActiveOf(b)' = IF acDev[b] = DevOf(c) THEN a
                                                           ELSE ActiveOf(b)
  BY <1>0, <1>2, Holds DEF ActiveOf
<1>7. Alone' /\ Unasked' /\ PrimaryListed'
  BY <1>0, <1>1, <1>2, <1>3, WorkersAre
     DEF Alone, Unasked, PrimaryListed, Resting
<1>8. Spare'
  BY <1>0, <1>1, <1>2, <1>3, WorkersAre DEF Spare
<1>9. OwnDevice' /\ PointsAtListed'
  BY <1>0, <1>1, <1>2 DEF OwnDevice, PointsAtListed
<1>10. Preparing'
  BY <1>0, <1>1, <1>2, <1>3, Holds, WorkersAre
     DEF Preparing, Teardown, TearingDown, Unbound
<1>11. Handing'
  BY <1>0, <1>1, <1>2, <1>3, <1>4, WorkersAre DEF Handing, Resting
<1>12. Raised'
  BY <1>0, <1>2, <1>3, WorkersAre DEF Raised, Raising, BringUp, Settle, Resting
<1>13. Tearing'
  BY <1>0, <1>1, <1>2, <1>3, WorkersAre
     DEF Tearing, Resting, Bound, Unbound, Teardown, TearingDown
<1>14. Adopting'
  <2>1. pc[Iwd] \in Dropping => cur[Iwd] \in Born /\ acDev[cur[Iwd]] # DevOf(c)
    BY <1>1, Holds DEF Adopting
  <2> QED
    BY <1>0, <1>1, <1>2, <1>4, <2>1 DEF Adopting, Joining
<1>15. PointsBack'
  <2> SUFFICES ASSUME NEW b \in activeConns, b # a
               PROVE  \/ ActiveOf(b)' = b
                      \/ \E e \in Client : pc'[e] = "bind" /\ cur[e] = b
                      \/ pc'[Iwd] = "adoptBind" /\ cur[Iwd] = b
                      \/ \E t \in Workers : pc'[t] \in {"unip4", "drop"}
                                              /\ cur[t] = b
    BY <1>0, <1>1, <1>4 DEF PointsBack
  <2>1. b \in Born /\ b # None
    BY Holds
  <2>2. CASE ActiveOf(b) = b
    BY <1>1, <1>4, <2>1, <2>2 DEF ActiveOf
  <2>3. CASE ActiveOf(b) # b
    BY <1>1, <1>2, <2>3, WorkersAre DEF PointsBack
  <2> QED
    BY <2>2, <2>3
<1> QED
  BY <1>7, <1>8, <1>9, <1>10, <1>11, <1>12, <1>13, <1>14, <1>15

LEMMA BindingsLaunch ==
    ASSUME TypeOK, IInv, Bindings, NEW c \in Client, Launch(c)
    PROVE  Bindings'
<1> USE DEF Bindings
<1> DEFINE a == cur[c]
<1>1. /\ pc[c] = "launch" /\ c \in Workers /\ pc[c] \notin Resting
      /\ c \in Thread /\ a \in Born /\ todo[c] = {} /\ a \in activeConns \ gone
      /\ ActiveOf(a) = a /\ pc[a] = "none" /\ a # c /\ a \in Workers
      /\ a \in Thread
  BY Holds, WorkersAre DEF Launch, Resting, HasCur, Spare,
     Teardown, TearingDown, Handing
<1>0. /\ pc' = [pc EXCEPT ![c] = "idle", ![a] = "start"]
      /\ cur' = [cur EXCEPT ![c] = None]
      /\ req' = [req EXCEPT ![c] = NoReq]
      /\ \A d \in Dev : dev'[d].active = dev[d].active
      /\ activeConns' = activeConns /\ primary' = primary
      /\ acDev' = acDev /\ todo' = todo
      /\ gone' = gone /\ adopted' = adopted /\ Born' = Born
  BY Holds DEF Launch, SetDev, shared, acVars, Born
<1>2. /\ c # Iwd /\ pc'[c] = "idle" /\ pc'[a] = "start" /\ pc'[Iwd] = pc[Iwd]
      /\ req'[c].op = "none" /\ req'[Iwd] = req[Iwd] /\ cur'[Iwd] = cur[Iwd]
      /\ \A u \in Thread : u # c => cur'[u] = cur[u] /\ req'[u] = req[u]
      /\ \A u \in Thread : u # c /\ u # a => pc'[u] = pc[u]
  BY <1>0, <1>1, Holds, WorkersAre DEF NoReq
<1>3. /\ \A u \in Workers : u # c => pc[u] \in Resting /\ todo[u] = {}
      /\ \A b \in AC : b # c => ~Raising(b)
      /\ \A e \in Client : e # c => req[e].op = "none"
      /\ todo[Iwd] = {}
  BY <1>1, OneWorks
<1>4. \A b \in Born : ActiveOf(b)' = ActiveOf(b)
  BY <1>0, Holds DEF ActiveOf
<1>7. Alone' /\ Unasked' /\ PrimaryListed'
  <2>1. \A u \in Workers : u # a => pc'[u] \in Resting
    BY <1>2, <1>3, WorkersAre DEF Resting
  <2>2. \A e \in Client : req'[e].op = "none"
    BY <1>2, <1>3, WorkersAre
  <2> QED
    BY <1>0, <2>1, <2>2 DEF Alone, Unasked, PrimaryListed
<1>8. Spare'
  BY <1>0, <1>1, <1>2, <1>3, WorkersAre DEF Spare
<1>9. OwnDevice' /\ PointsAtListed'
  BY <1>0, <1>2 DEF OwnDevice, PointsAtListed
<1>10. Preparing'
  BY <1>0, <1>1, <1>2, <1>3, Holds, WorkersAre DEF Preparing
<1>11. Handing'
  BY <1>1, <1>2, <1>3, WorkersAre DEF Handing, Resting
<1>12. Raised'
  <2> SUFFICES ASSUME NEW b \in AC, Raising(b)', b # a
               PROVE  FALSE
    BY <1>0, <1>1, <1>4 DEF Raised
  <2> QED
    BY <1>0, <1>2, <1>3, WorkersAre DEF Raising, BringUp, Settle, Resting
<1>13. Tearing'
  <2>1. \A u \in Workers : pc'[u] \notin Teardown
    BY <1>1, <1>2, <1>3, WorkersAre DEF Resting, Teardown, TearingDown
  <2> QED
    BY <2>1, WorkersAre DEF Tearing
<1>14. Adopting'
  <2>1. pc[Iwd] \in {"adoptBind", "adoptPrimary"} \cup Dropping => cur[Iwd] \in Born
    BY Holds DEF Adopting
  <2> QED
    BY <1>0, <1>2, <1>4, <2>1 DEF Adopting
<1>15. PointsBack'
  BY <1>0, <1>1, <1>2, <1>4, Holds, WorkersAre DEF PointsBack
<1> QED
  BY <1>7, <1>8, <1>9, <1>10, <1>11, <1>12, <1>13, <1>14, <1>15

\* A bring-up that failed turns to its own deactivation; one that succeeded
\* becomes the primary connection and ends.
LEMMA BindingsSettle ==
    ASSUME TypeOK, IInv, Bindings, NEW a \in AC,
           ActivationFailed(a) \/ SetPrimary(a)
    PROVE  Bindings'
<1> USE DEF Bindings
<1>1. /\ pc[a] \in {"failed", "setPrimary"} /\ a \in Workers /\ a \in Thread
      /\ pc[a] \notin Resting /\ a \in Born /\ a \notin adopted
      /\ a \in activeConns \ gone /\ ActiveOf(a) = a /\ a \notin Client
      /\ a # None
  BY Holds, WorkersAre DEF ActivationFailed, SetPrimary, Resting, Raised,
     Raising, Settle
<1>0. /\ \/ /\ pc' = [pc EXCEPT ![a] = "todo"] /\ primary' = primary
            /\ todo' = [todo EXCEPT ![a] = {a}]
         \/ /\ pc' = [pc EXCEPT ![a] = "done"] /\ primary' = a
            /\ todo' = todo /\ todo[a] = {}
      /\ \A d \in Dev : dev'[d].active = dev[d].active
      /\ activeConns' = activeConns /\ acDev' = acDev
      /\ gone' = gone /\ adopted' = adopted /\ Born' = Born
      /\ cur' = cur /\ req' = req
  <2>1. CASE ActivationFailed(a)
    BY <2>1, Holds DEF ActivationFailed, SetDev, Goto, shared, acVars, Born
  <2>2. CASE SetPrimary(a)
    <3>1. pc[a] = "setPrimary" /\ todo[a] = {}
      BY <1>1, <2>2 DEF SetPrimary, Spare, Teardown, TearingDown
    <3> QED
      BY <2>2, <3>1 DEF SetPrimary, Goto, acVars, locals, Born
  <2> QED
    BY <2>1, <2>2
<1>2. /\ a # Iwd /\ pc'[Iwd] = pc[Iwd] /\ todo'[Iwd] = todo[Iwd]
      /\ \/ pc'[a] = "todo" /\ primary' = primary /\ todo'[a] = {a}
         \/ pc'[a] = "done" /\ primary' = a /\ todo'[a] = {}
      /\ \A u \in Thread : u # a => pc'[u] = pc[u] /\ todo'[u] = todo[u]
  BY <1>0, <1>1, Holds, WorkersAre
<1>3. /\ \A u \in Workers : u # a => pc[u] \in Resting /\ todo[u] = {}
      /\ \A b \in AC : b # a => ~Raising(b)
      /\ \A e \in Client : e # a => req[e].op = "none"
      /\ todo[Iwd] = {}
  BY <1>1, OneWorks
<1>4. \A b \in Born : ActiveOf(b)' = ActiveOf(b)
  BY <1>0, Holds DEF ActiveOf
<1>7. Alone' /\ Unasked' /\ PrimaryListed'
  BY <1>0, <1>1, <1>2, <1>3, WorkersAre
     DEF Alone, Unasked, PrimaryListed, Resting
<1>8. Spare'
  BY <1>0, <1>1, <1>2, <1>3, <1>4, WorkersAre DEF Spare
<1>9. OwnDevice' /\ PointsAtListed'
  BY <1>0, <1>2 DEF OwnDevice, PointsAtListed
<1>10. Preparing'
  BY <1>0, <1>1, <1>2, <1>3, Holds, WorkersAre DEF Preparing
<1>11. Handing'
  BY <1>1, <1>2, <1>3, WorkersAre DEF Handing, Resting
<1>12. Raised'
  BY <1>0, <1>1, <1>2, <1>3, <1>4, WorkersAre
     DEF Raised, Raising, BringUp, Settle, Resting
<1>13. Tearing'
  BY <1>0, <1>1, <1>2, <1>3, WorkersAre
     DEF Tearing, ActiveOf, Resting, Bound, Unbound, Teardown, TearingDown
<1>14. Adopting'
  <2>1. pc[Iwd] \in {"adoptBind", "adoptPrimary"} \cup Dropping
          => cur[Iwd] \in Born /\ cur[Iwd] # a
    BY <1>1, Holds DEF Adopting
  <2> QED
    BY <1>0, <1>2, <1>4, <2>1 DEF Adopting
<1>15. PointsBack'
  BY <1>0, <1>1, <1>2, <1>4, Holds, WorkersAre DEF PointsBack
<1> QED
  BY <1>7, <1>8, <1>9, <1>10, <1>11, <1>12, <1>13, <1>14, <1>15

\* Nobody moves and the bindings stay.
LEMMA BindingsStay ==
    ASSUME TypeOK, IInv, Bindings, UNCHANGED <<Registered, pc, locals>>,
           SameActive
    PROVE  Bindings'
<1> USE DEF Bindings
<1>0. /\ activeConns' = activeConns /\ primary' = primary /\ gone' = gone
      /\ adopted' = adopted /\ acDev' = acDev /\ Born' = Born
      /\ todo' = todo /\ cur' = cur /\ req' = req /\ pc' = pc
      /\ \A d \in Dev : dev'[d].active = dev[d].active
  BY DEF SameActive, Registered, locals
<1>4. \A b \in Born : ActiveOf(b)' = ActiveOf(b)
  BY <1>0, Holds DEF ActiveOf
<1>7. Alone' /\ Unasked' /\ PrimaryListed'
  BY <1>0 DEF Alone, Unasked, PrimaryListed
<1>8. Spare'
  BY <1>0, <1>4, Holds, WorkersAre DEF Spare
<1>9. OwnDevice' /\ PointsAtListed'
  BY <1>0 DEF OwnDevice, PointsAtListed
<1>10. Preparing'
  BY <1>0, Holds, WorkersAre DEF Preparing
<1>11. Handing'
  BY <1>0, <1>4, Holds, WorkersAre DEF Handing, HasCur
<1>12. Raised'
  BY <1>0, <1>4, Holds DEF Raised, Raising, BringUp, Settle
<1>13. Tearing'
  BY <1>0, <1>4, Holds, WorkersAre DEF Tearing, HasCur
<1>14. Adopting'
  <2>1. pc[Iwd] \in {"adoptBind", "adoptPrimary"} \cup Dropping => cur[Iwd] \in Born
    BY Holds DEF Adopting
  <2> QED
    BY <1>0, <1>4, <2>1 DEF Adopting
<1>15. PointsBack'
  BY <1>0, <1>4, Holds DEF PointsBack
<1> QED
  BY <1>7, <1>8, <1>9, <1>10, <1>11, <1>12, <1>13, <1>14, <1>15

\* A client's call begins, at rest.
LEMMA BindingsRequest ==
    ASSUME TypeOK, IInv, Bindings, Quiet, NEW c \in Client,
           NEW op \in {"activate", "deactivate", "delete"},
           NEW acs \in SUBSET activeConns, NEW d, NEW p,
           Request(c, op, acs, d, p),
           op = "activate" => /\ d \in Dev /\ acs = ActiveOn(d)
                              /\ ActiveOn(d) \cap adopted = {}
    PROVE  Bindings'
<1> USE DEF Bindings
<1>1. /\ pc[c] = "idle" /\ c \in Workers /\ c \in Thread /\ pc[Iwd] = "idle"
      /\ \A u \in Workers : pc[u] \in Resting
      /\ activeConns \cap gone = {} /\ \A u \in Thread : todo[u] = {}
      /\ \A e \in Client : req[e].op = "none"
  <2>1. \A u \in Thread : pc[u] \in {"idle", "none", "done"}
    BY DEF Quiet
  <2>2. activeConns \cap gone = {}
    BY <2>1, WorkersAre DEF IInv, Safe, GoneLeaves, TearingDown
  <2>3. \A u \in Thread : todo[u] = {}
    BY <2>1 DEF Spare, Teardown, TearingDown
  <2>4. pc[Iwd] = "idle"
    BY <2>1, Holds, WorkersAre DEF IwdPlaces
  <2> QED
    BY <2>1, <2>2, <2>3, <2>4, WorkersAre DEF Request, Resting, Unasked
<1>0. /\ pc' = [pc EXCEPT ![c] = "todo"] /\ cur' = cur
      /\ todo' = [todo EXCEPT ![c] = acs]
      /\ req' = [req EXCEPT ![c] = [op |-> op, dev |-> d, conn |-> p,
                                    ssid |-> None]]
      /\ activeConns' = activeConns /\ primary' = primary /\ dev' = dev
      /\ acDev' = acDev /\ gone' = gone /\ adopted' = adopted /\ Born' = Born
  BY DEF Request, Goto, acVars, Born
<1>2. /\ c # Iwd /\ pc'[c] = "todo" /\ pc'[Iwd] = pc[Iwd] /\ todo'[c] = acs
      /\ req'[c].op = op /\ req'[c].dev = d /\ req'[Iwd] = req[Iwd]
      /\ todo'[Iwd] = todo[Iwd]
      /\ \A u \in Thread : u # c => /\ pc'[u] = pc[u] /\ todo'[u] = todo[u]
                                    /\ req'[u] = req[u]
  BY <1>0, <1>1, Holds, WorkersAre
<1>3. \A a \in activeConns : ActiveOf(a) = a
  BY <1>1, WorkersAre DEF PointsBack, Resting
<1>7. Alone' /\ Unasked' /\ PrimaryListed'
  BY <1>0, <1>1, <1>2, WorkersAre
     DEF Alone, Unasked, PrimaryListed, Resting
<1>8. Spare'
  BY <1>0, <1>1, <1>2, <1>3, WorkersAre DEF Spare, ActiveOf
<1>9. OwnDevice' /\ PointsAtListed'
  BY <1>0, <1>2 DEF OwnDevice, PointsAtListed
<1>10. Preparing'
  <2> SUFFICES ASSUME op = "activate"
               PROVE  /\ dev[d].active \notin adopted
                      /\ dev[d].active \in acs \cup {None}
                      /\ \A a \in acs : dev[d].active = a
    BY <1>0, <1>1, <1>2, WorkersAre
       DEF Preparing, Dropping, Bound, Unbound
  <2>1. d \in Dev /\ dev[d].active \in activeConns \cup {None}
    BY <1>1 DEF PointsAtListed, Dropping
  <2>2. acs = {dev[d].active} \cap activeConns /\ acs \cap adopted = {}
    BY DEF ActiveOn
  <2> QED
    BY <2>1, <2>2, Holds
<1>11. Handing'
  BY <1>1, <1>2, WorkersAre DEF Handing, Resting
<1>12. Raised'
  BY <1>0, <1>1, <1>2, WorkersAre
     DEF Raised, Raising, BringUp, Settle, Resting
<1>13. Tearing'
  BY <1>0, <1>1, <1>2, WorkersAre
     DEF Tearing, ActiveOf, Resting, Bound, Unbound, Teardown, TearingDown
<1>14. Adopting'
  BY <1>1, <1>2 DEF Adopting, Dropping
<1>15. PointsBack'
  BY <1>0, <1>3 DEF PointsBack, ActiveOf
<1> QED
  BY <1>7, <1>8, <1>9, <1>10, <1>11, <1>12, <1>13, <1>14, <1>15

\* The event goroutine takes up an event or is done with one.
LEMMA BindingsEvent ==
    ASSUME TypeOK, IInv, Bindings, Calm, NEW p \in {"idle", "adopt", "dropDev"},
           pc[Iwd] \in {"idle", "adopt", "dropDev", "adoptPrimary"},
           Goto(Iwd, p), NEW x, cur' = [cur EXCEPT ![Iwd] = x],
           NEW r, req' = [req EXCEPT ![Iwd] = r],
           UNCHANGED <<activeConns, gone, adopted, acDev, Born, todo>>,
           primary' \in activeConns \cup {None},
           pc[Iwd] = "adoptPrimary" \/ primary' = primary, SameActive
    PROVE  Bindings'
<1> USE DEF Bindings
<1>0. /\ activeConns' = activeConns /\ gone' = gone
      /\ adopted' = adopted /\ acDev' = acDev /\ Born' = Born /\ todo' = todo
      /\ \A d \in Dev : dev'[d].active = dev[d].active
  BY DEF SameActive
<1>1. pc[Iwd] = "adoptPrimary" => \A c \in Client : pc[c] \in Resting
  BY DEF Calm, Joining
<1>2. /\ pc'[Iwd] = p
      /\ \A u \in Thread : u # Iwd => /\ pc'[u] = pc[u] /\ cur'[u] = cur[u]
                                      /\ req'[u] = req[u]
      /\ \A u \in Workers : /\ u # Iwd /\ u \in Thread
                             /\ pc'[u] = pc[u] /\ cur'[u] = cur[u]
  BY Holds, WorkersAre DEF Goto
<1>4. \A b \in Born : ActiveOf(b)' = ActiveOf(b)
  BY <1>0, Holds DEF ActiveOf
<1>7. Alone' /\ Unasked' /\ PrimaryListed'
  BY <1>0, <1>2, WorkersAre DEF Alone, Unasked, PrimaryListed
<1>8. Spare'
  <2>1. todo[Iwd] = {}
    BY Holds, WorkersAre DEF Spare, IwdPlaces, Teardown, TearingDown
  <2> QED
    BY <1>0, <1>2, <1>4, <2>1, Holds, WorkersAre DEF Spare
<1>9. OwnDevice' /\ PointsAtListed'
  BY <1>0 DEF OwnDevice, PointsAtListed, Dropping
<1>10. Preparing'
  BY <1>0, <1>2, Holds, WorkersAre DEF Preparing, Dropping
<1>11. Handing'
  BY <1>0, <1>1, <1>2, <1>4, Holds, WorkersAre DEF Handing, HasCur, Resting
<1>12. Raised'
  BY <1>0, <1>2, <1>4, Holds, WorkersAre DEF Raised, Raising, BringUp, Settle
<1>13. Tearing'
  BY <1>0, <1>2, <1>4, Holds, WorkersAre DEF Tearing, HasCur
<1>14. Adopting'
  BY <1>2 DEF Adopting, Dropping
<1>15. PointsBack'
  <2>1. \A b \in activeConns : ActiveOf(b)' = ActiveOf(b)
    BY <1>4, Holds
  <2> QED
    BY <1>0, <1>2, <2>1, WorkersAre DEF PointsBack
<1> QED
  BY <1>7, <1>8, <1>9, <1>10, <1>11, <1>12, <1>13, <1>14, <1>15

LEMMA BindingsAdopt ==
    ASSUME TypeOK, IInv, Bindings, Calm, NEW a \in AC, Adopt(a)
    PROVE  Bindings'
<1> USE DEF Bindings
<1>1. /\ pc[Iwd] = "adopt" /\ a \notin Born /\ req[Iwd].dev \in Dev
      /\ dev[req[Iwd].dev].active = None
      /\ \A c \in Client : pc[c] \in Resting /\ req[c].op = "none"
  BY Holds, WorkersAre DEF Adopt, NewAC, Born, Calm, Joining, Unasked, IInv,
     Working
<1>0. /\ pc' = [pc EXCEPT ![Iwd] = "adoptBind"] /\ cur' = [cur EXCEPT ![Iwd] = a]
      /\ activeConns' = activeConns \cup {a} /\ primary' = primary
      /\ acDev' = [acDev EXCEPT ![a] = req[Iwd].dev] /\ dev' = dev
      /\ gone' = gone /\ adopted' = adopted \cup {a} /\ req' = req
      /\ todo' = todo /\ Born' = Born \cup {a}
  BY Holds DEF Adopt, NewAC, SetAC, Goto, Born
<1>2. /\ pc'[Iwd] = "adoptBind" /\ cur'[Iwd] = a /\ acDev'[a] = req[Iwd].dev
      /\ \A u \in Thread : u # Iwd => pc'[u] = pc[u] /\ cur'[u] = cur[u]
      /\ \A b \in Born : b # a /\ acDev'[b] = acDev[b]
      /\ \A u \in Workers : /\ u # Iwd /\ u \in Thread
                             /\ pc'[u] = pc[u] /\ cur'[u] = cur[u]
  BY <1>0, <1>1, Holds, WorkersAre
<1>4. /\ \A b \in Born : ActiveOf(b)' = ActiveOf(b)
      /\ ActiveOf(a)' = None
  BY <1>0, <1>1, <1>2 DEF ActiveOf
<1>7. Alone' /\ Unasked' /\ PrimaryListed'
  BY <1>0, <1>2, WorkersAre DEF Alone, Unasked, PrimaryListed
<1>8. Spare'
  <2>1. todo[Iwd] = {}
    BY <1>1, WorkersAre DEF Spare, Teardown, TearingDown
  <2> QED
    BY <1>0, <1>2, <1>4, <2>1, Holds, WorkersAre DEF Spare
<1>9. OwnDevice' /\ PointsAtListed'
  BY <1>0, <1>1, <1>2 DEF OwnDevice, PointsAtListed, Dropping
<1>10. Preparing'
  BY <1>0, <1>1 DEF Preparing
<1>11. Handing'
  BY <1>1, <1>2, WorkersAre DEF Handing, Resting
<1>12. Raised'
  BY <1>0, <1>2, <1>4, Holds, WorkersAre DEF Raised, Raising, BringUp, Settle
<1>13. Tearing'
  BY <1>0, <1>2, <1>4, Holds, WorkersAre DEF Tearing, HasCur
<1>14. Adopting'
  <2>1. primary # a /\ a \notin gone
    BY <1>1, Holds, WorkersAre DEF PrimaryListed
  <2> QED
    BY <1>0, <1>2, <1>4, <2>1 DEF Adopting, Dropping
<1>15. PointsBack'
  BY <1>0, <1>1, <1>2, <1>4, Holds, WorkersAre DEF PointsBack
<1> QED
  BY <1>7, <1>8, <1>9, <1>10, <1>11, <1>12, <1>13, <1>14, <1>15

LEMMA BindingsAdoptFails ==
    ASSUME TypeOK, IInv, Bindings, Calm, ExportFails(Iwd)
    PROVE  Bindings'
<1> USE DEF Bindings
<1> DEFINE a == cur[Iwd]
<1>1. /\ pc[Iwd] = "adoptBind" /\ a \in adopted /\ a \in Born
      /\ ActiveOf(a) = None /\ primary # a
      /\ \A c \in Client : pc[c] \in Resting /\ req[c].op = "none"
  BY Holds, WorkersAre DEF ExportFails, IwdPlaces, Calm, Joining, Unasked,
     Adopting
<1>0. /\ pc' = [pc EXCEPT ![Iwd] = "idle"]
      /\ activeConns' = activeConns \ {a} /\ primary' = primary
      /\ acDev' = acDev /\ dev' = dev /\ todo' = todo
      /\ gone' = gone /\ adopted' = adopted /\ Born' = Born
      /\ cur' = [cur EXCEPT ![Iwd] = None] /\ req' = [req EXCEPT ![Iwd] = NoReq]
  BY DEF ExportFails, Unlist, Return, Goto, acVars, Born
<1>2. /\ pc'[Iwd] = "idle"
      /\ \A u \in Thread : u # Iwd => /\ pc'[u] = pc[u] /\ cur'[u] = cur[u]
                                      /\ req'[u] = req[u]
      /\ \A u \in Workers : /\ u # Iwd /\ u \in Thread
                             /\ pc'[u] = pc[u] /\ cur'[u] = cur[u]
  BY <1>0, <1>1, Holds, WorkersAre
<1>4. \A b \in AC : ActiveOf(b)' = ActiveOf(b)
  BY <1>0 DEF ActiveOf
<1>7. Alone' /\ Unasked' /\ PrimaryListed'
  BY <1>0, <1>1, <1>2, WorkersAre DEF Alone, Unasked, PrimaryListed
<1>8. Spare'
  <2>1. todo[Iwd] = {}
    BY <1>1, WorkersAre DEF Spare, Teardown, TearingDown
  <2> QED
    BY <1>0, <1>2, <1>4, <2>1, Holds, WorkersAre DEF Spare
<1>9. OwnDevice' /\ PointsAtListed'
  <2>1. \A d \in Dev : dev[d].active # a
    BY <1>1, Holds DEF OwnDevice, ActiveOf
  <2> QED
    BY <1>0, <1>1, <2>1 DEF OwnDevice, PointsAtListed, Dropping
<1>10. Preparing'
  BY <1>1, <1>2, WorkersAre DEF Preparing
<1>11. Handing'
  BY <1>1, <1>2, WorkersAre DEF Handing, Resting
<1>12. Raised'
  BY <1>0, <1>1, <1>2, <1>4, Holds, WorkersAre
     DEF Raised, Raising, BringUp, Settle
<1>13. Tearing'
  BY <1>0, <1>2, <1>4, Holds, WorkersAre DEF Tearing, HasCur
<1>14. Adopting'
  BY <1>2 DEF Adopting, Dropping
<1>15. PointsBack'
  BY <1>0, <1>2, <1>4, Holds, WorkersAre DEF PointsBack
<1> QED
  BY <1>7, <1>8, <1>9, <1>10, <1>11, <1>12, <1>13, <1>14, <1>15

LEMMA BindingsAdoptBind ==
    ASSUME TypeOK, IInv, Bindings, Calm, Wireless, Bind(Iwd)
    PROVE  Bindings'
<1> USE DEF Bindings
<1> DEFINE a == cur[Iwd]
<1>1. /\ pc[Iwd] = "adoptBind" /\ a \in adopted /\ a \in Born
      /\ a \in activeConns \ gone /\ DevOf(Iwd) = acDev[a]
      /\ DevOf(Iwd) = req[Iwd].dev /\ DevOf(Iwd) \in Dev
      /\ ActiveOf(a) = None /\ primary # a
      /\ \A c \in Client : pc[c] \in Resting /\ req[c].op = "none"
      /\ Kind[DevOf(Iwd)] = "wifi"
  BY Holds, WorkersAre DEF Bind, IwdPlaces, Calm, Joining, Unasked,
     Adopting, DevOf, Wireless, IInv, Working
<1>0. /\ pc' = [pc EXCEPT ![Iwd] = "adoptPrimary"]
      /\ dev' = [dev EXCEPT ![DevOf(Iwd)].active = a]
      /\ activeConns' = activeConns /\ primary' = primary
      /\ acDev' = acDev /\ todo' = todo
      /\ gone' = gone /\ adopted' = adopted /\ Born' = Born
      /\ cur' = cur /\ req' = req
  BY <1>1 DEF Bind, SetActive, Goto, shared, acVars, locals, Born
<1>2. /\ pc'[Iwd] = "adoptPrimary"
      /\ \A u \in Thread : u # Iwd => pc'[u] = pc[u]
      /\ \A u \in Workers : /\ u # Iwd /\ u \in Thread
                             /\ pc'[u] = pc[u] /\ cur'[u] = cur[u]
      /\ \A d \in Dev : dev'[d].active = IF d = DevOf(Iwd) THEN a
                                                          ELSE dev[d].active
  BY <1>0, <1>1, Holds, WorkersAre
<1>4. \A b \in Born : /\ acDev[b] \in Dev
                      /\ ActiveOf(b)' = IF acDev[b] = DevOf(Iwd) THEN a
                                                             ELSE ActiveOf(b)
                      /\ acDev[b] = DevOf(Iwd) => ActiveOf(b) = None
  BY <1>0, <1>1, <1>2, Holds DEF ActiveOf
<1>7. Alone' /\ Unasked' /\ PrimaryListed'
  BY <1>0, <1>1, <1>2, WorkersAre DEF Alone, Unasked, PrimaryListed
<1>8. Spare'
  <2>1. todo[Iwd] = {}
    BY <1>1, WorkersAre DEF Spare, Teardown, TearingDown
  <2>2. \A c \in Client : todo[c] = {}
    BY <1>1, WorkersAre DEF Spare, Resting, Teardown, TearingDown
  <2>3. \A b \in AC : todo[b] # {} => acDev[b] # DevOf(Iwd)
    <3> SUFFICES ASSUME NEW b \in AC, todo[b] # {}
                 PROVE  acDev[b] # DevOf(Iwd)
      OBVIOUS
    <3>1. todo[b] = {b} /\ b \in Born
      BY Holds, WorkersAre
    <3>2. pc[b] = "todo" \/ b \in gone
      BY <3>1, Holds, WorkersAre DEF Spare, Tearing
    <3>3. pc[b] = "todo" /\ ActiveOf(b) = b
      BY <3>1, <3>2, WorkersAre DEF Spare, Raised, Raising
    <3> QED
      BY <1>4, <3>1, <3>3, Holds
  <2> QED
    BY <1>0, <1>2, <1>4, <2>1, <2>2, <2>3, Holds, WorkersAre DEF Spare
<1>9. OwnDevice' /\ PointsAtListed'
  <2>1. OwnDevice'
    <3>1. \A d \in Dev : dev'[d].active # None =>
             dev'[d].active \in Born /\ acDev[dev'[d].active] = d
      BY <1>1, <1>2 DEF OwnDevice
    <3> QED
      BY <1>0, <3>1 DEF OwnDevice
  <2>2. pc[Iwd] \notin Dropping
    BY <1>1 DEF Dropping
  <2>3. PointsAtListed'
    BY <1>0, <1>1, <1>2, <2>2 DEF PointsAtListed
  <2> QED
    BY <2>1, <2>3
<1>10. Preparing'
  BY <1>0, <1>1 DEF Preparing
<1>11. Handing'
  BY <1>1, <1>2, WorkersAre DEF Handing, Resting
<1>12. Raised'
  <2> SUFFICES ASSUME NEW b \in AC, Raising(b)
               PROVE  b \in activeConns \ gone /\ ActiveOf(b)' = b
    BY <1>0, <1>2, WorkersAre DEF Raised, Raising
  <2>1. b \in activeConns \ gone /\ ActiveOf(b) = b /\ b # None
    BY WorkersAre DEF Raised
  <2> QED
    BY <1>4, <2>1, Holds
<1>13. Tearing'
  <2> SUFFICES ASSUME NEW t \in AC, pc[t] \in Teardown
               PROVE  /\ pc[t] \in Bound => ActiveOf(t)' = t
                      /\ pc[t] \in Unbound =>
                           /\ ActiveOf(t)' # t
                           /\ Kind[acDev[t]] # "wifi" => ActiveOf(t)' = None
    BY <1>0, <1>1, <1>2, WorkersAre DEF Tearing, Resting, Bound, Unbound
  <2>1. cur[t] = t /\ t \in gone /\ t \in Born /\ t # None /\ t # a
    BY <1>1, Holds, WorkersAre DEF Tearing
  <2> QED
    BY <1>1, <1>4, <2>1, WorkersAre DEF Tearing
<1>14. Adopting'
  BY <1>0, <1>1, <1>2, <1>4 DEF Adopting, Dropping
<1>15. PointsBack'
  <2> SUFFICES ASSUME NEW b \in activeConns, b # a
               PROVE  \/ ActiveOf(b)' = b
                      \/ \E c \in Client : pc[c] = "bind" /\ cur[c] = b
                      \/ \E t \in Workers : pc[t] \in {"unip4", "drop"}
                                              /\ cur[t] = b
    <3>1. \A b \in activeConns : b = a => ActiveOf(b)' = b
      BY <1>1, <1>4
    <3> QED
      BY <1>0, <1>2, <3>1, WorkersAre DEF PointsBack
  <2>1. b \in Born /\ b # None
    BY Holds
  <2> QED
    BY <1>4, <2>1 DEF PointsBack
<1> QED
  BY <1>7, <1>8, <1>9, <1>10, <1>11, <1>12, <1>13, <1>14, <1>15

\* A network is lost: the adopted connection of the device leaves the list,
LEMMA BindingsLost ==
    ASSUME TypeOK, IInv, Bindings, OnDisconnected
    PROVE  Bindings'
<1> USE DEF Bindings
<1> DEFINE d == Head(events).dev
           dropped == Adopted(d)
<1>1. /\ pc[Iwd] = "idle" /\ d \in Dev /\ dropped \subseteq activeConns
      /\ \A b \in dropped : /\ b \in adopted /\ b \in Born /\ b = dev[d].active
                            /\ acDev[b] = d
  BY TakeType, Holds, WorkersAre, SMTT(30)
     DEF OnDisconnected, TakeEvent, TypeOK, WifiEvents, Adopted, ActiveOn,
     OwnDevice
<1>0. /\ dev' = dev /\ activeConns' = activeConns \ dropped
      /\ primary' = IF primary \in dropped THEN None ELSE primary
      /\ acDev' = acDev /\ todo' = todo
      /\ gone' = gone /\ adopted' = adopted /\ Born' = Born
      /\ req' = [req EXCEPT ![Iwd] = [op |-> "event", dev |-> d, conn |-> None,
                                      ssid |-> None]]
      /\ \/ dropped = {} /\ pc' = [pc EXCEPT ![Iwd] = "dropDev"] /\ cur' = cur
         \/ \E b \in dropped : /\ pc' = [pc EXCEPT ![Iwd] = "dropState"]
                               /\ cur' = [cur EXCEPT ![Iwd] = b]
  BY DEF OnDisconnected, TakeEvent, Unlist, ClearPrimary, EventReq, Goto,
     acVars, Born
<1>2. /\ \A u \in Workers : /\ u # Iwd /\ u \in Thread
                            /\ pc'[u] = pc[u] /\ cur'[u] = cur[u]
                            /\ req'[u] = req[u]
      /\ req'[Iwd].dev = d
      /\ \/ dropped = {} /\ pc'[Iwd] = "dropDev"
         \/ pc'[Iwd] = "dropState" /\ cur'[Iwd] \in dropped
  BY <1>0, Holds, WorkersAre
<1>4. \A b \in AC : ActiveOf(b)' = ActiveOf(b)
  BY <1>0 DEF ActiveOf
<1>7. Alone' /\ Unasked' /\ PrimaryListed'
  BY <1>0, <1>1, <1>2, WorkersAre DEF Alone, Unasked, PrimaryListed
<1>8. Spare'
  <2>1. todo[Iwd] = {}
    BY <1>1, WorkersAre DEF Spare, Teardown, TearingDown
  <2> QED
    BY <1>0, <1>2, <1>4, <2>1, Holds, WorkersAre DEF Spare
<1>9. OwnDevice' /\ PointsAtListed'
  <2>1. OwnDevice'
    BY <1>0 DEF OwnDevice
  <2>2. \A e \in Dev : dev[e].active # None => dev[e].active \in activeConns
    BY <1>1 DEF PointsAtListed, Dropping
  <2>3. PointsAtListed'
    BY <1>0, <1>1, <1>2, <2>2 DEF PointsAtListed, Dropping
  <2> QED
    BY <2>1, <2>3
<1>10. Preparing'
  <2> SUFFICES ASSUME NEW c \in Client, req[c].op = "activate"
               PROVE  pc'[Iwd] \in Dropping => d # req[c].dev
    BY <1>0, <1>2, WorkersAre DEF Preparing
  <2> QED
    BY <1>1, <1>2 DEF Preparing, Dropping
<1>11. Handing'
  <2>1. \A c \in Client : pc[c] \in {"bind", "launch"} => cur[c] \notin dropped
    BY <1>1, Holds
  <2>2. \A c \in Client : pc[c] = "bind" => primary' # cur[c]
    BY <1>0, Holds, WorkersAre DEF Handing, HasCur
  <2>3. \A c \in Client : pc[c] \in {"bind", "launch"} =>
           cur[c] \in AC /\ ActiveOf(cur[c])' = ActiveOf(cur'[c])
    BY <1>0, <1>2, <1>4, Holds, WorkersAre DEF HasCur, ActiveOf
  <2> QED
    BY <1>0, <1>2, <1>4, <2>1, <2>2, <2>3, WorkersAre DEF Handing
<1>12. Raised'
  <2>1. \A b \in AC : Raising(b) => b \notin dropped
    BY <1>1, Holds DEF Raising, BringUp, Settle
  <2> QED
    BY <1>0, <1>2, <1>4, <2>1, Holds, WorkersAre DEF Raised, Raising
<1>13. Tearing'
  BY <1>0, <1>2, <1>4, Holds, WorkersAre DEF Tearing, HasCur
<1>14. Adopting'
  <2> SUFFICES ASSUME pc'[Iwd] = "dropState", cur'[Iwd] \in dropped
               PROVE  /\ cur'[Iwd] \in adopted /\ acDev[cur'[Iwd]] = d
                      /\ dev[acDev[cur'[Iwd]]].active = cur'[Iwd]
    BY <1>0, <1>2 DEF Adopting, ActiveOf, Dropping
  <2> QED
    BY <1>1
<1>15. PointsBack'
  <2>1. \A b \in activeConns : ActiveOf(b)' = ActiveOf(b)
    BY <1>4, Holds
  <2> QED
    BY <1>0, <1>1, <1>2, <2>1, WorkersAre DEF PointsBack
<1> QED
  BY <1>7, <1>8, <1>9, <1>10, <1>11, <1>12, <1>13, <1>14, <1>15

\* is shown as deactivated,
LEMMA BindingsDropState ==
    ASSUME TypeOK, IInv, Bindings, DropState
    PROVE  Bindings'
<1> USE DEF Bindings
<1>1. pc[Iwd] = "dropState" /\ cur[Iwd] \in Born
  BY Holds, WorkersAre DEF DropState, HasCur
<1>0. /\ dev' = dev /\ activeConns' = activeConns /\ primary' = primary
      /\ acDev' = acDev /\ todo' = todo /\ cur' = cur /\ req' = req
      /\ gone' = gone /\ adopted' = adopted /\ Born' = Born
      /\ pc' = [pc EXCEPT ![Iwd] = "dropBind"]
  BY <1>1, Holds DEF DropState, SetAC, Goto, locals, Born
<1>2. /\ \A u \in Workers : u # Iwd /\ u \in Thread /\ pc'[u] = pc[u]
      /\ pc'[Iwd] = "dropBind"
  BY <1>0, Holds, WorkersAre
<1>4. \A b \in AC : ActiveOf(b)' = ActiveOf(b)
  BY <1>0 DEF ActiveOf
<1>7. Alone' /\ Unasked' /\ PrimaryListed'
  BY <1>0, <1>1, <1>2, WorkersAre DEF Alone, Unasked, PrimaryListed
<1>8. Spare'
  <2>1. todo[Iwd] = {}
    BY <1>1, WorkersAre DEF Spare, Teardown, TearingDown
  <2> QED
    BY <1>0, <1>2, <1>4, <2>1, Holds, WorkersAre DEF Spare
<1>9. OwnDevice' /\ PointsAtListed'
  BY <1>0, <1>1, <1>2 DEF OwnDevice, PointsAtListed, Dropping
<1>10. Preparing'
  BY <1>0, <1>1, <1>2, WorkersAre DEF Preparing, Dropping
<1>11. Handing'
  BY <1>0, <1>2, Holds, WorkersAre DEF Handing, HasCur, ActiveOf
<1>12. Raised'
  BY <1>0, <1>2, WorkersAre DEF Raised, Raising, ActiveOf
<1>13. Tearing'
  BY <1>0, <1>2, WorkersAre DEF Tearing, ActiveOf
<1>14. Adopting'
  BY <1>0, <1>1, <1>2 DEF Adopting, ActiveOf, Dropping
<1>15. PointsBack'
  BY <1>0, <1>1, <1>2, WorkersAre DEF PointsBack, ActiveOf
<1> QED
  BY <1>7, <1>8, <1>9, <1>10, <1>11, <1>12, <1>13, <1>14, <1>15

\* and is unbound.
LEMMA BindingsDropBind ==
    ASSUME TypeOK, IInv, Bindings, DropBind
    PROVE  Bindings'
<1> USE DEF Bindings
<1> DEFINE d == req[Iwd].dev
<1>1. /\ pc[Iwd] = "dropBind" /\ cur[Iwd] \in Born /\ cur[Iwd] \in adopted
      /\ cur[Iwd] \notin activeConns /\ acDev[cur[Iwd]] = d /\ d \in Dev
      /\ dev[d].active \in {cur[Iwd], None}
  BY Holds, WorkersAre DEF DropBind, HasCur, Adopting, Dropping, ActiveOf,
     IInv, Working
<1>0. /\ dev' = [dev EXCEPT ![d].active = None]
      /\ activeConns' = activeConns /\ primary' = primary
      /\ acDev' = acDev /\ todo' = todo /\ req' = req
      /\ gone' = gone /\ adopted' = adopted /\ Born' = Born
      /\ pc' = [pc EXCEPT ![Iwd] = "dropDev"]
      /\ cur' = [cur EXCEPT ![Iwd] = None]
  BY DEF DropBind, SetActive, Goto, shared, acVars, Born
<1>2. /\ \A u \in Workers : /\ u # Iwd /\ u \in Thread
                            /\ pc'[u] = pc[u] /\ cur'[u] = cur[u]
      /\ pc'[Iwd] = "dropDev"
      /\ \A e \in Dev : dev'[e].active = IF e = d THEN None ELSE dev[e].active
  BY <1>0, <1>1, Holds, WorkersAre
<1>4. \A b \in Born : /\ acDev[b] \in Dev
                      /\ ActiveOf(b)' = IF acDev[b] = d THEN None
                                                        ELSE ActiveOf(b)
                      /\ b \notin adopted /\ ActiveOf(b) = b => acDev[b] # d
                      /\ b \in activeConns /\ ActiveOf(b) = b => acDev[b] # d
  BY <1>0, <1>1, <1>2, Holds DEF ActiveOf
<1>7. Alone' /\ Unasked' /\ PrimaryListed'
  BY <1>0, <1>1, <1>2, WorkersAre DEF Alone, Unasked, PrimaryListed
<1>8. Spare'
  <2>1. todo[Iwd] = {}
    BY <1>1, WorkersAre DEF Spare, Teardown, TearingDown
  <2> QED
    BY <1>0, <1>2, <1>4, <2>1, Holds, WorkersAre DEF Spare
<1>9. OwnDevice' /\ PointsAtListed'
  <2>1. OwnDevice'
    BY <1>0, <1>2 DEF OwnDevice
  <2>2. \A e \in Dev : dev[e].active = cur[Iwd] /\ cur[Iwd] # None => e = d
    BY <1>1 DEF OwnDevice
  <2>3. PointsAtListed'
    BY <1>0, <1>2, <2>2 DEF PointsAtListed
  <2> QED
    BY <2>1, <2>3
<1>10. Preparing'
  <2> SUFFICES ASSUME NEW c \in Client, req[c].op = "activate"
               PROVE  dev'[req[c].dev].active = dev[req[c].dev].active
    BY <1>0, <1>2, WorkersAre DEF Preparing, Dropping
  <2>1. req[c].dev # d /\ req[c].dev \in Dev
    BY <1>1, Holds, WorkersAre DEF Preparing, Dropping
  <2> QED
    BY <1>2, <2>1
<1>11. Handing'
  <2> SUFFICES ASSUME NEW c \in Client, pc[c] \in {"bind", "launch"}
               PROVE  \A a \in Born : a = cur[c] => ActiveOf(a)' = ActiveOf(a)
    BY <1>0, <1>2, Holds, WorkersAre DEF Handing, HasCur
  <2>1. acDev[cur[c]] # d
    BY <1>1 DEF Handing, Preparing, Dropping
  <2> QED
    BY <1>4, <2>1
<1>12. Raised'
  <2> SUFFICES ASSUME NEW b \in AC, Raising(b)
               PROVE  ActiveOf(b)' = b
    BY <1>0, <1>2, WorkersAre DEF Raised, Raising
  <2>1. b \in Born /\ ActiveOf(b) = b /\ b \in activeConns
    BY Holds DEF Raised
  <2> QED
    BY <1>4, <2>1
<1>13. Tearing'
  <2> SUFFICES ASSUME NEW t \in Workers, pc[t] \in Teardown
               PROVE  \A b \in Born : b = cur[t] =>
                         /\ ActiveOf(b)' \in {ActiveOf(b), None}
                         /\ t \in AC /\ pc[t] \in Bound => ActiveOf(b)' = b
    BY <1>0, <1>2, Holds, WorkersAre DEF Tearing, HasCur
  <2>1. t \in AC => t \in Born /\ t \notin adopted
    BY Holds, WorkersAre DEF Bound, Unbound
  <2> QED
    BY <1>4, <2>1, WorkersAre DEF Tearing
<1>14. Adopting'
  BY <1>2 DEF Adopting, Dropping
<1>15. PointsBack'
  <2>1. \A b \in activeConns : ActiveOf(b) = b => ActiveOf(b)' = b
    BY <1>4, Holds
  <2> QED
    BY <1>0, <1>1, <1>2, <2>1, WorkersAre DEF PointsBack
<1> QED
  BY <1>7, <1>8, <1>9, <1>10, <1>11, <1>12, <1>13, <1>14, <1>15

-----------------------------------------------------------------------------
\* Setting another field of a device leaves what it points at.
LEMMA OtherFields ==
    ASSUME dev \in [Dev -> Devices], NEW d, NEW x
    PROVE  /\ dev' = [dev EXCEPT ![d].state = x] => SameActive
           /\ dev' = [dev EXCEPT ![d].ip4 = x] => SameActive
           /\ dev' = [dev EXCEPT ![d].addr = x] => SameActive
           /\ dev' = [dev EXCEPT ![d].dns = x] => SameActive
           /\ dev' = [dev EXCEPT ![d].radio = x] => SameActive
           /\ dev' = dev => SameActive
  BY DEF SameActive, Devices

LEMMA WifiDisconnectFields ==
    ASSUME TypeOK, NEW d, WifiDisconnect(d)
    PROVE  SameActive
  BY OtherFields DEF WifiDisconnect, TypeOK

\* Nothing but a new connection is born.
LEMMA BornStays ==
    ASSUME TypeOK, NEW a \in Born, NEW s, s # "unborn", SetAC(a, s)
    PROVE  Born' = Born
  BY DEF SetAC, Born, TypeOK

LEMMA BindingsTeardown ==
    ASSUME TypeOK, IInv, Bindings, Calm, NEW t \in Workers, DeactivateStep(t)
    PROVE  Bindings'
<1>1. ASSUME NEW p, Goto(t, p), SamePart(pc[t], p),
             UNCHANGED <<activeConns, primary, acVars, locals>>, SameActive
      PROVE  Bindings'
  <2>1. UNCHANGED <<Registered, locals>>
    BY <1>1 DEF Registered, acVars, Born
  <2> QED
    BY <1>1, <2>1, BindingsMove
<1>2. /\ dev \in [Dev -> Devices] /\ t \in Thread
      /\ pc[t] \in Teardown => cur[t] \in Born
  BY Holds, WorkersAre
<1>3. CASE Cancel(t)
  <2>1. cur[t] \in Born /\ pc[t] = "cancel"
    BY <1>2, <1>3 DEF Cancel, Teardown, TearingDown
  <2>2. UNCHANGED <<Registered, locals>>
    BY <1>3, <2>1, BornStays DEF Cancel, Registered
  <2>3. SameActive
    BY <1>2, <1>3, OtherFields DEF Cancel, SetDev
  <2>4. PICK p \in {"mech", "flush"} : Goto(t, p)
    BY <1>3 DEF Cancel
  <2> QED
    BY <2>1, <2>2, <2>3, <2>4, BindingsMove DEF SamePart, Bound
<1>4. CASE DisconnectMech(t)
  <2>1. SameActive
    BY <1>4, WifiDisconnectFields DEF DisconnectMech
  <2> QED
    BY <1>1, <1>4, <2>1 DEF DisconnectMech, SamePart, Bound, shared
<1>5. CASE FlushAddrs(t)
  <2>1. SameActive
    BY <1>2, <1>5, OtherFields DEF FlushAddrs
  <2> QED
    BY <1>1, <1>5, <2>1 DEF FlushAddrs, SamePart, Bound, shared
<1>6. CASE RevertDNS(t)
  <2>1. SameActive
    BY <1>2, <1>6, OtherFields DEF RevertDNS
  <2> QED
    BY <1>1, <1>6, <2>1 DEF RevertDNS, SamePart, Bound, shared
<1>7. CASE UnexportIP4(t)
  <2>1. SameActive
    BY <1>2, <1>7, OtherFields DEF UnexportIP4
  <2> QED
    BY <1>1, <1>7, <2>1 DEF UnexportIP4, SamePart
<1>8. CASE Deactivated(t)
  <2>1. cur[t] \in Born /\ pc[t] = "final"
    BY <1>2, <1>8 DEF Deactivated, Teardown
  <2>2. UNCHANGED <<Registered, locals>>
    BY <1>8, <2>1, BornStays DEF Deactivated, Registered
  <2>3. SameActive
    BY <1>8 DEF Deactivated, SameActive
  <2> QED
    BY <1>8, <2>1, <2>2, <2>3, BindingsMove DEF Deactivated, SamePart
<1> QED
  BY <1>3, <1>4, <1>5, <1>6, <1>7, <1>8, BindingsMark, BindingsUnbind,
     BindingsDrop, BindingsDisconnected, BindingsProceed DEF DeactivateStep

LEMMA BindingsRun ==
    ASSUME TypeOK, IInv, Bindings, Calm, NEW a \in AC, RunActivation(a)
    PROVE  Bindings'
<1>1. ASSUME NEW p \in BringUp \cup Settle, Goto(a, p),
             pc[a] \in BringUp \cup Settle,
             UNCHANGED <<activeConns, primary, acVars, locals>>, SameActive
      PROVE  Bindings'
  <2>1. UNCHANGED <<Registered, locals>>
    BY <1>1 DEF Registered, acVars, Born
  <2> QED
    BY <1>1, <2>1, BindingsMove, WorkersAre DEF SamePart
<1>2. dev \in [Dev -> Devices] /\ a \in Workers
  BY Holds, WorkersAre
<1>3. pc[a] \in BringUp \cup Settle => a \in Born /\ ~Superseded(a)
  BY Holds DEF Bindings, Raised, Raising, Superseded, IInv, Flags
<1> USE DEF shared
<1>4. CASE StartWifi(a)
  <2>1. SameActive
    BY <1>2, <1>4, OtherFields DEF StartWifi, SetDev
  <2> QED
    BY <1>1, <1>4, <2>1 DEF StartWifi, BringUp
<1>5. CASE StartOther(a)
  <2>1. SameActive
    BY <1>5 DEF StartOther, SameActive
  <2> QED
    BY <1>1, <1>5, <2>1 DEF StartOther, BringUp
<1>6. CASE Connect(a)
  <2>1. SameActive
    BY <1>2, <1>6, OtherFields DEF Connect
  <2> QED
    BY <1>1, <1>6, <2>1 DEF Connect, BringUp
<1>7. CASE ConfigureIPv4(a)
  <2>1. SameActive
    BY <1>2, <1>7, OtherFields DEF ConfigureIPv4, SetDev
  <2> QED
    BY <1>1, <1>7, <2>1 DEF ConfigureIPv4, BringUp
<1>8. CASE ConfigureDHCP(a)
  <2>1. SameActive
    BY <1>8 DEF ConfigureDHCP, SameActive
  <2> QED
    BY <1>1, <1>8, <2>1 DEF ConfigureDHCP, BringUp
<1>9. CASE LeaseFlush(a)
  <2>1. SameActive
    BY <1>2, <1>9, OtherFields DEF LeaseFlush
  <2> QED
    BY <1>1, <1>9, <2>1 DEF LeaseFlush, BringUp
<1>10. CASE LeaseAddr(a)
  <2>1. SameActive
    BY <1>2, <1>10, OtherFields DEF LeaseAddr
  <2> QED
    BY <1>1, <1>10, <2>1 DEF LeaseAddr, BringUp
<1>11. CASE LeaseDNS(a)
  <2>1. SameActive
    BY <1>2, <1>11, OtherFields DEF LeaseDNS
  <2> QED
    BY <1>1, <1>11, <2>1 DEF LeaseDNS, BringUp
<1>12. CASE LeaseIP4(a)
  <2>1. SameActive
    BY <1>2, <1>12, OtherFields DEF LeaseIP4
  <2> QED
    BY <1>1, <1>12, <2>1 DEF LeaseIP4, BringUp
<1>13. CASE CheckSuperseded(a)
  <2>1. SameActive
    BY <1>13 DEF CheckSuperseded, SameActive
  <2>2. pc[a] \in BringUp
    BY <1>13 DEF CheckSuperseded, BringUp
  <2> QED
    BY <1>1, <1>3, <1>13, <2>1, <2>2 DEF CheckSuperseded, Settle
<1>14. CASE Activated(a)
  <2>1. pc[a] = "activated" /\ SameActive /\ a \in Born
    BY <1>3, <1>14 DEF Activated, SameActive, Settle
  <2>2. UNCHANGED <<Registered, locals>>
    BY <1>14, <2>1, BornStays DEF Activated, Registered
  <2> QED
    BY <1>2, <1>14, <2>1, <2>2, BindingsMove DEF Activated, SamePart, Settle
<1>15. CASE DevActivated(a)
  <2>1. SameActive
    BY <1>2, <1>15, OtherFields DEF DevActivated, SetDev
  <2> QED
    BY <1>1, <1>15, <2>1 DEF DevActivated, Settle
<1>16. CASE ActivationFailed(a) \/ SetPrimary(a)
  BY <1>16, BindingsSettle
<1>17. CASE DeactivateStep(a)
  BY <1>2, <1>17, BindingsTeardown
<1> QED
  BY <1>4, <1>5, <1>6, <1>7, <1>8, <1>9, <1>10, <1>11, <1>12, <1>13, <1>14,
     <1>15, <1>16, <1>17 DEF RunActivation

\* A step of the event goroutine.
LEMMA BindingsIwd ==
    ASSUME TypeOK, IInv, Bindings, Calm, Wireless, OnWifiEvent
    PROVE  Bindings'
<1>0. /\ dev \in [Dev -> Devices] /\ Iwd \in Thread
      /\ cur' = cur => cur' = [cur EXCEPT ![Iwd] = cur[Iwd]]
      /\ primary \in activeConns \cup {None}
  BY Holds, WorkersAre DEF Bindings, PrimaryListed
<1>1. CASE OnConnecting \/ OnDisconnecting
  <2>1. UNCHANGED <<Registered, pc, locals>>
    BY <1>1 DEF OnConnecting, OnDisconnecting, TakeEvent, Registered, locals,
       acVars, Born
  <2>2. SameActive
    BY <1>0, <1>1, OtherFields DEF OnConnecting, OnDisconnecting, SetDev
  <2> QED
    BY <2>1, <2>2, BindingsStay
<1>2. ASSUME NEW p \in {"idle", "adopt", "dropDev"}, Goto(Iwd, p),
             pc[Iwd] \in {"idle", "adopt", "dropDev"},
             NEW r, req' = [req EXCEPT ![Iwd] = r], cur' = cur,
             UNCHANGED <<activeConns, primary, acVars, todo>>, SameActive
      PROVE  Bindings'
  <2>1. UNCHANGED <<activeConns, gone, adopted, acDev, Born, todo>>
    BY <1>2 DEF acVars, Born
  <2>2. /\ cur' = [cur EXCEPT ![Iwd] = cur[Iwd]]
        /\ primary' \in activeConns \cup {None} /\ primary' = primary
        /\ pc[Iwd] \in {"idle", "adopt", "dropDev", "adoptPrimary"}
    BY <1>0, <1>2
  <2> QED
    BY <1>2, <2>1, <2>2, BindingsEvent
<1>3. CASE OnConnected
  <2>1. SameActive
    BY <1>0, <1>3, OtherFields DEF OnConnected, SetDev
  <2> QED
    BY <1>2, <1>3, <2>1 DEF OnConnected, TakeEvent, EventReq
<1>4. CASE NoAdopt
  <2>1. SameActive
    BY <1>4 DEF NoAdopt, SameActive
  <2> QED
    BY <1>2, <1>4, <2>1 DEF NoAdopt, Return, shared
<1>5. CASE DropDev
  <2>1. SameActive
    BY <1>0, <1>5, OtherFields DEF DropDev, SetDev
  <2> QED
    BY <1>2, <1>5, <2>1 DEF DropDev, Return, shared
<1>6. CASE AdoptPrimary
  <2>1. UNCHANGED <<activeConns, gone, adopted, acDev, Born, todo>> /\ SameActive
    BY <1>6 DEF AdoptPrimary, acVars, Born, SameActive
  <2>2. /\ pc[Iwd] = "adoptPrimary" /\ primary' \in activeConns \cup {None}
        /\ Goto(Iwd, "idle") /\ cur' = [cur EXCEPT ![Iwd] = None]
        /\ req' = [req EXCEPT ![Iwd] = NoReq]
    BY <1>6 DEF AdoptPrimary, Return, Bindings, Adopting
  <2> QED
    BY <2>1, <2>2, BindingsEvent
<1> QED
  BY <1>1, <1>3, <1>4, <1>5, <1>6, BindingsAdopt, BindingsAdoptFails,
     BindingsAdoptBind, BindingsLost, BindingsDropState, BindingsDropBind
     DEF OnWifiEvent

\* A client's call begins, or does something at rest without one.
LEMMA BindingsCalls ==
    ASSUME TypeOK, IInv, Bindings, Discipline = "patient", NEW c \in Client,
           NewRequest(c)
    PROVE  Bindings'
<1>1. MayBegin => Quiet
  BY DEF MayBegin
<1>2. ASSUME NEW p \in Profile, NEW d \in Dev,
             ActivateConnection(c, p, d) \/ AddAndActivateConnection(c, p, d)
      PROVE  Bindings'
  <2>1. Request(c, "activate", ActiveOn(d), d, p) /\ Quiet
    BY <1>1, <1>2 DEF ActivateConnection, AddAndActivateConnection, Request
  <2>2. ActiveOn(d) \in SUBSET activeConns /\ ActiveOn(d) \cap adopted = {}
    BY <1>2 DEF ActivateConnection, AddAndActivateConnection, MayActivate,
       ActiveOn
  <2> QED
    BY <2>1, <2>2, BindingsRequest
<1>3. ASSUME NEW a \in AC, DeactivateConnection(c, a)
      PROVE  Bindings'
  <2>1. Request(c, "deactivate", {a}, None, None) /\ Quiet
          /\ {a} \in SUBSET activeConns
    BY <1>1, <1>3 DEF DeactivateConnection, Request
  <2> QED
    BY <2>1, BindingsRequest
<1>4. ASSUME NEW d \in Dev, DeviceDisconnect(c, d)
      PROVE  Bindings'
  <2>1. Request(c, "deactivate", ActiveOn(d), None, None) /\ Quiet
          /\ ActiveOn(d) \in SUBSET activeConns
    BY <1>1, <1>4 DEF DeviceDisconnect, Request, ActiveOn
  <2> QED
    BY <2>1, BindingsRequest
<1>5. ASSUME NEW p \in Profile, Delete(c, p)
      PROVE  Bindings'
  <2> DEFINE users == {a \in activeConns : acConn[a] = p}
  <2>1. Request(c, "delete", users, None, p) /\ Quiet
          /\ users \in SUBSET activeConns
    BY <1>1, <1>5 DEF Delete, Request
  <2> QED
    BY <2>1, BindingsRequest
<1>6. ASSUME NEW p \in Profile, AddConnection(c, p)
      PROVE  Bindings'
  <2>1. UNCHANGED <<Registered, pc, locals>> /\ SameActive
    BY <1>6 DEF AddConnection, Registered, acVars, Born, SameActive
  <2> QED
    BY <2>1, BindingsStay
<1>7. ASSUME NEW d \in Dev, DeviceDisconnectRadio(c, d)
      PROVE  Bindings'
  <2>1. UNCHANGED <<Registered, pc, locals>>
    BY <1>7 DEF DeviceDisconnectRadio, Registered, acVars, Born, shared
  <2>2. SameActive
    BY <1>7, WifiDisconnectFields DEF DeviceDisconnectRadio
  <2> QED
    BY <2>1, <2>2, BindingsStay
<1> QED
  BY <1>2, <1>3, <1>4, <1>5, <1>6, <1>7 DEF NewRequest

\* Every step of patient clients preserves the bindings.
LEMMA BindingsStep ==
    ASSUME TypeOK, IInv, Bindings, Calm, Wireless, Discipline = "patient",
           [Next]_vars
    PROVE  Bindings'
<1>1. ASSUME NEW c \in Client, HandlerStep(c)
      PROVE  Bindings'
  <2>1. c \in Workers
    BY WorkersAre
  <2>2. CASE RemoveProfile(c) \/ CreateExhausted(c)
    BY <2>1, <2>2, BindingsProceed
  <2> QED
    BY <1>1, <2>1, <2>2, BindingsTeardown, BindingsCreate, BindingsExportFails,
       BindingsBind, BindingsLaunch DEF HandlerStep
<1>2. CASE Radio
  <2>1. UNCHANGED <<Registered, pc, locals>>
    BY <1>2 DEF Radio, RadioConnects, RadioDrops, RadioMoves, Registered,
       acVars, Born, shared
  <2>2. SameActive
    BY <1>2, OtherFields DEF Radio, RadioConnects, RadioDrops, RadioMoves,
       TypeOK
  <2> QED
    BY <2>1, <2>2, BindingsStay
<1>3. CASE UNCHANGED vars
  <2>1. UNCHANGED <<Registered, pc, locals>> /\ SameActive
    BY <1>3 DEF vars, shared, Registered, acVars, Born, SameActive
  <2> QED
    BY <2>1, BindingsStay
<1> QED
  BY <1>1, <1>2, <1>3, BindingsCalls, BindingsRun, BindingsIwd DEF Next

-----------------------------------------------------------------------------
\* The event queue grows by what Emit appends, and loses its head.
LEMMA EmitAdds ==
    ASSUME events \in Seq(WifiEvents), NEW d,
           NEW states \in Seq({"connecting", "connected", "disconnecting",
                               "disconnected"}),
           Emit(d, states)
    PROVE  \A i \in 1 .. Len(events') :
              \/ \E j \in 1 .. Len(events) : events'[i] = events[j]
              \/ \E j \in 1 .. Len(states) :
                    events'[i] = [dev |-> d, state |-> states[j]]
<1> DEFINE new == [i \in 1 .. Len(states) |-> [dev |-> d, state |-> states[i]]]
<1>1. /\ Len(states) \in Nat /\ Len(events) \in Nat
      /\ new \in Seq({[dev |-> d, state |-> s] :
                       s \in {"connecting", "connected", "disconnecting",
                              "disconnected"}})
      /\ Len(new) = Len(states)
  OBVIOUS
<1>2. events' = events \o new
  BY DEF Emit
<1>3. /\ Len(events') = Len(events) + Len(states)
      /\ \A i \in 1 .. Len(events') :
            events'[i] = IF i <= Len(events) THEN events[i]
                                             ELSE new[i - Len(events)]
  BY <1>1, <1>2
<1>4. ASSUME NEW i \in 1 .. Len(events')
      PROVE  \/ \E j \in 1 .. Len(events) : events'[i] = events[j]
             \/ \E j \in 1 .. Len(states) :
                   events'[i] = [dev |-> d, state |-> states[j]]
  <2>1. CASE i <= Len(events)
    <3>1. i \in 1 .. Len(events)
      BY <1>1, <2>1
    <3>2. events'[i] = events[i]
      BY <1>3, <2>1
    <3> QED
      BY <3>1, <3>2
  <2>2. CASE ~(i <= Len(events))
    <3> DEFINE j == i - Len(events)
    <3>1. j \in 1 .. Len(states)
      BY <1>1, <1>3, <2>2
    <3>2. events'[i] = new[j]
      BY <1>3, <2>2
    <3>3. events'[i] = [dev |-> d, state |-> states[j]]
      BY <3>1, <3>2
    <3> QED
      BY <3>1, <3>3
  <2> QED
    BY <2>1, <2>2
<1> QED
  BY <1>4

LEMMA TailLeaves ==
    ASSUME events \in Seq(WifiEvents), events # <<>>
    PROVE  /\ 1 \in 1 .. Len(events) /\ Head(events) = events[1]
           /\ \A i \in 1 .. Len(Tail(events)) :
                 \E j \in 1 .. Len(events) : Tail(events)[i] = events[j]
<1>1. Len(events) \in Nat /\ Len(events) > 0 /\ Head(events) = events[1]
  OBVIOUS
<1>2. /\ Len(Tail(events)) = Len(events) - 1
      /\ \A i \in 1 .. Len(Tail(events)) : Tail(events)[i] = events[i + 1]
  OBVIOUS
<1>3. ASSUME NEW i \in 1 .. Len(Tail(events))
      PROVE  \E j \in 1 .. Len(events) : Tail(events)[i] = events[j]
  <2>1. i + 1 \in 1 .. Len(events)
    BY <1>1, <1>2
  <2> QED
    BY <1>2, <2>1
<1> QED
  BY <1>1, <1>3

\* Who moves in a step, and what it leaves of the others' locals and of the
\* queue of events.
LeftAlone(t) == \A u \in Thread : u # t =>
    pc'[u] = pc[u] /\ cur'[u] = cur[u] /\ todo'[u] = todo[u] /\ req'[u] = req[u]

\* What deactivate does besides
LEMMA TeardownFrame ==
    ASSUME TypeOK, IInv, NEW t \in Workers, DeactivateStep(t)
    PROVE  /\ LeftAlone(t) /\ acDev' = acDev /\ adopted' = adopted
           /\ pc[t] \in Teardown \cup {"todo"}
           /\ pc'[t] \in Teardown \cup {"todo", "create", "remove", "idle",
                                        "done"}
           /\ pc'[t] = "mech" => \/ pc[t] = "mech" /\ cur'[t] = cur[t]
                                 \/ cur'[t] = cur[t] /\ Kind[acDev[cur[t]]] = "wifi"
           /\ \/ events' = events
              \/ /\ pc[t] = "mech"
                 /\ Emit(DevOf(t), <<"disconnecting", "disconnected">>)
<1> USE DEF shared, acVars, locals, wifiVars, Goto, LeftAlone, Teardown, TearingDown
<1>0. t \in Thread
  BY WorkersAre
<1>1. ASSUME NEW a \in AC, Mark(t, a) PROVE LeftAlone(t) /\ acDev' = acDev
         /\ adopted' = adopted /\ events' = events /\ pc[t] = "todo"
         /\ pc'[t] \in {"todo", "cancel"}
  BY <1>0, <1>1, Holds DEF Mark
<1>2. CASE Cancel(t)
  BY <1>0, <1>2, Holds DEF Cancel, DevOf
<1>3. CASE DisconnectMech(t)
  BY <1>0, <1>3, Holds DEF DisconnectMech, WifiDisconnect
<1>4. CASE FlushAddrs(t)
  BY <1>0, <1>4, Holds DEF FlushAddrs
<1>5. CASE RevertDNS(t)
  BY <1>0, <1>5, Holds DEF RevertDNS
<1>6. CASE Unbind(t)
  BY <1>0, <1>6, Holds DEF Unbind
<1>7. CASE UnexportIP4(t)
  BY <1>0, <1>7, Holds DEF UnexportIP4
<1>8. CASE Drop(t)
  BY <1>0, <1>8, Holds DEF Drop
<1>9. CASE Deactivated(t)
  BY <1>0, <1>9, Holds DEF Deactivated
<1>10. CASE Disconnected(t)
  BY <1>0, <1>10, Holds DEF Disconnected
<1>11. CASE Proceed(t)
  BY <1>0, <1>11, Holds DEF Proceed, Return
<1> QED
  BY <1>1, <1>2, <1>3, <1>4, <1>5, <1>6, <1>7, <1>8, <1>9, <1>10, <1>11
     DEF DeactivateStep

\* what a handler does,
LEMMA HandlerFrame ==
    ASSUME TypeOK, IInv, NEW c \in Client, HandlerStep(c)
    PROVE  /\ c \in Workers /\ pc[c] \notin Resting /\ adopted' = adopted
           /\ pc'[Iwd] = pc[Iwd] /\ cur'[Iwd] = cur[Iwd] /\ req'[Iwd] = req[Iwd]
           /\ \A u \in Workers : pc'[u] = "mech" =>
                 \/ pc[u] = "mech" /\ cur'[u] = cur[u]
                 \/ /\ cur'[u] = cur[u] /\ Kind[acDev[cur[u]]] = "wifi"
                    /\ acDev' = acDev
           /\ \A a \in AC : pc'[a] = "connect" => pc[a] = "connect"
           /\ \A b \in Born : acDev'[b] = acDev[b]
           /\ \/ events' = events
              \/ /\ pc[c] = "mech"
                 /\ Emit(DevOf(c), <<"disconnecting", "disconnected">>)
<1> USE DEF shared, acVars, locals, wifiVars, Goto
<1>0. c \in Workers /\ c \in Thread /\ c # Iwd /\ Iwd \in Thread /\ c \notin AC
  BY WorkersAre
<1>1. CASE DeactivateStep(c)
  BY <1>0, <1>1, TeardownFrame, WorkersAre DEF LeftAlone, Resting, Teardown,
     TearingDown
<1>2. CASE RemoveProfile(c)
  BY <1>0, <1>2, Holds, WorkersAre DEF RemoveProfile, Return, Resting
<1>3. ASSUME NEW a \in AC, Create(c, a)
      PROVE  /\ pc[c] = "create" /\ pc' = [pc EXCEPT ![c] = "bind"]
             /\ cur' = [cur EXCEPT ![c] = a] /\ req' = req /\ events' = events
             /\ \A b \in Born : acDev'[b] = acDev[b]
             /\ adopted' = adopted
  BY <1>3, Holds DEF Create, NewAC, Born
<1>4. CASE \E a \in AC : Create(c, a)
  BY <1>0, <1>3, <1>4, Holds, WorkersAre DEF Resting
<1>5. CASE CreateExhausted(c)
  BY <1>0, <1>5, Holds, WorkersAre DEF CreateExhausted, Return, Resting
<1>6. CASE ExportFails(c)
  BY <1>0, <1>6, Holds, WorkersAre DEF ExportFails, Return, Resting
<1>7. CASE Bind(c)
  BY <1>0, <1>7, Holds, WorkersAre DEF Bind, Resting
<1>8. CASE Launch(c)
  <2>1. /\ pc[c] = "launch" /\ cur[c] \in AC /\ cur[c] # c
        /\ cur[c] \in Thread /\ cur[c] # Iwd
    BY <1>0, <1>8, Holds, WorkersAre DEF Launch, HasCur
  <2>2. /\ \A u \in Thread : pc'[u] = IF u = cur[c] THEN "start"
                                      ELSE IF u = c THEN "idle" ELSE pc[u]
        /\ \A u \in Thread : u # c => cur'[u] = cur[u] /\ req'[u] = req[u]
        /\ acDev' = acDev /\ adopted' = adopted /\ events' = events
    BY <1>0, <1>8, <2>1, Holds DEF Launch
  <2> QED
    BY <1>0, <2>1, <2>2, WorkersAre DEF Resting
<1> QED
  BY <1>1, <1>2, <1>4, <1>5, <1>6, <1>7, <1>8 DEF HandlerStep

\* what a bring-up does,
LEMMA RunFrame ==
    ASSUME TypeOK, IInv, NEW a \in AC, RunActivation(a)
    PROVE  /\ LeftAlone(a) /\ pc[a] \notin Resting /\ adopted' = adopted
           /\ acDev' = acDev
           /\ pc'[a] = "mech" =>
                 \/ pc[a] = "mech" /\ cur'[a] = cur[a]
                 \/ cur'[a] = cur[a] /\ Kind[acDev[cur[a]]] = "wifi"
           /\ pc'[a] = "connect" => Kind[acDev[a]] = "wifi"
           /\ \/ events' = events
              \/ /\ pc[a] = "mech"
                 /\ Emit(DevOf(a), <<"disconnecting", "disconnected">>)
              \/ Kind[acDev[a]] = "wifi" /\ Emit(acDev[a], <<"connecting">>)
              \/ /\ pc[a] = "connect"
                 /\ \/ Emit(acDev[a], <<"connected">>)
                    \/ Emit(acDev[a], <<"disconnected">>)
<1> USE DEF shared, acVars, locals, wifiVars, Goto, LeftAlone, Resting
<1>0. a \in Workers /\ a \in Thread /\ a # Iwd
  BY WorkersAre
<1>1. CASE DeactivateStep(a)
  BY <1>0, <1>1, TeardownFrame DEF Teardown, TearingDown
<1>2. CASE StartWifi(a) \/ StartOther(a)
  BY <1>0, <1>2, Holds DEF StartWifi, StartOther
<1>3. CASE Connect(a)
  BY <1>0, <1>3, Holds DEF Connect
<1>4. CASE ConfigureIPv4(a) \/ ConfigureDHCP(a) \/ LeaseFlush(a)
  BY <1>0, <1>4, Holds DEF ConfigureIPv4, ConfigureDHCP, LeaseFlush
<1>5. CASE LeaseAddr(a) \/ LeaseDNS(a) \/ LeaseIP4(a)
  BY <1>0, <1>5, Holds DEF LeaseAddr, LeaseDNS, LeaseIP4
<1>6. CASE CheckSuperseded(a) \/ ActivationFailed(a) \/ Activated(a)
  BY <1>0, <1>6, Holds DEF CheckSuperseded, ActivationFailed, Activated
<1>7. CASE DevActivated(a) \/ SetPrimary(a)
  BY <1>0, <1>7, Holds DEF DevActivated, SetPrimary
<1> QED
  BY <1>1, <1>2, <1>3, <1>4, <1>5, <1>6, <1>7 DEF RunActivation

\* and what the event goroutine does.
LEMMA IwdFrame ==
    ASSUME TypeOK, IInv, OnWifiEvent
    PROVE  /\ LeftAlone(Iwd)
           /\ \A b \in Born : acDev'[b] = acDev[b]
           /\ \/ events' = events
              \/ /\ events # <<>> /\ events' = Tail(events)
                 /\ pc'[Iwd] \in Joining => Head(events).state = "connected"
           /\ pc'[Iwd] \in Joining =>
                 \/ pc[Iwd] \in Joining
                 \/ events # <<>> /\ Head(events).state = "connected"
           /\ req'[Iwd].op = "event" =>
                 \/ req' = req
                 \/ events # <<>> /\ req'[Iwd].dev = Head(events).dev
<1> USE DEF shared, acVars, locals, wifiVars, Goto, LeftAlone, Joining
<1>0. Iwd \in Thread
  BY WorkersAre
<1>1. CASE OnConnecting \/ OnDisconnecting
  BY <1>0, <1>1, Holds DEF OnConnecting, OnDisconnecting, TakeEvent
<1>2. CASE OnConnected
  BY <1>0, <1>2, Holds DEF OnConnected, TakeEvent, EventReq
<1>3. CASE OnDisconnected
  BY <1>0, <1>3, Holds DEF OnDisconnected, TakeEvent, EventReq
<1>4. ASSUME NEW a \in AC, Adopt(a)
      PROVE  /\ pc[Iwd] = "adopt" /\ pc' = [pc EXCEPT ![Iwd] = "adoptBind"]
             /\ cur' = [cur EXCEPT ![Iwd] = a] /\ req' = req /\ todo' = todo
             /\ \A b \in Born : acDev'[b] = acDev[b]
             /\ events' = events
  BY <1>4, Holds DEF Adopt, NewAC, Born
<1>5. CASE \E a \in AC : Adopt(a)
  BY <1>0, <1>4, <1>5, Holds
<1>6. CASE NoAdopt \/ ExportFails(Iwd) \/ AdoptPrimary
  BY <1>0, <1>6, Holds DEF NoAdopt, ExportFails, AdoptPrimary, Return, NoReq
<1>7. CASE Bind(Iwd)
  BY <1>0, <1>7, Holds DEF Bind, IwdPlaces
<1>8. CASE DropState \/ DropBind \/ DropDev
  BY <1>0, <1>8, Holds DEF DropState, DropBind, DropDev, Return, NoReq
<1> QED
  BY <1>1, <1>2, <1>3, <1>5, <1>6, <1>7, <1>8 DEF OnWifiEvent

\* A client of this discipline calls, and the radio moves, only at rest.
LEMMA AtRest ==
    ASSUME TypeOK, IInv, Discipline = "patient"
    PROVE  /\ \A c \in Client : NewRequest(c) =>
                 /\ Quiet
                 /\ LeftAlone(c) \/ UNCHANGED <<pc, locals>>
                 /\ UNCHANGED <<activeConns, primary, acVars, exported, cur>>
                 /\ \/ pc' = pc
                    \/ pc'[c] = "todo" /\ UNCHANGED <<dev, wifiVars>>
           /\ Radio => Quiet /\ UNCHANGED <<shared, pc, locals>>
           /\ Quiet => pc[Iwd] = "idle" /\ events = <<>>
                         /\ \A t \in Thread : pc[t] \in Resting
<1> USE DEF shared, locals, LeftAlone, MayBegin
<1>1. ASSUME NEW c \in Client, NEW op, NEW acs, NEW d, NEW p,
             Request(c, op, acs, d, p)
      PROVE  /\ Quiet /\ LeftAlone(c) /\ pc'[c] = "todo"
             /\ UNCHANGED <<activeConns, primary, acVars, exported, cur, dev,
                            wifiVars>>
  BY <1>1, Holds, WorkersAre DEF Goto, Request
<1>2. ASSUME NEW c \in Client, NewRequest(c)
      PROVE  /\ Quiet
             /\ LeftAlone(c) \/ UNCHANGED <<pc, locals>>
             /\ UNCHANGED <<activeConns, primary, acVars, exported, cur>>
             /\ \/ pc' = pc
                \/ pc'[c] = "todo" /\ UNCHANGED <<dev, wifiVars>>
  <2>1. CASE \E p \in Profile, d \in Dev : ActivateConnection(c, p, d)
    BY <1>1, <2>1 DEF ActivateConnection
  <2>2. CASE \E p \in Profile, d \in Dev : AddAndActivateConnection(c, p, d)
    BY <1>1, <2>2 DEF AddAndActivateConnection
  <2>3. CASE \E p \in Profile : AddConnection(c, p)
    BY <2>3 DEF AddConnection
  <2>4. CASE \E a \in AC : DeactivateConnection(c, a)
    BY <1>1, <2>4 DEF DeactivateConnection
  <2>5. CASE \E d \in Dev : DeviceDisconnect(c, d)
    BY <1>1, <2>5 DEF DeviceDisconnect
  <2>6. CASE \E d \in Dev : DeviceDisconnectRadio(c, d)
    BY <2>6 DEF DeviceDisconnectRadio
  <2>7. CASE \E p \in Profile : Delete(c, p)
    BY <1>1, <2>7 DEF Delete
  <2> QED
    BY <1>2, <2>1, <2>2, <2>3, <2>4, <2>5, <2>6, <2>7 DEF NewRequest
<1>3. Radio => Quiet /\ UNCHANGED <<shared, pc, locals>>
  BY DEF Radio, RadioConnects, RadioDrops, RadioMoves
<1>4. Quiet => pc[Iwd] = "idle" /\ events = <<>>
                 /\ \A t \in Thread : pc[t] \in Resting
  BY Holds, WorkersAre DEF Quiet, Resting, IwdPlaces
<1> QED
  BY <1>2, <1>3, <1>4

\* While a call is at work the radio joins no network.
LEMMA CalmStep ==
    ASSUME TypeOK, IInv, Bindings, Calm, Discipline = "patient", [Next]_vars
    PROVE  Calm'
<1> SUFFICES ASSUME NEW c \in Client, pc'[c] \notin Resting
             PROVE  /\ pc'[Iwd] \notin Joining
                    /\ \A i \in 1 .. Len(events') :
                          events'[i].state # "connected"
  BY DEF Calm
<1>0. c \in Workers /\ c \in Thread /\ c # Iwd /\ events \in Seq(WifiEvents)
  BY WorkersAre DEF TypeOK
<1>1. pc[c] \notin Resting =>
         /\ pc[Iwd] \notin Joining
         /\ \A i \in 1 .. Len(events) : events[i].state # "connected"
  BY DEF Calm
<1>2. ASSUME NEW e \in Client, HandlerStep(e)
      PROVE  /\ pc'[Iwd] \notin Joining
             /\ \A i \in 1 .. Len(events') : events'[i].state # "connected"
  <2>1. /\ pc[Iwd] \notin Joining /\ pc'[Iwd] = pc[Iwd]
        /\ \A i \in 1 .. Len(events) : events[i].state # "connected"
    BY <1>2, HandlerFrame DEF Calm
  <2>2. CASE events' = events
    BY <2>1, <2>2
  <2>3. ASSUME NEW d, Emit(d, <<"disconnecting", "disconnected">>)
        PROVE  \A i \in 1 .. Len(events') : events'[i].state # "connected"
    <3> DEFINE ss == <<"disconnecting", "disconnected">>
    <3>1. ss \in Seq({"connecting", "connected", "disconnecting",
                       "disconnected"})
      OBVIOUS
    <3>2. \A j \in 1 .. Len(ss) : ss[j] # "connected"
      OBVIOUS
    <3>3. Emit(d, ss)
      BY <2>3
    <3> HIDE DEF ss
    <3>4. \A i \in 1 .. Len(events') :
             \/ \E j \in 1 .. Len(events) : events'[i] = events[j]
             \/ \E j \in 1 .. Len(ss) :
                   events'[i] = [dev |-> d, state |-> ss[j]]
      BY <1>0, <3>1, <3>3, EmitAdds
    <3> SUFFICES ASSUME NEW i \in 1 .. Len(events')
                 PROVE  events'[i].state # "connected"
      OBVIOUS
    <3>5. ASSUME NEW j \in 1 .. Len(events), events'[i] = events[j]
          PROVE  events'[i].state # "connected"
      BY <2>1, <3>5
    <3>6. ASSUME NEW j \in 1 .. Len(ss),
                 events'[i] = [dev |-> d, state |-> ss[j]]
          PROVE  events'[i].state # "connected"
      BY <3>2, <3>6
    <3> QED
      BY <3>4, <3>5, <3>6
  <2> QED
    BY <1>2, <2>1, <2>2, <2>3, HandlerFrame
<1>3. ASSUME NEW a \in AC, RunActivation(a)
      PROVE  FALSE
  <2>1. a \in Workers /\ c # a /\ pc[a] \notin Resting /\ pc'[c] = pc[c]
    BY <1>0, <1>3, RunFrame, WorkersAre DEF LeftAlone
  <2> QED
    BY <1>0, <2>1 DEF Bindings, Alone
<1>4. CASE OnWifiEvent
  <2>1. /\ pc'[c] = pc[c]
        /\ pc'[Iwd] \in Joining =>
              \/ pc[Iwd] \in Joining
              \/ events # <<>> /\ Head(events).state = "connected"
        /\ events' = events \/ (events # <<>> /\ events' = Tail(events))
    BY <1>0, <1>4, IwdFrame DEF LeftAlone
  <2> QED
    BY <1>0, <1>1, <2>1, TailLeaves
<1>5. ASSUME NEW e \in Client, NewRequest(e)
      PROVE  /\ pc'[Iwd] \notin Joining
             /\ \A i \in 1 .. Len(events') : events'[i].state # "connected"
  <2>1. /\ pc[Iwd] = "idle" /\ events = <<>> /\ pc[c] \in Resting
        /\ LeftAlone(e) \/ UNCHANGED <<pc, locals>>
        /\ pc' = pc \/ UNCHANGED <<dev, wifiVars>>
    BY <1>0, <1>5, AtRest
  <2>2. pc' # pc /\ e # Iwd /\ Iwd \in Thread
    BY <2>1, WorkersAre
  <2>3. pc'[Iwd] = pc[Iwd] /\ events' = <<>>
    BY <2>1, <2>2 DEF LeftAlone, wifiVars
  <2> QED
    BY <2>1, <2>3 DEF Joining
<1>6. CASE Radio
  BY <1>0, <1>6, AtRest
<1>7. CASE UNCHANGED vars
  BY <1>1, <1>7 DEF vars, wifiVars
<1> QED
  BY <1>2, <1>3, <1>4, <1>5, <1>6, <1>7 DEF Next

\* An emitted event is one of the device it is emitted for.
LEMMA EmitDev ==
    ASSUME events \in Seq(WifiEvents), NEW d,
           \/ Emit(d, <<"disconnecting", "disconnected">>)
           \/ Emit(d, <<"connecting">>)
           \/ Emit(d, <<"connected">>)
           \/ Emit(d, <<"disconnected">>)
    PROVE  \A i \in 1 .. Len(events') :
              \/ \E j \in 1 .. Len(events) : events'[i] = events[j]
              \/ events'[i].dev = d
<1>1. ASSUME NEW ss \in Seq({"connecting", "connected", "disconnecting",
                             "disconnected"}), Emit(d, ss)
      PROVE  \A i \in 1 .. Len(events') :
                \/ \E j \in 1 .. Len(events) : events'[i] = events[j]
                \/ events'[i].dev = d
  <2> SUFFICES ASSUME NEW i \in 1 .. Len(events')
               PROVE  \/ \E j \in 1 .. Len(events) : events'[i] = events[j]
                      \/ events'[i].dev = d
    OBVIOUS
  <2>1. \/ \E j \in 1 .. Len(events) : events'[i] = events[j]
        \/ \E j \in 1 .. Len(ss) : events'[i] = [dev |-> d, state |-> ss[j]]
    BY <1>1, EmitAdds, ZenonT(60)
  <2>2. ASSUME NEW j \in 1 .. Len(ss),
               events'[i] = [dev |-> d, state |-> ss[j]]
        PROVE  events'[i].dev = d
    BY <2>2
  <2> QED
    BY <2>1, <2>2
<1>2. /\ <<"disconnecting", "disconnected">>
           \in Seq({"connecting", "connected", "disconnecting", "disconnected"})
      /\ <<"connecting">>
           \in Seq({"connecting", "connected", "disconnecting", "disconnected"})
      /\ <<"connected">>
           \in Seq({"connecting", "connected", "disconnecting", "disconnected"})
      /\ <<"disconnected">>
           \in Seq({"connecting", "connected", "disconnecting", "disconnected"})
  OBVIOUS
<1> QED
  BY <1>1, <1>2

\* Events, teardowns of a radio and joins of a network are of wifi devices.
LEMMA WirelessStep ==
    ASSUME TypeOK, IInv, Wireless, Discipline = "patient", [Next]_vars
    PROVE  Wireless'
<1>0. /\ events \in Seq(WifiEvents)
      /\ \A u \in Workers : u \in Thread /\ u # Iwd
      /\ AC \subseteq Workers
      /\ \A u \in Workers : pc[u] = "mech" => cur[u] \in Born
      /\ \A a \in AC : pc[a] = "connect" => a \in Born
  BY Holds, WorkersAre DEF TypeOK, HasCur, Teardown, TearingDown
<1>1. ASSUME NEW d, Kind[d] = "wifi",
             \/ Emit(d, <<"disconnecting", "disconnected">>)
             \/ Emit(d, <<"connecting">>)
             \/ Emit(d, <<"connected">>)
             \/ Emit(d, <<"disconnected">>)
      PROVE  \A i \in 1 .. Len(events') : Kind[events'[i].dev] = "wifi"
  <2>1. \A i \in 1 .. Len(events') :
           \/ \E j \in 1 .. Len(events) : events'[i] = events[j]
           \/ events'[i].dev = d
    BY <1>0, <1>1, EmitDev
  <2> QED
    BY <1>1, <2>1 DEF Wireless
<1>2. ASSUME NEW d, Kind[d] = "wifi", WifiDisconnect(d)
      PROVE  \A i \in 1 .. Len(events') : Kind[events'[i].dev] = "wifi"
  BY <1>1, <1>2 DEF WifiDisconnect, Wireless
<1>3. ASSUME NEW c \in Client, HandlerStep(c)
      PROVE  Wireless'
  <2>1. \A i \in 1 .. Len(events') : Kind[events'[i].dev] = "wifi"
    BY <1>1, <1>3, HandlerFrame DEF Wireless, DevOf
  <2>2. \A u \in Workers : pc'[u] = "mech" => Kind[acDev'[cur'[u]]] = "wifi"
    BY <1>0, <1>3, HandlerFrame DEF Wireless
  <2>3. /\ \A a \in AC : pc'[a] = "connect" => Kind[acDev'[a]] = "wifi"
        /\ req'[Iwd].op = "event" => Kind[req'[Iwd].dev] = "wifi"
    BY <1>0, <1>3, HandlerFrame DEF Wireless
  <2> QED
    BY <2>1, <2>2, <2>3 DEF Wireless
<1>4. ASSUME NEW a \in AC, RunActivation(a)
      PROVE  Wireless'
  <2>1. \A i \in 1 .. Len(events') : Kind[events'[i].dev] = "wifi"
    BY <1>0, <1>1, <1>4, RunFrame DEF Wireless, DevOf
  <2>2. \A u \in Workers : pc'[u] = "mech" => Kind[acDev'[cur'[u]]] = "wifi"
    BY <1>0, <1>4, RunFrame DEF Wireless, LeftAlone
  <2>3. /\ \A b \in AC : pc'[b] = "connect" => Kind[acDev'[b]] = "wifi"
        /\ req'[Iwd].op = "event" => Kind[req'[Iwd].dev] = "wifi"
    BY <1>0, <1>4, RunFrame, WorkersAre, SMTT(30) DEF Wireless, LeftAlone
  <2> QED
    BY <2>1, <2>2, <2>3 DEF Wireless
<1>5. CASE OnWifiEvent
  <2>1. /\ LeftAlone(Iwd) /\ \A b \in Born : acDev'[b] = acDev[b]
        /\ events' = events \/ (events # <<>> /\ events' = Tail(events))
        /\ req'[Iwd].op = "event" =>
              \/ req' = req
              \/ events # <<>> /\ req'[Iwd].dev = Head(events).dev
    BY <1>5, IwdFrame
  <2>2. \A i \in 1 .. Len(events') : Kind[events'[i].dev] = "wifi"
    <3>1. CASE events' = events
      BY <3>1 DEF Wireless
    <3>2. CASE events # <<>> /\ events' = Tail(events)
      <4>1. \A i \in 1 .. Len(events') :
               \E j \in 1 .. Len(events) : events'[i] = events[j]
        BY <1>0, <3>2, TailLeaves
      <4> QED
        BY <4>1 DEF Wireless
    <3> QED
      BY <2>1, <3>1, <3>2
  <2>3. req'[Iwd].op = "event" => Kind[req'[Iwd].dev] = "wifi"
    BY <1>0, <2>1, TailLeaves DEF Wireless
  <2>4. /\ \A u \in Workers : pc'[u] = "mech" => Kind[acDev'[cur'[u]]] = "wifi"
        /\ \A a \in AC : pc'[a] = "connect" => Kind[acDev'[a]] = "wifi"
    BY <1>0, <2>1 DEF Wireless, LeftAlone
  <2> QED
    BY <2>2, <2>3, <2>4 DEF Wireless
<1>6. ASSUME NEW c \in Client, NewRequest(c)
      PROVE  Wireless'
  <2>1. /\ c # Iwd /\ Iwd \in Thread
        /\ acDev' = acDev /\ cur' = cur /\ (LeftAlone(c) \/ UNCHANGED <<pc, locals>>)
        /\ \A u \in Thread : pc[u] \in Resting
        /\ pc' = pc \/ (pc'[c] = "todo" /\ UNCHANGED <<dev, wifiVars>>)
    BY <1>6, AtRest, WorkersAre DEF acVars
  <2>2. /\ \A u \in Thread : pc'[u] \in Resting \cup {"todo"}
        /\ req'[Iwd] = req[Iwd]
    BY <2>1 DEF LeftAlone, locals
  <2>3. \A i \in 1 .. Len(events') : Kind[events'[i].dev] = "wifi"
    <3>1. CASE \E d \in Dev : DeviceDisconnectRadio(c, d)
      BY <1>2, <3>1 DEF DeviceDisconnectRadio
    <3>2. CASE ~ \E d \in Dev : DeviceDisconnectRadio(c, d)
      <4>1. events' = events
        BY <1>6, <3>2 DEF NewRequest, ActivateConnection, AddConnection,
           AddAndActivateConnection, DeactivateConnection, DeviceDisconnect,
           Delete, Request, wifiVars
      <4> QED
        BY <4>1 DEF Wireless
    <3> QED
      BY <3>1, <3>2
  <2> QED
    BY <1>0, <2>2, <2>3 DEF Wireless, Resting
<1>7. CASE Radio
  <2>1. \A i \in 1 .. Len(events') : Kind[events'[i].dev] = "wifi"
    BY <1>1, <1>7 DEF Radio, RadioConnects, RadioDrops, RadioMoves
  <2> QED
    BY <1>7, <2>1, AtRest DEF Wireless, shared, acVars, locals
<1>8. CASE UNCHANGED vars
  BY <1>8 DEF vars, shared, acVars, locals, wifiVars, Wireless
<1> QED
  BY <1>3, <1>4, <1>5, <1>6, <1>7, <1>8 DEF Next

-----------------------------------------------------------------------------
\* A connection is shown as something else only once it is gone or dropped.
LEMMA ShownStep ==
    ASSUME TypeOK, IInv, Bindings, Shown, Discipline = "patient", [Next]_vars
    PROVE  Shown'
<1> USE DEF shared, acVars
<1>1. ASSUME activeConns' \subseteq activeConns, gone \subseteq gone',
             acState' = acState
      PROVE  Shown'
  BY <1>1 DEF Shown
<1>2. ASSUME NEW a \in AC, NEW s, SetAC(a, s), gone \subseteq gone',
             activeConns' \subseteq activeConns \cup {a},
             s \in {"activating", "activated"} \/ a \in gone
               \/ (a \notin activeConns /\ activeConns' = activeConns)
      PROVE  Shown'
  BY <1>2, Holds DEF Shown, SetAC
<1>3. ASSUME NEW t \in Workers, DeactivateStep(t)
      PROVE  Shown'
  <2>1. t \in Thread /\ (pc[t] \in Teardown => cur[t] \in gone)
          /\ gone \subseteq AC
    BY Holds, WorkersAre
  <2>2. CASE Cancel(t)
    BY <1>2, <2>1, <2>2 DEF Cancel, Teardown, TearingDown
  <2>3. CASE Deactivated(t)
    BY <1>2, <2>1, <2>3 DEF Deactivated, Teardown, TearingDown
  <2>4. CASE ~Cancel(t) /\ ~Deactivated(t)
    <3>1. \/ \E a \in AC : Mark(t, a)
          \/ DisconnectMech(t) \/ FlushAddrs(t) \/ RevertDNS(t) \/ Unbind(t)
          \/ UnexportIP4(t) \/ Drop(t) \/ Disconnected(t) \/ Proceed(t)
      BY <1>3, <2>4 DEF DeactivateStep
    <3>2. acState' = acState /\ gone \subseteq gone'
            /\ activeConns' \subseteq activeConns
      BY <3>1 DEF Mark, DisconnectMech, FlushAddrs, RevertDNS, Unbind,
         UnexportIP4, Drop, Unlist, Disconnected, Proceed
    <3> QED
      BY <1>1, <3>2
  <2> QED
    BY <2>2, <2>3, <2>4
<1>4. ASSUME NEW c \in Client, HandlerStep(c)
      PROVE  Shown'
  <2>1. CASE DeactivateStep(c)
    BY <1>3, <2>1, WorkersAre
  <2>2. CASE \E a \in AC : Create(c, a)
    BY <1>2, <2>2 DEF Create, NewAC
  <2>3. CASE RemoveProfile(c) \/ CreateExhausted(c) \/ ExportFails(c)
               \/ Bind(c) \/ Launch(c)
    BY <1>1, <2>3 DEF RemoveProfile, CreateExhausted, ExportFails, Unlist,
       Bind, Launch
  <2> QED
    BY <1>4, <2>1, <2>2, <2>3 DEF HandlerStep
<1>5. ASSUME NEW a \in AC, RunActivation(a)
      PROVE  Shown'
  <2>1. CASE DeactivateStep(a)
    BY <1>3, <2>1, WorkersAre
  <2>2. CASE Activated(a)
    BY <1>2, <2>2 DEF Activated
  <2>3. CASE ~DeactivateStep(a) /\ ~Activated(a)
    <3>1. acState' = acState /\ gone' = gone /\ activeConns' = activeConns
      BY <1>5, <2>3 DEF RunActivation, StartWifi, StartOther, Connect,
         ConfigureIPv4, ConfigureDHCP, LeaseFlush, LeaseAddr, LeaseDNS,
         LeaseIP4, CheckSuperseded, ActivationFailed, DevActivated, SetPrimary
    <3> QED
      BY <1>1, <3>1
  <2> QED
    BY <2>1, <2>2, <2>3
<1>6. CASE OnWifiEvent
  <2>1. CASE \E a \in AC : Adopt(a)
    BY <1>2, <2>1 DEF Adopt, NewAC
  <2>2. CASE DropState
    <3>1. cur[Iwd] \in AC \ activeConns
      BY <2>2, Holds DEF DropState, Bindings, Adopting, Dropping
    <3> QED
      BY <1>2, <2>2, <3>1 DEF DropState
  <2>3. CASE OnConnecting \/ OnConnected \/ OnDisconnecting \/ OnDisconnected
               \/ NoAdopt \/ ExportFails(Iwd) \/ Bind(Iwd) \/ AdoptPrimary
               \/ DropBind \/ DropDev
    <3>1. acState' = acState /\ gone' = gone
            /\ activeConns' \subseteq activeConns
      BY <2>3 DEF OnConnecting, OnConnected, OnDisconnecting, OnDisconnected,
         TakeEvent, NoAdopt, ExportFails, Unlist, Bind, AdoptPrimary, DropBind,
         DropDev
    <3> QED
      BY <1>1, <3>1
  <2> QED
    BY <1>6, <2>1, <2>2, <2>3 DEF OnWifiEvent
<1>7. ASSUME NEW c \in Client, NewRequest(c)
      PROVE  Shown'
  BY <1>1, <1>7, AtRest
<1>8. CASE Radio
  BY <1>1, <1>8, AtRest
<1>9. CASE UNCHANGED vars
  BY <1>1, <1>9 DEF vars
<1> QED
  BY <1>4, <1>5, <1>6, <1>7, <1>8, <1>9 DEF Next

-----------------------------------------------------------------------------
\* Only the device e is written to.
OnlyAt(e) == \A d \in Dev : d # e => dev'[d] = dev[d]

\* Setting one field of a device leaves the other devices and fields.
LEMMA OneDevice ==
    ASSUME dev \in [Dev -> Devices], NEW e, NEW x
    PROVE  /\ dev' = [dev EXCEPT ![e].state = x] =>
                OnlyAt(e) /\ (e \in Dev => dev'[e] = [dev[e] EXCEPT !.state = x])
           /\ dev' = [dev EXCEPT ![e].active = x] =>
                OnlyAt(e) /\ (e \in Dev => dev'[e] = [dev[e] EXCEPT !.active = x])
           /\ dev' = [dev EXCEPT ![e].ip4 = x] =>
                OnlyAt(e) /\ (e \in Dev => dev'[e] = [dev[e] EXCEPT !.ip4 = x])
           /\ dev' = [dev EXCEPT ![e].addr = x] =>
                OnlyAt(e) /\ (e \in Dev => dev'[e] = [dev[e] EXCEPT !.addr = x])
           /\ dev' = [dev EXCEPT ![e].dns = x] =>
                OnlyAt(e) /\ (e \in Dev => dev'[e] = [dev[e] EXCEPT !.dns = x])
           /\ dev' = [dev EXCEPT ![e].radio = x] =>
                OnlyAt(e) /\ (e \in Dev => dev'[e] = [dev[e] EXCEPT !.radio = x])
           /\ dev' = dev => OnlyAt(e)
  BY DEF OnlyAt

\* One goroutine is at work: it moves from one state to the next on one
\* device, or leaves that device steady.
LEMMA SteadyBy ==
    ASSUME TypeOK, IInv, Bindings, Steady, NEW t \in Workers,
           pc[t] \notin Resting, NEW e, OnlyAt(e),
           \A d \in Dev : MovingBy(t, d) => d = e,
           e \in Dev /\ Kind[e] # "wifi" =>
              SteadyAt(e)' \/ \E u \in Workers : MovingBy(u, e)'
    PROVE  Steady'
<1> SUFFICES ASSUME NEW d \in Dev, Kind[d] # "wifi", d # e
             PROVE  SteadyAt(d)'
  BY DEF Steady
<1>1. ASSUME NEW u \in Workers, MovingBy(u, d)
      PROVE  FALSE
  <2>1. u # t
    BY <1>1
  <2>2. pc[u] \in Resting /\ ~(u \in AC /\ Raising(u))
    BY <2>1, OneWorks
  <2> QED
    BY <1>1, <2>2 DEF MovingBy, Resting, Teardown, TearingDown
<1>2. SteadyAt(d)
  BY <1>1 DEF Steady
<1> QED
  BY <1>2 DEF SteadyAt, OnlyAt

\* Nothing wired is touched and who moves goes on moving.
LEMMA SteadyKeeps ==
    ASSUME Steady,
           \A d \in Dev : Kind[d] # "wifi" =>
              /\ dev'[d].state = dev[d].state /\ dev'[d].active = dev[d].active
              /\ \A t \in Workers : MovingBy(t, d) => MovingBy(t, d)'
    PROVE  Steady'
  BY DEF Steady, SteadyAt

LEMMA SteadyTeardown ==
    ASSUME TypeOK, IInv, Bindings, Steady, NEW t \in Workers, DeactivateStep(t)
    PROVE  Steady'
<1>0. /\ t \in Thread /\ dev \in [Dev -> Devices] /\ None \notin Dev
      /\ \A b \in Born : b \in AC /\ acDev[b] \in Dev
      /\ pc[t] \in Teardown => cur[t] \in Born
      /\ todo[t] \subseteq Born /\ todo[t] \cap gone = {}
      /\ t \in AC => todo[t] \subseteq {t}
  BY Holds, WorkersAre, ThreadsDistinct DEF Bindings, Spare, HasCur
<1>1. ASSUME pc[t] \in Teardown, NEW p \in Teardown, Goto(t, p), cur' = cur,
             acDev' = acDev, OnlyAt(DevOf(t))
      PROVE  Steady'
  <2>1. PICK e \in Dev : e = acDev[cur[t]]
    BY <1>0, <1>1
  <2>2. MovingBy(t, e)' /\ OnlyAt(e)
    BY <1>0, <1>1, <2>1, Holds DEF MovingBy, DevOf, Goto
  <2>3. \A d \in Dev : MovingBy(t, d) => d = e
    BY <1>1, <2>1 DEF MovingBy, Raising, Teardown, TearingDown, BringUp,
       Settle
  <2>4. pc[t] \notin Resting
    BY <1>1 DEF Teardown, TearingDown, Resting
  <2> QED
    BY <2>2, <2>3, <2>4, SteadyBy
<1>2. ASSUME pc[t] = "todo", todo[t] = {}, dev' = dev
      PROVE  Steady'
  <2>1. \A d \in Dev : ~MovingBy(t, d)
    BY <1>2 DEF MovingBy, Raising, Teardown, TearingDown, BringUp, Settle
  <2>2. OnlyAt(None) /\ pc[t] \notin Resting
    BY <1>2 DEF OnlyAt, Resting
  <2> QED
    BY <1>0, <2>1, <2>2, SteadyBy
<1>3. ASSUME NEW a \in AC, Mark(t, a)
      PROVE  Steady'
  <2>1. /\ a \in todo[t] /\ a \notin gone /\ pc[t] = "todo"
        /\ pc'[t] = "cancel" /\ cur'[t] = a /\ acDev' = acDev /\ dev' = dev
    BY <1>0, <1>3, Holds DEF Mark, Goto
  <2>2. PICK e \in Dev : e = acDev[a]
    BY <1>0, <2>1
  <2>3. MovingBy(t, e)' /\ OnlyAt(e) /\ pc[t] \notin Resting
    BY <2>1, <2>2 DEF MovingBy, OnlyAt, Resting, Teardown, TearingDown
  <2>4. \A d \in Dev : MovingBy(t, d) => d = e
    BY <1>0, <2>1, <2>2 DEF MovingBy, Teardown, TearingDown
  <2> QED
    BY <2>3, <2>4, SteadyBy
<1> USE DEF shared, acVars, locals, Teardown, TearingDown
<1>4. CASE Cancel(t)
  <2>1. OnlyAt(DevOf(t))
    BY <1>0, <1>4, OneDevice DEF Cancel, SetDev
  <2> QED
    BY <1>1, <1>4, <2>1 DEF Cancel
<1>5. CASE DisconnectMech(t)
  <2>1. OnlyAt(DevOf(t))
    BY <1>0, <1>5, OneDevice DEF DisconnectMech, WifiDisconnect
  <2> QED
    BY <1>1, <1>5, <2>1 DEF DisconnectMech
<1>6. CASE FlushAddrs(t)
  <2>1. OnlyAt(DevOf(t))
    BY <1>0, <1>6, OneDevice DEF FlushAddrs
  <2> QED
    BY <1>1, <1>6, <2>1 DEF FlushAddrs
<1>7. CASE RevertDNS(t)
  <2>1. OnlyAt(DevOf(t))
    BY <1>0, <1>7, OneDevice DEF RevertDNS
  <2> QED
    BY <1>1, <1>7, <2>1 DEF RevertDNS
<1>8. CASE Unbind(t)
  <2>1. OnlyAt(DevOf(t))
    BY <1>0, <1>8, OneDevice DEF Unbind, SetActive
  <2> QED
    BY <1>1, <1>8, <2>1 DEF Unbind
<1>9. CASE UnexportIP4(t)
  <2>1. OnlyAt(DevOf(t))
    BY <1>0, <1>9, OneDevice DEF UnexportIP4
  <2> QED
    BY <1>1, <1>9, <2>1 DEF UnexportIP4
<1>10. CASE Drop(t)
  <2>1. OnlyAt(DevOf(t))
    BY <1>0, <1>10, OneDevice DEF Drop
  <2> QED
    BY <1>1, <1>10, <2>1 DEF Drop
<1>11. CASE Deactivated(t)
  <2>1. OnlyAt(DevOf(t))
    BY <1>0, <1>11, OneDevice DEF Deactivated
  <2> QED
    BY <1>1, <1>11, <2>1 DEF Deactivated
<1>12. CASE Disconnected(t)
  <2>1. PICK e \in Dev : e = acDev[cur[t]]
    BY <1>0, <1>12 DEF Disconnected
  <2>2. /\ pc[t] = "settle" /\ OnlyAt(e)
        /\ dev'[e] = [dev[e] EXCEPT !.state = "disconnected"]
    BY <1>0, <1>12, <2>1, OneDevice DEF Disconnected, SetDev, DevOf
  <2>3. Kind[e] # "wifi" => dev[e].active = None
    BY <2>1, <2>2 DEF Bindings, Tearing, Unbound, ActiveOf
  <2>4. Kind[e] # "wifi" => SteadyAt(e)'
    BY <1>0, <2>2, <2>3 DEF SteadyAt, Devices
  <2>5. /\ \A d \in Dev : MovingBy(t, d) => d = e
        /\ pc[t] \notin Resting
    BY <2>1, <2>2 DEF MovingBy, Raising, BringUp, Settle, Resting
  <2> QED
    BY <2>2, <2>4, <2>5, SteadyBy
<1>13. CASE Proceed(t)
  BY <1>2, <1>13 DEF Proceed
<1> QED
  BY <1>3, <1>4, <1>5, <1>6, <1>7, <1>8, <1>9, <1>10, <1>11, <1>12, <1>13
     DEF DeactivateStep

LEMMA SteadyHandler ==
    ASSUME TypeOK, IInv, Bindings, Steady, NEW c \in Client, HandlerStep(c)
    PROVE  Steady'
<1>0. /\ c \in Thread /\ c \in Workers /\ c \notin AC
      /\ dev \in [Dev -> Devices] /\ None \notin Dev
      /\ \A b \in Born : b \in AC /\ acDev[b] \in Dev
      /\ pc[c] \in {"bind", "launch"} => cur[c] \in Born
  BY Holds, WorkersAre, ThreadsDistinct DEF HasCur
<1>1. ASSUME pc[c] \in {"remove", "create", "bind"}, dev' = dev
      PROVE  Steady'
  <2>1. /\ \A d \in Dev : ~MovingBy(c, d)
        /\ OnlyAt(None) /\ pc[c] \notin Resting
    BY <1>0, <1>1 DEF MovingBy, OnlyAt, Resting, Teardown, TearingDown
  <2> QED
    BY <1>0, <2>1, SteadyBy
<1>2. CASE DeactivateStep(c)
  BY <1>0, <1>2, SteadyTeardown
<1>3. CASE RemoveProfile(c) \/ CreateExhausted(c)
  BY <1>1, <1>3 DEF RemoveProfile, CreateExhausted, shared
<1>4. CASE ExportFails(c)
  BY <1>1, <1>4, Holds DEF ExportFails, Teardown, TearingDown
<1>5. CASE \E a \in AC : Create(c, a)
  BY <1>1, <1>5 DEF Create, NewAC
<1>6. CASE Bind(c)
  <2>1. pc[c] = "bind"
    BY <1>6, Holds DEF Bind, Teardown, TearingDown
  <2>2. PICK e \in Dev : e = acDev[cur[c]]
    BY <1>0, <2>1
  <2>3. OnlyAt(e)
    BY <1>0, <1>6, <2>2, OneDevice DEF Bind, SetActive, DevOf
  <2>4. /\ pc'[c] = "launch" /\ cur' = cur /\ acDev' = acDev
    BY <1>0, <1>6, <2>1, Holds DEF Bind, Goto, shared, acVars, locals
  <2>5. /\ MovingBy(c, e)' /\ pc[c] \notin Resting
        /\ \A d \in Dev : ~MovingBy(c, d)
    BY <1>0, <2>1, <2>2, <2>4 DEF MovingBy, Resting, Teardown, TearingDown
  <2> QED
    BY <1>0, <2>3, <2>5, SteadyBy
<1>7. CASE Launch(c)
  <2>1. pc[c] = "launch" /\ cur[c] \in Born
    BY <1>0, <1>7 DEF Launch
  <2>2. PICK b \in AC : b = cur[c] /\ b \in Born
    BY <1>0, <2>1
  <2>3. PICK e \in Dev : e = acDev[b]
    BY <1>0, <2>2
  <2>4. OnlyAt(e) /\ pc'[b] = "start" /\ acDev' = acDev
    BY <1>0, <1>7, <2>2, <2>3, Holds, OneDevice, WorkersAre
       DEF Launch, SetDev, DevOf, shared, acVars
  <2>5. /\ b \in Workers /\ MovingBy(b, e)'
    BY <2>3, <2>4, WorkersAre DEF MovingBy, Raising, BringUp
  <2>6. /\ pc[c] \notin Resting
        /\ \A d \in Dev : MovingBy(c, d) => d = e
    BY <1>0, <2>1, <2>2, <2>3 DEF MovingBy, Resting
  <2> QED
    BY <1>0, <2>4, <2>5, <2>6, SteadyBy
<1> QED
  BY <1>2, <1>3, <1>4, <1>5, <1>6, <1>7 DEF HandlerStep

LEMMA SteadyRun ==
    ASSUME TypeOK, IInv, Bindings, Steady, NEW a \in AC, RunActivation(a)
    PROVE  Steady'
<1>0. /\ a \in Thread /\ a \in Workers /\ dev \in [Dev -> Devices]
      /\ None \notin Dev /\ None \notin AC
      /\ pc[a] \in BringUp \cup Settle =>
            a \in Born /\ acDev[a] \in Dev /\ ~Superseded(a)
              /\ dev[acDev[a]].active = a
  BY Holds, WorkersAre, ThreadsDistinct
     DEF Bindings, Raised, Raising, Superseded, IInv, Flags, ActiveOf
<1>1. pc[a] \in BringUp \cup Settle =>
         \A d \in Dev : MovingBy(a, d) => d = acDev[a]
  BY DEF MovingBy, BringUp, Settle, Teardown, TearingDown
<1>2. pc[a] \in BringUp \cup Settle => pc[a] \notin Resting
  BY DEF BringUp, Settle, Resting
<1>3. ASSUME pc[a] \in BringUp \cup Settle,
             NEW p \in (BringUp \cup Settle) \ {"setPrimary"}, Goto(a, p),
             acDev' = acDev, OnlyAt(acDev[a])
      PROVE  Steady'
  <2>1. PICK e \in Dev : e = acDev[a]
    BY <1>0, <1>3
  <2>2. MovingBy(a, e)' /\ OnlyAt(e)
    BY <1>0, <1>3, <2>1, Holds DEF MovingBy, Raising, Goto
  <2> QED
    BY <1>0, <1>1, <1>2, <1>3, <2>1, <2>2, SteadyBy
<1> USE DEF shared, acVars, BringUp, Settle
<1>4. CASE DeactivateStep(a)
  BY <1>0, <1>4, SteadyTeardown
<1>5. CASE StartWifi(a)
  <2>1. OnlyAt(acDev[a])
    BY <1>0, <1>5, OneDevice DEF StartWifi, SetDev
  <2> QED
    BY <1>3, <1>5, <2>1 DEF StartWifi
<1>6. CASE StartOther(a)
  BY <1>3, <1>6 DEF StartOther, OnlyAt
<1>7. CASE Connect(a)
  <2>1. OnlyAt(acDev[a])
    BY <1>0, <1>7, OneDevice DEF Connect
  <2> QED
    BY <1>3, <1>7, <2>1 DEF Connect
<1>8. CASE ConfigureIPv4(a)
  <2>1. OnlyAt(acDev[a])
    BY <1>0, <1>8, OneDevice DEF ConfigureIPv4, SetDev
  <2> QED
    BY <1>3, <1>8, <2>1 DEF ConfigureIPv4
<1>9. CASE ConfigureDHCP(a)
  BY <1>3, <1>9 DEF ConfigureDHCP, OnlyAt
<1>10. CASE LeaseFlush(a)
  <2>1. OnlyAt(acDev[a])
    BY <1>0, <1>10, OneDevice DEF LeaseFlush
  <2> QED
    BY <1>3, <1>10, <2>1 DEF LeaseFlush
<1>11. CASE LeaseAddr(a)
  <2>1. OnlyAt(acDev[a])
    BY <1>0, <1>11, OneDevice DEF LeaseAddr
  <2> QED
    BY <1>3, <1>11, <2>1 DEF LeaseAddr
<1>12. CASE LeaseDNS(a)
  <2>1. OnlyAt(acDev[a])
    BY <1>0, <1>12, OneDevice DEF LeaseDNS
  <2> QED
    BY <1>3, <1>12, <2>1 DEF LeaseDNS
<1>13. CASE LeaseIP4(a)
  <2>1. OnlyAt(acDev[a])
    BY <1>0, <1>13, OneDevice DEF LeaseIP4
  <2> QED
    BY <1>3, <1>13, <2>1 DEF LeaseIP4
<1>14. CASE CheckSuperseded(a)
  <2>1. OnlyAt(acDev[a]) /\ pc[a] \in BringUp
    BY <1>14 DEF CheckSuperseded, OnlyAt
  <2> QED
    BY <1>0, <1>3, <1>14, <2>1 DEF CheckSuperseded
<1>15. CASE ActivationFailed(a)
  <2>1. PICK e \in Dev : e = acDev[a] /\ pc[a] = "failed"
    BY <1>0, <1>15 DEF ActivationFailed
  <2>2. OnlyAt(e) /\ pc'[a] = "todo" /\ a \in todo'[a] /\ acDev' = acDev
    <3>1. OnlyAt(e)
      BY <1>0, <1>15, <2>1, OneDevice DEF ActivationFailed, SetDev
    <3>2. pc'[a] = "todo" /\ a \in todo'[a] /\ acDev' = acDev
      BY <1>0, <1>15, Holds DEF ActivationFailed, Goto
    <3> QED
      BY <3>1, <3>2
  <2>3. MovingBy(a, e)'
    BY <2>1, <2>2 DEF MovingBy, Raising
  <2> QED
    BY <1>0, <1>1, <1>2, <2>1, <2>2, <2>3, SteadyBy
<1>16. CASE Activated(a)
  BY <1>3, <1>16 DEF Activated, OnlyAt
<1>17. CASE DevActivated(a)
  <2>1. PICK e \in Dev : e = acDev[a] /\ pc[a] = "devActivated"
    BY <1>0, <1>17 DEF DevActivated
  <2>2. OnlyAt(e) /\ dev'[e] = [dev[e] EXCEPT !.state = "activated"]
    BY <1>0, <1>17, <2>1, OneDevice DEF DevActivated, SetDev
  <2>3. SteadyAt(e)'
    BY <1>0, <2>1, <2>2 DEF SteadyAt, Devices
  <2> QED
    BY <1>0, <1>1, <1>2, <2>1, <2>2, <2>3, SteadyBy
<1>18. CASE SetPrimary(a)
  <2>1. /\ \A d \in Dev : ~MovingBy(a, d)
        /\ OnlyAt(None) /\ pc[a] \notin Resting
    BY <1>18 DEF SetPrimary, MovingBy, OnlyAt, Resting, Teardown, TearingDown
  <2> QED
    BY <1>0, <2>1, SteadyBy
<1> QED
  BY <1>4, <1>5, <1>6, <1>7, <1>8, <1>9, <1>10, <1>11, <1>12, <1>13, <1>14,
     <1>15, <1>16, <1>17, <1>18 DEF RunActivation

\* The event goroutine writes to wifi devices only.
LEMMA SteadyIwd ==
    ASSUME TypeOK, IInv, Bindings, Wireless, Steady, OnWifiEvent
    PROVE  Steady'
<1>0. /\ dev \in [Dev -> Devices] /\ events \in Seq(WifiEvents)
      /\ \A u \in Workers : u \in Thread /\ u # Iwd
      /\ AC \subseteq Workers
      /\ \A u \in Workers : pc[u] \in HasCur => cur[u] \in Born
      /\ \A a \in AC : pc[a] # "none" => a \in Born
  BY Holds, WorkersAre DEF TypeOK
<1>1. LeftAlone(Iwd) /\ \A b \in Born : acDev'[b] = acDev[b]
  BY <1>0, IwdFrame
<1>2. ASSUME NEW d \in Dev, NEW t \in Workers, MovingBy(t, d)
      PROVE  MovingBy(t, d)'
  <2>1. /\ pc'[t] = pc[t] /\ cur'[t] = cur[t] /\ todo'[t] = todo[t]
    BY <1>0, <1>1 DEF LeftAlone
  <2>2. /\ pc[t] \in Teardown \cup {"launch"} => acDev'[cur[t]] = acDev[cur[t]]
        /\ t \in AC /\ Raising(t) => acDev'[t] = acDev[t]
    BY <1>0, <1>1 DEF HasCur, Raising, BringUp, Settle
  <2> QED
    BY <1>2, <2>1, <2>2 DEF MovingBy, Raising
<1>3. ASSUME NEW e, OnlyAt(e), e \in Dev => Kind[e] = "wifi"
      PROVE  Steady'
  <2>1. \A d \in Dev : Kind[d] # "wifi" =>
           dev'[d].state = dev[d].state /\ dev'[d].active = dev[d].active
    BY <1>3 DEF OnlyAt
  <2> QED
    BY <1>2, <2>1, SteadyKeeps
<1>4. ASSUME dev' = dev
      PROVE  Steady'
  BY <1>2, <1>4, SteadyKeeps
<1>5. events # <<>> => Kind[Head(events).dev] = "wifi"
  BY <1>0, TailLeaves DEF Wireless
<1>6. CASE OnConnecting \/ OnConnected \/ OnDisconnecting
  <2>1. /\ events # <<>>
        /\ \E s : SetDev(Head(events).dev, s)
    BY <1>6 DEF OnConnecting, OnConnected, OnDisconnecting, TakeEvent
  <2>2. OnlyAt(Head(events).dev)
    BY <1>0, <2>1, OneDevice DEF SetDev
  <2> QED
    BY <1>3, <1>5, <2>1, <2>2
<1>7. CASE OnDisconnected \/ NoAdopt \/ ExportFails(Iwd) \/ AdoptPrimary
             \/ DropState \/ \E a \in AC : Adopt(a)
  BY <1>4, <1>7 DEF OnDisconnected, NoAdopt, ExportFails, AdoptPrimary,
     DropState, Adopt, NewAC
<1>8. pc[Iwd] \in {"adoptBind", "dropBind", "dropDev"} =>
         /\ Kind[req[Iwd].dev] = "wifi"
         /\ pc[Iwd] = "adoptBind" => acDev[cur[Iwd]] = req[Iwd].dev
  BY WorkersAre DEF IInv, Working, Wireless, Bindings, Adopting
<1>9. CASE Bind(Iwd)
  <2>1. pc[Iwd] = "adoptBind"
    BY <1>9, Holds DEF Bind, IwdPlaces
  <2>2. OnlyAt(acDev[cur[Iwd]])
    BY <1>0, <1>9, OneDevice DEF Bind, SetActive, DevOf
  <2> QED
    BY <1>3, <1>8, <2>1, <2>2
<1>10. CASE DropBind
  <2>1. OnlyAt(req[Iwd].dev) /\ pc[Iwd] = "dropBind"
    BY <1>0, <1>10, OneDevice DEF DropBind, SetActive
  <2> QED
    BY <1>3, <1>8, <2>1
<1>11. CASE DropDev
  <2>1. OnlyAt(req[Iwd].dev) /\ pc[Iwd] = "dropDev"
    BY <1>0, <1>11, OneDevice DEF DropDev, SetDev
  <2> QED
    BY <1>3, <1>8, <2>1
<1> QED
  BY <1>6, <1>7, <1>9, <1>10, <1>11 DEF OnWifiEvent

\* A wired device is left steady by every step.
LEMMA SteadyStep ==
    ASSUME TypeOK, IInv, Bindings, Wireless, Steady, Discipline = "patient",
           [Next]_vars
    PROVE  Steady'
<1>0. dev \in [Dev -> Devices]
  BY Holds
<1>1. ASSUME Quiet, \A d \in Dev : /\ dev'[d].state = dev[d].state
                                   /\ dev'[d].active = dev[d].active
      PROVE  Steady'
  <2>1. \A t \in Workers, d \in Dev : ~MovingBy(t, d)
    BY <1>1, AtRest, WorkersAre DEF MovingBy, Raising, Resting, Teardown,
       TearingDown, BringUp, Settle
  <2> QED
    BY <1>1, <2>1, SteadyKeeps
<1>2. ASSUME NEW c \in Client, NewRequest(c)
      PROVE  Steady'
  <2>1. CASE \E d \in Dev : DeviceDisconnectRadio(c, d)
    <3>1. \A d \in Dev : /\ dev'[d].state = dev[d].state
                         /\ dev'[d].active = dev[d].active
      BY <1>0, <2>1 DEF DeviceDisconnectRadio, WifiDisconnect, Devices
    <3> QED
      BY <1>1, <1>2, <3>1, AtRest
  <2>2. CASE ~ \E d \in Dev : DeviceDisconnectRadio(c, d)
    <3>1. dev' = dev
      BY <1>2, <2>2 DEF NewRequest, ActivateConnection, AddConnection,
         AddAndActivateConnection, DeactivateConnection, DeviceDisconnect,
         Delete, Request
    <3> QED
      BY <1>1, <1>2, <3>1, AtRest
  <2> QED
    BY <2>1, <2>2
<1>3. CASE Radio
  <2>1. \A d \in Dev : /\ dev'[d].state = dev[d].state
                       /\ dev'[d].active = dev[d].active
    BY <1>0, <1>3 DEF Radio, RadioConnects, RadioDrops, RadioMoves, Devices
  <2> QED
    BY <1>1, <1>3, <2>1, AtRest
<1>4. CASE UNCHANGED vars
  BY <1>4, SteadyKeeps DEF vars, shared, acVars, locals, MovingBy, Raising
<1> QED
  BY <1>2, <1>3, <1>4, SteadyHandler, SteadyRun, SteadyIwd DEF Next

-----------------------------------------------------------------------------
\* Places at which a teardown has taken some of a device's addresses
Clearing == {"revert", "unbind", "unip4"}

\* One goroutine is at work, on one device.
LEMMA AddressesBy ==
    ASSUME TypeOK, IInv, Bindings, Addresses, NEW t \in Workers,
           pc[t] \notin Resting, adopted' = adopted, NEW e, OnlyAt(e),
           pc[t] \in Clearing => acDev[cur[t]] = e,
           pc'[t] \in Clearing => acDev'[cur'[t]] = e,
           \A u \in Workers : u # t => pc'[u] \notin Clearing,
           e \in Dev => AddressesAt(e)'
    PROVE  Addresses'
<1> SUFFICES ASSUME NEW d \in Dev, d # e
             PROVE  AddressesAt(d)'
  BY DEF Addresses
<1>1. dev'[d] = dev[d] /\ AddressesAt(d)
  BY DEF OnlyAt, Addresses
<1>2. \A u \in Workers : pc[u] = "unip4" => acDev[cur[u]] # d
  BY OneWorks DEF Clearing, Resting
<1>3. \A u \in Workers : pc'[u] \in Clearing => acDev'[cur'[u]] # d
  OBVIOUS
<1> QED
  BY <1>1, <1>2, <1>3 DEF AddressesAt, Clearing

\* Nothing is written but states and radios, and no teardown moves between
\* the places that count.
LEMMA AddressesStay ==
    ASSUME Addresses, Exports, adopted' = adopted, exported' = exported,
           \A d \in Dev : /\ dev'[d].addr = dev[d].addr
                          /\ dev'[d].dns = dev[d].dns
                          /\ dev'[d].ip4 = dev[d].ip4
                          /\ dev'[d].active = dev[d].active,
           \A u \in Workers : pc[u] \in Clearing \/ pc'[u] \in Clearing =>
                 /\ pc'[u] = pc[u] /\ cur'[u] = cur[u]
                 /\ acDev'[cur[u]] = acDev[cur[u]]
    PROVE  Addresses' /\ Exports'
<1>1. ASSUME NEW d \in Dev
      PROVE  AddressesAt(d)'
  <2>1. AddressesAt(d)
    BY DEF Addresses
  <2> QED
    BY <2>1 DEF AddressesAt, Clearing
<1>2. {dev'[d].ip4 : d \in Dev} = {dev[d].ip4 : d \in Dev}
  OBVIOUS
<1> QED
  BY <1>1, <1>2 DEF Addresses, Exports

\* Who works alone finds the object of a device that is not being let go.
LEMMA OwnObject ==
    ASSUME TypeOK, IInv, Bindings, Addresses, NEW t \in Workers,
           pc[t] \notin Resting, pc[t] # "unip4", NEW d \in Dev
    PROVE  dev[d].ip4 \in {None, dev[d].active}
<1>1. \A u \in Workers : pc[u] # "unip4"
  BY OneWorks DEF Resting
<1> QED
  BY <1>1 DEF Addresses, AddressesAt

LEMMA AddressesTeardown ==
    ASSUME TypeOK, IInv, Bindings, Addresses, Exports, ~TeardownFails,
           NEW t \in Workers, DeactivateStep(t)
    PROVE  Addresses' /\ Exports'
<1>0. /\ t \in Thread /\ dev \in [Dev -> Devices] /\ None \notin AC
      /\ \A b \in Born : b \in AC /\ acDev[b] \in Dev
      /\ pc[t] \in Teardown => cur[t] \in Born
      /\ exported \subseteq AC
      /\ \A d \in Dev : dev[d].ip4 \in AC \cup {None}
  BY Holds, WorkersAre DEF HasCur, TypeOK, Devices
<1>1. /\ LeftAlone(t) /\ acDev' = acDev /\ adopted' = adopted
      /\ pc[t] \notin Resting
      /\ \A u \in Workers : u # t => pc[u] \notin Clearing /\ pc'[u] = pc[u]
  <2>1. LeftAlone(t) /\ acDev' = acDev /\ adopted' = adopted
          /\ pc[t] \in Teardown \cup {"todo"}
    BY TeardownFrame
  <2>2. pc[t] \notin Resting
    BY <2>1 DEF Resting, Teardown, TearingDown
  <2> QED
    BY <2>1, <2>2, OneWorks, WorkersAre DEF LeftAlone, Resting, Clearing
<1>1a. ASSUME NEW e,
              dev'[e].addr \subseteq {dev'[e].active} \ adopted,
              dev'[e].dns \in {None, dev'[e].active} \ adopted,
              dev'[e].ip4 \notin adopted,
              \/ dev'[e].ip4 \in {None, dev'[e].active}
              \/ pc'[t] = "unip4" /\ cur'[t] = dev'[e].ip4
                   /\ acDev'[cur'[t]] = e,
              pc'[t] \in {"revert", "unbind"} => dev'[e].addr = {},
              pc'[t] = "unbind" => dev'[e].dns = None
       PROVE  AddressesAt(e)'
  <2>1. \A u \in Workers : pc'[u] \in {"revert", "unbind"} => u = t
    BY <1>1 DEF Clearing
  <2>2. adopted' = adopted
    BY <1>1
  <2> QED
    BY <1>1a, <2>1, <2>2 DEF AddressesAt
<1>2. ASSUME pc[t] \notin Clearing, pc'[t] \notin Clearing,
             exported' = exported,
             \A d \in Dev : /\ dev'[d].addr = dev[d].addr
                            /\ dev'[d].dns = dev[d].dns
                            /\ dev'[d].ip4 = dev[d].ip4
                            /\ dev'[d].active = dev[d].active
      PROVE  Addresses' /\ Exports'
  BY <1>1, <1>2, AddressesStay
<1>3. ASSUME exported' = exported, OnlyAt(DevOf(t)), DevOf(t) \in Dev,
             dev'[DevOf(t)].ip4 = dev[DevOf(t)].ip4
      PROVE  Exports'
  <2>1. \A d \in Dev : dev'[d].ip4 = dev[d].ip4
    BY <1>3 DEF OnlyAt
  <2>2. {dev'[d].ip4 : d \in Dev} = {dev[d].ip4 : d \in Dev}
    BY <2>1
  <2> QED
    BY <1>3, <2>2 DEF Exports
<1>4. ASSUME pc[t] \in Teardown
      PROVE  \E e \in Dev : e = acDev[cur[t]] /\ AddressesAt(e)
  BY <1>0, <1>4 DEF Addresses
<1> USE DEF shared, acVars, locals, Goto
<1>5. ASSUME NEW a \in AC, Mark(t, a)
      PROVE  Addresses' /\ Exports'
  BY <1>0, <1>2, <1>5, Holds DEF Mark, Clearing
<1>6. CASE Cancel(t)
  BY <1>0, <1>2, <1>6, Holds DEF Cancel, SetDev, Clearing, Devices
<1>7. CASE DisconnectMech(t)
  BY <1>0, <1>2, <1>7, Holds DEF DisconnectMech, WifiDisconnect, Clearing,
     Devices
<1>8. CASE Drop(t) \/ Deactivated(t) \/ Proceed(t)
  BY <1>0, <1>2, <1>8, Holds DEF Drop, Deactivated, Proceed, Clearing, Return
<1>9. CASE Disconnected(t)
  BY <1>0, <1>2, <1>9, Holds DEF Disconnected, SetDev, Clearing, Devices
<1>10. CASE FlushAddrs(t)
  <2>1. pc[t] = "flush" /\ pc'[t] = "revert" /\ cur' = cur
          /\ dev' = [dev EXCEPT ![DevOf(t)].addr = {}] /\ exported' = exported
    BY <1>0, <1>10, Holds DEF FlushAddrs
  <2>2. PICK e \in Dev : e = acDev[cur[t]] /\ AddressesAt(e)
    BY <1>4, <2>1 DEF Teardown, TearingDown
  <2>3. OnlyAt(e) /\ dev'[e] = [dev[e] EXCEPT !.addr = {}] /\ e = DevOf(t)
    BY <1>0, <2>1, <2>2, OneDevice DEF DevOf
  <2>4. dev[e].ip4 \in {None, dev[e].active}
    BY <1>1, <2>1, OwnObject
  <2>5. /\ dev'[e].addr = {} /\ dev'[e].dns = dev[e].dns
        /\ dev'[e].ip4 = dev[e].ip4 /\ dev'[e].active = dev[e].active
    BY <1>0, <2>3 DEF Devices
  <2>6. AddressesAt(e)'
    <3>1. /\ dev[e].addr \subseteq {dev[e].active} \ adopted
          /\ dev[e].dns \in {None, dev[e].active} \ adopted
          /\ dev[e].ip4 \notin adopted
      BY <2>2 DEF AddressesAt
    <3> QED
      BY <1>1a, <2>1, <2>4, <2>5, <3>1
  <2> QED
    BY <1>1, <1>3, <2>1, <2>2, <2>3, <2>5, <2>6, AddressesBy
<1>11. CASE RevertDNS(t)
  <2>1. pc[t] = "revert" /\ pc'[t] = "unbind" /\ cur' = cur
          /\ dev' = [dev EXCEPT ![DevOf(t)].dns = None] /\ exported' = exported
    BY <1>0, <1>11, Holds DEF RevertDNS
  <2>2. PICK e \in Dev : e = acDev[cur[t]] /\ AddressesAt(e)
    BY <1>4, <2>1 DEF Teardown, TearingDown
  <2>3. OnlyAt(e) /\ dev'[e] = [dev[e] EXCEPT !.dns = None] /\ e = DevOf(t)
    BY <1>0, <2>1, <2>2, OneDevice DEF DevOf
  <2>4. dev[e].ip4 \in {None, dev[e].active}
    BY <1>1, <2>1, OwnObject
  <2>5. /\ dev'[e].addr = dev[e].addr /\ dev'[e].dns = None
        /\ dev'[e].ip4 = dev[e].ip4 /\ dev'[e].active = dev[e].active
    BY <1>0, <2>3 DEF Devices
  <2>6. dev[e].addr = {} /\ None \notin adopted
    BY <1>0, <2>1, <2>2, Holds DEF AddressesAt
  <2>7. AddressesAt(e)'
    <3>1. dev[e].ip4 \notin adopted
      BY <2>2 DEF AddressesAt
    <3> QED
      BY <1>1a, <2>1, <2>2, <2>4, <2>5, <2>6, <3>1
  <2> QED
    BY <1>1, <1>3, <2>1, <2>2, <2>3, <2>5, <2>7, AddressesBy
<1>12. CASE Unbind(t)
  <2>1. pc[t] = "unbind" /\ pc'[t] = "unip4" /\ cur' = cur
          /\ dev' = [dev EXCEPT ![DevOf(t)].active = None]
          /\ exported' = exported
    BY <1>0, <1>12, Holds DEF Unbind, SetActive
  <2>2. PICK e \in Dev : e = acDev[cur[t]] /\ AddressesAt(e)
    BY <1>4, <2>1 DEF Teardown, TearingDown
  <2>3. OnlyAt(e) /\ dev'[e] = [dev[e] EXCEPT !.active = None] /\ e = DevOf(t)
    BY <1>0, <2>1, <2>2, OneDevice DEF DevOf
  <2>4. dev[e].ip4 \in {None, cur[t]}
    <3>1. dev[e].ip4 \in {None, dev[e].active}
      BY <1>1, <2>1, OwnObject
    <3>2. dev[e].active \in {cur[t], None}
      BY <2>1, <2>2 DEF Bindings, Tearing, Bound, ActiveOf
    <3> QED
      BY <3>1, <3>2
  <2>5. /\ dev'[e].addr = dev[e].addr /\ dev'[e].dns = dev[e].dns
        /\ dev'[e].ip4 = dev[e].ip4 /\ dev'[e].active = None
    BY <1>0, <2>3 DEF Devices
  <2>6. dev[e].addr = {} /\ dev[e].dns = None /\ None \notin adopted
    BY <1>0, <2>1, <2>2, Holds DEF AddressesAt
  <2>7. AddressesAt(e)'
    <3>1. dev[e].ip4 \notin adopted
      BY <2>2 DEF AddressesAt
    <3>2. cur'[t] = cur[t] /\ acDev'[cur'[t]] = e
      BY <1>1, <2>1, <2>2
    <3> QED
      BY <1>1a, <2>1, <2>4, <2>5, <2>6, <3>1, <3>2
  <2> QED
    BY <1>1, <1>3, <2>1, <2>2, <2>3, <2>5, <2>7, AddressesBy
<1>13. CASE UnexportIP4(t)
  <2>1. pc[t] = "unip4" /\ pc'[t] = "drop" /\ cur' = cur
          /\ dev' = [dev EXCEPT ![DevOf(t)].ip4 = None]
          /\ exported' = exported \ {dev[DevOf(t)].ip4}
    BY <1>0, <1>13, Holds DEF UnexportIP4
  <2>2. PICK e \in Dev : e = acDev[cur[t]] /\ AddressesAt(e)
    BY <1>4, <2>1 DEF Teardown, TearingDown
  <2>3. OnlyAt(e) /\ dev'[e] = [dev[e] EXCEPT !.ip4 = None] /\ e = DevOf(t)
    BY <1>0, <2>1, <2>2, OneDevice DEF DevOf
  <2>5. /\ dev'[e].addr = dev[e].addr /\ dev'[e].dns = dev[e].dns
        /\ dev'[e].ip4 = None /\ dev'[e].active = dev[e].active
    BY <1>0, <2>3 DEF Devices
  <2>6. None \notin adopted
    BY <1>0, Holds
  <2>7. AddressesAt(e)'
    <3>1. /\ dev[e].addr \subseteq {dev[e].active} \ adopted
          /\ dev[e].dns \in {None, dev[e].active} \ adopted
      BY <2>2 DEF AddressesAt
    <3> QED
      BY <1>1a, <2>1, <2>5, <2>6, <3>1
  <2>8. Exports'
    <3> SUFFICES ASSUME NEW x \in exported, x # dev[e].ip4
                 PROVE  \E d \in Dev : x = dev'[d].ip4
      BY <2>1, <2>3 DEF Exports
    <3>1. PICK d \in Dev : x = dev[d].ip4
      BY DEF Exports
    <3> QED
      BY <2>3, <3>1 DEF OnlyAt
  <2> QED
    BY <1>1, <2>1, <2>2, <2>3, <2>7, <2>8, AddressesBy
    DEF Clearing
<1> QED
  BY <1>5, <1>6, <1>7, <1>8, <1>9, <1>10, <1>11, <1>12, <1>13
     DEF DeactivateStep

LEMMA AddressesHandler ==
    ASSUME TypeOK, IInv, Bindings, Addresses, Exports, ~TeardownFails,
           NEW c \in Client, HandlerStep(c)
    PROVE  Addresses' /\ Exports'
<1>0. /\ c \in Thread /\ c \in Workers /\ dev \in [Dev -> Devices]
      /\ None \notin AC /\ adopted \subseteq AC
      /\ \A b \in Born : b \in AC /\ acDev[b] \in Dev
      /\ pc[c] \in {"bind", "launch"} => cur[c] \in Born
      /\ \A d \in Dev : dev[d].addr \subseteq AC
      /\ pc[c] \in {"idle", "todo", "create", "bind", "launch", "remove",
                    "done"} \cup Teardown
  BY Holds, WorkersAre DEF HasCur, TypeOK, Devices
<1>1. pc[c] \notin Resting /\ \A u \in Workers : u # c => pc[u] \in Resting
  BY <1>0, HandlerFrame, OneWorks
<1>2. ASSUME pc[c] \notin Clearing,
             \A u \in Workers : pc'[u] \in Clearing => u # c /\ pc'[u] = pc[u],
             exported' = exported, adopted' = adopted,
             \A d \in Dev : /\ dev'[d].addr = dev[d].addr
                            /\ dev'[d].dns = dev[d].dns
                            /\ dev'[d].ip4 = dev[d].ip4
                            /\ dev'[d].active = dev[d].active
      PROVE  Addresses' /\ Exports'
  <2>1. \A u \in Workers : pc[u] \notin Clearing /\ pc'[u] \notin Clearing
    BY <1>1, <1>2 DEF Clearing, Resting
  <2> QED
    BY <1>2, <2>1, AddressesStay
<1> USE DEF shared, acVars, locals, Goto
<1>3. CASE DeactivateStep(c)
  BY <1>0, <1>3, AddressesTeardown
<1>4. CASE RemoveProfile(c) \/ CreateExhausted(c)
  BY <1>0, <1>2, <1>4, Holds, WorkersAre DEF RemoveProfile, CreateExhausted,
     Return, Clearing
<1>5. CASE ExportFails(c)
  BY <1>0, <1>2, <1>5, Holds, WorkersAre DEF ExportFails, Return, Clearing
<1>6. ASSUME NEW a \in AC, Create(c, a)
      PROVE  Addresses' /\ Exports'
  BY <1>0, <1>2, <1>6, Holds, WorkersAre DEF Create, NewAC, Clearing
<1>7. CASE Launch(c)
  <2>1. pc[c] = "launch" /\ cur[c] \in Thread /\ cur[c] # c
    BY <1>0, <1>7, WorkersAre DEF Launch
  <2>2. \A u \in Thread : pc'[u] = IF u = cur[c] THEN "start"
                                   ELSE IF u = c THEN "idle" ELSE pc[u]
    BY <1>0, <1>7, <2>1, Holds DEF Launch
  <2>3. \A d \in Dev : /\ dev'[d].addr = dev[d].addr
                       /\ dev'[d].dns = dev[d].dns
                       /\ dev'[d].ip4 = dev[d].ip4
                       /\ dev'[d].active = dev[d].active
    BY <1>0, <1>7 DEF Launch, SetDev, Devices
  <2>4. \A u \in Workers : pc'[u] \in Clearing => u # c /\ pc'[u] = pc[u]
    BY <2>2, WorkersAre DEF Clearing
  <2>5. pc[c] \notin Clearing /\ exported' = exported /\ adopted' = adopted
    BY <1>7, <2>1 DEF Launch, Clearing
  <2> QED
    BY <1>2, <2>3, <2>4, <2>5
<1>8. CASE Bind(c)
  <2>1. pc[c] = "bind" /\ pc'[c] = "launch"
          /\ \A u \in Workers : u # c => pc'[u] = pc[u]
    BY <1>0, <1>8, Holds, WorkersAre DEF Bind, Teardown, TearingDown
  <2>2. PICK e \in Dev : e = acDev[cur[c]] /\ AddressesAt(e)
    BY <1>0, <2>1 DEF Addresses
  <2>3. OnlyAt(e) /\ dev'[e] = [dev[e] EXCEPT !.active = cur[c]]
    BY <1>0, <1>8, <2>2, OneDevice DEF Bind, SetActive, DevOf
  <2>4. dev[e].active = None /\ dev[e].ip4 = None
    <3>1. dev[e].ip4 \in {None, dev[e].active}
      BY <1>0, <1>1, <2>1, OwnObject
    <3> QED
      BY <2>1, <2>2, <3>1 DEF Bindings, Handing, ActiveOf
  <2>5. /\ dev'[e].addr = dev[e].addr /\ dev'[e].dns = dev[e].dns
        /\ dev'[e].ip4 = dev[e].ip4 /\ dev'[e].active = cur[c]
    BY <1>0, <2>3 DEF Devices
  <2>6. dev[e].addr = {} /\ dev[e].dns = None /\ None \notin adopted
    BY <1>0, <2>2, <2>4 DEF AddressesAt
  <2>7. \A u \in Workers : pc'[u] \notin Clearing
    BY <1>1, <2>1 DEF Clearing, Resting
  <2>8. AddressesAt(e)'
    BY <1>8, <2>4, <2>5, <2>6, <2>7 DEF AddressesAt, Clearing, Bind
  <2>9. adopted' = adopted /\ exported' = exported /\ pc[c] \notin Clearing
    BY <1>8, <2>1 DEF Bind, Clearing
  <2>10. {dev'[d].ip4 : d \in Dev} = {dev[d].ip4 : d \in Dev}
    <3>1. \A d \in Dev : dev'[d].ip4 = dev[d].ip4
      BY <2>3, <2>5 DEF OnlyAt
    <3> QED
      BY <3>1
  <2> QED
    BY <1>0, <1>1, <2>2, <2>3, <2>7, <2>8, <2>9, <2>10, AddressesBy DEF Exports
<1> QED
  BY <1>3, <1>4, <1>5, <1>6, <1>7, <1>8 DEF HandlerStep

LEMMA AddressesRun ==
    ASSUME TypeOK, IInv, Bindings, Addresses, Exports, ~TeardownFails,
           NEW a \in AC, RunActivation(a)
    PROVE  Addresses' /\ Exports'
<1>0. /\ a \in Thread /\ a \in Workers /\ dev \in [Dev -> Devices]
      /\ None \notin AC /\ adopted \subseteq AC /\ exported \subseteq AC
      /\ pc[a] # "none" => a \notin adopted
      /\ pc[a] \in BringUp \cup Settle =>
            acDev[a] \in Dev /\ dev[acDev[a]].active = a
  BY Holds, WorkersAre DEF Bindings, Raised, Raising, ActiveOf, TypeOK
<1>1. /\ LeftAlone(a) /\ adopted' = adopted /\ acDev' = acDev
      /\ pc[a] \notin Resting
      /\ \A u \in Workers : u # a => pc[u] \notin Clearing /\ pc'[u] = pc[u]
  BY <1>0, RunFrame, OneWorks, WorkersAre DEF LeftAlone, Resting, Clearing
<1>2. ASSUME pc[a] \notin Clearing, pc'[a] \notin Clearing,
             exported' = exported,
             \A d \in Dev : /\ dev'[d].addr = dev[d].addr
                            /\ dev'[d].dns = dev[d].dns
                            /\ dev'[d].ip4 = dev[d].ip4
                            /\ dev'[d].active = dev[d].active
      PROVE  Addresses' /\ Exports'
  BY <1>1, <1>2, AddressesStay
<1>3. ASSUME pc[a] \in BringUp, pc'[a] \notin Clearing, NEW e \in Dev,
             e = acDev[a], OnlyAt(e), dev'[e].active = a,
             dev'[e].addr \subseteq {a}, dev'[e].dns \in {None, a},
             dev'[e].ip4 \in {None, a}
      PROVE  Addresses'
  <2>1. pc[a] \notin Clearing /\ pc[a] # "none"
    BY <1>3 DEF BringUp, Clearing
  <2>2. a \notin adopted /\ None \notin adopted
    BY <1>0, <2>1
  <2>3. AddressesAt(e)'
    BY <1>1, <1>3, <2>2 DEF AddressesAt, Clearing
  <2> QED
    BY <1>0, <1>1, <1>3, <2>1, <2>3, AddressesBy
<1>4. ASSUME pc[a] \in BringUp
      PROVE  \E e \in Dev : /\ e = acDev[a] /\ dev[e].active = a
                            /\ dev[e].addr \subseteq {a}
                            /\ dev[e].dns \in {None, a}
                            /\ dev[e].ip4 \in {None, a}
  <2>1. PICK e \in Dev : e = acDev[a] /\ dev[e].active = a
    BY <1>0, <1>4
  <2>2. dev[e].ip4 \in {None, a}
    BY <1>0, <1>1, <1>4, <2>1, OwnObject DEF BringUp
  <2>3. dev[e].addr \subseteq {a} /\ dev[e].dns \in {None, a}
    BY <2>1 DEF Addresses, AddressesAt
  <2> QED
    BY <2>1, <2>2, <2>3
<1>5. ASSUME exported' = exported, OnlyAt(acDev[a]), acDev[a] \in Dev,
             dev'[acDev[a]].ip4 = dev[acDev[a]].ip4
      PROVE  Exports'
  <2>1. \A d \in Dev : dev'[d].ip4 = dev[d].ip4
    BY <1>5 DEF OnlyAt
  <2>2. {dev'[d].ip4 : d \in Dev} = {dev[d].ip4 : d \in Dev}
    BY <2>1
  <2> QED
    BY <1>5, <2>2 DEF Exports
<1> USE DEF shared, acVars, locals, Goto
<1>6. CASE DeactivateStep(a)
  BY <1>0, <1>6, AddressesTeardown
<1>7. CASE StartWifi(a)
  BY <1>0, <1>2, <1>7, Holds DEF StartWifi, SetDev, Devices, Clearing
<1>8. CASE StartOther(a) \/ ConfigureDHCP(a)
  BY <1>0, <1>2, <1>8, Holds DEF StartOther, ConfigureDHCP, Clearing
<1>9. CASE Connect(a)
  <2>1. \A d \in Dev : /\ dev'[d].addr = dev[d].addr
                       /\ dev'[d].dns = dev[d].dns
                       /\ dev'[d].ip4 = dev[d].ip4
                       /\ dev'[d].active = dev[d].active
    BY <1>0, <1>9 DEF Connect, Devices
  <2>2. pc[a] = "connect" /\ pc'[a] \in {"ip", "bringUpErr"}
          /\ exported' = exported
    BY <1>0, <1>9, Holds DEF Connect
  <2> QED
    BY <1>2, <2>1, <2>2 DEF Clearing
<1>10. CASE ConfigureIPv4(a)
  <2>1. \A d \in Dev : /\ dev'[d].addr = dev[d].addr
                       /\ dev'[d].dns = dev[d].dns
                       /\ dev'[d].ip4 = dev[d].ip4
                       /\ dev'[d].active = dev[d].active
    BY <1>0, <1>10 DEF ConfigureIPv4, SetDev, Devices
  <2>2. pc[a] = "ip" /\ pc'[a] \in {"bringUpOk", "leaseFlush", "dhcp"}
          /\ exported' = exported
    BY <1>0, <1>10, Holds DEF ConfigureIPv4
  <2> QED
    BY <1>2, <2>1, <2>2 DEF Clearing
<1>11. CASE CheckSuperseded(a) \/ Activated(a) \/ SetPrimary(a)
  BY <1>0, <1>2, <1>11, Holds DEF CheckSuperseded, Activated, SetPrimary,
     Clearing
<1>12. CASE ActivationFailed(a) \/ DevActivated(a)
  BY <1>0, <1>2, <1>12, Holds DEF ActivationFailed, DevActivated, SetDev,
     Devices, Clearing
<1>13. CASE LeaseFlush(a)
  <2>1. pc[a] \in BringUp /\ pc'[a] \in {"leaseAddr", "bringUpErr"}
          /\ exported' = exported
    BY <1>0, <1>13, Holds DEF LeaseFlush, BringUp
  <2>2. PICK e \in Dev : /\ e = acDev[a] /\ dev[e].active = a
                         /\ dev[e].addr \subseteq {a}
                         /\ dev[e].dns \in {None, a}
                         /\ dev[e].ip4 \in {None, a}
    BY <1>4, <2>1
  <2>3. /\ OnlyAt(e)
        /\ dev'[e] = dev[e] \/ dev'[e] = [dev[e] EXCEPT !.addr = {}]
    BY <1>0, <1>13, <2>2, OneDevice DEF LeaseFlush
  <2>4. /\ dev'[e].active = a /\ dev'[e].addr \subseteq {a}
        /\ dev'[e].dns \in {None, a} /\ dev'[e].ip4 = dev[e].ip4
    BY <1>0, <2>2, <2>3 DEF Devices
  <2> QED
    BY <1>3, <1>5, <2>1, <2>2, <2>3, <2>4 DEF Clearing
<1>14. CASE LeaseAddr(a)
  <2>1. pc[a] \in BringUp /\ pc'[a] \in {"leaseDNS", "bringUpErr"}
          /\ exported' = exported
    BY <1>0, <1>14, Holds DEF LeaseAddr, BringUp
  <2>2. PICK e \in Dev : /\ e = acDev[a] /\ dev[e].active = a
                         /\ dev[e].addr \subseteq {a}
                         /\ dev[e].dns \in {None, a}
                         /\ dev[e].ip4 \in {None, a}
    BY <1>4, <2>1
  <2>3. \/ dev' = [dev EXCEPT ![e].addr = dev[e].addr \cup {a}]
        \/ dev' = dev
    BY <1>0, <1>14, <2>2 DEF LeaseAddr
  <2>4. /\ OnlyAt(e)
        /\ \/ dev'[e] = dev[e]
           \/ dev'[e] = [dev[e] EXCEPT !.addr = dev[e].addr \cup {a}]
    BY <1>0, <2>3, OneDevice
  <2>5. /\ dev'[e].active = a /\ dev'[e].addr \subseteq {a}
        /\ dev'[e].dns \in {None, a} /\ dev'[e].ip4 = dev[e].ip4
    BY <1>0, <2>2, <2>4 DEF Devices
  <2> QED
    BY <1>3, <1>5, <2>1, <2>2, <2>4, <2>5 DEF Clearing
<1>15. CASE LeaseDNS(a)
  <2>1. pc[a] \in BringUp /\ pc'[a] = "leaseIP4" /\ exported' = exported
    BY <1>0, <1>15, Holds DEF LeaseDNS, BringUp
  <2>2. PICK e \in Dev : /\ e = acDev[a] /\ dev[e].active = a
                         /\ dev[e].addr \subseteq {a}
                         /\ dev[e].dns \in {None, a}
                         /\ dev[e].ip4 \in {None, a}
    BY <1>4, <2>1
  <2>3. OnlyAt(e) /\ dev'[e] = [dev[e] EXCEPT !.dns = a]
    BY <1>0, <1>15, <2>2, OneDevice DEF LeaseDNS
  <2>4. /\ dev'[e].active = a /\ dev'[e].addr \subseteq {a}
        /\ dev'[e].dns \in {None, a} /\ dev'[e].ip4 = dev[e].ip4
    BY <1>0, <2>2, <2>3 DEF Devices
  <2> QED
    BY <1>3, <1>5, <2>1, <2>2, <2>3, <2>4 DEF Clearing
<1>16. CASE LeaseIP4(a)
  <2>1. pc[a] \in BringUp /\ pc'[a] = "bringUpOk"
    BY <1>0, <1>16, Holds DEF LeaseIP4, BringUp
  <2>2. PICK e \in Dev : /\ e = acDev[a] /\ dev[e].active = a
                         /\ dev[e].addr \subseteq {a}
                         /\ dev[e].dns \in {None, a}
                         /\ dev[e].ip4 \in {None, a}
    BY <1>4, <2>1
  <2>3. CASE exported' = exported \cup {a} /\ dev' = [dev EXCEPT ![e].ip4 = a]
    <3>1. OnlyAt(e) /\ dev'[e] = [dev[e] EXCEPT !.ip4 = a]
      BY <1>0, <2>3, OneDevice
    <3>2. /\ dev'[e].active = a /\ dev'[e].addr \subseteq {a}
          /\ dev'[e].dns \in {None, a} /\ dev'[e].ip4 = a
      BY <1>0, <2>2, <3>1 DEF Devices
    <3>3. Exports'
      <4> SUFFICES ASSUME NEW x \in exported \cup {a}
                   PROVE  \E d \in Dev : x = dev'[d].ip4
        BY <2>3 DEF Exports
      <4>1. CASE x = a
        BY <3>2, <4>1
      <4>2. CASE x # a
        <5>1. PICK d \in Dev : x = dev[d].ip4
          BY <4>2 DEF Exports
        <5>2. d # e
          BY <1>0, <2>2, <4>2, <5>1
        <5> QED
          BY <3>1, <5>1, <5>2 DEF OnlyAt
      <4> QED
        BY <4>1, <4>2
    <3> QED
      BY <1>3, <2>1, <2>2, <3>1, <3>2, <3>3 DEF Clearing
  <2>4. CASE UNCHANGED <<exported, dev>>
    BY <1>2, <2>1, <2>4 DEF Clearing, BringUp
  <2> QED
    BY <1>16, <2>2, <2>3, <2>4 DEF LeaseIP4
<1> QED
  BY <1>6, <1>7, <1>8, <1>9, <1>10, <1>11, <1>12, <1>13, <1>14, <1>15, <1>16
     DEF RunActivation

LEMMA AddressesIwd ==
    ASSUME TypeOK, IInv, Bindings, Addresses, Exports, OnWifiEvent
    PROVE  Addresses' /\ Exports'
<1>0. /\ dev \in [Dev -> Devices] /\ None \notin AC /\ adopted \subseteq AC
      /\ \A u \in Workers : u \in Thread /\ u # Iwd
      /\ \A u \in Workers : pc[u] \in HasCur => cur[u] \in Born
      /\ \A d \in Dev : dev[d].addr \subseteq AC
      /\ None \notin Born
  BY Holds, WorkersAre DEF TypeOK, Devices
<1>1. /\ \A u \in Workers : pc'[u] = pc[u] /\ cur'[u] = cur[u]
      /\ \A u \in Workers : pc[u] \in Clearing =>
            acDev'[cur[u]] = acDev[cur[u]]
  <2>1. LeftAlone(Iwd) /\ \A b \in Born : acDev'[b] = acDev[b]
    BY IwdFrame
  <2>2. \A u \in Workers : pc[u] \in Clearing => cur[u] \in Born
    BY <1>0 DEF Clearing, HasCur, Teardown, TearingDown
  <2> QED
    BY <1>0, <2>1, <2>2 DEF LeftAlone
\* What an adopted connection or none is bound to has no addresses.
<1>2. ASSUME NEW e \in Dev, dev[e].active \in adopted \cup {None}
      PROVE  /\ dev[e].addr = {} /\ dev[e].dns = None
             /\ \/ dev[e].ip4 = None
                \/ \E t \in Workers : /\ pc[t] = "unip4" /\ cur[t] = dev[e].ip4
                                      /\ acDev[cur[t]] = e
             /\ dev[e].ip4 \notin adopted
  BY <1>0, <1>2 DEF Addresses, AddressesAt
<1>3. ASSUME NEW e \in Dev, dev[e].active \in adopted \cup {None}, NEW x,
             dev' = [dev EXCEPT ![e].active = x],
             adopted' = adopted, exported' = exported
      PROVE  Addresses' /\ Exports'
  <2>1. OnlyAt(e) /\ dev'[e] = [dev[e] EXCEPT !.active = x]
    BY <1>0, <1>3, OneDevice
  <2>2. /\ dev'[e].addr = {} /\ dev'[e].dns = None
        /\ dev'[e].ip4 = dev[e].ip4
    BY <1>0, <1>2, <1>3, <2>1 DEF Devices
  <2>3. AddressesAt(e)'
    BY <1>0, <1>1, <1>2, <1>3, <2>2 DEF AddressesAt, Clearing
  <2>4. ASSUME NEW d \in Dev, d # e
        PROVE  AddressesAt(d)'
    <3>1. dev'[d] = dev[d] /\ AddressesAt(d)
      BY <2>1, <2>4 DEF OnlyAt, Addresses
    <3>2. \/ dev'[d].ip4 \in {None, dev'[d].active}
          \/ \E t \in Workers : /\ pc'[t] = "unip4" /\ cur'[t] = dev'[d].ip4
                                /\ acDev'[cur'[t]] = d
      <4>1. CASE dev[d].ip4 \in {None, dev[d].active}
        BY <3>1, <4>1
      <4>2. ASSUME NEW t \in Workers, pc[t] = "unip4", cur[t] = dev[d].ip4,
                   acDev[cur[t]] = d
            PROVE  /\ pc'[t] = "unip4" /\ cur'[t] = dev'[d].ip4
                   /\ acDev'[cur'[t]] = d
        BY <1>1, <3>1, <4>2 DEF Clearing
      <4> QED
        BY <3>1, <4>1, <4>2 DEF AddressesAt
    <3>3. \A t \in Workers : pc'[t] \in {"revert", "unbind"} =>
             pc[t] = pc'[t] /\ acDev'[cur'[t]] = acDev[cur[t]]
      BY <1>1 DEF Clearing
    <3>4. \A t \in Workers :
             /\ pc'[t] \in {"revert", "unbind"} /\ acDev'[cur'[t]] = d =>
                   dev'[d].addr = {}
             /\ pc'[t] = "unbind" /\ acDev'[cur'[t]] = d => dev'[d].dns = None
      BY <3>1, <3>3 DEF AddressesAt
    <3>5. /\ dev'[d].addr \subseteq {dev'[d].active} \ adopted'
          /\ dev'[d].dns \in {None, dev'[d].active} \ adopted'
          /\ dev'[d].ip4 \notin adopted'
      <4>1. /\ dev[d].addr \subseteq {dev[d].active} \ adopted
            /\ dev[d].dns \in {None, dev[d].active} \ adopted
            /\ dev[d].ip4 \notin adopted
        BY <3>1 DEF AddressesAt
      <4>2. adopted' = adopted
        BY <1>3
      <4> QED
        BY <3>1, <4>1, <4>2
    <3> QED
      BY <3>2, <3>4, <3>5 DEF AddressesAt
  <2>5. {dev'[d].ip4 : d \in Dev} = {dev[d].ip4 : d \in Dev}
    <3>1. \A d \in Dev : dev'[d].ip4 = dev[d].ip4
      BY <2>1, <2>2 DEF OnlyAt
    <3> QED
      BY <3>1
  <2> QED
    BY <1>3, <2>3, <2>4, <2>5 DEF Addresses, Exports
<1>4. ASSUME adopted' = adopted, exported' = exported,
             \A d \in Dev : /\ dev'[d].addr = dev[d].addr
                            /\ dev'[d].dns = dev[d].dns
                            /\ dev'[d].ip4 = dev[d].ip4
                            /\ dev'[d].active = dev[d].active
      PROVE  Addresses' /\ Exports'
  BY <1>1, <1>4, AddressesStay
<1> USE DEF shared, acVars
<1>5. ASSUME NEW a \in AC, Adopt(a)
      PROVE  Addresses' /\ Exports'
  <2>1. /\ a \notin Born /\ adopted' = adopted \cup {a}
        /\ dev' = dev /\ exported' = exported
    BY <1>5 DEF Adopt, NewAC, Born
  <2>2. ASSUME NEW d \in Dev
        PROVE  AddressesAt(d)'
    <3>1. AddressesAt(d)
      BY DEF Addresses
    <3>2. dev[d].active \in Born \cup {None}
      BY DEF Bindings, OwnDevice
    <3>3. dev[d].ip4 \in Born \cup {None}
      BY <1>0, <3>1, <3>2 DEF AddressesAt, HasCur, Teardown, TearingDown
    <3>4. a \notin dev[d].addr /\ a # dev[d].dns /\ a # dev[d].ip4
      BY <1>0, <2>1, <3>1, <3>2, <3>3 DEF AddressesAt
    <3> QED
      BY <1>1, <2>1, <3>1, <3>4 DEF AddressesAt, Clearing
  <2> QED
    BY <2>1, <2>2 DEF Addresses, Exports
<1>6. CASE OnConnecting \/ OnConnected \/ OnDisconnecting
  <2>1. \E d : \E s : SetDev(d, s)
    BY <1>6 DEF OnConnecting, OnConnected, OnDisconnecting
  <2>2. \A d \in Dev : /\ dev'[d].addr = dev[d].addr
                       /\ dev'[d].dns = dev[d].dns
                       /\ dev'[d].ip4 = dev[d].ip4
                       /\ dev'[d].active = dev[d].active
    BY <1>0, <2>1 DEF SetDev, Devices
  <2> QED
    BY <1>4, <1>6, <2>2 DEF OnConnecting, OnConnected, OnDisconnecting,
       TakeEvent
<1>7. CASE OnDisconnected \/ NoAdopt \/ ExportFails(Iwd) \/ AdoptPrimary
             \/ DropState
  BY <1>4, <1>7 DEF OnDisconnected, TakeEvent, NoAdopt, ExportFails,
     AdoptPrimary, DropState
<1>8. CASE DropDev
  <2>1. \A d \in Dev : /\ dev'[d].addr = dev[d].addr
                       /\ dev'[d].dns = dev[d].dns
                       /\ dev'[d].ip4 = dev[d].ip4
                       /\ dev'[d].active = dev[d].active
    BY <1>0, <1>8 DEF DropDev, SetDev, Devices
  <2> QED
    BY <1>4, <1>8, <2>1 DEF DropDev
<1>9. pc[Iwd] \in {"adoptBind", "dropBind"} =>
         req[Iwd].dev \in Dev /\ acDev[cur[Iwd]] = req[Iwd].dev
           /\ cur[Iwd] \in adopted
  BY Holds, WorkersAre DEF IInv, Working, Bindings, Adopting, Dropping
<1>10. CASE Bind(Iwd)
  <2>1. pc[Iwd] = "adoptBind"
    BY <1>10, Holds DEF Bind, IwdPlaces
  <2>2. PICK e \in Dev : e = acDev[cur[Iwd]]
    BY <1>9, <2>1
  <2>3. dev[e].active = None
    BY <2>1, <2>2 DEF Bindings, Adopting, ActiveOf
  <2> QED
    BY <1>3, <1>10, <2>2, <2>3 DEF Bind, SetActive, DevOf
<1>11. CASE DropBind
  <2>1. pc[Iwd] = "dropBind"
    BY <1>11 DEF DropBind
  <2>2. PICK e \in Dev : e = req[Iwd].dev /\ acDev[cur[Iwd]] = e
    BY <1>9, <2>1
  <2>3. dev[e].active \in adopted \cup {None}
    BY <1>9, <2>1, <2>2 DEF Bindings, Adopting, ActiveOf, Dropping
  <2> QED
    BY <1>3, <1>11, <2>2, <2>3 DEF DropBind, SetActive
<1> QED
  BY <1>5, <1>6, <1>7, <1>8, <1>10, <1>11 DEF OnWifiEvent

\* Every step leaves a device the addresses of its own connection only.
LEMMA AddressesStep ==
    ASSUME TypeOK, IInv, Bindings, Addresses, Exports, ~TeardownFails,
           Discipline = "patient", [Next]_vars
    PROVE  Addresses' /\ Exports'
<1>0. dev \in [Dev -> Devices]
  BY Holds
<1>1. ASSUME \A t \in Workers : pc[t] \in Resting,
             \A t \in Workers : pc'[t] \in Resting \cup {"todo"},
             adopted' = adopted, exported' = exported,
             \A d \in Dev : /\ dev'[d].addr = dev[d].addr
                            /\ dev'[d].dns = dev[d].dns
                            /\ dev'[d].ip4 = dev[d].ip4
                            /\ dev'[d].active = dev[d].active
      PROVE  Addresses' /\ Exports'
  <2>1. \A t \in Workers : pc[t] \notin Clearing /\ pc'[t] \notin Clearing
    BY <1>1 DEF Resting, Clearing
  <2> QED
    BY <1>1, <2>1, AddressesStay
<1>2. ASSUME NEW c \in Client, NewRequest(c)
      PROVE  Addresses' /\ Exports'
  <2>1. /\ \A t \in Workers : pc[t] \in Resting
        /\ \A t \in Workers : pc'[t] \in Resting \cup {"todo"}
        /\ adopted' = adopted /\ exported' = exported
    BY <1>2, AtRest, WorkersAre DEF LeftAlone, acVars
  <2>2. CASE \E d \in Dev : DeviceDisconnectRadio(c, d)
    <3>1. \A d \in Dev : /\ dev'[d].addr = dev[d].addr
                         /\ dev'[d].dns = dev[d].dns
                         /\ dev'[d].ip4 = dev[d].ip4
                         /\ dev'[d].active = dev[d].active
      BY <1>0, <2>2 DEF DeviceDisconnectRadio, WifiDisconnect, Devices
    <3> QED
      BY <1>1, <2>1, <3>1
  <2>3. CASE ~ \E d \in Dev : DeviceDisconnectRadio(c, d)
    <3>1. dev' = dev
      BY <1>2, <2>3 DEF NewRequest, ActivateConnection, AddConnection,
         AddAndActivateConnection, DeactivateConnection, DeviceDisconnect,
         Delete, Request
    <3> QED
      BY <1>1, <2>1, <3>1
  <2> QED
    BY <2>2, <2>3
<1>3. CASE Radio
  <2>1. \A d \in Dev : /\ dev'[d].addr = dev[d].addr
                       /\ dev'[d].dns = dev[d].dns
                       /\ dev'[d].ip4 = dev[d].ip4
                       /\ dev'[d].active = dev[d].active
    BY <1>0, <1>3 DEF Radio, RadioConnects, RadioDrops, RadioMoves, Devices
  <2>2. /\ \A t \in Workers : pc[t] \in Resting
        /\ pc' = pc /\ adopted' = adopted /\ exported' = exported
    BY <1>3, AtRest, WorkersAre DEF shared, acVars
  <2> QED
    BY <1>1, <2>1, <2>2
<1>4. CASE UNCHANGED vars
  BY <1>4, AddressesStay DEF vars, shared, acVars, locals
<1> QED
  BY <1>2, <1>3, <1>4, AddressesHandler, AddressesRun, AddressesIwd DEF Next

-----------------------------------------------------------------------------
LEMMA InitRest ==
    Init => Bindings /\ Calm /\ Wireless /\ Shown /\ Steady
              /\ Addresses /\ Exports
<1> SUFFICES ASSUME Init
             PROVE  Bindings /\ Calm /\ Wireless /\ Shown /\ Steady
                      /\ Addresses /\ Exports
  OBVIOUS
<1>1. /\ activeConns = {} /\ primary = None /\ gone = {} /\ adopted = {}
      /\ exported = {} /\ Len(events) = 0
      /\ \A t \in Thread : /\ pc[t] \in Resting /\ todo[t] = {}
                           /\ req[t] = NoReq
      /\ \A d \in Dev : /\ dev[d].active = None /\ dev[d].ip4 = None
                        /\ dev[d].addr = {} /\ dev[d].dns = None
                        /\ dev[d].state = "disconnected"
      /\ pc[Iwd] = "idle" /\ req[Iwd].op = "none"
  BY WorkersAre DEF Init, Resting, NoReq
<1>2. \A t \in Workers : t \in Thread /\ pc[t] \in Resting
  BY <1>1, WorkersAre
<1>3. Alone /\ Calm
  BY <1>1, <1>2, WorkersAre DEF Alone, Calm
<1>4. Spare /\ Unasked
  BY <1>1, WorkersAre DEF Spare, Unasked, NoReq
<1>5. OwnDevice /\ PointsAtListed /\ PointsBack /\ PrimaryListed
  BY <1>1 DEF OwnDevice, PointsAtListed, PointsBack, PrimaryListed
<1>6. Preparing /\ Handing
  BY <1>1, <1>2, WorkersAre DEF Preparing, Handing, NoReq, Resting
<1>7. Raised
  BY <1>1, <1>2, WorkersAre DEF Raised, Raising, Resting, BringUp, Settle
<1>8. Tearing
  BY <1>2 DEF Tearing, Resting, Bound, Unbound, Teardown, TearingDown
<1>9. Adopting
  BY <1>1 DEF Adopting, Dropping
<1>10. Wireless
  BY <1>1, <1>2, WorkersAre DEF Wireless, Resting
<1>11. Shown /\ Steady
  BY <1>1 DEF Shown, Steady, SteadyAt
<1>12. Addresses /\ Exports
  BY <1>1, <1>2 DEF Addresses, AddressesAt, Exports, Resting
<1> QED
  BY <1>3, <1>4, <1>5, <1>6, <1>7, <1>8, <1>9, <1>10, <1>11, <1>12 DEF Bindings

\* What the bindings come to once every goroutine has finished
LEMMA BindingsRest ==
    ASSUME TypeOK, IInv, Bindings, Shown, Steady
    PROVE  RestBindings
<1> SUFFICES ASSUME Quiet
             PROVE  /\ \A d \in Dev : dev[d].active # None =>
                          dev[d].active \in activeConns
                            /\ acDev[dev[d].active] = d
                    /\ \A a \in activeConns :
                          dev[acDev[a]].active = a /\ acState[a] = "activated"
                    /\ primary \in activeConns \cup {None}
                    /\ \A d \in Dev : Kind[d] # "wifi" =>
                          dev[d].state = IF dev[d].active = None
                                           THEN "disconnected" ELSE "activated"
  BY DEF RestBindings
<1>1. \A t \in Thread : pc[t] \in Resting
  BY DEF Quiet, Resting
<1>2. \A d \in Dev : dev[d].active # None =>
         dev[d].active \in activeConns /\ acDev[dev[d].active] = d
  BY <1>1, WorkersAre DEF Bindings, PointsAtListed, OwnDevice, Dropping, Resting
<1>3. ASSUME NEW a \in activeConns
      PROVE  dev[acDev[a]].active = a /\ acState[a] = "activated"
  <2>1. ActiveOf(a) = a
    BY <1>1, WorkersAre DEF Bindings, PointsBack, Resting
  <2>2. a \notin gone
    BY <1>1 DEF IInv, Safe, GoneLeaves, TearingDown, Resting
  <2>3. acState[a] # "activating"
    <3>1. \A t \in Thread : pc[t] \notin BringUp \cup Settle
                               \cup {"todo", "bind", "launch"}
      BY <1>1 DEF Resting, BringUp, Settle
    <3>2. a \in Thread /\ Client \subseteq Thread
      BY Holds, WorkersAre
    <3> QED
      BY <2>2, <3>1, <3>2 DEF IInv, Safe, NoOrphanActivation
  <2> QED
    BY <2>1, <2>2, <2>3 DEF ActiveOf, Shown
<1>4. ASSUME NEW d \in Dev, Kind[d] # "wifi"
      PROVE  SteadyAt(d)
  <2>1. \A t \in Workers : ~MovingBy(t, d)
    BY <1>1, WorkersAre DEF MovingBy, Raising, Resting, Teardown, TearingDown,
       BringUp, Settle
  <2> QED
    BY <1>4, <2>1 DEF Steady
<1> QED
  BY <1>2, <1>3, <1>4 DEF SteadyAt, Bindings, PrimaryListed

LEMMA AddressesRest ==
    ASSUME TypeOK, IInv, Addresses, Exports
    PROVE  RestNetwork
<1> SUFFICES ASSUME Quiet, NEW d \in Dev
             PROVE  /\ dev[d].addr \subseteq {dev[d].active}
                    /\ {dev[d].dns, dev[d].ip4} \subseteq {None, dev[d].active}
  BY DEF RestNetwork, Exports
<1>1. \A t \in Workers : pc[t] # "unip4"
  BY WorkersAre DEF Quiet
<1> QED
  BY <1>1 DEF Addresses, AddressesAt

-----------------------------------------------------------------------------
\* A client that waits for the daemon to come to rest between its calls finds
\* every device bound to a listed connection of its own or to nothing, every
\* listed connection activated and bound to its device, the primary one
\* listed, and every wired device shown as what it is: activate (activate.go)
\* has deactivated what was on the device before it binds a new connection,
\* and adoptWifi and dropAdoptedWifi (autowifi.go) take and leave a device
\* only while no call is at work on it, also when teardown calls fail.
THEOREM BindingsAtRest ==
    Discipline = "patient" => (Spec => []RestBindings)
<1> DEFINE RInv == TypeOK /\ IInv /\ Bindings /\ Calm /\ Wireless /\ Shown
                     /\ Steady
<1>1. CASE Discipline = "patient"
  <2>1. Init => RInv
    BY InitInv, InitRest
  <2>2. RInv /\ [Next]_vars => RInv'
    BY <1>1, TypeStep, InvStep, BindingsStep, CalmStep, WirelessStep, ShownStep,
       SteadyStep
  <2>3. RInv => RestBindings
    BY BindingsRest
  <2> QED
    BY <2>1, <2>2, <2>3, PTL DEF Spec
<1>2. CASE Discipline # "patient"
  BY <1>2
<1> QED
  BY <1>1, <1>2

\* And when the best-effort calls of deactivate work, such a client finds on
\* a device the addresses, the DNS entry and the IP4Config object of its own
\* connection at most, and no other such object on the bus: deactivate
\* (activate.go) flushes, reverts and unexports what applyLease configured,
\* whether the connection was up, failed halfway or was replaced.
THEOREM NetworkAtRest ==
    Discipline = "patient" /\ ~TeardownFails => (Spec => []RestNetwork)
<1> DEFINE RInv == TypeOK /\ IInv /\ Bindings /\ Calm /\ Wireless
                     /\ Addresses /\ Exports
<1>1. CASE Discipline = "patient" /\ ~TeardownFails
  <2>1. Init => RInv
    BY InitInv, InitRest
  <2>2. RInv /\ [Next]_vars => RInv'
    BY <1>1, TypeStep, InvStep, BindingsStep, CalmStep, WirelessStep,
       AddressesStep
  <2>3. RInv => RestNetwork
    BY AddressesRest
  <2> QED
    BY <2>1, <2>2, <2>3, PTL DEF Spec
<1>2. CASE ~(Discipline = "patient" /\ ~TeardownFails)
  BY <1>2
<1> QED
  BY <1>1, <1>2
=============================================================================
