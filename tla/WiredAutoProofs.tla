--------------------------- MODULE WiredAutoProofs ---------------------------
(***************************************************************************)
(* Proofs about WiredAuto, for any number of interfaces, goroutines and    *)
(* queued events.                                                          *)
(***************************************************************************)
EXTENDS WiredAuto, SequenceTheorems, TLAPS

Places == {"idle", "raise", "read", "write", "auto", "profile", "add", "activate"}
Event  == [dev : Iface, carrier : BOOLEAN]

\* Where events and goroutines can be
Order ==
    /\ ~subscribed => events = <<>>
    /\ ~started => \A r \in Runner : pc[r] = "idle"
    /\ \A k \in DOMAIN events : events[k].dev \in present
    /\ \A d \in Iface : /\ pc[<<d, 0>>] # "idle" => d \in known
                        /\ pc[<<d, 0>>] = "write" => seen[d] \in BOOLEAN
                        /\ up[d] => d \in known

Typed == TypeOK /\ Order

-----------------------------------------------------------------------------
LEMMA Unfolded ==
    ASSUME Typed
    PROVE  /\ up \in [Iface -> BOOLEAN] /\ link \in [Iface -> BOOLEAN]
           /\ cable \in [Iface -> BOOLEAN] /\ carrier \in [Iface -> BOOLEAN]
           /\ autoWired \in [Iface -> BOOLEAN] /\ events \in Seq(Event)
           /\ pc \in [Runner -> Places] /\ seen \in [Iface -> BOOLEAN \cup {None}]
           /\ active \in [Iface -> {"none", "auto", "client"}]
           /\ known \subseteq present /\ present \subseteq Iface
           /\ excused \subseteq Iface
           /\ subscribed \in BOOLEAN /\ started \in BOOLEAN
           /\ haveProfile \in BOOLEAN
  BY DEF Typed, TypeOK, Places, Event

LEMMA Folded ==
    ASSUME up \in [Iface -> BOOLEAN], link \in [Iface -> BOOLEAN],
           cable \in [Iface -> BOOLEAN], carrier \in [Iface -> BOOLEAN],
           autoWired \in [Iface -> BOOLEAN], events \in Seq(Event),
           pc \in [Runner -> Places], seen \in [Iface -> BOOLEAN \cup {None}],
           active \in [Iface -> {"none", "auto", "client"}],
           known \subseteq present, present \subseteq Iface,
           excused \subseteq Iface,
           subscribed \in BOOLEAN, started \in BOOLEAN, haveProfile \in BOOLEAN
    PROVE  TypeOK
  BY DEF TypeOK, Places, Event

LEMMA FoldedNext ==
    ASSUME up' \in [Iface -> BOOLEAN], link' \in [Iface -> BOOLEAN],
           cable' \in [Iface -> BOOLEAN], carrier' \in [Iface -> BOOLEAN],
           autoWired' \in [Iface -> BOOLEAN], events' \in Seq(Event),
           pc' \in [Runner -> Places], seen' \in [Iface -> BOOLEAN \cup {None}],
           active' \in [Iface -> {"none", "auto", "client"}],
           known' \subseteq present', present' \subseteq Iface,
           excused' \subseteq Iface,
           subscribed' \in BOOLEAN, started' \in BOOLEAN, haveProfile' \in BOOLEAN
    PROVE  TypeOK'
  BY DEF TypeOK, Places, Event

LEMMA Runners ==
    ASSUME NEW d \in Iface
    PROVE  <<d, 0>> \in Runner /\ \A n \in 1 .. MaxSpawn : <<d, n>> \in Runner
  BY WiredConstants DEF Runner

LEMMA Initially == Init => Typed
<1> SUFFICES ASSUME Init PROVE Typed
  OBVIOUS
<1>1. TypeOK
  <2>1. subscribed \in BOOLEAN
    BY WiredConstants DEF Init
  <2>2. <<>> \in Seq(Event)
    OBVIOUS
  <2> QED
    BY <2>1, <2>2, Folded DEF Init, Places
<1>2. Order
  BY Runners DEF Init, Order
<1> QED
  BY <1>1, <1>2 DEF Typed

\* An event is queued: the last one, or none before the socket is bound.
LEMMA NotifyType ==
    ASSUME Typed, NEW d \in Iface, NEW c \in BOOLEAN, Notify(d, c)
    PROVE  /\ events' \in Seq(Event)
           /\ (~subscribed => events' = events)
           /\ subscribed => /\ Len(events') = Len(events) + 1
                            /\ DOMAIN events' = 1 .. Len(events) + 1
                            /\ events'[Len(events) + 1].dev = d
                            /\ events'[Len(events) + 1].carrier = c
                            /\ \A k \in DOMAIN events : events'[k] = events[k]
           /\ \A k \in DOMAIN events' :
                 \/ k \in DOMAIN events /\ events'[k] = events[k]
                 \/ events'[k].dev = d
<1> DEFINE e == [dev |-> d, carrier |-> c]
<1>1. e \in Event /\ e.dev = d /\ e.carrier = c
  BY DEF Event
<1>2. events \in Seq(Event)
  BY Unfolded
<1>3. CASE subscribed
  <2>1. events' = Append(events, e)
    BY <1>3 DEF Notify
  <2> HIDE DEF e
  <2> QED
    BY <1>1, <1>2, <1>3, <2>1, AppendProperties
<1>4. CASE ~subscribed
  BY <1>2, <1>4 DEF Notify
<1> QED
  BY <1>3, <1>4

\* What raising a link does to it
LEMMA RaiseType ==
    ASSUME Typed, NEW d \in Iface, Raise(d)
    PROVE  /\ up' \in [Iface -> BOOLEAN] /\ link' \in [Iface -> BOOLEAN]
           /\ events' \in Seq(Event)
           /\ up'[d] /\ \A e \in Iface \ {d} : up'[e] = up[e] /\ link'[e] = link[e]
           /\ (~subscribed => events' = events)
           /\ \A k \in DOMAIN events' :
                 \/ k \in DOMAIN events /\ events'[k] = events[k]
                 \/ events'[k].dev = d
<1>0. up \in [Iface -> BOOLEAN] /\ link \in [Iface -> BOOLEAN]
      /\ cable \in [Iface -> BOOLEAN] /\ events \in Seq(Event)
      /\ NegotiatesAtOnce \in BOOLEAN
  BY Unfolded, WiredConstants
<1>1. CASE up[d]
  BY <1>0, <1>1 DEF Raise
<1>2. CASE ~up[d]
  <2>1. PICK c \in BOOLEAN : /\ up' = [up EXCEPT ![d] = TRUE]
                             /\ link' = [link EXCEPT ![d] = c]
                             /\ Notify(d, c)
    BY <1>0, <1>2 DEF Raise
  <2> QED
    BY <1>0, <2>1, NotifyType
<1> QED
  BY <1>1, <1>2

LEMMA TypeStep == Typed /\ [Next]_vars => Typed'
<1> SUFFICES ASSUME Typed, [Next]_vars PROVE Typed'
  OBVIOUS
<1>0. /\ up \in [Iface -> BOOLEAN] /\ link \in [Iface -> BOOLEAN]
      /\ cable \in [Iface -> BOOLEAN] /\ carrier \in [Iface -> BOOLEAN]
      /\ autoWired \in [Iface -> BOOLEAN] /\ events \in Seq(Event)
      /\ pc \in [Runner -> Places] /\ seen \in [Iface -> BOOLEAN \cup {None}]
      /\ active \in [Iface -> {"none", "auto", "client"}]
      /\ known \subseteq present /\ present \subseteq Iface
      /\ excused \subseteq Iface
      /\ subscribed \in BOOLEAN /\ started \in BOOLEAN
      /\ haveProfile \in BOOLEAN
  BY Unfolded
<1>1. /\ ~subscribed => events = <<>>
      /\ ~started => \A r \in Runner : pc[r] = "idle"
      /\ \A k \in DOMAIN events : events[k].dev \in present
      /\ \A d \in Iface : /\ pc[<<d, 0>>] # "idle" => d \in known
                          /\ pc[<<d, 0>>] = "write" => seen[d] \in BOOLEAN
                          /\ up[d] => d \in known
  BY DEF Typed, Order
<1>r. \A d \in Iface : <<d, 0>> \in Runner
  BY Runners
<1> USE DEF kernel, device
\* A goroutine moves, and the kernel does nothing.
<1>2. ASSUME NEW r \in Runner, NEW p \in Places, pc' = [pc EXCEPT ![r] = p],
             pc[r] # "idle", p # "write",
             UNCHANGED <<kernel, events, subscribed, started, known>>,
             carrier' \in [Iface -> BOOLEAN], autoWired' \in [Iface -> BOOLEAN],
             active' \in [Iface -> {"none", "auto", "client"}],
             haveProfile' \in BOOLEAN, excused' \subseteq Iface,
             seen' = seen \/ (r[2] = 0 /\ \A d \in Iface \ {r[1]} : seen'[d] = seen[d]),
             seen' \in [Iface -> BOOLEAN \cup {None}]
      PROVE  Typed'
  <2>1. TypeOK'
    BY <1>0, <1>2, FoldedNext
  <2>2. Order'
    BY <1>0, <1>1, <1>2, <1>r DEF Order, Runner
  <2> QED
    BY <2>1, <2>2 DEF Typed
\* The autoConnectWired steps
<1>3. ASSUME NEW r \in Runner, AutoConnect(r) PROVE Typed'
  <2>1. {"idle", "profile", "add", "activate"} \subseteq Places
    BY DEF Places
  <2>2. r[1] \in Iface
    BY DEF Runner
  <2>3. ASSUME GiveUp(r)
        PROVE  /\ pc' = [pc EXCEPT ![r] = "idle"] /\ excused' \subseteq Iface
               /\ autoWired' \in [Iface -> BOOLEAN]
    BY <1>0, <2>2, <2>3 DEF GiveUp, Goto
  <2>4. CASE AutoCheck(r)
    <3>1. autoWired' \in [Iface -> BOOLEAN]
      BY <1>0, <2>4 DEF AutoCheck
    <3> QED
      BY <1>0, <1>2, <2>1, <2>4, <3>1 DEF AutoCheck, Goto
  <2>5. CASE AutoProfile(r)
    BY <1>0, <1>2, <2>1, <2>5 DEF AutoProfile, Goto
  <2>6. CASE AutoAdd(r)
    BY <1>0, <1>2, <2>1, <2>3, <2>6 DEF AutoAdd, Goto
  <2>7. CASE AutoActivate(r)
    <3>1. active' \in [Iface -> {"none", "auto", "client"}]
      BY <1>0, <2>7 DEF AutoActivate
    <3> QED
      BY <1>0, <1>2, <2>1, <2>3, <2>7, <3>1 DEF AutoActivate, Goto
  <2> QED
    BY <1>3, <2>4, <2>5, <2>6, <2>7 DEF AutoConnect
\* A link changes, and nobody moves.
<1>4. ASSUME NEW d \in Iface, d \in present', present \subseteq present',
             present' \subseteq Iface,
             up' \in [Iface -> BOOLEAN], link' \in [Iface -> BOOLEAN],
             cable' \in [Iface -> BOOLEAN], events' \in Seq(Event),
             \A k \in DOMAIN events' :
                 \/ k \in DOMAIN events /\ events'[k] = events[k]
                 \/ events'[k].dev = d,
             \A e \in Iface : up'[e] => up[e] \/ (e = d /\ d \in known),
             ~subscribed => events' = events,
             active' \in [Iface -> {"none", "auto", "client"}],
             haveProfile' \in BOOLEAN, excused' \subseteq Iface,
             UNCHANGED <<subscribed, started, device, pc, seen>>
      PROVE  Typed'
  <2>1. TypeOK'
    BY <1>0, <1>4, FoldedNext
  <2>2. Order'
    BY <1>0, <1>1, <1>4 DEF Order
  <2> QED
    BY <2>1, <2>2 DEF Typed
<1>5. ASSUME NEW d \in Iface, Negotiate(d) PROVE Typed'
  <2>1. /\ Notify(d, TRUE) /\ link' \in [Iface -> BOOLEAN] /\ d \in present
    BY <1>0, <1>1, <1>5 DEF Negotiate
  <2> QED
    BY <1>0, <1>4, <1>5, <2>1, NotifyType DEF Negotiate
<1>6. ASSUME NEW d \in Iface, MoveCable(d) PROVE Typed'
  <2>1. /\ cable' \in [Iface -> BOOLEAN] /\ link' \in [Iface -> BOOLEAN]
        /\ d \in present /\ excused' \subseteq Iface
        /\ Notify(d, FALSE) \/ UNCHANGED events
    BY <1>0, <1>1, <1>6 DEF MoveCable
  <2>2. /\ events' \in Seq(Event) /\ (~subscribed => events' = events)
        /\ \A k \in DOMAIN events' :
              \/ k \in DOMAIN events /\ events'[k] = events[k]
              \/ events'[k].dev = d
    BY <1>0, <2>1, NotifyType
  <2> QED
    BY <1>0, <1>4, <1>6, <2>1, <2>2 DEF MoveCable
<1>7. ASSUME NEW d \in Iface, Plug(d) PROVE Typed'
  <2>1. Notify(d, FALSE) /\ present' = present \cup {d}
    BY <1>7 DEF Plug
  <2> QED
    BY <1>0, <1>4, <1>7, <2>1, NotifyType DEF Plug
<1>8. ASSUME NEW d \in Iface, ClientActivate(d) PROVE Typed'
  <2>1. /\ up' \in [Iface -> BOOLEAN] /\ link' \in [Iface -> BOOLEAN]
        /\ events' \in Seq(Event)
        /\ \A e \in Iface \ {d} : up'[e] = up[e]
        /\ (~subscribed => events' = events)
        /\ \A k \in DOMAIN events' :
              \/ k \in DOMAIN events /\ events'[k] = events[k]
              \/ events'[k].dev = d
    BY <1>8, RaiseType DEF ClientActivate
  <2>2. active' \in [Iface -> {"none", "auto", "client"}]
    BY <1>0, <1>8 DEF ClientActivate
  <2> QED
    BY <1>0, <1>4, <1>8, <2>1, <2>2 DEF ClientActivate
<1>9. ASSUME NEW d \in Iface, ConnectionEnds(d) PROVE Typed'
  <2>1. active' \in [Iface -> {"none", "auto", "client"}]
    BY <1>0, <1>9 DEF ConnectionEnds
  <2>2. TypeOK'
    BY <1>0, <1>9, <2>1, FoldedNext DEF ConnectionEnds
  <2>3. Order'
    BY <1>1, <1>9 DEF ConnectionEnds, Order
  <2> QED
    BY <2>2, <2>3 DEF Typed
<1>10. CASE Bind \/ UNCHANGED vars
  <2>1. /\ UNCHANGED <<kernel, events, started, device, active, haveProfile, pc,
                       seen, excused>>
        /\ subscribed' \in BOOLEAN /\ (subscribed => subscribed')
    BY <1>0, <1>10 DEF Bind, vars
  <2>2. TypeOK'
    BY <1>0, <2>1, FoldedNext
  <2>3. Order'
    BY <1>1, <2>1 DEF Order
  <2> QED
    BY <2>2, <2>3 DEF Typed
<1>11. CASE Run
  <2>1. /\ \A d \in Iface : pc'[<<d, 0>>] = IF d \in known THEN "raise"
                                            ELSE pc[<<d, 0>>]
        /\ pc' \in [Runner -> Places] /\ started' = TRUE
    BY <1>0, <1>11, <1>r DEF Run, Places
  <2>2. TypeOK'
    BY <1>0, <1>11, <2>1, FoldedNext DEF Run
  <2>3. Order'
    BY <1>1, <1>11, <2>1 DEF Run, Order
  <2> QED
    BY <2>2, <2>3 DEF Typed
<1>12. ASSUME NEW d \in Iface, ManageRaise(d) PROVE Typed'
  <2>1. /\ pc[<<d, 0>>] = "raise" /\ d \in known
        /\ pc' = [pc EXCEPT ![<<d, 0>>] = "read"] \/ pc' = [pc EXCEPT ![<<d, 0>>] = "idle"]
        /\ UNCHANGED <<present, cable, subscribed, started, known, carrier,
                       autoWired, active, haveProfile, seen>>
        /\ excused' \subseteq Iface
    BY <1>0, <1>1, <1>12 DEF ManageRaise, Goto
  <2>2. /\ up' \in [Iface -> BOOLEAN] /\ link' \in [Iface -> BOOLEAN]
        /\ events' \in Seq(Event)
        /\ \A e \in Iface \ {d} : up'[e] = up[e]
        /\ (~subscribed => events' = events)
        /\ \A k \in DOMAIN events' :
              \/ k \in DOMAIN events /\ events'[k] = events[k]
              \/ events'[k].dev = d
    <3>1. CASE Raise(d)
      BY <3>1, RaiseType
    <3>2. CASE UNCHANGED <<up, link, events>>
      BY <1>0, <3>2
    <3> QED
      BY <1>12, <3>1, <3>2 DEF ManageRaise
  <2>3. TypeOK'
    BY <1>0, <2>1, <2>2, FoldedNext DEF Places
  <2>4. started
    BY <1>1, <1>r, <2>1
  <2>5. \A e \in Iface : e # d => pc'[<<e, 0>>] = pc[<<e, 0>>]
    BY <1>0, <1>r, <2>1
  <2>6. pc'[<<d, 0>>] \in {"read", "idle"}
    BY <1>0, <1>r, <2>1
  <2>7. Order'
    BY <1>0, <1>1, <2>1, <2>2, <2>4, <2>5, <2>6 DEF Order
  <2> QED
    BY <2>3, <2>7 DEF Typed
<1>13. ASSUME NEW d \in Iface, ManageRead(d) PROVE Typed'
  <2>1. CASE seen' = [seen EXCEPT ![d] = link[d]] /\ Goto(<<d, 0>>, "write")
    <3>1. /\ pc[<<d, 0>>] = "read" /\ pc' = [pc EXCEPT ![<<d, 0>>] = "write"]
          /\ UNCHANGED <<kernel, events, subscribed, started, known, carrier,
                         autoWired, active, haveProfile, excused>>
          /\ seen' \in [Iface -> BOOLEAN \cup {None}]
      BY <1>0, <1>13, <1>r, <2>1 DEF ManageRead, Goto
    <3>2. TypeOK'
      BY <1>0, <3>1, FoldedNext DEF Places
    <3>3. \A e \in Iface : e # d => /\ pc'[<<e, 0>>] = pc[<<e, 0>>]
                                    /\ seen'[e] = seen[e]
      BY <1>0, <1>r, <2>1, <3>1
    <3>4. seen'[d] \in BOOLEAN /\ d \in known /\ started
      BY <1>0, <1>1, <1>r, <2>1, <3>1
    <3>5. Order'
      BY <1>1, <3>1, <3>3, <3>4 DEF Order
    <3> QED
      BY <3>2, <3>5 DEF Typed
  <2>2. CASE Goto(<<d, 0>>, "auto") /\ excused' = excused \cup {d} /\ UNCHANGED seen
    BY <1>0, <1>2, <1>13, <1>r, <2>2 DEF ManageRead, Goto, Places
  <2> QED
    BY <1>13, <2>1, <2>2 DEF ManageRead
<1>14. ASSUME NEW d \in Iface, ManageWrite(d) PROVE Typed'
  <2>1. /\ pc[<<d, 0>>] = "write" /\ pc' = [pc EXCEPT ![<<d, 0>>] = "auto"]
        /\ carrier' = [carrier EXCEPT ![d] = seen[d]]
        /\ seen' = [seen EXCEPT ![d] = None]
        /\ UNCHANGED <<kernel, events, subscribed, started, known, autoWired,
                       active, haveProfile, excused>>
    BY <1>14 DEF ManageWrite, StoreCarrier, Goto
  <2>2. carrier' \in [Iface -> BOOLEAN] /\ seen' \in [Iface -> BOOLEAN \cup {None}]
    BY <1>0, <1>1, <2>1
  <2>3. TypeOK'
    BY <1>0, <2>1, <2>2, FoldedNext DEF Places
  <2>4. \A e \in Iface : e # d => /\ pc'[<<e, 0>>] = pc[<<e, 0>>]
                                  /\ seen'[e] = seen[e]
    BY <1>0, <1>r, <2>1
  <2>5. pc'[<<d, 0>>] = "auto" /\ d \in known /\ started
    BY <1>0, <1>1, <1>r, <2>1
  <2>6. Order'
    BY <1>1, <2>1, <2>4, <2>5 DEF Order
  <2> QED
    BY <2>3, <2>6 DEF Typed
<1>15. CASE OnLinkEvent
  <2> DEFINE e == Head(events)
             d == e.dev
  <2>1. /\ events # <<>> /\ events' = Tail(events) /\ started /\ subscribed
        /\ UpdateLink(d, e.carrier) \/ AddDevice(d, e.carrier)
        /\ UNCHANGED <<kernel, subscribed, started, active, haveProfile, seen,
                       excused>>
    BY <1>15 DEF OnLinkEvent
  <2>2. e \in Event /\ events' \in Seq(Event) /\ d \in present
        /\ \A k \in DOMAIN events' : k + 1 \in DOMAIN events
                                     /\ events'[k] = events[k + 1]
    <3>1. e = events[1] /\ 1 \in DOMAIN events
      BY <1>0, <2>1
    <3> QED
      BY <1>0, <1>1, <2>1, <3>1
  <2>3. d \in Iface /\ e.carrier \in BOOLEAN
    BY <2>2 DEF Event
  <2>4. PICK c \in BOOLEAN, f \in Iface : c = e.carrier /\ f = d /\ f \in present
    BY <2>2, <2>3
  <2> HIDE DEF e, d
  <2>5. \A k \in DOMAIN events' : events'[k].dev \in present
    BY <1>1, <2>2
  <2>6. CASE UpdateLink(f, c)
    <3>1. /\ carrier' \in [Iface -> BOOLEAN] /\ autoWired' \in [Iface -> BOOLEAN]
          /\ UNCHANGED known
      BY <1>0, <2>4, <2>6 DEF UpdateLink, Record, Unmark
    <3>2. /\ pc' \in [Runner -> Places]
          /\ \A b \in Iface : pc'[<<b, 0>>] = pc[<<b, 0>>]
      <4>1. CASE UNCHANGED pc
        BY <1>0, <4>1
      <4>2. CASE Spawn(f)
        <5>1. PICK n \in 1 .. MaxSpawn : pc' = [pc EXCEPT ![<<f, n>>] = "auto"]
          BY <4>2 DEF Spawn, Idle, Goto
        <5>2. \A b \in Iface : <<b, 0>> # <<f, n>>
          BY <5>1
        <5> QED
          BY <1>0, <1>r, <5>1, <5>2, Runners DEF Places
      <4> QED
        BY <2>6, <4>1, <4>2 DEF UpdateLink
    <3>3. TypeOK'
      BY <1>0, <2>1, <2>2, <3>1, <3>2, FoldedNext
    <3>4. Order'
      BY <1>1, <2>1, <2>5, <3>1, <3>2 DEF Order
    <3> QED
      BY <3>3, <3>4 DEF Typed
  <2>7. CASE AddDevice(f, c)
    <3>1. /\ carrier' \in [Iface -> BOOLEAN] /\ UNCHANGED autoWired
          /\ known' = known \cup {f} /\ pc' = [pc EXCEPT ![<<f, 0>>] = "raise"]
      BY <1>0, <2>4, <2>7 DEF AddDevice, Goto
    <3>2. pc' \in [Runner -> Places]
      BY <1>0, <3>1 DEF Places
    <3>3. \A b \in Iface : pc'[<<b, 0>>] = IF b = f THEN "raise" ELSE pc[<<b, 0>>]
      BY <1>0, <1>r, <3>1
    <3>4. TypeOK'
      BY <1>0, <2>1, <2>2, <2>4, <3>1, <3>2, FoldedNext
    <3>5. Order'
      BY <1>1, <2>1, <2>5, <3>1, <3>3 DEF Order
    <3> QED
      BY <3>4, <3>5 DEF Typed
  <2> QED
    BY <2>1, <2>4, <2>6, <2>7
<1> QED
  BY <1>3, <1>5, <1>6, <1>7, <1>8, <1>9, <1>10, <1>11, <1>12, <1>13, <1>14, <1>15
  DEF Next, Manage

\* Type correctness: whatever order events, goroutines and clients come in, a
\* goroutine only manages devices that are registered, and writes only a
\* carrier that it has read.
THEOREM TypeCorrect == Spec => []TypeOK
<1>1. Typed => TypeOK
  BY DEF Typed
<1> QED
  BY Initially, TypeStep, <1>1, PTL DEF Spec

-----------------------------------------------------------------------------
(***************************************************************************)
(* At rest.  While a device is being managed, or the daemon does not hear  *)
(* of it yet, its link can only come up, and it is read again afterwards;  *)
(* from then on the last event queued about it carries what the kernel     *)
(* senses, so that no event pending means that Device.carrier is right.    *)
(***************************************************************************)
Managing(d) == pc[<<d, 0>>] \in {"raise", "read", "write"}
Early(d)    == Managing(d) \/ ~subscribed \/ ~started \/ d \notin known

Has(d, c) == \E k \in DOMAIN events : events[k].dev = d /\ events[k].carrier = c
Asking(d) == \E n \in 0 .. MaxSpawn : pc[<<d, n>>] = "auto"
Trying(d) == \E n \in 0 .. MaxSpawn : pc[<<d, n>>] \in {"profile", "add", "activate"}

\* Every queued event that is out of date is followed by one that is not.
Latest(d) ==
    \A k \in DOMAIN events :
        events[k].dev = d /\ events[k].carrier # link[d] =>
            \E j \in DOMAIN events :
                j > k /\ events[j].dev = d /\ events[j].carrier = link[d]

Sensed(d) ==
    /\ link[d] => up[d]
    /\ pc[<<d, 0>>] \in {"read", "write"} => up[d]
    /\ Early(d) /\ up[d] => link[d] = cable[d]
    /\ pc[<<d, 0>>] = "write" => seen[d] = link[d]
    /\ Early(d) => (carrier[d] => link[d]) /\ (Has(d, TRUE) => link[d])

Told(d) ==
    /\ Latest(d)
    /\ d \in known /\ carrier[d] /\ ~link[d] => Has(d, FALSE)
    /\ (/\ started /\ d \in known /\ d \notin excused /\ ~Managing(d)
        /\ ~Has(d, TRUE) /\ ~Has(d, FALSE)) => carrier[d] = link[d]
    /\ (/\ started /\ ~subscribed /\ d \in known /\ d \notin excused
        /\ pc[<<d, 0>>] # "raise") => up[d]

Tried(d) ==
    /\ autoWired[d] => carrier[d]
    /\ autoWired[d] /\ d \notin excused =>
          active[d] # "none" \/ Trying(d) \/ Has(d, FALSE)
    /\ (started /\ d \in known /\ d \notin excused /\ carrier[d] /\ active[d] = "none")
          => Managing(d) \/ Asking(d) \/ Trying(d) \/ Has(d, FALSE)

Device(d) == Sensed(d) /\ Told(d) /\ Tried(d)
Devices == \A d \in Iface : Device(d)

-----------------------------------------------------------------------------
\* The queue: nothing happens, an event is queued, one is taken.
LEMMA QueueSame ==
    ASSUME events' = events, NEW d \in Iface
    PROVE  /\ \A c \in BOOLEAN : (Has(d, c)' <=> Has(d, c))
           /\ link'[d] = link[d] => (Latest(d)' <=> Latest(d))
  BY DEF Has, Latest

LEMMA QueueNotify ==
    ASSUME Typed, subscribed, NEW d \in Iface, NEW c \in BOOLEAN, Notify(d, c)
    PROVE  /\ \A e \in Iface \ {d} :
                /\ \A b \in BOOLEAN : (Has(e, b)' <=> Has(e, b))
                /\ link'[e] = link[e] /\ Latest(e) => Latest(e)'
           /\ \A b \in BOOLEAN : (Has(d, b)' <=> Has(d, b) \/ b = c)
           /\ link'[d] = c => Latest(d)'
<1> DEFINE m == Len(events) + 1
<1>1. /\ DOMAIN events' = 1 .. m /\ events'[m].dev = d /\ events'[m].carrier = c
      /\ \A k \in DOMAIN events : events'[k] = events[k]
  BY NotifyType
<1>2. DOMAIN events = 1 .. Len(events) /\ Len(events) \in Nat
  BY Unfolded
<1>3. /\ m \in DOMAIN events' /\ \A k \in DOMAIN events' : k = m \/ k \in DOMAIN events
      /\ \A k \in DOMAIN events : m > k /\ k \in DOMAIN events'
  BY <1>1, <1>2
<1> HIDE DEF m
<1>4. ASSUME NEW e \in Iface \ {d}
      PROVE  /\ \A b \in BOOLEAN : (Has(e, b)' <=> Has(e, b))
             /\ link'[e] = link[e] /\ Latest(e) => Latest(e)'
  <2>1. \A b \in BOOLEAN : (Has(e, b)' <=> Has(e, b))
    BY <1>1, <1>3 DEF Has
  <2>2. ASSUME link'[e] = link[e], Latest(e) PROVE Latest(e)'
    <3>1. SUFFICES ASSUME NEW k \in DOMAIN events', events'[k].dev = e,
                          events'[k].carrier # link'[e]
                   PROVE  \E j \in DOMAIN events' :
                             j > k /\ events'[j].dev = e
                                   /\ events'[j].carrier = link'[e]
      BY DEF Latest
    <3>2. k \in DOMAIN events /\ events[k].dev = e /\ events[k].carrier # link[e]
      BY <1>1, <1>3, <2>2, <3>1
    <3>3. PICK j \in DOMAIN events :
                j > k /\ events[j].dev = e /\ events[j].carrier = link[e]
      BY <2>2, <3>2 DEF Latest
    <3> QED
      BY <1>1, <1>3, <2>2, <3>3
  <2> QED
    BY <2>1, <2>2
<1>5. \A b \in BOOLEAN : (Has(d, b)' <=> Has(d, b) \/ b = c)
  BY <1>1, <1>3 DEF Has
<1>6. ASSUME link'[d] = c PROVE Latest(d)'
  BY <1>1, <1>3, <1>6 DEF Latest
<1> QED
  BY <1>4, <1>5, <1>6

LEMMA QueueTail ==
    ASSUME Typed, events # <<>>, events' = Tail(events), NEW d \in Iface,
           NEW c \in BOOLEAN, Head(events).dev = d, Head(events).carrier = c
    PROVE  /\ \A e \in Iface \ {d} :
                /\ \A b \in BOOLEAN : (Has(e, b)' <=> Has(e, b))
                /\ link'[e] = link[e] /\ Latest(e) => Latest(e)'
           /\ \A b \in BOOLEAN : (Has(d, b) <=> Has(d, b)' \/ b = c)
           /\ link'[d] = link[d] /\ Latest(d) =>
                Latest(d)' /\ (c # link[d] => Has(d, link[d])')
<1>0. events \in Seq(Event)
  BY Unfolded
<1>1. /\ 1 \in DOMAIN events /\ events[1].dev = d /\ events[1].carrier = c
      /\ \A k \in DOMAIN events' : k + 1 \in DOMAIN events /\ k \in Int
                                   /\ events'[k] = events[k + 1]
      /\ \A k \in DOMAIN events : k \in Int /\ (k = 1 \/ k > 1)
      /\ \A k \in DOMAIN events : k = 1 \/ (/\ k - 1 \in DOMAIN events'
                                            /\ events'[k - 1] = events[k])
  BY <1>0
<1>2. ASSUME NEW e \in Iface, link'[e] = link[e], Latest(e) PROVE Latest(e)'
  <2>1. SUFFICES ASSUME NEW k \in DOMAIN events', events'[k].dev = e,
                        events'[k].carrier # link'[e]
                 PROVE  \E j \in DOMAIN events' :
                           j > k /\ events'[j].dev = e
                                 /\ events'[j].carrier = link'[e]
    BY DEF Latest
  <2>2. PICK j \in DOMAIN events :
              j > k + 1 /\ events[j].dev = e /\ events[j].carrier = link[e]
    BY <1>1, <1>2, <2>1 DEF Latest
  <2>3. k >= 1
    BY <1>0, <2>1
  <2>4. j - 1 \in DOMAIN events' /\ events'[j - 1] = events[j] /\ j - 1 > k
    BY <1>1, <2>2, <2>3
  <2> QED
    BY <1>2, <2>2, <2>4
<1>6. ASSUME NEW e \in Iface, NEW b \in BOOLEAN, Has(e, b)' PROVE Has(e, b)
  <2>1. PICK k \in DOMAIN events' : events'[k].dev = e /\ events'[k].carrier = b
    BY <1>6 DEF Has
  <2> QED
    BY <1>1, <2>1 DEF Has
<1>7. ASSUME NEW e \in Iface, NEW b \in BOOLEAN, Has(e, b)
      PROVE  Has(e, b)' \/ (e = d /\ b = c)
  <2>1. PICK k \in DOMAIN events : events[k].dev = e /\ events[k].carrier = b
    BY <1>7 DEF Has
  <2>2. CASE k = 1
    BY <1>1, <2>1, <2>2
  <2>3. CASE k - 1 \in DOMAIN events' /\ events'[k - 1] = events[k]
    BY <2>1, <2>3 DEF Has
  <2> QED
    BY <1>1, <2>2, <2>3
<1>3. ASSUME NEW e \in Iface \ {d}, NEW b \in BOOLEAN PROVE (Has(e, b)' <=> Has(e, b))
  BY <1>6, <1>7 DEF Has
<1>4. ASSUME NEW b \in BOOLEAN PROVE (Has(d, b) <=> Has(d, b)' \/ b = c)
  <2>1. c = b => Has(d, b)
    BY <1>1 DEF Has
  <2> QED
    BY <1>6, <1>7, <2>1
<1>5. ASSUME link'[d] = link[d], Latest(d), c # link[d] PROVE Has(d, link[d])'
  <2>1. PICK j \in DOMAIN events :
              j > 1 /\ events[j].dev = d /\ events[j].carrier = link[d]
    BY <1>1, <1>5 DEF Latest
  <2>2. j - 1 \in DOMAIN events' /\ events'[j - 1] = events[j]
    BY <1>1, <2>1
  <2> QED
    BY <1>5, <2>1, <2>2 DEF Has
<1> QED
  BY <1>2, <1>3, <1>4, <1>5

LEMMA NoEvents ==
    ASSUME events = <<>>, NEW d \in Iface
    PROVE  Latest(d) /\ \A c \in BOOLEAN : ~Has(d, c)
  BY DEF Latest, Has

LEMMA NoEventsNext ==
    ASSUME events' = <<>>, NEW d \in Iface
    PROVE  Latest(d)' /\ \A c \in BOOLEAN : ~Has(d, c)'
  BY DEF Latest, Has

-----------------------------------------------------------------------------
\* A step that does not concern a device leaves what is known of it.
LEMMA Same ==
    ASSUME NEW e \in Iface, Device(e), up'[e] = up[e], link'[e] = link[e],
           cable'[e] = cable[e], carrier'[e] = carrier[e],
           autoWired'[e] = autoWired[e], active'[e] = active[e],
           seen'[e] = seen[e], e \in known' <=> e \in known,
           e \in excused' <=> e \in excused,
           \A n \in 0 .. MaxSpawn : pc'[<<e, n>>] = pc[<<e, n>>],
           \A c \in BOOLEAN : Has(e, c)' <=> Has(e, c),
           Latest(e) => Latest(e)', UNCHANGED <<subscribed, started>>
    PROVE  Device(e)'
<1>1. /\ pc'[<<e, 0>>] = pc[<<e, 0>>]
      /\ Asking(e)' <=> Asking(e)
      /\ Trying(e)' <=> Trying(e)
  BY WiredConstants DEF Asking, Trying
<1>2. (Managing(e)' <=> Managing(e)) /\ (Early(e)' <=> Early(e))
  BY <1>1 DEF Managing, Early
<1>3. /\ Has(e, TRUE)' <=> Has(e, TRUE)
      /\ Has(e, FALSE)' <=> Has(e, FALSE)
  OBVIOUS
<1>4. Sensed(e)'
  BY <1>1, <1>2, <1>3 DEF Device, Sensed
<1>5. Told(e)'
  BY <1>1, <1>2, <1>3 DEF Device, Told
<1>6. Tried(e)'
  BY <1>1, <1>2, <1>3 DEF Device, Tried
<1> QED
  BY <1>4, <1>5, <1>6 DEF Device

\* One goroutine moves.
LEMMA Moves ==
    ASSUME Typed, NEW r \in Runner, NEW p \in Places, pc' = [pc EXCEPT ![r] = p]
    PROVE  /\ r[1] \in Iface /\ r[2] \in 0 .. MaxSpawn /\ r = <<r[1], r[2]>>
           /\ pc'[r] = p
           /\ \A e \in Iface, n \in 0 .. MaxSpawn :
                 <<e, n>> # r => pc'[<<e, n>>] = pc[<<e, n>>]
           /\ \A e \in Iface \ {r[1]} : \A n \in 0 .. MaxSpawn :
                 pc'[<<e, n>>] = pc[<<e, n>>]
<1>1. pc \in [Runner -> Places]
  BY Unfolded
<1>2. r[1] \in Iface /\ r[2] \in 0 .. MaxSpawn /\ r = <<r[1], r[2]>>
  BY DEF Runner
<1>3. \A e \in Iface, n \in 0 .. MaxSpawn : <<e, n>> \in Runner
  BY DEF Runner
<1>4. pc'[r] = p /\ \A q \in Runner : q # r => pc'[q] = pc[q]
  BY <1>1
<1>5. \A e \in Iface \ {r[1]} : \A n \in 0 .. MaxSpawn : <<e, n>> # r
  BY <1>2
<1> QED
  BY <1>2, <1>3, <1>4, <1>5

\* Raising a link: when the kernel senses the cable at once, a link is up or
\* what becomes of it is queued.
LEMMA RaiseDevice ==
    ASSUME Typed, NegotiatesAtOnce, NEW d \in Iface, Device(d), Raise(d)
    PROVE  /\ \A e \in Iface \ {d} :
                /\ up'[e] = up[e] /\ link'[e] = link[e]
                /\ \A b \in BOOLEAN : Has(e, b)' <=> Has(e, b)
                /\ Latest(e) => Latest(e)'
           /\ up'[d] /\ (link[d] => link'[d]) /\ Latest(d)'
           /\ up[d] => link'[d] = link[d]
           /\ ~up[d] => link'[d] = cable[d]
           /\ ~up[d] /\ subscribed => /\ (link'[d] => Has(d, TRUE)')
                                     /\ (~link'[d] => Has(d, FALSE)')
           /\ Has(d, FALSE) => Has(d, FALSE)'
           /\ up[d] /\ Has(d, FALSE)' => Has(d, FALSE)
           /\ up[d] /\ Has(d, TRUE)' => Has(d, TRUE)
           /\ Has(d, TRUE) => Has(d, TRUE)'
           /\ Has(d, TRUE)' => Has(d, TRUE) \/ link'[d]
<1>0. /\ up \in [Iface -> BOOLEAN] /\ link \in [Iface -> BOOLEAN]
      /\ cable \in [Iface -> BOOLEAN] /\ Latest(d) /\ (link[d] => up[d])
      /\ ~subscribed => events = <<>>
  BY Unfolded DEF Device, Told, Sensed, Typed, Order
<1>1. CASE up[d]
  <2>1. UNCHANGED <<up, link, events>>
    BY <1>1 DEF Raise
  <2>2. \A e \in Iface : /\ \A c \in BOOLEAN : Has(e, c)' <=> Has(e, c)
                         /\ Latest(e)' <=> Latest(e)
    BY <2>1, QueueSame
  <2>3. (Has(d, TRUE)' <=> Has(d, TRUE)) /\ (Has(d, FALSE)' <=> Has(d, FALSE))
    BY <2>2
  <2> QED
    BY <1>0, <1>1, <2>1, <2>2, <2>3
<1>2. CASE ~up[d]
  <2>1. PICK c \in BOOLEAN : /\ c = cable[d] /\ up' = [up EXCEPT ![d] = TRUE]
                             /\ link' = [link EXCEPT ![d] = c]
                             /\ Notify(d, c)
    BY <1>0, <1>2 DEF Raise
  <2>2. /\ up'[d] /\ link'[d] = c /\ ~link[d]
        /\ \A e \in Iface \ {d} : up'[e] = up[e] /\ link'[e] = link[e]
    BY <1>0, <1>2, <2>1
  <2>3. CASE subscribed
    <3>1. /\ \A e \in Iface \ {d} :
                /\ \A b \in BOOLEAN : Has(e, b)' <=> Has(e, b)
                /\ link'[e] = link[e] /\ Latest(e) => Latest(e)'
          /\ \A b \in BOOLEAN : Has(d, b)' <=> Has(d, b) \/ b = c
          /\ Latest(d)'
      BY <2>1, <2>2, <2>3, QueueNotify
    <3>2. /\ Has(d, TRUE)' <=> Has(d, TRUE) \/ c = TRUE
          /\ Has(d, FALSE)' <=> Has(d, FALSE) \/ c = FALSE
      BY <3>1
    <3>3. (link'[d] => Has(d, TRUE)') /\ (~link'[d] => Has(d, FALSE)')
      BY <2>1, <2>2, <3>2
    <3> QED
      BY <1>2, <2>1, <2>2, <3>1, <3>2, <3>3
  <2>4. CASE ~subscribed
    <3>1. events = <<>> /\ events' = events
      BY <1>0, <2>1, <2>4 DEF Notify
    <3>2. \A e \in Iface : /\ Latest(e)'
                           /\ \A b \in BOOLEAN : ~Has(e, b)' /\ ~Has(e, b)
      BY <3>1, NoEvents, NoEventsNext
    <3> QED
      BY <1>2, <2>1, <2>2, <2>4, <3>2
  <2> QED
    BY <2>3, <2>4
<1> QED
  BY <1>1, <1>2

-----------------------------------------------------------------------------
\* autoConnectWired: only whether something is tried can change.
LEMMA AutoDevice ==
    ASSUME Typed, NEW r \in Runner, NEW p \in {"idle", "profile", "add", "activate"},
           NEW d \in Iface, d = r[1], Device(d),
           pc[r] \in {"auto", "profile", "add", "activate"},
           pc' = [pc EXCEPT ![r] = p],
           UNCHANGED <<kernel, events, subscribed, started, known, carrier, seen>>,
           d \in excused => d \in excused', Tried(d)'
    PROVE  Device(d)'
<1> USE DEF kernel
<1>0. p \in Places /\ <<d, 0>> \in Runner /\ pc \in [Runner -> Places]
  BY Runners, Unfolded DEF Places
<1>1. pc'[r] = p /\ \A q \in Runner : q # r => pc'[q] = pc[q]
  BY <1>0
<1>2. \A q \in {"raise", "read", "write"} :
         pc'[<<d, 0>>] = q <=> pc[<<d, 0>>] = q
  <2>1. CASE <<d, 0>> = r
    BY <1>0, <1>1, <2>1
  <2>2. CASE <<d, 0>> # r
    BY <1>0, <1>1, <2>2
  <2> QED
    BY <2>1, <2>2
<1>3. (Managing(d)' <=> Managing(d)) /\ (Early(d)' <=> Early(d))
  BY <1>2 DEF Managing, Early
<1>4. /\ Has(d, TRUE)' <=> Has(d, TRUE)
      /\ Has(d, FALSE)' <=> Has(d, FALSE)
      /\ Latest(d)' <=> Latest(d)
  BY QueueSame
<1>5. Sensed(d)'
  BY <1>2, <1>3, <1>4 DEF Device, Sensed
<1>6. Told(d)'
  BY <1>2, <1>3, <1>4 DEF Device, Told
<1> QED
  BY <1>5, <1>6 DEF Device

LEMMA AutoSteps ==
    ASSUME Typed, Devices, NEW r \in Runner, AutoConnect(r)
    PROVE  Devices'
<1> USE DEF kernel, device
<1>0. /\ autoWired \in [Iface -> BOOLEAN] /\ active \in [Iface -> {"none", "auto", "client"}]
      /\ carrier \in [Iface -> BOOLEAN] /\ excused \subseteq Iface
      /\ pc \in [Runner -> Places]
  BY Unfolded
<1>1. PICK d \in Iface, k \in 0 .. MaxSpawn : d = r[1] /\ k = r[2] /\ r = <<d, k>>
  BY DEF Runner
<1>2. PICK p \in {"idle", "profile", "add", "activate"} :
          pc' = [pc EXCEPT ![r] = p]
  BY DEF AutoConnect, AutoCheck, AutoProfile, AutoAdd, AutoActivate, GiveUp, Goto
<1>3. /\ UNCHANGED <<kernel, events, subscribed, started, known, carrier, seen>>
      /\ pc[r] \in {"auto", "profile", "add", "activate"}
      /\ \A e \in Iface \ {d} : /\ autoWired'[e] = autoWired[e]
                                /\ active'[e] = active[e]
                                /\ e \in excused' <=> e \in excused
      /\ excused \subseteq excused'
  <2>1. CASE AutoCheck(r)
    BY <1>0, <1>1, <2>1 DEF AutoCheck
  <2>2. CASE AutoProfile(r)
    BY <1>0, <1>1, <2>2 DEF AutoProfile
  <2>3. CASE AutoAdd(r)
    BY <1>0, <1>1, <2>3 DEF AutoAdd, GiveUp
  <2>4. CASE AutoActivate(r)
    BY <1>0, <1>1, <2>4 DEF AutoActivate, GiveUp
  <2> QED
    BY <2>1, <2>2, <2>3, <2>4 DEF AutoConnect
<1>4. /\ pc'[r] = p
      /\ \A e \in Iface, n \in 0 .. MaxSpawn :
            <<e, n>> # r => pc'[<<e, n>>] = pc[<<e, n>>]
      /\ \A e \in Iface \ {d} : \A n \in 0 .. MaxSpawn :
            pc'[<<e, n>>] = pc[<<e, n>>]
  <2>1. p \in Places
    BY DEF Places
  <2> QED
    BY <1>1, <1>2, <2>1, Moves
<1>5. ASSUME NEW e \in Iface \ {d} PROVE Device(e)'
  <2>1. (\A c \in BOOLEAN : Has(e, c)' <=> Has(e, c)) /\ (Latest(e)' <=> Latest(e))
    BY <1>3, QueueSame
  <2> QED
    BY <1>3, <1>4, <2>1, Same DEF Devices
<1>6. /\ Tried(d) /\ Told(d) /\ Sensed(d)
      /\ Has(d, FALSE)' <=> Has(d, FALSE)
  BY <1>3, QueueSame DEF Devices, Device
<1>7. p \in {"profile", "add", "activate"} => Trying(d)'
  BY <1>1, <1>4 DEF Trying
<1>8. pc[r] = "auto" /\ Trying(d) => Trying(d)'
  BY <1>1, <1>4 DEF Trying
<1>9. ASSUME GiveUp(r) PROVE Tried(d)'
  BY <1>0, <1>1, <1>9 DEF GiveUp, Tried
<1>10. ASSUME AutoCheck(r) PROVE Tried(d)'
  <2>1. CASE Kickable(d)
    <3>1. /\ pc' = [pc EXCEPT ![r] = "profile"] /\ carrier[d]
          /\ UNCHANGED <<carrier, active, excused>>
      BY <1>1, <1>10, <2>1 DEF AutoCheck, Kickable, Goto
    <3>2. Trying(d)'
      BY <1>0, <1>4, <1>7, <3>1
    <3> QED
      BY <3>1, <3>2 DEF Tried
  <2>2. CASE ~Kickable(d)
    <3>1. /\ pc[r] = "auto" /\ UNCHANGED <<carrier, active, autoWired, excused>>
          /\ started' = started /\ known' = known
      BY <1>1, <1>10, <2>2 DEF AutoCheck
    <3> QED
      BY <1>0, <1>6, <1>8, <2>2, <3>1 DEF Tried, Kickable
  <2> QED
    BY <2>1, <2>2
<1>11. ASSUME AutoProfile(r) PROVE Tried(d)'
  <2>1. /\ pc' = [pc EXCEPT ![r] = IF haveProfile THEN "activate" ELSE "add"]
        /\ UNCHANGED <<carrier, autoWired>>
    BY <1>11 DEF AutoProfile, Goto
  <2>2. Trying(d)'
    BY <1>0, <1>4, <1>7, <2>1
  <2> QED
    BY <1>6, <2>1, <2>2 DEF Tried
<1>12. ASSUME AutoAdd(r) PROVE Tried(d)'
  <2>1. CASE Goto(r, "activate") /\ UNCHANGED <<autoWired, excused>>
    <3>1. p = "activate" /\ UNCHANGED <<carrier, autoWired>>
      BY <1>0, <1>3, <1>4, <2>1 DEF Goto
    <3>2. Trying(d)'
      BY <1>7, <3>1
    <3> QED
      BY <1>6, <3>1, <3>2 DEF Tried
  <2> QED
    BY <1>9, <1>12, <2>1 DEF AutoAdd
<1>13. ASSUME AutoActivate(r) PROVE Tried(d)'
  <2>1. CASE active' = [active EXCEPT ![d] = "auto"] /\ UNCHANGED <<autoWired, excused>>
    BY <1>0, <1>3, <1>6, <2>1 DEF Tried
  <2> QED
    BY <1>1, <1>9, <1>13, <2>1 DEF AutoActivate
<1>14. Tried(d)'
  BY <1>10, <1>11, <1>12, <1>13 DEF AutoConnect
<1>15. Device(d)'
  BY <1>1, <1>2, <1>3, <1>14, AutoDevice DEF Devices
<1> QED
  BY <1>5, <1>15 DEF Devices

\* manageWired
LEMMA ManageSteps ==
    ASSUME Typed, Devices, NegotiatesAtOnce, NEW d \in Iface, Manage(d)
    PROVE  Devices'
<1> USE DEF kernel
<1>0. /\ carrier \in [Iface -> BOOLEAN] /\ seen \in [Iface -> BOOLEAN \cup {None}]
      /\ link \in [Iface -> BOOLEAN] /\ pc \in [Runner -> Places]
      /\ <<d, 0>> \in Runner /\ 0 \in 0 .. MaxSpawn
  BY Unfolded, Runners, WiredConstants
<1>1. /\ Device(d) /\ Sensed(d) /\ Told(d) /\ Tried(d)
      /\ pc[<<d, 0>>] # "idle" => d \in known
  BY DEF Devices, Device, Typed, Order
<1>2. ASSUME NEW p \in Places, pc' = [pc EXCEPT ![<<d, 0>>] = p],
             UNCHANGED <<subscribed, started>>,
             \A e \in Iface \ {d} :
                /\ up'[e] = up[e] /\ link'[e] = link[e]
                /\ \A b \in BOOLEAN : Has(e, b)' <=> Has(e, b)
                /\ Latest(e) => Latest(e)'
                /\ cable'[e] = cable[e] /\ carrier'[e] = carrier[e]
                /\ autoWired'[e] = autoWired[e] /\ active'[e] = active[e]
                /\ seen'[e] = seen[e] /\ (e \in known' <=> e \in known)
                /\ (e \in excused' <=> e \in excused)
      PROVE  \A e \in Iface \ {d} : Device(e)'
  <2>1. \A e \in Iface \ {d} : \A n \in 0 .. MaxSpawn :
           pc'[<<e, n>>] = pc[<<e, n>>]
    BY <1>0, <1>2, Moves
  <2> QED
    BY <1>2, <2>1, Same DEF Devices
<1>3. ASSUME NEW p \in Places, pc' = [pc EXCEPT ![<<d, 0>>] = p],
             pc[<<d, 0>>] \in {"raise", "read", "write"}
      PROVE  /\ pc'[<<d, 0>>] = p
             /\ Trying(d) => Trying(d)'
             /\ Asking(d) => Asking(d)'
             /\ p = "auto" => Asking(d)'
  <2>1. /\ pc'[<<d, 0>>] = p
        /\ \A n \in 0 .. MaxSpawn : n # 0 => pc'[<<d, n>>] = pc[<<d, n>>]
    BY <1>0, <1>3, Moves
  <2>2. Trying(d) => Trying(d)'
    BY <1>3, <2>1 DEF Trying
  <2>3. Asking(d) => Asking(d)'
    BY <1>3, <2>1 DEF Asking
  <2>4. p = "auto" => Asking(d)'
    BY <1>0, <2>1 DEF Asking
  <2> QED
    BY <2>1, <2>2, <2>3, <2>4
<1>4. {"read", "write", "auto", "idle"} \subseteq Places
  BY DEF Places
<1>5. CASE ManageRaise(d)
  <2>1. /\ pc[<<d, 0>>] = "raise" /\ d \in known
        /\ UNCHANGED <<present, cable, subscribed, started, known, carrier,
                       autoWired, active, haveProfile, seen>>
    BY <1>1, <1>5 DEF ManageRaise
  <2>2. CASE Raise(d) /\ pc' = [pc EXCEPT ![<<d, 0>>] = "read"] /\ UNCHANGED excused
    <3>1. \A e \in Iface \ {d} : Device(e)'
      BY <1>1, <1>2, <1>4, <2>1, <2>2, RaiseDevice
    <3>2. /\ pc'[<<d, 0>>] = "read" /\ (Trying(d) => Trying(d)')
          /\ (Asking(d) => Asking(d)') /\ Managing(d) /\ Managing(d)'
      BY <1>3, <1>4, <2>1, <2>2 DEF Managing
    <3>3. /\ up'[d] /\ (link[d] => link'[d]) /\ Latest(d)'
          /\ up[d] => link'[d] = link[d]
          /\ ~up[d] => link'[d] = cable[d]
          /\ Has(d, FALSE) => Has(d, FALSE)'
          /\ Has(d, TRUE)' => Has(d, TRUE) \/ link'[d]
      BY <1>1, <2>2, RaiseDevice
    <3>4. Sensed(d)'
      BY <1>1, <2>1, <3>2, <3>3 DEF Sensed, Early
    <3>5. Told(d)'
      BY <1>1, <2>1, <3>2, <3>3 DEF Told, Sensed, Early
    <3>6. Tried(d)'
      BY <1>1, <2>1, <2>2, <3>2, <3>3 DEF Tried
    <3> QED
      BY <3>1, <3>4, <3>5, <3>6 DEF Devices, Device
  <2>3. CASE /\ pc' = [pc EXCEPT ![<<d, 0>>] = "idle"] /\ excused' = excused \cup {d}
             /\ UNCHANGED <<up, link, events>>
    <3>1. \A e \in Iface : /\ \A b \in BOOLEAN : Has(e, b)' <=> Has(e, b)
                           /\ Latest(e)' <=> Latest(e)
      BY <2>3, QueueSame
    <3>2. \A e \in Iface \ {d} : Device(e)'
      BY <1>2, <1>4, <2>1, <2>3, <3>1
    <3>3. /\ pc'[<<d, 0>>] = "idle" /\ (Trying(d) => Trying(d)')
          /\ (Has(d, TRUE)' <=> Has(d, TRUE)) /\ (Has(d, FALSE)' <=> Has(d, FALSE))
          /\ Managing(d)
      BY <1>3, <1>4, <2>1, <2>3, <3>1 DEF Managing
    <3>4. Sensed(d)'
      BY <1>1, <2>1, <2>3, <3>3 DEF Sensed, Early
    <3>5. Told(d)'
      BY <1>1, <2>1, <2>3, <3>1, <3>3 DEF Told
    <3>6. Tried(d)'
      BY <1>1, <2>1, <2>3, <3>3 DEF Tried
    <3> QED
      BY <3>2, <3>4, <3>5, <3>6 DEF Devices, Device
  <2> QED
    BY <1>5, <2>2, <2>3 DEF ManageRaise, Goto
<1>6. CASE ManageRead(d) \/ ManageWrite(d)
  <2>1. /\ pc[<<d, 0>>] \in {"read", "write"} /\ d \in known /\ Managing(d)
        /\ UNCHANGED <<kernel, events, subscribed, started, known, autoWired,
                       active, haveProfile>>
    BY <1>1, <1>6 DEF ManageRead, ManageWrite, Managing
  <2>2. \A e \in Iface : /\ \A b \in BOOLEAN : Has(e, b)' <=> Has(e, b)
                         /\ Latest(e)' <=> Latest(e)
    BY <2>1, QueueSame
  <2>3. (Has(d, TRUE)' <=> Has(d, TRUE)) /\ (Has(d, FALSE)' <=> Has(d, FALSE))
    BY <2>2
  <2>4. CASE /\ pc[<<d, 0>>] = "read" /\ pc' = [pc EXCEPT ![<<d, 0>>] = "write"]
             /\ seen' = [seen EXCEPT ![d] = link[d]] /\ UNCHANGED <<carrier, excused>>
    <3>1. \A e \in Iface \ {d} : Device(e)'
      BY <1>0, <1>2, <1>4, <2>1, <2>2, <2>4
    <3>2. /\ pc'[<<d, 0>>] = "write" /\ seen'[d] = link[d]
          /\ (Trying(d) => Trying(d)') /\ (Asking(d) => Asking(d)') /\ Managing(d)'
      BY <1>0, <1>3, <1>4, <2>4 DEF Managing
    <3>3. Sensed(d)'
      BY <1>1, <2>1, <2>3, <2>4, <3>2 DEF Sensed, Early
    <3>4. Told(d)'
      BY <1>1, <2>1, <2>2, <2>3, <2>4, <3>2 DEF Told, Sensed
    <3>5. Tried(d)'
      BY <1>1, <2>1, <2>3, <2>4, <3>2 DEF Tried
    <3> QED
      BY <3>1, <3>3, <3>4, <3>5 DEF Devices, Device
  <2>5. CASE /\ pc[<<d, 0>>] = "read" /\ pc' = [pc EXCEPT ![<<d, 0>>] = "auto"]
             /\ excused' = excused \cup {d} /\ UNCHANGED <<carrier, seen>>
    <3>1. \A e \in Iface \ {d} : Device(e)'
      BY <1>0, <1>2, <1>4, <2>1, <2>2, <2>5
    <3>2. pc'[<<d, 0>>] = "auto" /\ (Trying(d) => Trying(d)') /\ ~Managing(d)'
      BY <1>0, <1>3, <1>4, <2>5 DEF Managing
    <3>3. Sensed(d)'
      BY <1>1, <2>1, <2>3, <2>5, <3>2 DEF Sensed, Early
    <3>4. Told(d)'
      BY <1>1, <2>1, <2>2, <2>3, <2>5, <3>2 DEF Told
    <3>5. Tried(d)'
      BY <1>1, <2>1, <2>3, <2>5, <3>2 DEF Tried
    <3> QED
      BY <3>1, <3>3, <3>4, <3>5 DEF Devices, Device
  <2>6. CASE /\ pc[<<d, 0>>] = "write" /\ pc' = [pc EXCEPT ![<<d, 0>>] = "auto"]
             /\ carrier' = [carrier EXCEPT ![d] = seen[d]]
             /\ seen' = [seen EXCEPT ![d] = None] /\ UNCHANGED excused
    <3>1. \A e \in Iface \ {d} : Device(e)'
      BY <1>0, <1>2, <1>4, <2>1, <2>2, <2>6
    <3>2. /\ pc'[<<d, 0>>] = "auto" /\ (Trying(d) => Trying(d)')
          /\ Asking(d)' /\ ~Managing(d)'
      BY <1>0, <1>3, <1>4, <2>6 DEF Managing
    <3>3. carrier'[d] = link[d] /\ up[d] /\ Early(d) /\ (carrier[d] => link[d])
      BY <1>0, <1>1, <2>1, <2>6 DEF Sensed, Early
    <3>4. Sensed(d)'
      BY <1>1, <2>1, <2>3, <2>6, <3>2, <3>3 DEF Sensed, Early
    <3>5. Told(d)'
      BY <1>1, <2>1, <2>2, <2>3, <2>6, <3>2, <3>3 DEF Told
    <3>6. Tried(d)'
      BY <1>1, <2>1, <2>3, <2>6, <3>2, <3>3 DEF Tried
    <3> QED
      BY <3>1, <3>4, <3>5, <3>6 DEF Devices, Device
  <2> QED
    BY <1>6, <2>4, <2>5, <2>6 DEF ManageRead, ManageWrite, StoreCarrier, Goto
<1> QED
  BY <1>5, <1>6 DEF Manage

\* Cables, NICs, clients and the end of a connection
LEMMA OutsideSteps ==
    ASSUME Typed, Devices, NegotiatesAtOnce, NEW d \in Iface,
           Negotiate(d) \/ MoveCable(d) \/ Plug(d) \/ ClientActivate(d)
              \/ ConnectionEnds(d)
    PROVE  Devices'
<1> USE DEF kernel, device
<1>0. /\ link \in [Iface -> BOOLEAN] /\ cable \in [Iface -> BOOLEAN]
      /\ active \in [Iface -> {"none", "auto", "client"}] /\ excused \subseteq Iface
      /\ carrier \in [Iface -> BOOLEAN] /\ known \subseteq present
      /\ subscribed \in BOOLEAN /\ up \in [Iface -> BOOLEAN]
  BY Unfolded
<1>1. /\ Device(d) /\ Sensed(d) /\ Told(d) /\ Tried(d)
      /\ up[d] => d \in known
      /\ \A e \in Iface : Device(e)
  BY DEF Devices, Device, Typed, Order
\* None of them moves a goroutine or the recorded carrier.
<1>2. UNCHANGED <<subscribed, started, known, carrier, autoWired, pc, seen>>
  BY DEF Negotiate, MoveCable, Plug, ClientActivate, ConnectionEnds
<1>3. /\ (Asking(d)' <=> Asking(d)) /\ (Trying(d)' <=> Trying(d))
      /\ (Managing(d)' <=> Managing(d)) /\ (Early(d)' <=> Early(d))
  BY <1>2 DEF Asking, Trying, Managing, Early
<1>4. ASSUME \A e \in Iface \ {d} :
                /\ up'[e] = up[e] /\ link'[e] = link[e] /\ cable'[e] = cable[e]
                /\ active'[e] = active[e] /\ (e \in excused' <=> e \in excused)
                /\ \A b \in BOOLEAN : Has(e, b)' <=> Has(e, b)
                /\ Latest(e) => Latest(e)'
      PROVE  \A e \in Iface \ {d} : Device(e)'
  BY <1>1, <1>2, <1>4, Same
<1>5. CASE Negotiate(d)
  <2>1. /\ cable[d] /\ up[d] /\ ~link[d] /\ Notify(d, TRUE) /\ link'[d]
        /\ \A e \in Iface \ {d} : link'[e] = link[e]
        /\ UNCHANGED <<cable, up, active, excused>>
    BY <1>0, <1>5 DEF Negotiate
  <2>2. ~Early(d) /\ subscribed
    BY <1>0, <1>1, <2>1 DEF Sensed, Early
  <2>3. /\ \A e \in Iface \ {d} :
              /\ \A b \in BOOLEAN : Has(e, b)' <=> Has(e, b)
              /\ Latest(e) => Latest(e)'
        /\ \A b \in BOOLEAN : Has(d, b)' <=> Has(d, b) \/ b = TRUE
        /\ Latest(d)'
    BY <1>0, <2>1, <2>2, QueueNotify
  <2>4. Has(d, TRUE)' /\ (Has(d, FALSE)' <=> Has(d, FALSE))
    BY <2>3
  <2>5. \A e \in Iface \ {d} : Device(e)'
    BY <1>4, <2>1, <2>3
  <2>6. Sensed(d)'
    BY <1>1, <1>2, <1>3, <2>1, <2>2 DEF Sensed, Early, Managing
  <2>7. Told(d)'
    BY <1>1, <1>2, <1>3, <2>1, <2>2, <2>3, <2>4 DEF Told
  <2>8. Tried(d)'
    BY <1>1, <1>2, <1>3, <2>1, <2>4 DEF Tried
  <2> QED
    BY <2>5, <2>6, <2>7, <2>8 DEF Devices, Device
<1>6. CASE MoveCable(d)
  <2>1. /\ d \in known /\ started /\ subscribed /\ pc[<<d, 0>>] = "idle"
        /\ excused' = excused \ {d} /\ UNCHANGED <<up, active>>
        /\ \A e \in Iface \ {d} : cable'[e] = cable[e]
    BY <1>0, <1>6 DEF MoveCable
  <2>2. ~Early(d) /\ ~Managing(d)
    BY <2>1 DEF Early, Managing
  <2>3. CASE link[d]
    <3>1. /\ Notify(d, FALSE) /\ ~link'[d]
          /\ \A e \in Iface \ {d} : link'[e] = link[e]
      BY <1>0, <1>6, <2>3 DEF MoveCable
    <3>2. /\ \A e \in Iface \ {d} :
                /\ \A b \in BOOLEAN : Has(e, b)' <=> Has(e, b)
                /\ Latest(e) => Latest(e)'
          /\ \A b \in BOOLEAN : Has(d, b)' <=> Has(d, b) \/ b = FALSE
          /\ Latest(d)'
      <4>1. link' = [link EXCEPT ![d] = FALSE]
        BY <1>6, <2>3 DEF MoveCable
      <4> QED
        BY <1>0, <2>1, <3>1, <4>1, QueueNotify
    <3>3. Has(d, FALSE)'
      BY <3>2
    <3>4. \A e \in Iface \ {d} : Device(e)'
      BY <1>0, <1>4, <2>1, <3>1, <3>2
    <3>5. Sensed(d)'
      BY <1>1, <1>2, <1>3, <2>2, <3>1, <2>1 DEF Sensed
    <3>6. Told(d)' /\ Tried(d)'
      BY <1>1, <1>2, <1>3, <2>1, <3>2, <3>3 DEF Told, Tried
    <3> QED
      BY <3>4, <3>5, <3>6 DEF Devices, Device
  <2>4. CASE ~link[d]
    <3>1. UNCHANGED <<link, events>>
      BY <1>6, <2>4 DEF MoveCable
    <3>2. \A e \in Iface : /\ \A b \in BOOLEAN : Has(e, b)' <=> Has(e, b)
                           /\ Latest(e)' <=> Latest(e)
      BY <3>1, QueueSame
    <3>3. (Has(d, TRUE)' <=> Has(d, TRUE)) /\ (Has(d, FALSE)' <=> Has(d, FALSE))
      BY <3>2
    <3>4. \A e \in Iface \ {d} : Device(e)'
      BY <1>0, <1>4, <2>1, <3>1, <3>2
    <3>5. Sensed(d)'
      BY <1>1, <1>2, <1>3, <2>2, <3>1, <2>1 DEF Sensed
    <3>6. carrier[d] => Has(d, FALSE)
      BY <1>1, <2>1, <2>4 DEF Told
    <3>7. Told(d)' /\ Tried(d)'
      BY <1>0, <1>1, <1>2, <1>3, <2>1, <2>4, <3>1, <3>2, <3>3, <3>6 DEF Told, Tried
    <3> QED
      BY <3>4, <3>5, <3>7 DEF Devices, Device
  <2> QED
    BY <2>3, <2>4
<1>7. CASE Plug(d)
  <2>1. /\ d \notin known /\ ~up[d] /\ ~link[d] /\ Notify(d, FALSE)
        /\ UNCHANGED <<up, link, cable, active, excused>>
    BY <1>0, <1>1, <1>7 DEF Plug, Sensed
  <2>2. /\ \A e \in Iface \ {d} :
              /\ \A b \in BOOLEAN : Has(e, b)' <=> Has(e, b)
              /\ Latest(e) => Latest(e)'
        /\ Has(d, TRUE)' => Has(d, TRUE)
        /\ Has(d, FALSE) => Has(d, FALSE)'
        /\ Latest(d)'
    <3>1. CASE subscribed
      <4>1. /\ \A e \in Iface \ {d} :
                  /\ \A b \in BOOLEAN : Has(e, b)' <=> Has(e, b)
                  /\ link'[e] = link[e] /\ Latest(e) => Latest(e)'
            /\ \A b \in BOOLEAN : Has(d, b)' <=> Has(d, b) \/ b = FALSE
            /\ link'[d] = FALSE => Latest(d)'
        BY <2>1, <3>1, QueueNotify
      <4>2. (Has(d, TRUE)' => Has(d, TRUE)) /\ (Has(d, FALSE) => Has(d, FALSE)')
        BY <4>1
      <4>3. link'[d] = FALSE
        BY <1>0, <2>1
      <4> QED
        BY <2>1, <4>1, <4>2, <4>3
    <3>2. CASE ~subscribed
      <4>1. events' = events
        BY <2>1, <3>2 DEF Notify
      <4> QED
        BY <1>1, <2>1, <4>1, QueueSame DEF Told
    <3> QED
      BY <3>1, <3>2
  <2>3. \A e \in Iface \ {d} : Device(e)'
    BY <1>4, <2>1, <2>2
  <2>4. Sensed(d)'
    BY <1>1, <1>2, <1>3, <2>1, <2>2 DEF Sensed
  <2>5. Told(d)' /\ Tried(d)'
    BY <1>1, <1>2, <1>3, <2>1, <2>2 DEF Told, Tried
  <2> QED
    BY <2>3, <2>4, <2>5 DEF Devices, Device
<1>8. CASE ClientActivate(d)
  <2>1. /\ d \in known /\ Raise(d) /\ active'[d] = "client"
        /\ \A e \in Iface \ {d} : active'[e] = active[e]
        /\ UNCHANGED <<cable, excused>>
    BY <1>0, <1>8 DEF ClientActivate
  <2>2. /\ \A e \in Iface \ {d} :
              /\ up'[e] = up[e] /\ link'[e] = link[e]
              /\ \A b \in BOOLEAN : Has(e, b)' <=> Has(e, b)
              /\ Latest(e) => Latest(e)'
        /\ up'[d] /\ (link[d] => link'[d]) /\ Latest(d)'
        /\ up[d] => link'[d] = link[d]
        /\ ~up[d] => link'[d] = cable[d]
        /\ ~up[d] /\ subscribed => /\ (link'[d] => Has(d, TRUE)')
                                   /\ (~link'[d] => Has(d, FALSE)')
        /\ Has(d, FALSE) => Has(d, FALSE)'
        /\ up[d] /\ Has(d, FALSE)' => Has(d, FALSE)
        /\ Has(d, TRUE) => Has(d, TRUE)'
        /\ up[d] /\ Has(d, TRUE)' => Has(d, TRUE)
        /\ Has(d, TRUE)' => Has(d, TRUE) \/ link'[d]
    BY <1>1, <2>1, RaiseDevice
  <2>3. \A e \in Iface \ {d} : Device(e)'
    BY <1>4, <2>1, <2>2
  <2>4. Sensed(d)'
    BY <1>1, <1>2, <1>3, <2>1, <2>2 DEF Sensed
  <2>5. (/\ started /\ d \notin excused /\ ~Managing(d)
         /\ ~Has(d, TRUE)' /\ ~Has(d, FALSE)') => up[d]
    <3>1. SUFFICES ASSUME started, d \notin excused, ~Managing(d),
                          ~Has(d, TRUE)', ~Has(d, FALSE)', ~up[d]
                   PROVE  FALSE
      OBVIOUS
    <3>2. pc[<<d, 0>>] # "raise"
      BY <3>1 DEF Managing
    <3>3. subscribed
      BY <1>1, <2>1, <3>1, <3>2 DEF Told
    <3> QED
      BY <2>2, <3>1, <3>3
  <2>6. Told(d)'
    BY <1>1, <1>2, <1>3, <2>1, <2>2, <2>5 DEF Told
  <2>7. active'[d] # "none" /\ (autoWired[d] => carrier[d])
    BY <1>1, <2>1 DEF Tried
  <2>8. Tried(d)'
    BY <1>2, <2>7 DEF Tried
  <2> QED
    BY <2>3, <2>4, <2>6, <2>8 DEF Devices, Device
<1>9. CASE ConnectionEnds(d)
  <2>1. /\ excused' = excused \cup {d} /\ UNCHANGED <<up, link, cable, events>>
        /\ \A e \in Iface \ {d} : active'[e] = active[e]
    BY <1>0, <1>9 DEF ConnectionEnds
  <2>2. \A e \in Iface : /\ \A b \in BOOLEAN : Has(e, b)' <=> Has(e, b)
                         /\ Latest(e)' <=> Latest(e)
    BY <2>1, QueueSame
  <2>3. (Has(d, TRUE)' <=> Has(d, TRUE)) /\ (Has(d, FALSE)' <=> Has(d, FALSE))
    BY <2>2
  <2>4. \A e \in Iface \ {d} : Device(e)'
    BY <1>4, <2>1, <2>2
  <2>5. Sensed(d)'
    BY <1>1, <1>2, <1>3, <2>1, <2>3 DEF Sensed
  <2>6. Told(d)' /\ Tried(d)'
    BY <1>1, <1>2, <1>3, <2>1, <2>2, <2>3 DEF Told, Tried
  <2> QED
    BY <2>4, <2>5, <2>6 DEF Devices, Device
<1> QED
  BY <1>5, <1>6, <1>7, <1>8, <1>9

\* The socket is bound, and Run manages the devices it knows.
LEMMA StartSteps ==
    ASSUME Typed, Devices, Bind \/ Run
    PROVE  Devices'
<1> USE DEF kernel, device
<1> SUFFICES ASSUME NEW d \in Iface PROVE Device(d)'
  BY DEF Devices
<1>1. /\ Sensed(d) /\ Told(d) /\ Tried(d)
      /\ ~started => \A n \in 0 .. MaxSpawn : pc[<<d, n>>] = "idle"
      /\ d \in known \/ pc[<<d, 0>>] = "idle"
  BY DEF Devices, Device, Typed, Order, Runner
<1>2. /\ UNCHANGED <<kernel, events, known, carrier, autoWired, active, seen, excused>>
      /\ subscribed => subscribed'
  BY DEF Bind, Run
<1>3. /\ (Has(d, TRUE)' <=> Has(d, TRUE)) /\ (Has(d, FALSE)' <=> Has(d, FALSE))
      /\ (Latest(d)' <=> Latest(d))
  BY <1>2, QueueSame
<1>4. CASE Bind
  <2>1. UNCHANGED <<started, pc>>
    BY <1>4 DEF Bind
  <2>2. /\ (Asking(d)' <=> Asking(d)) /\ (Trying(d)' <=> Trying(d))
        /\ (Managing(d)' <=> Managing(d)) /\ (Early(d)' => Early(d))
    BY <1>2, <2>1 DEF Asking, Trying, Managing, Early
  <2>3. Sensed(d)'
    BY <1>1, <1>2, <1>3, <2>1, <2>2 DEF Sensed
  <2>4. Told(d)'
    BY <1>1, <1>2, <1>3, <1>4, <2>1, <2>2 DEF Told, Bind
  <2>5. Tried(d)'
    BY <1>1, <1>2, <1>3, <2>1, <2>2 DEF Tried
  <2> QED
    BY <2>3, <2>4, <2>5 DEF Device
<1>5. CASE Run
  <2>1. /\ ~started /\ started' = TRUE /\ UNCHANGED subscribed
        /\ pc'[<<d, 0>>] = IF d \in known THEN "raise" ELSE pc[<<d, 0>>]
    <3>1. <<d, 0>> \in Runner
      BY Runners
    <3> QED
      BY <1>5, <3>1 DEF Run
  <2>2. /\ pc'[<<d, 0>>] \in {"raise", "idle"} /\ ~Trying(d) /\ ~Managing(d)
        /\ d \in known => Managing(d)' /\ pc'[<<d, 0>>] = "raise"
        /\ Early(d)
    <3>1. 0 \in 0 .. MaxSpawn
      BY WiredConstants
    <3>2. pc[<<d, 0>>] = "idle"
      BY <1>1, <2>1, <3>1
    <3>3. ~Trying(d)
      BY <1>1, <2>1 DEF Trying
    <3>4. ~Managing(d) /\ Early(d) /\ (d \in known => Managing(d)')
      BY <2>1, <3>2 DEF Managing, Early
    <3> QED
      BY <2>1, <3>2, <3>3, <3>4
  <2>3. Sensed(d)'
    BY <1>1, <1>2, <1>3, <2>1, <2>2 DEF Sensed
  <2>4. Told(d)'
    BY <1>1, <1>2, <1>3, <2>1, <2>2 DEF Told
  <2>5. Tried(d)'
    BY <1>1, <1>2, <1>3, <2>1, <2>2 DEF Tried
  <2> QED
    BY <2>3, <2>4, <2>5 DEF Device
<1> QED
  BY <1>4, <1>5

\* Link events
LEMMA EventSteps ==
    ASSUME Typed, Devices, OnLinkEvent
    PROVE  Devices'
<1> USE DEF kernel
<1>0. /\ events \in Seq(Event) /\ carrier \in [Iface -> BOOLEAN]
      /\ autoWired \in [Iface -> BOOLEAN] /\ pc \in [Runner -> Places]
      /\ known \subseteq Iface /\ link \in [Iface -> BOOLEAN]
  BY Unfolded
<1>1. /\ events # <<>> /\ events' = Tail(events) /\ started /\ subscribed
      /\ UNCHANGED <<kernel, subscribed, started, active, haveProfile, seen, excused>>
  BY DEF OnLinkEvent
<1>2. PICK d \in Iface, c \in BOOLEAN :
            /\ Head(events).dev = d /\ Head(events).carrier = c
            /\ UpdateLink(d, c) \/ AddDevice(d, c)
  <2>1. Head(events) \in Event
    BY <1>0, <1>1
  <2>2. Head(events).dev \in Iface /\ Head(events).carrier \in BOOLEAN
    BY <2>1 DEF Event
  <2> QED
    BY <2>2 DEF OnLinkEvent
<1>3. /\ Device(d) /\ Sensed(d) /\ Told(d) /\ Tried(d) /\ \A e \in Iface : Device(e)
      /\ pc[<<d, 0>>] # "idle" => d \in known
      /\ up[d] => d \in known
  BY DEF Devices, Device, Typed, Order
<1>4. /\ \A e \in Iface \ {d} :
            /\ \A b \in BOOLEAN : Has(e, b)' <=> Has(e, b)
            /\ link'[e] = link[e] /\ Latest(e) => Latest(e)'
      /\ \A b \in BOOLEAN : Has(d, b) <=> Has(d, b)' \/ b = c
      /\ link'[d] = link[d] /\ Latest(d) =>
            Latest(d)' /\ (c # link[d] => Has(d, link[d])')
  BY <1>1, <1>2, QueueTail
<1>5. /\ Latest(d)'
      /\ (Has(d, TRUE) <=> Has(d, TRUE)' \/ c) /\ (Has(d, FALSE) <=> Has(d, FALSE)' \/ ~c)
      /\ c /\ ~link[d] => Has(d, FALSE)'
      /\ ~c /\ link[d] => Has(d, TRUE)'
  <2>1. /\ Has(d, TRUE) <=> Has(d, TRUE)' \/ TRUE = c
        /\ Has(d, FALSE) <=> Has(d, FALSE)' \/ FALSE = c
    BY <1>4
  <2>2. Latest(d) /\ link'[d] = link[d]
    BY <1>1, <1>3 DEF Told
  <2>3. /\ Latest(d)' /\ (c # link[d] => Has(d, link[d])')
    BY <1>4, <2>2
  <2>4. CASE link[d] = TRUE
    <3>1. link'[d] = TRUE
      BY <1>1, <2>4
    <3>2. c # TRUE => Has(d, TRUE)'
      BY <2>3, <2>4, <3>1 DEF Has
    <3> QED
      BY <2>1, <2>3, <2>4, <3>2
  <2>5. CASE link[d] = FALSE
    <3>1. link'[d] = FALSE
      BY <1>1, <2>5
    <3>2. c # FALSE => Has(d, FALSE)'
      BY <2>3, <2>5, <3>1 DEF Has
    <3> QED
      BY <2>1, <2>3, <2>5, <3>2
  <2> QED
    BY <2>4, <2>5, Unfolded
<1>6. ASSUME \A e \in Iface \ {d} : /\ carrier'[e] = carrier[e]
                                    /\ autoWired'[e] = autoWired[e]
                                    /\ (e \in known' <=> e \in known),
             \A e \in Iface \ {d} : \A n \in 0 .. MaxSpawn : pc'[<<e, n>>] = pc[<<e, n>>]
      PROVE  \A e \in Iface \ {d} : Device(e)'
  BY <1>1, <1>3, <1>4, <1>6, Same
<1>7. CASE AddDevice(d, c)
  <2>1. /\ d \notin known /\ known' = known \cup {d} /\ carrier'[d] = c
        /\ pc' = [pc EXCEPT ![<<d, 0>>] = "raise"] /\ UNCHANGED autoWired
        /\ \A e \in Iface \ {d} : carrier'[e] = carrier[e]
    BY <1>0, <1>7 DEF AddDevice, Goto
  <2>2. /\ pc'[<<d, 0>>] = "raise"
        /\ \A e \in Iface \ {d} : \A n \in 0 .. MaxSpawn : pc'[<<e, n>>] = pc[<<e, n>>]
        /\ \A n \in 0 .. MaxSpawn : n # 0 => pc'[<<d, n>>] = pc[<<d, n>>]
        /\ pc[<<d, 0>>] = "idle"
    BY <1>0, <1>3, <2>1, Runners, Moves, SMTT(30) DEF Places
  <2>3. \A e \in Iface \ {d} : Device(e)'
    BY <1>6, <2>1, <2>2
  <2>4. Managing(d)' /\ Early(d)' /\ Early(d) /\ ~up[d] /\ ~link[d] /\ ~carrier[d]
        /\ ~autoWired[d] /\ ~c /\ (Has(d, TRUE)' => link[d])
    BY <1>3, <1>5, <2>1, <2>2 DEF Managing, Early, Sensed, Tried
  <2>5. Sensed(d)'
    BY <1>1, <2>1, <2>2, <2>4 DEF Sensed
  <2>6. Told(d)' /\ Tried(d)'
    BY <1>1, <1>5, <2>1, <2>2, <2>4 DEF Told, Tried
  <2> QED
    BY <2>3, <2>5, <2>6 DEF Devices, Device
<1>8. CASE UpdateLink(d, c)
  <2>1. /\ d \in known /\ UNCHANGED known
        /\ carrier'[d] = c /\ (autoWired'[d] <=> autoWired[d] /\ c)
        /\ \A e \in Iface \ {d} : /\ carrier'[e] = carrier[e]
                                  /\ autoWired'[e] = autoWired[e]
    BY <1>0, <1>8 DEF UpdateLink, Record, Unmark
  <2>2. /\ \A e \in Iface \ {d} : \A n \in 0 .. MaxSpawn : pc'[<<e, n>>] = pc[<<e, n>>]
        /\ pc'[<<d, 0>>] = pc[<<d, 0>>]
        /\ (Asking(d) => Asking(d)') /\ (Trying(d) => Trying(d)')
        /\ c /\ ~carrier[d] => Asking(d)'
    <3>1. CASE c /\ ~carrier[d]
      <4>1. PICK n \in 1 .. MaxSpawn : /\ pc[<<d, n>>] = "idle"
                                       /\ pc' = [pc EXCEPT ![<<d, n>>] = "auto"]
        BY <1>8, <3>1 DEF UpdateLink, Spawn, Idle, Goto
      <4>2. /\ pc'[<<d, n>>] = "auto" /\ n \in 0 .. MaxSpawn
            /\ \A e \in Iface \ {d} : \A k \in 0 .. MaxSpawn :
                  pc'[<<e, k>>] = pc[<<e, k>>]
            /\ \A k \in 0 .. MaxSpawn : k # n => pc'[<<d, k>>] = pc[<<d, k>>]
        <5>1. PICK r \in Runner : r = <<d, n>>
          BY Runners
        <5>2. "auto" \in Places /\ pc' = [pc EXCEPT ![r] = "auto"] /\ r[1] = d
          BY <4>1, <5>1 DEF Places
        <5>3. /\ pc'[r] = "auto"
              /\ \A e \in Iface, k \in 0 .. MaxSpawn :
                    <<e, k>> # r => pc'[<<e, k>>] = pc[<<e, k>>]
              /\ \A e \in Iface \ {d} : \A k \in 0 .. MaxSpawn :
                    pc'[<<e, k>>] = pc[<<e, k>>]
          BY <5>2, Moves
        <5>4. n \in 0 .. MaxSpawn
          OBVIOUS
        <5> QED
          BY <5>1, <5>3, <5>4
      <4>3. (Asking(d) => Asking(d)') /\ (Trying(d) => Trying(d)') /\ Asking(d)'
        BY <4>1, <4>2 DEF Asking, Trying
      <4>4. pc'[<<d, 0>>] = pc[<<d, 0>>]
        BY <4>2, WiredConstants
      <4> QED
        BY <4>2, <4>3, <4>4
    <3>2. CASE ~(c /\ ~carrier[d])
      BY <1>8, <3>2 DEF UpdateLink, Asking, Trying
    <3> QED
      BY <3>1, <3>2
  <2>3. \A e \in Iface \ {d} : Device(e)'
    BY <1>6, <2>1, <2>2
  <2>4. (Managing(d)' <=> Managing(d)) /\ (Early(d)' <=> Early(d))
    BY <1>1, <2>1, <2>2 DEF Managing, Early
  <2>5. Sensed(d)'
    BY <1>1, <1>3, <1>5, <2>1, <2>2, <2>4 DEF Sensed
  <2>6. Told(d)'
    <3>1. c = link[d] \/ Has(d, TRUE)' \/ Has(d, FALSE)'
      BY <1>0, <1>5
    <3>2. carrier'[d] /\ ~link[d] => Has(d, FALSE)'
      BY <1>5, <2>1
    <3> QED
      BY <1>1, <1>5, <2>1, <3>1, <3>2 DEF Told
  <2>7. Tried(d)'
    BY <1>1, <1>3, <1>5, <2>1, <2>2, <2>4 DEF Tried
  <2> QED
    BY <2>3, <2>5, <2>6, <2>7 DEF Devices, Device
<1> QED
  BY <1>2, <1>7, <1>8

LEMMA DevicesInitially == Init => Devices
<1> SUFFICES ASSUME Init, NEW d \in Iface PROVE Device(d)
  BY DEF Devices
<1>1. Latest(d) /\ ~Has(d, TRUE) /\ ~Has(d, FALSE)
  BY NoEvents DEF Init
<1>2. pc[<<d, 0>>] = "idle"
  BY Runners DEF Init
<1>3. Sensed(d)
  BY <1>1, <1>2 DEF Init, Sensed
<1>4. Told(d)
  BY <1>1, <1>2 DEF Init, Told
<1>5. Tried(d)
  BY DEF Init, Tried
<1> QED
  BY <1>3, <1>4, <1>5 DEF Device

LEMMA DevicesStep ==
    ASSUME NegotiatesAtOnce, Typed, Devices, [Next]_vars
    PROVE  Devices'
<1>1. CASE UNCHANGED vars
  <2> SUFFICES ASSUME NEW d \in Iface PROVE Device(d)'
    BY DEF Devices
  <2>1. (\A c \in BOOLEAN : Has(d, c)' <=> Has(d, c)) /\ (Latest(d)' <=> Latest(d))
    BY <1>1, QueueSame DEF vars
  <2> QED
    BY <1>1, <2>1, Same DEF Devices, vars
<1>2. CASE Next
  BY <1>2, AutoSteps, ManageSteps, OutsideSteps, StartSteps, EventSteps DEF Next
<1> QED
  BY <1>1, <1>2

\* Where every NIC senses its cable at once, the daemon that has come to rest
\* holds the carrier the kernel reports and has connected every device with
\* one, unless an error or a client kept it offline (autowired.go:8-15).
LEMMA AtRest ==
    ASSUME Typed, Devices
    PROVE  CarrierKnown /\ WiredOnline
<1> SUFFICES ASSUME Quiet, NEW d \in known \ excused
             PROVE  carrier[d] = link[d] /\ (link[d] => active[d] # "none")
  BY DEF CarrierKnown, WiredOnline
<1>1. d \in Iface
  BY Unfolded
<1>2. /\ started /\ ~Has(d, TRUE) /\ ~Has(d, FALSE)
      /\ \A n \in 0 .. MaxSpawn : pc[<<d, n>>] = "idle"
  BY <1>1, NoEvents DEF Quiet, Runner
<1>3. pc[<<d, 0>>] = "idle"
  <2>1. 0 \in 0 .. MaxSpawn
    BY WiredConstants
  <2> QED
    BY <1>2, <2>1
<1>4. ~Managing(d) /\ ~Asking(d) /\ ~Trying(d)
  BY <1>2, <1>3 DEF Managing, Asking, Trying
<1> QED
  BY <1>1, <1>2, <1>4 DEF Devices, Device, Told, Tried

\* At rest the recorded carrier is the kernel's.
THEOREM CarrierIsKnown == NegotiatesAtOnce => (Spec => []CarrierKnown)
<1> SUFFICES ASSUME NegotiatesAtOnce PROVE Spec => []CarrierKnown
  OBVIOUS
<1>1. Init => Typed /\ Devices
  BY Initially, DevicesInitially
<1>2. Typed /\ Devices /\ [Next]_vars => (Typed /\ Devices)'
  BY TypeStep, DevicesStep
<1>3. Typed /\ Devices => CarrierKnown
  BY AtRest
<1> QED
  BY <1>1, <1>2, <1>3, PTL DEF Spec

\* At rest a device with a carrier is online, unless its connection was ended.
THEOREM DevicesOnline == NegotiatesAtOnce => (Spec => []WiredOnline)
<1> SUFFICES ASSUME NegotiatesAtOnce PROVE Spec => []WiredOnline
  OBVIOUS
<1>1. Init => Typed /\ Devices
  BY Initially, DevicesInitially
<1>2. Typed /\ Devices /\ [Next]_vars => (Typed /\ Devices)'
  BY TypeStep, DevicesStep
<1>3. Typed /\ Devices => WiredOnline
  BY AtRest
<1> QED
  BY <1>1, <1>2, <1>3, PTL DEF Spec
=============================================================================
