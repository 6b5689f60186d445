------------------------------ MODULE WpaProofs ------------------------------
(***************************************************************************)
(* Proofs about Wpa, for any number of callers, networks and restarts.     *)
(***************************************************************************)
EXTENDS Wpa, SequenceTheorems, TLAPS

\* A caller at work has a job, and past ADD_NETWORK the id of its network.
Employed ==
    \A q \in Caller :
        /\ pc[q] # "idle" => job[q] \in Jobs
        /\ pc[q] \in {"ssid", "key", "select"} => job[q].id \in Ids

\* What the supplicant selected is configured.
Selectable ==
    supp.selected # None \/ supp.state # "inactive" =>
        supp.selected \in Ids /\ nets[supp.selected] \in Networks

IInv == TypeOK /\ Employed /\ Selectable

Events == {"connected", "failed", "other"}

-----------------------------------------------------------------------------
LEMMA Initially == Init => IInv
<1> SUFFICES ASSUME Init PROVE IInv
  OBVIOUS
<1>1. TypeOK
  <2>1. inbox \in [Caller -> Seq({"connected", "failed", "other"})]
    BY DEF Init
  <2>2. stops \in 0 .. MaxStops
    BY ConstantsTyped DEF Init
  <2> QED
    BY <2>1, <2>2 DEF Init, TypeOK, SuppStates, Places
<1>2. Employed /\ Selectable
  BY DEF Init, Employed, Selectable
<1> QED
  BY <1>1, <1>2 DEF IInv

LEMMA ReturnType ==
    ASSUME TypeOK, NEW q \in Caller, Return(q)
    PROVE  /\ pc' \in [Caller -> Places] /\ job' \in [Caller -> Jobs \cup {None}]
           /\ attached' \in SUBSET Caller
           /\ inbox' \in [Caller -> Seq(Events)]
           /\ pc' = [pc EXCEPT ![q] = "idle"]
           /\ \A r \in Caller \ {q} : job'[r] = job[r]
           /\ pc'[q] = "idle" /\ inbox'[q] = <<>>
           /\ \A r \in Caller \ {q} : inbox'[r] = inbox[r]
<1>1. <<>> \in Seq(Events)
  OBVIOUS
<1> QED
  BY <1>1 DEF Return, Goto, TypeOK, Places, Events

LEMMA EmitType ==
    ASSUME TypeOK, NEW e \in Events, Emit(e)
    PROVE  /\ inbox' \in [Caller -> Seq(Events)]
           /\ \A q \in Caller :
                 \/ inbox'[q] = inbox[q]
                 \/ q \in attached /\ inbox'[q] = Append(inbox[q], e)
<1>1. \A q \in Caller : inbox[q] \in Seq(Events)
  BY DEF TypeOK, Events
<1>2. \A q \in Caller : Append(inbox[q], e) \in Seq(Events)
  BY <1>1
<1> QED
  BY <1>1, <1>2 DEF Emit

\* A step that does not move a caller: what becomes of the supplicant
LEMMA SupplicantStep ==
    ASSUME IInv, Disconnect \/ Reassociate \/ Supplicant
    PROVE  IInv'
<1> USE DEF IInv, callers, sockets, follower
<1>1. ASSUME NEW s \in SuppStates, supp' = [supp EXCEPT !.state = s],
             s # "inactive" => supp.selected # None \/ supp.state # "inactive",
             UNCHANGED <<nets, stops, attached, callers, follower>>,
             inbox' \in [Caller -> Seq(Events)]
      PROVE  IInv'
  <2>1. supp' \in [running : BOOLEAN, state : SuppStates, selected : Ids \cup {None}]
    BY <1>1 DEF TypeOK
  <2>2. supp'.state = s /\ supp'.selected = supp.selected
    BY <1>1 DEF TypeOK
  <2>3. TypeOK'
    BY <1>1, <2>1 DEF TypeOK, Events
  <2>4. Employed'
    BY <1>1 DEF Employed
  <2>5. Selectable'
    BY <1>1, <2>2 DEF Selectable
  <2> QED
    BY <2>3, <2>4, <2>5
<1>2. inbox \in [Caller -> Seq(Events)]
  BY DEF TypeOK, Events
<1>3. CASE Disconnect
  BY <1>1, <1>2, <1>3 DEF Disconnect, SuppStates
<1>4. CASE Reassociate
  BY <1>1, <1>2, <1>4 DEF Reassociate, SuppStates
<1>5. CASE Associate
  <2>1. inbox' \in [Caller -> Seq(Events)]
    BY <1>5, EmitType DEF Associate, Events
  <2> QED
    BY <1>1, <1>5, <2>1 DEF Associate, SuppStates, Selectable
<1>6. CASE Complete
  <2>1. inbox' \in [Caller -> Seq(Events)]
    BY <1>6, EmitType DEF Complete, Events
  <2> QED
    BY <1>1, <1>6, <2>1 DEF Complete, SuppStates, Selectable
<1>7. CASE Refuse
  <2>1. inbox' \in [Caller -> Seq(Events)]
    BY <1>7, EmitType DEF Refuse, Events
  <2> QED
    BY <1>1, <1>7, <2>1 DEF Refuse, SuppStates, Selectable
<1>8. CASE Lose
  <2>1. inbox' \in [Caller -> Seq(Events)]
    BY <1>8, EmitType DEF Lose, Events
  <2> QED
    BY <1>1, <1>8, <2>1 DEF Lose, SuppStates, Selectable
<1>9. CASE Stop
  <2>1. TypeOK'
    <3>1. stops' \in 0 .. MaxStops
      BY <1>9, ConstantsTyped DEF Stop, TypeOK
    <3> QED
      BY <1>9, <3>1 DEF Stop, TypeOK, SuppStates
  <2>2. Employed' /\ Selectable'
    BY <1>9 DEF Stop, Employed, Selectable
  <2> QED
    BY <2>1, <2>2
<1>10. CASE Start
  <2>1. /\ supp' \in [running : BOOLEAN, state : SuppStates,
                      selected : Ids \cup {None}]
        /\ supp'.state = supp.state /\ supp'.selected = supp.selected
    BY <1>10 DEF Start, TypeOK
  <2>2. TypeOK'
    BY <1>10, <2>1 DEF Start, TypeOK
  <2>3. Employed' /\ Selectable'
    BY <1>10, <2>1 DEF Start, Employed, Selectable
  <2> QED
    BY <2>2, <2>3
<1> QED
  BY <1>3, <1>4, <1>5, <1>6, <1>7, <1>8, <1>9, <1>10 DEF Supplicant

LEMMA FollowStep == ASSUME IInv, Follow PROVE IInv'
<1> USE DEF IInv, supplicant, callers, sockets
<1>1. UNCHANGED <<supplicant, callers, sockets>>
  BY DEF Follow, Poll, FollowerAttaches, Report, Wake, Unwatch
<1>2. Employed' /\ Selectable'
  BY <1>1 DEF Employed, Selectable
<1>3. CASE Report
  <2>1. StateOf(supp.state) \in WifiStates
    BY DEF StateOf, WifiStates
  <2>2. /\ fpc' \in {"wait", "ended"} /\ UNCHANGED watched
        /\ last' = StateOf(supp.state) \/ last' = last
    BY <1>3 DEF Report
  <2>3. StateOf(supp.state) = "connected" => Selected.ssid \in Ssid \cup {None}
    <3>1. ASSUME StateOf(supp.state) = "connected" PROVE supp.state # "inactive"
      BY <3>1 DEF StateOf
    <3> QED
      BY <3>1 DEF Selectable, Selected, Networks
  <2>4. \/ reported' = reported
        \/ reported' = [state |-> StateOf(supp.state),
                        ssid |-> IF StateOf(supp.state) = "connected"
                                 THEN Selected.ssid ELSE None]
    BY <1>3 DEF Report
  <2>5. reported' \in [state : WifiStates, ssid : Ssid \cup {None}] \cup {None}
    BY <2>1, <2>3, <2>4 DEF TypeOK
  <2>6. last' \in WifiStates \cup {None}
    BY <2>1, <2>2 DEF TypeOK
  <2> QED
    BY <1>1, <1>2, <2>2, <2>5, <2>6 DEF TypeOK
<1>4. CASE Poll \/ FollowerAttaches \/ Wake \/ Unwatch
  <2>1. /\ watched' \in BOOLEAN /\ UNCHANGED reported
        /\ fpc' \in {"none", "attach", "report", "wait", "ended"}
        /\ last' \in WifiStates \cup {None}
    BY <1>4 DEF Poll, FollowerAttaches, Wake, Unwatch, TypeOK
  <2> QED
    BY <1>1, <1>2, <2>1 DEF TypeOK
<1> QED
  BY <1>3, <1>4 DEF Follow

\* A caller goes on, to p.
LEMMA CallerStep ==
    ASSUME IInv, NEW q \in Caller,
           \/ \E s \in Ssid, seen \in BOOLEAN, typed \in {"right", "wrong"} :
                 Connect(q, s, seen, typed)
           \/ Step(q) \/ Timeout(q)
    PROVE  IInv'
<1>0. /\ pc \in [Caller -> Places] /\ job \in [Caller -> Jobs \cup {None}]
      /\ nets \in [Ids -> Networks \cup {None}]
      /\ saved \in [Ssid -> Keys \cup {None}]
      /\ inbox \in [Caller -> Seq(Events)] /\ attached \subseteq Caller
      /\ supp \in [running : BOOLEAN, state : SuppStates,
                   selected : Ids \cup {None}]
      /\ None \in Ids \cup {None} /\ <<>> \in Seq(Events)
  BY DEF IInv, TypeOK, Events
<1>1. Employed /\ Selectable
  BY DEF IInv
<1> USE DEF supplicant, callers, sockets, follower
\* What is left to prove of a move
<1>2. ASSUME NEW p \in Places, pc' = [pc EXCEPT ![q] = p],
             \A r \in Caller \ {q} : job'[r] = job[r],
             job' \in [Caller -> Jobs \cup {None}],
             p # "idle" => job'[q] \in Jobs,
             p \in {"ssid", "key", "select"} => job'[q].id \in Ids,
             nets' \in [Ids -> Networks \cup {None}],
             saved' \in [Ssid -> Keys \cup {None}],
             inbox' \in [Caller -> Seq(Events)], attached' \subseteq Caller,
             supp' \in [running : BOOLEAN, state : SuppStates,
                        selected : Ids \cup {None}],
             Selectable',
             UNCHANGED <<follower, stops>>
      PROVE  IInv'
  <2>1. TypeOK'
    BY <1>0, <1>2 DEF IInv, TypeOK, Events
  <2>2. Employed'
    BY <1>0, <1>1, <1>2 DEF Employed
  <2> QED
    BY <1>2, <2>1, <2>2 DEF IInv
<1>3. ASSUME Return(q), saved' \in [Ssid -> Keys \cup {None}],
             UNCHANGED <<supplicant, follower>>
      PROVE  IInv'
  <2>1. /\ job' \in [Caller -> Jobs \cup {None}]
        /\ attached' \in SUBSET Caller /\ inbox' \in [Caller -> Seq(Events)]
        /\ pc' = [pc EXCEPT ![q] = "idle"]
        /\ \A r \in Caller \ {q} : job'[r] = job[r]
    BY <1>3, ReturnType DEF IInv
  <2>2. Selectable'
    BY <1>1, <1>3 DEF Selectable
  <2> QED
    BY <1>0, <1>2, <1>3, <2>1, <2>2 DEF Places
<1>4. ASSUME NEW s \in Ssid, NEW seen \in BOOLEAN, NEW typed \in {"right", "wrong"},
             Connect(q, s, seen, typed)
      PROVE  IInv'
  <2> DEFINE secured == seen /\ s \in Secured
             stored == secured /\ saved[s] \in {"right", "wrong"}
             j == [ssid |-> s, id |-> None,
                   key |-> IF ~secured THEN "open"
                           ELSE IF stored THEN saved[s] ELSE typed,
                   known |-> IF secured THEN stored ELSE saved[s] # None]
  <2>1. job' = [job EXCEPT ![q] = j] /\ pc' = [pc EXCEPT ![q] = "attach"]
        /\ UNCHANGED <<supplicant, sockets, follower, saved>>
    BY <1>4 DEF Connect, Goto
  <2>2. j \in Jobs
    BY <1>0 DEF Jobs, Keys
  <2> HIDE DEF j
  <2>3. Selectable'
    BY <1>1, <2>1 DEF Selectable
  <2> QED
    BY <1>0, <1>2, <2>1, <2>2, <2>3 DEF Places
<1>5. CASE Attach(q)
  <2>1. Selectable' /\ job[q] \in Jobs
    BY <1>1, <1>5 DEF Attach, Selectable, Employed
  <2> QED
    BY <1>0, <1>2, <1>5, <2>1 DEF Attach, Goto, Places
<1>6. CASE RemoveNetworks(q)
  <2>1. /\ pc[q] = "remove" /\ pc' = [pc EXCEPT ![q] = "add"]
        /\ inbox' = [inbox EXCEPT ![q] = <<>>]
        /\ nets' = [i \in Ids |-> None]
        /\ supp' = [supp EXCEPT !.state = "inactive", !.selected = None]
        /\ UNCHANGED <<follower, saved, attached, stops, job>>
    BY <1>6 DEF RemoveNetworks, Request, Goto, Drain
  <2>2. job[q] \in Jobs
    BY <1>1, <2>1 DEF Employed
  <2>3. Selectable'
    BY <1>0, <2>1 DEF Selectable
  <2> QED
    BY <1>0, <1>2, <2>1, <2>2, <2>3 DEF Places, SuppStates
<1>7. CASE AddNetwork(q)
  <2>1. PICK i \in Ids :
           /\ Request(q, "add", "ssid")
           /\ nets' = [nets EXCEPT ![i] = [ssid |-> None, key |-> "open"]]
           /\ job' = [job EXCEPT ![q].id = i]
           /\ UNCHANGED supp
    BY <1>7 DEF AddNetwork
  <2>2. /\ pc[q] = "add" /\ pc' = [pc EXCEPT ![q] = "ssid"]
        /\ inbox' = [inbox EXCEPT ![q] = <<>>]
        /\ UNCHANGED <<follower, saved, attached, stops>>
    BY <2>1 DEF Request, Goto, Drain
  <2>3. job[q] \in Jobs
    BY <1>1, <2>2 DEF Employed
  <2>4. /\ job'[q] = [job[q] EXCEPT !.id = i]
        /\ \A r \in Caller \ {q} : job'[r] = job[r]
        /\ DOMAIN job' = Caller /\ job' = [r \in Caller |-> job'[r]]
    BY <1>0, <2>1
  <2>5. job'[q] \in Jobs /\ job'[q].id = i
    BY <2>3, <2>4 DEF Jobs
  <2>6. job' \in [Caller -> Jobs \cup {None}]
    BY <1>0, <2>4, <2>5
  <2>7. nets' \in [Ids -> Networks \cup {None}]
    BY <1>0, <2>1 DEF Networks, Keys
  <2>8. Selectable'
    <3>1. [ssid |-> None, key |-> "open"] \in Networks
      BY DEF Networks, Keys
    <3> QED
      BY <1>0, <1>1, <2>1, <3>1 DEF Selectable
  <2> QED
    BY <1>0, <1>2, <2>1, <2>2, <2>4, <2>5, <2>6, <2>7, <2>8 DEF Places
<1>8. ASSUME SetSsid(q) \/ SetKey(q) PROVE IInv'
  <2> DEFINE i == job[q].id
  <2>1. /\ pc[q] \in {"ssid", "key"} /\ nets[i] # None
        /\ \E p \in {"select", "key"} : pc' = [pc EXCEPT ![q] = p]
        /\ inbox' = [inbox EXCEPT ![q] = <<>>]
        /\ \/ nets' = [nets EXCEPT ![i].ssid = job[q].ssid]
           \/ nets' = [nets EXCEPT ![i].key = job[q].key]
        /\ UNCHANGED <<follower, saved, attached, stops, supp, job>>
    BY <1>8 DEF SetSsid, SetKey, Request, Goto, Drain
  <2>2. job[q] \in Jobs /\ i \in Ids
    BY <1>1, <2>1 DEF Employed
  <2>3. nets[i] \in Networks
    BY <1>0, <2>1, <2>2
  <2>4. \E n \in Networks : nets' = [nets EXCEPT ![i] = n]
    <3>1. [nets[i] EXCEPT !.ssid = job[q].ssid] \in Networks
      BY <2>2, <2>3 DEF Networks, Jobs
    <3>2. [nets[i] EXCEPT !.key = job[q].key] \in Networks
      BY <2>2, <2>3 DEF Networks, Jobs
    <3> QED
      BY <2>1, <3>1, <3>2
  <2> HIDE DEF i
  <2>5. nets' \in [Ids -> Networks \cup {None}]
    BY <1>0, <2>2, <2>4
  <2>6. Selectable'
    BY <1>0, <1>1, <2>1, <2>2, <2>4 DEF Selectable
  <2> QED
    BY <1>0, <1>2, <2>1, <2>2, <2>5, <2>6 DEF Places, i
<1>9. CASE SelectNetwork(q)
  <2>1. /\ pc[q] = "select" /\ nets[job[q].id] # None
        /\ pc' = [pc EXCEPT ![q] = "await"]
        /\ inbox' = [inbox EXCEPT ![q] = <<>>]
        /\ supp' = [supp EXCEPT !.state = "scanning", !.selected = job[q].id]
        /\ UNCHANGED <<follower, saved, attached, stops, nets, job>>
    BY <1>9 DEF SelectNetwork, Request, Goto, Drain
  <2>2. job[q] \in Jobs /\ job[q].id \in Ids
    BY <1>1, <2>1 DEF Employed
  <2>3. nets[job[q].id] \in Networks
    BY <1>0, <2>1, <2>2
  <2>4. /\ supp'.selected = job[q].id
        /\ supp' \in [running : BOOLEAN, state : SuppStates,
                      selected : Ids \cup {None}]
    BY <1>0, <2>1, <2>2 DEF SuppStates
  <2>5. Selectable'
    BY <2>1, <2>2, <2>3, <2>4 DEF Selectable
  <2> QED
    BY <1>0, <1>2, <2>1, <2>2, <2>4, <2>5 DEF Places
<1>10. CASE Fails(q)
  <2>1. Return(q) /\ UNCHANGED <<supplicant, follower, saved>>
    BY <1>10 DEF Fails
  <2> QED
    BY <1>0, <1>3, <2>1
<1>11. CASE Await(q)
  <2>1. pc[q] = "await" /\ inbox[q] # <<>> /\ UNCHANGED <<supplicant, follower, saved>>
    BY <1>11 DEF Await
  <2>2. job[q] \in Jobs
    BY <1>1, <2>1 DEF Employed
  <2>3. Selectable'
    BY <1>1, <2>1 DEF Selectable
  <2>4. CASE Return(q)
    BY <1>0, <1>3, <2>1, <2>4
  <2>5. CASE Goto(q, "save") /\ UNCHANGED <<attached, inbox, job>>
    BY <1>0, <1>2, <2>1, <2>2, <2>3, <2>5 DEF Goto, Places
  <2>6. CASE inbox' = [inbox EXCEPT ![q] = Tail(@)] /\ UNCHANGED <<attached, pc, job>>
    <3>1. Tail(inbox[q]) \in Seq(Events)
      BY <1>0, <2>1
    <3>2. inbox' \in [Caller -> Seq(Events)]
      BY <1>0, <2>6, <3>1
    <3>3. TypeOK'
      BY <1>0, <2>1, <2>6, <3>2 DEF IInv, TypeOK, Events
    <3>4. Employed'
      BY <1>1, <2>6 DEF Employed
    <3> QED
      BY <2>3, <3>3, <3>4 DEF IInv
  <2> QED
    BY <1>11, <2>4, <2>5, <2>6 DEF Await
<1>12. CASE Save(q)
  <2>1. /\ Return(q) /\ UNCHANGED <<supplicant, follower>>
        /\ pc[q] = "save" /\ saved' = [saved EXCEPT ![job[q].ssid] = job[q].key]
    BY <1>12 DEF Save
  <2>2. job[q] \in Jobs
    BY <1>1, <2>1 DEF Employed
  <2>3. saved' \in [Ssid -> Keys \cup {None}]
    BY <1>0, <2>1, <2>2 DEF Jobs
  <2> QED
    BY <1>3, <2>1, <2>3
<1>13. CASE Timeout(q)
  BY <1>0, <1>3, <1>13 DEF Timeout
<1> QED
  BY <1>4, <1>5, <1>6, <1>7, <1>8, <1>9, <1>10, <1>11, <1>12, <1>13 DEF Step

LEMMA StepKeeps == IInv /\ [Next]_vars => IInv'
<1> SUFFICES ASSUME IInv, [Next]_vars PROVE IInv'
  OBVIOUS
<1>1. CASE UNCHANGED vars
  BY <1>1 DEF vars, supplicant, callers, sockets, follower, IInv, TypeOK,
     Employed, Selectable
<1> QED
  BY <1>1, CallerStep, SupplicantStep, FollowStep DEF Next

\* Type correctness, for any number of callers at once: no request names a
\* network that ADD_NETWORK did not return, and a state the supplicant reports
\* as connected is that of a configured network.
THEOREM TypeCorrect == Spec => []TypeOK
<1>1. IInv => TypeOK
  BY DEF IInv
<1> QED
  BY Initially, StepKeeps, <1>1, PTL DEF Spec

-----------------------------------------------------------------------------
\* Saved keys, when Connect is called only with no other call under way

Alone == \A q, r \in Caller : pc[q] # "idle" /\ pc[r] # "idle" => q = r

\* The supplicant's networks while q builds its own and waits for it, until a
\* restart of the supplicant takes its socket
Building(q) ==
    LET id == job[q].id IN
    /\ pc[q] = "ssid" => nets[id] = [ssid |-> None, key |-> "open"]
    /\ pc[q] = "key"  => nets[id] = [ssid |-> job[q].ssid, key |-> "open"]
    /\ pc[q] \in {"select", "await"} =>
          nets[id] = [ssid |-> job[q].ssid, key |-> job[q].key]
    /\ pc[q] = "await" => supp.selected = id

\* What q has heard, or has concluded from it, is true of its own key.
Heard(q) ==
    /\ pc[q] = "await" => \A k \in DOMAIN inbox[q] :
                             inbox[q][k] = "connected" => Accepted(job[q])
    /\ pc[q] = "save" => Accepted(job[q])

KInv ==
    /\ Alone
    /\ \A q \in Caller : (q \in attached => Building(q)) /\ Heard(q)
    /\ SavedKeysWork

\* A caller moves: the others are idle.
LEMMA KeysMove ==
    ASSUME IInv, KInv, NEW q \in Caller, NEW p,
           pc' = [pc EXCEPT ![q] = p],
           \A r \in Caller \ {q} : pc[r] = "idle",
           (q \in attached => Building(q))', Heard(q)', SavedKeysWork'
    PROVE  KInv'
<1>0. pc \in [Caller -> Places]
  BY DEF IInv, TypeOK
<1>1. \A r \in Caller \ {q} : pc'[r] = "idle"
  BY <1>0
<1>2. Alone'
  BY <1>1 DEF Alone
<1>3. ASSUME NEW r \in Caller \ {q}
      PROVE  Building(r)' /\ Heard(r)'
  BY <1>1, <1>3 DEF Building, Heard
<1> QED
  BY <1>2, <1>3 DEF KInv

LEMMA KeysCaller ==
    ASSUME Serial, IInv, KInv, NEW q \in Caller,
           \/ \E s \in Ssid, seen \in BOOLEAN, typed \in {"right", "wrong"} :
                 Connect(q, s, seen, typed)
           \/ Step(q) \/ Timeout(q)
    PROVE  KInv'
<1>0. /\ pc \in [Caller -> Places] /\ job \in [Caller -> Jobs \cup {None}]
      /\ nets \in [Ids -> Networks \cup {None}]
      /\ saved \in [Ssid -> Keys \cup {None}]
      /\ inbox \in [Caller -> Seq(Events)] /\ attached \subseteq Caller
      /\ supp \in [running : BOOLEAN, state : SuppStates,
                   selected : Ids \cup {None}]
  BY DEF IInv, TypeOK, Events
<1>1. /\ pc[q] # "idle" => job[q] \in Jobs
      /\ pc[q] \in {"ssid", "key", "select"} => job[q].id \in Ids
  BY DEF IInv, Employed
<1>2. (q \in attached => Building(q)) /\ Heard(q) /\ SavedKeysWork
  BY DEF KInv
<1> USE DEF supplicant, callers, sockets, follower
<1>3. ASSUME pc[q] # "idle", NEW p, pc' = [pc EXCEPT ![q] = p],
             (q \in attached => Building(q))', Heard(q)', SavedKeysWork'
      PROVE  KInv'
  <2>1. \A r \in Caller \ {q} : pc[r] = "idle"
    BY <1>3 DEF KInv, Alone
  <2> QED
    BY <1>3, <2>1, KeysMove
<1>4. ASSUME Return(q), pc[q] # "idle", SavedKeysWork' PROVE KInv'
  <2>1. pc' = [pc EXCEPT ![q] = "idle"] /\ pc'[q] = "idle"
    BY <1>4, ReturnType DEF IInv
  <2> QED
    BY <1>3, <1>4, <2>1 DEF Building, Heard
<1>5. ASSUME UNCHANGED saved PROVE SavedKeysWork'
  BY <1>2, <1>5 DEF SavedKeysWork
<1>6. ASSUME NEW s \in Ssid, NEW seen \in BOOLEAN, NEW typed \in {"right", "wrong"},
             Connect(q, s, seen, typed)
      PROVE  KInv'
  <2>1. /\ pc' = [pc EXCEPT ![q] = "attach"] /\ UNCHANGED saved
        /\ \A r \in Caller : pc[r] = "idle"
    BY <1>6 DEF Connect, Goto
  <2>2. pc'[q] = "attach"
    BY <1>0, <2>1
  <2>3. Building(q)' /\ Heard(q)'
    BY <2>2 DEF Building, Heard
  <2> QED
    BY <1>5, <2>1, <2>3, KeysMove
<1>7. CASE Attach(q) \/ RemoveNetworks(q)
  <2>1. /\ pc[q] # "idle" /\ UNCHANGED saved
        /\ \E p \in {"remove", "add"} : pc' = [pc EXCEPT ![q] = p]
    BY <1>7 DEF Attach, RemoveNetworks, Request, Goto
  <2>2. pc'[q] \in {"remove", "add"}
    BY <1>0, <2>1
  <2>3. Building(q)' /\ Heard(q)'
    BY <2>2 DEF Building, Heard
  <2> QED
    BY <1>3, <1>5, <2>1, <2>3
<1>8. CASE AddNetwork(q)
  <2>1. PICK i \in Ids :
           /\ pc[q] = "add" /\ pc' = [pc EXCEPT ![q] = "ssid"]
           /\ nets' = [nets EXCEPT ![i] = [ssid |-> None, key |-> "open"]]
           /\ job' = [job EXCEPT ![q].id = i]
           /\ UNCHANGED saved
    BY <1>8 DEF AddNetwork, Request, Goto
  <2>2. pc'[q] = "ssid" /\ job[q] \in Jobs
    BY <1>0, <1>1, <2>1
  <2>3. job'[q].id = i
    BY <1>0, <2>1, <2>2 DEF Jobs
  <2>4. nets'[i] = [ssid |-> None, key |-> "open"]
    BY <1>0, <2>1
  <2>5. Building(q)' /\ Heard(q)'
    BY <2>2, <2>3, <2>4 DEF Building, Heard
  <2> QED
    BY <1>3, <1>5, <2>1, <2>5
<1>9. CASE SetSsid(q)
  <2>1. /\ pc[q] = "ssid" /\ q \in attached
        /\ pc' = [pc EXCEPT ![q] = IF job[q].key = "open" THEN "select" ELSE "key"]
        /\ nets' = [nets EXCEPT ![job[q].id].ssid = job[q].ssid]
        /\ UNCHANGED <<saved, job>>
    BY <1>9 DEF SetSsid, Request, Goto
  <2>2. /\ nets[job[q].id] = [ssid |-> None, key |-> "open"] /\ job[q].id \in Ids
        /\ pc'[q] = IF job[q].key = "open" THEN "select" ELSE "key"
    BY <1>0, <1>1, <1>2, <2>1 DEF Building
  <2>3. nets'[job[q].id] = [ssid |-> job[q].ssid, key |-> "open"]
    BY <1>0, <2>1, <2>2
  <2>4. Building(q)' /\ Heard(q)'
    BY <2>1, <2>2, <2>3 DEF Building, Heard
  <2> QED
    BY <1>3, <1>5, <2>1, <2>4
<1>10. CASE SetKey(q)
  <2>1. /\ pc[q] = "key" /\ q \in attached /\ pc' = [pc EXCEPT ![q] = "select"]
        /\ nets' = [nets EXCEPT ![job[q].id].key = job[q].key]
        /\ UNCHANGED <<saved, job>>
    BY <1>10 DEF SetKey, Request, Goto
  <2>2. /\ nets[job[q].id] = [ssid |-> job[q].ssid, key |-> "open"]
        /\ job[q].id \in Ids /\ pc'[q] = "select"
    BY <1>0, <1>1, <1>2, <2>1 DEF Building
  <2>3. nets'[job[q].id] = [ssid |-> job[q].ssid, key |-> job[q].key]
    BY <1>0, <2>1, <2>2
  <2>4. Building(q)' /\ Heard(q)'
    BY <2>1, <2>2, <2>3 DEF Building, Heard
  <2> QED
    BY <1>3, <1>5, <2>1, <2>4
<1>11. CASE SelectNetwork(q)
  <2>1. /\ pc[q] = "select" /\ q \in attached /\ pc' = [pc EXCEPT ![q] = "await"]
        /\ inbox' = [inbox EXCEPT ![q] = <<>>]
        /\ supp' = [supp EXCEPT !.state = "scanning", !.selected = job[q].id]
        /\ UNCHANGED <<nets, saved, job>>
    BY <1>11 DEF SelectNetwork, Request, Goto, Drain
  <2>2. /\ nets[job[q].id] = [ssid |-> job[q].ssid, key |-> job[q].key]
        /\ pc'[q] = "await" /\ inbox'[q] = <<>> /\ supp'.selected = job[q].id
    BY <1>0, <1>2, <2>1 DEF Building
  <2>3. Building(q)' /\ Heard(q)'
    BY <2>1, <2>2 DEF Building, Heard
  <2> QED
    BY <1>3, <1>5, <2>1, <2>3
<1>12. CASE Await(q)
  <2>1. pc[q] = "await" /\ inbox[q] # <<>> /\ UNCHANGED <<supplicant, saved>>
    BY <1>12 DEF Await
  <2>2. CASE Return(q)
    BY <1>4, <1>5, <2>1, <2>2
  <2>3. CASE /\ Head(inbox[q]) = "connected" /\ Goto(q, "save")
             /\ UNCHANGED <<attached, inbox, job>>
    <3>1. Accepted(job[q])
      BY <1>0, <1>2, <2>1, <2>3 DEF Heard
    <3>2. pc' = [pc EXCEPT ![q] = "save"] /\ pc'[q] = "save"
      BY <1>0, <2>3 DEF Goto
    <3>3. Building(q)' /\ Heard(q)'
      BY <2>3, <3>1, <3>2 DEF Building, Heard, Accepted
    <3> QED
      BY <1>3, <1>5, <2>1, <3>2, <3>3
  <2>4. CASE inbox' = [inbox EXCEPT ![q] = Tail(@)] /\ UNCHANGED <<attached, pc, job>>
    <3>1. inbox'[q] = Tail(inbox[q])
      BY <1>0, <2>4
    <3>2. \A k \in DOMAIN inbox'[q] :
             k + 1 \in DOMAIN inbox[q] /\ inbox'[q][k] = inbox[q][k + 1]
      BY <1>0, <2>1, <3>1
    <3>3. Heard(q)'
      BY <1>2, <2>1, <2>4, <3>2 DEF Heard, Accepted
    <3>4. (q \in attached => Building(q))'
      BY <1>2, <2>1, <2>4 DEF Building
    <3>5. pc' = [pc EXCEPT ![q] = "await"]
      BY <1>0, <2>1, <2>4
    <3> QED
      BY <1>3, <1>5, <2>1, <3>3, <3>4, <3>5
  <2> QED
    BY <1>12, <2>2, <2>3, <2>4 DEF Await
<1>13. CASE Save(q)
  <2>1. /\ pc[q] = "save" /\ Return(q)
        /\ saved' = [saved EXCEPT ![job[q].ssid] = job[q].key]
    BY <1>13 DEF Save
  <2>2. Accepted(job[q]) /\ job[q] \in Jobs
    BY <1>1, <1>2, <2>1 DEF Heard
  <2>3. SavedKeysWork'
    BY <1>0, <1>2, <2>1, <2>2 DEF SavedKeysWork, Accepted, Jobs
  <2> QED
    BY <1>4, <2>1, <2>3
<1>14. CASE Fails(q) \/ Timeout(q)
  BY <1>4, <1>5, <1>14 DEF Fails, Timeout
<1> QED
  BY <1>6, <1>7, <1>8, <1>9, <1>10, <1>11, <1>12, <1>13, <1>14 DEF Step

\* The supplicant announces an association only of the network it selected.
LEMMA KeysSupplicant ==
    ASSUME IInv, KInv, Disconnect \/ Reassociate \/ Supplicant
    PROVE  KInv'
<1> USE DEF callers, sockets, follower
<1>0. /\ inbox \in [Caller -> Seq(Events)] /\ attached \subseteq Caller
      /\ supp \in [running : BOOLEAN, state : SuppStates,
                   selected : Ids \cup {None}]
  BY DEF IInv, TypeOK, Events
<1>1. CASE Stop
  <2>1. attached' = {} /\ UNCHANGED <<inbox, saved, pc, job>>
    BY <1>1 DEF Stop
  <2>2. \A q \in Caller : Heard(q)'
    BY <2>1 DEF KInv, Heard, Accepted
  <2> QED
    BY <2>1, <2>2 DEF KInv, Alone, SavedKeysWork
\* Any other step keeps what is configured, and sends at most one event.
<1>2. ASSUME UNCHANGED <<nets, attached, saved, pc, job>>,
             supp'.selected = supp.selected,
             NEW e \in Events, e = "connected" => Accepted(Selected),
             \A q \in Caller :
                 \/ inbox'[q] = inbox[q]
                 \/ q \in attached /\ inbox'[q] = Append(inbox[q], e)
      PROVE  KInv'
  <2>1. Alone' /\ SavedKeysWork'
    BY <1>2 DEF KInv, Alone, SavedKeysWork
  <2>2. ASSUME NEW q \in Caller PROVE (q \in attached => Building(q))'
    BY <1>2 DEF KInv, Building
  <2>3. ASSUME NEW q \in Caller PROVE Heard(q)'
    <3>1. CASE inbox'[q] = inbox[q]
      BY <1>2, <3>1 DEF KInv, Heard, Accepted
    <3>2. CASE q \in attached /\ inbox'[q] = Append(inbox[q], e)
      <4>1. e = "connected" /\ pc[q] = "await" => Accepted(job[q])
        <5>1. pc[q] = "await" =>
                 Selected = [ssid |-> job[q].ssid, key |-> job[q].key]
          BY <3>2 DEF KInv, Building, Selected
        <5> QED
          BY <1>2, <5>1 DEF Accepted
      <4>2. \A k \in DOMAIN inbox'[q] :
               \/ k \in DOMAIN inbox[q] /\ inbox'[q][k] = inbox[q][k]
               \/ inbox'[q][k] = e
        BY <1>0, <3>2
      <4> QED
        BY <1>2, <4>1, <4>2 DEF KInv, Heard, Accepted
    <3> QED
      BY <1>2, <3>1, <3>2
  <2> QED
    BY <2>1, <2>2, <2>3 DEF KInv
<1>3. CASE Disconnect \/ Reassociate \/ Start
  <2>1. /\ UNCHANGED <<nets, attached, saved, pc, job, inbox>>
        /\ supp'.selected = supp.selected
    BY <1>0, <1>3 DEF Disconnect, Reassociate, Start
  <2> QED
    BY <1>2, <2>1 DEF Events
<1>4. CASE Associate \/ Lose
  <2>1. /\ UNCHANGED <<nets, attached, saved, pc, job>> /\ Emit("other")
        /\ supp'.selected = supp.selected
    BY <1>0, <1>4 DEF Associate, Lose
  <2>2. "other" \in Events
    BY DEF Events
  <2> QED
    BY <1>2, <2>1, <2>2, EmitType DEF IInv
<1>5. CASE Refuse
  <2>1. /\ UNCHANGED <<nets, attached, saved, pc, job>> /\ Emit("failed")
        /\ supp'.selected = supp.selected
    BY <1>0, <1>5 DEF Refuse
  <2>2. "failed" \in Events
    BY DEF Events
  <2> QED
    BY <1>2, <2>1, <2>2, EmitType DEF IInv
<1>6. CASE Complete
  <2>1. /\ UNCHANGED <<nets, attached, saved, pc, job>> /\ Emit("connected")
        /\ supp'.selected = supp.selected /\ Accepted(Selected)
    BY <1>0, <1>6 DEF Complete
  <2>2. "connected" \in Events
    BY DEF Events
  <2> QED
    BY <1>2, <2>1, <2>2, EmitType DEF IInv
<1> QED
  BY <1>1, <1>3, <1>4, <1>5, <1>6 DEF Supplicant

\* With one Connect at a time, only keys that the network has accepted are
\* saved, whatever becomes of the supplicant.  Each request throws away the
\* events of the network before; a socket lost to a restart hears no more.
THEOREM KeysWork == Serial => (Spec => []SavedKeysWork)
<1> SUFFICES ASSUME Serial PROVE Spec => []SavedKeysWork
  OBVIOUS
<1>1. Init => KInv
  BY DEF Init, KInv, Alone, Heard, SavedKeysWork
<1>2. IInv /\ KInv /\ [Next]_vars => KInv'
  <2> SUFFICES ASSUME IInv, KInv, [Next]_vars PROVE KInv'
    OBVIOUS
  <2>1. CASE Follow \/ UNCHANGED vars
    <3>1. UNCHANGED <<supp, nets, attached, inbox, saved, pc, job>>
      BY <2>1 DEF Follow, Poll, FollowerAttaches, Report, Wake, Unwatch, vars,
         supplicant, callers, sockets
    <3> QED
      BY <3>1 DEF KInv, Alone, Building, Heard, Accepted, SavedKeysWork
  <2> QED
    BY <2>1, KeysCaller, KeysSupplicant DEF Next
<1>3. KInv => SavedKeysWork
  BY DEF KInv
<1> QED
  BY <1>1, <1>2, <1>3, Initially, StepKeeps, PTL DEF Spec
=============================================================================
