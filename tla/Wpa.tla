--------------------------------- MODULE Wpa ---------------------------------
(***************************************************************************)
(* The wpa_supplicant backend (internal/backend/wpa) on one interface:     *)
(* Connect, called by the goroutines that bring up wifi connections,       *)
(* Disconnect and SetPowered, and the follower that Subscribe keeps        *)
(* running to report the supplicant's state.                               *)
(*                                                                         *)
(* A socket receives the answers to its requests and, once attached, every *)
(* event of the interface, in the order they were sent; request throws the *)
(* events away that come before its answer, so a request and its answer    *)
(* are one step that empties the inbox.  The supplicant's list of networks *)
(* is shared by all callers, and its ids start again when it is emptied.   *)
(*                                                                         *)
(* The supplicant is modelled as Connect has to expect it: it associates   *)
(* with the selected network, fails, loses it, stops and starts again.     *)
(* Scanning for networks and their signal strength are left out.           *)
(***************************************************************************)
EXTENDS Naturals, Sequences, FiniteSets

CONSTANTS
    Caller,    \* the goroutines that call Connect
    Ssid,      \* the networks
    Secured,   \* those that want a passphrase
    None,      \* nil
    Serial,    \* TRUE: Connect is called only when no other call is under way
    MaxEvents, \* the events a socket holds, later ones are dropped
    MaxStops   \* bound on the restarts of the supplicant

ASSUME ConstantsTyped ==
    /\ Secured \subseteq Ssid /\ None \notin Ssid
    /\ Serial \in BOOLEAN /\ MaxEvents \in Nat /\ MaxStops \in Nat

VARIABLES
    supp,     \* the supplicant: running, its state and the selected network
    nets,     \* nets[i]: its configured networks
    attached, \* the callers with a socket attached to it
    inbox,    \* the events their sockets hold, oldest first
    saved,    \* saved[s]: the key in the profile of network s, or None
    pc, job,  \* where each caller is, and what it connects to
    watched,  \* Subscribe: watched[name]
    fpc, last,\* where the follower is, and the last state it saw
    reported, \* the last WifiEvent
    stops     \* how often the supplicant was stopped

supplicant == <<supp, nets, stops>>
callers    == <<saved, pc, job>>
sockets    == <<attached, inbox>>
follower   == <<watched, fpc, last, reported>>
vars       == <<supplicant, callers, sockets, follower>>

-----------------------------------------------------------------------------
\* A passphrase the network accepts or not, and no passphrase
Keys == {"right", "wrong", "open"}

Ids == 0 .. Cardinality(Caller)

SuppStates == {"inactive", "scanning", "associating", "completed"}
WifiStates == {"disconnected", "connecting", "connected"}

Networks == [ssid : Ssid \cup {None}, key : Keys]
Jobs     == [ssid : Ssid, key : Keys, known : BOOLEAN, id : Ids \cup {None}]

Places == {"idle", "attach", "remove", "add", "ssid", "key", "select",
           "await", "save"}

Init ==
    /\ supp = [running |-> TRUE, state |-> "inactive", selected |-> None]
    /\ nets = [i \in Ids |-> None]
    /\ attached = {} /\ inbox = [q \in Caller |-> <<>>]
    /\ saved = [s \in Ssid |-> None]
    /\ pc = [q \in Caller |-> "idle"] /\ job = [q \in Caller |-> None]
    /\ watched = FALSE /\ fpc = "none" /\ last = None /\ reported = None
    /\ stops = 0

-----------------------------------------------------------------------------
\* Connect, by caller q

Goto(q, place) == pc' = [pc EXCEPT ![q] = place]

\* Connect returns, and closes its socket.
Return(q) ==
    /\ Goto(q, "idle")
    /\ job' = [job EXCEPT ![q] = None]
    /\ attached' = attached \ {q}
    /\ inbox' = [inbox EXCEPT ![q] = <<>>]

\* SCAN_RESULTS tells whether the network is secured (one that is not in the
\* list counts as open); the key is the saved one, or else the user's.
Connect(q, s, seen, typed) ==
    LET secured == seen /\ s \in Secured
        stored  == secured /\ saved[s] \in {"right", "wrong"} IN
    /\ pc[q] = "idle" /\ supp.running
    /\ Serial => \A r \in Caller : pc[r] = "idle"
    /\ job' = [job EXCEPT ![q] =
                [ssid |-> s, id |-> None,
                 key |-> IF ~secured THEN "open"
                         ELSE IF stored THEN saved[s] ELSE typed,
                 known |-> IF secured THEN stored ELSE saved[s] # None]]
    /\ Goto(q, "attach")
    /\ UNCHANGED <<supplicant, sockets, follower, saved>>

\* dial and ATTACH
Attach(q) ==
    /\ pc[q] = "attach" /\ supp.running
    /\ attached' = attached \cup {q}
    /\ Goto(q, "remove")
    /\ UNCHANGED <<supplicant, follower, saved, job, inbox>>

\* mutant: the events before the answer are kept
Kept(q) == inbox' = inbox

\* client.request skips the events before the answer.
Drain(q) == inbox' = [inbox EXCEPT ![q] = <<>>]

Request(q, from, to) ==
    /\ pc[q] = from /\ q \in attached
    /\ Goto(q, to)
    /\ Drain(q)
    /\ UNCHANGED <<follower, saved, attached, stops>>

RemoveNetworks(q) ==
    /\ Request(q, "remove", "add")
    /\ nets' = [i \in Ids |-> None]
    /\ supp' = [supp EXCEPT !.state = "inactive", !.selected = None]
    /\ UNCHANGED job

\* ADD_NETWORK: the id after the highest in use
AddNetwork(q) ==
    \E i \in Ids :
        /\ Request(q, "add", "ssid")
        /\ \A j \in Ids : nets[j] # None <=> j < i
        /\ nets' = [nets EXCEPT ![i] = [ssid |-> None, key |-> "open"]]
        /\ job' = [job EXCEPT ![q].id = i]
        /\ UNCHANGED supp

SetSsid(q) ==
    /\ Request(q, "ssid", IF job[q].key = "open" THEN "select" ELSE "key")
    /\ nets[job[q].id] # None
    /\ nets' = [nets EXCEPT ![job[q].id].ssid = job[q].ssid]
    /\ UNCHANGED <<supp, job>>

SetKey(q) ==
    /\ Request(q, "key", "select")
    /\ nets[job[q].id] # None
    /\ nets' = [nets EXCEPT ![job[q].id].key = job[q].key]
    /\ UNCHANGED <<supp, job>>

SelectNetwork(q) ==
    /\ Request(q, "select", "await")
    /\ nets[job[q].id] # None
    /\ supp' = [supp EXCEPT !.state = "scanning", !.selected = job[q].id]
    /\ UNCHANGED <<nets, job>>

\* A request that is answered FAIL (the network is gone) or not at all (the
\* supplicant was stopped), or a profile that cannot be written
Fails(q) ==
    /\ \/ /\ pc[q] = "attach" /\ ~supp.running
       \/ /\ pc[q] \in {"remove", "add", "ssid", "key", "select"}
          /\ q \notin attached
       \/ /\ pc[q] \in {"ssid", "key", "select"}
          /\ nets[job[q].id] = None
       \/ pc[q] = "save"
    /\ Return(q)
    /\ UNCHANGED <<supplicant, follower, saved>>

\* awaitConnected: the first event of association or of its failure decides.
Await(q) ==
    /\ pc[q] = "await" /\ inbox[q] # <<>>
    /\ \/ /\ Head(inbox[q]) = "connected" /\ ~job[q].known
          /\ Goto(q, "save")
          /\ UNCHANGED <<attached, inbox, job>>
       \/ /\ Head(inbox[q]) = "connected" /\ job[q].known
          /\ Return(q)
       \/ /\ Head(inbox[q]) = "failed"
          /\ Return(q)
       \/ /\ Head(inbox[q]) = "other"
          /\ inbox' = [inbox EXCEPT ![q] = Tail(@)]
          /\ UNCHANGED <<attached, pc, job>>
    /\ UNCHANGED <<supplicant, follower, saved>>

\* mutant: every event starts the timeout again
QuietTimeout(q) ==
    /\ pc[q] = "await" /\ inbox[q] = <<>>
    /\ Return(q)
    /\ UNCHANGED <<supplicant, follower, saved>>

\* awaitConnected: the deadline set when it began
Timeout(q) ==
    /\ pc[q] = "await"
    /\ Return(q)
    /\ UNCHANGED <<supplicant, follower, saved>>

\* saveProfile
Save(q) ==
    /\ pc[q] = "save"
    /\ saved' = [saved EXCEPT ![job[q].ssid] = job[q].key]
    /\ Return(q)
    /\ UNCHANGED <<supplicant, follower>>

Step(q) ==
    \/ Attach(q) \/ RemoveNetworks(q) \/ AddNetwork(q)
    \/ SetSsid(q) \/ SetKey(q) \/ SelectNetwork(q)
    \/ Fails(q) \/ Await(q) \/ Save(q)

-----------------------------------------------------------------------------
\* Disconnect and SetPowered, called by teardowns and by clients: one request
\* from a socket of its own

Disconnect ==
    /\ supp.running
    /\ supp' = [supp EXCEPT !.state = "inactive"]
    /\ UNCHANGED <<nets, stops, callers, sockets, follower>>

Reassociate ==
    /\ supp.running /\ supp.state = "inactive" /\ supp.selected # None
    /\ supp' = [supp EXCEPT !.state = "scanning"]
    /\ UNCHANGED <<nets, stops, callers, sockets, follower>>

-----------------------------------------------------------------------------
\* The supplicant

\* An event reaches the attached sockets that have room for it.
Emit(event) ==
    inbox' = [q \in Caller |->
                IF q \in attached /\ Len(inbox[q]) < MaxEvents
                THEN Append(inbox[q], event) ELSE inbox[q]]

Selected == nets[supp.selected]

\* It finds the selected network, unless that is out of range.
Associate ==
    /\ supp.state = "scanning"
    /\ Selected.ssid # None
    /\ supp' = [supp EXCEPT !.state = "associating"]
    /\ Emit("other")
    /\ UNCHANGED <<nets, stops, attached, callers, follower>>

Accepted(net) == net.key = IF net.ssid \in Secured THEN "right" ELSE "open"

Complete ==
    /\ supp.state = "associating"
    /\ Accepted(Selected)
    /\ supp' = [supp EXCEPT !.state = "completed"]
    /\ Emit("connected")
    /\ UNCHANGED <<nets, stops, attached, callers, follower>>

\* The network refuses it, and it will try again.
Refuse ==
    /\ supp.state = "associating"
    /\ supp' = [supp EXCEPT !.state = "scanning"]
    /\ Emit("failed")
    /\ UNCHANGED <<nets, stops, attached, callers, follower>>

\* It loses the network, before or after it has joined it, and looks for it.
Lose ==
    /\ supp.state \in {"associating", "completed"}
    /\ supp' = [supp EXCEPT !.state = "scanning"]
    /\ Emit("other")
    /\ UNCHANGED <<nets, stops, attached, callers, follower>>

Stop ==
    /\ supp.running /\ stops < MaxStops
    /\ stops' = stops + 1
    /\ supp' = [running |-> FALSE, state |-> "inactive", selected |-> None]
    /\ nets' = [i \in Ids |-> None]
    /\ attached' = {}
    /\ UNCHANGED <<inbox, callers, follower>>

Start ==
    /\ ~supp.running
    /\ supp' = [supp EXCEPT !.running = TRUE]
    /\ UNCHANGED <<nets, stops, callers, sockets, follower>>

Supplicant == Associate \/ Complete \/ Refuse \/ Lose \/ Stop \/ Start

-----------------------------------------------------------------------------
\* Subscribe polls for interfaces without a follower.
Poll ==
    /\ supp.running /\ ~watched
    /\ watched' = TRUE
    /\ fpc' = "attach"
    /\ UNCHANGED <<supplicant, callers, sockets, last, reported>>

\* follow: dial and ATTACH.  Its socket only wakes it, which its read timeout
\* does, too.
FollowerAttaches ==
    /\ fpc = "attach"
    /\ last' = None
    /\ fpc' = IF supp.running THEN "report" ELSE "ended"
    /\ UNCHANGED <<supplicant, callers, sockets, watched, reported>>

StateOf(state) ==
    CASE state = "completed"   -> "connected"
      [] state = "associating" -> "connecting"
      [] OTHER                 -> "disconnected"

\* report: a STATUS that differs from the last one is passed on; without an
\* answer the follower ends.
Report ==
    LET now == StateOf(supp.state) IN
    /\ fpc = "report"
    /\ IF supp.running
       THEN /\ fpc' = "wait"
            /\ last' = now
            /\ reported' =
                 IF now = last THEN reported
                 ELSE [state |-> now,
                       ssid |-> IF now = "connected" THEN Selected.ssid
                                                     ELSE None]
       ELSE fpc' = "ended" /\ UNCHANGED <<last, reported>>
    /\ UNCHANGED <<supplicant, callers, sockets, watched>>

\* An event, or devicePoll without one
Wake ==
    /\ fpc = "wait"
    /\ fpc' = "report"
    /\ UNCHANGED <<supplicant, callers, sockets, watched, last, reported>>

\* mutant: the interface stays marked
StaysWatched ==
    /\ fpc = "ended"
    /\ fpc' = "none"
    /\ UNCHANGED <<supplicant, callers, sockets, watched, last, reported>>

\* follow has returned: the next poll may start it again.
Unwatch ==
    /\ fpc = "ended"
    /\ fpc' = "none" /\ watched' = FALSE
    /\ UNCHANGED <<supplicant, callers, sockets, last, reported>>

Follow == Poll \/ FollowerAttaches \/ Report \/ Wake \/ Unwatch

-----------------------------------------------------------------------------
Next ==
    \/ \E q \in Caller :
          \/ \E s \in Ssid, seen \in BOOLEAN, typed \in {"right", "wrong"} :
                Connect(q, s, seen, typed)
          \/ Step(q) \/ Timeout(q)
    \/ Disconnect \/ Reassociate
    \/ Supplicant
    \/ Follow

Spec == Init /\ [][Next]_vars

\* A caller keeps running and its deadline passes; so do the follower and the
\* poll.  Nothing is assumed of the supplicant.
FairSpec ==
    /\ Spec
    /\ \A q \in Caller : WF_vars(Step(q)) /\ WF_vars(Timeout(q))
    /\ WF_vars(Follow)

-----------------------------------------------------------------------------
\* Every variable holds a value of its kind.
TypeOK ==
    /\ supp \in [running : BOOLEAN, state : SuppStates,
                 selected : Ids \cup {None}]
    /\ nets \in [Ids -> Networks \cup {None}]
    /\ attached \in SUBSET Caller
    /\ inbox \in [Caller -> Seq({"connected", "failed", "other"})]
    /\ saved \in [Ssid -> Keys \cup {None}]
    /\ pc \in [Caller -> Places]
    /\ job \in [Caller -> Jobs \cup {None}]
    /\ watched \in BOOLEAN
    /\ fpc \in {"none", "attach", "report", "wait", "ended"}
    /\ last \in WifiStates \cup {None}
    /\ reported \in [state : WifiStates, ssid : Ssid \cup {None}] \cup {None}
    /\ stops \in 0 .. MaxStops

\* Only a key the network has accepted is saved, however its association and
\* that of the network before it come and go while Connect runs: a saved key is
\* used without asking from then on, so a wrong one would lock the user out.
SavedKeysWork ==
    \A s \in Ssid : saved[s] # None =>
        saved[s] = IF s \in Secured THEN "right" ELSE "open"

\* Connect returns within its deadlines, whatever the supplicant does: it
\* cannot be cancelled, and a bring-up waits for it.
ConnectReturns == \A q \in Caller : pc[q] # "idle" ~> pc[q] = "idle"

\* Once the supplicant's state no longer changes, it is the one reported, also
\* after the supplicant was restarted under a follower.
StateReported ==
    \A st \in WifiStates :
        <>[](supp.running /\ StateOf(supp.state) = st)
            => <>[](reported # None /\ reported.state = st)
=============================================================================
