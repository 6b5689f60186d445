---------------------------- MODULE AccessPoints ----------------------------
(***************************************************************************)
(* The access points a wifi device shows (internal/nmapi/wireless.go and   *)
(* accesspoint.go): scanAndPopulate, run at start, by the rescan loop and  *)
(* by RequestScan, and populateAPs, also run after an association.  Each   *)
(* runs in a goroutine of its own.  populateAPs reconciles the device's    *)
(* list under Device.mu and then, without it, exports the new objects,     *)
(* announces and withdraws them and publishes the list.                    *)
(*                                                                         *)
(* An access point is a number, the one apGen gives its path.  The order   *)
(* of the list and the properties of the access points are left out; the   *)
(* bus takes every export.                                                 *)
(***************************************************************************)
EXTENDS Naturals, FiniteSets, Functions

CONSTANTS
    Loop,     \* the goroutine that rescans for ever
    Request,  \* goroutines started by RequestScan
    Follow,   \* goroutines that only populate, after an association
    Handle,   \* the networks, by the backend's handle
    MaxAP,    \* bound on the access point objects created
    MaxMoves  \* bound on the changes of the airspace

Scanner == Request \cup {Loop}
Worker  == Scanner \cup Follow

ASSUME AccessPointConstants ==
    /\ Loop \notin Request \cup Follow /\ Request \cap Follow = {}
    /\ IsFiniteSet(Handle)
    /\ MaxAP \in Nat /\ MaxMoves \in Nat

VARIABLES
    air, moves,    \* the networks in range; how often they changed
    found,         \* what the last completed scan found
    activating,    \* Device.state is between prepare and activated
    byHandle,      \* Device.apByHandle, and with it Device.aps
    apGen,         \* the last access point number given out
    exported,      \* the access point objects on the bus
    viewed,        \* those announced by a signal and not withdrawn
    published,     \* the AccessPoints property
    pc, nets,      \* each goroutine's place, and what it read from the backend
    added, removed, paths  \* its share of the work once the lock is released

device == <<byHandle, apGen>>
bus    == <<exported, viewed, published>>
local  == <<nets, added, removed, paths>>
world  == <<air, moves, found, activating>>
vars   == <<air, moves, found, activating, byHandle, apGen, exported, viewed,
            published, pc, nets, added, removed, paths>>

\* byHandle is a partial function from handles to access points.
Listed == Range(byHandle)

Init ==
    /\ air \in SUBSET Handle /\ moves = 0
    /\ found = {} /\ activating = FALSE
    /\ byHandle = [h \in {} |-> 0] /\ apGen = 0
    /\ exported = {} /\ viewed = {} /\ published = {}
    /\ pc = [w \in Worker |-> "idle"]
    /\ nets = [w \in Worker |-> {}]
    /\ added = [w \in Worker |-> {}] /\ removed = [w \in Worker |-> {}]
    /\ paths = [w \in Worker |-> {}]

-----------------------------------------------------------------------------
Goto(w, p) == pc' = [pc EXCEPT ![w] = p]

\* Networks come and go; activations of the device begin and end.
Move ==
    /\ moves < MaxMoves /\ moves' = moves + 1
    /\ air' \in (SUBSET Handle) \ {air}
    /\ UNCHANGED <<found, activating, device, bus, pc, local>>

Activation ==
    /\ moves < MaxMoves
    /\ activating' = ~activating /\ moves' = moves + 1
    /\ UNCHANGED <<air, found, device, bus, pc, local>>

Begin(w) ==
    /\ pc[w] = "idle"
    /\ Goto(w, IF w \in Follow THEN "read" ELSE "check")
    /\ UNCHANGED <<world, device, bus, local>>

\* No scan while the device is being activated.
Check(w) ==
    /\ pc[w] = "check"
    /\ Goto(w, IF activating THEN "idle" ELSE "scan")
    /\ UNCHANGED <<world, device, bus, local>>

\* The backend's scan fails or completes; its result is not looked at.
Scan(w) ==
    /\ pc[w] = "scan"
    /\ found' \in {found, air}
    /\ Goto(w, "read")
    /\ UNCHANGED <<air, moves, activating, device, bus, local>>

Read(w) ==
    /\ pc[w] = "read"
    /\ \/ Goto(w, "reconcile") /\ nets' = [nets EXCEPT ![w] = found]
       \/ Goto(w, "idle") /\ UNCHANGED nets     \* OrderedNetworks fails
    /\ UNCHANGED <<world, device, bus, added, removed, paths>>

Unknown(w) == nets[w] \ DOMAIN byHandle

\* mutant: what is gone is withdrawn but stays on the list
Kept(w) == DOMAIN byHandle
Surviving(w) == nets[w] \cap DOMAIN byHandle

\* Under Device.mu: survivors keep their object, new networks get one.
Reconcile(w) ==
    /\ pc[w] = "reconcile"
    /\ LET new == apGen + 1 .. apGen + Cardinality(Unknown(w)) IN
       /\ apGen + Cardinality(Unknown(w)) <= MaxAP
       /\ apGen' = apGen + Cardinality(Unknown(w))
       /\ \E f \in Bijection(Unknown(w), new) :
             byHandle' = [h \in Surviving(w) \cup Unknown(w) |->
                             IF h \in Unknown(w) THEN f[h] ELSE byHandle[h]]
       /\ added' = [added EXCEPT ![w] = new]
       /\ removed' = [removed EXCEPT ![w] =
                         {byHandle[h] : h \in DOMAIN byHandle \ nets[w]}]
       /\ paths' = [paths EXCEPT ![w] = Listed']
    /\ nets' = [nets EXCEPT ![w] = {}]
    /\ Goto(w, "work")
    /\ UNCHANGED <<world, bus>>

\* The added access points are exported and announced first, in any order here.
Export(w) ==
    /\ pc[w] = "work"
    /\ \E a \in added[w] :
          /\ exported' = exported \cup {a}
          /\ viewed' = viewed \cup {a}
          /\ added' = [added EXCEPT ![w] = @ \ {a}]
    /\ UNCHANGED <<world, device, published, pc, nets, removed, paths>>

Withdraw(a) == viewed' = viewed \ {a} /\ exported' = exported \ {a}

Unexport(w) ==
    /\ pc[w] = "work" /\ added[w] = {}
    /\ \E a \in removed[w] :
          /\ Withdraw(a)
          /\ removed' = [removed EXCEPT ![w] = @ \ {a}]
    /\ UNCHANGED <<world, device, published, pc, nets, added, paths>>

\* mutant: the list is published only once
PublishedOnce(w) == IF published = {} THEN paths[w] ELSE published
Publication(w) == paths[w]

Publish(w) ==
    /\ pc[w] = "work" /\ added[w] = {} /\ removed[w] = {}
    /\ published' = Publication(w)
    /\ paths' = [paths EXCEPT ![w] = {}]
    /\ Goto(w, "idle")
    /\ UNCHANGED <<world, device, exported, viewed, nets, added, removed>>

Step(w) == Check(w) \/ Scan(w) \/ Read(w) \/ Reconcile(w) \/ Export(w)
             \/ Unexport(w) \/ Publish(w)

Next == Move \/ Activation \/ \E w \in Worker : Begin(w) \/ Step(w)

Spec == Init /\ [][Next]_vars

\* The rescan loop goes on, what has begun ends, and a backend that is asked
\* again and again does not fail every time.
FairSpec ==
    /\ Spec
    /\ WF_vars(Begin(Loop))
    /\ \A w \in Worker : WF_vars(Step(w))
    /\ SF_vars(Scan(Loop) /\ found' = air)
    /\ SF_vars(Read(Loop) /\ pc'[Loop] = "reconcile")

-----------------------------------------------------------------------------
\* Every variable holds a value of its kind.
TypeOK ==
    /\ air \in SUBSET Handle /\ moves \in 0 .. MaxMoves
    /\ found \in SUBSET Handle /\ activating \in BOOLEAN
    /\ DOMAIN byHandle \in SUBSET Handle
    /\ byHandle \in [DOMAIN byHandle -> 1 .. MaxAP]
    /\ apGen \in 0 .. MaxAP
    /\ exported \in SUBSET (1 .. MaxAP) /\ viewed \in SUBSET (1 .. MaxAP)
    /\ published \in SUBSET (1 .. MaxAP)
    /\ pc \in [Worker -> {"idle", "check", "scan", "read", "reconcile", "work"}]
    /\ nets \in [Worker -> SUBSET Handle]
    /\ added \in [Worker -> SUBSET (1 .. MaxAP)]
    /\ removed \in [Worker -> SUBSET (1 .. MaxAP)]
    /\ paths \in [Worker -> SUBSET (1 .. MaxAP)]

\* However populations overlap, an access point on the device's list is on the
\* bus or about to be: its goroutine has yet to export it, and nobody is going
\* to take it off the bus.
ListedReachable ==
    \A a \in Listed :
        /\ a \in exported \/ \E w \in Worker : a \in added[w]
        /\ \A w \in Worker : a \notin removed[w]

\* One object has one goroutine that exports it and one that withdraws it.
OneOwner ==
    \A v, w \in Worker : v # w =>
        added[v] \cap added[w] = {} /\ removed[v] \cap removed[w] = {}

\* Once nothing changes any more and no activation holds the scans up, the
\* property comes to name exactly the networks in range, all of them on the
\* bus, whatever goroutines ran before.
ListTracks ==
    \A S \in SUBSET Handle :
        <>[](air = S /\ ~activating)
            => <>[](/\ DOMAIN byHandle = S
                    /\ published = Listed
                    /\ published \subseteq exported)
=============================================================================
