---------------------------- MODULE Connectivity ----------------------------
(***************************************************************************)
(* The reachability the root object shows: Manager.pollConnectivity with   *)
(* the probe of sys/conn.go, Manager.setState and CheckConnectivity        *)
(* (internal/nmapi/manager.go).  Run polls on a ticker, every activation   *)
(* polls when it has settled and a client may ask for a probe, each in a   *)
(* goroutine of its own.  A poll probes without a lock, stores the result  *)
(* under Manager.mu, publishes it after releasing the lock, and then does  *)
(* the same with the global state derived from it.                         *)
(***************************************************************************)
EXTENDS Naturals

CONSTANTS
    Ticker,      \* the goroutine of Run
    Caller,      \* goroutines that poll now and then: clients, activations
    Answers,     \* what the network lets a probe see
    None,        \* no value
    MaxShifts    \* bound on the changes of the network

Poller == Caller \cup {Ticker}

ASSUME ConnectivityConstants ==
    /\ Ticker \notin Caller
    /\ Answers \subseteq {"none", "portal", "limited", "full"}
    /\ None \notin Answers \cup {"unknown"}
    /\ MaxShifts \in Nat

VARIABLES
    net,            \* what a probe would answer now
    shifts,         \* changes of net so far
    connectivity,   \* Manager.connectivity
    state,          \* Manager.state
    shown,          \* the properties Connectivity and State on the bus
    pc, probed      \* each poller's place and the result of its probe

vars == <<net, shifts, connectivity, state, shown, pc, probed>>

Derived(c) == CASE c = "full" -> "global"
                [] c \in {"limited", "portal"} -> "site"
                [] c = "none" -> "local"

Init ==
    /\ net \in Answers /\ shifts = 0
    /\ connectivity = "unknown" /\ state = "disconnected"
    /\ shown = [Connectivity |-> "unknown", State |-> "disconnected"]
    /\ pc = [p \in Poller |-> "idle"]
    /\ probed = [p \in Poller |-> None]

-----------------------------------------------------------------------------
Goto(p, l) == pc' = [pc EXCEPT ![p] = l]

Shift ==
    /\ shifts < MaxShifts /\ shifts' = shifts + 1
    /\ net' \in Answers \ {net}
    /\ UNCHANGED <<connectivity, state, shown, pc, probed>>

Poll(p) ==
    /\ pc[p] = "idle"
    /\ Goto(p, "probe")
    /\ UNCHANGED <<net, shifts, connectivity, state, shown, probed>>

\* A transport failure is ConnNone together with an error; pollConnectivity
\* gives the poll up on any error.
Usable(c) == c # "none"

\* The request may also fail although the network is there.
Probe(p) ==
    /\ pc[p] = "probe"
    /\ \/ /\ Usable(net)
          /\ probed' = [probed EXCEPT ![p] = net]
          /\ Goto(p, "store")
       \/ Goto(p, "return") /\ UNCHANGED probed
    /\ UNCHANGED <<net, shifts, connectivity, state, shown>>

Store(p) ==
    /\ pc[p] = "store"
    /\ connectivity' = probed[p]
    /\ Goto(p, "show")
    /\ UNCHANGED <<net, shifts, state, shown, probed>>

\* mutant: published only together with a new state
ShowWithState(c) ==
    shown' = [shown EXCEPT !.Connectivity = IF state = Derived(c) THEN @ ELSE c]
ShowConnectivity(c) == shown' = [shown EXCEPT !.Connectivity = c]

Show(p) ==
    /\ pc[p] = "show"
    /\ ShowConnectivity(probed[p])
    /\ Goto(p, "setState")
    /\ UNCHANGED <<net, shifts, connectivity, state, probed>>

ShowState(s) == shown' = [shown EXCEPT !.State = s]

SetState(p) ==
    /\ pc[p] = "setState"
    /\ LET s == Derived(probed[p]) IN
       IF state = s THEN Goto(p, "return") /\ UNCHANGED state
                    ELSE Goto(p, "showState") /\ state' = s
    /\ UNCHANGED <<net, shifts, connectivity, shown, probed>>

PublishState(p) ==
    /\ pc[p] = "showState"
    /\ ShowState(Derived(probed[p]))
    /\ Goto(p, "return")
    /\ UNCHANGED <<net, shifts, connectivity, state, probed>>

\* CheckConnectivity returns Manager.connectivity, whatever became of its poll.
Return(p) ==
    /\ pc[p] = "return"
    /\ Goto(p, "idle")
    /\ probed' = [probed EXCEPT ![p] = None]
    /\ UNCHANGED <<net, shifts, connectivity, state, shown>>

Step(p) == Probe(p) \/ Store(p) \/ Show(p) \/ SetState(p) \/ PublishState(p)
             \/ Return(p)

Next == Shift \/ \E p \in Poller : Poll(p) \/ Step(p)

Spec == Init /\ [][Next]_vars

\* The ticker goes on for ever, a poll that has begun ends (the probe has a
\* timeout), and a request does not fail for ever on a network that answers.
FairSpec ==
    /\ Spec
    /\ WF_vars(Poll(Ticker))
    /\ \A p \in Poller : WF_vars(Step(p))
    /\ SF_vars(Probe(Ticker) /\ pc'[Ticker] = "store")

-----------------------------------------------------------------------------
\* Every variable holds a value of its kind.
TypeOK ==
    /\ net \in Answers /\ shifts \in 0 .. MaxShifts
    /\ connectivity \in (Answers \ {"none"}) \cup {"unknown"}
    /\ state \in {"disconnected", "local", "site", "global"}
    /\ shown \in [Connectivity : Answers \cup {"unknown"},
                  State : {"disconnected", "local", "site", "global"}]
    /\ pc \in [Poller -> {"idle", "probe", "store", "show", "setState",
                          "showState", "return"}]
    /\ probed \in [Poller -> Answers \cup {None}]

\* On a network that stays as it is, and answers, the daemon comes to hold the
\* right connectivity and state and clients to see the right Connectivity,
\* whatever polls overlap and in whatever order they finish.
ConnectivityTracks ==
    \A c \in Answers \ {"none"} :
        <>[](net = c)
            => <>[](/\ connectivity = c /\ shown.Connectivity = c
                    /\ state = Derived(c))
=============================================================================
