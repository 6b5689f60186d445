-------------------------------- MODULE Iwd --------------------------------
(***************************************************************************)
(* The iwd backend (internal/backend/iwd/iwd.go) against an iwd that comes *)
(* up after the daemon, is restarted, and moves its station by itself.     *)
(*                                                                         *)
(* iwd asks a registered agent for passphrases.  The agent has to be       *)
(* registered again with every iwd; the flag registered says whether it is *)
(* with the present one, as far as the goroutine that watches the owner of *)
(* the bus name has got.  Connect registers it too, puts its secret        *)
(* function under the network's path and calls iwd, which may then ask.    *)
(* The follower started by Subscribe turns signals of the station into     *)
(* events; it reads the network and the device's name when it comes to     *)
(* them, not when they were sent.                                          *)
(*                                                                         *)
(* There is one wifi device.  The n-th iwd process is the number n, its    *)
(* network objects have the same paths as the last one's.  The bus         *)
(* delivers signals in order (godbus does up to 16 that wait).             *)
(***************************************************************************)
EXTENDS Naturals, Sequences

CONSTANTS
    Caller,      \* the goroutines that call Connect
    Network,     \* the networks, by path
    None,        \* an absent value
    Discipline,  \* how the callers behave, see MayConnect
    BootSteady,  \* an iwd found by New does not go before New has returned
    Budgets      \* bounds to choose from, see Budget

\* How many starts of iwd, moves of its station, changes of its power and
\* Connects there may be
Budget == [starts : Nat, moves : Nat, powers : Nat, connects : Nat]

ASSUME IwdConstants ==
    /\ None \notin Caller \cup Network \cup {"new", "watch"}
    /\ Caller \cap {"new", "watch"} = {}
    /\ Discipline \in {"free", "considerate"}
    /\ BootSteady \in BOOLEAN
    /\ Budgets \subseteq Budget

Thread == {"new", "watch"} \cup Caller  \* those that register the agent

VARIABLES
    owner,         \* the iwd that owns the name, 0 while none does
    owners,        \* iwds so far
    agentAt,       \* the last iwd that accepted the agent
    station,       \* its station: state and network
    powered,       \* Device.Powered: without it there is no station
    call,          \* call[c]: how far iwd is with c's Network.Connect
    ownerSignals,  \* NameOwnerChanged signals the watcher has not taken
    watched,       \* whether the watcher gets them yet
    registered,    \* Backend.registered
    mu,            \* the holder of Backend.mu
    pending,       \* agent.pending: whose secret function a network has
    got,           \* got[c]: whose secret function answered for c's call
    pc,            \* where each goroutine is
    net,           \* net[c]: the path c connects to
    steady,        \* history: the iwd that has been there, and known to the
                   \* watcher, all through c's Connect, or 0
    signals,       \* station signals the follower has not taken: states
    follower,      \* where the follower is
    heard,         \* the state the follower handles
    reported,      \* the last event: state and network
    left           \* what is left of the budget

agentVars   == <<agentAt, registered, mu>>
secretVars  == <<call, pending, got, net, steady>>
stationVars == <<station, powered>>
followVars  == <<follower, heard, reported>>

vars == <<owner, owners, agentVars, stationVars, secretVars, ownerSignals,
          watched, pc, signals, followVars, left>>

-----------------------------------------------------------------------------
Disconnected == [state |-> "disconnected", network |-> None]

States == {"disconnected", "connecting", "connected", "disconnecting"}

Stations ==
    {Disconnected} \cup [state : States \ {"disconnected"}, network : Network]

PC == {"register", "call", "reply", "watch", "done", "off", "idle", "find",
       "set", "connect", "wait", "clear"}

Init ==
    /\ owner \in {0, 1} /\ owners = owner
    /\ agentAt = 0
    /\ station = Disconnected /\ powered = TRUE
    /\ call = [c \in Caller |-> "none"]
    /\ ownerSignals = <<>> /\ watched = FALSE
    /\ registered = FALSE /\ mu = None
    /\ pending = [n \in Network |-> None]
    /\ got = [c \in Caller |-> None]
    /\ pc = [t \in Thread |-> IF t \in Caller THEN "idle"
                              ELSE IF t = "new" THEN "register" ELSE "off"]
    /\ net = [c \in Caller |-> None]
    /\ steady = [c \in Caller |-> 0]
    /\ signals = <<>>
    /\ follower = "off" /\ heard = "disconnected" /\ reported = Disconnected
    /\ left \in Budgets

Spend(what) == left[what] > 0 /\ left' = [left EXCEPT ![what] = @ - 1]

Goto(t, place) == pc' = [pc EXCEPT ![t] = place]

-----------------------------------------------------------------------------
\* registerAgent, by New, by the watcher and by every Connect

After(t) ==
    IF t \in Caller THEN "find" ELSE IF t = "new" THEN "watch" ELSE "idle"

\* mutant: the lock is given back before the call to iwd
LockBriefly(t) == UNCHANGED mu
\* It is held over the call.
Lock(t) == mu' = t

\* The test of the flag under Backend.mu
RegisterAgent(t) ==
    /\ pc[t] = "register" /\ mu = None
    /\ \/ registered /\ Goto(t, After(t)) /\ UNCHANGED mu
       \/ ~registered /\ Lock(t) /\ Goto(t, "call")
    /\ UNCHANGED <<owner, owners, agentAt, registered, stationVars,
                   secretVars, ownerSignals, watched, signals, followVars,
                   left>>

\* The call: an error when there is no iwd or it has the agent already
RegisterCall(t) ==
    /\ pc[t] = "call"
    /\ \/ /\ owner # 0 /\ agentAt # owner
          /\ agentAt' = owner
          /\ Goto(t, "reply") /\ UNCHANGED mu
       \/ /\ owner = 0 \/ agentAt = owner
          /\ mu' = None
          /\ Goto(t, After(t)) /\ UNCHANGED agentAt
    /\ UNCHANGED <<owner, owners, registered, stationVars, secretVars,
                   ownerSignals, watched, signals, followVars, left>>

RegisterReply(t) ==
    /\ pc[t] = "reply"
    /\ registered' = TRUE
    /\ mu' = None
    /\ Goto(t, After(t))
    /\ UNCHANGED <<owner, owners, agentAt, stationVars, secretVars,
                   ownerSignals, watched, signals, followVars, left>>

Register(t) == RegisterAgent(t) \/ RegisterCall(t) \/ RegisterReply(t)

\* watchIwdOwner: from here on the signals come.
WatchIwdOwner ==
    /\ pc["new"] = "watch"
    /\ watched' = TRUE
    /\ pc' = [pc EXCEPT !["new"] = "done", !["watch"] = "idle"]
    /\ UNCHANGED <<owner, owners, agentVars, stationVars, secretVars,
                   ownerSignals, signals, followVars, left>>

\* The watcher takes a signal: the flag is cleared under the lock, and the
\* agent registered when there is a new owner.
OwnerChanged ==
    /\ pc["watch"] = "idle" /\ mu = None
    /\ ownerSignals # <<>>
    /\ registered' = FALSE
    /\ ownerSignals' = Tail(ownerSignals)
    /\ Goto("watch", IF Head(ownerSignals) # 0 THEN "register" ELSE "idle")
    /\ UNCHANGED <<owner, owners, agentAt, mu, stationVars, secretVars,
                   watched, signals, followVars, left>>

-----------------------------------------------------------------------------
\* "free": Connects come at any time.  "considerate": at most one at a time to
\* a network.
MayConnect(n) ==
    Discipline = "considerate" =>
        \A c \in Caller : pc[c] # "idle" => net[c] # n

\* Connect, from registerAgent to the return
Connect(c, n) ==
    /\ pc[c] = "idle" /\ MayConnect(n) /\ Spend("connects")
    /\ net' = [net EXCEPT ![c] = n]
    /\ steady' = [steady EXCEPT ![c] =
                    IF watched /\ ownerSignals = <<>> /\ pc["watch"] = "idle"
                    THEN owner ELSE 0]
    /\ Goto(c, "register")
    /\ UNCHANGED <<owner, owners, agentVars, stationVars, call, pending, got,
                   ownerSignals, watched, signals, followVars>>

Return(c) ==
    /\ Goto(c, "idle")
    /\ net' = [net EXCEPT ![c] = None]
    /\ steady' = [steady EXCEPT ![c] = 0]

\* findNetwork: an error when there is no iwd, no device or no such network
FindNetwork(c) ==
    /\ pc[c] = "find"
    /\ \/ owner # 0 /\ Goto(c, "set") /\ UNCHANGED <<net, steady>>
       \/ Return(c)
    /\ UNCHANGED <<owner, owners, agentVars, stationVars, call, pending, got,
                   ownerSignals, watched, signals, followVars, left>>

\* mutant: one slot for all networks
SetAny(c) == pending' = [n \in Network |-> c]
\* agent.set
Set(c) == pending' = [pending EXCEPT ![net[c]] = c]

SetSecret(c) ==
    /\ pc[c] = "set"
    /\ Set(c)
    /\ Goto(c, "connect")
    /\ UNCHANGED <<owner, owners, agentVars, stationVars, call, got, net,
                   steady, ownerSignals, watched, signals, followVars, left>>

\* Network.Connect reaches iwd, or fails at once.
CallConnect(c) ==
    /\ pc[c] = "connect"
    /\ \/ owner # 0 /\ call' = [call EXCEPT ![c] = "made"] /\ Goto(c, "wait")
       \/ Goto(c, "clear") /\ UNCHANGED call
    /\ UNCHANGED <<owner, owners, agentVars, stationVars, pending, got, net,
                   steady, ownerSignals, watched, signals, followVars, left>>

\* iwd, at work on the call, asks the agent.
AskAgent(c) ==
    /\ call[c] = "made" /\ agentAt = owner
    /\ call' = [call EXCEPT ![c] = "asking"]
    /\ UNCHANGED <<owner, owners, agentVars, stationVars, pending, got, net,
                   steady, ownerSignals, watched, pc, signals, followVars,
                   left>>

\* agent.RequestPassphrase: None stands for the error "no secret provider".
RequestPassphrase(c) ==
    /\ call[c] = "asking"
    /\ got' = [got EXCEPT ![c] = pending[net[c]]]
    /\ call' = [call EXCEPT ![c] = "answered"]
    /\ UNCHANGED <<owner, owners, agentVars, stationVars, pending, net,
                   steady, ownerSignals, watched, pc, signals, followVars,
                   left>>

\* iwd answers: connected, failed, aborted by a Disconnect; or is gone.
ConnectReturns(c) ==
    /\ pc[c] = "wait"
    /\ call' = [call EXCEPT ![c] = "none"]
    /\ got' = [got EXCEPT ![c] = None]
    /\ Goto(c, "clear")
    /\ UNCHANGED <<owner, owners, agentVars, stationVars, pending, net,
                   steady, ownerSignals, watched, signals, followVars, left>>

\* mutant: the function of a Connect that failed stays, here the one of a
\* Connect that has lost its iwd
ClearIfPresent(c) ==
    pending' = IF owner = 0 THEN pending ELSE [pending EXCEPT ![net[c]] = None]
\* agent.clear, deferred
Clear(c) == pending' = [pending EXCEPT ![net[c]] = None]

ClearSecret(c) ==
    /\ pc[c] = "clear"
    /\ Clear(c)
    /\ Return(c)
    /\ UNCHANGED <<owner, owners, agentVars, stationVars, call, got,
                   ownerSignals, watched, signals, followVars, left>>

ConnectStep(c) ==
    \/ FindNetwork(c) \/ SetSecret(c) \/ CallConnect(c) \/ AskAgent(c)
    \/ RequestPassphrase(c) \/ ConnectReturns(c) \/ ClearSecret(c)

-----------------------------------------------------------------------------
\* iwd and its station

TellOwner(o) ==
    ownerSignals' = IF watched THEN Append(ownerSignals, o) ELSE ownerSignals

\* Signals of the station come once the follower's channel is there.
Tell(state) ==
    signals' = IF follower # "off" THEN Append(signals, state) ELSE signals

\* Calls to an iwd that goes fail.
IwdStops ==
    /\ owner # 0
    /\ BootSteady => watched
    /\ owner' = 0
    /\ station' = Disconnected
    /\ call' = [c \in Caller |-> "none"]
    /\ got' = [c \in Caller |-> None]
    /\ steady' = [c \in Caller |-> 0]
    /\ TellOwner(0)
    /\ UNCHANGED <<owners, agentVars, powered, pending, net, watched, pc,
                   signals, followVars, left>>

\* A new iwd adds its station, powered as its configuration says.
IwdStarts ==
    /\ owner = 0 /\ Spend("starts")
    /\ owner' = owners + 1 /\ owners' = owners + 1
    /\ TellOwner(owners + 1)
    /\ powered' \in BOOLEAN
    /\ IF powered' THEN Tell("disconnected") ELSE UNCHANGED signals
    /\ UNCHANGED <<agentVars, station, secretVars, watched, pc, followVars>>

\* What a station may do next
Moves(s) ==
    {m \in Stations :
        \/ m = Disconnected /\ s # Disconnected
        \/ s = Disconnected /\ m.state = "connecting"
        \/ /\ <<s.state, m.state>> \in {<<"connecting", "connected">>,
                                       <<"connected", "disconnecting">>}
           /\ m.network = s.network}

StationMoves ==
    /\ owner # 0 /\ powered /\ Spend("moves")
    /\ station' \in Moves(station)
    /\ Tell(station'.state)
    /\ UNCHANGED <<owner, owners, agentVars, powered, secretVars,
                   ownerSignals, watched, pc, followVars>>

\* Device.Powered is set: the station goes, or a new one is added.
Power(on) ==
    /\ powered' = on
    /\ station' = IF on = powered THEN station ELSE Disconnected
    /\ IF on /\ ~powered THEN Tell("disconnected") ELSE UNCHANGED signals

\* SetPowered, which fails while there is no iwd.  So may others set it.
SetPowered(on) ==
    /\ owner # 0 /\ Spend("powers")
    /\ Power(on)
    /\ UNCHANGED <<owner, owners, agentVars, secretVars, ownerSignals,
                   watched, pc, followVars>>

-----------------------------------------------------------------------------
\* Subscribe: the channel is there before the objects are read.  (Bound: not
\* where the station cannot move any more.)
Subscribe ==
    /\ follower = "off" /\ pc["new"] = "done" /\ left.moves > 0
    /\ follower' = "snapshot"
    /\ UNCHANGED <<owner, owners, agentVars, stationVars, secretVars,
                   ownerSignals, watched, pc, signals, heard, reported, left>>

\* mutant: Subscribe waits for the first signal
SnapshotSkipped == follower' = "loop" /\ UNCHANGED heard
Snapshot ==
    \/ /\ owner # 0 /\ powered
       /\ heard' = station.state
       /\ follower' = "name"
    \/ /\ owner = 0 \/ ~powered
       /\ follower' = "loop" /\ UNCHANGED heard

FirstObjects ==
    /\ follower = "snapshot"
    /\ Snapshot
    /\ UNCHANGED <<owner, owners, agentVars, stationVars, secretVars,
                   ownerSignals, watched, pc, signals, reported, left>>

\* dispatch
Dispatch ==
    /\ follower = "loop" /\ signals # <<>>
    /\ heard' = Head(signals)
    /\ signals' = Tail(signals)
    /\ follower' = "name"
    /\ UNCHANGED <<owner, owners, agentVars, stationVars, secretVars,
                   ownerSignals, watched, pc, reported, left>>

Report(state, network) ==
    reported' = [state |-> state, network |-> network]

\* emit: deviceName.  An event without a device's name is for nobody.
DeviceName ==
    /\ follower = "name"
    /\ \/ owner = 0 /\ follower' = "loop" /\ UNCHANGED reported
       \/ /\ owner # 0 /\ heard = "connected"
          /\ follower' = "network" /\ UNCHANGED reported
       \/ /\ owner # 0 /\ heard # "connected"
          /\ Report(heard, None)
          /\ follower' = "loop"
    /\ UNCHANGED <<owner, owners, agentVars, stationVars, secretVars,
                   ownerSignals, watched, pc, signals, heard, left>>

\* emit: connectedSSID, of the station as it is now
ConnectedSSID ==
    /\ follower = "network"
    /\ Report("connected", station.network)
    /\ follower' = "loop"
    /\ UNCHANGED <<owner, owners, agentVars, stationVars, secretVars,
                   ownerSignals, watched, pc, signals, heard, left>>

Follow == Subscribe \/ FirstObjects \/ Dispatch \/ DeviceName \/ ConnectedSSID

-----------------------------------------------------------------------------
Next ==
    \/ \E t \in Thread : Register(t)
    \/ WatchIwdOwner \/ OwnerChanged
    \/ \E c \in Caller, n \in Network : Connect(c, n)
    \/ \E c \in Caller : ConnectStep(c)
    \/ IwdStops \/ IwdStarts \/ StationMoves
    \/ \E on \in BOOLEAN : SetPowered(on)
    \/ Follow

Spec == Init /\ [][Next]_vars

-----------------------------------------------------------------------------
\* Every variable holds a value of its kind.
TypeOK ==
    /\ owners \in Nat /\ owner \in 0 .. owners
    /\ agentAt \in 0 .. owners
    /\ station \in Stations /\ powered \in BOOLEAN
    /\ call \in [Caller -> {"none", "made", "asking", "answered"}]
    /\ ownerSignals \in Seq(Nat)
    /\ watched \in BOOLEAN /\ registered \in BOOLEAN
    /\ mu \in Thread \cup {None}
    /\ pending \in [Network -> Caller \cup {None}]
    /\ got \in [Caller -> Caller \cup {None}]
    /\ pc \in [Thread -> PC]
    /\ net \in [Caller -> Network \cup {None}]
    /\ steady \in [Caller -> Nat]
    /\ signals \in Seq(States)
    /\ follower \in {"off", "snapshot", "loop", "name", "network"}
    /\ heard \in States
    /\ reported \in [state : States, network : Network \cup {None}]
    /\ left \in Budget

\* The watcher knows of the present owner.
Informed == watched /\ ownerSignals = <<>> /\ pc["watch"] = "idle"

\* Once the watcher has caught up, a flag that is set is true of the present
\* iwd, whoever registered the agent meanwhile and with whichever iwd: an
\* untrue one would keep the agent from ever being registered.
RegisteredIsTrue == Informed /\ registered /\ owner # 0 => agentAt = owner

\* A Connect that begins when the watcher has caught up, to an iwd that stays,
\* has the agent registered when its call is made: also with the iwd that came
\* between the registration New tried and the watch, which no signal tells of.
ConnectHasAgent ==
    \A c \in Caller : call[c] # "none" /\ steady[c] # 0 => agentAt = owner

\* Nobody's secret outlives its Connect, and none is kept under a network it is
\* not for: iwd would be given the key of an older profile.
PendingInFlight ==
    \A n \in Network : pending[n] # None =>
        pc[pending[n]] \in {"connect", "wait", "clear"} /\ net[pending[n]] = n

\* iwd is answered with the secret of the very Connect it asks for.
OwnSecret == \A c \in Caller : call[c] = "answered" => got[c] = c

\* When the follower has taken every signal, the last event it sent is what
\* the station is, with the network it is connected to.
StationReported ==
    follower = "loop" /\ signals = <<>> /\ owner # 0 /\ powered =>
        /\ reported.state = station.state
        /\ station.state = "connected" => reported.network = station.network
=============================================================================
