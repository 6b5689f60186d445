------------------------------ MODULE IwdProofs ------------------------------
(***************************************************************************)
(* Proofs about Iwd, for any number of callers and networks, and that they *)
(* carry over to Radio.                                                    *)
(***************************************************************************)
EXTENDS Radio, TLAPS

\* A Connect under way is for a network, and iwd works on calls that wait.
Named ==
    \A c \in Caller : /\ pc[c] # "idle" => net[c] \in Network
                      /\ call[c] # "none" => pc[c] = "wait"

-----------------------------------------------------------------------------
\* Type correctness

LEMMA InitType == Init => TypeOK /\ Named
<1> SUFFICES ASSUME Init PROVE TypeOK /\ Named
  OBVIOUS
<1>1. Disconnected \in Stations
      /\ Disconnected \in [state : States, network : Network \cup {None}]
  BY DEF Disconnected, Stations, States
<1>2. left \in Budget
  BY IwdConstants DEF Init
<1>3. <<>> \in Seq(Nat) /\ <<>> \in Seq(States) /\ 0 \in Nat
  OBVIOUS
<1>4. pc \in [Thread -> PC]
  BY DEF Init, PC
<1>5. "disconnected" \in States
  BY DEF States
<1>6. owners \in Nat /\ owner \in 0 .. owners /\ agentAt \in 0 .. owners
  BY DEF Init
<1>7. TypeOK
  BY <1>1, <1>2, <1>3, <1>4, <1>5, <1>6, IwdConstants DEF Init, TypeOK
<1> QED
  BY <1>7, IwdConstants DEF Init, Named, Thread

LEMMA MovesType == ASSUME NEW s PROVE Moves(s) \subseteq Stations
  BY DEF Moves

LEMMA SpendType ==
    ASSUME left \in Budget, NEW what, Spend(what)
    PROVE  left' \in Budget
  BY DEF Spend, Budget

\* Signals that are told are added to those that wait.
LEMMA TellType ==
    /\ \A o \in Nat : ownerSignals \in Seq(Nat) /\ TellOwner(o)
                         => ownerSignals' \in Seq(Nat)
    /\ \A s \in States : signals \in Seq(States) /\ Tell(s)
                         => signals' \in Seq(States)
<1>1. ASSUME NEW o \in Nat, ownerSignals \in Seq(Nat), TellOwner(o)
      PROVE  ownerSignals' \in Seq(Nat)
  BY <1>1 DEF TellOwner
<1>2. ASSUME NEW s \in States, signals \in Seq(States), Tell(s)
      PROVE  signals' \in Seq(States)
  BY <1>2 DEF Tell
<1> QED
  BY <1>1, <1>2

\* Where a goroutine goes.
LEMMA GotoType ==
    ASSUME pc \in [Thread -> PC], NEW t \in Thread, NEW p \in PC, Goto(t, p)
    PROVE  /\ pc' \in [Thread -> PC] /\ pc'[t] = p
           /\ \A u \in Thread : u # t => pc'[u] = pc[u]
  BY DEF Goto

LEMMA AfterType == ASSUME NEW t PROVE After(t) \in PC
  BY DEF After, PC

\* Every step keeps the variables well typed.
LEMMA TypeStep == TypeOK /\ Named /\ [Next]_vars => TypeOK'
<1> SUFFICES ASSUME TypeOK, Named, [Next]_vars PROVE TypeOK'
  OBVIOUS
<1> USE IwdConstants DEF TypeOK, agentVars, secretVars, stationVars, followVars
<1>0. \A c \in Caller : c \in Thread
  BY DEF Thread
<1>1. ASSUME NEW t \in Thread, Register(t) PROVE TypeOK'
  <2>1. pc' \in [Thread -> PC]
    <3>1. \E p \in PC : Goto(t, p)
      BY <1>1, AfterType DEF Register, RegisterAgent, RegisterCall,
         RegisterReply, PC
    <3> QED
      BY <3>1, GotoType
  <2>2. CASE RegisterAgent(t)
    BY <2>1, <2>2 DEF RegisterAgent, Lock
  <2>3. CASE RegisterCall(t)
    BY <2>1, <2>3 DEF RegisterCall
  <2>4. CASE RegisterReply(t)
    BY <2>1, <2>4 DEF RegisterReply
  <2> QED
    BY <1>1, <2>2, <2>3, <2>4 DEF Register
<1>2. CASE WatchIwdOwner
  BY <1>2 DEF WatchIwdOwner, Thread, PC
<1>3. CASE OwnerChanged
  <2>1. pc' \in [Thread -> PC]
    <3>1. "watch" \in Thread /\ {"register", "idle"} \subseteq PC
      BY DEF Thread, PC
    <3>2. \E p \in PC : Goto("watch", p)
      BY <1>3, <3>1 DEF OwnerChanged
    <3> QED
      BY <3>1, <3>2, GotoType
  <2>2. ownerSignals' \in Seq(Nat)
    BY <1>3 DEF OwnerChanged
  <2> QED
    BY <1>3, <2>1, <2>2 DEF OwnerChanged
<1>4. ASSUME NEW c \in Caller, NEW n \in Network, Connect(c, n) PROVE TypeOK'
  <2>1. pc' \in [Thread -> PC]
    BY <1>0, <1>4 DEF Connect, Goto, PC
  <2> QED
    BY <1>4, <2>1, SpendType DEF Connect
<1>5. ASSUME NEW c \in Caller, ConnectStep(c) PROVE TypeOK'
  <2>1. pc' \in [Thread -> PC]
    BY <1>0, <1>5 DEF ConnectStep, FindNetwork, SetSecret, CallConnect,
       AskAgent, RequestPassphrase, ConnectReturns, ClearSecret, Return,
       Goto, PC
  <2>2. CASE FindNetwork(c)
    BY <2>1, <2>2 DEF FindNetwork, Return
  <2>3. CASE SetSecret(c)
    BY <2>1, <2>3 DEF SetSecret, Set
  <2>4. CASE CallConnect(c)
    BY <2>1, <2>4 DEF CallConnect
  <2>5. CASE AskAgent(c)
    BY <2>1, <2>5 DEF AskAgent
  <2>6. CASE RequestPassphrase(c)
    <3>1. net[c] \in Network
      BY <2>6 DEF RequestPassphrase, Named
    <3> QED
      BY <2>1, <2>6, <3>1 DEF RequestPassphrase
  <2>7. CASE ConnectReturns(c)
    BY <2>1, <2>7 DEF ConnectReturns
  <2>8. CASE ClearSecret(c)
    BY <2>1, <2>8 DEF ClearSecret, Clear, Return
  <2> QED
    BY <1>5, <2>2, <2>3, <2>4, <2>5, <2>6, <2>7, <2>8 DEF ConnectStep
<1>6. CASE IwdStops
  <2>1. station' \in Stations
    BY <1>6 DEF IwdStops, Stations
  <2>2. ownerSignals' \in Seq(Nat)
    BY <1>6, TellType DEF IwdStops
  <2> QED
    BY <1>6, <2>1, <2>2 DEF IwdStops
<1>7. CASE IwdStarts
  <2>1. ownerSignals' \in Seq(Nat) /\ signals' \in Seq(States)
    BY <1>7, TellType DEF IwdStarts, States
  <2>2. owner' \in 0 .. owners' /\ agentAt \in 0 .. owners' /\ owners' \in Nat
    BY <1>7 DEF IwdStarts
  <2> QED
    BY <1>7, <2>1, <2>2, SpendType DEF IwdStarts
<1>8. CASE StationMoves
  <2>1. station' \in Stations
    BY <1>8, MovesType DEF StationMoves
  <2>2. station'.state \in States
    BY <2>1 DEF Stations, Disconnected, States
  <2>3. signals' \in Seq(States)
    BY <1>8, <2>2, TellType DEF StationMoves
  <2> QED
    BY <1>8, <2>1, <2>3, SpendType DEF StationMoves
<1>9. ASSUME NEW b \in BOOLEAN, SetPowered(b) PROVE TypeOK'
  <2>1. station' \in Stations
    BY <1>9 DEF SetPowered, Power, Stations
  <2>2. signals' \in Seq(States)
    BY <1>9, TellType DEF SetPowered, Power, States
  <2> QED
    BY <1>9, <2>1, <2>2, SpendType DEF SetPowered, Power
<1>10. CASE Follow
  <2>1. station.state \in States /\ station.network \in Network \cup {None}
    BY DEF Stations, Disconnected, States
  <2>2. CASE Subscribe \/ FirstObjects
    BY <2>1, <2>2 DEF Subscribe, FirstObjects, Snapshot
  <2>3. CASE Dispatch
    BY <2>3 DEF Dispatch
  <2>4. CASE DeviceName
    BY <2>4 DEF DeviceName, Report
  <2>5. CASE ConnectedSSID
    BY <2>1, <2>5 DEF ConnectedSSID, Report, States
  <2> QED
    BY <1>10, <2>2, <2>3, <2>4, <2>5 DEF Follow
<1>11. CASE UNCHANGED vars
  BY <1>11 DEF vars
<1> QED
  BY <1>1, <1>2, <1>3, <1>4, <1>5, <1>6, <1>7, <1>8, <1>9, <1>10, <1>11
  DEF Next

\* Only a Connect's own steps, and iwd, touch what it is about.
LEMMA NamedStep == TypeOK /\ Named /\ [Next]_vars => Named'
<1> SUFFICES ASSUME TypeOK, Named, [Next]_vars PROVE Named'
  OBVIOUS
<1> USE IwdConstants DEF TypeOK, Named, agentVars, secretVars, stationVars,
        followVars
<1>0. \A c \in Caller : c \in Thread /\ c \notin {"new", "watch"}
  BY DEF Thread
<1>1. ASSUME NEW t \in Thread, Register(t) PROVE Named'
  <2>1. /\ pc[t] \in {"register", "call", "reply"}
        /\ \A c \in Caller : c # t => pc'[c] = pc[c]
        /\ UNCHANGED <<net, call>>
    BY <1>0, <1>1 DEF Register, RegisterAgent, RegisterCall, RegisterReply, Goto
  <2> QED
    BY <2>1
<1>2. CASE WatchIwdOwner \/ OwnerChanged
  <2>1. (\A c \in Caller : pc'[c] = pc[c]) /\ UNCHANGED <<net, call>>
    BY <1>0, <1>2 DEF WatchIwdOwner, OwnerChanged, Goto
  <2> QED
    BY <2>1
<1>3. ASSUME NEW c \in Caller, NEW n \in Network, Connect(c, n) PROVE Named'
  BY <1>0, <1>3 DEF Connect, Goto
<1>4. ASSUME NEW c \in Caller, ConnectStep(c) PROVE Named'
  BY <1>0, <1>4 DEF ConnectStep, FindNetwork, SetSecret, CallConnect, AskAgent,
     RequestPassphrase, ConnectReturns, ClearSecret, Return, Goto
<1>5. CASE IwdStops \/ IwdStarts \/ StationMoves
  BY <1>5 DEF IwdStops, IwdStarts, StationMoves
<1>6. ASSUME NEW b \in BOOLEAN, SetPowered(b) PROVE Named'
  BY <1>6 DEF SetPowered
<1>7. CASE Follow
  BY <1>7 DEF Follow, Subscribe, FirstObjects, Dispatch, DeviceName,
     ConnectedSSID
<1>8. CASE UNCHANGED vars
  BY <1>8 DEF vars
<1> QED
  BY <1>1, <1>2, <1>3, <1>4, <1>5, <1>6, <1>7, <1>8 DEF Next

\* Type correctness.
THEOREM TypeCorrect == Spec => [](TypeOK /\ Named)
  BY InitType, TypeStep, NamedStep, PTL DEF Spec

-----------------------------------------------------------------------------
\* Secrets

\* What the steps that are not a Connect's own do to one: they take it through
\* registerAgent, and iwd's end drops its call.
OwnSteps ==
    \E c \in Caller : ConnectStep(c) \/ \E n \in Network : Connect(c, n)

Same ==
    /\ net' = net /\ pending' = pending
    /\ \A c \in Caller :
          /\ \/ pc'[c] = pc[c]
             \/ /\ pc[c] \in {"register", "call", "reply", "find"}
                /\ pc'[c] \in {"register", "call", "reply", "find"}
          /\ \/ call'[c] = call[c] /\ got'[c] = got[c]
             \/ call'[c] = "none"

LEMMA OtherSteps ==
    ASSUME TypeOK, [Next]_vars, ~OwnSteps
    PROVE  Same
<1> USE IwdConstants DEF Same, OwnSteps, TypeOK, agentVars, secretVars, stationVars, followVars
<1>0. \A c \in Caller : c \in Thread /\ c \notin {"new", "watch"}
  BY DEF Thread
<1>1. ASSUME NEW t \in Thread, Register(t) PROVE Same
  <2>1. /\ pc[t] \in {"register", "call", "reply"}
        /\ pc'[t] \in {"call", "reply", After(t)}
        /\ \A c \in Thread : c # t => pc'[c] = pc[c]
        /\ UNCHANGED <<net, pending, call, got>>
    BY <1>1 DEF Register, RegisterAgent, RegisterCall, RegisterReply, Goto
  <2>2. t \in Caller => After(t) = "find"
    BY DEF After
  <2> QED
    BY <1>0, <2>1, <2>2
<1>2. CASE WatchIwdOwner \/ OwnerChanged
  BY <1>0, <1>2 DEF WatchIwdOwner, OwnerChanged, Goto
<1>3. CASE IwdStops \/ IwdStarts \/ StationMoves
  BY <1>3 DEF IwdStops, IwdStarts, StationMoves
<1>4. ASSUME NEW b \in BOOLEAN, SetPowered(b) PROVE Same
  BY <1>4 DEF SetPowered
<1>5. CASE Follow
  BY <1>5 DEF Follow, Subscribe, FirstObjects, Dispatch, DeviceName,
     ConnectedSSID
<1>6. CASE UNCHANGED vars
  BY <1>6 DEF vars
<1> QED
  BY <1>1, <1>2, <1>3, <1>4, <1>5, <1>6 DEF Next

\* A secret is put under the network its Connect is for, when no such call is
\* there yet, and cleared before the Connect returns.
LEMMA PendingStep ==
    TypeOK /\ Named /\ PendingInFlight /\ [Next]_vars => PendingInFlight'
<1> SUFFICES ASSUME TypeOK, Named, PendingInFlight, [Next]_vars
             PROVE  PendingInFlight'
  OBVIOUS
<1>3. CASE ~OwnSteps
  <2>1. Same
    BY <1>3, OtherSteps
  <2>2. pending \in [Network -> Caller \cup {None}]
    BY DEF TypeOK
  <2> QED
    BY <2>1, <2>2 DEF Same, PendingInFlight
<1> USE DEF PendingInFlight, agentVars, secretVars
<1>0. /\ pc \in [Thread -> PC] /\ \A c \in Caller : c \in Thread
      /\ net \in [Caller -> Network \cup {None}]
      /\ pending \in [Network -> Caller \cup {None}]
      /\ call \in [Caller -> {"none", "made", "asking", "answered"}]
      /\ got \in [Caller -> Caller \cup {None}]
      /\ None \notin Caller \cup Network
  BY IwdConstants DEF TypeOK, Thread
<1>1. ASSUME NEW c \in Caller, ConnectStep(c) PROVE PendingInFlight'
  <2>1. CASE FindNetwork(c)
    <3>1. /\ pc[c] = "find" /\ UNCHANGED pending
          /\ \A d \in Caller : d # c => pc'[d] = pc[d] /\ net'[d] = net[d]
      BY <1>0, <2>1 DEF FindNetwork, Return, Goto
    <3> QED
      BY <1>0, <3>1
  <2>2. CASE SetSecret(c)
    BY <1>0, <2>2 DEF SetSecret, Set, Goto, Named
  <2>3. CASE CallConnect(c) \/ AskAgent(c) \/ RequestPassphrase(c)
    BY <1>0, <2>3 DEF CallConnect, AskAgent, RequestPassphrase, Goto
  <2>4. CASE ConnectReturns(c)
    BY <1>0, <2>4 DEF ConnectReturns, Goto
  <2>5. CASE ClearSecret(c)
    BY <1>0, <2>5 DEF ClearSecret, Clear, Return, Goto, Named
  <2> QED
    BY <1>1, <2>1, <2>2, <2>3, <2>4, <2>5 DEF ConnectStep
<1>2. ASSUME NEW c \in Caller, NEW n \in Network, Connect(c, n)
      PROVE  PendingInFlight'
  <2>1. /\ pc[c] = "idle" /\ UNCHANGED pending
        /\ \A d \in Caller : d # c => pc'[d] = pc[d] /\ net'[d] = net[d]
    BY <1>0, <1>2 DEF Connect, Goto
  <2> QED
    BY <1>0, <2>1
<1> QED
  BY <1>1, <1>2, <1>3 DEF OwnSteps

\* Considerate callers' Connects under way are for different networks, and
\* those that have put their secret find it there.
Apart ==
    \A c, d \in Caller :
        pc[c] # "idle" /\ pc[d] # "idle" /\ net[c] = net[d] => c = d

Stored ==
    \A c \in Caller :
        pc[c] \in {"connect", "wait", "clear"} => pending[net[c]] = c

LEMMA SecretStep ==
    ASSUME Discipline = "considerate", TypeOK, Named, Apart, Stored, OwnSecret,
           [Next]_vars
    PROVE  Apart' /\ Stored' /\ OwnSecret'
<1>3. CASE ~OwnSteps
  <2>1. Same
    BY <1>3, OtherSteps
  <2> QED
    BY <2>1 DEF Same, Apart, Stored, OwnSecret
<1> USE DEF agentVars, secretVars
<1>0. /\ pc \in [Thread -> PC] /\ \A c \in Caller : c \in Thread
      /\ net \in [Caller -> Network \cup {None}]
      /\ pending \in [Network -> Caller \cup {None}]
      /\ call \in [Caller -> {"none", "made", "asking", "answered"}]
      /\ got \in [Caller -> Caller \cup {None}]
      /\ None \notin Caller \cup Network
  BY IwdConstants DEF TypeOK, Thread
<1>1. ASSUME NEW c \in Caller, ConnectStep(c)
      PROVE  Apart' /\ Stored' /\ OwnSecret'
  <2>1. CASE FindNetwork(c)
    <3>1. /\ pc[c] = "find" /\ pc'[c] \in {"set", "idle"}
          /\ pc'[c] = "set" => net'[c] = net[c]
          /\ \A d \in Caller : d # c => pc'[d] = pc[d] /\ net'[d] = net[d]
          /\ UNCHANGED <<pending, call, got>>
      BY <1>0, <2>1 DEF FindNetwork, Return, Goto
    <3> QED
      BY <1>0, <3>1 DEF Named, Apart, Stored, OwnSecret
  <2>2. CASE SetSecret(c)
    <3>1. Apart' /\ OwnSecret'
      BY <1>0, <2>2 DEF SetSecret, Set, Goto, Named, Apart, OwnSecret
    <3>2. Stored'
      BY <1>0, <2>2 DEF SetSecret, Set, Goto, Named, Apart, Stored
    <3> QED
      BY <3>1, <3>2
  <2>3. CASE CallConnect(c) \/ AskAgent(c)
    <3>1. /\ UNCHANGED <<net, pending, got>>
          /\ pc[c] \in {"connect", "wait"} /\ pc'[c] \in {"wait", "clear"}
          /\ call'[c] # "answered"
          /\ \A d \in Caller : d # c => pc'[d] = pc[d] /\ call'[d] = call[d]
      BY <1>0, <2>3 DEF CallConnect, AskAgent, Goto, Named
    <3> QED
      BY <1>0, <3>1 DEF Named, Apart, Stored, OwnSecret
  <2>4. CASE RequestPassphrase(c)
    BY <1>0, <2>4 DEF RequestPassphrase, Named, Apart, Stored, OwnSecret
  <2>5. CASE ConnectReturns(c)
    BY <1>0, <2>5 DEF ConnectReturns, Goto, Named, Apart, Stored, OwnSecret
  <2>6. CASE ClearSecret(c)
    <3>1. Apart' /\ OwnSecret'
      BY <1>0, <2>6 DEF ClearSecret, Return, Goto, Named, Apart, OwnSecret
    <3>2. Stored'
      BY <1>0, <2>6 DEF ClearSecret, Clear, Return, Goto, Named, Apart, Stored
    <3> QED
      BY <3>1, <3>2
  <2> QED
    BY <1>1, <2>1, <2>2, <2>3, <2>4, <2>5, <2>6 DEF ConnectStep
<1>2. ASSUME NEW c \in Caller, NEW n \in Network, Connect(c, n)
      PROVE  Apart' /\ Stored' /\ OwnSecret'
  BY <1>0, <1>2 DEF Connect, MayConnect, Goto, Named, Apart, Stored, OwnSecret
<1> QED
  BY <1>1, <1>2, <1>3 DEF OwnSteps

\* Nobody's secret outlives its Connect, whatever the callers and iwd do.
THEOREM SecretsInFlight == Spec => []PendingInFlight
<1>1. Init => PendingInFlight
  BY DEF Init, PendingInFlight
<1> QED
  BY <1>1, TypeCorrect, PendingStep, PTL DEF Spec

\* With considerate callers every Connect is answered with its own secret.
THEOREM SecretsApart ==
    ASSUME Discipline = "considerate"
    PROVE  Spec => []OwnSecret
<1>1. Init => Apart /\ Stored /\ OwnSecret
  BY DEF Init, Apart, Stored, OwnSecret, Thread
<1>2. TypeOK /\ Named /\ Apart /\ Stored /\ OwnSecret /\ [Next]_vars
         => Apart' /\ Stored' /\ OwnSecret'
  BY SecretStep
<1> QED
  BY <1>1, <1>2, TypeCorrect, PTL DEF Spec

-----------------------------------------------------------------------------
\* The agent

\* Whoever is on the way to register the agent holds the lock.
LockHeld == \A t \in Thread : pc[t] \in {"call", "reply"} => mu = t

\* The agent is registered, or will be as soon as the reply is taken.
Claimed == registered \/ \E t \in Thread : pc[t] = "reply"

\* A flag that is set, or about to be, is true of the present iwd, or the
\* watcher has yet to take a signal that clears it.
ClaimTrue ==
    Claimed => /\ agentAt # 0
               /\ agentAt = owner \/ ownerSignals # <<>>

\* While the owner of the name is unwatched no signal waits.
Unwatched == ~watched => ownerSignals = <<>> /\ pc["watch"] = "off"

\* An iwd that stays through a Connect leaves the watcher nothing to do.
Steady ==
    \A c \in Caller : steady[c] # 0 =>
        owner = steady[c] /\ Informed

\* With such an iwd a Connect past registerAgent has the agent registered.
Served ==
    \A c \in Caller :
        steady[c] # 0 /\ pc[c] \notin {"idle", "register", "call"}
            => agentAt = owner

AgentInv == LockHeld /\ ClaimTrue /\ Unwatched /\ Steady /\ Served

LEMMA AgentInit == Init => AgentInv
<1> SUFFICES ASSUME Init PROVE AgentInv
  OBVIOUS
<1>1. /\ \A t \in Thread : pc[t] \notin {"call", "reply"}
      /\ \A c \in Caller : pc[c] = "idle" /\ steady[c] = 0
      /\ pc["watch"] = "off" /\ ~registered /\ ownerSignals = <<>>
  BY IwdConstants DEF Init, Thread
<1> QED
  BY <1>1 DEF AgentInv, LockHeld, ClaimTrue, Claimed, Unwatched, Steady, Served

\* registerAgent keeps to the lock, and sets the flag for an iwd that has gone
\* only while the signal of that waits.
LEMMA RegisterKeeps ==
    ASSUME TypeOK, AgentInv, NEW t \in Thread, Register(t)
    PROVE  AgentInv'
<1>0. /\ pc \in [Thread -> PC] /\ None \notin Thread /\ "watch" \in Thread
      /\ steady \in [Caller -> Nat] /\ Caller \subseteq Thread
      /\ "watch" \notin Caller /\ pc' = [pc EXCEPT ![t] = pc'[t]]
  BY IwdConstants
  DEF TypeOK, Thread, Register, RegisterAgent, RegisterCall, RegisterReply, Goto
<1>1. /\ UNCHANGED <<owner, ownerSignals, watched, steady>>
      /\ pc[t] \in {"register", "call", "reply"}
  BY DEF Register, RegisterAgent, RegisterCall, RegisterReply, secretVars
<1>2. After(t) \in {"watch", "idle", "find"} /\ (t # "watch" => After(t) # "idle")
  BY IwdConstants DEF After, Thread
<1>3. CASE RegisterAgent(t)
  BY <1>0, <1>1, <1>2, <1>3
  DEF RegisterAgent, Lock, Goto, AgentInv, LockHeld, ClaimTrue, Claimed,
      Unwatched, Steady, Served, Informed
<1>4. CASE RegisterCall(t)
  BY <1>0, <1>1, <1>2, <1>4
  DEF RegisterCall, Goto, AgentInv, LockHeld, ClaimTrue, Claimed, Unwatched,
      Steady, Served, Informed
<1>5. CASE RegisterReply(t)
  BY <1>0, <1>1, <1>2, <1>5
  DEF RegisterReply, Goto, AgentInv, LockHeld, ClaimTrue, Claimed, Unwatched,
      Steady, Served, Informed
<1> QED
  BY <1>3, <1>4, <1>5 DEF Register
\* With BootSteady no iwd goes unseen.
LEMMA AgentStep ==
    ASSUME BootSteady, TypeOK, Named, AgentInv, [Next]_vars
    PROVE  AgentInv'
<1>0. /\ pc \in [Thread -> PC] /\ None \notin Thread
      /\ "watch" \in Thread /\ "new" \in Thread
      /\ steady \in [Caller -> Nat] /\ Caller \subseteq Thread
      /\ Caller \cap {"watch", "new"} = {}
      /\ owners \in Nat /\ owner \in 0 .. owners /\ agentAt \in 0 .. owners
      /\ ownerSignals \in Seq(Nat)
  BY IwdConstants DEF TypeOK, Thread
<1> USE DEF AgentInv, LockHeld, ClaimTrue, Claimed, Unwatched, Steady, Served,
        Informed
<1>1. ASSUME NEW t \in Thread, Register(t) PROVE AgentInv'
  BY <1>1, RegisterKeeps
<1>2. CASE WatchIwdOwner
  BY <1>0, <1>2 DEF WatchIwdOwner, agentVars, secretVars
<1>3. CASE OwnerChanged
  BY <1>0, <1>3 DEF OwnerChanged, Goto, secretVars
<1>4. ASSUME NEW c \in Caller, NEW n \in Network, Connect(c, n) PROVE AgentInv'
  BY <1>0, <1>4 DEF Connect, Goto, agentVars
<1>5. ASSUME NEW c \in Caller, ConnectStep(c) PROVE AgentInv'
  <2>1. /\ UNCHANGED <<owner, agentAt, registered, mu, ownerSignals, watched>>
        /\ \A t \in Thread : t # c => pc'[t] = pc[t]
        /\ \A d \in Caller : d # c => steady'[d] = steady[d]
        /\ pc[c] \notin {"idle", "register", "call", "reply"}
        /\ pc'[c] \notin {"register", "call", "reply"}
        /\ steady'[c] \in {steady[c], 0}
    BY <1>0, <1>5
    DEF ConnectStep, FindNetwork, SetSecret, CallConnect, AskAgent,
        RequestPassphrase, ConnectReturns, ClearSecret, Return, Goto, agentVars,
        Named
  <2> QED
    BY <1>0, <2>1
<1>6. CASE IwdStops
  BY <1>0, <1>6 DEF IwdStops, TellOwner, agentVars
<1>7. CASE IwdStarts
  BY <1>0, <1>7 DEF IwdStarts, TellOwner, agentVars, secretVars
<1>8. CASE \/ StationMoves \/ Follow \/ UNCHANGED vars
           \/ \E b \in BOOLEAN : SetPowered(b)
  <2>1. UNCHANGED <<owner, agentAt, registered, mu, ownerSignals, watched, pc,
                    steady>>
    BY <1>8 DEF StationMoves, Follow, Subscribe, FirstObjects, Dispatch,
       DeviceName, ConnectedSSID, SetPowered, vars, agentVars, secretVars
  <2> QED
    BY <2>1
<1> QED
  BY <1>1, <1>2, <1>3, <1>4, <1>5, <1>6, <1>7, <1>8 DEF Next

\* A flag that is set is true of the present iwd once the watcher has caught
\* up, and a Connect that begins then has the agent when it calls.
THEOREM AgentRegistered ==
    ASSUME BootSteady
    PROVE  Spec => [](RegisteredIsTrue /\ ConnectHasAgent)
<1>1. TypeOK /\ Named /\ AgentInv => RegisteredIsTrue /\ ConnectHasAgent
  <2> SUFFICES ASSUME TypeOK, Named, AgentInv
               PROVE  RegisteredIsTrue /\ ConnectHasAgent
    OBVIOUS
  <2>1. RegisteredIsTrue
    BY DEF AgentInv, ClaimTrue, Claimed, RegisteredIsTrue, Informed
  <2>2. ConnectHasAgent
    BY DEF AgentInv, Served, ConnectHasAgent, Named
  <2> QED
    BY <2>1, <2>2
<1>2. TypeOK /\ Named /\ AgentInv /\ [Next]_vars => AgentInv'
  BY AgentStep
<1> QED
  BY <1>1, <1>2, AgentInit, TypeCorrect, PTL DEF Spec

-----------------------------------------------------------------------------
\* The follower

\* What the follower knows: the last signal that waits tells the state of the
\* station, and without one that waits it is at it or has sent it.
Known ==
    owner # 0 /\ powered =>
        /\ follower # "off" /\ signals # <<>>
              => signals[Len(signals)] = station.state
        /\ follower \in {"name", "network"} /\ signals = <<>>
              => heard = station.state
        /\ StationReported

FollowInv ==
    /\ owner = 0 \/ ~powered => station = Disconnected
    /\ follower = "off" => signals = <<>>
    /\ follower = "network" => heard = "connected"
    /\ Known

LEMMA FollowStep == TypeOK /\ FollowInv /\ [Next]_vars => FollowInv'
<1> SUFFICES ASSUME TypeOK, FollowInv, [Next]_vars PROVE FollowInv'
  OBVIOUS
<1>0. /\ signals \in Seq(States) /\ owners \in Nat /\ powered \in BOOLEAN
      /\ station \in Stations
      /\ follower \in {"off", "snapshot", "loop", "name", "network"}
  BY DEF TypeOK
<1>1. Disconnected.state = "disconnected"
  BY DEF Disconnected
<1> USE DEF FollowInv, Known, StationReported
<1>2. CASE IwdStops
  BY <1>0, <1>2 DEF IwdStops, followVars
<1>3. ASSUME NEW s \in States, Tell(s)
      PROVE  follower # "off" => /\ signals' # <<>>
                                 /\ signals'[Len(signals')] = s
  BY <1>0, <1>3 DEF Tell
<1>4. CASE IwdStarts
  <2>1. /\ owner = 0 /\ UNCHANGED <<station, follower, heard, reported>>
        /\ powered' => Tell("disconnected")
        /\ powered' \/ UNCHANGED signals
    BY <1>4 DEF IwdStarts, followVars
  <2>2. follower = "off" => UNCHANGED signals
    BY <2>1 DEF Tell
  <2> QED
    BY <1>0, <1>1, <1>3, <2>1, <2>2 DEF States
<1>5. CASE StationMoves
  <2>1. /\ owner # 0 /\ powered /\ UNCHANGED <<owner, powered, follower, heard>>
        /\ Tell(station'.state) /\ station' \in Stations
    BY <1>5 DEF StationMoves, Moves, followVars
  <2>2. station'.state \in States
    BY <2>1 DEF Stations, Disconnected, States
  <2>3. follower = "off" => UNCHANGED signals
    BY <2>1 DEF Tell
  <2> QED
    BY <1>0, <1>3, <2>1, <2>2, <2>3
<1>6. ASSUME NEW b \in BOOLEAN, SetPowered(b) PROVE FollowInv'
  <2>1. /\ UNCHANGED <<owner, follower, heard, reported>> /\ powered' = b
        /\ station' = IF b = powered THEN station ELSE Disconnected
        /\ b /\ ~powered => Tell("disconnected")
        /\ (b /\ ~powered) \/ UNCHANGED signals
    BY <1>6 DEF SetPowered, Power, followVars
  <2>2. follower = "off" => UNCHANGED signals
    BY <2>1 DEF Tell
  <2> QED
    BY <1>0, <1>1, <1>3, <2>1, <2>2 DEF States
<1>7. CASE Follow
  <2> USE DEF stationVars
  <2>1. CASE Subscribe
    BY <1>0, <2>1 DEF Subscribe
  <2>2. CASE FirstObjects
    BY <1>0, <2>2 DEF FirstObjects, Snapshot
  <2>3. CASE Dispatch
    <3>1. /\ follower = "loop" /\ follower' = "name" /\ signals # <<>>
          /\ signals' = Tail(signals) /\ heard' = Head(signals)
          /\ UNCHANGED <<owner, station, powered>>
      BY <2>3 DEF Dispatch
    <3>2. signals' = <<>> => heard' = signals[Len(signals)]
      <4>1. Len(Tail(signals)) = Len(signals) - 1 /\ Len(signals) \in Nat
        BY <1>0, <3>1
      <4>2. signals' = <<>> => Len(signals) = 1
        BY <3>1, <4>1
      <4>3. Head(signals) = signals[1]
        BY <1>0, <3>1
      <4> QED
        BY <3>1, <4>2, <4>3
    <3>3. signals' # <<>> => signals'[Len(signals')] = signals[Len(signals)]
      BY <1>0, <3>1
    <3> QED
      BY <3>1, <3>2, <3>3
  <2>4. CASE DeviceName
    BY <1>0, <2>4 DEF DeviceName, Report
  <2>5. CASE ConnectedSSID
    BY <1>0, <2>5 DEF ConnectedSSID, Report
  <2> QED
    BY <1>7, <2>1, <2>2, <2>3, <2>4, <2>5 DEF Follow
<1>8. ASSUME UNCHANGED <<owner, stationVars, signals, followVars>>
      PROVE  FollowInv'
  BY <1>8 DEF stationVars, followVars
<1>9. ASSUME \/ \E t \in Thread : Register(t)
             \/ WatchIwdOwner \/ OwnerChanged
             \/ \E c \in Caller, n \in Network : Connect(c, n)
             \/ \E c \in Caller : ConnectStep(c)
             \/ UNCHANGED vars
      PROVE  UNCHANGED <<owner, stationVars, signals, followVars>>
  BY <1>9
  DEF Register, RegisterAgent, RegisterCall, RegisterReply, WatchIwdOwner,
      OwnerChanged, Connect, ConnectStep, FindNetwork, SetSecret, CallConnect,
      AskAgent, RequestPassphrase, ConnectReturns, ClearSecret, vars
<1> QED
  BY <1>2, <1>4, <1>5, <1>6, <1>7, <1>8, <1>9 DEF Next

\* When the follower has taken every signal, its last event is true.
THEOREM FollowerTruthful == Spec => []StationReported
<1>1. Init => FollowInv
  BY DEF Init, FollowInv, Known, StationReported, Disconnected
<1>2. TypeOK /\ FollowInv => StationReported
  BY DEF FollowInv, Known, StationReported
<1> QED
  BY <1>1, <1>2, TypeCorrect, FollowStep, PTL DEF Spec

-----------------------------------------------------------------------------
\* Radio

\* The radio's own variables hold values of their kinds.
RadioTypes ==
    /\ soft \in BOOLEAN /\ hard \in BOOLEAN /\ event \in BOOLEAN
    /\ wirelessEnabled \in BOOLEAN /\ hardwareEnabled \in BOOLEAN
    /\ seen \in Blocks /\ last \in Blocks
    /\ poller \in {"off", "first", "tick", "read", "hardware", "enabled"}
    /\ setter \in [Setter -> {"idle", "block", "power"}]
    /\ on \in [Setter -> BOOLEAN]
    /\ radioLeft \in RadioBudget

LEMMA RadioInitTypes == RadioInit => RadioTypes
<1> SUFFICES ASSUME RadioInit PROVE RadioTypes
  OBVIOUS
<1>1. soft \in BOOLEAN /\ hard \in BOOLEAN
  BY DEF RadioInit
<1>2. hardwareEnabled \in BOOLEAN
  BY DEF RadioInit
<1>3. seen \in Blocks /\ last \in Blocks
  BY <1>1 DEF RadioInit, State, Blocks
<1>4. radioLeft \in RadioBudget
  BY RadioConstants DEF RadioInit
<1>5. setter \in [Setter -> {"idle", "block", "power"}] /\ on \in [Setter -> BOOLEAN]
  BY DEF RadioInit
<1> QED
  BY <1>1, <1>2, <1>3, <1>4, <1>5 DEF RadioInit, RadioTypes

LEMMA SpendRadioType ==
    ASSUME radioLeft \in RadioBudget, NEW what, SpendRadio(what)
    PROVE  radioLeft' \in RadioBudget
  BY DEF SpendRadio, RadioBudget

LEMMA RadioTypesStep ==
    RadioTypes /\ [RadioNext]_<<vars, radioVars>> => RadioTypes'
<1> SUFFICES ASSUME RadioTypes, [RadioNext]_<<vars, radioVars>>
             PROVE  RadioTypes'
  OBVIOUS
<1> USE DEF RadioTypes, radioVars, kernelVars, shownVars, pollVars
<1>1. CASE UNCHANGED radioVars
  BY <1>1
<1>2. ASSUME NEW g \in Setter, NEW value \in BOOLEAN,
             SetWirelessEnabled(g, value)
      PROVE  RadioTypes'
  BY <1>2, SpendRadioType DEF SetWirelessEnabled
<1>3. ASSUME NEW g \in Setter, SetWifiBlocked(g) PROVE RadioTypes'
  BY <1>3 DEF SetWifiBlocked, Switch
<1>4. ASSUME NEW g \in Setter, PowerDevices(g) PROVE RadioTypes'
  BY <1>4 DEF PowerDevices
<1>5. CASE SoftSwitch \/ HardSwitch
  BY <1>5, SpendRadioType DEF SoftSwitch, HardSwitch, Switch
<1>6. CASE Poll
  <2>1. State \in Blocks /\ [soft |-> FALSE, hard |-> FALSE] \in Blocks
    BY DEF State, Blocks
  <2>2. CASE SubscribeRadio \/ ConsumeEvents
    BY <2>2 DEF SubscribeRadio, ConsumeEvents
  <2>3. CASE ReadWLANState
    BY <2>1, <2>3 DEF ReadWLANState, Seen
  <2>4. CASE ShowHardware \/ ShowEnabled
    BY <2>4 DEF ShowHardware, ShowEnabled, Blocks
  <2> QED
    BY <1>6, <2>2, <2>3, <2>4 DEF Poll
<1> QED
  BY <1>1, <1>2, <1>3, <1>4, <1>5, <1>6 DEF RadioNext

\* Radio does to iwd what Iwd does, or nothing.
LEMMA RadioStep ==
    RadioTypes /\ [RadioNext]_<<vars, radioVars>> => [Next]_vars
<1> SUFFICES ASSUME RadioTypes, [RadioNext]_<<vars, radioVars>>
             PROVE  [Next]_vars
  OBVIOUS
<1>1. CASE UNCHANGED <<vars, radioVars>>
  BY <1>1
<1>2. ASSUME NEW g \in Setter, NEW value \in BOOLEAN,
             SetWirelessEnabled(g, value)
      PROVE  UNCHANGED vars
  BY <1>2 DEF SetWirelessEnabled
<1>3. ASSUME NEW g \in Setter, SetWifiBlocked(g)
      PROVE  UNCHANGED vars
  BY <1>3 DEF SetWifiBlocked
<1>4. ASSUME NEW g \in Setter, PowerDevices(g)
      PROVE  Next \/ UNCHANGED vars
  <2>1. on[g] \in BOOLEAN
    BY DEF RadioTypes
  <2> QED
    BY <1>4, <2>1 DEF PowerDevices, Next
<1>5. CASE SoftSwitch \/ HardSwitch
  BY <1>5 DEF SoftSwitch, HardSwitch
<1>6. CASE Poll
  BY <1>6 DEF Poll, SubscribeRadio, ConsumeEvents, ReadWLANState,
     ShowHardware, ShowEnabled
<1> QED
  BY <1>1, <1>2, <1>3, <1>4, <1>5, <1>6 DEF RadioNext

\* A behaviour of Radio is one of Iwd: what is proved of Iwd holds of Radio.
THEOREM RadioIsIwd == RadioSpec => Spec
<1>1. RadioInit => Init
  BY DEF RadioInit
<1> QED
  BY <1>1, RadioStep, RadioInitTypes, RadioTypesStep, PTL DEF RadioSpec, Spec

\* Type correctness of Radio.
THEOREM RadioTypeCorrect == RadioSpec => []RadioTypeOK
<1>1. TypeOK /\ RadioTypes => RadioTypeOK
  BY DEF RadioTypes, RadioTypeOK
<1> QED
  BY <1>1, RadioIsIwd, TypeCorrect, RadioInitTypes, RadioTypesStep, PTL
  DEF RadioSpec

\* With the radio switched as it may be, a Connect that begins when the watcher
\* has caught up has the agent.
THEOREM RadioConnectHasAgent ==
    ASSUME BootSteady PROVE RadioSpec => []ConnectHasAgent
  BY RadioIsIwd, AgentRegistered, PTL

\* Nor does the radio leave a secret behind, or make the follower's last event
\* untrue.
THEOREM RadioSecretsAndEvents == RadioSpec => [](PendingInFlight /\ StationReported)
  BY RadioIsIwd, SecretsInFlight, FollowerTruthful, PTL

\* Nor mix up the secrets of considerate callers.
THEOREM RadioOwnSecret ==
    ASSUME Discipline = "considerate" PROVE RadioSpec => []OwnSecret
  BY RadioIsIwd, SecretsApart, PTL

-----------------------------------------------------------------------------
\* What is shown of the radio

\* A switch that differs from what was read last has an event waiting.
Polled ==
    /\ seen = last
    /\ poller \in {"tick", "hardware", "enabled"} /\ ~event => last = State

\* The two properties show what was read last; but WirelessEnabled may be what
\* a call has asked for and not done yet, or has done and nobody has read.
Shown ==
    /\ poller \in {"enabled", "tick", "read"} => hardwareEnabled = ~last.hard
    /\ poller \in {"tick", "read"} /\ ~last.hard =>
          \/ wirelessEnabled = ~last.soft
          \/ wirelessEnabled = ~soft
          \/ \E g \in Setter : setter[g] = "block" /\ wirelessEnabled = on[g]

\* Patient clients have one call under way, which found the switch as read.
OneCall ==
    \A g \in Setter : setter[g] # "idle" =>
        /\ \A h \in Setter : setter[h] # "idle" => g = h
        /\ poller \notin {"off", "first"}
        /\ setter[g] = "block" => last.soft = soft

RadioInv == Polled /\ Shown /\ OneCall

LEMMA RadioInvStep ==
    ASSUME Users = "patient", RfkillWorks, RadioTypes, RadioInv,
           [RadioNext]_<<vars, radioVars>>
    PROVE  RadioInv'
<1> USE DEF RadioTypes, radioVars, kernelVars, shownVars, pollVars,
        RadioInv, Polled, Shown, OneCall, State, Blocks
<1>1. CASE UNCHANGED radioVars
  BY <1>1
<1>2. ASSUME NEW g \in Setter, NEW value \in BOOLEAN,
             SetWirelessEnabled(g, value)
      PROVE  RadioInv'
  BY <1>2 DEF SetWirelessEnabled, MaySet, Settled
<1>3. ASSUME NEW g \in Setter, SetWifiBlocked(g) PROVE RadioInv'
  <2>1. /\ setter[g] = "block" /\ setter' = [setter EXCEPT ![g] = "power"]
        /\ soft' = ~on[g] /\ hard' = hard
        /\ UNCHANGED <<poller, seen, last, wirelessEnabled, hardwareEnabled, on>>
    BY <1>3 DEF SetWifiBlocked, Switch
  <2>2. event' \/ (event' = event /\ soft' = soft)
    BY <1>3 DEF SetWifiBlocked, Switch
  <2>3. Polled'
    BY <2>1, <2>2
  <2>4. \A h \in Setter : setter[h] = "block" => h = g
    BY <2>1
  <2>5. \/ wirelessEnabled = ~last.soft \/ wirelessEnabled = on[g]
        \/ ~(poller \in {"tick", "read"} /\ ~last.hard)
    BY <2>1, <2>4
  <2>6. Shown'
    BY <2>1, <2>5
  <2>7. OneCall'
    BY <2>1
  <2> QED
    BY <2>3, <2>6, <2>7
<1>4. ASSUME NEW g \in Setter, PowerDevices(g) PROVE RadioInv'
  BY <1>4 DEF PowerDevices
<1>5. CASE SoftSwitch
  BY <1>5 DEF SoftSwitch, Switch, MaySet, Settled
<1>6. CASE HardSwitch
  BY <1>6 DEF HardSwitch, Switch
<1>7. CASE SubscribeRadio \/ ConsumeEvents
  BY <1>7 DEF SubscribeRadio, ConsumeEvents
<1>8. CASE ReadWLANState
  BY <1>8 DEF ReadWLANState, Seen, News
<1>9. CASE ShowHardware \/ ShowEnabled
  BY <1>9 DEF ShowHardware, ShowEnabled
<1> QED
  BY <1>1, <1>2, <1>3, <1>4, <1>5, <1>6, <1>7, <1>8, <1>9 DEF RadioNext, Poll

\* When all is settled the root object shows the switch as it is, for any
\* number of calls, keys and movements of the slider.
THEOREM RadioIsShown ==
    ASSUME Users = "patient", RfkillWorks
    PROVE  RadioSpec => []RadioShown
<1>1. RadioInit => RadioInv
  BY DEF RadioInit, RadioInv, Polled, Shown, OneCall
<1>2. RadioTypes /\ RadioInv => RadioShown
  BY DEF RadioTypes, RadioInv, Polled, Shown, RadioShown, Settled, State, Blocks
<1>3. RadioTypes /\ RadioInv /\ [RadioNext]_<<vars, radioVars>> => RadioInv'
  BY RadioInvStep
<1> QED
  BY <1>1, <1>2, <1>3, RadioInitTypes, RadioTypesStep, PTL DEF RadioSpec
=============================================================================
