----------------------------- MODULE HostProofs -----------------------------
(***************************************************************************)
(* Proofs about the services the daemon runs for a link that is up: the    *)
(* DHCP client (Dhcp), for any number of Acquires, servers, addresses and  *)
(* tries; the resolver file (Dns), for any interfaces and entries; and the *)
(* connectivity probe (Connectivity), for any number of goroutines that    *)
(* poll.  They share no state; Connectivity is an instance with constants  *)
(* and variables of its own.                                               *)
(*                                                                         *)
(* LeaseGranted rests on what ties the messages to the handshakes: one     *)
(* that waits for its ACK has sent the request for its offer, one that has *)
(* not taken an offer has sent no request under its id, and a server       *)
(* grants only what some request asks of it.                               *)
(*                                                                         *)
(* ResolverCurrent has two halves: a rename shows what render makes of the *)
(* entries (Shown), and render is right about any entries (RenderRight).   *)
(***************************************************************************)
EXTENDS Dhcp, Dns, FiniteSetTheorems, FunctionTheorems,
        WellFoundedInduction, TLAPS

-----------------------------------------------------------------------------
\* The DHCP client.

\* The request a handshake sends for the offer it has taken
RequestOf(q) == [type |-> "request", xid |-> Xid(q),
                 ip |-> offer[q].ip, sid |-> offer[q].sid]

\* A handshake that waits for an ACK, or has it, has taken an offer and sent
\* the request for it.
Requested ==
    \A q \in Acquire : phase[q] \in {"requesting", "bound"} =>
        /\ offer[q] \in [ip : Addr \cup {Zero}, sid : Server]
        /\ RequestOf(q) \in sent

\* Nothing has been sent under an id that is still to be drawn, and no request
\* under the id of a handshake that has not taken an offer.
Fresh ==
    \A q \in Acquire : \A m \in sent : m.xid[1] = q =>
        /\ m.xid[2] <= try[q]
        /\ m.type = "request" /\ m.xid[2] = try[q]
              => phase[q] \notin {"start", "try", "selecting"}

\* Servers grant what has been asked of them.
Answered ==
    \A m \in replies : m.type = "ack" =>
        /\ m.sid \in {m.from, None}
        /\ [type |-> "request", xid |-> m.xid, ip |-> m.ip, sid |-> m.from]
              \in sent

DhcpInv == Requested /\ Fresh /\ Answered /\ OneRequestPerTransaction
          /\ LeaseGranted

\* The initial state is well typed and satisfies the invariant.
LEMMA InitInv == Init => TypeOK /\ DhcpInv
  BY MaxTriesPositive DEF Init, TypeOK, DhcpInv, Requested, Fresh, Answered,
     OneRequestPerTransaction, LeaseGranted, Ended

\* The transaction id of an Acquire is one of its ids.
LEMMA XidType ==
    ASSUME TypeOK, NEW q \in Acquire
    PROVE  Xid(q) \in Xids /\ Xid(q)[1] = q /\ Xid(q)[2] = try[q]
  BY DEF TypeOK, Xid, Xids

\* Every step keeps the variables well typed.
LEMMA TypeStep ==
    ASSUME TypeOK, DhcpInv, [Next]_vars
    PROVE  TypeOK'
<1> USE MaxTriesPositive, ZeroIsNoAddr DEF TypeOK, Ended
<1>1. ASSUME NEW q \in Acquire, Start(q) \/ Discover(q)
      PROVE  TypeOK'
  BY <1>1, XidType DEF Start, Discover, HandshakeFails, Goto, Messages
<1>2. ASSUME NEW q \in Acquire, NEW m \in replies, RecvOffer(q, m)
      PROVE  TypeOK'
  <2>1. m.ip \in Addr \cup {Zero} /\ m.sid \in Server \cup {None}
    BY DEF Replies
  <2>2. QED
    BY <1>2, <2>1, XidType DEF RecvOffer, HandshakeFails, Goto, Messages
<1>3. ASSUME NEW q \in Acquire, NEW m \in replies, RecvAck(q, m)
      PROVE  TypeOK'
  <2>1. m.ip \in Addr \cup {Zero} /\ m.sid \in Server \cup {None}
    BY DEF Replies
  <2>2. offer[q] \in [ip : Addr \cup {Zero}, sid : Server]
    BY <1>3 DEF RecvAck, DhcpInv, Requested
  <2>3. LeaseSid(q, m) \in Server
    BY <2>1, <2>2 DEF LeaseSid
  <2>4. QED
    BY <1>3, <2>1, <2>3 DEF RecvAck, Usable, HandshakeFails, Goto, Leases
<1>4. ASSUME NEW q \in Acquire,
             GiveUp(q) \/ Backoff(q) \/ Cancel(q)
                \/ \E m \in replies : RecvNak(q, m)
      PROVE  TypeOK'
  BY <1>4 DEF GiveUp, Backoff, Cancel, RecvNak, NextTry, HandshakeFails, Goto
<1>5. ASSUME NEW s \in Server, ServerOffers(s) \/ ServerAcks(s) \/ ServerNaks(s)
      PROVE  TypeOK'
  <2>1. ASSUME NEW m \in sent,
               NEW t \in {"offer", "ack", "nak"}, NEW ip \in Addr \cup {Zero},
               NEW sid \in {s, None},
               ServerSends([type |-> t, xid |-> m.xid, ip |-> ip,
                            sid |-> sid, from |-> s])
        PROVE  TypeOK'
    BY <2>1 DEF ServerSends, Messages, Replies
  <2>2. \A m \in sent : m.type = "request" => m.ip \in Addr \cup {Zero}
    BY DEF Messages
  <2>3. QED
    BY <1>5, <2>1, <2>2 DEF ServerOffers, ServerAcks, ServerNaks
<1>6. CASE UNCHANGED vars
  BY <1>6 DEF vars
<1>7. QED
  BY <1>1, <1>2, <1>3, <1>4, <1>5, <1>6 DEF Next, Step

\* A step that sends nothing, and takes no handshake to a wait for an ACK or
\* back to one for an offer, preserves the invariant.
LEMMA QuietStep ==
    ASSUME TypeOK, DhcpInv, NEW q \in Acquire,
           NEW p \in {"try", "backoff", "failed"},
           NEW k \in 0 .. MaxTries - 1,
           phase[q] \notin Ended, Goto(q, p), try' = [try EXCEPT ![q] = k],
           (k = try[q] /\ (phase[q] = "start" \/ p # "try")) \/ k > try[q],
           UNCHANGED <<offer, lease, sent, replies>>
    PROVE  DhcpInv'
<1> USE DEF DhcpInv, TypeOK, Goto, Ended
<1>1. Requested'
  BY DEF Requested, RequestOf, Xid
<1>2. Fresh'
  BY DEF Fresh, Messages, Xids
<1>3. Answered'
  BY DEF Answered
<1>4. OneRequestPerTransaction'
  BY DEF OneRequestPerTransaction
<1>5. LeaseGranted'
  BY DEF LeaseGranted, Xid
<1>6. QED
  BY <1>1, <1>2, <1>3, <1>4, <1>5

\* A failed handshake preserves the invariant.
LEMMA FailStep ==
    ASSUME TypeOK, DhcpInv, NEW q \in Acquire, phase[q] \notin Ended,
           HandshakeFails(q), UNCHANGED <<offer, lease, sent, replies>>
    PROVE  DhcpInv'
<1>1. try' = [try EXCEPT ![q] = try[q]] /\ try[q] \in 0 .. MaxTries - 1
  BY DEF HandshakeFails, TypeOK
<1>2. QED
  BY <1>1, QuietStep DEF HandshakeFails

\* The next try of a handshake preserves the invariant.
LEMMA NextTryStep ==
    ASSUME TypeOK, DhcpInv, NEW q \in Acquire, phase[q] \notin Ended, NextTry(q),
           UNCHANGED <<offer, lease, sent, replies>>
    PROVE  DhcpInv'
<1>0. try[q] \in 0 .. MaxTries - 1 /\ try \in [Acquire -> 0 .. MaxTries - 1]
  BY DEF TypeOK
<1>1. CASE try[q] = MaxTries - 1
  <2>1. Goto(q, "failed") /\ try' = [try EXCEPT ![q] = try[q]]
    BY <1>0, <1>1, MaxTriesPositive DEF NextTry
  <2>2. QED
    BY <1>0, <2>1, QuietStep
<1>2. CASE try[q] < MaxTries - 1
  <2>1. /\ Goto(q, "try") /\ try' = [try EXCEPT ![q] = try[q] + 1]
        /\ try[q] + 1 \in 0 .. MaxTries - 1 /\ try[q] + 1 > try[q]
    BY <1>0, <1>2, MaxTriesPositive DEF NextTry
  <2>2. QED
    BY <2>1, QuietStep
<1>3. QED
  BY <1>1, <1>2 DEF NextTry

\* Sending a DISCOVER preserves the invariant.
LEMMA DiscoverStep ==
    ASSUME TypeOK, DhcpInv, NEW q \in Acquire, Discover(q)
    PROVE  DhcpInv'
<1>1. CASE UNCHANGED sent
  <2>1. CASE HandshakeFails(q)
    BY <1>1, <2>1, FailStep DEF Discover, Ended
  <2>2. CASE Goto(q, "failed") /\ UNCHANGED try
    <3>1. try' = [try EXCEPT ![q] = try[q]] /\ try[q] \in 0 .. MaxTries - 1
      BY <2>2 DEF TypeOK
    <3>2. QED
      BY <1>1, <2>2, <3>1, QuietStep DEF Discover, Ended
  <2>3. CASE Goto(q, "selecting") /\ UNCHANGED try
    <3> USE DEF DhcpInv, TypeOK, Goto, Ended, Discover
    <3>1. Requested' /\ Fresh'
      BY <1>1, <2>3 DEF Requested, RequestOf, Xid, Fresh, Messages, Xids
    <3>2. Answered' /\ OneRequestPerTransaction' /\ LeaseGranted'
      BY <1>1, <2>3 DEF Answered, OneRequestPerTransaction, LeaseGranted, Xid
    <3>3. QED
      BY <3>1, <3>2
  <2>4. QED
    BY <1>1, <2>1, <2>2, <2>3 DEF Discover
<1>2. CASE sent' # sent
  <2> DEFINE d == [type |-> "discover", xid |-> Xid(q), ip |-> None,
                   sid |-> None]
  <2> USE DEF DhcpInv, TypeOK, Goto, Ended
  <2>1. /\ sent' = sent \cup {d} /\ Goto(q, "selecting") /\ phase[q] = "try"
        /\ UNCHANGED <<try, offer, lease, replies>>
    BY <1>2 DEF Discover
  <2>2. d.xid[1] = q /\ d.xid[2] = try[q] /\ d.type = "discover"
    BY XidType
  <2>3. Requested'
    BY <2>1 DEF Requested, RequestOf, Xid
  <2>4. Fresh'
    BY <2>1, <2>2 DEF Fresh, Messages, Xids
  <2>5. Answered' /\ OneRequestPerTransaction' /\ LeaseGranted'
    BY <2>1, <2>2, ZenonT(40) DEF Answered, OneRequestPerTransaction, LeaseGranted, Xid
  <2>6. QED
    BY <2>3, <2>4, <2>5
<1>3. QED
  BY <1>1, <1>2

\* Taking an offer preserves the invariant: the request sent for it is the
\* first under its id.
LEMMA RecvOfferStep ==
    ASSUME TypeOK, DhcpInv, NEW q \in Acquire, NEW m \in replies, RecvOffer(q, m)
    PROVE  DhcpInv'
<1>1. CASE UNCHANGED <<offer, sent>>
  <2>1. CASE HandshakeFails(q)
    BY <1>1, <2>1, FailStep DEF RecvOffer, Ended
  <2>2. CASE ~HandshakeFails(q)
    <3>1. /\ m.sid # None /\ Goto(q, "requesting") /\ q \notin cancelled
          /\ offer' = [offer EXCEPT ![q] = [ip |-> m.ip, sid |-> m.sid]]
          /\ [type |-> "request", xid |-> Xid(q), ip |-> m.ip, sid |-> m.sid]
                \in sent
      BY <1>1, <2>2 DEF RecvOffer
    <3>2. phase[q] = "selecting"
      BY DEF RecvOffer
    <3>3. QED
      BY <3>1, <3>2, XidType DEF DhcpInv, Fresh
  <2>3. QED
    BY <2>1, <2>2
<1>2. CASE ~UNCHANGED <<offer, sent>>
  <2> DEFINE r == [type |-> "request", xid |-> Xid(q), ip |-> m.ip,
                   sid |-> m.sid]
  <2> USE DEF DhcpInv, TypeOK, Goto, Ended
  <2>1. /\ phase[q] = "selecting" /\ m.sid # None
        /\ offer' = [offer EXCEPT ![q] = [ip |-> m.ip, sid |-> m.sid]]
        /\ sent' = sent \cup {r}
        /\ \E p \in {"failed", "backoff", "requesting"} : Goto(q, p)
        /\ UNCHANGED <<try, lease, replies>>
    BY <1>2 DEF RecvOffer, HandshakeFails
  <2>2. r.xid[1] = q /\ r.xid[2] = try[q] /\ r.xid = Xid(q)
    BY XidType
  <2>3. \A n \in sent : n.type = "request" => n.xid # r.xid
    BY <2>1, <2>2 DEF Fresh
  <2>4. Requested'
    <3>1. [ip |-> m.ip, sid |-> m.sid] \in [ip : Addr \cup {Zero}, sid : Server]
      BY <2>1 DEF Replies
    <3>2. QED
      BY <2>1, <3>1 DEF Requested, RequestOf, Xid
  <2>5. Fresh'
    BY <2>1, <2>2 DEF Fresh, Messages, Xids
  <2>6. OneRequestPerTransaction'
    BY <2>1, <2>3 DEF OneRequestPerTransaction
  <2>7. Answered'
    BY <2>1 DEF Answered
  <2>8. LeaseGranted'
    BY <2>1 DEF LeaseGranted, Xid
  <2>9. QED
    BY <2>4, <2>5, <2>6, <2>7, <2>8
<1>3. QED
  BY <1>1, <1>2

\* Binding an ACK preserves the invariant: the server granted what the one
\* request of the handshake asked for.
LEMMA RecvAckStep ==
    ASSUME TypeOK, DhcpInv, NEW q \in Acquire, NEW m \in replies, RecvAck(q, m)
    PROVE  DhcpInv'
<1>1. CASE HandshakeFails(q) /\ UNCHANGED <<lease, leases>>
  BY <1>1, FailStep DEF RecvAck, Ended
<1>2. CASE Goto(q, "bound") /\ UNCHANGED try
             /\ lease' = [lease EXCEPT ![q] = [ip |-> m.ip,
                                               sid |-> LeaseSid(q, m)]]
  <2> USE DEF DhcpInv, TypeOK, Goto, Ended
  <2>1. /\ phase[q] = "requesting" /\ m.type = "ack" /\ m.xid = Xid(q)
        /\ UNCHANGED <<offer, sent, replies>>
    BY DEF RecvAck, Receives
  <2>2. /\ RequestOf(q) \in sent /\ m.sid \in {m.from, None}
        /\ [type |-> "request", xid |-> m.xid, ip |-> m.ip, sid |-> m.from]
              \in sent
    BY <2>1 DEF Requested, Answered
  <2>3. RequestOf(q) = [type |-> "request", xid |-> m.xid, ip |-> m.ip,
                        sid |-> m.from]
    BY <2>1, <2>2 DEF OneRequestPerTransaction, RequestOf
  <2>4. m.ip = offer[q].ip /\ m.from = offer[q].sid
    BY <2>3 DEF RequestOf
  <2>5. offer[q] = [ip |-> m.ip, sid |-> m.from] /\ LeaseSid(q, m) = m.from
    BY <2>1, <2>2, <2>4 DEF Requested, LeaseSid
  <2>6. LeaseGranted'
    <3>1. lease'[q] = offer[q] /\ Xid(q)' = Xid(q)
      BY <1>2, <2>5 DEF Xid
    <3>2. \A r \in Acquire \ {q} : /\ phase'[r] = phase[r]
                                   /\ lease'[r] = lease[r] /\ Xid(r)' = Xid(r)
      BY <1>2 DEF Xid
    <3>3. QED
      BY <2>1, <2>4, <3>1, <3>2 DEF LeaseGranted
  <2>7. Requested' /\ Fresh' /\ Answered' /\ OneRequestPerTransaction'
    BY <1>2, <2>1 DEF Requested, RequestOf, Xid, Fresh, Answered,
       OneRequestPerTransaction
  <2>8. QED
    BY <2>6, <2>7
<1>3. QED
  BY <1>1, <1>2 DEF RecvAck

\* A reply of a server preserves the invariant.
LEMMA ServerStep ==
    ASSUME TypeOK, DhcpInv, NEW s \in Server,
           ServerOffers(s) \/ ServerAcks(s) \/ ServerNaks(s)
    PROVE  DhcpInv'
<1> USE DEF DhcpInv, TypeOK
<1>1. PICK r : /\ ServerSends(r)
               /\ r.type = "ack" =>
                     /\ r.sid \in {r.from, None}
                     /\ \E m \in sent : /\ m.type = "request" /\ m.sid = r.from
                                        /\ m.xid = r.xid /\ m.ip = r.ip
  <2>1. CASE ServerOffers(s)
    <3>1. PICK m \in sent, ip \in Addr \cup {Zero}, sid \in {s, None} :
            ServerSends([type |-> "offer", xid |-> m.xid, ip |-> ip,
                         sid |-> sid, from |-> s])
      BY <2>1 DEF ServerOffers
    <3>2. QED
      BY <3>1
  <2>2. CASE ServerNaks(s)
    <3>1. PICK m \in sent :
            ServerSends([type |-> "nak", xid |-> m.xid, ip |-> Zero,
                         sid |-> s, from |-> s])
      BY <2>2 DEF ServerNaks
    <3>2. QED
      BY <3>1
  <2>3. CASE ServerAcks(s)
    <3>1. PICK m \in sent, sid \in {s, None} :
            /\ m.type = "request" /\ m.sid = s
            /\ ServerSends([type |-> "ack", xid |-> m.xid, ip |-> m.ip,
                            sid |-> sid, from |-> s])
      BY <2>3 DEF ServerAcks
    <3>2. QED
      BY <3>1
  <2>4. QED
    BY <2>1, <2>2, <2>3
<1>2. \A m \in sent : m.type = "request" =>
        m = [type |-> "request", xid |-> m.xid, ip |-> m.ip, sid |-> m.sid]
  BY DEF Messages
<1>3. Answered'
  BY <1>1, <1>2 DEF Answered, ServerSends
<1>4. Requested' /\ Fresh' /\ OneRequestPerTransaction' /\ LeaseGranted'
  BY <1>1 DEF Requested, RequestOf, Xid, Fresh, OneRequestPerTransaction,
     LeaseGranted, ServerSends
<1>5. QED
  BY <1>3, <1>4

\* Every step preserves the invariant.
LEMMA InvStep ==
    ASSUME TypeOK, DhcpInv, [Next]_vars
    PROVE  DhcpInv'
<1>1. ASSUME NEW q \in Acquire, Start(q)
      PROVE  DhcpInv'
  <2>1. try' = [try EXCEPT ![q] = try[q]] /\ try[q] \in 0 .. MaxTries - 1
    BY <1>1 DEF Start, TypeOK
  <2>2. QED
    BY <1>1, <2>1, QuietStep DEF Start, Ended
<1>2. ASSUME NEW q \in Acquire, NEW m \in replies, RecvNak(q, m)
      PROVE  DhcpInv'
  BY <1>2, NextTryStep DEF RecvNak, Ended
<1>3. ASSUME NEW q \in Acquire, GiveUp(q)
      PROVE  DhcpInv'
  BY <1>3, FailStep DEF GiveUp, Ended
<1>4. ASSUME NEW q \in Acquire, Backoff(q)
      PROVE  DhcpInv'
  <2>1. try' = [try EXCEPT ![q] = try[q]] \/ NextTry(q)
    BY <1>4 DEF Backoff, TypeOK
  <2>2. try[q] \in 0 .. MaxTries - 1
    BY DEF TypeOK
  <2>3. CASE NextTry(q)
    BY <1>4, <2>3, NextTryStep DEF Backoff, Ended
  <2>4. CASE ~NextTry(q)
    BY <1>4, <2>1, <2>2, <2>4, QuietStep DEF Backoff, Ended
  <2>5. QED
    BY <2>3, <2>4
<1>5. CASE (\E q \in Acquire : Cancel(q)) \/ UNCHANGED vars
  <2>1. UNCHANGED <<phase, try, offer, lease, sent, replies>>
    BY <1>5 DEF Cancel, vars
  <2>2. Requested' /\ Fresh' /\ Answered'
    BY <2>1 DEF DhcpInv, Requested, RequestOf, Xid, Fresh, Answered
  <2>3. OneRequestPerTransaction' /\ LeaseGranted'
    BY <2>1 DEF DhcpInv, OneRequestPerTransaction, LeaseGranted, Xid
  <2>4. QED
    BY <2>2, <2>3 DEF DhcpInv
<1>6. QED
  BY <1>1, <1>2, <1>3, <1>4, <1>5, DiscoverStep, RecvOfferStep, RecvAckStep,
     ServerStep DEF Next, Step

\* The inductive invariant holds in every reachable state.
THEOREM DhcpInductive == Spec => [](TypeOK /\ DhcpInv)
<1>1. TypeOK /\ DhcpInv /\ [Next]_vars => (TypeOK /\ DhcpInv)'
  BY TypeStep, InvStep
<1>2. QED
  BY <1>1, InitInv, PTL DEF Spec

\* Every variable always holds a value of its kind.
THEOREM DhcpTypes == Spec => []TypeOK
  BY DhcpInductive, PTL

\* A lease is always one that the server it names granted in answer to the
\* last request, however replies are lost, repeated, delayed or overheard.
THEOREM LeasesAreGranted == Spec => []LeaseGranted
<1>1. DhcpInv => LeaseGranted
  BY DEF DhcpInv
<1>2. QED
  BY <1>1, DhcpInductive, PTL

\* No transaction ever asks for two addresses.
THEOREM SingleRequests == Spec => []OneRequestPerTransaction
<1>1. DhcpInv => OneRequestPerTransaction
  BY DEF DhcpInv
<1>2. QED
  BY <1>1, DhcpInductive, PTL

\* A cancelled Acquire starts no new try, and returns a lease only when it was
\* already waiting for the ACK: the loop looks at the context before it sends a
\* DISCOVER, and recvReply before it waits for an ACK.
THEOREM CancelledEnds == Spec => CancelledStops
<1>1. TypeOK /\ [Next]_vars
        => [\A q \in cancelled :
              /\ \A m \in sent' \ sent : m.type = "discover" => m.xid[1] # q
              /\ phase[q] \notin Ended \cup {"requesting"}
                    => phase'[q] # "bound"]_vars
  <2> SUFFICES ASSUME TypeOK, Next, NEW q \in cancelled
               PROVE  /\ \A m \in sent' \ sent : m.type = "discover" => m.xid[1] # q
                      /\ phase[q] \notin Ended \cup {"requesting"}
                            => phase'[q] # "bound"
    OBVIOUS
  <2>0. q \in Acquire
    BY DEF TypeOK
  <2> USE DEF TypeOK, Goto, HandshakeFails, NextTry, Ended
  <2>1. ASSUME NEW r \in Acquire, Discover(r)
        PROVE  /\ \A m \in sent' \ sent : m.xid[1] # q
               /\ phase'[q] = "bound" => phase[q] = "bound"
    <3>1. CASE r \in cancelled
      BY <2>0, <2>1, <3>1 DEF Discover
    <3>2. CASE r \notin cancelled
      <4>1. Xid(r)[1] # q
        BY <3>2 DEF Xid
      <4> QED
        BY <2>0, <2>1, <3>2, <4>1 DEF Discover
    <3> QED
      BY <3>1, <3>2
  <2>2. ASSUME NEW r \in Acquire, NEW m \in replies, RecvOffer(r, m)
        PROVE  /\ \A n \in sent' \ sent : n.type = "request"
               /\ phase'[q] = "bound" => phase[q] = "bound"
    BY <2>0, <2>2 DEF RecvOffer
  <2>3. ASSUME NEW r \in Acquire, NEW m \in replies, RecvAck(r, m)
        PROVE  /\ sent' = sent
               /\ phase'[q] = "bound" => phase[q] \in {"bound", "requesting"}
    BY <2>0, <2>3 DEF RecvAck
  <2>4. ASSUME NEW r \in Acquire,
               \/ Start(r) \/ GiveUp(r) \/ Backoff(r) \/ Cancel(r)
               \/ \E m \in replies : RecvNak(r, m)
        PROVE  sent' = sent /\ (phase'[q] = "bound" => phase[q] = "bound")
    BY <2>0, <2>4 DEF Start, GiveUp, Backoff, Cancel, RecvNak
  <2>5. ASSUME NEW s \in Server, ServerOffers(s) \/ ServerAcks(s) \/ ServerNaks(s)
        PROVE  UNCHANGED <<sent, phase>>
    BY <2>5 DEF ServerOffers, ServerAcks, ServerNaks, ServerSends
  <2> QED
    BY <2>1, <2>2, <2>3, <2>4, <2>5 DEF Next, Step
<1> QED
  BY <1>1, DhcpTypes, PTL DEF Spec, CancelledStops

-----------------------------------------------------------------------------
\* What render makes of the entries.  The claims about recursive functions are
\* by induction, on the smallest number where one would fail.

\* A set of naturals that is not empty has a smallest element: what an
\* induction needs, for the set of the numbers where a claim fails.
LEMMA SmallestOf ==
    ASSUME NEW T \in SUBSET Nat, T # {}
    PROVE  \E n \in T : \A m \in T : n <= m
<1> DEFINE Less == {p \in Nat \X Nat : p[1] < p[2]}
<1>0. IsWellFoundedOn(Less, Nat)
  BY NatLessThanWellFounded DEF OpToRel
<1>1. \E n \in T : \A m \in T : ~ (<<m, n>> \in Less)
  <2> HIDE DEF Less
  <2> QED BY <1>0, WFMin
<1>2. PICK n \in T : \A m \in T : ~ (<<m, n>> \in Less)
  BY <1>1
<1>3. ASSUME NEW m \in T PROVE n <= m
  <2>1. ~ (m < n)
    <3>1. <<m, n>> \in Less <=> m < n
      OBVIOUS
    <3> QED BY <1>2, <3>1
  <2> QED BY <2>1
<1> QED
  BY <1>3

\* Sorted enumerates a finite set in a strict total order: the number of those
\* before it tells every element's place.
LEMMA SortedInOrder ==
    ASSUME NEW S, IsFiniteSet(S), NEW R,
           \A x \in S : <<x, x>> \notin R,
           \A x, y \in S : x # y => <<x, y>> \in R \/ <<y, x>> \in R,
           \A x, y, z \in S : <<x, y>> \in R /\ <<y, z>> \in R => <<x, z>> \in R
    PROVE  /\ Cardinality(S) \in Nat
           /\ Sorted(S, R) \in [1 .. Cardinality(S) -> S]
           /\ \A x \in S : \E k \in 1 .. Cardinality(S) : Sorted(S, R)[k] = x
           /\ \A k, l \in 1 .. Cardinality(S) :
                 k < l => <<Sorted(S, R)[k], Sorted(S, R)[l]>> \in R
<1> DEFINE Below(x) == {y \in S : <<y, x>> \in R}
           rank == [x \in S |-> Cardinality(Below(x)) + 1]
           n == Cardinality(S)
<1>1. n \in Nat
  BY FS_CardinalityType
<1>2. ASSUME NEW x \in S
      PROVE  /\ IsFiniteSet(Below(x)) /\ Cardinality(Below(x)) \in Nat
             /\ Cardinality(Below(x)) < n
  <2>1. Below(x) \subseteq S /\ x \notin Below(x)
    OBVIOUS
  <2>2. IsFiniteSet(Below(x)) /\ Cardinality(Below(x)) <= n
        /\ (n = Cardinality(Below(x)) => S = Below(x))
    <3> HIDE DEF Below
    <3> QED BY <2>1, FS_Subset
  <2>3. Cardinality(Below(x)) \in Nat
    <3> HIDE DEF Below
    <3> QED BY <2>2, FS_CardinalityType
  <2> HIDE DEF Below, n
  <2> QED BY <2>1, <2>2, <2>3, <1>1
<1>3. ASSUME NEW x \in S, NEW y \in S, <<x, y>> \in R
      PROVE  Cardinality(Below(x)) < Cardinality(Below(y))
  <2>1. Below(x) \subseteq Below(y) /\ x \in Below(y) /\ x \notin Below(x)
    BY <1>3
  <2> HIDE DEF Below
  <2>2. IsFiniteSet(Below(y)) /\ Cardinality(Below(y)) \in Nat
    BY <1>2
  <2>3. Cardinality(Below(x)) \in Nat
    BY <1>2
  <2>4. /\ Cardinality(Below(x)) <= Cardinality(Below(y))
        /\ Cardinality(Below(y)) = Cardinality(Below(x)) => Below(y) = Below(x)
    BY <2>1, <2>2, FS_Subset
  <2> QED
    BY <2>1, <2>2, <2>3, <2>4
<1>4. rank \in [S -> 1 .. n]
  <2> HIDE DEF Below, n
  <2> QED BY <1>1, <1>2
<1>5. \A x, y \in S : rank[x] < rank[y] <=> <<x, y>> \in R
  <2> SUFFICES ASSUME NEW x \in S, NEW y \in S
               PROVE  rank[x] < rank[y] <=> <<x, y>> \in R
    OBVIOUS
  <2>1. rank[x] = Cardinality(Below(x)) + 1 /\ rank[y] = Cardinality(Below(y)) + 1
    OBVIOUS
  <2>2. Cardinality(Below(x)) \in Nat /\ Cardinality(Below(y)) \in Nat
    BY <1>2
  <2>3. <<x, y>> \in R => Cardinality(Below(x)) < Cardinality(Below(y))
    BY <1>3
  <2>4. <<y, x>> \in R => Cardinality(Below(y)) < Cardinality(Below(x))
    BY <1>3
  <2> HIDE DEF Below, rank
  <2> QED BY <2>1, <2>2, <2>3, <2>4
<1> HIDE DEF rank
<1>6. rank \in Injection(S, 1 .. n)
  <2> SUFFICES ASSUME NEW x \in S, NEW y \in S, rank[x] = rank[y] PROVE x = y
    BY <1>4 DEF Injection, IsInjective
  <2> HIDE DEF n
  <2> QED BY <1>1, <1>4, <1>5
<1>7. IsFiniteSet(1 .. n) /\ Cardinality(1 .. n) = n
  BY <1>1, FS_Interval
<1>8. Range(rank) = 1 .. n
  <2>1. Range(rank) \subseteq 1 .. n
    BY <1>4 DEF Range
  <2>2. rank \in Bijection(S, Range(rank))
    BY <1>6, Fun_InjMeansBijImage DEF Range
  <2>3. IsFiniteSet(Range(rank)) /\ Cardinality(Range(rank)) = n
    BY <2>2, FS_Bijection DEF ExistsBijection
  <2> QED
    BY <2>1, <2>3, <1>7, FS_Subset
<1>9. ASSUME NEW k \in 1 .. n
      PROVE  Sorted(S, R)[k] \in S /\ rank[Sorted(S, R)[k]] = k
  <2>1. PICK x \in S : rank[x] = k
    BY <1>8, <1>4 DEF Range
  <2>2. Cardinality(Below(x)) = k - 1
    <3>1. rank[x] = Cardinality(Below(x)) + 1
      BY DEF rank
    <3>2. Cardinality(Below(x)) \in Nat
      BY <1>2
    <3> HIDE DEF Below
    <3> QED BY <2>1, <3>1, <3>2
  <2>3. Sorted(S, R)[k] = CHOOSE y \in S : Cardinality(Below(y)) = k - 1
    BY DEF Sorted
  <2>4. Sorted(S, R)[k] \in S /\ Cardinality(Below(Sorted(S, R)[k])) = k - 1
    <3> HIDE DEF Below
    <3> QED BY <2>2, <2>3
  <2> QED
    BY <2>4, <1>1 DEF rank
<1>10. Sorted(S, R) \in [1 .. n -> S]
  <2> DEFINE e(k) == CHOOSE x \in S : Cardinality(Below(x)) = k - 1
  <2>1. Sorted(S, R) = [k \in 1 .. n |-> e(k)]
    BY DEF Sorted
  <2> HIDE DEF e, n
  <2> QED BY <2>1, <1>9
<1>11. \A x \in S : rank[x] \in 1 .. n /\ Sorted(S, R)[rank[x]] = x
  <2> SUFFICES ASSUME NEW x \in S PROVE rank[x] \in 1 .. n /\ Sorted(S, R)[rank[x]] = x
    OBVIOUS
  <2> QED
    BY <1>4, <1>9, <1>6 DEF Injection, IsInjective
<1> QED
  BY <1>1, <1>5, <1>9, <1>10, <1>11

\* f starts with b, and h makes f[n] of f[n - 1].
Unfolds(f, N, V, b, h) ==
    /\ f \in [0 .. N -> V] /\ f[0] = b
    /\ \A n \in 1 .. N : f[n] = h[<<n, f[n - 1]>>]

\* A function is defined by its first value and a step from each to the next.
LEMMA Recursion ==
    ASSUME NEW N \in Nat, NEW V, NEW b \in V, NEW h \in [(1 .. N) \X V -> V]
    PROVE  \E f : Unfolds(f, N, V, b, h)
<1> USE DEF Unfolds
<1> DEFINE Good(f, m) == Unfolds(f, m, V, b, h)
           Bad == {m \in 0 .. N : ~ \E f : Good(f, m)}
<1>1. Bad = {}
  <2> SUFFICES ASSUME Bad # {} PROVE FALSE
    OBVIOUS
  <2>1. PICK m \in Bad : \A k \in Bad : m <= k
    <3>1. Bad \in SUBSET Nat
      OBVIOUS
    <3> HIDE DEF Bad
    <3> QED BY <3>1, SmallestOf
  <2>2. m # 0
    <3>1. Good([n \in 0 .. 0 |-> b], 0)
      OBVIOUS
    <3> QED BY <3>1
  <2>3. m \in 1 .. N /\ m - 1 \in 0 .. N
    BY <2>2
  <2>4. PICK f : Good(f, m - 1)
    <3>1. m - 1 \notin Bad
      <4> HIDE DEF Bad
      <4> QED BY <2>1, <2>3
    <3> HIDE DEF Good
    <3> QED BY <3>1, <2>3
  <2> DEFINE g == [n \in 0 .. m |-> IF n = m THEN h[<<m, f[m - 1]>>] ELSE f[n]]
  <2>5. h[<<m, f[m - 1]>>] \in V
    <3>1. f[m - 1] \in V
      BY <2>3, <2>4
    <3> QED BY <3>1, <2>3
  <2>6. Good(g, m)
    <3>1. g \in [0 .. m -> V] /\ g[0] = b
      BY <2>3, <2>4, <2>5
    <3>2. ASSUME NEW n \in 1 .. m PROVE g[n] = h[<<n, g[n - 1]>>]
      <4>1. CASE n = m
        <5>1. g[n] = h[<<m, f[m - 1]>>] /\ g[n - 1] = f[m - 1]
          BY <4>1, <2>3
        <5> QED BY <4>1, <5>1
      <4>2. CASE n # m
        <5>1. n \in 1 .. m - 1 /\ n - 1 \in 0 .. m /\ n - 1 # m /\ n \in 0 .. m
          BY <4>2, <2>3
        <5>2. f[n] = h[<<n, f[n - 1]>>]
          BY <5>1, <2>4
        <5> QED BY <4>2, <5>1, <5>2
      <4> QED BY <4>1, <4>2
    <3> QED BY <3>1, <3>2
  <2> QED
    <3> HIDE DEF Good
    <3> QED BY <2>6, <2>1
<1>2. PICK f : Good(f, N)
  <2> HIDE DEF Good
  <2> QED BY <1>1
<1> QED
  BY <1>2

\* What sums the widths one by one is Chars.
LEMMA CharsUnfold ==
    ASSUME NEW s \in Seq(DOMAIN Width), NEW f, f[0] = 0,
           \A n \in 1 .. Len(s) : f[n] = f[n - 1] + Width[s[n]]
    PROVE  Chars(s) = f[Len(s)]
<1> DEFINE Def(g) == g = [n \in 0 .. Len(s) |->
                            IF n = 0 THEN 0 ELSE g[n - 1] + Width[s[n]]]
           total == CHOOSE g : Def(g)
<1>1. Len(s) \in Nat /\ \A n \in 1 .. Len(s) : s[n] \in DOMAIN Width
  OBVIOUS
<1>2. Def([n \in 0 .. Len(s) |-> f[n]])
  <2>1. ASSUME NEW n \in 0 .. Len(s), n # 0
        PROVE  n \in 1 .. Len(s) /\ n - 1 \in 0 .. Len(s)
    BY <1>1, <2>1
  <2> QED BY <2>1
<1>3. Def(total)
  <2> HIDE DEF Def
  <2> QED BY <1>2
<1> HIDE DEF total
<1> DEFINE Bad == {n \in 0 .. Len(s) : total[n] # f[n]}
<1>4. Bad = {}
  <2> SUFFICES ASSUME Bad # {} PROVE FALSE
    OBVIOUS
  <2>1. PICK m \in Bad : \A k \in Bad : m <= k
    <3>1. Bad \in SUBSET Nat
      BY <1>1
    <3> HIDE DEF Bad
    <3> QED BY <3>1, SmallestOf
  <2>2. total[m] = IF m = 0 THEN 0 ELSE total[m - 1] + Width[s[m]]
    BY <1>3
  <2>3. m # 0
    BY <2>2
  <2>4. m \in 1 .. Len(s) /\ m - 1 \in 0 .. Len(s) /\ ~ (m <= m - 1)
    BY <2>3, <1>1
  <2>5. total[m - 1] = f[m - 1]
    BY <2>1, <2>4
  <2> QED
    BY <2>2, <2>3, <2>4, <2>5
<1>5. Chars(s) = total[Len(s)]
  BY DEF Chars, total
<1> QED
  BY <1>1, <1>4, <1>5

\* Each domain adds its width to the line.
LEMMA CharsGrow ==
    ASSUME NEW s \in Seq(DOMAIN Width)
    PROVE  \E f \in [0 .. Len(s) -> Nat] :
              /\ f[0] = 0
              /\ \A n \in 1 .. Len(s) : f[n] = f[n - 1] + Width[s[n]]
              /\ \A n \in 0 .. Len(s) : Chars(SubSeq(s, 1, n)) = f[n]
<1>1. Len(s) \in Nat /\ \A n \in 1 .. Len(s) : s[n] \in DOMAIN Width
  OBVIOUS
<1> DEFINE h == [p \in (1 .. Len(s)) \X Nat |-> p[2] + Width[s[p[1]]]]
<1>2. h \in [(1 .. Len(s)) \X Nat -> Nat]
  <2>1. \A k \in 1 .. Len(s) : Width[s[k]] \in Nat
    BY DnsConstants, <1>1
  <2> QED
    BY <2>1
<1>3. PICK f \in [0 .. Len(s) -> Nat] :
         f[0] = 0 /\ \A n \in 1 .. Len(s) : f[n] = h[<<n, f[n - 1]>>]
  <2>1. 0 \in Nat
    OBVIOUS
  <2> HIDE DEF h
  <2>2. \E f : Unfolds(f, Len(s), Nat, 0, h)
    BY <1>1, <1>2, <2>1, Recursion
  <2> QED
    BY <2>2 DEF Unfolds
<1>4. ASSUME NEW n \in 1 .. Len(s) PROVE f[n] = f[n - 1] + Width[s[n]]
  <2>1. f[n - 1] \in Nat
    BY <1>1
  <2> QED BY <1>3, <2>1
<1> HIDE DEF h
<1>5. ASSUME NEW n \in 0 .. Len(s) PROVE Chars(SubSeq(s, 1, n)) = f[n]
  <2> DEFINE t == SubSeq(s, 1, n)
  <2>1. t \in Seq(DOMAIN Width) /\ Len(t) = n /\ \A k \in 1 .. n : t[k] = s[k]
    BY <1>1
  <2>2. \A k \in 1 .. Len(t) : f[k] = f[k - 1] + Width[t[k]]
    <3> SUFFICES ASSUME NEW k \in 1 .. n PROVE f[k] = f[k - 1] + Width[t[k]]
      BY <2>1
    <3> HIDE DEF t
    <3>1. k \in 1 .. Len(s)
      BY <1>1
    <3> QED BY <3>1, <2>1, <1>4
  <2> HIDE DEF t
  <2>3. Chars(t) = f[Len(t)]
    BY <2>1, <2>2, <1>3, CharsUnfold
  <2> QED
    BY <2>1, <2>3 DEF t
<1> QED
  BY <1>3, <1>4, <1>5

\* s is the concatenation of ss[1], ..., ss[m]: row and col say from where its items are.
Spread(s, ss, m, row, col) ==
    /\ row \in [1 .. Len(s) -> Nat] /\ col \in [1 .. Len(s) -> Nat]
    /\ \A q \in 1 .. Len(s) :
          /\ row[q] \in 1 .. m /\ col[q] \in 1 .. Len(ss[row[q]])
          /\ s[q] = ss[row[q]][col[q]]
    /\ \A q, r \in 1 .. Len(s) : q < r =>
          row[q] < row[r] \/ (row[q] = row[r] /\ col[q] < col[r])
    /\ \A k \in 1 .. m : \A l \in 1 .. Len(ss[k]) :
          \E q \in 1 .. Len(s) : row[q] = k /\ col[q] = l

\* One more list at the end.
LEMMA SpreadMore ==
    ASSUME NEW X, NEW ss, NEW m \in Nat, NEW s \in Seq(X), NEW row, NEW col,
           Spread(s, ss, m, row, col), ss[m + 1] \in Seq(X)
    PROVE  \E r, c : Spread(s \o ss[m + 1], ss, m + 1, r, c)
<1> DEFINE t == ss[m + 1]
           u == s \o t
           a == Len(s)
           r == [q \in 1 .. Len(u) |-> IF q <= a THEN row[q] ELSE m + 1]
           c == [q \in 1 .. Len(u) |-> IF q <= a THEN col[q] ELSE q - a]
<1>1. /\ a \in Nat /\ Len(t) \in Nat /\ Len(u) = a + Len(t)
      /\ \A q \in 1 .. Len(u) : u[q] = IF q <= a THEN s[q] ELSE t[q - a]
  OBVIOUS
<1> HIDE DEF a, u, t
<1>2. ASSUME NEW q \in 1 .. Len(u), q <= a
      PROVE  /\ q \in 1 .. a /\ r[q] = row[q] /\ c[q] = col[q] /\ u[q] = s[q]
             /\ r[q] \in 1 .. m /\ c[q] \in 1 .. Len(ss[r[q]]) /\ c[q] \in Nat
             /\ u[q] = ss[r[q]][c[q]]
  <2>1. q \in 1 .. a /\ r[q] = row[q] /\ c[q] = col[q] /\ u[q] = s[q]
    BY <1>1, <1>2
  <2>2. /\ row[q] \in 1 .. m /\ col[q] \in 1 .. Len(ss[row[q]]) /\ col[q] \in Nat
        /\ s[q] = ss[row[q]][col[q]]
    BY <2>1 DEF Spread, a
  <2> HIDE DEF r, c
  <2> QED BY <2>1, <2>2
<1>3. ASSUME NEW q \in 1 .. Len(u), ~ (q <= a)
      PROVE  /\ r[q] = m + 1 /\ c[q] = q - a /\ c[q] \in 1 .. Len(t) /\ c[q] \in Nat
             /\ u[q] = ss[r[q]][c[q]]
  BY <1>1, <1>3 DEF t
<1>4. r \in [1 .. Len(u) -> Nat] /\ c \in [1 .. Len(u) -> Nat]
  <2>1. \A q \in 1 .. Len(u) : r[q] \in Nat /\ c[q] \in Nat
    BY <1>2, <1>3
  <2> QED BY <2>1
<1> HIDE DEF r, c
<1>5. ASSUME NEW q \in 1 .. Len(u)
      PROVE  /\ r[q] \in 1 .. m + 1 /\ c[q] \in 1 .. Len(ss[r[q]])
             /\ u[q] = ss[r[q]][c[q]]
  BY <1>2, <1>3 DEF t
<1>6. ASSUME NEW q \in 1 .. Len(u), NEW p \in 1 .. Len(u), q < p
      PROVE  r[q] < r[p] \/ (r[q] = r[p] /\ c[q] < c[p])
  <2>1. CASE q <= a /\ p <= a
    <3>1. q \in 1 .. a /\ p \in 1 .. a
      BY <2>1, <1>2
    <3>2. row[q] < row[p] \/ (row[q] = row[p] /\ col[q] < col[p])
      BY <3>1, <1>6 DEF Spread, a
    <3> QED BY <2>1, <3>2, <1>2
  <2>2. CASE q <= a /\ ~ (p <= a)
    BY <2>2, <1>2, <1>3
  <2>3. CASE ~ (q <= a)
    <3>1. ~ (p <= a)
      BY <2>3, <1>6, <1>1
    <3> QED BY <2>3, <3>1, <1>3, <1>6, <1>1
  <2> QED BY <2>1, <2>2, <2>3
<1>7. ASSUME NEW k \in 1 .. m + 1, NEW l \in 1 .. Len(ss[k])
      PROVE  \E q \in 1 .. Len(u) : r[q] = k /\ c[q] = l
  <2>1. CASE k = m + 1
    <3>1. l + a \in 1 .. Len(u) /\ ~ (l + a <= a) /\ (l + a) - a = l
      BY <2>1, <1>1 DEF t
    <3> QED BY <2>1, <3>1, <1>3
  <2>2. CASE k # m + 1
    <3>1. k \in 1 .. m
      BY <2>2
    <3>2. PICK q \in 1 .. a : row[q] = k /\ col[q] = l
      BY <3>1 DEF Spread, a
    <3>3. q \in 1 .. Len(u) /\ q <= a
      BY <1>1
    <3> QED BY <3>2, <3>3, <1>2
  <2> QED BY <2>1, <2>2
<1>8. Spread(u, ss, m + 1, r, c)
  BY <1>4, <1>5, <1>6, <1>7 DEF Spread
<1> QED
  BY <1>8 DEF u, t

\* FlattenSeq concatenates.
LEMMA Flattened ==
    ASSUME NEW X, NEW m \in Nat, NEW ss \in [1 .. m -> Seq(X)]
    PROVE  /\ FlattenSeq(ss) \in Seq(X)
           /\ \E row, col : Spread(FlattenSeq(ss), ss, m, row, col)
<1>0. Len(ss) = m
  OBVIOUS
<1>1. CASE m = 0
  <2>1. FlattenSeq(ss) = ss /\ ss = <<>>
    BY <1>0, <1>1 DEF FlattenSeq
  <2>2. Spread(<<>>, ss, 0, <<>>, <<>>)
    BY DEF Spread
  <2> QED BY <1>1, <2>1, <2>2
<1>2. CASE m # 0
  <2> DEFINE Def(g) == g = [i \in 1 .. Len(ss) |->
                               IF i = 1 THEN ss[i] ELSE g[i - 1] \o ss[i]]
             flatten == CHOOSE g : Def(g)
             h == [p \in (1 .. m) \X Seq(X) |->
                     IF p[1] = 1 THEN ss[p[1]] ELSE p[2] \o ss[p[1]]]
  <2>1. h \in [(1 .. m) \X Seq(X) -> Seq(X)]
    OBVIOUS
  <2>2. PICK f : Unfolds(f, m, Seq(X), <<>>, h)
    <3>1. <<>> \in Seq(X)
      OBVIOUS
    <3> HIDE DEF h
    <3> QED BY <2>1, <3>1, Recursion
  <2> DEFINE g == [i \in 1 .. m |-> f[i]]
  <2>3. Def(g)
    <3>1. ASSUME NEW i \in 1 .. m
          PROVE  f[i] = IF i = 1 THEN ss[i] ELSE g[i - 1] \o ss[i]
      <4>1. f[i] = h[<<i, f[i - 1]>>] /\ f[i - 1] \in Seq(X)
        <5>1. i - 1 \in 0 .. m
          OBVIOUS
        <5> QED BY <2>2, <5>1 DEF Unfolds
      <4>2. f[i] = IF i = 1 THEN ss[i] ELSE f[i - 1] \o ss[i]
        BY <4>1
      <4> QED BY <4>2
    <3> QED BY <3>1, <1>0
  <2>4. Def(flatten)
    <3> HIDE DEF Def
    <3> QED BY <2>3
  <2> HIDE DEF flatten, g, h
  <2>5. FlattenSeq(ss) = flatten[m]
    BY <1>0, <1>2 DEF FlattenSeq, flatten
  <2>6. /\ flatten[1] = ss[1]
        /\ \A i \in 1 .. m : i # 1 => flatten[i] = flatten[i - 1] \o ss[i]
    <3>1. \A i \in 1 .. m : flatten[i] = IF i = 1 THEN ss[i] ELSE flatten[i - 1] \o ss[i]
      BY <2>4, <1>0
    <3>2. 1 \in 1 .. m
      BY <1>2
    <3> QED BY <3>1, <3>2
  <2> HIDE DEF Def
  <2> DEFINE Good(i) == /\ flatten[i] \in Seq(X)
                        /\ \E r, c : Spread(flatten[i], ss, i, r, c)
             Bad == {i \in 1 .. m : ~ Good(i)}
  <2>7. Bad = {}
    <3> SUFFICES ASSUME Bad # {} PROVE FALSE
      OBVIOUS
    <3>1. PICK i \in Bad : \A j \in Bad : i <= j
      <4>1. Bad \in SUBSET Nat
        OBVIOUS
      <4> HIDE DEF Bad
      <4> QED BY <4>1, SmallestOf
    <3>2. CASE i = 1
      <4>1. ss[1] \in Seq(X)
        BY <1>2
      <4> DEFINE r == [q \in 1 .. Len(ss[1]) |-> 1]
                 c == [q \in 1 .. Len(ss[1]) |-> q]
      <4>2. Spread(ss[1], ss, 1, r, c)
        BY <4>1 DEF Spread
      <4> QED BY <3>2, <4>1, <4>2, <2>6
    <3>3. CASE i # 1
      <4>1. i \in 1 .. m /\ i - 1 \in 1 .. m /\ ~ (i <= i - 1) /\ i - 1 \in Nat
            /\ i - 1 + 1 = i
        BY <3>3
      <4>2. Good(i - 1)
        <5>1. i - 1 \notin Bad
          <6> HIDE DEF Bad
          <6> QED BY <3>1, <4>1
        <5> HIDE DEF Good
        <5> QED BY <5>1, <4>1
      <4>3. PICK r, c : Spread(flatten[i - 1], ss, i - 1, r, c)
        BY <4>2
      <4>4. flatten[i] = flatten[i - 1] \o ss[i] /\ ss[i] \in Seq(X)
        BY <2>6, <4>1, <3>3
      <4>5. \E rr, cc : Spread(flatten[i], ss, i, rr, cc)
        <5> DEFINE s == flatten[i - 1]  k == i - 1
        <5>1. /\ s \in Seq(X) /\ k \in Nat /\ Spread(s, ss, k, r, c)
              /\ k + 1 = i /\ ss[k + 1] \in Seq(X) /\ flatten[i] = s \o ss[k + 1]
          BY <4>1, <4>2, <4>3, <4>4
        <5> HIDE DEF s, k
        <5>2. \E rr, cc : Spread(s \o ss[k + 1], ss, k + 1, rr, cc)
          BY <5>1, SpreadMore
        <5> QED BY <5>1, <5>2
      <4>6. flatten[i] \in Seq(X)
        BY <4>2, <4>4
      <4> QED BY <4>5, <4>6, <3>1
    <3> QED BY <3>2, <3>3
  <2>8. Good(m)
    <3>1. m \in 1 .. m
      BY <1>2
    <3> HIDE DEF Good
    <3> QED BY <2>7, <3>1
  <2> QED BY <2>5, <2>8
<1> QED BY <1>1, <1>2

\* Distinct keeps the first of each: at says from where its items are.
Firsts(d, s, at) ==
    /\ at \in [1 .. Len(d) -> 1 .. Len(s)]
    /\ \A k \in 1 .. Len(d) :
          d[k] = s[at[k]] /\ \A q \in 1 .. at[k] - 1 : s[q] # d[k]
    /\ \A k, l \in 1 .. Len(d) : k < l => at[k] < at[l]
    /\ \A q \in 1 .. Len(s) : \E k \in 1 .. Len(d) : d[k] = s[q]

\* Distinct keeps the first of each item, in order (dns.go:83-89).
LEMMA DistinctFirsts ==
    ASSUME NEW X, NEW s \in Seq(X)
    PROVE  Distinct(s) \in Seq(X) /\ \E at : Firsts(Distinct(s), s, at)
<1> DEFINE S == {k \in 1 .. Len(s) : \A l \in 1 .. k - 1 : s[l] # s[k]}
           R == {p \in S \X S : p[1] < p[2]}
           at == Sorted(S, R)
           n == Cardinality(S)
           d == Distinct(s)
<1>1. Len(s) \in Nat /\ \A q \in 1 .. Len(s) : s[q] \in X
  OBVIOUS
<1>2. S \subseteq 1 .. Len(s) /\ IsFiniteSet(S)
  <2>1. S \subseteq 1 .. Len(s) /\ IsFiniteSet(1 .. Len(s))
    BY <1>1, FS_Interval
  <2> HIDE DEF S
  <2> QED BY <2>1, FS_Subset
<1>3. \A x, y \in S : <<x, y>> \in R <=> x < y
  OBVIOUS
<1>4. /\ n \in Nat /\ at \in [1 .. n -> S]
      /\ \A x \in S : \E k \in 1 .. n : at[k] = x
      /\ \A k, l \in 1 .. n : k < l => at[k] < at[l]
  <2>1. S \subseteq Nat
    BY <1>1
  <2> HIDE DEF S, R
  <2>2. /\ \A x \in S : <<x, x>> \notin R
        /\ \A x, y \in S : x # y => <<x, y>> \in R \/ <<y, x>> \in R
        /\ \A x, y, z \in S : <<x, y>> \in R /\ <<y, z>> \in R => <<x, z>> \in R
    BY <1>3, <2>1
  <2>3. /\ Cardinality(S) \in Nat
        /\ Sorted(S, R) \in [1 .. Cardinality(S) -> S]
        /\ \A x \in S : \E k \in 1 .. Cardinality(S) : Sorted(S, R)[k] = x
        /\ \A k, l \in 1 .. Cardinality(S) :
                 k < l => <<Sorted(S, R)[k], Sorted(S, R)[l]>> \in R
    BY <1>2, <2>2, SortedInOrder
  <2> QED BY <2>3, <1>3
<1>5. d = [k \in 1 .. n |-> s[at[k]]]
  BY DEF Distinct
<1> HIDE DEF at, n, d, R
<1>6. ASSUME NEW k \in 1 .. n
      PROVE  /\ at[k] \in 1 .. Len(s) /\ d[k] = s[at[k]] /\ d[k] \in X
             /\ \A q \in 1 .. at[k] - 1 : s[q] # d[k]
  <2>1. at[k] \in S
    BY <1>4
  <2> QED BY <2>1, <1>1, <1>5
<1>7. d \in Seq(X) /\ Len(d) = n
  <2>1. d \in [1 .. n -> X]
    BY <1>5, <1>6
  <2> QED BY <2>1, <1>4
<1>8. ASSUME NEW q \in 1 .. Len(s) PROVE \E k \in 1 .. n : d[k] = s[q]
  <2> DEFINE T == {r \in 1 .. Len(s) : s[r] = s[q]}
  <2>1. PICK r \in T : \A p \in T : r <= p
    <3>1. T \in SUBSET Nat /\ T # {}
      BY <1>1
    <3> HIDE DEF T
    <3> QED BY <3>1, SmallestOf
  <2>2. r \in S
    <3> SUFFICES ASSUME NEW l \in 1 .. r - 1, s[l] = s[r] PROVE FALSE
      OBVIOUS
    <3>1. l \in 1 .. Len(s) /\ ~ (r <= l)
      BY <1>1
    <3> QED BY <3>1, <2>1
  <2>3. PICK k \in 1 .. n : at[k] = r
    <3> HIDE DEF S
    <3> QED BY <2>2, <1>4
  <2> QED BY <2>3, <1>6
<1>9. Firsts(d, s, at)
  <2>1. at \in [1 .. n -> 1 .. Len(s)]
    BY <1>4, <1>2
  <2> HIDE DEF S
  <2> QED BY <2>1, <1>4, <1>6, <1>7, <1>8 DEF Firsts
<1> QED
  BY <1>7, <1>9 DEF d

EntriesTyped == entries \in [Iface -> Entries \cup {NoEntry}]

\* The entries are taken by priority, then by name (dns.go:64-73).
LEMMA EntriesOrdered ==
    ASSUME EntriesTyped
    PROVE  LET S == Holders(entries)  n == Cardinality(S)  at == Ordered(entries) IN
           /\ n \in Nat /\ at \in [1 .. n -> S]
           /\ \A i \in S : \E k \in 1 .. n : at[k] = i
           /\ \A k, l \in 1 .. n : k < l =>
                 \/ entries[at[k]].priority < entries[at[l]].priority
                 \/ /\ entries[at[k]].priority = entries[at[l]].priority
                    /\ Rank[at[k]] < Rank[at[l]]
<1> DEFINE S == Holders(entries)
           R == {p \in S \X S :
                   LET a == entries[p[1]].priority  b == entries[p[2]].priority IN
                   a < b \/ (a = b /\ Rank[p[1]] < Rank[p[2]])}
           a(i) == entries[i].priority
<1>1. S \subseteq Iface /\ IsFiniteSet(S)
  <2>1. S \subseteq Iface /\ IsFiniteSet(Iface)
    BY DnsConstants DEF Holders
  <2> HIDE DEF S
  <2> QED BY <2>1, FS_Subset
<1>2. \A x, y \in S : <<x, y>> \in R <=> a(x) < a(y) \/ (a(x) = a(y) /\ Rank[x] < Rank[y])
  OBVIOUS
<1>3. /\ \A i \in S : a(i) \in Int /\ Rank[i] \in Nat
      /\ \A i, j \in S : Rank[i] = Rank[j] => i = j
  BY DnsConstants DEF Holders, EntriesTyped
<1>4. Ordered(entries) = Sorted(S, R)
  BY DEF Ordered
<1> HIDE DEF S, R, a
<1>5. /\ \A x \in S : <<x, x>> \notin R
      /\ \A x, y \in S : x # y => <<x, y>> \in R \/ <<y, x>> \in R
      /\ \A x, y, z \in S : <<x, y>> \in R /\ <<y, z>> \in R => <<x, z>> \in R
  <2>1. \A x \in S : <<x, x>> \notin R
    BY <1>2, <1>3
  <2>2. ASSUME NEW x \in S, NEW y \in S, x # y
        PROVE  <<x, y>> \in R \/ <<y, x>> \in R
    <3>1. /\ a(x) \in Int /\ a(y) \in Int
          /\ Rank[x] \in Nat /\ Rank[y] \in Nat /\ Rank[x] # Rank[y]
      BY <1>3, <2>2
    <3>2. <<x, y>> \in R <=> a(x) < a(y) \/ (a(x) = a(y) /\ Rank[x] < Rank[y])
      BY <1>2
    <3>3. <<y, x>> \in R <=> a(y) < a(x) \/ (a(y) = a(x) /\ Rank[y] < Rank[x])
      BY <1>2
    <3> QED BY <3>1, <3>2, <3>3
  <2>3. ASSUME NEW x \in S, NEW y \in S, NEW z \in S, <<x, y>> \in R, <<y, z>> \in R
        PROVE  <<x, z>> \in R
    <3>1. /\ a(x) \in Int /\ a(y) \in Int /\ a(z) \in Int
          /\ Rank[x] \in Nat /\ Rank[y] \in Nat /\ Rank[z] \in Nat
      BY <1>3
    <3>2. /\ a(x) < a(y) \/ (a(x) = a(y) /\ Rank[x] < Rank[y])
          /\ a(y) < a(z) \/ (a(y) = a(z) /\ Rank[y] < Rank[z])
      BY <1>2, <2>3
    <3>3. <<x, z>> \in R <=> a(x) < a(z) \/ (a(x) = a(z) /\ Rank[x] < Rank[z])
      BY <1>2
    <3> QED BY <3>1, <3>2, <3>3
  <2> QED BY <2>1, <2>2, <2>3
<1>6. /\ Cardinality(S) \in Nat
      /\ Sorted(S, R) \in [1 .. Cardinality(S) -> S]
      /\ \A x \in S : \E k \in 1 .. Cardinality(S) : Sorted(S, R)[k] = x
      /\ \A k, l \in 1 .. Cardinality(S) :
            k < l => <<Sorted(S, R)[k], Sorted(S, R)[l]>> \in R
  BY <1>1, <1>5, SortedInOrder
<1> QED
  BY <1>2, <1>4, <1>6 DEF S, a

\* The items of s are those the entries name, in order: at says from where.
Located(field, s, at) ==
    /\ \A q \in 1 .. Len(s) : at[q] \in Place(field, s[q])
    /\ \A q, r \in 1 .. Len(s) : q < r => Earlier(at[q], at[r])
    /\ \A x : \A p \in Place(field, x) : \E q \in 1 .. Len(s) : at[q] = p /\ s[q] = x

\* A place of an item: an interface with an entry and where its list has the item.
LEMMA PlaceIs ==
    ASSUME NEW field, NEW x, NEW p
    PROVE  p \in Place(field, x) <=>
              \E i \in Holders(entries) : \E k \in 1 .. Len(entries[i][field]) :
                 p = <<i, k>> /\ entries[i][field][k] = x
  BY DEF Place

\* A sequence is one of its own items.
LEMMA SeqOfItems ==
    ASSUME NEW X, NEW s \in Seq(X) PROVE s \in Seq(ToSet(s))
<1>1. Len(s) \in Nat /\ s \in [1 .. Len(s) -> X] /\ DOMAIN s = 1 .. Len(s)
  OBVIOUS
<1>2. \A k \in 1 .. Len(s) : s[k] \in ToSet(s)
  BY <1>1 DEF ToSet
<1>3. s \in [1 .. Len(s) -> ToSet(s)]
  BY <1>1, <1>2
<1> QED BY <1>1, <1>3

\* The items of a prefix.
LEMMA PrefixItems ==
    ASSUME NEW X, NEW d \in Seq(X), NEW c \in 0 .. Len(d)
    PROVE  /\ SubSeq(d, 1, c) \in Seq(X) /\ Len(SubSeq(d, 1, c)) = c
           /\ \A k \in 1 .. c : k \in 1 .. Len(d) /\ SubSeq(d, 1, c)[k] = d[k]
<1>1. Len(d) \in Nat /\ c \in Nat /\ c <= Len(d)
  OBVIOUS
<1> QED BY <1>1

\* The numbers up to n are n.
LEMMA CountUpTo ==
    ASSUME NEW n \in Nat PROVE IsFiniteSet(1 .. n) /\ Cardinality(1 .. n) = n
  BY FS_Interval

\* The lists of the entries hold what the entries name.
LEMMA ListTyped ==
    ASSUME EntriesTyped, NEW field \in {"servers", "domains"},
           NEW i \in Holders(entries)
    PROVE  /\ entries[i] \in Entries
           /\ entries[i][field] \in Seq(Named(field))
<1>1. entries[i] \in Entries
  BY DEF Holders, EntriesTyped
<1>2. entries[i][field] \in Seq(ToSet(entries[i][field]))
  <2>1. CASE field = "servers"
    BY DnsConstants, <1>1, <2>1
  <2>2. CASE field = "domains"
    <3>1. entries[i].domains \in Seq(DOMAIN Width)
      BY DnsConstants, <1>1
    <3>2. entries[i].domains \in Seq(ToSet(entries[i].domains))
      BY <3>1, SeqOfItems
    <3> QED BY <2>2, <3>2
  <2> QED BY <2>1, <2>2
<1>3. ToSet(entries[i][field]) \subseteq Named(field)
  BY DEF Named
<1> QED
  BY <1>1, <1>2, <1>3

\* The nested loops of render visit the items of the entries in order.
LEMMA ItemsLocated ==
    ASSUME EntriesTyped, NEW field \in {"servers", "domains"}
    PROVE  /\ Items(entries, field) \in Seq(Named(field))
           /\ \E at : Located(field, Items(entries, field), at)
<1> DEFINE S == Holders(entries)
           n == Cardinality(S)
           O == Ordered(entries)
           ss == [k \in 1 .. n |-> entries[O[k]][field]]
           s == Items(entries, field)
<1>1. /\ n \in Nat /\ O \in [1 .. n -> S]
      /\ \A i \in S : \E k \in 1 .. n : O[k] = i
      /\ \A k, l \in 1 .. n : k < l =>
            \/ entries[O[k]].priority < entries[O[l]].priority
            \/ /\ entries[O[k]].priority = entries[O[l]].priority
               /\ Rank[O[k]] < Rank[O[l]]
  BY EntriesOrdered
<1>2. s = FlattenSeq(ss)
  BY DEF Items
<1> HIDE DEF S, O, n, s
<1>3. ss \in [1 .. n -> Seq(Named(field))]
  BY <1>1, ListTyped DEF S
<1>4. /\ ss \in [1 .. n -> Seq(Named(field))]
      /\ \A k \in 1 .. n : ss[k] = entries[O[k]][field]
  BY <1>3
<1> HIDE DEF ss
<1>5. s \in Seq(Named(field)) /\ \E row, col : Spread(s, ss, n, row, col)
  BY <1>1, <1>2, <1>4, Flattened
<1>6. PICK row, col : Spread(s, ss, n, row, col)
  BY <1>5
<1> DEFINE at == [q \in 1 .. Len(s) |-> <<O[row[q]], col[q]>>]
<1>7. ASSUME NEW q \in 1 .. Len(s)
      PROVE  /\ at[q] = <<O[row[q]], col[q]>> /\ row[q] \in 1 .. n /\ O[row[q]] \in S
             /\ col[q] \in 1 .. Len(entries[O[row[q]]][field])
             /\ s[q] = entries[O[row[q]]][field][col[q]]
  <2>1. row[q] \in 1 .. n /\ col[q] \in 1 .. Len(ss[row[q]]) /\ s[q] = ss[row[q]][col[q]]
    BY <1>6 DEF Spread
  <2> QED BY <2>1, <1>1, <1>4
<1> HIDE DEF at
<1>8. ASSUME NEW q \in 1 .. Len(s) PROVE at[q] \in Place(field, s[q])
  <2>1. O[row[q]] \in Holders(entries)
    BY <1>7 DEF S
  <2>2. \E i \in Holders(entries) : \E k \in 1 .. Len(entries[i][field]) :
           at[q] = <<i, k>> /\ entries[i][field][k] = s[q]
    BY <1>7, <2>1
  <2> QED BY <2>2, PlaceIs
<1>9. ASSUME NEW q \in 1 .. Len(s), NEW r \in 1 .. Len(s), q < r
      PROVE  Earlier(at[q], at[r])
  <2>1. row[q] < row[r] \/ (row[q] = row[r] /\ col[q] < col[r])
    BY <1>6, <1>9 DEF Spread
  <2>2. /\ at[q][1] = O[row[q]] /\ at[q][2] = col[q]
        /\ at[r][1] = O[row[r]] /\ at[r][2] = col[r]
    BY <1>7
  <2>3. CASE row[q] < row[r]
    <3>1. row[q] \in 1 .. n /\ row[r] \in 1 .. n
      BY <1>7
    <3>2. \/ entries[O[row[q]]].priority < entries[O[row[r]]].priority
          \/ /\ entries[O[row[q]]].priority = entries[O[row[r]]].priority
             /\ Rank[O[row[q]]] < Rank[O[row[r]]]
      BY <2>3, <3>1, <1>1
    <3> QED BY <2>2, <3>2 DEF Earlier
  <2>4. CASE row[q] = row[r] /\ col[q] < col[r]
    BY <2>2, <2>4 DEF Earlier
  <2> QED BY <2>1, <2>3, <2>4
<1>10. ASSUME NEW x, NEW p \in Place(field, x)
       PROVE  \E q \in 1 .. Len(s) : at[q] = p /\ s[q] = x
  <2>0. PICK i \in S : \E k \in 1 .. Len(entries[i][field]) :
           p = <<i, k>> /\ entries[i][field][k] = x
    BY PlaceIs DEF S
  <2>1. PICK k \in 1 .. Len(entries[i][field]) :
           p = <<i, k>> /\ entries[i][field][k] = x
    BY <2>0
  <2>2. PICK j \in 1 .. n : O[j] = i
    BY <1>1
  <2>3. PICK q \in 1 .. Len(s) : row[q] = j /\ col[q] = k
    <3>1. k \in 1 .. Len(ss[j])
      BY <2>2, <1>4
    <3> QED BY <3>1, <1>6 DEF Spread
  <2> QED BY <2>1, <2>2, <2>3, <1>7
<1>11. Located(field, s, at)
  BY <1>8, <1>9, <1>10 DEF Located
<1> QED
  BY <1>5, <1>11 DEF s

\* What is named is at some place.
LEMMA NamedPlace ==
    ASSUME EntriesTyped, NEW field \in {"servers", "domains"},
           NEW x \in Named(field)
    PROVE  \E p : p \in Place(field, x)
<1>1. PICK i \in Holders(entries) : x \in ToSet(entries[i][field])
  BY DEF Named
<1>2. entries[i][field] \in Seq(Named(field))
  BY ListTyped
<1>3. PICK k \in 1 .. Len(entries[i][field]) : entries[i][field][k] = x
  BY <1>1, <1>2 DEF ToSet
<1> QED
  BY <1>3, PlaceIs

\* The first of the items, once each, are the best of a list.
LEMMA FirstsBest ==
    ASSUME EntriesTyped, NEW field \in {"servers", "domains"},
           NEW c \in 0 .. Len(Distinct(Items(entries, field))),
           NEW list, list = SubSeq(Distinct(Items(entries, field)), 1, c)
    PROVE  /\ list \in Seq(Named(field)) /\ Len(list) = c /\ Best(field, list)
           /\ IsFiniteSet(Named(field))
           /\ Cardinality(Named(field)) = Len(Distinct(Items(entries, field)))
           /\ c = Len(Distinct(Items(entries, field))) => ToSet(list) = Named(field)
           /\ Distinct(Items(entries, field)) \in Seq(Named(field))
           /\ \A k, l \in 1 .. Len(Distinct(Items(entries, field))) :
                 Distinct(Items(entries, field))[k] = Distinct(Items(entries, field))[l]
                    => k = l
<1> DEFINE s == Items(entries, field)
           d == Distinct(s)
<1>1. s \in Seq(Named(field)) /\ \E at : Located(field, s, at)
  BY ItemsLocated
<1>2. d \in Seq(Named(field)) /\ \E f : Firsts(d, s, f)
  <2> HIDE DEF s
  <2> QED BY <1>1, DistinctFirsts
<1>3. c \in 0 .. Len(d) /\ list = SubSeq(d, 1, c)
  OBVIOUS
<1> HIDE DEF d, s
<1>4. PICK at : Located(field, s, at)
  BY <1>1
<1>5. PICK f : Firsts(d, s, f)
  BY <1>2
<1>6. /\ Len(d) \in Nat /\ Len(s) \in Nat /\ c \in Nat
      /\ \A k \in 1 .. Len(d) : d[k] \in Named(field)
      /\ list \in Seq(Named(field)) /\ Len(list) = c
      /\ \A k \in 1 .. c : k \in 1 .. Len(d) /\ list[k] = d[k]
  <2>1. Len(d) \in Nat /\ Len(s) \in Nat /\ \A k \in 1 .. Len(d) : d[k] \in Named(field)
    BY <1>1, <1>2
  <2>2. c \in Nat /\ \A k \in 1 .. c : k \in 1 .. Len(d)
    BY <1>3, <2>1
  <2>3. /\ list \in Seq(Named(field)) /\ Len(list) = c
        /\ \A k \in 1 .. c : list[k] = d[k]
    <3> DEFINE pre == SubSeq(d, 1, c)
    <3>1. /\ pre \in Seq(Named(field)) /\ Len(pre) = c
          /\ \A k \in 1 .. c : k \in 1 .. Len(d) /\ pre[k] = d[k]
      <4> DEFINE X == Named(field)
      <4>1. d \in Seq(X)
        BY <1>2
      <4>2. c \in 0 .. Len(d)
        BY <1>3
      <4> HIDE DEF X
      <4>3. /\ SubSeq(d, 1, c) \in Seq(X) /\ Len(SubSeq(d, 1, c)) = c
            /\ \A k \in 1 .. c : k \in 1 .. Len(d) /\ SubSeq(d, 1, c)[k] = d[k]
        BY <4>1, <4>2, PrefixItems
      <4> QED BY <4>3 DEF X
    <3>2. list = pre
      BY <1>3
    <3> HIDE DEF pre
    <3> QED BY <3>1, <3>2
  <2> QED BY <2>1, <2>2, <2>3
\* An item that is kept comes before those kept after it and those left out.
<1>7. ASSUME NEW k \in 1 .. Len(d), NEW y, \A l \in 1 .. k : d[l] # y
      PROVE  Precedes(field, d[k], y)
  <2>1. f[k] \in 1 .. Len(s) /\ s[f[k]] = d[k]
    BY <1>5 DEF Firsts
  <2>2. at[f[k]] \in Place(field, d[k])
    BY <2>1, <1>4 DEF Located
  <2>3. ASSUME NEW p \in Place(field, y) PROVE Earlier(at[f[k]], p)
    <3>1. PICK q \in 1 .. Len(s) : at[q] = p /\ s[q] = y
      BY <1>4 DEF Located
    <3>2. PICK l \in 1 .. Len(d) : d[l] = y
      BY <3>1, <1>5 DEF Firsts
    <3>3. k < l
      BY <3>2, <1>7, <1>6
    <3>4. f[l] \in 1 .. Len(s) /\ f[k] < f[l] /\ \A r \in 1 .. f[l] - 1 : s[r] # y
      BY <3>2, <3>3, <1>5 DEF Firsts
    <3>5. ~ (q < f[l])
      <4> SUFFICES ASSUME q < f[l] PROVE FALSE
        OBVIOUS
      <4>1. q \in 1 .. f[l] - 1
        BY <3>4, <1>6
      <4> QED BY <4>1, <3>1, <3>4
    <3>6. f[k] < q
      BY <2>1, <3>4, <3>5, <1>6
    <3> QED BY <2>1, <3>1, <3>6, <1>4 DEF Located
  <2> QED BY <2>2, <2>3 DEF Precedes
<1>8. \A k, l \in 1 .. Len(d) : d[k] = d[l] => k = l
  <2>1. ASSUME NEW k \in 1 .. Len(d), NEW l \in 1 .. Len(d), k < l
        PROVE  d[k] # d[l]
    <3>1. f[k] \in 1 .. Len(s) /\ f[l] \in 1 .. Len(s) /\ f[k] < f[l]
          /\ s[f[k]] = d[k] /\ \A q \in 1 .. f[l] - 1 : s[q] # d[l]
      BY <1>5, <2>1 DEF Firsts
    <3>2. f[k] \in 1 .. f[l] - 1
      BY <3>1, <1>6
    <3> QED BY <3>1, <3>2
  <2>2. \A k, l \in 1 .. Len(d) : k < l \/ l < k \/ k = l
    BY <1>6
  <2> QED BY <2>1, <2>2
<1>9. \A x \in Named(field) : \E k \in 1 .. Len(d) : d[k] = x
  <2> SUFFICES ASSUME NEW x \in Named(field) PROVE \E k \in 1 .. Len(d) : d[k] = x
    OBVIOUS
  <2>1. PICK p : p \in Place(field, x)
    BY NamedPlace
  <2>2. PICK q \in 1 .. Len(s) : s[q] = x
    BY <2>1, <1>4 DEF Located
  <2> QED BY <2>2, <1>5 DEF Firsts
<1>10. ToSet(list) = {d[k] : k \in 1 .. c}
  <2>1. DOMAIN list = 1 .. c
    BY <1>6
  <2>2. ToSet(list) = {list[k] : k \in 1 .. c}
    BY <2>1 DEF ToSet
  <2> QED BY <1>6, <2>2
<1>11. Best(field, list)
  <2>1. ToSet(list) \subseteq Named(field)
    BY <1>10, <1>6
  <2>2. ASSUME NEW k \in 1 .. Len(list), NEW l \in 1 .. Len(list), k < l
        PROVE  Precedes(field, list[k], list[l])
    <3>1. k \in 1 .. Len(d) /\ l \in 1 .. Len(d) /\ list[k] = d[k] /\ list[l] = d[l]
      BY <1>6
    <3>2. \A m \in 1 .. k : d[m] # d[l]
      <4> SUFFICES ASSUME NEW m \in 1 .. k, d[m] = d[l] PROVE FALSE
        OBVIOUS
      <4>1. m \in 1 .. Len(d) /\ m # l
        <5>1. m \in Nat /\ 1 <= m /\ m <= k /\ k \in Nat /\ l \in Nat /\ k < l
          <6>1. k \in 1 .. c /\ l \in 1 .. c /\ k < l /\ c \in Nat
            BY <2>2, <1>6
          <6> QED BY <6>1
        <5>2. k <= Len(d) /\ Len(d) \in Nat
          BY <3>1, <1>6
        <5> QED BY <5>1, <5>2
      <4> QED BY <4>1, <3>1, <1>8
    <3> QED BY <3>1, <3>2, <1>7
  <2>3. ASSUME NEW x \in Named(field) \ ToSet(list), NEW y \in ToSet(list)
        PROVE  Precedes(field, y, x)
    <3>1. PICK k \in 1 .. c : d[k] = y
      BY <1>10
    <3>2. k \in 1 .. Len(d) /\ \A m \in 1 .. k : m \in 1 .. c
      BY <1>6
    <3>3. \A m \in 1 .. k : d[m] # x
      BY <3>2, <1>10
    <3> QED BY <3>1, <3>2, <3>3, <1>7
  <2> QED BY <2>1, <2>2, <2>3 DEF Best
<1>12. IsFiniteSet(Named(field)) /\ Cardinality(Named(field)) = Len(d)
  <2>1. d \in [1 .. Len(d) -> Named(field)]
    BY <1>2
  <2>2. d \in Bijection(1 .. Len(d), Named(field))
    BY <2>1, <1>8, <1>9 DEF Bijection, Injection, Surjection, IsInjective
  <2>3. IsFiniteSet(1 .. Len(d)) /\ Cardinality(1 .. Len(d)) = Len(d)
    <3> DEFINE n == Len(d)
    <3>1. n \in Nat
      BY <1>6
    <3> HIDE DEF n
    <3>2. IsFiniteSet(1 .. n) /\ Cardinality(1 .. n) = n
      BY <3>1, CountUpTo
    <3> QED BY <3>2 DEF n
  <2> QED BY <2>2, <2>3, FS_Bijection DEF ExistsBijection
<1>13. c = Len(d) => ToSet(list) = Named(field)
  <2> SUFFICES ASSUME c = Len(d) PROVE ToSet(list) = Named(field)
    OBVIOUS
  <2>1. Named(field) \subseteq {d[k] : k \in 1 .. c}
    BY <1>9
  <2>2. {d[k] : k \in 1 .. c} \subseteq Named(field)
    BY <1>6
  <2> QED BY <1>10, <2>1, <2>2
<1> QED
  BY <1>2, <1>6, <1>8, <1>11, <1>12, <1>13 DEF d, s

\* The search line is as long as it can be: one domain more and it is too long.
LEMMA FittingIs ==
    ASSUME NEW s \in Seq(DOMAIN Width)
    PROVE  \E c \in 0 .. Len(s) :
              /\ Fitting(s) = SubSeq(s, 1, c)
              /\ Chars(Fitting(s)) <= MaxSearchChars
              /\ c # Len(s) => Chars(Fitting(s)) + Width[s[c + 1]] > MaxSearchChars
<1>1. PICK f \in [0 .. Len(s) -> Nat] :
         /\ f[0] = 0
         /\ \A n \in 1 .. Len(s) : f[n] = f[n - 1] + Width[s[n]]
         /\ \A n \in 0 .. Len(s) : Chars(SubSeq(s, 1, n)) = f[n]
  BY CharsGrow
<1>2. Len(s) \in Nat /\ MaxSearchChars \in Nat
  BY DnsConstants
<1>3. \A n \in 0 .. Len(s) : Len(SubSeq(s, 1, n)) = n
  BY <1>2
<1> DEFINE Fits(t) == /\ Chars(t) <= MaxSearchChars
                      /\ \A u \in Prefixes(s) :
                            Chars(u) <= MaxSearchChars => Len(u) <= Len(t)
           T == {k \in 0 .. Len(s) : f[Len(s) - k] <= MaxSearchChars}
<1>4. PICK k \in T : \A l \in T : k <= l
  <2>1. Len(s) \in T /\ T \in SUBSET Nat
    BY <1>1, <1>2
  <2> HIDE DEF T
  <2> QED BY <2>1, SmallestOf
<1>5. Len(s) - k \in 0 .. Len(s) /\ f[Len(s) - k] <= MaxSearchChars
  BY <1>2, <1>4
<1>6. SubSeq(s, 1, Len(s) - k) \in Prefixes(s) /\ Fits(SubSeq(s, 1, Len(s) - k))
  <2>1. SubSeq(s, 1, Len(s) - k) \in Prefixes(s)
    BY <1>5 DEF Prefixes
  <2>2. ASSUME NEW u \in Prefixes(s), Chars(u) <= MaxSearchChars
        PROVE  Len(u) <= Len(s) - k
    <3>1. PICK n \in 0 .. Len(s) : u = SubSeq(s, 1, n)
      BY DEF Prefixes
    <3>2. Chars(u) = f[n] /\ Len(u) = n
      BY <3>1, <1>1, <1>3
    <3>3. Len(s) - n \in T
      <4>1. Len(s) - (Len(s) - n) = n /\ Len(s) - n \in 0 .. Len(s)
        BY <1>2
      <4> QED BY <2>2, <3>2, <4>1
    <3>4. k <= Len(s) - n
      <4> HIDE DEF T
      <4> QED BY <3>3, <1>4
    <3>5. k \in Nat /\ n \in Nat
      BY <1>2
    <3> HIDE DEF T
    <3> QED BY <3>2, <3>4, <3>5, <1>2
  <2>3. Chars(SubSeq(s, 1, Len(s) - k)) = f[Len(s) - k]
        /\ Len(SubSeq(s, 1, Len(s) - k)) = Len(s) - k
    BY <1>1, <1>3, <1>5
  <2> HIDE DEF T
  <2> QED BY <2>1, <2>2, <2>3, <1>5
<1>7. Fitting(s) \in Prefixes(s) /\ Fits(Fitting(s))
  <2>1. Fitting(s) = CHOOSE t \in Prefixes(s) : Fits(t)
    BY DEF Fitting
  <2> HIDE DEF Fits
  <2> QED BY <1>6, <2>1
<1>8. PICK c \in 0 .. Len(s) : Fitting(s) = SubSeq(s, 1, c)
  BY <1>7 DEF Prefixes
<1>9. ASSUME c # Len(s)
      PROVE  Chars(Fitting(s)) + Width[s[c + 1]] > MaxSearchChars
  <2>1. c + 1 \in 1 .. Len(s) /\ c + 1 \in 0 .. Len(s) /\ c + 1 - 1 = c /\ ~ (c + 1 <= c)
    BY <1>2, <1>9
  <2>2. SubSeq(s, 1, c + 1) \in Prefixes(s) /\ Len(SubSeq(s, 1, c + 1)) = c + 1
        /\ Len(Fitting(s)) = c
    BY <2>1, <1>3, <1>8 DEF Prefixes
  <2>3. ~ (Chars(SubSeq(s, 1, c + 1)) <= MaxSearchChars)
    BY <1>7, <2>1, <2>2
  <2>4. Chars(SubSeq(s, 1, c + 1)) = f[c + 1] /\ Chars(Fitting(s)) = f[c]
    BY <1>1, <1>8, <2>1
  <2>5. f[c + 1] = f[c] + Width[s[c + 1]] /\ f[c + 1] \in Nat
    <3> DEFINE n == c + 1
    <3>1. n \in 1 .. Len(s) /\ n \in 0 .. Len(s) /\ n - 1 = c
      BY <2>1
    <3> HIDE DEF n
    <3>2. f[n] = f[n - 1] + Width[s[n]] /\ f[n] \in Nat
      BY <1>1, <3>1
    <3> QED BY <3>1, <3>2 DEF n
  <2> QED BY <2>3, <2>4, <2>5, <1>2
<1> QED
  BY <1>7, <1>8, <1>9

\* A list is cut to the number of lines a resolver reads.
LEMMA CappedIs ==
    ASSUME NEW X, NEW s, Distinct(s) \in Seq(X), NEW n \in Nat
    PROVE  \E c \in 0 .. Len(Distinct(s)) :
              /\ Capped(s, n) = SubSeq(Distinct(s), 1, c)
              /\ c = IF Len(Distinct(s)) > n THEN n ELSE Len(Distinct(s))
<1> DEFINE d == Distinct(s)
<1>1. Len(d) \in Nat
  OBVIOUS
<1>2. Capped(s, n) = SubSeq(d, 1, IF Len(d) > n THEN n ELSE Len(d))
  BY DEF Capped
<1> HIDE DEF d
<1>3. (IF Len(d) > n THEN n ELSE Len(d)) \in 0 .. Len(d)
  BY <1>1
<1> QED
  BY <1>2, <1>3 DEF d

\* The prefixes of a prefix are prefixes.
LEMMA PrefixOfPrefix ==
    ASSUME NEW X, NEW d \in Seq(X), NEW m \in 0 .. Len(d), NEW c \in 0 .. m
    PROVE  SubSeq(SubSeq(d, 1, m), 1, c) = SubSeq(d, 1, c) /\ c \in 0 .. Len(d)
<1>1. Len(d) \in Nat /\ m \in Nat /\ c \in Nat /\ c <= m /\ m <= Len(d)
  OBVIOUS
<1> QED BY <1>1

\* The nameserver lines (dns.go:75-92)
LEMMA ServersRight ==
    ASSUME EntriesTyped
    PROVE  LET list == Capped(Items(entries, "servers"), MaxNameservers) IN
           /\ list \in Seq(Named("servers")) /\ Best("servers", list)
           /\ Len(list) = IF Cardinality(Named("servers")) > MaxNameservers
                          THEN MaxNameservers ELSE Cardinality(Named("servers"))
<1> DEFINE s == Items(entries, "servers")  d == Distinct(s)
           list == Capped(s, MaxNameservers)
<1>1. Items(entries, "servers") \in Seq(Named("servers"))
  BY ItemsLocated
<1>2. d \in Seq(Named("servers"))
  <2> HIDE DEF s
  <2> QED BY <1>1, DistinctFirsts DEF s
<1>3. PICK c \in 0 .. Len(d) :
         /\ list = SubSeq(d, 1, c)
         /\ c = IF Len(d) > MaxNameservers THEN MaxNameservers ELSE Len(d)
  <2>1. MaxNameservers \in Nat
    BY DnsConstants
  <2> HIDE DEF s
  <2> QED BY <1>2, <2>1, CappedIs
<1> HIDE DEF list
<1>4. /\ list \in Seq(Named("servers")) /\ Len(list) = c /\ Best("servers", list)
      /\ Cardinality(Named("servers")) = Len(d)
  BY <1>3, FirstsBest
<1> QED
  BY <1>3, <1>4 DEF list

\* The search line (dns.go:94-116)
LEMMA DomainsRight ==
    ASSUME EntriesTyped
    PROVE  LET list == Fitting(Capped(Items(entries, "domains"), MaxSearchDomains)) IN
           /\ list \in Seq(Named("domains")) /\ Best("domains", list)
           /\ Len(list) <= MaxSearchDomains
           /\ Chars(list) <= MaxSearchChars
           /\ \A x \in Named("domains") \ ToSet(list) :
                 \/ Len(list) = MaxSearchDomains
                 \/ \E e \in Named("domains") \ ToSet(list) :
                       Chars(list) + Width[e] > MaxSearchChars
<1> DEFINE s == Items(entries, "domains")  d == Distinct(s)
           t == Capped(s, MaxSearchDomains)  list == Fitting(t)
<1>1. Items(entries, "domains") \in Seq(Named("domains"))
  BY ItemsLocated
<1>2. d \in Seq(Named("domains"))
  <2> HIDE DEF s
  <2> QED BY <1>1, DistinctFirsts DEF s
<1>3. PICK m \in 0 .. Len(d) :
         /\ t = SubSeq(d, 1, m)
         /\ m = IF Len(d) > MaxSearchDomains THEN MaxSearchDomains ELSE Len(d)
  <2>1. MaxSearchDomains \in Nat
    BY DnsConstants
  <2> HIDE DEF s
  <2> QED BY <1>2, <2>1, CappedIs
<1> HIDE DEF t, list
<1>4. Named("domains") \subseteq DOMAIN Width
  <2>1. ASSUME NEW i \in Holders(entries)
        PROVE  ToSet(entries[i]["domains"]) \subseteq DOMAIN Width
    <3>1. entries[i] \in Entries
      BY ListTyped
    <3>2. entries[i]["domains"] \in Seq(DOMAIN Width)
      BY DnsConstants, <3>1
    <3> QED BY <3>2 DEF ToSet
  <2> QED BY <2>1 DEF Named
<1>5. /\ t \in Seq(Named("domains")) /\ Len(t) = m
      /\ \A k \in 1 .. m : k \in 1 .. Len(d) /\ t[k] = d[k]
  <2> DEFINE X == Named("domains")
  <2>1. d \in Seq(X)
    BY <1>2
  <2> HIDE DEF X, d
  <2> QED BY <2>1, <1>3, PrefixItems DEF X
<1>6. PICK c \in 0 .. Len(t) :
         /\ list = SubSeq(t, 1, c) /\ Chars(list) <= MaxSearchChars
         /\ c # Len(t) => Chars(list) + Width[t[c + 1]] > MaxSearchChars
  <2>1. t \in Seq(DOMAIN Width)
    BY <1>4, <1>5
  <2> QED BY <2>1, FittingIs DEF list
<1>7. list = SubSeq(d, 1, c) /\ c \in 0 .. Len(d)
  <2> DEFINE X == Named("domains")
  <2>1. d \in Seq(X) /\ c \in 0 .. m
    BY <1>2, <1>5, <1>6
  <2> HIDE DEF X, d
  <2>2. SubSeq(SubSeq(d, 1, m), 1, c) = SubSeq(d, 1, c) /\ c \in 0 .. Len(d)
    BY <2>1, <1>3, PrefixOfPrefix
  <2> QED BY <2>2, <1>3, <1>6
<1>8. /\ list \in Seq(Named("domains")) /\ Len(list) = c /\ Best("domains", list)
      /\ c = Len(d) => ToSet(list) = Named("domains")
      /\ \A k, l \in 1 .. Len(d) : d[k] = d[l] => k = l
  BY <1>7, FirstsBest
<1> HIDE DEF s, d
<1>9. Len(d) \in Nat /\ MaxSearchDomains \in Nat /\ m \in Nat /\ c \in Nat
  BY DnsConstants, <1>2, <1>3, <1>7
<1>10. ToSet(list) = {d[k] : k \in 1 .. c}
  <2>1. DOMAIN list = 1 .. c /\ \A k \in 1 .. c : list[k] = d[k]
    <3> DEFINE X == Named("domains")
    <3>1. d \in Seq(X)
      BY <1>2
    <3> HIDE DEF X
    <3>2. /\ SubSeq(d, 1, c) \in Seq(X) /\ Len(SubSeq(d, 1, c)) = c
          /\ \A k \in 1 .. c : k \in 1 .. Len(d) /\ SubSeq(d, 1, c)[k] = d[k]
      BY <3>1, <1>7, PrefixItems
    <3> QED BY <3>2, <1>7
  <2>2. ToSet(list) = {list[k] : k \in 1 .. c}
    BY <2>1 DEF ToSet
  <2> QED BY <2>1, <2>2
<1>11. ASSUME NEW x \in Named("domains") \ ToSet(list), Len(list) # MaxSearchDomains
       PROVE  \E e \in Named("domains") \ ToSet(list) :
                 Chars(list) + Width[e] > MaxSearchChars
  <2>1. c # Len(d)
    BY <1>8
  <2>2. c # Len(t)
    <3>1. c = m => c = Len(d) \/ c = MaxSearchDomains
      BY <1>3
    <3> QED BY <2>1, <3>1, <1>5, <1>8, <1>11
  <2>3. /\ c + 1 \in 1 .. m /\ c + 1 \in 1 .. Len(d)
        /\ \A k \in 1 .. c : k \in 1 .. Len(d) /\ k # c + 1
    BY <2>2, <1>3, <1>5, <1>6, <1>9
  <2>4. t[c + 1] = d[c + 1] /\ d[c + 1] \in Named("domains")
    BY <2>3, <1>5, <1>2
  <2>5. d[c + 1] \notin ToSet(list)
    BY <2>3, <1>8, <1>10
  <2> QED BY <2>2, <2>4, <2>5, <1>6
<1>12. Len(list) <= MaxSearchDomains
  BY <1>3, <1>5, <1>6, <1>8, <1>9
<1> QED
  BY <1>6, <1>8, <1>11, <1>12 DEF list, t, s

\* render is right about the entries
LEMMA RenderRight ==
    ASSUME EntriesTyped PROVE Right(Render(entries))
  BY ServersRight, DomainsRight DEF Right, Render

-----------------------------------------------------------------------------
\* The resolver file.  A call writes to the path itself when it is no link,
\* when its destination refused, or when access said that it would.
Destination ==
    /\ step \in {"idle", "target", "write", "rename"}
    /\ target \in {"path", "dest"}
    /\ step \in {"write", "rename"} =>
          /\ target = "dest" => isLink
          /\ target = "path" => ~isLink \/ ~writable \/ result = "refused"

LEMMA DestinationStep == Destination /\ [DnsNext]_dnsVars => Destination'
<1> SUFFICES ASSUME Destination, [DnsNext]_dnsVars PROVE Destination'
  OBVIOUS
<1> USE DEF dnsVars, files
<1>1. CASE \/ \E i \in Iface, e \in Entries : Set(i, e)
           \/ \E i \in Iface : Revert(i)
  <2>1. step' = "target" /\ UNCHANGED <<target, isLink, writable, result>>
    BY <1>1 DEF Set, Revert, Change
  <2> QED
    BY <2>1 DEF Destination
<1>2. CASE ChooseTarget
  BY <1>2 DEF Destination, ChooseTarget, TargetPath
<1>3. CASE WriteTemp
  BY <1>3 DEF Destination, WriteTemp
<1>4. CASE Rename
  BY <1>4 DEF Destination, Rename, Unlock
<1>5. CASE WriteFails
  BY <1>5 DEF Destination, WriteFails, Unlock
<1>6. CASE Restart
  BY <1>6 DEF Destination, Restart
<1>7. CASE UNCHANGED dnsVars
  BY <1>7 DEF Destination
<1> QED
  BY <1>1, <1>2, <1>3, <1>4, <1>5, <1>6, <1>7 DEF DnsNext, Rewrite

\* A link somebody else put at the path is replaced only when access refuses
\* its destination or the same call failed to write there (dns.go:149-170).
THEOREM LinkStays == DnsSpec => LinkKept
<1>1. DnsInit => Destination
  BY DEF DnsInit, Destination
<1>2. Destination /\ [DnsNext]_dnsVars
        => [isLink /\ ~isLink' => ~writable \/ result = "refused"]_dnsVars
  <2> SUFFICES ASSUME Destination, DnsNext, isLink, ~isLink'
               PROVE  ~writable \/ result = "refused"
    OBVIOUS
  <2>1. Rename
    BY DEF DnsNext, Set, Revert, Change,
           Rewrite, ChooseTarget, WriteTemp,
           WriteFails, Restart, files
  <2> QED
    BY <2>1 DEF Rename, Destination
<1> QED
  BY <1>1, <1>2, DestinationStep, PTL DEF DnsSpec, LinkKept

\* What render makes is a text: its lists are of what the entries name.
LEMMA RenderTyped ==
    ASSUME EntriesTyped PROVE Render(entries) \in Texts
<1>1. ASSUME NEW i \in Holders(entries) PROVE entries[i] \in Entries
  BY <1>1, ListTyped
<1>2. /\ Named("servers") \subseteq UNION {ToSet(e.servers) : e \in Entries}
      /\ Named("domains") \subseteq UNION {ToSet(e.domains) : e \in Entries}
  BY <1>1 DEF Named
<1>3. /\ Capped(Items(entries, "servers"), MaxNameservers) \in Seq(Named("servers"))
      /\ Fitting(Capped(Items(entries, "domains"), MaxSearchDomains))
            \in Seq(Named("domains"))
  BY ServersRight, DomainsRight
<1> QED
  BY <1>2, <1>3 DEF Render, Texts

LEMMA DnsTypeStep == DnsTypeOK /\ [DnsNext]_dnsVars => DnsTypeOK'
<1> SUFFICES ASSUME DnsTypeOK, [DnsNext]_dnsVars PROVE DnsTypeOK'
  OBVIOUS
<1> USE DEF dnsVars, files
<1>1. ASSUME NEW i \in Iface, NEW e \in Entries, Set(i, e) PROVE DnsTypeOK'
  BY <1>1 DEF DnsTypeOK, Set, Change
<1>2. ASSUME NEW i \in Iface, Revert(i) PROVE DnsTypeOK'
  BY <1>2 DEF DnsTypeOK, Revert, Change
<1>3. CASE ChooseTarget
  BY <1>3 DEF DnsTypeOK, ChooseTarget, TargetPath
<1>4. CASE WriteTemp
  BY <1>4 DEF DnsTypeOK, WriteTemp
<1>5. CASE Rename
  <2>1. Render(entries) \in Texts
    BY RenderTyped DEF EntriesTyped, DnsTypeOK
  <2>2. text' \in [{"path", "dest"} -> Texts]
    BY <1>5, <2>1 DEF DnsTypeOK, Rename
  <2>3. isLink' \in BOOLEAN
    BY <1>5 DEF DnsTypeOK, Rename
  <2> QED
    BY <1>5, <2>2, <2>3 DEF DnsTypeOK, Rename, Unlock
<1>6. CASE WriteFails
  BY <1>6 DEF DnsTypeOK, WriteFails, Unlock
<1>7. CASE Restart
  BY <1>7, DnsConstants DEF DnsTypeOK, Restart
<1>8. CASE UNCHANGED dnsVars
  BY <1>8 DEF DnsTypeOK
<1> QED
  BY <1>1, <1>2, <1>3, <1>4, <1>5, <1>6, <1>7, <1>8 DEF DnsNext, Rewrite

LEMMA DnsTypeInit == DnsInit => DnsTypeOK
<1> SUFFICES ASSUME DnsInit PROVE DnsTypeOK
  OBVIOUS
<1>1. Foreign \in Texts
  BY DEF Foreign, Texts
<1>2. crashes \in 0 .. MaxCrash
  BY DnsConstants DEF DnsInit
<1> QED
  BY <1>1, <1>2 DEF DnsInit, DnsTypeOK

\* The variables hold values of their kinds.  So, whatever write fails and
\* wherever the daemon dies, a resolver reads a whole text: the file changes in
\* one rename (writeAtomic).
THEOREM DnsTypes == DnsSpec => []DnsTypeOK
  BY DnsTypeInit, DnsTypeStep, PTL DEF DnsSpec

\* What a resolver reads after a rewrite that succeeded is the rendering of the
\* entries as they are.
Shown == step = "idle" /\ result = "ok" => Visible = Render(entries)

\* A rename shows the rendering: one to a link's destination keeps the link, one
\* to the path replaces it.
LEMMA RenameShows ==
    ASSUME DnsTypeOK, Destination, Rename
    PROVE  Visible' = Render(entries) /\ entries' = entries
<1>1. /\ text' = [text EXCEPT ![target] = Render(entries)] /\ entries' = entries
      /\ isLink' = (isLink /\ target = "dest")
      /\ target \in {"path", "dest"} /\ (target = "dest" => isLink)
  BY DEF Rename, Destination
<1>2. Visible' = text'[target]
  BY <1>1 DEF Visible
<1>3. text'[target] = Render(entries)
  BY <1>1 DEF DnsTypeOK
<1> QED
  BY <1>1, <1>2, <1>3

LEMMA ShownStep ==
    DnsTypeOK /\ Destination /\ Shown /\ [DnsNext]_dnsVars => Shown'
<1> SUFFICES ASSUME DnsTypeOK, Destination, Shown, [DnsNext]_dnsVars PROVE Shown'
  OBVIOUS
<1> USE DEF dnsVars, files
<1>1. CASE \/ \E i \in Iface, e \in Entries : Set(i, e)
           \/ \E i \in Iface : Revert(i)
  BY <1>1 DEF Shown, Set, Revert, Change
<1>2. CASE ChooseTarget \/ WriteTemp
  BY <1>2 DEF Shown, ChooseTarget, WriteTemp
<1>3. CASE Rename
  BY <1>3, RenameShows DEF Shown, Rename
<1>4. CASE WriteFails
  BY <1>4 DEF Shown, WriteFails, Unlock
<1>5. CASE Restart
  BY <1>5 DEF Shown, Restart
<1>6. CASE UNCHANGED dnsVars
  BY <1>6 DEF Shown, Visible
<1> QED
  BY <1>1, <1>2, <1>3, <1>4, <1>5, <1>6 DEF DnsNext, Rewrite

\* When no call is under way and the last rewrite succeeded, a resolver reads,
\* through a link or not, the servers and the search domains the entries as they
\* are ask for, whatever failed or was restarted before (dns.go:42-132).
THEOREM ResolverReads == DnsSpec => []ResolverCurrent
<1>1. DnsInit => Destination /\ Shown
  BY DEF DnsInit, Destination, Shown
<1>2. DnsTypeOK /\ Shown => ResolverCurrent
  <2> SUFFICES ASSUME DnsTypeOK, Shown PROVE ResolverCurrent
    OBVIOUS
  <2>1. Right(Render(entries))
    BY RenderRight DEF EntriesTyped, DnsTypeOK
  <2> QED
    BY <2>1 DEF Shown, ResolverCurrent
<1> QED
  BY <1>1, <1>2, DnsTypeInit, DnsTypeStep, DestinationStep, ShownStep, PTL
     DEF DnsSpec

\* Whatever a resolver finds changed is, at that moment, what the entries ask
\* for: nothing a failed call or a restart leaves is ever new (dns.go:134-205).
ChangesRight == [][Visible' # Visible => Right(Visible')]_dnsVars

\* Only a rename changes what a resolver reads, and to the rendering of the
\* entries as they are.
THEOREM ResolverChanges == DnsSpec => ChangesRight
<1>1. DnsInit => Destination
  BY DEF DnsInit, Destination
<1>2. DnsTypeOK /\ Destination /\ [DnsNext]_dnsVars
        => [Visible' # Visible => Right(Visible')]_dnsVars
  <2> SUFFICES ASSUME DnsTypeOK, Destination, DnsNext, Visible' # Visible
               PROVE  Right(Visible')
    OBVIOUS
  <2>1. Rename
    <3>1. ~ UNCHANGED <<isLink, text>>
      BY DEF Visible
    <3> QED
      BY <3>1 DEF DnsNext, Set, Revert, Change, Rewrite, ChooseTarget, WriteTemp,
         WriteFails, Restart, files
  <2>2. Visible' = Render(entries)
    BY <2>1, RenameShows
  <2>3. Right(Render(entries))
    BY RenderRight DEF EntriesTyped, DnsTypeOK
  <2> QED
    BY <2>2, <2>3
<1> QED
  BY <1>1, <1>2, DnsTypeInit, DnsTypeStep, DestinationStep, PTL
     DEF DnsSpec, ChangesRight

-----------------------------------------------------------------------------
\* The connectivity probe
CONSTANTS Ticker, Caller, Answers, MaxShifts
VARIABLES net, shifts, connectivity, state, shown, pc, probed

Conn == INSTANCE Connectivity

\* What Connectivity assumes of its constants
ConnConstants ==
    /\ Ticker \notin Caller
    /\ Answers \subseteq {"none", "portal", "limited", "full"}
    /\ None \notin Answers \cup {"unknown"}
    /\ MaxShifts \in Nat

\* Where a poll holds what its probe found
Holding == {"store", "show", "setState", "showState"}

\* What is stored and shown was found by a probe: failures are given up.
Found == \A p \in Conn!Poller : pc[p] \in Holding => probed[p] \in Answers \ {"none"}

\* (The first part is constant.)
ConnInv == ConnConstants /\ Conn!TypeOK /\ Found

-----------------------------------------------------------------------------
LEMMA DerivedType ==
    ASSUME ConnConstants
    PROVE  \A c \in Answers \ {"none"} :
              Conn!Derived(c) \in {"disconnected", "local", "site", "global"}
<1> SUFFICES ASSUME NEW c \in Answers \ {"none"}
             PROVE  Conn!Derived(c) \in {"disconnected", "local", "site", "global"}
  OBVIOUS
<1>1. c \in {"portal", "limited", "full"}
  BY DEF ConnConstants
<1>2. CASE c = "full"
  BY <1>2 DEF Conn!Derived
<1>3. CASE c \in {"limited", "portal"}
  BY <1>3 DEF Conn!Derived
<1> QED
  BY <1>1, <1>2, <1>3

LEMMA Initially == ConnConstants /\ Conn!Init => ConnInv
<1> SUFFICES ASSUME ConnConstants, Conn!Init PROVE ConnInv
  OBVIOUS
<1>1. Conn!TypeOK
  BY DEF ConnConstants, Conn!Init, Conn!TypeOK
<1>2. Found
  BY DEF Conn!Init, Found, Holding
<1> QED
  BY <1>1, <1>2 DEF ConnInv

LEMMA StepKeeps == ConnInv /\ [Conn!Next]_(Conn!vars) => ConnInv'
<1> SUFFICES ASSUME ConnInv, [Conn!Next]_(Conn!vars) PROVE ConnInv'
  OBVIOUS
<1> USE DEF ConnInv
<1>1. CASE Conn!Shift
  <2>1. net' \in Answers
    BY <1>1 DEF Conn!Shift
  <2>2. shifts' \in 0 .. MaxShifts
    BY <1>1 DEF ConnConstants, Conn!Shift, Conn!TypeOK
  <2> QED
    BY <1>1, <2>1, <2>2 DEF Conn!Shift, Conn!TypeOK, Found
<1>2. ASSUME NEW p \in Conn!Poller, Conn!Poll(p) PROVE ConnInv'
  BY <1>2 DEF Conn!Poll, Conn!Goto, Conn!TypeOK, Found, Holding
<1>3. ASSUME NEW p \in Conn!Poller, Conn!Probe(p) PROVE ConnInv'
  <2>1. CASE Conn!Usable(net) /\ probed' = [probed EXCEPT ![p] = net] /\ Conn!Goto(p, "store")
    BY <1>3, <2>1 DEF Conn!Probe, Conn!Usable, Conn!Goto, Conn!TypeOK, Found, Holding
  <2>2. CASE Conn!Goto(p, "return") /\ UNCHANGED probed
    BY <1>3, <2>2 DEF Conn!Probe, Conn!Goto, Conn!TypeOK, Found, Holding
  <2> QED
    BY <1>3, <2>1, <2>2 DEF Conn!Probe
<1>4. ASSUME NEW p \in Conn!Poller, Conn!Store(p) PROVE ConnInv'
  BY <1>4 DEF Conn!Store, Conn!Goto, Conn!TypeOK, Found, Holding
<1>5. ASSUME NEW p \in Conn!Poller, Conn!Show(p) PROVE ConnInv'
  <2>1. probed[p] \in Answers
    BY <1>5 DEF Conn!Show, Found, Holding
  <2> QED
    BY <1>5, <2>1 DEF Conn!Show, Conn!ShowConnectivity, Conn!Goto, Conn!TypeOK, Found, Holding
<1>6. ASSUME NEW p \in Conn!Poller, Conn!SetState(p) PROVE ConnInv'
  <2>1. Conn!Derived(probed[p]) \in {"disconnected", "local", "site", "global"}
    BY <1>6, DerivedType DEF Conn!SetState, Found, Holding
  <2>2. pc' = [pc EXCEPT ![p] = "return"] \/ pc' = [pc EXCEPT ![p] = "showState"]
    BY <1>6 DEF Conn!SetState, Conn!Goto
  <2>3. state' \in {"disconnected", "local", "site", "global"}
    BY <1>6, <2>1 DEF Conn!SetState, Conn!TypeOK
  <2>4. Conn!TypeOK'
    BY <1>6, <2>2, <2>3 DEF Conn!SetState, Conn!TypeOK
  <2>5. Found'
    BY <1>6, <2>2 DEF Conn!SetState, Conn!TypeOK, Found, Holding
  <2> QED
    BY <2>4, <2>5
<1>7. ASSUME NEW p \in Conn!Poller, Conn!PublishState(p) PROVE ConnInv'
  <2>1. Conn!Derived(probed[p]) \in {"disconnected", "local", "site", "global"}
    BY <1>7, DerivedType DEF Conn!PublishState, Found, Holding
  <2> QED
    BY <1>7, <2>1 DEF Conn!PublishState, Conn!ShowState, Conn!Goto, Conn!TypeOK, Found, Holding
<1>8. ASSUME NEW p \in Conn!Poller, Conn!Return(p) PROVE ConnInv'
  BY <1>8 DEF Conn!Return, Conn!Goto, Conn!TypeOK, Found, Holding
<1>9. CASE UNCHANGED Conn!vars
  BY <1>9 DEF Conn!vars, Conn!TypeOK, Found
<1> QED
  BY <1>1, <1>2, <1>3, <1>4, <1>5, <1>6, <1>7, <1>8, <1>9 DEF Conn!Next, Conn!Step

\* Type correctness.  That connectivity is never "none" is pollConnectivity
\* giving up on an error; that the derived state is defined is its switch.
THEOREM ConnTypes == ASSUME ConnConstants PROVE Conn!Spec => []Conn!TypeOK
<1>1. ConnInv => Conn!TypeOK
  BY DEF ConnInv
<1> QED
  BY Initially, StepKeeps, <1>1, PTL DEF Conn!Spec

-----------------------------------------------------------------------------
\* Where the one goroutine that polls stands between the daemon and the bus
Between(p) ==
    /\ pc[p] = "show" => connectivity = probed[p]
    /\ pc[p] \in {"setState", "showState"} =>
          connectivity = probed[p] /\ shown.Connectivity = probed[p]
    /\ pc[p] \in {"idle", "probe", "store", "return"} =>
          shown.Connectivity = connectivity
    /\ IF pc[p] = "showState" THEN state = Conn!Derived(probed[p])
                              ELSE shown.State = state
    /\ /\ pc[p] \in {"idle", "probe", "store", "return"}
       /\ connectivity # "unknown"
       => state = Conn!Derived(connectivity)

\* At rest the bus shows what the daemon holds, and the state is the one of
\* the connectivity.
ShownIsHeld ==
    (\A p \in Conn!Poller : pc[p] = "idle") =>
        /\ shown = [Connectivity |-> connectivity, State |-> state]
        /\ connectivity # "unknown" => state = Conn!Derived(connectivity)

LEMMA BetweenStep ==
    ASSUME Caller = {}, ConnInv, Between(Ticker), [Conn!Next]_(Conn!vars)
    PROVE  Between(Ticker)'
<1>0. /\ Conn!Poller = {Ticker} /\ "unknown" \notin Answers
      /\ probed \in [{Ticker} -> Answers \cup {None}]
      /\ pc \in [{Ticker} -> {"idle", "probe", "store", "show", "setState",
                             "showState", "return"}]
  <2>1. Conn!Poller = {Ticker}
    BY DEF Conn!Poller
  <2>2. "unknown" \notin Answers
    BY DEF ConnInv, ConnConstants
  <2> QED
    BY <2>1, <2>2 DEF ConnInv, Conn!TypeOK
<1>1. shown \in [Connectivity : Answers \cup {"unknown"},
                 State : {"disconnected", "local", "site", "global"}]
  BY DEF ConnInv, Conn!TypeOK
<1>2. CASE Conn!Shift \/ UNCHANGED Conn!vars
  BY <1>2 DEF Conn!Shift, Conn!vars, Between
<1>3. CASE Conn!Poll(Ticker) \/ Conn!Probe(Ticker) \/ Conn!Return(Ticker)
  BY <1>0, <1>3 DEF Conn!Poll, Conn!Probe, Conn!Return, Conn!Goto, Between
<1>4. CASE Conn!Store(Ticker)
  BY <1>0, <1>4 DEF Conn!Store, Conn!Goto, Between
<1>5. CASE Conn!Show(Ticker)
  BY <1>0, <1>1, <1>5 DEF Conn!Show, Conn!ShowConnectivity, Conn!Goto, Between
<1>6. CASE Conn!SetState(Ticker)
  BY <1>0, <1>6 DEF Conn!SetState, Conn!Goto, Between
<1>7. CASE Conn!PublishState(Ticker)
  BY <1>0, <1>1, <1>7 DEF Conn!PublishState, Conn!ShowState, Conn!Goto, Between
<1> QED
  BY <1>0, <1>2, <1>3, <1>4, <1>5, <1>6, <1>7 DEF Conn!Next, Conn!Step

\* While only the ticker of Manager.Run polls, the bus and the daemon agree at
\* rest.  With more than one poll at a time they need not (the store and the
\* signal are separate steps without a common lock): that is why
\* ConnectivityTracks asks for it only in the end.
THEOREM LonePollShown ==
    ASSUME ConnConstants, Caller = {}
    PROVE  Conn!Spec => []ShownIsHeld
<1>1. Conn!Init => Between(Ticker)
  BY DEF Conn!Init, Between, Conn!Poller
<1>2. ConnInv /\ Between(Ticker) /\ [Conn!Next]_(Conn!vars) => Between(Ticker)'
  BY BetweenStep
<1>3. ConnInv /\ Between(Ticker) => ShownIsHeld
  <2> SUFFICES ASSUME ConnInv, Between(Ticker), pc[Ticker] = "idle"
               PROVE  /\ shown = [Connectivity |-> connectivity, State |-> state]
                      /\ connectivity # "unknown" => state = Conn!Derived(connectivity)
    BY DEF ShownIsHeld, Conn!Poller
  <2> QED
    BY DEF ConnInv, Conn!TypeOK, Between
<1>4. Conn!Spec => []ConnInv
  BY Initially, StepKeeps, PTL DEF Conn!Spec
<1> QED
  BY <1>1, <1>2, <1>3, <1>4, PTL DEF Conn!Spec
=============================================================================
