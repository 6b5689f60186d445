-------------------------------- MODULE Dhcp --------------------------------
(***************************************************************************)
(* The DHCPv4 client (internal/backend/dhcp): Client.Acquire, run by the   *)
(* goroutines that bring up connections on one interface, and the servers  *)
(* in its broadcast domain.  A bring-up that has been replaced goes on     *)
(* until it looks at its context, so two Acquires can run on an interface  *)
(* at once, with the same hardware address; each has a socket of its own   *)
(* and hears every broadcast reply, the other's too.                       *)
(*                                                                         *)
(* Messages are never removed: one that is lost is not received before the *)
(* timeout, and a duplicated, late or reordered one is received when it    *)
(* no longer fits.  A transaction id is drawn at random for every try      *)
(* (newXID); collisions are left out, so the pair of an Acquire and its    *)
(* try is the id.  The packet encodings and the times are left out.        *)
(***************************************************************************)
EXTENDS Naturals, FiniteSets

CONSTANTS
    Acquire,   \* the calls of Acquire on the interface
    Server,    \* the DHCP servers that hear it
    Addr,      \* the addresses they hand out
    Zero,      \* 0.0.0.0, an address field left empty
    None,      \* nil
    MaxTries,  \* maxTries
    MaxReplies \* bound on the different replies of the servers

ASSUME MaxTriesPositive == MaxTries \in Nat \ {0} /\ MaxReplies \in Nat
ASSUME ZeroIsNoAddr == Zero \notin Addr /\ None \notin Server \cup Addr

VARIABLES
    phase,      \* where each Acquire is
    try,        \* its loop counter
    offer,      \* address and server id of the offer its handshake accepted
    lease,      \* the lease it returned
    cancelled,  \* the Acquires whose context is cancelled
    leases,     \* Client.leases[ifname]
    sent,       \* what the clients have broadcast
    replies     \* what the servers have broadcast

vars == <<phase, try, offer, lease, cancelled, leases, sent, replies>>

Xids == Acquire \X (0 .. MaxTries - 1)

\* sid and ip are options 54 and 50 of a request; a reply names in "from" the
\* server that sent it, which the client cannot see.
Messages == [type : {"discover"}, xid : Xids, ip : {None}, sid : {None}]
              \cup [type : {"request"}, xid : Xids, ip : Addr \cup {Zero},
                    sid : Server]
Replies  == [type : {"offer", "ack", "nak"}, xid : Xids,
             ip : Addr \cup {Zero}, sid : Server \cup {None}, from : Server]

\* A lease as far as Release is concerned (core.Lease, leaseState)
Leases == [ip : Addr, sid : Server]

\* Acquire has returned.
Ended == {"bound", "failed"}

Init ==
    /\ phase = [q \in Acquire |-> "start"]
    /\ try = [q \in Acquire |-> 0]
    /\ offer = [q \in Acquire |-> None]
    /\ lease = [q \in Acquire |-> None]
    /\ cancelled = {} /\ leases = None
    /\ sent = {} /\ replies = {}

-----------------------------------------------------------------------------
\* mutant: the id is drawn once, not for every handshake
XidOnce(q) == <<q, 0>>
Xid(q) == <<q, try[q]>>

Goto(q, p) == phase' = [phase EXCEPT ![q] = p]

\* handshake returns an error other than errNAK: Acquire waits before the next
\* try, and after the last one ends.
HandshakeFails(q) ==
    /\ Goto(q, IF try[q] = MaxTries - 1 THEN "failed" ELSE "backoff")
    /\ UNCHANGED try

\* mutant: a declined request does not use up a try
NextTryForgotten(q) == Goto(q, "try") /\ UNCHANGED try

\* for: try++, and the end of the loop
NextTry(q) ==
    \/ /\ try[q] = MaxTries - 1
       /\ Goto(q, "failed") /\ UNCHANGED try
    \/ /\ try[q] < MaxTries - 1
       /\ Goto(q, "try") /\ try' = [try EXCEPT ![q] = @ + 1]

-----------------------------------------------------------------------------
\* Acquire resolves the interface and opens its socket.
Start(q) ==
    /\ phase[q] = "start"
    /\ Goto(q, "try") \/ Goto(q, "failed")
    /\ UNCHANGED <<try, offer, lease, cancelled, leases, sent, replies>>

\* The head of the loop looks at the context; handshake broadcasts a DISCOVER
\* (or cannot send) and waits for an answer.
Discover(q) ==
    /\ phase[q] = "try"
    /\ \/ /\ q \in cancelled
          /\ Goto(q, "failed") /\ UNCHANGED <<try, sent>>
       \/ /\ q \notin cancelled
          /\ \/ /\ sent' = sent \cup {[type |-> "discover", xid |-> Xid(q),
                                       ip |-> None, sid |-> None]}
                /\ Goto(q, "selecting") /\ UNCHANGED try
             \/ HandshakeFails(q) /\ UNCHANGED sent
    /\ UNCHANGED <<offer, lease, cancelled, leases, replies>>

\* mutant: recvReply does not compare the transaction id
IgnoresXid(q, m, wants) == m.type \in wants

\* recvReply returns m, having skipped what is not for it.
Receives(q, m, wants) == m.xid = Xid(q) /\ m.type \in wants

\* An OFFER is answered by a REQUEST, unless it lacks the server id (its
\* address is never nil, even when the field is empty).  The next recvReply
\* looks at the context first.
RecvOffer(q, m) ==
    /\ phase[q] = "selecting" /\ Receives(q, m, {"offer"})
    /\ \/ m.sid = None /\ HandshakeFails(q) /\ UNCHANGED <<offer, sent>>
       \/ /\ m.sid # None
          /\ \/ HandshakeFails(q) /\ UNCHANGED <<offer, sent>>
             \/ /\ offer' = [offer EXCEPT ![q] = [ip |-> m.ip, sid |-> m.sid]]
                /\ sent' = sent \cup {[type |-> "request", xid |-> Xid(q),
                                       ip |-> m.ip, sid |-> m.sid]}
                /\ \/ q \in cancelled /\ HandshakeFails(q)
                   \/ /\ q \notin cancelled
                      /\ Goto(q, "requesting") /\ UNCHANGED try
    /\ UNCHANGED <<lease, cancelled, leases, replies>>

\* The server id of the lease: the ACK's, or else the offer's
LeaseSid(q, m) == IF m.sid = None THEN offer[q].sid ELSE m.sid

\* toLease fails on an empty address (and on a mask that is not contiguous).
Usable(m) == m.ip # Zero

\* A usable ACK becomes the lease, and is recorded for Release.
RecvAck(q, m) ==
    /\ phase[q] = "requesting" /\ Receives(q, m, {"ack", "nak"})
    /\ m.type # "nak"
    /\ \/ /\ Usable(m)
          /\ lease' = [lease EXCEPT ![q] = [ip |-> m.ip,
                                            sid |-> LeaseSid(q, m)]]
          /\ leases' = [ip |-> m.ip, sid |-> LeaseSid(q, m)]
          /\ Goto(q, "bound") /\ UNCHANGED try
       \/ HandshakeFails(q) /\ UNCHANGED <<lease, leases>>
    /\ UNCHANGED <<offer, cancelled, sent, replies>>

\* A NAK starts the next try without a wait.
RecvNak(q, m) ==
    /\ phase[q] = "requesting" /\ Receives(q, m, {"ack", "nak"})
    /\ m.type = "nak"
    /\ NextTry(q)
    /\ UNCHANGED <<offer, lease, cancelled, leases, sent, replies>>

\* recvReply returns at its deadline, or at a look at a cancelled context
\* (both are looked at every half second).
GiveUp(q) ==
    /\ phase[q] \in {"selecting", "requesting"}
    /\ HandshakeFails(q)
    /\ UNCHANGED <<offer, lease, cancelled, leases, sent, replies>>

\* mutant: the wait between tries runs into the next one
BackoffIgnored(q) ==
    /\ phase[q] = "backoff"
    /\ try' = [try EXCEPT ![q] = @ + 1]
    /\ sent' = sent \cup {[type |-> "discover", xid |-> <<q, try[q] + 1>>,
                           ip |-> None, sid |-> None]}
    /\ Goto(q, "selecting")
    /\ UNCHANGED <<offer, lease, cancelled, leases, replies>>

\* The wait between two tries ends with the context, or by itself (when both
\* have happened, either is taken).
Backoff(q) ==
    /\ phase[q] = "backoff"
    /\ \/ q \in cancelled /\ Goto(q, "failed") /\ UNCHANGED try
       \/ NextTry(q)
    /\ UNCHANGED <<offer, lease, cancelled, leases, sent, replies>>

Step(q) ==
    \/ Start(q) \/ Discover(q)
    \/ \E m \in replies : RecvOffer(q, m) \/ RecvAck(q, m) \/ RecvNak(q, m)
    \/ GiveUp(q) \/ Backoff(q)

\* deactivate cancels the context of the bring-up.
Cancel(q) ==
    /\ q \notin cancelled /\ phase[q] \notin Ended
    /\ cancelled' = cancelled \cup {q}
    /\ UNCHANGED <<phase, try, offer, lease, leases, sent, replies>>

-----------------------------------------------------------------------------
\* The servers, as the client has to expect them: one answers what it has
\* heard at any time, or not; fields may be missing; an address is granted
\* only by the server the request names, and any server may decline one.
ServerSends(r) ==
    /\ Cardinality(replies) < MaxReplies
    /\ replies' = replies \cup {r}
    /\ UNCHANGED <<phase, try, offer, lease, cancelled, leases, sent>>

ServerOffers(s) ==
    \E m \in sent, ip \in Addr \cup {Zero}, sid \in {s, None} :
        /\ m.type = "discover"
        /\ ServerSends([type |-> "offer", xid |-> m.xid, ip |-> ip,
                        sid |-> sid, from |-> s])

ServerAcks(s) ==
    \E m \in sent, sid \in {s, None} :
        /\ m.type = "request" /\ m.sid = s
        /\ ServerSends([type |-> "ack", xid |-> m.xid, ip |-> m.ip,
                        sid |-> sid, from |-> s])

ServerNaks(s) ==
    \E m \in sent :
        /\ m.type = "request"
        /\ ServerSends([type |-> "nak", xid |-> m.xid, ip |-> Zero,
                        sid |-> s, from |-> s])

Next ==
    \/ \E q \in Acquire : Step(q) \/ Cancel(q)
    \/ \E s \in Server : ServerOffers(s) \/ ServerAcks(s) \/ ServerNaks(s)

Spec == Init /\ [][Next]_vars

\* An Acquire keeps running: its waits have deadlines.  Nothing is assumed of
\* the servers.
FairSpec == Spec /\ \A q \in Acquire : WF_vars(Step(q))

-----------------------------------------------------------------------------
\* Every variable holds a value of its kind.
TypeOK ==
    /\ phase \in [Acquire -> {"start", "try", "selecting", "requesting",
                              "backoff"} \cup Ended]
    /\ try \in [Acquire -> 0 .. MaxTries - 1]
    /\ offer \in [Acquire -> [ip : Addr \cup {Zero}, sid : Server] \cup {None}]
    /\ lease \in [Acquire -> Leases \cup {None}]
    /\ cancelled \in SUBSET Acquire
    /\ leases \in Leases \cup {None}
    /\ sent \in SUBSET Messages
    /\ replies \in SUBSET Replies

\* Whatever is lost, late or meant for the other Acquire, a lease is one that
\* the server it names granted in answer to the request of the last try, and
\* for the address offered in it.
LeaseGranted ==
    \A q \in Acquire : phase[q] = "bound" =>
        /\ lease[q] = offer[q]
        /\ \E m \in replies :
              /\ m.type = "ack" /\ m.xid = Xid(q)
              /\ m.ip = lease[q].ip /\ m.from = lease[q].sid

\* One transaction asks for one address: after an offer was taken, later ones
\* for it, from other servers or repeated, lead to no second REQUEST, which
\* would have two servers hold an address for the client.
OneRequestPerTransaction ==
    \A m, n \in sent :
        m.type = "request" /\ n.type = "request" /\ m.xid = n.xid => m = n

\* A cancelled Acquire starts no new try, and returns a lease only when it was
\* already waiting for the ACK.
CancelledStops ==
    [][\A q \in cancelled :
          /\ \A m \in sent' \ sent : m.type = "discover" => m.xid[1] # q
          /\ phase[q] \notin Ended \cup {"requesting"}
                => phase'[q] # "bound"]_vars

\* Acquire returns, even if no server ever answers or one declines forever.
AcquireReturns == \A q \in Acquire : <>(phase[q] \in Ended)
=============================================================================
