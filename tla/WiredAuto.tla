----------------------------- MODULE WiredAuto -----------------------------
(***************************************************************************)
(* Bringing ethernet online without a client (internal/nmapi/autowired.go, *)
(* Device.updateLink, Manager.onLinkEvent and the start of Manager.Run).   *)
(* A goroutine per device runs manageWired: it raises the link and reads   *)
(* it back.  The link event goroutine records every carrier change and     *)
(* starts autoConnectWired when the carrier appears.  The kernel senses    *)
(* the cable of a raised link, at once or, a slow NIC, some time later,    *)
(* and queues an event; what it sends before the socket is bound is lost.  *)
(*                                                                         *)
(* What an activation does is the subject of Activation: here it takes     *)
(* effect in one step.  Devices that disappear, overruns of the netlink    *)
(* socket and other kinds of device are left out.                          *)
(***************************************************************************)
EXTENDS Naturals, Sequences

CONSTANTS
    Iface,             \* the ethernet interfaces, all managed
    None,              \* a goroutine has read nothing
    NegotiatesAtOnce,  \* TRUE: no NIC takes time to sense its cable
    SubscribedFirst,   \* TRUE: the event socket is bound before Run goes on
    MaxSpawn,          \* bound on the autoConnectWired goroutines of a device
    MaxEvents          \* bound on the queue when a cable is moved

ASSUME WiredConstants ==
    /\ {NegotiatesAtOnce, SubscribedFirst} \subseteq BOOLEAN
    /\ MaxSpawn \in Nat \ {0} /\ MaxEvents \in Nat
    /\ None \notin BOOLEAN

VARIABLES
    present, cable, up, link,  \* the kernel's interfaces; link is the carrier
    events,                    \* the netlink socket's queue
    subscribed, started,       \* the socket is bound; Run started manageWired
    known,                     \* Manager.devices
    carrier, autoWired,        \* Device.carrier and Device.autoWired
    active,                    \* who activated the device's ActiveConnection
    haveProfile,               \* an ethernet profile exists
    pc, seen,                  \* the goroutines, and what they read of the link
    excused                    \* the devices that may stay offline: a client
                               \* or an error ended their connection

kernel  == <<present, cable, up, link>>
device  == <<known, carrier, autoWired>>
vars == <<present, cable, up, link, events, subscribed, started, known, carrier,
          autoWired, active, haveProfile, pc, seen, excused>>

\* Goroutine 0 of a device runs manageWired, the others autoConnectWired.
Runner == Iface \X (0 .. MaxSpawn)

\* At start some links exist and New has registered them.
Init ==
    /\ present \in SUBSET Iface
    /\ cable \in [Iface -> BOOLEAN]
    /\ up \in [Iface -> BOOLEAN] /\ \A d \in Iface \ present : ~up[d]
    /\ link = [d \in Iface |-> cable[d] /\ up[d]]
    /\ events = <<>>
    /\ subscribed = SubscribedFirst /\ started = FALSE
    /\ known = present
    /\ carrier = link
    /\ autoWired = [d \in Iface |-> FALSE]
    /\ active = [d \in Iface |-> "none"]
    /\ haveProfile \in BOOLEAN
    /\ pc = [r \in Runner |-> "idle"]
    /\ seen = [d \in Iface |-> None]
    /\ excused = {}

-----------------------------------------------------------------------------
\* The kernel

Notify(d, c) ==
    events' = IF subscribed THEN Append(events, [dev |-> d, carrier |-> c])
                            ELSE events

\* Raising a link that is up changes nothing.
Raise(d) ==
    IF up[d]
    THEN UNCHANGED <<up, link, events>>
    ELSE LET c == cable[d] /\ NegotiatesAtOnce IN
         /\ up' = [up EXCEPT ![d] = TRUE]
         /\ link' = [link EXCEPT ![d] = c]
         /\ Notify(d, c)

Negotiate(d) ==
    /\ cable[d] /\ up[d] /\ ~link[d]
    /\ link' = [link EXCEPT ![d] = TRUE]
    /\ Notify(d, TRUE)
    /\ UNCHANGED <<present, cable, up, subscribed, started, known, carrier,
                   autoWired, active, haveProfile, pc, seen, excused>>

\* Nothing is queued, running or about to be sensed.
Quiet ==
    /\ subscribed /\ started /\ events = <<>>
    /\ \A r \in Runner : pc[r] = "idle"
    /\ \A d \in Iface : cable[d] /\ up[d] => link[d]

\* A cable is moved, though not while its device is being managed; the device
\* deserves a new attempt.
MoveCable(d) ==
    /\ d \in known /\ started /\ subscribed /\ pc[<<d, 0>>] = "idle"
    /\ Len(events) < MaxEvents
    /\ cable' = [cable EXCEPT ![d] = ~@]
    /\ IF link[d] THEN link' = [link EXCEPT ![d] = FALSE] /\ Notify(d, FALSE)
                  ELSE UNCHANGED <<link, events>>
    /\ excused' = excused \ {d}
    /\ UNCHANGED <<present, up, subscribed, started, known, carrier, autoWired,
                   active, haveProfile, pc, seen>>

\* A NIC appears, not yet raised.
Plug(d) ==
    /\ d \notin present
    /\ present' = present \cup {d}
    /\ Notify(d, FALSE)
    /\ UNCHANGED <<cable, up, link, subscribed, started, known, carrier,
                   autoWired, active, haveProfile, pc, seen, excused>>

-----------------------------------------------------------------------------
\* Start

Bind ==
    /\ started /\ ~subscribed
    /\ subscribed' = TRUE
    /\ UNCHANGED <<present, cable, up, link, events, started, known, carrier,
                   autoWired, active, haveProfile, pc, seen, excused>>

Run ==
    /\ ~started
    /\ started' = TRUE
    /\ pc' = [r \in Runner |-> IF r[1] \in known /\ r[2] = 0 THEN "raise"
                                                             ELSE pc[r]]
    /\ UNCHANGED <<present, cable, up, link, events, subscribed, known, carrier,
                   autoWired, active, haveProfile, seen, excused>>

-----------------------------------------------------------------------------
\* manageWired

Goto(r, p) == pc' = [pc EXCEPT ![r] = p]

ManageRaise(d) ==
    /\ pc[<<d, 0>>] = "raise"
    /\ \/ Raise(d) /\ Goto(<<d, 0>>, "read") /\ UNCHANGED excused
       \/ /\ Goto(<<d, 0>>, "idle") /\ excused' = excused \cup {d}
          /\ UNCHANGED <<up, link, events>>
    /\ UNCHANGED <<present, cable, subscribed, started, known, carrier,
                   autoWired, active, haveProfile, seen>>

\* LinkByName sees the kernel's carrier; the device is written a moment later.
ManageRead(d) ==
    /\ pc[<<d, 0>>] = "read"
    /\ \/ /\ seen' = [seen EXCEPT ![d] = link[d]]
          /\ Goto(<<d, 0>>, "write") /\ UNCHANGED excused
       \/ /\ Goto(<<d, 0>>, "auto") /\ excused' = excused \cup {d}
          /\ UNCHANGED seen
    /\ UNCHANGED <<kernel, events, subscribed, started, known, carrier,
                   autoWired, active, haveProfile>>

\* mutant: what was read after raising the link is not kept
RereadDropped(d) == UNCHANGED carrier
StoreCarrier(d) == carrier' = [carrier EXCEPT ![d] = seen[d]]

ManageWrite(d) ==
    /\ pc[<<d, 0>>] = "write"
    /\ StoreCarrier(d)
    /\ seen' = [seen EXCEPT ![d] = None]
    /\ Goto(<<d, 0>>, "auto")
    /\ UNCHANGED <<kernel, events, subscribed, started, known, autoWired,
                   active, haveProfile, excused>>

-----------------------------------------------------------------------------
\* autoConnectWired

Kickable(d) == carrier[d] /\ active[d] = "none" /\ ~autoWired[d]

AutoCheck(r) ==
    /\ pc[r] = "auto"
    /\ IF Kickable(r[1])
       THEN autoWired' = [autoWired EXCEPT ![r[1]] = TRUE] /\ Goto(r, "profile")
       ELSE Goto(r, "idle") /\ UNCHANGED autoWired
    /\ UNCHANGED <<kernel, events, subscribed, started, known, carrier, active,
                   haveProfile, seen, excused>>

AutoProfile(r) ==
    /\ pc[r] = "profile"
    /\ Goto(r, IF haveProfile THEN "activate" ELSE "add")
    /\ UNCHANGED <<kernel, events, subscribed, started, device, active,
                   haveProfile, seen, excused>>

\* The attempt fails; the next appearance of the carrier allows another.
GiveUp(r) ==
    /\ Goto(r, "idle")
    /\ excused' = excused \cup {r[1]}
    /\ autoWired' = [autoWired EXCEPT ![r[1]] = FALSE]

\* Settings.add lists the profile before it exports it, which may fail.
AutoAdd(r) ==
    /\ pc[r] = "add"
    /\ haveProfile' = TRUE
    /\ \/ Goto(r, "activate") /\ UNCHANGED <<autoWired, excused>>
       \/ GiveUp(r)
    /\ UNCHANGED <<kernel, events, subscribed, started, known, carrier, active,
                   seen>>

AutoActivate(r) ==
    /\ pc[r] = "activate"
    /\ \/ /\ active' = [active EXCEPT ![r[1]] = "auto"]
          /\ Goto(r, "idle") /\ UNCHANGED <<autoWired, excused>>
       \/ /\ active' = [active EXCEPT ![r[1]] = "none"]   \* its export fails
          /\ GiveUp(r)
    /\ UNCHANGED <<kernel, events, subscribed, started, known, carrier,
                   haveProfile, seen>>

-----------------------------------------------------------------------------
\* Link events

Idle(d) == {n \in 1 .. MaxSpawn : pc[<<d, n>>] = "idle"}

Spawn(d) ==
    \E n \in Idle(d) : (\A k \in Idle(d) : n <= k) /\ Goto(<<d, n>>, "auto")

\* mutant: a lost carrier leaves the mark of the last attempt
KeepMark(d, c) == UNCHANGED autoWired
Unmark(d, c) == autoWired' = [autoWired EXCEPT ![d] = @ /\ c]

\* mutant: an event that says "no carrier" is taken for an admin-down notice
OnlyGains(d, c) == carrier' = [carrier EXCEPT ![d] = @ \/ c]
Record(d, c) == carrier' = [carrier EXCEPT ![d] = c]

\* The carrier appears: connect.
UpdateLink(d, c) ==
    /\ d \in known
    /\ Record(d, c)
    /\ Unmark(d, c)
    /\ IF c /\ ~carrier[d] THEN Spawn(d) ELSE UNCHANGED pc
    /\ UNCHANGED known

\* onLinkEvent registers an interface it has not seen and manages it.
AddDevice(d, c) ==
    /\ d \notin known
    /\ known' = known \cup {d}
    /\ carrier' = [carrier EXCEPT ![d] = c]
    /\ Goto(<<d, 0>>, "raise")
    /\ UNCHANGED autoWired

OnLinkEvent ==
    /\ started /\ subscribed /\ events # <<>>
    /\ LET e == Head(events) IN
          UpdateLink(e.dev, e.carrier) \/ AddDevice(e.dev, e.carrier)
    /\ events' = Tail(events)
    /\ UNCHANGED <<kernel, subscribed, started, active, haveProfile, seen,
                   excused>>

-----------------------------------------------------------------------------
\* Clients, and the end of a connection; the details are in Activation.

ClientActivate(d) ==
    /\ d \in known
    /\ active' = [active EXCEPT ![d] = "client"]
    /\ haveProfile' = TRUE
    /\ Raise(d)
    /\ UNCHANGED <<present, cable, subscribed, started, device, pc, seen,
                   excused>>

\* Deactivated by a client, or its bring-up fails at any time.
ConnectionEnds(d) ==
    /\ active[d] # "none"
    /\ active' = [active EXCEPT ![d] = "none"]
    /\ excused' = excused \cup {d}
    /\ UNCHANGED <<kernel, events, subscribed, started, device, haveProfile,
                   pc, seen>>

Manage(d) == ManageRaise(d) \/ ManageRead(d) \/ ManageWrite(d)
AutoConnect(r) == AutoCheck(r) \/ AutoProfile(r) \/ AutoAdd(r) \/ AutoActivate(r)

Next ==
    \/ Bind \/ Run \/ OnLinkEvent
    \/ \E r \in Runner : AutoConnect(r)
    \/ \E d \in Iface : \/ Negotiate(d) \/ MoveCable(d) \/ Plug(d) \/ Manage(d)
                        \/ ClientActivate(d) \/ ConnectionEnds(d)

Spec == Init /\ [][Next]_vars

\* Goroutines run, and a NIC senses its cable in the end.
FairSpec ==
    /\ Spec
    /\ WF_vars(Bind) /\ WF_vars(Run) /\ WF_vars(OnLinkEvent)
    /\ \A r \in Runner : WF_vars(AutoConnect(r))
    /\ \A d \in Iface : WF_vars(Manage(d)) /\ WF_vars(Negotiate(d))

-----------------------------------------------------------------------------
\* Every variable holds a value of its kind.
TypeOK ==
    /\ known \subseteq present /\ present \subseteq Iface
    /\ {cable, up, link, carrier, autoWired} \subseteq [Iface -> BOOLEAN]
    /\ events \in Seq([dev : Iface, carrier : BOOLEAN])
    /\ {subscribed, started, haveProfile} \subseteq BOOLEAN
    /\ active \in [Iface -> {"none", "auto", "client"}]
    /\ pc \in [Runner -> {"idle", "raise", "read", "write", "auto", "profile",
                          "add", "activate"}]
    /\ seen \in [Iface -> BOOLEAN \cup {None}]
    /\ excused \in SUBSET Iface

\* When the daemon has come to rest, a device whose cable is in and whose
\* connection nobody ended is online (autowired.go:8-15).
WiredOnline ==
    Quiet => \A d \in known \ excused : link[d] => active[d] # "none"

\* At rest the carrier recorded for a device is the kernel's, unless an error
\* kept the daemon from reading it.
CarrierKnown == Quiet => \A d \in known \ excused : carrier[d] = link[d]

\* A raised link with a cable gets online, unless its connection is ended.
GetsOnline ==
    \A d \in Iface :
        (d \in known /\ up[d] /\ cable[d])
            ~> (active[d] # "none" \/ d \in excused \/ ~cable[d])
=============================================================================
