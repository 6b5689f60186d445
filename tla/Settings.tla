------------------------------ MODULE Settings ------------------------------
(***************************************************************************)
(* The settings store (internal/nmapi/settings.go): connection profiles in *)
(* memory, one keyfile each, written by AddConnection and Update, removed  *)
(* by Delete and read by newSettings when the daemon starts.               *)
(*                                                                         *)
(* Every call is served by a goroutine of its own.  writeKeyfile creates   *)
(* or truncates <file>.tmp, writes it and renames it, with no lock held    *)
(* and without removing it when a step fails; newSettings reads every file *)
(* of the directory, a temporary one that was left behind included.  The   *)
(* file system is kept as directory entries and inodes because a writer    *)
(* goes on writing to the file it opened, whatever it is called by then.   *)
(*                                                                         *)
(* A profile's settings are reduced to its uuid, a revision and the state  *)
(* of its secret.  Deactivating the users of a deleted profile is part of  *)
(* Activation; the published list of profiles and the D-Bus signals are    *)
(* left out.  A crash is one of the daemon: what it wrote is kept (the     *)
(* code does not call fsync, a power failure is not modelled).             *)
(***************************************************************************)
EXTENDS Naturals, FiniteSets

CONSTANTS
    Client,    \* the goroutines serving method calls
    Main,      \* the goroutine that starts the daemon
    Profile,   \* the uuids clients use
    Fresh,     \* a uuid newConnection has drawn
    Keyfile,   \* the file names profiles are given
    FileOf,    \* FileOf[u]: the name made of the id of profile u
    Rev,       \* the revisions of a profile's settings
    Inode,     \* the files there can be
    None,      \* nil, an empty path, no such file
    OnDisk,    \* the profiles stored before the first start ...
    Legacy,    \* ... and those of them in the old list form
    TakeTurns, \* TRUE: the calls on one profile do not overlap
    MaxConn,   \* bound on the connection objects of one run of the daemon
    MaxTemp,   \* bound on the ".tmp" a file name ends with
    MaxCrash   \* bound on the crashes

Writer == Client \cup {Main}

ASSUME ConstantsTyped ==
    /\ FileOf \in [Profile -> Keyfile]
    /\ Legacy \subseteq OnDisk /\ OnDisk \subseteq Profile
    /\ TakeTurns \in BOOLEAN
    /\ Rev # {}
    /\ MaxConn \in Nat /\ MaxTemp \in Nat \ {0} /\ MaxCrash \in Nat

ASSUME RoomForStored ==
    \E f \in [OnDisk -> Inode] : \A u, v \in OnDisk : f[u] = f[v] => u = v

ASSUME NamesDistinct ==
    /\ None \notin Profile \cup Inode \cup Rev
    /\ Fresh \notin Profile \cup {None}
    /\ Main \notin Client

VARIABLES
    readonly, \* /etc is on a read-only file system
    dir,      \* dir[n]: the inode a file name leads to
    data,     \* data[i]: what the inode holds
    boot,     \* "down", "loading" or "up"
    conns,    \* the SettingsConnections by path, None when there is none
    gen,      \* connGen
    todo,     \* the directory entries newSettings has not read yet
    pc,       \* where each goroutine is
    call,     \* what it serves
    fd,       \* the temporary file it has open
    answer,   \* what the last call on each keyfile was told
    crashes   \* the number of crashes

disk   == <<readonly, dir, data>>
memory == <<boot, conns, gen, todo>>
vars   == <<disk, memory, pc, call, fd, answer, crashes>>

-----------------------------------------------------------------------------
\* A file name: a keyfile with a number of ".tmp" behind it
Names == Keyfile \X (0 .. MaxTemp)

Values == [uuid : Profile, rev : Rev, psk : {"none", "omitted", "set"}]

\* A file that was created or truncated and not written yet; it reads as
\* settings without any group.
Empty == [uuid |-> None, rev |-> None, psk |-> "none"]

Contents == [val : Values \cup {Empty}, old : BOOLEAN]

\* sc.uuid and sc.settings, sc.file, and whether it is still in s.conns (an
\* object is called until it is unexported)
Conns == [val : Values \cup {[Empty EXCEPT !.uuid = Fresh]},
          file : Names \cup {None}, listed : BOOLEAN]

Calls == [op : {"add", "update", "delete", "load"},
          uuid : Profile \cup {Fresh, None}, conn : 0 .. MaxConn,
          file : Names \cup {None}, val : Values \cup {Empty, None}]

ASSUME NoneIsNothing ==
    /\ None \notin Names \cup Values \cup Conns \cup Calls
    /\ None \notin [val : Values \cup {None}, done : BOOLEAN]

\* The keyfiles before the first start, each in an inode of its own
Place == CHOOSE f \in [OnDisk -> Inode] :
            \A u, v \in OnDisk : f[u] = f[v] => u = v

Stored(u) == [val |-> [uuid |-> u, rev |-> CHOOSE r \in Rev : TRUE,
                       psk |-> "set"], old |-> u \in Legacy]

Init ==
    /\ readonly \in BOOLEAN
    /\ dir = [n \in Names |->
                IF \E u \in OnDisk : n = <<FileOf[u], 0>>
                THEN Place[CHOOSE u \in OnDisk : n = <<FileOf[u], 0>>]
                ELSE None]
    /\ data = [i \in Inode |->
                 IF \E u \in OnDisk : Place[u] = i
                 THEN Stored(CHOOSE u \in OnDisk : Place[u] = i)
                 ELSE [val |-> Empty, old |-> FALSE]]
    /\ boot = "down"
    /\ conns = [o \in 1 .. MaxConn |-> None]
    /\ gen = 0 /\ todo = {}
    /\ pc = [w \in Writer |-> "idle"]
    /\ call = [w \in Writer |-> None]
    /\ fd = [w \in Writer |-> None]
    /\ answer = [k \in Keyfile |-> "none"]
    /\ crashes = 0

-----------------------------------------------------------------------------
Goto(w, place) == pc' = [pc EXCEPT ![w] = place]

\* The goroutine w ends; a call on a keyfile proper has its answer.
End(w, told) ==
    LET n == call[w].file IN
    /\ Goto(w, "idle")
    /\ call' = [call EXCEPT ![w] = None]
    /\ fd' = [fd EXCEPT ![w] = None]
    /\ answer' = IF w = Main \/ n = None \/ n \notin Keyfile \X {0}
                 THEN answer
                 ELSE [answer EXCEPT ![n[1]] = told]

Listed == {o \in 1 .. MaxConn : conns[o] # None /\ conns[o].listed}

\* GetConnectionByUuid: the first connection with that uuid
ByUuid(u) ==
    {o \in Listed : /\ conns[o].val.uuid = u
                    /\ \A q \in Listed : conns[q].val.uuid = u => o <= q}

\* mutant: a profile read without a uuid is left without one
WithoutUuid(val) == val

\* newConnection gives a profile that has none a uuid.
WithUuid(val) == IF val.uuid = None THEN [val EXCEPT !.uuid = Fresh] ELSE val

\* newConnection, and the append to s.conns
Append(val, file) ==
    /\ gen < MaxConn
    /\ gen' = gen + 1
    /\ conns' = [conns EXCEPT ![gen + 1] = [val |-> WithUuid(val),
                                            file |-> file, listed |-> TRUE]]

\* The calls a client makes: by uuid, one at a time for each profile; or on
\* any object that is on the bus, at any time
MayCall(c, u) ==
    /\ boot = "up" /\ pc[c] = "idle"
    /\ TakeTurns => \A d \in Client : pc[d] # "idle" => call[d].uuid # u

Callable(u) ==
    IF TakeTurns THEN ByUuid(u)
    ELSE {o \in 1 .. MaxConn : conns[o] # None /\ conns[o].val.uuid = u}

-----------------------------------------------------------------------------
\* writeKeyfile(call[w].file, call[w].val), in the steps of the file system

\* mutant: the keyfile is written in place
InPlace(n) == n

\* path + ".tmp"
Temp(n) == <<n[1], n[2] + 1>>

\* Any of the steps fails (a full disk, a read-only one, a temporary file that
\* somebody else has renamed or removed).
WriteFails(w) ==
    /\ pc[w] \in {"open", "write", "rename"}
    /\ Goto(w, "failed")
    /\ UNCHANGED <<disk, memory, call, fd, answer, crashes>>

\* os.WriteFile opens the temporary file, truncating one that exists; a new
\* one takes an inode, and is refused when there is none left.
OpenTemp(w) ==
    LET tmp == Temp(call[w].file)
        unused == {i \in Inode : /\ \A n \in Names : dir[n] # i
                                 /\ \A v \in Writer : fd[v] # i}
        i == IF dir[tmp] # None THEN dir[tmp] ELSE CHOOSE j \in unused : TRUE
    IN
    /\ pc[w] = "open" /\ ~readonly
    /\ dir[tmp] # None \/ unused # {}
    /\ dir' = [dir EXCEPT ![tmp] = i]
    /\ data' = [data EXCEPT ![i] = [val |-> Empty, old |-> FALSE]]
    /\ fd' = [fd EXCEPT ![w] = i]
    /\ Goto(w, "write")
    /\ UNCHANGED <<readonly, memory, call, answer, crashes>>

WriteTemp(w) ==
    /\ pc[w] = "write"
    /\ data' = [data EXCEPT ![fd[w]] = [val |-> call[w].val, old |-> FALSE]]
    /\ Goto(w, "rename")
    /\ UNCHANGED <<readonly, dir, memory, call, fd, answer, crashes>>

\* os.Rename replaces the keyfile by what the temporary name leads to.
Rename(w) ==
    LET tmp == Temp(call[w].file) IN
    /\ pc[w] = "rename"
    /\ dir[tmp] # None
    /\ dir' = [[dir EXCEPT ![tmp] = None] EXCEPT ![call[w].file] = dir[tmp]]
    /\ Goto(w, "saved")
    /\ UNCHANGED <<readonly, data, memory, call, fd, answer, crashes>>

WriteKeyfile(w) == OpenTemp(w) \/ WriteTemp(w) \/ Rename(w) \/ WriteFails(w)

-----------------------------------------------------------------------------
\* Settings.add: the keyfile first, the connection afterwards, without a file
\* when it could not be written
Add(c, u, rev, psk) ==
    /\ MayCall(c, u)
    /\ TakeTurns => \A o \in Listed : conns[o].val.uuid # u
    /\ call' = [call EXCEPT ![c] =
                  [op |-> "add", uuid |-> u, conn |-> 0,
                   file |-> <<FileOf[u], 0>>,
                   val |-> [uuid |-> u, rev |-> rev, psk |-> psk]]]
    /\ Goto(c, "open")
    /\ UNCHANGED <<disk, memory, fd, answer, crashes>>

Added(c) ==
    /\ pc[c] \in {"saved", "failed"} /\ call[c].op = "add"
    /\ Append(call[c].val, IF pc[c] = "saved" THEN call[c].file ELSE None)
    /\ End(c, pc[c])
    /\ UNCHANGED <<disk, boot, todo, crashes>>

\* keepSecrets: an update that leaves out the secret of a group it has keeps
\* the old one.
KeepSecrets(next, prev) ==
    IF next.psk = "omitted" /\ prev.psk = "set"
    THEN [next EXCEPT !.psk = "set"] ELSE next

\* The bound on names: a file whose temporary file has a name
HasTemp(n) == IF n = None THEN TRUE ELSE n[2] < MaxTemp

\* mutant: the secrets are kept in memory only
WrittenAsSent(next, prev) == next

\* What Update writes to the keyfile
Written(next, prev) == KeepSecrets(next, prev)

\* SettingsConnection.Update up to its unlock.  One of a profile without a
\* file ends in an error: no file can be renamed to an empty path.
Update(c, o, rev, psk) ==
    LET prev == conns[o].val
        next == [uuid |-> prev.uuid, rev |-> rev, psk |-> psk] IN
    /\ conns' = [conns EXCEPT ![o].val = KeepSecrets(next, prev)]
    /\ call' = [call EXCEPT ![c] =
                  [op |-> "update", uuid |-> prev.uuid, conn |-> o,
                   file |-> conns[o].file, val |-> Written(next, prev)]]
    /\ Goto(c, IF conns[o].file = None THEN "failed" ELSE "open")
    /\ UNCHANGED <<disk, boot, gen, todo, fd, answer, crashes>>

Updated(c) ==
    /\ pc[c] \in {"saved", "failed"} /\ call[c].op = "update"
    /\ End(c, pc[c])
    /\ UNCHANGED <<disk, memory, crashes>>

\* SettingsConnection.Delete and Settings.remove up to its unlock
Delete(c, o) ==
    /\ conns' = [conns EXCEPT ![o].listed = FALSE]
    /\ call' = [call EXCEPT ![c] =
                  [op |-> "delete", uuid |-> conns[o].val.uuid, conn |-> o,
                   file |-> conns[o].file, val |-> None]]
    /\ Goto(c, "unlink")
    /\ UNCHANGED <<disk, boot, gen, todo, fd, answer, crashes>>

\* os.Remove, whose error is not looked at
Unlink(c) ==
    LET n == call[c].file IN
    /\ pc[c] = "unlink"
    /\ dir' = IF n = None \/ readonly THEN dir ELSE [dir EXCEPT ![n] = None]
    /\ Goto(c, "unexport")
    /\ UNCHANGED <<readonly, data, memory, call, fd, answer, crashes>>

Unexport(c) ==
    /\ pc[c] = "unexport"
    /\ conns' = [conns EXCEPT ![call[c].conn] = None]
    /\ End(c, "saved")
    /\ UNCHANGED <<disk, boot, gen, todo, crashes>>

Request(c) ==
    \/ \E u \in Profile, rev \in Rev, psk \in {"none", "omitted", "set"} :
          Add(c, u, rev, psk)
    \/ \E u \in Profile :
          /\ MayCall(c, u)
          /\ \E o \in Callable(u) :
                \/ Delete(c, o)
                \/ /\ HasTemp(conns[o].file)
                   /\ \E rev \in Rev, psk \in {"none", "omitted", "set"} :
                         Update(c, o, rev, psk)

Step(c) ==
    \/ WriteKeyfile(c)
    \/ Added(c) \/ Updated(c) \/ Unlink(c) \/ Unexport(c)

-----------------------------------------------------------------------------
\* newSettings: os.ReadDir, then file by file in the order of their names
ReadDir ==
    /\ boot = "down"
    /\ boot' = "loading"
    /\ todo' = {n \in Names : dir[n] # None}
    /\ UNCHANGED <<disk, conns, gen, pc, call, fd, answer, crashes>>

\* The next file of a name: what it is short of comes first.
Foremost(n) ==
    /\ n \in todo
    /\ \A m \in todo : m[1] = n[1] => n[2] <= m[2]

\* A file that can no longer be read is skipped.
LoadGone(n) ==
    /\ boot = "loading" /\ pc[Main] = "idle" /\ Foremost(n)
    /\ dir[n] = None
    /\ todo' = todo \ {n}
    /\ UNCHANGED <<disk, boot, conns, gen, pc, call, fd, answer, crashes>>

Load(n) ==
    /\ boot = "loading" /\ pc[Main] = "idle" /\ Foremost(n)
    /\ dir[n] # None /\ ~data[dir[n]].old
    /\ Append(data[dir[n]].val, n)
    /\ todo' = todo \ {n}
    /\ UNCHANGED <<disk, boot, pc, call, fd, answer, crashes>>

\* One in the old list form is rewritten first, if that succeeds.
LoadLegacy(n) ==
    /\ boot = "loading" /\ pc[Main] = "idle" /\ Foremost(n)
    /\ dir[n] # None /\ data[dir[n]].old
    /\ call' = [call EXCEPT ![Main] =
                  [op |-> "load", uuid |-> None, conn |-> 0, file |-> n,
                   val |-> data[dir[n]].val]]
    /\ todo' = todo \ {n}
    /\ Goto(Main, "open")
    /\ UNCHANGED <<disk, boot, conns, gen, fd, answer, crashes>>

Loaded ==
    /\ pc[Main] \in {"saved", "failed"}
    /\ Append(call[Main].val, call[Main].file)
    /\ End(Main, pc[Main])
    /\ UNCHANGED <<disk, boot, todo, crashes>>

\* export: the store is on the bus.
Export ==
    /\ boot = "loading" /\ pc[Main] = "idle" /\ todo = {}
    /\ boot' = "up"
    /\ UNCHANGED <<disk, conns, gen, todo, pc, call, fd, answer, crashes>>

NewSettings ==
    \/ ReadDir
    \/ \E n \in Names : LoadGone(n) \/ Load(n) \/ LoadLegacy(n)
    \/ WriteKeyfile(Main) \/ Loaded \/ Export

Crash ==
    /\ boot # "down" /\ crashes < MaxCrash
    /\ crashes' = crashes + 1
    /\ boot' = "down"
    /\ conns' = [o \in 1 .. MaxConn |-> None]
    /\ gen' = 0 /\ todo' = {}
    /\ pc' = [w \in Writer |-> "idle"]
    /\ call' = [w \in Writer |-> None]
    /\ fd' = [w \in Writer |-> None]
    /\ UNCHANGED <<disk, answer>>

Next ==
    \/ \E c \in Client : Request(c) \/ Step(c)
    \/ NewSettings
    \/ Crash

Spec == Init /\ [][Next]_vars

-----------------------------------------------------------------------------
\* Every variable holds a value of its kind.
TypeOK ==
    /\ readonly \in BOOLEAN
    /\ dir \in [Names -> Inode \cup {None}]
    /\ data \in [Inode -> Contents]
    /\ boot \in {"down", "loading", "up"}
    /\ conns \in [1 .. MaxConn -> Conns \cup {None}]
    /\ gen \in 0 .. MaxConn
    /\ todo \in SUBSET Names
    /\ pc \in [Writer -> {"idle", "open", "write", "rename", "saved",
                          "failed", "unlink", "unexport"}]
    /\ call \in [Writer -> Calls \cup {None}]
    /\ fd \in [Writer -> Inode \cup {None}]
    /\ answer \in [Keyfile -> {"none", "saved", "failed"}]
    /\ crashes \in 0 .. MaxCrash

\* The settings a keyfile holds
OnFile(k) == IF dir[<<k, 0>>] = None THEN None ELSE data[dir[<<k, 0>>]].val

\* The calls of clients that work on a keyfile
CallsOn(k) == {c \in Client : pc[c] # "idle" /\ call[c].file = <<k, 0>>}

\* What is in memory is on disk: when no call is under way on a profile with a
\* keyfile and the last one did not fail, a restart would read the settings
\* clients see (Save relies on it: "every update is already written to disk").
SavedToDisk ==
    boot = "up" =>
        \A o \in Listed, k \in Keyfile :
            /\ conns[o].file = <<k, 0>>
            /\ CallsOn(k) = {} /\ answer[k] # "failed"
            => OnFile(k) = conns[o].val

\* The call on a keyfile: what it stores, and whether it has
Pending(k) ==
    IF CallsOn(k) = {} THEN None
    ELSE LET c == CHOOSE d \in CallsOn(k) : TRUE
         IN [val |-> call[c].val,
             done |-> pc[c] = "saved" \/ (pc[c] = "unexport" /\ ~readonly)]

\* Every keyfile is a register that survives the daemon (ProfileStore): no
\* crash and no failing write leaves it with anything but settings a call
\* stored, and the call is told the truth.
Store == INSTANCE ProfileStore WITH
    Val     <- Values,
    stored  <- [k \in Keyfile |-> OnFile(k)],
    pending <- [k \in Keyfile |-> Pending(k)]

Durable == Store!Spec
=============================================================================
