--------------------------------- MODULE Dns ---------------------------------
(***************************************************************************)
(* The resolver file (internal/backend/sys/dns.go): one entry for every    *)
(* interface, set by bring-ups and reverted by teardowns, merged into      *)
(* /etc/resolv.conf whenever one changes.                                  *)
(*                                                                         *)
(* Set and Revert hold the manager's lock from the change of the entry to  *)
(* the end of the rewrite, so one that waits has not begun.  The path may  *)
(* be a symbolic link, as under systemd-resolved; the rewrite goes to its  *)
(* destination or replaces the link.  Temporary files have names of their  *)
(* own and nobody reads them: only what the path leads to is kept.         *)
(***************************************************************************)
EXTENDS Integers, FiniteSets, SequencesExt

CONSTANTS
    Iface,            \* the interfaces
    Rank,             \* Rank[i]: the place of their names in name order
    Entries,          \* the entries that can be set: priority and lists
    Width,            \* Width[d]: the characters of a domain and its space
    MaxNameservers,   \* maxNameservers
    MaxSearchDomains, \* maxSearchDomains
    MaxSearchChars,   \* maxSearchChars
    NoEntry,          \* no entry
    MaxCrash          \* bound on the crashes of the daemon

ASSUME DnsConstants ==
    /\ IsFiniteSet(Iface)
    /\ Rank \in [Iface -> Nat]
    /\ \A i, j \in Iface : Rank[i] = Rank[j] => i = j
    /\ NoEntry \notin Entries
    /\ Width \in [DOMAIN Width -> Nat]
    /\ \A e \in Entries :
          /\ e.priority \in Int
          /\ e.servers \in Seq(ToSet(e.servers))
          /\ e.domains \in Seq(DOMAIN Width)
    /\ {MaxNameservers, MaxSearchDomains, MaxSearchChars, MaxCrash} \subseteq Nat

VARIABLES
    entries,  \* dnsManager.entries
    step,     \* where the call that holds dnsManager.mu is; idle: nobody does
    target,   \* the file it writes
    isLink,   \* the path is a symbolic link
    writable, \* the destination's directory is writable, as far as access says
    text,     \* what the path itself and the link's destination hold
    result,   \* how the last rewrite ended; refused: it is at its second try
    crashes   \* the number of crashes

files   == <<isLink, writable, text>>
dnsVars == <<entries, step, target, files, result, crashes>>

-----------------------------------------------------------------------------
\* What a file holds: the text of somebody else, half of one, or the lines
\* render makes of the entries
Foreign == [servers |-> <<>>, domains |-> <<>>, by |-> "other"]
Partial == [servers |-> <<>>, domains |-> <<>>, by |-> "half"]

DnsInit ==
    /\ entries = [i \in Iface |-> NoEntry]
    /\ step = "idle" /\ target = "path"
    /\ isLink \in BOOLEAN /\ writable \in BOOLEAN
    /\ text = [f \in {"path", "dest"} |-> Foreign]
    /\ result = "none" /\ crashes = 0

\* S in the order R: the k-th has k - 1 others before it.
Sorted(S, R) ==
    [k \in 1 .. Cardinality(S) |->
        CHOOSE x \in S : Cardinality({y \in S : <<y, x>> \in R}) = k - 1]

\* The interfaces with an entry, lower priority first and then by name
Holders(es) == {i \in Iface : es[i] # NoEntry}

Ordered(es) ==
    Sorted(Holders(es),
           {p \in Holders(es) \X Holders(es) :
               LET a == es[p[1]].priority  b == es[p[2]].priority IN
               a < b \/ (a = b /\ Rank[p[1]] < Rank[p[2]])})

\* The servers or the domains of the entries, one entry after the other
Items(es, field) ==
    FlattenSeq([k \in 1 .. Cardinality(Holders(es)) |->
                   es[Ordered(es)[k]][field]])

\* The first of each of s: the others have been seen.
Distinct(s) ==
    LET firsts == {k \in 1 .. Len(s) : \A l \in 1 .. k - 1 : s[l] # s[k]}
        at == Sorted(firsts, {p \in firsts \X firsts : p[1] < p[2]})
    IN  [k \in 1 .. Cardinality(firsts) |-> s[at[k]]]

\* mutant: the lines are counted before the repeated ones are left out
CapFirst(s, n) == Distinct(SubSeq(s, 1, IF Len(s) > n THEN n ELSE Len(s)))

Capped(s, n) ==
    LET t == Distinct(s) IN SubSeq(t, 1, IF Len(t) > n THEN n ELSE Len(t))

Chars(s) ==
    LET total[n \in 0 .. Len(s)] ==
            IF n = 0 THEN 0 ELSE total[n - 1] + Width[s[n]]
    IN  total[Len(s)]

\* The search line is cut before the domain that makes it too long.
Fitting(s) ==
    CHOOSE t \in Prefixes(s) :
        /\ Chars(t) <= MaxSearchChars
        /\ \A u \in Prefixes(s) :
              Chars(u) <= MaxSearchChars => Len(u) <= Len(t)

\* dnsManager.render, of the entries es
Render(es) ==
    [servers |-> Capped(Items(es, "servers"), MaxNameservers),
     domains |-> Fitting(Capped(Items(es, "domains"), MaxSearchDomains)),
     by |-> "nm"]

-----------------------------------------------------------------------------
\* Set and Revert up to render.  The entry is in place whatever becomes of the
\* file.
Change(i, e) ==
    /\ step = "idle"
    /\ entries' = [entries EXCEPT ![i] = e]
    /\ step' = "target"
    /\ UNCHANGED <<target, files, result, crashes>>

Set(i, e) == Change(i, e)
Revert(i) == Change(i, NoEntry)

\* mutant: a link is always replaced
PathItself == "path"

\* targetPath: through a link to a destination that seems writable
TargetPath == IF isLink /\ writable THEN "dest" ELSE "path"

ChooseTarget ==
    /\ step = "target"
    /\ target' = TargetPath
    /\ step' = "write"
    /\ UNCHANGED <<entries, files, result, crashes>>

\* mutant: the file is written in place
WriteInPlace ==
    /\ step = "write"
    /\ text' = [text EXCEPT ![target] = Partial]
    /\ step' = "rename"
    /\ UNCHANGED <<entries, target, isLink, writable, result, crashes>>

\* writeAtomic: create, write, sync and close a temporary file
WriteTemp ==
    /\ step = "write"
    /\ step' = "rename"
    /\ UNCHANGED <<entries, target, files, result, crashes>>

Unlock(how) ==
    /\ step' = "idle"
    /\ result' = how

\* writeAtomic: the rename, which replaces a link at the path
Rename ==
    /\ step = "rename"
    /\ text' = [text EXCEPT ![target] = Render(entries)]
    /\ isLink' = (isLink /\ target = "dest")
    /\ Unlock("ok")
    /\ UNCHANGED <<entries, target, writable, crashes>>

\* Any step of writeAtomic fails; one to a link's destination is tried again at
\* the path.
WriteFails ==
    /\ step \in {"write", "rename"}
    /\ \/ /\ target = "dest"
          /\ target' = "path" /\ step' = "write"
          /\ result' = "refused"
       \/ /\ target = "path"
          /\ Unlock("failed")
          /\ UNCHANGED target
    /\ UNCHANGED <<entries, files, crashes>>

\* The daemon ends and starts again, with no entries (NewDNS); the file stays.
Restart ==
    /\ crashes < MaxCrash
    /\ crashes' = crashes + 1
    /\ entries' = [i \in Iface |-> NoEntry]
    /\ step' = "idle" /\ result' = "none"
    /\ UNCHANGED <<target, files>>

Rewrite == ChooseTarget \/ WriteTemp \/ Rename \/ WriteFails

DnsNext ==
    \/ \E i \in Iface, e \in Entries : Set(i, e)
    \/ \E i \in Iface : Revert(i)
    \/ Rewrite
    \/ Restart

DnsSpec == DnsInit /\ [][DnsNext]_dnsVars

-----------------------------------------------------------------------------
\* What a resolver that opens the path reads
Visible == IF isLink THEN text["dest"] ELSE text["path"]

Texts == [servers : Seq(UNION {ToSet(e.servers) : e \in Entries}),
          domains : Seq(UNION {ToSet(e.domains) : e \in Entries}),
          by : {"other", "nm"}]

\* Every variable holds a value of its kind; no file is half written, so a
\* resolver reads a whole text at any time, also after a crash.
DnsTypeOK ==
    /\ entries \in [Iface -> Entries \cup {NoEntry}]
    /\ step \in {"idle", "target", "write", "rename"}
    /\ target \in {"path", "dest"}
    /\ isLink \in BOOLEAN /\ writable \in BOOLEAN
    /\ text \in [{"path", "dest"} -> Texts]
    /\ result \in {"none", "ok", "refused", "failed"}
    /\ crashes \in 0 .. MaxCrash

\* An item of a list comes before another when some entry names it before every
\* entry that names the other: by priority, then by interface, then by place.
Place(field, x) ==
    UNION {{<<i, k>> : k \in {l \in 1 .. Len(entries[i][field]) :
                                  entries[i][field][l] = x}} :
             i \in Holders(entries)}

Earlier(p, q) ==
    LET a == entries[p[1]].priority  b == entries[q[1]].priority IN
    \/ a < b
    \/ a = b /\ Rank[p[1]] < Rank[q[1]]
    \/ p[1] = q[1] /\ p[2] < q[2]

Precedes(field, x, y) ==
    \E p \in Place(field, x) : \A q \in Place(field, y) : Earlier(p, q)

\* The items of a field the entries name
Named(field) == UNION {ToSet(entries[i][field]) : i \in Holders(entries)}

\* list holds items the entries name, once each, in order, and none it leaves
\* out comes before one of them.
Best(field, list) ==
    /\ ToSet(list) \subseteq Named(field)
    /\ \A k, l \in 1 .. Len(list) : k < l => Precedes(field, list[k], list[l])
    /\ \A x \in Named(field) \ ToSet(list), y \in ToSet(list) :
          Precedes(field, y, x)

\* The text has the first nameservers of the entries as they are, as many as
\* a resolver can use, and the search domains that fit: none of a reverted
\* interface, nor a repeated one in place of one that is left out.
Right(t) ==
    /\ t.by = "nm"
    /\ Best("servers", t.servers)
    /\ Len(t.servers) = IF Cardinality(Named("servers")) > MaxNameservers
                        THEN MaxNameservers ELSE Cardinality(Named("servers"))
    /\ Best("domains", t.domains)
    /\ Len(t.domains) <= MaxSearchDomains
    /\ Chars(t.domains) <= MaxSearchChars
    /\ \A d \in Named("domains") \ ToSet(t.domains) :
          \/ Len(t.domains) = MaxSearchDomains
          \/ \E e \in Named("domains") \ ToSet(t.domains) :
                Chars(t.domains) + Width[e] > MaxSearchChars

\* When no call is under way and the last one wrote its file, a resolver reads
\* there what the entries as they are ask for.
ResolverCurrent == step = "idle" /\ result = "ok" => Right(Visible)

\* A link at the path, which somebody else put there, is replaced only when
\* access refuses its destination or when the same call failed to write there.
LinkKept == [][isLink /\ ~isLink' => ~writable \/ result = "refused"]_dnsVars
=============================================================================
