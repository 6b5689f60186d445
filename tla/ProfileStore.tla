---------------------------- MODULE ProfileStore ----------------------------
(***************************************************************************)
(* What the settings store promises for each keyfile: a register that      *)
(* survives the daemon.  A call replaces or removes what is stored at most *)
(* once, in one step, between its begin and its answer; the answer says    *)
(* whether it did; a crash loses the call and never what is stored.        *)
(* Settings implements it, as long as the calls on one profile take turns. *)
(***************************************************************************)
CONSTANTS
    Keyfile,  \* the keyfiles
    Val,      \* the settings a keyfile can hold
    None      \* no file, no call

VARIABLES
    readonly, \* the file system refuses every change
    stored,   \* stored[k]: the settings in the keyfile, or None
    pending,  \* pending[k]: the call on it, what it stores and whether it has
    answer    \* answer[k]: what the last call on it was told

vars == <<readonly, stored, pending, answer>>

Init ==
    /\ readonly \in BOOLEAN
    /\ stored \in [Keyfile -> Val \cup {None}]
    /\ pending = [k \in Keyfile |-> None]
    /\ answer = [k \in Keyfile |-> "none"]

\* A call arrives: it adds or updates the settings, or (None) removes them.
Begin(k, v) ==
    /\ pending[k] = None
    /\ pending' = [pending EXCEPT ![k] = [val |-> v, done |-> FALSE]]
    /\ UNCHANGED <<readonly, stored, answer>>

Commit(k) ==
    /\ ~readonly
    /\ pending[k] # None /\ ~pending[k].done
    /\ stored' = [stored EXCEPT ![k] = pending[k].val]
    /\ pending' = [pending EXCEPT ![k] = [val |-> pending[k].val, done |-> TRUE]]
    /\ UNCHANGED <<readonly, answer>>

\* The answer is true; only a removal that a read-only file system refuses is
\* answered as if it had been done.
Saved(call) == call.done \/ (readonly /\ call.val = None)

Answer(k) ==
    /\ pending[k] # None
    /\ answer' = [answer EXCEPT ![k] = IF Saved(pending[k]) THEN "saved"
                                                            ELSE "failed"]
    /\ pending' = [pending EXCEPT ![k] = None]
    /\ UNCHANGED <<readonly, stored>>

Crash ==
    /\ pending' = [k \in Keyfile |-> None]
    /\ UNCHANGED <<readonly, stored, answer>>

Next ==
    \/ \E k \in Keyfile, v \in Val \cup {None} : Begin(k, v)
    \/ \E k \in Keyfile : Commit(k) \/ Answer(k)
    \/ Crash

Spec == Init /\ [][Next]_vars
=============================================================================
