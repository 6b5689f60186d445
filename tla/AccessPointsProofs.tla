------------------------- MODULE AccessPointsProofs -------------------------
(***************************************************************************)
(* Proofs about AccessPoints, for any number of goroutines, networks and   *)
(* access points.                                                          *)
(***************************************************************************)
EXTENDS AccessPoints, FiniteSetTheorems, TLAPS

\* Numbers in use have been given out.
Given ==
    LET old == 1 .. apGen IN
    /\ Listed \subseteq old
    /\ \A w \in Worker : added[w] \subseteq old /\ removed[w] \subseteq old

\* No two networks share an access point.
Distinct == IsInjective(byHandle)

\* Only a goroutine that has left the lock has access points to work on.
Idle == \A w \in Worker : pc[w] # "work" => added[w] = {} /\ removed[w] = {}

IInv == Given /\ Distinct /\ Idle /\ OneOwner /\ ListedReachable

-----------------------------------------------------------------------------
\* The numbers Reconcile gives out are new.
LEMMA FreshNumbers ==
    ASSUME TypeOK, NEW w \in Worker, NEW n, n = Cardinality(Unknown(w))
    PROVE  /\ n \in Nat
           /\ (apGen + 1 .. apGen + n) \cap (1 .. apGen) = {}
           /\ apGen + n <= MaxAP =>
                 /\ (apGen + 1 .. apGen + n) \subseteq 1 .. MaxAP
                 /\ apGen + n \in 0 .. MaxAP
                 /\ 1 .. apGen \subseteq 1 .. apGen + n
                 /\ (apGen + 1 .. apGen + n) \subseteq 1 .. apGen + n
<1>1. Unknown(w) \subseteq Handle
  BY DEF TypeOK, Unknown
<1>2. IsFiniteSet(Unknown(w))
  BY <1>1, FS_Subset, AccessPointConstants
<1>3. n \in Nat
  BY <1>2, FS_CardinalityType
<1> QED
  BY <1>3, AccessPointConstants DEF TypeOK

LEMMA InitInv == Init => TypeOK /\ IInv
<1> SUFFICES ASSUME Init PROVE TypeOK /\ IInv
  OBVIOUS
<1> USE AccessPointConstants DEF Init
<1>1. TypeOK
  <2>1. DOMAIN byHandle = {} /\ byHandle \in [{} -> 1 .. MaxAP]
    OBVIOUS
  <2>2. 0 \in 0 .. MaxAP /\ 0 \in 0 .. MaxMoves
    OBVIOUS
  <2> QED
    BY <2>1, <2>2 DEF TypeOK
<1>2. Listed = {}
  BY DEF Listed, Range
<1> QED
  BY <1>1, <1>2
  DEF IInv, Given, Distinct, Idle, OneOwner, ListedReachable, IsInjective

-----------------------------------------------------------------------------
\* What Reconcile does to the list: survivors keep their object, the others of
\* the list are withdrawn, the networks it did not know get the new numbers.
LEMMA ReconcileList ==
    ASSUME TypeOK, IInv, NEW w \in Worker, Reconcile(w),
           NEW new, new = apGen + 1 .. apGen + Cardinality(Unknown(w))
    PROVE  /\ DOMAIN byHandle' \in SUBSET Handle
           /\ byHandle' \in [DOMAIN byHandle' -> 1 .. MaxAP]
           /\ IsInjective(byHandle')
           /\ Listed' \subseteq (Listed \ removed'[w]) \cup new
           /\ removed'[w] \subseteq Listed
           /\ added'[w] = new
<1> DEFINE n == Cardinality(Unknown(w))
<1>0. /\ n \in Nat /\ new \cap (1 .. apGen) = {}
      /\ apGen + n <= MaxAP /\ new \subseteq 1 .. MaxAP
  BY FreshNumbers DEF Reconcile
<1>1. PICK f \in Bijection(Unknown(w), new) :
         byHandle' = [h \in Surviving(w) \cup Unknown(w) |->
                         IF h \in Unknown(w) THEN f[h] ELSE byHandle[h]]
  BY DEF Reconcile
<1>2. f \in [Unknown(w) -> new] /\ \A a, b \in Unknown(w) : f[a] = f[b] => a = b
  BY DEF Bijection, Injection, IsInjective
<1>3. /\ Surviving(w) \subseteq DOMAIN byHandle
      /\ Surviving(w) \cap Unknown(w) = {}
      /\ Surviving(w) \cup Unknown(w) \in SUBSET Handle
      /\ Surviving(w) = nets[w] \cap DOMAIN byHandle
  BY DEF Surviving, Unknown, TypeOK
<1>4. \A h \in DOMAIN byHandle : byHandle[h] \in Listed /\ byHandle[h] \notin new
  BY <1>0 DEF Listed, Range, IInv, Given
<1>5. \A a, b \in DOMAIN byHandle : byHandle[a] = byHandle[b] => a = b
  BY DEF IInv, Distinct, IsInjective
<1>6. removed'[w] = {byHandle[h] : h \in DOMAIN byHandle \ nets[w]}
  BY DEF Reconcile, TypeOK
<1>7. DOMAIN byHandle' = Surviving(w) \cup Unknown(w)
  BY <1>1
<1>8. \A h \in DOMAIN byHandle' :
         \/ h \in Unknown(w) /\ byHandle'[h] = f[h] /\ byHandle'[h] \in new
         \/ /\ h \in Surviving(w) /\ byHandle'[h] = byHandle[h]
            /\ byHandle'[h] \in Listed \ removed'[w]
  BY <1>1, <1>2, <1>3, <1>4, <1>5, <1>6, <1>7
<1>9. byHandle' \in [DOMAIN byHandle' -> 1 .. MaxAP]
  <2>1. Listed \subseteq 1 .. MaxAP
    BY DEF Listed, Range, TypeOK
  <2> QED
    BY <1>0, <1>1, <1>7, <1>8, <2>1
<1>10. IsInjective(byHandle')
  <2> SUFFICES ASSUME NEW a \in DOMAIN byHandle', NEW b \in DOMAIN byHandle',
                      byHandle'[a] = byHandle'[b]
               PROVE  a = b
    BY DEF IsInjective
  <2> QED
    BY <1>2, <1>3, <1>4, <1>5, <1>8
<1>11. Listed' \subseteq (Listed \ removed'[w]) \cup new
  BY <1>8 DEF Listed, Range
<1>12. removed'[w] \subseteq Listed
  BY <1>6 DEF Listed, Range
<1>13. added'[w] = new
  BY DEF Reconcile, TypeOK
<1> QED
  BY <1>3, <1>7, <1>9, <1>10, <1>11, <1>12, <1>13

LEMMA ReconcileInv ==
    ASSUME TypeOK, IInv, NEW w \in Worker, Reconcile(w)
    PROVE  TypeOK' /\ IInv'
<1> DEFINE n == Cardinality(Unknown(w))
           new == apGen + 1 .. apGen + n
<1>0. /\ n \in Nat /\ new \cap (1 .. apGen) = {}
      /\ new \subseteq 1 .. MaxAP /\ apGen + n \in 0 .. MaxAP
      /\ 1 .. apGen \subseteq 1 .. apGen + n /\ new \subseteq 1 .. apGen + n
  BY FreshNumbers DEF Reconcile
<1>1. /\ DOMAIN byHandle' \in SUBSET Handle
      /\ byHandle' \in [DOMAIN byHandle' -> 1 .. MaxAP]
      /\ IsInjective(byHandle')
      /\ Listed' \subseteq (Listed \ removed'[w]) \cup new
      /\ removed'[w] \subseteq Listed
      /\ added'[w] = new
  BY ReconcileList
<1>2. /\ apGen' = apGen + n
      /\ \A v \in Worker \ {w} : added'[v] = added[v] /\ removed'[v] = removed[v]
      /\ pc[w] = "reconcile" /\ pc' = [pc EXCEPT ![w] = "work"]
      /\ exported' = exported
  BY DEF Reconcile, TypeOK, bus, Goto
<1>3. Listed \subseteq 1 .. MaxAP /\ Listed' \subseteq 1 .. MaxAP
  BY <1>1 DEF TypeOK, Listed, Range
<1>4. TypeOK'
  <2>1. removed' \in [Worker -> SUBSET (1 .. MaxAP)]
    <3>1. {byHandle[h] : h \in DOMAIN byHandle \ nets[w]} \in SUBSET (1 .. MaxAP)
      BY DEF TypeOK
    <3> QED
      BY <3>1 DEF Reconcile, TypeOK
  <2>2. paths' \in [Worker -> SUBSET (1 .. MaxAP)]
    BY <1>3 DEF Reconcile, TypeOK
  <2>3. added' \in [Worker -> SUBSET (1 .. MaxAP)]
    BY <1>0 DEF Reconcile, TypeOK
  <2> QED
    BY <1>0, <1>1, <2>1, <2>2, <2>3 DEF Reconcile, TypeOK, world, bus, Goto
<1>5. Given'
  BY <1>0, <1>1, <1>2 DEF Given, IInv
<1>6. Idle'
  BY <1>2 DEF Idle, IInv, TypeOK
<1>7. OneOwner'
  <2> SUFFICES ASSUME NEW u \in Worker, NEW v \in Worker, u # v
               PROVE  /\ added'[u] \cap added'[v] = {}
                      /\ removed'[u] \cap removed'[v] = {}
    BY DEF OneOwner
  <2>1. \A x \in Worker : added[x] \subseteq 1 .. apGen
    BY DEF IInv, Given
  <2>2. \A x \in Worker : removed[x] \cap Listed = {}
    BY DEF IInv, ListedReachable
  <2>3. added[u] \cap added[v] = {} /\ removed[u] \cap removed[v] = {}
    BY DEF IInv, OneOwner
  <2> QED
    BY <1>0, <1>1, <1>2, <2>1, <2>2, <2>3
<1>8. ListedReachable'
  <2> SUFFICES ASSUME NEW a \in Listed'
               PROVE  /\ a \in exported \/ \E v \in Worker : a \in added'[v]
                      /\ \A v \in Worker : a \notin removed'[v]
    BY <1>2 DEF ListedReachable
  <2>1. CASE a \in new
    BY <2>1, <1>0, <1>1, <1>2 DEF IInv, Given
  <2>2. CASE a \in Listed \ removed'[w]
    <3>1. added[w] = {}
      BY <1>2 DEF IInv, Idle
    <3>2. /\ a \in exported \/ \E v \in Worker : a \in added[v]
          /\ \A v \in Worker : a \notin removed[v]
      BY <2>2 DEF IInv, ListedReachable
    <3> QED
      BY <2>2, <3>1, <3>2, <1>2
  <2> QED
    BY <2>1, <2>2, <1>1
<1> QED
  BY <1>1, <1>4, <1>5, <1>6, <1>7, <1>8 DEF IInv, Distinct

LEMMA ExportInv ==
    ASSUME TypeOK, IInv, NEW w \in Worker, Export(w)
    PROVE  TypeOK' /\ IInv'
<1>1. PICK a \in added[w] :
         /\ exported' = exported \cup {a} /\ viewed' = viewed \cup {a}
         /\ added' = [added EXCEPT ![w] = @ \ {a}]
  BY DEF Export
<1>2. UNCHANGED <<air, moves, found, activating, byHandle, apGen, published, pc,
                  nets, removed, paths>>
  BY DEF Export, world, device
<1>3. a \in 1 .. MaxAP /\ \A v \in Worker : added'[v] \subseteq added[v]
  BY <1>1 DEF TypeOK
<1>4. TypeOK'
  BY <1>1, <1>2, <1>3 DEF TypeOK
<1>5. Listed' = Listed
  BY <1>2 DEF Listed, Range
<1>6. Given' /\ Distinct' /\ Idle' /\ OneOwner'
  BY <1>2, <1>3, <1>5
  DEF IInv, Given, Distinct, IsInjective, Idle, OneOwner
<1>7. ListedReachable'
  BY <1>1, <1>2, <1>5 DEF IInv, ListedReachable, TypeOK
<1> QED
  BY <1>4, <1>6, <1>7 DEF IInv

LEMMA UnexportInv ==
    ASSUME TypeOK, IInv, NEW w \in Worker, Unexport(w)
    PROVE  TypeOK' /\ IInv'
<1>1. PICK a \in removed[w] :
         /\ exported' = exported \ {a} /\ viewed' = viewed \ {a}
         /\ removed' = [removed EXCEPT ![w] = @ \ {a}]
  BY DEF Unexport, Withdraw
<1>2. UNCHANGED <<air, moves, found, activating, byHandle, apGen, published, pc,
                  nets, added, paths>>
  BY DEF Unexport, world, device
<1>3. \A v \in Worker : removed'[v] \subseteq removed[v]
  BY <1>1 DEF TypeOK
<1>4. TypeOK'
  BY <1>1, <1>2 DEF TypeOK
<1>5. Listed' = Listed /\ a \notin Listed
  BY <1>2 DEF Listed, Range, IInv, ListedReachable
<1>6. Given' /\ Distinct' /\ Idle' /\ OneOwner'
  BY <1>2, <1>3, <1>5
  DEF IInv, Given, Distinct, IsInjective, Idle, OneOwner
<1>7. ListedReachable'
  BY <1>1, <1>2, <1>3, <1>5 DEF IInv, ListedReachable
<1> QED
  BY <1>4, <1>6, <1>7 DEF IInv

\* The other steps leave the list and the work on it alone.
LEMMA OtherInv ==
    ASSUME TypeOK, IInv,
           \/ Move \/ Activation \/ UNCHANGED vars
           \/ \E w \in Worker : \/ Begin(w) \/ Check(w) \/ Scan(w) \/ Read(w)
                                \/ Publish(w)
    PROVE  TypeOK' /\ IInv'
<1>1. UNCHANGED <<byHandle, apGen, exported, added, removed>>
  BY DEF Move, Activation, Begin, Check, Scan, Read, Publish, vars, device, bus,
         local
<1>2. TypeOK' /\ Idle'
  <2> USE DEF Idle, IInv, TypeOK
  <2>1. CASE Move \/ Activation
    <3>1. UNCHANGED <<device, bus, pc, local>>
      BY <2>1 DEF Move, Activation
    <3>2. /\ moves' \in 0 .. MaxMoves /\ air' \in SUBSET Handle
          /\ found' \in SUBSET Handle /\ activating' \in BOOLEAN
      <4>1. moves' \in 0 .. MaxMoves
        BY <2>1, AccessPointConstants DEF Move, Activation
      <4>2. CASE Move
        BY <4>1, <4>2 DEF Move
      <4>3. CASE Activation
        BY <4>1, <4>3 DEF Activation
      <4> QED
        BY <2>1, <4>2, <4>3
    <3> QED
      BY <3>1, <3>2 DEF device, bus, local
  <2>2. CASE UNCHANGED vars
    BY <2>2 DEF vars
  <2>3. ASSUME NEW w \in Worker, Begin(w) \/ Check(w) \/ Scan(w)
        PROVE  TypeOK' /\ Idle'
    BY <2>3 DEF Begin, Check, Scan, Goto, world, device, bus, local
  <2>4. ASSUME NEW w \in Worker, Read(w) PROVE TypeOK' /\ Idle'
    BY <2>4 DEF Read, Goto, world, device, bus
  <2>5. ASSUME NEW w \in Worker, Publish(w) PROVE TypeOK' /\ Idle'
    BY <2>5 DEF Publish, Publication, Goto, world, device
  <2> QED
    BY <2>1, <2>2, <2>3, <2>4, <2>5
<1>4. Listed' = Listed
  BY <1>1 DEF Listed, Range
<1>5. Given' /\ Distinct' /\ OneOwner' /\ ListedReachable'
  BY <1>1, <1>4
  DEF IInv, Given, Distinct, IsInjective, OneOwner, ListedReachable
<1> QED
  BY <1>2, <1>5 DEF IInv

-----------------------------------------------------------------------------
\* The inductive invariant: which access points are listed, which are some
\* goroutine's to export or to withdraw, and that these do not overlap.
THEOREM Inductive == Spec => [](TypeOK /\ IInv)
<1>1. TypeOK /\ IInv /\ [Next]_vars => TypeOK' /\ IInv'
  BY ReconcileInv, ExportInv, UnexportInv, OtherInv DEF Next, Step
<1> QED
  BY <1>1, InitInv, PTL DEF Spec

\* Every variable keeps a value of its kind.
THEOREM TypeCorrect == Spec => []TypeOK
  BY Inductive, PTL

\* A listed access point is on the bus or about to be, and no goroutine is
\* about to take it off, however many populate the list at once.
THEOREM Reachable == Spec => []ListedReachable
<1>1. IInv => ListedReachable
  BY DEF IInv
<1> QED
  BY <1>1, Inductive, PTL

\* No two goroutines export, or withdraw, the same access point.
THEOREM Ownership == Spec => []OneOwner
<1>1. IInv => OneOwner
  BY DEF IInv
<1> QED
  BY <1>1, Inductive, PTL
=============================================================================
