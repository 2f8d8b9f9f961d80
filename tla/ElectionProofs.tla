--------------------------- MODULE ElectionProofs --------------------------
(***************************************************************************)
(* At most one swarm master, for every set of instances, every lease of at *)
(* least two renewal intervals and every run length.                       *)
(*                                                                         *)
(* Neither the row nor the advisory lock is enough alone: a claim may be   *)
(* committed after it expired (the lock then stands in until the first     *)
(* renewal), and the pool may close the session with the lock (the renewed *)
(* row then stands in).                                                    *)
(***************************************************************************)
EXTENDS Election, FiniteSetTheorems, TLAPS

Phases == {"off", "passive", "locking", "leading", "renewing"}

\* The fields of the row, of the open transaction and of the instances.
TypeOK ==
    e \in [now : Int, holder : Nodes \cup {None}, expires : Int,
           tx : Nodes \cup {None}, claim : Int,
           lock : Nodes \cup {None}, fresh : BOOLEAN,
           node : [Nodes -> Phases], isLeader : [Nodes -> BOOLEAN],
           due : [Nodes -> BOOLEAN]]

\* isLeader is what the goroutines of the instance are at.
Roles ==
    \A n \in Nodes :
        /\ e.isLeader[n] <=> e.node[n] \in {"leading", "renewing"}
        /\ e.due[n] => e.isLeader[n]
        /\ e.node[n] = "renewing" => e.due[n] /\ Valid
        /\ e.tx = n <=> e.node[n] = "locking"

\* The lock of a leader cannot be lost before its next renewal.
Locked(n) == e.lock = n /\ (e.fresh \/ e.due[n])

\* A leader owns the row, and the row is good until the next renewal or the
\* lock is; while a claim of another is open, the lock is.
Leads ==
    \A n \in Nodes : e.isLeader[n] =>
        /\ e.holder = n
        /\ Locked(n) \/ e.expires > e.now + (IF e.due[n] THEN 0 ELSE 1)
        /\ e.tx # None => Locked(n) /\ ~Valid

IInv == TypeOK /\ Roles /\ Leads

\* Two leaders would both own the one row.
LEMMA OneOwner == ASSUME None \notin Nodes, IInv PROVE AtMostOne
<1>. DEFINE L == {n \in Nodes : e.isLeader[n]}
<1>1. CASE L = {}
  BY <1>1, FS_EmptySet DEF AtMostOne
<1>2. CASE L # {}
  <2>1. PICK n \in Nodes : n \in L
    BY <1>2
  <2>2. L = {n}
    BY <2>1 DEF IInv, Leads
  <2>3. Cardinality({n}) = 1
    BY FS_Singleton
  <2>4. Cardinality(L) = 1
    BY <2>2, <2>3
  <2>5. Cardinality(L) <= 1
    BY <2>4
  <2>. QED
    BY <2>5, Zenon DEF AtMostOne
<1>. QED
  BY <1>1, <1>2

LEMMA InitIInv == ASSUME None \notin Nodes, Init PROVE IInv
  BY DEF Init, IInv, TypeOK, Roles, Leads, Phases, None

\* The fields of e after a step, all but the claim.
Becomes(now, holder, expires, tx, lock, fresh, node, isLeader, due) ==
    /\ e'.now = now /\ e'.holder = holder /\ e'.expires = expires /\ e'.tx = tx
    /\ e'.lock = lock /\ e'.fresh = fresh
    /\ e'.node = node /\ e'.isLeader = isLeader /\ e'.due = due

\* One step per action of an instance, of the pool and of the clock.
LEMMA NextIInv ==
  ASSUME None \notin Nodes, Lease \in Nat, Lease >= 2, IInv, [Next]_e
  PROVE  IInv'
<1>. USE DEF IInv, TypeOK, Phases
<1>1. CASE Tick
  <2>1. Becomes(e.now + 1, e.holder, e.expires, e.tx, e.lock, FALSE, e.node, e.isLeader,
               [n \in Nodes |-> e.node[n] \in {"leading", "renewing"}])
    BY <1>1 DEF Becomes, Tick
  <2>2. TypeOK'
    <3>. DEFINE t == e.now + 1
                d == [n \in Nodes |-> e.node[n] \in {"leading", "renewing"}]
    <3>1. e' = [e EXCEPT !.now = t, !.fresh = FALSE, !.due = d]
      BY <1>1 DEF Tick
    <3>2. t \in Int
      OBVIOUS
    <3>3. d \in [Nodes -> BOOLEAN]
      BY SMT
    <3>. HIDE DEF t, d
    <3>. QED
      BY <3>1, <3>2, <3>3
  <2>3. Roles'
    BY <1>1, <2>1 DEF Becomes, Roles, Leads, Locked, Valid, Tick
  <2>4. Leads'
    BY <1>1, <2>1 DEF Becomes, Roles, Leads, Locked, Valid, Tick
  <2>. QED
    BY <2>2, <2>3, <2>4
<1>2. CASE SessionClosed
  <2>1. Becomes(e.now, e.holder, e.expires, e.tx, None, e.fresh, e.node, e.isLeader, e.due)
    BY <1>2 DEF Becomes, SessionClosed
  <2>2. TypeOK'
    BY <1>2 DEF SessionClosed
  <2>3. Roles'
    BY <1>2, <2>1 DEF Becomes, Roles, Leads, Locked, Valid, SessionClosed
  <2>4. Leads'
    BY <1>2, <2>1 DEF Becomes, Roles, Leads, Locked, Valid, SessionClosed
  <2>. QED
    BY <2>2, <2>3, <2>4
<1>3. ASSUME NEW n \in Nodes, Elect(n) PROVE IInv'
  <2>1. CASE e' = [e EXCEPT !.node[n] = "passive"]
    <3>1. Becomes(e.now, e.holder, e.expires, e.tx, e.lock, e.fresh,
                 [e.node EXCEPT ![n] = "passive"], e.isLeader, e.due)
      BY <1>3, <2>1 DEF Becomes, Elect
    <3>2. TypeOK'
      BY <1>3, <2>1 DEF Elect
    <3>3. Roles'
      BY <1>3, <2>1, <3>1 DEF Becomes, Roles, Leads, Locked, Valid, Elect
    <3>4. Leads'
      BY <1>3, <2>1, <3>1 DEF Becomes, Roles, Leads, Locked, Valid, Elect
    <3>. QED
      BY <3>2, <3>3, <3>4
  <2>2. CASE e' # [e EXCEPT !.node[n] = "passive"]
    <3>1. Becomes(e.now, e.holder, e.expires, n, e.lock, e.fresh, [e.node EXCEPT ![n] = "locking"],
                 e.isLeader, e.due)
      BY <1>3, <2>2 DEF Becomes, Elect
    <3>2. TypeOK'
      <4>. DEFINE t == IF Valid THEN e.expires ELSE e.now + Lease
      <4>1. e' = [e EXCEPT !.node[n] = "locking", !.tx = n, !.claim = t]
        BY <1>3, <2>2 DEF Elect
      <4>2. t \in Int
        OBVIOUS
      <4>. HIDE DEF t
      <4>. QED
        BY <4>1, <4>2
    <3>3. Roles'
      BY <1>3, <2>2, <3>1 DEF Becomes, Roles, Leads, Locked, Valid, Elect
    <3>4. Leads'
      BY <1>3, <2>2, <3>1 DEF Becomes, Roles, Leads, Locked, Valid, Elect
    <3>. QED
      BY <3>2, <3>3, <3>4
  <2>. QED
    BY <2>1, <2>2
<1>4. ASSUME NEW n \in Nodes, Lock(n) PROVE IInv'
  <2>1. CASE e' = [e EXCEPT !.node[n] = "passive", !.tx = None]
    <3>1. Becomes(e.now, e.holder, e.expires, None, e.lock, e.fresh,
                 [e.node EXCEPT ![n] = "passive"], e.isLeader, e.due)
      BY <1>4, <2>1 DEF Becomes, Lock
    <3>2. TypeOK'
      BY <1>4, <2>1 DEF Lock
    <3>3. Roles'
      BY <1>4, <2>1, <3>1 DEF Becomes, Roles, Leads, Locked, Valid, Lock
    <3>4. Leads'
      BY <1>4, <2>1, <3>1 DEF Becomes, Roles, Leads, Locked, Valid, Lock
    <3>. QED
      BY <3>2, <3>3, <3>4
  <2>2. CASE e' # [e EXCEPT !.node[n] = "passive", !.tx = None]
    <3>1. Becomes(e.now, n, e.claim, None, n, TRUE, [e.node EXCEPT ![n] = "leading"],
                 [e.isLeader EXCEPT ![n] = TRUE], e.due)
      BY <1>4, <2>2 DEF Becomes, Lock
    <3>2. TypeOK'
      <4>. DEFINE t == e.claim
      <4>1. e' = [e EXCEPT !.node[n] = "leading", !.isLeader[n] = TRUE, !.tx = None,
                           !.holder = n, !.expires = t, !.lock = n, !.fresh = TRUE]
        BY <1>4, <2>2 DEF Lock
      <4>2. t \in Int
        OBVIOUS
      <4>. HIDE DEF t
      <4>. QED
        BY <4>1, <4>2
    <3>3. Roles'
      BY <1>4, <2>2, <3>1 DEF Becomes, Roles, Leads, Locked, Valid, Lock
    <3>4. Leads'
      BY <1>4, <2>2, <3>1 DEF Becomes, Roles, Leads, Locked, Valid, Lock
    <3>. QED
      BY <3>2, <3>3, <3>4
  <2>. QED
    BY <2>1, <2>2
<1>5. ASSUME NEW n \in Nodes, RenewCheck(n) PROVE IInv'
  <2>1. CASE e' = Lost(n)
    <3>1. Becomes(e.now, e.holder, e.expires, e.tx, e.lock, e.fresh,
                 [e.node EXCEPT ![n] = "passive"], [e.isLeader EXCEPT ![n] = FALSE],
                 [e.due EXCEPT ![n] = FALSE])
      BY <1>5, <2>1 DEF Becomes, RenewCheck, Lost
    <3>2. TypeOK'
      BY <1>5, <2>1 DEF RenewCheck, Lost
    <3>3. Roles'
      BY <1>5, <2>1, <3>1 DEF Becomes, Roles, Leads, Locked, Valid, RenewCheck, Lost
    <3>4. Leads'
      BY <1>5, <2>1, <3>1 DEF Becomes, Roles, Leads, Locked, Valid, RenewCheck, Lost
    <3>. QED
      BY <3>2, <3>3, <3>4
  <2>2. CASE e' # Lost(n)
    <3>1. Becomes(e.now, e.holder, e.expires, e.tx, e.lock, e.fresh,
                 [e.node EXCEPT ![n] = "renewing"], e.isLeader, e.due)
      BY <1>5, <2>2 DEF Becomes, RenewCheck, Lost
    <3>2. TypeOK'
      BY <1>5, <2>2 DEF RenewCheck, Lost
    <3>3. Roles'
      BY <1>5, <2>2, <3>1 DEF Becomes, Roles, Leads, Locked, Valid, RenewCheck, Lost
    <3>4. Leads'
      BY <1>5, <2>2, <3>1 DEF Becomes, Roles, Leads, Locked, Valid, RenewCheck, Lost
    <3>. QED
      BY <3>2, <3>3, <3>4
  <2>. QED
    BY <2>1, <2>2
<1>6. ASSUME NEW n \in Nodes, RenewWrite(n) PROVE IInv'
  <2>1. CASE e' = Lost(n)
    <3>1. Becomes(e.now, e.holder, e.expires, e.tx, e.lock, e.fresh,
                 [e.node EXCEPT ![n] = "passive"], [e.isLeader EXCEPT ![n] = FALSE],
                 [e.due EXCEPT ![n] = FALSE])
      BY <1>6, <2>1 DEF Becomes, RenewWrite, Lost
    <3>2. TypeOK'
      BY <1>6, <2>1 DEF RenewWrite, Lost
    <3>3. Roles'
      BY <1>6, <2>1, <3>1 DEF Becomes, Roles, Leads, Locked, Valid, RenewWrite, Lost
    <3>4. Leads'
      BY <1>6, <2>1, <3>1 DEF Becomes, Roles, Leads, Locked, Valid, RenewWrite, Lost
    <3>. QED
      BY <3>2, <3>3, <3>4
  <2>2. CASE e' # Lost(n)
    <3>1. Becomes(e.now, e.holder, IF e.holder = n THEN e.now + Lease ELSE e.expires, e.tx, e.lock,
                 e.fresh, [e.node EXCEPT ![n] = "leading"], e.isLeader,
                 [e.due EXCEPT ![n] = FALSE])
      BY <1>6, <2>2 DEF Becomes, RenewWrite, Lost
    <3>2. TypeOK'
      <4>. DEFINE t == IF e.holder = n THEN e.now + Lease ELSE e.expires
      <4>1. e' = [e EXCEPT !.node[n] = "leading", !.due[n] = FALSE, !.expires = t]
        BY <1>6, <2>2 DEF RenewWrite
      <4>2. t \in Int
        OBVIOUS
      <4>. HIDE DEF t
      <4>. QED
        BY <4>1, <4>2
    <3>3. Roles'
      BY <1>6, <2>2, <3>1 DEF Becomes, Roles, Leads, Locked, Valid, RenewWrite, Lost
    <3>4. Leads'
      BY <1>6, <2>2, <3>1 DEF Becomes, Roles, Leads, Locked, Valid, RenewWrite, Lost
    <3>. QED
      BY <3>2, <3>3, <3>4
  <2>. QED
    BY <2>1, <2>2
<1>7. ASSUME NEW n \in Nodes, Resign(n) PROVE IInv'
  <2>1. Becomes(e.now, IF e.isLeader[n] /\ e.holder = n THEN None ELSE e.holder, e.expires, e.tx,
               e.lock, e.fresh, [e.node EXCEPT ![n] = "off"],
               [e.isLeader EXCEPT ![n] = FALSE], [e.due EXCEPT ![n] = FALSE])
    BY <1>7 DEF Becomes, Resign
  <2>2. TypeOK'
    BY <1>7 DEF Resign
  <2>3. Roles'
    BY <1>7, <2>1 DEF Becomes, Roles, Leads, Locked, Valid, Resign
  <2>4. Leads'
    BY <1>7, <2>1 DEF Becomes, Roles, Leads, Locked, Valid, Resign
  <2>. QED
    BY <2>2, <2>3, <2>4
<1>8. ASSUME NEW n \in Nodes, Crash(n) PROVE IInv'
  <2>1. Becomes(e.now, e.holder, e.expires, IF e.tx = n THEN None ELSE e.tx, e.lock, e.fresh,
               [e.node EXCEPT ![n] = "off"], [e.isLeader EXCEPT ![n] = FALSE],
               [e.due EXCEPT ![n] = FALSE])
    BY <1>8 DEF Becomes, Crash
  <2>2. TypeOK'
    BY <1>8 DEF Crash
  <2>3. Roles'
    BY <1>8, <2>1 DEF Becomes, Roles, Leads, Locked, Valid, Crash
  <2>4. Leads'
    BY <1>8, <2>1 DEF Becomes, Roles, Leads, Locked, Valid, Crash
  <2>. QED
    BY <2>2, <2>3, <2>4
<1>9. CASE UNCHANGED e
  BY <1>9 DEF Roles, Leads, Locked, Valid
<1>. QED
  BY <1>1, <1>2, <1>3, <1>4, <1>5, <1>6, <1>7, <1>8, <1>9 DEF Next

\* No two instances act as the master at once (startWithElection,
\* leaderRenewLoop and Stop of the swarm module), through elections,
\* renewals, resignations, crashes and lost sessions, provided the lease
\* outlasts two renewal intervals.
THEOREM AtMostOneMaster ==
  ASSUME None \notin Nodes, Lease \in Nat, Lease >= 2
  PROVE  Spec => []AtMostOne
<1>1. Init => IInv
  BY InitIInv
<1>2. IInv /\ [Next]_e => IInv'
  BY NextIInv
<1>3. IInv => AtMostOne
  BY OneOwner
<1>. QED
  BY <1>1, <1>2, <1>3, PTL DEF Spec
============================================================================
