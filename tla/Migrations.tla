----------------------------- MODULE Migrations ----------------------------
(***************************************************************************)
(* Schema migrations: migrate and Rollback of src/internal/db/sqlite.go    *)
(* and postgres.go.  A migration and its record are one transaction; two   *)
(* processes may migrate one PostgreSQL database at once.  A rollback is   *)
(* one transaction on PostgreSQL and two statements on SQLite.  g.schema   *)
(* are the versions in effect, g.rec those in _migrations, g.half those a  *)
(* SQLite rollback has reverted and not (or never) unrecorded.             *)
(***************************************************************************)
EXTENDS Integers, FiniteSets, TLAPS

CONSTANTS Versions,   \* of the embedded files: 1 .. n
          HasDown,    \* those with a down file
          Again,      \* those whose files run twice without an error (IF [NOT] EXISTS, UPDATE)
          Procs

VARIABLE g

Init == \E b \in {"sqlite", "postgres"} :
    g = [backend |-> b, schema |-> {}, rec |-> {}, half |-> {},
         proc |-> [p \in Procs |-> [at |-> "off", next |-> 0, todo |-> {}]]]

Goto(p, at) == [g EXCEPT !.proc[p] = [at |-> at, next |-> 0, todo |-> {}]]

(* SQLite has one process.                                                 *)
Open(p) ==
    /\ g.proc[p].at = "off"
    /\ g.backend = "sqlite" => \A o \in Procs : g.proc[o].at = "off"
    /\ g' = [g EXCEPT !.proc[p] = [at |-> "check", next |-> 1, todo |-> {}]]

(* A recorded version is skipped.  SQLite takes a query that fails for a   *)
(* version that is not recorded; PostgreSQL gives up (Crash).              *)
Check(p) ==
    LET n == g.proc[p].next IN
    /\ g.proc[p].at = "check"
    /\ \/ n \notin Versions /\ g' = Goto(p, "up")
       \/ n \in Versions \cap g.rec /\ g' = [g EXCEPT !.proc[p].next = n + 1]
       \/ /\ n \in Versions /\ (n \in g.rec => g.backend = "sqlite")
          /\ g' = [g EXCEPT !.proc[p].at = "apply"]


(* The transaction: statements that do not run twice fail when another     *)
(* process was faster.                                                     *)
apply(p) ==
    LET n == g.proc[p].next IN
    /\ g.proc[p].at = "apply"
    /\ \/ g' = Goto(p, "off")
       \/ /\ n \in g.schema => n \in Again
          /\ g' = [g EXCEPT !.schema = @ \cup {n}, !.rec = @ \cup {n}, !.half = @ \ {n},
                            !.proc[p].at = "check", !.proc[p].next = n + 1]

(* The applied migrations are listed once, newest first; steps of them are *)
(* reverted.                                                               *)
Rollback(p, steps) ==
    /\ g.proc[p].at = "up" /\ g.rec # {}
    /\ LET last == {n \in g.rec : Cardinality({m \in g.rec : m > n}) < steps} IN
       g' = [g EXCEPT !.proc[p] = [at |-> "down", next |-> 0,
                                   todo |-> IF steps = 0 THEN g.rec ELSE last]]

Newest(todo, n) == n \in todo /\ \A m \in todo : m <= n

(* The down file runs, unless it is missing or fails on what is reverted   *)
(* already; then the rollback ends and the record stays (PostgreSQL        *)
(* deletes it in the transaction it then aborts).                          *)
Revert(p) == \E n \in Versions :
    /\ g.proc[p].at = "down" /\ Newest(g.proc[p].todo, n)
    /\ \/ g' = Goto(p, "up")
       \/ /\ n \in HasDown /\ (n \notin g.schema => n \in Again)
          /\ g' = IF g.backend = "postgres"
                  THEN [g EXCEPT !.schema = @ \ {n}, !.rec = @ \ {n}, !.proc[p].todo = @ \ {n}]
                  ELSE [g EXCEPT !.schema = @ \ {n}, !.half = @ \cup {n}, !.proc[p].at = "unrecord"]

(* The second statement on SQLite; when it fails, the process dies, or the *)
(* down file itself stopped part way, the record stays.                    *)
Unrecord(p) == \E n \in Versions :
    /\ g.proc[p].at = "unrecord" /\ Newest(g.proc[p].todo, n)
    /\ \/ g' = Goto(p, "up")
       \/ g' = [g EXCEPT !.rec = @ \ {n}, !.half = @ \ {n},
                         !.proc[p] = [at |-> "down", next |-> 0, todo |-> @.todo \ {n}]]

RolledBack(p) ==
    /\ g.proc[p].at = "down" /\ g.proc[p].todo = {}
    /\ g' = Goto(p, "up")

Crash(p) ==
    /\ g.proc[p].at # "off"
    /\ g' = Goto(p, "off")

Next == \E p \in Procs :
    \/ Open(p) \/ Check(p) \/ apply(p) \/ Revert(p) \/ Unrecord(p) \/ RolledBack(p) \/ Crash(p)
    \/ \E steps \in 0 .. 1 : Rollback(p, steps)

Spec == Init /\ [][Next]_g

(* Whatever dies when, the recorded versions are those in effect and, on   *)
(* SQLite, those whose rollback did not finish: no version is in effect    *)
(* without its record.                                                     *)
Recorded == g.rec = g.schema \cup g.half /\ g.schema \cap g.half = {}

----------------------------------------------------------------------------
(***************************************************************************)
(* The proof, for any number of versions and processes: the records say    *)
(* what the schema is, on both backends, up to the SQLite rollbacks that   *)
(* did not finish.                                                         *)
(***************************************************************************)

Places == {"off", "check", "apply", "up", "down", "unrecord"}

Typed == g \in [backend : {"sqlite", "postgres"}, schema : SUBSET Versions, rec : SUBSET Versions,
                half : SUBSET Versions,
                proc : [Procs -> [at : Places, next : Int, todo : SUBSET Versions]]]

(* A SQLite file has one process.                                          *)
Alone == g.backend = "sqlite" =>
    \A p, q \in Procs : p # q /\ g.proc[p].at # "off" => g.proc[q].at = "off"

(* What is being unrecorded is reverted and still recorded.                *)
Pending == \A p \in Procs : g.proc[p].at = "unrecord" =>
    g.backend = "sqlite" /\ \A n \in Versions : Newest(g.proc[p].todo, n) => n \in g.half

(* What a SQLite rollback has listed is recorded.                          *)
Listed == g.backend = "sqlite" =>
    \A p \in Procs : g.proc[p].at \in {"down", "unrecord"} => g.proc[p].todo \subseteq g.rec

(* What is being applied is a version of the embedded files.               *)
Applying == \A p \in Procs : g.proc[p].at = "apply" => g.proc[p].next \in Versions

(* PostgreSQL has no rollback that did not finish.                         *)
Whole == g.backend = "postgres" => g.half = {}

IInv == Typed /\ Alone /\ Pending /\ Listed /\ Applying /\ Whole /\ Recorded

(* What a step of process p does to the fields of g.                       *)
Becomes(p, schema, rec, half, at, next, todo) ==
    /\ g'.backend = g.backend /\ g'.schema = schema /\ g'.rec = rec /\ g'.half = half
    /\ g'.proc = [g.proc EXCEPT ![p] = [at |-> at, next |-> next, todo |-> todo]]
    /\ g' \in [backend : {"sqlite", "postgres"}, schema : SUBSET Versions, rec : SUBSET Versions,
               half : SUBSET Versions,
               proc : [Procs -> [at : Places, next : Int, todo : SUBSET Versions]]]

(* Becomes from the update of the record, a field at a time.               *)
LEMMA Update ==
    ASSUME Typed, NEW p \in Procs, NEW schema \in SUBSET Versions, NEW rec \in SUBSET Versions,
           NEW half \in SUBSET Versions, NEW at \in Places, NEW next \in Int,
           NEW todo \in SUBSET Versions, NEW r, r = [at |-> at, next |-> next, todo |-> todo],
           g' = [g EXCEPT !.schema = schema, !.rec = rec, !.half = half, !.proc[p] = r]
    PROVE  Becomes(p, schema, rec, half, at, next, todo)
<1> DEFINE f == [g.proc EXCEPT ![p] = r]
<1>1. f \in [Procs -> [at : Places, next : Int, todo : SUBSET Versions]]
  BY DEF Typed
<1>2. g' = [g EXCEPT !.schema = schema, !.rec = rec, !.half = half, !.proc = f]
  BY DEF Typed
<1> HIDE DEF f
<1>3. /\ g'.backend = g.backend /\ g'.schema = schema /\ g'.rec = rec /\ g'.half = half
      /\ g'.proc = f
  BY <1>2 DEF Typed
<1>4. g' \in [backend : {"sqlite", "postgres"}, schema : SUBSET Versions, rec : SUBSET Versions,
              half : SUBSET Versions,
              proc : [Procs -> [at : Places, next : Int, todo : SUBSET Versions]]]
  BY <1>1, <1>2 DEF Typed
<1> QED
  BY <1>3, <1>4 DEF Becomes, f

(* A step that changes no set of versions and is not a revert keeps IInv.  *)
LEMMA Moves ==
    ASSUME IInv, NEW p \in Procs, NEW at, NEW next, NEW todo,
           Becomes(p, g.schema, g.rec, g.half, at, next, todo),
           g.proc[p].at = "off" /\ g.backend = "sqlite" => \A o \in Procs : g.proc[o].at = "off",
           at # "unrecord", at = "down" => todo \subseteq g.rec, at = "apply" => next \in Versions
    PROVE  IInv'
<1>1. Typed'
  BY DEF Becomes, Typed
<1>2. g'.proc[p].at = at /\ g'.proc[p].next = next /\ g'.proc[p].todo = todo
      /\ \A q \in Procs : q # p => g'.proc[q] = g.proc[q]
  BY DEF IInv, Typed, Becomes
<1>3. Alone'
  BY <1>2 DEF IInv, Alone, Becomes
<1>4. Pending'
  BY <1>2 DEF IInv, Pending, Becomes
<1>5. Applying' /\ Listed'
  BY <1>2 DEF IInv, Applying, Listed, Becomes
<1>6. Recorded' /\ Whole'
  BY DEF IInv, Recorded, Whole, Becomes
<1> QED
  BY <1>1, <1>3, <1>4, <1>5, <1>6 DEF IInv

(* A step of p that changes the sets of versions: no other process is at   *)
(* work on SQLite, and IInv follows from what it says of p alone.          *)
LEMMA Writes ==
    ASSUME IInv, NEW p \in Procs, NEW schema, NEW rec, NEW half, NEW at, NEW next, NEW todo,
           Becomes(p, schema, rec, half, at, next, todo),
           g.proc[p].at # "off", at # "apply",
           at = "unrecord" => g.backend = "sqlite" /\ \A n \in Versions : Newest(todo, n) => n \in half,
           g.backend = "sqlite" /\ at \in {"down", "unrecord"} => todo \subseteq rec,
           g.backend = "postgres" => half = {},
           rec = schema \cup half, schema \cap half = {}
    PROVE  IInv'
<1>1. Typed'
  BY DEF Becomes, Typed
<1>2. g'.proc[p].at = at /\ g'.proc[p].next = next /\ g'.proc[p].todo = todo
      /\ \A q \in Procs : q # p => g'.proc[q] = g.proc[q]
  BY DEF IInv, Typed, Becomes
<1>3. g.backend = "sqlite" => \A q \in Procs : q # p => g'.proc[q].at = "off"
  BY <1>2 DEF IInv, Alone
<1>4. Alone'
  BY <1>2, <1>3 DEF IInv, Alone, Becomes
<1>5. Pending'
  BY <1>2, <1>3 DEF IInv, Pending, Becomes
<1>6. Applying' /\ Listed'
  BY <1>2, <1>3 DEF IInv, Applying, Listed, Becomes
<1>7. Recorded' /\ Whole'
  BY DEF Recorded, Whole, Becomes
<1> QED
  BY <1>1, <1>4, <1>5, <1>6, <1>7 DEF IInv

LEMMA InitIInv == Init => IInv
BY DEF Init, IInv, Typed, Alone, Pending, Listed, Applying, Whole, Recorded, Places

LEMMA NextIInv ==
    ASSUME HasDown \subseteq Versions, Versions \subseteq Int, IInv, [Next]_g
    PROVE  IInv'
<1>1. CASE UNCHANGED g
  BY <1>1 DEF IInv, Typed, Alone, Pending, Listed, Applying, Whole, Recorded
<1>2. CASE Next
  <2> PICK p \in Procs :
        \/ Open(p) \/ Check(p) \/ apply(p) \/ Revert(p) \/ Unrecord(p) \/ RolledBack(p) \/ Crash(p)
        \/ \E steps \in 0 .. 1 : Rollback(p, steps)
    BY <1>2 DEF Next
  <2> DEFINE r == g.proc[p]
  <2>0. Typed /\ r \in [at : Places, next : Int, todo : SUBSET Versions]
    BY DEF IInv, Typed
  <2>1. ASSUME NEW at \in Places, g' = Goto(p, at), r.at # "off", at \notin {"apply", "unrecord"}
        PROVE  IInv'
    <3>1. Becomes(p, g.schema, g.rec, g.half, at, 0, {})
      <4> DEFINE s == [at |-> at, next |-> 0, todo |-> {}]
      <4>1. s = [at |-> at, next |-> 0, todo |-> {}]
        BY <2>0, <2>1
      <4>2. g' = [g EXCEPT !.schema = g.schema, !.rec = g.rec, !.half = g.half, !.proc[p] = s]
        BY <2>0, <2>1 DEF Typed, Goto
      <4>3. /\ g.schema \in SUBSET Versions /\ g.rec \in SUBSET Versions /\ g.half \in SUBSET Versions
           /\ at \in Places /\ 0 \in Int /\ {} \in SUBSET Versions
        BY <2>0, <2>1 DEF Typed, Places
      <4> HIDE DEF s
      <4> QED
        BY <2>0, <4>1, <4>2, <4>3, Update
    <3> QED
      BY <2>1, <3>1, Moves
  <2>2. CASE Open(p)
    <3>1. Becomes(p, g.schema, g.rec, g.half, "check", 1, {})
      <4> DEFINE s == [at |-> "check", next |-> 1, todo |-> {}]
      <4>1. s = [at |-> "check", next |-> 1, todo |-> {}]
        BY <2>0, <2>2
      <4>2. g' = [g EXCEPT !.schema = g.schema, !.rec = g.rec, !.half = g.half, !.proc[p] = s]
        BY <2>0, <2>2 DEF Typed, Open
      <4>3. /\ g.schema \in SUBSET Versions /\ g.rec \in SUBSET Versions /\ g.half \in SUBSET Versions
           /\ "check" \in Places /\ 1 \in Int /\ {} \in SUBSET Versions
        BY <2>0, <2>2 DEF Typed, Places
      <4> HIDE DEF s
      <4> QED
        BY <2>0, <4>1, <4>2, <4>3, Update
    <3> QED
      BY <2>2, <3>1, Moves DEF Open
  <2>3. CASE Check(p)
    <3>0. r.at = "check"
      BY <2>3 DEF Check
    <3>1. CASE g' = Goto(p, "up")
      BY <2>1, <2>3, <3>1 DEF Check, Places
    <3>2. CASE r.next \in Versions /\ g' = [g EXCEPT !.proc[p].next = r.next + 1]
      <4>1. Becomes(p, g.schema, g.rec, g.half, "check", r.next + 1, r.todo)
        <5> DEFINE s == [r EXCEPT !.next = r.next + 1]
        <5>1. s = [at |-> "check", next |-> r.next + 1, todo |-> r.todo]
          BY <2>0, <3>2, <3>0
        <5>2. g' = [g EXCEPT !.schema = g.schema, !.rec = g.rec, !.half = g.half, !.proc[p] = s]
          BY <2>0, <3>2, <3>0 DEF Typed
        <5>3. /\ g.schema \in SUBSET Versions /\ g.rec \in SUBSET Versions /\ g.half \in SUBSET Versions
             /\ "check" \in Places /\ r.next + 1 \in Int /\ r.todo \in SUBSET Versions
          BY <2>0, <3>2, <3>0 DEF Typed, Places
        <5> HIDE DEF s
        <5> QED
          BY <2>0, <5>1, <5>2, <5>3, Update
      <4> QED
        BY <2>3, <4>1, Moves DEF Check
    <3>3. CASE r.next \in Versions /\ g' = [g EXCEPT !.proc[p].at = "apply"]
      <4>1. Becomes(p, g.schema, g.rec, g.half, "apply", r.next, r.todo)
        <5> DEFINE s == [r EXCEPT !.at = "apply"]
        <5>1. s = [at |-> "apply", next |-> r.next, todo |-> r.todo]
          BY <2>0, <3>3
        <5>2. g' = [g EXCEPT !.schema = g.schema, !.rec = g.rec, !.half = g.half, !.proc[p] = s]
          BY <2>0, <3>3 DEF Typed
        <5>3. /\ g.schema \in SUBSET Versions /\ g.rec \in SUBSET Versions /\ g.half \in SUBSET Versions
             /\ "apply" \in Places /\ r.next \in Int /\ r.todo \in SUBSET Versions
          BY <2>0, <3>3 DEF Typed, Places
        <5> HIDE DEF s
        <5> QED
          BY <2>0, <5>1, <5>2, <5>3, Update
      <4> QED
        BY <2>3, <3>3, <4>1, Moves DEF Check
    <3> QED
      BY <2>3, <3>1, <3>2, <3>3 DEF Check
  <2>4. CASE apply(p)
    <3> DEFINE n == r.next
    <3>1. CASE g' = Goto(p, "off")
      BY <2>1, <2>4, <3>1 DEF apply, Places
    <3>2. CASE g' = [g EXCEPT !.schema = @ \cup {n}, !.rec = @ \cup {n}, !.half = @ \ {n},
                              !.proc[p].at = "check", !.proc[p].next = n + 1]
      <4>0. n \in Versions /\ r.at = "apply"
        BY <2>4 DEF apply, IInv, Applying
      <4>1. Becomes(p, g.schema \cup {n}, g.rec \cup {n}, g.half \ {n}, "check", n + 1, r.todo)
        BY <2>0, <3>2, <4>0 DEF Becomes, Typed, Places
      <4> QED
        BY <4>0, <4>1, Writes DEF IInv, Whole, Recorded
    <3> QED
      BY <2>4, <3>1, <3>2 DEF apply
  <2>5. CASE Revert(p)
    <3>0. PICK n \in Versions :
            /\ r.at = "down" /\ Newest(r.todo, n)
            /\ \/ g' = Goto(p, "up")
               \/ g' = IF g.backend = "postgres"
                       THEN [g EXCEPT !.schema = @ \ {n}, !.rec = @ \ {n}, !.proc[p].todo = @ \ {n}]
                       ELSE [g EXCEPT !.schema = @ \ {n}, !.half = @ \cup {n}, !.proc[p].at = "unrecord"]
      BY <2>5 DEF Revert
    <3>1. CASE g' = Goto(p, "up")
      BY <2>1, <3>0, <3>1 DEF Places
    <3>2. CASE /\ g.backend = "postgres"
               /\ g' = [g EXCEPT !.schema = @ \ {n}, !.rec = @ \ {n}, !.proc[p].todo = @ \ {n}]
      <4>1. Becomes(p, g.schema \ {n}, g.rec \ {n}, g.half, "down", r.next, r.todo \ {n})
        <5> DEFINE left == r.todo \ {n}
                   s == [r EXCEPT !.todo = left]
        <5>0. left \in SUBSET Versions /\ r.at = "down"
              /\ g' = [g EXCEPT !.schema = @ \ {n}, !.rec = @ \ {n}, !.proc[p].todo = left]
          BY <2>0, <3>0, <3>2
        <5>a. Becomes(p, g.schema \ {n}, g.rec \ {n}, g.half, "down", r.next, left)
          <6> HIDE DEF left
          <6>1. s = [at |-> "down", next |-> r.next, todo |-> left]
            BY <2>0, <5>0
          <6>2. g' = [g EXCEPT !.schema = g.schema \ {n}, !.rec = g.rec \ {n}, !.half = g.half, !.proc[p] = s]
            BY <2>0, <5>0 DEF Typed
          <6>3. /\ g.schema \ {n} \in SUBSET Versions /\ g.rec \ {n} \in SUBSET Versions
                /\ g.half \in SUBSET Versions /\ "down" \in Places /\ r.next \in Int
            BY <2>0 DEF Typed, Places
          <6> HIDE DEF s
          <6> QED
            BY <2>0, <5>0, <6>1, <6>2, <6>3, Update
        <5> QED
          BY <5>a
      <4>2. g.half = {} /\ g.rec \ {n} = (g.schema \ {n}) \cup g.half
        BY <3>2 DEF IInv, Whole, Recorded
      <4> QED
        BY <3>0, <3>2, <4>1, <4>2, Writes
    <3>3. CASE /\ g.backend = "sqlite"
               /\ g' = [g EXCEPT !.schema = @ \ {n}, !.half = @ \cup {n}, !.proc[p].at = "unrecord"]
      <4>1. Becomes(p, g.schema \ {n}, g.rec, g.half \cup {n}, "unrecord", r.next, r.todo)
        <5> DEFINE s == [r EXCEPT !.at = "unrecord"]
        <5>1. s = [at |-> "unrecord", next |-> r.next, todo |-> r.todo]
          BY <2>0, <3>0, <3>3
        <5>2. g' = [g EXCEPT !.schema = g.schema \ {n}, !.rec = g.rec, !.half = g.half \cup {n}, !.proc[p] = s]
          BY <2>0, <3>0, <3>3 DEF Typed
        <5>3. /\ g.schema \ {n} \in SUBSET Versions /\ g.rec \in SUBSET Versions /\ g.half \cup {n} \in SUBSET Versions
             /\ "unrecord" \in Places /\ r.next \in Int /\ r.todo \in SUBSET Versions
          BY <2>0, <3>0, <3>3 DEF Typed, Places
        <5> HIDE DEF s
        <5> QED
          BY <2>0, <5>1, <5>2, <5>3, Update
      <4>2. r.todo \subseteq g.rec /\ n \in g.rec
        BY <3>0, <3>3 DEF IInv, Listed, Newest
      <4>3. g.rec = (g.schema \ {n}) \cup (g.half \cup {n})
            /\ (g.schema \ {n}) \cap (g.half \cup {n}) = {}
        BY <4>2 DEF IInv, Recorded
      <4>4. \A m \in Versions : Newest(r.todo, m) => m \in g.half \cup {n}
        BY <3>0 DEF Newest
      <4> QED
        BY <3>0, <3>3, <4>1, <4>2, <4>3, <4>4, Writes
    <3> QED
      BY <2>0, <3>0, <3>1, <3>2, <3>3 DEF Typed
  <2>6. CASE Unrecord(p)
    <3>0. PICK n \in Versions :
            /\ r.at = "unrecord" /\ Newest(r.todo, n)
            /\ \/ g' = Goto(p, "up")
               \/ g' = [g EXCEPT !.rec = @ \ {n}, !.half = @ \ {n},
                                 !.proc[p] = [at |-> "down", next |-> 0, todo |-> r.todo \ {n}]]
      BY <2>6 DEF Unrecord
    <3>1. CASE g' = Goto(p, "up")
      BY <2>1, <3>0, <3>1 DEF Places
    <3>2. CASE g' = [g EXCEPT !.rec = @ \ {n}, !.half = @ \ {n},
                              !.proc[p] = [at |-> "down", next |-> 0, todo |-> r.todo \ {n}]]
      <4>1. Becomes(p, g.schema, g.rec \ {n}, g.half \ {n}, "down", 0, r.todo \ {n})
        <5> DEFINE s == [at |-> "down", next |-> 0, todo |-> r.todo \ {n}]
        <5>1. /\ g.schema \in SUBSET Versions /\ g.rec \ {n} \in SUBSET Versions
              /\ g.half \ {n} \in SUBSET Versions /\ "down" \in Places /\ 0 \in Int
              /\ r.todo \ {n} \in SUBSET Versions /\ s = [at |-> "down", next |-> 0, todo |-> r.todo \ {n}]
          BY <2>0 DEF Typed, Places
        <5>2. g' = [g EXCEPT !.rec = @ \ {n}, !.half = @ \ {n}, !.proc[p] = s]
          BY <3>2
        <5> HIDE DEF s
        <5>3. g' = [g EXCEPT !.schema = g.schema, !.rec = g.rec \ {n}, !.half = g.half \ {n}, !.proc[p] = s]
          BY <2>0, <5>2 DEF Typed
        <5> QED
          BY <2>0, <5>1, <5>3, Update
      <4>2. g.backend = "sqlite" /\ n \in g.half
        BY <3>0 DEF IInv, Pending
      <4>3. g.rec \ {n} = g.schema \cup (g.half \ {n}) /\ g.schema \cap (g.half \ {n}) = {}
        BY <4>2 DEF IInv, Recorded
      <4>4. r.todo \ {n} \subseteq g.rec \ {n}
        BY <3>0, <4>2 DEF IInv, Listed
      <4> QED
        BY <3>0, <4>1, <4>2, <4>3, <4>4, Writes
    <3> QED
      BY <3>0, <3>1, <3>2
  <2>7. CASE RolledBack(p)
    BY <2>1, <2>7 DEF RolledBack, Places
  <2>8. CASE Crash(p)
    BY <2>1, <2>8 DEF Crash, Places
  <2>9. CASE \E steps \in 0 .. 1 : Rollback(p, steps)
    <3>1. PICK todo \in SUBSET g.rec :
            g.proc[p].at = "up" /\ g' = [g EXCEPT !.proc[p] = [at |-> "down", next |-> 0, todo |-> todo]]
      BY <2>9 DEF Rollback
    <3>2. Becomes(p, g.schema, g.rec, g.half, "down", 0, todo)
      <4> DEFINE s == [at |-> "down", next |-> 0, todo |-> todo]
      <4>1. s = [at |-> "down", next |-> 0, todo |-> todo]
        BY <2>0, <3>1
      <4>2. g' = [g EXCEPT !.schema = g.schema, !.rec = g.rec, !.half = g.half, !.proc[p] = s]
        BY <2>0, <3>1 DEF Typed
      <4>3. /\ g.schema \in SUBSET Versions /\ g.rec \in SUBSET Versions /\ g.half \in SUBSET Versions
           /\ "down" \in Places /\ 0 \in Int /\ todo \in SUBSET Versions
        BY <2>0, <3>1 DEF Typed, Places
      <4> HIDE DEF s
      <4> QED
        BY <2>0, <4>1, <4>2, <4>3, Update
    <3> QED
      BY <3>1, <3>2, Moves
  <2> QED
    BY <2>2, <2>3, <2>4, <2>5, <2>6, <2>7, <2>8, <2>9
<1> QED
  BY <1>1, <1>2

(* migrate and Rollback, with two or more processes that fail or die at    *)
(* any statement: _migrations holds the versions in effect and, on SQLite, *)
(* those whose rollback stopped between its two statements.                *)
THEOREM RecordsExact ==
    ASSUME HasDown \subseteq Versions, Versions \subseteq Int
    PROVE  Spec => []Recorded
<1>1. Init => IInv
  BY InitIInv
<1>2. IInv /\ [Next]_g => IInv'
  BY NextIInv
<1>3. IInv => Recorded
  BY DEF IInv
<1> QED
  BY <1>1, <1>2, <1>3, PTL DEF Spec
============================================================================
