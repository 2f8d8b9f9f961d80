------------------------------- MODULE Tables -------------------------------
(***************************************************************************)
(* The relational engine under core.Store, as internal/db uses it: a table *)
(* is the sequence of its rows in creation order, a statement maps a       *)
(* database to a reply that carries the new database, the error, the rows  *)
(* it returns and the number of rows it touched.                           *)
(*                                                                         *)
(* The keys and references are those of migrations/0001_init.sql.  Both    *)
(* backends are opened with foreign keys requested, so a child without its *)
(* parent is refused and deletes cascade.  Driver type conversions and the *)
(* failures of the engine itself are left out: the question asked of these *)
(* modules is what the two dialects of one statement do.                   *)
(***************************************************************************)
EXTENDS Integers, Sequences, FiniteSets, SequencesExt

CONSTANT ListCap    \* the LIMIT 500/1000/10000 of the unpaged lists

NoID == 0           \* the empty string as an id: "generate one for me"

DefaultName == 0    \* the name of a tenant's first project, "Default"

Reply(d, err, rows, n) == [db |-> d, err |-> err, rows |-> rows, n |-> n]
Fail(d, err) == Reply(d, err, <<>>, 0)
Done(d) == Reply(d, "", <<>>, 0)

\* PRIMARY KEY and UNIQUE constraints of the schema.
Clash(tbl, r, q) ==
  \/ r.id = q.id
  \/ tbl = "tenants" /\ r.slug = q.slug
  \/ tbl = "users" /\ r.email = q.email
  \/ tbl = "members" /\ r.tenant = q.tenant /\ r.user = q.user
  \/ tbl = "domains" /\ r.fqdn = q.fqdn
  \/ tbl = "versions" /\ r.secret = q.secret /\ r.version = q.version
  \/ tbl = "invites" /\ r.hash = q.hash

Unique(tbl, s) == \A i, j \in DOMAIN s : i # j => ~Clash(tbl, s[i], s[j])

\* FOREIGN KEY columns of a table and the tables they reference.
References(tbl) ==
  CASE tbl \in {"projects", "secrets", "invites", "backups", "usage"} -> {<<"tenant", "tenants">>}
    [] tbl = "members" -> {<<"tenant", "tenants">>, <<"user", "users">>}
    [] tbl = "apps" -> {<<"tenant", "tenants">>, <<"project", "projects">>}
    [] tbl \in {"deployments", "domains"} -> {<<"app", "apps">>}
    [] tbl = "versions" -> {<<"secret", "secrets">>}
    [] OTHER -> {}

Linked(d, tbl, r) ==
  \A p \in References(tbl) : \E i \in DOMAIN d[p[2]] : d[p[2]][i].id = r[p[1]]

Sweep(d) == [t \in DOMAIN d |-> SelectSeq(d[t], LAMBDA r : Linked(d, t, r))]

\* INSERT, UPDATE ... WHERE, DELETE ... WHERE (ON DELETE CASCADE is at most
\* three levels deep: tenants, projects, applications, deployments).
Insert(d, tbl, row) ==
  IF Linked(d, tbl, row) /\ Unique(tbl, Append(d[tbl], row))
  THEN Done([d EXCEPT ![tbl] = Append(@, row)])
  ELSE Fail(d, "error")

Update(d, tbl, P(_), F(_)) ==
  LET new == [i \in DOMAIN d[tbl] |-> IF P(d[tbl][i]) THEN F(d[tbl][i]) ELSE d[tbl][i]]
  IN  IF Unique(tbl, new)
      THEN Reply([d EXCEPT ![tbl] = new], "", <<>>, Len(SelectSeq(d[tbl], P)))
      ELSE Fail(d, "error")

Delete(d, tbl, P(_)) ==
  LET kept == SelectSeq(d[tbl], LAMBDA r : ~P(r))
  IN  Reply(Sweep(Sweep(Sweep([d EXCEPT ![tbl] = kept]))), "", <<>>, Len(d[tbl]) - Len(kept))

\* How the store methods turn an engine result into their own: the count is
\* dropped, or no row touched is an error, or the row count is the answer.
Exec(rep) == [rep EXCEPT !.n = 0]
Affected(rep, err) == IF rep.err = "" /\ rep.n = 0 THEN Fail(rep.db, err) ELSE Exec(rep)

\* SELECT: one row or sql.ErrNoRows, a capped list, a page with its total.
One(d, rows, err) == IF rows = <<>> THEN Fail(d, err) ELSE Reply(d, "", <<Head(rows)>>, 0)
Capped(d, rows) == Reply(d, "", SubSeq(rows, 1, IF Len(rows) < ListCap THEN Len(rows) ELSE ListCap), 0)
Page(d, rows, limit, offset) ==
  LET end == IF Len(rows) < offset + limit THEN Len(rows) ELSE offset + limit
  IN  Reply(d, "", SubSeq(rows, offset + 1, end), Len(rows))

Where(d, tbl, P(_)) == SelectSeq(d[tbl], P)
ByName(rows) == SortSeq(rows, LAMBDA r, q : r.name < q.name)
Newest(rows) == SortSeq(rows, LAMBDA r, q : r.version > q.version)
MaxVersion(rows) == IF rows = <<>> THEN 0 ELSE Newest(rows)[1].version

\* BEGIN; first statement; the rest on its database; COMMIT or ROLLBACK.
Tx(d, rep) == IF rep.err = "" THEN rep ELSE Fail(d, rep.err)
Then(rep, Next(_)) == IF rep.err = "" THEN Next(rep.db) ELSE rep

WithID(row, gen) == IF row.id = NoID THEN [row EXCEPT !.id = gen] ELSE row
===========================================================================
