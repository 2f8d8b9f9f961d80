-------------------------------- MODULE Http --------------------------------
(***************************************************************************)
(* What the HTTP handlers of internal/api share: the state they work on,   *)
(* the key-value store of internal/db/kv.go, the checks of helpers.go and  *)
(* the permission middleware.                                              *)
(*                                                                         *)
(* A handler is an operator H(o, s, q): o is the state its reads saw, s    *)
(* the state its writes meet, q the request.  When no other request ran in *)
(* between, o = s.  It returns the status code, the answer and the new     *)
(* state.  A request carries its caller (claims that RequireAuth put in    *)
(* the context: tenant, user, role), the ids of its path, a value and      *)
(* whether the body passes the handler's field checks.                     *)
(***************************************************************************)
EXTENDS SQLiteStore, TLC

Respond(code, s, out) == [code |-> code, s |-> s, out |-> out]
OK(s, out) == Respond(200, s, out)
Err(code, s) == Respond(code, s, "")

\* The answer to a store call: on an error the given code, else the rest.
Try(rep, code, s, F(_)) == IF rep.err # "" THEN Err(code, s) ELSE F(rep)
Given(ans, F(_)) == IF ans.code # 200 THEN ans ELSE F(ans.out)
Commit(rep, code, s, out) == Try(rep, code, s, LAMBDA r : OK([s EXCEPT !.db = r.db], out))

---------------------------------------------------------------------------
\* The KV store: bucket, key, value and expiry (0: none) at the clock s.now.
\* A write creates its bucket; an expired entry is absent until overwritten.
KVLive(s, b, k) ==
  k \in DOMAIN s.kv[b] /\ (s.kv[b][k].exp = 0 \/ s.now < s.kv[b][k].exp)
KVSet(s, b, k, v, ttl) ==
  [s EXCEPT !.kv[b] = (k :> [v |-> v, exp |-> IF ttl > 0 THEN s.now + ttl ELSE 0]) @@ @]
KVGet(s, b, k, default) == IF KVLive(s, b, k) THEN s.kv[b][k].v ELSE default
KVDelete(s, b, k) == [s EXCEPT !.kv[b] = [j \in DOMAIN @ \ {k} |-> @[j]]]
KVList(s, b) == {k \in DOMAIN s.kv[b] : KVLive(s, b, k)}
KVBatchSet(s, items) ==
  FoldLeft(LAMBDA t, i : KVSet(t, i.b, i.k, i.v, i.ttl), s, items)
\* One transaction around read, callback and write: the value the callback
\* changes is the one in s, never an older one.
\* The callbacks of the handlers add an entry to a list or take one out.
Edited(list, op, x) == IF op = "add" THEN Append(list, x) ELSE SelectSeq(list, LAMBDA y : y # x)
KVMutate(s, b, k, op, x) == KVSet(s, b, k, Edited(KVGet(s, b, k, <<>>), op, x), 0)

\* mutateKVValue without a Mutate of the store: Get first, Set later.
mutateKVValueMutant(o, s, b, k, op, x) == KVSet(s, b, k, Edited(KVGet(o, b, k, <<>>), op, x), 0)
mutateKVValue(o, s, b, k, op, x) == KVMutate(s, b, k, op, x)

---------------------------------------------------------------------------
\* A permission is a sequence of words; "app.*" matches any longer one that
\* starts with app, "*" matches all.
HasPermission(perms, p) ==
  \E g \in perms : \/ g = <<"*">> \/ g = p
                   \/ /\ Last(g) = "*" /\ Len(p) >= Len(g)
                      /\ SubSeq(p, 1, Len(g) - 1) = Front(g)
RequirePermission(o, s, q, p, F) ==
  Try(GetRole(o.db, q.c.role), 403, s, LAMBDA r :
      IF HasPermission(r.rows[1].perms, p) THEN F ELSE Err(403, s))
RequireSuperAdmin(s, q, F) == IF q.c.role = "super_admin" THEN F ELSE Err(403, s)

\* The row if it is the caller's, else the same 404 as for no row.
OfTenant(rep, q) ==
  IF rep.err = "" /\ rep.rows[1].tenant # q.c.tenant THEN Fail(rep.db, "not found") ELSE rep
requireTenantApp(o, q) == OfTenant(GetApp(o.db, q.id), q)
requireTenantProject(o, q) == OfTenant(GetProject(o.db, q.id), q)
WithApp(o, s, q, F(_)) == Try(requireTenantApp(o, q), 404, s, LAMBDA r : F(r.rows[1]))
WithProject(o, s, q, F(_)) == Try(requireTenantProject(o, q), 404, s, LAMBDA r : F(r.rows[1]))

\* A body that decodes and passes the field checks, or 400.
Decoded(s, q, F) == IF q.ok THEN F ELSE Err(400, s)

Min2(a, b) == IF a < b THEN a ELSE b
MaxPage == 10000
parsePagination(page, perPage) ==
  LET p == Min2(IF page < 1 THEN 1 ELSE page, MaxPage)
      n == IF perPage < 1 \/ perPage > 100 THEN 20 ELSE perPage
  IN  [page |-> p, perPage |-> n, offset |-> (p - 1) * n]
paginateSliceMutant(items, pg) ==  \* one row too many
  SubSeq(items, Min2(pg.offset, Len(items)) + 1, Min2(pg.offset + pg.perPage + 1, Len(items)))
paginateSlice(items, pg) ==
  SubSeq(items, Min2(pg.offset, Len(items)) + 1, Min2(pg.offset + pg.perPage, Len(items)))
Paged(s, q, rows) == OK(s, paginateSlice(rows, parsePagination(q.page, q.per)))
===========================================================================
