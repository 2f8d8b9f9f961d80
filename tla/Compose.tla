------------------------------ MODULE Compose ------------------------------
(***************************************************************************)
(* Compose files: src/internal/compose/parser.go.  DependencyOrder visits  *)
(* the services depth first, in the order Go's maps give them; Interpolate *)
(* replaces the references of a file, making one secret per sensitive name.*)
(***************************************************************************)
EXTENDS Integers, Sequences, FiniteSets, FiniteSetsExt, SequencesExt

CONSTANTS Services,            \* names; one that is not in a file may be depended on
          References,          \* [key, default, kind] records
          Vars                 \* the values a caller may give

VARIABLE cf

Init == cf = [at |-> "text", deps |-> <<>>, order |-> <<>>, refs |-> <<>>, out |-> <<>>]

(* parseDependsOn: a list in its order, a map in any.                      *)
parseDependsOn(D) == SetToSeq(D)

RECURSIVE visit(_, _, _)
visit(name, deps, st) ==
    IF name \in st.visited THEN st
    ELSE LET sub == FoldLeft(LAMBDA a, d : visit(d, deps, a),
                             [st EXCEPT !.visited = @ \cup {name}],
                             IF name \in DOMAIN deps THEN deps[name] ELSE <<>>)
         IN  [sub EXCEPT !.order = Append(@, name)]

DependencyOrderMutant(keys, deps) ==  \* a service is appended before its dependencies
    Reverse(FoldLeft(LAMBDA a, n : visit(n, deps, a), [visited |-> {}, order |-> <<>>], keys).order)

DependencyOrder(keys, deps) ==
    FoldLeft(LAMBDA a, n : visit(n, deps, a), [visited |-> {}, order |-> <<>>], keys).order

(* Parse: at least one service.                                            *)
Parse(present, dep, keys) ==
    /\ cf.at = "text" /\ present # {} /\ Range(keys) = present
    /\ cf' = [cf EXCEPT !.at = "parsed", !.deps = [n \in present |-> parseDependsOn(dep[n])],
                        !.order = DependencyOrder(keys, [n \in present |-> parseDependsOn(dep[n])])]

(* A reference: the caller's value; else a secret when the name is         *)
(* sensitive and there is no default or a weak one; else the default, or   *)
(* the reference as it stands.  An empty value counts as given only for a  *)
(* reference without a default.                                            *)
Replace(r, vars, made) ==
    IF r.key \in DOMAIN vars /\ (vars[r.key] # "" \/ r.kind = "plain") THEN <<<<vars[r.key]>>, made>>
    ELSE IF r.sensitive /\ r.kind \in {"plain", "weak"}
    THEN IF r.key \in DOMAIN made THEN <<made[r.key], made>>
         ELSE LET pw == <<"generated", Cardinality(DOMAIN made)>> IN
              <<pw, [k \in DOMAIN made \cup {r.key} |-> IF k = r.key THEN pw ELSE made[k]]>>
    ELSE <<IF r.kind = "plain" THEN <<"as it stands">> ELSE <<"default">>, made>>

InterpolateWithGenerated(refs, vars) ==
    FoldLeft(LAMBDA a, r : LET x == Replace(r, vars, a.made) IN
                           [out |-> Append(a.out, x[1]), made |-> x[2]],
             [out |-> <<>>, made |-> [k \in {} |-> 0]], refs)

Interpolate(refs, vars) ==
    /\ cf.at = "text"
    /\ cf' = [cf EXCEPT !.at = "done", !.refs = refs, !.out = InterpolateWithGenerated(refs, vars).out]

Next ==
    \/ /\ cf.at = "text"
       /\ \E present \in SUBSET Services, dep \in [Services -> SUBSET Services] :
            (\A s \in Services \ present : dep[s] = {})
            /\ \E keys \in SetToSeqs(present) : Parse(present, dep, keys)
    \/ cf.at = "text" /\ \E refs \in SeqOf(References, 3), vars \in Vars : Interpolate(refs, vars)

Spec == Init /\ [][Next]_cf

Reaches(a, b) ==
    LET step(S) == S \cup UNION {IF n \in DOMAIN cf.deps THEN Range(cf.deps[n]) ELSE {} : n \in S}
    IN  b \in step(step(step(IF a \in DOMAIN cf.deps THEN Range(cf.deps[a]) ELSE {})))

(* Every service is started once, and after everything it depends on,      *)
(* unless the two depend on each other; and two references to one          *)
(* generated secret give one value.                                        *)
Ordered ==
    /\ cf.at = "parsed" =>
         /\ DOMAIN cf.deps \subseteq Range(cf.order) /\ IsInjective(cf.order)
         /\ \A i, j \in DOMAIN cf.order :
              (cf.order[i] \in DOMAIN cf.deps /\ cf.order[j] \in Range(cf.deps[cf.order[i]])
                 /\ ~Reaches(cf.order[j], cf.order[i])) => j < i
    /\ cf.at = "done" =>
         \A i, j \in DOMAIN cf.out :
           cf.out[i][1] = "generated" /\ cf.out[j][1] = "generated" =>
             (cf.out[i] = cf.out[j] <=> cf.refs[i].key = cf.refs[j].key)
============================================================================
