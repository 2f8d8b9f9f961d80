------------------------------ MODULE Topology -----------------------------
(***************************************************************************)
(* The topology editor's deployment: convertNodesToTopology and Deploy of  *)
(* src/internal/api/handlers/topology.go, the compiler of                  *)
(* src/internal/topology (compiler.go, generator.go) and its Deployer.     *)
(* A node is a record with an id, a type and a name; the compose file is a *)
(* function from service names to what the service depends on, mounts and  *)
(* is given as environment.  Image names, labels, health checks and limits *)
(* are left out.                                                           *)
(***************************************************************************)
EXTENDS Integers, Sequences, FiniteSets, FiniteSetsExt, SequencesExt

CONSTANTS Nodes,      \* the node lists a request may carry
          Edges,      \* the edge lists
          MaxDeploys

VARIABLE t

Of(type, nodes) == {i \in DOMAIN nodes : nodes[i].type = type}

(* A route edge sets the target of the first domain with its source's id.  *)
convertNodesToTopology(nodes, edges) ==
    [i \in DOMAIN nodes |->
        LET routes == {j \in DOMAIN edges : /\ edges[j].type = "route" /\ edges[j].source = nodes[i].id
                                            /\ nodes[i].type = "domain"
                                            /\ \A k \in Of("domain", nodes) : nodes[k].id = nodes[i].id => k >= i}
        IN  IF routes = {} THEN nodes[i] ELSE [nodes[i] EXCEPT !.target = edges[Max(routes)].target]]

Ids(type, nodes) == {nodes[i].id : i \in Of(type, nodes)}
Distinct(S, nodes) == \A i, j \in S : nodes[i].name = nodes[j].name => i = j

(* Worker names and domains are not compared with the others.              *)
validate(nodes, edges) ==
    /\ Distinct(UNION {Of(type, nodes) : type \in {"app", "database", "volume"}}, nodes)
    /\ \A i, j \in Of("app", nodes) : nodes[i].port = nodes[j].port /\ nodes[i].port > 0 => i = j
    /\ \A i \in Of("domain", nodes) : nodes[i].target # "" => nodes[i].target \in Ids("app", nodes)
    /\ \A e \in Range(edges) : {e.source, e.target} \subseteq {n.id : n \in Range(nodes)}

(* The first database with an id; each generated password is a new one.    *)
Database(id, nodes) == {i \in Of("database", nodes) :
                          nodes[i].id = id /\ \A k \in Of("database", nodes) : nodes[k].id = id => k >= i}
generateDatabaseURL(db, j) ==
    IF db.url # <<>> THEN db.url
    ELSE <<db.name>> \o IF db.pw = "" THEN <<"generated", j>> ELSE <<db.pw>>

(* resolveReferences: the environment variable of a dependency edge.       *)
connections(nodes, edges) ==
    [v \in {edges[j].env : j \in {k \in DOMAIN edges : /\ edges[k].type = "dependency"
                                                       /\ Database(edges[k].target, nodes) # {}}} |->
        LET j == Max({k \in DOMAIN edges : edges[k].env = v /\ edges[k].type = "dependency"
                                           /\ Database(edges[k].target, nodes) # {}})
        IN  generateDatabaseURL(nodes[CHOOSE i \in Database(edges[j].target, nodes) : TRUE], j)]

InCompose(db) == ~db.managed /\ ~db.external

generateDatabaseService(db) ==
    [depends |-> {}, volumes |-> {<<db.name, "data">>}, env |-> {},
     pw |-> IF db.pw = "" THEN <<"generated", 0>> ELSE <<db.pw>>]

DependsOnMutant(node, nodes, edges) ==  \* a database that does not run in compose is kept
    {nodes[i].name : i \in {k \in Of("database", nodes) :
        \E e \in Range(edges) : e.type = "dependency" /\ e.source = node.id /\ nodes[k].id = e.target}}

DependsOn(node, nodes, edges) ==
    {nodes[i].name : i \in {k \in Of("database", nodes) :
        /\ InCompose(nodes[k])
        /\ \E e \in Range(edges) : e.type = "dependency" /\ e.source = node.id /\ nodes[k].id = e.target}}

generateAppService(app, nodes, edges) ==
    LET conn == connections(nodes, edges)
        own == {e.env : e \in {f \in Range(edges) : f.type = "dependency" /\ f.source = app.id}}
    IN  [depends |-> DependsOn(app, nodes, edges), volumes |-> {},
         env |-> {<<v, conn[v]>> : v \in own \cap DOMAIN conn}, pw |-> <<>>]

generateWorkerService(worker, nodes, edges) ==
    [depends |-> DependsOn(worker, nodes, edges), volumes |-> {}, env |-> {}, pw |-> <<>>]

generateProxyService ==
    [depends |-> {}, volumes |-> {<<"caddy", "data">>, <<"caddy", "config">>}, env |-> {}, pw |-> <<>>]

(* Databases, apps, workers, the proxy: a later service replaces an        *)
(* earlier one of its name.                                                *)
generateCompose(nodes, edges) ==
    LET dbs == {i \in Of("database", nodes) : InCompose(nodes[i])}
        named(S, n) == {i \in S : nodes[i].name = n}
        proxy == Of("domain", nodes) # {}
        names == {nodes[i].name : i \in dbs \cup Of("app", nodes) \cup Of("worker", nodes)}
        service(n) ==
            IF proxy /\ n = "proxy" THEN generateProxyService
            ELSE IF named(Of("worker", nodes), n) # {}
            THEN generateWorkerService(nodes[Max(named(Of("worker", nodes), n))], nodes, edges)
            ELSE IF named(Of("app", nodes), n) # {}
            THEN generateAppService(nodes[Max(named(Of("app", nodes), n))], nodes, edges)
            ELSE generateDatabaseService(nodes[Max(named(dbs, n))])
    IN  [services |-> [n \in names \cup (IF proxy THEN {"proxy"} ELSE {}) |-> service(n)],
         volumes |-> {<<nodes[i].name, "data">> : i \in dbs}
                     \cup {<<nodes[i].name>> : i \in {k \in Of("volume", nodes) : ~nodes[k].temporary}}
                     \cup (IF proxy THEN {<<"caddy", "data">>, <<"caddy", "config">>} ELSE {})]

(* One route for each domain with an app behind it.                        *)
GenerateCaddyfile(nodes) ==
    {<<nodes[i].name, nodes[CHOOSE k \in Of("app", nodes) : nodes[k].id = nodes[i].target].name>> :
        i \in {k \in Of("domain", nodes) : nodes[k].target # "" /\ nodes[k].target \in Ids("app", nodes)}}

getDatabaseImage(db) == db.engine \in {"postgres", "mysql", "mariadb", "mongodb", "redis"}

Empty == [services |-> [n \in {} |-> 0], volumes |-> {}]

Init == t = [at |-> "idle", n |-> 0, nodes |-> <<>>, edges |-> <<>>, compose |-> Empty, routes |-> {},
             files |-> Empty, caddy |-> {}, env |-> {}, running |-> {}]

(* Deploy: a request that is not valid, or whose database has no image,    *)
(* ends here; otherwise the files are written, step by step.               *)
Compile(nodes, edges) ==
    LET c == convertNodesToTopology(nodes, edges) IN
    /\ t.at = "idle" /\ nodes # <<>> /\ t.n < MaxDeploys
    /\ t' = IF ~validate(c, edges)
               \/ \E i \in Of("database", c) : InCompose(c[i]) /\ ~getDatabaseImage(c[i]) THEN t
            ELSE [t EXCEPT !.at = "write", !.n = @ + 1, !.nodes = c, !.edges = edges,
                           !.compose = generateCompose(c, edges), !.routes = GenerateCaddyfile(c)]

(* A write that fails leaves the files before it.                          *)
WriteCompose ==
    /\ t.at = "write"
    /\ \/ t' = [t EXCEPT !.at = "idle"]
       \/ t' = [t EXCEPT !.at = "caddy", !.files = t.compose]

WriteCaddyfile ==
    /\ t.at = "caddy"
    /\ \/ t' = [t EXCEPT !.at = "idle"]
       \/ t' = [t EXCEPT !.at = "env", !.caddy = t.routes]

WriteEnv ==
    /\ t.at = "env"
    /\ \/ t' = [t EXCEPT !.at = "idle"]
       \/ t' = [t EXCEPT !.at = "verify", !.env = DOMAIN connections(t.nodes, t.edges)]

(* docker compose config, pull (whose failure is ignored) and up.          *)
Up ==
    /\ t.at = "verify"
    /\ \/ t' = [t EXCEPT !.at = "idle"]
       \/ t' = [t EXCEPT !.at = "idle", !.running = DOMAIN t.files.services]

Next == \/ t.at = "idle" /\ \E n \in Nodes, e \in Edges : Compile(n, e)
        \/ WriteCompose \/ WriteCaddyfile \/ WriteEnv \/ Up

Spec == Init /\ [][Next]_t

(* The compose file is closed: a service depends on services of the file   *)
(* and mounts volumes the file declares, and every route leads to one.     *)
Closed ==
    /\ \A n \in DOMAIN t.files.services :
         /\ t.files.services[n].depends \subseteq DOMAIN t.files.services
         /\ t.files.services[n].volumes \subseteq t.files.volumes
    /\ t.at \in {"env", "verify"} => \A r \in t.caddy : r[2] \in DOMAIN t.files.services
============================================================================
