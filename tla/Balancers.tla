----------------------------- MODULE Balancers -----------------------------
(***************************************************************************)
(* The balancing strategies of src/internal/ingress/lb: round robin, least *)
(* connections and smooth weighted round robin.  lb.picks counts the       *)
(* weighted picks since the weights were last set.                         *)
(***************************************************************************)
EXTENDS Integers, Sequences, FiniteSets, FiniteSetsExt, Functions, SequencesExt

CONSTANTS Backends,   \* a sequence
          Weights, MaxPicks

VARIABLE lb

All == Range(Backends)
Zero == [b \in All |-> 0]

Init == lb = [counter |-> 0, conns |-> Zero, weights |-> [b \in All |-> 1], current |-> Zero,
              picks |-> Zero, n |-> 0, turns |-> Zero]

RoundRobin ==
    LET b == Backends[(lb.counter % Len(Backends)) + 1] IN
    /\ lb.counter < MaxPicks
    /\ lb' = [lb EXCEPT !.counter = @ + 1, !.turns[b] = @ + 1]

(* The first with the fewest.                                              *)
LeastConn ==
    LET i == Min({j \in DOMAIN Backends : \A o \in All : lb.conns[Backends[j]] <= lb.conns[o]}) IN
    /\ lb.conns[Backends[i]] < 1
    /\ lb' = [lb EXCEPT !.conns[Backends[i]] = @ + 1]

Release(b) ==
    /\ lb.conns[b] > 0
    /\ lb' = [lb EXCEPT !.conns[b] = @ - 1]

SetWeights(w) == lb' = [lb EXCEPT !.weights = w, !.current = Zero, !.picks = Zero, !.n = 0]

Sum(f) == FoldFunction(+, 0, f)

WeightedNextMutant ==  \* what is taken off is the winner's own weight
    LET on == {j \in DOMAIN Backends : lb.weights[Backends[j]] > 0}
        cur == [b \in All |-> lb.current[b] + lb.weights[b]]
        i == Min({j \in on : \A o \in on : cur[Backends[j]] >= cur[Backends[o]]})
    IN  /\ Sum(lb.weights) > 0 /\ lb.n < 2 * Sum(lb.weights)
        /\ lb' = [lb EXCEPT !.current = [cur EXCEPT ![Backends[i]] = @ - lb.weights[Backends[i]]],
                            !.picks[Backends[i]] = @ + 1, !.n = @ + 1]

(* Every current weight grows by its weight; the first largest wins and    *)
(* gives up the total.                                                     *)
WeightedNext ==
    LET on == {j \in DOMAIN Backends : lb.weights[Backends[j]] > 0}
        cur == [b \in All |-> lb.current[b] + lb.weights[b]]
        i == Min({j \in on : \A o \in on : cur[Backends[j]] >= cur[Backends[o]]})
    IN  /\ Sum(lb.weights) > 0 /\ lb.n < 2 * Sum(lb.weights)
        /\ lb' = [lb EXCEPT !.current = [cur EXCEPT ![Backends[i]] = @ - Sum(lb.weights)],
                            !.picks[Backends[i]] = @ + 1, !.n = @ + 1]

Next == \/ RoundRobin \/ LeastConn \/ WeightedNext
        \/ \E b \in All : Release(b)
        \/ \E w \in Weights : SetWeights(w)

Spec == Init /\ [][Next]_lb

(* Over a full cycle each backend is picked exactly as often as its weight *)
(* says, and never a whole turn ahead of its share in between; round robin *)
(* gives no backend two turns more than another.                           *)
Proportional ==
    /\ \A b \in All : LET S == Sum(lb.weights) IN
         /\ lb.n \in {S, 2 * S} => lb.picks[b] * S = lb.weights[b] * lb.n
         /\ S > 0 => lb.picks[b] * S < lb.weights[b] * lb.n + S
    /\ \A a, b \in All : lb.turns[a] - lb.turns[b] <= 1
============================================================================
