---------------------------- MODULE MCOrcaWatch ----------------------------
EXTENDS OrcaWatch

Budget(kinds) == [calls |-> Cardinality(kinds), kinds |-> kinds, asks |-> {}, exits |-> 0,
                  ends |-> 0, fails |-> 0, limit |-> 1]
Dispatch == Budget({"dispatch"})

\* One dispatch with one disturbance, or with other calls.
MCBudgets ==
    {[Dispatch EXCEPT !.asks = Workers, !.limit = 0], [Dispatch EXCEPT !.exits = 1], [Dispatch EXCEPT !.ends = 1],
     [Dispatch EXCEPT !.fails = 1]}
    \cup {Budget({"dispatch", k}) : k \in {"observe", "start", "release", "stop"}}
    \cup {Budget({"dispatch", "forget", "lookup"})}
=============================================================================
