----------------------------- MODULE MCReducer -----------------------------
(* Two ranks, three parameters, loops with and without accumulation.       *)
EXTENDS Reducer

Scenario(l, f, v, z, o, pl) ==
    [layout |-> l, plan |-> pl,
     opt |-> [find |-> f, view |-> v, zero |-> z, odd |-> o]]

\* Dense parameters of two types; one type with a sparse parameter.
Dense == [size |-> <<1, 1, 2>>, key |-> <<"f", "f", "h">>, sparse |-> {}]
Sparse == [size |-> <<1, 1, 1>>, key |-> <<"f", "f", "f">>, sparse |-> {3}]

Twice == <<"sync", "sync">>
Accumulate == <<"nosync", "sync">>

SomeScenarios ==
    {Scenario(Dense, FALSE, FALSE, TRUE, {}, Twice),
     Scenario(Sparse, FALSE, TRUE, FALSE, {}, Twice),
     Scenario(Dense, FALSE, TRUE, TRUE, {}, Accumulate),
     Scenario(Dense, TRUE, FALSE, FALSE, {}, Accumulate),
     Scenario(Sparse, TRUE, TRUE, TRUE, {}, Twice),
     Scenario(Dense, TRUE, TRUE, TRUE, {}, Twice),
     Scenario(Dense, TRUE, TRUE, FALSE, {1}, Accumulate)}

FirstThenCap == <<1, 2>>

SomeUses == {{1, 2, 3}, {1, 3}, {2}}
=============================================================================
