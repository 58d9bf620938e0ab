------------------------- MODULE MCTensorPipeAgent -------------------------
EXTENDS TensorPipeAgent, TLC
CONSTANTS a, b
SomeChains == {<<>>, <<"callback">>, <<"handler", "handler">>, <<"handler", "callback">>}
Unchained == {<<>>}
FromCaller == {<<a, b>>}
=============================================================================
