--------------------------- MODULE MCDistAutograd ---------------------------
EXTENDS DistAutograd, TLC
CONSTANTS a, b, c
C(from, to, parent, grad) == [from |-> from, to |-> to, parent |-> parent, grad |-> grad]
(* a calls b, whose handler calls c or a; a calls b and c; b twice.        *)
SomePlans ==
  {1 :> C(a, b, Top, g) @@ 2 :> C(b, x, 1, h) : g \in BOOLEAN, h \in BOOLEAN, x \in {a, c}}
    \cup {1 :> C(a, b, Top, g) @@ 2 :> C(a, x, Top, TRUE) : g \in BOOLEAN, x \in {b, c}}
(* a calls b twice, and the handler of one call calls c.                   *)
TwiceAndNested ==
  {1 :> C(a, b, Top, FALSE) @@ 2 :> C(a, b, Top, FALSE) @@ 3 :> C(b, c, 2, FALSE)}
=============================================================================
