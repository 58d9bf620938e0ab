--------------------------- MODULE MCPrefixStore ---------------------------
(* PrefixStore for TLC: the prefixes "1" and "11", whose keys would meet   *)
(* if there were no separator, or "2" and "2/1", whose keys do meet.       *)
EXTENDS PrefixStore, TLC

CONSTANTS c1, c2
One == <<"1">>
Eleven == <<"1", "1">>
Two == <<"2">>
TwoOne == <<"2", "/", "1">>
FourPrefixes == {One, Eleven, Two, TwoOne}
NamesOf ==
  One :> {<<"1", "k">>} @@ Eleven :> {<<"k">>} @@
  Two :> {<<"1", "/", "k">>} @@ TwoOne :> {<<"k">>}
ApartOrNested == {c1 :> One @@ c2 :> Eleven, c1 :> Two @@ c2 :> TwoOne}
JoinedKeys == UNION {{join(p, n) : n \in NamesOf[p]} : p \in FourPrefixes}
AnyKeys == {{k} : k \in JoinedKeys}
=============================================================================
