---------------------------- MODULE MCTCPStore ----------------------------
(* TCPStore for TLC: clients, and keys, are interchangeable.               *)
EXTENDS TCPStore, TLC

ClientSymmetry == Permutations(Client)
KeySymmetry == Permutations(Key)
StoreSymmetry == ClientSymmetry \cup KeySymmetry
Singletons == {{k} : k \in Key}
AllKeys == {Key}
=============================================================================
