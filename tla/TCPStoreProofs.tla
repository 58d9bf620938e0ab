--------------------------- MODULE TCPStoreProofs ---------------------------
(***************************************************************************)
(* The tables of the daemon of TCPStore, proved right for every set of     *)
(* clients and keys: a closed socket is in none of them                    *)
(* (ClosedIsForgotten), and the count of a client that waits is one its    *)
(* entries can bring to zero (CountCovered).                               *)
(***************************************************************************)
EXTENDS TCPStore, FunctionTheorems, FiniteSetTheorems, TLAPS

(* Erasing c from a list: Rank numbers what is kept, in order.             *)
LEMMA RankBijection ==
  ASSUME NEW s \in Seq(Client), NEW c
  PROVE  /\ IsFiniteSet(Kept(s, c)) /\ Cardinality(Kept(s, c)) \in Nat
         /\ \A i \in Kept(s, c) : Rank(s, c, i) \in 1 .. Cardinality(Kept(s, c))
         /\ \A i, h \in Kept(s, c) : Rank(s, c, i) = Rank(s, c, h) => i = h
         /\ \A j \in 1 .. Cardinality(Kept(s, c)) :
              \E i \in Kept(s, c) : Rank(s, c, i) = j
<1> DEFINE K == Kept(s, c)
           n == Cardinality(K)
           upto(i) == {h \in K : h <= i}
           rank == [i \in K |-> Rank(s, c, i)]
<1>1. K \subseteq 1 .. Len(s) /\ IsFiniteSet(K)
  BY FS_Interval, FS_Subset DEF Kept
<1>2. n \in Nat
  BY <1>1, FS_CardinalityType, Zenon
<1>3. ASSUME NEW i \in K
      PROVE  /\ IsFiniteSet(upto(i)) /\ Cardinality(upto(i)) \in 1 .. n
             /\ Rank(s, c, i) = Cardinality(upto(i))
  <2>1. upto(i) \in SUBSET K /\ i \in upto(i)
    BY <1>1
  <2>2. IsFiniteSet(upto(i)) /\ Cardinality(upto(i)) <= n
    BY <1>1, <2>1, FS_Subset, Zenon
  <2>3. Cardinality(upto(i)) \in Nat /\ Cardinality(upto(i)) # 0
    BY <2>1, <2>2, FS_CardinalityType, FS_EmptySet, Zenon
  <2> QED
    BY <1>2, <2>2, <2>3 DEF Rank
<1>4. ASSUME NEW i \in K, NEW h \in K, i < h
      PROVE  Rank(s, c, i) # Rank(s, c, h)
  <2>1. upto(i) \in SUBSET upto(h) /\ h \in upto(h) /\ h \notin upto(i)
    BY <1>1, <1>4
  <2>2. Cardinality(upto(i)) # Cardinality(upto(h))
    BY <1>3, <2>1, FS_Subset, Zenon
  <2> QED
    BY <1>3, <2>2, Zenon
<1>5. \A i, h \in K : Rank(s, c, i) = Rank(s, c, h) => i = h
  BY <1>1, <1>4
<1>6. rank \in Injection(K, 1 .. n)
  BY <1>3, <1>5, Zenon DEF Injection, IsInjective
<1>7. IsFiniteSet(1 .. n) /\ Cardinality(1 .. n) = n
  BY <1>2, FS_Interval
<1>8. rank \in Surjection(K, 1 .. n)
  BY <1>6, <1>7, FS_Injection, Zenon
<1>9. \A j \in 1 .. n : \E i \in K : Rank(s, c, i) = j
  BY <1>8, Zenon DEF Surjection
<1> QED
  BY <1>1, <1>2, <1>3, <1>5, <1>9, ZenonT(40)

(* Without(s, c) lists what Kept(s, c) keeps, each entry once.             *)
LEMMA WithoutFacts ==
  ASSUME NEW s \in Seq(Client), NEW c
  PROVE  /\ Without(s, c) \in Seq(Client)
         /\ DOMAIN Without(s, c) = 1 .. Cardinality(Kept(s, c))
         /\ \A i \in Kept(s, c) : Without(s, c)[Rank(s, c, i)] = s[i]
         /\ \A j \in DOMAIN Without(s, c) :
              \E i \in Kept(s, c) : Rank(s, c, i) = j /\ Without(s, c)[j] = s[i]
<1> DEFINE K == Kept(s, c)
           n == Cardinality(K)
           nth(j) == CHOOSE i \in K : Rank(s, c, i) = j
<1>1. /\ n \in Nat
      /\ \A i \in K : Rank(s, c, i) \in 1 .. n
      /\ \A i, h \in K : Rank(s, c, i) = Rank(s, c, h) => i = h
      /\ \A j \in 1 .. n : \E i \in K : Rank(s, c, i) = j
  BY RankBijection, Zenon
<1>2. \A j \in 1 .. n : nth(j) \in K /\ Rank(s, c, nth(j)) = j
  BY <1>1, Zenon
<1>3. \A i \in K : nth(Rank(s, c, i)) = i
  BY <1>1, <1>2, Zenon
<1>4. \A i \in K : s[i] \in Client
  BY DEF Kept
<1>5. Without(s, c) = [j \in 1 .. n |-> s[nth(j)]]
  BY Zenon DEF Without
<1> HIDE DEF nth
<1>6. Without(s, c) \in Seq(Client) /\ DOMAIN Without(s, c) = 1 .. n
  BY <1>1, <1>2, <1>4, <1>5
<1>7. \A i \in K : Without(s, c)[Rank(s, c, i)] = s[i]
  BY <1>1, <1>3, <1>5
<1>8. \A j \in 1 .. n : Without(s, c)[j] = s[nth(j)]
  BY <1>5, Zenon
<1> QED
  BY <1>2, <1>6, <1>7, <1>8, Zenon

----------------------------------------------------------------------------
(* The entries of c in the lists sockets: Entries(c) is Places of          *)
(* waitingSockets_.                                                        *)
Places(sockets, c) ==
  UNION {{<<k, i>> : i \in {j \in DOMAIN sockets[k] : sockets[k][j] = c}} :
         k \in Key}

(* What it is to be a place of c.                                          *)
LEMMA PlacesFact ==
  ASSUME NEW sockets, NEW c, NEW e
  PROVE  e \in Places(sockets, c) <=>
           \E k \in Key : \E i \in DOMAIN sockets[k] :
             e = <<k, i>> /\ sockets[k][i] = c
BY DEF Places

(* Where c stands on a list.                                               *)
On(s, c) == {i \in 1 .. Len(s) : s[i] = c}

(* wakeupWaitingClients: the entries of c that go are the ones on the list *)
(* of k.                                                                   *)
LEMMA WokenPlaces ==
  ASSUME NEW sockets \in [Key -> Seq(Client)], NEW k \in Key, NEW c,
         IsFiniteSet(Places(sockets, c))
  PROVE  LET left == Places([sockets EXCEPT ![k] = <<>>], c)
         IN  /\ IsFiniteSet(left) /\ IsFiniteSet(On(sockets[k], c))
             /\ Cardinality(Places(sockets, c))
                  = Cardinality(left) + Cardinality(On(sockets[k], c))
<1> DEFINE I == {i \in 1 .. Len(sockets[k]) : sockets[k][i] = c}
           after == [sockets EXCEPT ![k] = <<>>]
           left == Places(after, c)
           out == {<<k, i>> : i \in I}
           all == Places(sockets, c)
           f == [i \in I |-> <<k, i>>]
<1>1. IsFiniteSet(I)
  <2>1. Len(sockets[k]) \in Nat /\ I \in SUBSET (1 .. Len(sockets[k]))
    OBVIOUS
  <2>2. IsFiniteSet(1 .. Len(sockets[k]))
    BY <2>1, FS_Interval
  <2> QED
    BY <2>1, <2>2, FS_Subset, Zenon
<1>2. f \in Bijection(I, out)
  BY Zenon DEF Bijection, Injection, Surjection, IsInjective
<1>3. IsFiniteSet(out) /\ Cardinality(out) = Cardinality(I)
  BY <1>1, <1>2, FS_Bijection DEF ExistsBijection
<1>4. \A j \in Key : after[j] = IF j = k THEN <<>> ELSE sockets[j]
  BY Zenon
<1>5. DOMAIN sockets[k] = 1 .. Len(sockets[k])
  OBVIOUS
<1>6. ASSUME NEW e
      PROVE  e \in all <=> e \in left \/ e \in out
  <2> HIDE DEF after
  <2>1. e \in left <=> \E j \in Key : \E i \in DOMAIN after[j] :
                         e = <<j, i>> /\ after[j][i] = c
    BY PlacesFact
  <2>2. e \in all <=> \E j \in Key : \E i \in DOMAIN sockets[j] :
                         e = <<j, i>> /\ sockets[j][i] = c
    BY PlacesFact
  <2>3. e \in out <=> \E i \in DOMAIN sockets[k] : e = <<k, i>> /\ sockets[k][i] = c
    BY <1>5, Zenon
  <2>4. DOMAIN <<>> = {}
    OBVIOUS
  <2> QED
    BY <1>4, <2>1, <2>2, <2>3, <2>4, Zenon
<1>7. ASSUME NEW e \in left PROVE e \notin out
  <2> HIDE DEF after
  <2>1. PICK j \in Key : \E i \in DOMAIN after[j] : e = <<j, i>>
    BY PlacesFact
  <2>2. j # k
    BY <1>4, <2>1
  <2> QED
    BY <2>1, <2>2
<1>8. all = left \cup out /\ left \cap out = {}
  BY <1>6, <1>7, Zenon
<1>9. IsFiniteSet(left)
  BY <1>8, FS_Subset, Zenon
<1>10. Cardinality(all) = Cardinality(left) + Cardinality(out)
  <2>1. Cardinality(left \cap out) = 0
    BY <1>8, FS_EmptySet, Zenon
  <2>2. Cardinality(left) \in Nat /\ Cardinality(out) \in Nat
    BY <1>3, <1>9, FS_CardinalityType, Zenon
  <2>3. Cardinality(left \cup out)
          = Cardinality(left) + Cardinality(out) - Cardinality(left \cap out)
    BY <1>3, <1>9, FS_Union, Zenon
  <2> HIDE DEF left, out, all
  <2> QED
    BY <1>8, <2>1, <2>2, <2>3
<1> QED
  BY <1>1, <1>3, <1>9, <1>10, Zenon DEF On

(* Erasing c leaves the others as many entries as they had.                *)
LEMMA ErasedPlaces ==
  ASSUME NEW sockets \in [Key -> Seq(Client)], NEW c, NEW d, d # c,
         IsFiniteSet(Places(sockets, d))
  PROVE  LET after == [k \in Key |-> Without(sockets[k], c)]
         IN  /\ IsFiniteSet(Places(after, d))
             /\ Cardinality(Places(after, d)) = Cardinality(Places(sockets, d))
<1> DEFINE after == [k \in Key |-> Without(sockets[k], c)]
           rank(k, i) == Rank(sockets[k], c, i)
           f == [e \in Places(sockets, d) |-> <<e[1], rank(e[1], e[2])>>]
<1>1. ASSUME NEW k \in Key, NEW i \in DOMAIN sockets[k], sockets[k][i] = d
      PROVE  i \in Kept(sockets[k], c)
  BY <1>1, Zenon DEF Kept
<1>2. ASSUME NEW e \in Places(sockets, d)
      PROVE  f[e] \in Places(after, d)
  <2>1. PICK k, i : /\ k \in Key /\ i \in DOMAIN sockets[k]
                    /\ e = <<k, i>> /\ sockets[k][i] = d
    BY PlacesFact
  <2>2. i \in Kept(sockets[k], c)
    BY <1>1, <2>1, Zenon
  <2>3. rank(k, i) \in DOMAIN after[k] /\ after[k][rank(k, i)] = d
    BY <2>1, <2>2, RankBijection, WithoutFacts
  <2>4. f[e] = <<k, rank(k, i)>>
    BY <2>1, Zenon
  <2>5. <<k, rank(k, i)>> \in Places(after, d)
    <3> HIDE DEF after, rank
    <3> QED
      BY <2>1, <2>3, PlacesFact, Zenon
  <2> QED
    BY <2>4, <2>5, Zenon
<1>3. ASSUME NEW e \in Places(sockets, d), NEW g \in Places(sockets, d),
             f[e] = f[g]
      PROVE  e = g
  <2>1. PICK k, i : /\ k \in Key /\ i \in DOMAIN sockets[k]
                    /\ e = <<k, i>> /\ sockets[k][i] = d
    BY PlacesFact
  <2>2. PICK l, j : /\ l \in Key /\ j \in DOMAIN sockets[l]
                    /\ g = <<l, j>> /\ sockets[l][j] = d
    BY PlacesFact
  <2>3. k = l /\ rank(k, i) = rank(k, j)
    BY <1>3, <2>1, <2>2, Zenon
  <2>4. i \in Kept(sockets[k], c) /\ j \in Kept(sockets[k], c)
    BY <1>1, <2>1, <2>2, <2>3, Zenon
  <2>5. sockets[k] \in Seq(Client)
    BY <2>1, Zenon
  <2>6. i = j
    BY <2>3, <2>4, <2>5, RankBijection, Zenon
  <2> QED
    BY <2>1, <2>2, <2>3, <2>6, Zenon
<1>4. ASSUME NEW g \in Places(after, d)
      PROVE  \E e \in Places(sockets, d) : f[e] = g
  <2>1. PICK k, j : /\ k \in Key /\ j \in DOMAIN after[k]
                    /\ g = <<k, j>> /\ after[k][j] = d
    <3> HIDE DEF after
    <3> QED
      BY PlacesFact
  <2>2. PICK i \in Kept(sockets[k], c) : rank(k, i) = j /\ sockets[k][i] = d
    BY <2>1, WithoutFacts
  <2>3. i \in DOMAIN sockets[k]
    BY <2>2, Zenon DEF Kept
  <2>4. <<k, i>> \in Places(sockets, d)
    BY <2>1, <2>2, <2>3, PlacesFact, Zenon
  <2>5. f[<<k, i>>] = <<k, rank(k, i)>>
    BY <2>4, Zenon
  <2> QED
    BY <2>1, <2>2, <2>4, <2>5, Zenon
<1>5. f \in Bijection(Places(sockets, d), Places(after, d))
  <2>1. f \in [Places(sockets, d) -> Places(after, d)]
    BY <1>2, Zenon
  <2> HIDE DEF f, after
  <2> QED
    BY <1>3, <1>4, <2>1, Zenon DEF Bijection, Injection, Surjection, IsInjective
<1> HIDE DEF f
<1> QED
  BY <1>5, FS_Bijection, Zenon DEF ExistsBijection

(* waitHandler: c gets an entry on the list of every key of K.             *)
LEMMA AddedPlaces ==
  ASSUME NEW sockets \in [Key -> Seq(Client)], NEW c \in Client, NEW K \in SUBSET Key,
         IsFiniteSet(K), NEW d, IsFiniteSet(Places(sockets, d))
  PROVE  LET after == [k \in Key |-> IF k \in K THEN Append(sockets[k], c)
                                                ELSE sockets[k]]
         IN  /\ IsFiniteSet(Places(after, d))
             /\ d = c => Cardinality(K) <= Cardinality(Places(after, d))
             /\ d # c => Places(after, d) = Places(sockets, d)
<1> DEFINE after == [k \in Key |-> IF k \in K THEN Append(sockets[k], c)
                                              ELSE sockets[k]]
           at(k) == Len(sockets[k]) + 1
           new == {<<k, at(k)>> : k \in K}
           f == [k \in K |-> <<k, at(k)>>]
<1>1. ASSUME NEW k \in K
      PROVE  /\ DOMAIN after[k] = DOMAIN sockets[k] \cup {at(k)}
             /\ at(k) \notin DOMAIN sockets[k] /\ after[k][at(k)] = c
             /\ \A i \in DOMAIN sockets[k] : after[k][i] = sockets[k][i]
  OBVIOUS
<1>2. \A k \in Key \ K : after[k] = sockets[k]
  BY Zenon
<1>3. f \in Bijection(K, new)
  BY Zenon DEF Bijection, Injection, Surjection, IsInjective
<1>4. IsFiniteSet(new) /\ Cardinality(new) = Cardinality(K)
  BY <1>3, FS_Bijection, Zenon DEF ExistsBijection
<1> HIDE DEF after, f, at
<1>5. ASSUME NEW e
      PROVE  e \in Places(after, d) <=>
               e \in Places(sockets, d) \/ (d = c /\ e \in new)
  <2>1. e \in Places(after, d) <=> \E k \in Key : \E i \in DOMAIN after[k] :
                                     e = <<k, i>> /\ after[k][i] = d
    BY PlacesFact
  <2>2. e \in Places(sockets, d) <=> \E k \in Key : \E i \in DOMAIN sockets[k] :
                                     e = <<k, i>> /\ sockets[k][i] = d
    BY PlacesFact
  <2> QED
    BY <1>1, <1>2, <2>1, <2>2
<1>6. CASE d = c
  <2>1. Places(after, d) = Places(sockets, d) \cup new
    BY <1>5, <1>6, Zenon
  <2>2. IsFiniteSet(Places(after, d))
    BY <1>4, <2>1, FS_Union, Zenon
  <2>3. new \in SUBSET Places(after, d)
    BY <2>1, Zenon
  <2>4. Cardinality(new) <= Cardinality(Places(after, d))
    BY <2>2, <2>3, FS_Subset, Zenon
  <2> QED
    BY <1>4, <1>6, <2>2, <2>4, Zenon DEF after
<1>7. CASE d # c
  <2>1. Places(after, d) = Places(sockets, d)
    BY <1>5, <1>7, Zenon
  <2> QED
    BY <1>7, <2>1, Zenon DEF after
<1> QED
  BY <1>6, <1>7, Zenon

----------------------------------------------------------------------------
(* What is on the wire: a SET or an ADD names one key, every query         *)
(* finitely many.                                                          *)
Values == SetValue \cup {1, None}
KeySet == {K \in SUBSET Key : IsFiniteSet(K) /\ Cardinality(K) < SizeT}
CallState == Operation \cup {"IDLE", "GET_WAIT", "GARBLED", "RESET"}
Calling == [op : CallState, keys : KeySet, val : Values]
Asked == {q \in Calling : q.op \in {"SET", "ADD"} => \E k \in Key : q.keys = {k}}
WireInv ==
  requests \in [Client -> Seq(Asked)] /\ call \in [Client -> Calling]

(* The sets of keys and the values a query carries.                        *)
LEMMA KeyFacts ==
  /\ \A k \in Key : {k} \in KeySet
  /\ {} \in KeySet
  /\ WaitKeys \subseteq KeySet
  /\ None \in Values /\ 1 \in Values /\ SetValue \subseteq Values
<1>1. \A k \in Key : IsFiniteSet({k}) /\ Cardinality({k}) = 1
  BY FS_Singleton, Zenon
<1>2. IsFiniteSet({}) /\ Cardinality({}) = 0
  BY FS_EmptySet, Zenon
<1>3. 0 < SizeT /\ 1 < SizeT
  BY SizeAssumption
<1> QED
  BY <1>1, <1>2, <1>3, WaitKeysAssumption, SizeAssumption, Zenon DEF Values, KeySet

(* The queries of the clients are well formed.                             *)
LEMMA QueryFacts ==
  /\ \A k \in Key, v \in Values : /\ Query("SET", {k}, v) \in Asked
                                  /\ Query("ADD", {k}, v) \in Asked
  /\ \A K \in KeySet : /\ Query("WAIT", K, None) \in Asked
                       /\ Query("GET_WAIT", K, None) \in Calling
                       /\ Query("GET", K, None) \in Asked
                       /\ Query("CHECK", K, None) \in Asked
                       /\ Query("DELETE_KEY", K, None) \in Asked
  /\ Query("GETNUMKEYS", {}, None) \in Asked
  /\ Idle \in Calling
<1> USE KeyFacts DEF Query, Asked, Calling, CallState, Operation
<1>1. \A k \in Key, v \in Values : /\ Query("SET", {k}, v) \in Asked
                                   /\ Query("ADD", {k}, v) \in Asked
  BY Zenon
<1>2. \A K \in KeySet : /\ Query("WAIT", K, None) \in Asked
                        /\ Query("GET_WAIT", K, None) \in Calling
                        /\ Query("GET", K, None) \in Asked
  BY Zenon
<1>3. \A K \in KeySet : /\ Query("CHECK", K, None) \in Asked
                        /\ Query("DELETE_KEY", K, None) \in Asked
  BY Zenon
<1>4. Query("GETNUMKEYS", {}, None) \in Asked
  BY Zenon
<1>5. Idle \in Calling
  BY Zenon DEF Idle
<1> QED
  BY <1>1, <1>2, <1>3, <1>4, <1>5, Zenon

(* Send appends a query to a connection.                                   *)
LEMMA WireSend ==
  ASSUME WireInv, NEW c \in Client, NEW q \in Asked, Send(c, q)
  PROVE  requests' \in [Client -> Seq(Asked)]
BY DEF WireInv, Send

(* The calls of a client keep the connections well formed,                 *)
LEMMA WireCall ==
  ASSUME WireInv, NEW c \in Client, ClientCall(c)
  PROVE  WireInv'
<1> USE DEF clientVars
<1>1. ASSUME NEW k \in Key, NEW v \in SetValue, Set(c, k, v) PROVE WireInv'
  <2>1. Query("SET", {k}, v) \in Asked
    BY QueryFacts, KeyFacts, Zenon
  <2> QED
    BY <1>1, <2>1, WireSend, Zenon DEF Set, WireInv
<1>2. ASSUME NEW q \in Asked, Ask(c, q) PROVE WireInv'
  <2>1. requests' \in [Client -> Seq(Asked)]
    BY <1>2, WireSend, Zenon DEF Ask
  <2> QED
    BY <1>2, <2>1, Zenon DEF Ask, WireInv, Asked
<1>3. ASSUME NEW q \in Calling, WaitHelper(c, q) PROVE WireInv'
  <2>1. Query("WAIT", q.keys, None) \in Asked
    BY QueryFacts, Zenon DEF Calling
  <2>2. requests' \in [Client -> Seq(Asked)]
    BY <1>3, <2>1, WireSend, Zenon DEF WaitHelper
  <2> QED
    BY <1>3, <2>2, Zenon DEF WaitHelper, WireInv
<1>4. ASSUME NEW k \in Key, Add(c, k) \/ Get(c, k) \/ DeleteKey(c, k) PROVE WireInv'
  BY <1>2, <1>3, <1>4, QueryFacts, KeyFacts, Zenon DEF Add, Get, DeleteKey
<1>5. ASSUME NEW K \in WaitKeys, Check(c, K) \/ Wait(c, K) PROVE WireInv'
  <2>1. Query("CHECK", K, None) \in Asked /\ Query("WAIT", K, None) \in Calling
    BY QueryFacts, KeyFacts, Zenon DEF Asked
  <2> QED
    BY <1>2, <1>3, <1>5, <2>1, Zenon DEF Check, Wait
<1>6. CASE GetNumKeys(c)
  BY <1>2, <1>6, QueryFacts, Zenon DEF GetNumKeys
<1> QED
  BY <1>1, <1>4, <1>5, <1>6, Zenon DEF ClientCall

(* and so does every other step.                                           *)
LEMMA WireStep == WireInv /\ [Next]_vars => WireInv'
<1> SUFFICES ASSUME WireInv, [Next]_vars PROVE WireInv'
  BY Zenon
<1>1. CASE UNCHANGED vars
  BY <1>1, Zenon DEF vars, clientVars, WireInv
<1>2. ASSUME NEW c \in Client, Receive(c) PROVE WireInv'
  <2>1. call[c] \in Calling /\ Query("GET", call[c].keys, None) \in Asked
    BY QueryFacts, Zenon DEF WireInv, Calling
  <2>2. requests' \in [Client -> Seq(Asked)]
    BY <1>2, <2>1, WireSend, Zenon DEF Receive, WireInv
  <2>3. [call[c] EXCEPT !.op = "GARBLED"] \in Calling
        /\ [call[c] EXCEPT !.op = "GET"] \in Calling
    BY <2>1, Zenon DEF Calling, CallState, Operation
  <2>4. call' \in [Client -> Calling]
    BY <1>2, <2>3, QueryFacts, Zenon DEF Receive, WireInv
  <2> QED
    BY <2>2, <2>4, Zenon DEF WireInv
<1>3. ASSUME NEW c \in Client, Timeout(c) \/ Reset(c) \/ Exit(c) PROVE WireInv'
  <2>1. [call[c] EXCEPT !.op = "RESET"] \in Calling
    BY Zenon DEF WireInv, Calling, CallState
  <2> QED
    BY <1>3, <2>1, QueryFacts, Zenon DEF Timeout, Reset, Exit, WireInv
<1>4. ASSUME NEW c \in Client, DaemonStep(c) PROVE WireInv'
  <2>1. UNCHANGED call
    BY <1>4, Zenon DEF DaemonStep, setHandler, addHandler, getHandler,
       getNumKeysHandler, deleteHandler, checkHandler, waitHandler, HangUp,
       Accept, Take, clientVars
  <2>2. \/ UNCHANGED requests
        \/ requests[c] # <<>> /\ requests' = [requests EXCEPT ![c] = Tail(@)]
        \/ requests' = [requests EXCEPT ![c] = <<>>]
    BY <1>4, Zenon DEF DaemonStep, setHandler, addHandler, getHandler,
       getNumKeysHandler, deleteHandler, checkHandler, waitHandler, HangUp,
       Accept, Take
  <2>3. requests[c] # <<>> => Tail(requests[c]) \in Seq(Asked)
    BY DEF WireInv
  <2>4. <<>> \in Seq(Asked)
    OBVIOUS
  <2> QED
    BY <2>1, <2>2, <2>3, <2>4, Zenon DEF WireInv
<1> QED
  BY <1>1, <1>2, <1>3, <1>4, WireCall, Zenon DEF Next

----------------------------------------------------------------------------
(* What a client in a wait has on the wire: its WAIT comes last.           *)
InWait(c) == call[c].op \in {"WAIT", "GET_WAIT"}
QueuedInv ==
  \A c \in Client : InWait(c) =>
    /\ c \notin gone
    /\ requests[c] # <<>> => requests[c][Len(requests[c])].op = "WAIT"

(* A client in no call waits for nothing.                                  *)
LEMMA IdleFact == Idle.op \notin {"WAIT", "GET_WAIT"}
BY Zenon DEF Idle, Query

(* The answers on their way are a queue.                                   *)
IsQueue(s) == \E S : s \in Seq(S)
RepliesInv == DOMAIN replies = Client /\ \A c \in Client : IsQueue(replies[c])

(* Taking from a queue and adding to it.                                   *)
LEMMA QueueFacts ==
  ASSUME NEW s, IsQueue(s)
  PROVE  /\ s # <<>> => IsQueue(Tail(s))
         /\ \A r : IsQueue(s \o <<r>>) /\ s \o <<r>> # <<>>
         /\ s \o <<>> = s /\ \A r : Append(s, r) # <<>>
<1>1. PICK S : s \in Seq(S)
  BY Zenon DEF IsQueue
<1>2. s # <<>> => Tail(s) \in Seq(S)
  BY <1>1
<1>3. ASSUME NEW r PROVE s \o <<r>> \in Seq(S \cup {r}) /\ s \o <<r>> # <<>>
  <2>1. s \in Seq(S \cup {r}) /\ <<r>> \in Seq(S \cup {r}) /\ Len(<<r>>) = 1
    BY <1>1
  <2> QED
    BY <2>1
<1>4. s \o <<>> = s
  BY <1>1
<1>5. ASSUME NEW r PROVE Append(s, r) # <<>>
  <2>1. s \in Seq(S \cup {r}) /\ r \in S \cup {r}
    BY <1>1
  <2>2. Len(Append(s, r)) = Len(s) + 1 /\ Len(s) \in Nat
    BY <2>1
  <2>3. Len(<<>>) = 0
    OBVIOUS
  <2> QED
    BY <2>2, <2>3
<1> QED
  BY <1>2, <1>3, <1>4, <1>5, Zenon DEF IsQueue

(* Who has got no answer had none before and was sent none.                *)
LEMMA AnswersFacts ==
  ASSUME RepliesInv, NEW c, NEW ans, ans = <<>> \/ \E r : ans = <<r>>, NEW S,
         Answers(c, ans, S)
  PROVE  /\ RepliesInv'
         /\ \A d \in Client \ gone : replies'[d] = <<>> =>
              replies[d] = <<>> /\ d \notin S /\ (d = c => ans = <<>>)
<1>1. DOMAIN replies' = Client
  BY Zenon DEF Answers
<1>2. ASSUME NEW d \in Client
      PROVE  replies'[d] = IF d \in gone THEN <<>>
                           ELSE replies[d] \o (IF d = c THEN ans ELSE <<>>)
                                           \o (IF d \in S THEN <<STOP_WAITING>> ELSE <<>>)
  BY Zenon DEF Answers
<1>3. IsQueue(<<>>)
  <2>1. <<>> \in Seq({})
    OBVIOUS
  <2> QED
    BY <2>1, Zenon DEF IsQueue
<1>4. ASSUME NEW d \in Client \ gone
      PROVE  /\ IsQueue(replies'[d])
             /\ replies'[d] = <<>> =>
                  replies[d] = <<>> /\ d \notin S /\ (d = c => ans = <<>>)
  <2> DEFINE first == replies[d] \o (IF d = c THEN ans ELSE <<>>)
             all == first \o (IF d \in S THEN <<STOP_WAITING>> ELSE <<>>)
  <2>1. IsQueue(replies[d])
    BY Zenon DEF RepliesInv
  <2>2. \/ first = replies[d] /\ (d = c => ans = <<>>)
        \/ \E r : first = replies[d] \o <<r>>
    BY <2>1, QueueFacts, Zenon
  <2>3. IsQueue(first) /\ (first = <<>> => replies[d] = <<>> /\ (d = c => ans = <<>>))
    BY <2>1, <2>2, QueueFacts, Zenon
  <2>4. replies'[d] = all
    BY <1>2, Zenon
  <2> HIDE DEF first
  <2>5. \/ d \notin S /\ all = first
        \/ all = first \o <<STOP_WAITING>>
    BY <2>3, QueueFacts, Zenon
  <2> HIDE DEF all
  <2> QED
    BY <2>3, <2>4, <2>5, QueueFacts, Zenon
<1>5. \A d \in Client : IsQueue(replies'[d])
  BY <1>2, <1>3, <1>4, Zenon
<1> QED
  BY <1>1, <1>4, <1>5, Zenon DEF RepliesInv

----------------------------------------------------------------------------
(* The tables.                                                             *)
TablesInv ==
  /\ waitingSockets \in [Key -> Seq(Client)]
  /\ keysAwaited \in [Client -> 0 .. SizeT - 1]
  /\ \A c \in Client : IsFiniteSet(Entries(c))
  /\ ClosedIsForgotten

(* They are right after a step that does not touch them.                   *)
LEMMA TablesSame ==
  ASSUME TablesInv, UNCHANGED <<waitingSockets, keysAwaited, open>>
  PROVE  TablesInv' /\ \A c \in Client : Entries(c)' = Entries(c)
<1>1. \A c \in Client : Entries(c)' = Entries(c)
  BY DEF Entries
<1> QED
  BY <1>1, Zenon DEF TablesInv, ClosedIsForgotten

(* A count that the entries of the socket can bring to zero.               *)
Covered(n, places) == n \in 1 .. Cardinality(places)

(* The entries of c are its places in waitingSockets_, now                 *)
LEMMA EntriesPlaces ==
  \A c : Entries(c) = Places(waitingSockets, c)
BY Zenon DEF Entries, Places

(* and after a step.                                                       *)
LEMMA EntriesPlacesNext ==
  \A c : Entries(c)' = Places(waitingSockets', c)
BY Zenon DEF Entries, Places

(* Numbers of type size_t wrap round outside their range, and only there.  *)
LEMMA SizeFacts ==
  /\ 0 \in 0 .. SizeT - 1
  /\ \A n \in Int : n % SizeT \in 0 .. SizeT - 1
  /\ \A n \in 0 .. SizeT - 1 : n % SizeT = n
<1>1. 0 \in 0 .. SizeT - 1
  BY SizeAssumption
<1>2. ASSUME NEW n \in Int PROVE n % SizeT \in 0 .. SizeT - 1
  BY SizeAssumption
<1>3. ASSUME NEW n \in 0 .. SizeT - 1 PROVE n % SizeT = n
  BY SizeAssumption
<1> QED
  BY <1>1, <1>2, <1>3, Zenon

(* The entries that are counted down are finitely many.                    *)
LEMMA TimesFact ==
  ASSUME TablesInv, NEW k \in Key, NEW n \in 0 .. Len(waitingSockets[k]), NEW c
  PROVE  /\ Times(k, n, c) \in Nat
         /\ 1 .. n \subseteq DOMAIN waitingSockets[k]
<1>1. n \in Nat /\ 1 .. n \subseteq DOMAIN waitingSockets[k]
  BY DEF TablesInv
<1>2. IsFiniteSet(1 .. n)
  BY <1>1, FS_Interval
<1> QED
  BY <1>1, <1>2, FS_Subset, FS_CardinalityType, Zenon DEF Times

(* Counting down keeps the count of a closed socket zero, and takes the    *)
(* count of a socket that is not woken exactly as far down as it says.     *)
LEMMA CountDownFact ==
  ASSUME TablesInv, NEW k \in Key, NEW n \in 0 .. Len(waitingSockets[k])
  PROVE  /\ CountDown(k, n) \in [Client -> 0 .. SizeT - 1]
         /\ \A c \in Client \ open : CountDown(k, n)[c] = 0
         /\ \A c \in Client \ Woken(k, n) : keysAwaited[c] >= 1 =>
              /\ CountDown(k, n)[c] = keysAwaited[c] - Times(k, n, c)
              /\ CountDown(k, n)[c] >= 1
<1>1. \A c \in Client : Times(k, n, c) \in Nat /\ keysAwaited[c] \in 0 .. SizeT - 1
  BY TimesFact, Zenon DEF TablesInv
<1>2. \A c \in Client :
        CountDown(k, n)[c] = (keysAwaited[c] - Times(k, n, c)) % SizeT
  BY Zenon DEF CountDown
<1>3. \A c \in Client : keysAwaited[c] - Times(k, n, c) \in Int
  BY <1>1
<1>4. CountDown(k, n) \in [Client -> 0 .. SizeT - 1]
  BY <1>2, <1>3, SizeFacts, Zenon DEF CountDown
<1>5. ASSUME NEW c \in Client \ open
      PROVE  CountDown(k, n)[c] = 0
  <2>1. {i \in 1 .. n : waitingSockets[k][i] = c} = {} /\ keysAwaited[c] = 0
    BY <1>5, TimesFact, Zenon DEF TablesInv, ClosedIsForgotten
  <2>2. Times(k, n, c) = 0
    BY <2>1, FS_EmptySet, Zenon DEF Times
  <2>3. keysAwaited[c] - Times(k, n, c) = 0
    BY <2>1, <2>2
  <2> QED
    BY <1>2, <2>3, SizeFacts, Zenon
<1>6. ASSUME NEW c \in Client \ Woken(k, n), keysAwaited[c] >= 1
      PROVE  /\ CountDown(k, n)[c] = keysAwaited[c] - Times(k, n, c)
             /\ CountDown(k, n)[c] >= 1
  <2>1. ~(keysAwaited[c] \in 1 .. Times(k, n, c))
    BY Zenon DEF Woken
  <2>2. /\ keysAwaited[c] - Times(k, n, c) \in 0 .. SizeT - 1
        /\ keysAwaited[c] - Times(k, n, c) >= 1
    BY <1>1, <1>6, <2>1, SizeAssumption
  <2> QED
    BY <1>2, <2>2, SizeFacts, Zenon
<1> QED
  BY <1>4, <1>5, <1>6, Zenon

(* A wake-up erases as many entries of a socket as it counts down.         *)
LEMMA WakeEntries ==
  ASSUME TablesInv, NEW k \in Key, NEW c \in Client,
         waitingSockets' = [waitingSockets EXCEPT ![k] = <<>>]
  PROVE  /\ IsFiniteSet(Entries(c)')
         /\ Cardinality(Entries(c)) =
              Cardinality(Entries(c)') + Times(k, Len(waitingSockets[k]), c)
<1>1. IsFiniteSet(Places(waitingSockets, c)) /\ waitingSockets \in [Key -> Seq(Client)]
  BY EntriesPlaces, Zenon DEF TablesInv
<1>2. LET left == Places([waitingSockets EXCEPT ![k] = <<>>], c)
      IN  /\ IsFiniteSet(left)
          /\ Cardinality(Places(waitingSockets, c))
               = Cardinality(left) + Cardinality(On(waitingSockets[k], c))
  BY <1>1, WokenPlaces, Zenon
<1> QED
  BY <1>2, EntriesPlaces, EntriesPlacesNext, Zenon DEF Times, On

(* so that the tables stay right.                                          *)
LEMMA WakeTables ==
  ASSUME TablesInv, NEW k \in Key, UNCHANGED open,
         keysAwaited' = CountDown(k, Len(waitingSockets[k])),
         waitingSockets' = [waitingSockets EXCEPT ![k] = <<>>]
  PROVE  TablesInv'
<1> DEFINE n == Len(waitingSockets[k])
<1>1. n \in 0 .. n /\ waitingSockets \in [Key -> Seq(Client)]
  BY DEF TablesInv
<1>2. keysAwaited' \in [Client -> 0 .. SizeT - 1]
      /\ \A c \in Client \ open : keysAwaited'[c] = 0
  BY <1>1, CountDownFact, Zenon
<1>3. ClosedIsForgotten'
  <2>1. ASSUME NEW j \in Key, NEW i \in DOMAIN waitingSockets'[j]
        PROVE  /\ i \in DOMAIN waitingSockets[j]
               /\ waitingSockets'[j][i] = waitingSockets[j][i]
    <3>1. DOMAIN (<<>>) = {}
      OBVIOUS
    <3>2. j # k
      BY <1>1, <2>1, <3>1, Zenon
    <3> QED
      BY <1>1, <2>1, <3>2, Zenon
  <2>2. \A d \in Client \ open : \A j \in Key : \A i \in DOMAIN waitingSockets[j] :
          waitingSockets[j][i] # d
    BY Zenon DEF TablesInv, ClosedIsForgotten
  <2>3. \A d \in Client \ open : \A j \in Key : \A i \in DOMAIN waitingSockets'[j] :
          waitingSockets'[j][i] # d
    BY <2>1, <2>2, Zenon
  <2> QED
    BY <1>2, <2>3, Zenon DEF ClosedIsForgotten
<1>4. waitingSockets' \in [Key -> Seq(Client)]
  BY <1>1
<1> QED
  BY <1>2, <1>3, <1>4, WakeEntries, Zenon DEF TablesInv

(* Who is not woken keeps a count that its entries can bring to zero.      *)
LEMMA WakeCovered ==
  ASSUME TablesInv, NEW k \in Key, NEW c \in Client,
         c \notin Woken(k, Len(waitingSockets[k])), Covered(keysAwaited[c], Entries(c)),
         keysAwaited' = CountDown(k, Len(waitingSockets[k])),
         waitingSockets' = [waitingSockets EXCEPT ![k] = <<>>]
  PROVE  Covered(keysAwaited'[c], Entries(c)')
<1> DEFINE n == Len(waitingSockets[k])
           t == Times(k, n, c)
           a == Cardinality(Entries(c))
           b == Cardinality(Entries(c)')
<1>1. n \in 0 .. n
  BY DEF TablesInv
<1>2. keysAwaited[c] \in 1 .. a
  BY Zenon DEF Covered
<1>3. a \in Nat /\ b \in Nat /\ a = b + t /\ t \in Nat
  BY <1>1, TimesFact, WakeEntries, FS_CardinalityType, Zenon DEF TablesInv
<1>4. keysAwaited[c] >= 1
  BY <1>2, <1>3
<1>5. keysAwaited'[c] = keysAwaited[c] - t /\ keysAwaited'[c] >= 1
  BY <1>1, <1>4, CountDownFact, Zenon
<1> HIDE DEF a, b, t
<1>6. keysAwaited'[c] \in 1 .. b
  BY <1>2, <1>3, <1>5
<1> QED
  BY <1>6, Zenon DEF Covered, b

(* A dropped socket leaves both tables; the others lose no entry.          *)
LEMMA DropTables ==
  ASSUME TablesInv, NEW c \in Client, NEW awaited \in [Client -> 0 .. SizeT - 1],
         \A d \in Client \ open : awaited[d] = 0,
         Drop(c, waitingSockets, awaited)
  PROVE  /\ TablesInv'
         /\ \A d \in Client : d # c =>
              /\ keysAwaited'[d] = awaited[d]
              /\ Cardinality(Entries(d)') = Cardinality(Entries(d))
<1>1. /\ open' = open \ {c}
      /\ waitingSockets' = [k \in Key |-> Without(waitingSockets[k], c)]
      /\ keysAwaited' = [awaited EXCEPT ![c] = 0]
      /\ waitingSockets \in [Key -> Seq(Client)]
  BY Zenon DEF Drop, TablesInv
<1>2. ASSUME NEW k \in Key
      PROVE  /\ waitingSockets'[k] \in Seq(Client)
             /\ \A j \in DOMAIN waitingSockets'[k] :
                  \E i \in DOMAIN waitingSockets[k] :
                    /\ waitingSockets'[k][j] = waitingSockets[k][i]
                    /\ waitingSockets[k][i] # c
  <2>1. waitingSockets[k] \in Seq(Client)
    BY <1>1, Zenon
  <2>2. /\ Without(waitingSockets[k], c) \in Seq(Client)
        /\ \A j \in DOMAIN Without(waitingSockets[k], c) :
             \E i \in Kept(waitingSockets[k], c) :
               Without(waitingSockets[k], c)[j] = waitingSockets[k][i]
    BY <2>1, WithoutFacts
  <2>3. waitingSockets'[k] = Without(waitingSockets[k], c)
    BY <1>1, Zenon
  <2> QED
    BY <2>2, <2>3, Zenon DEF Kept
<1>3. ClosedIsForgotten'
  BY <1>1, <1>2 DEF TablesInv, ClosedIsForgotten
<1>4. Entries(c)' = {}
  <2>1. \A e : e \notin Places(waitingSockets', c)
    BY <1>2, PlacesFact
  <2> QED
    BY <2>1, EntriesPlacesNext, Zenon
<1>5. ASSUME NEW d \in Client, d # c
      PROVE  /\ IsFiniteSet(Entries(d)')
             /\ Cardinality(Entries(d)') = Cardinality(Entries(d))
  <2>1. IsFiniteSet(Places(waitingSockets, d))
    BY EntriesPlaces, Zenon DEF TablesInv
  <2>2. /\ IsFiniteSet(Places(waitingSockets', d))
        /\ Cardinality(Places(waitingSockets', d)) = Cardinality(Places(waitingSockets, d))
    BY <1>1, <1>5, <2>1, ErasedPlaces, Zenon
  <2> QED
    BY <2>2, EntriesPlaces, EntriesPlacesNext, Zenon
<1>6. \A d \in Client : IsFiniteSet(Entries(d)')
  BY <1>4, <1>5, FS_EmptySet, Zenon
<1>7. waitingSockets' \in [Key -> Seq(Client)]
  BY <1>1, <1>2, Zenon
<1>8. keysAwaited' \in [Client -> 0 .. SizeT - 1]
      /\ \A d \in Client : d # c => keysAwaited'[d] = awaited[d]
  BY <1>1, SizeFacts, Zenon
<1> QED
  BY <1>3, <1>5, <1>6, <1>7, <1>8, Zenon DEF TablesInv

(* A wait that is registered counts as many keys as it adds entries.       *)
LEMMA WaitTables ==
  ASSUME TablesInv, NEW c \in open \cap Client, NEW K \in KeySet, UNCHANGED open,
         waitingSockets' =
           [k \in Key |-> IF k \in K THEN Append(waitingSockets[k], c)
                                     ELSE waitingSockets[k]],
         keysAwaited' = [keysAwaited EXCEPT ![c] = Cardinality(K)]
  PROVE  /\ TablesInv'
         /\ K # {} => Covered(keysAwaited'[c], Entries(c)')
         /\ \A d \in Client : d # c =>
              keysAwaited'[d] = keysAwaited[d] /\ Entries(d)' = Entries(d)
<1>1. K \in SUBSET Key /\ IsFiniteSet(K) /\ Cardinality(K) \in Nat
  BY FS_CardinalityType, Zenon DEF KeySet
<1>2. Cardinality(K) \in 0 .. SizeT - 1
  BY <1>1, SizeAssumption DEF KeySet
<1>3. waitingSockets' \in [Key -> Seq(Client)]
  BY <1>1 DEF TablesInv
<1>4. keysAwaited' \in [Client -> 0 .. SizeT - 1]
  BY <1>2, Zenon DEF TablesInv
<1>5. ASSUME NEW d \in Client
      PROVE  /\ IsFiniteSet(Entries(d)')
             /\ d = c => Cardinality(K) <= Cardinality(Entries(d)')
             /\ d # c => Entries(d)' = Entries(d)
  <2>1. IsFiniteSet(Places(waitingSockets, d)) /\ waitingSockets \in [Key -> Seq(Client)]
    BY EntriesPlaces, Zenon DEF TablesInv
  <2>2. LET after == [k \in Key |-> IF k \in K THEN Append(waitingSockets[k], c)
                                               ELSE waitingSockets[k]]
        IN  /\ IsFiniteSet(Places(after, d))
            /\ d = c => Cardinality(K) <= Cardinality(Places(after, d))
            /\ d # c => Places(after, d) = Places(waitingSockets, d)
    BY <1>1, <2>1, AddedPlaces, Zenon
  <2> QED
    BY <2>2, EntriesPlaces, EntriesPlacesNext, Zenon
<1>6. ClosedIsForgotten'
  <2> SUFFICES ASSUME NEW d \in Client \ open
               PROVE  /\ keysAwaited'[d] = 0
                      /\ \A k \in Key : \A i \in DOMAIN waitingSockets'[k] :
                           waitingSockets'[k][i] # d
    BY Zenon DEF ClosedIsForgotten
  <2>1. d # c /\ keysAwaited[d] = 0
    BY Zenon DEF TablesInv, ClosedIsForgotten
  <2>2. keysAwaited'[d] = 0
    BY <2>1, Zenon DEF TablesInv
  <2>3. ASSUME NEW k \in Key, NEW i \in DOMAIN waitingSockets'[k]
        PROVE  waitingSockets'[k][i] # d
    <3>1. waitingSockets[k] \in Seq(Client)
      BY Zenon DEF TablesInv
    <3>2. \/ i \in DOMAIN waitingSockets[k]
                /\ waitingSockets'[k][i] = waitingSockets[k][i]
          \/ waitingSockets'[k][i] = c
      BY <3>1
    <3> QED
      BY <2>1, <3>2, Zenon DEF TablesInv, ClosedIsForgotten
  <2> QED
    BY <2>2, <2>3, Zenon
<1>7. ASSUME K # {} PROVE Covered(keysAwaited'[c], Entries(c)')
  <2>1. Cardinality(K) # 0
    BY <1>1, <1>7, FS_EmptySet, Zenon
  <2>2. keysAwaited'[c] = Cardinality(K)
    BY Zenon DEF TablesInv
  <2>3. Cardinality(Entries(c)') \in Nat /\ Cardinality(K) <= Cardinality(Entries(c)')
    BY <1>5, FS_CardinalityType, Zenon
  <2>4. Cardinality(K) \in 1 .. Cardinality(Entries(c)')
    BY <1>1, <2>1, <2>3
  <2> QED
    BY <2>2, <2>4, Zenon DEF Covered
<1>8. \A d \in Client : d # c => keysAwaited'[d] = keysAwaited[d]
  BY Zenon DEF TablesInv
<1> QED
  BY <1>3, <1>4, <1>5, <1>6, <1>7, <1>8, Zenon DEF TablesInv

(* The key of a SET or an ADD is one of Key.                               *)
LEMMA TheKeyFact ==
  ASSUME WireInv, NEW c \in Client, requests[c] # <<>>,
         Head(requests[c]).op \in {"SET", "ADD"}
  PROVE  TheKey(Head(requests[c])) \in Key
<1>1. Head(requests[c]) \in Asked
  BY DEF WireInv
<1>2. PICK k \in Key : Head(requests[c]).keys = {k}
  BY <1>1, Zenon DEF Asked
<1> QED
  BY <1>2, Zenon DEF TheKey

(* What a handler that serves c does to the others: they keep counts that  *)
(* can be brought to zero, and who has no answer now had none.             *)
Spares(c) ==
  \A d \in Client \ gone : d # c /\ replies'[d] = <<>> =>
    /\ replies[d] = <<>>
    /\ Covered(keysAwaited[d], Entries(d)) => Covered(keysAwaited'[d], Entries(d)')

(* The drop of a socket when nothing was counted down.                     *)
LEMMA DropNow ==
  ASSUME TablesInv, RepliesInv, NEW c \in Client,
         Drop(c, waitingSockets, keysAwaited), UNCHANGED replies
  PROVE  TablesInv' /\ RepliesInv' /\ Spares(c) /\ c \notin open'
<1>1. keysAwaited \in [Client -> 0 .. SizeT - 1]
      /\ \A d \in Client \ open : keysAwaited[d] = 0
  BY Zenon DEF TablesInv, ClosedIsForgotten
<1>2. /\ TablesInv'
      /\ \A d \in Client : d # c =>
           /\ keysAwaited'[d] = keysAwaited[d]
           /\ Cardinality(Entries(d)') = Cardinality(Entries(d))
  BY <1>1, DropTables, Zenon
<1>3. Spares(c)
  BY <1>2, Zenon DEF Spares, Covered
<1>4. RepliesInv'
  BY Zenon DEF RepliesInv
<1>5. c \notin open'
  BY Zenon DEF Drop
<1> QED
  BY <1>2, <1>3, <1>4, <1>5, Zenon

(* A wake-up keeps the tables right, even one that fails half way.         *)
LEMMA WakeupTables ==
  ASSUME TablesInv, RepliesInv, NEW c \in Client, NEW k \in Key, NEW ans,
         ans = <<>> \/ \E r : ans = <<r>>, Wakeup(c, ans, k)
  PROVE  TablesInv' /\ RepliesInv' /\ Spares(c) /\ open' \subseteq open
<1>1. CASE wakeupWaitingClients(c, ans, k)
  <2> DEFINE n == Len(waitingSockets[k])
  <2>1. /\ keysAwaited' = CountDown(k, n) /\ Answers(c, ans, Woken(k, n))
        /\ waitingSockets' = [waitingSockets EXCEPT ![k] = <<>>]
        /\ UNCHANGED open
    BY <1>1, Zenon DEF wakeupWaitingClients
  <2>2. TablesInv'
    BY <2>1, WakeTables, Zenon
  <2>3. /\ RepliesInv'
        /\ \A d \in Client \ gone : replies'[d] = <<>> =>
             replies[d] = <<>> /\ d \notin Woken(k, n)
    BY <2>1, AnswersFacts, Zenon
  <2>4. ASSUME NEW d \in Client, d \notin Woken(k, n), Covered(keysAwaited[d], Entries(d))
        PROVE  Covered(keysAwaited'[d], Entries(d)')
    BY <2>1, <2>4, WakeCovered, Zenon
  <2>5. Spares(c)
    BY <2>3, <2>4, Zenon DEF Spares
  <2> QED
    BY <2>1, <2>2, <2>3, <2>5, Zenon
<1>2. CASE wakeupFails(c, ans, k)
  <2>1. PICK n \in 1 .. Len(waitingSockets[k]) :
               /\ waitingSockets[k][n] \in gone
               /\ Answers(c, ans, Woken(k, n - 1))
               /\ Drop(c, waitingSockets, CountDown(k, n))
    BY <1>2, Zenon DEF wakeupFails
  <2>2. n \in 0 .. Len(waitingSockets[k]) /\ n \in Nat /\ n - 1 \in Nat
        /\ 1 .. n = 1 .. (n - 1) \cup {n}
    BY <2>1 DEF TablesInv
  <2>3. /\ CountDown(k, n) \in [Client -> 0 .. SizeT - 1]
        /\ \A d \in Client \ open : CountDown(k, n)[d] = 0
        /\ \A d \in Client \ Woken(k, n) : keysAwaited[d] >= 1 =>
             /\ CountDown(k, n)[d] = keysAwaited[d] - Times(k, n, d)
             /\ CountDown(k, n)[d] >= 1
    BY <2>2, CountDownFact, Zenon
  <2>4. /\ TablesInv'
        /\ \A d \in Client : d # c =>
             /\ keysAwaited'[d] = CountDown(k, n)[d]
             /\ Cardinality(Entries(d)') = Cardinality(Entries(d))
    BY <2>1, <2>3, DropTables, Zenon
  <2> DEFINE W == Woken(k, n - 1)
  <2>5. /\ RepliesInv'
        /\ \A d \in Client \ gone : replies'[d] = <<>> =>
             replies[d] = <<>> /\ d \notin W
    <3>1. Answers(c, ans, W)
      BY <2>1, Zenon
    <3> HIDE DEF W
    <3> QED
      BY <3>1, AnswersFacts, Zenon
  <2>6. ASSUME NEW d \in Client \ gone, d # c, d \notin Woken(k, n - 1),
               Covered(keysAwaited[d], Entries(d))
        PROVE  Covered(keysAwaited'[d], Entries(d)')
    <3>1. {i \in 1 .. n : waitingSockets[k][i] = d}
            = {i \in 1 .. (n - 1) : waitingSockets[k][i] = d}
      BY <2>1, <2>2, Zenon
    <3>2. Times(k, n, d) = Times(k, n - 1, d)
      BY <3>1, Zenon DEF Times
    <3>3. d \notin Woken(k, n)
      BY <2>6, <3>2, Zenon DEF Woken
    <3>4. Cardinality(Entries(d)) \in Nat /\ Times(k, n, d) \in Nat
      BY <2>2, TimesFact, FS_CardinalityType, Zenon DEF TablesInv
    <3>5. keysAwaited[d] \in 1 .. Cardinality(Entries(d))
      BY <2>6, Zenon DEF Covered
    <3>6. keysAwaited[d] >= 1
      BY <3>4, <3>5
    <3>7. keysAwaited'[d] = keysAwaited[d] - Times(k, n, d) /\ keysAwaited'[d] >= 1
      BY <2>3, <2>4, <2>6, <3>3, <3>6, Zenon
    <3>8. keysAwaited'[d] \in 1 .. Cardinality(Entries(d))
      BY <3>4, <3>5, <3>7
    <3> QED
      BY <2>4, <2>6, <3>8, Zenon DEF Covered
  <2>7. Spares(c)
    BY <2>5, <2>6, Zenon DEF Spares
  <2> QED
    BY <2>1, <2>4, <2>5, <2>7, Zenon DEF Drop
<1> QED
  BY <1>1, <1>2, Zenon DEF Wakeup

(* So does an answer, sent or not; c gets it, or is dropped.               *)
LEMMA ReplyTables ==
  ASSUME TablesInv, RepliesInv, NEW c \in Client, NEW r, Reply(c, r)
  PROVE  /\ TablesInv' /\ RepliesInv' /\ Spares(c) /\ open' \subseteq open
         /\ c \notin gone /\ c \in open' => replies'[c] # <<>>
<1>1. CASE Answers(c, <<r>>, {}) /\ UNCHANGED <<open, waitingSockets, keysAwaited>>
  <2>1. TablesInv' /\ \A d \in Client : Entries(d)' = Entries(d)
    BY <1>1, TablesSame, Zenon
  <2> DEFINE ans == <<r>>
             none == {}
  <2>2. /\ RepliesInv'
        /\ \A d \in Client \ gone : replies'[d] = <<>> =>
             replies[d] = <<>> /\ (d = c => ans = <<>>)
    <3>1. Answers(c, ans, none) /\ \E q : ans = <<q>>
      BY <1>1, Zenon
    <3> HIDE DEF ans, none
    <3> QED
      BY <3>1, AnswersFacts, Zenon
  <2>3. <<r>> # <<>>
    OBVIOUS
  <2> QED
    BY <1>1, <2>1, <2>2, <2>3, Zenon DEF Spares
<1>2. CASE replyFails(c)
  BY <1>2, DropNow, Zenon DEF replyFails, Drop
<1> QED
  BY <1>1, <1>2, Zenon DEF Reply

----------------------------------------------------------------------------
(* The steps.                                                              *)
IInv == WireInv /\ QueuedInv /\ RepliesInv /\ TablesInv /\ CountCovered

(* After a handler that served c the other waiting clients are still       *)
(* covered, and c waits only if its WAIT was what was served.              *)
LEMMA Served ==
  ASSUME IInv, NEW c \in Client, NEW op, Take(c, op), Spares(c), open' \subseteq open,
         op = "WAIT" => (Waiting(c)' => Covered(keysAwaited'[c], Entries(c)'))
  PROVE  CountCovered'
<1> USE DEF IInv
<1>1. UNCHANGED <<call, gone>> /\ requests' = [requests EXCEPT ![c] = Tail(@)]
      /\ requests[c] # <<>> /\ Head(requests[c]).op = op
  BY Zenon DEF Take, clientVars
<1>2. \A d \in Client : d # c => requests'[d] = requests[d]
  BY <1>1, Zenon DEF WireInv
<1>3. ASSUME NEW d \in Client, Waiting(d)', d # c
      PROVE  Covered(keysAwaited'[d], Entries(d)')
  <2>1. d \notin gone /\ replies'[d] = <<>>
    BY <1>1, <1>3, Zenon DEF Waiting
  <2>2. Waiting(d)
    BY <1>1, <1>2, <1>3, <2>1, Zenon DEF Waiting, Spares
  <2>3. Covered(keysAwaited[d], Entries(d))
    BY <2>2, Zenon DEF CountCovered, Covered
  <2> QED
    BY <1>3, <2>1, <2>3, Zenon DEF Spares
<1>4. ASSUME Waiting(c)' PROVE op = "WAIT"
  <2>1. requests'[c] = <<>> /\ InWait(c)
    BY <1>1, <1>4, Zenon DEF Waiting, InWait
  <2>2. requests[c][Len(requests[c])].op = "WAIT"
    BY <1>1, <2>1, Zenon DEF QueuedInv
  <2>3. requests[c] \in Seq(Asked) /\ Tail(requests[c]) = <<>>
    BY <1>1, <2>1, Zenon DEF WireInv
  <2>4. Len(requests[c]) = 1
    <3>0. Len(<<>>) = 0
      OBVIOUS
    <3>1. Len(Tail(requests[c])) = 0
      BY <2>3, <3>0, Zenon
    <3>2. Len(Tail(requests[c])) = Len(requests[c]) - 1 /\ Len(requests[c]) \in Nat
      BY <1>1, <2>3
    <3> QED
      BY <3>1, <3>2
  <2>5. Head(requests[c]) = requests[c][1]
    BY <1>1, <2>3
  <2> QED
    BY <1>1, <2>2, <2>4, <2>5, Zenon
<1>5. ASSUME NEW d \in Client, Waiting(d)' PROVE Covered(keysAwaited'[d], Entries(d)')
  BY <1>3, <1>4, <1>5, Zenon
<1> QED
  BY <1>5, Zenon DEF CountCovered, Covered

(* The calls of a client keep the WAIT of a waiting client last,           *)
LEMMA QueuedCall ==
  ASSUME WireInv, QueuedInv, NEW c \in Client, ClientCall(c)
  PROVE  QueuedInv'
<1> DEFINE Good == /\ gone' = gone /\ c \notin gone
                   /\ \A d \in Client : d # c => call'[d] = call[d] /\ requests'[d] = requests[d]
<1>1. ASSUME Good, InWait(c)' => requests'[c][Len(requests'[c])].op = "WAIT"
      PROVE  QueuedInv'
  BY <1>1, Zenon DEF QueuedInv, InWait
<1>2. ASSUME NEW k \in Key, NEW v \in SetValue, Set(c, k, v) PROVE QueuedInv'
  <2>1. Good /\ call'[c] = Idle
    BY <1>2, Zenon DEF Set, MayCall, Send, clientVars, WireInv
  <2>2. ~InWait(c)'
    BY <2>1, IdleFact, Zenon DEF InWait
  <2> QED
    BY <1>1, <2>1, <2>2, Zenon
<1>3. ASSUME NEW q, q.op \notin {"WAIT", "GET_WAIT"}, Ask(c, q) PROVE QueuedInv'
  <2>1. Good /\ call'[c] = q
    BY <1>3, Zenon DEF Ask, MayCall, Send, WireInv
  <2>2. ~InWait(c)'
    BY <1>3, <2>1, Zenon DEF InWait
  <2> QED
    BY <1>1, <2>1, <2>2, Zenon
<1>4. ASSUME NEW q \in Calling, WaitHelper(c, q) PROVE QueuedInv'
  <2>1. Good /\ requests'[c] = Append(requests[c], Query("WAIT", q.keys, None))
    BY <1>4, Zenon DEF WaitHelper, MayCall, Send, WireInv
  <2>2. requests[c] \in Seq(Asked) /\ Query("WAIT", q.keys, None) \in Asked
    BY QueryFacts, Zenon DEF WireInv, Calling
  <2>3. requests'[c][Len(requests'[c])] = Query("WAIT", q.keys, None)
    BY <2>1, <2>2
  <2>4. Query("WAIT", q.keys, None).op = "WAIT"
    BY Zenon DEF Query
  <2> QED
    BY <1>1, <2>1, <2>3, <2>4, Zenon
<1>5. ASSUME NEW k \in Key, Add(c, k) \/ DeleteKey(c, k) PROVE QueuedInv'
  BY <1>3, <1>5, Zenon DEF Add, DeleteKey, Query
<1>6. ASSUME NEW K, Check(c, K) PROVE QueuedInv'
  BY <1>3, <1>6, Zenon DEF Check, Query
<1>7. CASE GetNumKeys(c)
  BY <1>3, <1>7, Zenon DEF GetNumKeys, Query
<1>8. ASSUME NEW k \in Key, Get(c, k) PROVE QueuedInv'
  BY <1>4, <1>8, QueryFacts, KeyFacts, Zenon DEF Get
<1>9. ASSUME NEW K \in WaitKeys, Wait(c, K) PROVE QueuedInv'
  BY <1>4, <1>9, QueryFacts, KeyFacts, Zenon DEF Wait, Asked
<1> QED
  BY <1>2, <1>5, <1>6, <1>7, <1>8, <1>9, Zenon DEF ClientCall

(* A client that leaves its wait, by an answer, a time-out, a reset or its *)
(* end.                                                                    *)
LeavesWait(c) == Receive(c) \/ Timeout(c) \/ Reset(c) \/ Exit(c)
LEMMA LeaveFacts ==
  ASSUME WireInv, RepliesInv, NEW c \in Client, LeavesWait(c)
  PROVE  /\ ~InWait(c)' /\ UNCHANGED <<waitingSockets, keysAwaited, open>>
         /\ \A d \in Client : d # c =>
              /\ call'[d] = call[d] /\ requests'[d] = requests[d]
              /\ replies'[d] = replies[d] /\ (d \in gone' <=> d \in gone)
<1>1. UNCHANGED <<waitingSockets, keysAwaited, open>>
      /\ \A d \in Client : d \in gone' <=> d \in gone \/ (d = c /\ Exit(c))
  BY Zenon DEF LeavesWait, Receive, Timeout, Reset, Exit, daemonVars
<1>2. \/ call' = [call EXCEPT ![c] = Idle]
      \/ \E op \in {"GARBLED", "GET", "RESET"} : call' = [call EXCEPT ![c].op = op]
  BY Zenon DEF LeavesWait, Receive, Timeout, Reset, Exit
<1>3. \/ UNCHANGED requests
      \/ \E q : requests' = [requests EXCEPT ![c] = q]
  BY Zenon DEF LeavesWait, Receive, Timeout, Reset, Exit, Send
<1>4. \/ UNCHANGED replies
      \/ \E q : replies' = [replies EXCEPT ![c] = q]
  BY Zenon DEF LeavesWait, Receive, Timeout, Reset, Exit
<1>5. call \in [Client -> Calling]
  BY Zenon DEF WireInv
<1>6. ~InWait(c)'
  <2>1. CASE call' = [call EXCEPT ![c] = Idle]
    <3>1. call'[c] = Idle
      BY <1>5, <2>1, Zenon
    <3> QED
      BY <3>1, IdleFact, Zenon DEF InWait
  <2>2. ASSUME NEW op \in {"GARBLED", "GET", "RESET"}, call' = [call EXCEPT ![c].op = op]
        PROVE  ~InWait(c)'
    <3>1. call'[c] = [call[c] EXCEPT !.op = op] /\ call[c] \in Calling
      BY <1>5, <2>2, Zenon
    <3>2. call'[c].op = op
      BY <3>1, Zenon DEF Calling
    <3> QED
      BY <3>2, Zenon DEF InWait
  <2> QED
    BY <1>2, <2>1, <2>2, Zenon
<1>7. ASSUME NEW d \in Client, d # c
      PROVE  /\ call'[d] = call[d] /\ requests'[d] = requests[d]
             /\ replies'[d] = replies[d]
  BY <1>2, <1>3, <1>4, <1>5, <1>7, Zenon DEF WireInv, RepliesInv
<1> QED
  BY <1>1, <1>6, <1>7, Zenon

(* and so does every step.                                                 *)
LEMMA QueuedStep == IInv /\ [Next]_vars => QueuedInv'
<1> SUFFICES ASSUME IInv, [Next]_vars PROVE QueuedInv'
  BY Zenon
<1> USE DEF IInv
<1>1. CASE UNCHANGED vars
  BY <1>1, Zenon DEF vars, clientVars, QueuedInv, InWait
<1>2. ASSUME NEW c \in Client, LeavesWait(c) PROVE QueuedInv'
  BY <1>2, LeaveFacts, Zenon DEF QueuedInv, InWait
<1>3. ASSUME NEW c \in Client, DaemonStep(c) PROVE QueuedInv'
  <2>1. UNCHANGED call /\ \A d \in Client : d \in gone' => d \in gone
    BY <1>3, Zenon DEF DaemonStep, setHandler, addHandler, getHandler,
       getNumKeysHandler, deleteHandler, checkHandler, waitHandler, HangUp,
       Accept, Take, clientVars
  <2>2. \/ UNCHANGED requests
        \/ requests[c] # <<>> /\ requests' = [requests EXCEPT ![c] = Tail(@)]
        \/ requests' = [requests EXCEPT ![c] = <<>>]
    BY <1>3, Zenon DEF DaemonStep, setHandler, addHandler, getHandler,
       getNumKeysHandler, deleteHandler, checkHandler, waitHandler, HangUp,
       Accept, Take
  <2>3. requests \in [Client -> Seq(Asked)] /\ requests[c] \in Seq(Asked)
    BY Zenon DEF WireInv
  <2>4. ASSUME requests[c] # <<>>, Tail(requests[c]) # <<>>
        PROVE  Tail(requests[c])[Len(Tail(requests[c]))] = requests[c][Len(requests[c])]
    <3>1. Len(Tail(requests[c])) = Len(requests[c]) - 1 /\ Len(requests[c]) - 1 >= 1
      BY <2>3, <2>4
    <3> QED
      BY <2>3, <2>4, <3>1
  <2>5. ASSUME NEW d \in Client, InWait(d), requests'[d] # <<>>
        PROVE  requests'[d][Len(requests'[d])].op = "WAIT"
    <3>1. CASE requests'[d] = requests[d]
      BY <2>5, <3>1, Zenon DEF QueuedInv
    <3>2. CASE d = c /\ requests[c] # <<>> /\ requests'[c] = Tail(requests[c])
      BY <2>4, <2>5, <3>2, Zenon DEF QueuedInv
    <3>3. requests'[d] = requests[d]
          \/ (d = c /\ requests[c] # <<>> /\ requests'[c] = Tail(requests[c]))
      BY <2>2, <2>3, <2>5, Zenon
    <3> QED
      BY <3>1, <3>2, <3>3, Zenon
  <2>6. \A d \in Client : InWait(d)' <=> InWait(d)
    BY <2>1, Zenon DEF InWait
  <2> QED
    BY <2>1, <2>5, <2>6, Zenon DEF QueuedInv
<1> QED
  BY <1>1, <1>2, <1>3, QueuedCall, Zenon DEF Next, LeavesWait

(* Every step keeps the tables right, the answers in a queue and the       *)
(* waiting clients covered.                                                *)
Preserved == TablesInv' /\ RepliesInv' /\ CountCovered'
LEMMA DaemonKeeps ==
  ASSUME IInv, NEW c \in Client, DaemonStep(c)
  PROVE  Preserved
<1> USE DEF IInv, Preserved
<1> DEFINE Kind(op) == TablesInv' /\ RepliesInv' /\ Spares(c) /\ open' \subseteq open
                       /\ Take(c, op)
<1>0. ASSUME NEW op, Kind(op), op # "WAIT" PROVE Preserved
  BY <1>0, Served, Zenon
<1>1. CASE setHandler(c)
  <2>1. Kind("SET")
    BY <1>1, TheKeyFact, WakeupTables, Zenon DEF setHandler, Take
  <2> QED
    BY <1>0, <2>1, Zenon
<1>2. ASSUME Drop(c, waitingSockets, keysAwaited), UNCHANGED replies
      PROVE  TablesInv' /\ RepliesInv' /\ Spares(c) /\ open' \subseteq open
  BY <1>2, DropNow, Zenon DEF Drop
<1>3. CASE addHandler(c)
  <2>1. Take(c, "ADD")
    BY <1>3, Zenon DEF addHandler
  <2>2. TheKey(Head(requests[c])) \in Key
    BY <2>1, TheKeyFact, Zenon DEF Take
  <2>3. \/ \E r : Wakeup(c, <<r>>, TheKey(Head(requests[c])))
        \/ Drop(c, waitingSockets, keysAwaited) /\ UNCHANGED replies
    BY <1>3, Zenon DEF addHandler, replyFails
  <2>4. Kind("ADD")
    BY <1>2, <2>1, <2>2, <2>3, WakeupTables, Zenon
  <2> QED
    BY <1>0, <2>4, Zenon
<1>4. CASE getHandler(c)
  <2>1. Kind("GET")
    BY <1>2, <1>4, ReplyTables, Zenon DEF getHandler
  <2> QED
    BY <1>0, <2>1, Zenon
<1>5. CASE getNumKeysHandler(c)
  <2>1. Kind("GETNUMKEYS")
    BY <1>5, ReplyTables, Zenon DEF getNumKeysHandler
  <2> QED
    BY <1>0, <2>1, Zenon
<1>6. CASE deleteHandler(c)
  <2>1. Kind("DELETE_KEY")
    BY <1>6, ReplyTables, Zenon DEF deleteHandler
  <2> QED
    BY <1>0, <2>1, Zenon
<1>7. CASE checkHandler(c)
  <2>1. Kind("CHECK")
    BY <1>7, ReplyTables, Zenon DEF checkHandler
  <2> QED
    BY <1>0, <2>1, Zenon
<1>8. CASE waitHandler(c)
  <2> DEFINE K == Head(requests[c]).keys
  <2>1. Take(c, "WAIT") /\ c \in open \cap Client
        /\ requests[c] \in Seq(Asked) /\ requests[c] # <<>>
    BY <1>8, Zenon DEF waitHandler, Take, WireInv
  <2>2. Head(requests[c]) \in Asked
    BY <2>1
  <2>3. K \in KeySet
    BY <2>2, Zenon DEF Asked, Calling
  <2>4. CASE Reply(c, STOP_WAITING)
    <3>1. Kind("WAIT") /\ ~Waiting(c)'
      <4>1. UNCHANGED gone
        BY <2>1, Zenon DEF Take, clientVars
      <4> QED
        BY <2>1, <2>4, <4>1, ReplyTables, Zenon DEF Waiting
    <3> QED
      BY <3>1, Served, Zenon
  <2>5. CASE ~Reply(c, STOP_WAITING)
    <3>1. /\ K # {} /\ UNCHANGED <<open, replies>>
          /\ waitingSockets' =
               [k \in Key |-> IF k \in K THEN Append(waitingSockets[k], c)
                                         ELSE waitingSockets[k]]
          /\ keysAwaited' = [keysAwaited EXCEPT ![c] = Cardinality(K)]
      BY <1>8, <2>5, Zenon DEF waitHandler
    <3>2. /\ TablesInv' /\ Covered(keysAwaited'[c], Entries(c)')
          /\ \A d \in Client : d # c =>
               keysAwaited'[d] = keysAwaited[d] /\ Entries(d)' = Entries(d)
      BY <2>1, <2>3, <3>1, WaitTables, Zenon
    <3>3. RepliesInv' /\ Spares(c)
      BY <3>1, <3>2, Zenon DEF RepliesInv, Spares
    <3> QED
      BY <2>1, <3>1, <3>2, <3>3, Served, Zenon
  <2> QED
    BY <2>4, <2>5, Zenon
<1>9. CASE HangUp(c)
  <2>1. TablesInv' /\ RepliesInv' /\ Spares(c) /\ c \notin open' /\ open' \subseteq open
        /\ UNCHANGED <<call, gone, requests>>
    BY <1>9, DropNow, Zenon DEF HangUp, Drop, clientVars
  <2>2. ASSUME NEW d \in Client, Waiting(d)' PROVE Covered(keysAwaited'[d], Entries(d)')
    <3>1. d # c /\ d \in Client \ gone /\ replies'[d] = <<>>
      BY <2>1, <2>2, Zenon DEF Waiting
    <3>2. Waiting(d)
      BY <2>1, <2>2, <3>1, Zenon DEF Waiting, Spares
    <3> QED
      BY <2>1, <3>1, <3>2, Zenon DEF CountCovered, Covered, Spares
  <2> QED
    BY <2>1, <2>2, Zenon DEF CountCovered, Covered
<1>10. CASE Accept(c)
  <2>1. /\ UNCHANGED <<waitingSockets, keysAwaited, call, replies>>
        /\ c \in gone /\ open' = open \cup {c} /\ gone' = gone \ {c}
        /\ \A d \in Client : d # c => requests'[d] = requests[d]
    BY <1>10, Zenon DEF Accept, WireInv
  <2>2. \A d \in Client : Entries(d)' = Entries(d)
    BY <2>1 DEF Entries
  <2>3. TablesInv'
    BY <2>1, <2>2, Zenon DEF TablesInv, ClosedIsForgotten
  <2>4. RepliesInv'
    BY <2>1, Zenon DEF RepliesInv
  <2>5. ~Waiting(c)'
    BY <2>1, Zenon DEF Waiting, QueuedInv, InWait
  <2>6. \A d \in Client : d # c /\ Waiting(d)' => Waiting(d)
    BY <2>1, Zenon DEF Waiting
  <2>7. CountCovered'
    BY <2>1, <2>2, <2>5, <2>6, Zenon DEF CountCovered
  <2> QED
    BY <2>3, <2>4, <2>7, Zenon
<1> QED
  BY <1>1, <1>3, <1>4, <1>5, <1>6, <1>7, <1>8, <1>9, <1>10, Zenon DEF DaemonStep

(* The other steps leave the tables alone.                                 *)
LEMMA TablesStep == IInv /\ [Next]_vars => Preserved
<1> SUFFICES ASSUME IInv, [Next]_vars PROVE Preserved
  BY Zenon
<1> USE DEF IInv, Preserved
<1>1. ASSUME UNCHANGED <<waitingSockets, keysAwaited, open>>
      PROVE  TablesInv' /\ \A d \in Client : Entries(d)' = Entries(d)
  BY <1>1, TablesSame, Zenon
<1>2. CASE UNCHANGED vars
  <2>1. UNCHANGED <<waitingSockets, keysAwaited, open, gone, call, requests, replies>>
    BY <1>2, Zenon DEF vars, daemonVars, clientVars
  <2> QED
    BY <1>1, <2>1, Zenon DEF RepliesInv, CountCovered, Waiting
<1>3. ASSUME NEW c \in Client, LeavesWait(c) PROVE Preserved
  <2>1. TablesInv' /\ \A d \in Client : Entries(d)' = Entries(d)
    BY <1>1, <1>3, LeaveFacts, Zenon
  <2>2. DOMAIN replies' = Client
    BY <1>3, Zenon DEF LeavesWait, Receive, Timeout, Reset, Exit, RepliesInv
  <2>3. replies'[c] = replies[c] \/ replies'[c] = <<>>
        \/ (replies[c] # <<>> /\ replies'[c] = Tail(replies[c]))
    BY <1>3, Zenon DEF LeavesWait, Receive, Timeout, Reset, Exit, RepliesInv
  <2>4. IsQueue(<<>>)
    <3>1. <<>> \in Seq({})
      OBVIOUS
    <3> QED
      BY <3>1, Zenon DEF IsQueue
  <2>5. IsQueue(replies'[c])
    BY <2>3, <2>4, QueueFacts, Zenon DEF RepliesInv
  <2>6. RepliesInv'
    BY <1>3, <2>2, <2>5, LeaveFacts, Zenon DEF RepliesInv
  <2>7. ASSUME NEW d \in Client, Waiting(d)' PROVE Waiting(d) /\ keysAwaited'[d] = keysAwaited[d]
    BY <1>3, <2>7, LeaveFacts, Zenon DEF Waiting, InWait
  <2> QED
    BY <2>1, <2>6, <2>7, Zenon DEF CountCovered
<1>4. ASSUME NEW c \in Client, ClientCall(c) PROVE Preserved
  <2>1. /\ UNCHANGED <<waitingSockets, keysAwaited, open, gone, replies>>
        /\ \E q : requests' = [requests EXCEPT ![c] = Append(@, q)]
        /\ \A d \in Client : d # c => call'[d] = call[d]
    BY <1>4, Zenon DEF ClientCall, Set, Add, Get, DeleteKey, Check, Wait, GetNumKeys, Ask,
       WaitHelper, daemonVars, clientVars, Send, WireInv
  <2>2. requests \in [Client -> Seq(Asked)]
    BY Zenon DEF WireInv
  <2>3. \A q : Append(requests[c], q) # <<>>
    BY <2>2, QueueFacts, Zenon DEF IsQueue
  <2>4. requests'[c] # <<>> /\ \A d \in Client : d # c => requests'[d] = requests[d]
    BY <2>1, <2>2, <2>3, Zenon
  <2>5. ASSUME NEW d \in Client, Waiting(d)' PROVE Waiting(d)
    BY <2>1, <2>4, <2>5, Zenon DEF Waiting
  <2> QED
    BY <1>1, <2>1, <2>5, Zenon DEF RepliesInv, CountCovered
<1> QED
  BY <1>2, <1>3, <1>4, DaemonKeeps, Zenon DEF Next, LeavesWait

(* The tables are right at first,                                          *)
LEMMA TablesInit == Init => IInv
<1> SUFFICES ASSUME Init PROVE IInv
  BY Zenon
<1>1. \A k \in Key : DOMAIN waitingSockets[k] = {}
  BY DEF Init
<1>2. \A c \in Client : IsFiniteSet(Entries(c))
  BY <1>1, FS_EmptySet, Zenon DEF Entries
<1>3. ClosedIsForgotten
  BY <1>1, Zenon DEF Init, ClosedIsForgotten
<1>4. waitingSockets \in [Key -> Seq(Client)]
  BY DEF Init
<1>5. keysAwaited \in [Client -> 0 .. SizeT - 1]
  BY SizeFacts, Zenon DEF Init
<1>6. WireInv
  BY QueryFacts DEF Init, WireInv
<1>7. \A c \in Client : ~InWait(c)
  BY Zenon DEF Init, InWait, Idle, Query
<1>8. QueuedInv /\ CountCovered
  BY <1>7, Zenon DEF QueuedInv, CountCovered, Waiting, InWait
<1>9. <<>> \in Seq({})
  OBVIOUS
<1>10. RepliesInv
  BY <1>9, Zenon DEF Init, RepliesInv, IsQueue
<1> QED
  BY <1>2, <1>3, <1>4, <1>5, <1>6, <1>8, <1>10, Zenon DEF IInv, TablesInv

(* hence always.                                                           *)
LEMMA TablesKept == Spec => []IInv
<1>1. IInv /\ [Next]_vars => IInv'
  BY WireStep, QueuedStep, TablesStep, Zenon DEF IInv, Preserved
<1> QED
  BY <1>1, TablesInit, PTL DEF Spec

(* A socket that queryFds has closed is in none of the daemon's tables,    *)
(* whichever exception closed it and however many lists it was on: the     *)
(* client that is given the descriptor next starts with a clean count.     *)
THEOREM ClosedForgotten == Spec => []ClosedIsForgotten
BY TablesKept, PTL DEF IInv, TablesInv

(* The keysAwaited_ of a client that waits is not zero and not more than   *)
(* its entries in waitingSockets_, so that the keys it waits for can bring *)
(* it to zero, although the counts wrap round: after waits that timed out, *)
(* wake-ups that failed half way and sockets that were closed and reused.  *)
THEOREM CountIsCovered == Spec => []CountCovered
BY TablesKept, PTL DEF IInv
=============================================================================
