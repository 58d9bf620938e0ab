-------------------------- MODULE PrefixStoreProofs --------------------------
(***************************************************************************)
(* HashStore, for every set of threads and of keys: no wake-up is lost     *)
(* but those of add(), and HashStore implements Store.                     *)
(*                                                                         *)
(* PrefixStore in front of either store, for every set of clients, names   *)
(* and prefixes: it takes the steps of the store behind it and no others,  *)
(* so what holds of HashStore and of FileStore holds of it; and clients of *)
(* different prefixes never meet.                                          *)
(***************************************************************************)
EXTENDS PrefixStore, TLAPS

QueryType ==
  [op : Operation \cup {"IDLE"}, keys : SUBSET Key,
   val : SetValue \cup {1, None}]

(* Who sleeps, and what the call of a thread looks like.                   *)
CallInv ==
  /\ call \in [Client -> QueryType] /\ waiting \subseteq Client
  /\ \A c \in Client : /\ call[c].op = "IDLE" => call[c] = Idle
                       /\ call[c].op \in {"SET", "ADD", "GET", "DELETE_KEY"}
                            => call[c].keys # {}
                       /\ call[c].op \in {"SET", "ADD"}
                            => call[c].val \in SetValue \cup {1}
                       /\ call[c].op = "ADD" => call[c].val = 1
  /\ \A c \in waiting : call[c].op \in {"GET", "WAIT"}

(* A call in progress has no result yet.                                   *)
ResultInv ==
  /\ result = [c \in Client |-> result[c]]
  /\ \A c \in Client : call[c] # Idle => result[c] = None

----------------------------------------------------------------------------
(* Records of a query.                                                     *)
LEMMA QueryFacts ==
  \A o, K, v : /\ Query(o, K, v).op = o /\ Query(o, K, v).keys = K
               /\ Query(o, K, v).val = v
               /\ o # "IDLE" => Query(o, K, v) # Idle
  BY Zenon DEF Query, Idle

(* What EnterCall enters.                                                  *)
LEMMA Entered ==
  ASSUME NEW c \in Client, EnterCall(c)
  PROVE  \E q \in QueryType :
           /\ Enter(c, q) /\ q # Idle /\ q.op \in Operation
           /\ q.op \in {"SET", "ADD", "GET", "DELETE_KEY"} => q.keys # {}
           /\ q.op \in {"SET", "ADD"} => q.val \in SetValue \cup {1}
           /\ q.op = "ADD" => q.val = 1
<1> DEFINE P(q) == /\ Enter(c, q) /\ q # Idle /\ q.op \in Operation
                   /\ q.op \in {"SET", "ADD", "GET", "DELETE_KEY"} => q.keys # {}
                   /\ q.op \in {"SET", "ADD"} => q.val \in SetValue \cup {1}
                   /\ q.op = "ADD" => q.val = 1
<1>1. ASSUME NEW k \in Key, NEW v \in SetValue, Enter(c, Query("SET", {k}, v))
      PROVE  \E q \in QueryType : P(q)
  <2>1. Query("SET", {k}, v) \in QueryType
    BY Zenon DEF Query, QueryType, Operation
  <2> QED
    BY <1>1, <2>1, QueryFacts DEF Operation
<1>2. ASSUME NEW k \in Key, Enter(c, Query("ADD", {k}, 1))
      PROVE  \E q \in QueryType : P(q)
  <2>1. Query("ADD", {k}, 1) \in QueryType
    BY Zenon DEF Query, QueryType, Operation
  <2> QED
    BY <1>2, <2>1, QueryFacts DEF Operation
<1>3. ASSUME NEW o \in {"GET", "DELETE_KEY"}, NEW k \in Key,
             Enter(c, Query(o, {k}, None))
      PROVE  \E q \in QueryType : P(q)
  <2>1. Query(o, {k}, None) \in QueryType
    BY Zenon DEF Query, QueryType, Operation
  <2> QED
    BY <1>3, <2>1, QueryFacts DEF Operation
<1>4. ASSUME NEW o \in {"CHECK", "WAIT", "GETNUMKEYS"}, NEW K \in SUBSET Key,
             Enter(c, Query(o, K, None))
      PROVE  \E q \in QueryType : P(q)
  <2>1. Query(o, K, None) \in QueryType
    BY Zenon DEF Query, QueryType, Operation
  <2> QED
    BY <1>4, <2>1, QueryFacts DEF Operation
<1> QED
  BY <1>1, <1>2, <1>3, <1>4, ArgumentAssumption, Zenon DEF EnterCall

(* Every step keeps CallInv: a section leaves its call behind, or sleeps.  *)
LEMMA CallStep ==
  ASSUME CallInv, Next
  PROVE  CallInv'
<1> PICK c \in Client : \/ EnterCall(c) \/ Section(c) \/ Return(c)
                        \/ SpuriousWakeup(c) \/ TimedOut(c)
  BY Zenon DEF Next
<1>1. ASSUME NEW r, Leave(c, r), waiting' \subseteq waiting \ {c}
      PROVE  CallInv'
  <2>1. Idle \in QueryType /\ Idle.op = "IDLE"
    BY Zenon DEF Idle, Query, QueryType
  <2> QED
    BY <1>1, <2>1, Zenon DEF CallInv, Leave
<1>2. CASE EnterCall(c)
  <2>1. PICK q \in QueryType :
           /\ Enter(c, q) /\ q # Idle /\ q.op \in Operation
           /\ q.op \in {"SET", "ADD", "GET", "DELETE_KEY"} => q.keys # {}
           /\ q.op \in {"SET", "ADD"} => q.val \in SetValue \cup {1}
           /\ q.op = "ADD" => q.val = 1
    BY <1>2, Entered, Zenon
  <2>2. c \notin waiting /\ q.op # "IDLE"
    BY <2>1, QueryFacts DEF CallInv, Enter, Idle, Operation
  <2> QED
    BY <2>1, <2>2, Zenon DEF CallInv, Enter
<1>3. CASE Section(c)
  <2>1. c \notin waiting
    BY <1>3, Zenon DEF Section, set, add, getOrWait, getNumKeys, deleteKey, check,
       Locked
  <2>2. CASE getOrWait(c) /\ ~pred(c)
    BY <2>2, Zenon DEF getOrWait, CallInv, Locked
  <2>3. CASE ~(getOrWait(c) /\ ~pred(c))
    BY <1>1, <1>3, <2>1, <2>3, Zenon DEF Section, set, add, getOrWait, getNumKeys,
       deleteKey, check
  <2> QED
    BY <2>2, <2>3, Zenon
<1>4. CASE Return(c)
  BY <1>4, Zenon DEF Return, CallInv
<1>5. CASE SpuriousWakeup(c)
  BY <1>5, Zenon DEF SpuriousWakeup, CallInv
<1>6. CASE TimedOut(c)
  BY <1>1, <1>6, Zenon DEF TimedOut
<1> QED
  BY <1>2, <1>3, <1>4, <1>5, <1>6, Zenon

(* No call is made at first.                                               *)
LEMMA CallInit == Init => CallInv
<1>1. Idle \in QueryType /\ Idle.op = "IDLE"
  BY Zenon DEF Idle, Query, QueryType
<1> QED
  BY <1>1, Zenon DEF Init, CallInv

----------------------------------------------------------------------------
(* The map holds what set() was given and what add() computed.             *)
MapInv == \A k \in DOMAIN map : map[k] \in SetValue \cup Int

(* add() binds a number.                                                   *)
LEMMA Added ==
  ASSUME CallInv, MapInv, NEW c \in Client, add(c)
  PROVE  \/ UNCHANGED map
         \/ \E n \in Int : map' = Bind(map, TheKey(call[c]), n)
<1> DEFINE k == TheKey(call[c])
<1>1. call[c].val = 1
  BY Zenon DEF add, Locked, CallInv
<1>2. CASE CanAdd(map, k) /\ map' = Bind(map, k, Plus(map, k, call[c].val))
  <2>1. k \in DOMAIN map => map[k] \in Int
    BY <1>2, ValueAssumption, Zenon DEF CanAdd, MapInv
  <2> QED
    BY <1>1, <1>2, <2>1 DEF Plus
<1> QED
  BY <1>2, Zenon DEF add

(* Every step keeps the values in the map.                                 *)
LEMMA MapStep ==
  ASSUME CallInv, MapInv, Next
  PROVE  MapInv'
<1> PICK c \in Client : \/ EnterCall(c) \/ Section(c) \/ Return(c)
                        \/ SpuriousWakeup(c) \/ TimedOut(c)
  BY Zenon DEF Next
<1>1. CASE set(c)
  <2>1. call[c].val \in SetValue \cup Int
    BY <1>1 DEF set, Locked, CallInv
  <2> QED
    BY <1>1, <2>1, Zenon DEF set, Bind, MapInv
<1>2. CASE add(c)
  <2>1. ASSUME NEW n \in Int, map' = Bind(map, TheKey(call[c]), n)
        PROVE  MapInv'
    BY <2>1, Zenon DEF Bind, MapInv
  <2> QED
    BY <1>2, <2>1, Added, Zenon DEF MapInv
<1>3. CASE deleteKey(c)
  BY <1>3, Zenon DEF deleteKey, Unbind, MapInv
<1>4. CASE UNCHANGED map
  BY <1>4, Zenon DEF MapInv
<1> QED
  BY <1>1, <1>2, <1>3, <1>4, Zenon DEF EnterCall, Enter, Section, getOrWait, getNumKeys,
     check, Return, SpuriousWakeup, TimedOut

(* set() wakes everybody, and only add() supplies a key in another way.    *)
LEMMA SleeperStep ==
  ASSUME SetValue \cap Int = {}, CallInv, MapInv, SleepersLackKey, Next
  PROVE  SleepersLackKey'
<1> PICK c \in Client : \/ EnterCall(c) \/ Section(c) \/ Return(c)
                        \/ SpuriousWakeup(c) \/ TimedOut(c)
  BY Zenon DEF Next
<1>1. ASSUME NEW r, Leave(c, r), waiting' \subseteq waiting \ {c},
             \A j \in DOMAIN map' : j \in DOMAIN map /\ map'[j] = map[j]
      PROVE  SleepersLackKey'
  BY <1>1, Zenon DEF Leave, CallInv, SleepersLackKey, pred
<1>2. CASE EnterCall(c)
  <2>1. PICK q \in QueryType : Enter(c, q)
    BY <1>2, Entered, Zenon
  <2>2. c \notin waiting
    BY <2>1 DEF CallInv, Enter, Idle, Query
  <2> QED
    BY <2>1, <2>2, Zenon DEF Enter, CallInv, SleepersLackKey, pred
<1>3. CASE set(c)
  BY <1>3, Zenon DEF set, SleepersLackKey
<1>4. CASE add(c)
  <2> DEFINE k == TheKey(call[c])
  <2>1. CASE UNCHANGED map
    BY <1>1, <1>4, <2>1, Zenon DEF add, Locked
  <2>2. ASSUME NEW n \in Int, map' = Bind(map, k, n)
        PROVE  SleepersLackKey'
    <3>1. /\ DOMAIN map' = DOMAIN map \cup {k} /\ map'[k] = n
          /\ \A j \in DOMAIN map : j # k => map'[j] = map[j]
      BY <2>2, Zenon DEF Bind
    <3>2. n \notin SetValue
      BY <2>2, Zenon
    <3>3. \A d \in waiting' : d \in waiting /\ call'[d] = call[d]
      BY <1>4, Zenon DEF add, Locked, Leave, CallInv
    <3> QED
      BY <3>1, <3>2, <3>3, Zenon DEF SleepersLackKey, pred
  <2> QED
    BY <1>4, <2>1, <2>2, Added, Zenon
<1>5. CASE getOrWait(c)
  <2>1. c \notin waiting
    BY <1>5, Zenon DEF getOrWait, Locked
  <2>2. CASE pred(c)
    BY <1>1, <1>5, <2>1, <2>2, Zenon DEF getOrWait
  <2>3. CASE ~pred(c)
    BY <1>5, <2>3, Zenon DEF getOrWait, SleepersLackKey, pred
  <2> QED
    BY <2>2, <2>3, Zenon
<1>6. CASE getNumKeys(c) \/ check(c)
  BY <1>1, <1>6, Zenon DEF getNumKeys, check, Locked
<1>7. CASE deleteKey(c)
  <2>1. \A j \in DOMAIN map' : j \in DOMAIN map /\ map'[j] = map[j]
    BY <1>7, Zenon DEF deleteKey, Unbind
  <2> QED
    BY <1>1, <1>7, <2>1, Zenon DEF deleteKey, Locked
<1>8. CASE Return(c) \/ SpuriousWakeup(c)
  BY <1>8, Zenon DEF Return, SpuriousWakeup, SleepersLackKey, pred
<1>9. CASE TimedOut(c)
  BY <1>1, <1>9, Zenon DEF TimedOut
<1> QED
  BY <1>2, <1>3, <1>4, <1>5, <1>6, <1>7, <1>8, <1>9, Zenon DEF Section

(* No thread sleeps in get() or wait() on keys that are all there, unless  *)
(* add() wrote one of them: set() notifies every waiter (HashStore.cpp,    *)
(* set), add() none.  What add() writes is told by its being a number.     *)
THEOREM NoLostWakeup ==
  ASSUME SetValue \cap Int = {}
  PROVE  Spec => []SleepersLackKey
<1> DEFINE Inv == CallInv /\ MapInv /\ SleepersLackKey
<1>1. Init => Inv
  BY CallInit, Zenon DEF Init, SleepersLackKey, MapInv, EmptyMap
<1>2. Inv /\ [Next]_vars => Inv'
  <2>1. CASE Next
    BY <2>1, CallStep, MapStep, SleeperStep, Zenon
  <2>2. CASE UNCHANGED vars
    BY <2>2, Zenon DEF vars, CallInv, MapInv, SleepersLackKey, pred
  <2> QED
    BY <2>1, <2>2, Zenon
<1>3. Inv => SleepersLackKey
  BY Zenon
<1> QED
  BY <1>1, <1>2, <1>3, PTL DEF Spec

----------------------------------------------------------------------------
(* The refinement.                                                         *)

(* The calls that Store has not applied yet.                               *)
AllSent ==
  [c \in Client |-> IF call[c] = Idle THEN <<>> ELSE <<call[c]>>]

RInv == CallInv /\ ResultInv

(* Store's operators on maps and queries are those of HashStore.           *)
LEMMA SameOperators ==
  /\ \A q : Abs!TheKey(q) = TheKey(q)
  /\ \A m, k, v : Abs!Bind(m, k, v) = Bind(m, k, v)
  /\ \A m, k : Abs!Unbind(m, k) = Unbind(m, k)
  /\ \A m, k : Abs!CanAdd(m, k) <=> CanAdd(m, k)
  /\ \A m, k, n : Abs!Plus(m, k, n) = Plus(m, k, n)
  /\ \A b : Abs!Truth(b) = Truth(b)
  /\ \A o, K, v : Abs!Query(o, K, v) = Query(o, K, v)
  /\ \A S : Abs!Cardinality(S) = Cardinality(S)
<1>1. \A q : Abs!TheKey(q) = TheKey(q)
  BY Zenon DEF Abs!TheKey, TheKey
<1>2. /\ \A m, k, v : Abs!Bind(m, k, v) = Bind(m, k, v)
      /\ \A m, k : Abs!Unbind(m, k) = Unbind(m, k)
  BY Zenon DEF Abs!Bind, Bind, Abs!Unbind, Unbind
<1>3. /\ \A m, k : Abs!CanAdd(m, k) <=> CanAdd(m, k)
      /\ \A m, k, n : Abs!Plus(m, k, n) = Plus(m, k, n)
  BY Zenon DEF Abs!CanAdd, CanAdd, Abs!Plus, Plus
<1>4. \A b : Abs!Truth(b) = Truth(b)
  BY Zenon DEF Abs!Truth, Truth
<1>5. \A o, K, v : Abs!Query(o, K, v) = Query(o, K, v)
  BY Zenon DEF Abs!Query, Query
<1>6. \A S : Abs!Cardinality(S) = Cardinality(S)
  BY Zenon DEF Abs!Cardinality, Cardinality
<1> QED
  BY <1>1, <1>2, <1>3, <1>4, <1>5, <1>6, Zenon

(* A result is there only between the end of a call and its return.        *)
LEMMA ResultStep ==
  ASSUME CallInv, ResultInv, Next
  PROVE  ResultInv'
<1> PICK c \in Client : \/ EnterCall(c) \/ Section(c) \/ Return(c)
                        \/ SpuriousWakeup(c) \/ TimedOut(c)
  BY DEF Next
<1>1. ASSUME NEW r, Leave(c, r)
      PROVE  ResultInv'
  BY <1>1, Zenon DEF Leave, CallInv, ResultInv
<1>2. CASE EnterCall(c)
  BY <1>2, Entered, Zenon DEF Enter, CallInv, ResultInv
<1>3. CASE Section(c)
  BY <1>1, <1>3, Zenon DEF Section, set, add, getOrWait, getNumKeys, deleteKey, check,
     ResultInv
<1>4. CASE Return(c) \/ SpuriousWakeup(c)
  BY <1>4, Zenon DEF Return, SpuriousWakeup, ResultInv
<1>5. CASE TimedOut(c)
  BY <1>1, <1>5, Zenon DEF TimedOut
<1> QED
  BY <1>2, <1>3, <1>4, <1>5, Zenon

(* A get() or wait() that has found its keys is applied.                   *)
LEMMA FoundApplies ==
  ASSUME RInv, NEW c \in Client, call[c].op \in {"GET", "WAIT"}, pred(c),
         Leave(c, Found(c)), UNCHANGED map
  PROVE  Abs!Apply(c)
<1>1. call[c] # Idle /\ result[c] = None
  BY QueryFacts DEF Idle, RInv, ResultInv
<1>2. /\ AllSent[c] = <<call[c]>>
      /\ AllSent' = [AllSent EXCEPT ![c] = <<>>]
  BY <1>1, Zenon DEF Leave, AllSent, RInv, CallInv
<1>3. \A q : /\ <<q>> # <<>> /\ Head(<<q>>) = q /\ Tail(<<q>>) = <<>>
  OBVIOUS
<1>4. CASE call[c].op = "GET"
  <2>1. TheKey(call[c]) \in DOMAIN map
    BY <1>4, Zenon DEF RInv, CallInv, pred, TheKey
  <2> QED
    BY SameOperators, <1>2, <1>3, <1>4, <2>1, Zenon DEF Abs!Apply, Leave, Found, AllSent
<1>5. CASE call[c].op = "WAIT"
  BY SameOperators, <1>1, <1>2, <1>3, <1>5, Zenon DEF Abs!Apply, Leave, Found, AllSent,
     RInv, ResultInv, pred
<1> QED
  BY <1>4, <1>5, Zenon

(* One step of HashStore is a step of Store, or none.                      *)
LEMMA RefinementStep ==
  ASSUME RInv, Next
  PROVE  Abs!SNext \/ UNCHANGED <<map, AllSent, result>>
<1> PICK c \in Client : \/ EnterCall(c) \/ Section(c) \/ Return(c)
                        \/ SpuriousWakeup(c) \/ TimedOut(c)
  BY DEF Next
<1>1. ASSUME NEW r, Leave(c, r), call[c] # Idle
      PROVE  /\ AllSent[c] = <<call[c]>>
             /\ AllSent' = [AllSent EXCEPT ![c] = <<>>]
  BY <1>1, Zenon DEF Leave, AllSent, RInv, CallInv
<1>2. \A q : /\ <<q>> # <<>> /\ Head(<<q>>) = q /\ Tail(<<q>>) = <<>>
             /\ Append(<<>>, q) = <<q>>
  OBVIOUS
<1>3. CASE EnterCall(c)
  <2>1. PICK q \in QueryType : Enter(c, q) /\ q # Idle /\ q.op \in Operation
    BY <1>3, Entered, Zenon
  <2>2. /\ AllSent[c] = <<>> /\ result[c] = None
        /\ AllSent' = [AllSent EXCEPT ![c] = Append(@, q)]
    BY <1>2, <2>1, Zenon DEF Enter, AllSent, RInv, CallInv
  <2>3. PICK op \in Operation, keys \in SUBSET Key,
             val \in SetValue \cup {1, None} : q = Query(op, keys, val)
    BY <2>1, Zenon DEF QueryType, Query
  <2>4. op \in Abs!Operation /\ q = Abs!Query(op, keys, val)
    BY SameOperators, <2>3, Zenon DEF Abs!Operation, Operation
  <2>5. ~Abs!Blocked(c)
    BY <2>2 DEF Abs!Blocked, AllSent
  <2>6. val \in SetValue \cup {1} \cup {None}
    BY <2>3, Zenon
  <2>7. \E o \in Abs!Operation, K \in SUBSET Key,
           v \in SetValue \cup {1} \cup {None} :
          AllSent' = [AllSent EXCEPT ![c] = Append(@, Abs!Query(o, K, v))]
    BY <2>2, <2>4, <2>6, Zenon
  <2>8. UNCHANGED <<map, result>>
    BY <2>1, Zenon DEF Enter
  <2>9. AllSent' # AllSent
    <3>1. AllSent'[c] = <<q>>
      BY <1>2, <2>2, Zenon DEF AllSent
    <3> QED
      BY <1>2, <2>2, <3>1, Zenon
  <2>10. Abs!Submit(c)
    BY <2>5, <2>7, <2>8, <2>9, Zenon DEF Abs!Submit, AllSent
  <2> QED
    BY <2>10, Zenon DEF Abs!SNext
<1>4. CASE set(c)
  <2>1. call[c].op = "SET" /\ call[c] # Idle /\ result[c] = None
    BY <1>4, QueryFacts DEF set, Locked, Idle, RInv, ResultInv
  <2>2. Abs!Apply(c)
    BY SameOperators, <1>1, <1>2, <1>4, <2>1, Zenon DEF set, Abs!Apply, Leave,
       AllSent, RInv, ResultInv
  <2> QED
    BY <2>2, Zenon DEF Abs!SNext
<1>5. CASE add(c)
  <2>1. call[c].op = "ADD" /\ call[c] # Idle /\ result[c] = None
    BY <1>5, QueryFacts DEF add, Locked, Idle, RInv, ResultInv
  <2>2. CASE CanAdd(map, TheKey(call[c]))
    <3>1. Abs!Apply(c)
      BY SameOperators, <1>1, <1>2, <1>5, <2>1, <2>2, Zenon DEF add, Abs!Apply, Leave,
         AllSent
    <3> QED
      BY <3>1 DEF Abs!SNext
  <2>3. CASE ~CanAdd(map, TheKey(call[c]))
    <3>1. Abs!Fail(c)
      BY SameOperators, <1>1, <1>2, <1>5, <2>1, <2>3, Zenon DEF add, Abs!Fail, Leave,
         AllSent, RInv, ResultInv
    <3> QED
      BY <3>1, Zenon DEF Abs!SNext
  <2> QED
    BY <2>2, <2>3, Zenon
<1>6. CASE getOrWait(c)
  <2>1. CASE ~pred(c)
    BY <1>6, <2>1, Zenon DEF getOrWait, AllSent
  <2>2. CASE pred(c)
    <3>1. call[c].op \in {"GET", "WAIT"}
      BY <1>6, Zenon DEF getOrWait, Locked
    <3>2. Abs!Apply(c)
      BY <1>6, <2>2, <3>1, FoundApplies, Zenon DEF getOrWait
    <3> QED
      BY <3>2 DEF Abs!SNext
  <2> QED
    BY <2>1, <2>2, Zenon
<1>7. CASE getNumKeys(c)
  <2>1. call[c].op = "GETNUMKEYS" /\ call[c] # Idle /\ result[c] = None
    BY <1>7, QueryFacts DEF getNumKeys, Locked, Idle, RInv, ResultInv
  <2>2. Abs!Apply(c)
    BY SameOperators, <1>1, <1>2, <1>7, <2>1, Zenon DEF getNumKeys, Abs!Apply, Leave,
       AllSent, RInv, ResultInv
  <2> QED
    BY <2>2 DEF Abs!SNext
<1>8. CASE check(c)
  <2>1. call[c].op = "CHECK" /\ call[c] # Idle /\ result[c] = None
    BY <1>8, QueryFacts DEF check, Locked, Idle, RInv, ResultInv
  <2>2. Abs!Apply(c)
    BY SameOperators, <1>1, <1>2, <1>8, <2>1, Zenon DEF check, Abs!Apply, Leave,
       AllSent, RInv, ResultInv, pred
  <2> QED
    BY <2>2 DEF Abs!SNext
<1>9. CASE deleteKey(c)
  <2>1. call[c].op = "DELETE_KEY" /\ call[c] # Idle /\ result[c] = None
    BY <1>9, QueryFacts DEF deleteKey, Locked, Idle, RInv, ResultInv
  <2>2. Abs!Apply(c)
    BY SameOperators, <1>1, <1>2, <1>9, <2>1, Zenon DEF deleteKey, Abs!Apply, Leave,
       AllSent, RInv, ResultInv
  <2> QED
    BY <2>2 DEF Abs!SNext
<1>10. CASE Return(c)
  BY <1>10, Zenon DEF Return, Abs!SNext, Abs!Return, AllSent
<1>11. CASE SpuriousWakeup(c)
  BY <1>11, Zenon DEF SpuriousWakeup, AllSent
<1>12. CASE TimedOut(c)
  <2>1. /\ call[c].op \in {"GET", "WAIT"} /\ call[c] # Idle
        /\ result[c] = None
    BY <1>12, QueryFacts DEF TimedOut, Idle, RInv, CallInv, ResultInv
  <2>2. CASE pred(c)
    <3>1. Abs!Apply(c)
      BY <1>12, <2>1, <2>2, FoundApplies, Zenon DEF TimedOut
    <3> QED
      BY <3>1 DEF Abs!SNext
  <2>3. CASE ~pred(c)
    <3>1. Abs!Fail(c)
      BY <1>1, <1>2, <1>12, <2>1, <2>3, Zenon DEF TimedOut, Abs!Fail, Leave, AllSent,
         RInv, ResultInv, pred
    <3> QED
      BY <3>1 DEF Abs!SNext
  <2> QED
    BY <2>2, <2>3, Zenon
<1> QED
  BY <1>3, <1>4, <1>5, <1>6, <1>7, <1>8, <1>9, <1>10, <1>11, <1>12, Zenon DEF Section

(* HashStore implements Store: every critical section under m_ is one call *)
(* applied to the map, or a call that fails without a trace, and a get()   *)
(* or wait() that times out has not found its keys (wait_for returns the   *)
(* predicate).                                                             *)
THEOREM Refinement == Spec => ImplementsStore
<1>1. Init => RInv
  <2>1. Init => ResultInv
    BY Zenon DEF Init, ResultInv
  <2> QED
    BY <2>1, CallInit, Zenon DEF RInv
<1>2. RInv /\ [Next]_vars => RInv'
  <2>1. CASE RInv /\ Next
    BY <2>1, CallStep, ResultStep, Zenon DEF RInv
  <2>2. CASE RInv /\ UNCHANGED vars
    BY <2>2, Zenon DEF vars, RInv, CallInv, ResultInv
  <2> QED
    BY <2>1, <2>2, Zenon
<1>3. Init => Abs!SInit
  <2>1. Abs!EmptyMap = EmptyMap
    BY Zenon DEF Abs!EmptyMap, EmptyMap
  <2> QED
    BY <2>1, Zenon DEF Init, Abs!SInit
<1>4. RInv /\ [Next]_vars => [Abs!SNext]_(Abs!svars)
  <2>1. CASE RInv /\ Next
    BY <2>1, RefinementStep, Zenon DEF Abs!svars, AllSent
  <2>2. CASE UNCHANGED vars
    BY <2>2, Zenon DEF vars, Abs!svars
  <2> QED
    BY <2>1, <2>2, Zenon
<1> QED
  BY <1>1, <1>2, <1>3, <1>4, PTL DEF Spec, ImplementsStore, Abs!SSpec

----------------------------------------------------------------------------
(* PrefixStore.                                                            *)

(* The keys of a prefix are keys, and none of them is the cleanup key.     *)
LEMMA JoinedKeys ==
  ASSUME prefix_ \in [Client -> Prefix], NEW c \in Client
  PROVE  Joined(c) \subseteq Key /\ CleanupKey \notin Joined(c)
<1>1. Joined(c) = {join(prefix_[c], n) : n \in Names[prefix_[c]]} /\ prefix_[c] \in Prefix
  BY Zenon DEF Joined, joinKeys, joinKey
<1>2. Key = UNION {{join(p, n) : n \in Names[p]} : p \in Prefix}
  BY PrefixAssumption, Zenon
<1>3. Joined(c) \subseteq Key
  <2>1. Joined(c) \in {{join(p, n) : n \in Names[p]} : p \in Prefix}
    BY <1>1, Zenon
  <2> QED
    BY <1>2, <2>1, Zenon
<1> QED
  BY <1>3, FileAssumption, Zenon

(* A string begins what it is joined with.                                 *)
LEMMA Begins ==
  \A s \in Seq(Char) : \A n \in Seq(Char) : \A i \in DOMAIN s : (s \o n)[i] = s[i]
OBVIOUS

(* Prefixes that have a joined key in common are nested.                   *)
LEMMA CommonKey ==
  ASSUME prefix_ \in [Client -> Prefix], NEW c \in Client, NEW d \in Client,
         NEW k \in Joined(c), k \in Joined(d)
  PROVE  Nested(prefix_[c], prefix_[d])
<1> DEFINE p == prefix_[c]
           q == prefix_[d]
           s == p \o <<"/">>
           t == q \o <<"/">>
<1>1. PICK n \in Names[p] : k = s \o n
  BY Zenon DEF Joined, joinKeys, joinKey, join
<1>2. PICK m \in Names[q] : k = t \o m
  BY Zenon DEF Joined, joinKeys, joinKey, join
<1>3. p \in Seq(Char) /\ q \in Seq(Char) /\ n \in Seq(Char) /\ m \in Seq(Char)
  BY <1>1, <1>2, PrefixAssumption, Zenon
<1> HIDE DEF p, q
<1>4. s \in Seq(Char) /\ t \in Seq(Char)
  BY <1>3, PrefixAssumption
<1>5. s \o n = t \o m
  BY <1>1, <1>2, Zenon
<1> HIDE DEF s, t
<1>6. ASSUME NEW i \in DOMAIN s \cap DOMAIN t PROVE s[i] = t[i]
  <2>1. (s \o n)[i] = s[i] /\ (t \o m)[i] = t[i]
    BY <1>3, <1>4, <1>6, Begins, Zenon
  <2> QED
    BY <1>5, <2>1, Zenon
<1> QED
  BY <1>6, Zenon DEF Nested, s, t, p, q

----------------------------------------------------------------------------
(* The prefixes.                                                           *)

(* A thread in front of a HashStore names keys of its own prefix only.     *)
PrefixInv ==
  /\ prefix_ \in [Client -> Prefix]
  /\ \A c \in Client : call[c].keys \subseteq Joined(c)

(* A step of PrefixStore is one of HashStore, or leaves that alone.        *)
LEMMA HashSteps ==
  ASSUME [PNext]_pvars
  PROVE  [Next]_vars
  BY Zenon DEF PNext, pvars, HashStep, FileStep, HashCall, Next

(* The keys a section of HashStore changes.                                *)
LEMMA MapChanges ==
  ASSUME CallInv, NEW c \in Client, call[c] # Idle,
         Section(c) \/ TimedOut(c), NEW k, k \notin call[c].keys
  PROVE  /\ k \in DOMAIN map' <=> k \in DOMAIN map
         /\ k \in DOMAIN map => map'[k] = map[k]
<1>1. call[c].op \in {"SET", "ADD", "DELETE_KEY"} =>
        TheKey(call[c]) \in call[c].keys
  BY Zenon DEF CallInv, TheKey
<1>2. CASE set(c)
  BY <1>1, <1>2, Zenon DEF set, Locked, Bind
<1>3. CASE add(c)
  BY <1>1, <1>3, Zenon DEF add, Locked, Bind
<1>4. CASE deleteKey(c)
  BY <1>1, <1>4, Zenon DEF deleteKey, Locked, Unbind
<1>5. CASE UNCHANGED map
  BY <1>5, Zenon
<1> QED
  BY <1>2, <1>3, <1>4, <1>5, Zenon DEF Section, getOrWait, getNumKeys, check, TimedOut

(* HashCall joins the prefix to every key; nothing else names a key.       *)
LEMMA PrefixStep ==
  ASSUME CallInv, PrefixInv, [PNext]_pvars
  PROVE  PrefixInv'
<1>1. \A c \in Client : prefix_' = prefix_ /\ Joined(c)' = Joined(c)
  BY Zenon DEF PNext, HashStep, FileStep, pvars, Joined, joinKeys, joinKey
<1>2. prefix_' = prefix_
  BY Zenon DEF PNext, HashStep, FileStep, pvars
<1>3. CASE UNCHANGED call
  BY <1>1, <1>2, <1>3, Zenon DEF PrefixInv
<1>4. ASSUME NEW c \in Client, HashStep(c)
      PROVE  PrefixInv'
  <2>1. CASE HashCall(c)
    <3>1. PICK q : call' = [call EXCEPT ![c] = q]
      BY <2>1, Entered, Zenon DEF HashCall, Enter
    <3>2. call'[c].keys \subseteq Joined(c)
      BY <2>1, Zenon DEF HashCall
    <3> QED
      BY <1>1, <1>2, <3>1, <3>2, Zenon DEF PrefixInv, CallInv
  <2>2. ASSUME NEW r, Leave(c, r)
        PROVE  PrefixInv'
    <3>1. call' = [call EXCEPT ![c] = Idle] /\ Idle.keys = {}
      BY <2>2, Zenon DEF Leave, Idle, Query
    <3> QED
      BY <1>1, <1>2, <3>1, Zenon DEF PrefixInv, CallInv
  <2> QED
    BY <1>3, <1>4, <2>1, <2>2, Zenon
       DEF HashStep, Section, set, add, getOrWait, getNumKeys,
       deleteKey, check, Return, SpuriousWakeup, TimedOut
<1> QED
  BY <1>3, <1>4, Zenon DEF PNext, FileStep, pvars, vars

(* A key changes only when a call of a prefix nested with its own ends.    *)
Apart ==
  \A c \in Client : \A k \in Joined(c) : ValueOf(k)' # ValueOf(k) =>
    \E d \in Client : /\ Nested(prefix_[c], prefix_[d])
                      /\ call[d] # call'[d] \/ fcall[d] # fcall'[d]

(* That is so when the keys that change are keys of the client that acts.  *)
LEMMA OwnKeys ==
  ASSUME prefix_ \in [Client -> Prefix], NEW c \in Client,
         call[c] # call'[c] \/ fcall[c] # fcall'[c],
         \A k \in Key : ValueOf(k)' # ValueOf(k) => k \in Joined(c)
  PROVE  Apart
<1> SUFFICES ASSUME NEW d \in Client, NEW k \in Joined(d), ValueOf(k)' # ValueOf(k)
             PROVE  Nested(prefix_[d], prefix_[c])
  BY Zenon DEF Apart
<1>1. k \in Joined(c)
  BY JoinedKeys, Zenon
<1> QED
  BY <1>1, CommonKey, Zenon

(* A step of HashStore, by the key that the call it ends has named.        *)
LEMMA HashApart ==
  ASSUME CallInv, PrefixInv, NEW c \in Client, HashStep(c)
  PROVE  Apart
<1>1. /\ store_ = "HashStore" /\ store_' = store_
      /\ \A k : ValueOf(k) = IF k \in DOMAIN map THEN map[k] ELSE None
      /\ \A k : ValueOf(k)' = IF k \in DOMAIN map' THEN map'[k] ELSE None
  BY Zenon DEF HashStep, ValueOf
<1>2. CASE UNCHANGED map
  BY <1>1, <1>2, Zenon DEF Apart
<1>3. CASE ~UNCHANGED map
  <2>1. Section(c) \/ TimedOut(c)
    BY <1>3, Zenon
       DEF HashStep, HashCall, EnterCall, Enter, Return, SpuriousWakeup
  <2>2. call[c].op \in {"SET", "ADD", "DELETE_KEY"} /\ \E r : Leave(c, r)
    BY <1>3, <2>1, Zenon
       DEF Section, set, add, getOrWait, getNumKeys, deleteKey, check,
       TimedOut, Locked
  <2>3. call[c] # Idle /\ call'[c] = Idle
    <3>1. call[c].op # "IDLE"
      BY <2>2, Zenon
    <3>2. call[c] # Idle
      BY <3>1 DEF Idle, Query
    <3>3. call' = [call EXCEPT ![c] = Idle] /\ call = [d \in Client |-> call[d]]
      BY <2>2, Zenon DEF Leave, CallInv
    <3> QED
      BY <3>2, <3>3, Zenon
  <2>4. ASSUME NEW k \in Key, ValueOf(k)' # ValueOf(k)
        PROVE  k \in Joined(c)
    <3>1. k \in call[c].keys
      BY <1>1, <2>1, <2>3, <2>4, MapChanges, Zenon
    <3> QED
      BY <3>1, Zenon DEF PrefixInv
  <2> QED
    BY <2>3, <2>4, OwnKeys, Zenon DEF PrefixInv
<1> QED
  BY <1>2, <1>3, Zenon

(* A client in front of a FileStore names keys of its own prefix only,     *)
(* until its destructor runs.                                              *)
FilePrefixInv ==
  \A c \in Client : c \notin closed => fcall[c].keys \subseteq Joined(c)

(* What FileStore makes of a call: it enters one, goes on, or leaves it.   *)
LEMMA FilePrefixStep ==
  ASSUME PrefixInv, FilePrefixInv, fcall = [c \in Client |-> fcall[c]],
         [PNext]_pvars
  PROVE  FilePrefixInv'
<1>1. \A c \in Client : Joined(c)' = Joined(c)
  BY Zenon DEF PNext, HashStep, FileStep, pvars, Joined, joinKeys, joinKey
<1>2. CASE UNCHANGED fvars
  BY <1>1, <1>2, Zenon DEF FilePrefixInv, fvars
<1>3. ASSUME NEW c \in Client, NEW q,
             fcall' = [fcall EXCEPT ![c] = q], closed \subseteq closed',
             c \notin closed' => q.keys \subseteq Joined(c)
      PROVE  FilePrefixInv'
  <2>1. \A d \in Client : fcall'[d] = IF d = c THEN q ELSE fcall[d]
    BY <1>3, Zenon
  <2> QED
    BY <1>1, <1>3, <2>1, Zenon DEF FilePrefixInv
<1>4. ASSUME NEW c \in Client, NEW r, F!Leave(c, r), UNCHANGED closed
      PROVE  FilePrefixInv'
  <2>1. fcall' = [fcall EXCEPT ![c] = F!Idle] /\ F!Idle.keys = {}
    BY <1>4, Zenon DEF F!Leave, F!Idle, F!Query
  <2> QED
    BY <1>3, <1>4, <2>1, Zenon
<1>5. ASSUME UNCHANGED <<fcall, closed>>
      PROVE  FilePrefixInv'
  BY <1>1, <1>5, Zenon DEF FilePrefixInv
<1>6. ASSUME NEW c \in Client, FileCall(c)
      PROVE  FilePrefixInv'
  <2>1. \A o, K, v : F!Query(o, K, v).keys = K
    BY Zenon DEF F!Query
  <2>2. PICK K \in SUBSET Joined(c) : \E o, v : F!Enter(c, F!Query(o, K, v))
    <3>1. /\ {} \in SUBSET Joined(c)
          /\ \A k \in Joined(c) : {k} \in SUBSET Joined(c)
      BY Zenon
    <3> QED
      BY <1>6, <3>1, Zenon DEF FileCall, F!EnterCall
  <2>3. PICK q : F!Enter(c, q) /\ q.keys = K
    BY <2>1, <2>2, Zenon
  <2>4. fcall' = [fcall EXCEPT ![c] = q] /\ closed' = closed
    BY <2>3, Zenon DEF F!Enter
  <2> QED
    BY <1>3, <2>3, <2>4, Zenon
<1>7. ASSUME NEW c \in Client, F!Close(c)
      PROVE  FilePrefixInv'
  BY <1>3, <1>7, Zenon DEF F!Close
<1>8. ASSUME NEW c \in Client, F!FileStep(c), ~F!Close(c)
      PROVE  \/ UNCHANGED <<fcall, closed>>
             \/ UNCHANGED closed /\ \E r : F!Leave(c, r)
  BY <1>8, Zenon DEF F!FileStep, F!Section, F!OpenCreates, F!set, F!addHelper, F!get,
     F!check, F!wait, F!getNumKeys, F!deleteKey, F!OpenTimesOut, F!Return
<1> QED
  BY <1>2, <1>4, <1>5, <1>6, <1>7, <1>8, Zenon DEF PNext, pvars, HashStep, FileStep

----------------------------------------------------------------------------
(* The steps of FileStore.                                                 *)
P == INSTANCE FileStoreProofs WITH call <- fcall, result <- fresult

(* PrefixStore assumes what the proofs about FileStore do.                 *)
LEMMA Assumed == P!FileAssumption
  BY FileAssumption, ArgumentAssumption, ValueAssumption
     DEF P!FileAssumption, IsFiniteSet, P!IsFiniteSet

(* The module of those proofs brings FileStore with it a second time: its  *)
(* operators are the same ones.                                            *)
LEMMA FileOperators ==
  /\ \A q : F!TheKey(q) = P!TheKey(q)
  /\ \A o, K, v : F!Query(o, K, v) = P!Query(o, K, v)
  /\ F!Idle = P!Idle
  /\ \A m, k, v : F!Bind(m, k, v) = P!Bind(m, k, v)
  /\ \A b : F!Truth(b) = P!Truth(b)
  /\ F!EmptyMap = P!EmptyMap
  /\ F!numWorkers = P!numWorkers
<1>1. F!Cardinality(Client) = P!Cardinality(Client)
  BY Zenon DEF F!Cardinality, P!Cardinality, F!IsFiniteSet, P!IsFiniteSet
<1>2. \A o, K, v : F!Query(o, K, v) = P!Query(o, K, v)
  BY Zenon DEF F!Query, P!Query
<1>3. \A q : F!TheKey(q) = P!TheKey(q)
  BY Zenon DEF F!TheKey, P!TheKey
<1>4. \A m, k, v : F!Bind(m, k, v) = P!Bind(m, k, v)
  BY Zenon DEF F!Bind, P!Bind
<1>5. F!EmptyMap = P!EmptyMap
  BY Zenon DEF F!EmptyMap, P!EmptyMap
<1>6. \A b : F!Truth(b) = P!Truth(b)
  BY Zenon DEF F!Truth, P!Truth
<1> QED
  BY <1>1, <1>2, <1>3, <1>4, <1>5, <1>6, Zenon
     DEF F!Idle, P!Idle, F!numWorkers, P!numWorkers

(* What is read of the file, and the map it holds.                         *)
LEMMA FileReads ==
  /\ \A s, k : F!Latest(s, k) = P!Latest(s, k)
  /\ \A s : F!KeysOf(s) = P!KeysOf(s)
  /\ \A c : F!Refreshed(c) = P!Refreshed(c)
  /\ \A c : F!HasKeys(c) <=> P!HasKeys(c)
  /\ F!Contents = P!Contents /\ F!Contents' = P!Contents'
<1>1. \A s, k : F!Latest(s, k) = P!Latest(s, k)
  BY Zenon DEF F!Latest, P!Latest, F!Max, P!Max
<1>2. \A s : F!KeysOf(s) = P!KeysOf(s)
  BY Zenon DEF F!KeysOf, P!KeysOf
<1>3. \A c : F!Refreshed(c) = P!Refreshed(c)
  BY <1>1, <1>2 DEF F!Refreshed, P!Refreshed
<1>4. F!Contents = P!Contents /\ F!Contents' = P!Contents'
  BY <1>1, <1>2 DEF F!Contents, P!Contents
<1> QED
  BY <1>1, <1>2, <1>3, <1>4, Zenon DEF F!HasKeys, P!HasKeys

(* Every step of a process is one there.                                   *)
LEMMA FileActions ==
  ASSUME NEW c \in Client
  PROVE  F!FileStep(c) => P!FileStep(c)
<1>1. /\ \A o : F!Locked(c, o) <=> P!Locked(c, o)
      /\ \A r : F!Leave(c, r) <=> P!Leave(c, r)
      /\ \A m : F!refresh(c, m) <=> P!refresh(c, m)
  BY FileOperators, Zenon
     DEF F!Locked, P!Locked, F!Leave, P!Leave, F!refresh, P!refresh
<1>2. F!set(c) => P!set(c)
  BY <1>1, FileOperators DEF F!set, P!set
<1>3. F!addHelper(c) => P!addHelper(c)
  BY <1>1, FileOperators, FileReads, Zenon DEF F!addHelper, P!addHelper
<1>4. F!get(c) => P!get(c)
  BY <1>1, FileOperators, FileReads, Zenon DEF F!get, P!get
<1>5. F!check(c) => P!check(c)
  BY <1>1, FileOperators, FileReads, Zenon DEF F!check, P!check
<1>6. F!wait(c) => P!wait(c)
  BY <1>1, FileReads, Zenon DEF F!wait, P!wait
<1>7. F!getNumKeys(c) => P!getNumKeys(c)
  <2>1. \A S : F!Cardinality(S) = P!Cardinality(S)
    BY Zenon DEF F!Cardinality, P!Cardinality, F!IsFiniteSet, P!IsFiniteSet
  <2> QED
    BY <1>1, <2>1, FileReads, Zenon DEF F!getNumKeys, P!getNumKeys
<1>8. F!OpenCreates(c) => P!OpenCreates(c)
  BY Zenon DEF F!OpenCreates, P!OpenCreates
<1>9. F!OpenTimesOut(c) => P!OpenTimesOut(c)
  BY <1>1, Zenon DEF F!OpenTimesOut, P!OpenTimesOut
<1>10. F!deleteKey(c) => P!deleteKey(c)
  BY <1>1, Zenon DEF F!deleteKey, P!deleteKey
<1>11. F!Close(c) => P!Close(c)
  BY FileOperators, Zenon DEF F!Close, P!Close
<1>12. F!Return(c) => P!Return(c)
  BY FileOperators, Zenon DEF F!Return, P!Return
<1>13. F!Section(c) => P!Section(c)
  BY <1>2, <1>3, <1>4, <1>5, <1>6, <1>7, <1>8, <1>10, Zenon
     DEF F!Section, P!Section
<1> QED
  BY <1>9, <1>11, <1>12, <1>13, Zenon DEF F!FileStep, P!FileStep

(* A call by way of a prefix is one that FileStore could get from anybody. *)
LEMMA FileCalls ==
  ASSUME prefix_ \in [Client -> Prefix], NEW c \in Client, FileCall(c)
  PROVE  P!EnterCall(c, Key, WaitKeys)
<1>1. Joined(c) \subseteq Key
  BY JoinedKeys
<1>2. \A q : F!Enter(c, q) <=> P!Enter(c, q)
  BY FileOperators, Zenon DEF F!Enter, P!Enter
<1>3. \A k : F!MayAdd(k) => P!MayAdd(k)
  BY FileReads, Zenon DEF F!MayAdd, P!MayAdd
<1>4. F!EnterCall(c, Joined(c), WaitKeys \cap SUBSET Joined(c))
  BY Zenon DEF FileCall
<1> QED
  BY <1>1, <1>2, <1>3, <1>4, FileOperators, Zenon DEF F!EnterCall, P!EnterCall

(* A step of PrefixStore is one of FileStore, or leaves that alone.        *)
LEMMA FileSteps ==
  ASSUME prefix_ \in [Client -> Prefix]
  PROVE  /\ \A c \in Client : FileStep(c) => P!ProcessStep(c)
         /\ [PNext]_pvars => [P!FileNext]_P!fileVars
<1>1. \A c \in Client : FileStep(c) => P!ProcessStep(c)
  BY FileCalls, FileActions DEF FileStep, P!ProcessStep
<1>2. UNCHANGED fvars => UNCHANGED P!fileVars
  BY Zenon DEF fvars, P!fileVars
<1> QED
  BY <1>1, <1>2 DEF PNext, pvars, HashStep, P!FileNext

(* A step of FileStore, by the key of the entry it appends.                *)
LEMMA FileApart ==
  ASSUME P!FInv, PrefixInv, FilePrefixInv, NEW c \in Client, FileStep(c)
  PROVE  Apart
<1>1. store_ = "FileStore" /\ store_' = store_ /\ P!ProcessStep(c)
  BY FileSteps, Zenon DEF FileStep, PrefixInv
<1>2. F!Contents = P!Contents /\ F!Contents' = P!Contents'
  BY FileReads, Zenon
<1>3. /\ \A k : ValueOf(k) =
               IF k \in DOMAIN P!Contents THEN P!Contents[k] ELSE None
      /\ \A k : ValueOf(k)' =
               IF k \in DOMAIN P!Contents' THEN P!Contents'[k] ELSE None
  BY <1>1, <1>2 DEF ValueOf
<1>4. CASE UNCHANGED P!Contents
  BY <1>3, <1>4 DEF Apart
<1>5. ASSUME fcall'[c] # fcall[c], NEW j \in fcall[c].keys, NEW v,
             P!Contents' = P!Bind(P!Contents, j, v)
      PROVE  Apart
  <2>1. ASSUME NEW k \in Key, ValueOf(k)' # ValueOf(k)
        PROVE  k \in Joined(c)
    <3>1. k = j
      BY <1>3, <1>5, <2>1 DEF P!Bind
    <3>2. c \notin closed
      <4>1. ASSUME c \in closed
            PROVE  FALSE
        <5>1. fcall[c].keys \subseteq {CleanupKey}
          BY <4>1 DEF P!FInv, P!CallInv, P!Idle, P!Query
        <5> QED
          BY <1>5, <3>1, <5>1, FileAssumption
      <4> QED
        BY <4>1, Zenon
    <3> QED
      BY <1>5, <3>1, <3>2 DEF FilePrefixInv
  <2> QED
    BY <1>5, <2>1, OwnKeys, Zenon DEF PrefixInv
<1> QED
  BY <1>1, <1>4, <1>5, Assumed, P!ContentsChange, Zenon

----------------------------------------------------------------------------
(* The abstract Store that both see.                                       *)

(* Its operators, which both instances of FileStore bring with them.       *)
LEMMA StoreOperators ==
  /\ P!Abs!EmptyMap = F!Abs!EmptyMap
  /\ \A q : P!Abs!TheKey(q) = F!Abs!TheKey(q)
  /\ \A o, K, v : P!Abs!Query(o, K, v) = F!Abs!Query(o, K, v)
  /\ \A m, k, v : P!Abs!Bind(m, k, v) = F!Abs!Bind(m, k, v)
  /\ \A m, k : P!Abs!Unbind(m, k) = F!Abs!Unbind(m, k)
  /\ \A m, k : P!Abs!CanAdd(m, k) <=> F!Abs!CanAdd(m, k)
  /\ \A m, k, n : P!Abs!Plus(m, k, n) = F!Abs!Plus(m, k, n)
  /\ \A b : P!Abs!Truth(b) = F!Abs!Truth(b)
  /\ \A S : P!Abs!Cardinality(S) = F!Abs!Cardinality(S)
  /\ P!Abs!Operation = F!Abs!Operation
<1>1. P!Abs!EmptyMap = F!Abs!EmptyMap /\ P!Abs!Operation = F!Abs!Operation
  BY Zenon DEF P!Abs!EmptyMap, F!Abs!EmptyMap, P!Abs!Operation, F!Abs!Operation
<1>2. /\ \A q : P!Abs!TheKey(q) = F!Abs!TheKey(q)
      /\ \A o, K, v : P!Abs!Query(o, K, v) = F!Abs!Query(o, K, v)
  BY Zenon DEF P!Abs!TheKey, F!Abs!TheKey, P!Abs!Query, F!Abs!Query
<1>3. /\ \A m, k, v : P!Abs!Bind(m, k, v) = F!Abs!Bind(m, k, v)
      /\ \A m, k : P!Abs!Unbind(m, k) = F!Abs!Unbind(m, k)
  BY Zenon DEF P!Abs!Bind, F!Abs!Bind, P!Abs!Unbind, F!Abs!Unbind
<1>4. /\ \A m, k : P!Abs!CanAdd(m, k) <=> F!Abs!CanAdd(m, k)
      /\ \A m, k, n : P!Abs!Plus(m, k, n) = F!Abs!Plus(m, k, n)
      /\ \A b : P!Abs!Truth(b) = F!Abs!Truth(b)
  BY Zenon DEF P!Abs!CanAdd, F!Abs!CanAdd, P!Abs!Plus, F!Abs!Plus,
     P!Abs!Truth, F!Abs!Truth
<1>5. \A S : P!Abs!Cardinality(S) = F!Abs!Cardinality(S)
  BY Zenon DEF P!Abs!Cardinality, F!Abs!Cardinality, P!Abs!IsFiniteSet,
     F!Abs!IsFiniteSet
<1> QED
  BY <1>1, <1>2, <1>3, <1>4, <1>5, Zenon

(* Its steps.                                                              *)
LEMMA StoreSteps ==
  ASSUME NEW c \in Client
  PROVE  /\ P!Abs!Submit(c) => F!Abs!Submit(c)
         /\ P!Abs!Apply(c) => F!Abs!Apply(c)
         /\ P!Abs!Fail(c) => F!Abs!Fail(c)
         /\ P!Abs!Return(c) => F!Abs!Return(c)
<1>1. F!Idle = P!Idle /\ F!Contents = P!Contents /\ F!Contents' = P!Contents'
  BY FileOperators, FileReads, Zenon
<1>2. P!Abs!Submit(c) => F!Abs!Submit(c)
  <2>1. P!Abs!Blocked(c) <=> F!Abs!Blocked(c)
    BY Zenon DEF P!Abs!Blocked, F!Abs!Blocked, F!Idle, P!Idle, F!Query, P!Query
  <2>2. UNCHANGED <<P!Contents, fresult>> => UNCHANGED <<F!Contents, fresult>>
    BY <1>1, Zenon
  <2> QED
    BY <2>1, <2>2, Zenon
       DEF P!Abs!Submit, F!Abs!Submit, F!Idle, P!Idle, F!Query, P!Query,
       P!Abs!Query, F!Abs!Query, P!Abs!Operation, F!Abs!Operation
<1>3. P!Abs!Apply(c) => F!Abs!Apply(c)
  BY <1>1, StoreOperators, Zenon DEF P!Abs!Apply, F!Abs!Apply
<1>4. P!Abs!Fail(c) => F!Abs!Fail(c)
  BY <1>1, StoreOperators, Zenon DEF P!Abs!Fail, F!Abs!Fail
<1>5. P!Abs!Return(c) => F!Abs!Return(c)
  BY <1>1, Zenon DEF P!Abs!Return, F!Abs!Return
<1> QED
  BY <1>2, <1>3, <1>4, <1>5

----------------------------------------------------------------------------
(* The theorems.                                                           *)

(* The processes behind their prefixes are some of those of FileStore.     *)
LEMMA FileBehind == PSpec => P!FileSpec
<1>1. PInit => P!FileInit /\ prefix_ \in [Client -> Prefix]
  BY FileOperators, PrefixAssumption, Zenon DEF PInit, F!FileInit, P!FileInit
<1>2. prefix_ \in [Client -> Prefix] /\ [PNext]_pvars
        => (prefix_ \in [Client -> Prefix])'
  BY Zenon DEF PNext, HashStep, FileStep, pvars
<1>3. prefix_ \in [Client -> Prefix] /\ [PNext]_pvars => [P!FileNext]_P!fileVars
  BY FileSteps, Zenon
<1> QED
  BY <1>1, <1>2, <1>3, PTL DEF PSpec, P!FileSpec

(* The threads behind their prefixes are some of those of HashStore, and   *)
(* what they see is a Store.                                               *)
THEOREM HashBehindRefines == PSpec => ImplementsStore
<1>1. PInit => Init
  BY Zenon DEF PInit
<1>2. [PNext]_pvars => [Next]_vars
  BY HashSteps, Zenon
<1>3. PSpec => Spec
  BY <1>1, <1>2, PTL DEF PSpec, Spec
<1> QED
  BY <1>3, Refinement, Zenon

(* Through PrefixStore, too, the file goes last: when ~FileStore removes   *)
(* it, no process uses its store any longer.                               *)
THEOREM FileGoesLast == PSpec => []FileRemovedLast
<1>1. P!RemovedLast => FileRemovedLast
  BY FileOperators, Zenon DEF P!RemovedLast, FileRemovedLast, F!RemovedLast
<1>2. PSpec => []P!RemovedLast
  BY FileBehind, Assumed, P!GoesLast
<1> QED
  BY <1>1, <1>2, PTL

(* Clients meet only if their prefixes are nested, in front of either      *)
(* store, whatever characters prefixes and keys are made of: prefix_ + "/" *)
(* + key is one key for two of them only if one prefix goes on where the   *)
(* other ends with a "/" (PrefixStore::joinKey).                           *)
THEOREM PrefixesKeptApart == PSpec => PrefixesApart
<1> DEFINE Inv == CallInv /\ PrefixInv /\ P!FInv /\ FilePrefixInv
<1>1. PInit => Inv
  <2>1. PInit => PrefixInv
    BY PrefixAssumption DEF PInit, Init, PrefixInv, Idle, Query
  <2>2. PInit => FilePrefixInv
    BY DEF PInit, F!FileInit, F!Idle, F!Query, FilePrefixInv
  <2>3. PInit => P!FileInit
    BY FileOperators, Zenon DEF PInit, F!FileInit, P!FileInit
  <2> QED
    BY <2>1, <2>2, <2>3, CallInit, Assumed, P!FInvInit DEF PInit
<1>2. Inv /\ [PNext]_pvars => Inv'
  <2>1. CallInv /\ [PNext]_pvars => CallInv'
    <3>1. CallInv /\ UNCHANGED vars => CallInv'
      BY Zenon DEF CallInv, vars
    <3> QED
      BY <3>1, HashSteps, CallStep
  <2>2. PrefixInv /\ P!FInv /\ [PNext]_pvars => P!FInv'
    BY FileSteps, Assumed, P!FInvStep, Zenon DEF PrefixInv
  <2> QED
    BY <2>1, <2>2, PrefixStep, FilePrefixStep, Zenon DEF P!FInv, P!CallInv
<1>3. Inv /\ [PNext]_pvars => [Apart]_pvars
  BY HashApart, FileApart, Zenon DEF PNext
<1> QED
  BY <1>1, <1>2, <1>3, PTL DEF PSpec, PrefixesApart, Apart

(* FileStore implements Store behind prefixes as it does without them.     *)
THEOREM FileBehindRefines == PSpec => FileImplementsStore
<1>1. F!Idle = P!Idle /\ F!Contents = P!Contents /\ F!Contents' = P!Contents'
  BY FileOperators, FileReads, Zenon
<1>2. P!Abs!SInit => F!Abs!SInit
  BY <1>1, StoreOperators, Zenon DEF P!Abs!SInit, F!Abs!SInit
<1>3. [P!Abs!SNext]_P!Abs!svars => [F!Abs!SNext]_F!Abs!svars
  BY <1>1, StoreSteps, Zenon DEF P!Abs!SNext, F!Abs!SNext, P!Abs!svars, F!Abs!svars
<1>4. P!ImplementsStore => FileImplementsStore
  BY <1>2, <1>3, PTL DEF P!ImplementsStore, P!Abs!SSpec, FileImplementsStore,
     F!ImplementsStore, F!Abs!SSpec
<1> QED
  BY <1>4, FileBehind, Assumed, P!FileRefinement

=============================================================================
