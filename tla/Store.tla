------------------------------- MODULE Store -------------------------------
(***************************************************************************)
(* What c10d::Store (Store.hpp) promises its clients: one map, to which    *)
(* the calls of the clients apply one at a time, each client's calls in    *)
(* the order it makes them.  get() and wait() block until their keys are   *)
(* there.  A set() may return before it is applied, but no later call of   *)
(* its client overtakes it.  TCPStore and HashStore are shown to implement *)
(* this specification.                                                     *)
(***************************************************************************)
EXTENDS Integers, Sequences, FiniteSets, StoreMap

CONSTANTS
  Client,   \* the users of the store
  Key,      \* the keys
  Value,    \* the values that set() and add() are given
  Timeouts  \* whether get() and wait() may time out

VARIABLES
  store,    \* the map: a function whose domain is the set of present keys
  sent,     \* calls of each client that are not applied yet, oldest first
  answer    \* what the call of each client is about to return, or None

svars == <<store, sent, answer>>

SInit ==
  /\ store = EmptyMap
  /\ sent = [c \in Client |-> <<>>]
  /\ answer = [c \in Client |-> None]

Blocked(c) ==
  answer[c] # None \/ \E i \in DOMAIN sent[c] : sent[c][i].op # "SET"

(* A client makes a call.                                                  *)
Submit(c) ==
  /\ ~Blocked(c) /\ sent' # sent
  /\ UNCHANGED <<store, answer>>
  /\ \E op \in Operation, keys \in SUBSET Key, val \in Value \cup {None} :
       sent' = [sent EXCEPT ![c] = Append(@, Query(op, keys, val))]

(* The oldest call of c is applied to the map.                             *)
Apply(c) ==
  LET q == Head(sent[c])
      k == TheKey(q)
      Answer(a) == answer' = [answer EXCEPT ![c] = a]
  IN  /\ sent[c] # <<>>
      /\ sent' = [sent EXCEPT ![c] = Tail(@)]
      /\ \/ /\ q.op = "SET"
            /\ store' = Bind(store, k, q.val) /\ UNCHANGED answer
         \/ /\ q.op = "ADD" /\ CanAdd(store, k)
            /\ store' = Bind(store, k, Plus(store, k, q.val))
            /\ Answer(Plus(store, k, q.val))
         \/ /\ q.op = "GET" /\ k \in DOMAIN store
            /\ Answer(store[k]) /\ UNCHANGED store
         \/ /\ q.op = "WAIT" /\ q.keys \subseteq DOMAIN store
            /\ UNCHANGED <<store, answer>>
         \/ /\ q.op = "CHECK"
            /\ Answer(Truth(q.keys \subseteq DOMAIN store)) /\ UNCHANGED store
         \/ /\ q.op = "GETNUMKEYS"
            /\ Answer(Cardinality(DOMAIN store)) /\ UNCHANGED store
         \/ /\ q.op = "DELETE_KEY"
            /\ store' = Unbind(store, k) /\ Answer(Truth(k \in DOMAIN store))

(* It throws, and has no effect: add() to text; get() or wait() that times *)
(* out, which neither does once its keys are there; and, of a FileStore,   *)
(* deleteKey(), and a look at a file that nobody has created.              *)
Fail(c) ==
  LET q == Head(sent[c])
  IN  /\ sent[c] # <<>>
      /\ sent' = [sent EXCEPT ![c] = Tail(@)]
      /\ \/ q.op = "ADD" /\ ~CanAdd(store, TheKey(q))
         \/ Timeouts /\ q.op \in {"GET", "WAIT"} /\ ~(q.keys \subseteq DOMAIN store)
         \/ Timeouts /\ q.op \in {"CHECK", "GETNUMKEYS"} /\ store = EmptyMap
         \/ q.op = "DELETE_KEY"
      /\ UNCHANGED <<store, answer>>

Return(c) ==
  /\ answer[c] # None
  /\ answer' = [answer EXCEPT ![c] = None]
  /\ UNCHANGED <<store, sent>>

SNext == \E c \in Client : Submit(c) \/ Apply(c) \/ Fail(c) \/ Return(c)
SSpec == SInit /\ [][SNext]_svars
=============================================================================
