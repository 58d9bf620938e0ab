----------------------------- MODULE HashStore -----------------------------
(***************************************************************************)
(* HashStore (HashStore.cpp): a map shared by the threads of one process,  *)
(* under one mutex, with one condition variable for all who wait.          *)
(*                                                                         *)
(* A call is entered, takes m_ and runs its critical section, and returns. *)
(* The predicate of cv_.wait is evaluated under m_, so the first look at   *)
(* the map and the looks after a wake-up are the same step.                *)
(***************************************************************************)
EXTENDS Integers, Sequences, FiniteSets, StoreMap

CONSTANTS
  Client,     \* the threads
  Key,        \* the keys
  SetValue,   \* the values given to set()
  WaitKeys,   \* the sets of keys given to wait() and check()
  Calls,      \* which of the calls are made
  Timeouts,   \* whether a wait may time out
  MaxCount    \* bound: no add() is made to a counter that has reached it

ASSUME ArgumentAssumption ==
  /\ WaitKeys \subseteq SUBSET Key
  /\ Calls \subseteq {"set", "add", "check", "getNumKeys", "deleteKey", "wait",
                      "get"}
  /\ Timeouts \in BOOLEAN /\ MaxCount \in Nat
ASSUME ValueAssumption ==
  /\ Text \notin Int /\ SetValue \subseteq Int \cup {Text}
  /\ None \notin Int \cup {Text}

VARIABLES
  map,      \* map_
  call,     \* the call each thread is in, up to the end of its section
  result,   \* what that call is about to return, or None
  waiting   \* the threads asleep on cv_

vars == <<map, call, result, waiting>>

Idle == Query("IDLE", {}, None)

Init ==
  /\ map = EmptyMap
  /\ call = [c \in Client |-> Idle]
  /\ result = [c \in Client |-> None]
  /\ waiting = {}

----------------------------------------------------------------------------
Enter(c, q) ==
  /\ call[c] = Idle /\ result[c] = None
  /\ call' = [call EXCEPT ![c] = q]
  /\ UNCHANGED <<map, result, waiting>>

Return(c) ==
  /\ result[c] # None
  /\ result' = [result EXCEPT ![c] = None]
  /\ UNCHANGED <<map, call, waiting>>

(* c has the mutex, for a call to op.                                      *)
Locked(c, op) == call[c].op = op /\ c \notin waiting

(* The section ends, and the call is about to return r.                    *)
Leave(c, r) ==
  /\ call' = [call EXCEPT ![c] = Idle]
  /\ result' = [result EXCEPT ![c] = r]

setSilently(c) == \* seeded fault: no cv_.notify_all
  /\ Locked(c, "SET")
  /\ map' = Bind(map, TheKey(call[c]), call[c].val)
  /\ UNCHANGED waiting
  /\ Leave(c, None)
set(c) ==
  /\ Locked(c, "SET")
  /\ map' = Bind(map, TheKey(call[c]), call[c].val)
  /\ waiting' = {} \* cv_.notify_all
  /\ Leave(c, None)

(* No thread is notified.  std::stoll throws on text.                      *)
add(c) ==
  LET k == TheKey(call[c])
      n == Plus(map, k, call[c].val)
  IN  /\ Locked(c, "ADD")
      /\ \/ CanAdd(map, k) /\ map' = Bind(map, k, n) /\ Leave(c, n)
         \/ ~CanAdd(map, k) /\ UNCHANGED map /\ Leave(c, None)
      /\ UNCHANGED waiting

(* The predicate of the call that c is in.                                 *)
pred(c) == call[c].keys \subseteq DOMAIN map

(* What get() and wait() return once it holds.                             *)
Found(c) == IF call[c].op = "GET" THEN map[TheKey(call[c])] ELSE None

(* get(), wait(): the first look, or the one after a wake-up.              *)
getOrWait(c) ==
  /\ Locked(c, "GET") \/ Locked(c, "WAIT")
  /\ \/ pred(c) /\ Leave(c, Found(c)) /\ UNCHANGED waiting
     \/ ~pred(c) /\ waiting' = waiting \cup {c} /\ UNCHANGED <<call, result>>
  /\ UNCHANGED map

(* A condition variable may wake a thread for no reason.                   *)
SpuriousWakeup(c) ==
  /\ c \in waiting
  /\ waiting' = waiting \ {c}
  /\ UNCHANGED <<map, call, result>>

(* wait_for returns the predicate at the time-out: the call succeeds all   *)
(* the same when it holds, and throws otherwise.                           *)
TimedOutThrows(c) == \* seeded fault: the predicate is not looked at again
  /\ Timeouts /\ c \in waiting
  /\ Leave(c, None)
  /\ waiting' = waiting \ {c}
  /\ UNCHANGED map
TimedOut(c) ==
  /\ Timeouts /\ c \in waiting
  /\ Leave(c, IF pred(c) THEN Found(c) ELSE None)
  /\ waiting' = waiting \ {c}
  /\ UNCHANGED map

getNumKeys(c) ==
  /\ Locked(c, "GETNUMKEYS")
  /\ Leave(c, Cardinality(DOMAIN map))
  /\ UNCHANGED <<map, waiting>>

deleteKey(c) ==
  /\ Locked(c, "DELETE_KEY")
  /\ map' = Unbind(map, TheKey(call[c]))
  /\ Leave(c, Truth(TheKey(call[c]) \in DOMAIN map))
  /\ UNCHANGED waiting

check(c) ==
  /\ Locked(c, "CHECK")
  /\ Leave(c, Truth(pred(c)))
  /\ UNCHANGED <<map, waiting>>

----------------------------------------------------------------------------
MayAdd(k) == k \in DOMAIN map => map[k] \in {Text} \cup 0 .. MaxCount - 1

EnterCall(c) ==
  \/ \E k \in Key :
       \/ "set" \in Calls /\ \E v \in SetValue : Enter(c, Query("SET", {k}, v))
       \/ "add" \in Calls /\ MayAdd(k) /\ Enter(c, Query("ADD", {k}, 1))
       \/ "get" \in Calls /\ Enter(c, Query("GET", {k}, None))
       \/ "deleteKey" \in Calls /\ Enter(c, Query("DELETE_KEY", {k}, None))
  \/ \E K \in WaitKeys :
       \/ "check" \in Calls /\ Enter(c, Query("CHECK", K, None))
       \/ "wait" \in Calls /\ Enter(c, Query("WAIT", K, None))
  \/ "getNumKeys" \in Calls /\ Enter(c, Query("GETNUMKEYS", {}, None))

Section(c) ==
  \/ set(c) \/ add(c) \/ getOrWait(c) \/ getNumKeys(c) \/ deleteKey(c)
  \/ check(c)

Next ==
  \E c \in Client : \/ EnterCall(c) \/ Section(c) \/ Return(c)
                    \/ SpuriousWakeup(c) \/ TimedOut(c)

Spec == Init /\ [][Next]_vars

(* Every thread that is not asleep goes on, and is given the mutex.        *)
Fairness ==
  \A c \in Client : WF_vars(Section(c)) /\ WF_vars(Return(c))
FairSpec == Spec /\ Fairness

----------------------------------------------------------------------------
(* Properties.                                                             *)

(* No lost wake-up by set(): a thread asleep in get() or wait() lacks one  *)
(* of its keys, or has one from add(), which notifies nobody.  A value no  *)
(* set() gave is one that add() wrote.                                     *)
SleepersLackKey ==
  \A c \in waiting : pred(c) => \E k \in call[c].keys : map[k] \notin SetValue

(* HashStore implements Store, time-outs and failed calls included.        *)
Abs ==
  INSTANCE Store WITH store <- map, Value <- SetValue \cup {1},
                      sent <- [c \in Client |-> IF call[c] = Idle THEN <<>>
                                                ELSE <<call[c]>>],
                      answer <- result
ImplementsStore == Abs!SSpec

(* Under fairness of the threads, no call is stuck for ever: it returns,   *)
(* or its keys are not all there for good, or add() wrote one of them.     *)
Stuck(c) ==
  /\ call[c] # Idle
  /\ call[c].op \in {"GET", "WAIT"} =>
       pred(c) /\ \A k \in call[c].keys : map[k] \in SetValue
NoCallStuck == \A c \in Client : ~<>[]Stuck(c)
=============================================================================
