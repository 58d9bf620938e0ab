----------------------------- MODULE FileStore -----------------------------
(***************************************************************************)
(* FileStore (FileStore.cpp): processes that share a map through a file to *)
(* which every set() and add() appends an entry.  Each process keeps a     *)
(* cache of the entries it has read, up to a position.                     *)
(*                                                                         *)
(* A call opens the file, locks it, and does all its work under the lock,  *)
(* which is one step.  get() and wait() do so again and again.             *)
(***************************************************************************)
EXTENDS Integers, Sequences, FiniteSets, FiniteSetsExt, StoreMap

CONSTANTS
  Client,       \* the processes, one FileStore each: numWorkers_ of them
  Key,          \* the keys
  SetValue,     \* the values given to set()
  WaitKeys,     \* the sets of keys given to wait() and check()
  Calls,        \* which of the calls are made
  Timeouts,     \* whether a wait may time out
  MaxCount,     \* bound: no add() is made to a counter that has reached it
  MaxLog,       \* bound: no set() or add() is made once the file is as long
  CleanupKey    \* cleanupKey_, which no key with regularPrefix_ equals

VARIABLES
  file,     \* "absent", "present" or "removed"
  log,      \* its entries
  pos,      \* pos_ of each process, counted in entries
  cache,    \* cache_ of each process; None is an empty value
  closed,   \* the processes whose destructor has begun
  call,     \* the call each process is in
  result    \* what that call is about to return, or None

fileVars == <<file, log, pos, cache, closed, call, result>>

Idle == Query("IDLE", {}, None)

FileInit ==
  /\ file = "absent" /\ log = <<>> /\ closed = {}
  /\ pos = [c \in Client |-> 0]
  /\ cache = [c \in Client |-> EmptyMap]
  /\ call = [c \in Client |-> Idle]
  /\ result = [c \in Client |-> None]

----------------------------------------------------------------------------
(* The value a sequence of entries gives k: that of the last one.          *)
Latest(entries, k) ==
  entries[Max({i \in DOMAIN entries : entries[i].key = k})].val
KeysOf(entries) == {entries[i].key : i \in DOMAIN entries}

(* refresh: the cache after the entries behind pos_ are read.              *)
Refreshed(c) ==
  LET new == SubSeq(log, pos[c] + 1, Len(log))
  IN  [k \in DOMAIN cache[c] \cup KeysOf(new) |->
         IF k \in KeysOf(new) THEN Latest(new, k) ELSE cache[c][k]]
refresh(c, m) ==
  /\ cache' = [cache EXCEPT ![c] = m]
  /\ pos' = [pos EXCEPT ![c] = Len(log)]

Leave(c, r) ==
  /\ call' = [call EXCEPT ![c] = Idle]
  /\ result' = [result EXCEPT ![c] = r]

(* c has opened and locked the file, for a call to op.                     *)
Locked(c, op) == call[c].op = op /\ file = "present"

(* open: O_CREAT where the call writes; the others wait for the file, and  *)
(* throw when it does not appear.                                          *)
OpenCreates(c) ==
  /\ call[c].op \in {"SET", "ADD"} /\ file = "absent"
  /\ file' = "present"
  /\ UNCHANGED <<log, pos, cache, closed, call, result>>
OpenTimesOut(c) ==
  /\ Timeouts /\ file = "absent"
  /\ call[c].op \in {"GET", "WAIT", "CHECK", "GETNUMKEYS"}
  /\ Leave(c, None)
  /\ UNCHANGED <<file, log, pos, cache, closed>>

set(c) ==
  /\ Locked(c, "SET")
  /\ log' = Append(log, [key |-> TheKey(call[c]), val |-> call[c].val])
  /\ Leave(c, None)
  /\ UNCHANGED <<file, pos, cache, closed>>

(* cache_[key] makes an empty entry for a key that is new, and pos_ stays  *)
(* before the entry written.  std::stoll throws on text.                   *)
addStale(c) == \* seeded fault: no refresh
  LET k == TheKey(call[c])
      n == call[c].val + IF k \in DOMAIN cache[c] /\ cache[c][k] \in Int
                         THEN cache[c][k] ELSE 0
  IN  /\ Locked(c, "ADD")
      /\ log' = Append(log, [key |-> k, val |-> n]) /\ Leave(c, n)
      /\ UNCHANGED <<file, pos, cache, closed>>
addHelper(c) ==
  LET k == TheKey(call[c])
      m == Refreshed(c)
      old == IF k \in DOMAIN m THEN m[k] ELSE None
      n == call[c].val + IF old = None THEN 0 ELSE old
  IN  /\ Locked(c, "ADD")
      /\ refresh(c, Bind(m, k, old))
      /\ \/ old = Text /\ Leave(c, None) /\ UNCHANGED log
         \/ old # Text /\ log' = Append(log, [key |-> k, val |-> n]) /\ Leave(c, n)
      /\ UNCHANGED <<file, closed>>

(* One turn of the loop of get(): nothing new, and sleep or give up; or    *)
(* read what is new, and return the value or go round again.               *)
getNeverReads(c) == \* seeded fault: the file is only read for a cached key
  LET k == TheKey(call[c])
  IN  /\ Locked(c, "GET") /\ k \in DOMAIN cache[c]
      /\ refresh(c, Refreshed(c)) /\ Leave(c, Refreshed(c)[k])
      /\ UNCHANGED <<file, log, closed>>
get(c) ==
  LET k == TheKey(call[c])
      m == Refreshed(c)
  IN  /\ Locked(c, "GET")
      /\ \/ /\ k \notin DOMAIN cache[c] /\ Len(log) = pos[c]
            /\ Timeouts /\ Leave(c, None) /\ UNCHANGED <<pos, cache>>
         \/ /\ ~(k \notin DOMAIN cache[c] /\ Len(log) = pos[c])
            /\ refresh(c, m)
            /\ \/ k \in DOMAIN m /\ Leave(c, m[k])
               \/ k \notin DOMAIN m /\ UNCHANGED <<call, result>>
      /\ UNCHANGED <<file, log, closed>>

HasKeys(c) == call[c].keys \subseteq DOMAIN Refreshed(c)

check(c) ==
  /\ Locked(c, "CHECK")
  /\ refresh(c, Refreshed(c))
  /\ Leave(c, Truth(HasKeys(c)))
  /\ UNCHANGED <<file, log, closed>>

(* wait(): check() until it is true, or the time is over.                  *)
wait(c) ==
  /\ Locked(c, "WAIT")
  /\ refresh(c, Refreshed(c))
  /\ \/ HasKeys(c) /\ Leave(c, None)
     \/ ~HasKeys(c) /\ Timeouts /\ Leave(c, None)
     \/ ~HasKeys(c) /\ UNCHANGED <<call, result>>
  /\ UNCHANGED <<file, log, closed>>

getNumKeys(c) ==
  /\ Locked(c, "GETNUMKEYS")
  /\ refresh(c, Refreshed(c))
  /\ Leave(c, Cardinality(DOMAIN Refreshed(c)))
  /\ UNCHANGED <<file, log, closed>>

deleteKey(c) ==
  /\ call[c].op = "DELETE_KEY"
  /\ Leave(c, None)
  /\ UNCHANGED <<file, log, pos, cache, closed>>

(* ~FileStore: an add() to the cleanup key, and the last one removes the   *)
(* file, after it has released the lock.                                   *)
Close(c) ==
  /\ call[c] = Idle /\ result[c] = None /\ c \notin closed
  /\ closed' = closed \cup {c}
  /\ call' = [call EXCEPT ![c] = Query("ADD", {CleanupKey}, 1)]
  /\ UNCHANGED <<file, log, pos, cache, result>>

numWorkers == Cardinality(Client)
ReturnRemovesEarly(c) == \* seeded fault: off by one
  /\ result[c] # None
  /\ result' = [result EXCEPT ![c] = None]
  /\ file' = IF c \in closed /\ result[c] = numWorkers - 1 THEN "removed" ELSE file
  /\ UNCHANGED <<log, pos, cache, closed, call>>
Return(c) ==
  /\ result[c] # None
  /\ result' = [result EXCEPT ![c] = None]
  /\ file' = IF c \in closed /\ result[c] = numWorkers THEN "removed" ELSE file
  /\ UNCHANGED <<log, pos, cache, closed, call>>

----------------------------------------------------------------------------
Contents == [k \in KeysOf(log) |-> Latest(log, k)]

Enter(c, q) ==
  /\ call[c] = Idle /\ result[c] = None /\ c \notin closed
  /\ call' = [call EXCEPT ![c] = q]
  /\ UNCHANGED <<file, log, pos, cache, closed, result>>

MayAdd(k) ==
  k \in DOMAIN Contents => Contents[k] \in {Text} \cup 0 .. MaxCount - 1

(* Each c only names the keys in K and the sets of keys in W.              *)
EnterCall(c, K, W) ==
  \/ \E k \in K :
       \/ /\ "set" \in Calls /\ Len(log) < MaxLog
          /\ \E v \in SetValue : Enter(c, Query("SET", {k}, v))
       \/ /\ "add" \in Calls /\ MayAdd(k) /\ Len(log) < MaxLog
          /\ Enter(c, Query("ADD", {k}, 1))
       \/ "get" \in Calls /\ Enter(c, Query("GET", {k}, None))
       \/ "deleteKey" \in Calls /\ Enter(c, Query("DELETE_KEY", {k}, None))
  \/ \E w \in W :
       \/ "check" \in Calls /\ Enter(c, Query("CHECK", w, None))
       \/ "wait" \in Calls /\ Enter(c, Query("WAIT", w, None))
  \/ "getNumKeys" \in Calls /\ Enter(c, Query("GETNUMKEYS", {}, None))

Section(c) ==
  \/ OpenCreates(c) \/ set(c) \/ addHelper(c) \/ get(c) \/ check(c) \/ wait(c)
  \/ getNumKeys(c) \/ deleteKey(c)

FileStep(c) == Section(c) \/ OpenTimesOut(c) \/ Close(c) \/ Return(c)

----------------------------------------------------------------------------
(* Properties.                                                             *)

(* FileStore implements Store, the cleanup key being one of its keys:      *)
(* every call reads the file before it looks at its cache.                 *)
Abs ==
  INSTANCE Store WITH store <- Contents, Value <- SetValue \cup {1},
                      Key <- Key \cup {CleanupKey},
                      sent <- [c \in Client |-> IF call[c] = Idle THEN <<>>
                                                ELSE <<call[c]>>],
                      answer <- result
ImplementsStore == Abs!SSpec

(* The file is removed under nobody: when it goes, every process has run   *)
(* its destructor to the end of its last call.                             *)
RemovedLast ==
  file = "removed" =>
    closed = Client /\ \A c \in Client : call[c] = Idle

(* A call that could end does not hang.                                    *)
Stuck(c) ==
  /\ call[c] # Idle
  /\ file = "absent" => call[c].op \in {"SET", "ADD"}
  /\ call[c].op \in {"GET", "WAIT"} => call[c].keys \subseteq DOMAIN Contents
=============================================================================
