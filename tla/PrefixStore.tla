---------------------------- MODULE PrefixStore ----------------------------
(***************************************************************************)
(* PrefixStore (PrefixStore.cpp) in front of a HashStore or a FileStore:   *)
(* every client has a prefix, every key it names is joined to the prefix,  *)
(* and the call goes to store_, whichever class that is.                   *)
(*                                                                         *)
(* A string is the sequence of its characters here, since the joined keys  *)
(* are: "1" and "1/1" are different prefixes, and the keys "1/k" and "k"   *)
(* of the two are the same key of the store.                               *)
(***************************************************************************)
EXTENDS HashStore

CONSTANTS
  Char,         \* the characters
  Prefix,       \* the prefixes
  Names,        \* the keys that are used with each of them
  PrefixOf,     \* who may have which prefix
  CleanupKey,   \* of FileStore
  MaxLog        \* of FileStore

(* prefix_ + "/" + key.                                                    *)
joinBare(p, n) == p \o n \* seeded fault: no separator
join(p, n) == p \o <<"/">> \o n

ASSUME PrefixAssumption ==
  /\ Prefix \subseteq Seq(Char) /\ "/" \in Char
  /\ Names \in [Prefix -> SUBSET Seq(Char)]
  /\ PrefixOf \subseteq [Client -> Prefix]
  /\ Key = UNION {{join(p, n) : n \in Names[p]} : p \in Prefix}
ASSUME FileAssumption ==
  IsFiniteSet(Client) /\ CleanupKey \notin Key

VARIABLES
  prefix_,   \* the prefix of each client
  store_,    \* the class of the store
  file, log, pos, cache, closed, fcall, fresult \* of a FileStore

F == INSTANCE FileStore WITH call <- fcall, result <- fresult

fvars == <<file, log, pos, cache, closed, fcall, fresult>>
pvars == <<vars, store_, prefix_, fvars>>

joinKey(c, n) == join(prefix_[c], n)
joinKeys(c, N) == {joinKey(c, n) : n \in N}

PInit ==
  /\ Init /\ F!FileInit
  /\ prefix_ \in PrefixOf /\ store_ \in {"HashStore", "FileStore"}

(* set, get, add, deleteKey, check and wait pass on the joined keys;       *)
(* getNumKeys passes on nothing, and counts the keys of every prefix.      *)
Joined(c) == joinKeys(c, Names[prefix_[c]])
HashCall(c) == EnterCall(c) /\ call'[c].keys \subseteq Joined(c)
FileCall(c) == F!EnterCall(c, Joined(c), WaitKeys \cap SUBSET Joined(c))

HashStep(c) ==
  /\ store_ = "HashStore"
  /\ \/ HashCall(c) \/ Section(c) \/ Return(c) \/ SpuriousWakeup(c) \/ TimedOut(c)
  /\ UNCHANGED <<store_, prefix_, fvars>>
FileStep(c) ==
  /\ store_ = "FileStore"
  /\ FileCall(c) \/ F!FileStep(c)
  /\ UNCHANGED <<store_, prefix_, vars>>

PNext == \E c \in Client : HashStep(c) \/ FileStep(c)

(* Every thread that is not asleep goes on and gets the mutex; flock lets  *)
(* every process in.                                                       *)
PFairness ==
  \A c \in Client :
    /\ WF_pvars(store_ = "HashStore" /\ (Section(c) \/ Return(c))
                  /\ UNCHANGED <<store_, prefix_, fvars>>)
    /\ WF_pvars(store_ = "FileStore" /\ (F!Section(c) \/ F!Return(c))
                  /\ UNCHANGED <<store_, prefix_, vars>>)
PSpec == PInit /\ [][PNext]_pvars /\ PFairness

----------------------------------------------------------------------------
(* Properties.                                                             *)

(* FileStore implements the abstract Store.                                *)
FileImplementsStore == F!ImplementsStore

(* The file goes last (~FileStore).                                        *)
FileRemovedLast == F!RemovedLast

(* One prefix, or one that goes on where the other ends with a "/": only   *)
(* then have they keys in common.  "1" and "11" are not nested.            *)
Nested(p, q) ==
  LET s == p \o <<"/">>
      t == q \o <<"/">>
  IN  \A i \in DOMAIN s \cap DOMAIN t : s[i] = t[i]

(* Clients do not meet unless their prefixes are nested: what a client     *)
(* would read under a key of its own only ever changes in a step of a call *)
(* of a client whose prefix is nested with its prefix (joinKey).           *)
ValueOf(k) ==
  LET m == IF store_ = "HashStore" THEN map ELSE F!Contents
  IN  IF k \in DOMAIN m THEN m[k] ELSE None
PrefixesApart ==
  [][\A c \in Client : \A k \in Joined(c) : ValueOf(k)' # ValueOf(k) =>
       \E d \in Client : /\ Nested(prefix_[c], prefix_[d])
                         /\ call[d] # call'[d] \/ fcall[d] # fcall'[d]]_pvars

(* No call is stuck for ever, in either store: it returns, or what it      *)
(* waits for is not there for good.                                        *)
CallsReturn ==
  NoCallStuck /\ \A c \in Client : ~<>[](store_ = "FileStore" /\ F!Stuck(c))
=============================================================================
