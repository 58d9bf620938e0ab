-------------------------- MODULE FileStoreProofs --------------------------
(***************************************************************************)
(* FileStore, for every set of processes and keys: the file is removed     *)
(* under nobody, and the processes that share it implement Store.          *)
(***************************************************************************)
EXTENDS FileStore, TLAPS

(* What is assumed of the constants: finitely many processes, keys that    *)
(* the prefix keeps apart from the cleanup key, and values as StoreMap     *)
(* describes them.                                                         *)
FileAssumption ==
  /\ IsFiniteSet(Client) /\ CleanupKey \notin Key
  /\ WaitKeys \subseteq SUBSET Key
  /\ Text \notin Int /\ SetValue \subseteq Int \cup {Text}
  /\ None \notin Int \cup {Text}

(* Processes that name whatever keys they like.                            *)
ProcessStep(c) == EnterCall(c, Key, WaitKeys) \/ FileStep(c)
FileNext == \E c \in Client : ProcessStep(c)
FileSpec == FileInit /\ [][FileNext]_fileVars

AnyKey == Key \cup {CleanupKey}
Entry == [key : AnyKey, val : SetValue \cup Int]
QueryType ==
  [op : Operation \cup {"IDLE"}, keys : SUBSET AnyKey,
   val : SetValue \cup {1, None}]

(* The map that a sequence of entries leaves, and one updated by it.       *)
Of(s) == [k \in KeysOf(s) |-> Latest(s, k)]
Merged(m, new) ==
  [k \in DOMAIN m \cup KeysOf(new) |->
     IF k \in KeysOf(new) THEN Latest(new, k) ELSE m[k]]
Rest(s, p) == SubSeq(s, p + 1, Len(s))

(* Every key of a sequence of entries has a last entry there.              *)
IsLast(s, k, i) ==
  /\ i \in DOMAIN s /\ s[i].key = k
  /\ \A j \in DOMAIN s : s[j].key = k => j <= i
Lasts(s) == \A k \in KeysOf(s) : \E i \in DOMAIN s : IsLast(s, k, i)

----------------------------------------------------------------------------
(* The inductive invariant of a FileStore.                                 *)

(* What a call looks like, and which keys it names: the cleanup key only   *)
(* once the destructor of the process has begun.                           *)
CallInv ==
  /\ call \in [Client -> QueryType] /\ closed \subseteq Client
  /\ \A c \in Client :
       /\ call[c].op = "IDLE" => call[c] = Idle
       /\ call[c].op \in {"SET", "ADD", "GET"} => call[c].keys # {}
       /\ call[c].op = "SET" => call[c].val \in SetValue
       /\ call[c].op = "ADD" => call[c].val = 1
       /\ call[c].op = "WAIT" => call[c].keys \in WaitKeys
       /\ c \notin closed => call[c].keys \subseteq Key
       /\ c \in closed =>
            call[c] = Idle \/ call[c] = Query("ADD", {CleanupKey}, 1)

(* A call in progress has no result yet.                                   *)
ResultInv ==
  /\ result = [c \in Client |-> result[c]]
  /\ \A c \in Client : call[c] # Idle => result[c] = None

(* Whoever reads the rest of the file has all of it in its cache.          *)
LogInv ==
  /\ log \in Seq(Entry) /\ pos \in [Client -> 0 .. Len(log)]
  /\ Lasts(log) /\ \A c \in Client : Lasts(Rest(log, pos[c]))
  /\ cache = [c \in Client |-> cache[c]]
  /\ \A c \in Client : Merged(cache[c], Rest(log, pos[c])) = Of(log)
  /\ file = "absent" => log = <<>>

FInv == CallInv /\ ResultInv /\ LogInv

----------------------------------------------------------------------------
(* Sequences of entries.                                                   *)

(* The last entry of a key is the one that Latest takes.                   *)
LEMMA LatestIs ==
  ASSUME NEW s \in Seq(Entry), NEW k, NEW i \in DOMAIN s, IsLast(s, k, i)
  PROVE  Latest(s, k) = s[i].val
<1> DEFINE I == {j \in DOMAIN s : s[j].key = k}
<1>1. i \in I /\ I \subseteq Nat /\ \A j \in I : j <= i
  BY DEF IsLast
<1> HIDE DEF I
<1>2. Max(I) = i
  BY <1>1 DEF Max
<1> QED
  BY <1>2, Zenon DEF Latest, I

(* An entry appended is the last of its key, and leaves the other keys.    *)
LEMMA LatestAppend ==
  ASSUME NEW s \in Seq(Entry), NEW e \in Entry, Lasts(s)
  PROVE  /\ KeysOf(Append(s, e)) = KeysOf(s) \cup {e.key}
         /\ Latest(Append(s, e), e.key) = e.val
         /\ \A k \in KeysOf(s) : k # e.key =>
              Latest(Append(s, e), k) = Latest(s, k)
         /\ Lasts(Append(s, e))
<1> DEFINE t == Append(s, e)
           n == Len(s) + 1
<1>1. /\ Len(s) \in Nat /\ DOMAIN s = 1 .. Len(s) /\ DOMAIN t = 1 .. n
      /\ \A i \in 1 .. Len(s) : t[i] = s[i]
      /\ t[n] = e /\ t \in Seq(Entry) /\ n \in Nat
  OBVIOUS
<1> HIDE DEF t
<1>2. KeysOf(t) = KeysOf(s) \cup {e.key}
  BY <1>1 DEF KeysOf
<1>3. IsLast(t, e.key, n) /\ n \in DOMAIN t
  BY <1>1 DEF IsLast
<1>4. ASSUME NEW k \in KeysOf(s), k # e.key
      PROVE  \E i \in DOMAIN s : /\ IsLast(s, k, i) /\ IsLast(t, k, i)
                                 /\ i \in DOMAIN t /\ t[i] = s[i]
  <2>1. PICK i \in DOMAIN s : IsLast(s, k, i)
    BY Zenon DEF Lasts
  <2>2. i \in DOMAIN t /\ t[i] = s[i]
    BY <1>1
  <2>3. \A j \in DOMAIN t : t[j].key = k => j \in DOMAIN s /\ t[j] = s[j]
    BY <1>1, <1>4
  <2> QED
    BY <2>1, <2>2, <2>3, Zenon DEF IsLast
<1> HIDE DEF n
<1>5. Latest(t, e.key) = e.val
  BY <1>1, <1>3, LatestIs, Zenon
<1>6. ASSUME NEW k \in KeysOf(s), k # e.key
      PROVE  Latest(t, k) = Latest(s, k)
  <2>1. PICK i \in DOMAIN s : /\ IsLast(s, k, i) /\ IsLast(t, k, i)
                              /\ i \in DOMAIN t /\ t[i] = s[i]
    BY <1>4, <1>6, Zenon
  <2>2. Latest(s, k) = s[i].val
    BY <2>1, LatestIs, Zenon
  <2>3. Latest(t, k) = t[i].val
    BY <1>1, <2>1, LatestIs, Zenon
  <2> QED
    BY <2>1, <2>2, <2>3, Zenon
<1>7. Lasts(t)
  BY <1>2, <1>3, <1>4, Zenon DEF Lasts
<1> QED
  BY <1>2, <1>5, <1>6, <1>7, Zenon DEF t

(* What an entry appended does to the map, and to one that is updated.     *)
LEMMA OfAppend ==
  ASSUME NEW s \in Seq(Entry), NEW e \in Entry, Lasts(s)
  PROVE  Of(Append(s, e)) = Bind(Of(s), e.key, e.val)
  BY LatestAppend, Zenon DEF Of, Bind

(* A cache updated by a longer sequence.                                   *)
LEMMA MergedAppend ==
  ASSUME NEW s \in Seq(Entry), NEW e \in Entry, NEW m, Lasts(s)
  PROVE  Merged(m, Append(s, e)) = Bind(Merged(m, s), e.key, e.val)
  BY LatestAppend DEF Merged, Bind

(* Nothing to be read.                                                     *)
LEMMA MergedNothing ==
  /\ KeysOf(<<>>) = {} /\ Lasts(<<>>)
  /\ \A s \in Seq(Entry) : Merged(Of(s), <<>>) = Of(s)
<1>1. KeysOf(<<>>) = {}
  BY DEF KeysOf
<1> QED
  BY <1>1, Zenon DEF Merged, Of, Lasts

(* What is behind a position: its length and its entries.                  *)
LEMMA RestLength ==
  ASSUME NEW s \in Seq(Entry), NEW p \in Nat, NEW n \in Nat, Len(s) = p + n
  PROVE  /\ Rest(s, p) \in Seq(Entry) /\ Len(Rest(s, p)) = n
         /\ \A i \in 1 .. n : Rest(s, p)[i] = s[p + i]
  BY DEF Rest

(* What is behind a position, before and after an entry is appended.       *)
LEMMA RestIs ==
  ASSUME NEW s \in Seq(Entry), NEW e \in Entry, NEW p \in 0 .. Len(s)
  PROVE  /\ Rest(s, p) \in Seq(Entry)
         /\ Rest(Append(s, e), p) = Append(Rest(s, p), e)
         /\ Rest(s, Len(s)) = <<>>
         /\ Rest(Append(s, e), Len(s)) = <<e>>
<1>1. Rest(s, p) \in Seq(Entry)
  BY DEF Rest
<1>2. ASSUME NEW q \in 0 .. Len(s)
      PROVE  Rest(Append(s, e), q) = Append(Rest(s, q), e)
  <2>1. PICK n \in Nat : Len(s) = q + n
    <3>1. Len(s) - q \in Nat /\ Len(s) = q + (Len(s) - q)
      OBVIOUS
    <3> QED
      BY <3>1, Zenon
  <2> DEFINE t == Append(s, e)
             r == Rest(s, q)
  <2>2. /\ q \in Nat /\ t \in Seq(Entry) /\ Len(t) = q + (n + 1)
        /\ t[q + (n + 1)] = e /\ \A i \in 1 .. q + n : t[i] = s[i]
    BY <2>1
  <2>3. r \in Seq(Entry) /\ Len(r) = n /\ \A i \in 1 .. n : r[i] = s[q + i]
    BY <2>1, <2>2, RestLength, Zenon
  <2> HIDE DEF t, r
  <2>4. /\ Append(r, e) \in Seq(Entry) /\ Len(Append(r, e)) = n + 1
        /\ \A i \in 1 .. n : Append(r, e)[i] = r[i]
        /\ Append(r, e)[n + 1] = e
    BY <2>3
  <2>5. /\ Rest(t, q) \in Seq(Entry) /\ Len(Rest(t, q)) = n + 1
        /\ \A i \in 1 .. n + 1 : Rest(t, q)[i] = t[q + i]
    <3>1. n + 1 \in Nat
      OBVIOUS
    <3> QED
      BY <2>2, <3>1, RestLength, Zenon
  <2>6. ASSUME NEW i \in 1 .. n + 1
        PROVE  Rest(t, q)[i] = Append(r, e)[i]
    <3>1. CASE i = n + 1
      BY <2>2, <2>4, <2>5, <3>1, Zenon
    <3>2. CASE i \in 1 .. n
      <4>1. q + i \in 1 .. q + n
        BY <2>2, <3>2
      <4> QED
        BY <2>2, <2>3, <2>4, <2>5, <3>2, <4>1, ZenonT(40)
    <3>3. i = n + 1 \/ i \in 1 .. n
      OBVIOUS
    <3> QED
      BY <3>1, <3>2, <3>3, Zenon
  <2>7. Rest(t, q) = Append(r, e)
    BY <2>4, <2>5, <2>6
  <2> QED
    BY <2>7, Zenon DEF t, r
<1>3. Rest(s, Len(s)) = <<>>
  BY DEF Rest
<1>4. Rest(Append(s, e), Len(s)) = <<e>>
  <2>1. Len(s) \in 0 .. Len(s) /\ Append(<<>>, e) = <<e>>
    OBVIOUS
  <2>2. Rest(Append(s, e), Len(s)) = Append(Rest(s, Len(s)), e)
    BY <1>2, <2>1, Zenon
  <2> QED
    BY <1>3, <2>1, <2>2, Zenon
<1> QED
  BY <1>1, <1>2, <1>3, <1>4, Zenon

----------------------------------------------------------------------------
(* What a process reads is what the file holds.                            *)
LEMMA Reads ==
  ASSUME LogInv
  PROVE  /\ Contents = Of(log)
         /\ \A c \in Client : Refreshed(c) = Of(log)
<1>1. Contents = Of(log)
  BY Zenon DEF Contents, Of
<1>2. \A c \in Client : Refreshed(c) = Merged(cache[c], Rest(log, pos[c]))
  BY Zenon DEF Refreshed, Merged, Rest
<1> QED
  BY <1>1, <1>2, Zenon DEF LogInv

(* The file holds values that set() was given and numbers.                 *)
LEMMA OfType ==
  ASSUME LogInv, NEW k \in DOMAIN Of(log)
  PROVE  Of(log)[k] \in SetValue \cup Int
<1>1. k \in KeysOf(log) /\ Of(log)[k] = Latest(log, k) /\ log \in Seq(Entry)
  BY Zenon DEF Of, LogInv
<1>2. PICK i \in DOMAIN log : IsLast(log, k, i)
  BY <1>1, Zenon DEF LogInv, Lasts
<1>3. log[i] \in Entry /\ Latest(log, k) = log[i].val
  BY <1>1, <1>2, LatestIs
<1> QED
  BY <1>1, <1>3, Zenon DEF Entry

(* set() appends an entry, and nobody has read it.                         *)
LEMMA LogAppended ==
  ASSUME LogInv, NEW e \in Entry, log' = Append(log, e),
         UNCHANGED <<pos, cache, file>>, file # "absent"
  PROVE  LogInv'
<1>1. /\ log' \in Seq(Entry) /\ Len(log') = Len(log) + 1 /\ Len(log) \in Nat
      /\ log \in Seq(Entry) /\ Lasts(log)
  BY DEF LogInv
<1>2. pos' \in [Client -> 0 .. Len(log')]
  BY <1>1 DEF LogInv
<1>3. Of(log') = Bind(Of(log), e.key, e.val) /\ Lasts(log')
  BY <1>1, OfAppend, LatestAppend, Zenon
<1>4. ASSUME NEW c \in Client
      PROVE  /\ Merged(cache[c], Rest(log', pos[c])) = Of(log')
             /\ Lasts(Rest(log', pos[c]))
  <2>1. pos[c] \in 0 .. Len(log) /\ Lasts(Rest(log, pos[c]))
    BY Zenon DEF LogInv
  <2>2. /\ Rest(log, pos[c]) \in Seq(Entry)
        /\ Rest(log', pos[c]) = Append(Rest(log, pos[c]), e)
    BY <1>1, <2>1, RestIs, Zenon
  <2>3. /\ Merged(cache[c], Rest(log', pos[c]))
             = Bind(Merged(cache[c], Rest(log, pos[c])), e.key, e.val)
        /\ Lasts(Rest(log', pos[c]))
    BY <2>1, <2>2, MergedAppend, LatestAppend
  <2> QED
    BY <1>3, <2>3, Zenon DEF LogInv
<1> QED
  BY <1>1, <1>2, <1>3, <1>4, Zenon DEF LogInv

(* A call that only reads.                                                 *)
LEMMA LogRead ==
  ASSUME LogInv, NEW c \in Client, refresh(c, Of(log)), UNCHANGED <<log, file>>
  PROVE  LogInv'
<1>1. log \in Seq(Entry) /\ Len(log) \in 0 .. Len(log)
  BY DEF LogInv
<1>2. pos' \in [Client -> 0 .. Len(log)]
  BY <1>1, Zenon DEF LogInv, refresh
<1>3. cache' = [d \in Client |-> cache'[d]]
  BY Zenon DEF LogInv, refresh
<1>4. ASSUME NEW d \in Client
      PROVE  /\ Merged(cache'[d], Rest(log, pos'[d])) = Of(log)
             /\ Lasts(Rest(log, pos'[d]))
  <2>1. CASE d = c
    <3>1. cache'[d] = Of(log) /\ pos'[d] = Len(log)
      BY <2>1, Zenon DEF LogInv, refresh
    <3>2. Rest(log, Len(log)) = <<>>
      BY <1>1 DEF Rest
    <3> QED
      BY <1>1, <3>1, <3>2, MergedNothing, Zenon
  <2>2. CASE d # c
    BY <2>2, Zenon DEF LogInv, refresh
  <2> QED
    BY <2>1, <2>2, Zenon
<1> QED
  BY <1>1, <1>2, <1>3, <1>4, Zenon DEF LogInv

(* add() reads, and appends an entry behind what it has read; the value of *)
(* that key in its cache does not matter, since the entry is read later.   *)
LEMMA LogAdded ==
  ASSUME LogInv, NEW c \in Client, NEW e \in Entry, NEW old,
         refresh(c, Bind(Of(log), e.key, old)), log' = Append(log, e),
         UNCHANGED file, file # "absent"
  PROVE  LogInv'
<1>1. /\ log \in Seq(Entry) /\ Len(log) \in 0 .. Len(log) /\ Lasts(log)
      /\ log' \in Seq(Entry) /\ Len(log') = Len(log) + 1 /\ Len(log) \in Nat
  BY DEF LogInv
<1>2. pos' \in [Client -> 0 .. Len(log')]
  BY <1>1 DEF LogInv, refresh
<1>3. cache' = [d \in Client |-> cache'[d]]
  BY Zenon DEF LogInv, refresh
<1>4. Of(log') = Bind(Of(log), e.key, e.val) /\ Lasts(log')
  BY <1>1, OfAppend, LatestAppend, Zenon
<1>5. ASSUME NEW d \in Client
      PROVE  /\ Merged(cache'[d], Rest(log', pos'[d])) = Of(log')
             /\ Lasts(Rest(log', pos'[d]))
  <2>1. CASE d = c
    <3>1. cache'[d] = Bind(Of(log), e.key, old) /\ pos'[d] = Len(log)
      BY <2>1, Zenon DEF LogInv, refresh
    <3>2. PICK s \in Seq(Entry) :
            s = <<>> /\ Lasts(s) /\ Rest(log', Len(log)) = Append(s, e)
      BY <1>1, RestIs, MergedNothing, Zenon
    <3>3. /\ Merged(cache'[d], Append(s, e))
               = Bind(Merged(cache'[d], s), e.key, e.val)
          /\ Lasts(Append(s, e))
      BY <3>2, MergedAppend, LatestAppend, Zenon
    <3>4. Bind(Merged(Bind(Of(log), e.key, old), <<>>), e.key, e.val)
            = Bind(Of(log), e.key, e.val)
      BY MergedNothing DEF Merged, Bind
    <3> QED
      BY <1>4, <3>1, <3>2, <3>3, <3>4, Zenon
  <2>2. CASE d # c
    <3>1. /\ cache'[d] = cache[d] /\ pos'[d] = pos[d]
          /\ pos[d] \in 0 .. Len(log)
          /\ Lasts(Rest(log, pos[d]))
      BY <2>2, Zenon DEF LogInv, refresh
    <3>2. /\ Rest(log, pos[d]) \in Seq(Entry)
          /\ Rest(log', pos[d]) = Append(Rest(log, pos[d]), e)
      BY <1>1, <3>1, RestIs, Zenon
    <3>3. /\ Merged(cache[d], Rest(log', pos[d]))
               = Bind(Merged(cache[d], Rest(log, pos[d])), e.key, e.val)
          /\ Lasts(Rest(log', pos[d]))
      BY <3>1, <3>2, MergedAppend, LatestAppend
    <3> QED
      BY <1>4, <3>1, <3>3, Zenon DEF LogInv
  <2> QED
    BY <2>1, <2>2, Zenon
<1> QED
  BY <1>1, <1>2, <1>3, <1>4, <1>5, Zenon DEF LogInv

----------------------------------------------------------------------------
(* The calls of a FileStore.                                               *)

(* The fields of a query.                                                  *)
LEMMA QueryFacts ==
  \A o, K, v : /\ Query(o, K, v).op = o /\ Query(o, K, v).keys = K
               /\ Query(o, K, v).val = v
               /\ o # "IDLE" => Query(o, K, v) # Idle
  BY Zenon DEF Query, Idle

(* What EnterCall enters.                                                  *)
Enters(c, q) ==
  /\ Enter(c, q) /\ q # Idle /\ q.op \in Operation
  /\ q.op \in {"SET", "ADD", "GET"} => q.keys # {}
  /\ q.op = "SET" => q.val \in SetValue
  /\ q.op = "ADD" => q.val = 1
  /\ q.op = "WAIT" => q.keys \in WaitKeys
  /\ q.keys \subseteq Key
(* EnterCall enters a query of its kind (FileStore::set, get, wait...).    *)
LEMMA Entered ==
  ASSUME FileAssumption, NEW c \in Client, EnterCall(c, Key, WaitKeys)
  PROVE  \E q \in QueryType : Enters(c, q)
<1>1. Key \subseteq AnyKey /\ WaitKeys \subseteq SUBSET Key
  BY Zenon DEF AnyKey, FileAssumption
<1>2. ASSUME NEW k \in Key, NEW v \in SetValue,
             Enter(c, Query("SET", {k}, v))
      PROVE  \E q \in QueryType : Enters(c, q)
  <2>1. Query("SET", {k}, v) \in QueryType
    BY <1>1, Zenon DEF Query, QueryType, Operation
  <2> QED
    BY <1>2, <2>1, QueryFacts DEF Operation, Enters
<1>3. ASSUME NEW k \in Key, Enter(c, Query("ADD", {k}, 1))
      PROVE  \E q \in QueryType : Enters(c, q)
  <2>1. Query("ADD", {k}, 1) \in QueryType
    BY <1>1, Zenon DEF Query, QueryType, Operation
  <2> QED
    BY <1>3, <2>1, QueryFacts DEF Operation, Enters
<1>4. ASSUME NEW o \in {"GET", "DELETE_KEY"}, NEW k \in Key,
             Enter(c, Query(o, {k}, None))
      PROVE  \E q \in QueryType : Enters(c, q)
  <2>1. Query(o, {k}, None) \in QueryType
    BY <1>1, Zenon DEF Query, QueryType, Operation
  <2> QED
    BY <1>4, <2>1, QueryFacts DEF Operation, Enters
<1>5. ASSUME NEW o \in {"CHECK", "WAIT"}, NEW K \in WaitKeys,
             Enter(c, Query(o, K, None))
      PROVE  \E q \in QueryType : Enters(c, q)
  <2>1. Query(o, K, None) \in QueryType
    BY <1>1, Zenon DEF Query, QueryType, Operation
  <2> QED
    BY <1>1, <1>5, <2>1, QueryFacts DEF Operation, Enters
<1>6. ASSUME Enter(c, Query("GETNUMKEYS", {}, None))
      PROVE  \E q \in QueryType : Enters(c, q)
  <2>1. Query("GETNUMKEYS", {}, None) \in QueryType
    BY Zenon DEF Query, QueryType, Operation
  <2> QED
    BY <1>6, <2>1, QueryFacts DEF Operation, Enters
<1> QED
  BY <1>2, <1>3, <1>4, <1>5, <1>6, Zenon DEF EnterCall

(* The steps that end a call: it leaves the critical section, or throws.   *)
Leaves(c) == \E r : Leave(c, r) /\ UNCHANGED closed

(* How a step of a process changes its call.                               *)
LEMMA CallChanges ==
  ASSUME NEW c \in Client, FileStep(c)
  PROVE  \/ call[c].op # "IDLE" /\ Leaves(c)
         \/ UNCHANGED <<call, result, closed>>
         \/ Close(c) \/ Return(c)
<1>1. CASE OpenCreates(c)
  BY <1>1, Zenon DEF OpenCreates
<1>2. CASE OpenTimesOut(c)
  BY <1>2, Zenon DEF OpenTimesOut, Leaves
<1>3. CASE set(c)
  BY <1>3, Zenon DEF set, Locked, Leaves
<1>4. CASE addHelper(c)
  BY <1>4, Zenon DEF addHelper, Locked, Leaves
<1>5. CASE get(c)
  BY <1>5, Zenon DEF get, Locked, Leaves
<1>6. CASE check(c) \/ getNumKeys(c)
  BY <1>6, Zenon DEF check, getNumKeys, Locked, Leaves
<1>7. CASE wait(c)
  BY <1>7, Zenon DEF wait, Locked, Leaves
<1>8. CASE deleteKey(c)
  BY <1>8, Zenon DEF deleteKey, Leaves
<1> QED
  BY <1>1, <1>2, <1>3, <1>4, <1>5, <1>6, <1>7, <1>8, Zenon DEF FileStep, Section

(* Every step keeps what is known of the calls.                            *)
LEMMA CallStep ==
  ASSUME FileAssumption, CallInv, NEW c \in Client, ProcessStep(c)
  PROVE  CallInv'
<1>2. Idle \in QueryType /\ Idle.op = "IDLE" /\ Idle.keys = {}
  BY Zenon DEF Idle, Query, QueryType
<1>3. CASE EnterCall(c, Key, WaitKeys)
  <2>1. PICK q \in QueryType : Enters(c, q)
    BY <1>3, Entered, Zenon DEF CallInv
  <2>2. call' = [call EXCEPT ![c] = q] /\ UNCHANGED closed /\ c \notin closed
    BY <2>1, Zenon DEF Enters, Enter
  <2>3. q.op # "IDLE"
    BY <2>1, Zenon DEF Enters, Operation
  <2> QED
    BY <2>1, <2>2, <2>3, Zenon DEF CallInv, Enters
<1>4. CASE Leaves(c)
  <2>1. call' = [call EXCEPT ![c] = Idle] /\ UNCHANGED closed
    BY <1>4, Zenon DEF Leaves, Leave
  <2> QED
    BY <1>2, <2>1, Zenon DEF CallInv
<1>5. CASE UNCHANGED <<call, result, closed>>
  BY <1>5, Zenon DEF CallInv
<1>6. CASE Close(c)
  <2> DEFINE q == Query("ADD", {CleanupKey}, 1)
  <2>1. call' = [call EXCEPT ![c] = q] /\ closed' = closed \cup {c}
    BY <1>6, Zenon DEF Close
  <2>2. q \in QueryType /\ q.op = "ADD" /\ q.val = 1 /\ q.keys # {}
    BY Zenon DEF Query, QueryType, Operation, AnyKey
  <2> HIDE DEF q
  <2>3. /\ call' \in [Client -> QueryType] /\ closed' \subseteq Client
    BY <2>1, <2>2, Zenon DEF CallInv
  <2>4. ASSUME NEW d \in Client, d # c
        PROVE  call'[d] = call[d] /\ (d \in closed' <=> d \in closed)
    BY <2>1, <2>4, Zenon DEF CallInv
  <2>5. call'[c] = q /\ c \in closed'
    BY <2>1, Zenon DEF CallInv
  <2> QED
    BY <2>2, <2>3, <2>4, <2>5, Zenon DEF CallInv, q
<1>7. CASE Return(c)
  BY <1>7, Zenon DEF CallInv, Return
<1> QED
  BY <1>3, <1>4, <1>5, <1>6, <1>7, CallChanges, Zenon DEF ProcessStep

(* A result is there only between the end of a call and its return.        *)
LEMMA ResultStep ==
  ASSUME FileAssumption, CallInv, ResultInv, NEW c \in Client, ProcessStep(c)
  PROVE  ResultInv'
<1>1. CASE EnterCall(c, Key, WaitKeys)
  BY <1>1, Entered, Zenon DEF Enters, Enter, CallInv, ResultInv
<1>2. CASE Leaves(c)
  <2>1. PICK r : Leave(c, r)
    BY <1>2, Zenon DEF Leaves
  <2> QED
    BY <2>1, Zenon DEF Leave, CallInv, ResultInv
<1>3. CASE UNCHANGED <<call, result, closed>>
  BY <1>3, Zenon DEF ResultInv
<1>4. CASE Close(c)
  BY <1>4, Zenon DEF Close, CallInv, ResultInv
<1>5. CASE Return(c)
  BY <1>5, Zenon DEF Return, ResultInv
<1> QED
  BY <1>1, <1>2, <1>3, <1>4, <1>5, CallChanges, Zenon DEF ProcessStep

----------------------------------------------------------------------------
(* The file.                                                               *)

(* set() appends its entry.                                                *)
LEMMA SetIs ==
  ASSUME CallInv, NEW c \in Client, set(c)
  PROVE  /\ call[c].op = "SET" /\ c \notin closed /\ file = "present"
         /\ TheKey(call[c]) \in Key
         /\ [key |-> TheKey(call[c]), val |-> call[c].val] \in Entry
         /\ log' = Append(log, [key |-> TheKey(call[c]), val |-> call[c].val])
<1>1. call[c].op = "SET" /\ file = "present"
  BY Zenon DEF set, Locked
<1>2. c \notin closed
  BY <1>1 DEF CallInv, Idle, Query
<1>3. TheKey(call[c]) \in call[c].keys
  BY <1>1, Zenon DEF CallInv, TheKey
<1>4. TheKey(call[c]) \in Key /\ TheKey(call[c]) \in AnyKey
  BY <1>2, <1>3, Zenon DEF CallInv, AnyKey
<1>5. call[c].val \in SetValue \cup Int
  BY <1>1, Zenon DEF CallInv
<1> QED
  BY <1>1, <1>2, <1>4, <1>5, Zenon DEF set, Entry

(* add() fails on text, or appends the sum.                                *)
AddFails(c) ==
  /\ ~CanAdd(Of(log), TheKey(call[c]))
  /\ refresh(c, Of(log)) /\ Leave(c, None) /\ UNCHANGED log
AddGives(c, n) ==
  /\ CanAdd(Of(log), TheKey(call[c])) /\ n = Plus(Of(log), TheKey(call[c]), 1)
  /\ \E old : refresh(c, Bind(Of(log), TheKey(call[c]), old))
  /\ log' = Append(log, [key |-> TheKey(call[c]), val |-> n])
  /\ Leave(c, n)
(* addHelper, the cache being the file after its refresh: it counts on,    *)
(* or throws on text.                                                      *)
LEMMA AddIs ==
  ASSUME FileAssumption, CallInv, LogInv, NEW c \in Client, addHelper(c)
  PROVE  /\ call[c].op = "ADD" /\ call[c].val = 1 /\ file = "present"
         /\ UNCHANGED <<file, closed>>
         /\ TheKey(call[c]) \in call[c].keys /\ TheKey(call[c]) \in AnyKey
         /\ AddFails(c) \/ \E n \in Int : AddGives(c, n)
<1> DEFINE k == TheKey(call[c])
           m == Of(log)
           old == IF k \in DOMAIN m THEN m[k] ELSE None
           n == 1 + IF old = None THEN 0 ELSE old
<1>1. call[c].op = "ADD" /\ file = "present" /\ UNCHANGED <<file, closed>>
  BY Zenon DEF addHelper, Locked
<1>2. call[c].val = 1 /\ k \in call[c].keys /\ k \in AnyKey
  BY <1>1, Zenon DEF CallInv, TheKey, QueryType
<1>3. k \in DOMAIN m => m[k] \in Int \cup {Text}
  BY OfType, Zenon DEF LogInv, FileAssumption
<1>4. Refreshed(c) = m
  BY Reads, Zenon
<1>5. /\ refresh(c, Bind(m, k, old))
      /\ \/ old = Text /\ Leave(c, None) /\ UNCHANGED log
         \/ /\ old # Text /\ log' = Append(log, [key |-> k, val |-> n])
            /\ Leave(c, n)
  BY <1>2, <1>4, Zenon DEF addHelper
<1>6. CASE old = Text /\ Leave(c, None) /\ UNCHANGED log
  <2>1. k \in DOMAIN m /\ m[k] = Text
    BY <1>6, Zenon DEF FileAssumption
  <2>2. Bind(m, k, old) = m
    BY <2>1, Zenon DEF Bind, Of
  <2> QED
    BY <1>1, <1>2, <1>5, <1>6, <2>1, <2>2, Zenon DEF AddFails, CanAdd
<1>7. CASE /\ old # Text /\ log' = Append(log, [key |-> k, val |-> n])
           /\ Leave(c, n)
  <2>1. CanAdd(m, k)
    BY <1>7, Zenon DEF CanAdd
  <2>2. n = Plus(m, k, 1) /\ n \in Int
    <3>1. CASE k \in DOMAIN m
      <4>1. m[k] \in Int /\ old = m[k] /\ old # None
        BY <1>3, <1>7, <3>1, Zenon DEF FileAssumption
      <4> QED
        BY <3>1, <4>1 DEF Plus
    <3>2. CASE k \notin DOMAIN m
      BY <3>2 DEF Plus
    <3> QED
      BY <3>1, <3>2, Zenon
  <2> HIDE DEF n, m, old
  <2>3. AddGives(c, n)
    BY <1>5, <1>7, <2>1, <2>2, Zenon DEF AddGives, m
  <2> QED
    BY <1>1, <1>2, <2>2, <2>3, Zenon
<1> QED
  BY <1>5, <1>6, <1>7, Zenon

(* The entry that add() writes.                                            *)
LEMMA AddEntry ==
  ASSUME NEW k \in AnyKey, NEW n \in Int
  PROVE  /\ [key |-> k, val |-> n] \in Entry
         /\ [key |-> k, val |-> n].key = k /\ [key |-> k, val |-> n].val = n
  BY Zenon DEF Entry

(* The steps that neither write to the file nor read it.                   *)
LEMMA OtherSteps ==
  ASSUME NEW c \in Client,
         \/ EnterCall(c, Key, WaitKeys) \/ OpenTimesOut(c) \/ deleteKey(c)
         \/ Close(c) \/ Return(c)
  PROVE  /\ UNCHANGED <<log, pos, cache>>
         /\ file' = file \/ file' = "removed"
         /\ Return(c) \/ file' = file
  BY Zenon DEF EnterCall, Enter, OpenTimesOut, deleteKey, Close,
     Return

(* The steps that only read the file.                                      *)
ReadStep(c) == get(c) \/ check(c) \/ wait(c) \/ getNumKeys(c)
(* get, check, wait and getNumKeys read the rest of the file, or nothing.  *)
LEMMA ReadsOnly ==
  ASSUME LogInv, NEW c \in Client, ReadStep(c)
  PROVE  /\ UNCHANGED <<log, file>> /\ file = "present" /\ UNCHANGED closed
         /\ refresh(c, Of(log)) \/ UNCHANGED <<pos, cache>>
<1>1. Refreshed(c) = Of(log)
  BY Reads, Zenon
<1>2. CASE get(c)
  BY <1>1, <1>2, Zenon DEF get, Locked
<1>3. CASE check(c) \/ wait(c) \/ getNumKeys(c)
  BY <1>1, <1>3, Zenon DEF check, wait, getNumKeys, Locked
<1> QED
  BY <1>2, <1>3, Zenon DEF ReadStep

(* Every step keeps the caches behind the file, and not beside it.         *)
LEMMA LogStep ==
  ASSUME FileAssumption, CallInv, LogInv, NEW c \in Client, ProcessStep(c)
  PROVE  LogInv'
<1>1. CASE OpenCreates(c)
  BY <1>1, Zenon DEF OpenCreates, LogInv
<1>2. CASE set(c)
  <2>1. UNCHANGED <<file, pos, cache>>
    BY <1>2, Zenon DEF set
  <2> QED
    BY <1>2, <2>1, SetIs, LogAppended, Zenon
<1>3. CASE addHelper(c)
  <2> DEFINE k == TheKey(call[c])
  <2>1. file = "present" /\ UNCHANGED file /\ k \in AnyKey
    BY <1>3, AddIs, Zenon
  <2>2. CASE AddFails(c)
    BY <2>1, <2>2, LogRead, Zenon DEF AddFails
  <2>3. ASSUME NEW n \in Int, AddGives(c, n)
        PROVE  LogInv'
    <3>1. PICK e \in Entry : e = [key |-> k, val |-> n] /\ e.key = k
      BY <2>1, AddEntry, ZenonT(40)
    <3>2. PICK old : refresh(c, Bind(Of(log), e.key, old))
      BY <2>3, <3>1, Zenon DEF AddGives
    <3>3. log' = Append(log, e)
      BY <2>3, <3>1, Zenon DEF AddGives
    <3> QED
      BY <2>1, <3>2, <3>3, LogAdded, Zenon
  <2> QED
    BY <1>3, <2>2, <2>3, AddIs, Zenon
<1>4. CASE ReadStep(c)
  <2>1. CASE refresh(c, Of(log))
    BY <1>4, <2>1, ReadsOnly, LogRead, Zenon
  <2>2. CASE UNCHANGED <<pos, cache>>
    BY <1>4, <2>2, ReadsOnly, Zenon DEF LogInv
  <2> QED
    BY <1>4, <2>1, <2>2, ReadsOnly, Zenon
<1>5. CASE \/ EnterCall(c, Key, WaitKeys) \/ OpenTimesOut(c) \/ deleteKey(c)
           \/ Close(c) \/ Return(c)
  BY <1>5, OtherSteps, Zenon DEF LogInv
<1> QED
  BY <1>1, <1>2, <1>3, <1>4, <1>5, Zenon DEF ProcessStep, FileStep, Section, ReadStep

(* FInv is an invariant.                                                   *)
LEMMA FInvInit ==
  ASSUME FileInit
  PROVE  FInv
<1>1. /\ log = <<>> /\ closed = {} /\ file = "absent"
      /\ pos = [c \in Client |-> 0] /\ cache = [c \in Client |-> EmptyMap]
      /\ call = [c \in Client |-> Idle] /\ result = [c \in Client |-> None]
  BY Zenon DEF FileInit
<1>2. Idle \in QueryType /\ Idle.op = "IDLE" /\ Idle.keys = {}
  BY Zenon DEF Idle, Query, QueryType
<1>3. CallInv /\ ResultInv
  BY <1>1, <1>2, Zenon DEF CallInv, ResultInv
<1>4. log \in Seq(Entry) /\ Len(log) = 0 /\ Rest(log, 0) = <<>>
  BY <1>1 DEF Rest
<1>5. Of(log) = Merged(EmptyMap, <<>>)
  BY <1>1, MergedNothing, Zenon DEF Of, Merged, EmptyMap
<1>6. LogInv
  BY <1>1, <1>4, <1>5, MergedNothing DEF LogInv
<1> QED
  BY <1>3, <1>6, Zenon DEF FInv

(* The invariant is inductive.                                             *)
LEMMA FInvStep ==
  ASSUME FileAssumption, FInv, [FileNext]_fileVars
  PROVE  FInv'
<1>1. CASE UNCHANGED fileVars
  BY <1>1, Zenon DEF fileVars, FInv, CallInv, ResultInv, LogInv
<1>2. ASSUME NEW c \in Client, ProcessStep(c)
      PROVE  FInv'
  BY <1>2, CallStep, ResultStep, LogStep, Zenon DEF FInv
<1> QED
  BY <1>1, <1>2, Zenon DEF FileNext

(* A step changes the file by an entry at most, for a key that its process *)
(* has named in the call that the step ends.                               *)
LEMMA ContentsChange ==
  ASSUME FileAssumption, FInv, NEW c \in Client, ProcessStep(c)
  PROVE  \/ UNCHANGED Contents
         \/ /\ call'[c] # call[c]
            /\ \E k \in call[c].keys : \E v : Contents' = Bind(Contents, k, v)
<1>1. CallInv /\ LogInv /\ log \in Seq(Entry) /\ Lasts(log)
  BY Zenon DEF FInv, LogInv
<1>2. Contents = Of(log) /\ Contents' = Of(log')
  BY Zenon DEF Contents, Of
<1>3. ASSUME call[c].op \in {"SET", "ADD"}, Leaves(c)
      PROVE  call'[c] # call[c]
  <2>1. call'[c] = Idle
    BY <1>1, <1>3, Zenon DEF Leaves, Leave, CallInv
  <2> QED
    BY <1>3, <2>1 DEF Idle, Query
<1>4. CASE set(c)
  <2>1. PICK e \in Entry : e.key = TheKey(call[c]) /\ log' = Append(log, e)
    BY <1>1, <1>4, SetIs, Zenon
  <2>2. call[c].op = "SET" /\ Leaves(c)
    BY <1>4, Zenon DEF set, Locked, Leaves
  <2>3. TheKey(call[c]) \in call[c].keys
    BY <1>1, <2>2, Zenon DEF CallInv, TheKey
  <2>4. Of(log') = Bind(Of(log), e.key, e.val)
    BY <1>1, <2>1, OfAppend, Zenon
  <2> QED
    BY <1>2, <1>3, <2>1, <2>2, <2>3, <2>4, Zenon
<1>5. CASE addHelper(c)
  <2>1. ASSUME NEW n \in Int, AddGives(c, n)
        PROVE  /\ call'[c] # call[c]
               /\ \E k \in call[c].keys : \E v : Contents' = Bind(Contents, k, v)
    <3>1. PICK j \in AnyKey : j = TheKey(call[c]) /\ j \in call[c].keys
      BY <1>1, <1>5, AddIs, Zenon
    <3>2. PICK e \in Entry : e = [key |-> j, val |-> n] /\ e.key = j
      BY AddEntry, Zenon
    <3>3. log' = Append(log, e) /\ Leaves(c) /\ call[c].op = "ADD"
      BY <1>1, <1>5, <2>1, <3>1, <3>2, AddIs, Zenon DEF AddGives, Leaves
    <3>4. Of(log') = Bind(Of(log), e.key, e.val)
      BY <1>1, <3>3, OfAppend, Zenon
    <3> QED
      BY <1>2, <1>3, <3>1, <3>2, <3>3, <3>4, Zenon
  <2>2. CASE AddFails(c)
    BY <1>2, <2>2, Zenon DEF AddFails
  <2> QED
    BY <1>1, <1>5, <2>1, <2>2, AddIs, Zenon
<1>6. CASE ReadStep(c)
  BY <1>1, <1>2, <1>6, ReadsOnly, Zenon
<1>7. CASE \/ EnterCall(c, Key, WaitKeys) \/ OpenTimesOut(c) \/ deleteKey(c)
           \/ Close(c) \/ Return(c)
  BY <1>2, <1>7, OtherSteps, Zenon
<1>8. CASE OpenCreates(c)
  BY <1>2, <1>8, Zenon DEF OpenCreates
<1> QED
  BY <1>4, <1>5, <1>6, <1>7, <1>8, Zenon DEF ProcessStep, FileStep, Section, ReadStep

----------------------------------------------------------------------------
(* The refinements.                                                        *)

(* Store's operators on maps and queries, for a FileStore.                 *)
LEMMA StoreOperators ==
  /\ \A q : Abs!TheKey(q) = TheKey(q)
  /\ \A m, k, v : Abs!Bind(m, k, v) = Bind(m, k, v)
  /\ \A m, k : Abs!CanAdd(m, k) <=> CanAdd(m, k)
  /\ \A m, k, n : Abs!Plus(m, k, n) = Plus(m, k, n)
  /\ \A b : Abs!Truth(b) = Truth(b)
  /\ \A o, K, v : Abs!Query(o, K, v) = Query(o, K, v)
  /\ \A S : Abs!Cardinality(S) = Cardinality(S)
  /\ Abs!Operation = Operation
<1>1. /\ \A q : Abs!TheKey(q) = TheKey(q)
      /\ \A m, k, v : Abs!Bind(m, k, v) = Bind(m, k, v)
  BY Zenon DEF Abs!TheKey, TheKey, Abs!Bind, Bind
<1>2. /\ \A m, k : Abs!CanAdd(m, k) <=> CanAdd(m, k)
      /\ \A m, k, n : Abs!Plus(m, k, n) = Plus(m, k, n)
  BY Zenon DEF Abs!CanAdd, CanAdd, Abs!Plus, Plus
<1>3. /\ \A b : Abs!Truth(b) = Truth(b)
      /\ \A S : Abs!Cardinality(S) = Cardinality(S)
  BY Zenon DEF Abs!Truth, Truth, Abs!Cardinality, Cardinality
<1>4. /\ \A o, K, v : Abs!Query(o, K, v) = Query(o, K, v)
      /\ Abs!Operation = Operation
  BY Zenon DEF Abs!Query, Query, Abs!Operation, Operation
<1> QED
  BY <1>1, <1>2, <1>3, <1>4, Zenon

(* The calls that Store has not applied yet.                               *)
Sent ==
  [c \in Client |-> IF call[c] = Idle THEN <<>> ELSE <<call[c]>>]

(* A queue of one call.                                                    *)
LEMMA Queues ==
  \A q : /\ <<q>> # <<>> /\ Head(<<q>>) = q /\ Tail(<<q>>) = <<>>
        /\ Append(<<>>, q) = <<q>>
  OBVIOUS

(* The end of a call takes it off the queue, and its entry puts it there.  *)
LEMMA SentLeave ==
  ASSUME CallInv, NEW c \in Client, NEW r, Leave(c, r),
         call[c].op # "IDLE"
  PROVE  /\ Sent[c] = <<call[c]>>
         /\ Sent' = [Sent EXCEPT ![c] = Tail(@)]
<1>1. call[c] # Idle /\ call' = [call EXCEPT ![c] = Idle]
  BY DEF Idle, Query, Leave
<1>2. Sent[c] = <<call[c]>>
  BY <1>1, Zenon DEF Sent
<1>3. Sent' = [Sent EXCEPT ![c] = <<>>]
  BY <1>1, Zenon DEF Sent, CallInv
<1> QED
  BY <1>2, <1>3, Queues, Zenon

(* A call entered is one submitted to Store.                               *)
LEMMA Submits ==
  ASSUME CallInv, NEW c \in Client, NEW q \in QueryType, q # Idle,
         q.op \in Operation, call[c] = Idle, result[c] = None,
         call' = [call EXCEPT ![c] = q], UNCHANGED <<log, result>>
  PROVE  Abs!Submit(c)
<1>1. Sent[c] = <<>> /\ Sent' = [Sent EXCEPT ![c] = <<q>>]
  BY Zenon DEF Sent, CallInv
<1>2. Sent' = [Sent EXCEPT ![c] = Append(@, q)]
  BY <1>1, Queues, Zenon
<1>3. PICK op \in Operation, keys \in SUBSET AnyKey,
           val \in SetValue \cup {1, None} : q = Query(op, keys, val)
  BY Zenon DEF QueryType, Query
<1>4. /\ op \in Abs!Operation /\ keys \in SUBSET (Key \cup {CleanupKey})
      /\ val \in SetValue \cup {1} \cup {None} /\ q = Abs!Query(op, keys, val)
  BY <1>3, StoreOperators, Zenon DEF AnyKey
<1>5. \E o \in Abs!Operation, K \in SUBSET (Key \cup {CleanupKey}),
         v \in SetValue \cup {1} \cup {None} :
        Sent' = [Sent EXCEPT ![c] = Append(@, Abs!Query(o, K, v))]
  BY <1>2, <1>4, Zenon
<1>6. Sent' # Sent
  <2>1. Sent'[c] = <<q>>
    BY <1>1, Zenon DEF Sent
  <2> QED
    BY <1>1, <2>1, Queues, Zenon
<1>7. ~Abs!Blocked(c)
  BY <1>1 DEF Abs!Blocked, Sent
<1>8. UNCHANGED <<Contents, result>>
  BY Zenon DEF Contents
<1> QED
  BY <1>5, <1>6, <1>7, <1>8, Zenon DEF Abs!Submit, Sent

(* A call that is applied, by what it does to the map and returns.         *)
LEMMA Applies ==
  ASSUME CallInv, ResultInv, NEW c \in Client, NEW r, Leave(c, r),
         call[c].op # "IDLE"
  PROVE  /\ Contents = Of(log) /\ Contents' = Of(log')
         /\ Sent[c] # <<>> /\ Head(Sent[c]) = call[c]
         /\ Sent' = [Sent EXCEPT ![c] = Tail(@)]
         /\ result' = [result EXCEPT ![c] = r]
         /\ r = None => UNCHANGED result
<1>2. Contents = Of(log) /\ Contents' = Of(log')
  BY Zenon DEF Contents, Of
<1>3. Sent[c] = <<call[c]>> /\ Sent' = [Sent EXCEPT ![c] = Tail(@)]
  BY SentLeave, Zenon
<1>4. result' = [result EXCEPT ![c] = r] /\ result[c] = None
  BY DEF Leave, ResultInv, Idle, Query
<1> QED
  BY <1>2, <1>3, <1>4, Queues, Zenon DEF ResultInv

(* One step of FileStore is a step of Store, or none.                      *)
LEMMA RefinementStep ==
  ASSUME FileAssumption, CallInv, ResultInv, LogInv,
         NEW c \in Client, ProcessStep(c)
  PROVE  Abs!SNext \/ UNCHANGED <<Contents, Sent, result>>
<1> DEFINE k == TheKey(call[c])
<1>2. Refreshed(c) = Of(log) /\ Contents = Of(log) /\ Contents' = Of(log')
  BY Reads, Zenon DEF Contents, Of
<1>3. CASE EnterCall(c, Key, WaitKeys)
  <2>1. PICK q \in QueryType : Enters(c, q)
    BY <1>3, Entered, Zenon DEF CallInv
  <2>2. Abs!Submit(c)
    BY <2>1, Submits, Zenon DEF Enters, Enter
  <2> QED
    BY <2>2, Zenon DEF Abs!SNext
<1>4. CASE Close(c)
  <2> DEFINE q == Query("ADD", {CleanupKey}, 1)
  <2>1. q \in QueryType /\ q # Idle /\ q.op \in Operation
    BY QueryFacts, Zenon DEF Query, QueryType, Operation, AnyKey
  <2>2. /\ call[c] = Idle /\ result[c] = None
        /\ call' = [call EXCEPT ![c] = q] /\ UNCHANGED <<log, result>>
    BY <1>4, Zenon DEF Close
  <2> HIDE DEF q
  <2>3. Abs!Submit(c)
    BY <2>1, <2>2, Submits, Zenon
  <2> QED
    BY <2>3, Zenon DEF Abs!SNext
<1>5. CASE Return(c)
  <2>1. result[c] # None /\ result' = [result EXCEPT ![c] = None]
    BY <1>5, Zenon DEF Return
  <2>2. UNCHANGED <<Contents, Sent>>
    BY <1>2, <1>5, Zenon DEF Return, Sent
  <2>3. Abs!Return(c)
    BY <2>1, <2>2, Zenon DEF Abs!Return, Sent
  <2> QED
    BY <2>3, Zenon DEF Abs!SNext
<1>6. CASE OpenCreates(c)
  BY <1>2, <1>6, Zenon DEF OpenCreates, Sent
<1>7. CASE OpenTimesOut(c)
  <2>1. /\ Leave(c, None) /\ log = <<>> /\ log' = log /\ Timeouts
        /\ call[c].op \in {"GET", "WAIT", "CHECK", "GETNUMKEYS"}
    BY <1>7, Zenon DEF OpenTimesOut, LogInv
  <2>2. Of(log) = Abs!EmptyMap /\ DOMAIN Of(log) = {}
    <3>1. KeysOf(<<>>) = {}
      BY DEF KeysOf
    <3> QED
      BY <2>1, <3>1, Zenon DEF Of, Abs!EmptyMap
  <2>3. call[c].op = "GET" => ~(call[c].keys \subseteq DOMAIN Of(log))
    BY <2>2, Zenon DEF CallInv
  <2>4. /\ Contents = Of(log) /\ Contents' = Of(log)
        /\ Sent[c] # <<>> /\ Head(Sent[c]) = call[c]
        /\ Sent' = [Sent EXCEPT ![c] = Tail(@)] /\ UNCHANGED result
    BY <2>1, Applies, Zenon
  <2>5. CASE call[c].op = "WAIT" /\ call[c].keys \subseteq DOMAIN Of(log)
    <3>1. Abs!Apply(c)
      BY <2>4, <2>5, Zenon DEF Abs!Apply, Sent
    <3> QED
      BY <3>1, Zenon DEF Abs!SNext
  <2>6. CASE ~(call[c].op = "WAIT" /\ call[c].keys \subseteq DOMAIN Of(log))
    <3>1. Abs!Fail(c)
      BY <2>1, <2>2, <2>3, <2>4, <2>6, Zenon DEF Abs!Fail, Sent
    <3> QED
      BY <3>1, Zenon DEF Abs!SNext
  <2> QED
    BY <2>5, <2>6, Zenon
<1>8. CASE set(c)
  <2>1. Leave(c, None) /\ call[c].op = "SET"
    BY <1>8, Zenon DEF set, Locked
  <2>2. Of(log') = Bind(Of(log), k, call[c].val)
    BY <1>8, SetIs, OfAppend, Zenon DEF LogInv
  <2>3. /\ Contents = Of(log) /\ Contents' = Of(log')
        /\ Sent[c] # <<>> /\ Head(Sent[c]) = call[c]
        /\ Sent' = [Sent EXCEPT ![c] = Tail(@)] /\ UNCHANGED result
    BY <2>1, Applies, Zenon
  <2>4. Abs!Apply(c)
    BY <2>1, <2>2, <2>3, StoreOperators, Zenon DEF Abs!Apply, Sent
  <2> QED
    BY <2>4, Zenon DEF Abs!SNext
<1>9. CASE addHelper(c)
  <2>1. call[c].op = "ADD" /\ call[c].val = 1 /\ k \in AnyKey
    BY <1>9, AddIs, Zenon
  <2>2. ASSUME NEW n \in Int, AddGives(c, n)
        PROVE  Abs!Apply(c)
    <3>0. PICK j \in AnyKey : j = k
      BY <2>1, Zenon
    <3>1. PICK e \in Entry :
            e = [key |-> j, val |-> n] /\ e.key = j /\ e.val = n
      BY <3>0, AddEntry, Zenon
    <3>2. /\ CanAdd(Of(log), k) /\ n = Plus(Of(log), k, 1) /\ Leave(c, n)
          /\ log' = Append(log, e)
      BY <2>2, <3>0, <3>1, Zenon DEF AddGives
    <3>3. Of(log') = Bind(Of(log), k, n)
      BY <3>0, <3>1, <3>2, OfAppend, Zenon DEF LogInv
    <3>4. /\ Contents = Of(log) /\ Contents' = Of(log')
          /\ Sent[c] # <<>> /\ Head(Sent[c]) = call[c]
          /\ Sent' = [Sent EXCEPT ![c] = Tail(@)]
          /\ result' = [result EXCEPT ![c] = n]
      BY <2>1, <3>2, Applies, Zenon
    <3> QED
      BY <2>1, <3>2, <3>3, <3>4, StoreOperators, Zenon DEF Abs!Apply, Sent
  <2>3. CASE AddFails(c)
    <3>1. ~CanAdd(Of(log), k) /\ Leave(c, None) /\ UNCHANGED log
      BY <2>3, Zenon DEF AddFails
    <3>2. /\ Contents = Of(log) /\ Contents' = Of(log)
          /\ Sent[c] # <<>> /\ Head(Sent[c]) = call[c]
          /\ Sent' = [Sent EXCEPT ![c] = Tail(@)] /\ UNCHANGED result
      BY <2>1, <3>1, Applies, Zenon
    <3>3. Abs!Fail(c)
      BY <2>1, <3>1, <3>2, StoreOperators, Zenon DEF Abs!Fail, Sent
    <3> QED
      BY <3>3 DEF Abs!SNext
  <2>4. ASSUME Abs!Apply(c) PROVE Abs!SNext
    BY <2>4, Zenon DEF Abs!SNext
  <2>5. AddFails(c) \/ \E n \in Int : AddGives(c, n)
    BY <1>9, AddIs, Zenon
  <2> QED
    BY <2>2, <2>3, <2>4, <2>5, Zenon
<1>10. CASE get(c)
  <2>1. call[c].op = "GET" /\ UNCHANGED log
    BY <1>10, Zenon DEF get, Locked
  <2>2. CASE UNCHANGED <<call, result>>
    BY <1>2, <2>1, <2>2, Zenon DEF Sent
  <2>3. CASE k \in DOMAIN Of(log) /\ Leave(c, Of(log)[k])
    <3>1. /\ Contents = Of(log) /\ Contents' = Of(log)
          /\ Sent[c] # <<>> /\ Head(Sent[c]) = call[c]
          /\ Sent' = [Sent EXCEPT ![c] = Tail(@)]
          /\ result' = [result EXCEPT ![c] = Of(log)[k]]
      BY <2>1, <2>3, Applies, Zenon
    <3>2. Abs!Apply(c)
      BY <2>1, <2>3, <3>1, StoreOperators, Zenon DEF Abs!Apply, Sent
    <3> QED
      BY <3>2 DEF Abs!SNext
  <2>4. CASE /\ k \notin DOMAIN cache[c] /\ Len(log) = pos[c] /\ Timeouts
             /\ Leave(c, None)
    <3>1. /\ Contents = Of(log) /\ Contents' = Of(log)
          /\ Sent[c] # <<>> /\ Head(Sent[c]) = call[c]
          /\ Sent' = [Sent EXCEPT ![c] = Tail(@)] /\ UNCHANGED result
      BY <2>1, <2>4, Applies, Zenon
    <3>2. k \notin DOMAIN Of(log)
      <4>1. Rest(log, pos[c]) = <<>> /\ KeysOf(<<>>) = {}
        BY <2>4 DEF LogInv, Rest, KeysOf
      <4>2. Of(log) = Merged(cache[c], <<>>)
        BY <4>1, Zenon DEF LogInv
      <4> QED
        BY <2>4, <4>1, <4>2, Zenon DEF Merged
    <3>3. k \in call[c].keys
      BY <2>1, Zenon DEF CallInv, TheKey
    <3>4. Abs!Fail(c)
      BY <2>1, <2>4, <3>1, <3>2, <3>3, Zenon DEF Abs!Fail, Sent
    <3> QED
      BY <3>4 DEF Abs!SNext
  <2> QED
    BY <1>2, <1>10, <2>2, <2>3, <2>4, Zenon DEF get
<1>11. CASE check(c)
  <2>1. /\ call[c].op = "CHECK" /\ UNCHANGED log
        /\ Leave(c, Truth(call[c].keys \subseteq DOMAIN Of(log)))
    BY <1>2, <1>11, Zenon DEF check, Locked, HasKeys
  <2>2. /\ Contents = Of(log) /\ Contents' = Of(log)
        /\ Sent[c] # <<>> /\ Head(Sent[c]) = call[c]
        /\ Sent' = [Sent EXCEPT ![c] = Tail(@)]
        /\ result' = [result EXCEPT ![c] =
                         Truth(call[c].keys \subseteq DOMAIN Of(log))]
    BY <2>1, Applies, Zenon
  <2>3. Abs!Apply(c)
    BY <2>1, <2>2, StoreOperators, Zenon DEF Abs!Apply, Sent
  <2> QED
    BY <2>3 DEF Abs!SNext
<1>12. CASE wait(c)
  <2>1. /\ call[c].op = "WAIT" /\ UNCHANGED log
        /\ HasKeys(c) <=> call[c].keys \subseteq DOMAIN Of(log)
    BY <1>2, <1>12, Zenon DEF wait, Locked, HasKeys
  <2>2. CASE UNCHANGED <<call, result>>
    BY <1>2, <2>1, <2>2, Zenon DEF Sent
  <2>3. CASE Leave(c, None)
    <3>1. /\ Contents = Of(log) /\ Contents' = Of(log)
          /\ Sent[c] # <<>> /\ Head(Sent[c]) = call[c]
          /\ Sent' = [Sent EXCEPT ![c] = Tail(@)] /\ UNCHANGED result
      BY <2>1, <2>3, Applies, Zenon
    <3>2. CASE call[c].keys \subseteq DOMAIN Of(log)
      <4>1. Abs!Apply(c)
        BY <2>1, <3>1, <3>2, Zenon DEF Abs!Apply, Sent
      <4> QED
        BY <4>1 DEF Abs!SNext
    <3>3. CASE ~(call[c].keys \subseteq DOMAIN Of(log)) /\ Timeouts
      <4>1. Abs!Fail(c)
        BY <2>1, <3>1, <3>3, Zenon DEF Abs!Fail, Sent
      <4> QED
        BY <4>1 DEF Abs!SNext
    <3> QED
      BY <1>12, <2>1, <2>2, <3>2, <3>3, Zenon DEF wait
  <2> QED
    BY <1>12, <2>2, <2>3, Zenon DEF wait
<1>13. CASE getNumKeys(c)
  <2>1. /\ call[c].op = "GETNUMKEYS" /\ UNCHANGED log
        /\ Leave(c, Cardinality(DOMAIN Of(log)))
    BY <1>2, <1>13, Zenon DEF getNumKeys, Locked
  <2>2. /\ Contents = Of(log) /\ Contents' = Of(log)
        /\ Sent[c] # <<>> /\ Head(Sent[c]) = call[c]
        /\ Sent' = [Sent EXCEPT ![c] = Tail(@)]
        /\ result' = [result EXCEPT ![c] = Cardinality(DOMAIN Of(log))]
    BY <2>1, Applies, Zenon
  <2>3. Abs!Apply(c)
    BY <2>1, <2>2, StoreOperators, Zenon DEF Abs!Apply, Sent
  <2> QED
    BY <2>3 DEF Abs!SNext
<1>14. CASE deleteKey(c)
  <2>1. call[c].op = "DELETE_KEY" /\ UNCHANGED log /\ Leave(c, None)
    BY <1>14, Zenon DEF deleteKey
  <2>2. /\ Contents = Of(log) /\ Contents' = Of(log)
        /\ Sent[c] # <<>> /\ Head(Sent[c]) = call[c]
        /\ Sent' = [Sent EXCEPT ![c] = Tail(@)] /\ UNCHANGED result
    BY <2>1, Applies, Zenon
  <2>3. Abs!Fail(c)
    BY <2>1, <2>2, Zenon DEF Abs!Fail, Sent
  <2> QED
    BY <2>3 DEF Abs!SNext
<1> QED
  BY <1>3, <1>4, <1>5, <1>6, <1>7, <1>8, <1>9, <1>10, <1>11, <1>12, <1>13, <1>14, Zenon
     DEF ProcessStep, FileStep, Section

(* FileStore implements Store, the destructor's add() included: every call *)
(* reads the rest of the file under the lock, so that its cache then is    *)
(* the file, and does all its work there.                                  *)
THEOREM FileRefinement ==
  ASSUME FileAssumption
  PROVE  FileSpec => ImplementsStore
<1>1. FInv /\ [FileNext]_fileVars => FInv'
  BY FInvStep, Zenon
<1>2. FileInit => FInv
  BY FInvInit, Zenon
<1>3. FileInit => Abs!SInit
  <2> SUFFICES ASSUME FileInit PROVE Abs!SInit
    BY Zenon
  <2>1. Contents = Abs!EmptyMap
    BY DEF FileInit, Contents, KeysOf, Abs!EmptyMap
  <2> QED
    BY <2>1, Zenon DEF Abs!SInit, FileInit
<1>4. FInv /\ [FileNext]_fileVars => [Abs!SNext]_(Abs!svars)
  <2> SUFFICES ASSUME FInv, [FileNext]_fileVars
               PROVE  Abs!SNext \/ UNCHANGED <<Contents, Sent, result>>
    BY Zenon DEF Abs!svars, Sent
  <2>1. CASE UNCHANGED fileVars
    BY <2>1, Zenon DEF fileVars, Contents, Sent
  <2>2. ASSUME NEW c \in Client, ProcessStep(c)
        PROVE  Abs!SNext \/ UNCHANGED <<Contents, Sent, result>>
    BY <2>2, RefinementStep, Zenon DEF FInv
  <2> QED
    BY <2>1, <2>2, Zenon DEF FileNext
<1> QED
  BY <1>1, <1>2, <1>3, <1>4, PTL DEF FileSpec, ImplementsStore, Abs!SSpec

----------------------------------------------------------------------------
(* The cleanup key.                                                        *)

INSTANCE FiniteSetTheorems

(* The processes that have made the last call of their destructor, and how *)
(* many the counter under the cleanup key says they are.                   *)
Gone == {c \in closed : call[c] = Idle}
GoneCount == IF CleanupKey \in DOMAIN Of(log) THEN Of(log)[CleanupKey] ELSE 0

(* The counter is right, and the one that made it the number of processes  *)
(* was the last.                                                           *)
CleanupInv ==
  /\ GoneCount = Cardinality(Gone)
  /\ \A c \in closed : result[c] = Cardinality(Client) => Gone = Client
  /\ file = "removed" => Gone = Client

(* A process whose destructor has begun is only in its last add().         *)
LEMMA ClosedCalls ==
  ASSUME CallInv, NEW c \in closed, call[c] # Idle
  PROVE  /\ call[c].op = "ADD" /\ TheKey(call[c]) = CleanupKey
         /\ c \notin Gone
<1>1. call[c] = Query("ADD", {CleanupKey}, 1)
  BY Zenon DEF CallInv
<1>2. call[c].op = "ADD" /\ call[c].keys = {CleanupKey}
  BY <1>1, QueryFacts
<1> QED
  BY <1>2, Zenon DEF TheKey, Gone

(* Another entry leaves the counter alone.                                 *)
LEMMA OtherEntry ==
  ASSUME LogInv, NEW e \in Entry, e.key # CleanupKey, log' = Append(log, e)
  PROVE  GoneCount' = GoneCount
<1>1. Of(log') = Bind(Of(log), e.key, e.val)
  BY OfAppend, Zenon DEF LogInv
<1> QED
  BY <1>1, Zenon DEF GoneCount, Bind

(* While nobody makes the last call of a destructor, who is gone stays.    *)
LEMMA GoneSame ==
  ASSUME CleanupInv, GoneCount' = GoneCount, Gone' = Gone,
         \A c \in closed' : result'[c] = Cardinality(Client) =>
           c \in closed /\ result[c] = Cardinality(Client),
         file' = "removed" => file = "removed" \/ Gone = Client
  PROVE  CleanupInv'
  BY Zenon DEF CleanupInv

(* Every step of a process keeps it.                                       *)
LEMMA CleanupStep ==
  ASSUME FileAssumption, CallInv, ResultInv, LogInv, CleanupInv,
         NEW c \in Client, ProcessStep(c)
  PROVE  CleanupInv'
<1> DEFINE k == TheKey(call[c])
<1>2. Cardinality(Client) \in Nat
  BY FS_CardinalityType, Zenon DEF FileAssumption
<1>3. Idle.op = "IDLE"
  BY Zenon DEF Idle, Query
<1>4. ASSUME UNCHANGED log
      PROVE  GoneCount' = GoneCount
  BY <1>4, Zenon DEF GoneCount
<1>5. ASSUME c \notin closed, UNCHANGED closed,
             \A d \in Client \ {c} : call'[d] = call[d] /\ result'[d] = result[d]
      PROVE  /\ Gone' = Gone
             /\ \A d \in closed' : result'[d] = Cardinality(Client) =>
                  d \in closed /\ result[d] = Cardinality(Client)
  BY <1>5, Zenon DEF Gone, CallInv
<1>6. ASSUME Leaves(c)
      PROVE  /\ UNCHANGED closed
             /\ \A d \in Client \ {c} :
                  call'[d] = call[d] /\ result'[d] = result[d]
  BY <1>6, Zenon DEF Leaves, Leave, CallInv, ResultInv
<1>7. CASE EnterCall(c, Key, WaitKeys)
  <2>1. PICK q : Enter(c, q)
    BY <1>7, Entered, Zenon DEF CallInv, Enters
  <2>2. /\ c \notin closed /\ UNCHANGED <<closed, log, file>>
        /\ \A d \in Client \ {c} :
             call'[d] = call[d] /\ result'[d] = result[d]
    BY <2>1, Zenon DEF Enter, CallInv
  <2> QED
    BY <1>4, <1>5, <2>2, GoneSame, Zenon
<1>8. CASE OpenCreates(c)
  BY <1>8, Zenon DEF OpenCreates, CleanupInv, Gone, GoneCount
<1>9. CASE OpenTimesOut(c) \/ deleteKey(c) \/ ReadStep(c)
  <2>1. /\ UNCHANGED <<log, file, closed>> /\ call[c].op # "IDLE"
        /\ call[c].op # "ADD"
        /\ Leaves(c) \/ UNCHANGED <<call, result>>
    BY <1>9, Zenon DEF OpenTimesOut, deleteKey, ReadStep, get, check, wait,
       getNumKeys, Locked, Leaves
  <2>2. c \notin closed
    BY <1>3, <2>1, ClosedCalls, Zenon
  <2> QED
    BY <1>4, <1>5, <1>6, <2>1, <2>2, GoneSame, Zenon
<1>10. CASE set(c)
  <2>1. PICK e \in Entry : e.key = k /\ log' = Append(log, e)
    BY <1>10, SetIs, Zenon
  <2>2. k # CleanupKey /\ c \notin closed
    BY <1>10, SetIs, Zenon DEF CallInv, FileAssumption
  <2>3. Leaves(c) /\ UNCHANGED file
    BY <1>10, Zenon DEF set, Leaves
  <2>4. GoneCount' = GoneCount
    BY <2>1, <2>2, OtherEntry, Zenon
  <2> QED
    BY <1>5, <1>6, <2>2, <2>3, <2>4, GoneSame, Zenon
<1>11. CASE addHelper(c)
  <2>1. /\ UNCHANGED file /\ k \in call[c].keys /\ k \in AnyKey
        /\ Leaves(c) /\ call[c].op = "ADD" /\ file = "present"
    BY <1>11, AddIs, Zenon DEF AddFails, AddGives, Leaves
  <2>2. CASE c \notin closed
    <3>1. k # CleanupKey
      BY <2>1, <2>2, Zenon DEF CallInv, FileAssumption
    <3>2. GoneCount' = GoneCount
      <4>1. ASSUME NEW n \in Int, AddGives(c, n)
            PROVE  GoneCount' = GoneCount
        <5>1. PICK e \in Entry : e = [key |-> k, val |-> n] /\ e.key = k
          BY <2>1, AddEntry, Zenon
        <5>2. log' = Append(log, e)
          BY <4>1, <5>1, Zenon DEF AddGives
        <5> QED
          BY <3>1, <5>1, <5>2, OtherEntry, Zenon
      <4>2. CASE AddFails(c)
        BY <1>4, <4>2, Zenon DEF AddFails
      <4> QED
        BY <1>11, <4>1, <4>2, AddIs, Zenon
    <3> QED
      BY <1>5, <1>6, <2>1, <2>2, <3>2, GoneSame, Zenon
  <2>3. CASE c \in closed
    <3>1. call[c] # Idle /\ k = CleanupKey /\ c \notin Gone
      BY <1>3, <2>1, <2>3, ClosedCalls, Zenon
    <3>2. /\ Gone \subseteq Client /\ IsFiniteSet(Gone)
          /\ Cardinality(Gone) \in Nat
      <4>1. Gone \subseteq Client
        BY Zenon DEF Gone, CallInv
      <4>2. IsFiniteSet(Gone)
        BY <4>1, FS_Subset, Zenon DEF FileAssumption
      <4> QED
        BY <4>1, <4>2, FS_CardinalityType, Zenon
    <3>3. ~AddFails(c)
      <4>1. CleanupKey \in DOMAIN Of(log) => Of(log)[CleanupKey] \in Nat
        BY <3>2, Zenon DEF CleanupInv, GoneCount
      <4> QED
        BY <3>1, <4>1 DEF AddFails, CanAdd, FileAssumption
    <3>4. PICK n \in Int : AddGives(c, n)
      BY <1>11, <3>3, AddIs, Zenon
    <3>5. n = Cardinality(Gone) + 1
      BY <3>1, <3>2, <3>4 DEF AddGives, Plus, CleanupInv, GoneCount
    <3>6. PICK e \in Entry :
            e = [key |-> k, val |-> n] /\ e.key = k /\ e.val = n
      BY <2>1, AddEntry, Zenon
    <3>7. Of(log') = Bind(Of(log), CleanupKey, n)
      <4>1. log' = Append(log, e)
        BY <3>4, <3>6, Zenon DEF AddGives
      <4> QED
        BY <3>1, <3>6, <4>1, OfAppend, Zenon DEF LogInv
    <3>8. GoneCount' = n
      BY <3>7, Zenon DEF GoneCount, Bind
    <3>9. Gone' = Gone \cup {c} /\ result'[c] = n
      BY <1>6, <2>1, <2>3, <3>4, Zenon DEF AddGives, Leave, Gone,
         CallInv, ResultInv
    <3>10. Cardinality(Gone \cup {c}) = n /\ IsFiniteSet(Gone \cup {c})
      BY <3>1, <3>2, <3>5, FS_AddElement, Zenon
    <3>11. n = Cardinality(Client) => Gone \cup {c} = Client
      <4>1. Gone \cup {c} \subseteq Client
        BY <3>2, Zenon
      <4> QED
        BY <3>10, <4>1, FS_Subset, Zenon DEF FileAssumption
    <3>12. ASSUME NEW d \in closed', result'[d] = Cardinality(Client)
           PROVE  Gone' = Client
      <4>1. CASE d = c
        BY <3>9, <3>11, <3>12, <4>1, Zenon
      <4>2. CASE d # c
        <5>1. d \in closed /\ result[d] = Cardinality(Client)
          BY <1>6, <2>1, <3>12, <4>2, Zenon DEF CallInv
        <5>2. Gone = Client
          BY <5>1, Zenon DEF CleanupInv
        <5> QED
          BY <3>1, <5>2, Zenon
      <4> QED
        BY <4>1, <4>2, Zenon
    <3> QED
      BY <2>1, <3>8, <3>9, <3>10, <3>12, Zenon DEF CleanupInv
  <2> QED
    BY <2>2, <2>3, Zenon
<1>12. CASE Close(c)
  <2>1. /\ UNCHANGED <<log, file, result>> /\ closed' = closed \cup {c}
        /\ c \notin closed /\ result[c] = None
        /\ call' = [call EXCEPT ![c] = Query("ADD", {CleanupKey}, 1)]
    BY <1>12, Zenon DEF Close
  <2>2. Query("ADD", {CleanupKey}, 1) # Idle
    BY QueryFacts, Zenon
  <2>3. Gone' = Gone
    BY <2>1, <2>2, Zenon DEF Gone, CallInv
  <2> QED
    BY <1>2, <1>4, <2>1, <2>3, GoneSame DEF FileAssumption
<1>13. CASE Return(c)
  <2>1. /\ UNCHANGED <<log, closed, call>>
        /\ result' = [result EXCEPT ![c] = None]
        /\ file' = IF c \in closed /\ result[c] = Cardinality(Client)
                   THEN "removed" ELSE file
    BY <1>13, Zenon DEF Return, numWorkers
  <2>2. Gone' = Gone
    BY <2>1, Zenon DEF Gone
  <2>3. \A d \in closed' : result'[d] = Cardinality(Client) =>
           d \in closed /\ result[d] = Cardinality(Client)
    BY <1>2, <2>1 DEF ResultInv, CallInv, FileAssumption
  <2>4. file' = "removed" => file = "removed" \/ Gone = Client
    BY <2>1, Zenon DEF CleanupInv
  <2> QED
    BY <1>4, <2>1, <2>2, <2>3, <2>4, GoneSame, Zenon
<1> QED
  BY <1>7, <1>8, <1>9, <1>10, <1>11, <1>12, <1>13, Zenon
     DEF ProcessStep, FileStep, Section, ReadStep

(* The file is removed under nobody (~FileStore): the destructor that adds *)
(* the last one to the cleanup key is the last of all to be in a call, so  *)
(* that no process still needs the file when it goes.                      *)
THEOREM GoesLast ==
  ASSUME FileAssumption
  PROVE  FileSpec => []RemovedLast
<1> DEFINE Inv == FInv /\ CleanupInv
<1>1. FileInit => Inv
  <2> SUFFICES ASSUME FileInit PROVE Inv
    BY Zenon
  <2>1. GoneCount = 0 /\ Gone = {}
    BY MergedNothing, Zenon DEF FileInit, GoneCount, Of, Gone
  <2> QED
    BY <2>1, FInvInit, FS_EmptySet, Zenon DEF CleanupInv, FileInit
<1>2. Inv /\ [FileNext]_fileVars => Inv'
  <2> SUFFICES ASSUME Inv, [FileNext]_fileVars PROVE CleanupInv'
    BY FInvStep, Zenon
  <2>1. CASE UNCHANGED fileVars
    BY <2>1, Zenon DEF fileVars, CleanupInv, Gone, GoneCount
  <2>2. ASSUME NEW c \in Client, ProcessStep(c)
        PROVE  CleanupInv'
    BY <2>2, CleanupStep, Zenon DEF FInv
  <2> QED
    BY <2>1, <2>2, Zenon DEF FileNext
<1>3. Inv => RemovedLast
  BY Zenon DEF FInv, CleanupInv, CallInv, Gone, RemovedLast
<1> QED
  BY <1>1, <1>2, <1>3, PTL DEF FileSpec
=============================================================================
