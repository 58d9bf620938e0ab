------------------------------ MODULE TCPStore ------------------------------
(***************************************************************************)
(* TCPStore (TCPStore.cpp): the daemon that keeps the map, and the clients *)
(* that query it over one socket each.  A client is named by the socket    *)
(* the daemon knows it by; the number of a closed socket may be given to a *)
(* new client.                                                             *)
(*                                                                         *)
(* A query is written whole before the next one, so requests are a queue   *)
(* of queries.  Answers are a queue of byte, integer and vector tokens.    *)
(***************************************************************************)
EXTENDS Integers, Sequences, FiniteSets, StoreMap

CONSTANTS
  Client,     \* the sockets
  Key,        \* the keys
  SetValue,   \* the values the application gives to set(): 0 or Text
  WaitKeys,   \* the sets of keys it gives to wait() and check()
  Calls,      \* which of the calls it makes
  Timeouts,   \* whether timeout_ of a client may expire
  Exits,      \* whether clients go away, and new ones come
  SizeT,      \* how many numbers a size_t holds: 2^64 in the code
  MaxAhead,   \* bound: queries a client has ahead of the next on its socket
  MaxStale,   \* bound: unread answers with which a client makes a call
  MaxWaiting, \* bound: no wait() is made for a key on which so many wait
  MaxWrap,    \* bound: nobody exits while a count has wrapped round further
  MaxCount    \* bound: no add() is made for a counter that has reached it

ASSUME WaitKeysAssumption ==
  WaitKeys \subseteq SUBSET Key /\ \A K \in WaitKeys : IsFiniteSet(K)
ASSUME SizeAssumption ==
  SizeT \in Nat \ {0, 1} /\ \A K \in WaitKeys : Cardinality(K) < SizeT
ASSUME CallsAssumption ==
  Calls \subseteq {"set", "add", "check", "getNumKeys", "deleteKey", "wait", "get"}
ASSUME SwitchAssumption == Timeouts \in BOOLEAN /\ Exits \in BOOLEAN
ASSUME BoundAssumption ==
  /\ MaxAhead \in Nat /\ MaxStale \in Nat /\ MaxWaiting \in Nat
  /\ MaxWrap \in Nat /\ MaxCount \in Nat

VARIABLES
  tcpStore,        \* tcpStore_
  waitingSockets,  \* waitingSockets_: the sockets waiting on each key
  keysAwaited,     \* keysAwaited_: how many keys a socket waits for, 0: none
  open,            \* sockets_: the connections of the daemon
  gone,            \* clients whose end of the socket is closed
  requests,        \* queries on their way to the daemon
  replies,         \* answers on their way to the client
  call,            \* the call each client is in
  rcvTimeo         \* clients whose socket has SO_RCVTIMEO set

daemonVars == <<tcpStore, waitingSockets, keysAwaited, open>>
clientVars == <<gone, call, rcvTimeo>>
vars == <<daemonVars, clientVars, requests, replies>>

Idle == Query("IDLE", {}, None)
Byte(b) == [kind |-> "byte", val |-> b]
Int64(n) == [kind |-> "int64", val |-> n]
Vector(v) == [kind |-> "vector", val |-> v]

STOP_WAITING == Byte(0)
READY == Byte(0)
NOT_READY == Byte(1)

Init ==
  /\ tcpStore = EmptyMap
  /\ waitingSockets = [k \in Key |-> <<>>]
  /\ keysAwaited = [c \in Client |-> 0]
  /\ open = Client /\ gone = {}
  /\ requests = [c \in Client |-> <<>>]
  /\ replies = [c \in Client |-> <<>>]
  /\ call = [c \in Client |-> Idle]
  /\ rcvTimeo = {}

----------------------------------------------------------------------------
(* The calls of a client.                                                  *)

MayCall(c) ==
  /\ call[c] = Idle /\ c \notin gone
  /\ Len(requests[c]) <= MaxAhead /\ Len(replies[c]) <= MaxStale

Send(c, q) == requests' = [requests EXCEPT ![c] = Append(@, q)]

(* set(): returns as soon as the query is written.                         *)
Set(c, k, v) ==
  /\ MayCall(c)
  /\ Send(c, Query("SET", {k}, v))
  /\ UNCHANGED <<daemonVars, clientVars, replies>>

(* A query that is answered: the client blocks in recv.                    *)
Ask(c, q) ==
  /\ MayCall(c)
  /\ Send(c, q)
  /\ call' = [call EXCEPT ![c] = q]
  /\ UNCHANGED <<daemonVars, gone, rcvTimeo, replies>>

Add(c, k) ==
  /\ k \in DOMAIN tcpStore => tcpStore[k] \in {Text} \cup 0 .. MaxCount - 1
  /\ Ask(c, Query("ADD", {k}, 1))
Check(c, K) == Ask(c, Query("CHECK", K, None))
GetNumKeys(c) == Ask(c, Query("GETNUMKEYS", {}, None))
DeleteKey(c, k) == Ask(c, Query("DELETE_KEY", {k}, None))

(* waitHelper_: sets SO_RCVTIMEO, for good, and sends WAIT; called by      *)
(* wait(), and first by get().                                             *)
WaitHelper(c, q) ==
  /\ MayCall(c)
  /\ \A k \in q.keys : Len(waitingSockets[k]) < MaxWaiting
  /\ call' = [call EXCEPT ![c] = q]
  /\ rcvTimeo' = IF Timeouts THEN rcvTimeo \cup {c} ELSE rcvTimeo
  /\ Send(c, Query("WAIT", q.keys, None))
  /\ UNCHANGED <<daemonVars, gone, replies>>
Wait(c, K) == WaitHelper(c, Query("WAIT", K, None))
Get(c, k) == WaitHelper(c, Query("GET_WAIT", {k}, None))

(* recv returns the first answer.  One of another size than expected puts  *)
(* the client out of step with the daemon for good.                        *)
Expected(op) ==
  CASE op \in {"WAIT", "GET_WAIT", "CHECK"} -> "byte"
    [] op = "GET" -> "vector"
    [] OTHER -> "int64"

Receive(c) ==
  LET q == call[c]
      r == Head(replies[c])
  IN  /\ q.op \in {"ADD", "CHECK", "GETNUMKEYS", "DELETE_KEY", "WAIT",
                   "GET_WAIT", "GET"}
      /\ replies[c] # <<>> /\ c \notin gone
      /\ replies' = [replies EXCEPT ![c] = Tail(@)]
      /\ \/ /\ r.kind # Expected(q.op)
            /\ call' = [call EXCEPT ![c].op = "GARBLED"] /\ UNCHANGED requests
         \/ /\ r.kind = Expected(q.op) /\ q.op = "GET_WAIT" /\ r = STOP_WAITING
            /\ call' = [call EXCEPT ![c].op = "GET"]
            /\ Send(c, Query("GET", q.keys, None))
         \/ /\ r.kind = Expected(q.op) /\ (q.op = "GET_WAIT" => r # STOP_WAITING)
            /\ call' = [call EXCEPT ![c] = Idle] /\ UNCHANGED requests
      /\ UNCHANGED <<daemonVars, gone, rcvTimeo>>

(* recv fails with EAGAIN: the call throws, its query stands.              *)
Timeout(c) ==
  /\ c \in rcvTimeo \ gone /\ replies[c] = <<>> /\ c \in open
  /\ call[c] # Idle /\ call[c].op \notin {"GARBLED", "RESET"}
  /\ call' = [call EXCEPT ![c] = Idle]
  /\ UNCHANGED <<daemonVars, gone, rcvTimeo, requests, replies>>

(* recv fails with ECONNRESET: the daemon has closed the connection.       *)
Reset(c) ==
  /\ c \notin open \cup gone /\ replies[c] = <<>>
  /\ call[c] # Idle /\ call[c].op \notin {"GARBLED", "RESET"}
  /\ call' = [call EXCEPT ![c].op = "RESET"]
  /\ UNCHANGED <<daemonVars, gone, rcvTimeo, requests, replies>>

(* The client's process ends, or ~TCPStore closes storeSocket_.  What it   *)
(* has written still reaches the daemon.                                   *)
Exit(c) ==
  /\ Exits /\ c \notin gone
  /\ \A d \in Client : keysAwaited[d] \notin SizeT \div 2 .. SizeT - MaxWrap - 1
  /\ gone' = gone \cup {c}
  /\ call' = [call EXCEPT ![c] = Idle]
  /\ rcvTimeo' = rcvTimeo \ {c}
  /\ replies' = [replies EXCEPT ![c] = <<>>]
  /\ UNCHANGED <<daemonVars, requests>>

----------------------------------------------------------------------------
(* The daemon.                                                             *)

(* The first n entries of waitingSockets_[k] are counted down.  The counts *)
(* are of type size_t: one that is zero already wraps round.               *)
Times(k, n, c) == Cardinality({i \in 1 .. n : waitingSockets[k][i] = c})
CountDown(k, n) ==
  [c \in Client |-> (keysAwaited[c] - Times(k, n, c)) % SizeT]

(* Those among them whose count reaches zero on the way.                   *)
Woken(k, n) == {c \in Client : keysAwaited[c] \in 1 .. Times(k, n, c)}

(* replies after the answers ans to c and STOP_WAITING to the sockets S;   *)
(* what is sent to a client that has gone is lost.                         *)
Answers(c, ans, S) ==
  replies' = [d \in Client |->
                IF d \in gone THEN <<>>
                ELSE replies[d] \o (IF d = c THEN ans ELSE <<>>)
                                \o (IF d \in S THEN <<STOP_WAITING>> ELSE <<>>)]

(* wakeupWaitingClients(k), after c was answered.                          *)
wakeupWaitingClients(c, ans, k) ==
  LET n == Len(waitingSockets[k])
  IN  /\ keysAwaited' = CountDown(k, n)
      /\ Answers(c, ans, Woken(k, n))
      /\ waitingSockets' = [waitingSockets EXCEPT ![k] = <<>>]
      /\ UNCHANGED open

(* The list s once c is erased from it.                                    *)
Kept(s, c) == {i \in DOMAIN s : s[i] # c}
Rank(s, c, i) == Cardinality({h \in Kept(s, c) : h <= i})
Without(s, c) ==
  [j \in 1 .. Cardinality(Kept(s, c)) |->
     s[CHOOSE i \in Kept(s, c) : Rank(s, c, i) = j]]

(* queryFds after an exception in query(c): c is closed and forgotten.     *)
DropKeepsEntries(c, sockets, awaited) == \* seeded fault: still waiting
  /\ open' = open \ {c}
  /\ waitingSockets' = sockets
  /\ keysAwaited' = [awaited EXCEPT ![c] = 0]
Drop(c, sockets, awaited) ==
  /\ open' = open \ {c}
  /\ waitingSockets' = [k \in Key |-> Without(sockets[k], c)]
  /\ keysAwaited' = [awaited EXCEPT ![c] = 0]

(* wakeupWaitingClients(k) on behalf of c when the n-th socket of the list *)
(* was reset by its client: send throws, and c is the one that is dropped. *)
wakeupFails(c, ans, k) ==
  \E n \in 1 .. Len(waitingSockets[k]) :
    LET d == waitingSockets[k][n]
    IN  /\ d \in gone /\ d \in Woken(k, n) /\ d \notin Woken(k, n - 1)
        /\ Answers(c, ans, Woken(k, n - 1))
        /\ Drop(c, waitingSockets, CountDown(k, n))

Wakeup(c, ans, k) == wakeupWaitingClients(c, ans, k) \/ wakeupFails(c, ans, k)

(* send of the answer to c itself throws: c has reset the connection.      *)
replyFails(c) ==
  /\ c \in gone
  /\ Drop(c, waitingSockets, keysAwaited)
  /\ UNCHANGED replies

(* One query is taken off the socket.                                      *)
Take(c, op) ==
  /\ c \in open /\ requests[c] # <<>> /\ Head(requests[c]).op = op
  /\ requests' = [requests EXCEPT ![c] = Tail(@)]
  /\ UNCHANGED clientVars
Reply(c, r) ==
  \/ Answers(c, <<r>>, {}) /\ UNCHANGED <<open, waitingSockets, keysAwaited>>
  \/ replyFails(c)

setSilently(c) == \* seeded fault: nobody is woken
  LET q == Head(requests[c])
  IN  /\ Take(c, "SET")
      /\ tcpStore' = Bind(tcpStore, TheKey(q), q.val)
      /\ UNCHANGED <<open, waitingSockets, keysAwaited, replies>>
setHandler(c) ==
  LET q == Head(requests[c])
      k == TheKey(q)
  IN  /\ Take(c, "SET")
      /\ tcpStore' = Bind(tcpStore, k, q.val)
      /\ Wakeup(c, <<>>, k)

(* std::stoll throws on text: the client is dropped.  Nobody is woken when *)
(* the answer cannot be sent.                                              *)
addAnswersOld(c) == \* seeded fault: answers what the counter was
  LET q == Head(requests[c])
      k == TheKey(q)
      n == Plus(tcpStore, k, q.val)
  IN  /\ Take(c, "ADD")
      /\ \/ /\ CanAdd(tcpStore, k)
            /\ tcpStore' = Bind(tcpStore, k, n)
            /\ Wakeup(c, <<Int64(n - 1)>>, k)
         \/ /\ ~CanAdd(tcpStore, k)
            /\ Drop(c, waitingSockets, keysAwaited)
            /\ UNCHANGED <<tcpStore, replies>>
addHandler(c) ==
  LET q == Head(requests[c])
      k == TheKey(q)
      n == Plus(tcpStore, k, q.val)
  IN  /\ Take(c, "ADD")
      /\ \/ /\ CanAdd(tcpStore, k)
            /\ tcpStore' = Bind(tcpStore, k, n)
            /\ Wakeup(c, <<Int64(n)>>, k) \/ replyFails(c)
         \/ /\ ~CanAdd(tcpStore, k)
            /\ Drop(c, waitingSockets, keysAwaited)
            /\ UNCHANGED <<tcpStore, replies>>

(* tcpStore_.at throws when the key is not there.                          *)
getHandler(c) ==
  LET k == TheKey(Head(requests[c]))
  IN  /\ Take(c, "GET")
      /\ \/ /\ k \in DOMAIN tcpStore
            /\ Reply(c, Vector(tcpStore[k]))
         \/ /\ k \notin DOMAIN tcpStore
            /\ Drop(c, waitingSockets, keysAwaited)
            /\ UNCHANGED replies
      /\ UNCHANGED tcpStore

getNumKeysHandler(c) ==
  /\ Take(c, "GETNUMKEYS")
  /\ Reply(c, Int64(Cardinality(DOMAIN tcpStore)))
  /\ UNCHANGED tcpStore

deleteHandler(c) ==
  LET k == TheKey(Head(requests[c]))
  IN  /\ Take(c, "DELETE_KEY")
      /\ tcpStore' = Unbind(tcpStore, k)
      /\ Reply(c, Int64(Truth(k \in DOMAIN tcpStore)))

checkHandler(c) ==
  /\ Take(c, "CHECK")
  /\ Reply(c, IF Head(requests[c]).keys \subseteq DOMAIN tcpStore
              THEN READY ELSE NOT_READY)
  /\ UNCHANGED tcpStore

waitAddsUp(c) == \* seeded fault: counts on from what an earlier wait() left
  LET K == Head(requests[c]).keys
  IN  /\ Take(c, "WAIT")
      /\ \/ /\ K \subseteq DOMAIN tcpStore
            /\ Reply(c, STOP_WAITING)
         \/ /\ ~(K \subseteq DOMAIN tcpStore)
            /\ waitingSockets' =
                 [k \in Key |-> IF k \in K THEN Append(waitingSockets[k], c)
                                           ELSE waitingSockets[k]]
            /\ keysAwaited' = [keysAwaited EXCEPT ![c] = (@ + Cardinality(K)) % SizeT]
            /\ UNCHANGED <<open, replies>>
      /\ UNCHANGED tcpStore
(* All the keys are counted, those that are there already included.        *)
waitHandler(c) ==
  LET K == Head(requests[c]).keys
  IN  /\ Take(c, "WAIT")
      /\ \/ /\ K \subseteq DOMAIN tcpStore
            /\ Reply(c, STOP_WAITING)
         \/ /\ ~(K \subseteq DOMAIN tcpStore)
            /\ waitingSockets' =
                 [k \in Key |-> IF k \in K THEN Append(waitingSockets[k], c)
                                           ELSE waitingSockets[k]]
            /\ keysAwaited' = [keysAwaited EXCEPT ![c] = Cardinality(K)]
            /\ UNCHANGED <<open, replies>>
      /\ UNCHANGED tcpStore

(* recv of the query type fails: the client has gone.                      *)
HangUp(c) ==
  /\ c \in open \cap gone /\ requests[c] = <<>>
  /\ Drop(c, waitingSockets, keysAwaited)
  /\ UNCHANGED <<tcpStore, clientVars, requests, replies>>

(* run: a new client is accepted, on the number of a closed socket.        *)
Accept(c) ==
  /\ c \in gone \ open
  /\ open' = open \cup {c} /\ gone' = gone \ {c}
  /\ requests' = [requests EXCEPT ![c] = <<>>]
  /\ UNCHANGED <<tcpStore, waitingSockets, keysAwaited, call, rcvTimeo, replies>>

----------------------------------------------------------------------------
ClientCall(c) ==
  \/ \E k \in Key : \/ "set" \in Calls /\ \E v \in SetValue : Set(c, k, v)
                    \/ "add" \in Calls /\ Add(c, k)
                    \/ "get" \in Calls /\ Get(c, k)
                    \/ "deleteKey" \in Calls /\ DeleteKey(c, k)
  \/ \E K \in WaitKeys : \/ "check" \in Calls /\ Check(c, K)
                         \/ "wait" \in Calls /\ Wait(c, K)
  \/ "getNumKeys" \in Calls /\ GetNumKeys(c)

DaemonStep(c) ==
  \/ setHandler(c) \/ addHandler(c) \/ getHandler(c) \/ getNumKeysHandler(c)
  \/ deleteHandler(c) \/ checkHandler(c) \/ waitHandler(c)
  \/ HangUp(c) \/ Accept(c)

Next ==
  \E c \in Client :
    \/ ClientCall(c) \/ Receive(c) \/ Timeout(c) \/ Reset(c) \/ Exit(c)
    \/ DaemonStep(c)

Spec == Init /\ [][Next]_vars

(* The daemon polls all its sockets in turn, and a client that has an      *)
(* answer, or a closed connection, reads it; nobody has to make a call.    *)
Fairness ==
  \A c \in Client : WF_vars(DaemonStep(c)) /\ WF_vars(Receive(c) \/ Reset(c))
FairSpec == Spec /\ Fairness

----------------------------------------------------------------------------
(* Properties.                                                             *)

(* A socket the daemon has closed is in none of its tables (queryFds), so  *)
(* a client that is later given the same descriptor never receives an      *)
(* answer meant for its predecessor.                                       *)
ClosedIsForgotten ==
  \A c \in Client \ open :
    keysAwaited[c] = 0 /\ \A k \in Key : \A i \in DOMAIN waitingSockets[k] :
                            waitingSockets[k][i] # c

(* While a client waits, its WAIT processed and nothing answered, its      *)
(* count is not zero and its entries in waitingSockets_ are enough to      *)
(* bring it there: no wait() starts from, or falls to, a count that has    *)
(* wrapped round, whatever waits that timed out, stale entries, failed     *)
(* wake-ups, dropped and reused sockets have left in the tables.           *)
Entries(c) ==
  UNION {{<<k, i>> : i \in {j \in DOMAIN waitingSockets[k] :
                             waitingSockets[k][j] = c}} : k \in Key}
Waiting(c) ==
  /\ call[c].op \in {"WAIT", "GET_WAIT"} /\ c \in open \ gone
  /\ requests[c] = <<>> /\ replies[c] = <<>>
CountCovered ==
  \A c \in Client : Waiting(c) => keysAwaited[c] \in 1 .. Cardinality(Entries(c))

(* TCPStore implements Store while nobody deletes a key: a SET that is not *)
(* processed yet is a call not applied yet, a wait() is applied when the   *)
(* client reads STOP_WAITING, a get() when the daemon processes its GET.   *)
Unapplied(c) ==
  LET q == call[c]
      sets == SelectSeq(requests[c], LAMBDA r : r.op = "SET")
      last == SelectSeq(requests[c], LAMBDA r : r.op \notin {"SET", "WAIT"})
  IN  sets \o CASE q.op = "WAIT" -> <<q>>
                [] q.op = "GET_WAIT" -> <<Query("GET", q.keys, None)>>
                [] OTHER -> last
Answered(c) ==
  LET q == call[c]
      r == Head(replies[c]).val
  IN  CASE replies[c] = <<>> \/ q.op \in {"WAIT", "GET_WAIT"} -> None
        [] q.op = "CHECK" -> Truth(r = 0)
        [] OTHER -> r
Abs ==
  INSTANCE Store WITH store <- tcpStore, Value <- SetValue \cup {1},
                      sent <- [c \in Client |-> Unapplied(c)],
                      answer <- [c \in Client |-> Answered(c)]
ImplementsStore == Abs!SSpec

(* Under fairness of the daemon, a call whose keys are there returns, or   *)
(* throws since the daemon has closed the connection.                      *)
CallsReturn ==
  \A c \in Client :
    call[c] # Idle /\ (call[c].op \in {"WAIT", "GET_WAIT"}
                         => call[c].keys \subseteq DOMAIN tcpStore)
      ~> call[c].op \in {"IDLE", "RESET"}
=============================================================================
