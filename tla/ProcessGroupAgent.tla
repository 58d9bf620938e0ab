------------------------- MODULE ProcessGroupAgent -------------------------
(***************************************************************************)
(* ProcessGroupAgent (process_group_agent.cpp): RPC over a process group,  *)
(* time-outs of the calls, and the termination detection of join().        *)
(*                                                                         *)
(* Each worker has an application thread, which makes calls and then       *)
(* joins, a listener, a thread that watches the time-outs, and a pool of   *)
(* threads.  A request may make its handler call another worker: hops      *)
(* says how many such calls follow one another.                            *)
(***************************************************************************)
EXTENDS Integers, FiniteSets, FiniteSetsExt

CONSTANTS
  Worker,      \* the ranks of the process group
  Caller,      \* the workers whose application makes calls
  MaxCalls,    \* bound: the calls each of them makes
  MaxHops,     \* bound: calls that handlers make because of one call
  EndTimes,    \* when calls expire
  Infinite,    \* a time no clock reaches, later than the others
  BadEnds      \* ends of the calls that may be impossible to serialize

ASSUME TimeAssumption ==
  /\ EndTimes \subseteq Nat \ {0} /\ Infinite \in Nat \ {0}
  /\ \A t \in EndTimes : t <= Infinite
ASSUME BoundsAssumption == MaxCalls \in Nat /\ MaxHops \in Nat

VARIABLES
  pc,           \* where the application thread is
  nextId,       \* nextId_, counting requests
  futures,      \* futures_ and futureTimeouts_, kept in step
  tasks,        \* what is in the thread pools
  net,          \* messages sent by pg_ and not received
  deferred,     \* requests whose handler returned an incomplete future
  sendCounts, recvCounts,   \* per worker, and per peer
  snapshot,     \* what hasPendingMessage has read
  asleep,       \* until when the watchdog sleeps; 0 while it fails calls
  notified,     \* the watchdogs with a pending notification
  expired,      \* futures a watchdog has taken out and not failed yet
  clientActiveCalls, serverActiveCalls

appVars == <<pc, snapshot>>
watchVars == <<asleep, notified, expired>>
vars == <<appVars, nextId, futures, tasks, net, deferred, sendCounts,
          recvCounts, watchVars, clientActiveCalls, serverActiveCalls>>

Zero == [w \in Worker |-> [x \in Worker |-> 0]]
(* An application that makes no calls of its own joins at once.            *)
Init ==
  /\ pc = [w \in Worker |-> IF w \in Caller THEN "app" ELSE "barrier"]
  /\ nextId = [w \in Worker |-> 0]
  /\ futures = [w \in Worker |-> {}] /\ expired = [w \in Worker |-> {}]
  /\ tasks = {} /\ net = {} /\ deferred = {} /\ notified = {}
  /\ sendCounts = Zero /\ recvCounts = Zero
  /\ snapshot = [w \in Worker |-> [recv |-> Zero[w], send |-> Zero[w]]]
  /\ asleep = [w \in Worker |-> Infinite]
  /\ clientActiveCalls = [w \in Worker |-> 0]
  /\ serverActiveCalls = [w \in Worker |-> 0]

Request(w, n, to, hops, bad) ==
  [type |-> "request", id |-> <<w, n>>, from |-> w, to |-> to, hops |-> hops,
   bad |-> bad]
Response(m) == [m EXCEPT !.type = "response", !.from = m.to, !.to = m.from]
Task(w, kind, m) == [worker |-> w, kind |-> kind, msg |-> m]

rpcAgentRunning(w) == pc[w] \notin {"stopping", "down"}
MinEnd(w) == Min({f.end : f \in futures[w]} \cup {Infinite})

increment(counts, w, peer) == [counts EXCEPT ![w][peer] = @ + 1]

----------------------------------------------------------------------------
(* Sending.                                                                *)

(* send puts the message into the pool: sendToSelf or enqueueSend.         *)
Enqueued(w, m) == Task(w, IF m.to = w THEN "self" ELSE "send", m)

(* The part of send that is for a request: its future, and the watchdog    *)
(* is notified of a new earliest end.                                      *)
addFutureSilently(w, m, end) == \* seeded fault: the first call notifies nobody
  /\ nextId' = [nextId EXCEPT ![w] = @ + 1]
  /\ futures' = [futures EXCEPT ![w] = @ \cup {[id |-> m.id, dst |-> m.to, end |-> end]}]
  /\ notified' = IF MinEnd(w) # Infinite THEN notified \cup {w} ELSE notified
  /\ clientActiveCalls' = [clientActiveCalls EXCEPT ![w] = @ + 1]
addFuture(w, m, end) ==
  /\ nextId' = [nextId EXCEPT ![w] = @ + 1]
  /\ futures' = [futures EXCEPT ![w] = @ \cup {[id |-> m.id, dst |-> m.to, end |-> end]}]
  /\ notified' = IF \A f \in futures[w] : end < f.end THEN notified \cup {w}
                 ELSE notified
  /\ clientActiveCalls' = [clientActiveCalls EXCEPT ![w] = @ + 1]

(* The application makes a call.                                           *)
Call(w) ==
  /\ w \in Caller /\ pc[w] = "app" /\ nextId[w] < MaxCalls
  /\ \E to \in Worker, hops \in 0 .. MaxHops, end \in EndTimes, bad \in BOOLEAN :
       LET m == Request(w, nextId[w], to, hops, bad)
       IN  /\ bad => hops = 0 /\ end \in BadEnds
           /\ addFuture(w, m, end) /\ tasks' = tasks \cup {Enqueued(w, m)}
  /\ UNCHANGED <<appVars, net, deferred, sendCounts, recvCounts, asleep,
                 expired, serverActiveCalls>>

(* handleSend: the message is counted, and handed to the process group.    *)
handleSend(t) ==
  /\ t.kind = "send" /\ ~t.msg.bad
  /\ sendCounts' = increment(sendCounts, t.worker, t.msg.to)
  /\ net' = net \cup {t.msg}
  /\ tasks' = tasks \ {t}
  /\ UNCHANGED <<appVars, nextId, futures, deferred, recvCounts, watchVars,
                 clientActiveCalls, serverActiveCalls>>

(* sendToSelf counts the message and puts it where the listener would.     *)
sendToSelf(t) ==
  /\ t.kind = "self" /\ ~t.msg.bad
  /\ sendCounts' = increment(sendCounts, t.worker, t.worker)
  /\ tasks' = (tasks \ {t}) \cup {[t EXCEPT !.kind = "recv"]}
  /\ UNCHANGED <<appVars, nextId, futures, net, deferred, recvCounts,
                 watchVars, clientActiveCalls, serverActiveCalls>>

(* wireSerialize throws, before the message is counted: the future fails,  *)
(* unless it has timed out before.                                         *)
markErrorKeepsCall(t) == \* seeded fault: clientActiveCalls_ is not decremented
  /\ t.kind \in {"send", "self"} /\ t.msg.bad
  /\ futures' = [futures EXCEPT ![t.worker] = {f \in @ : f.id # t.msg.id}]
  /\ tasks' = tasks \ {t}
  /\ UNCHANGED <<appVars, nextId, net, deferred, sendCounts, recvCounts,
                 watchVars, clientActiveCalls, serverActiveCalls>>
markFutureWithError(t) ==
  LET w == t.worker
      found == {f \in futures[w] : f.id = t.msg.id}
  IN  /\ t.kind \in {"send", "self"} /\ t.msg.bad
      /\ futures' = [futures EXCEPT ![w] = @ \ found]
      /\ clientActiveCalls' = [clientActiveCalls EXCEPT ![w] = @ - Cardinality(found)]
      /\ tasks' = tasks \ {t}
      /\ UNCHANGED <<appVars, nextId, net, deferred, sendCounts, recvCounts,
                     watchVars, serverActiveCalls>>

----------------------------------------------------------------------------
(* Receiving.                                                              *)

(* listenLoopInternal: a message is received and put into the pool.  One   *)
(* that is received and not in the pool yet is as good as in the network.  *)
listen(w) ==
  /\ rpcAgentRunning(w)
  /\ \E m \in net : /\ m.to = w
                    /\ net' = net \ {m} /\ tasks' = tasks \cup {Task(w, "recv", m)}
  /\ UNCHANGED <<appVars, nextId, futures, deferred, sendCounts, recvCounts,
                 watchVars, clientActiveCalls, serverActiveCalls>>

(* The handler of a request may make a call, without a time-out.  It       *)
(* completes its future, or returns it incomplete and the response is sent *)
(* later.  send throws once the agent is shut down.                        *)
Handled(t) == [t EXCEPT !.kind = "count"]
handleRequest(t) ==
  LET w == t.worker
      m == t.msg
      reply(b) == IF b /\ rpcAgentRunning(w) THEN {Enqueued(w, Response(m))} ELSE {}
      rest == (tasks \ {t}) \cup {Handled(t)}
  IN  /\ t.kind = "recv" /\ m.type = "request"
      /\ \E now \in BOOLEAN :
           /\ \/ /\ m.hops > 0 /\ rpcAgentRunning(w)
                 /\ \E to \in Worker \ {w} :
                      LET n == Request(w, nextId[w], to, m.hops - 1, FALSE)
                      IN  /\ addFuture(w, n, Infinite)
                          /\ tasks' = rest \cup {Enqueued(w, n)} \cup reply(now)
              \/ /\ ~(m.hops > 0 /\ rpcAgentRunning(w))
                 /\ tasks' = rest \cup reply(now)
                 /\ UNCHANGED <<nextId, futures, notified, clientActiveCalls>>
           /\ deferred' = IF now THEN deferred ELSE deferred \cup {m}
           /\ serverActiveCalls' =
                [serverActiveCalls EXCEPT ![w] = IF now THEN @ ELSE @ + 1]
      /\ UNCHANGED <<appVars, net, sendCounts, recvCounts, asleep, expired>>

(* The callback of an incomplete future sends the response.                *)
completeDeferred(m) ==
  /\ deferred' = deferred \ {m}
  /\ serverActiveCalls' = [serverActiveCalls EXCEPT ![m.to] = @ - 1]
  /\ tasks' = IF rpcAgentRunning(m.to) THEN tasks \cup {Enqueued(m.to, Response(m))}
              ELSE tasks
  /\ UNCHANGED <<appVars, nextId, futures, net, sendCounts, recvCounts,
                 watchVars, clientActiveCalls>>

(* A response completes its future.  The response to a call that has timed *)
(* out is dropped, and not counted.                                        *)
handleResponse(t) ==
  LET w == t.worker
      found == {f \in futures[w] : f.id = t.msg.id}
  IN  /\ t.kind = "recv" /\ t.msg.type = "response"
      /\ futures' = [futures EXCEPT ![w] = @ \ found]
      /\ clientActiveCalls' = [clientActiveCalls EXCEPT ![w] = @ - Cardinality(found)]
      /\ tasks' = (tasks \ {t}) \cup {Handled(t) : f \in found}
      /\ UNCHANGED <<appVars, nextId, net, deferred, sendCounts, recvCounts,
                     watchVars, serverActiveCalls>>

(* enqueueRecv counts what handleRecv has processed.                       *)
countRecv(t) ==
  /\ t.kind = "count"
  /\ recvCounts' = increment(recvCounts, t.worker, t.msg.from)
  /\ tasks' = tasks \ {t}
  /\ UNCHANGED <<appVars, nextId, futures, net, deferred, sendCounts,
                 watchVars, clientActiveCalls, serverActiveCalls>>

----------------------------------------------------------------------------
(* Time-outs: pollTimedOutRPCs.                                            *)

(* The watchdog looks for the earliest end and sleeps until then.  There   *)
(* are no calls yet when it starts.                                        *)
sleepTillEnd(w) ==
  /\ rpcAgentRunning(w) /\ asleep[w] = 0 /\ expired[w] = {}
  /\ asleep' = [asleep EXCEPT ![w] = MinEnd(w)]
  /\ notified' = notified \ {w}
  /\ UNCHANGED <<appVars, nextId, futures, tasks, net, deferred, sendCounts,
                 recvCounts, expired, clientActiveCalls, serverActiveCalls>>

(* Woken by send, it looks again, and sleeps again.                        *)
wakeUp(w) ==
  /\ asleep[w] # 0 /\ w \in notified
  /\ asleep' = [asleep EXCEPT ![w] = IF MinEnd(w) < @ THEN MinEnd(w) ELSE @]
  /\ notified' = notified \ {w}
  /\ UNCHANGED <<appVars, nextId, futures, tasks, net, deferred, sendCounts,
                 recvCounts, expired, clientActiveCalls, serverActiveCalls>>

(* The time it waited for has come, and the predicate does not hold:       *)
(* processTimedOutFutures takes out what has expired by now.               *)
processTimedOutFutures(w) ==
  /\ rpcAgentRunning(w)
  /\ asleep[w] \notin {0, Infinite} /\ MinEnd(w) >= asleep[w]
  /\ \E now \in {t \in EndTimes \ {Infinite} : t >= asleep[w]} :
       LET late == {f \in futures[w] : f.end <= now}
       IN  /\ expired' = [expired EXCEPT ![w] = late]
           /\ futures' = [futures EXCEPT ![w] = @ \ late]
  /\ asleep' = [asleep EXCEPT ![w] = 0]
  /\ UNCHANGED <<appVars, nextId, tasks, net, deferred, sendCounts,
                 recvCounts, notified, clientActiveCalls, serverActiveCalls>>

(* Each of these fails, and its response counts as received.               *)
failExpiredSilently(w) == \* seeded fault: the response is not counted
  /\ \E f \in expired[w] :
       expired' = [expired EXCEPT ![w] = @ \ {f}]
  /\ clientActiveCalls' = [clientActiveCalls EXCEPT ![w] = @ - 1]
  /\ UNCHANGED <<appVars, nextId, futures, tasks, net, deferred, sendCounts,
                 recvCounts, asleep, notified, serverActiveCalls>>
failExpired(w) ==
  /\ \E f \in expired[w] :
       /\ expired' = [expired EXCEPT ![w] = @ \ {f}]
       /\ recvCounts' = increment(recvCounts, w, f.dst)
  /\ clientActiveCalls' = [clientActiveCalls EXCEPT ![w] = @ - 1]
  /\ UNCHANGED <<appVars, nextId, futures, tasks, net, deferred, sendCounts,
                 asleep, notified, serverActiveCalls>>

----------------------------------------------------------------------------
(* Termination: join() and shutdown().                                     *)

AppStep(w, from, to) ==
  /\ pc[w] = from /\ pc' = [pc EXCEPT ![w] = to]
  /\ UNCHANGED <<nextId, futures, tasks, net, deferred, sendCounts,
                 recvCounts, watchVars, clientActiveCalls, serverActiveCalls>>

join(w) == AppStep(w, "app", "barrier") /\ UNCHANGED snapshot

(* pg_->barrier()->wait() of sync.                                         *)
barrier(w) ==
  /\ \A x \in Worker : pc[x] # "app"
  /\ AppStep(w, "barrier", "drain") /\ UNCHANGED snapshot

waitOnce(w) == \* seeded fault: the received counts are not read again
  /\ \A t \in tasks : t.worker # w
  /\ AppStep(w, "drain", "sendSnapshot") /\ UNCHANGED snapshot
waitWorkComplete(w) ==
  /\ \A t \in tasks : t.worker # w
  /\ AppStep(w, "drain", "recvSnapshot") /\ UNCHANGED snapshot

(* hasPendingMessage reads the counts, the received ones first.            *)
readRecvCounts(w) ==
  /\ AppStep(w, "recvSnapshot", "sendSnapshot")
  /\ snapshot' = [snapshot EXCEPT ![w].recv = recvCounts[w]]
readSendCounts(w) ==
  /\ AppStep(w, "sendSnapshot", "gather")
  /\ snapshot' = [snapshot EXCEPT ![w].send = sendCounts[w]]

(* The allgather: everyone compares the same counts.                       *)
hasPendingMessage ==
  \E from, to \in Worker : snapshot[from].send[to] # snapshot[to].recv[from]
allgather ==
  /\ \A w \in Worker : pc[w] = "gather"
  /\ pc' = [w \in Worker |-> IF hasPendingMessage THEN "drain" ELSE "futures"]
  /\ UNCHANGED <<snapshot, nextId, futures, tasks, net, deferred, sendCounts,
                 recvCounts, watchVars, clientActiveCalls, serverActiveCalls>>

waitForFutures(w) ==
  /\ futures[w] = {}
  /\ AppStep(w, "futures", "barrier2") /\ UNCHANGED snapshot
lastBarrier(w) ==
  /\ \A x \in Worker : pc[x] \in {"barrier2", "joined", "stopping", "down"}
  /\ AppStep(w, "barrier2", "joined") /\ UNCHANGED snapshot

(* shutdown stops the watchdog and the listener, then waits for the pool.  *)
shutdown(w) == AppStep(w, "joined", "stopping") /\ UNCHANGED snapshot
shutdownImpl(w) ==
  /\ expired[w] = {} /\ \A t \in tasks : t.worker # w
  /\ AppStep(w, "stopping", "down") /\ UNCHANGED snapshot

----------------------------------------------------------------------------
PoolStep(w) ==
  \E t \in {u \in tasks : u.worker = w} :
    \/ handleSend(t) \/ sendToSelf(t) \/ markFutureWithError(t)
    \/ handleRequest(t) \/ handleResponse(t) \/ countRecv(t)
WatchdogStep(w) ==
  \/ sleepTillEnd(w) \/ wakeUp(w) \/ processTimedOutFutures(w) \/ failExpired(w)
JoinStep(w) ==
  \/ barrier(w) \/ waitWorkComplete(w) \/ readRecvCounts(w) \/ readSendCounts(w)
  \/ waitForFutures(w) \/ lastBarrier(w) \/ shutdown(w) \/ shutdownImpl(w)
Deferred == \E m \in deferred : completeDeferred(m)

Next ==
  \/ \E w \in Worker : \/ Call(w) \/ join(w) \/ JoinStep(w) \/ PoolStep(w)
                       \/ listen(w) \/ WatchdogStep(w)
  \/ allgather \/ Deferred

Spec == Init /\ [][Next]_vars

(* The threads run, the handlers finish, and every application joins.      *)
Fairness ==
  /\ \A w \in Worker : /\ WF_vars(join(w)) /\ WF_vars(JoinStep(w))
                       /\ WF_vars(PoolStep(w)) /\ WF_vars(listen(w))
                       /\ WF_vars(failExpired(w))
  /\ WF_vars(allgather) /\ WF_vars(Deferred)
FairSpec == Spec /\ Fairness

----------------------------------------------------------------------------
(* Properties.                                                             *)

(* The watchdog never oversleeps: unless it has a notification to look at, *)
(* it wakes no later than the first end in futureTimeouts_.                *)
NeverOversleeps ==
  \A w \in Worker :
    asleep[w] # 0 /\ w \notin notified => asleep[w] <= MinEnd(w)

(* Every way a call can end, a time-out racing its response included,      *)
(* takes it off clientActiveCalls_ once.                                   *)
ActiveCallsBalance ==
  \A w \in Worker :
    /\ clientActiveCalls[w] = Cardinality(futures[w]) + Cardinality(expired[w])
    /\ serverActiveCalls[w] = Cardinality({m \in deferred : m.to = w})

(* What the difference of sendCounts_ and recvCounts_ stands for.  From w  *)
(* to x it counts the messages that were sent and not counted on arrival,  *)
(* and the calls of x that have just timed out, late response and all.     *)
(* Against these go the responses that w still owes to calls of x that     *)
(* have timed out: pollTimedOutRPCs has counted them already.  Time-outs,  *)
(* late responses, nested and failed calls keep the balance, until some    *)
(* worker shuts down and no longer responds.                               *)
Open == net \cup {t.msg : t \in {u \in tasks : u.kind # "count"}} \cup deferred
Callee(m) == IF m.type = "request" THEN m.to ELSE m.from
Uncounted(w, x) ==
  {m \in net \cup {t.msg : t \in {u \in tasks : u.kind \in {"recv", "count"}}} :
     m.from = w /\ m.to = x}
Owed(w, x) ==
  {m \in Open : /\ m.id[1] = x /\ Callee(m) = w
                /\ \A f \in futures[x] \cup expired[x] : f.id # m.id}
Dropped(w, x) ==
  {f \in expired[x] : f.dst = w /\ \A m \in Open : m.id # f.id}
CountsBalance ==
  (\A w \in Worker : rpcAgentRunning(w)) =>
    \A w, x \in Worker :
      sendCounts[w][x] + Cardinality(Owed(w, x))
        = recvCounts[x][w] + Cardinality(Uncounted(w, x)) + Cardinality(Dropped(w, x))

(* process_group_agent.h: join() only returns "when all sent messages are  *)
(* processed", so no call is open then, nested ones included.  The code    *)
(* does not keep to this.                                                  *)
Joined(w) == pc[w] \in {"joined", "stopping", "down"}
JoinedMeansDone ==
  (\E w \in Worker : Joined(w)) => \A w \in Worker : futures[w] = {}

(* The counts of sent and received messages always come to agree: join()   *)
(* and shutdown() return everywhere, whatever calls have timed out.        *)
JoinReturns == <>(\A w \in Worker : pc[w] = "down")
=============================================================================
