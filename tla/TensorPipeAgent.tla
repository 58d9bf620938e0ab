-------------------------- MODULE TensorPipeAgent --------------------------
(***************************************************************************)
(* TensorPipeAgent (tensorpipe_agent.cpp): workers find one another        *)
(* through the store, call one another over pipes, time calls out, and     *)
(* end together with join() and shutdown().                                *)
(*                                                                         *)
(* The handler of a request, or a callback on the future of a call, may    *)
(* make a call of its own: the chain of a call says which calls follow     *)
(* from it.  A pipe delivers in order each way, until it breaks.           *)
(***************************************************************************)
EXTENDS Integers, Sequences, FiniteSets, FiniteSetsExt

CONSTANTS
  Worker,
  Name,        \* names the workers may have been given
  Caller,      \* the workers whose application makes calls
  MaxCalls,    \* bound: the calls each of them makes
  Chains,      \* bound: the calls that follow, by "handler" or "callback"
  Expiries,    \* expiration times of the calls
  Never,       \* the expiration of a call without time-out
  Breaks,      \* the pipes that may break
  Unmapped     \* the calls, by their chain, that may lack a device map

Link == {"handler", "callback"}
ASSUME ChainsAssumption == Chains \subseteq Seq(Link)

VARIABLES
  name,             \* the name of each worker
  names, addrs,     \* who has put name and address into the store
  pc,               \* where the application thread of each worker is
  nextMessageID,    \* nextMessageID_
  pending,          \* pendingResponseMessage_ of all the pipes of a worker
  isComplete,       \* the calls whose future is, or is being, completed
  failed,           \* those of them completed with an error
  sending,          \* the calls send() has entered and not counted yet, and
                    \* the task or application step that makes each
  thrown,           \* the calls where send() has thrown instead
  early,            \* history: the calls flushed without being counted
  clientActiveCalls,
  timeoutMap,       \* timeoutMap_: calls with their expiration
  requests, responses,   \* what is in each pipe, both ways
  armed,            \* expirationTime of the pipeReads pending on each pipe
  broken,           \* the pipes that have failed
  tasks,            \* what is in the thread pools
  deferred,         \* requests whose handler returned an incomplete future
  poll,             \* the timeout thread
  total             \* the outcome of join's allreduce

setup == <<name, names, addrs>>
futures == <<pending, isComplete, failed>>
entering == <<nextMessageID, sending, thrown>>
calls == <<entering, early, futures, clientActiveCalls>>
pipes == <<requests, responses, armed, broken>>
timer == <<timeoutMap, poll>>
vars == <<setup, pc, calls, timer, pipes, tasks, deferred, total>>

Pipe == {p \in Worker \X Worker : p[1] # p[2]}   \* client and server

Init ==
  /\ name \in [Worker -> Name] /\ names = {} /\ addrs = {}
  /\ pc = [w \in Worker |-> "new"]
  /\ nextMessageID = [w \in Worker |-> 0]
  /\ sending = {} /\ thrown = {} /\ early = {}
  /\ pending = [w \in Worker |-> {}] /\ isComplete = {} /\ failed = {}
  /\ clientActiveCalls = [w \in Worker |-> 0]
  /\ timeoutMap = [w \in Worker |-> {}]
  /\ poll = [w \in Worker |-> "off"]
  /\ requests = [p \in Pipe |-> <<>>] /\ responses = [p \in Pipe |-> <<>>]
  /\ armed = [p \in Pipe |-> <<>>] /\ broken = {}
  /\ tasks = {} /\ deferred = {} /\ total = 0

Task(w, kind, m) == [worker |-> w, kind |-> kind, msg |-> m]
Goto(w, from, to) == pc[w] = from /\ pc' = [pc EXCEPT ![w] = to]
Joined(w) == pc[w] \in {"joined", "stopping", "closing", "down"}
rpcAgentRunning(w) == poll[w] # "off" /\ pc[w] \notin {"stopping", "closing", "down"}

----------------------------------------------------------------------------
(* Start-up.                                                               *)

(* collectNames: each worker puts its name into the store, and gets those  *)
(* of the others, which waits for them; a name met twice throws.           *)
collectNames(w) ==
  /\ UNCHANGED <<name, addrs, calls, timer, pipes, tasks, deferred, total>>
  /\ \/ Goto(w, "new", "named") /\ names' = names \cup {w}
     \/ /\ names = Worker /\ UNCHANGED names
        /\ Goto(w, "named", IF \E x, y \in Worker : x # y /\ name[x] = name[y]
                            THEN "failed" ELSE "unique")

(* startImpl: it listens, puts its address there, and gets all the others; *)
(* then the timeout thread starts and connections are accepted.  A worker  *)
(* whose application calls nobody joins at once.                           *)
startImpl(w) ==
  /\ UNCHANGED <<name, names, calls, timeoutMap, pipes, tasks, deferred, total>>
  /\ \/ Goto(w, "unique", "listening") /\ addrs' = addrs \cup {w} /\ UNCHANGED poll
     \/ /\ addrs = Worker /\ UNCHANGED addrs
        /\ Goto(w, "listening", IF w \in Caller THEN "app" ELSE "join")
        /\ poll' = [poll EXCEPT ![w] = "asleep"]

----------------------------------------------------------------------------
(* Calls.                                                                  *)

(* above: the calls whose handlers led to this one.                        *)
Request(w, to, chain, expiry, above) ==
  [id |-> <<w, nextMessageID[w]>>, from |-> w, to |-> to, chain |-> chain,
   expiry |-> expiry, above |-> above]

(* markFutureAsComplete, markFutureWithError: whoever sets isComplete      *)
(* first has a thread of the pool complete the future, and later decrease  *)
(* the count.                                                              *)
markTwice(M, ok, others) == \* seeded fault: isComplete is not tested
  /\ isComplete' = isComplete \cup {m.id : m \in M}
  /\ failed' = IF ok THEN failed ELSE failed \cup {m.id : m \in M}
  /\ tasks' = others \cup {Task(m.from, "complete", m) : m \in M}
markFutures(M, ok, others) ==
  LET new == {m \in M : m.id \notin isComplete}
  IN  /\ isComplete' = isComplete \cup {m.id : m \in new}
      /\ failed' = IF ok THEN failed ELSE failed \cup {m.id : m \in new}
      /\ tasks' = others \cup {Task(m.from, "complete", m) : m \in new}

(* send, while it holds mutex_: the future is entered in the pipe's        *)
(* pendingResponseMessage_.  t makes the call, and is busy until it is     *)
(* sent; the reads of earlier calls go on.                                 *)
enter(m, t) ==
  /\ nextMessageID' = [nextMessageID EXCEPT ![m.from] = @ + 1]
  /\ pending' = [pending EXCEPT ![m.from] = @ \cup {m}]
  /\ sending' = sending \cup {[msg |-> m, by |-> t]}
  /\ UNCHANGED <<setup, pc, thrown, early, isComplete, failed, clientActiveCalls, timer,
                 pipes, tasks, deferred, total>>
Busy(t) == \E s \in sending : s.by = t

(* What is left when t is done: a completed call is yet to be discounted,  *)
(* and a handler has returned a future that is completed in a while.       *)
TasksAfter(t) ==
  (tasks \ {t}) \cup {u \in {[t EXCEPT !.kind = "decrease"]} : t.kind = "complete"}
DeferredAfter(t) == deferred \cup {m \in {t.msg} : t.kind = "serve"}

(* The rest of send: the call is counted, then its expiration entered,     *)
(* which the timeout thread is told; the request is written and one read   *)
(* of a response armed.  Onto a broken pipe the write fails, and marks the *)
(* future if it is still entered.  A tensor without device map throws      *)
(* before the call is counted, and leaves the future entered.              *)
(* callCountMutex_ is held during the allreduce.                           *)
send(s) ==
  LET m == s.msg
      w == m.from
      p == <<w, m.to>>
  IN  /\ sending' = sending \ {s} /\ deferred' = DeferredAfter(s.by)
      /\ UNCHANGED <<setup, pc, nextMessageID, early, pending, responses, broken, poll, total>>
      /\ \/ /\ m.chain \in Unmapped /\ thrown' = thrown \cup {m}
            /\ tasks' = TasksAfter(s.by)
            /\ UNCHANGED <<isComplete, failed, clientActiveCalls, timeoutMap, requests, armed>>
         \/ /\ pc[w] \notin {"locked", "reduced"} /\ UNCHANGED thrown
            /\ clientActiveCalls' = [clientActiveCalls EXCEPT ![w] = @ + 1]
            /\ timeoutMap' = [timeoutMap EXCEPT ![w] =
                               IF m.expiry = Never THEN @ ELSE @ \cup {m}]
            /\ \/ /\ p \notin broken
                  /\ requests' = [requests EXCEPT ![p] = Append(@, m)]
                  /\ armed' = [armed EXCEPT ![p] = Append(@, m.expiry)]
                  /\ tasks' = TasksAfter(s.by) /\ UNCHANGED <<isComplete, failed>>
               \/ /\ p \in broken
                  /\ markFutures({m} \cap pending[w], FALSE, TasksAfter(s.by))
                  /\ UNCHANGED <<requests, armed>>

(* The application calls, one call after the other.                        *)
Calling(w) == \E s \in sending : s.by.kind = "call" /\ s.by.worker = w
Call(w) ==
  /\ w \in Caller /\ pc[w] = "app" /\ nextMessageID[w] < MaxCalls /\ ~Calling(w)
  /\ \E to \in Worker \ {w}, chain \in Chains, expiry \in Expiries :
       LET m == Request(w, to, chain, expiry, {}) IN enter(m, Task(w, "call", m))

(* The handler of a request, or the callbacks on a future, run in task t:  *)
(* they make the call that follows, which throws once the agent is shut    *)
(* down.                                                                   *)
Follow(t, by, above) ==
  LET w == t.worker
      follows == t.msg.chain # <<>> /\ Head(t.msg.chain) = by /\ rpcAgentRunning(w)
  IN  \/ /\ follows
         /\ \E to \in Worker \ {w} :
              enter(Request(w, to, Tail(t.msg.chain), Never, above), t)
      \/ /\ ~follows /\ tasks' = TasksAfter(t) /\ deferred' = DeferredAfter(t)
         /\ UNCHANGED <<setup, pc, calls, timer, pipes, total>>

(* The task of markFuture*: the future is completed, which runs its        *)
(* callbacks; only after them is the call no longer active.                *)
decreaseCallCount(t) ==
  /\ t.kind = "decrease" /\ pc[t.worker] \notin {"locked", "reduced"}
  /\ clientActiveCalls' = [clientActiveCalls EXCEPT ![t.worker] = @ - 1]
  /\ tasks' = tasks \ {t}
  /\ UNCHANGED <<setup, pc, entering, early, futures, timer, pipes, deferred, total>>
complete(t) ==
  \/ t.kind = "complete" /\ ~Busy(t) /\ Follow(t, "callback", t.msg.above)
  \/ decreaseCallCount(t)

----------------------------------------------------------------------------
(* The server's side.                                                      *)

(* respond: a request is read off the pipe and run in the thread pool.     *)
respond(p) ==
  /\ requests[p] # <<>> /\ p \notin broken /\ poll[p[2]] # "off"
  /\ requests' = [requests EXCEPT ![p] = Tail(@)]
  /\ tasks' = tasks \cup {Task(p[2], "serve", Head(requests[p]))}
  /\ UNCHANGED <<setup, pc, calls, timer, responses, armed, broken, deferred, total>>

(* Its handler runs.                                                       *)
runHandler(t) ==
  /\ t.kind = "serve" /\ ~Busy(t)
  /\ Follow(t, "handler", t.msg.above \cup {t.msg.id})

(* sendCompletedResponseMessage                                            *)
sendCompletedResponseMessage(m) ==
  LET p == <<m.from, m.to>>
  IN  /\ deferred' = deferred \ {m}
      /\ responses' = IF rpcAgentRunning(m.to) /\ p \notin broken
                      THEN [responses EXCEPT ![p] = Append(@, m)] ELSE responses
      /\ UNCHANGED <<setup, pc, calls, timer, requests, armed, broken, tasks, total>>

----------------------------------------------------------------------------
(* Responses, errors and time-outs.                                        *)

(* The read armed first gets the next response, whichever call that        *)
(* answers; the entry removed from timeoutMap_ is looked for under the     *)
(* expiration of the call that armed the read.                             *)
readResponse(p) ==
  LET w == p[1]
      m == Head(responses[p])
  IN  /\ responses[p] # <<>> /\ armed[p] # <<>>
      /\ responses' = [responses EXCEPT ![p] = Tail(@)]
      /\ armed' = [armed EXCEPT ![p] = Tail(@)]
      /\ pending' = [pending EXCEPT ![w] = @ \ {m}]
      /\ timeoutMap' = [timeoutMap EXCEPT ![w] =
                          {e \in @ : e.id # m.id \/ e.expiry # Head(armed[p])}]
      /\ markFutures({m}, TRUE, tasks)
      /\ UNCHANGED <<setup, pc, entering, early, clientActiveCalls, poll, requests,
                     broken, deferred, total>>

(* A failing pipe loses what is in it.                                     *)
BreakPipes(P) ==
  /\ broken' = broken \cup P
  /\ requests' = [p \in Pipe |-> IF p \in P THEN <<>> ELSE requests[p]]
  /\ responses' = [p \in Pipe |-> IF p \in P THEN <<>> ELSE responses[p]]
  /\ UNCHANGED armed

(* Bound: it fails while it is in use; later writes onto it then fail.     *)
breakPipe(p) ==
  /\ p \in Breaks \ broken /\ armed[p] # <<>>
  /\ BreakPipes({p})
  /\ UNCHANGED <<setup, pc, calls, timer, tasks, deferred, total>>

(* The calls that are entered and not counted.                             *)
Uncounted(w) == {m \in {s.msg : s \in sending} \cup thrown : m.from = w}

(* The armed reads fail one by one: each flushes what is entered on that   *)
(* pipe by then with an error, the calls not counted yet included.         *)
readErrorIgnored(p) == \* seeded fault: nothing is flushed
  /\ p \in broken /\ armed[p] # <<>>
  /\ armed' = [armed EXCEPT ![p] = Tail(@)]
  /\ UNCHANGED <<setup, pc, calls, timer, requests, responses, broken, tasks, deferred, total>>
readError(p) ==
  LET w == p[1]
      M == {m \in pending[w] : m.to = p[2]}
  IN  /\ p \in broken /\ armed[p] # <<>>
      /\ armed' = [armed EXCEPT ![p] = Tail(@)]
      /\ pending' = [pending EXCEPT ![w] = @ \ M]
      /\ markFutures(M, FALSE, tasks)
      /\ early' = early \cup (M \cap Uncounted(w))
      /\ UNCHANGED <<setup, pc, entering, clientActiveCalls, timer,
                     requests, responses, broken, deferred, total>>

(* pollTimeoutRpcs: asleep until the earliest call expires, it takes the   *)
(* calls that expire then and marks them; under timeoutMapMutex_ it looks  *)
(* whether the agent runs, and sleeps again.  Only the shutdown, which     *)
(* takes no mutex, can come in between: the step is split where it can.    *)
earliest(w) == Min({m.expiry : m \in timeoutMap[w]})
pollTimeoutRpcs(w) ==
  /\ UNCHANGED <<setup, pc, entering, early, pending, clientActiveCalls, pipes,
                 deferred, total>>
  /\ \/ /\ poll[w] = "asleep" /\ timeoutMap[w] # {}
        /\ LET M == {m \in timeoutMap[w] : m.expiry = earliest(w)}
           IN  /\ timeoutMap' = [timeoutMap EXCEPT ![w] = @ \ M]
               /\ markFutures(M, FALSE, tasks)
        /\ poll' = [poll EXCEPT ![w] = IF pc[w] = "joined" THEN "look" ELSE "asleep"]
     \/ /\ UNCHANGED <<timeoutMap, isComplete, failed, tasks>>
        /\ \/ poll[w] = "look" /\ poll' = [poll EXCEPT ![w] =
                IF rpcAgentRunning(w) THEN "sleepy" ELSE "gone"]
           \/ poll[w] = "sleepy" /\ poll' = [poll EXCEPT ![w] = "asleep"]

----------------------------------------------------------------------------
(* join and shutdown.                                                      *)

(* join: wait for no active call; a barrier; then everyone holds its       *)
(* callCountMutex_ while the counts are added up, until it has the total.  *)
joinUnlocked(w) == \* seeded fault: the count is read before the barrier
  /\ UNCHANGED <<setup, calls, timer, pipes, tasks, deferred>>
  /\ \/ ~Calling(w) /\ Goto(w, "app", "join") /\ UNCHANGED total
     \/ clientActiveCalls[w] = 0 /\ Goto(w, "join", "barrier") /\ UNCHANGED total
     \/ /\ \A x \in Worker : pc[x] \in {"barrier", "joined"}
        /\ Goto(w, "barrier", "joined") /\ UNCHANGED total
join(w) ==
  /\ UNCHANGED <<setup, calls, timer, pipes, tasks, deferred>>
  /\ \/ ~Calling(w) /\ Goto(w, "app", "join") /\ UNCHANGED total
     \/ clientActiveCalls[w] = 0 /\ Goto(w, "join", "barrier") /\ UNCHANGED total
     \/ /\ \A x \in Worker : pc[x] \in {"barrier", "locked"}
        /\ Goto(w, "barrier", "locked") /\ UNCHANGED total
     \/ Goto(w, "reduced", IF total = 0 THEN "joined" ELSE "join") /\ UNCHANGED total

allreduce ==
  /\ \A w \in Worker : pc[w] = "locked"
  /\ pc' = [w \in Worker |-> "reduced"]
  /\ total' = MapThenSumSet(LAMBDA w : clientActiveCalls[w], Worker)
  /\ UNCHANGED <<setup, calls, timer, pipes, tasks, deferred>>

(* shutdown: the agent no longer runs, and the timeout thread is notified  *)
(* and joined; closing the context breaks the pipes; the pool drains.      *)
shutdown(w) ==
  /\ Goto(w, "joined", "stopping")
  /\ poll' = [poll EXCEPT ![w] = IF @ = "asleep" THEN "look" ELSE @]
  /\ UNCHANGED <<setup, calls, timeoutMap, pipes, tasks, deferred, total>>
shutdownImpl(w) ==
  /\ UNCHANGED <<setup, calls, timer, tasks, deferred, total>>
  /\ \/ /\ poll[w] = "gone" /\ Goto(w, "stopping", "closing")
        /\ BreakPipes({p \in Pipe : w \in {p[1], p[2]}})
     \/ /\ \A t \in tasks : t.worker # w
        /\ \A p \in Pipe : p[1] = w => armed[p] = <<>>
        /\ Goto(w, "closing", "down") /\ UNCHANGED pipes

----------------------------------------------------------------------------
TimerStep(w) == pollTimeoutRpcs(w)
PipeStep == \E p \in Pipe : respond(p) \/ readResponse(p) \/ readError(p)
PoolStep ==
  \/ \E t \in tasks : complete(t) \/ runHandler(t)
  \/ \E s \in sending : send(s)
  \/ \E m \in deferred : sendCompletedResponseMessage(m)
MainStep(w) ==
  collectNames(w) \/ startImpl(w) \/ join(w) \/ allreduce \/ shutdown(w) \/ shutdownImpl(w)

Next ==
  \/ PipeStep \/ PoolStep
  \/ \E w \in Worker : Call(w) \/ MainStep(w) \/ TimerStep(w)
  \/ \E p \in Pipe : breakPipe(p)

Spec == Init /\ [][Next]_vars

(* The threads of the pool, of the I/O event loops and the timeout thread  *)
(* are scheduled, handlers return, and every worker joins in the end.      *)
Fairness ==
  /\ WF_vars(PipeStep) /\ WF_vars(PoolStep)
  /\ \A w \in Worker : WF_vars(MainStep(w)) /\ WF_vars(TimerStep(w))
FairSpec == Spec /\ Fairness

----------------------------------------------------------------------------
(* The calls of w that are active: the future is open, or its callbacks    *)
(* have not all run.                                                       *)
Active(w) ==
  {m \in pending[w] : m.id \notin isComplete}
    \cup {t.msg : t \in {u \in tasks : u.worker = w /\ u.kind \in {"complete", "decrease"}}}

(* clientActiveCalls_ counts the active calls, whichever of response,      *)
(* time-out, write error and read error race to complete a call; short by  *)
(* the calls that send() has entered in pendingResponseMessage_ without    *)
(* having counted them (send, markFutureAsComplete, markFutureWithError).  *)
CountMatches ==
  \A w \in Worker :
    clientActiveCalls[w] + Cardinality(Uncounted(w)) = Cardinality(Active(w))

(* When join() returns anywhere, no call is active anywhere, nested and    *)
(* follow-up calls included; save those a handler made whose caller had    *)
(* got an error and stopped waiting, and what is left of a call where      *)
(* send() has thrown; and unless a read error has flushed a call before    *)
(* it was counted (join, send).                                            *)
JoinedMeansDone ==
  \A w, x \in Worker : Joined(w) /\ early = {} =>
    \A m \in Active(x) \ thrown : m.above \cap failed # {}

(* A worker that calls join() returns from it, through lost pipes, time-   *)
(* outs, calls that follow from calls and calls where send() throws,       *)
(* unless a read error flushes what such a send() has left (join, send).   *)
JoinReturns ==
  \A w \in Worker : pc[w] = "join" ~> (Joined(w) \/ thrown \cap early # {})
=============================================================================
