--------------------------- MODULE ProcessGroups ---------------------------
(***************************************************************************)
(* ProcessGroupGloo, ProcessGroupMPI and ProcessGroupRoundRobin: from a    *)
(* user's calls, through the work queue and the threads that run it, to    *)
(* the end of the destructor.                                              *)
(*                                                                         *)
(* Every rank runs a script of calls.  A collective is checked, given the  *)
(* next tag, queued and run by one of the group's threads; it ends when    *)
(* the matching calls of the other ranks have begun, or with an exception. *)
(* A send or receive is posted at once.  Work::wait blocks the user thread *)
(* and rethrows.  After the script the group is destroyed.  Gloo matches   *)
(* collectives by tag and MPI by the order of the calls on a communicator. *)
(* For tensors on a CUDA device, Gloo copies to the host and back on       *)
(* streams of its own.                                                     *)
(***************************************************************************)
EXTENDS Collectives, Arguments, FiniteSets

CONSTANTS Scripts, \* a sequence of records [backend, threads, fails, steps]: the
                   \* threads per group, the calls in which the library may
                   \* throw, and what each member of the group does
          Groups,  \* groups a round-robin process group cycles through
          Cases    \* records [op, root, tensor, ins, splits] to compute results for

VARIABLES
  script,   \* the number of the script the ranks run
  at,       \* rank -> the next step of its user thread
  works,    \* rank -> its works, in the order of the calls
  counter,  \* rank -> group -> collectiveCounter_
  iterator, \* rank -> the group next() returns (round-robin only)
  asleep,   \* rank -> group -> threads waiting on workProduceCV_
  workInProgress, \* rank -> group -> the works in the slots of the threads
  stop,     \* rank -> stop_, or "closed" when the threads have been joined
  mutex     \* rank -> the work that holds pgGlobalMutex_, or 0 (MPI only)

vars == <<script, at, works, counter, iterator, asleep, workInProgress, stop, mutex>>

threads == <<asleep, workInProgress>>

Script == Scripts[script]

backend == Script.backend

Member == DOMAIN Script.steps

Group == IF backend = "roundrobin" THEN 0 .. Groups - 1 ELSE {0}

PointToPoint == {"send", "recv", "recvAnysource"}

\* Operations Gloo, MPI and round-robin refuse.  The latter dispatches
\* allgather_coalesced to allgather(), which refuses its arguments.
NotInGloo == {"reduce_scatter", "allgather_base", "alltoall"}

NotInMPI == {"reduce_scatter", "allgather_base", "allreduce_coalesced",
             "allgather_coalesced"}

NotInRoundRobin == PointToPoint \cup {"barrier", "allgather_base", "alltoall"}

Unsupported ==
  CASE backend = "gloo" -> NotInGloo
    [] backend = "mpi" -> NotInMPI
    [] OTHER -> NotInRoundRobin \cup NotInGloo \cup {"allgather_coalesced"}

Init ==
  /\ script \in DOMAIN Scripts
  /\ at = [r \in Member |-> 1]
  /\ works = [r \in Member |-> <<>>]
  /\ counter = [r \in Member |-> [g \in Group |-> 0]]
  /\ iterator = [r \in Member |-> 0]
  /\ asleep = [r \in Member |-> [g \in Group |-> 0]]
  /\ workInProgress = [r \in Member |-> [g \in Group |-> {}]]
  /\ stop = [r \in Member |-> "no"]
  /\ mutex = [r \in Member |-> 0]

Step(r) == Script.steps[r][at[r]]

Calls(r) == at[r] <= Len(Script.steps[r])

workQueue(r, g) ==
  {i \in DOMAIN works[r] : works[r][i].group = g /\ works[r][i].state = "queued"}

\* Works that are completed, with or without an exception.
Over(r) == {i \in DOMAIN works[r] : works[r][i].state \in {"done", "failed"}}

\* The group the next call goes to.
next(r) == IF backend = "roundrobin" THEN iterator[r] ELSE 0

advance(r) ==
  iterator' = IF backend = "roundrobin"
              THEN [iterator EXCEPT ![r] = (@ + 1) % Groups] ELSE iterator

nextTag(r, g) == counter' = [counter EXCEPT ![r][g] = @ + 1]

size == Cardinality(Member)

\* "early" when an argument is refused, "late" when that is after nextTag().
fault(r) ==
  LET s == Step(r) IN
  IF backend = "mpi" THEN IF mpiAccepts(s.op, s.args, r, size) THEN "no" ELSE "early"
  ELSE IF ~ glooAccepts(s.op, s.args, r, size) THEN "early"
  ELSE IF ~ glooHasWork(s.op, s.args) THEN "late" ELSE "no"

Copies(r) ==
  IF Step(r).op = "barrier" \/ backend = "mpi" THEN [in |-> FALSE, out |-> FALSE]
  ELSE copies(Step(r).op, Step(r).args, r)

\* A new work.  prior is what a Gloo barrier waits for, tmp the host copy of
\* the inputs, sent what the library took of it, back the copy of the results,
\* synced whether wait() put the user's stream behind it, and seen what a
\* kernel of the user found.
Work(r, g) ==
  [op |-> Step(r).op, id |-> Step(r).id, root |-> Step(r).args.root, group |-> g,
   tag |-> counter[r][g],
   prior |-> IF Step(r).op = "barrier" /\ backend # "mpi"
             THEN [progress |-> workInProgress[r][g], queue |-> workQueue(r, g)]
             ELSE [progress |-> {}, queue |-> {}],
   state |-> "queued", from |-> <<>>,
   copies |-> Copies(r), tmp |-> IF Copies(r).in THEN "queued" ELSE "ready",
   sent |-> "none", back |-> "none", synced |-> FALSE, seen |-> "none"]

enqueueQuietly(r, g, w) == \* seeded fault: no thread is notified
  /\ works' = [works EXCEPT ![r] = Append(@, w)]
  /\ asleep' = asleep

\* Append to the queue and wake one thread.
enqueue(r, g, w) ==
  /\ works' = [works EXCEPT ![r] = Append(@, w)]
  /\ asleep' = [asleep EXCEPT ![r][g] = IF @ > 0 THEN @ - 1 ELSE 0]

\* broadcast(), allreduce(), ... barrier() with acceptable arguments.
collective(r) ==
  /\ Calls(r)
  /\ Step(r).op \notin Unsupported \cup PointToPoint \cup {"wait", "read"}
  /\ fault(r) = "no"
  /\ \E g \in {next(r)} :
       /\ enqueue(r, g, Work(r, g))
       /\ IF backend = "mpi" THEN UNCHANGED counter ELSE nextTag(r, g)
  /\ advance(r)
  /\ at' = [at EXCEPT ![r] = @ + 1]
  /\ UNCHANGED <<script, workInProgress, stop, mutex>>

\* A call that throws.  Most checks come before nextTag(), the ones on the
\* device and the layout after it; next() has been called in any case.
reject(r) ==
  /\ Calls(r)
  /\ \/ Step(r).op \in Unsupported
     \/ Step(r).op \notin {"wait", "read"} /\ fault(r) # "no"
  /\ IF Step(r).op \notin Unsupported /\ fault(r) = "late" THEN nextTag(r, next(r))
     ELSE UNCHANGED counter
  /\ IF Step(r).op \in NotInRoundRobin THEN UNCHANGED iterator ELSE advance(r)
  /\ at' = [at EXCEPT ![r] = @ + 1]
  /\ UNCHANGED <<script, works, threads, stop, mutex>>

\* send, recv and recvAnysource post a buffer; MPI does so under the mutex.
post(r) ==
  /\ Calls(r)
  /\ Step(r).op \in PointToPoint \ Unsupported
  /\ fault(r) = "no"
  /\ mutex[r] = 0
  /\ works' = [works EXCEPT ![r] = Append(@,
       [op |-> Step(r).op, id |-> Step(r).id, peer |-> Step(r).peer, group |-> 0,
        tag |-> Step(r).args.tag, state |-> "running", from |-> <<>>, tmp |-> "ready",
        sent |-> "none", back |-> "none", synced |-> FALSE, seen |-> "none"])]
  /\ at' = [at EXCEPT ![r] = @ + 1]
  /\ UNCHANGED <<script, counter, iterator, threads, stop, mutex>>

\* What the threads that hold workMutex_ next may have in their slots: a work
\* that is over, or 0 for none.
Slots(r, g) ==
  (workInProgress[r][g] \cap Over(r))
    \cup {0 : k \in 1 .. Script.threads - asleep[r][g]
                               - Cardinality(workInProgress[r][g])}

\* runLoop takes a work of the queue; the slot keeps the last one until then.
Take(r, g, i) ==
  /\ stop[r] = "no"
  /\ \E j \in Slots(r, g) :
       workInProgress' = [workInProgress EXCEPT ![r][g] = (@ \ {j}) \cup {i}]
  /\ works' = [works EXCEPT ![r][i].state = "popped"]
  /\ UNCHANGED <<script, at, counter, iterator, asleep, stop, mutex>>

popLast(r, g) == \* seeded fault: the queue is a stack
  workQueue(r, g) # {} /\ Take(r, g, Max(workQueue(r, g)))

\* The first work of the queue comes next.
pop(r, g) == workQueue(r, g) # {} /\ Take(r, g, Min(workQueue(r, g)))

\* runLoop waits for work.
sleep(r, g) ==
  /\ stop[r] = "no" /\ workQueue(r, g) = {}
  /\ \E j \in Slots(r, g) :
       workInProgress' = [workInProgress EXCEPT ![r][g] = @ \ {j}]
  /\ asleep' = [asleep EXCEPT ![r][g] = @ + 1]
  /\ UNCHANGED <<script, at, works, counter, iterator, stop, mutex>>

PriorIgnored(r, i) == TRUE \* seeded fault: the barrier waits for no work

Prior(w) == w.prior.progress \cup w.prior.queue

\* A Gloo barrier first waits for the works it found when it was called.
PriorDone(r, i) == \A j \in Prior(works[r][i]) : works[r][j].state = "done"

\* That wait rethrows: the works of the slots come first, in the order of the
\* threads, then those of the queue.
PriorFailed(r, i) ==
  LET state(j) == works[r][j].state
      prior == works[r][i].prior
  IN  \/ \E j \in prior.progress : state(j) = "failed"
      \/ /\ \A j \in prior.progress : state(j) = "done"
         /\ \E j \in prior.queue :
              state(j) = "failed" /\ \A k \in prior.queue : k < j => state(k) = "done"

\* The stream that the work made copies its inputs to the host.
copyIn(r, i) ==
  /\ works[r][i].tmp = "queued"
  /\ works' = [works EXCEPT ![r][i].tmp = "ready"]
  /\ UNCHANGED <<script, at, counter, iterator, threads, stop, mutex>>

\* cudaStreamSynchronize on the streams that copy the inputs.
streamSynchronized(r, i) == works[r][i].tmp = "ready"

\* The thread enters Gloo.
runGloo(r, i) ==
  /\ backend # "mpi"
  /\ works[r][i].state = "popped" /\ PriorDone(r, i) /\ streamSynchronized(r, i)
  /\ works' = [works EXCEPT ![r][i].state = "running", ![r][i].sent = works[r][i].tmp]
  /\ UNCHANGED <<script, at, counter, iterator, threads, stop, mutex>>

\* The thread enters MPI with the process-wide mutex: tag is the number of
\* this collective on the communicator.
runMPI(r, i) ==
  /\ backend = "mpi"
  /\ works[r][i].state = "popped" /\ mutex[r] = 0
  /\ mutex' = [mutex EXCEPT ![r] = i]
  /\ works' = [works EXCEPT ![r][i].state = "running", ![r][i].sent = "ready",
                            ![r][i].tag = counter[r][0]]
  /\ nextTag(r, 0)
  /\ UNCHANGED <<script, at, iterator, threads, stop>>

\* The work of rank s that the library pairs with w, once it has entered the
\* library (external).
Paired(w, s) ==
  {j \in DOMAIN works[s] :
     /\ works[s][j].op \notin PointToPoint
     /\ works[s][j].group = w.group /\ works[s][j].tag = w.tag
     /\ works[s][j].sent # "none"}

\* The ranks whose data a rank needs before it can finish.
Needed(w, r) ==
  CASE w.op \in {"broadcast", "scatter"} -> {w.root}
    [] w.op \in {"reduce", "gather"} -> IF r = w.root THEN Member ELSE {}
    [] OTHER -> Member

\* The library returns and the work is finished; copies of the results to the
\* device may still be under way.
finish(r, i) ==
  LET w == works[r][i] IN
  /\ w.op \notin PointToPoint /\ w.state = "running"
  /\ \A s \in Needed(w, r) \ {r} : Paired(w, s) # {}
  /\ works' = [works EXCEPT
       ![r][i].state = "done",
       ![r][i].back = IF w.copies.out THEN "queued" ELSE "none",
       ![r][i].from = [s \in Needed(w, r) \ {r} |-> works[s][Min(Paired(w, s))].id]]
  /\ mutex' = [mutex EXCEPT ![r] = 0]
  /\ UNCHANGED <<script, at, counter, iterator, threads, stop>>

\* The library throws, or a work the barrier waits for has: the thread
\* finishes the work with the exception.
finishWithException(r, i) ==
  /\ works[r][i].op \notin PointToPoint
  /\ \/ works[r][i].id \in Script.fails /\ works[r][i].state = "running"
     \/ works[r][i].state = "popped" /\ PriorFailed(r, i)
  /\ works' = [works EXCEPT ![r][i].state = "failed"]
  /\ mutex' = [mutex EXCEPT ![r] = 0]
  /\ UNCHANGED <<script, at, counter, iterator, threads, stop>>

copyBack(r, i) ==
  /\ works[r][i].back = "queued"
  /\ works' = [works EXCEPT ![r][i].back = "ready"]
  /\ UNCHANGED <<script, at, counter, iterator, threads, stop, mutex>>

\* Posted works of rank s that rank r's work i may pair with: the oldest
\* pending one with its tag, either way (external).
Posted(s, op, tag, peer) ==
  {j \in DOMAIN works[s] : /\ works[s][j].op \in op
                           /\ works[s][j].state = "running"
                           /\ works[s][j].tag = tag
                           /\ works[s][j].peer \in {peer, s}}

Oldest(S, i) == i \in S /\ i = Min(S)

\* The transport moves one message; both works are finished (external).
transfer(s, j, r, i) ==
  LET snd == works[s][j]  rcv == works[r][i] IN
  /\ s # r /\ snd.op = "send" /\ snd.state = "running" /\ snd.peer = r
  /\ rcv.op = "recv" => rcv.peer = s
  /\ Oldest(Posted(s, {"send"}, snd.tag, r), j)
  /\ Oldest(Posted(r, {"recv", "recvAnysource"}, snd.tag, s), i)
  /\ works' = [works EXCEPT ![s][j].state = "done",
                            ![r][i].state = "done",
                            ![r][i].from = [q \in {s} |-> snd.id]]
  /\ UNCHANGED <<script, at, counter, iterator, threads, stop, mutex>>

\* The transport gives up a message on one side (external).
breakMessage(r, i) ==
  /\ works[r][i].id \in Script.fails
  /\ works[r][i].op \in PointToPoint /\ works[r][i].state = "running"
  /\ works' = [works EXCEPT ![r][i].state = "failed"]
  /\ UNCHANGED <<script, at, counter, iterator, threads, stop, mutex>>

synchronizeNothing(r, i) == works' = works \* seeded fault: no event is waited for

\* synchronize(): what follows on the user's stream comes after the copies.
synchronize(r, i) == works' = [works EXCEPT ![r][i].synced = TRUE]

\* Work::wait: a completed work is synchronized with, or its exception
\* rethrown; the call throws at its timeout if it has one.
waitForWork(r, i) ==
  /\ \/ works[r][i].state = "done" /\ synchronize(r, i)
     \/ works[r][i].state = "failed" /\ UNCHANGED works
     \/ i \notin Over(r) /\ Step(r).hasty /\ UNCHANGED works
  /\ at' = [at EXCEPT ![r] = @ + 1]
  /\ UNCHANGED mutex

\* MPI's AsyncWork::wait has nothing to do once request_ is null (synced);
\* otherwise it takes the mutex and keeps it until MPI_Wait returns.
waitForRequest(r, i) ==
  \/ /\ works[r][i].synced
     /\ at' = [at EXCEPT ![r] = @ + 1]
     /\ UNCHANGED <<works, mutex>>
  \/ /\ ~ works[r][i].synced /\ mutex[r] = 0
     /\ mutex' = [mutex EXCEPT ![r] = i]
     /\ UNCHANGED <<at, works>>
  \/ /\ mutex[r] = i /\ i \in Over(r)
     /\ works' = [works EXCEPT ![r][i].synced = TRUE]
     /\ at' = [at EXCEPT ![r] = @ + 1]
     /\ mutex' = [mutex EXCEPT ![r] = 0]

wait(r) ==
  /\ Calls(r) /\ Step(r).op = "wait"
  /\ \E i \in {Step(r).work} :
       IF backend = "mpi" /\ works[r][i].op \in PointToPoint
       THEN waitForRequest(r, i) ELSE waitForWork(r, i)
  /\ UNCHANGED <<script, counter, iterator, threads, stop>>

\* A kernel of the user on the outputs of a work runs when the events its
\* stream is behind have happened (external).
read(r) ==
  /\ Calls(r) /\ Step(r).op = "read"
  /\ \A i \in DOMAIN works[r] : works[r][i].synced => works[r][i].back # "queued"
  /\ works' = [works EXCEPT ![r][Step(r).work].seen = works[r][Step(r).work].back]
  /\ at' = [at EXCEPT ![r] = @ + 1]
  /\ UNCHANGED <<script, counter, iterator, threads, stop, mutex>>

\* The destructor waits for an empty queue, sets stop_ and wakes all threads.
destroy(r) ==
  /\ ~ Calls(r) /\ stop[r] = "no"
  /\ \A g \in Group : workQueue(r, g) = {}
  /\ stop' = [stop EXCEPT ![r] = "yes"]
  /\ asleep' = [asleep EXCEPT ![r] = [g \in Group |-> 0]]
  /\ UNCHANGED <<script, at, works, counter, iterator, workInProgress, mutex>>

\* The threads leave runLoop when their work is finished, and are joined.
join(r) ==
  /\ stop[r] = "yes"
  /\ \A g \in Group : workInProgress[r][g] \subseteq Over(r)
  /\ stop' = [stop EXCEPT ![r] = "closed"]
  /\ UNCHANGED <<script, at, works, counter, iterator, threads, mutex>>

UserStep(r) ==
  /\ r \in Member
  /\ \/ collective(r) \/ reject(r) \/ post(r) \/ wait(r) \/ read(r)
     \/ destroy(r) \/ join(r)

ThreadStep(r) ==
  /\ r \in Member
  /\ \/ \E g \in Group : pop(r, g) \/ sleep(r, g)
     \/ \E i \in DOMAIN works[r] :
          runGloo(r, i) \/ runMPI(r, i) \/ finish(r, i) \/ finishWithException(r, i)

StreamStep(r) ==
  /\ r \in Member
  /\ \E i \in DOMAIN works[r] : copyIn(r, i) \/ copyBack(r, i)

TransportStep ==
  \E r \in Member : \E i \in DOMAIN works[r] :
    \/ \E s \in Member : \E j \in DOMAIN works[s] : transfer(s, j, r, i)
    \/ breakMessage(r, i)

Next ==
  \/ \E r \in Rank : UserStep(r) \/ ThreadStep(r) \/ StreamStep(r)
  \/ TransportStep

Spec == Init /\ [][Next]_vars

\* While some thread, stream or the transport can move, one of them does.  No
\* more is needed: a script is finite, and so is every behaviour.
Fairness == WF_vars(Next)

FairSpec == Spec /\ Fairness

(***************************************************************************)
(* Properties.                                                             *)
(***************************************************************************)

\* A collective that is done took the data of the same call of the other
\* ranks: whatever threads run the queues in whatever order, and whichever
\* works fail on one rank alone (a barrier even before it enters Gloo),
\* nextTag() and the queue pair each call with the same call of the others.
\* A rank may also make calls of its own that are refused before nextTag(),
\* and all ranks may make a call that is refused after it.
PairedWithSameCall ==
  \A r \in Member : \A i \in DOMAIN works[r] :
    works[r][i].op \notin PointToPoint =>
      \A s \in DOMAIN works[r][i].from : works[r][i].from[s] = works[r][i].id

\* The operations of a backend that write what they promise, given the inputs
\* they accept.
RightInGloo ==
  {op \in GlooOps : \A c \in Cases, r \in Rank :
     (c.op = op /\ (op \in SingleOps => OneTensor(c))) => Promised(c, r, gloo(c, r))}

RightInMPI ==
  {op \in MPIOps : \A c \in Cases, r \in Rank :
     (c.op = op /\ (op \in ListOps \/ OneTensor(c))) => Promised(c, r, mpi(c, r))}

RightInNCCL ==
  {op \in NCCLOps : \A c \in Cases, r \in Rank : c.op = op => Promised(c, r, nccl(c, r))}

RightInHCCL ==
  {op \in HCCLOps : \A c \in Cases, r \in Rank :
     (c.op = op /\ (op \in ListOps \/ OneTensor(c))) => Promised(c, r, hccl(c, r))}

\* A collective that is done has written what the operation promises into the
\* outputs of the rank: flattening, splitting and copying around the library's
\* buffers (AsyncAllgatherWork, computeLengthsAndOffsets, ...) lose and mix
\* nothing.  So do the operations of NCCL and HCCL, also with several devices
\* per process.
ResultsRight ==
  /\ NCCLOps \subseteq RightInNCCL /\ HCCLOps \subseteq RightInHCCL
  /\ \A r \in Member : \A i \in DOMAIN works[r] :
       (/\ works[r][i].state = "done"
        /\ works[r][i].op \notin PointToPoint \cup {"barrier"}) =>
         works[r][i].op \in IF backend = "mpi" THEN RightInMPI ELSE RightInGloo

\* Gloo works on CUDA tensors keep the order of the copies: the library takes
\* only inputs that have arrived on the host, and a kernel the user starts
\* after wait() finds the results, though the work was completed while they
\* were still being copied back.
CopiesInOrder ==
  \A r \in Member : \A i \in DOMAIN works[r] :
    works[r][i].sent # "queued" /\ works[r][i].seen # "queued"

\* "When executing a barrier, we need to ensure that all prior work has
\* completed before completing itself": once a barrier is done on one rank,
\* the collectives called before it are over on every rank, and those a Gloo
\* barrier found unfinished have not failed.
BarrierComesLast ==
  \A r \in Member : \A i \in DOMAIN works[r] :
    (works[r][i].op = "barrier" /\ works[r][i].state = "done") =>
      \A s \in Member : \E b \in DOMAIN works[s] :
        /\ works[s][b].id = works[r][i].id
        /\ {j \in 1 .. b - 1 : works[s][j].op \notin PointToPoint} \subseteq Over(s)
        /\ \A j \in Prior(works[s][b]) : works[s][j].state = "done"

\* Every wait() returns or throws and every destructor ends: no notification
\* of the queue is lost, no barrier waits for a thread it occupies itself or
\* for a work that failed, pgGlobalMutex_ is given back, and a call that one
\* rank makes alone leaves the tags of the ranks in step when it is refused
\* before nextTag().
GroupsClose == <>(\A r \in Member : stop[r] = "closed")

=============================================================================
