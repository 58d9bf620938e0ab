-------------------------- MODULE ProcessGroupNCCL --------------------------
(***************************************************************************)
(* ProcessGroupNCCL, and ProcessGroupHCCL which follows it without the     *)
(* threads, on the groups of Registry: how communicators are created       *)
(* through the store, and how a failure of one rank becomes known to all.  *)
(*                                                                         *)
(* Per rank there are the user thread, which follows the script, and per   *)
(* group a watchdog thread and, with NCCL_ASYNC_ERROR_HANDLING, a cleanup  *)
(* thread.  A work is a kernel that ends when all ranks of its communicator*)
(* have queued theirs, or when the communicator is aborted.  The mode is   *)
(* "plain", "blocking" (NCCL_BLOCKING_WAIT), "async", or "hccl" and        *)
(* "hcclBlocking" for the other backend.                                   *)
(*                                                                         *)
(* A communicator is known by the number its ncclGetUniqueId returned.     *)
(* Sending to oneself is left out.                                         *)
(***************************************************************************)
EXTENDS Registry

VARIABLES
  used,      \* rank -> name -> usedDeviceIdxs_
  counter,   \* rank -> name -> ncclCommCounter_
  ids,       \* ids in the stores: [store, name, key] -> communicator
  comms,     \* rank -> communicator -> [name, key, size, rank, bad, aborted]
  joining,   \* rank -> the communicator ncclCommInitRank is called for, or 0
  works,     \* rank -> its works [comm, nth, op, state]
  waited,    \* rank -> works whose wait() returned
  marks,     \* communicators whose abort is recorded in the store
  watchdog,  \* rank -> [found, known]: aborts to record, abortedComms_
  metaList,  \* rank -> works in workMetaList_
  checked,   \* rank -> the work the cleanup thread found no error for, or 0
  down       \* processes that std::terminate ended

ncclVars == <<used, counter, ids, comms, joining, works, waited, marks,
              watchdog, metaList, checked, down>>

cleanup == <<metaList, checked>>

vars == <<registryVars, ncclVars>>

Blocking == script.mode \in {"blocking", "hcclBlocking"}
Async == script.mode = "async"
HCCL == script.mode \in {"hccl", "hcclBlocking"}

Name == 0 .. MaxGroups

Init ==
  /\ RegistryInit
  /\ used = [r \in Rank |-> [n \in Name |-> {}]]
  /\ counter = [r \in Rank |-> [n \in Name |-> 0]]
  /\ ids = <<>>
  /\ comms = [r \in Rank |-> <<>>]
  /\ joining = [r \in Rank |-> 0]
  /\ works = [r \in Rank |-> <<>>]
  /\ waited = [r \in Rank |-> {}]
  /\ marks = {}
  /\ watchdog = [r \in Rank |-> [found |-> {}, known |-> {}]]
  /\ metaList = [r \in Rank |-> {}]
  /\ checked = [r \in Rank |-> 0]
  /\ down = {}

\* checkForNCCLErrors: an asynchronous error, or an abort.
Failed(r, c) == comms[r][c].bad \/ comms[r][c].aborted

\* ncclCommAbort ends the kernels of the communicators on this rank, with
\* whatever is in their buffers.
Abort(r, cs) ==
  /\ comms' = [comms EXCEPT ![r] =
       [c \in DOMAIN @ |-> IF c \in cs THEN [@[c] EXCEPT !.aborted = TRUE] ELSE @[c]]]
  /\ works' = [works EXCEPT ![r] =
       [i \in DOMAIN @ |-> IF @[i].comm \in cs /\ @[i].state = "running"
                           THEN [@[i] EXCEPT !.state = "killed"] ELSE @[i]]]

(***************************************************************************)
(* Communicators.                                                          *)
(***************************************************************************)

\* Where a rank stands in the group.
GroupRank(r, n) == Cardinality({s \in pgs[r][n].ranks : s < r})

\* The devices of a call: a barrier takes the ones used so far, or guesses.
Devices(r) ==
  CASE Step(r).do = "call" -> Step(r).devices
    [] Step(r).do = "barrier" ->
         IF used[r][Step(r).group] = {} THEN {GroupRank(r, Step(r).group)}
         ELSE used[r][Step(r).group]
    [] Step(r).do = "p2p" -> Step(r).devices

\* getKeyFromDevices and getKeySendRecv.
DevicesKey(r) ==
  IF Step(r).do = "p2p"
  THEN <<"p2p", {GroupRank(r, Step(r).group), Step(r).peer}>>
  ELSE <<"devices", Devices(r)>>

Cached(r, n, key) ==
  {c \in DOMAIN comms[r] : comms[r][c].name = n /\ comms[r][c].key = key}

storeKeyOfPair(r, n) == \* seeded fault: every call counts alike
  [store |-> pgs[r][n].store, name |-> n, key |-> <<"seq", {counter[r][n]}>>]

\* The key under which the id is broadcast: the sequence number of the
\* communicator in the group, or the pair of a send and receive.
storeKey(r, n) ==
  [store |-> pgs[r][n].store, name |-> n,
   key |-> IF Step(r).do = "p2p" THEN DevicesKey(r) ELSE <<"seq", {counter[r][n]}>>]

\* The first of the ranks concerned makes the id.
makesId(r, n) ==
  IF Step(r).do = "p2p" THEN GroupRank(r, n) <= Step(r).peer
  ELSE GroupRank(r, n) = 0

CallReady(r) ==
  /\ r \notin down
  /\ at[r] <= Last(r) /\ Step(r).do \in {"call", "barrier", "p2p"}
  /\ phase[r] = "begin" /\ world[r] # -1

\* A call HCCL refuses: point to point, or a barrier over several devices.
Unsupported(r) ==
  HCCL /\ (Step(r).do = "p2p" \/ Cardinality(Devices(r)) > 1)

refuseCall(r) ==
  /\ CallReady(r) /\ Unsupported(r)
  /\ raise(r)
  /\ UNCHANGED <<script, groupCount, world, pgs, counts, ncclVars>>

\* A call whose cached communicator has been aborted: getNcclComm throws.
getAborted(r) ==
  /\ CallReady(r) /\ ~ Unsupported(r)
  /\ \E c \in Cached(r, Step(r).group, DevicesKey(r)) : comms[r][c].aborted
  /\ used' = [used EXCEPT ![r][Step(r).group] = @ \cup Devices(r)]
  /\ raise(r)
  /\ UNCHANGED <<script, groupCount, world, pgs, counts, counter, ids, comms,
                 joining, works, waited, marks, watchdog, cleanup, down>>

NewId == Max({0} \cup Range(ids) \cup UNION {DOMAIN comms[s] : s \in Rank}) + 1

\* getNCCLComm without a cached communicator: broadcastUniqueNCCLID, then
\* ncclCommInitRank begins.
broadcastUniqueNCCLID(r) ==
  /\ CallReady(r) /\ ~ Unsupported(r)
  /\ \E n \in {Step(r).group} : \E k \in {storeKey(r, n)} :
       /\ Cached(r, n, DevicesKey(r)) = {}
       /\ IF makesId(r, n)
          THEN \E c \in {NewId} :
                 /\ ids' = [x \in DOMAIN ids \cup {k} |-> IF x = k THEN c ELSE ids[x]]
                 /\ joining' = [joining EXCEPT ![r] = c]
          ELSE /\ k \in DOMAIN ids
               /\ joining' = [joining EXCEPT ![r] = ids[k]]
               /\ UNCHANGED ids
       /\ counter' = IF Step(r).do = "p2p" THEN counter
                     ELSE [counter EXCEPT ![r][n] = @ + 1]
       /\ used' = [used EXCEPT ![r][n] = @ \cup Devices(r)]
  /\ phase' = [phase EXCEPT ![r] = "joining"]
  /\ UNCHANGED <<script, at, groupCount, world, pgs, counts, raised, comms,
                 works, waited, marks, watchdog, cleanup, down>>

\* The id does not come: the store's get throws after its timeout.
getTimesOut(r) ==
  /\ CallReady(r) /\ ~ Unsupported(r) /\ r \in script.storeLate
  /\ \E n \in {Step(r).group} :
       /\ Cached(r, n, DevicesKey(r)) = {}
       /\ ~ makesId(r, n) /\ storeKey(r, n) \notin DOMAIN ids
       /\ counter' = IF Step(r).do = "p2p" THEN counter
                     ELSE [counter EXCEPT ![r][n] = @ + 1]
       /\ used' = [used EXCEPT ![r][n] = @ \cup Devices(r)]
  /\ raise(r)
  /\ UNCHANGED <<script, groupCount, world, pgs, counts, ids, comms, joining, works,
                 waited, marks, watchdog, cleanup, down>>

\* The number of processes in the communicator of the current step.
Size(r) == IF Step(r).do = "p2p" THEN 2 ELSE Cardinality(pgs[r][Step(r).group].ranks)

\* ncclCommInitRank returns when all processes have called it (external).
Gathered(c, size) ==
  Cardinality({s \in Rank : joining[s] = c \/ \E i \in DOMAIN works[s] : works[s][i].comm = c})
    = size

\* The kernel is queued; with error handling it is put into workMetaList_, when
\* the cleanup thread is through with the list.
Enqueue(r, c) ==
  /\ works' = [works EXCEPT ![r] = Append(@,
       [comm |-> c, state |-> "running", op |-> Step(r).op,
        nth |-> Cardinality({i \in DOMAIN @ : @[i].comm = c})])]
  /\ metaList' = IF Async /\ Step(r).do # "p2p"
                 THEN [metaList EXCEPT ![r] = @ \cup {Len(works[r]) + 1}]
                 ELSE metaList
  /\ checked' = [checked EXCEPT ![r] = 0]

\* getNCCLComm caches the new communicator and the call goes on.
getNCCLComm(r) ==
  /\ r \notin down /\ phase[r] = "joining"
  /\ \E c \in {joining[r]} :
       /\ Gathered(c, Size(r))
       /\ comms' = [comms EXCEPT ![r] = [x \in DOMAIN @ \cup {c} |->
            IF x = c THEN [name |-> Step(r).group, key |-> DevicesKey(r),
                           size |-> Size(r),
                           rank |-> IF Step(r).do # "p2p" THEN GroupRank(r, Step(r).group)
                                    ELSE IF makesId(r, Step(r).group) THEN 0 ELSE 1,
                           bad |-> FALSE, aborted |-> FALSE]
            ELSE @[x]]]
       /\ Enqueue(r, c)
  /\ joining' = [joining EXCEPT ![r] = 0]
  /\ advance(r)
  /\ UNCHANGED <<script, groupCount, world, pgs, counts, raised, used, counter,
                 ids, waited, marks, watchdog, down>>

\* collective() and pointToPoint() with a cached communicator.
collective(r) ==
  /\ CallReady(r) /\ ~ Unsupported(r)
  /\ \E c \in Cached(r, Step(r).group, DevicesKey(r)) :
       /\ ~ comms[r][c].aborted
       /\ Enqueue(r, c)
  /\ used' = [used EXCEPT ![r][Step(r).group] = @ \cup Devices(r)]
  /\ advance(r)
  /\ UNCHANGED <<script, groupCount, world, pgs, counts, raised, counter, ids,
                 comms, joining, waited, marks, watchdog, down>>

\* Rank s has queued its kernel of an operation and can still take part.
TakesPart(s, c, nth) == \E j \in DOMAIN works[s] :
  /\ works[s][j].comm = c /\ works[s][j].nth = nth
  /\ works[s][j].state = "finished" \/ (works[s][j].state = "running" /\ s \notin down)

\* A kernel ends when every process of the communicator takes part, in the
\* order of the stream (external).
finishKernel(r, i) ==
  /\ r \notin down /\ works[r][i].state = "running"
  /\ works[r][i].comm \in DOMAIN comms[r]
  /\ \E c \in {works[r][i].comm} :
       /\ ~ comms[r][c].bad
       /\ \A j \in 1 .. i - 1 : works[r][j].comm = c => works[r][j].state # "running"
       /\ Cardinality({s \in Rank : TakesPart(s, c, works[r][i].nth)}) = comms[r][c].size
  /\ works' = [works EXCEPT ![r][i].state = "finished"]
  /\ UNCHANGED <<registryVars, used, counter, ids, comms, joining, waited, marks,
                 watchdog, cleanup, down>>

\* ncclCommGetAsyncError begins to report an error on this rank (external).
breakComm(r, c) ==
  /\ r \in script.errs \ down
  /\ ~ Failed(r, c)
  /\ comms' = [comms EXCEPT ![r][c].bad = TRUE]
  /\ UNCHANGED <<registryVars, used, counter, ids, joining, works, waited, marks,
                 watchdog, cleanup, down>>

(***************************************************************************)
(* WorkNCCL::wait.                                                         *)
(***************************************************************************)

Waits(r) == r \notin down /\ Does(r, "wait") /\ phase[r] = "begin"

TheWork(r) == works[r][Step(r).work]

Ended(r) == TheWork(r).state # "running"

\* Without NCCL_BLOCKING_WAIT only the stream waits, and for a barrier the
\* device is synchronized.
waitStream(r) ==
  /\ Waits(r) /\ ~ Blocking
  /\ TheWork(r).op = "barrier" => Ended(r)
  /\ waited' = IF TheWork(r).op = "barrier"
               THEN [waited EXCEPT ![r] = @ \cup {Step(r).work}] ELSE waited
  /\ advance(r)
  /\ UNCHANGED <<script, groupCount, world, pgs, counts, raised, used, counter, ids,
                 comms, joining, works, marks, watchdog, cleanup, down>>

isCompletedOnly(r) == \* seeded fault: exceptions are not looked at
  /\ Waits(r) /\ Blocking /\ Ended(r)
  /\ waited' = [waited EXCEPT ![r] = @ \cup {Step(r).work}]
  /\ advance(r)
  /\ UNCHANGED <<script, groupCount, world, pgs, counts, raised, used, counter, ids,
                 comms, joining, works, marks, watchdog, cleanup, down>>

\* The kernel has ended and the communicator has no error after that.
waitReturns(r) ==
  /\ Waits(r) /\ Blocking /\ Ended(r) /\ ~ Failed(r, TheWork(r).comm)
  /\ waited' = [waited EXCEPT ![r] = @ \cup {Step(r).work}]
  /\ advance(r)
  /\ UNCHANGED <<script, groupCount, world, pgs, counts, raised, used, counter, ids,
                 comms, joining, works, marks, watchdog, cleanup, down>>

\* checkAndThrowException.
waitThrows(r) ==
  /\ Waits(r) /\ Blocking /\ Failed(r, TheWork(r).comm)
  /\ raise(r)
  /\ UNCHANGED <<script, groupCount, world, pgs, counts, ncclVars>>

\* The work was not completed, and the timeout has passed.  WorkHCCL throws
\* and leaves the communicator alone; its barrier waits without timeout.
timedOut(r) ==
  /\ Waits(r) /\ Blocking /\ r \in script.impatient
  /\ ~ Ended(r) /\ ~ Failed(r, TheWork(r).comm)
  /\ IF HCCL THEN TheWork(r).op # "barrier" /\ raise(r)
     ELSE phase' = [phase EXCEPT ![r] = "late"] /\ UNCHANGED <<at, raised>>
  /\ UNCHANGED <<script, groupCount, world, pgs, counts, ncclVars>>

\* Then WorkNCCL aborts the communicator, although the kernel may have ended
\* since, ...
abortLate(r) ==
  /\ phase[r] = "late"
  /\ Abort(r, {TheWork(r).comm})
  /\ phase' = [phase EXCEPT ![r] = "recording"]
  /\ UNCHANGED <<script, at, groupCount, world, pgs, counts, raised, used, counter,
                 ids, joining, waited, marks, watchdog, cleanup, down>>

\* ... records that in the store, and throws.
recordLate(r) ==
  /\ phase[r] = "recording"
  /\ marks' = marks \cup {TheWork(r).comm}
  /\ raise(r)
  /\ UNCHANGED <<script, groupCount, world, pgs, counts, used, counter, ids, comms,
                 joining, works, waited, watchdog, cleanup, down>>

(***************************************************************************)
(* The watchdog and the cleanup thread of each group (NCCL only).          *)
(***************************************************************************)

Of(r, n) == {c \in DOMAIN comms[r] : comms[r][c].name = n}

\* The groups the current destroy_process_group destroys.
Doomed(r) == IF Step(r).group = world[r] THEN DOMAIN pgs[r] ELSE {Step(r).group}

\* terminateProcessGroup_ of group n.
Terminating(r, n) == phase[r] = "draining" /\ n \in Doomed(r)

\* The communicators abortTimedOutCollectives aborts: those of works still in
\* the list after their timeout, whether they have finished or not.
abortTimedOutCollectives(r) ==
  IF Async /\ r \in script.impatient
  THEN {c \in {works[r][i].comm : i \in metaList[r]} : ~ Failed(r, c)}
  ELSE {}

\* ncclCommWatchdogInternal: communicators with errors, and in asynchronous
\* mode those of late works, are aborted; the latter while the cleanup thread
\* is kept off the list.
scanComms(r, n) ==
  /\ r \notin down /\ (script.mode = "blocking" \/ Async) /\ ~ Terminating(r, n)
  /\ watchdog[r].found \cap Of(r, n) = {}
  /\ \E late \in {abortTimedOutCollectives(r) \cap Of(r, n)} :
     \E cs \in {late \cup {c \in Of(r, n) \ watchdog[r].known : Failed(r, c)}} :
       /\ cs # {}
       /\ Abort(r, cs)
       /\ checked' = IF late = {} THEN checked ELSE [checked EXCEPT ![r] = 0]
       /\ watchdog' = IF Blocking THEN [watchdog EXCEPT ![r].found = @ \cup cs]
                      ELSE [watchdog EXCEPT ![r].known = @ \cup cs]
  /\ UNCHANGED <<registryVars, used, counter, ids, joining, waited, marks,
                 metaList, down>>

\* Their ids are recorded locally and in the store.
recordAborted(r, n) ==
  /\ r \notin down
  /\ \E cs \in {watchdog[r].found \cap Of(r, n)} :
       /\ cs # {}
       /\ marks' = marks \cup cs
       /\ watchdog' = [watchdog EXCEPT ![r] =
            [found |-> @.found \ cs, known |-> @.known \cup cs]]
  /\ UNCHANGED <<registryVars, used, counter, ids, comms, joining, works, waited,
                 cleanup, down>>

neverLooks(r, n) == \* seeded fault: the marks of the others are not looked up
  FALSE /\ UNCHANGED vars

\* Communicators that others have aborted are found in the store.
abortRecorded(r, n) ==
  /\ r \notin down /\ script.mode = "blocking" /\ ~ Terminating(r, n)
  /\ watchdog[r].found \cap Of(r, n) = {}
  /\ \E cs \in {(Of(r, n) \cap marks) \ watchdog[r].known} :
       /\ cs # {}
       /\ Abort(r, cs)
       /\ watchdog' = [watchdog EXCEPT ![r].known = @ \cup cs]
  /\ UNCHANGED <<registryVars, used, counter, ids, joining, waited, marks,
                 cleanup, down>>

\* workCleanupLoop: isCompleted finds no error.  It goes on to another work
\* when the kernel of this one still runs.
checkWork(r, i) ==
  /\ r \notin down /\ i \in metaList[r] /\ ~ Failed(r, works[r][i].comm)
  /\ checked[r] # 0 =>
       works[r][checked[r]].state = "running" /\ works[r][i].state # "running"
  /\ checked' = [checked EXCEPT ![r] = i]
  /\ UNCHANGED <<registryVars, used, counter, ids, comms, joining, works, waited,
                 marks, watchdog, metaList, down>>

\* A work with an error takes the process down, unless the process group is
\* being destroyed.  One found without, whose kernel has ended by now, is
\* removed, also if its communicator has been aborted in between.
workCleanup(r, i) ==
  /\ r \notin down /\ i \in metaList[r]
  /\ \/ /\ Failed(r, works[r][i].comm)
        /\ ~ Terminating(r, comms[r][works[r][i].comm].name)
        /\ down' = down \cup {r} /\ UNCHANGED metaList
     \/ /\ \/ /\ Failed(r, works[r][i].comm)
              /\ Terminating(r, comms[r][works[r][i].comm].name)
           \/ checked[r] = i /\ works[r][i].state # "running"
        /\ metaList' = [metaList EXCEPT ![r] = @ \ {i}] /\ UNCHANGED down
  /\ checked' = [checked EXCEPT ![r] = 0]
  /\ UNCHANGED <<registryVars, used, counter, ids, comms, joining, works, waited,
                 marks, watchdog>>

(***************************************************************************)
(* destroy_process_group and the destructors.                              *)
(***************************************************************************)

\* The destructor: terminateProcessGroup_ is set, the watchdog ends, with what
\* it has begun to record, and the communicators are aborted.
destruct(r) ==
  /\ r \notin down /\ Does(r, "destroy") /\ phase[r] = "begin" /\ world[r] # -1
  /\ \A n \in Doomed(r) : watchdog[r].found \cap Of(r, n) = {}
  /\ IF HCCL THEN UNCHANGED <<comms, works>>
     ELSE Abort(r, UNION {Of(r, n) : n \in Doomed(r)})
  /\ phase' = [phase EXCEPT ![r] = "draining"]
  /\ UNCHANGED <<script, at, groupCount, world, pgs, counts, raised, used, counter,
                 ids, joining, waited, marks, watchdog, cleanup, down>>

\* The cleanup thread has emptied its list and is joined.
joinCleanup(r) ==
  /\ r \notin down /\ phase[r] = "draining"
  /\ \A i \in metaList[r] : comms[r][works[r][i].comm].name \notin Doomed(r)
  /\ comms' = [comms EXCEPT ![r] =
       Restrict(@, {c \in DOMAIN @ : @[c].name \notin Doomed(r)})]
  /\ used' = [used EXCEPT ![r] = [n \in Name |-> IF n \in Doomed(r) THEN {} ELSE @[n]]]
  /\ counter' = [counter EXCEPT ![r] = [n \in Name |-> IF n \in Doomed(r) THEN 0 ELSE @[n]]]
  /\ forget(r, Step(r).group)
  /\ advance(r)
  /\ UNCHANGED <<script, counts, raised, ids, joining, works, waited, marks,
                 watchdog, cleanup, down>>

UserStep(r) ==
  \/ r \notin down /\ RegistryStep(r) /\ UNCHANGED ncclVars
  \/ refuseCall(r) \/ getAborted(r) \/ broadcastUniqueNCCLID(r) \/ getTimesOut(r)
  \/ getNCCLComm(r) \/ collective(r)
  \/ waitStream(r) \/ waitReturns(r) \/ waitThrows(r)
  \/ timedOut(r) \/ abortLate(r) \/ recordLate(r)
  \/ destruct(r) \/ joinCleanup(r)

WatchdogStep(r) == \E n \in DOMAIN pgs[r] :
  scanComms(r, n) \/ recordAborted(r, n) \/ abortRecorded(r, n)

CleanupStep(r) == \E i \in metaList[r] : checkWork(r, i) \/ workCleanup(r, i)

DeviceStep(r) == \E i \in DOMAIN works[r] : finishKernel(r, i)

ErrorStep(r) == \E c \in DOMAIN comms[r] : breakComm(r, c)

Next == \E r \in Rank :
  \/ UserStep(r) \/ WatchdogStep(r) \/ CleanupStep(r) \/ DeviceStep(r) \/ ErrorStep(r)

Spec == Init /\ [][Next]_vars

\* Every thread and every device makes progress; errors need not happen.
Fairness == \A r \in Rank :
  /\ WF_vars(UserStep(r)) /\ WF_vars(WatchdogStep(r))
  /\ WF_vars(CleanupStep(r)) /\ WF_vars(DeviceStep(r))

FairSpec == Spec /\ Fairness

(***************************************************************************)
(* Properties.                                                             *)
(***************************************************************************)

\* The calls for which a rank has used communicator c: the first one when it
\* joined it, and those it has queued since.
CallsOn(r, c) ==
  {<<works[r][i].nth, works[r][i].op>> : i \in {j \in DOMAIN works[r] : works[r][j].comm = c}}
    \cup (IF joining[r] = c THEN {<<0, Step(r).op>>} ELSE {})

\* "A single process group may create multiple NCCL communicators, so we use a
\* sequence number to differentiate between them", and pairs are kept out of
\* that sequence: on every communicator the ranks meet in the same calls of
\* the program, one process per NCCL rank.
CommsAgree ==
  /\ \A c \in Range(ids) : \A r, s \in World :
       \A x \in CallsOn(r, c), y \in CallsOn(s, c) : x[1] = y[1] => x[2] = y[2]
  /\ \A r, s \in World : \A c \in DOMAIN comms[r] \cap DOMAIN comms[s] :
       r # s => comms[r][c].rank # comms[s][c].rank

\* When wait() returns without exception under NCCL_BLOCKING_WAIT, or for a
\* barrier while nothing aborts communicators, the operation has taken place
\* on this rank: an aborted kernel also ends, and must not pass for it.
WaitMeansDone ==
  \A r \in Rank : \A i \in waited[r] :
    ~ Async => works[r][i].state = "finished"

\* A rank that is through with its script, that its own cleanup thread took
\* down, or that the script makes hang.
Done(r) == at[r] > Last(r) \/ r \in down \/ Does(r, "stop")

\* "When we abort a communicator on one rank, it is likely that might cause
\* other ranks to hang indefinitely.  As a result, whenever we abort a
\* communicator, we write its ID to the store": after a hang of one rank that
\* another one's timeout discovers, or an error, every rank gets through
\* wait() and the destructor, or is taken down.
EveryoneEnds == \A r \in Rank : <>Done(r)
=============================================================================
