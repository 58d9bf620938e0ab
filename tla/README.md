# TLA+ models of torch.distributed

This directory holds specifications of the concurrent and distributed parts of
`torch.distributed`: the stores through which processes find each other, the
process groups that run collectives, the reducer of distributed data parallel
training, the RPC agents, the remote reference protocol and distributed
autograd. TLC checks them on small instances; for the RRef protocol, the stores
and the two RPC agents, TLAPS proves the central properties for every instance.

`PROJECT.json` is the index: every definition that models code with the source
lines it models (`map`), every run with what it checks, every hazard with the
properties that would catch it, one deliberate fault (`mutants`) per checked
property, and the theorems.

Paths below are relative to `src/csrc/c10d/distributed/` unless they begin with
`src/`.

## The system and its modules

```
   frontend (Registry)          RPC agents                   applications
        |                 ProcessGroupAgent, TensorPipeAgent
        v                            |
  process groups                     +--> RRef protocol (RRefContext)
  Gloo, MPI, RoundRobin              |
  (ProcessGroups,                    +--> distributed autograd (DistAutograd)
   Collectives, Arguments)
  NCCL, HCCL (ProcessGroupNCCL) <--- DDP reducer (Reducer)
        |
        v
  stores: Store  <= TCPStore, HashStore, FileStore;  PrefixStore in front
```

| Part | Module | What the state and the actions are |
| --- | --- | --- |
| `rpc/rref_context.cpp`, `rref_impl.cpp`, the RRef handlers of `request_callback_*.cpp`, `py_rref.cpp`, `python_functions.cpp`, `rpc_agent.cpp` | `RRefContext` | The maps of every worker's `RRefContext` restricted to one RRef (no operation touches two): `owners_`, `forks_`, `pendingUsers_`, `confirmedUsers_`, `pendingChildren_`, `pendingOwners_`. One action per way of creating, pickling, unpickling, reading and dropping the RRef, per message handler and per callback on a response. Each attempt of a retried message is a message of its own. |
| `c10d/Store.hpp` | `Store`, `StoreMap` | What a store promises: a call takes effect at one moment between entry and return, on one map. `StoreMap` has the values and the effect of `add`. |
| `c10d/TCPStore.cpp` | `TCPStore` | The daemon (`tcpStore_`, `waitingSockets_`, `keysAwaited_`, the sockets) with one action per handler, and clients whose calls are several messages. |
| `c10d/HashStore.cpp` | `HashStore` | The map, the threads inside a call and those asleep on `cv_`; a critical section is an action. |
| `c10d/FileStore.cpp` | `FileStore` | The file as a log of entries, `pos_` and `cache_` of each process; what is done under one file lock is an action. |
| `c10d/PrefixStore.cpp` | `PrefixStore` | Composes clients and their prefixes with HashStore or with FileStore. |
| `rpc/process_group_agent.cpp` | `ProcessGroupAgent` | Application, listener, time-out thread and pool of each worker; `futures_`, `futureTimeouts_`, the send and receive counts, and `join`'s rounds of comparing them. |
| `rpc/tensorpipe_agent.cpp` | `TensorPipeAgent` | Names and addresses in the store, pipes that deliver in order until they break, pending responses, `timeoutMap_`, `clientActiveCalls_`, and `join`'s barrier and allreduce. |
| `autograd/` and its handlers in `rpc/` | `DistAutograd` | One context over all workers: the forward pass that spreads it, the engine of each worker in the backward pass, outstanding calls, clean-up and release. |
| `c10d/reducer.cpp` | `Reducer` | On every rank: the buckets, pending counts, the used-parameter map, collectives posted, and the training loop that drives them. Bucket assignment is an operator. |
| `c10d/ProcessGroupGloo.cpp`, `ProcessGroupMPI.cpp`, `ProcessGroupRoundRobin.cpp`, `ProcessGroup.cpp` | `ProcessGroups` | Works from the call through the queue and the threads to `wait` and the destructor; Gloo's copies of CUDA tensors on streams; point-to-point messages. |
| the `run` functions of those works, and the collectives of NCCL and HCCL | `Collectives` | Pure operators: what each operation writes into its outputs given every rank's inputs, including flattening, splitting and copying back, with a reference definition (`Promised`). |
| the checks at the head of every collective | `Arguments` | Pure operators: which arguments an operation accepts, and which of the CUDA works copies what. |
| `src/distributed/distributed_c10d.py`, `src/lib/c10d/frontend.cpp` | `Registry` | `init_process_group`, `new_group`, `destroy_process_group`: names, `_group_count`, the store-based barrier. |
| `c10d/ProcessGroupNCCL.cpp`, `NCCLUtils.hpp`, `ProcessGroupHCCL.cpp` | `ProcessGroupNCCL` | Extends `Registry`: creation of communicators through the store, works, `wait`, the watchdog, aborts recorded in the store, the clean-up thread and the destructor. |

The gloo, MPI, NCCL and HCCL libraries, the pipes of TensorPipe and the local
autograd engine are not part of this source; they are modelled from how the code
uses them and are marked external in the map.

Every module `MC...` instantiates the module of its name: plans, scripts and
scenarios are sets of records there. A definition whose comment says *seeded
fault* is not part of a specification; it is the faulty variant of the
definition after it, with which the corresponding property fails.

## Runs

Every run finishes within five minutes with two workers. Deadlock is not checked
(`CHECK_DEADLOCK FALSE`) because in all of these systems the programs end: the
applications stop calling, the groups are closed. That nothing stops too early
is what the liveness properties say.

| Run | States | Instance and bounds | Checked |
| --- | --- | --- | --- |
| `RRef` | 1,131,942 | owner and one user, 2 forks; either one retry, attempts late or given up, `remote()` failing or timing out, TorchScript functions, or a reliable network, forked handles passed on early, Python functions | `OwnerOutlivesUsers`, `ParentOutlivesChild`, `OneOwnerRRef`, `FetchNotStranded`; `ReleasedIfReliable`, `ToHereReturnsIfReliable` |
| `TCPStoreCalls` | 64,973 | 2 clients, 2 keys, all calls but `deleteKey`, waits on one key | `ImplementsStore`, `CallsReturn` |
| `TCPStoreFaults` | 1,270,263 | waits on both keys, time-outs, exits, socket numbers reused, `deleteKey`, a `size_t` of 16 numbers; clients and keys symmetric | `ClosedIsForgotten`, `CountCovered` |
| `PrefixStore` | 47,895 | 2 clients with prefixes `1` and `11` or `2` and `2/1`, all calls, time-outs, either store | `SleepersLackKey`, `FileRemovedLast`, `PrefixesApart`; `ImplementsStore`, `FileImplementsStore`, `CallsReturn` |
| `ProcessGroupAgent` | 447,368 | 2 workers, one call that may cause another, ends 1 and 2 (infinite), requests that cannot be serialized | `NeverOversleeps`, `CountsBalance`, `ActiveCallsBalance`; `JoinReturns` |
| `ProcessGroupAgentJoin` | violated | 2 workers, one call whose handler calls back, twice over, no time-outs | `JoinedMeansDone` |
| `TensorPipeAgent` | 166,412 | 2 workers, 2 names, chains of up to two further calls by handler or callback, a breaking pipe, a missing device map for a call without successors | `CountMatches`, `JoinedMeansDone`; `JoinReturns` |
| `DistAutograd` | 149,688 | 3 workers, all plans of two calls (nested, parallel, twice to one worker), one failing call | `BackwardComplete`, `FailsOnlyByRpc`; `BackwardReturns`, `ContextsReleased` |
| `DistAutogradRace` | violated | 3 workers, two calls to one worker, one of which calls on | `BackwardComplete` |
| `Reducer` | 161,101 | 2 ranks, 3 parameters, 2 iterations, 7 scenarios, hooks in any order | `SameCollectives`, `GradientsAveraged`, `RaisesOnlyOnMisuse`; `TrainingFinishes` |
| `ProcessGroups` | 357,000 | 24 scripts for 2 or 3 ranks, 1 or 2 threads for Gloo, 2 groups for round robin, chosen calls that may fail; inputs for the pure operators | `PairedWithSameCall`, `ResultsRight`, `CopiesInOrder`, `BarrierComesLast`; `GroupsClose` |
| `ProcessGroupNCCL` | 56,982 | 15 scripts for 2 or 3 ranks in five modes, hung ranks, errors, late stores | `SetUpTogether`, `CommsAgree`, `WaitMeansDone`; `EveryoneEnds` |

### What the runs show

**RRef.** The owner keeps the OwnerRRef while any confirmed UserRRef lives, no
parent is deleted before its child is confirmed, and no late message creates a
second OwnerRRef, through all orders of messages, retries and late attempts.
Without losses the counts return to zero and everything is released.

**Stores.** TCPStore, HashStore and FileStore implement one abstract store. The
refinement of TCPStore maps a `set` that the daemon has not processed to a call
not applied yet, and a `get` to the moment the daemon serves its GET. No wake-up
is lost: a call whose keys are there returns. The waiting tables of the daemon survive
time-outs, exits and reuse of socket numbers: stale entries may take a count
below zero, and a `size_t` wraps round there, but no client ever waits on such a
count. Behind a PrefixStore the clients of two prefixes meet only if one prefix
goes on, after a `/`, where the other ends.

**Agents.** In both agents every call is taken off the active calls once,
whatever races to end it, and `join()` returns, whatever times out.
ProcessGroupAgent's counts of sent and received messages differ by exactly what
is on the way, late or owed, and its time-out thread never oversleeps. Yet equal
counts do not mean that all is done: with two nested calls `join()` can return
too early (see the findings). TensorPipeAgent's `join()` returns only when no
call is active anywhere, calls made by handlers and callbacks included; a
handler's call may be left when its own caller got an error and stopped waiting.
Its `send` enters a future before it counts the call, and a read error in between
is the exception to both (see the observations).

**Autograd.** With a plan of two calls backward() is complete, returns, fails
only when a call failed, and the context disappears everywhere. With three calls
the race below appears.

**Reducer.** Whatever the order of hooks, the k-th collective of all ranks is the
same operation on the same shapes; after a reducing iteration all ranks hold the
mean of what was accumulated.

**Process groups.** Whatever thread runs which work, each collective is paired
with the same call of the others, a barrier completes after all earlier work of
every rank, and every group closes. This includes works that fail on some ranks
only: a barrier fails on a rank where a work it waits for has failed, and enters
Gloo on the others. The data movement of every
collective is compared with the reference `Promised` on tensors whose elements
name their origin, for uneven splits, several devices per rank, empty tensors
and sparse tensors. In NCCL groups communicators are joined by the ranks for the
same call, aborts spread through the store, and `wait` does not take the end of
an aborted kernel for success.

### The bounds and why they are enough

Two actors and two items (forks, keys, calls, works) are the least with which
messages overtake each other, one client waits for what the other sets, or a
child outlives its parent. One retry makes an attempt late; a second adds one
more copy of the same message. Three workers are needed only where a worker is
known to another and not to the first (autograd), where a third rank stands
outside a pair or subgroup (NCCL), or where the source of a message is chosen
(`recvAnysource`). Three parameters of two types or one sparse give buckets of
one and two parameters and one order of rebuilding that differs from the first.
The scripts of the process groups keep two or three collectives in flight with
two threads, so that a work can be overtaken both in the queue and in a thread.
Those in which works fail name the calls that may; all subsets of the ranks are
tried, before and after the other ranks are through with the call. A `size_t` of
16 numbers is large enough for a count that wraps round not to look like one of
two keys.
Counters are bounded by the constants `MaxRetries`, `MaxCount`, `MaxLog`,
`MaxAhead`, `MaxStale`, `MaxWaiting`, `MaxWrap`, `MaxCalls`, `MaxHops`, `MaxFails` and
`MaxGroups`. For the properties with a theorem the proofs remove the bounds.

### Fairness

Fairness is weak and only of steps that a running thread or the library takes:
the RPC threads and the network of a worker (`RRefContext`), the daemon and the
client's reads (`TCPStore`), a thread that is not asleep and the file lock
(`HashStore`, `FileStore`), the listener, pool, time-out thread and `join`
(`ProcessGroupAgent`), event loop, pool, main and time-out thread
(`TensorPipeAgent`), message handling, engine threads and the final release
(`DistAutograd`), a rank's training loop (`Reducer`), and user, watchdog,
clean-up thread and device (`ProcessGroupNCCL`). In `ProcessGroups` it is enough
that something happens while something can: every script is finite, and a
behaviour that ends has given each thread its turn. In the scripts where works
fail this means that a library call whose counterpart never comes throws in the
end, as Gloo does at its time-out; MPI is assumed to report it. No fairness is asked of faults, nor of applications
making calls; applications are assumed to join, or to leave the context, in the
end, because the properties are about what happens when they do. Time-outs of
store calls need not happen. Those of RPC calls do, since a thread of the agent
watches them, and so do those of NCCL works and of store calls on the ranks a
script names.

## Proofs

Eight modules hold theorems; TLAPS checks them completely.

| Theorem | Statement |
| --- | --- |
| `RRefForkProofs!TypeCorrect` | `Spec => []TypeOK`, the type invariant with the bound on retries |
| `RRefForkProofs!ChildKeepsParent` | `Spec => []ParentOutlivesChild` |
| `RRefOwnerProofs!OwnerKept` | if `"creator" \notin EarlyShare`, `Spec => []OwnerOutlivesUsers` |
| `RRefOwnerProofs!OneOwner` | under the same condition, `Spec => []OneOwnerRRef` |
| `RRefOwnerProofs!FetchServed` | under the same condition, `Spec => []FetchNotStranded` |
| `TCPStoreProofs!ClosedForgotten` | `Spec => []ClosedIsForgotten` |
| `TCPStoreProofs!CountIsCovered` | `Spec => []CountCovered` |
| `PrefixStoreProofs!NoLostWakeup` | if no value of `set` is a number, `Spec => []SleepersLackKey` (HashStore) |
| `PrefixStoreProofs!Refinement` | `Spec => ImplementsStore` (HashStore) |
| `FileStoreProofs!FileRefinement` | `FileSpec => ImplementsStore` (FileStore) |
| `FileStoreProofs!GoesLast` | `FileSpec => []RemovedLast` (FileStore) |
| `PrefixStoreProofs!HashBehindRefines` | `PSpec => ImplementsStore` |
| `PrefixStoreProofs!FileBehindRefines` | `PSpec => FileImplementsStore` |
| `PrefixStoreProofs!FileGoesLast` | `PSpec => []FileRemovedLast` |
| `PrefixStoreProofs!PrefixesKeptApart` | `PSpec => PrefixesApart`, an action property |
| `ProcessGroupAgentProofs!Vigilance` | `Spec => []NeverOversleeps` |
| `ProcessGroupAgentProofs!CallsCountedOnce` | `Spec => []ActiveCallsBalance` |
| `ProcessGroupAgentBalance!CountsKeepBalance` | if `BadEnds \subseteq {Infinite}`, `Spec => []CountsBalance` |
| `TensorPipeAgentProofs!CallsCounted` | `Spec => []CountMatches` |

They hold for any sets of workers, forks, threads, keys and values and any
number of retries, calls and hops, under the named assumptions on constants in
the modules that declare them: fork ids are not the RRef id, the owner is a
worker, times are positive numbers and none is later than `Infinite`, text is
not a number, a client waits for finitely many keys and fewer than a `size_t`
holds, prefixes and names are sequences of characters, and the like. FileStore
needs finitely many processes (they count themselves out) and a cleanup key that
is nobody's key (`FileAssumption`; the code gives the two different first
characters). A chain of calls in TensorPipeAgent is a sequence of `"handler"`
and `"callback"` (`ChainsAssumption`).

Three hypotheses are not assumptions of a module but conditions of a theorem,
because without them the property is false:

- `"creator" \notin EarlyShare`: see the observations below.
- No number is set, in `NoLostWakeup`: a sleeper is excused for a key that holds
  what no `set` was given, since `add`, which does not notify, has written it. If
  `set` were given numbers too, the value would not tell who wrote it.
- `BadEnds \subseteq {Infinite}`: a call that cannot be serialized has no
  time-out. Otherwise `pollTimedOutRPCs` may expire it before `handleSend` finds
  out, and counts the response to a request that was never sent.

*RRef.* `ParentOutlivesChild` is not inductive: it needs to be known where a fork
can be. `StructInv` says so: everything that mentions a fork id mentions one that
was handed out (`OnlyUsed`); a UserRRef is pending or confirmed while it exists
and in neither map once deleted (`UserMaps`); before the call that carries a fork
is received nothing else of the fork exists (`BeforeReceipt`); and a child that
is not accepted yet is in `pendingChildren`, with its parent alive
(`KeptByChild`). `OwnerOutlivesUsers` needs in addition that parents are older
than their children (`Acyclic`), how the creator's fork stands to the reply of
`remote()` (`CreatorInv`), that the owner counts every confirmed fork, every fork
it has sent out and every fork whose acknowledgement is on the way (`CountInv`),
and when the OwnerRRef must be there (`OwnerInv`). The crucial lemma is
`LastFork`: when the owner removes the last fork of a UserRRef that is gone, no
UserRRef needs the OwnerRRef any more, since a pending one would have a living
parent, and the oldest such parent is confirmed and hence still counted. The
other two theorems follow from the same invariant. Without the assumption on
`EarlyShare` the property is false (see below).

*TCPStore.* The invariant (`IInv`) is `WireInv` (the queries on the way have
their shape), `QueuedInv` (the WAIT of a client in a wait is the last of its
queries), `RepliesInv`, `TablesInv` and `CountCovered`. `TablesInv` says that a
closed socket is in neither table, and that counts are of type `size_t`. Waking a
key takes one from the count of each entry it erases (`CountDownFact`,
`WakeEntries`), modulo `SizeT`; so a count that is at least one and covered by
entries either reaches zero on the way, and the client is answered and waits no
more, or stays covered without wrapping round (`WakeCovered`). A wait that finds
its keys missing sets the count to the number of entries it adds, whatever was
there (`WaitTables`). What erasing from a list leaves is computed by a ranking of
the kept places, so that no induction over sequences is needed.

*HashStore.* `SleepersLackKey` is proved with `CallInv` (only threads in `get` or
`wait` sleep, and what a call looks like) and `MapInv` (the map holds what `set`
was given or what `add` computed): every step that binds a key by `set` wakes
all, and `add` binds a number. The refinement is proved from `RInv`, that is
`CallInv` and `ResultInv` (a call in progress has no result yet): each critical
section is one step of the abstract store or a stutter.

*FileStore.* The abstract map is what the log says, `Of(log)`: the last entry of
every key. `LogInv` says that the cache of a process, updated by the part of the
log after `pos_`, is that map, whatever the others append meanwhile; so who has
read the file under the lock answers from the right map, and appending an entry
is the abstract step. `CleanupInv` ties the counter under the cleanup key to the
set of processes that have added to it: it is the number of these processes, so
the one that reads the number of all processes is the last.

*PrefixStore.* Every step is a step of the store behind it on keys joined to the
client's own prefix, so the theorems about that store carry over; the invariants
`PrefixInv` and `FilePrefixInv` say that a call names such keys only, and a step
changes the key of its call only. That these are not keys of another client is a
fact about strings: if two joined keys are equal, the shorter prefix with its
separator begins the longer one (`CommonKey`), and this is what nested means.

*ProcessGroupAgent.* A call has one open message at a time: the request on its
way, the request whose handler has put it off, or the response. `Slots` holds
these messages with their places, and `SlotInv` says that there is one per id at
most, that it belongs to a call made before, and that a message about to be
counted (`Counting`) has its own. With the types, finiteness, `SleepInv` (what
the watchdog knew when it went to sleep), `CallInv` (ids of open and expired calls
are distinct) and `HeldInv` (an open call has an open message) this is `IInv`,
from which `Vigilance` and `CallsCountedOnce` follow. `CountsBalance` relates
cardinalities of three sets of messages and calls to two counters, so its proof
(`ProcessGroupAgentBalance`) first shows for each kind of change, a message sent,
received, answered, a call expired, failed, or answered late, how these sets
change, and then assigns every action to one of them. `BadInv` is where
`BadEnds` is used.

*TensorPipeAgent.* `CountMatches` needs that a call is completed once. `KnownInv`
says that ids are unique over all places where a message can be and that a call
that nobody has marked complete is pending; `TasksOK`, that a call marked
complete has at most one task that completes it or takes it off the count;
`PlaceInv`, that a worker's maps and pipes hold its own calls; `SendingInv`, that
a call being sent has not thrown and that who sends it does nothing else
meanwhile. Whoever finds the call unmarked, be it a response, a time-out or an
error, marks it and makes that task, so the set of active calls is the same
before and after (`CountInv`). The calls entered and not counted are the
difference, those where `send` has thrown for good.

Only model-checked:

- liveness properties (all under fairness), and the findings;
- `JoinedMeansDone` of TensorPipeAgent: its `join` adds up the counts of the
  workers, and that a sum of natural numbers is zero only if each of them is
  would be an induction over the workers;
- the refinement of TCPStore, whose mapping selects from a queue of messages:
  `SelectSeq` is defined by recursion, and what it does to a queue that grows or
  shrinks would be an induction over its length;
- everything about autograd, the reducer and the process groups: what they
  compute is given by folds and recursive functions or by scripts of the MC
  modules;
- the pure operators of `Collectives` and `Arguments`.

## Findings

`DistAutogradRace` (`autograd/engine/dist_engine.cpp:379`). A worker that gets
its first gradient of a pass inserts the context id, unlocks and then calls
`clearOutstandingRpcs()`. A second gradient handled in between may have sent a
gradient on to a third worker and recorded the call; the clear forgets it. The
worker acknowledges, and `backward()` returns although the third worker has not
accumulated its gradient. The comments at lines 488, 512 and 568 say that all
outstanding RPCs are waited for.

`ProcessGroupAgentJoin` (`rpc/process_group_agent.cpp:178`). `sync()` waits for
its thread pool and then `hasPendingMessage()` compares the counts. A request
that arrives in between is counted as received once its handler returns, while
the response, and a call the handler made, wait in the pool and are not counted
as sent. All counts agree although two messages are about to be sent. Each worker
looks at its `futures_` once, before that (line 168), so with a call back and one
more call back both workers leave the last barrier with a call open.
`process_group_agent.h:218` says that join will "only exit when all sent messages
are processed". `CountsBalance` says what the counts do mean.

## Observations

The properties above are stated with the conditions under which the code keeps
them. Where a condition leaves something out, this is why.

- *RRef, creator shares early* (`EarlyShare`). The creator's fork enters `forks_`
  only after the function ran (`request_callback_no_python.cpp:207`). If the
  creator passes its unconfirmed UserRRef on, and that child is registered and
  deleted first, the OwnerRRef is dropped while the creator is later confirmed.
- *RRef, late fork request.* An attempt of RREF_FORK_REQUEST delivered after the
  fork was added and deleted inserts it again (`rref_context.cpp:727`), and
  nothing removes it; `ReleasedIfReliable` is about runs without retries.
- *TCPStore, wait on several keys.* `waitHandler` (`TCPStore.cpp:224`) counts the
  keys that are already there, so the client is not woken by the last missing
  one; `CallsReturn` is checked with waits on one key.
- *TCPStore, after a time-out* the WAIT stays registered, and its late answer is
  read as the answer of the next wait (`TCPStore.cpp:533`); `ImplementsStore` is
  checked without time-outs. A second WAIT for the same key adds a second entry:
  one `set` then takes two from a count of one, which wraps round. It has been
  answered by then, and the next wait sets the count anew.
- *PrefixStore.* Keys are strings: `1/k` under the prefix `2` is `k` under `2/1`
  (`PrefixStore.cpp:11`). Groups named by `_group_count` have no such names.
- *TCPStore, dead waiter.* When waking a client that has exited fails, the daemon
  closes the connection of the client whose `set` it serves (`TCPStore.cpp:147`);
  `ImplementsStore` and `CallsReturn` are checked without exits.
- *TCPStore, get and deleteKey.* A key deleted between the WAIT and the GET of a
  `get` makes the daemon close the connection (`TCPStore.cpp:445`).
- *HashStore::add* does not notify (`HashStore.cpp:78`): who sleeps on the key
  sleeps on. `SleepersLackKey` and `CallsReturn` except keys written by `add`.
- *TensorPipeAgent::shutdown* notifies the time-out thread without its mutex
  (`tensorpipe_agent.cpp:1149`); the thread can miss it between its check and its
  wait. `JoinReturns` is about `join()`.
- *TensorPipeAgent::send* enters the future (`tensorpipe_agent.cpp:877`), then
  finds the devices, which may throw (line 886), and only then counts the call
  (line 899). A read error of an earlier call on that pipe completes whatever is
  entered. If it comes in between, the count may go down before it goes up, and
  `join()` of another worker can see zero with a call active; `JoinedMeansDone`
  excepts behaviours in which this happened (`early`). If `send` has thrown, the
  count goes down and never up, and `join()` waits for zero in vain;
  `JoinReturns` excepts that. While no read fails, a call where `send` has thrown
  stays entered and harms nobody.
- *Autograd.* A call still in flight when the context is released makes it again,
  and a gradient that arrives after an error starts a new pass on its worker.
- *Gloo, tags.* `allreduce` and `alltoall_base` take a tag before they refuse a
  device or layout (`ProcessGroupGloo.cpp:1334`, `2465`), and `gather` and
  `scatter` check their lists on the root only, before it takes the tag. Such a
  call, refused on one rank and not on the others, leaves the tags out of step;
  the scripts refuse it on all ranks.
- *Gloo, failed works.* A thread's slot keeps its work until the thread has the
  mutex again (`ProcessGroupGloo.cpp:657`). A barrier called in that window waits
  for the work, and rethrows its exception; called a moment later it does not.
  `BarrierComesLast` therefore asks that earlier collectives are over, and done
  if the barrier found them. The barrier holds weak pointers; the scripts' users
  keep their works.
- *Round robin.* `next()` advances also when the call then throws.
- *MPI.* `AsyncWork::wait` holds the global mutex in `MPI_Wait`
  (`ProcessGroupMPI.cpp:150`). Let a rank wait for a message after it called a
  collective, and its peer post that message after it called the same
  collective. If the first rank waits before its thread has entered MPI, and the
  peer's thread has entered, then the first collective needs the mutex of the
  `wait`, which needs the message, which the peer cannot post under the mutex of
  the second collective. The scripts post the message before the collective or
  wait for the collective first; two of them have the mutex contended.
- *NCCL.* An abort by the destructor is not recorded in the store, creation of a
  communicator has no time-out, and `wait(timeout)` compares with `opTimeout_`.
  The scripts have each error met by a watchdog that is still running, and hung
  ranks hang after the communicator exists, or before the store has its id.
  The clean-up thread looks for an error of a work first and whether its kernel
  has ended next (`ProcessGroupNCCL.cpp:229`): a work whose communicator the
  watchdog aborts in between is removed as if it had succeeded, and its error
  does not take the process down (`checkWork`, `workCleanup`).
- *HCCL.* The multi-device barrier always throws.
- *Frontend.* A second `init_process_group` over the same store finds the barrier
  keys of the first; the scripts use a new store. In the C++ frontend
  `rankNotInGroup` is true for every group but the default, unlike the Python
  `_rank_not_in_group`.

## Not modelled

- Graceful shutdown of RRefContext (`delAllUsersAndUnforkedOwners`,
  `destroyInstance`, `checkRRefLeaks`): it waits with a time-out and then logs
  or raises whatever is left.
- The retry thread of RpcAgent beyond the attempts it makes; `collectNames` of
  ProcessGroupAgent; a throwing `pg_->send`.
- The end of the TCPStore server process, partial writes of a query, failing
  system calls of FileStore, reuse of a FileStore's path.
- Arithmetic of gradients and of reductions: gradients are counts of paths or
  shares per rank, reductions are sums; other reduce operations follow the same
  control. Streams and events of NCCL and HCCL. Sending to oneself in NCCL.
- Communication hooks, several replicas, join mode and logging of the reducer.
- Rendezvous and the Python wrappers of the collectives; the C++ frontend beyond
  `newProcessGroupHelper` (its other operations that change state are declared and
  not defined).
- Message formats (`rpc_messages/`, `rpc/utils.cpp`, the pickled calls), Python
  bindings, profiling and metrics: no protocol state. FaultyProcessGroupAgent:
  a test double whose faults the models have themselves.

## Running

```
tlc -workers 2 -config RRef.cfg MCRRef              # and so on, see PROJECT.json
tlapm RRefOwnerProofs.tla
```
