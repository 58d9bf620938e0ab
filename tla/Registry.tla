------------------------------ MODULE Registry ------------------------------
(***************************************************************************)
(* The process groups of torch.distributed (distributed_c10d.py):          *)
(* init_process_group, new_group and destroy_process_group on every rank,  *)
(* with the barrier over the store that ends the first two.                *)
(*                                                                         *)
(* A rank is a process that follows a script.  A group is known by its     *)
(* name, the number _group_count had or one the user gave, and works on    *)
(* the store under that name as prefix.  ProcessGroupNCCL extends this     *)
(* module with what the groups do.                                         *)
(***************************************************************************)
EXTENDS Integers, Sequences, FiniteSets, Functions, FiniteSetsExt

CONSTANTS N,         \* the number of ranks
          Scripts,   \* records [mode, steps, impatient, storeLate, errs]
          Stores,    \* the stores rendezvous hands out
          MaxGroups  \* bound on _group_count in the scripts

ASSUME RegistryAssumption == N \in Nat \ {0} /\ MaxGroups \in Nat

VARIABLES
  script,     \* the script the ranks follow
  at,         \* rank -> the number of its current step
  phase,      \* rank -> how far the step has come
  groupCount, \* rank -> _group_count
  world,      \* rank -> name of the default group, or -1
  pgs,        \* rank -> name -> [store, ranks], its _pg_map
  counts,     \* store -> number in the key of a barrier -> its value
  raised      \* ranks whose script met an exception

registryVars == <<script, at, phase, groupCount, world, pgs, counts, raised>>

Rank == 0 .. N - 1

\* The ranks of this run; the others have no steps.
World == {r \in Rank : script.steps[r] # <<>>}

Step(r) == script.steps[r][at[r]]

Last(r) == Len(script.steps[r])

Does(r, what) == at[r] <= Last(r) /\ Step(r).do = what

RegistryInit ==
  /\ script \in Scripts
  /\ at = [r \in Rank |-> 1]
  /\ phase = [r \in Rank |-> "begin"]
  /\ groupCount = [r \in Rank |-> 0]
  /\ world = [r \in Rank |-> -1]
  /\ pgs = [r \in Rank |-> <<>>]
  /\ counts = [s \in Stores |-> [k \in 0 .. MaxGroups |-> 0]]
  /\ raised = {}

advance(r) ==
  /\ at' = [at EXCEPT ![r] = @ + 1]
  /\ phase' = [phase EXCEPT ![r] = "begin"]

\* An exception leaves the script: the program goes on to its last step, in
\* which it destroys the process group.
raise(r) ==
  /\ at' = [at EXCEPT ![r] = Last(r)]
  /\ phase' = [phase EXCEPT ![r] = "begin"]
  /\ raised' = raised \cup {r}

\* _new_process_group_helper and its C++ twin DistributedC10d::
\* newProcessGroupHelper: the name is the count unless one is given; only
\* members of the group register it, under the name as prefix of the store.
newProcessGroupHelper(r, given, ranks, store) ==
  \E name \in {IF given # -1 THEN given ELSE groupCount[r]} :
    /\ name \notin DOMAIN pgs[r]
    /\ groupCount' = IF given # -1 THEN groupCount
                     ELSE [groupCount EXCEPT ![r] = @ + 1]
    /\ pgs' = IF r \in ranks
              THEN [pgs EXCEPT ![r] =
                      [n \in DOMAIN @ \cup {name} |->
                         IF n = name THEN [store |-> store, ranks |-> ranks] ELSE @[n]]]
              ELSE pgs

\* A process group of the same name exists: RuntimeError.
nameTaken(r, given) ==
  (IF given # -1 THEN given ELSE groupCount[r]) \in DOMAIN pgs[r]

\* new_group's checks of its ranks against the default group's size.
ranksRefused(r, ranks) ==
  \/ Cardinality(ranks) > Cardinality(pgs[r][world[r]].ranks)
  \/ ~ (ranks \subseteq 0 .. Cardinality(pgs[r][world[r]].ranks) - 1)

\* init_process_group up to the barrier, with its first add to the store.
initProcessGroup(r) ==
  /\ Does(r, "init") /\ phase[r] = "begin" /\ world[r] = -1
  /\ newProcessGroupHelper(r, Step(r).name, World, Step(r).store)
  /\ world' = [world EXCEPT ![r] = IF Step(r).name # -1 THEN Step(r).name
                                   ELSE groupCount[r]]
  /\ counts' = [counts EXCEPT ![Step(r).store][groupCount'[r]] = @ + 1]
  /\ phase' = [phase EXCEPT ![r] = "barrier"]
  /\ UNCHANGED <<script, at, raised>>

\* new_group up to the barrier: every rank calls it, members or not.
newGroup(r) ==
  /\ Does(r, "new_group") /\ phase[r] = "begin" /\ world[r] # -1
  /\ ~ ranksRefused(r, Step(r).ranks)
  /\ \E store \in {pgs[r][world[r]].store} :
       /\ newProcessGroupHelper(r, -1, Step(r).ranks, store)
       /\ counts' = [counts EXCEPT ![store][groupCount'[r]] = @ + 1]
  /\ phase' = [phase EXCEPT ![r] = "barrier"]
  /\ UNCHANGED <<script, at, world, raised>>

\* The calls that raise at once: a second init, a new_group without default
\* group or with ranks outside of it, a name that is taken.  Only the last is
\* found when a new_group has already been counted.
refuse(r) ==
  /\ phase[r] = "begin"
  /\ \/ /\ Does(r, "init") /\ (world[r] # -1 \/ nameTaken(r, Step(r).name))
        /\ UNCHANGED groupCount
     \/ Does(r, "new_group") /\ world[r] = -1 /\ UNCHANGED groupCount
     \/ /\ Does(r, "new_group") /\ world[r] # -1
        /\ ranksRefused(r, Step(r).ranks) /\ UNCHANGED groupCount
     \/ /\ Does(r, "new_group") /\ world[r] # -1
        /\ ~ ranksRefused(r, Step(r).ranks) /\ nameTaken(r, -1)
        /\ groupCount' = [groupCount EXCEPT ![r] = @ + 1]
  /\ raise(r)
  /\ UNCHANGED <<script, world, pgs, counts>>

BarrierCount(r) == counts[pgs[r][world[r]].store][groupCount[r]]

notWaited(r) == \* seeded fault: the count is not awaited
  /\ phase[r] = "barrier"
  /\ advance(r)
  /\ UNCHANGED <<script, groupCount, world, pgs, counts, raised>>

\* _store_based_barrier: polled until the count is the world size.
storeBasedBarrier(r) ==
  /\ phase[r] = "barrier"
  /\ BarrierCount(r) = Cardinality(World)
  /\ advance(r)
  /\ UNCHANGED <<script, groupCount, world, pgs, counts, raised>>

\* Its timeout, for the ranks whose patience with the store can end.
barrierTimeout(r) ==
  /\ phase[r] = "barrier" /\ r \in script.storeLate
  /\ BarrierCount(r) # Cardinality(World)
  /\ raise(r)
  /\ UNCHANGED <<script, groupCount, world, pgs, counts>>

\* destroy_process_group of the default group forgets all groups and starts
\* the names again; of another group, that group.
forget(r, name) ==
  IF name = world[r]
  THEN /\ pgs' = [pgs EXCEPT ![r] = <<>>]
       /\ world' = [world EXCEPT ![r] = -1]
       /\ groupCount' = [groupCount EXCEPT ![r] = 0]
  ELSE /\ pgs' = [pgs EXCEPT ![r] = Restrict(@, DOMAIN @ \ {name})]
       /\ UNCHANGED <<world, groupCount>>

\* Without a default group destroy_process_group raises, and the script ends.
destroyNothing(r) ==
  /\ Does(r, "destroy") /\ phase[r] = "begin" /\ world[r] = -1
  /\ advance(r)
  /\ UNCHANGED <<script, groupCount, world, pgs, counts, raised>>

RegistryStep(r) ==
  \/ initProcessGroup(r) \/ newGroup(r) \/ refuse(r)
  \/ storeBasedBarrier(r) \/ barrierTimeout(r) \/ destroyNothing(r)

\* How many set-up calls of its script a rank has returned from, and begun.
SetUps(r, upto) ==
  Cardinality({i \in 1 .. upto : script.steps[r][i].do \in {"init", "new_group"}})

Returned(r) == SetUps(r, at[r] - 1)

Begun(r) == Returned(r) + IF phase[r] = "barrier" THEN 1 ELSE 0

\* "barrier at the end to ensure that once we return from this method, all
\* process groups including global variables are updated correctly on all
\* ranks": nobody returns from init_process_group or new_group before every
\* rank has registered that group.
SetUpTogether ==
  \A r, s \in World \ raised : Returned(r) <= Begun(s)
=============================================================================
