------------------------------ MODULE Reducer ------------------------------
(* The gradient reducer of distributed data parallel training              *)
(* (c10d/reducer.cpp). Every rank runs its own backward pass; the autograd *)
(* engine calls autograd_hook once per used parameter, in an order that    *)
(* differs between ranks and iterations. The reducer copies gradients into *)
(* buckets and all-reduces a bucket when its last gradient arrived, but    *)
(* strictly in bucket order, because a process group matches the k-th      *)
(* collective of one rank with the k-th of every other.                    *)
(*                                                                         *)
(* Gradients are integers in units of 1/N, so that the division by the     *)
(* world size on the way into the bucket is exact.                         *)
EXTENDS Integers, FiniteSets, SequencesExt

CONSTANTS N,         \* world size; the ranks are 0..N-1
          P,         \* number of model parameters
          Limits,    \* bucket_size_limits: the first bucket's, then the cap
          Scenarios, \* [layout, opt, plan]: what is trained, and how
          Uses,      \* parameter sets a backward pass may use
          None       \* an undefined gradient

Rank == 0 .. N - 1
Param == 1 .. P
Layouts == {s.layout : s \in Scenarios}

ASSUME ReducerAssumption ==
    /\ N \in Nat \ {0} /\ P \in Nat \ {0}
    /\ Uses \subseteq (SUBSET Param) \ {{}} /\ Param \in Uses
    /\ None \notin Nat

\* ---- bucket assignment ----

\* Looks at one tensor of layout l: a sparse one gets a bucket of its own, a
\* dense one joins the open bucket of its type, which is closed when it reaches
\* the type's current limit; the type then moves on to the next limit.
Place(l, acc, p) ==
    LET k == l.key[p]
        idx == Append(acc.open[k], p)
        size == FoldSeq(LAMBDA q, s : l.size[q] + s, 0, idx)
    IN  CASE p \in l.sparse -> [acc EXCEPT !.out = Append(@, <<p>>)]
          [] p \notin l.sparse /\ size >= Limits[acc.limit[k]] ->
                [out |-> Append(acc.out, idx),
                 open |-> [acc.open EXCEPT ![k] = <<>>],
                 limit |-> [acc.limit EXCEPT
                              ![k] = IF @ < Len(Limits) THEN @ + 1 ELSE @]]
          [] OTHER -> [acc EXCEPT !.open[k] = idx]

\* The assignments the code may return for tensors in the given order: the
\* buckets still open at the end come out of an unordered_map in any order.
compute_bucket_assignment_by_size(l, order) ==
    LET keys == {l.key[p] : p \in Param}
        acc == FoldLeft(LAMBDA a, p : Place(l, a, p),
                        [out |-> <<>>, open |-> [k \in keys |-> <<>>],
                         limit |-> [k \in keys |-> 1]], order)
        left == {acc.open[k] : k \in keys} \ {<<>>}
    IN  {acc.out \o rest : rest \in SetToSeqs(left)}

\* Its values for every order in which gradients may arrive.
Assignments ==
    [l \in Layouts |-> [order \in SetToSeqs(Param) |->
                            compute_bucket_assignment_by_size(l, order)]]

\* The assignment DDP constructs the reducer with: no tensor indices are
\* given, so the buckets are sorted by their least index; DDP reverses them.
FirstAssignment ==
    [l \in Layouts |->
        Reverse(SortSeq(CHOOSE bs \in Assignments[l][[i \in Param |-> i]] : TRUE,
                        LAMBDA a, b : Min(Range(a)) < Min(Range(b))))]

VARIABLES
    layout,   \* the parameters' sizes, type keys and sparse members
    opt,      \* find: find_unused_parameters_; view: gradient_as_bucket_view_;
              \* zero: zero_grad keeps zeros; odd: ranks of another shape
    plan,     \* the training loop every rank runs: "sync" / "nosync" passes
    pc,       \* pc[r]: where rank r is in its training loop
    uses,     \* uses[r]: the parameters used by each backward so far
    todo,     \* todo[r]: hooks the running backward has still to call
    red       \* red[r]: the Reducer object of rank r

vars == <<layout, opt, plan, pc, uses, todo, red>>

\* ---- collectives ----

Op(kind, shape, val) == [kind |-> kind, shape |-> shape, val |-> val]
Post(R, op) == [R EXCEPT !.posted = Append(@, op)]

\* The i-th collective has completed: every rank has issued it.
Complete(i) == \A r \in Rank : Len(red[r].posted) >= i

\* What the i-th all-reduce left for parameter p, and the union of the
\* parameters used by any rank.
Reduced(i, p) ==
    FoldFunction(LAMBDA x, y : x + y, 0,
                 [r \in Rank |-> red[r].posted[i].val[p]])
ReducedUsed(i) == UNION {red[r].posted[i].val : r \in Rank}

\* ---- gradients and buckets ----

Grad(R, p) == IF p \in R.alias THEN R.contents[p] ELSE R.grad[p]
BucketOf(R, p) == CHOOSE b \in DOMAIN R.buckets : p \in Range(R.buckets[b])
Fail(R) == [R EXCEPT !.raised = TRUE]

markDenseDefined(R, p) == \* seeded fault: expects a gradient
    IF Grad(R, p) = None THEN Fail(R)
    ELSE [R EXCEPT !.contents[p] = Grad(R, p) \div N,
                   !.alias = IF opt.view THEN @ \cup {p} ELSE @]

\* Divides a defined gradient into the bucket; under gradient_as_bucket_view
\* the gradient becomes a view of it. An undefined one zeroes the view.
mark_variable_ready_dense(R, p) ==
    [R EXCEPT
        !.contents[p] = IF Grad(R, p) = None THEN 0 ELSE Grad(R, p) \div N,
        !.alias = IF opt.view /\ Grad(R, p) # None THEN @ \cup {p} ELSE @]

\* A sparse gradient is its own bucket: it must be defined, and is divided
\* in place.
mark_variable_ready_sparse(R, p) ==
    IF Grad(R, p) = None THEN Fail(R)
    ELSE [R EXCEPT !.contents[p] = Grad(R, p) \div N,
                   !.alias = @ \cup {p}]

Allreduce(R, b) ==
    Op("bucket", R.buckets[b], [p \in Range(R.buckets[b]) |-> R.contents[p]])

reduceAtOnce(R, b) == \* seeded fault: buckets are not held back
    Post([R EXCEPT !.next = @ + 1, !.work[b] = Len(R.posted) + 1],
         Allreduce(R, b))

\* Issues the all-reduce of every bucket that is ready, from next_bucket_ on
\* and up to the first one that is not.
mark_bucket_ready(R, b) ==
    LET last == Max({R.next - 1} \cup
                    {c \in R.next .. Len(R.buckets) :
                        \A d \in R.next .. c : R.pending[d] = 0})
        at == Len(R.posted) - R.next + 1
    IN  IF b > R.next THEN R
        ELSE [R EXCEPT
                !.next = last + 1,
                !.work = [c \in DOMAIN @ |-> IF c \in R.next .. last THEN at + c
                                            ELSE @[c]],
                !.posted = @ \o [i \in 1 .. last + 1 - R.next |->
                                    Allreduce(R, R.next + i - 1)]]

\* Once the final bucket was issued: all-reduce the used parameters and queue
\* finalize_backward with the engine.
afterLastBucket(R) ==
    IF R.next # Len(R.buckets) + 1 THEN R
    ELSE [R EXCEPT
            !.queued = TRUE,
            !.usedWork = IF opt.find THEN Len(R.posted) + 1 ELSE @,
            !.posted = IF opt.find THEN Append(@, Op("used", <<P>>, R.used))
                       ELSE @]

\* Installs a bucket assignment; under gradient_as_bucket_view a gradient that
\* is already defined moves into its new view.
initialize_buckets(R, bs) ==
    IF \/ R.expect
       \/ \E b \in DOMAIN bs : \/ bs[b] = <<>>
                               \/ /\ Len(bs[b]) > 1
                                  /\ Range(bs[b]) \cap layout.sparse # {}
    THEN Fail(R)
    ELSE LET moved == {p \in Param \ layout.sparse :
                          opt.view /\ Grad(R, p) # None}
             kept == (R.alias \cap layout.sparse) \cup moved
         IN  [R EXCEPT
                !.buckets = bs,
                !.pending = [b \in DOMAIN bs |-> 0],
                !.work = [b \in DOMAIN bs |-> 0],
                !.grad = [p \in Param |-> IF p \in kept THEN None
                                          ELSE Grad(R, p)],
                !.contents = [p \in Param |-> IF p \in kept THEN Grad(R, p)
                                              ELSE 0],
                !.alias = kept]

NewReducer ==
    [buckets |-> <<>>, pending |-> <<>>, work |-> <<>>, next |-> 1,
     expect |-> FALSE, require |-> FALSE, marked |-> FALSE, unused |-> {},
     used |-> {}, usedWork |-> 0, order |-> <<>>, rebuilt |-> FALSE,
     proposal |-> <<>>, hook |-> 0, queued |-> FALSE, raised |-> FALSE,
     grad |-> [p \in Param |-> None], contents |-> [p \in Param |-> 0],
     alias |-> {}, posted |-> <<Op("shapes", <<P>>, {})>>]

\* Every rank is in the constructor, its parameter shapes broadcast.
Init ==
    /\ \E s \in Scenarios :
        layout = s.layout /\ opt = s.opt /\ plan = s.plan
    /\ pc = [r \in Rank |-> "construct"]
    /\ uses = [r \in Rank |-> <<>>]
    /\ todo = [r \in Rank |-> {}]
    /\ red = [r \in Rank |-> NewReducer]

Goto(r, place, R) ==
    /\ \E S \in {R} :
        /\ red' = [red EXCEPT ![r] = S]
        /\ pc' = [pc EXCEPT ![r] = IF S.raised THEN "raised" ELSE place]
    /\ UNCHANGED <<layout, opt, plan>>

\* The constructor compares the shapes rank 0 broadcast with its own
\* (verify_replica0_across_processes) and sets up the first buckets.
construct(r) ==
    /\ pc[r] = "construct" /\ Complete(1)
    /\ Goto(r, "idle", IF r \in opt.odd THEN Fail(red[r])
                       ELSE initialize_buckets(red[r], FirstAssignment[layout]))
    /\ UNCHANGED <<uses, todo>>

\* ---- the forward pass ----

ensure_prior_reduction_finished(R) == IF R.require THEN Fail(R) ELSE R
should_rebuild_buckets(R) == ~opt.find /\ ~R.rebuilt

\* The start of rebuild_buckets, which DDP calls first thing in forward: in the
\* forward after the first reduced backward the buckets are computed again in
\* gradient order, and the indices broadcast with their number. (A reduction
\* that finished has pushed every parameter, as the code asserts.)
rebuild_buckets(r) ==
    LET R == ensure_prior_reduction_finished(red[r])
    IN  /\ pc[r] = "idle" /\ Len(uses[r]) < Len(plan)
        /\ UNCHANGED <<uses, todo>>
        /\ \/ /\ R.raised \/ ~should_rebuild_buckets(R) \/ R.order = <<>>
              /\ Goto(r, "forward", R)
           \/ /\ ~R.raised /\ should_rebuild_buckets(R) /\ R.order # <<>>
              /\ \E bs \in Assignments[layout][R.order] :
                    Goto(r, "indices",
                         Post([R EXCEPT !.proposal = bs],
                              Op("indices", <<P + 1>>,
                                 <<FlattenSeq(bs), Len(bs)>>)))

\* sync_bucket_indices between its two broadcasts: the number of buckets is
\* rank 0's; a rank with fewer buckets pads its sizes with its last one.
sync_bucket_sizes(r) ==
    LET R == red[r]
        num_buckets == red[0].posted[Len(R.posted)].val[2]
        own == R.proposal
        size(i) == Len(own[IF i < Len(own) THEN i ELSE Len(own)])
    IN  /\ pc[r] = "indices" /\ Complete(Len(R.posted))
        /\ Goto(r, "sizes", Post(R, Op("sizes", <<num_buckets>>,
                                       [i \in 1 .. num_buckets |-> size(i)])))
        /\ UNCHANGED <<uses, todo>>

\* The buckets rebuilt from the indices and sizes that arrived.
Unflatten(indices, sizes) ==
    LET before(b) == FoldSeq(LAMBDA x, y : x + y, 0, SubSeq(sizes, 1, b - 1))
    IN  [b \in DOMAIN sizes |->
            SubSeq(indices, before(b) + 1, before(b) + sizes[b])]

\* The rest of sync_bucket_indices and of rebuild_buckets: every rank takes
\* rank 0's buckets.
sync_bucket_indices(r) ==
    LET R == red[r]
        i == Len(R.posted)
        bs == Unflatten(red[0].posted[i - 1].val[1], red[0].posted[i].val)
    IN  /\ pc[r] = "sizes" /\ Complete(i)
        /\ Goto(r, "forward",
                initialize_buckets([R EXCEPT !.rebuilt = TRUE, !.order = <<>>,
                                             !.proposal = <<>>], bs))
        /\ UNCHANGED <<uses, todo>>

\* The caller's optimizer clears the gradients (to None or to zero) before the
\* first backward of a window of accumulated iterations.
zero_grad(R, i) ==
    CASE i > 1 /\ plan[i - 1] = "nosync" -> R
      [] i > 1 /\ plan[i - 1] = "sync" /\ opt.zero ->
            [R EXCEPT
                !.grad = [p \in Param |-> IF @[p] = None THEN None ELSE 0],
                !.contents = [p \in Param |-> IF p \in R.alias THEN 0
                                              ELSE @[p]]]
      [] OTHER -> [R EXCEPT !.grad = [p \in Param |-> None], !.alias = {}]

markedBefore(R, U) == \* seeded fault: has_marked_unused_parameters_ is kept
    [R EXCEPT !.expect = TRUE, !.next = 1,
              !.pending = [b \in DOMAIN R.buckets |-> Len(R.buckets[b])],
              !.unused = IF opt.find THEN Param \ U ELSE {}]

\* The accounting of a reducing backward pass that uses the parameters U.
startCounting(R, U) ==
    [R EXCEPT !.expect = TRUE, !.next = 1, !.marked = FALSE,
              !.pending = [b \in DOMAIN R.buckets |-> Len(R.buckets[b])],
              !.unused = IF opt.find THEN Param \ U ELSE {}]

\* prepare_for_backward resets the accounting and, if asked to, finds the
\* parameters missing from the graph; DDP skips it under no_sync. Then the
\* backward pass starts on the parameters the loss depends on.
prepare_for_backward(r) ==
    LET i == Len(uses[r]) + 1
        R == zero_grad(red[r], i)
    IN  /\ pc[r] = "forward"
        /\ \E U \in Uses :
            /\ uses' = [uses EXCEPT ![r] = Append(@, U)]
            /\ todo' = [todo EXCEPT ![r] = U]
            /\ Goto(r, "backward",
                  IF plan[i] = "nosync" THEN R ELSE startCounting(R, U))

\* ---- the backward pass ----

\* What rank r's backward adds to a gradient, told apart by rank, in 1/N.
Share(r) == 4 ^ r
accumulate(R, r, p) ==
    LET sum == (IF Grad(R, p) = None THEN 0 ELSE Grad(R, p)) + N * Share(r)
    IN  IF p \in R.alias THEN [R EXCEPT !.contents[p] = sum]
        ELSE [R EXCEPT !.grad[p] = sum]

push_rebuilt_params(R, p) ==
    IF should_rebuild_buckets(R) THEN [R EXCEPT !.order = Append(@, p)] ELSE R

\* The engine has accumulated p's gradient and calls the hook: p counts as
\* used, and unless under no_sync its gradient is to be marked ready, after
\* those of the unused parameters if this is the first hook.
autograd_hook(r, p) ==
    /\ pc[r] = "backward" /\ p \in todo[r]
    /\ todo' = [todo EXCEPT ![r] = @ \ {p}]
    /\ UNCHANGED uses
    /\ \E G \in {accumulate(red[r], r, p)} :
       LET U == IF opt.find THEN [G EXCEPT !.used = @ \cup {p}] ELSE G
       IN  IF ~G.expect THEN Goto(r, "backward", U)
           ELSE Goto(r, "marking",
                     [push_rebuilt_params(U, p) EXCEPT
                        !.marked = @ \/ opt.find,
                        !.unused = IF G.marked THEN {} ELSE @,
                        !.hook = p])

\* The hook marks one variable after the other, the unused ones in the order of
\* an unordered_map. Marking a variable of a bucket that is already complete is
\* an error. A bucket's last variable makes the bucket ready.
mark_variable_ready(r, p) ==
    LET R == [red[r] EXCEPT !.require = TRUE, !.unused = @ \ {p}]
        b == BucketOf(R, p)
        rest == IF p = R.hook THEN "backward" ELSE "marking"
    IN  /\ pc[r] = "marking"
        /\ p \in red[r].unused \/ (red[r].unused = {} /\ p = R.hook)
        /\ UNCHANGED <<uses, todo>>
        /\ \E M \in {CASE R.pending[b] = 0 -> Fail(R)
                      [] R.pending[b] # 0 /\ p \in layout.sparse ->
                            mark_variable_ready_sparse(R, p)
                      [] OTHER -> mark_variable_ready_dense(R, p)} :
           \E D \in {[M EXCEPT !.pending[b] = @ - 1]} :
           \E S \in {IF D.pending[b] = 0 THEN mark_bucket_ready(D, b) ELSE D} :
              Goto(r, rest, IF M.raised THEN M ELSE afterLastBucket(S))

\* finalize_bucket_dense for parameter p of a bucket whose reduction the rank
\* waited for: a gradient no rank used is left alone; a locally unused one
\* learns that from the reduced map.
locallyUnused(R, p) == opt.find /\ p \notin R.used \* seeded fault: the reduced map is not read

globalUnused(R, p) ==
    opt.find /\ p \notin R.used /\ p \notin ReducedUsed(R.usedWork)

\* The results of the buckets become the gradients of the parameters used.
finalize_bucket_dense(R) ==
    LET out == [p \in Param |-> Reduced(R.work[BucketOf(R, p)], p)]
        taken == {p \in Param \ layout.sparse : ~globalUnused(R, p)}
    IN  [R EXCEPT
            !.contents = out,
            !.grad = [p \in Param |-> IF p \in taken /\ ~opt.view THEN out[p]
                                      ELSE @[p]],
            !.alias = IF opt.view THEN @ \cup taken ELSE @]

\* finalize_backward, run by the engine at the end of the backward: it waits
\* for every bucket and for the map of used parameters.
finalize_backward(r) ==
    LET R == red[r]
    IN  /\ pc[r] = "backward" /\ todo[r] = {} /\ R.queued
        /\ \A b \in DOMAIN R.buckets : Complete(R.work[b])
        /\ opt.find => Complete(R.usedWork)
        /\ Goto(r, "idle",
                [finalize_bucket_dense(R) EXCEPT
                    !.expect = FALSE, !.require = FALSE, !.queued = FALSE,
                    !.used = {}])
        /\ UNCHANGED <<uses, todo>>

\* A backward that queued no callback: under no_sync, or with parameters that
\* went unused undetected.
endBackward(r) ==
    /\ pc[r] = "backward" /\ todo[r] = {} /\ ~red[r].queued
    /\ Goto(r, "idle", red[r])
    /\ UNCHANGED <<uses, todo>>

Step(r) ==
    \/ construct(r) \/ rebuild_buckets(r) \/ sync_bucket_sizes(r)
    \/ sync_bucket_indices(r) \/ prepare_for_backward(r)
    \/ \E p \in Param : autograd_hook(r, p) \/ mark_variable_ready(r, p)
    \/ finalize_backward(r) \/ endBackward(r)

Next == \E r \in Rank : Step(r)

\* Every rank keeps running its training loop.
Fairness == \A r \in Rank : WF_vars(Step(r))

FairSpec == Init /\ [][Next]_vars /\ Fairness

\* ---- properties ----

\* The iterations whose gradients the i-th one reduces: it and the no_sync
\* iterations just before it.
Window(i) == {j \in 1 .. i : \A k \in j .. i - 1 : plan[k] = "nosync"}
Given(r, i, p) ==
    Share(r) * Cardinality({j \in Window(i) : p \in uses[r][j]})
UsedIn(I, p) == \E r \in Rank, j \in I : p \in uses[r][j]

\* What the gradient of p must be once the i-th, reducing, iteration is over.
Average(i, p) ==
    CASE UsedIn(Window(i), p) ->
            FoldFunction(LAMBDA x, y : x + y, 0, [r \in Rank |-> Given(r, i, p)])
      [] ~UsedIn(Window(i), p) /\ opt.zero /\ UsedIn(1 .. i, p) -> 0
      [] OTHER -> None

\* Process groups match collectives by position: whatever order the hooks fire
\* in, whichever parameters each rank leaves unused and whatever buckets it
\* proposed, the k-th collective two ranks issue is the same operation on
\* tensors of the same shape (mark_bucket_ready, sync_bucket_indices).
SameCollectives ==
    \A r, s \in Rank :
        \A i \in DOMAIN red[r].posted \cap DOMAIN red[s].posted :
            /\ red[r].posted[i].kind = red[s].posted[i].kind
            /\ red[r].posted[i].shape = red[s].posted[i].shape

\* A rank whose reducing backward is over holds, for every parameter used by
\* any rank since the last reduction (no_sync iterations included), the mean of
\* what all ranks accumulated; a parameter nobody used is left untouched
\* (finalize_backward).
GradientsAveraged ==
    \A r \in Rank :
        LET i == Len(uses[r])
        IN  pc[r] = "idle" /\ ~red[r].require /\ i > 0 /\ plan[i] = "sync" =>
                \A p \in Param : Grad(red[r], p) = Average(i, p)

\* The errors the reducer raises are raised only against misuse: parameters
\* shaped differently from rank 0's, parameters left unused without
\* find_unused_parameters in the last iteration, or an unused sparse parameter.
RaisesOnlyOnMisuse ==
    \A r \in Rank : pc[r] = "raised" =>
        \/ r \in opt.odd
        \/ \E i \in DOMAIN uses[r] : plan[i] = "sync" /\ Param # uses[r][i]
             /\ (~opt.find \/ ~(layout.sparse \subseteq uses[r][i]))

\* No training loop gets stuck: unless some rank raised or left a parameter
\* unused without find_unused_parameters, every rank finishes its plan, with no
\* reduction outstanding.
TrainingFinishes ==
    <>\/ \A r \in Rank : /\ pc[r] = "idle" /\ Len(uses[r]) = Len(plan)
                         /\ ~red[r].require
      \/ \E r \in Rank : pc[r] = "raised"
      \/ ~opt.find /\ \E r \in Rank : \E i \in DOMAIN uses[r] : uses[r][i] # Param
=============================================================================
