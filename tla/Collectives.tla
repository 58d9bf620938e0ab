---------------------------- MODULE Collectives ----------------------------
(***************************************************************************)
(* What one collective of ProcessGroupGloo, ProcessGroupMPI,               *)
(* ProcessGroupNCCL and ProcessGroupHCCL writes into the output tensors of *)
(* a rank.  A tensor is a sequence of integers, a sparse tensor a sequence *)
(* of <<index, value>> pairs.  ins[r] is the list of input tensors of rank *)
(* r.  The libraries underneath see flat buffers only: they are the        *)
(* operators marked external, and the process groups flatten, split and    *)
(* copy around them.                                                       *)
(*                                                                         *)
(* The CUDA variants of the Gloo operations run the same collective on     *)
(* host copies (see Arguments) and are not told apart here.                *)
(***************************************************************************)
EXTENDS Integers, Sequences, FiniteSetsExt, SequencesExt

CONSTANT N \* the number of ranks

ASSUME SizeAssumption == N \in Nat \ {0}

Rank == 0 .. N - 1

\* The ranks' values as a sequence, rank 0 first.
ByRank(f) == [i \in 1 .. N |-> f[i - 1]]

AddUp(seq) == FoldSeq(+, 0, seq)

(***************************************************************************)
(* The libraries (external).                                               *)
(***************************************************************************)

\* Elementwise sum of a sequence of buffers of one length.
SumBuffers(bufs) == [j \in DOMAIN bufs[1] |-> AddUp([i \in DOMAIN bufs |-> bufs[i][j]])]

\* allgather and allgatherv: every rank's buffer, in rank order.
GatherBuffers(f) == FlattenSeq(ByRank(f))

(***************************************************************************)
(* Flat buffers (c10d/Utils.hpp).                                          *)
(***************************************************************************)

flattenDenseTensors(ts) == FlattenSeq(ts)

\* Row i of the flat tensor newLikeFlat makes for n tensors of one size.
Row(flat, n, i) ==
  LET len == Len(flat) \div n IN SubSeq(flat, (i - 1) * len + 1, i * len)

Rows(flat, n) == [i \in 1 .. n |-> Row(flat, n, i)]

\* Consecutive slices of the given lengths.
Slices(flat, lengths) ==
  [i \in DOMAIN lengths |->
     LET offset == AddUp(SubSeq(lengths, 1, i - 1))
     IN  SubSeq(flat, offset + 1, offset + lengths[i])]

Lengths(ts) == [i \in DOMAIN ts |-> Len(ts[i])]

\* The lengths of an alltoall: equal parts when no split sizes are given.
computeLengths(splits, tensor) ==
  IF splits = <<>> THEN [i \in 1 .. N |-> Len(tensor) \div N] ELSE splits

\* The split sizes checkSplitSizes accepts.
checkSplitSizes(splits, tensor) ==
  IF splits = <<>> THEN Len(tensor) % N = 0
  ELSE Len(splits) = N /\ AddUp(splits) = Len(tensor)

(***************************************************************************)
(* ProcessGroupGloo.                                                       *)
(***************************************************************************)

\* The root's tensor number t is sent, then copied to the other tensors of the
\* rank.
AsyncBroadcastWork(ins, root, t, r) == [i \in DOMAIN ins[r] |-> ins[root][t]]

\* All tensors of all ranks are summed into every tensor.
AsyncAllreduceWork(ins, r) ==
  LET sum == SumBuffers(FlattenSeq(ByRank(ins)))
  IN  [i \in DOMAIN ins[r] |-> sum]

\* One flat buffer per rank is summed and cut up again.
AsyncAllreduceCoalescedWork(ins, r) ==
  Slices(SumBuffers(ByRank([s \in Rank |-> flattenDenseTensors(ins[s])])),
         Lengths(ins[r]))

\* coalesce(): one value for each index, in index order.
Coalesce(pairs) ==
  LET index == {pairs[k][1] : k \in DOMAIN pairs}
      order == SetToSortSeq(index, <)
  IN  [n \in DOMAIN order |->
        <<order[n], AddUp([k \in DOMAIN pairs |->
                             IF pairs[k][1] = order[n] THEN pairs[k][2] ELSE 0])>>]

\* Each rank adds up its own tensors, all gather the numbers of entries, then
\* the indices and the values; the result is summed locally.
AsyncSparseAllreduceWork(ins, r) ==
  LET input   == [s \in Rank |-> Coalesce(FlattenSeq(ins[s]))]
      nnz     == ByRank([s \in Rank |-> Len(input[s])])
      Column(c) == [s \in Rank |-> [k \in DOMAIN input[s] |-> input[s][k][c]]]
      indices == Slices(GatherBuffers(Column(1)), nnz)
      values  == Slices(GatherBuffers(Column(2)), nnz)
      output  == Coalesce(FlattenSeq([i \in 1 .. N |->
                    [k \in 1 .. nnz[i] |-> <<indices[i][k], values[i][k]>>]]))
  IN  [i \in DOMAIN ins[r] |-> output]

\* Only the root's tensor is defined afterwards.
AsyncReduceWork(ins, root, r) ==
  IF r = root THEN <<SumBuffers(ByRank([s \in Rank |-> ins[s][1]]))>> ELSE <<>>

\* Flat inputs of all ranks make one flat output, whose rows are the outputs.
AsyncAllgatherWork(ins, r) ==
  LET flat == GatherBuffers([s \in Rank |-> flattenDenseTensors(ins[s])])
  IN  [i \in DOMAIN ins[r] |-> Rows(flat, N * Len(ins[r]))]

cutByFirstList(ins, r) == \* seeded fault: every list starts the buffer again
  LET flat == GatherBuffers([s \in Rank |-> flattenDenseTensors(ins[s])])
  IN  [i \in 1 .. N |-> Slices(flat, Lengths(ins[r]))]

\* The gathered buffer is cut up by the sizes of each output list in turn.
AsyncAllgatherCoalescedWork(ins, r) ==
  LET lists == ByRank([s \in Rank |-> Lengths(ins[s])])
      flat  == GatherBuffers([s \in Rank |-> flattenDenseTensors(ins[s])])
      cut   == Slices(flat, FlattenSeq(lists))
      from(i) == AddUp([k \in 1 .. i - 1 |-> Len(lists[k])])
  IN  [i \in 1 .. N |-> SubSeq(cut, from(i) + 1, from(i) + Len(lists[i]))]

AsyncGatherWork(ins, root, r) ==
  IF r = root
  THEN <<Rows(GatherBuffers([s \in Rank |-> ins[s][1]]), N)>>
  ELSE <<>>

\* Gloo scatters the root's list of tensors.
AsyncScatterWork(ins, root, r) == <<ins[root][r + 1]>>

\* alltoall and alltoallv: part r of every rank's input, in rank order.
Exchange(flats, lengths, r) ==
  FlattenSeq([i \in 1 .. N |-> Slices(flats[i - 1], lengths[i - 1])[r + 1]])

AsyncAlltoallWork(ins, splits, r) ==
  <<Exchange([s \in Rank |-> ins[s][1]],
             [s \in Rank |-> computeLengths(splits[s], ins[s][1])], r)>>

(***************************************************************************)
(* ProcessGroupMPI, whose operations take one tensor (alltoall excepted).  *)
(***************************************************************************)

mpiBroadcast(ins, root, r) == <<ins[root][1]>>

mpiAllreduce(ins, r) == <<SumBuffers(ByRank([s \in Rank |-> ins[s][1]]))>>

mpiReduce(ins, root, r) == IF r = root THEN mpiAllreduce(ins, r) ELSE <<>>

mpiAllgather(ins, r) == <<Rows(GatherBuffers([s \in Rank |-> ins[s][1]]), N)>>

mpiGather(ins, root, r) == IF r = root THEN mpiAllgather(ins, r) ELSE <<>>

\* The root copies its list into one flat send buffer.
mpiScatter(ins, root, r) == <<Row(flattenDenseTensors(ins[root]), N, r + 1)>>

mpiAlltoallBase(ins, splits, r) ==
  <<Exchange([s \in Rank |-> ins[s][1]],
             [s \in Rank |-> computeLengths(splits[s], ins[s][1])], r)>>

\* The lists are flattened, exchanged and split by the receive lengths.
mpiAlltoall(ins, r) ==
  LET lengths == [s \in Rank |-> Lengths(ins[s])]
      flat    == Exchange([s \in Rank |-> flattenDenseTensors(ins[s])], lengths, r)
  IN  Slices(flat, ByRank([s \in Rank |-> lengths[s][r + 1]]))

(***************************************************************************)
(* ProcessGroupNCCL with D devices per process: device i of rank r has the *)
(* NCCL rank r * D + i - 1.                                                *)
(***************************************************************************)

\* The buffers of all devices by NCCL rank.
byNcclRank(ins) == FlattenSeq(ByRank(ins))

ncclAllreduce(ins, r) == [i \in DOMAIN ins[r] |-> SumBuffers(byNcclRank(ins))]

\* The NCCL rank of the root, from 1.
ncclRoot(ins, root, t) == root * Len(ins[root]) + t

ncclBroadcast(ins, root, t, r) ==
  [i \in DOMAIN ins[r] |-> byNcclRank(ins)[ncclRoot(ins, root, t)]]

\* Only the tensor of the root device is defined afterwards.
ncclReduce(ins, root, t, r) ==
  [i \in DOMAIN ins[r] |->
     IF r * Len(ins[r]) + i = ncclRoot(ins, root, t) THEN SumBuffers(byNcclRank(ins))
     ELSE <<>>]

\* Each device gathers into one flat tensor, whose rows are copied out.
ncclAllgather(ins, r) ==
  LET D == Len(ins[r])
  IN  [i \in 1 .. D |-> Rows(FlattenSeq(byNcclRank(ins)), N * D)]

\* The lists of the devices are copied into flat tensors and summed; a device
\* gets the row of its NCCL rank (one device per process here).
ncclReduceScatter(ins, r) ==
  <<Row(SumBuffers(ByRank([s \in Rank |-> flattenDenseTensors(ins[s])])), N, r + 1)>>

ncclAlltoallBase(ins, splits, r) ==
  <<Exchange([s \in Rank |-> ins[s][1]],
             [s \in Rank |-> computeLengths(splits[s], ins[s][1])], r)>>

\* all2all sends tensor s of the list to rank s.
ncclAlltoall(ins, r) == [i \in 1 .. N |-> ins[i - 1][r + 1]]

(***************************************************************************)
(* ProcessGroupHCCL, with one device per process.                          *)
(***************************************************************************)

hcclAllreduce(ins, r) == <<SumBuffers(ByRank([s \in Rank |-> ins[s][1]]))>>

hcclBroadcast(ins, root, t, r) ==
  <<ByRank([s \in Rank |-> ins[s][1]])[root * Len(ins[r]) + t]>>

hcclAllgather(ins, r) == <<Rows(GatherBuffers([s \in Rank |-> ins[s][1]]), N)>>

hcclReduceScatter(ins, r) ==
  <<Row(SumBuffers(ByRank([s \in Rank |-> flattenDenseTensors(ins[s])])), N, r + 1)>>

\* The operations of each backend (those without data, barrier, left out).
GlooOps == {"broadcast", "allreduce", "allreduce_coalesced", "sparse", "reduce",
            "allgather", "allgather_coalesced", "gather", "scatter", "alltoall_base"}

MPIOps == {"broadcast", "allreduce", "reduce", "allgather", "gather", "scatter",
           "alltoall_base", "alltoall"}

NCCLOps == {"broadcast", "allreduce", "reduce", "allgather", "reduce_scatter",
            "alltoall_base", "alltoall"}

HCCLOps == {"broadcast", "allreduce", "allgather", "reduce_scatter"}

\* Operations whose input is a list also where a process has one tensor.
ListOps == {"scatter", "alltoall", "reduce_scatter"}

\* Operations of Gloo on one tensor.
SingleOps == {"reduce", "gather"}

OneTensor(c) == \A s \in Rank : Len(c.ins[s]) = 1

gloo(c, r) ==
  CASE c.op = "broadcast" -> AsyncBroadcastWork(c.ins, c.root, c.tensor, r)
    [] c.op = "allreduce" -> AsyncAllreduceWork(c.ins, r)
    [] c.op = "allreduce_coalesced" -> AsyncAllreduceCoalescedWork(c.ins, r)
    [] c.op = "sparse" -> AsyncSparseAllreduceWork(c.ins, r)
    [] c.op = "reduce" -> AsyncReduceWork(c.ins, c.root, r)
    [] c.op = "allgather" -> AsyncAllgatherWork(c.ins, r)
    [] c.op = "allgather_coalesced" -> AsyncAllgatherCoalescedWork(c.ins, r)
    [] c.op = "gather" -> AsyncGatherWork(c.ins, c.root, r)
    [] c.op = "scatter" -> AsyncScatterWork(c.ins, c.root, r)
    [] c.op = "alltoall_base" -> AsyncAlltoallWork(c.ins, c.splits, r)

mpi(c, r) ==
  CASE c.op = "broadcast" -> mpiBroadcast(c.ins, c.root, r)
    [] c.op = "allreduce" -> mpiAllreduce(c.ins, r)
    [] c.op = "reduce" -> mpiReduce(c.ins, c.root, r)
    [] c.op = "allgather" -> mpiAllgather(c.ins, r)
    [] c.op = "gather" -> mpiGather(c.ins, c.root, r)
    [] c.op = "scatter" -> mpiScatter(c.ins, c.root, r)
    [] c.op = "alltoall_base" -> mpiAlltoallBase(c.ins, c.splits, r)
    [] c.op = "alltoall" -> mpiAlltoall(c.ins, r)

nccl(c, r) ==
  CASE c.op = "broadcast" -> ncclBroadcast(c.ins, c.root, c.tensor, r)
    [] c.op = "allreduce" -> ncclAllreduce(c.ins, r)
    [] c.op = "reduce" -> ncclReduce(c.ins, c.root, c.tensor, r)
    [] c.op = "allgather" -> ncclAllgather(c.ins, r)
    [] c.op = "reduce_scatter" -> ncclReduceScatter(c.ins, r)
    [] c.op = "alltoall_base" -> ncclAlltoallBase(c.ins, c.splits, r)
    [] c.op = "alltoall" -> ncclAlltoall(c.ins, r)

hccl(c, r) ==
  CASE c.op = "broadcast" -> hcclBroadcast(c.ins, c.root, c.tensor, r)
    [] c.op = "allreduce" -> hcclAllreduce(c.ins, r)
    [] c.op = "allgather" -> hcclAllgather(c.ins, r)
    [] c.op = "reduce_scatter" -> hcclReduceScatter(c.ins, r)

(***************************************************************************)
(* What the operations promise, without buffers: the reference the         *)
(* properties compare with.                                                *)
(***************************************************************************)

\* Element j of the sum of tensor k over the ranks.
SumOver(ins, k) ==
  [j \in DOMAIN ins[0][k] |-> MapThenSumSet(LAMBDA s : ins[s][k][j], Rank)]

\* The entry of every index some rank has, summed over all their tensors.
SparseSum(ins) ==
  LET entries == {<<s, k, j>> \in Rank \X (1 .. 4) \X (1 .. 4) :
                    k \in DOMAIN ins[s] /\ j \in DOMAIN ins[s][k]}
      Of(e) == ins[e[1]][e[2]][e[3]]
      index == {Of(e)[1] : e \in entries}
  IN  {<<n, MapThenSumSet(LAMBDA e : Of(e)[2], {e \in entries : Of(e)[1] = n})>> :
         n \in index}

\* Rank s's part for rank r of an alltoall.
Part(ins, splits, s, r) ==
  LET before == IF splits[s] = <<>> THEN r * (Len(ins[s][1]) \div N)
                ELSE MapThenSumSet(LAMBDA i : splits[s][i], 1 .. r)
      len == IF splits[s] = <<>> THEN Len(ins[s][1]) \div N ELSE splits[s][r + 1]
  IN  [k \in 1 .. len |-> ins[s][1][before + k]]

\* Element j of the sum of all tensors of all ranks.
SumOfAll(ins, j) == MapThenSumSet(LAMBDA k : SumOver(ins, k)[j], DOMAIN ins[0])

Promised(c, r, out) ==
  LET ins == c.ins IN
  CASE c.op = "broadcast" -> \A i \in DOMAIN ins[r] : out[i] = ins[c.root][c.tensor]
    [] c.op = "allreduce" ->
         \A i \in DOMAIN ins[r], j \in DOMAIN ins[r][1] : out[i][j] = SumOfAll(ins, j)
    [] c.op = "allreduce_coalesced" ->
         \A i \in DOMAIN ins[r] : out[i] = SumOver(ins, i)
    [] c.op = "sparse" ->
         \A i \in DOMAIN ins[r] : ToSet(out[i]) = SparseSum(ins)
    [] c.op = "reduce" ->
         r = c.root => \A j \in DOMAIN ins[r][1] : out[c.tensor][j] = SumOfAll(ins, j)
    [] c.op = "allgather" ->
         \A i \in DOMAIN ins[r], s \in Rank, k \in DOMAIN ins[r] :
           out[i][s * Len(ins[r]) + k] = ins[s][k]
    [] c.op = "allgather_coalesced" -> \A s \in Rank : out[s + 1] = ins[s]
    [] c.op = "gather" -> r = c.root => \A s \in Rank : out[1][s + 1] = ins[s][1]
    [] c.op = "scatter" -> out[1] = ins[c.root][r + 1]
    [] c.op = "reduce_scatter" -> out[1] = SumOver(ins, r + 1)
    [] c.op = "alltoall_base" ->
         out[1] = FlattenSeq([i \in 1 .. N |-> Part(ins, c.splits, i - 1, r)])
    [] c.op = "alltoall" -> \A s \in Rank : out[s + 1] = ins[s][r + 1]
=============================================================================
