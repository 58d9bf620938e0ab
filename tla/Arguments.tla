----------------------------- MODULE Arguments -----------------------------
(***************************************************************************)
(* Which arguments the calls of ProcessGroupGloo and ProcessGroupMPI       *)
(* accept, and whether a refusal comes before or after the tag is taken.   *)
(*                                                                         *)
(* A tensor is [size, dtype, layout, device, contiguous].  The arguments   *)
(* of a call are a record: tensors is the plain list of tensors (the       *)
(* outputs of a scatter; output and input of alltoall_base), lists the     *)
(* list of lists (outputs of a gather, inputs of a scatter, outputs of     *)
(* alltoall), root and rootTensor count from 0, tag is that of a message,  *)
(* and sum says that the reduction is a sum.  n is the size of the group.  *)
(***************************************************************************)
EXTENDS Integers, Sequences

\* TensorOptions::type_equal (external): data type, layout and device type.
type_equal(t, u) == t.dtype = u.dtype /\ t.layout = u.layout /\ t.device = u.device

(***************************************************************************)
(* Assertions (c10d/Utils.hpp).                                            *)
(***************************************************************************)

assertTypeAndSizesMatch(ts, t) ==
  \A i \in DOMAIN ts : type_equal(ts[i], t) /\ ts[i].size = t.size

assertLayoutMatch(ts) == \A i \in DOMAIN ts : ts[i].layout = ts[1].layout

assertSameDevice(ts) == \A i \in DOMAIN ts : ts[i].device = ts[1].device

assertDense(ts) == ts[1].layout = "strided"

assertRootRank(a, n) == a.root \in 0 .. n - 1

assertRootTensor(a) == a.rootTensor \in 0 .. Len(a.tensors) - 1

(***************************************************************************)
(* ProcessGroupGloo: the checks before nextTag().                          *)
(***************************************************************************)

supportedDevice(t) == t.device \in {"cpu", "cuda"}

glooBroadcast(a, n) ==
  /\ assertRootRank(a, n)
  /\ assertRootTensor(a)
  /\ assertDense(a.tensors)
  /\ assertTypeAndSizesMatch(a.tensors, a.tensors[1])
  /\ supportedDevice(a.tensors[1])

\* Sparse tensors can only be added.
glooAllreduce(a) ==
  /\ a.tensors # <<>>
  /\ assertLayoutMatch(a.tensors)
  /\ assertTypeAndSizesMatch(a.tensors, a.tensors[1])
  /\ supportedDevice(a.tensors[1])
  /\ a.tensors[1].layout = "sparse" => a.sum

\* "invalid arguments are detected early here before any calls to nextTag()
\* which result in the collectiveCounter_ being incremented."
glooAllreduceCoalesced(a) ==
  /\ a.tensors # <<>>
  /\ assertLayoutMatch(a.tensors)
  /\ \A i \in DOMAIN a.tensors : type_equal(a.tensors[i], a.tensors[1])
  /\ assertSameDevice(a.tensors)
  /\ a.tensors[1].device = "cpu" /\ a.tensors[1].layout = "strided"

glooReduce(a, n) ==
  /\ assertRootRank(a, n)
  /\ assertRootTensor(a)
  /\ Len(a.tensors) = 1
  /\ assertDense(a.tensors)
  /\ supportedDevice(a.tensors[1])

glooAllgather(a, n) ==
  /\ a.tensors # <<>>
  /\ Len(a.lists) = Len(a.tensors)
  /\ \A i \in DOMAIN a.lists : Len(a.lists[i]) = Len(a.tensors) * n
  /\ assertDense(a.tensors)
  /\ assertTypeAndSizesMatch(a.tensors, a.tensors[1])
  /\ \A i \in DOMAIN a.lists : assertTypeAndSizesMatch(a.lists[i], a.tensors[1])
  /\ supportedDevice(a.tensors[1])

\* Tensor i of every output list is like tensor i of the input list.
glooAllgatherCoalesced(a, n) ==
  /\ a.tensors # <<>>
  /\ Len(a.lists) = n
  /\ assertSameDevice(a.tensors)
  /\ \A s \in DOMAIN a.lists :
       /\ Len(a.lists[s]) = Len(a.tensors)
       /\ \A i \in DOMAIN a.tensors :
            /\ a.lists[s][i].size = a.tensors[i].size
            /\ type_equal(a.lists[s][i], a.tensors[i])
  /\ assertDense(a.tensors)

\* The lists of a gather or scatter: one list of n tensors on the root, none
\* on the other ranks.
listsOnRoot(a, r, n) ==
  IF r = a.root
  THEN /\ Len(a.lists) = 1 /\ Len(a.lists[1]) = n
       /\ assertTypeAndSizesMatch(a.lists[1], a.tensors[1])
  ELSE a.lists = <<>>

glooGather(a, r, n) ==
  /\ assertRootRank(a, n)
  /\ Len(a.tensors) = 1
  /\ assertDense(a.tensors)
  /\ listsOnRoot(a, r, n)
  /\ supportedDevice(a.tensors[1])

glooScatter(a, r, n) ==
  /\ assertRootRank(a, n)
  /\ Len(a.tensors) = 1
  /\ assertDense(a.tensors)
  /\ listsOnRoot(a, r, n)
  /\ supportedDevice(a.tensors[1])

glooAlltoallBase(a) ==
  /\ a.tensors[1].device = a.tensors[2].device
  /\ assertDense(<<a.tensors[1]>>) /\ assertDense(<<a.tensors[2]>>)

\* checkSingleTensor and checkTag.
glooMessage(a) ==
  /\ Len(a.tensors) = 1
  /\ a.tensors[1].contiguous /\ a.tensors[1].layout # "sparse"
  /\ a.tag >= 0

glooAccepts(op, a, r, n) ==
  CASE op = "broadcast" -> glooBroadcast(a, n)
    [] op \in {"allreduce", "sparse"} -> glooAllreduce(a)
    [] op = "allreduce_coalesced" -> glooAllreduceCoalesced(a)
    [] op = "reduce" -> glooReduce(a, n)
    [] op = "allgather" -> glooAllgather(a, n)
    [] op = "allgather_coalesced" -> glooAllgatherCoalesced(a, n)
    [] op = "gather" -> glooGather(a, r, n)
    [] op = "scatter" -> glooScatter(a, r, n)
    [] op = "alltoall_base" -> glooAlltoallBase(a)
    [] op \in {"send", "recv", "recvAnysource"} -> glooMessage(a)
    [] OTHER -> TRUE

\* The checks that come after nextTag(): a layout allreduce has no work for,
\* and a device alltoall_base has none for.
glooHasWork(op, a) ==
  /\ op \in {"allreduce", "sparse"} => a.tensors[1].layout \in {"strided", "sparse"}
  /\ op = "alltoall_base" => supportedDevice(a.tensors[1])

(***************************************************************************)
(* ProcessGroupMPI, which has no tags; built without CUDA-aware MPI.       *)
(***************************************************************************)

checkSingleTensorHelper(t) ==
  t.contiguous /\ t.layout # "sparse" /\ t.device # "cuda"

checkSingleTensor(ts) == Len(ts) = 1 /\ checkSingleTensorHelper(ts[1])

checkSameSizeAndType(t, ts) ==
  \A i \in DOMAIN ts : /\ ts[i].size = t.size /\ type_equal(ts[i], t)
                       /\ checkSingleTensorHelper(ts[i])

mpiLists(a, n) ==
  /\ Len(a.lists) = 1 /\ Len(a.lists[1]) = n
  /\ checkSameSizeAndType(a.tensors[1], a.lists[1])

mpiAlltoallChecks(a, n) ==
  /\ checkSingleTensorHelper(a.tensors[1]) /\ checkSingleTensorHelper(a.tensors[2])
  /\ a.tensors[1].size = a.tensors[2].size /\ type_equal(a.tensors[1], a.tensors[2])
  /\ a.tensors[1].size % n = 0

mpiAccepts(op, a, r, n) ==
  CASE op = "allgather" -> checkSingleTensor(a.tensors) /\ mpiLists(a, n)
    [] op \in {"gather", "scatter"} ->
         /\ checkSingleTensor(a.tensors)
         /\ IF r = a.root THEN mpiLists(a, n) ELSE a.lists = <<>>
    [] op = "alltoall_base" -> mpiAlltoallChecks(a, n)
    [] op = "alltoall" -> Len(a.tensors) = n /\ Len(a.lists[1]) = n
    [] op = "barrier" -> TRUE
    [] OTHER -> checkSingleTensor(a.tensors)

(***************************************************************************)
(* ProcessGroupGloo on CUDA tensors: the works copy to pinned host tensors *)
(* on streams of their own, run the collective there, and copy back.  What *)
(* each work copies on rank r: [in, out].                                  *)
(***************************************************************************)

AsyncBroadcastCUDAWork(root, r) == [in |-> r = root, out |-> TRUE]

AsyncAllreduceCUDAWork == [in |-> TRUE, out |-> TRUE]

\* The results are copied once more, by synchronize(), into the inputs.
AsyncSparseAllreduceCUDAWork == [in |-> TRUE, out |-> TRUE]

\* Only the root's result means anything, but every rank copies.
AsyncReduceCUDAWork == [in |-> TRUE, out |-> TRUE]

AsyncAllgatherCUDAWork == [in |-> TRUE, out |-> TRUE]

AsyncGatherCUDAWork(root, r) == [in |-> TRUE, out |-> r = root]

AsyncScatterCUDAWork(root, r) == [in |-> r = root, out |-> TRUE]

AsyncAlltoallCUDAWork == [in |-> TRUE, out |-> TRUE]

\* Works on host tensors copy nothing.
copies(op, a, r) ==
  IF a.tensors = <<>> \/ a.tensors[1].device # "cuda"
  THEN [in |-> FALSE, out |-> FALSE]
  ELSE CASE op = "broadcast" -> AsyncBroadcastCUDAWork(a.root, r)
         [] op = "allreduce" -> AsyncAllreduceCUDAWork
         [] op = "sparse" -> AsyncSparseAllreduceCUDAWork
         [] op = "reduce" -> AsyncReduceCUDAWork
         [] op = "allgather" -> AsyncAllgatherCUDAWork
         [] op = "gather" -> AsyncGatherCUDAWork(a.root, r)
         [] op = "scatter" -> AsyncScatterCUDAWork(a.root, r)
         [] op = "alltoall_base" -> AsyncAlltoallCUDAWork
=============================================================================
