-------------------------- MODULE MCProcessGroups --------------------------
\* Scripts of the three backends for two or three ranks.  A script has two or
\* three collectives in flight, with waits in another order.
EXTENDS ProcessGroups

Tensor(n, layout, device) ==
  [size |-> n, dtype |-> "float", layout |-> layout, device |-> device, contiguous |-> TRUE]

Host(n) == Tensor(n, "strided", "cpu")

Times(n, x) == [i \in 1 .. n |-> x]

Args(ts, lists, root) ==
  [tensors |-> ts, lists |-> lists, root |-> root, rootTensor |-> 0, tag |-> 0,
   sum |-> TRUE]

\* Arguments the operation accepts on rank r of a group of n, for tensors like t.
Good(o, t, root, r, n) ==
  LET u == [t EXCEPT !.size = 3] IN
  CASE o = "sparse" -> Args(<<[t EXCEPT !.layout = "sparse"]>>, <<>>, root)
    [] o = "allreduce_coalesced" -> Args(<<t, u>>, <<>>, root)
    [] o = "allgather" -> Args(<<t>>, <<Times(n, t)>>, root)
    [] o = "allgather_coalesced" -> Args(<<t, u>>, Times(n, <<t, u>>), root)
    [] o \in {"gather", "scatter"} ->
         Args(<<t>>, IF r = root THEN <<Times(n, t)>> ELSE <<>>, root)
    [] o = "alltoall_base" -> Args(<<t, t>>, <<>>, root)
    [] o = "alltoall" -> Args(Times(n, t), <<Times(n, t)>>, root)
    [] o = "barrier" -> Args(<<>>, <<>>, root)
    [] OTHER -> Args(<<t>>, <<>>, root)

\* Steps are written as functions of the rank.
Base == [op |-> "wait", id |-> 0, args |-> Args(<<>>, <<>>, 0), hasty |-> FALSE,
         peer |-> 0, work |-> 0]

On(t, o, n) ==
  [r \in Rank |-> [Base EXCEPT !.op = o, !.id = n, !.args = Good(o, t, n % 2, r, 2)]]

C(o, n) == On(Host(2), o, n)

Cuda(o, n) == On(Tensor(2, "strided", "cuda"), o, n)

Same(s) == [r \in Rank |-> s]

Bad(o, args) == Same([Base EXCEPT !.op = o, !.args = args])

W(i) == Same([Base EXCEPT !.work = i])

Hasty(i) == Same([Base EXCEPT !.work = i, !.hasty = TRUE])

Read(i) == Same([Base EXCEPT !.op = "read", !.work = i])

P(o, p, n) ==
  Same([Base EXCEPT !.op = o, !.peer = p, !.id = n, !.args = Good(o, Host(2), 0, 0, 2)])

Of(r, steps) == [k \in DOMAIN steps |-> steps[k][r]]

\* Gloo's default, one for the groups of round robin, and always one for MPI.
Threads(b) == IF b = "gloo" THEN 2 ELSE 1

All(b, steps) ==
  [backend |-> b, threads |-> Threads(b), fails |-> {},
   steps |-> [r \in {0, 1} |-> Of(r, steps)]]

MixedSizes == Args(<<Host(1), Host(2)>>, <<>>, 0)
NoRoot == Args(<<Host(1)>>, <<>>, 2)
OtherDevice == Args(<<Tensor(2, "strided", "npu"), Tensor(2, "strided", "npu")>>, <<>>, 0)
OtherLayout == Args(<<Tensor(2, "mkldnn", "cpu")>>, <<>>, 0)
Sparse == Args(<<Tensor(2, "sparse", "cpu")>>, <<>>, 0)
Nothing == Args(<<>>, <<>>, 0)
NoTag == [Args(<<Host(2)>>, <<>>, 0) EXCEPT !.tag = -1]
Strided == Args(<<[Host(2) EXCEPT !.contiguous = FALSE]>>, <<>>, 0)

OneThread(s) == [s EXCEPT !.threads = 1]

\* Only rank 1 makes the first call.
OneAlone(b, extra, steps) ==
  [backend |-> b, threads |-> Threads(b), fails |-> {},
   steps |-> [r \in {0, 1} |-> Of(r, IF r = 1 THEN <<extra>> \o steps ELSE steps)]]

GlooScripts ==
  <<OneAlone("gloo", Bad("allreduce", MixedSizes),
              <<C("allreduce", 1), C("allreduce", 2), C("barrier", 3), W(3), W(1)>>),
    All("gloo", <<C("allreduce_coalesced", 1), Bad("alltoall_base", OtherDevice),
                  C("sparse", 2), W(2), W(1)>>),
    All("gloo", <<C("allgather", 1), C("allgather_coalesced", 2), W(1),
                  Bad("alltoall", Nothing), C("reduce", 3), W(2), W(3)>>),
    All("gloo", <<C("gather", 1), C("scatter", 2), Hasty(1), C("broadcast", 3)>>),
    All("gloo", <<C("alltoall_base", 2), C("barrier", 1), C("alltoall_base", 3),
                  Hasty(3)>>),
    OneAlone("gloo", Bad("broadcast", NoRoot),
             <<Cuda("broadcast", 1), Cuda("scatter", 2), W(2), Read(2), W(1), Read(1)>>),
    All("gloo", <<Cuda("gather", 1), Bad("allreduce", OtherLayout), Cuda("allreduce", 2),
                  W(1), Read(1), W(2), Read(2)>>),
    All("gloo", <<Cuda("allgather", 1), W(1), Read(1), Cuda("alltoall_base", 2), W(2), Read(2)>>),
    All("gloo", <<Cuda("sparse", 1), Cuda("reduce", 2), W(1), Read(1), W(2), Read(2)>>)>>

MPIScripts ==
  <<All("mpi", <<C("allreduce", 1), C("allreduce", 2), C("barrier", 3), W(3)>>),
    All("mpi", <<C("gather", 1), C("scatter", 2), C("reduce", 3), W(1), W(2), W(3)>>),
    All("mpi", <<C("alltoall_base", 1), C("alltoall_base", 2), C("alltoall", 3), W(2)>>),
    All("mpi", <<Bad("sparse", Sparse), C("allgather", 1), C("broadcast", 2), W(1),
                 Bad("allreduce_coalesced", Nothing)>>)>>

RoundRobinScripts ==
  <<All("roundrobin", <<C("allreduce", 1), C("allreduce", 2), W(2), C("allreduce", 3),
                        Bad("barrier", Nothing), W(1), W(3)>>),
    All("roundrobin", <<C("allreduce", 1), Bad("allgather_coalesced", Nothing),
                        C("broadcast", 2), C("allreduce", 3), W(3)>>)>>

\* Rank 0 exchanges messages with the others while a collective is in flight.
Exchange3(b, first, any, refused) ==
  [backend |-> b, threads |-> Threads(b), fails |-> {},
   steps |-> [r \in Rank |-> Of(r,
     CASE r = 0 -> first \o <<any, P("recvAnysource", 0, 1), W(Len(first) + 1),
                     W(Len(first) + 2), P("send", 1, 2), W(Len(first) + 3)>>
       [] r = 1 -> first \o <<P("send", 0, 3), W(Len(first) + 1),
                     P("recv", 0, 4), W(Len(first) + 2)>>
       [] OTHER -> first \o <<Bad("send", refused), P("send", 0, 5),
                              W(Len(first) + 1), W(Len(first) + 1)>>)]]

\* Rank 0 sends to rank 1; the other steps are the same.
Exchange2(b, before, between, after) ==
  [backend |-> b, threads |-> Threads(b), fails |-> {},
   steps |-> [r \in {0, 1} |->
     Of(r, before \o <<P(IF r = 0 THEN "send" ELSE "recv", 1 - r, 8)>>
                  \o between \o after)]]

\* Under MPI the thread that runs the allreduce and the user thread want the
\* mutex at the same time: to wait for a message that was posted before, and
\* to post one.  (No rank waits for a message before its allreduce is over if
\* the peer posts it after its own: see the README.)
MessageScripts ==
  <<OneThread(Exchange3("gloo", <<C("allreduce", 1)>>, P("recvAnysource", 0, 6), NoTag)),
    Exchange3("mpi", <<>>, P("recv", 2, 6), Strided),
    Exchange2("mpi", <<>>, <<C("allreduce", 1)>>, <<W(1), W(2), C("barrier", 3), W(3)>>),
    Exchange2("mpi", <<C("allreduce", 1)>>, <<W(1)>>, <<W(2)>>)>>

Failing(ids, s) == [s EXCEPT !.fails = ids]

FailingScripts ==
  <<Failing({1, 2}, All("gloo", <<C("allreduce", 1), C("barrier", 2), W(2)>>)),
    Failing({1, 3}, OneThread(All("gloo",
      <<C("allreduce", 1), C("broadcast", 2), C("barrier", 3), W(3)>>))),
    Failing({1, 2}, All("mpi", <<C("allreduce", 1), C("barrier", 2), W(1), W(2)>>)),
    Failing({8}, Exchange2("gloo", <<C("allreduce", 1)>>, <<W(2)>>, <<W(1)>>)),
    Failing({1, 8}, Exchange2("mpi", <<>>, <<C("allreduce", 1)>>, <<W(1), W(2)>>))>>

SomeScripts ==
  GlooScripts \o MPIScripts \o RoundRobinScripts \o MessageScripts \o FailingScripts

(***************************************************************************)
(* Inputs: tensors whose elements name the rank, the tensor and the place. *)
(***************************************************************************)

T(r, k, n) == [j \in 1 .. n |-> 100 * r + 10 * k + j]

\* shape[k] is the length of a rank's tensor k.
Shaped(shape) == [r \in Rank |-> [k \in DOMAIN shape |-> T(r, k, shape[k])]]

NoSplits == [r \in Rank |-> <<>>]

Case(o, root, ins, splits) ==
  [op |-> o, root |-> root, tensor |-> 1, ins |-> ins, splits |-> splits]

\* One size for all tensors of a rank; the root's last tensor is the one meant.
EvenCases ==
  {[Case(o, root, Shaped(shape), NoSplits) EXCEPT !.tensor = Len(shape)] :
     o \in {"broadcast", "allreduce", "reduce", "allgather", "gather"}, root \in Rank,
     shape \in {<<1>>, <<3>>, <<2, 2>>}}

CoalescedCases ==
  {Case(o, 0, Shaped(shape), NoSplits) :
     o \in {"allreduce_coalesced", "allgather_coalesced"},
     shape \in {<<2>>, <<1, 3>>, <<2, 0, 1>>}}

ScatterCases ==
  {Case(o, root, Shaped([k \in 1 .. N |-> n]), NoSplits) :
     o \in {"scatter", "reduce_scatter"}, root \in Rank, n \in 1 .. 2}

\* Rank s sends sent[s][r + 1] elements to rank r.
Matrices == [Rank -> {<<1, 2, 0>>, <<0, 0, 3>>, <<2, 1, 1>>}]

AlltoallCases ==
  {Case("alltoall_base", 0, Shaped(<<3 * n>>), NoSplits) : n \in 1 .. 2}
    \cup {Case("alltoall_base", 0, [r \in Rank |-> <<T(r, 0, AddUp(m[r]))>>], m) :
            m \in Matrices}
    \cup {Case("alltoall", 0,
                [r \in Rank |-> [k \in 1 .. N |-> T(r, k, m[r][k])]], NoSplits) :
            m \in Matrices}

SparseTensors == {<<>>, <<<<2, 5>>, <<0, 1>>>>, <<<<1, 4>>, <<1, 3>>, <<2, 9>>>>}

SparseCases ==
  {Case("sparse", 0, [r \in Rank |-> IF r = 0 THEN <<f[r], <<<<0, 8>>>>>> ELSE <<f[r]>>],
        NoSplits) : f \in [Rank -> SparseTensors]}

SomeCases ==
  EvenCases \cup CoalescedCases \cup ScatterCases \cup AlltoallCases \cup SparseCases

\* The split sizes above are ones the operations accept.
ASSUME SplitsAccepted ==
  \A c \in AlltoallCases, r \in Rank :
    c.op = "alltoall_base" => checkSplitSizes(c.splits[r], c.ins[r][1])
=============================================================================
