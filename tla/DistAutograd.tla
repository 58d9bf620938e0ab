---------------------------- MODULE DistAutograd ----------------------------
(***************************************************************************)
(* Distributed autograd: the context a forward pass leaves on the workers  *)
(* it reaches (context/, utils.cpp, request_callback_no_python.cpp), the   *)
(* backward pass that follows it (engine/dist_engine.cpp), and the release *)
(* of the context.                                                         *)
(*                                                                         *)
(* One context.  Plan is the tree of calls of the forward pass; the        *)
(* request of a call carries tensors that require grad or not, the         *)
(* response always does.  A gradient is an integer: each node of the graph *)
(* passes on the sum of what it received, so what reaches the parameter of *)
(* a worker is the number of paths to it.                                  *)
(***************************************************************************)
EXTENDS Integers, FiniteSets, FiniteSetsExt

CONSTANTS
  Worker,
  Starter,      \* the worker that opens the context and calls backward
  Plans,        \* call -> [from, to, parent, grad]: the forward passes
  Top,          \* the parent of a call the starter makes by itself
  Root,         \* the graph root of the starter
  MaxFails      \* bound: calls that carry gradients and fail

VARIABLES
  plan,             \* the forward pass
  stage,            \* how far each of its calls is
  hasContext,       \* the workers whose container holds the context
  knownWorkerIds,   \* knownWorkerIds_
  sendFns, recvFns, \* sendAutogradFunctions_, recvAutogradFunctions_
  accumulated,      \* accumulatedGrads_
  initialized,      \* initializedContextIds_
  pass,             \* the backward pass on each worker
  first,            \* what began it: the root or a send function, its gradient
  inputs,           \* of each recv function: dependencies_, and the sum so far
  outstandingTasks, \* outstanding_tasks_ of the GraphTask
  hasError,         \* workers whose GraphTask has an error
  launched,         \* nodes handed to the engine, with their gradient
  outstandingRpcs,  \* outStandingRpcs_
  awaited,          \* those that are waited for at the end of the pass
  rpcs,             \* the gradient calls whose future is open
  net,              \* messages under way
  fails,            \* how many calls have failed
  result            \* of backward()

fwd == <<plan, stage, sendFns, recvFns>>
store == <<hasContext, knownWorkerIds>>
engine == <<accumulated, initialized, pass, first, inputs, outstandingTasks, hasError,
            launched, outstandingRpcs, awaited, rpcs>>
vars == <<fwd, store, engine, net, fails, result>>

Call == DOMAIN plan
Req(c) == <<c, "req">>
Resp(c) == <<c, "resp">>
Children(c) == {d \in Call : plan[d].parent = c}
SendSide(m) == IF m[2] = "req" THEN plan[m[1]].from ELSE plan[m[1]].to
RecvSide(m) == IF m[2] = "req" THEN plan[m[1]].to ELSE plan[m[1]].from

(* The recv functions a node of the local graph has edges to; it also has  *)
(* one to the parameter of its worker (collect_next_edges).                *)
NextEdges(n) ==
  CASE n = Root       -> {Resp(c) : c \in Children(Top)}
    [] n # Root /\ n[2] = "req"  -> {Req(c) : c \in {plan[n[1]].parent} \cap Call}
    [] n # Root /\ n[2] = "resp" -> {Req(n[1])} \cup {Resp(c) : c \in Children(n[1])}

Task(w, n, val) == [at |-> w, node |-> n, val |-> val]
Message(kind, to, m, val) == [kind |-> kind, to |-> to, msg |-> m, val |-> val]
Answer(m, ok) == Message(IF ok THEN "ack" ELSE "nack", RecvSide(m), m, 0)
Sends(w) == {m \in sendFns : SendSide(m) = w}

Init ==
  /\ plan \in Plans
  /\ stage = [c \in Call |-> "todo"]
  /\ hasContext = {Starter}                       \* newContext
  /\ knownWorkerIds = [w \in Worker |-> {}]
  /\ sendFns = {} /\ recvFns = {}
  /\ accumulated = [w \in Worker |-> 0]
  /\ initialized = {} /\ pass = [w \in Worker |-> "none"]
  /\ first = [w \in Worker |-> Task(w, Root, 1)]
  /\ inputs = [m \in Call \X {"req", "resp"} |-> [left |-> 0, sum |-> 0]]
  /\ outstandingTasks = [w \in Worker |-> 0] /\ hasError = {}
  /\ launched = {} /\ outstandingRpcs = [w \in Worker |-> {}]
  /\ awaited = [w \in Worker |-> {}]
  /\ rpcs = {} /\ net = {} /\ fails = 0 /\ result = "none"

----------------------------------------------------------------------------
(* The forward pass.                                                       *)

(* getMessageWithAutograd: the send function of a message whose tensors    *)
(* require grad, and the worker it goes to, are recorded in the context.   *)
recordFirstOnly(m, requiresGrad) == \* seeded fault: one send function per worker
  LET w == SendSide(m)
      new == requiresGrad /\ RecvSide(m) \notin knownWorkerIds[w]
  IN  /\ sendFns' = IF new THEN sendFns \cup {m} ELSE sendFns
      /\ knownWorkerIds' = [knownWorkerIds EXCEPT ![w] = @ \cup {RecvSide(m)}]
getMessageWithAutograd(m, requiresGrad) ==
  LET w == SendSide(m)
  IN  /\ sendFns' = IF requiresGrad THEN sendFns \cup {m} ELSE sendFns
      /\ knownWorkerIds' = [knownWorkerIds EXCEPT ![w] = @ \cup {RecvSide(m)}]

sendMessageWithAutograd(c) ==
  /\ stage[c] = "todo" /\ plan[c].from \in hasContext
  /\ plan[c].parent # Top => stage[plan[c].parent] = "running"
  /\ stage' = [stage EXCEPT ![c] = "sent"]
  /\ getMessageWithAutograd(Req(c), plan[c].grad)
  /\ UNCHANGED <<plan, recvFns, hasContext, engine, net, fails, result>>

(* addRecvRpcBackward: the receiver gets or creates the context, and adds  *)
(* the recv function.                                                      *)
addRecvRpcBackward(m, requiresGrad) ==
  /\ hasContext' = hasContext \cup {RecvSide(m)}
  /\ recvFns' = IF requiresGrad THEN recvFns \cup {m} ELSE recvFns

processForwardAutogradReq(c) ==
  /\ stage[c] = "sent"
  /\ stage' = [stage EXCEPT ![c] = "running"]
  /\ addRecvRpcBackward(Req(c), plan[c].grad)
  /\ UNCHANGED <<plan, sendFns, knownWorkerIds, engine, net, fails, result>>

forwardAutogradResp(c) ==
  /\ stage[c] = "running" /\ \A d \in Children(c) : stage[d] = "done"
  /\ stage' = [stage EXCEPT ![c] = "answered"]
  /\ getMessageWithAutograd(Resp(c), TRUE)
  /\ UNCHANGED <<plan, recvFns, hasContext, engine, net, fails, result>>

receiveForwardResp(c) ==
  /\ stage[c] = "answered"
  /\ stage' = [stage EXCEPT ![c] = "done"]
  /\ addRecvRpcBackward(Resp(c), TRUE)
  /\ UNCHANGED <<plan, sendFns, knownWorkerIds, engine, net, fails, result>>

----------------------------------------------------------------------------
(* The backward pass.                                                      *)

(* computeDependencies: the engine waits for every send function of the    *)
(* worker, and the root; a recv function waits for all that have an edge   *)
(* to it.  The pass is marked as initialized.                              *)
computeWithDummyRoot(w, task) == \* seeded fault: the dummy root is counted too
  LET nodes == Sends(w) \cup {task.node}
  IN  /\ initialized' = initialized \cup {w}
      /\ pass' = [pass EXCEPT ![w] = "initialized"]
      /\ first' = [first EXCEPT ![w] = task]
      /\ inputs' = [m \in DOMAIN inputs |->
           IF RecvSide(m) # w THEN inputs[m]
           ELSE [left |-> Cardinality({n \in nodes : m \in NextEdges(n)}), sum |-> 0]]
      /\ outstandingTasks' = [outstandingTasks EXCEPT ![w] = Cardinality(nodes \cup {Root})]
      /\ hasError' = hasError \ {w}
computeDependencies(w, task) ==
  LET nodes == Sends(w) \cup {task.node}
  IN  /\ initialized' = initialized \cup {w}
      /\ pass' = [pass EXCEPT ![w] = "initialized"]
      /\ first' = [first EXCEPT ![w] = task]
      /\ inputs' = [m \in DOMAIN inputs |->
           IF RecvSide(m) # w THEN inputs[m]
           ELSE [left |-> Cardinality({n \in nodes : m \in NextEdges(n)}), sum |-> 0]]
      /\ outstandingTasks' = [outstandingTasks EXCEPT ![w] = Cardinality(nodes)]
      /\ hasError' = hasError \ {w}

(* execute: backward() on the starter.                                     *)
execute ==
  /\ result = "none" /\ \A c \in Call : stage[c] = "done"
  /\ Starter \in hasContext /\ Starter \notin initialized
  /\ computeDependencies(Starter, Task(Starter, Root, 1))
  /\ result' = "running"
  /\ UNCHANGED <<fwd, store, accumulated, launched, outstandingRpcs, awaited, rpcs, net,
                 fails>>

(* runEngineAndAccumulateGradients: the list of outstanding RPCs is        *)
(* cleared, and the engine launched on what began the pass.                *)
runEngineAndAccumulateGradients(w) ==
  /\ pass[w] = "initialized"
  /\ pass' = [pass EXCEPT ![w] = "running"]
  /\ outstandingRpcs' = [outstandingRpcs EXCEPT ![w] = {}]
  /\ launched' = launched \cup {first[w]}
  /\ UNCHANGED <<fwd, store, accumulated, initialized, first, inputs, outstandingTasks,
                 hasError, awaited, rpcs, net, fails, result>>

(* execute_graph_task_until_ready_queue_empty: the gradient is accumulated *)
(* in the parameter, and passed to the recv functions; one that has got    *)
(* all it waits for sends its sum to the worker it came from (apply), and  *)
(* the RPC is recorded.  After an error nothing is evaluated.              *)
execute_graph_task(t) ==
  LET w == t.at
      R == NextEdges(t.node) \cap recvFns
      ready == {r \in R : inputs[r].left = 1}
  IN  /\ launched' = launched \ {t}
      /\ outstandingTasks' = [outstandingTasks EXCEPT ![w] = @ - 1]
      /\ IF w \in hasError THEN UNCHANGED <<accumulated, inputs, net, rpcs, outstandingRpcs>>
         ELSE /\ accumulated' = [accumulated EXCEPT ![w] = @ + t.val]
              /\ inputs' = [m \in DOMAIN inputs |-> IF m \notin R THEN inputs[m] ELSE
                             [left |-> inputs[m].left - 1, sum |-> inputs[m].sum + t.val]]
              /\ net' = net \cup {Message("grads", SendSide(r), r, inputs'[r].sum) : r \in ready}
              /\ rpcs' = rpcs \cup ready
              /\ outstandingRpcs' = [outstandingRpcs EXCEPT ![w] = @ \cup ready]
      /\ UNCHANGED <<fwd, store, initialized, pass, first, hasError, awaited, fails, result>>

reply(x, ok) == net' = (net \ {x}) \cup {Answer(x.msg, ok)}

(* processBackwardAutogradReq, executeSendFunctionAsync: the first         *)
(* gradient to arrive begins the pass and is answered at its end; another  *)
(* is handed to the engine and answered at once.  A missing context, send  *)
(* function or GraphTask throws.                                           *)
processBackwardAutogradReq(x) ==
  LET w == x.to
      found == w \in hasContext /\ x.msg \in sendFns
      cleaning == pass[w] \in {"cleanOk", "cleanErr"}
  IN  /\ x.kind = "grads"
      /\ \/ ~(found /\ ~cleaning) /\ reply(x, FALSE) /\ UNCHANGED engine
         \/ /\ found /\ w \notin initialized
            /\ computeDependencies(w, Task(w, x.msg, x.val))
            /\ net' = net \ {x}
            /\ UNCHANGED <<accumulated, launched, outstandingRpcs, awaited, rpcs>>
         \/ /\ found /\ w \in initialized /\ ~cleaning
            /\ launched' = launched \cup {Task(w, x.msg, x.val)}
            /\ reply(x, TRUE)
            /\ UNCHANGED <<accumulated, initialized, pass, first, inputs, outstandingTasks,
                           hasError, outstandingRpcs, awaited, rpcs>>
      /\ UNCHANGED <<fwd, store, fails, result>>

(* The future of a gradient call completes.  An error is told to the       *)
(* GraphTask if there is one, and to whoever waits for the RPCs            *)
(* (addOutstandingRpc, clearAndWaitForOutstandingRpcsAsync).               *)
settle(r, ok) ==
  LET w == RecvSide(r)
  IN  /\ rpcs' = rpcs \ {r}
      /\ outstandingRpcs' = [outstandingRpcs EXCEPT ![w] = @ \ {r}]
      /\ awaited' = [awaited EXCEPT ![w] = @ \ {r}]
      /\ hasError' = IF ~ok /\ pass[w] \in {"initialized", "running"}
                     THEN hasError \cup {w} ELSE hasError
      /\ pass' = [pass EXCEPT ![w] = IF ~ok /\ r \in awaited[w] THEN "cleanErr" ELSE @]
      /\ UNCHANGED <<fwd, store, accumulated, initialized, first, inputs, outstandingTasks,
                     launched, result>>

receiveAck(x) ==
  /\ x.kind \in {"ack", "nack"}
  /\ net' = net \ {x}
  /\ \/ x.msg \in rpcs /\ settle(x.msg, x.kind = "ack")
     \/ x.msg \notin rpcs /\ UNCHANGED <<fwd, store, engine, result>>
  /\ UNCHANGED fails

failRpc(r) ==
  /\ r \in rpcs /\ fails < MaxFails
  /\ fails' = fails + 1
  /\ settle(r, FALSE)
  /\ UNCHANGED net

(* Once all its tasks have run, or one has failed, the engine is done; the *)
(* RPCs it has sent are waited for.                                        *)
clearAndWaitNot(w) == \* seeded fault: the RPCs are not waited for
  /\ pass[w] = "running" /\ (outstandingTasks[w] = 0 \/ w \in hasError)
  /\ pass' = [pass EXCEPT ![w] = IF w \in hasError THEN "cleanErr" ELSE "cleanOk"]
  /\ outstandingRpcs' = [outstandingRpcs EXCEPT ![w] = {}]
  /\ UNCHANGED <<fwd, store, accumulated, initialized, first, inputs, outstandingTasks,
                 hasError, launched, awaited, rpcs, net, fails, result>>
clearAndWaitForOutstandingRpcsAsync(w) ==
  /\ UNCHANGED <<fwd, store, accumulated, initialized, first, inputs, outstandingTasks,
                 hasError, launched, rpcs, net, fails, result>>
  /\ \/ /\ pass[w] = "running" /\ (outstandingTasks[w] = 0 \/ w \in hasError)
        /\ pass' = [pass EXCEPT ![w] = IF w \in hasError THEN "cleanErr" ELSE "waiting"]
        /\ outstandingRpcs' = [outstandingRpcs EXCEPT ![w] = {}]
        /\ awaited' = [awaited EXCEPT ![w] = outstandingRpcs[w]]
     \/ /\ pass[w] = "waiting" /\ awaited[w] = {}
        /\ pass' = [pass EXCEPT ![w] = "cleanOk"]
        /\ UNCHANGED <<outstandingRpcs, awaited>>

(* cleanupBackwardPass: the GraphTask has been reset; the outstanding RPCs *)
(* and the mark are cleared, and what began the pass is answered.          *)
cleanupBackwardPass(w) ==
  /\ pass[w] \in {"cleanOk", "cleanErr"}
  /\ pass' = [pass EXCEPT ![w] = "none"]
  /\ outstandingRpcs' = [outstandingRpcs EXCEPT ![w] = {}]
  /\ awaited' = [awaited EXCEPT ![w] = {}]
  /\ initialized' = initialized \ {w}
  /\ launched' = {t \in launched : t.at # w}
  /\ LET m == first[w].node
         ok == pass[w] = "cleanOk"
     IN  \/ m = Root /\ result' = (IF ok THEN "ok" ELSE "error") /\ UNCHANGED net
         \/ /\ m # Root /\ UNCHANGED result
            /\ net' = net \cup {Answer(m, ok)}
  /\ UNCHANGED <<fwd, store, accumulated, first, inputs, outstandingTasks, hasError, rpcs,
                 fails>>

----------------------------------------------------------------------------
(* The release of the context.                                             *)

(* sendReleaseContextRpc, with retries                                     *)
sendReleaseContextRpc(w, others) ==
  net' = others \cup {Message("cleanup", x, Root, 0) : x \in knownWorkerIds[w]}

(* releaseContext: the starter leaves the context, its calls returned.     *)
releaseContext ==
  /\ Starter \in hasContext /\ result # "running" /\ \A c \in Call : stage[c] = "done"
  /\ hasContext' = hasContext \ {Starter}
  /\ sendReleaseContextRpc(Starter, net)
  /\ UNCHANGED <<fwd, knownWorkerIds, engine, fails, result>>

releaseHere(x) == \* seeded fault: the workers known here are not told
  /\ x.kind = "cleanup"
  /\ hasContext' = hasContext \ {x.to}
  /\ net' = net \ {x}
  /\ UNCHANGED <<fwd, knownWorkerIds, engine, fails, result>>
releaseContextIfPresent(x) ==
  /\ x.kind = "cleanup"
  /\ hasContext' = hasContext \ {x.to}
  /\ IF x.to \in hasContext THEN sendReleaseContextRpc(x.to, net \ {x}) ELSE net' = net \ {x}
  /\ UNCHANGED <<fwd, knownWorkerIds, engine, fails, result>>

----------------------------------------------------------------------------
ForwardStep ==
  \E c \in Call : sendMessageWithAutograd(c) \/ processForwardAutogradReq(c)
                    \/ forwardAutogradResp(c) \/ receiveForwardResp(c)
NetStep ==
  \E x \in net : processBackwardAutogradReq(x) \/ receiveAck(x) \/ releaseContextIfPresent(x)
EngineStep ==
  \/ \E w \in Worker : runEngineAndAccumulateGradients(w)
                         \/ clearAndWaitForOutstandingRpcsAsync(w) \/ cleanupBackwardPass(w)
  \/ \E t \in launched : execute_graph_task(t)

Next ==
  ForwardStep \/ execute \/ EngineStep \/ NetStep \/ releaseContext \/ \E r \in rpcs : failRpc(r)

Spec == Init /\ [][Next]_vars

(* Messages are handled, threads run, and the context is left in the end.  *)
FairSpec ==
  Spec /\ WF_vars(ForwardStep) /\ WF_vars(NetStep) /\ WF_vars(EngineStep) /\ WF_vars(releaseContext)

----------------------------------------------------------------------------
(* The gradient that reaches send function m: the sum over the paths from  *)
(* the root to it.                                                         *)
GradAt[m \in Call \X {"req", "resp"}] ==
  IF m[2] = "resp"
  THEN IF plan[m[1]].parent = Top THEN 1 ELSE GradAt[Resp(plan[m[1]].parent)]
  ELSE GradAt[Resp(m[1])] + MapThenSumSet(LAMBDA d : IF plan[d].grad THEN GradAt[Req(d)] ELSE 0,
                                          Children(m[1]))
Expected(w) ==
  MapThenSumSet(LAMBDA m : GradAt[m], Sends(w)) + (IF w = Starter THEN 1 ELSE 0)

(* When backward() returns without error, every parameter on every worker  *)
(* has its whole gradient, each contribution counted once, and nothing of  *)
(* the pass is left running anywhere (execute, executeSendFunctionAsync).  *)
BackwardComplete ==
  result = "ok" => /\ \A w \in Worker : accumulated[w] = Expected(w)
                   /\ initialized = {} /\ launched = {}

(* backward() fails only when a call that carries gradients has failed: a  *)
(* gradient always finds the context and its send function on the worker   *)
(* it returns to, though contexts are made by messages (addSendFunction,   *)
(* retrieveSendFunction).                                                  *)
FailsOnlyByRpc == result = "error" => fails > 0

(* backward() returns, whatever call fails (execute).                      *)
BackwardReturns == result = "running" ~> result \in {"ok", "error"}

(* Once the starter has left the context, every worker that has it, known  *)
(* to the starter or only to another worker, releases it, whatever call    *)
(* failed before (releaseContext, releaseContextIfPresent).                *)
ContextsReleased == Starter \notin hasContext ~> hasContext = {}
=============================================================================
