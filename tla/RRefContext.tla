---------------------------- MODULE RRefContext ----------------------------
(***************************************************************************)
(* The distributed reference count of one RRef: the maps that the          *)
(* RRefContext of each worker keeps for it (rref_context.cpp), the handlers *)
(* of the RRef messages (request_callback_no_python.cpp and                *)
(* request_callback_impl.cpp) and the calls that create, share, read and   *)
(* drop the RRef (python_functions.cpp, py_rref.cpp, rref_impl.cpp).       *)
(*                                                                         *)
(* Every map of RRefContext is keyed by RRefId or ForkId and no operation  *)
(* of this module touches two RRefs, so one RRef, owned by Owner, is       *)
(* modelled.  A map restricted to it is a set of fork ids.                 *)
(*                                                                         *)
(* Messages are a set: rref_impl.h assumes no delivery order.  The three   *)
(* control messages go through RpcAgent::sendWithRetries, so each attempt  *)
(* is a message of its own; an attempt that was given up for lost may      *)
(* still arrive.  A message that is never received is a lost one.          *)
(***************************************************************************)
EXTENDS Naturals, FiniteSets

CONSTANTS
  Worker,       \* the workers of the RPC group
  Owner,        \* the worker that owns the RRef
  Fork,         \* fork ids that genGloballyUniqueId may hand out
  RRefId,       \* the id of the RRef; also the fork id of a remote() to self
  MaxRetries,   \* RpcRetryOptions::maxRetries
  SendErrors,   \* whether attempts at a control message may be reported failed
  EarlyShare,   \* which unconfirmed UserRRefs the application passes on:
                \* subset of {"creator", "forked"}
  ScriptPath,   \* TRUE: remote() of a builtin or TorchScript function
                \* FALSE: remote() of a Python function
  RemoteErrors  \* errors the future of remote() may meet:
                \* subset of {"timeout", "unknown"}

ASSUME OwnerAssumption == Owner \in Worker
ASSUME IdAssumption == RRefId \notin Fork
ASSUME RetriesAssumption == MaxRetries \in Nat /\ SendErrors \in BOOLEAN
ASSUME EarlyShareAssumption == EarlyShare \subseteq {"creator", "forked"}
ASSUME ScriptPathAssumption == ScriptPath \in BOOLEAN
ASSUME RemoteErrorsAssumption == RemoteErrors \subseteq {"timeout", "unknown"}

VARIABLES
  origin,           \* how the RRef came to be: "none", "user", "self", "local"
  creator,          \* {f} for the fork of the creating user, {} otherwise
  used,             \* fork ids handed out
  parent,           \* the fork (or RRefId: the OwnerRRef) each fork came from
  dst,              \* the worker each fork was sent to
  users,            \* UserRRef objects that exist
  handle,           \* UserRRefs the application or a running call refers to
  pendingUsers,     \* pendingUsers_ of the worker dst[f]
  confirmedUsers,   \* confirmedUsers_ of the worker dst[f]
  pendingChildren,  \* pendingChildren_ of the worker that forked f
  deletedOnOwner,   \* UserRRef::deletedOnOwner_
  timedOut,         \* RRef::timedOut_; RRefId stands for the OwnerRRef
  owners,           \* owners_[RRefId]: number of an OwnerRRef object, 0: none
  forks,            \* forks_[RRefId]; the entry exists iff it is not empty
  created,          \* OwnerRRef objects ever created are 1 .. created
  ownerHandles,     \* OwnerRRef objects the owner's application refers to
  valued,           \* OwnerRRef objects whose future_ is completed
  pickling,         \* prepareChildFork between its two critical sections
  call,             \* the remote() request on its way and in its handler
  callRRef,         \* the OwnerRRef object the handler of remote() works on
  remote,           \* the future of remote() at its caller
  fetch,            \* to_here() of each fork
  fetchRRef,        \* the OwnerRRef object a to_here() waits for
  msgs,             \* RPC messages in flight
  outstanding,      \* control messages whose sendWithRetries future is open
  attempt,          \* the current attempt (retryCount_) of each of them
  failed            \* control messages given up after MaxRetries

userVars == <<users, handle, pendingUsers, confirmedUsers, pendingChildren,
              deletedOnOwner, timedOut>>
ownerVars == <<owners, forks, created, ownerHandles, valued, pickling>>
forkVars == <<used, parent, dst>>
callVars == <<origin, creator, call, callRRef, remote>>
fetchVars == <<fetch, fetchRRef>>
netVars == <<msgs, outstanding, attempt, failed>>
vars == <<userVars, ownerVars, forkVars, callVars, fetchVars, netVars>>

Control == {"FORK_REQUEST", "CHILD_ACCEPT", "USER_DELETE"}
Message ==
  [type : Control \cup {"CALL", "FETCH"}, ack : BOOLEAN, fork : Fork,
   attempt : Nat]

Msg(type, f, n) == [type |-> type, ack |-> FALSE, fork |-> f, attempt |-> n]
Ack(type, f, n) == [type |-> type, ack |-> TRUE, fork |-> f, attempt |-> n]

Init ==
  /\ origin = "none" /\ creator = {}
  /\ used = {}
  /\ parent = [f \in Fork |-> RRefId]
  /\ dst = [f \in Fork |-> Owner]
  /\ users = {} /\ handle = {}
  /\ pendingUsers = {} /\ confirmedUsers = {} /\ pendingChildren = {}
  /\ deletedOnOwner = {} /\ timedOut = {}
  /\ owners = 0 /\ forks = {} /\ created = 0
  /\ ownerHandles = {} /\ valued = {}
  /\ pickling = [f \in Fork |-> 0]
  /\ call = "none" /\ callRRef = 0 /\ remote = "none"
  /\ fetch = [f \in Fork |-> "none"]
  /\ fetchRRef = [f \in Fork |-> 0]
  /\ msgs = {} /\ outstanding = {} /\ failed = {}
  /\ attempt = [c \in Control \X Fork |-> 0]

----------------------------------------------------------------------------
(* Critical sections of RRefContext shared by several operations.          *)

(* getOrCreateOwnerRRef: the object after the call, and the to_here()      *)
(* requests of pendingOwners_ that a creation completes.                   *)
ownerAfter == IF owners = 0 THEN created + 1 ELSE owners
createOwnerSilently == \* seeded fault: the waiting futures are not completed
  /\ created' = IF owners = 0 THEN created + 1 ELSE created
  /\ UNCHANGED <<fetch, fetchRRef>>
createOwnerAgain == \* seeded fault: owners_ is not looked up
  /\ created' = created + 1
  /\ fetch' = [f \in Fork |-> IF fetch[f] = "pendingOwner"
                              THEN "waitValue" ELSE fetch[f]]
  /\ fetchRRef' = [f \in Fork |-> IF fetch[f] = "pendingOwner"
                                  THEN created + 1 ELSE fetchRRef[f]]
createOwner ==
  /\ created' = IF owners = 0 THEN created + 1 ELSE created
  /\ fetch' = [f \in Fork |-> IF owners = 0 /\ fetch[f] = "pendingOwner"
                              THEN "waitValue" ELSE fetch[f]]
  /\ fetchRRef' = [f \in Fork |-> IF owners = 0 /\ fetch[f] = "pendingOwner"
                                  THEN ownerAfter ELSE fetchRRef[f]]
getOrCreateOwnerRRef == createOwner /\ owners' = ownerAfter

(* delForkOfOwner: idempotent, drops the OwnerRRef with its last fork.     *)
delForkOfOwner(id) ==
  /\ forks' = forks \ {id}
  /\ owners' = IF forks # {} /\ forks \subseteq {id} THEN 0 ELSE owners

ignoreFork(f) == UNCHANGED forks \* seeded fault: acknowledged, not counted
addForkOfOwnerIfNotPresent(f) == forks' = forks \cup {f}

(* delPendingUser: the UserRRef moves to confirmedUsers_.                  *)
delPendingUser(F) ==
  /\ pendingUsers' = pendingUsers \ F
  /\ confirmedUsers' = confirmedUsers \cup F

(* RpcAgent::sendWithRetries: the first attempt of a control message.      *)
FirstTry(type, f) == Msg(type, f, 0)

----------------------------------------------------------------------------
(* Creation: rpc.remote() and rpc.RRef().                                  *)

(* remote() to another worker: createUserRRef, send, addPendingUser.       *)
RemoteToOwner(f, w) ==
  /\ origin = "none" /\ w # Owner
  /\ origin' = "user" /\ creator' = {f}
  /\ used' = {f}
  /\ dst' = [dst EXCEPT ![f] = w]
  /\ users' = {f} /\ handle' = {f} /\ pendingUsers' = {f}
  /\ call' = "sent" /\ remote' = "wait"
  /\ UNCHANGED <<parent, confirmedUsers, pendingChildren, deletedOnOwner,
                 timedOut, ownerVars, callRRef, fetchVars, netVars>>

(* remote() to self: createOwnerRRef, addSelfAsFork, send.                 *)
RemoteToSelf ==
  /\ origin = "none"
  /\ origin' = "self"
  /\ created' = 1 /\ owners' = 1 /\ ownerHandles' = {1}
  /\ forks' = {RRefId}
  /\ call' = "sent" /\ remote' = "wait"
  /\ UNCHANGED <<creator, forkVars, userVars, valued, pickling, callRRef,
                 fetchVars, netVars>>

(* rpc.RRef(value): the OwnerRRef is not put into owners_.                 *)
LocalRRef ==
  /\ origin = "none"
  /\ origin' = "local"
  /\ created' = 1 /\ ownerHandles' = {1} /\ valued' = {1}
  /\ UNCHANGED <<creator, forkVars, userVars, owners, forks, pickling, call,
                 callRRef, remote, fetchVars, netVars>>

(* The handler of remote() looks its OwnerRRef up.                         *)
ProcessRemoteCall ==
  /\ call = "sent" /\ origin = "user"
  /\ call' = "owned"
  /\ getOrCreateOwnerRRef
  /\ callRRef' = ownerAfter
  /\ UNCHANGED <<origin, creator, remote, forkVars, userVars, forks,
                 ownerHandles, valued, pickling, netVars>>

(* remote() to self: getOwnerRRef(forceCreated) throws when it is gone.    *)
ProcessRemoteCallOnSelf ==
  /\ call = "sent" /\ origin = "self"
  /\ call' = IF owners = 0 THEN "failed" ELSE "forked"
  /\ callRRef' = owners
  /\ UNCHANGED <<origin, creator, remote, forkVars, userVars, ownerVars,
                 fetchVars, netVars>>

(* processPythonRemoteCall: addForkOfOwner before the function runs.       *)
PythonAddFork ==
  /\ call = "owned" /\ ~ScriptPath
  /\ call' = "forked"
  /\ forks' = forks \cup creator
  /\ UNCHANGED <<origin, creator, callRRef, remote, forkVars, userVars, owners,
                 created, ownerHandles, valued, pickling, fetchVars, netVars>>

(* The function finishes: setValue or setError on the OwnerRRef object,    *)
(* then the reply; a Python function, or any call on self.                 *)
FinishForkedCall ==
  /\ call = "forked"
  /\ call' = "done"
  /\ valued' = valued \cup {callRRef}
  /\ UNCHANGED <<origin, creator, callRRef, remote, forkVars, userVars, owners,
                 forks, created, ownerHandles, pickling, fetchVars, netVars>>

(* processScriptRemoteCall: setValue, with no fork registered yet.         *)
ScriptSetValue ==
  /\ call = "owned" /\ ScriptPath
  /\ call' = "valued"
  /\ valued' = valued \cup {callRRef}
  /\ UNCHANGED <<origin, creator, callRRef, remote, forkVars, userVars, owners,
                 forks, created, ownerHandles, pickling, fetchVars, netVars>>

(* postProcessing: addForkOfOwner and the reply.                           *)
ScriptPostProcessing ==
  /\ call = "valued"
  /\ call' = "done"
  /\ forks' = forks \cup creator
  /\ UNCHANGED <<origin, creator, callRRef, remote, forkVars, userVars, owners,
                 created, ownerHandles, valued, pickling, fetchVars, netVars>>

(* The request cannot be run (it does not deserialize): an error reply.    *)
RejectRemoteCall ==
  /\ call = "sent" /\ "unknown" \in RemoteErrors
  /\ call' = "failed"
  /\ UNCHANGED <<origin, creator, callRRef, remote, forkVars, userVars,
                 ownerVars, fetchVars, netVars>>

(* confirmPendingUser after RemoteRet.                                     *)
ConfirmPendingUser ==
  /\ remote = "wait" /\ call = "done" /\ origin = "user"
  /\ remote' = "ok"
  /\ delPendingUser(creator)
  /\ UNCHANGED <<origin, creator, call, callRRef, forkVars, users, handle,
                 pendingChildren, deletedOnOwner, timedOut, ownerVars,
                 fetchVars, netVars>>

(* finishCreatingOwnerRRef after RemoteRet.                                *)
FinishCreatingOwnerRRef ==
  /\ remote = "wait" /\ call = "done" /\ origin = "self"
  /\ remote' = "ok"
  /\ delForkOfOwner(RRefId)
  /\ UNCHANGED <<origin, creator, call, callRRef, forkVars, userVars, created,
                 ownerHandles, valued, pickling, fetchVars, netVars>>

(* Both callbacks on an error of unknown type: handleError throws, so      *)
(* neither delPendingUser nor delForkOfOwner runs.                         *)
RemoteUnknownError ==
  /\ remote = "wait" /\ call = "failed"
  /\ remote' = "err"
  /\ UNCHANGED <<origin, creator, call, callRRef, forkVars, userVars,
                 ownerVars, fetchVars, netVars>>

(* Both callbacks on a timeout: setTimedOut, then the same clean-up as on  *)
(* success.  On the owner getOwnerRRef(forceCreated) comes first.          *)
RemoteTimeout ==
  /\ remote = "wait" /\ "timeout" \in RemoteErrors
  /\ remote' = "timeout"
  /\ \/ /\ origin = "user"
        /\ timedOut' = timedOut \cup creator
        /\ delPendingUser(creator)
        /\ UNCHANGED <<owners, forks>>
     \/ /\ origin = "self"
        /\ timedOut' = timedOut \cup {RRefId}
        /\ delForkOfOwner(RRefId)
        /\ UNCHANGED <<pendingUsers, confirmedUsers>>
  /\ UNCHANGED <<origin, creator, call, callRRef, forkVars, users, handle,
                 pendingChildren, deletedOnOwner, created, ownerHandles,
                 valued, pickling, fetchVars, netVars>>

----------------------------------------------------------------------------
(* Sharing: an RPC request or reply carries RRefForkData.                  *)

NewFork(f, p, w) ==
  /\ f \notin used
  /\ used' = used \cup {f}
  /\ parent' = [parent EXCEPT ![f] = p]
  /\ dst' = [dst EXCEPT ![f] = w]

(* prepareChildFork of an OwnerRRef, first critical section.               *)
OwnerFork(f, w, i) ==
  /\ i \in ownerHandles /\ RRefId \notin timedOut
  /\ NewFork(f, RRefId, w)
  /\ forks' = forks \cup {f}
  /\ pickling' = [pickling EXCEPT ![f] = i]
  /\ UNCHANGED <<userVars, owners, created, ownerHandles, valued, callVars,
                 fetchVars, netVars>>

(* prepareChildFork, second critical section, and the send.                *)
OwnerForkSend(f) ==
  /\ pickling[f] # 0
  /\ owners' = pickling[f]
  /\ pickling' = [pickling EXCEPT ![f] = 0]
  /\ msgs' = msgs \cup {Msg("CALL", f, 0)}
  /\ UNCHANGED <<userVars, forks, created, ownerHandles, valued, forkVars,
                 callVars, fetchVars, outstanding, attempt, failed>>

(* A function that takes UserRRefs runs once they are confirmed; the       *)
(* creator holds its UserRRef, and the caller one it got in a reply,       *)
(* before that.                                                            *)
MayShare(p) ==
  \/ p \in confirmedUsers
  \/ p \in pendingUsers /\ (IF p \in creator THEN "creator" ELSE "forked")
                             \in EarlyShare

(* prepareChildFork of a UserRRef: addPendingChild keeps it alive.         *)
UserFork(p, f, w) ==
  /\ p \in users \cap handle /\ MayShare(p)
  /\ p \notin timedOut /\ p \notin deletedOnOwner
  /\ NewFork(f, p, w)
  /\ pendingChildren' = pendingChildren \cup {f}
  /\ msgs' = msgs \cup {Msg("CALL", f, 0)}
  /\ UNCHANGED <<users, handle, pendingUsers, confirmedUsers, deletedOnOwner,
                 timedOut, ownerVars, callVars, fetchVars, outstanding,
                 attempt, failed>>

(* unpickle + notifyOwnerAndParentOfFork.  Owner to owner: the fork that   *)
(* pickling registered is dropped again.                                   *)
UnpickleOnOwnerFromOwner(f) ==
  LET m == Msg("CALL", f, 0)
  IN  /\ m \in msgs /\ dst[f] = Owner /\ parent[f] = RRefId
      /\ msgs' = msgs \ {m}
      /\ createOwner
      /\ forks' = forks \ {f}
      /\ owners' = IF forks # {} /\ forks \subseteq {f} THEN 0 ELSE ownerAfter
      /\ ownerHandles' = ownerHandles \cup {ownerAfter}
      /\ UNCHANGED <<userVars, valued, pickling, forkVars, callVars,
                     outstanding, attempt, failed>>

(* User to owner: the phantom fork id only keeps the parent alive.         *)
UnpickleOnOwnerFromUser(f) ==
  LET m == Msg("CALL", f, 0)
  IN  /\ m \in msgs /\ dst[f] = Owner /\ parent[f] # RRefId
      /\ getOrCreateOwnerRRef
      /\ ownerHandles' = ownerHandles \cup {ownerAfter}
      /\ msgs' = (msgs \ {m}) \cup {FirstTry("CHILD_ACCEPT", f)}
      /\ outstanding' = outstanding \cup {<<"CHILD_ACCEPT", f>>}
      /\ UNCHANGED <<userVars, forks, valued, pickling, forkVars, callVars,
                     attempt, failed>>

(* Owner to user: the owner knows this fork already.                       *)
UnpickleOnUserFromOwner(f) ==
  LET m == Msg("CALL", f, 0)
  IN  /\ m \in msgs /\ dst[f] # Owner /\ parent[f] = RRefId
      /\ users' = users \cup {f} /\ handle' = handle \cup {f}
      /\ confirmedUsers' = confirmedUsers \cup {f}
      /\ msgs' = msgs \ {m}
      /\ UNCHANGED <<pendingUsers, pendingChildren, deletedOnOwner, timedOut,
                     ownerVars, forkVars, callVars, fetchVars, outstanding,
                     attempt, failed>>

(* User to user: ask the owner for the fork.                               *)
UnpickleOnUserFromUser(f) ==
  LET m == Msg("CALL", f, 0)
  IN  /\ m \in msgs /\ dst[f] # Owner /\ parent[f] # RRefId
      /\ users' = users \cup {f} /\ handle' = handle \cup {f}
      /\ pendingUsers' = pendingUsers \cup {f}
      /\ msgs' = (msgs \ {m}) \cup {FirstTry("FORK_REQUEST", f)}
      /\ outstanding' = outstanding \cup {<<"FORK_REQUEST", f>>}
      /\ UNCHANGED <<confirmedUsers, pendingChildren, deletedOnOwner, timedOut,
                     ownerVars, forkVars, callVars, fetchVars, attempt,
                     failed>>

----------------------------------------------------------------------------
(* The RRef control messages, their acknowledgements and retries.          *)

(* processRRefForkRequest: a duplicate is ignored while the fork is known. *)
ProcessForkRequest(f, n) ==
  LET m == Msg("FORK_REQUEST", f, n)
  IN  /\ m \in msgs
      /\ addForkOfOwnerIfNotPresent(f)
      /\ msgs' = (msgs \ {m}) \cup {Ack("FORK_REQUEST", f, n)}
      /\ UNCHANGED <<userVars, owners, created, ownerHandles, valued, pickling,
                     forkVars, callVars, fetchVars, outstanding, attempt,
                     failed>>

(* processRRefChildAccept: delPendingChild, idempotent.                    *)
AcceptWithoutErase(f, n) == \* seeded fault: the child stays pending
  LET m == Msg("CHILD_ACCEPT", f, n)
  IN  /\ m \in msgs
      /\ msgs' = (msgs \ {m}) \cup {Ack("CHILD_ACCEPT", f, n)}
      /\ UNCHANGED <<userVars, ownerVars, forkVars, callVars, fetchVars,
                     outstanding, attempt, failed>>
ProcessChildAccept(f, n) ==
  LET m == Msg("CHILD_ACCEPT", f, n)
  IN  /\ m \in msgs
      /\ pendingChildren' = pendingChildren \ {f}
      /\ msgs' = (msgs \ {m}) \cup {Ack("CHILD_ACCEPT", f, n)}
      /\ UNCHANGED <<users, handle, pendingUsers, confirmedUsers,
                     deletedOnOwner, timedOut, ownerVars, forkVars, callVars,
                     fetchVars, outstanding, attempt, failed>>

(* processRRefUserDelete: delForkOfOwner, idempotent.                      *)
ProcessUserDelete(f, n) ==
  LET m == Msg("USER_DELETE", f, n)
  IN  /\ m \in msgs
      /\ delForkOfOwner(f)
      /\ msgs' = (msgs \ {m}) \cup {Ack("USER_DELETE", f, n)}
      /\ UNCHANGED <<userVars, created, ownerHandles, valued, pickling,
                     forkVars, callVars, fetchVars, outstanding, attempt,
                     failed>>

(* The reply of the current attempt completes the future of the message.   *)
Answered(type, f) ==
  /\ <<type, f>> \in outstanding
  /\ Ack(type, f, attempt[<<type, f>>]) \in msgs

(* finishForkRequest: delPendingUser, then RREF_CHILD_ACCEPT.              *)
FinishForkRequest(f) ==
  /\ Answered("FORK_REQUEST", f)
  /\ delPendingUser({f})
  /\ msgs' = (msgs \ {Ack("FORK_REQUEST", f, attempt[<<"FORK_REQUEST", f>>])})
               \cup {FirstTry("CHILD_ACCEPT", f)}
  /\ outstanding' = (outstanding \ {<<"FORK_REQUEST", f>>})
                      \cup {<<"CHILD_ACCEPT", f>>}
  /\ UNCHANGED <<users, handle, pendingChildren, deletedOnOwner, timedOut,
                 ownerVars, forkVars, callVars, fetchVars, attempt, failed>>

(* The other two callbacks only count the future as no longer pending.     *)
FinishControl(type, f) ==
  /\ type \in {"CHILD_ACCEPT", "USER_DELETE"}
  /\ Answered(type, f)
  /\ msgs' = msgs \ {Ack(type, f, attempt[<<type, f>>])}
  /\ outstanding' = outstanding \ {<<type, f>>}
  /\ UNCHANGED <<userVars, ownerVars, forkVars, callVars, fetchVars, attempt,
                 failed>>

(* rpcRetryCallback on an error, with retries left: the message is sent    *)
(* again.  The earlier attempt may still be on its way.                    *)
Retry(type, f) ==
  /\ SendErrors /\ <<type, f>> \in outstanding
  /\ attempt[<<type, f>>] < MaxRetries
  /\ attempt' = [attempt EXCEPT ![<<type, f>>] = @ + 1]
  /\ msgs' = msgs \cup {Msg(type, f, attempt[<<type, f>>] + 1)}
  /\ UNCHANGED <<userVars, ownerVars, forkVars, callVars, fetchVars,
                 outstanding, failed>>

(* rpcRetryCallback with no retry left: handleException throws in the      *)
(* callback, so nothing that follows it in the callback happens.           *)
GiveUp(type, f) ==
  /\ SendErrors /\ <<type, f>> \in outstanding
  /\ attempt[<<type, f>>] = MaxRetries
  /\ outstanding' = outstanding \ {<<type, f>>}
  /\ failed' = failed \cup {<<type, f>>}
  /\ UNCHANGED <<userVars, ownerVars, forkVars, callVars, fetchVars, msgs,
                 attempt>>

----------------------------------------------------------------------------
(* Dropping references.                                                    *)

DropHandle(f) ==
  /\ f \in handle /\ fetch[f] \in {"none", "done"}
  /\ handle' = handle \ {f}
  /\ UNCHANGED <<users, pendingUsers, confirmedUsers, pendingChildren,
                 deletedOnOwner, timedOut, ownerVars, forkVars, callVars,
                 fetchVars, netVars>>

DropOwnerHandle(i) ==
  /\ i \in ownerHandles
  /\ ownerHandles' = ownerHandles \ {i}
  /\ UNCHANGED <<userVars, owners, forks, created, valued, pickling, forkVars,
                 callVars, fetchVars, netVars>>

Children(f) == {c \in pendingChildren : parent[c] = f}
ForgetChildren(f) == \* seeded fault: pendingChildren_ holds no reference
  f \notin handle \cup pendingUsers
Unreferenced(f) == f \notin handle \cup pendingUsers /\ Children(f) = {}

(* release_resources -> tryDel -> delUser, once the count is zero.  The    *)
(* count drops under mutex_ but the destructor runs after it is released.  *)
ReleaseResources(f) ==
  /\ f \in users /\ Unreferenced(f)
  /\ users' = users \ {f}
  /\ confirmedUsers' = confirmedUsers \ {f}
  /\ deletedOnOwner' = deletedOnOwner \cup {f}
  /\ IF f \in deletedOnOwner
     THEN UNCHANGED <<msgs, outstanding>>
     ELSE /\ msgs' = msgs \cup {FirstTry("USER_DELETE", f)}
          /\ outstanding' = outstanding \cup {<<"USER_DELETE", f>>}
  /\ UNCHANGED <<handle, pendingUsers, pendingChildren, timedOut, ownerVars,
                 forkVars, callVars, fetchVars, attempt, failed>>

----------------------------------------------------------------------------
(* to_here().                                                              *)

(* UserRRef::toHere: no confirmation is needed.                            *)
ToHere(f) ==
  /\ f \in users \cap handle /\ fetch[f] = "none"
  /\ f \notin timedOut /\ f \notin deletedOnOwner
  /\ f \in pendingUsers => f \in creator \/ "forked" \in EarlyShare
  /\ fetch' = [fetch EXCEPT ![f] = "sent"]
  /\ UNCHANGED <<userVars, ownerVars, forkVars, callVars, fetchRRef, netVars>>

(* processScriptRRefFetchCall, processPythonRRefFetchCall: getOwnerRRef.   *)
FetchTooEarly(f) == \* seeded fault: pendingOwners_ is not used
  /\ fetch[f] = "sent"
  /\ fetch' = [fetch EXCEPT ![f] = "waitValue"]
  /\ fetchRRef' = [fetchRRef EXCEPT ![f] = owners]
  /\ UNCHANGED <<userVars, ownerVars, forkVars, callVars, netVars>>
ProcessFetch(f) ==
  /\ fetch[f] = "sent"
  /\ fetch' = [fetch EXCEPT ![f] = IF owners = 0 THEN "pendingOwner"
                                                 ELSE "waitValue"]
  /\ fetchRRef' = [fetchRRef EXCEPT ![f] = owners]
  /\ UNCHANGED <<userVars, ownerVars, forkVars, callVars, netVars>>

(* The value is there: the reply, and to_here() returns.                   *)
FetchReturns(f) ==
  /\ fetch[f] = "waitValue" /\ fetchRRef[f] \in valued
  /\ fetch' = [fetch EXCEPT ![f] = "done"]
  /\ UNCHANGED <<userVars, ownerVars, forkVars, callVars, fetchRRef, netVars>>

----------------------------------------------------------------------------
RemoteCallStep ==
  \/ ProcessRemoteCall \/ ProcessRemoteCallOnSelf \/ PythonAddFork
  \/ FinishForkedCall \/ ScriptSetValue \/ ScriptPostProcessing
  \/ ConfirmPendingUser \/ FinishCreatingOwnerRRef \/ RemoteUnknownError

DeliveryStep(f) ==
  \/ OwnerForkSend(f)
  \/ UnpickleOnOwnerFromOwner(f) \/ UnpickleOnOwnerFromUser(f)
  \/ UnpickleOnUserFromOwner(f) \/ UnpickleOnUserFromUser(f)
  \/ \E n \in 0 .. MaxRetries : \/ ProcessForkRequest(f, n)
                                \/ ProcessChildAccept(f, n)
                                \/ ProcessUserDelete(f, n)
  \/ FinishForkRequest(f)
  \/ \E type \in Control : FinishControl(type, f)
  \/ ReleaseResources(f)
  \/ ProcessFetch(f) \/ FetchReturns(f)

ApplicationStep ==
  \/ RemoteToSelf \/ LocalRRef
  \/ \E f \in Fork, w \in Worker : RemoteToOwner(f, w)
  \/ \E f \in Fork, w \in Worker, i \in ownerHandles : OwnerFork(f, w, i)
  \/ \E p, f \in Fork, w \in Worker : UserFork(p, f, w)
  \/ \E f \in Fork : DropHandle(f) \/ ToHere(f)
  \/ \E i \in ownerHandles : DropOwnerHandle(i)

FaultStep ==
  \/ RejectRemoteCall \/ RemoteTimeout
  \/ \E type \in Control, f \in Fork : Retry(type, f) \/ GiveUp(type, f)

Next ==
  \/ ApplicationStep
  \/ RemoteCallStep
  \/ \E f \in Fork : DeliveryStep(f)
  \/ FaultStep

Spec == Init /\ [][Next]_vars

(* Every worker's RPC threads keep running and the network delivers;       *)
(* nothing is asked of the application or of faults.                       *)
Fairness == WF_vars(RemoteCallStep) /\ \A f \in Fork : WF_vars(DeliveryStep(f))
FairSpec == Spec /\ Fairness

----------------------------------------------------------------------------
(* Properties.                                                             *)

ForkTypes ==
  /\ used \subseteq Fork /\ creator \subseteq Fork
  /\ parent \in [Fork -> Fork \cup {RRefId}] /\ dst \in [Fork -> Worker]
UserTypes ==
  /\ users \subseteq Fork /\ handle \subseteq Fork
  /\ pendingUsers \subseteq Fork /\ confirmedUsers \subseteq Fork
  /\ pendingChildren \subseteq Fork /\ deletedOnOwner \subseteq Fork
  /\ timedOut \subseteq Fork \cup {RRefId}
OwnerTypes ==
  /\ owners \in Nat /\ forks \subseteq Fork \cup {RRefId} /\ created \in Nat
  /\ ownerHandles \subseteq Nat /\ valued \subseteq Nat
  /\ pickling \in [Fork -> Nat]
CallTypes ==
  /\ origin \in {"none", "user", "self", "local"}
  /\ call \in {"none", "sent", "owned", "forked", "valued", "done", "failed"}
  /\ callRRef \in Nat
  /\ remote \in {"none", "wait", "ok", "err", "timeout"}
  /\ fetch \in [Fork -> {"none", "sent", "pendingOwner", "waitValue", "done"}]
  /\ fetchRRef \in [Fork -> Nat]
NetTypes ==
  /\ msgs \subseteq Message
  /\ outstanding \subseteq Control \X Fork /\ failed \subseteq Control \X Fork
  /\ attempt \in [Control \X Fork -> 0 .. MaxRetries]

(* The type of every variable; no message is tried more than MaxRetries    *)
(* times after its first attempt (RpcRetryOptions::maxRetries).            *)
TypeOK == ForkTypes /\ UserTypes /\ OwnerTypes /\ CallTypes /\ NetTypes

(* A UserRRef the owner has confirmed and that its user has not deleted.   *)
Living == confirmedUsers \ (timedOut \cup deletedOnOwner)

(* rref_context.h: "Keep OwnerRRefs alive until there is no living         *)
(* UserRRefs": once the OwnerRRef exists, the owner keeps it in owners_ as *)
(* long as a confirmed UserRRef exists anywhere.                           *)
OwnerOutlivesUsers == created # 0 /\ Living # {} => owners # 0

(* G2 of the RRef protocol: no UserRRef sends RREF_USER_DELETE while a     *)
(* child it forked is still on its way or not yet confirmed by the owner   *)
(* (pendingChildren_ keeps it alive).                                      *)
ParentOutlivesChild ==
  \A f \in used : parent[f] \in deletedOnOwner =>
    Msg("CALL", f, 0) \notin msgs /\ f \notin pendingUsers

(* rref_impl.h: "On the owner worker, there is only one OwnerRRef          *)
(* instance": no late message makes getOrCreateOwnerRRef build a second    *)
(* one, whose value nobody would ever set.                                 *)
OneOwnerRRef == created <= 1

(* A to_here() waits in pendingOwners_ only for a remote() that has not    *)
(* been processed: once the OwnerRRef has been there, no request is left   *)
(* waiting for its creation.                                               *)
FetchNotStranded ==
  \A f \in Fork : fetch[f] = "pendingOwner" => call \in {"sent", "failed"}

(* Under fairness of the RPC threads, once the application has let go of   *)
(* every handle for good the owner drops the OwnerRRef, for good.          *)
EventuallyReleased ==
  <>[](used # {} /\ handle = {} /\ ownerHandles = {})
    => <>[](owners = 0 /\ forks = {} /\ users = {})

(* Under the same fairness, a to_here() that was sent returns.             *)
ToHereReturns ==
  \A f \in Fork : fetch[f] = "sent" ~> fetch[f] = "done"

=============================================================================
