--------------------------- MODULE RRefForkProofs ---------------------------
(***************************************************************************)
(* Type correctness of RRefContext and G2 of the RRef protocol             *)
(* (ParentOutlivesChild), proved for every set of workers and fork ids,    *)
(* every number of retries and every setting of the switches of            *)
(* RRefContext. The inductive invariant StructInv says in which of the     *)
(* maps of RRefContext a fork can be, and what is still in flight for it.  *)
(***************************************************************************)
EXTENDS RRefContext, TLAPS

(* What the two kinds of message are.                                       *)
LEMMA MsgFacts ==
  \A type \in Control \cup {"CALL", "FETCH"}, f \in Fork, n \in Nat :
    /\ Msg(type, f, n) \in Message /\ Ack(type, f, n) \in Message
    /\ Msg(type, f, n).type = type /\ Ack(type, f, n).type = type
    /\ Msg(type, f, n).fork = f /\ Ack(type, f, n).fork = f
    /\ ~Msg(type, f, n).ack /\ Ack(type, f, n).ack
  BY DEF Msg, Ack, Message

(* The steps of the application keep the types.                            *)
LEMMA TypeApplication == TypeOK /\ (ApplicationStep) => TypeOK'
<1> SUFFICES ASSUME TypeOK, ApplicationStep PROVE TypeOK'
  BY Zenon
<1> USE RetriesAssumption, OwnerAssumption
<1> USE DEF TypeOK, ForkTypes, UserTypes, OwnerTypes, CallTypes, NetTypes,
           userVars, ownerVars, forkVars, callVars, fetchVars, netVars
<1>1. CASE RemoteToSelf
  BY <1>1 DEF RemoteToSelf
<1>2. CASE LocalRRef
  BY <1>2 DEF LocalRRef
<1>3. ASSUME NEW f \in Fork, NEW w \in Worker, RemoteToOwner(f, w)
     PROVE TypeOK'
  BY <1>3, Zenon DEF RemoteToOwner
<1>4. ASSUME NEW f \in Fork, NEW w \in Worker, NEW i \in ownerHandles,
             OwnerFork(f, w, i)
     PROVE TypeOK'
  BY <1>4, Zenon DEF OwnerFork, NewFork
<1>5. ASSUME NEW p \in Fork, NEW f \in Fork, NEW w \in Worker,
             UserFork(p, f, w)
     PROVE TypeOK'
  <2>1. Msg("CALL", f, 0) \in Message
    BY <1>5, MsgFacts, Zenon DEF Control
  <2> QED
    BY <1>5, <2>1, Zenon DEF UserFork, NewFork, MayShare
<1>6. ASSUME NEW f \in Fork, DropHandle(f)
     PROVE TypeOK'
  BY <1>6, Zenon DEF DropHandle
<1>7. ASSUME NEW f \in Fork, ToHere(f)
     PROVE TypeOK'
  BY <1>7, Zenon DEF ToHere
<1>8. ASSUME NEW i \in ownerHandles, DropOwnerHandle(i)
     PROVE TypeOK'
  BY <1>8, Zenon DEF DropOwnerHandle
<1> QED
  BY <1>1, <1>2, <1>3, <1>4, <1>5, <1>6, <1>7, <1>8, Zenon DEF ApplicationStep

(* The steps of remote() and its reply keep the types.                     *)
LEMMA TypeRemoteCall == TypeOK /\ (RemoteCallStep) => TypeOK'
<1> SUFFICES ASSUME TypeOK, RemoteCallStep PROVE TypeOK'
  OBVIOUS
<1> USE RetriesAssumption, OwnerAssumption
<1> USE DEF TypeOK, ForkTypes, UserTypes, OwnerTypes, CallTypes, NetTypes,
           userVars, ownerVars, forkVars, callVars, fetchVars, netVars
<1>1. CASE ProcessRemoteCall
  BY <1>1 DEF ProcessRemoteCall, getOrCreateOwnerRRef, createOwner, ownerAfter
<1>2. CASE ProcessRemoteCallOnSelf
  BY <1>2, Zenon DEF ProcessRemoteCallOnSelf
<1>3. CASE PythonAddFork
  BY <1>3, Zenon DEF PythonAddFork
<1>4. CASE FinishForkedCall
  BY <1>4, Zenon DEF FinishForkedCall
<1>5. CASE ScriptSetValue
  BY <1>5, Zenon DEF ScriptSetValue
<1>6. CASE ScriptPostProcessing
  BY <1>6, Zenon DEF ScriptPostProcessing
<1>7. CASE ConfirmPendingUser
  BY <1>7, Zenon DEF ConfirmPendingUser, delPendingUser
<1>8. CASE FinishCreatingOwnerRRef
  BY <1>8, Zenon DEF FinishCreatingOwnerRRef, delForkOfOwner
<1>9. CASE RemoteUnknownError
  BY <1>9, Zenon DEF RemoteUnknownError
<1> QED
  BY <1>1, <1>2, <1>3, <1>4, <1>5, <1>6, <1>7, <1>8, <1>9, Zenon DEF RemoteCallStep

(* The steps of a delivery keep the types.                                 *)
LEMMA TypeDelivery == TypeOK /\ (\E f \in Fork : DeliveryStep(f)) => TypeOK'
<1> SUFFICES ASSUME TypeOK, \E f \in Fork : DeliveryStep(f) PROVE TypeOK'
  BY Zenon
<1> USE RetriesAssumption, OwnerAssumption
<1> USE DEF TypeOK, ForkTypes, UserTypes, OwnerTypes, CallTypes, NetTypes,
           userVars, ownerVars, forkVars, callVars, fetchVars, netVars
<1>1. ASSUME NEW f \in Fork, OwnerForkSend(f)
     PROVE TypeOK'
  <2>1. Msg("CALL", f, 0) \in Message
    BY <1>1, MsgFacts, Zenon DEF Control
  <2> QED
    BY <1>1, <2>1, Zenon DEF OwnerForkSend
<1>2. ASSUME NEW f \in Fork, UnpickleOnOwnerFromOwner(f)
     PROVE TypeOK'
  <2>1. Msg("CALL", f, 0) \in Message
    BY <1>2, MsgFacts DEF Control
  <2> QED
    BY <1>2, <2>1 DEF UnpickleOnOwnerFromOwner, createOwner, ownerAfter
<1>3. ASSUME NEW f \in Fork, UnpickleOnOwnerFromUser(f)
     PROVE TypeOK'
  <2>1. Msg("CALL", f, 0) \in Message /\ Msg("CHILD_ACCEPT", f, 0) \in Message
    BY <1>3, MsgFacts, Zenon DEF Control
  <2> QED
    BY <1>3, <2>1 DEF UnpickleOnOwnerFromUser, FirstTry, getOrCreateOwnerRRef,
       createOwner, ownerAfter, Control
<1>4. ASSUME NEW f \in Fork, UnpickleOnUserFromOwner(f)
     PROVE TypeOK'
  <2>1. Msg("CALL", f, 0) \in Message
    BY <1>4, MsgFacts DEF Control
  <2> QED
    BY <1>4, <2>1, Zenon DEF UnpickleOnUserFromOwner
<1>5. ASSUME NEW f \in Fork, UnpickleOnUserFromUser(f)
     PROVE TypeOK'
  <2>1. Msg("CALL", f, 0) \in Message /\ Msg("FORK_REQUEST", f, 0) \in Message
    BY <1>5, MsgFacts, Zenon DEF Control
  <2> QED
    BY <1>5, <2>1 DEF UnpickleOnUserFromUser, FirstTry, Control
<1>6. ASSUME NEW f \in Fork, NEW n \in 0 .. MaxRetries,
             ProcessForkRequest(f, n)
     PROVE TypeOK'
  <2>1. Ack("FORK_REQUEST", f, n) \in Message /\ Msg("FORK_REQUEST", f, n) \in Message
    BY <1>6, MsgFacts DEF Control
  <2> QED
    BY <1>6, <2>1, Zenon DEF ProcessForkRequest, addForkOfOwnerIfNotPresent
<1>7. ASSUME NEW f \in Fork, NEW n \in 0 .. MaxRetries,
             ProcessChildAccept(f, n)
     PROVE TypeOK'
  <2>1. Ack("CHILD_ACCEPT", f, n) \in Message /\ Msg("CHILD_ACCEPT", f, n) \in Message
    BY <1>7, MsgFacts DEF Control
  <2> QED
    BY <1>7, <2>1, Zenon DEF ProcessChildAccept
<1>8. ASSUME NEW f \in Fork, NEW n \in 0 .. MaxRetries, ProcessUserDelete(f, n)
     PROVE TypeOK'
  <2>1. Ack("USER_DELETE", f, n) \in Message /\ Msg("USER_DELETE", f, n) \in Message
    BY <1>8, MsgFacts DEF Control
  <2> QED
    BY <1>8, <2>1, Zenon DEF ProcessUserDelete, delForkOfOwner
<1>9. ASSUME NEW f \in Fork, FinishForkRequest(f)
     PROVE TypeOK'
  <2>1. Msg("CHILD_ACCEPT", f, 0) \in Message
    BY <1>9, MsgFacts, Zenon DEF Control
  <2> QED
    BY <1>9, <2>1 DEF FinishForkRequest, FirstTry, delPendingUser, Answered,
       Control
<1>10. ASSUME NEW type \in Control, NEW f \in Fork, FinishControl(type, f)
     PROVE TypeOK'
  BY <1>10, MsgFacts, Zenon DEF FinishControl, Answered, Control
<1>11. ASSUME NEW f \in Fork, ReleaseResources(f)
     PROVE TypeOK'
  <2>1. Msg("USER_DELETE", f, 0) \in Message
    BY <1>11, MsgFacts, Zenon DEF Control
  <2> QED
    BY <1>11, <2>1 DEF ReleaseResources, FirstTry, Unreferenced, Children,
       Control
<1>12. ASSUME NEW f \in Fork, ProcessFetch(f)
     PROVE TypeOK'
  BY <1>12, Zenon DEF ProcessFetch
<1>13. ASSUME NEW f \in Fork, FetchReturns(f)
     PROVE TypeOK'
  BY <1>13, Zenon DEF FetchReturns
<1> QED
  BY <1>1, <1>2, <1>3, <1>4, <1>5, <1>6, <1>7, <1>8, <1>9, <1>10, <1>11, <1>12,
     <1>13, Zenon
     DEF DeliveryStep

(* The steps of a failure keep the types.                                  *)
LEMMA TypeFault == TypeOK /\ (FaultStep) => TypeOK'
<1> SUFFICES ASSUME TypeOK, FaultStep PROVE TypeOK'
  OBVIOUS
<1> USE RetriesAssumption, OwnerAssumption
<1> USE DEF TypeOK, ForkTypes, UserTypes, OwnerTypes, CallTypes, NetTypes,
           userVars, ownerVars, forkVars, callVars, fetchVars, netVars
<1>1. CASE RejectRemoteCall
  BY <1>1, Zenon DEF RejectRemoteCall
<1>2. CASE RemoteTimeout
  BY <1>2 DEF RemoteTimeout, delForkOfOwner, delPendingUser
<1>3. ASSUME NEW type \in Control, NEW f \in Fork, Retry(type, f)
     PROVE TypeOK'
  <2>1. Msg(type, f, attempt[<<type, f>>] + 1) \in Message
    BY <1>3, MsgFacts DEF Control
  <2> QED
    BY <1>3, <2>1 DEF Retry
<1>4. ASSUME NEW type \in Control, NEW f \in Fork, GiveUp(type, f)
     PROVE TypeOK'
  BY <1>4, MsgFacts DEF GiveUp, Control
<1> QED
  BY <1>1, <1>2, <1>3, <1>4, Zenon DEF FaultStep

(* Every step keeps the types.                                             *)
LEMMA TypeStep == TypeOK /\ [Next]_vars => TypeOK'
<1>1. TypeOK /\ UNCHANGED vars => TypeOK'
  BY Zenon DEF vars, userVars, ownerVars, forkVars, callVars, fetchVars, netVars,
     TypeOK, ForkTypes, UserTypes, OwnerTypes, CallTypes, NetTypes
<1> QED
  BY <1>1, TypeApplication, TypeRemoteCall, TypeDelivery, TypeFault, Zenon DEF Next

(* Every variable keeps its type, whatever the workers do, however the     *)
(* messages are reordered, lost, retried or timed out.                     *)
THEOREM TypeCorrect == Spec => []TypeOK
<1>1. Init => TypeOK
  BY OwnerAssumption, RetriesAssumption
     DEF Init, TypeOK, ForkTypes, UserTypes, OwnerTypes, CallTypes, NetTypes
<1> QED
  BY <1>1, TypeStep, PTL DEF Spec

----------------------------------------------------------------------------
(* The maps a fork is in.                                                  *)

(* Some attempt at a control message, or its reply, is in flight, or the   *)
(* sender still waits for one.                                             *)
InFlight(type, f) ==
  \/ \E m \in msgs : m.type = type /\ m.fork = f
  \/ <<type, f>> \in outstanding

(* Everything that mentions a fork id mentions one that was handed out.    *)
OnlyUsed ==
  /\ users \subseteq used /\ pendingChildren \subseteq used
  /\ creator \subseteq used /\ deletedOnOwner \subseteq used
  /\ forks \subseteq used \cup {RRefId}
  /\ \A m \in msgs : m.fork \in used
  /\ \A type \in Control, f \in Fork : <<type, f>> \in outstanding => f \in used
  /\ \A f \in used : parent[f] \in used \cup {RRefId}
  /\ \A f \in Fork \ used : pickling[f] = 0 /\ parent[f] = RRefId
  /\ origin = "none" => used = {} /\ ownerHandles = {}

(* The maps a UserRRef is in, while it exists and after its deletion.      *)
UserMaps ==
  /\ handle \subseteq users
  /\ users = pendingUsers \cup confirmedUsers
  /\ pendingUsers \cap confirmedUsers = {}
  /\ deletedOnOwner \cap users = {}
  /\ remote = "wait" => creator \subseteq pendingUsers
  /\ \A f \in Fork : InFlight("USER_DELETE", f) => f \in deletedOnOwner

(* Before the call that carries a fork is received, nothing else of the    *)
(* fork exists.                                                            *)
BeforeReceipt ==
  \A f \in Fork :
    Msg("CALL", f, 0) \in msgs \/ pickling[f] # 0 =>
      /\ f \notin users \cup deletedOnOwner \cup creator
      /\ \A type \in Control : ~InFlight(type, f)
      /\ Msg("CALL", f, 0) \in msgs => pickling[f] = 0
      /\ pickling[f] # 0 => parent[f] = RRefId

(* The parent is kept until the child is accepted.                         *)
ChildAccepted(f) == Msg("CALL", f, 0) \notin msgs /\ f \notin pendingUsers
KeptByChild ==
  /\ \A f \in pendingChildren : parent[f] \in users
  /\ \A f \in used : parent[f] # RRefId /\ f \notin pendingChildren
                       => ChildAccepted(f)
  /\ \A f \in Fork : InFlight("CHILD_ACCEPT", f) => ChildAccepted(f)
  /\ \A f \in Fork : <<"FORK_REQUEST", f>> \in outstanding
                       => f \in pendingUsers /\ parent[f] # RRefId
  /\ \A f \in creator : parent[f] = RRefId

StructInv == OnlyUsed /\ UserMaps /\ BeforeReceipt /\ KeptByChild

(* A step that leaves these variables alone keeps StructInv.               *)
LEMMA StructFrame ==
  ASSUME TypeOK, StructInv,
         UNCHANGED <<users, pendingUsers, confirmedUsers, pendingChildren,
                     deletedOnOwner, creator, used, parent, pickling, msgs,
                     outstanding>>, handle' \subseteq handle,
         forks' \subseteq forks \cup creator \cup {RRefId},
         remote' = "wait" => remote = "wait" \/ creator = {},
         origin' = "none" => origin = "none" /\ ownerHandles' \subseteq ownerHandles
  PROVE  StructInv'
<1>1. OnlyUsed' /\ UserMaps'
  BY Zenon DEF StructInv, OnlyUsed, UserMaps, InFlight
<1>2. BeforeReceipt' /\ KeptByChild'
  BY DEF StructInv, BeforeReceipt, KeptByChild, InFlight, ChildAccepted
<1> QED
  BY <1>1, <1>2, Zenon DEF StructInv

(* So does one that processes a control message or a reply, or tries again *)
(* or gives up.                                                            *)
LEMMA StructMessage ==
  ASSUME TypeOK, StructInv,
         UNCHANGED <<users, handle, pendingUsers, confirmedUsers, origin, remote,
                     deletedOnOwner, creator, used, parent, pickling,
                     ownerHandles>>,
         pendingChildren' \subseteq pendingChildren,
         \A g \in pendingChildren \ pendingChildren' : ChildAccepted(g),
         forks' \subseteq used \cup {RRefId}, outstanding' \subseteq outstanding,
         \A g \in Fork :
           /\ Msg("CALL", g, 0) \in msgs' => Msg("CALL", g, 0) \in msgs
           /\ \A t \in Control : InFlight(t, g)' => InFlight(t, g),
         \A m \in msgs' : m \in msgs \/ m.fork \in used
  PROVE  StructInv'
<1>1. OnlyUsed'
  BY Zenon DEF StructInv, OnlyUsed
<1>2. UserMaps'
  BY Zenon DEF StructInv, UserMaps, Control
<1>3. BeforeReceipt'
  BY Zenon DEF StructInv, BeforeReceipt
<1>4. KeptByChild'
  BY Zenon DEF StructInv, KeptByChild, ChildAccepted, Control, TypeOK, ForkTypes,
     UserTypes
<1> QED
  BY <1>1, <1>2, <1>3, <1>4, Zenon DEF StructInv

(* The steps of the application keep StructInv.                            *)
LEMMA StructApplication ==
  TypeOK /\ StructInv /\ (ApplicationStep) => StructInv'
<1> SUFFICES ASSUME TypeOK, StructInv, ApplicationStep PROVE StructInv'
  BY Zenon
<1> USE IdAssumption
<1> USE DEF TypeOK, StructInv, userVars, ownerVars, forkVars, callVars,
           fetchVars, netVars
<1>1. CASE RemoteToSelf
  BY <1>1, StructFrame, Zenon DEF RemoteToSelf, OnlyUsed
<1>2. CASE LocalRRef
  BY <1>2, StructFrame, Zenon DEF LocalRRef
<1>3. ASSUME NEW f \in Fork, NEW w \in Worker, RemoteToOwner(f, w)
     PROVE StructInv'
  <2>2. OnlyUsed'
    BY <1>3, Zenon DEF RemoteToOwner, OnlyUsed
  <2>3. UserMaps'
    BY <1>3, Zenon DEF RemoteToOwner, OnlyUsed, UserMaps, InFlight
  <2>4. BeforeReceipt'
    BY <1>3, Zenon DEF RemoteToOwner, OnlyUsed, BeforeReceipt, InFlight, Control
  <2>5. KeptByChild'
    BY <1>3 DEF RemoteToOwner, ForkTypes, UserTypes, OwnerTypes, CallTypes,
       OnlyUsed, UserMaps, BeforeReceipt, KeptByChild, InFlight, ChildAccepted,
       Control
  <2> QED
    BY <2>2, <2>3, <2>4, <2>5, Zenon
<1>4. ASSUME NEW f \in Fork, NEW w \in Worker, NEW i \in ownerHandles,
             OwnerFork(f, w, i)
     PROVE StructInv'
  <2>1. /\ \A g \in Fork : /\ Msg("CALL", g, 0).type = "CALL"
                           /\ Msg("CALL", g, 0).fork = g
                           /\ ~Msg("CALL", g, 0).ack
    BY <1>4, MsgFacts DEF Control
  <2>2. OnlyUsed'
    <3>1. /\ used' = used \cup {f} /\ forks' = forks \cup {f}
          /\ UNCHANGED <<users, pendingChildren, creator, deletedOnOwner, msgs,
                         outstanding, origin, ownerHandles>>
          /\ origin # "none"
      BY <1>4, Zenon DEF OwnerFork, NewFork, OnlyUsed
    <3>2. \A g \in Fork : /\ parent'[g] = IF g = f THEN RRefId ELSE parent[g]
                          /\ pickling'[g] = IF g = f THEN i ELSE pickling[g]
      BY <1>4, Zenon DEF OwnerFork, NewFork, ForkTypes, OwnerTypes
    <3>3. used \subseteq Fork
      BY Zenon DEF ForkTypes
    <3> QED
      BY <3>1, <3>2, <3>3, Zenon DEF OnlyUsed
  <2>3. UserMaps'
    BY <1>4, <2>1, Zenon DEF OwnerFork, NewFork, UserMaps, InFlight
  <2>4. BeforeReceipt'
    BY <1>4, <2>1 DEF OwnerFork, NewFork, OnlyUsed, BeforeReceipt, InFlight,
       Control
  <2>5. KeptByChild'
    BY <1>4, <2>1 DEF OwnerFork, NewFork, OnlyUsed, KeptByChild, InFlight,
       ChildAccepted
  <2> QED
    BY <2>2, <2>3, <2>4, <2>5, Zenon
<1>5. ASSUME NEW p \in Fork, NEW f \in Fork, NEW w \in Worker,
             UserFork(p, f, w)
     PROVE StructInv'
  <2>1. /\ \A g \in Fork : /\ Msg("CALL", g, 0).type = "CALL"
                           /\ Msg("CALL", g, 0).fork = g
                           /\ ~Msg("CALL", g, 0).ack
    BY <1>5, MsgFacts DEF Control
  <2>2. OnlyUsed'
    BY <1>5, <2>1 DEF UserFork, NewFork, MayShare, OnlyUsed
  <2>3. UserMaps'
    BY <1>5, <2>1, Zenon DEF UserFork, NewFork, MayShare, UserMaps, InFlight
  <2>4. BeforeReceipt'
    BY <1>5, <2>1 DEF UserFork, NewFork, MayShare, OnlyUsed, BeforeReceipt,
       InFlight, Control
  <2>5. KeptByChild'
    BY <1>5, <2>1 DEF UserFork, NewFork, MayShare, ForkTypes, UserTypes,
       OwnerTypes, CallTypes, OnlyUsed, UserMaps, BeforeReceipt, KeptByChild,
       InFlight, ChildAccepted, Control
  <2> QED
    BY <2>2, <2>3, <2>4, <2>5, Zenon
<1>6. ASSUME NEW f \in Fork, DropHandle(f)
     PROVE StructInv'
  BY <1>6, StructFrame, Zenon DEF DropHandle
<1>7. ASSUME NEW f \in Fork, ToHere(f)
     PROVE StructInv'
  BY <1>7, StructFrame, Zenon DEF ToHere
<1>8. ASSUME NEW i \in ownerHandles, DropOwnerHandle(i)
     PROVE StructInv'
  BY <1>8, StructFrame, Zenon DEF DropOwnerHandle
<1> QED
  BY <1>1, <1>2, <1>3, <1>4, <1>5, <1>6, <1>7, <1>8, Zenon DEF ApplicationStep

(* The steps of remote() and its reply keep StructInv.                     *)
LEMMA StructRemoteCall ==
  TypeOK /\ StructInv /\ (RemoteCallStep) => StructInv'
<1> SUFFICES ASSUME TypeOK, StructInv, RemoteCallStep PROVE StructInv'
  OBVIOUS
<1> USE IdAssumption
<1> USE DEF TypeOK, StructInv, userVars, ownerVars, forkVars, callVars,
           fetchVars, netVars
<1>1. CASE ProcessRemoteCall
  BY <1>1, StructFrame, Zenon DEF ProcessRemoteCall, getOrCreateOwnerRRef,
     createOwner, ownerAfter
<1>2. CASE ProcessRemoteCallOnSelf
  BY <1>2, StructFrame, Zenon DEF ProcessRemoteCallOnSelf
<1>3. CASE PythonAddFork
  BY <1>3, StructFrame, Zenon DEF PythonAddFork
<1>4. CASE FinishForkedCall
  BY <1>4, StructFrame, Zenon DEF FinishForkedCall
<1>5. CASE ScriptSetValue
  BY <1>5, StructFrame, Zenon DEF ScriptSetValue
<1>6. CASE ScriptPostProcessing
  BY <1>6, StructFrame, Zenon DEF ScriptPostProcessing
<1>7. CASE ConfirmPendingUser
  <2>2. OnlyUsed'
    BY <1>7, Zenon DEF ConfirmPendingUser, delPendingUser, OnlyUsed
  <2>3. UserMaps'
    BY <1>7, Zenon DEF ConfirmPendingUser, delPendingUser, UserMaps, InFlight
  <2>4. BeforeReceipt'
    BY <1>7, Zenon DEF ConfirmPendingUser, delPendingUser, BeforeReceipt, InFlight,
       Control
  <2>5. KeptByChild'
    BY <1>7, Zenon DEF ConfirmPendingUser, delPendingUser, KeptByChild, InFlight,
       ChildAccepted
  <2> QED
    BY <2>2, <2>3, <2>4, <2>5, Zenon
<1>8. CASE FinishCreatingOwnerRRef
  BY <1>8, StructFrame, Zenon DEF FinishCreatingOwnerRRef, delForkOfOwner
<1>9. CASE RemoteUnknownError
  BY <1>9, StructFrame, Zenon DEF RemoteUnknownError
<1> QED
  BY <1>1, <1>2, <1>3, <1>4, <1>5, <1>6, <1>7, <1>8, <1>9, Zenon DEF RemoteCallStep

(* The steps of a delivery keep StructInv.                                 *)
LEMMA StructDelivery ==
  TypeOK /\ StructInv /\ (\E f \in Fork : DeliveryStep(f)) => StructInv'
<1> SUFFICES ASSUME TypeOK, StructInv, \E f \in Fork : DeliveryStep(f) PROVE StructInv'
  BY Zenon
<1> USE IdAssumption
<1> USE DEF TypeOK, StructInv, userVars, ownerVars, forkVars, callVars,
           fetchVars, netVars
<1>1. ASSUME NEW f \in Fork, OwnerForkSend(f)
     PROVE StructInv'
  <2>1. /\ \A g \in Fork : /\ Msg("CALL", g, 0).type = "CALL"
                           /\ Msg("CALL", g, 0).fork = g
                           /\ ~Msg("CALL", g, 0).ack
    BY <1>1, MsgFacts DEF Control
  <2>2. OnlyUsed'
    BY <1>1, <2>1 DEF OwnerForkSend, OnlyUsed
  <2>3. UserMaps'
    BY <1>1, <2>1, Zenon DEF OwnerForkSend, UserMaps, InFlight
  <2>4. BeforeReceipt'
    BY <1>1, <2>1 DEF OwnerForkSend, ForkTypes, UserTypes, OwnerTypes,
       OnlyUsed, UserMaps, BeforeReceipt, InFlight, Control
  <2>5. KeptByChild'
    <3>1. parent[f] = RRefId /\ f \notin pendingUsers
      BY <1>1, Zenon DEF OwnerForkSend, BeforeReceipt, UserMaps
    <3>2. ~InFlight("CHILD_ACCEPT", f)
      BY <1>1, Zenon DEF OwnerForkSend, BeforeReceipt, Control
    <3>3. \A g \in Fork : InFlight("CHILD_ACCEPT", g)' => InFlight("CHILD_ACCEPT", g)
      BY <1>1, <2>1, Zenon DEF OwnerForkSend, InFlight
    <3> QED
      BY <1>1, <2>1, <3>1, <3>2, <3>3
         DEF OwnerForkSend, KeptByChild, ChildAccepted, ForkTypes, UserTypes,
             OwnerTypes, CallTypes, OnlyUsed
  <2> QED
    BY <2>2, <2>3, <2>4, <2>5, Zenon
<1>2. ASSUME NEW f \in Fork, UnpickleOnOwnerFromOwner(f)
     PROVE StructInv'
  <2>1. /\ \A g \in Fork : /\ Msg("CALL", g, 0).type = "CALL"
                           /\ Msg("CALL", g, 0).fork = g
                           /\ ~Msg("CALL", g, 0).ack
    BY <1>2, MsgFacts DEF Control
  <2>2. OnlyUsed'
    BY <1>2, <2>1, Zenon DEF UnpickleOnOwnerFromOwner, createOwner, ownerAfter,
       OnlyUsed
  <2>3. UserMaps'
    BY <1>2, <2>1, Zenon DEF UnpickleOnOwnerFromOwner, createOwner, ownerAfter,
       UserMaps, InFlight
  <2>4. BeforeReceipt'
    BY <1>2, <2>1 DEF UnpickleOnOwnerFromOwner, createOwner, ownerAfter,
       BeforeReceipt, InFlight, Control
  <2>5. KeptByChild'
    BY <1>2, <2>1, Zenon DEF UnpickleOnOwnerFromOwner, createOwner, ownerAfter,
       KeptByChild, InFlight, ChildAccepted
  <2> QED
    BY <2>2, <2>3, <2>4, <2>5
<1>3. ASSUME NEW f \in Fork, UnpickleOnOwnerFromUser(f)
     PROVE StructInv'
  <2>1. /\ \A g \in Fork : /\ Msg("CALL", g, 0).type = "CALL"
                           /\ Msg("CALL", g, 0).fork = g
                           /\ ~Msg("CALL", g, 0).ack
        /\ Msg("CHILD_ACCEPT", f, 0).type = "CHILD_ACCEPT"
        /\ Msg("CHILD_ACCEPT", f, 0).fork = f
        /\ Msg("CHILD_ACCEPT", f, 0).ack = FALSE
    BY <1>3, MsgFacts DEF Control
  <2>2. OnlyUsed'
    BY <1>3, <2>1 DEF UnpickleOnOwnerFromUser, FirstTry, getOrCreateOwnerRRef,
       createOwner, ownerAfter, OnlyUsed
  <2>3. UserMaps'
    BY <1>3, <2>1, Zenon DEF UnpickleOnOwnerFromUser, FirstTry, getOrCreateOwnerRRef,
       createOwner, ownerAfter, UserMaps, InFlight
  <2>4. BeforeReceipt'
    BY <1>3, <2>1 DEF UnpickleOnOwnerFromUser, FirstTry, getOrCreateOwnerRRef,
       createOwner, ownerAfter, BeforeReceipt, InFlight, Control
  <2>5. KeptByChild'
    <3>1. ChildAccepted(f)'
      BY <1>3, <2>1, Zenon DEF UnpickleOnOwnerFromUser, FirstTry, ChildAccepted,
         BeforeReceipt, UserMaps
    <3>2. \A g \in Fork : g # f =>
            (InFlight("CHILD_ACCEPT", g)' => InFlight("CHILD_ACCEPT", g))
      BY <1>3, <2>1, Zenon DEF UnpickleOnOwnerFromUser, FirstTry, InFlight
    <3>3. \A g \in Fork : ChildAccepted(g) => ChildAccepted(g)'
      BY <1>3, <2>1, Zenon DEF UnpickleOnOwnerFromUser, FirstTry, ChildAccepted
    <3> QED
      BY <1>3, <2>1, <3>1, <3>2, <3>3, ZenonT(40)
         DEF UnpickleOnOwnerFromUser, KeptByChild, ForkTypes, UserTypes,
             OwnerTypes, CallTypes
  <2> QED
    BY <2>2, <2>3, <2>4, <2>5
<1>4. ASSUME NEW f \in Fork, UnpickleOnUserFromOwner(f)
     PROVE StructInv'
  <2>1. /\ \A g \in Fork : /\ Msg("CALL", g, 0).type = "CALL"
                           /\ Msg("CALL", g, 0).fork = g
                           /\ ~Msg("CALL", g, 0).ack
    BY <1>4, MsgFacts DEF Control
  <2>2. OnlyUsed'
    BY <1>4, <2>1 DEF UnpickleOnUserFromOwner, OnlyUsed
  <2>3. UserMaps'
    BY <1>4, <2>1 DEF UnpickleOnUserFromOwner, UserMaps, BeforeReceipt,
       InFlight
  <2>4. BeforeReceipt'
    BY <1>4, <2>1 DEF UnpickleOnUserFromOwner, BeforeReceipt, InFlight, Control
  <2>5. KeptByChild'
    BY <1>4, <2>1, Zenon DEF UnpickleOnUserFromOwner, KeptByChild, InFlight,
       ChildAccepted
  <2> QED
    BY <2>2, <2>3, <2>4, <2>5
<1>5. ASSUME NEW f \in Fork, UnpickleOnUserFromUser(f)
     PROVE StructInv'
  <2>1. /\ \A g \in Fork : /\ Msg("CALL", g, 0).type = "CALL"
                           /\ Msg("CALL", g, 0).fork = g
                           /\ ~Msg("CALL", g, 0).ack
        /\ Msg("FORK_REQUEST", f, 0).type = "FORK_REQUEST"
        /\ Msg("FORK_REQUEST", f, 0).fork = f
        /\ Msg("FORK_REQUEST", f, 0).ack = FALSE
    BY <1>5, MsgFacts DEF Control
  <2>2. OnlyUsed'
    BY <1>5, <2>1, ZenonT(40) DEF UnpickleOnUserFromUser, FirstTry, OnlyUsed
  <2>3. UserMaps'
    BY <1>5, <2>1 DEF UnpickleOnUserFromUser, FirstTry, UserMaps,
       BeforeReceipt, InFlight
  <2>4. BeforeReceipt'
    BY <1>5, <2>1 DEF UnpickleOnUserFromUser, FirstTry, BeforeReceipt,
       InFlight, Control
  <2>5. KeptByChild'
    BY <1>5, <2>1, ZenonT(40) DEF UnpickleOnUserFromUser, FirstTry, ForkTypes, OnlyUsed,
       UserMaps, KeptByChild, InFlight, ChildAccepted
  <2> QED
    BY <2>2, <2>3, <2>4, <2>5
<1>6. ASSUME NEW f \in Fork, NEW n \in 0 .. MaxRetries,
             ProcessForkRequest(f, n)
     PROVE StructInv'
  <2>1. /\ \A g \in Fork : /\ Msg("CALL", g, 0).type = "CALL"
                           /\ Msg("CALL", g, 0).fork = g
                           /\ ~Msg("CALL", g, 0).ack
        /\ Ack("FORK_REQUEST", f, n).type = "FORK_REQUEST"
        /\ Ack("FORK_REQUEST", f, n).fork = f
        /\ Ack("FORK_REQUEST", f, n).ack = TRUE
        /\ Msg("FORK_REQUEST", f, n).type = "FORK_REQUEST"
        /\ Msg("FORK_REQUEST", f, n).fork = f
        /\ Msg("FORK_REQUEST", f, n).ack = FALSE
    BY <1>6, MsgFacts DEF Control
  <2>2. \A t \in Control, g \in Fork : InFlight(t, g)' => InFlight(t, g)
    BY <1>6, <2>1 DEF ProcessForkRequest, InFlight
  <2>3. f \in used
    BY <1>6, <2>1, ZenonT(40) DEF ProcessForkRequest, OnlyUsed
  <2>4. /\ \A g \in Fork :
             Msg("CALL", g, 0) \in msgs' => Msg("CALL", g, 0) \in msgs
        /\ \A m \in msgs' : m \in msgs \/ m.fork = f
    BY <1>6, <2>1, Zenon DEF ProcessForkRequest
  <2>5. forks' \subseteq used \cup {RRefId}
    BY <1>6, <2>3, Zenon DEF ProcessForkRequest, addForkOfOwnerIfNotPresent, OnlyUsed
  <2> QED
    BY <1>6, <2>2, <2>3, <2>4, <2>5, StructMessage, Zenon DEF ProcessForkRequest,
       addForkOfOwnerIfNotPresent
<1>7. ASSUME NEW f \in Fork, NEW n \in 0 .. MaxRetries,
             ProcessChildAccept(f, n)
     PROVE StructInv'
  <2>1. /\ \A g \in Fork : /\ Msg("CALL", g, 0).type = "CALL"
                           /\ Msg("CALL", g, 0).fork = g
                           /\ ~Msg("CALL", g, 0).ack
        /\ Ack("CHILD_ACCEPT", f, n).type = "CHILD_ACCEPT"
        /\ Ack("CHILD_ACCEPT", f, n).fork = f
        /\ Ack("CHILD_ACCEPT", f, n).ack = TRUE
        /\ Msg("CHILD_ACCEPT", f, n).type = "CHILD_ACCEPT"
        /\ Msg("CHILD_ACCEPT", f, n).fork = f
        /\ Msg("CHILD_ACCEPT", f, n).ack = FALSE
    BY <1>7, MsgFacts DEF Control
  <2>2. \A t \in Control, g \in Fork : InFlight(t, g)' => InFlight(t, g)
    BY <1>7, <2>1 DEF ProcessChildAccept, InFlight
  <2>3. f \in used
    BY <1>7, <2>1, ZenonT(40) DEF ProcessChildAccept, OnlyUsed
  <2>4. ChildAccepted(f)
    BY <1>7, <2>1, Zenon DEF ProcessChildAccept, KeptByChild, InFlight
  <2>5. /\ \A g \in Fork :
             Msg("CALL", g, 0) \in msgs' => Msg("CALL", g, 0) \in msgs
        /\ \A m \in msgs' : m \in msgs \/ m.fork = f
    BY <1>7, <2>1, Zenon DEF ProcessChildAccept
  <2>6. forks' \subseteq used \cup {RRefId}
    BY <1>7, Zenon DEF ProcessChildAccept, OnlyUsed
  <2> QED
    BY <1>7, <2>2, <2>3, <2>4, <2>5, <2>6, StructMessage, Zenon DEF ProcessChildAccept
<1>8. ASSUME NEW f \in Fork, NEW n \in 0 .. MaxRetries, ProcessUserDelete(f, n)
     PROVE StructInv'
  <2>1. /\ \A g \in Fork : /\ Msg("CALL", g, 0).type = "CALL"
                           /\ Msg("CALL", g, 0).fork = g
                           /\ ~Msg("CALL", g, 0).ack
        /\ Ack("USER_DELETE", f, n).type = "USER_DELETE"
        /\ Ack("USER_DELETE", f, n).fork = f
        /\ Ack("USER_DELETE", f, n).ack = TRUE
        /\ Msg("USER_DELETE", f, n).type = "USER_DELETE"
        /\ Msg("USER_DELETE", f, n).fork = f
        /\ Msg("USER_DELETE", f, n).ack = FALSE
    BY <1>8, MsgFacts DEF Control
  <2>2. \A t \in Control, g \in Fork : InFlight(t, g)' => InFlight(t, g)
    BY <1>8, <2>1 DEF ProcessUserDelete, InFlight
  <2>3. f \in used
    BY <1>8, <2>1, ZenonT(40) DEF ProcessUserDelete, OnlyUsed
  <2>4. /\ \A g \in Fork :
             Msg("CALL", g, 0) \in msgs' => Msg("CALL", g, 0) \in msgs
        /\ \A m \in msgs' : m \in msgs \/ m.fork = f
    BY <1>8, <2>1, Zenon DEF ProcessUserDelete
  <2>5. forks' \subseteq used \cup {RRefId}
    BY <1>8, Zenon DEF ProcessUserDelete, delForkOfOwner, OnlyUsed
  <2> QED
    BY <1>8, <2>2, <2>3, <2>4, <2>5, StructMessage, Zenon DEF ProcessUserDelete,
       delForkOfOwner
<1>9. ASSUME NEW f \in Fork, FinishForkRequest(f)
     PROVE StructInv'
  <2>1. /\ \A g \in Fork : /\ Msg("CALL", g, 0).type = "CALL"
                           /\ Msg("CALL", g, 0).fork = g
                           /\ ~Msg("CALL", g, 0).ack
        /\ Msg("CHILD_ACCEPT", f, 0).type = "CHILD_ACCEPT"
        /\ Msg("CHILD_ACCEPT", f, 0).fork = f
        /\ Msg("CHILD_ACCEPT", f, 0).ack = FALSE
    BY <1>9, MsgFacts DEF Control
  <2>2. OnlyUsed'
    BY <1>9, <2>1, ZenonT(40) DEF FinishForkRequest, FirstTry, delPendingUser, Answered,
       OnlyUsed, Control
  <2>3. UserMaps'
    BY <1>9, <2>1 DEF FinishForkRequest, FirstTry, delPendingUser, Answered,
       UserMaps, KeptByChild, InFlight, ChildAccepted
  <2>4. BeforeReceipt'
    <3>1. f \in users
      BY <1>9, Zenon DEF FinishForkRequest, Answered, KeptByChild, UserMaps
    <3>2. Msg("CALL", f, 0) \notin msgs /\ pickling[f] = 0
      BY <3>1, Zenon DEF BeforeReceipt
    <3>3. /\ \A g \in Fork : Msg("CALL", g, 0) \in msgs' => Msg("CALL", g, 0) \in msgs
          /\ UNCHANGED <<users, deletedOnOwner, creator, pickling, parent>>
      BY <1>9, <2>1, Zenon DEF FinishForkRequest, FirstTry
    <3>4. \A type \in Control, g \in Fork \ {f} :
            InFlight(type, g)' => InFlight(type, g)
      BY <1>9, <2>1, Zenon DEF FinishForkRequest, FirstTry, InFlight
    <3> QED
      BY <3>2, <3>3, <3>4, Zenon DEF BeforeReceipt
  <2>5. KeptByChild'
    BY <1>9, <2>1, Zenon DEF FinishForkRequest, FirstTry, delPendingUser, Answered,
       ForkTypes, UserTypes, OwnerTypes, CallTypes, OnlyUsed, UserMaps,
       BeforeReceipt, KeptByChild, InFlight, ChildAccepted, Control
  <2> QED
    BY <2>2, <2>3, <2>4, <2>5
<1>10. ASSUME NEW type \in Control, NEW f \in Fork, FinishControl(type, f)
     PROVE StructInv'
  <2>1. /\ \A g \in Fork : /\ Msg("CALL", g, 0).type = "CALL"
                           /\ Msg("CALL", g, 0).fork = g
                           /\ ~Msg("CALL", g, 0).ack
    BY <1>10, MsgFacts DEF Control
  <2>2. \A t \in Control, g \in Fork : InFlight(t, g)' => InFlight(t, g)
    BY <1>10, <2>1, Zenon DEF FinishControl, InFlight
  <2> QED
    BY <1>10, <2>1, <2>2, StructMessage, Zenon DEF FinishControl, Answered, OnlyUsed
<1>11. ASSUME NEW f \in Fork, ReleaseResources(f)
     PROVE StructInv'
  <2>1. /\ \A g \in Fork : /\ Msg("CALL", g, 0).type = "CALL"
                           /\ Msg("CALL", g, 0).fork = g
                           /\ ~Msg("CALL", g, 0).ack
        /\ Msg("USER_DELETE", f, 0).type = "USER_DELETE"
        /\ Msg("USER_DELETE", f, 0).fork = f
        /\ Msg("USER_DELETE", f, 0).ack = FALSE
    BY <1>11, MsgFacts DEF Control
  <2>2. OnlyUsed'
    <3>1. f \in used
      BY <1>11, Zenon DEF ReleaseResources, OnlyUsed
    <3>2. /\ users' \subseteq users
          /\ deletedOnOwner' = deletedOnOwner \cup {f}
          /\ \A m \in msgs' : m \in msgs \/ m.fork = f
          /\ outstanding' \subseteq outstanding \cup {<<"USER_DELETE", f>>}
          /\ UNCHANGED <<used, pendingChildren, creator, forks, parent, pickling,
                         origin, ownerHandles>>
      BY <1>11, <2>1, ZenonT(40) DEF ReleaseResources, FirstTry
    <3>3. \A type \in Control, g \in Fork :
            <<type, g>> \in outstanding' => <<type, g>> \in outstanding \/ g = f
      BY <3>2, Zenon
    <3> QED
      BY <3>1, <3>2, <3>3, Zenon DEF OnlyUsed
  <2>3. UserMaps'
    BY <1>11, <2>1 DEF ReleaseResources, FirstTry, Unreferenced, Children,
       UserMaps, InFlight
  <2>4. BeforeReceipt'
    BY <1>11, <2>1 DEF ReleaseResources, FirstTry, Unreferenced, Children,
       BeforeReceipt, InFlight, Control
  <2>5. KeptByChild'
    <3>1. /\ \A g \in Fork :
               Msg("CALL", g, 0) \in msgs' => Msg("CALL", g, 0) \in msgs
          /\ UNCHANGED <<used, pendingUsers, pendingChildren, creator, parent>>
          /\ users' = users \ {f}
      BY <1>11, <2>1, Zenon DEF ReleaseResources, FirstTry
    <3>2. \A g \in pendingChildren : parent[g] # f
      BY <1>11, Zenon DEF ReleaseResources, Unreferenced, Children
    <3>3. \A g \in Fork :
            /\ InFlight("CHILD_ACCEPT", g)' => InFlight("CHILD_ACCEPT", g)
            /\ <<"FORK_REQUEST", g>> \in outstanding'
                 => <<"FORK_REQUEST", g>> \in outstanding
      BY <1>11, <2>1 DEF ReleaseResources, FirstTry, InFlight
    <3>4. used \subseteq Fork
      BY Zenon DEF ForkTypes
    <3> QED
      BY <3>1, <3>2, <3>3, <3>4, Zenon DEF KeptByChild, ChildAccepted
  <2> QED
    BY <2>2, <2>3, <2>4, <2>5
<1>12. ASSUME NEW f \in Fork, ProcessFetch(f)
     PROVE StructInv'
  BY <1>12, StructFrame, Zenon DEF ProcessFetch
<1>13. ASSUME NEW f \in Fork, FetchReturns(f)
     PROVE StructInv'
  BY <1>13, StructFrame, Zenon DEF FetchReturns
<1> QED
  BY <1>1, <1>2, <1>3, <1>4, <1>5, <1>6, <1>7, <1>8, <1>9, <1>10, <1>11, <1>12,
     <1>13, Zenon
     DEF DeliveryStep

(* The steps of a failure keep StructInv.                                  *)
LEMMA StructFault ==
  TypeOK /\ StructInv /\ (FaultStep) => StructInv'
<1> SUFFICES ASSUME TypeOK, StructInv, FaultStep PROVE StructInv'
  OBVIOUS
<1> USE IdAssumption
<1> USE DEF TypeOK, StructInv, userVars, ownerVars, forkVars, callVars,
           fetchVars, netVars
<1>1. CASE RejectRemoteCall
  BY <1>1, StructFrame, Zenon DEF RejectRemoteCall
<1>2. CASE RemoteTimeout
  <2>2. OnlyUsed'
    BY <1>2, Zenon DEF RemoteTimeout, delForkOfOwner, delPendingUser, OnlyUsed
  <2>3. UserMaps'
    BY <1>2, Zenon DEF RemoteTimeout, delForkOfOwner, delPendingUser, UserMaps,
       InFlight
  <2>4. BeforeReceipt'
    BY <1>2, Zenon DEF RemoteTimeout, delForkOfOwner, delPendingUser, BeforeReceipt,
       InFlight, Control
  <2>5. KeptByChild'
    BY <1>2, Zenon DEF RemoteTimeout, delForkOfOwner, delPendingUser, KeptByChild,
       InFlight, ChildAccepted
  <2> QED
    BY <2>2, <2>3, <2>4, <2>5
<1>3. ASSUME NEW type \in Control, NEW f \in Fork, Retry(type, f)
     PROVE StructInv'
  <2>1. /\ \A g \in Fork : /\ Msg("CALL", g, 0).type = "CALL"
                           /\ Msg("CALL", g, 0).fork = g
                           /\ ~Msg("CALL", g, 0).ack
        /\ Msg(type, f, attempt[<<type, f>>] + 1).type = type
        /\ Msg(type, f, attempt[<<type, f>>] + 1).fork = f
        /\ Msg(type, f, attempt[<<type, f>>] + 1).ack = FALSE
    BY <1>3, MsgFacts, RetriesAssumption DEF Control, NetTypes
  <2>2. \A t \in Control, g \in Fork : InFlight(t, g)' => InFlight(t, g)
    BY <1>3, <2>1, Zenon DEF Retry, InFlight
  <2>3. f \in used
    BY <1>3, <2>1, Zenon DEF Retry, OnlyUsed
  <2> QED
    BY <1>3, <2>1, <2>2, <2>3, StructMessage, Zenon DEF Retry, OnlyUsed, Control
<1>4. ASSUME NEW type \in Control, NEW f \in Fork, GiveUp(type, f)
     PROVE StructInv'
  <2>1. /\ \A g \in Fork : /\ Msg("CALL", g, 0).type = "CALL"
                           /\ Msg("CALL", g, 0).fork = g
                           /\ ~Msg("CALL", g, 0).ack
    BY <1>4, MsgFacts DEF Control
  <2>2. \A t \in Control, g \in Fork : InFlight(t, g)' => InFlight(t, g)
    BY <1>4, <2>1, Zenon DEF GiveUp, InFlight
  <2> QED
    BY <1>4, <2>1, <2>2, StructMessage, Zenon DEF GiveUp, OnlyUsed
<1> QED
  BY <1>1, <1>2, <1>3, <1>4, Zenon DEF FaultStep

(* Every step keeps StructInv.                                             *)
LEMMA StructStep == TypeOK /\ StructInv /\ [Next]_vars => StructInv'
<1>1. TypeOK /\ StructInv /\ UNCHANGED vars => StructInv'
  BY StructFrame, Zenon DEF vars, userVars, ownerVars, forkVars, callVars, fetchVars,
     netVars
<1> QED
  BY <1>1, StructApplication, StructRemoteCall, StructDelivery, StructFault, Zenon
     DEF Next

(* G2 of the RRef protocol: pendingChildren_ keeps a forking UserRRef from *)
(* sending RREF_USER_DELETE until its child was received and is confirmed. *)
(* It holds with retries, give-ups and timeouts, and also when unconfirmed *)
(* UserRRefs are passed on.                                                *)
THEOREM ChildKeepsParent == Spec => []ParentOutlivesChild
<1>1. Init => TypeOK
  BY OwnerAssumption, RetriesAssumption DEF Init, TypeOK, ForkTypes, UserTypes,
     OwnerTypes, CallTypes, NetTypes
<1>2. Init => OnlyUsed /\ UserMaps
  BY Zenon DEF Init, OnlyUsed, UserMaps, InFlight
<1>3. Init => BeforeReceipt /\ KeptByChild
  BY Zenon DEF Init, BeforeReceipt, KeptByChild, InFlight
<1>4. TypeOK /\ StructInv => ParentOutlivesChild
  BY IdAssumption DEF TypeOK, ForkTypes, UserTypes, StructInv, UserMaps,
     KeptByChild, ChildAccepted, ParentOutlivesChild
<1> QED
  BY <1>1, <1>2, <1>3, <1>4, TypeStep, StructStep, PTL DEF Spec, StructInv

=============================================================================
