-------------------------- MODULE RRefOwnerProofs ---------------------------
(***************************************************************************)
(* The owner's count is right (OwnerOutlivesUsers), proved for every set   *)
(* of workers and fork ids and every number of retries, provided no        *)
(* creator passes on a UserRRef the owner has not confirmed.  CountInv is  *)
(* the invariant behind it: what the owner counts.                         *)
(***************************************************************************)
EXTENDS RRefForkProofs

(* Parents are older than their children, stated without a rank.           *)
Acyclic ==
  \A T \in SUBSET used : T # {} => \E f \in T : parent[f] \notin T

(* The creator before the owner's reply, and when the call has failed: its *)
(* fork is the only one there is.                                          *)
CreatorInv ==
  /\ origin # "user" => creator = {} /\ timedOut \cap Fork = {}
  /\ origin \in {"none", "local"} => call = "none" /\ remote = "none"
  /\ origin = "user" /\ remote # "ok" => used = creator /\ ownerHandles = {}
  /\ origin = "user" => remote # "none"
  /\ timedOut \cap Fork # {} => remote = "timeout"
  /\ timedOut \cap Fork \subseteq creator
  /\ origin = "user" /\ remote = "timeout" => creator \subseteq timedOut
  /\ \A f \in creator : f \in pendingUsers <=> remote \in {"wait", "err"}
  /\ \A f \in pendingUsers : f \notin creator => parent[f] # RRefId

(* Whom the owner counts.                                                  *)
CountInv ==
  /\ confirmedUsers \ timedOut \subseteq forks
  /\ \A m \in msgs : m.type = "FORK_REQUEST" /\ m.ack
                        /\ m.fork \notin deletedOnOwner => m.fork \in forks
  /\ \A f \in Fork : (Msg("CALL", f, 0) \in msgs /\ parent[f] = RRefId)
                     \/ pickling[f] # 0 => f \in forks
  /\ origin = "user" /\ call \in {"forked", "done"} /\ remote = "wait"
       => creator \subseteq forks

(* When the OwnerRRef must be there.                                       *)
OwnerInv ==
  /\ \A f \in users : f \notin timedOut /\ ~(f \in creator /\ f \in pendingUsers)
       => owners # 0
  /\ \A f \in Fork : Msg("CALL", f, 0) \in msgs /\ parent[f] = RRefId
       => owners # 0
  /\ origin = "user" /\ call \in {"owned", "forked", "valued", "done"}
       /\ remote = "wait" => owners # 0

IInv == TypeOK /\ StructInv /\ Acyclic /\ CreatorInv /\ CountInv /\ OwnerInv

(* With only one fork left, of a UserRRef that is gone, no UserRRef needs   *)
(* the OwnerRRef any more.  A pending one would have a living parent; the   *)
(* oldest of them has a confirmed one, which the owner counts.              *)
LEMMA LastFork ==
  ASSUME IInv, NEW x, x \notin users, forks \subseteq {x},
         NEW f \in users, f \notin timedOut, ~(f \in creator /\ f \in pendingUsers)
  PROVE  FALSE
<1> DEFINE T == pendingUsers \ creator
<1> USE DEF IInv, StructInv
<1>1. ASSUME T # {} PROVE FALSE
  <2>1. T \in SUBSET used
    BY Zenon DEF OnlyUsed, UserMaps
  <2>2. PICK y \in T : parent[y] \notin T
    BY <1>1, <2>1, Zenon DEF Acyclic
  <2>3. parent[y] \in users /\ y \in used
    BY <2>1, <2>2, Zenon DEF CreatorInv, KeptByChild, ChildAccepted
  <2>4. origin = "user" => remote = "ok"
    BY <2>2, <2>3, Zenon DEF CreatorInv
  <2>5. CASE parent[y] \in pendingUsers
    BY <2>2, <2>4, <2>5, Zenon DEF CreatorInv
  <2>6. CASE parent[y] \in confirmedUsers
    BY <2>3, <2>4, <2>6, Zenon DEF CreatorInv, CountInv, TypeOK, ForkTypes,
       UserTypes, OwnerTypes, CallTypes
  <2> QED
    BY <2>3, <2>5, <2>6, Zenon DEF UserMaps
<1>2. f \in confirmedUsers
  BY <1>1, Zenon DEF UserMaps
<1> QED
  BY <1>2, Zenon DEF CountInv

(* A new fork, whose parent is older, closes no cycle.                      *)
LEMMA NewLeaf ==
  ASSUME Acyclic, NEW f, f \notin used, used' = used \cup {f}, parent'[f] # f,
         \A g \in used : parent'[g] = parent[g] /\ parent[g] # f
  PROVE  Acyclic'
<1> SUFFICES ASSUME NEW T \in SUBSET (used \cup {f}), T # {}
             PROVE  \E g \in T : parent'[g] \notin T
  BY Zenon DEF Acyclic
<1>1. CASE T \ {f} = {}
  BY <1>1, Zenon
<1>2. CASE T \ {f} # {}
  <2>1. T \ {f} \in SUBSET used
    BY Zenon
  <2>2. PICK g \in T \ {f} : parent[g] \notin T \ {f}
    BY <1>2, <2>1, Zenon DEF Acyclic
  <2> QED
    BY <2>1, <2>2, Zenon
<1> QED
  BY <1>1, <1>2, Zenon

(* A step that only drops references, adds to forks_, or moves remote() on *)
(* without a reply keeps the owner's invariants.                           *)
LEMMA OwnerFrame ==
  ASSUME IInv,
         UNCHANGED <<used, parent, creator, origin, timedOut, remote, pickling,
                     pendingUsers>>,
         ownerHandles' \subseteq ownerHandles, users' \subseteq users,
         confirmedUsers' \subseteq confirmedUsers,
         deletedOnOwner \subseteq deletedOnOwner', forks \subseteq forks',
         owners # 0 => owners' # 0, call = "none" => call' = "none",
         call' \in {"owned", "forked", "valued", "done"} =>
           \/ call \in {"owned", "forked", "valued", "done"}
           \/ owners' # 0 \/ origin # "user",
         call' \in {"forked", "done"} =>
           call \in {"forked", "done"} \/ creator \subseteq forks',
         \A g \in Fork : Msg("CALL", g, 0) \in msgs' => Msg("CALL", g, 0) \in msgs,
         \A m \in msgs' : m.type = "FORK_REQUEST" /\ m.ack =>
                            m \in msgs \/ m.fork \in forks'
  PROVE  Acyclic' /\ CreatorInv' /\ CountInv' /\ OwnerInv'
<1>1. Acyclic'
  BY Zenon DEF IInv, Acyclic
<1>2. CreatorInv'
  BY Zenon DEF IInv, CreatorInv
<1>3. CountInv'
  BY Zenon DEF IInv, CountInv
<1>4. OwnerInv'
  BY Zenon DEF IInv, OwnerInv
<1> QED
  BY <1>1, <1>2, <1>3, <1>4, Zenon

(* The steps of the application keep the owner's invariants.               *)
LEMMA CountApplication ==
  ASSUME IInv, "creator" \notin EarlyShare, ApplicationStep
  PROVE  Acyclic' /\ CreatorInv' /\ CountInv' /\ OwnerInv'
<1> DEFINE G == Acyclic' /\ CreatorInv' /\ CountInv' /\ OwnerInv'
<1> USE IdAssumption
<1> USE DEF IInv, TypeOK, StructInv, userVars, ownerVars, forkVars, callVars,
           fetchVars, netVars
<1>1. CASE RemoteToSelf
  <2>2. Acyclic'
    BY <1>1, Zenon DEF RemoteToSelf, Acyclic
  <2>3. CreatorInv'
    BY <1>1, Zenon DEF RemoteToSelf, CreatorInv
  <2>4. CountInv'
    BY <1>1, Zenon DEF RemoteToSelf, OnlyUsed, CountInv
  <2>5. OwnerInv'
    BY <1>1 DEF RemoteToSelf, OwnerInv
  <2> QED
    BY <2>2, <2>3, <2>4, <2>5, Zenon
<1>2. CASE LocalRRef
  <2>2. Acyclic'
    BY <1>2, Zenon DEF LocalRRef, Acyclic
  <2>3. CreatorInv'
    BY <1>2, Zenon DEF LocalRRef, CreatorInv
  <2>4. CountInv'
    BY <1>2, Zenon DEF LocalRRef, CountInv
  <2>5. OwnerInv'
    BY <1>2, Zenon DEF LocalRRef, OwnerInv
  <2> QED
    BY <2>2, <2>3, <2>4, <2>5
<1>3. ASSUME NEW f \in Fork, NEW w \in Worker, RemoteToOwner(f, w)
     PROVE G
  <2>2. Acyclic'
    <3>1. used' = used \cup {f} /\ f \notin used
      BY <1>3, Zenon DEF RemoteToOwner, OnlyUsed
    <3>2. parent'[f] # f /\ \A g \in used : parent'[g] = parent[g]
                         /\ parent[g] # f
      BY <1>3, <3>1, Zenon DEF RemoteToOwner, OnlyUsed, UserMaps, ForkTypes, UserTypes
    <3> QED
      BY <3>1, <3>2, NewLeaf, Zenon
  <2>3. CreatorInv'
    BY <1>3, Zenon DEF RemoteToOwner, OnlyUsed, CreatorInv
  <2>4. CountInv'
    BY <1>3, Zenon DEF RemoteToOwner, CountInv
  <2>5. OwnerInv'
    BY <1>3, Zenon DEF RemoteToOwner, OwnerInv
  <2> QED
    BY <2>2, <2>3, <2>4, <2>5, Zenon
<1>4. ASSUME NEW f \in Fork, NEW w \in Worker, NEW i \in ownerHandles,
             OwnerFork(f, w, i)
     PROVE G
  <2>1. /\ \A g \in Fork : /\ Msg("CALL", g, 0).type = "CALL"
                           /\ Msg("CALL", g, 0).fork = g
                           /\ ~Msg("CALL", g, 0).ack
    BY <1>4, MsgFacts DEF Control
  <2>2. Acyclic'
    <3>1. used' = used \cup {f} /\ f \notin used
      BY <1>4, Zenon DEF OwnerFork, NewFork
    <3>2. parent' = [parent EXCEPT ![f] = RRefId] /\ RRefId # f
      BY <1>4, <3>1, Zenon DEF OwnerFork, NewFork
    <3>3. \A g \in used : parent[g] # f
      BY <3>1, Zenon DEF OnlyUsed
    <3>4. parent'[f] = RRefId /\ \A g \in used : parent'[g] = parent[g]
      BY <3>1, <3>2, Zenon DEF ForkTypes
    <3> QED
      BY <3>1, <3>2, <3>3, <3>4, NewLeaf, Zenon
  <2>3. CreatorInv'
    <3>1. f \notin used /\ used' = used \cup {f} /\ ownerHandles # {}
          /\ UNCHANGED <<origin, creator, timedOut, call, remote, ownerHandles,
                         pendingUsers>>
      BY <1>4, Zenon DEF OwnerFork, NewFork
    <3>2. \A g \in pendingUsers : parent'[g] = parent[g]
      BY <1>4, <3>1, Zenon DEF OwnerFork, NewFork, OnlyUsed, UserMaps, ForkTypes
    <3> QED
      BY <3>1, <3>2, Zenon DEF CreatorInv
  <2>4. CountInv'
    <3>1. /\ forks' = forks \cup {f}
          /\ \A g \in Fork \ {f} : pickling'[g] = pickling[g]
          /\ \A g \in Fork \ {f} : parent'[g] = parent[g]
      BY <1>4, Zenon DEF OwnerFork, NewFork, ForkTypes, OwnerTypes
    <3>2. UNCHANGED <<msgs, confirmedUsers, timedOut, deletedOnOwner, origin, call,
                      remote, creator>>
      BY <1>4, Zenon DEF OwnerFork
    <3> QED
      BY <3>1, <3>2, Zenon DEF CountInv
  <2>5. OwnerInv'
    <3>1. \A g \in Fork : Msg("CALL", g, 0) \in msgs => g # f /\ parent'[g] = parent[g]
      BY <1>4, <2>1 DEF OwnerFork, NewFork, OnlyUsed, ForkTypes
    <3>2. UNCHANGED <<msgs, owners, users, pendingUsers, timedOut, origin, call, remote,
                      creator>>
      BY <1>4, Zenon DEF OwnerFork
    <3> QED
      BY <3>1, <3>2, Zenon DEF OwnerInv
  <2> QED
    BY <2>2, <2>3, <2>4, <2>5, Zenon
<1>5. ASSUME NEW p \in Fork, NEW f \in Fork, NEW w \in Worker,
             UserFork(p, f, w)
     PROVE G
  <2>1. /\ \A g \in Fork : /\ Msg("CALL", g, 0).type = "CALL"
                           /\ Msg("CALL", g, 0).fork = g
                           /\ ~Msg("CALL", g, 0).ack
    BY <1>5, MsgFacts DEF Control
  <2>2. Acyclic'
    <3>1. used' = used \cup {f} /\ f \notin used
      BY <1>5, Zenon DEF UserFork, NewFork
    <3>2. parent' = [parent EXCEPT ![f] = p] /\ p # f
      BY <1>5, <3>1, Zenon DEF UserFork, NewFork, OnlyUsed
    <3>3. \A g \in used : parent[g] # f
      BY <3>1, Zenon DEF OnlyUsed
    <3>4. parent'[f] = p /\ \A g \in used : parent'[g] = parent[g]
      BY <3>1, <3>2, Zenon DEF ForkTypes
    <3> QED
      BY <3>1, <3>2, <3>3, <3>4, NewLeaf, Zenon
  <2>3. CreatorInv'
    <3>1. /\ f \notin used /\ used' = used \cup {f} /\ p \in users
          /\ p \notin timedOut
          /\ p \in confirmedUsers \/ (p \in pendingUsers /\ p \notin creator)
          /\ UNCHANGED <<origin, creator, timedOut, call, remote, ownerHandles,
                         pendingUsers>>
      BY <1>5, Zenon DEF UserFork, NewFork, MayShare
    <3>2. p \in used /\ (p \in confirmedUsers => p \notin pendingUsers)
      BY <3>1, Zenon DEF OnlyUsed, UserMaps
    <3>3. ~(origin = "user" /\ remote # "ok")
      BY <3>1, <3>2, Zenon DEF CreatorInv, CallTypes
    <3>4. \A g \in pendingUsers : parent'[g] = parent[g]
      BY <1>5, <3>1 DEF UserFork, NewFork, OnlyUsed, UserMaps, ForkTypes
    <3> QED
      BY <3>1, <3>3, <3>4, Zenon DEF CreatorInv
  <2>4. CountInv'
    <3>1. p \in Fork /\ p # RRefId /\ parent'[f] = p
          /\ \A g \in Fork \ {f} : parent'[g] = parent[g]
      BY <1>5, Zenon DEF UserFork, NewFork, ForkTypes
    <3>2. /\ \A m \in msgs' : m \in msgs \/ m.type = "CALL"
          /\ \A g \in Fork \ {f} : Msg("CALL", g, 0) \in msgs' => Msg("CALL", g, 0) \in msgs
          /\ pickling[f] = 0
      BY <1>5, <2>1, Zenon DEF UserFork, NewFork, OnlyUsed
    <3>3. UNCHANGED <<confirmedUsers, timedOut, deletedOnOwner, forks, pickling, origin,
                      call, remote, creator>>
      BY <1>5, Zenon DEF UserFork
    <3> QED
      BY <3>1, <3>2, <3>3, Zenon DEF CountInv
  <2>5. OwnerInv'
    <3>1. p \in Fork /\ p # RRefId /\ parent'[f] = p
          /\ \A g \in Fork \ {f} : parent'[g] = parent[g]
      BY <1>5 DEF UserFork, NewFork, ForkTypes
    <3>2. \A g \in Fork \ {f} : Msg("CALL", g, 0) \in msgs' => Msg("CALL", g, 0) \in msgs
      BY <1>5, <2>1, Zenon DEF UserFork
    <3>3. UNCHANGED <<owners, users, pendingUsers, timedOut, origin, call, remote,
                      creator>>
      BY <1>5, Zenon DEF UserFork
    <3> QED
      BY <3>1, <3>2, <3>3, Zenon DEF OwnerInv
  <2> QED
    BY <2>2, <2>3, <2>4, <2>5, Zenon
<1>6. ASSUME NEW f \in Fork, DropHandle(f)
     PROVE G
  BY <1>6, OwnerFrame, Zenon DEF DropHandle
<1>7. ASSUME NEW f \in Fork, ToHere(f)
     PROVE G
  BY <1>7, OwnerFrame, Zenon DEF ToHere
<1>8. ASSUME NEW i \in ownerHandles, DropOwnerHandle(i)
     PROVE G
  BY <1>8, OwnerFrame, Zenon DEF DropOwnerHandle
<1> QED
  BY <1>1, <1>2, <1>3, <1>4, <1>5, <1>6, <1>7, <1>8, Zenon DEF ApplicationStep

(* The steps of remote() and its reply keep the owner's invariants.        *)
LEMMA CountRemoteCall ==
  ASSUME IInv, RemoteCallStep
  PROVE  Acyclic' /\ CreatorInv' /\ CountInv' /\ OwnerInv'
<1> DEFINE G == Acyclic' /\ CreatorInv' /\ CountInv' /\ OwnerInv'
<1> USE IdAssumption
<1> USE DEF IInv, TypeOK, StructInv, userVars, ownerVars, forkVars, callVars,
           fetchVars, netVars
<1>1. CASE ProcessRemoteCall
  BY <1>1, OwnerFrame DEF ProcessRemoteCall, getOrCreateOwnerRRef, createOwner,
     ownerAfter, OwnerTypes
<1>2. CASE ProcessRemoteCallOnSelf
  BY <1>2, OwnerFrame, Zenon DEF ProcessRemoteCallOnSelf, CreatorInv
<1>3. CASE PythonAddFork
  BY <1>3, OwnerFrame, Zenon DEF PythonAddFork
<1>4. CASE FinishForkedCall
  BY <1>4, OwnerFrame, Zenon DEF FinishForkedCall
<1>5. CASE ScriptSetValue
  BY <1>5, OwnerFrame, Zenon DEF ScriptSetValue
<1>6. CASE ScriptPostProcessing
  BY <1>6, OwnerFrame, Zenon DEF ScriptPostProcessing
<1>7. CASE ConfirmPendingUser
  <2>2. Acyclic'
    BY <1>7, Zenon DEF ConfirmPendingUser, delPendingUser, Acyclic
  <2>3. CreatorInv'
    BY <1>7, Zenon DEF ConfirmPendingUser, delPendingUser, CreatorInv
  <2>4. CountInv'
    BY <1>7, Zenon DEF ConfirmPendingUser, delPendingUser, CountInv
  <2>5. OwnerInv'
    BY <1>7, Zenon DEF ConfirmPendingUser, delPendingUser, OwnerInv
  <2> QED
    BY <2>2, <2>3, <2>4, <2>5, Zenon
<1>8. CASE FinishCreatingOwnerRRef
  <2>2. Acyclic'
    BY <1>8, Zenon DEF FinishCreatingOwnerRRef, delForkOfOwner, Acyclic
  <2>3. CreatorInv'
    BY <1>8, Zenon DEF FinishCreatingOwnerRRef, delForkOfOwner, CreatorInv
  <2>4. CountInv'
    BY <1>8 DEF FinishCreatingOwnerRRef, delForkOfOwner, ForkTypes, OnlyUsed,
       UserMaps, CountInv
  <2>5. OwnerInv'
    <3>1. RRefId \notin users
      BY Zenon DEF UserTypes
    <3>2. CASE forks \subseteq {RRefId}
      BY <1>8, <3>1, <3>2, LastFork
         DEF FinishCreatingOwnerRRef, delForkOfOwner, ForkTypes, UserTypes,
             OwnerTypes, CallTypes, CountInv, OwnerInv
    <3> QED
      BY <1>8, <3>2, Zenon DEF FinishCreatingOwnerRRef, delForkOfOwner, OwnerInv
  <2> QED
    BY <2>2, <2>3, <2>4, <2>5
<1>9. CASE RemoteUnknownError
  <2>2. Acyclic'
    BY <1>9, Zenon DEF RemoteUnknownError, Acyclic
  <2>3. CreatorInv'
    BY <1>9, Zenon DEF RemoteUnknownError, CreatorInv
  <2>4. CountInv'
    BY <1>9, Zenon DEF RemoteUnknownError, CountInv
  <2>5. OwnerInv'
    BY <1>9, Zenon DEF RemoteUnknownError, OwnerInv
  <2> QED
    BY <2>2, <2>3, <2>4, <2>5
<1> QED
  BY <1>1, <1>2, <1>3, <1>4, <1>5, <1>6, <1>7, <1>8, <1>9, Zenon DEF RemoteCallStep

----------------------------------------------------------------------------
(* Deliveries, retries and the owner.                                      *)

(* The steps of a delivery keep the owner's invariants.                    *)
LEMMA CountDelivery ==
  ASSUME IInv, \E f \in Fork : DeliveryStep(f)
  PROVE  Acyclic' /\ CreatorInv' /\ CountInv' /\ OwnerInv'
<1> DEFINE G == Acyclic' /\ CreatorInv' /\ CountInv' /\ OwnerInv'
<1> USE IdAssumption
<1> USE DEF IInv, TypeOK, StructInv, userVars, ownerVars, forkVars, callVars,
           fetchVars, netVars
<1>1. ASSUME NEW f \in Fork, OwnerForkSend(f)
     PROVE G
  <2>1. /\ \A g \in Fork : /\ Msg("CALL", g, 0).type = "CALL"
                           /\ Msg("CALL", g, 0).fork = g
                           /\ ~Msg("CALL", g, 0).ack
    BY <1>1, MsgFacts DEF Control
  <2>2. Acyclic'
    BY <1>1, Zenon DEF OwnerForkSend, Acyclic
  <2>3. CreatorInv'
    BY <1>1, <2>1, Zenon DEF OwnerForkSend, CreatorInv
  <2>4. CountInv'
    BY <1>1, <2>1 DEF OwnerForkSend, CountInv
  <2>5. OwnerInv'
    BY <1>1, <2>1, Zenon DEF OwnerForkSend, OwnerInv
  <2> QED
    BY <2>2, <2>3, <2>4, <2>5, Zenon
<1>2. ASSUME NEW f \in Fork, UnpickleOnOwnerFromOwner(f)
     PROVE G
  <2>1. /\ \A g \in Fork : /\ Msg("CALL", g, 0).type = "CALL"
                           /\ Msg("CALL", g, 0).fork = g
                           /\ ~Msg("CALL", g, 0).ack
    BY <1>2, MsgFacts DEF Control
  <2>2. Acyclic'
    BY <1>2, Zenon DEF UnpickleOnOwnerFromOwner, createOwner, ownerAfter, Acyclic
  <2>3. CreatorInv'
    BY <1>2, <2>1, Zenon DEF UnpickleOnOwnerFromOwner, createOwner, ownerAfter,
       ForkTypes, UserTypes, OwnerTypes, CallTypes, OnlyUsed, UserMaps,
       BeforeReceipt, KeptByChild, ChildAccepted, CreatorInv, CountInv,
       OwnerInv, Control, InFlight
  <2>4. CountInv'
    <3>1. f \notin users \cup creator /\ ~InFlight("FORK_REQUEST", f)
                                      /\ pickling[f] = 0
      BY <1>2, Zenon DEF UnpickleOnOwnerFromOwner, BeforeReceipt, Control
    <3>2. \A m \in msgs : m.type = "FORK_REQUEST" => m.fork # f
      BY <3>1, Zenon DEF InFlight
    <3> QED
      BY <1>2, <2>1, <3>1, <3>2, Zenon
         DEF UnpickleOnOwnerFromOwner, CountInv, UserMaps
  <2>5. OwnerInv'
    <3>1. f \notin users \cup creator /\ f \in used
      BY <1>2, <2>1, Zenon DEF UnpickleOnOwnerFromOwner, BeforeReceipt, OnlyUsed
    <3>2. ~(origin = "user" /\ remote = "wait")
      BY <3>1, Zenon DEF CreatorInv
    <3>3. CASE forks \subseteq {f}
      <4>1. \A g \in users : g \in timedOut \/ (g \in creator /\ g \in pendingUsers)
        BY <3>1, <3>3, LastFork, Zenon
      <4>2. \A g \in Fork : ~(Msg("CALL", g, 0) \in msgs' /\ parent[g] = RRefId)
        BY <1>2, <2>1, <3>3, Zenon DEF UnpickleOnOwnerFromOwner, CountInv
      <4> QED
        BY <1>2, <3>2, <4>1, <4>2, Zenon DEF UnpickleOnOwnerFromOwner, OwnerInv
    <3> QED
      BY <1>2, <3>2, <3>3, Zenon DEF UnpickleOnOwnerFromOwner, createOwner,
         ownerAfter, OwnerInv, ForkTypes, UserTypes, OwnerTypes, CallTypes
  <2> QED
    BY <2>2, <2>3, <2>4, <2>5
<1>3. ASSUME NEW f \in Fork, UnpickleOnOwnerFromUser(f)
     PROVE G
  <2>1. /\ \A g \in Fork : /\ Msg("CALL", g, 0).type = "CALL"
                           /\ Msg("CALL", g, 0).fork = g
                           /\ ~Msg("CALL", g, 0).ack
        /\ Msg("CHILD_ACCEPT", f, 0).type = "CHILD_ACCEPT"
        /\ Msg("CHILD_ACCEPT", f, 0).fork = f
        /\ Msg("CHILD_ACCEPT", f, 0).ack = FALSE
    BY <1>3, MsgFacts DEF Control
  <2>2. Acyclic'
    BY <1>3, Zenon DEF UnpickleOnOwnerFromUser, FirstTry, getOrCreateOwnerRRef,
       createOwner, ownerAfter, Acyclic
  <2>3. CreatorInv'
    BY <1>3, <2>1, Zenon DEF UnpickleOnOwnerFromUser, FirstTry, getOrCreateOwnerRRef,
       createOwner, ownerAfter, ForkTypes, UserTypes, OwnerTypes, CallTypes,
       OnlyUsed, UserMaps, BeforeReceipt, KeptByChild, ChildAccepted,
       CreatorInv, CountInv, OwnerInv, Control, InFlight
  <2>4. CountInv'
    BY <1>3, <2>1, Zenon DEF UnpickleOnOwnerFromUser, FirstTry, getOrCreateOwnerRRef,
       createOwner, ownerAfter, CountInv
  <2>5. OwnerInv'
    BY <1>3, <2>1, Zenon DEF UnpickleOnOwnerFromUser, FirstTry, getOrCreateOwnerRRef,
       createOwner, ownerAfter, OwnerInv
  <2> QED
    BY <2>2, <2>3, <2>4, <2>5
<1>4. ASSUME NEW f \in Fork, UnpickleOnUserFromOwner(f)
     PROVE G
  <2>1. /\ \A g \in Fork : /\ Msg("CALL", g, 0).type = "CALL"
                           /\ Msg("CALL", g, 0).fork = g
                           /\ ~Msg("CALL", g, 0).ack
    BY <1>4, MsgFacts DEF Control
  <2>2. Acyclic'
    BY <1>4, Zenon DEF UnpickleOnUserFromOwner, Acyclic
  <2>3. CreatorInv'
    BY <1>4, <2>1, Zenon DEF UnpickleOnUserFromOwner, CreatorInv
  <2>4. CountInv'
    BY <1>4, <2>1, Zenon DEF UnpickleOnUserFromOwner, CountInv
  <2>5. OwnerInv'
    BY <1>4, <2>1, Zenon DEF UnpickleOnUserFromOwner, OwnerInv
  <2> QED
    BY <2>2, <2>3, <2>4, <2>5
<1>5. ASSUME NEW f \in Fork, UnpickleOnUserFromUser(f)
     PROVE G
  <2>1. /\ \A g \in Fork : /\ Msg("CALL", g, 0).type = "CALL"
                           /\ Msg("CALL", g, 0).fork = g
                           /\ ~Msg("CALL", g, 0).ack
        /\ Msg("FORK_REQUEST", f, 0).type = "FORK_REQUEST"
        /\ Msg("FORK_REQUEST", f, 0).fork = f
        /\ Msg("FORK_REQUEST", f, 0).ack = FALSE
    BY <1>5, MsgFacts DEF Control
  <2>2. Acyclic'
    BY <1>5, Zenon DEF UnpickleOnUserFromUser, FirstTry, Acyclic
  <2>3. CreatorInv'
    BY <1>5, <2>1, Zenon DEF UnpickleOnUserFromUser, FirstTry, BeforeReceipt,
       CreatorInv
  <2>4. CountInv'
    BY <1>5, <2>1, Zenon DEF UnpickleOnUserFromUser, FirstTry, CountInv
  <2>5. OwnerInv'
    <3>1. parent[f] \in users /\ parent[f] # RRefId /\ f \in used
      BY <1>5, <2>1, Zenon DEF UnpickleOnUserFromUser, KeptByChild, ChildAccepted,
         OnlyUsed
    <3>2. f \notin creator /\ f \notin users
      BY <1>5, Zenon DEF UnpickleOnUserFromUser, BeforeReceipt
    <3>3. origin = "user" => remote = "ok"
      BY <3>1, <3>2, Zenon DEF CreatorInv
    <3>4. parent[f] \notin timedOut /\ ~(parent[f] \in creator
                                    /\ parent[f] \in pendingUsers)
      BY <3>1, <3>3, Zenon DEF CreatorInv, UserTypes
    <3>5. owners # 0
      BY <3>1, <3>4, Zenon DEF OwnerInv
    <3>6. owners' # 0
      BY <1>5, <3>5, Zenon DEF UnpickleOnUserFromUser
    <3> QED
      BY <3>6, Zenon DEF OwnerInv
  <2> QED
    BY <2>2, <2>3, <2>4, <2>5
<1>6. ASSUME NEW f \in Fork, NEW n \in 0 .. MaxRetries,
             ProcessForkRequest(f, n)
     PROVE G
  <2>1. /\ \A g \in Fork : /\ Msg("CALL", g, 0).type = "CALL"
                           /\ Msg("CALL", g, 0).fork = g
                           /\ ~Msg("CALL", g, 0).ack
        /\ Ack("FORK_REQUEST", f, n).type = "FORK_REQUEST"
        /\ Ack("FORK_REQUEST", f, n).fork = f
        /\ Ack("FORK_REQUEST", f, n).ack = TRUE
        /\ Msg("FORK_REQUEST", f, n).type = "FORK_REQUEST"
        /\ Msg("FORK_REQUEST", f, n).fork = f
        /\ Msg("FORK_REQUEST", f, n).ack = FALSE
    BY <1>6, MsgFacts DEF Control
  <2> QED
    BY <1>6, <2>1, OwnerFrame, Zenon DEF ProcessForkRequest,
       addForkOfOwnerIfNotPresent
<1>7. ASSUME NEW f \in Fork, NEW n \in 0 .. MaxRetries,
             ProcessChildAccept(f, n)
     PROVE G
  <2>1. /\ \A g \in Fork : /\ Msg("CALL", g, 0).type = "CALL"
                           /\ Msg("CALL", g, 0).fork = g
                           /\ ~Msg("CALL", g, 0).ack
        /\ Ack("CHILD_ACCEPT", f, n).type = "CHILD_ACCEPT"
        /\ Ack("CHILD_ACCEPT", f, n).fork = f
        /\ Ack("CHILD_ACCEPT", f, n).ack = TRUE
        /\ Msg("CHILD_ACCEPT", f, n).type = "CHILD_ACCEPT"
        /\ Msg("CHILD_ACCEPT", f, n).fork = f
        /\ Msg("CHILD_ACCEPT", f, n).ack = FALSE
    BY <1>7, MsgFacts DEF Control
  <2> QED
    BY <1>7, <2>1, OwnerFrame, Zenon DEF ProcessChildAccept
<1>8. ASSUME NEW f \in Fork, NEW n \in 0 .. MaxRetries, ProcessUserDelete(f, n)
     PROVE G
  <2>1. /\ \A g \in Fork : /\ Msg("CALL", g, 0).type = "CALL"
                           /\ Msg("CALL", g, 0).fork = g
                           /\ ~Msg("CALL", g, 0).ack
        /\ Ack("USER_DELETE", f, n).type = "USER_DELETE"
        /\ Ack("USER_DELETE", f, n).fork = f
        /\ Ack("USER_DELETE", f, n).ack = TRUE
        /\ Msg("USER_DELETE", f, n).type = "USER_DELETE"
        /\ Msg("USER_DELETE", f, n).fork = f
        /\ Msg("USER_DELETE", f, n).ack = FALSE
    BY <1>8, MsgFacts DEF Control
  <2>2. Acyclic'
    BY <1>8, Zenon DEF ProcessUserDelete, delForkOfOwner, Acyclic
  <2>3. CreatorInv'
    BY <1>8, <2>1, Zenon DEF ProcessUserDelete, delForkOfOwner, CreatorInv
  <2>4. CountInv'
    <3>1. f \in deletedOnOwner /\ f \notin users /\ f \notin confirmedUsers
      BY <1>8, <2>1, Zenon DEF ProcessUserDelete, UserMaps, InFlight
    <3>2. Msg("CALL", f, 0) \notin msgs /\ pickling[f] = 0
      BY <3>1, Zenon DEF BeforeReceipt
    <3>3. ~(origin = "user" /\ remote = "wait" /\ f \in creator)
      BY <3>1, Zenon DEF UserMaps
    <3>4. /\ forks' = forks \ {f}
          /\ msgs' = (msgs \ {Msg("USER_DELETE", f, n)}) \cup {Ack("USER_DELETE", f, n)}
          /\ UNCHANGED <<users, confirmedUsers, timedOut, deletedOnOwner, parent,
                         pickling, origin, call, remote, creator>>
      BY <1>8, Zenon DEF ProcessUserDelete, delForkOfOwner
    <3>5. (confirmedUsers \ timedOut \subseteq forks)'
      BY <3>1, <3>4, Zenon DEF CountInv
    <3>6. (\A m \in msgs : m.type = "FORK_REQUEST" /\ m.ack
             /\ m.fork \notin deletedOnOwner => m.fork \in forks)'
      BY <2>1, <3>1, <3>4, ZenonT(40) DEF CountInv
    <3>7. (\A g \in Fork : (Msg("CALL", g, 0) \in msgs /\ parent[g] = RRefId)
             \/ pickling[g] # 0 => g \in forks)'
      BY <2>1, <3>2, <3>4, ZenonT(40) DEF CountInv
    <3>8. (origin = "user" /\ call \in {"forked", "done"} /\ remote = "wait"
             => creator \subseteq forks)'
      BY <3>3, <3>4, Zenon DEF CountInv
    <3> QED
      BY <3>5, <3>6, <3>7, <3>8, Zenon DEF CountInv
  <2>5. OwnerInv'
    <3>1. f \in deletedOnOwner /\ f \notin users
      BY <1>8, <2>1, Zenon DEF ProcessUserDelete, UserMaps, InFlight
    <3>2. ~(origin = "user" /\ remote = "wait")
      BY <3>1, Zenon DEF CreatorInv, UserMaps, OnlyUsed
    <3>3. CASE forks \subseteq {f}
      <4>1. \A g \in users : g \in timedOut \/ (g \in creator /\ g \in pendingUsers)
        BY <3>1, <3>3, LastFork, Zenon
      <4>2. \A g \in Fork : ~(Msg("CALL", g, 0) \in msgs' /\ parent[g] = RRefId)
        BY <1>8, <2>1, <3>1, <3>3, Zenon
           DEF ProcessUserDelete, CountInv, BeforeReceipt
      <4> QED
        BY <1>8, <3>2, <4>1, <4>2, Zenon DEF ProcessUserDelete, OwnerInv
    <3> QED
      BY <1>8, <2>1, <3>2, <3>3, Zenon DEF ProcessUserDelete, delForkOfOwner, OwnerInv
  <2> QED
    BY <2>2, <2>3, <2>4, <2>5, Zenon
<1>9. ASSUME NEW f \in Fork, FinishForkRequest(f)
     PROVE G
  <2>1. /\ \A g \in Fork : /\ Msg("CALL", g, 0).type = "CALL"
                           /\ Msg("CALL", g, 0).fork = g
                           /\ ~Msg("CALL", g, 0).ack
        /\ Msg("CHILD_ACCEPT", f, 0).type = "CHILD_ACCEPT"
        /\ Msg("CHILD_ACCEPT", f, 0).fork = f
        /\ Msg("CHILD_ACCEPT", f, 0).ack = FALSE
    BY <1>9, MsgFacts DEF Control
  <2>2. Acyclic'
    BY <1>9, Zenon DEF FinishForkRequest, FirstTry, delPendingUser, Answered, Acyclic
  <2>3. CreatorInv'
    BY <1>9, <2>1, ZenonT(40) DEF FinishForkRequest, FirstTry, delPendingUser, Answered,
       UserMaps, KeptByChild, ChildAccepted, CreatorInv, InFlight
  <2>4. CountInv'
    <3> DEFINE m == Ack("FORK_REQUEST", f, attempt[<<"FORK_REQUEST", f>>])
    <3>1. attempt[<<"FORK_REQUEST", f>>] \in Nat /\ m \in msgs
      BY <1>9, RetriesAssumption
         DEF FinishForkRequest, Answered, NetTypes, Control
    <3>2. m.type = "FORK_REQUEST" /\ m.fork = f /\ m.ack
      BY <3>1, MsgFacts DEF Control
    <3>3. f \notin deletedOnOwner
      BY <1>9, Zenon DEF FinishForkRequest, Answered, KeptByChild, UserMaps
    <3> HIDE DEF m
    <3>4. f \in forks
      BY <3>1, <3>2, <3>3, Zenon DEF CountInv
    <3> QED
      BY <1>9, <2>1, <3>4, Zenon DEF FinishForkRequest, FirstTry, delPendingUser,
         CountInv
  <2>5. OwnerInv'
    BY <1>9, <2>1, Zenon DEF FinishForkRequest, FirstTry, delPendingUser, Answered,
       UserMaps, KeptByChild, ChildAccepted, CreatorInv, OwnerInv, InFlight
  <2> QED
    BY <2>2, <2>3, <2>4, <2>5
<1>10. ASSUME NEW type \in Control, NEW f \in Fork, FinishControl(type, f)
     PROVE G
  <2>1. /\ \A g \in Fork : /\ Msg("CALL", g, 0).type = "CALL"
                           /\ Msg("CALL", g, 0).fork = g
                           /\ ~Msg("CALL", g, 0).ack
    BY <1>10, MsgFacts DEF Control
  <2> QED
    BY <1>10, <2>1, OwnerFrame, Zenon DEF FinishControl, Answered
<1>11. ASSUME NEW f \in Fork, ReleaseResources(f)
     PROVE G
  <2>1. /\ \A g \in Fork : /\ Msg("CALL", g, 0).type = "CALL"
                           /\ Msg("CALL", g, 0).fork = g
                           /\ ~Msg("CALL", g, 0).ack
        /\ Msg("USER_DELETE", f, 0).type = "USER_DELETE"
        /\ Msg("USER_DELETE", f, 0).fork = f
        /\ Msg("USER_DELETE", f, 0).ack = FALSE
    BY <1>11, MsgFacts DEF Control
  <2> QED
    BY <1>11, <2>1, OwnerFrame, Zenon DEF ReleaseResources, FirstTry
<1>12. ASSUME NEW f \in Fork, ProcessFetch(f)
     PROVE G
  BY <1>12, OwnerFrame, Zenon DEF ProcessFetch
<1>13. ASSUME NEW f \in Fork, FetchReturns(f)
     PROVE G
  BY <1>13, OwnerFrame, Zenon DEF FetchReturns
<1> QED
  BY <1>1, <1>2, <1>3, <1>4, <1>5, <1>6, <1>7, <1>8, <1>9, <1>10, <1>11, <1>12,
     <1>13, Zenon
     DEF DeliveryStep

(* The steps of a failure keep the owner's invariants.                     *)
LEMMA CountFault ==
  ASSUME IInv, FaultStep
  PROVE  Acyclic' /\ CreatorInv' /\ CountInv' /\ OwnerInv'
<1> DEFINE G == Acyclic' /\ CreatorInv' /\ CountInv' /\ OwnerInv'
<1> USE IdAssumption
<1> USE DEF IInv, TypeOK, StructInv, userVars, ownerVars, forkVars, callVars,
           fetchVars, netVars
<1>1. CASE RejectRemoteCall
  BY <1>1, OwnerFrame, Zenon DEF RejectRemoteCall
<1>2. CASE RemoteTimeout
  <2>2. Acyclic'
    BY <1>2, Zenon DEF RemoteTimeout, delForkOfOwner, delPendingUser, Acyclic
  <2>3. CreatorInv'
    <3>1. CASE origin = "user"
      BY <1>2, <3>1, Zenon DEF RemoteTimeout, delPendingUser, CreatorInv, ForkTypes,
         UserTypes, UserMaps
    <3>2. CASE origin = "self"
      <4>1. /\ timedOut' = timedOut \cup {RRefId} /\ remote = "wait"
            /\ remote' = "timeout"
            /\ UNCHANGED <<origin, creator, call, used, ownerHandles, pendingUsers, parent>>
        BY <1>2, <3>2, Zenon DEF RemoteTimeout
      <4>2. timedOut' \cap Fork = {}
        BY <3>2, <4>1, Zenon DEF CreatorInv
      <4> QED
        BY <3>2, <4>1, <4>2, Zenon DEF CreatorInv
    <3> QED
      BY <1>2, <3>1, <3>2, Zenon DEF RemoteTimeout
  <2>4. CountInv'
    <3>1. CASE origin = "user"
      BY <1>2, <3>1, Zenon DEF RemoteTimeout, delPendingUser, CountInv
    <3>2. CASE origin = "self"
      <4>1. /\ forks' = forks \ {RRefId} /\ timedOut \subseteq timedOut'
            /\ UNCHANGED <<confirmedUsers, deletedOnOwner, parent, pickling, msgs, origin>>
        BY <1>2, <3>2, Zenon DEF RemoteTimeout, delForkOfOwner
      <4>2. RRefId \notin confirmedUsers /\ \A m \in msgs : m.fork # RRefId
        BY IdAssumption, Zenon DEF UserTypes, NetTypes, Message
      <4> QED
        BY <3>2, <4>1, <4>2, IdAssumption, Zenon DEF CountInv
    <3> QED
      BY <1>2, <3>1, <3>2, Zenon DEF RemoteTimeout
  <2>5. OwnerInv'
    <3>1. CASE origin = "user"
      BY <1>2, <3>1, Zenon DEF RemoteTimeout, delPendingUser, OwnerInv, UserMaps
    <3>2. CASE origin = "self" /\ forks \subseteq {RRefId}
      <4>1. RRefId \notin users
        BY DEF UserTypes
      <4> QED
        BY <1>2, <3>2, <4>1, LastFork, ZenonT(40)
           DEF RemoteTimeout, delForkOfOwner, ForkTypes, UserTypes, OwnerTypes,
               CallTypes, CountInv, OwnerInv
    <3>3. CASE origin = "self" /\ ~(forks \subseteq {RRefId})
      BY <1>2, <3>3, Zenon DEF RemoteTimeout, delForkOfOwner, OwnerInv
    <3> QED
      BY <1>2, <3>1, <3>2, <3>3, Zenon DEF RemoteTimeout
  <2> QED
    BY <2>2, <2>3, <2>4, <2>5
<1>3. ASSUME NEW type \in Control, NEW f \in Fork, Retry(type, f)
     PROVE G
  <2>1. /\ \A g \in Fork : /\ Msg("CALL", g, 0).type = "CALL"
                           /\ Msg("CALL", g, 0).fork = g
                           /\ ~Msg("CALL", g, 0).ack
        /\ Msg(type, f, attempt[<<type, f>>] + 1).type = type
        /\ Msg(type, f, attempt[<<type, f>>] + 1).fork = f
        /\ Msg(type, f, attempt[<<type, f>>] + 1).ack = FALSE
    BY <1>3, MsgFacts, RetriesAssumption DEF Control, NetTypes
  <2>2. /\ \A g \in Fork :
             Msg("CALL", g, 0) \in msgs' => Msg("CALL", g, 0) \in msgs
        /\ \A m \in msgs' : m \in msgs \/ ~m.ack
    BY <1>3, <2>1, Zenon DEF Retry, Control
  <2> QED
    BY <1>3, <2>2, OwnerFrame, Zenon DEF Retry
<1>4. ASSUME NEW type \in Control, NEW f \in Fork, GiveUp(type, f)
     PROVE G
  <2>1. /\ \A g \in Fork : /\ Msg("CALL", g, 0).type = "CALL"
                           /\ Msg("CALL", g, 0).fork = g
                           /\ ~Msg("CALL", g, 0).ack
    BY <1>4, MsgFacts DEF Control
  <2> QED
    BY <1>4, <2>1, OwnerFrame, Zenon DEF GiveUp
<1> QED
  BY <1>1, <1>2, <1>3, <1>4, Zenon DEF FaultStep

(* Every step keeps the rest of the invariant, if no creator shares its    *)
(* UserRRef before it is confirmed.                                        *)
LEMMA CountStep ==
  ASSUME "creator" \notin EarlyShare, IInv, [Next]_vars
  PROVE  Acyclic' /\ CreatorInv' /\ CountInv' /\ OwnerInv'
<1>1. CASE UNCHANGED vars
  BY <1>1, OwnerFrame, Zenon
     DEF vars, userVars, ownerVars, forkVars, callVars, fetchVars, netVars
<1> QED
  BY <1>1, CountApplication, CountRemoteCall, CountDelivery, CountFault, Zenon
     DEF Next

(* The invariant holds at first.                                           *)
LEMMA InitInv == Init => IInv
<1> SUFFICES ASSUME Init PROVE IInv
  BY Zenon
<1>1. TypeOK
  BY OwnerAssumption, RetriesAssumption
     DEF Init, TypeOK, ForkTypes, UserTypes,
     OwnerTypes, CallTypes, NetTypes
<1>2. OnlyUsed /\ UserMaps
  BY Zenon DEF Init, OnlyUsed, UserMaps, InFlight
<1>3. BeforeReceipt /\ KeptByChild
  BY Zenon DEF Init, BeforeReceipt, KeptByChild, InFlight
<1>4. Acyclic /\ CreatorInv
  BY Zenon DEF Init, Acyclic, CreatorInv
<1>5. CountInv /\ OwnerInv
  BY Zenon DEF Init, CountInv, OwnerInv
<1> QED
  BY <1>1, <1>2, <1>3, <1>4, <1>5, Zenon DEF IInv, StructInv

(* The owner's count is safe: provided the application does not pass on a  *)
(* UserRRef that remote() has created and the owner has not confirmed yet, *)
(* the OwnerRRef stays in owners_ while a confirmed UserRRef exists.       *)
THEOREM OwnerKept ==
  ASSUME "creator" \notin EarlyShare
  PROVE  Spec => []OwnerOutlivesUsers
<1>1. Init => IInv
  BY InitInv, Zenon
<1>2. IInv /\ [Next]_vars => IInv'
  BY TypeStep, StructStep, CountStep, Zenon DEF IInv
<1>3. IInv => OwnerOutlivesUsers
  BY Zenon DEF IInv, StructInv, UserMaps, OwnerInv, OwnerOutlivesUsers, Living
<1> QED
  BY <1>1, <1>2, <1>3, PTL DEF Spec

----------------------------------------------------------------------------
(* The numbers of OwnerRRef objects: no operation makes a second one.      *)
OneInv ==
  /\ created <= 1 /\ owners <= created
  /\ \A i \in ownerHandles : i <= created
  /\ \A f \in Fork : pickling[f] <= created
  /\ origin = "none" => created = 0
  /\ origin = "user" /\ call \in {"sent", "failed"} => created = 0
  /\ origin = "user" => call # "none"

(* Whom a to_here() may wait for; the UserRRef of a remote() that timed    *)
(* out keeps the OwnerRRef, which its call makes, until it is deleted.     *)
FetchInv ==
  /\ \A f \in Fork : fetch[f] = "sent" => f \in users \cap handle
  /\ \A f \in Fork : fetch[f] = "pendingOwner"
                       => origin = "user" /\ call \in {"sent", "failed"}
  /\ remote = "err" => call = "failed"
  /\ \A f, g \in creator : f = g
  /\ origin = "user" /\ remote = "timeout" /\ creator \cap users # {}
       /\ call \in {"owned", "forked", "valued", "done"} => owners # 0

(* While a fork is on its way the OwnerRRef is there: its parent is the    *)
(* OwnerRRef, or a UserRRef that the owner counts.                         *)
LEMMA SharedIsOwned ==
  ASSUME IInv, NEW f \in Fork, Msg("CALL", f, 0) \in msgs
  PROVE  owners # 0
<1> USE DEF IInv, StructInv
<1>1. Msg("CALL", f, 0).type = "CALL" /\ Msg("CALL", f, 0).fork = f
  BY MsgFacts DEF Control
<1>2. CASE parent[f] = RRefId
  BY <1>2, Zenon DEF OwnerInv
<1>3. CASE parent[f] # RRefId
  <2>1. parent[f] \in users /\ f \in used
    BY <1>1, <1>3, Zenon DEF KeptByChild, ChildAccepted, OnlyUsed
  <2>2. f \notin creator
    BY Zenon DEF BeforeReceipt
  <2>3. origin = "user" => remote = "ok"
    BY <2>1, <2>2, Zenon DEF CreatorInv
  <2>4. parent[f] \notin timedOut /\ ~(parent[f] \in creator
                                       /\ parent[f] \in pendingUsers)
    BY <2>1, <2>3, Zenon DEF CreatorInv, UserTypes, TypeOK
  <2> QED
    BY <2>1, <2>4, Zenon DEF OwnerInv
<1> QED
  BY <1>2, <1>3, Zenon

(* The types these proofs need.                                            *)
OneTypes ==
  /\ created \in Nat /\ owners \in Nat /\ ownerHandles \subseteq Nat
  /\ pickling \in [Fork -> Nat]
  /\ fetch \in [Fork -> {"none", "sent", "pendingOwner", "waitValue", "done"}]
  /\ fetchRRef \in [Fork -> Nat]

(* They are among the types TypeOK gives.                                  *)
LEMMA OneTyped == IInv => OneTypes
BY Zenon DEF IInv, TypeOK, OwnerTypes, CallTypes, OneTypes

(* The calls of the application keep both invariants.                      *)
LEMMA OneApplication ==
  ASSUME IInv, OneInv, FetchInv, ApplicationStep
  PROVE  OneInv' /\ FetchInv'
<1> USE DEF userVars, ownerVars, forkVars, callVars, fetchVars, netVars
<1>0. OneTypes
  BY OneTyped, Zenon
<1>1. CASE RemoteToSelf \/ LocalRRef
  <2>1. origin = "none" /\ creator = {} /\ used = {} /\ users = {} /\ created = 0
    BY <1>1, Zenon DEF RemoteToSelf, LocalRRef, IInv, CreatorInv, StructInv,
       OnlyUsed, OneInv
  <2>2. OneInv'
    BY <1>0, <1>1, <2>1 DEF RemoteToSelf, LocalRRef, OneInv, OneTypes
  <2>3. FetchInv'
    BY <1>1, <2>1, Zenon DEF RemoteToSelf, LocalRRef, FetchInv
  <2> QED
    BY <2>2, <2>3, Zenon
<1>2. ASSUME NEW f \in Fork, NEW w \in Worker, RemoteToOwner(f, w)
      PROVE  OneInv' /\ FetchInv'
  <2>1. users = {} /\ creator = {}
    BY <1>2, Zenon DEF RemoteToOwner, IInv, StructInv, OnlyUsed
  <2> QED
    BY <1>2, <2>1, Zenon DEF RemoteToOwner, OneInv, FetchInv
<1>3. ASSUME NEW f \in Fork, NEW w \in Worker, NEW i \in ownerHandles,
             OwnerFork(f, w, i)
      PROVE  OneInv' /\ FetchInv'
  BY <1>0, <1>3, Zenon DEF OwnerFork, OneInv, FetchInv, OneTypes
<1>4. ASSUME NEW p \in Fork, NEW f \in Fork, NEW w \in Worker, UserFork(p, f, w)
      PROVE  OneInv' /\ FetchInv'
  BY <1>4, Zenon DEF UserFork, OneInv, FetchInv
<1>5. ASSUME NEW f \in Fork, DropHandle(f) \/ ToHere(f)
      PROVE  OneInv' /\ FetchInv'
  <2>1. OneInv'
    BY <1>5, Zenon DEF DropHandle, ToHere, OneInv
  <2>2. FetchInv'
    BY <1>0, <1>5, Zenon DEF DropHandle, ToHere, FetchInv, OneTypes
  <2> QED
    BY <2>1, <2>2, Zenon
<1>6. ASSUME NEW i \in ownerHandles, DropOwnerHandle(i)
      PROVE  OneInv' /\ FetchInv'
  BY <1>6, Zenon DEF DropOwnerHandle, OneInv, FetchInv
<1> QED
  BY <1>1, <1>2, <1>3, <1>4, <1>5, <1>6, Zenon DEF ApplicationStep

(* So do the steps of the remote call,                                     *)
LEMMA OneRemoteCall ==
  ASSUME IInv, OneInv, FetchInv, RemoteCallStep
  PROVE  OneInv' /\ FetchInv'
<1> USE DEF userVars, ownerVars, forkVars, callVars, fetchVars, netVars
<1>0. OneTypes
  BY OneTyped
<1>1. CASE ProcessRemoteCall
  BY <1>0, <1>1 DEF ProcessRemoteCall, getOrCreateOwnerRRef, createOwner,
     ownerAfter, OneInv, FetchInv, OneTypes
<1>2. CASE ProcessRemoteCallOnSelf
  BY <1>2, Zenon DEF ProcessRemoteCallOnSelf, OneInv, FetchInv
<1>3. CASE PythonAddFork \/ FinishForkedCall \/ ScriptSetValue \/ ScriptPostProcessing
  BY <1>3, Zenon DEF PythonAddFork, FinishForkedCall, ScriptSetValue,
     ScriptPostProcessing, OneInv, FetchInv
<1>4. CASE ConfirmPendingUser
  BY <1>4, Zenon DEF ConfirmPendingUser, OneInv, FetchInv
<1>5. CASE FinishCreatingOwnerRRef
  BY <1>0, <1>5
     DEF FinishCreatingOwnerRRef, delForkOfOwner, OneInv, FetchInv, OneTypes
<1>6. CASE RemoteUnknownError
  BY <1>6, Zenon DEF RemoteUnknownError, OneInv, FetchInv
<1> QED
  BY <1>1, <1>2, <1>3, <1>4, <1>5, <1>6, Zenon DEF RemoteCallStep

(* the messages of the reference counting,                                 *)
LEMMA OneDelivery ==
  ASSUME IInv, OneInv, FetchInv, \E f \in Fork : DeliveryStep(f)
  PROVE  OneInv' /\ FetchInv'
<1> USE DEF userVars, ownerVars, forkVars, callVars, fetchVars, netVars
<1>0. OneTypes
  BY OneTyped, Zenon
<1>1. ASSUME NEW f \in Fork, OwnerForkSend(f)
      PROVE  OneInv' /\ FetchInv'
  BY <1>0, <1>1 DEF OwnerForkSend, OneInv, FetchInv, OneTypes
<1>2. ASSUME NEW f \in Fork, UnpickleOnOwnerFromOwner(f)
      PROVE  OneInv' /\ FetchInv'
  <2>1. Msg("CALL", f, 0) \in msgs /\ owners # 0
    BY <1>2, SharedIsOwned, Zenon DEF UnpickleOnOwnerFromOwner
  <2>2. Msg("CALL", f, 0).fork = f
    BY MsgFacts DEF Control
  <2>3. f \notin creator /\ f \in used
    BY <2>1, <2>2, Zenon DEF IInv, StructInv, BeforeReceipt, OnlyUsed
  <2>4. origin = "user" => remote = "ok"
    BY <2>3, Zenon DEF IInv, CreatorInv
  <2>5. OneInv'
    BY <1>0, <1>2, <2>1
       DEF UnpickleOnOwnerFromOwner, createOwner, ownerAfter, OneInv, OneTypes
  <2>6. FetchInv'
    BY <1>0, <1>2, <2>1, <2>4, Zenon
       DEF UnpickleOnOwnerFromOwner, createOwner, ownerAfter, FetchInv, OneTypes
  <2> QED
    BY <2>5, <2>6, Zenon
<1>3. ASSUME NEW f \in Fork, UnpickleOnOwnerFromUser(f)
      PROVE  OneInv' /\ FetchInv'
  <2>1. owners # 0
    BY <1>3, SharedIsOwned, Zenon DEF UnpickleOnOwnerFromUser
  <2> QED
    BY <1>0, <1>3, <2>1, Zenon DEF UnpickleOnOwnerFromUser, getOrCreateOwnerRRef,
       createOwner, ownerAfter, OneInv, FetchInv, OneTypes
<1>4. ASSUME NEW f \in Fork, UnpickleOnUserFromOwner(f) \/ UnpickleOnUserFromUser(f)
      PROVE  OneInv' /\ FetchInv'
  <2>1. f \notin creator
    BY <1>4, Zenon DEF UnpickleOnUserFromOwner, UnpickleOnUserFromUser, IInv,
       StructInv, BeforeReceipt
  <2> QED
    BY <1>4, <2>1, ZenonT(40) DEF UnpickleOnUserFromOwner, UnpickleOnUserFromUser,
       OneInv, FetchInv
<1>5. ASSUME NEW f \in Fork, NEW n \in 0 .. MaxRetries,
             ProcessForkRequest(f, n) \/ ProcessChildAccept(f, n)
      PROVE  OneInv' /\ FetchInv'
  BY <1>5, Zenon DEF ProcessForkRequest, ProcessChildAccept, OneInv, FetchInv
<1>6. ASSUME NEW f \in Fork, NEW n \in 0 .. MaxRetries, ProcessUserDelete(f, n)
      PROVE  OneInv' /\ FetchInv'
  <2>1. Msg("USER_DELETE", f, n).type = "USER_DELETE" /\ Msg("USER_DELETE", f, n).fork = f
    BY MsgFacts, RetriesAssumption DEF Control
  <2>2. Msg("USER_DELETE", f, n) \in msgs /\ InFlight("USER_DELETE", f)
    BY <1>6, <2>1, Zenon DEF ProcessUserDelete, InFlight
  <2>3. f \in deletedOnOwner /\ f \notin users
    BY <2>2, Zenon DEF IInv, StructInv, UserMaps
  <2>4. f \in used
    BY <2>3, Zenon DEF IInv, StructInv, OnlyUsed
  <2>5. origin = "user" /\ remote = "timeout" => creator \cap users = {}
    BY <2>3, <2>4, Zenon DEF IInv, CreatorInv, FetchInv
  <2> QED
    BY <1>0, <1>6, <2>5 DEF ProcessUserDelete, delForkOfOwner, OneInv, FetchInv,
       OneTypes
<1>7. ASSUME NEW f \in Fork, FinishForkRequest(f)
      PROVE  OneInv' /\ FetchInv'
  BY <1>7, Zenon DEF FinishForkRequest, OneInv, FetchInv
<1>8. ASSUME NEW type \in Control, NEW f \in Fork, FinishControl(type, f)
      PROVE  OneInv' /\ FetchInv'
  BY <1>8, Zenon DEF FinishControl, OneInv, FetchInv
<1>9. ASSUME NEW f \in Fork, ReleaseResources(f)
      PROVE  OneInv' /\ FetchInv'
  BY <1>9, Zenon DEF ReleaseResources, Unreferenced, OneInv, FetchInv
<1>10. ASSUME NEW f \in Fork, ProcessFetch(f)
      PROVE  OneInv' /\ FetchInv'
  <2>1. f \in users
    BY <1>10, Zenon DEF ProcessFetch, FetchInv
  <2>2. owners = 0 => origin = "user" /\ call \in {"sent", "failed"}
    BY <2>1, Zenon DEF IInv, TypeOK, OwnerInv, CreatorInv, FetchInv, OneInv, CallTypes,
       UserTypes, ForkTypes
  <2> QED
    BY <1>0, <1>10, <2>2, Zenon DEF ProcessFetch, OneInv, FetchInv, OneTypes
<1>11. ASSUME NEW f \in Fork, FetchReturns(f)
      PROVE  OneInv' /\ FetchInv'
  BY <1>0, <1>11, Zenon DEF FetchReturns, OneInv, FetchInv, OneTypes
<1> QED
  BY <1>1, <1>2, <1>3, <1>4, <1>5, <1>6, <1>7, <1>8, <1>9, <1>10, <1>11, Zenon
     DEF DeliveryStep

(* and the faults.                                                         *)
LEMMA OneFault ==
  ASSUME IInv, OneInv, FetchInv, FaultStep
  PROVE  OneInv' /\ FetchInv'
<1> USE DEF userVars, ownerVars, forkVars, callVars, fetchVars, netVars
<1>0. OneTypes
  BY OneTyped
<1>1. CASE RejectRemoteCall
  BY <1>1, Zenon DEF RejectRemoteCall, OneInv, FetchInv
<1>2. CASE RemoteTimeout
  <2>1. origin = "user" /\ call \in {"owned", "forked", "valued", "done"}
          => owners # 0
    BY <1>2, Zenon DEF RemoteTimeout, IInv, OwnerInv
  <2>2. OneInv'
    BY <1>0, <1>2 DEF RemoteTimeout, delForkOfOwner, OneInv, OneTypes
  <2>3. FetchInv'
    BY <1>2, <2>1, Zenon DEF RemoteTimeout, delForkOfOwner, FetchInv
  <2> QED
    BY <2>2, <2>3
<1>3. ASSUME NEW type \in Control, NEW f \in Fork, Retry(type, f) \/ GiveUp(type, f)
      PROVE  OneInv' /\ FetchInv'
  BY <1>3, Zenon DEF Retry, GiveUp, OneInv, FetchInv
<1> QED
  BY <1>1, <1>2, <1>3, Zenon DEF FaultStep

(* Both invariants hold throughout, under the condition of OwnerKept.      *)
LEMMA OneKept ==
  ASSUME "creator" \notin EarlyShare
  PROVE  Spec => [](IInv /\ OneInv /\ FetchInv)
<1> DEFINE J == IInv /\ OneInv /\ FetchInv
<1>1. Init => J
  BY InitInv DEF Init, OneInv, FetchInv
<1>2. J /\ [Next]_vars => J'
  <2> SUFFICES ASSUME J, [Next]_vars PROVE J'
    BY Zenon
  <2>1. IInv'
    BY TypeStep, StructStep, CountStep, Zenon DEF IInv
  <2>2. CASE UNCHANGED vars
    BY <2>1, <2>2, Zenon DEF vars, userVars, ownerVars, forkVars, callVars, fetchVars,
       OneInv, FetchInv
  <2> QED
    BY <2>1, <2>2, OneApplication, OneRemoteCall, OneDelivery, OneFault, Zenon DEF Next
<1> QED
  BY <1>1, <1>2, PTL DEF Spec

(* The value lives in one object: whatever order remote(), its call, the   *)
(* forks and the deletes arrive in, getOrCreateOwnerRRef never makes a     *)
(* second OwnerRRef for the same RRefId, provided no creator shares its    *)
(* UserRRef before remote() is confirmed.                                  *)
THEOREM OneOwner ==
  ASSUME "creator" \notin EarlyShare
  PROVE  Spec => []OneOwnerRRef
<1>1. OneInv => OneOwnerRRef
  BY Zenon DEF OneInv, OneOwnerRRef
<1> QED
  BY <1>1, OneKept, PTL

(* A to_here() that waits in getPendingOwnerRRef for an OwnerRRef waits    *)
(* for a remote call that has still to make it: it never waits for one     *)
(* that was made, and forgotten, before it asked.                          *)
THEOREM FetchServed ==
  ASSUME "creator" \notin EarlyShare
  PROVE  Spec => []FetchNotStranded
<1>1. FetchInv => FetchNotStranded
  BY Zenon DEF FetchInv, FetchNotStranded
<1> QED
  BY <1>1, OneKept, PTL

=============================================================================
