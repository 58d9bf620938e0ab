---------------------- MODULE ProcessGroupAgentProofs -----------------------
(***************************************************************************)
(* Proofs about ProcessGroupAgent, for any workers, calls, hops and ends:  *)
(* the watchdog never oversleeps, and active calls are counted once.       *)
(*                                                                         *)
(* A call has one open message at a time: the request on its way, the      *)
(* request whose handler has left it for later, or the response.  Slots    *)
(* holds these messages with the place where each one is.                  *)
(***************************************************************************)
EXTENDS ProcessGroupAgent, FiniteSetTheorems, TLAPS

Place == {"app", "barrier", "drain", "recvSnapshot", "sendSnapshot", "gather",
          "futures", "barrier2", "joined", "stopping", "down"}
Message ==
  [type : {"request", "response"}, id : Worker \X Nat, from : Worker,
   to : Worker, hops : Int, bad : BOOLEAN]
Future == [id : Worker \X Nat, dst : Worker, end : Nat]
TaskType ==
  [worker : Worker, kind : {"send", "self", "recv", "count"}, msg : Message]

TypeInv ==
  /\ pc \in [Worker -> Place] /\ nextId \in [Worker -> Nat]
  /\ futures \in [Worker -> SUBSET Future]
  /\ expired \in [Worker -> SUBSET Future]
  /\ tasks \subseteq TaskType /\ net \subseteq Message /\ deferred \subseteq Message
  /\ sendCounts \in [Worker -> [Worker -> Nat]]
  /\ recvCounts \in [Worker -> [Worker -> Nat]]
  /\ asleep \in [Worker -> Nat]
  /\ clientActiveCalls \in [Worker -> Int] /\ serverActiveCalls \in [Worker -> Int]

FiniteInv ==
  /\ \A w \in Worker : IsFiniteSet(futures[w]) /\ IsFiniteSet(expired[w])
  /\ IsFiniteSet(tasks) /\ IsFiniteSet(net) /\ IsFiniteSet(deferred)

(* The watchdog looks at expired calls only while it is awake.             *)
SleepInv ==
  \A w \in Worker :
    /\ asleep[w] <= Infinite
    /\ asleep[w] # 0 => expired[w] = {}
    /\ asleep[w] # 0 /\ w \notin notified =>
         \A f \in futures[w] : asleep[w] <= f.end

(* Calls have ids of their own.                                            *)
Old(i) == i[2] < nextId[i[1]]
CallInv ==
  \A w \in Worker :
    /\ futures[w] \cap expired[w] = {}
    /\ \A f \in futures[w] \cup expired[w] : f.id[1] = w /\ Old(f.id)
    /\ \A f, g \in futures[w] \cup expired[w] : f.id = g.id => f = g

Counting == {u \in tasks : u.kind = "count"}
Slots ==
  {u \in tasks : u.kind # "count"}
    \cup {Task(m.to, "net", m) : m \in net}
    \cup {Task(m.to, "deferred", m) : m \in deferred}

Placed(s) ==
  /\ s.worker = IF s.kind \in {"send", "self"} THEN s.msg.from ELSE s.msg.to
  /\ s.kind = "self" => s.msg.from = s.msg.to
  /\ s.msg.id[1] = IF s.msg.type = "request" THEN s.msg.from ELSE s.msg.to
  /\ s.kind = "deferred" => s.msg.type = "request"
  /\ s.msg.bad => s.kind \in {"send", "self"} /\ s.msg.type = "request"

(* S: the slots, C: messages handled and about to be counted, next: the    *)
(* ids not used, F: the calls that are open or expired.                    *)
OneSlot(S) == \A s, r \in S : s.msg.id = r.msg.id => s = r
SlotsOK(S, C, next, F) ==
  /\ \A s \in S \cup C : Placed(s) /\ s.msg.id[2] < next[s.msg.id[1]]
  /\ OneSlot(S)
  /\ \A u \in C, s \in S : u.msg.id = s.msg.id =>
       u.msg.type = "request" /\ (s.kind = "deferred" \/ s.msg.type = "response")
  /\ \A s \in S, f \in F : f.id = s.msg.id => f.dst = Callee(s.msg)
AllCalls == UNION {futures[x] \cup expired[x] : x \in Worker}
SlotInv == SlotsOK(Slots, Counting, nextId, AllCalls)

Running == \A w \in Worker : rpcAgentRunning(w)
(* An open future has an open message, until somebody shuts down.          *)
HeldInv ==
  Running => \A w \in Worker : \A f \in futures[w] : \E s \in Slots : s.msg.id = f.id

(* A call that cannot be serialized does not expire before it is found.    *)
BadInv ==
  \A s \in Slots : s.msg.bad =>
    \E f \in futures[s.worker] : f.id = s.msg.id /\ f.end = Infinite

(* serverActiveCalls_ counts the deferred requests of a worker.            *)
DeferredAt(D, w) == {m \in D : m.to = w}
ServerInv ==
  \A w \in Worker : serverActiveCalls[w] = Cardinality(DeferredAt(deferred, w))
ClientInv ==
  \A w \in Worker :
    clientActiveCalls[w] = Cardinality(futures[w]) + Cardinality(expired[w])

IInv ==
  TypeInv /\ FiniteInv /\ SleepInv /\ CallInv /\ SlotInv /\ HeldInv
    /\ ServerInv /\ ClientInv

----------------------------------------------------------------------------
(* Sets of naturals, and the earliest end.                                 *)

(* A nonempty set of naturals has a least element.                         *)
LEMMA Least ==
  ASSUME NEW T, T \subseteq Nat, T # {}
  PROVE  \E m \in T : \A k \in T : m <= k
<1> DEFINE S == {0 .. k : k \in T}
<1>1. IsWellFoundedOn(StrictSubsetOrdering(Nat), FiniteSubsetsOf(Nat))
  BY FS_StrictSubsetOrderingWellFounded, Zenon
<1>2. S \subseteq FiniteSubsetsOf(Nat)
  <2>1. \A k \in T : IsFiniteSet(0 .. k) /\ (0 .. k) \subseteq Nat
    BY FS_Interval
  <2> QED
    BY <2>1, Zenon DEF FiniteSubsetsOf
<1>3. S # {}
  BY Zenon
<1> HIDE DEF S
<1>4. PICK x \in S : \A y \in S : <<y, x>> \notin StrictSubsetOrdering(Nat)
  BY <1>1, <1>2, <1>3, WFMin, Zenon
<1>5. PICK m \in T : x = 0 .. m
  BY <1>4, Zenon DEF S
<1>6. ASSUME NEW k \in T PROVE m <= k
  <2>1. <<0 .. k, x>> \notin StrictSubsetOrdering(Nat)
    BY <1>4, Zenon DEF S
  <2>2. CASE k < m
    <3>1. (0 .. k) \subseteq (0 .. m) /\ m \in 0 .. m /\ m \notin 0 .. k
      BY <2>2, m \in Nat, k \in Nat
    <3>2. 0 .. k # 0 .. m
      BY <3>1, Zenon
    <3>3. 0 .. k \in SUBSET Nat /\ 0 .. m \in SUBSET Nat
      OBVIOUS
    <3> QED
      BY <1>5, <2>1, <3>1, <3>2, <3>3, Zenon DEF StrictSubsetOrdering
  <2> QED
    BY <2>2, m \in Nat, k \in Nat
<1> QED
  BY <1>6, Zenon

(* MinEnd is the end of a call, or Infinite, and no end is earlier.        *)
LEMMA MinEndLeast ==
  ASSUME TypeInv, NEW w \in Worker
  PROVE  /\ MinEnd(w) \in Nat /\ MinEnd(w) <= Infinite
         /\ \A f \in futures[w] : MinEnd(w) <= f.end
         /\ MinEnd(w) = Infinite \/ \E f \in futures[w] : MinEnd(w) = f.end
<1> DEFINE T == {f.end : f \in futures[w]} \cup {Infinite}
<1>1. T \subseteq Nat /\ T # {}
  BY TimeAssumption DEF TypeInv, Future
<1> HIDE DEF T
<1>2. \E m \in T : \A k \in T : m <= k
  BY <1>1, Least, Zenon
<1>3. Min(T) \in T /\ \A k \in T : Min(T) <= k
  BY <1>2, Zenon DEF Min
<1>4. MinEnd(w) = Min(T)
  BY Zenon DEF MinEnd, T
<1> QED
  BY <1>1, <1>3, <1>4, Zenon DEF T

(* One element more, one element fewer.                                    *)
LEMMA PlusOne ==
  ASSUME NEW S, IsFiniteSet(S), NEW x, x \notin S
  PROVE  IsFiniteSet(S \cup {x}) /\ Cardinality(S \cup {x}) = Cardinality(S) + 1
BY FS_AddElement, Zenon
(* One element fewer.                                                      *)
LEMMA MinusOne ==
  ASSUME NEW S, IsFiniteSet(S), NEW x \in S
  PROVE  IsFiniteSet(S \ {x}) /\ Cardinality(S \ {x}) = Cardinality(S) - 1
BY FS_RemoveElement, Zenon

(* What is taken out of a set and what stays.                              *)
LEMMA Parted ==
  ASSUME NEW S, IsFiniteSet(S), NEW A, A \subseteq S
  PROVE  /\ IsFiniteSet(A) /\ IsFiniteSet(S \ A)
         /\ Cardinality(S) = Cardinality(S \ A) + Cardinality(A)
         /\ Cardinality(S) \in Nat /\ Cardinality(A) \in Nat
         /\ Cardinality(S \ A) \in Nat
<1>1. IsFiniteSet(A) /\ IsFiniteSet(S \ A)
  BY FS_Subset, Zenon
<1>2. S = (S \ A) \cup A /\ (S \ A) \cap A = {}
  BY Zenon
<1>3. Cardinality((S \ A) \cup A) = Cardinality(S \ A) + Cardinality(A)
                                      - Cardinality((S \ A) \cap A)
  BY <1>1, FS_Union, Zenon
<1>4. Cardinality({}) = 0
  BY FS_EmptySet, Zenon
<1>5. Cardinality(S) \in Nat /\ Cardinality(A) \in Nat /\ Cardinality(S \ A) \in Nat
  BY <1>1, FS_CardinalityType, Zenon
<1> QED
  BY <1>1, <1>2, <1>3, <1>4, <1>5

----------------------------------------------------------------------------
(* Messages.                                                               *)

(* A response goes back to the caller, with the id of the call.            *)
LEMMA ResponseTo ==
  ASSUME NEW m \in Message
  PROVE  /\ Response(m) \in Message
         /\ Response(m).type = "response" /\ Response(m).id = m.id
         /\ Response(m).from = m.to /\ Response(m).to = m.from
         /\ Response(m).bad = m.bad
         /\ m.type = "request" => Callee(Response(m)) = Callee(m)
BY Zenon DEF Message, Response, Callee

(* The fields of a request.                                                *)
LEMMA RequestIs ==
  ASSUME NEW w \in Worker, NEW n \in Nat, NEW to \in Worker, NEW hops \in Int,
         NEW bad \in BOOLEAN
  PROVE  /\ Request(w, n, to, hops, bad) \in Message
         /\ Request(w, n, to, hops, bad).type = "request"
         /\ Request(w, n, to, hops, bad).id = <<w, n>>
         /\ Request(w, n, to, hops, bad).from = w
         /\ Request(w, n, to, hops, bad).to = to
         /\ Request(w, n, to, hops, bad).bad = bad
BY Zenon DEF Message, Request

(* The fields of a task, and of a slot.                                    *)
LEMMA TaskIs ==
  ASSUME NEW w, NEW kind, NEW m
  PROVE  /\ Task(w, kind, m).worker = w /\ Task(w, kind, m).kind = kind
         /\ Task(w, kind, m).msg = m
BY Zenon DEF Task

(* What send puts into the pool of the sender.                             *)
LEMMA EnqueuedIs ==
  ASSUME NEW w \in Worker, NEW m \in Message, m.from = w,
         m.id[1] = IF m.type = "request" THEN m.from ELSE m.to,
         m.bad => m.type = "request"
  PROVE  /\ Enqueued(w, m) \in TaskType
         /\ Enqueued(w, m).kind \in {"send", "self"} /\ Enqueued(w, m).msg = m
         /\ Enqueued(w, m).worker = w /\ Placed(Enqueued(w, m))
BY Zenon DEF Enqueued, Task, TaskType, Placed

(* A set of slots where each call has one keeps to it when a slot gives    *)
(* way to one of the same call, or to none.                                *)
LEMMA OneSlotKept ==
  ASSUME NEW S, OneSlot(S), NEW s \in S, NEW A,
         \A r \in A : r.msg.id = s.msg.id, \A r, q \in A : r = q
  PROVE  OneSlot((S \ {s}) \cup A)
BY Zenon DEF OneSlot
(* And when a call of a new id is added.                                   *)
LEMMA OneSlotMore ==
  ASSUME NEW S, OneSlot(S), NEW n, \A s \in S : s.msg.id # n.msg.id
  PROVE  OneSlot(S \cup {n})
BY Zenon DEF OneSlot

(* The slot of a call moves on, or goes; what was in it may be counted.    *)
LEMMA SlotReplaced ==
  ASSUME NEW S, NEW C, NEW next, NEW F, SlotsOK(S, C, next, F),
         NEW s \in S, NEW A, NEW D, NEW F2, F2 \subseteq F,
         \A r, q \in A : r = q,
         \A r \in A : /\ r.msg.id = s.msg.id /\ Placed(r)
                      /\ Callee(r.msg) = Callee(s.msg)
                      /\ s.msg.type = "response" => r.msg.type = "response"
                      /\ s.kind = "deferred" =>
                           r.kind = "deferred" \/ r.msg.type = "response",
         \A u \in D : /\ u.msg.id = s.msg.id /\ Placed(u)
                      /\ \A r \in A : /\ u.msg.type = "request"
                                      /\ r.kind = "deferred" \/ r.msg.type = "response"
  PROVE  SlotsOK((S \ {s}) \cup A, C \cup D, next, F2)
<1> DEFINE S2 == (S \ {s}) \cup A
<1>1. ASSUME NEW r \in S2 \cup (C \cup D)
      PROVE  Placed(r) /\ r.msg.id[2] < next[r.msg.id[1]]
  BY Zenon DEF SlotsOK
<1>2. OneSlot(S2)
  BY OneSlotKept, Zenon DEF SlotsOK
<1>3. ASSUME NEW u \in C \cup D, NEW r \in S2, u.msg.id = r.msg.id
      PROVE  u.msg.type = "request" /\ (r.kind = "deferred" \/ r.msg.type = "response")
  BY <1>3 DEF SlotsOK, OneSlot
<1>4. ASSUME NEW r \in S2, NEW f \in F2, f.id = r.msg.id
      PROVE  f.dst = Callee(r.msg)
  BY <1>4 DEF SlotsOK
<1> QED
  BY <1>1, <1>2, <1>3, <1>4, Zenon DEF SlotsOK

(* A new call gets its slot and its future.                                *)
LEMMA SlotAdded ==
  ASSUME NEW S, NEW C, NEW next \in [Worker -> Nat], NEW F, SlotsOK(S, C, next, F),
         \A s \in S \cup C : s.msg.id \in Worker \X Nat,
         NEW w \in Worker, NEW n, Placed(n), n.msg.id = <<w, next[w]>>,
         NEW f, f.id = n.msg.id, f.dst = Callee(n.msg),
         \A g \in F : g.id # f.id
  PROVE  SlotsOK(S \cup {n}, C, [next EXCEPT ![w] = @ + 1], F \cup {f})
<1> DEFINE next2 == [next EXCEPT ![w] = @ + 1]
<1>1. ASSUME NEW i \in Worker \X Nat, i[2] < next[i[1]]
      PROVE  i[2] < next2[i[1]] /\ i # <<w, next[w]>>
  BY <1>1
<1>2. <<w, next[w]>>[2] < next2[<<w, next[w]>>[1]]
  OBVIOUS
<1> HIDE DEF next2
<1>3. ASSUME NEW s \in S \cup C
      PROVE  Placed(s) /\ s.msg.id[2] < next2[s.msg.id[1]] /\ s.msg.id # n.msg.id
  BY <1>1, Zenon DEF SlotsOK
<1>4. OneSlot(S \cup {n})
  BY <1>3, OneSlotMore, Zenon DEF SlotsOK
<1>5. \A u \in C, s \in S \cup {n} : u.msg.id = s.msg.id =>
        u.msg.type = "request" /\ (s.kind = "deferred" \/ s.msg.type = "response")
  BY <1>3, Zenon DEF SlotsOK
<1>6. \A s \in S \cup {n}, g \in F \cup {f} : g.id = s.msg.id => g.dst = Callee(s.msg)
  BY <1>3, Zenon DEF SlotsOK
<1>7. \A s \in (S \cup {n}) \cup C : Placed(s) /\ s.msg.id[2] < next2[s.msg.id[1]]
  BY <1>2, <1>3, Zenon
<1> QED
  BY <1>4, <1>5, <1>6, <1>7, Zenon DEF SlotsOK, next2

(* Fewer messages to count, fewer calls.                                   *)
LEMMA SlotsFewer ==
  ASSUME NEW S, NEW C, NEW next, NEW F, SlotsOK(S, C, next, F),
         NEW C2, C2 \subseteq C, NEW F2, F2 \subseteq F
  PROVE  SlotsOK(S, C2, next, F2)
BY Zenon DEF SlotsOK

----------------------------------------------------------------------------
(* Calls.                                                                  *)

(* The future of a new call.                                               *)
NewFuture(m, end) == [id |-> m.id, dst |-> m.to, end |-> end]
(* send() adds the future of a request: its id is new, and the watchdog is *)
(* notified when its end is the earliest.                                  *)
LEMMA AddFuture ==
  ASSUME TypeInv, FiniteInv, SleepInv, CallInv, ClientInv,
         NEW w \in Worker, NEW m \in Message, m.id = <<w, nextId[w]>>,
         NEW end \in Nat, addFuture(w, m, end), UNCHANGED <<expired, asleep>>
  PROVE  /\ nextId' = [nextId EXCEPT ![w] = @ + 1] /\ nextId' \in [Worker -> Nat]
         /\ futures' \in [Worker -> SUBSET Future]
         /\ expired' \in [Worker -> SUBSET Future] /\ asleep' \in [Worker -> Nat]
         /\ clientActiveCalls' \in [Worker -> Int]
         /\ \A x \in Worker : IsFiniteSet(futures'[x]) /\ IsFiniteSet(expired'[x])
         /\ SleepInv' /\ CallInv' /\ ClientInv'
         /\ AllCalls' = AllCalls \cup {NewFuture(m, end)}
         /\ \A g \in AllCalls : g.id # m.id
<1> DEFINE f == NewFuture(m, end)
<1>0. f \in Future /\ f.id = m.id /\ f.dst = m.to /\ f.end = end
  BY Zenon DEF NewFuture, Future, Message
<1> HIDE DEF f
<1>1. nextId' = [nextId EXCEPT ![w] = @ + 1] /\ nextId' \in [Worker -> Nat]
  BY DEF addFuture, TypeInv
<1>2. /\ futures' = [futures EXCEPT ![w] = @ \cup {f}]
      /\ futures' \in [Worker -> SUBSET Future]
  BY <1>0, Zenon DEF addFuture, TypeInv, NewFuture, f
<1>3. expired' \in [Worker -> SUBSET Future] /\ asleep' \in [Worker -> Nat]
  BY Zenon DEF TypeInv
<1>4. /\ clientActiveCalls' = [clientActiveCalls EXCEPT ![w] = @ + 1]
      /\ clientActiveCalls' \in [Worker -> Int]
  BY DEF addFuture, TypeInv
<1>5. ASSUME NEW x \in Worker, NEW g \in futures[x] \cup expired[x]
      PROVE  g.id # m.id /\ g.id[1] = x /\ Old(g.id) /\ Old(g.id)'
  <2>1. g \in Future /\ g.id \in Worker \X Nat /\ g.id[1] = x /\ g.id[2] < nextId[x]
    BY DEF CallInv, Old, TypeInv, Future
  <2> QED
    BY <1>1, <2>1 DEF Old, TypeInv
<1>6. \A g \in AllCalls : g.id # m.id
  BY <1>5 DEF AllCalls
<1>7. \A x \in Worker : futures'[x] = IF x = w THEN futures[w] \cup {f} ELSE futures[x]
  BY <1>2, Zenon DEF TypeInv
<1>8. f \notin futures[w] /\ f \notin expired[w] /\ Old(f.id)' /\ f.id[1] = w
  BY <1>0, <1>1, <1>5 DEF Old, TypeInv
<1>9. CallInv'
  <2>1. ASSUME NEW x \in Worker PROVE futures'[x] \cap expired'[x] = {}
    BY <1>7, <1>8 DEF CallInv
  <2>2. ASSUME NEW x \in Worker, NEW g \in futures'[x] \cup expired'[x]
        PROVE  g.id[1] = x /\ Old(g.id)'
    BY <1>5, <1>7, <1>8
  <2>3. ASSUME NEW x \in Worker, NEW g \in futures'[x] \cup expired'[x],
               NEW h \in futures'[x] \cup expired'[x], g.id = h.id
        PROVE  g = h
    BY <1>0, <1>5, <1>7, <2>3 DEF CallInv
  <2> QED
    BY <2>1, <2>2, <2>3, Zenon DEF CallInv
<1>10. AllCalls' = AllCalls \cup {f}
  BY <1>7 DEF AllCalls
<1>11. ASSUME NEW x \in Worker
       PROVE  /\ IsFiniteSet(futures'[x]) /\ IsFiniteSet(expired'[x])
              /\ clientActiveCalls'[x] = Cardinality(futures'[x]) + Cardinality(expired'[x])
  <2>1. IsFiniteSet(futures[x]) /\ IsFiniteSet(expired[x])
    BY Zenon DEF FiniteInv
  <2>2. Cardinality(futures[x]) \in Nat /\ Cardinality(expired[x]) \in Nat
    BY <2>1, FS_CardinalityType, Zenon
  <2>3. CASE x = w
    <3>1. /\ IsFiniteSet(futures[w] \cup {f})
          /\ Cardinality(futures[w] \cup {f}) = Cardinality(futures[w]) + 1
      BY <1>8, <2>1, <2>3, PlusOne, Zenon
    <3> QED
      BY <1>4, <1>7, <2>1, <2>2, <2>3, <3>1 DEF ClientInv, TypeInv
  <2> QED
    BY <1>4, <1>7, <2>1, <2>3, Zenon DEF ClientInv, TypeInv
<1>12. SleepInv'
  <2> SUFFICES ASSUME NEW x \in Worker
               PROVE  /\ asleep[x] <= Infinite
                      /\ asleep[x] # 0 => expired[x] = {}
                      /\ asleep[x] # 0 /\ x \notin notified' =>
                           \A g \in futures'[x] : asleep[x] <= g.end
    BY Zenon DEF SleepInv
  <2>1. notified' = IF \A g \in futures[w] : end < g.end THEN notified \cup {w}
                    ELSE notified
    BY Zenon DEF addFuture
  <2>2. ASSUME asleep[x] # 0, x \notin notified', NEW g \in futures'[x]
        PROVE  asleep[x] <= g.end
    <3>1. CASE g \in futures[x]
      BY <2>1, <2>2, <3>1, Zenon DEF SleepInv
    <3>2. CASE g \notin futures[x]
      <4>1. x = w /\ g = f
        BY <1>7, <2>2, <3>2, Zenon
      <4>2. PICK h \in futures[w] : ~(end < h.end)
        BY <2>1, <2>2, <4>1, Zenon
      <4>3. asleep[w] <= h.end /\ h.end \in Nat /\ asleep[w] \in Nat
        BY <2>1, <2>2, <4>1 DEF SleepInv, TypeInv, Future
      <4> QED
        BY <1>0, <4>1, <4>2, <4>3
    <3> QED
      BY <3>1, <3>2, Zenon
  <2> QED
    BY <2>2, Zenon DEF SleepInv
<1> QED
  BY <1>1, <1>2, <1>3, <1>4, <1>6, <1>9, <1>10, <1>11, <1>12, Zenon DEF ClientInv, f

(* Calls of one worker that are completed, successfully or not.            *)
LEMMA CallsEnded ==
  ASSUME TypeInv, FiniteInv, SleepInv, CallInv, ClientInv,
         NEW w \in Worker, NEW A, A \subseteq futures[w],
         futures' = [futures EXCEPT ![w] = @ \ A],
         clientActiveCalls' = [clientActiveCalls EXCEPT ![w] = @ - Cardinality(A)],
         UNCHANGED <<nextId, expired, asleep, notified>>
  PROVE  /\ futures' \in [Worker -> SUBSET Future]
         /\ clientActiveCalls' \in [Worker -> Int]
         /\ \A x \in Worker : IsFiniteSet(futures'[x]) /\ IsFiniteSet(expired'[x])
         /\ \A x \in Worker : futures'[x] \subseteq futures[x]
         /\ SleepInv' /\ CallInv' /\ ClientInv' /\ AllCalls' \subseteq AllCalls
<1>1. \A x \in Worker : futures'[x] = IF x = w THEN futures[w] \ A ELSE futures[x]
  BY Zenon DEF TypeInv
<1>2. futures' \in [Worker -> SUBSET Future]
  BY Zenon DEF TypeInv
<1>3. /\ IsFiniteSet(futures[w]) /\ IsFiniteSet(futures[w] \ A)
      /\ Cardinality(futures[w]) = Cardinality(futures[w] \ A) + Cardinality(A)
      /\ Cardinality(A) \in Nat /\ Cardinality(futures[w] \ A) \in Nat
  BY Parted, Zenon DEF FiniteInv
<1>4. clientActiveCalls' \in [Worker -> Int]
  BY <1>3 DEF TypeInv
<1>5. \A x \in Worker : IsFiniteSet(futures'[x]) /\ IsFiniteSet(expired'[x])
  BY <1>1, <1>3, Zenon DEF FiniteInv
<1>6. SleepInv'
  BY <1>1 DEF SleepInv
<1>7. CallInv'
  BY <1>1 DEF CallInv, Old
<1>8. AllCalls' \subseteq AllCalls
  BY <1>1 DEF AllCalls
<1>9. ASSUME NEW x \in Worker
      PROVE  clientActiveCalls'[x] = Cardinality(futures'[x]) + Cardinality(expired'[x])
  <2>1. Cardinality(expired[x]) \in Nat
    BY FS_CardinalityType, Zenon DEF FiniteInv
  <2> QED
    BY <1>1, <1>3, <2>1 DEF ClientInv, TypeInv
<1> QED
  BY <1>1, <1>2, <1>4, <1>5, <1>6, <1>7, <1>8, <1>9, Zenon DEF ClientInv

----------------------------------------------------------------------------
(* Slots.                                                                  *)

(* What is in the slots, and in which slot a message is.                   *)
LEMMA SlotTypes ==
  ASSUME TypeInv
  PROVE  /\ \A s \in Slots \cup Counting :
              /\ s.msg \in Message /\ s.msg.id \in Worker \X Nat
              /\ s.msg.from \in Worker /\ s.msg.to \in Worker
         /\ \A t \in tasks : t.kind # "count" => t \in Slots
         /\ \A t \in tasks : t.kind = "count" => t \in Counting
         /\ \A m \in net : Task(m.to, "net", m) \in Slots
         /\ \A m \in deferred : Task(m.to, "deferred", m) \in Slots
BY TaskIs DEF TypeInv, Slots, Counting, TaskType, Message

(* A task is done, and others take its place.                              *)
LEMMA TasksChanged ==
  ASSUME TypeInv, NEW t \in tasks, NEW A, tasks' = (tasks \ {t}) \cup A,
         UNCHANGED <<net, deferred>>
  PROVE  /\ Slots' = (Slots \ {t}) \cup {u \in A : u.kind # "count"}
         /\ Counting' = (Counting \ {t}) \cup {u \in A : u.kind = "count"}
<1>1. t.kind # "net" /\ t.kind # "deferred"
  BY Zenon DEF TypeInv, TaskType
<1>2. \A m \in net : Task(m.to, "net", m) # t
  BY <1>1, TaskIs
<1>3. \A m \in deferred : Task(m.to, "deferred", m) # t
  BY <1>1, TaskIs
<1> QED
  BY <1>2, <1>3, Zenon DEF Slots, Counting

(* What the steps share that change neither calls nor deferred requests.   *)
callVars == <<nextId, futures, expired, asleep, notified, clientActiveCalls>>
(* Such a step keeps what is known about the calls.                        *)
LEMMA SameCalls ==
  ASSUME TypeInv, SleepInv, CallInv, ClientInv, UNCHANGED callVars
  PROVE  SleepInv' /\ CallInv' /\ ClientInv' /\ AllCalls' = AllCalls
BY DEF SleepInv, CallInv, ClientInv, AllCalls, callVars, Old

(* A message moves from slot s to slot r.                                  *)
LEMMA Moved ==
  ASSUME IInv, UNCHANGED callVars, UNCHANGED <<pc, deferred, serverActiveCalls>>,
         NEW s \in Slots, NEW r, Slots' = (Slots \ {s}) \cup {r},
         r.msg = s.msg, Placed(r), s.kind # "deferred", Counting' = Counting
  PROVE  SleepInv' /\ CallInv' /\ ClientInv' /\ SlotInv' /\ HeldInv' /\ ServerInv'
<1>1. SleepInv' /\ CallInv' /\ ClientInv' /\ AllCalls' = AllCalls
  BY SameCalls, Zenon DEF IInv
<1>2. ServerInv'
  BY Zenon DEF IInv, ServerInv
<1>3. SlotsOK((Slots \ {s}) \cup {r}, Counting \cup {}, nextId, AllCalls)
  BY SlotReplaced, Zenon DEF IInv, SlotInv
<1>4. SlotInv'
  BY <1>1, <1>3, Zenon DEF SlotInv, callVars
<1>5. HeldInv'
  <2> SUFFICES ASSUME Running, NEW w \in Worker, NEW f \in futures[w]
               PROVE  \E q \in (Slots \ {s}) \cup {r} : q.msg.id = f.id
    BY Zenon DEF HeldInv, Running, rpcAgentRunning, callVars
  <2>1. PICK q \in Slots : q.msg.id = f.id
    BY Zenon DEF IInv, HeldInv
  <2> QED
    BY <2>1, Zenon
<1> QED
  BY <1>1, <1>2, <1>4, <1>5, Zenon

(* handleSend moves a message from the pool to the network.                *)
LEMMA handleSendSlots ==
  ASSUME TypeInv, SlotInv, NEW t \in tasks, handleSend(t)
  PROVE  /\ t \in Slots /\ t.msg \in Message /\ Placed(Task(t.msg.to, "net", t.msg))
         /\ t.worker = t.msg.from /\ t.worker \in Worker /\ t.msg.to \in Worker
         /\ Slots' = (Slots \ {t}) \cup {Task(t.msg.to, "net", t.msg)}
         /\ Counting' = Counting
<1>1. t \in Slots /\ t.msg \in Message /\ t.msg.from \in Worker /\ t.msg.to \in Worker
  BY SlotTypes, Zenon DEF handleSend
<1>2. Placed(t) /\ t.kind = "send" /\ ~t.msg.bad
  BY <1>1, Zenon DEF SlotInv, SlotsOK, handleSend
<1>3. Placed(Task(t.msg.to, "net", t.msg)) /\ t.worker = t.msg.from
  BY <1>2, TaskIs DEF Placed
<1>4. \A m \in net \cup deferred : /\ Task(m.to, "net", m) # t
                                  /\ Task(m.to, "deferred", m) # t
  BY <1>2, TaskIs
<1>5. /\ tasks' = tasks \ {t} /\ net' = net \cup {t.msg} /\ deferred' = deferred
  BY Zenon DEF handleSend
<1>6. Slots' = (Slots \ {t}) \cup {Task(t.msg.to, "net", t.msg)}
  BY <1>1, <1>2, <1>4, <1>5, Zenon DEF Slots
<1>7. Counting' = Counting
  BY <1>2, <1>5, Zenon DEF Counting
<1> QED
  BY <1>1, <1>3, <1>6, <1>7, Zenon

(* handleSend keeps the invariant.                                         *)
LEMMA handleSendKept ==
  ASSUME IInv, NEW t \in tasks, handleSend(t)
  PROVE  IInv'
<1> DEFINE r == Task(t.msg.to, "net", t.msg)
<1>1. /\ t \in Slots /\ t.msg \in Message /\ Placed(r) /\ t.worker \in Worker
      /\ t.msg.to \in Worker
      /\ Slots' = (Slots \ {t}) \cup {r} /\ Counting' = Counting
  BY handleSendSlots, Zenon DEF IInv
<1>2. r.msg = t.msg /\ t.kind # "deferred"
  BY TaskIs DEF handleSend
<1>3. UNCHANGED callVars /\ UNCHANGED <<pc, deferred, serverActiveCalls>>
  BY Zenon DEF handleSend, callVars, appVars, watchVars
<1> HIDE DEF r
<1>4. SleepInv' /\ CallInv' /\ ClientInv' /\ SlotInv' /\ HeldInv' /\ ServerInv'
  BY <1>1, <1>2, <1>3, Moved, Zenon
<1>5. TypeInv'
  BY <1>1, <1>3 DEF IInv, TypeInv, handleSend, callVars, increment
<1>6. FiniteInv'
  <2>1. IsFiniteSet(tasks \ {t}) /\ IsFiniteSet(net \cup {t.msg})
    BY FS_RemoveElement, FS_AddElement, Zenon DEF IInv, FiniteInv
  <2> QED
    BY <1>3, <2>1, Zenon DEF IInv, FiniteInv, handleSend, callVars
<1> QED
  BY <1>4, <1>5, <1>6, Zenon DEF IInv

(* sendToSelf moves a message to where the listener puts it.               *)
LEMMA sendToSelfSlots ==
  ASSUME TypeInv, SlotInv, NEW t \in tasks, sendToSelf(t)
  PROVE  LET r == [t EXCEPT !.kind = "recv"]
         IN  /\ t \in Slots /\ t.msg \in Message /\ r \in TaskType /\ Placed(r)
             /\ r.msg = t.msg /\ r.kind = "recv"
             /\ t.worker = t.msg.from /\ t.worker = t.msg.to /\ t.worker \in Worker
             /\ Slots' = (Slots \ {t}) \cup {r} /\ Counting' = Counting
<1> DEFINE r == [t EXCEPT !.kind = "recv"]
<1>1. t \in Slots /\ t.msg \in Message /\ t.msg.from \in Worker /\ t.msg.to \in Worker
  BY SlotTypes, Zenon DEF sendToSelf
<1>2. Placed(t) /\ t.kind = "self" /\ ~t.msg.bad
  BY <1>1, Zenon DEF SlotInv, SlotsOK, sendToSelf
<1>3. r \in TaskType /\ r.msg = t.msg /\ r.kind = "recv" /\ r.worker = t.worker
  BY Zenon DEF TypeInv, TaskType
<1>4. t.worker = t.msg.from /\ t.worker = t.msg.to
  BY <1>2, Zenon DEF Placed
<1> HIDE DEF r
<1>5. Placed(r)
  BY <1>2, <1>3, <1>4, Zenon DEF Placed
<1>6. tasks' = (tasks \ {t}) \cup {r} /\ UNCHANGED <<net, deferred>>
  BY Zenon DEF sendToSelf, r
<1>7. /\ Slots' = (Slots \ {t}) \cup {u \in {r} : u.kind # "count"}
      /\ Counting' = (Counting \ {t}) \cup {u \in {r} : u.kind = "count"}
  BY <1>6, TasksChanged, Zenon
<1>8. Slots' = (Slots \ {t}) \cup {r} /\ Counting' = Counting
  BY <1>2, <1>3, <1>7, Zenon DEF Counting
<1> QED
  BY <1>1, <1>3, <1>4, <1>5, <1>8, Zenon DEF r

(* sendToSelf keeps the invariant.                                         *)
LEMMA sendToSelfKept ==
  ASSUME IInv, NEW t \in tasks, sendToSelf(t)
  PROVE  IInv'
<1> DEFINE r == [t EXCEPT !.kind = "recv"]
<1>1. /\ t \in Slots /\ t.msg \in Message /\ Placed(r) /\ r \in TaskType
      /\ r.msg = t.msg /\ t.worker \in Worker
      /\ Slots' = (Slots \ {t}) \cup {r} /\ Counting' = Counting
  BY sendToSelfSlots, Zenon DEF IInv
<1>2. /\ tasks' = (tasks \ {t}) \cup {r} /\ UNCHANGED <<net, recvCounts>>
      /\ sendCounts' = [sendCounts EXCEPT ![t.worker][t.worker] = @ + 1]
  BY Zenon DEF sendToSelf, increment
<1> HIDE DEF r
<1>3. UNCHANGED callVars /\ UNCHANGED <<pc, deferred, serverActiveCalls>>
  BY Zenon DEF sendToSelf, callVars, appVars, watchVars
<1>4. t.kind # "deferred"
  BY Zenon DEF sendToSelf
<1>5. SleepInv' /\ CallInv' /\ ClientInv' /\ SlotInv' /\ HeldInv' /\ ServerInv'
  BY <1>1, <1>3, <1>4, Moved, Zenon
<1>6. TypeInv'
  BY <1>1, <1>2, <1>3 DEF IInv, TypeInv, callVars
<1>7. FiniteInv'
  <2>1. IsFiniteSet((tasks \ {t}) \cup {r})
    BY FS_RemoveElement, FS_AddElement, Zenon DEF IInv, FiniteInv
  <2> QED
    BY <1>2, <1>3, <2>1, Zenon DEF IInv, FiniteInv, callVars
<1> QED
  BY <1>5, <1>6, <1>7 DEF IInv

(* listenLoopInternal moves a message from the network to the pool.        *)
LEMMA listenSlots ==
  ASSUME TypeInv, SlotInv, NEW w \in Worker, listen(w)
  PROVE  \E m \in net :
           LET s == Task(m.to, "net", m)
               r == Task(w, "recv", m)
           IN  /\ m.to = w /\ net' = net \ {m} /\ tasks' = tasks \cup {r}
               /\ s \in Slots /\ r \in TaskType /\ Placed(r)
               /\ Slots' = (Slots \ {s}) \cup {r} /\ Counting' = Counting
<1>1. PICK m \in net : /\ m.to = w /\ net' = net \ {m}
                       /\ tasks' = tasks \cup {Task(w, "recv", m)}
  BY Zenon DEF listen
<1> DEFINE s == Task(m.to, "net", m)
           r == Task(w, "recv", m)
<1>2. s \in Slots /\ m \in Message
  BY SlotTypes, Zenon DEF TypeInv
<1>3. Placed(s)
  BY <1>2, Zenon DEF SlotInv, SlotsOK
<1>4. r \in TaskType /\ r.kind = "recv" /\ s.kind = "net" /\ s.msg = m
  BY <1>2, Zenon DEF Task, TaskType
<1>5. Placed(r)
  BY <1>1, <1>3, TaskIs DEF Placed
<1>6. s \notin tasks
  BY <1>4, Zenon DEF TypeInv, TaskType
<1>7. \A n \in net : Task(n.to, "net", n) = s => n = m
  BY TaskIs
<1>8. \A n \in deferred : Task(n.to, "deferred", n) # s
  BY TaskIs
<1> HIDE DEF s, r
<1>9. deferred' = deferred
  BY Zenon DEF listen
<1>10. \A n \in net : n # m => Task(n.to, "net", n) \in Slots \ {s}
  BY <1>7, Zenon DEF Slots
<1>11. Slots' = (Slots \ {s}) \cup {r}
  BY <1>1, <1>4, <1>6, <1>8, <1>9, <1>10, Zenon DEF Slots, r, s
<1>12. Counting' = Counting
  BY <1>1, <1>4, Zenon DEF Counting, r
<1> QED
  BY <1>1, <1>2, <1>4, <1>5, <1>11, <1>12, Zenon DEF r, s

(* listenLoopInternal keeps the invariant.                                 *)
LEMMA listenKept ==
  ASSUME IInv, NEW w \in Worker, listen(w)
  PROVE  IInv'
<1>1. PICK m \in net :
           LET s == Task(m.to, "net", m)
               r == Task(w, "recv", m)
           IN  /\ m.to = w /\ net' = net \ {m} /\ tasks' = tasks \cup {r}
               /\ s \in Slots /\ r \in TaskType /\ Placed(r)
               /\ Slots' = (Slots \ {s}) \cup {r} /\ Counting' = Counting
  BY listenSlots, Zenon DEF IInv
<1> DEFINE s == Task(m.to, "net", m)
           r == Task(w, "recv", m)
<1>2. s.msg = r.msg /\ s.kind # "deferred"
  BY TaskIs
<1>3. UNCHANGED callVars /\ UNCHANGED <<pc, deferred, serverActiveCalls>>
  BY Zenon DEF listen, callVars, appVars, watchVars
<1>4. SleepInv' /\ CallInv' /\ ClientInv' /\ SlotInv' /\ HeldInv' /\ ServerInv'
  BY <1>1, <1>2, <1>3, Moved, Zenon
<1>5. TypeInv'
  BY <1>1, <1>3, Zenon DEF IInv, TypeInv, listen, callVars
<1>6. FiniteInv'
  <2>1. IsFiniteSet(net \ {m}) /\ IsFiniteSet(tasks \cup {r})
    BY FS_RemoveElement, FS_AddElement, Zenon DEF IInv, FiniteInv
  <2> QED
    BY <1>1, <1>3, <2>1, Zenon DEF IInv, FiniteInv, callVars
<1> QED
  BY <1>4, <1>5, <1>6, Zenon DEF IInv

(* The last slot of a call goes, and its future with it.                   *)
LEMMA Ended ==
  ASSUME IInv, NEW t \in Slots, t.worker = t.msg.id[1], t.worker \in Worker, NEW D,
         LET found == {f \in futures[t.worker] : f.id = t.msg.id}
         IN  /\ futures' = [futures EXCEPT ![t.worker] = @ \ found]
             /\ clientActiveCalls' =
                  [clientActiveCalls EXCEPT ![t.worker] = @ - Cardinality(found)],
         UNCHANGED <<nextId, expired, asleep, notified, pc, deferred, serverActiveCalls>>,
         Slots' = Slots \ {t}, Counting' = Counting \cup D,
         \A u \in D : u.msg = t.msg /\ Placed(u)
  PROVE  /\ SleepInv' /\ CallInv' /\ ClientInv' /\ SlotInv' /\ HeldInv' /\ ServerInv'
         /\ futures' \in [Worker -> SUBSET Future]
         /\ clientActiveCalls' \in [Worker -> Int]
         /\ \A x \in Worker : IsFiniteSet(futures'[x]) /\ IsFiniteSet(expired'[x])
<1> DEFINE w == t.worker
           found == {f \in futures[w] : f.id = t.msg.id}
<1>1. found \subseteq futures[w]
  BY Zenon
<1>2. /\ futures' = [futures EXCEPT ![w] = @ \ found]
      /\ clientActiveCalls' = [clientActiveCalls EXCEPT ![w] = @ - Cardinality(found)]
  BY Zenon
<1> HIDE DEF found, w
<1>3. /\ futures' \in [Worker -> SUBSET Future]
      /\ clientActiveCalls' \in [Worker -> Int]
      /\ \A x \in Worker : IsFiniteSet(futures'[x]) /\ IsFiniteSet(expired'[x])
      /\ \A x \in Worker : futures'[x] \subseteq futures[x]
      /\ SleepInv' /\ CallInv' /\ ClientInv' /\ AllCalls' \subseteq AllCalls
  BY <1>1, <1>2, CallsEnded, Zenon DEF IInv, w
<1>4. ServerInv'
  BY Zenon DEF IInv, ServerInv
<1>5. SlotInv'
  <2>1. SlotsOK((Slots \ {t}) \cup {}, Counting \cup D, nextId, AllCalls')
    BY <1>3, SlotReplaced, Zenon DEF IInv, SlotInv
  <2> QED
    BY <2>1, Zenon DEF SlotInv
<1>6. HeldInv'
  <2> SUFFICES ASSUME Running, NEW x \in Worker, NEW f \in futures'[x]
               PROVE  \E q \in Slots \ {t} : q.msg.id = f.id
    BY Zenon DEF HeldInv, Running, rpcAgentRunning
  <2>1. f \in futures[x] /\ f.id[1] = x
    BY <1>3, Zenon DEF IInv, CallInv
  <2>2. PICK q \in Slots : q.msg.id = f.id
    BY <2>1, Zenon DEF IInv, HeldInv
  <2>3. CASE q = t
    <3>1. x = w
      BY <2>1, <2>2, <2>3, Zenon DEF w
    <3>2. f \in found
      BY <2>1, <2>2, <2>3, <3>1, Zenon DEF found
    <3>3. futures'[w] = futures[w] \ found
      BY <1>2, Zenon DEF IInv, TypeInv, w
    <3> QED
      BY <3>1, <3>2, <3>3, Zenon
  <2> QED
    BY <2>2, <2>3, Zenon
<1> QED
  BY <1>3, <1>4, <1>5, <1>6, Zenon

(* A request that cannot be serialized leaves its slot.                    *)
LEMMA markFutureWithErrorSlots ==
  ASSUME TypeInv, SlotInv, NEW t \in tasks, markFutureWithError(t)
  PROVE  /\ t \in Slots /\ t.msg \in Message /\ t.worker \in Worker
         /\ t.worker = t.msg.id[1] /\ t.worker = t.msg.from /\ t.msg.type = "request"
         /\ Slots' = Slots \ {t} /\ Counting' = Counting
<1>1. t \in Slots /\ t.msg \in Message /\ t.worker \in Worker
  BY SlotTypes, Zenon DEF markFutureWithError, TypeInv, TaskType
<1>2. Placed(t) /\ t.kind \in {"send", "self"} /\ t.msg.bad
  BY <1>1, Zenon DEF SlotInv, SlotsOK, markFutureWithError
<1>3. tasks' = (tasks \ {t}) \cup {} /\ UNCHANGED <<net, deferred>>
  BY Zenon DEF markFutureWithError
<1>4. /\ Slots' = (Slots \ {t}) \cup {u \in {} : u.kind # "count"}
      /\ Counting' = (Counting \ {t}) \cup {u \in {} : u.kind = "count"}
  BY <1>3, TasksChanged, Zenon
<1> QED
  BY <1>1, <1>2, <1>4, Zenon DEF Placed, Counting

(* markFutureWithError keeps the invariant.                                *)
LEMMA markFutureWithErrorKept ==
  ASSUME IInv, NEW t \in tasks, markFutureWithError(t)
  PROVE  IInv'
<1> DEFINE D == {}
<1>1. /\ t \in Slots /\ t.worker = t.msg.id[1] /\ t.worker \in Worker
      /\ Slots' = Slots \ {t} /\ Counting' = Counting \cup D
  BY markFutureWithErrorSlots, Zenon DEF IInv
<1>2. /\ SleepInv' /\ CallInv' /\ ClientInv' /\ SlotInv' /\ HeldInv' /\ ServerInv'
      /\ futures' \in [Worker -> SUBSET Future]
      /\ clientActiveCalls' \in [Worker -> Int]
      /\ \A x \in Worker : IsFiniteSet(futures'[x]) /\ IsFiniteSet(expired'[x])
  <2>1. UNCHANGED <<nextId, expired, asleep, notified, pc, deferred, serverActiveCalls>>
    BY Zenon DEF markFutureWithError, appVars, watchVars
  <2>2. LET found == {f \in futures[t.worker] : f.id = t.msg.id}
         IN  /\ futures' = [futures EXCEPT ![t.worker] = @ \ found]
             /\ clientActiveCalls' =
                  [clientActiveCalls EXCEPT ![t.worker] = @ - Cardinality(found)]
    BY Zenon DEF markFutureWithError
  <2>3. \A u \in D : u.msg = t.msg /\ Placed(u)
    BY Zenon
  <2> HIDE DEF D
  <2> QED
    BY <1>1, <2>1, <2>2, <2>3, Ended, Zenon
<1>3. tasks' = tasks \ {t}
  BY Zenon DEF markFutureWithError
<1>4. UNCHANGED <<nextId, expired, asleep, notified, pc, net, deferred, sendCounts,
                  recvCounts, serverActiveCalls>>
  BY Zenon DEF markFutureWithError, appVars, watchVars
<1>5. TypeInv'
  BY <1>2, <1>3, <1>4, Zenon DEF IInv, TypeInv
<1>6. FiniteInv'
  <2>1. IsFiniteSet(tasks \ {t})
    BY FS_RemoveElement, Zenon DEF IInv, FiniteInv
  <2> QED
    BY <1>2, <1>3, <1>4, <2>1, Zenon DEF IInv, FiniteInv
<1> QED
  BY <1>2, <1>5, <1>6, Zenon DEF IInv

(* A task whose message has been handled, and is about to be counted.      *)
LEMMA HandledIs ==
  ASSUME NEW t \in TaskType, t.kind = "recv", Placed(t)
  PROVE  /\ Handled(t) \in TaskType /\ Handled(t).kind = "count"
         /\ Handled(t).msg = t.msg /\ Handled(t).worker = t.worker
         /\ Placed(Handled(t))
<1>1. /\ Handled(t) \in TaskType /\ Handled(t).kind = "count"
      /\ Handled(t).msg = t.msg /\ Handled(t).worker = t.worker
  BY Zenon DEF Handled, TaskType
<1> QED
  BY <1>1, Zenon DEF Placed

(* A response leaves its slot; it will be counted if its future was found. *)
LEMMA handleResponseSlots ==
  ASSUME TypeInv, SlotInv, NEW t \in tasks, handleResponse(t)
  PROVE  LET D == {Handled(t) : f \in {g \in futures[t.worker] : g.id = t.msg.id}}
         IN  /\ t \in Slots /\ t.msg \in Message /\ t.worker \in Worker
             /\ t.worker = t.msg.id[1] /\ t.worker = t.msg.to /\ t.msg.type = "response"
             /\ Callee(t.msg) = t.msg.from
             /\ tasks' = (tasks \ {t}) \cup D
             /\ \A u \in D : /\ u \in TaskType /\ u.kind = "count"
                             /\ u.msg = t.msg /\ Placed(u)
             /\ Slots' = Slots \ {t} /\ Counting' = Counting \cup D
<1> DEFINE D == {Handled(t) : f \in {g \in futures[t.worker] : g.id = t.msg.id}}
<1>1. t \in Slots /\ t.msg \in Message /\ t.worker \in Worker /\ t \in TaskType
  BY SlotTypes, Zenon DEF handleResponse, TypeInv, TaskType
<1>2. Placed(t) /\ t.kind = "recv" /\ t.msg.type = "response"
  BY <1>1, Zenon DEF SlotInv, SlotsOK, handleResponse
<1>3. /\ Handled(t) \in TaskType /\ Handled(t).kind = "count"
      /\ Handled(t).msg = t.msg /\ Placed(Handled(t))
  BY <1>1, <1>2, HandledIs, Zenon
<1>4. tasks' = (tasks \ {t}) \cup D /\ UNCHANGED <<net, deferred>>
  BY Zenon DEF handleResponse
<1>5. \A u \in D : u = Handled(t)
  BY Zenon
<1> HIDE DEF D
<1>6. /\ Slots' = (Slots \ {t}) \cup {u \in D : u.kind # "count"}
      /\ Counting' = (Counting \ {t}) \cup {u \in D : u.kind = "count"}
  BY <1>4, TasksChanged, Zenon
<1>7. Slots' = Slots \ {t} /\ Counting' = Counting \cup D
  BY <1>2, <1>3, <1>5, <1>6, Zenon DEF Counting
<1>8. t.worker = t.msg.id[1] /\ t.worker = t.msg.to /\ Callee(t.msg) = t.msg.from
  BY <1>2, Zenon DEF Placed, Callee
<1>9. \A u \in D : u \in TaskType /\ u.kind = "count" /\ u.msg = t.msg /\ Placed(u)
  BY <1>3, <1>5, Zenon
<1> QED
  BY <1>1, <1>2, <1>4, <1>7, <1>8, <1>9, Zenon DEF D

(* handleRecv of a response keeps the invariant.                           *)
LEMMA handleResponseKept ==
  ASSUME IInv, NEW t \in tasks, handleResponse(t)
  PROVE  IInv'
<1> DEFINE D == {Handled(t) : f \in {g \in futures[t.worker] : g.id = t.msg.id}}
<1>1. /\ t \in Slots /\ t.worker = t.msg.id[1] /\ t.worker \in Worker
      /\ tasks' = (tasks \ {t}) \cup D
      /\ \A u \in D : u \in TaskType /\ u.msg = t.msg /\ Placed(u)
      /\ Slots' = Slots \ {t} /\ Counting' = Counting \cup D
  BY handleResponseSlots, Zenon DEF IInv
<1>2. \A u \in D : u = Handled(t)
  BY Zenon
<1> HIDE DEF D
<1>3. /\ SleepInv' /\ CallInv' /\ ClientInv' /\ SlotInv' /\ HeldInv' /\ ServerInv'
      /\ futures' \in [Worker -> SUBSET Future]
      /\ clientActiveCalls' \in [Worker -> Int]
      /\ \A x \in Worker : IsFiniteSet(futures'[x]) /\ IsFiniteSet(expired'[x])
  <2>1. UNCHANGED <<nextId, expired, asleep, notified, pc, deferred, serverActiveCalls>>
    BY Zenon DEF handleResponse, appVars, watchVars
  <2>2. LET found == {f \in futures[t.worker] : f.id = t.msg.id}
         IN  /\ futures' = [futures EXCEPT ![t.worker] = @ \ found]
             /\ clientActiveCalls' =
                  [clientActiveCalls EXCEPT ![t.worker] = @ - Cardinality(found)]
    BY Zenon DEF handleResponse
  <2> QED
    BY <1>1, <2>1, <2>2, Ended, Zenon
<1>4. UNCHANGED <<nextId, expired, asleep, notified, pc, net, deferred, sendCounts,
                  recvCounts, serverActiveCalls>>
  BY Zenon DEF handleResponse, appVars, watchVars
<1>5. TypeInv'
  BY <1>1, <1>3, <1>4, Zenon DEF IInv, TypeInv
<1>6. FiniteInv'
  <2>1. IsFiniteSet(tasks \ {t}) /\ IsFiniteSet({Handled(t)})
    BY FS_RemoveElement, FS_Singleton, Zenon DEF IInv, FiniteInv
  <2>2. IsFiniteSet(D)
    BY <1>2, <2>1, FS_Subset
  <2>3. IsFiniteSet((tasks \ {t}) \cup D)
    BY <2>1, <2>2, FS_Union, Zenon
  <2> QED
    BY <1>1, <1>3, <1>4, <2>3, Zenon DEF IInv, FiniteInv
<1> QED
  BY <1>3, <1>5, <1>6 DEF IInv

(* Counting a message as received keeps the invariant, and the slots.      *)
LEMMA countRecvKept ==
  ASSUME IInv, NEW t \in tasks, countRecv(t)
  PROVE  IInv' /\ Slots' = Slots /\ t.worker \in Worker /\ t.worker = t.msg.to
<1>1. t \in Counting /\ t.msg.from \in Worker /\ t.worker \in Worker
  BY SlotTypes, Zenon DEF countRecv, IInv, TypeInv, TaskType
<1>2. Placed(t) /\ t.kind = "count"
  BY <1>1, Zenon DEF IInv, SlotInv, SlotsOK, countRecv
<1>3. /\ tasks' = tasks \ {t}
      /\ recvCounts' = [recvCounts EXCEPT ![t.worker][t.msg.from] = @ + 1]
  BY Zenon DEF countRecv, increment
<1>4. /\ UNCHANGED callVars
      /\ UNCHANGED <<pc, net, deferred, sendCounts, serverActiveCalls>>
  BY Zenon DEF countRecv, callVars, appVars, watchVars
<1>5. Slots' = Slots /\ Counting' \subseteq Counting
  BY <1>2, <1>3, <1>4, Zenon DEF Slots, Counting
<1>6. SleepInv' /\ CallInv' /\ ClientInv' /\ AllCalls' = AllCalls
  BY <1>4, SameCalls, Zenon DEF IInv
<1>7. SlotsOK(Slots, Counting', nextId, AllCalls)
  BY <1>5, SlotsFewer, Zenon DEF IInv, SlotInv
<1>8. SlotInv' /\ HeldInv' /\ ServerInv'
  BY <1>4, <1>5, <1>6, <1>7, Zenon DEF IInv, SlotInv, HeldInv, ServerInv, callVars, Running,
                                rpcAgentRunning
<1>9. TypeInv'
  BY <1>1, <1>3, <1>4 DEF IInv, TypeInv, callVars
<1>10. FiniteInv'
  <2>1. IsFiniteSet(tasks \ {t})
    BY FS_RemoveElement DEF IInv, FiniteInv
  <2> QED
    BY <1>3, <1>4, <2>1, Zenon DEF IInv, FiniteInv, callVars
<1>11. t.worker = t.msg.to
  BY <1>2, Zenon DEF Placed
<1> QED
  BY <1>1, <1>5, <1>6, <1>8, <1>9, <1>10, <1>11, Zenon DEF IInv

(* The slot that a response gets in the pool of the callee, if that runs.  *)
Reply(m) == IF rpcAgentRunning(m.to) THEN {Enqueued(m.to, Response(m))} ELSE {}
(* The fields of that slot.                                                *)
LEMMA ReplyIs ==
  ASSUME NEW m \in Message, m.type = "request", ~m.bad, m.id[1] = m.from,
         NEW r \in Reply(m)
  PROVE  /\ r \in TaskType /\ r.kind \in {"send", "self"} /\ Placed(r)
         /\ r.msg = Response(m) /\ r.msg.id = m.id /\ r.msg.type = "response"
         /\ Callee(r.msg) = Callee(m)
<1>1. r = Enqueued(m.to, Response(m)) /\ m.to \in Worker
  BY Zenon DEF Reply, Message
<1>2. /\ Response(m) \in Message
      /\ Response(m).type = "response" /\ Response(m).id = m.id
      /\ Response(m).from = m.to /\ Response(m).to = m.from
      /\ Response(m).bad = m.bad /\ Callee(Response(m)) = Callee(m)
  BY ResponseTo, Zenon
<1>3. /\ r \in TaskType /\ r.kind \in {"send", "self"} /\ r.msg = Response(m)
      /\ Placed(r)
  BY <1>1, <1>2, EnqueuedIs, ZenonT(40)
<1> QED
  BY <1>2, <1>3, Zenon

(* A deferred request gives its slot to the response.                      *)
LEMMA completeDeferredSlots ==
  ASSUME TypeInv, SlotInv, NEW m \in deferred, completeDeferred(m)
  PROVE  LET s == Task(m.to, "deferred", m)
         IN  /\ s \in Slots /\ s.msg = m /\ m \in Message /\ m.to \in Worker
             /\ m.type = "request" /\ ~m.bad /\ m.id[1] = m.from
             /\ tasks' = tasks \cup Reply(m)
             /\ Slots' = (Slots \ {s}) \cup Reply(m) /\ Counting' = Counting
<1> DEFINE s == Task(m.to, "deferred", m)
<1>1. s \in Slots /\ m \in Message /\ m.to \in Worker
  BY SlotTypes, Zenon DEF TypeInv, Message
<1>2. s.msg = m /\ s.kind = "deferred"
  BY TaskIs
<1>3. Placed(s)
  BY <1>1, Zenon DEF SlotInv, SlotsOK
<1>4. m.type = "request" /\ ~m.bad /\ m.id[1] = m.from
  BY <1>2, <1>3, Zenon DEF Placed
<1>5. /\ tasks' = tasks \cup Reply(m) /\ deferred' = deferred \ {m} /\ net' = net
  BY Zenon DEF completeDeferred, Reply
<1>6. \A r \in Reply(m) : r.kind # "count"
  BY <1>1, <1>4, ReplyIs, Zenon
<1>7. s \notin tasks
  BY <1>2, Zenon DEF TypeInv, TaskType
<1>8. \A n \in deferred : Task(n.to, "deferred", n) = s => n = m
  BY TaskIs
<1>9. \A n \in net : Task(n.to, "net", n) # s
  BY TaskIs
<1> HIDE DEF s
<1>10. \A n \in deferred : n # m => Task(n.to, "deferred", n) \in Slots \ {s}
  BY <1>8, Zenon DEF Slots
<1>11. Slots' = (Slots \ {s}) \cup Reply(m)
  BY <1>5, <1>6, <1>7, <1>9, <1>10, Zenon DEF Slots, s
<1>12. Counting' = Counting
  BY <1>5, <1>6, Zenon DEF Counting
<1> QED
  BY <1>1, <1>2, <1>4, <1>5, <1>11, <1>12, Zenon DEF s

(* The callback of a deferred request keeps the invariant.                 *)
LEMMA completeDeferredKept ==
  ASSUME IInv, NEW m \in deferred, completeDeferred(m)
  PROVE  IInv'
<1> DEFINE s == Task(m.to, "deferred", m)
<1>1. /\ s \in Slots /\ s.msg = m /\ m \in Message /\ m.to \in Worker
      /\ m.type = "request" /\ ~m.bad /\ m.id[1] = m.from
      /\ tasks' = tasks \cup Reply(m)
      /\ Slots' = (Slots \ {s}) \cup Reply(m) /\ Counting' = Counting
  BY completeDeferredSlots, Zenon DEF IInv
<1> HIDE DEF s
<1>2. \A r \in Reply(m) : /\ r \in TaskType /\ r.msg.id = s.msg.id /\ Placed(r)
                          /\ Callee(r.msg) = Callee(s.msg)
                          /\ r.msg.type = "response"
  BY <1>1, ReplyIs, Zenon
<1>3. \A r, q \in Reply(m) : r = q
  BY Zenon DEF Reply
<1>4. UNCHANGED callVars /\ UNCHANGED <<pc, net, sendCounts, recvCounts>>
  BY Zenon DEF completeDeferred, callVars, appVars, watchVars
<1>5. SleepInv' /\ CallInv' /\ ClientInv' /\ AllCalls' = AllCalls
  BY <1>4, SameCalls, Zenon DEF IInv
<1>6. SlotsOK((Slots \ {s}) \cup Reply(m), Counting \cup {}, nextId, AllCalls)
  BY <1>1, <1>2, <1>3, SlotReplaced, Zenon DEF IInv, SlotInv
<1>7. SlotInv'
  BY <1>1, <1>4, <1>5, <1>6, Zenon DEF SlotInv, callVars
<1>8. HeldInv'
  <2> SUFFICES ASSUME Running, NEW w \in Worker, NEW f \in futures[w]
               PROVE  \E q \in (Slots \ {s}) \cup Reply(m) : q.msg.id = f.id
    BY <1>1, <1>4, Zenon DEF HeldInv, Running, rpcAgentRunning, callVars
  <2>1. PICK q \in Slots : q.msg.id = f.id
    BY Zenon DEF IInv, HeldInv
  <2>2. Enqueued(m.to, Response(m)) \in Reply(m)
    BY <1>1, Zenon DEF Running, Reply
  <2> QED
    BY <1>2, <2>1, <2>2, Zenon
<1>9. /\ deferred' = deferred \ {m}
      /\ serverActiveCalls' = [serverActiveCalls EXCEPT ![m.to] = @ - 1]
  BY Zenon DEF completeDeferred
<1>10. ServerInv'
  <2> SUFFICES ASSUME NEW w \in Worker
               PROVE  serverActiveCalls'[w] = Cardinality(DeferredAt(deferred', w))
    BY Zenon DEF ServerInv
  <2>1. IsFiniteSet(DeferredAt(deferred, w))
    BY FS_Subset, Zenon DEF IInv, FiniteInv, DeferredAt
  <2>2. CASE w = m.to
    <3>1. /\ DeferredAt(deferred', w) = DeferredAt(deferred, w) \ {m}
          /\ m \in DeferredAt(deferred, w)
      BY <1>9, <2>2, Zenon DEF DeferredAt
    <3>2. Cardinality(DeferredAt(deferred, w) \ {m}) = Cardinality(DeferredAt(deferred, w)) - 1
      BY <2>1, <3>1, MinusOne, Zenon
    <3> QED
      BY <1>1, <1>9, <2>2, <3>1, <3>2, Zenon DEF IInv, TypeInv, ServerInv
  <2>3. CASE w # m.to
    <3>1. DeferredAt(deferred', w) = DeferredAt(deferred, w)
      BY <1>9, <2>3, Zenon DEF DeferredAt
    <3> QED
      BY <1>1, <1>9, <2>3, <3>1, Zenon DEF IInv, TypeInv, ServerInv
  <2> QED
    BY <2>2, <2>3, Zenon
<1>11. TypeInv'
  BY <1>1, <1>2, <1>4, <1>9 DEF IInv, TypeInv, callVars
<1>12. FiniteInv'
  <2>1. IsFiniteSet(Reply(m))
    BY FS_EmptySet, FS_Singleton, Zenon DEF Reply
  <2>2. IsFiniteSet(tasks \cup Reply(m)) /\ IsFiniteSet(deferred \ {m})
    BY <2>1, FS_Union, FS_RemoveElement, Zenon DEF IInv, FiniteInv
  <2> QED
    BY <1>1, <1>4, <1>9, <2>2, Zenon DEF IInv, FiniteInv, callVars
<1> QED
  BY <1>5, <1>7, <1>8, <1>10, <1>11, <1>12, Zenon DEF IInv

(* A new call of w, with message n, and the slot it gets.                  *)
Fresh(w, n) ==
  n \in Message /\ n.type = "request" /\ n.id = <<w, nextId[w]>> /\ n.from = w
(* The slot of a new call fits in.                                         *)
LEMMA FreshSlot ==
  ASSUME TypeInv, CallInv, NEW S, NEW C, SlotsOK(S, C, nextId, AllCalls),
         \A s \in S \cup C : s.msg.id \in Worker \X Nat,
         NEW w \in Worker, NEW n, Fresh(w, n), NEW end,
         \A g \in AllCalls : g.id # n.id
  PROVE  SlotsOK(S \cup {Enqueued(w, n)}, C, [nextId EXCEPT ![w] = @ + 1],
                 AllCalls \cup {NewFuture(n, end)})
<1> DEFINE q == Enqueued(w, n)
           f == NewFuture(n, end)
<1>1. q.msg = n /\ Placed(q) /\ nextId \in [Worker -> Nat]
  BY EnqueuedIs DEF Fresh, TypeInv
<1>2. f.id = n.id /\ f.dst = Callee(n)
  BY Zenon DEF NewFuture, Callee, Fresh
<1>3. n.id = <<w, nextId[w]>>
  BY Zenon DEF Fresh
<1> HIDE DEF q, f
<1>4. SlotsOK(S \cup {q}, C, [nextId EXCEPT ![w] = @ + 1], AllCalls \cup {f})
  BY <1>1, <1>2, <1>3, SlotAdded, Zenon
<1> QED
  BY <1>4, Zenon DEF q, f

(* The call of an application: a new request, its future and its slot.     *)
LEMMA CallForm ==
  ASSUME TypeInv, NEW w \in Worker, Call(w)
  PROVE  \E n, end :
           /\ Fresh(w, n) /\ end \in EndTimes /\ addFuture(w, n, end)
           /\ n.bad => end \in BadEnds
           /\ tasks' = tasks \cup {Enqueued(w, n)} /\ Enqueued(w, n) \in TaskType
           /\ Slots' = Slots \cup {Enqueued(w, n)} /\ Counting' = Counting
           /\ UNCHANGED <<pc, net, deferred, sendCounts, recvCounts, asleep, expired,
                          serverActiveCalls>>
<1>1. PICK to \in Worker, hops \in 0 .. MaxHops, end \in EndTimes, bad \in BOOLEAN :
        LET m == Request(w, nextId[w], to, hops, bad)
        IN  /\ bad => hops = 0 /\ end \in BadEnds
            /\ addFuture(w, m, end) /\ tasks' = tasks \cup {Enqueued(w, m)}
  BY Zenon DEF Call
<1> DEFINE n == Request(w, nextId[w], to, hops, bad)
<1>2. Fresh(w, n) /\ n.bad = bad
  <2>1. nextId[w] \in Nat /\ hops \in Int
    BY BoundsAssumption DEF TypeInv
  <2>2. /\ n \in Message /\ n.type = "request" /\ n.id = <<w, nextId[w]>>
        /\ n.from = w /\ n.bad = bad
    BY <2>1, RequestIs
  <2> QED
    BY <2>2, Zenon DEF Fresh
<1>3. addFuture(w, n, end) /\ tasks' = tasks \cup {Enqueued(w, n)} /\ (n.bad => end \in BadEnds)
  BY <1>1, <1>2, Zenon
<1> HIDE DEF n
<1>4. Enqueued(w, n) \in TaskType /\ Enqueued(w, n).kind # "count"
  BY <1>2, EnqueuedIs DEF Fresh
<1>5. UNCHANGED <<pc, net, deferred, sendCounts, recvCounts, asleep, expired,
                  serverActiveCalls>>
  BY Zenon DEF Call, appVars
<1>6. Slots' = Slots \cup {Enqueued(w, n)} /\ Counting' = Counting
  BY <1>3, <1>4, <1>5 DEF Slots, Counting
<1> QED
  BY <1>2, <1>3, <1>4, <1>5, <1>6, Zenon

(* A call keeps the invariant.                                             *)
LEMMA CallKept ==
  ASSUME IInv, NEW w \in Worker, Call(w)
  PROVE  IInv'
<1>1. PICK n, end :
        /\ Fresh(w, n) /\ end \in EndTimes /\ addFuture(w, n, end)
        /\ tasks' = tasks \cup {Enqueued(w, n)} /\ Enqueued(w, n) \in TaskType
        /\ Slots' = Slots \cup {Enqueued(w, n)} /\ Counting' = Counting
        /\ UNCHANGED <<pc, net, deferred, sendCounts, recvCounts, asleep, expired,
                       serverActiveCalls>>
  BY CallForm, Zenon DEF IInv
<1>2. end \in Nat /\ n \in Message /\ n.id = <<w, nextId[w]>>
  BY <1>1, TimeAssumption, Zenon DEF Fresh
<1>3. UNCHANGED <<expired, asleep>>
  BY <1>1, Zenon
<1>4. /\ nextId' = [nextId EXCEPT ![w] = @ + 1] /\ nextId' \in [Worker -> Nat]
      /\ futures' \in [Worker -> SUBSET Future]
      /\ expired' \in [Worker -> SUBSET Future] /\ asleep' \in [Worker -> Nat]
      /\ clientActiveCalls' \in [Worker -> Int]
      /\ \A x \in Worker : IsFiniteSet(futures'[x]) /\ IsFiniteSet(expired'[x])
      /\ SleepInv' /\ CallInv' /\ ClientInv'
      /\ AllCalls' = AllCalls \cup {NewFuture(n, end)}
      /\ \A g \in AllCalls : g.id # n.id
  BY <1>1, <1>2, <1>3, AddFuture, Zenon DEF IInv
<1>5. TypeInv'
  BY <1>1, <1>4, Zenon DEF IInv, TypeInv
<1>6. FiniteInv'
  <2>1. IsFiniteSet(tasks \cup {Enqueued(w, n)})
    BY FS_AddElement, Zenon DEF IInv, FiniteInv
  <2> QED
    BY <1>1, <1>4, <2>1, Zenon DEF IInv, FiniteInv
<1>7. \A s \in Slots \cup Counting : s.msg.id \in Worker \X Nat
  BY SlotTypes, Zenon DEF IInv
<1>8. SlotInv'
  <2>1. SlotsOK(Slots \cup {Enqueued(w, n)}, Counting, [nextId EXCEPT ![w] = @ + 1],
                AllCalls \cup {NewFuture(n, end)})
    BY <1>1, <1>4, <1>7, FreshSlot, Zenon DEF IInv, SlotInv
  <2> QED
    BY <1>1, <1>4, <2>1, Zenon DEF SlotInv
<1>9. Enqueued(w, n).msg = n
  BY <1>1, EnqueuedIs DEF Fresh
<1>10. \A x \in Worker : \A f \in futures'[x] : f \in futures[x] \/ f.id = n.id
  BY <1>1 DEF addFuture, IInv, TypeInv
<1>11. HeldInv'
  <2> SUFFICES ASSUME Running', NEW x \in Worker, NEW f \in futures'[x]
               PROVE  \E s \in Slots' : s.msg.id = f.id
    BY Zenon DEF HeldInv
  <2>1. Running
    BY <1>1, Zenon DEF Running, rpcAgentRunning
  <2>2. CASE f \in futures[x]
    BY <1>1, <2>1, <2>2, Zenon DEF IInv, HeldInv
  <2>3. CASE f.id = n.id
    BY <1>1, <1>9, <2>3, Zenon
  <2> QED
    BY <1>10, <2>2, <2>3, Zenon
<1>12. ServerInv'
  BY <1>1, Zenon DEF IInv, ServerInv
<1> QED
  BY <1>4, <1>5, <1>6, <1>8, <1>11, <1>12, Zenon DEF IInv

(* The step of a request: its handler may have made a call, and completes  *)
(* its future now or later.                                                *)
Again(m, now) == IF now THEN Reply(m) ELSE {Task(m.to, "deferred", m)}
NoCall == UNCHANGED <<nextId, futures, notified, clientActiveCalls>>
Answer(t, now, N) ==
  /\ tasks' = (((tasks \ {t}) \cup {Handled(t)}) \cup (IF now THEN Reply(t.msg) ELSE {}))
                \cup N
  /\ deferred' = IF now THEN deferred ELSE deferred \cup {t.msg}
  /\ serverActiveCalls' =
       [serverActiveCalls EXCEPT ![t.worker] = IF now THEN @ ELSE @ + 1]
  /\ Slots' = ((Slots \ {t}) \cup Again(t.msg, now)) \cup N
  /\ Counting' = Counting \cup {Handled(t)}
  /\ N \subseteq TaskType
  /\ \/ N = {} /\ NoCall
     \/ \E n : /\ Fresh(t.worker, n) /\ ~n.bad /\ addFuture(t.worker, n, Infinite)
               /\ N = {Enqueued(t.worker, n)}

(* handleRecv of a request is such a step.                                 *)
LEMMA handleRequestForm ==
  ASSUME TypeInv, SlotInv, NEW t \in tasks, handleRequest(t)
  PROVE  /\ t \in Slots /\ t.msg \in Message /\ t.worker \in Worker
         /\ t.worker = t.msg.to /\ t.kind = "recv"
         /\ t.msg.type = "request" /\ ~t.msg.bad /\ t.msg.id[1] = t.msg.from
         /\ t \in TaskType /\ Placed(t)
         /\ \E now \in BOOLEAN : \E N : Answer(t, now, N)
         /\ UNCHANGED <<pc, net, sendCounts, recvCounts, asleep, expired>>
<1> DEFINE w == t.worker
           m == t.msg
<1>1. t \in Slots /\ m \in Message /\ w \in Worker /\ t \in TaskType
  BY SlotTypes, Zenon DEF handleRequest, TypeInv, TaskType
<1>2. Placed(t) /\ t.kind = "recv" /\ m.type = "request"
  BY <1>1, Zenon DEF SlotInv, SlotsOK, handleRequest
<1>3. w = m.to /\ ~m.bad /\ m.id[1] = m.from
  BY <1>2, Zenon DEF Placed
<1>4. UNCHANGED <<pc, net, sendCounts, recvCounts, asleep, expired>>
  BY Zenon DEF handleRequest, appVars
<1> DEFINE rep(b) == IF b THEN Reply(m) ELSE {}
           rest == (tasks \ {t}) \cup {Handled(t)}
<1> DEFINE Given(now, N) ==
             /\ tasks' = (rest \cup rep(now)) \cup N
             /\ deferred' = IF now THEN deferred ELSE deferred \cup {m}
             /\ serverActiveCalls' = [serverActiveCalls EXCEPT ![w] = IF now THEN @ ELSE @ + 1]
             /\ \/ N = {} /\ NoCall
                \/ \E n : /\ Fresh(w, n) /\ ~n.bad /\ addFuture(w, n, Infinite)
                          /\ N = {Enqueued(w, n)}
<1>5. \E now \in BOOLEAN : \E N : Given(now, N)
  <2>1. PICK now \in BOOLEAN :
           /\ \/ /\ m.hops > 0 /\ rpcAgentRunning(w)
                 /\ \E to \in Worker \ {w} :
                      LET n == Request(w, nextId[w], to, m.hops - 1, FALSE)
                      IN  /\ addFuture(w, n, Infinite)
                          /\ tasks' = rest \cup {Enqueued(w, n)} \cup
                               (IF now /\ rpcAgentRunning(w)
                                THEN {Enqueued(w, Response(m))} ELSE {})
              \/ /\ tasks' = rest \cup (IF now /\ rpcAgentRunning(w)
                                         THEN {Enqueued(w, Response(m))} ELSE {})
                 /\ NoCall
           /\ deferred' = IF now THEN deferred ELSE deferred \cup {m}
           /\ serverActiveCalls' =
                [serverActiveCalls EXCEPT ![w] = IF now THEN @ ELSE @ + 1]
    BY Zenon DEF handleRequest, NoCall
  <2>2. (IF now /\ rpcAgentRunning(w) THEN {Enqueued(w, Response(m))} ELSE {}) = rep(now)
    BY <1>3, Zenon DEF Reply
  <2> HIDE DEF rep, rest
  <2>3. CASE /\ m.hops > 0
             /\ \E to \in Worker \ {w} :
                  LET n == Request(w, nextId[w], to, m.hops - 1, FALSE)
                  IN  /\ addFuture(w, n, Infinite)
                      /\ tasks' = rest \cup {Enqueued(w, n)} \cup
                               (IF now /\ rpcAgentRunning(w)
                                THEN {Enqueued(w, Response(m))} ELSE {})
    <3>1. PICK to \in Worker \ {w} :
                  LET n == Request(w, nextId[w], to, m.hops - 1, FALSE)
                  IN  /\ addFuture(w, n, Infinite)
                      /\ tasks' = rest \cup {Enqueued(w, n)} \cup
                               (IF now /\ rpcAgentRunning(w)
                                THEN {Enqueued(w, Response(m))} ELSE {})
      BY <2>3, Zenon
    <3> DEFINE n == Request(w, nextId[w], to, m.hops - 1, FALSE)
    <3>2. m.hops - 1 \in Int /\ nextId[w] \in Nat
      BY <1>1 DEF Message, TypeInv
    <3>3. Fresh(w, n) /\ ~n.bad
      <4>1. /\ n \in Message /\ n.type = "request" /\ n.id = <<w, nextId[w]>>
            /\ n.from = w /\ n.bad = FALSE
        BY <1>1, <3>2, Zenon DEF Request, Message
      <4> QED
        BY <4>1, Zenon DEF Fresh
    <3>4. addFuture(w, n, Infinite) /\ tasks' = (rest \cup rep(now)) \cup {Enqueued(w, n)}
      BY <2>2, <3>1, Zenon
    <3> HIDE DEF n
    <3> QED
      BY <2>1, <3>3, <3>4, Zenon
  <2>4. CASE /\ tasks' = rest \cup (IF now /\ rpcAgentRunning(w)
                                    THEN {Enqueued(w, Response(m))} ELSE {})
             /\ NoCall
    <3>1. tasks' = (rest \cup rep(now)) \cup {}
      BY <2>2, <2>4, Zenon
    <3> QED
      BY <2>1, <2>4, <3>1, Zenon
  <2> QED
    BY <2>1, <2>3, <2>4, Zenon
<1>a. PICK now \in BOOLEAN : \E N : Given(now, N)
  BY <1>5, Zenon
<1>6. PICK N : Given(now, N)
  BY <1>a, Zenon
<1>7. N \subseteq TaskType /\ \A u \in N : u.kind # "count"
  BY <1>1, <1>6, EnqueuedIs DEF Fresh
<1>8. \A r \in Reply(m) : r.kind # "count"
  BY <1>1, <1>2, <1>3, ReplyIs, Zenon
<1>9. Handled(t).kind = "count"
  BY <1>1, <1>2, HandledIs, Zenon
<1>10. \A n \in net \cup deferred : /\ Task(n.to, "net", n) # t
                                   /\ Task(n.to, "deferred", n) # t
  BY <1>2, TaskIs
<1>11. Counting' = Counting \cup {Handled(t)}
  BY <1>2, <1>6, <1>7, <1>8, <1>9, Zenon DEF Counting
<1>12. Slots' = ((Slots \ {t}) \cup Again(m, now)) \cup N
  <2>1. {u \in tasks' : u.kind # "count"}
          = ({u \in tasks : u.kind # "count"} \ {t}) \cup rep(now) \cup N
    BY <1>2, <1>6, <1>7, <1>8, <1>9, Zenon
  <2> HIDE DEF rep, rest, m, w
  <2>2. CASE now
    <3>1. deferred' = deferred /\ rep(now) = Again(m, now)
      BY <1>6, <2>2, Zenon DEF rep, Again
    <3> QED
      BY <1>4, <1>10, <2>1, <3>1, Zenon DEF Slots
  <2>3. CASE ~now
    <3>1. /\ deferred' = deferred \cup {m} /\ rep(now) = {}
          /\ Again(m, now) = {Task(m.to, "deferred", m)}
      BY <1>6, <2>3, Zenon DEF rep, Again
    <3> QED
      BY <1>4, <1>10, <2>1, <3>1 DEF Slots
  <2> QED
    BY <2>2, <2>3, Zenon
<1>13. Answer(t, now, N)
  BY <1>6, <1>7, <1>11, <1>12, Zenon DEF Answer
<1> QED
  BY <1>1, <1>2, <1>3, <1>4, <1>13, Zenon

(* The slot that takes the place of the slot of a request.                 *)
LEMMA AgainIs ==
  ASSUME NEW m \in Message, m.type = "request", ~m.bad, m.id[1] = m.from,
         NEW now \in BOOLEAN
  PROVE  /\ \A r \in Again(m, now) :
              /\ r.msg.id = m.id /\ Placed(r) /\ Callee(r.msg) = Callee(m)
              /\ r.kind = "deferred" \/ r.msg.type = "response"
              /\ r.kind \in {"deferred", "send", "self"} /\ r.msg \in Message
         /\ \A r, q \in Again(m, now) : r = q
         /\ rpcAgentRunning(m.to) => Again(m, now) # {}
<1>1. CASE now
  <2>1. Again(m, now) = Reply(m)
    BY <1>1, Zenon DEF Again
  <2>2. \A r \in Reply(m) : /\ r.msg.id = m.id /\ Placed(r) /\ r.msg.type = "response"
                            /\ Callee(r.msg) = Callee(m) /\ r.kind \in {"send", "self"}
                            /\ r.msg = Response(m)
    BY ReplyIs, Zenon
  <2>3. Response(m) \in Message
    BY ResponseTo, Zenon
  <2>4. /\ \A r, q \in Reply(m) : r = q
        /\ rpcAgentRunning(m.to) => Reply(m) # {}
    BY Zenon DEF Reply
  <2> QED
    BY <2>1, <2>2, <2>3, <2>4, Zenon
<1>2. CASE ~now
  <2>1. Again(m, now) = {Task(m.to, "deferred", m)}
    BY <1>2, Zenon DEF Again
  <2>2. Placed(Task(m.to, "deferred", m))
    BY TaskIs DEF Placed
  <2> QED
    BY <2>1, <2>2, TaskIs
<1> QED
  BY <1>1, <1>2, Zenon

(* handleRecv of a request keeps the invariant.                            *)
LEMMA handleRequestKept ==
  ASSUME IInv, NEW t \in tasks, handleRequest(t)
  PROVE  IInv'
<1> DEFINE w == t.worker
           m == t.msg
<1>1. /\ t \in Slots /\ m \in Message /\ w \in Worker /\ w = m.to /\ t.kind = "recv"
      /\ m.type = "request" /\ ~m.bad /\ m.id[1] = m.from
      /\ t \in TaskType /\ Placed(t)
      /\ UNCHANGED <<pc, net, sendCounts, recvCounts, asleep, expired>>
  BY handleRequestForm, Zenon DEF IInv
<1>a. PICK now \in BOOLEAN : \E N : Answer(t, now, N)
  BY handleRequestForm, Zenon DEF IInv
<1>2. PICK N : Answer(t, now, N)
  BY <1>a, Zenon
<1> DEFINE A == Again(m, now)
           S == (Slots \ {t}) \cup A
           C == Counting \cup {Handled(t)}
<1>3. /\ Handled(t) \in TaskType /\ Handled(t).msg = m /\ Placed(Handled(t))
  BY <1>1, HandledIs, Zenon
<1>4. /\ \A r \in A : /\ r.msg.id = m.id /\ Placed(r) /\ Callee(r.msg) = Callee(m)
                      /\ r.kind = "deferred" \/ r.msg.type = "response"
                      /\ r.msg \in Message
      /\ \A r, q \in A : r = q
      /\ rpcAgentRunning(w) => A # {}
  BY <1>1, AgainIs
<1> HIDE DEF A
<1>5. SlotsOK(S, C, nextId, AllCalls)
  BY <1>1, <1>3, <1>4, SlotReplaced, ZenonT(40) DEF IInv, SlotInv
<1>6. \A s \in S \cup C : s.msg.id \in Worker \X Nat
  BY <1>1, <1>3, <1>4, SlotTypes, Zenon DEF IInv, Message
<1>7. Slots' = S \cup N /\ Counting' = C
  BY <1>2, Zenon DEF Answer, A
<1>8. /\ nextId' \in [Worker -> Nat] /\ futures' \in [Worker -> SUBSET Future]
      /\ clientActiveCalls' \in [Worker -> Int]
      /\ \A x \in Worker : IsFiniteSet(futures'[x]) /\ IsFiniteSet(expired'[x])
      /\ SleepInv' /\ CallInv' /\ ClientInv' /\ SlotInv' /\ IsFiniteSet(N)
      /\ \A x \in Worker : \A f \in futures'[x] :
           f \in futures[x] \/ \E q \in N : q.msg.id = f.id
  <2>1. CASE N = {} /\ NoCall
    <3>1. UNCHANGED callVars
      BY <1>1, <2>1, Zenon DEF NoCall, callVars
    <3>2. SleepInv' /\ CallInv' /\ ClientInv' /\ AllCalls' = AllCalls
      BY <3>1, SameCalls, Zenon DEF IInv
    <3>3. SlotInv'
      BY <1>5, <1>7, <2>1, <3>1, <3>2, Zenon DEF SlotInv, callVars
    <3>4. IsFiniteSet(N)
      BY <2>1, FS_EmptySet, Zenon
    <3> QED
      BY <3>1, <3>2, <3>3, <3>4, Zenon DEF IInv, TypeInv, FiniteInv, callVars
  <2>2. CASE \E n : /\ Fresh(w, n) /\ ~n.bad /\ addFuture(w, n, Infinite)
                    /\ N = {Enqueued(w, n)}
    <3>1. PICK n : /\ Fresh(w, n) /\ ~n.bad /\ addFuture(w, n, Infinite)
                   /\ N = {Enqueued(w, n)}
      BY <2>2, Zenon
    <3>2. n \in Message /\ n.id = <<w, nextId[w]>> /\ Infinite \in Nat
      BY <3>1, TimeAssumption, Zenon DEF Fresh
    <3>3. UNCHANGED <<expired, asleep>>
      BY <1>1, Zenon
    <3>4. /\ nextId' = [nextId EXCEPT ![w] = @ + 1] /\ nextId' \in [Worker -> Nat]
          /\ futures' \in [Worker -> SUBSET Future]
          /\ clientActiveCalls' \in [Worker -> Int]
          /\ \A x \in Worker : IsFiniteSet(futures'[x]) /\ IsFiniteSet(expired'[x])
          /\ SleepInv' /\ CallInv' /\ ClientInv'
          /\ AllCalls' = AllCalls \cup {NewFuture(n, Infinite)}
          /\ \A g \in AllCalls : g.id # n.id
      BY <1>1, <3>1, <3>2, <3>3, AddFuture, Zenon DEF IInv
    <3>5. SlotsOK(S \cup {Enqueued(w, n)}, C, [nextId EXCEPT ![w] = @ + 1],
                  AllCalls \cup {NewFuture(n, Infinite)})
      <4> HIDE DEF S, C
      <4> QED
        BY <1>1, <1>5, <1>6, <3>1, <3>4, FreshSlot, Zenon DEF IInv
    <3>6. SlotInv'
      BY <1>7, <3>1, <3>4, <3>5, Zenon DEF SlotInv
    <3>7. Enqueued(w, n).msg = n
      BY <1>1, <3>1, EnqueuedIs DEF Fresh
    <3>8. \A x \in Worker : \A f \in futures'[x] : f \in futures[x] \/ f.id = n.id
      BY <3>1 DEF addFuture, IInv, TypeInv
    <3>9. IsFiniteSet(N)
      BY <3>1, FS_Singleton, Zenon
    <3> QED
      BY <3>1, <3>4, <3>6, <3>7, <3>8, <3>9, Zenon
  <2> QED
    BY <1>2, <2>1, <2>2, Zenon DEF Answer
<1>9. HeldInv'
  <2> SUFFICES ASSUME Running, NEW x \in Worker, NEW f \in futures'[x]
               PROVE  \E q \in S \cup N : q.msg.id = f.id
    BY <1>1, <1>7, Zenon DEF HeldInv, Running, rpcAgentRunning
  <2>1. CASE f \in futures[x]
    <3>1. PICK q \in Slots : q.msg.id = f.id
      BY <2>1, Zenon DEF IInv, HeldInv
    <3>2. PICK r \in A : TRUE
      BY <1>1, <1>4, Zenon DEF Running
    <3> QED
      BY <1>4, <3>1, <3>2, Zenon
  <2> QED
    BY <1>8, <2>1, Zenon
<1>10. ServerInv'
  <2> SUFFICES ASSUME NEW x \in Worker
               PROVE  serverActiveCalls'[x] = Cardinality(DeferredAt(deferred', x))
    BY Zenon DEF ServerInv
  <2>1. /\ deferred' = IF now THEN deferred ELSE deferred \cup {m}
        /\ serverActiveCalls' = [serverActiveCalls EXCEPT ![w] = IF now THEN @ ELSE @ + 1]
    BY <1>2, Zenon DEF Answer
  <2>2. m \notin deferred
    <3>1. ASSUME m \in deferred PROVE FALSE
      <4>1. Task(m.to, "deferred", m) \in Slots
        BY <3>1, SlotTypes, Zenon DEF IInv
      <4>2. Task(m.to, "deferred", m).msg = m /\ Task(m.to, "deferred", m).kind # "recv"
        BY TaskIs
      <4> HIDE DEF m
      <4> QED
        BY <1>1, <4>1, <4>2, Zenon DEF IInv, SlotInv, SlotsOK, OneSlot, m
    <3> QED
      BY <3>1, Zenon
  <2>3. CASE now \/ x # w
    <3>1. DeferredAt(deferred', x) = DeferredAt(deferred, x)
      BY <1>1, <2>1, <2>3, Zenon DEF DeferredAt
    <3> QED
      BY <1>1, <2>1, <2>3, <3>1, Zenon DEF IInv, TypeInv, ServerInv
  <2>4. CASE ~now /\ x = w
    <3>1. DeferredAt(deferred', w) = DeferredAt(deferred, w) \cup {m}
      BY <1>1, <2>1, <2>4, Zenon DEF DeferredAt
    <3>2. m \notin DeferredAt(deferred, w)
      BY <2>2, Zenon DEF DeferredAt
    <3>3. IsFiniteSet(DeferredAt(deferred, w))
      BY FS_Subset, Zenon DEF IInv, FiniteInv, DeferredAt
    <3>4. Cardinality(DeferredAt(deferred, w) \cup {m}) = Cardinality(DeferredAt(deferred, w)) + 1
      BY <3>2, <3>3, PlusOne, Zenon
    <3> QED
      BY <1>1, <2>1, <2>4, <3>1, <3>4, Zenon DEF IInv, TypeInv, ServerInv
  <2> QED
    BY <2>3, <2>4, Zenon
<1>11. \A r \in Reply(m) : r \in TaskType
  BY <1>1, ReplyIs, Zenon
<1>12. TypeInv'
  <2>1. tasks' \subseteq TaskType /\ deferred' \subseteq Message
    BY <1>1, <1>2, <1>3, <1>11, Zenon DEF Answer, IInv, TypeInv
  <2>2. serverActiveCalls' \in [Worker -> Int]
    <3>1. /\ serverActiveCalls \in [Worker -> Int]
          /\ serverActiveCalls' = [serverActiveCalls EXCEPT ![w] = IF now THEN @ ELSE @ + 1]
      BY <1>2, Zenon DEF Answer, IInv, TypeInv
    <3> QED
      BY <1>1, <3>1
  <2> QED
    BY <1>1, <1>8, <2>1, <2>2, Zenon DEF IInv, TypeInv
<1>13. FiniteInv'
  <2>1. IsFiniteSet(Reply(m)) /\ IsFiniteSet({})
    BY FS_EmptySet, FS_Singleton, Zenon DEF Reply
  <2>2. IsFiniteSet((tasks \ {t}) \cup {Handled(t)})
    BY FS_RemoveElement, FS_AddElement, Zenon DEF IInv, FiniteInv
  <2>3. IsFiniteSet(((tasks \ {t}) \cup {Handled(t)}) \cup (IF now THEN Reply(m) ELSE {}))
    BY <2>1, <2>2, FS_Union, Zenon
  <2>4. IsFiniteSet(tasks')
    BY <1>2, <1>8, <2>3, FS_Union, Zenon DEF Answer
  <2>5. IsFiniteSet(deferred')
    BY <1>2, FS_AddElement, Zenon DEF Answer, IInv, FiniteInv
  <2> QED
    BY <1>1, <1>8, <2>4, <2>5, Zenon DEF IInv, FiniteInv
<1> QED
  BY <1>8, <1>9, <1>10, <1>12, <1>13, Zenon DEF IInv

----------------------------------------------------------------------------
(* The watchdog, and the application thread.                               *)

(* Steps that touch neither calls nor messages.                            *)
workVars == <<nextId, futures, expired, tasks, net, deferred, sendCounts, recvCounts,
              clientActiveCalls, serverActiveCalls>>
(* Such steps keep all that is known about calls and slots.                *)
LEMMA QuietKept ==
  ASSUME IInv, UNCHANGED workVars, Running' => Running
  PROVE  /\ FiniteInv' /\ CallInv' /\ ClientInv' /\ SlotInv' /\ HeldInv' /\ ServerInv'
         /\ Slots' = Slots /\ Counting' = Counting
<1>1. Slots' = Slots /\ Counting' = Counting /\ AllCalls' = AllCalls
  BY Zenon DEF Slots, Counting, AllCalls, workVars
<1>2. FiniteInv' /\ CallInv' /\ ClientInv' /\ ServerInv'
  BY DEF IInv, FiniteInv, CallInv, ClientInv, ServerInv, workVars, Old
<1>3. SlotInv'
  BY <1>1, Zenon DEF IInv, SlotInv, workVars
<1>4. HeldInv'
  BY <1>1, Zenon DEF IInv, HeldInv, workVars
<1> QED
  BY <1>1, <1>2, <1>3, <1>4, Zenon

SleepStep(w) == sleepTillEnd(w) \/ wakeUp(w)
(* The watchdog looks for the earliest end and sleeps: the invariant is    *)
(* kept.                                                                   *)
LEMMA SleepKept ==
  ASSUME IInv, NEW w \in Worker, SleepStep(w)
  PROVE  IInv'
<1>1. UNCHANGED workVars /\ UNCHANGED pc
  BY Zenon DEF SleepStep, sleepTillEnd, wakeUp, workVars, appVars
<1>2. /\ FiniteInv' /\ CallInv' /\ ClientInv' /\ SlotInv' /\ HeldInv' /\ ServerInv'
  BY <1>1, QuietKept, Zenon DEF Running, rpcAgentRunning
<1>3. /\ MinEnd(w) \in Nat /\ MinEnd(w) <= Infinite
      /\ \A f \in futures[w] : MinEnd(w) <= f.end
  BY MinEndLeast, Zenon DEF IInv
<1>4. expired[w] = {}
  BY Zenon DEF SleepStep, sleepTillEnd, wakeUp, IInv, SleepInv
<1>5. /\ asleep[w] \in Nat /\ asleep[w] <= Infinite /\ Infinite \in Nat
      /\ \A f \in futures[w] : f.end \in Nat
  BY TimeAssumption DEF IInv, TypeInv, SleepInv, Future
<1>6. PICK e \in Nat : /\ asleep' = [asleep EXCEPT ![w] = e] /\ e <= Infinite
                       /\ \A f \in futures[w] : e <= f.end
  BY <1>3, <1>5 DEF SleepStep, sleepTillEnd, wakeUp
<1>7. notified' = notified \ {w}
  BY Zenon DEF SleepStep, sleepTillEnd, wakeUp
<1>8. TypeInv'
  BY <1>1, <1>6, Zenon DEF IInv, TypeInv, workVars
<1>9. SleepInv'
  BY <1>1, <1>4, <1>6, <1>7, Zenon DEF IInv, TypeInv, SleepInv, workVars
<1> QED
  BY <1>2, <1>8, <1>9, Zenon DEF IInv

(* processTimedOutFutures moves calls from futures_ to the expired ones,   *)
(* of which there were none.                                               *)
LEMMA processTimedOutForm ==
  ASSUME IInv, NEW w \in Worker, processTimedOutFutures(w)
  PROVE  \E now \in EndTimes \ {Infinite} :
           LET late == {f \in futures[w] : f.end <= now}
           IN  /\ expired[w] = {} /\ expired' = [expired EXCEPT ![w] = late]
               /\ futures' = [futures EXCEPT ![w] = @ \ late]
               /\ asleep' = [asleep EXCEPT ![w] = 0]
               /\ UNCHANGED <<pc, nextId, tasks, net, deferred, sendCounts, recvCounts,
                              notified, clientActiveCalls, serverActiveCalls>>
<1>1. expired[w] = {}
  BY Zenon DEF processTimedOutFutures, IInv, SleepInv
<1> QED
  BY <1>1, Zenon DEF processTimedOutFutures, appVars

(* processTimedOutFutures keeps the invariant.                             *)
LEMMA processTimedOutKept ==
  ASSUME IInv, NEW w \in Worker, processTimedOutFutures(w)
  PROVE  /\ IInv' /\ Slots' = Slots
         /\ \A x \in Worker : futures'[x] \cup expired'[x] = futures[x] \cup expired[x]
<1>1. PICK now \in EndTimes \ {Infinite} :
           LET late == {f \in futures[w] : f.end <= now}
           IN  /\ expired[w] = {} /\ expired' = [expired EXCEPT ![w] = late]
               /\ futures' = [futures EXCEPT ![w] = @ \ late]
               /\ asleep' = [asleep EXCEPT ![w] = 0]
               /\ UNCHANGED <<pc, nextId, tasks, net, deferred, sendCounts, recvCounts,
                              notified, clientActiveCalls, serverActiveCalls>>
  BY processTimedOutForm, Zenon
<1> DEFINE late == {f \in futures[w] : f.end <= now}
<1>2. late \subseteq futures[w]
  BY Zenon
<1>3. /\ expired[w] = {} /\ expired' = [expired EXCEPT ![w] = late]
      /\ futures' = [futures EXCEPT ![w] = @ \ late]
      /\ asleep' = [asleep EXCEPT ![w] = 0]
      /\ UNCHANGED <<pc, nextId, tasks, net, deferred, sendCounts, recvCounts,
                     notified, clientActiveCalls, serverActiveCalls>>
  BY <1>1, Zenon
<1> HIDE DEF late
<1>4. ASSUME NEW x \in Worker
      PROVE  /\ futures'[x] = IF x = w THEN futures[w] \ late ELSE futures[x]
             /\ expired'[x] = IF x = w THEN late ELSE expired[x]
  BY <1>3, Zenon DEF IInv, TypeInv
<1>5. \A x \in Worker : futures'[x] \cup expired'[x] = futures[x] \cup expired[x]
  BY <1>2, <1>3, <1>4
<1>6. Slots' = Slots /\ Counting' = Counting
  BY <1>3, Zenon DEF Slots, Counting
<1>7. AllCalls' = AllCalls
  BY <1>5, Zenon DEF AllCalls
<1>8. SlotInv'
  BY <1>3, <1>6, <1>7, Zenon DEF IInv, SlotInv
<1>9. CallInv'
  <2>1. \A x \in Worker : futures'[x] \cap expired'[x] = {}
    BY <1>4, Zenon DEF IInv, CallInv
  <2>2. nextId' = nextId
    BY <1>3, Zenon
  <2> QED
    BY <1>5, <2>1, <2>2, Zenon DEF IInv, CallInv, Old
<1>10. HeldInv'
  <2>1. \A x \in Worker : futures'[x] \subseteq futures[x]
    BY <1>4, Zenon
  <2>2. Running' => Running
    BY <1>3, Zenon DEF Running, rpcAgentRunning
  <2> QED
    BY <1>6, <2>1, <2>2, Zenon DEF IInv, HeldInv
<1>11. /\ IsFiniteSet(late) /\ IsFiniteSet(futures[w] \ late)
       /\ Cardinality(futures[w]) = Cardinality(futures[w] \ late) + Cardinality(late)
       /\ Cardinality(late) \in Nat /\ Cardinality(futures[w] \ late) \in Nat
  BY <1>2, Parted, Zenon DEF IInv, FiniteInv
<1>12. ClientInv'
  <2> SUFFICES ASSUME NEW x \in Worker
               PROVE  clientActiveCalls'[x] = Cardinality(futures'[x]) + Cardinality(expired'[x])
    BY Zenon DEF ClientInv
  <2>1. CASE x = w
    <3>1. clientActiveCalls[w] = Cardinality(futures[w]) + Cardinality({})
      BY <1>3, Zenon DEF IInv, ClientInv
    <3>2. Cardinality({}) = 0
      BY FS_EmptySet, Zenon
    <3>3. futures'[w] = futures[w] \ late /\ expired'[w] = late
      BY <1>4, Zenon
    <3>4. clientActiveCalls'[w] = clientActiveCalls[w]
      BY <1>3, Zenon
    <3> QED
      BY <1>11, <2>1, <3>1, <3>2, <3>3, <3>4
  <2> QED
    BY <1>3, <1>4, <2>1, Zenon DEF IInv, ClientInv
<1>13. ServerInv'
  BY <1>3, Zenon DEF IInv, ServerInv
<1>14. SleepInv'
  BY <1>3, <1>4, TimeAssumption DEF IInv, TypeInv, SleepInv
<1>15. TypeInv'
  BY <1>2, <1>3, Zenon DEF IInv, TypeInv
<1>16. FiniteInv'
  BY <1>3, <1>4, <1>11, Zenon DEF IInv, FiniteInv
<1> QED
  BY <1>5, <1>6, <1>8, <1>9, <1>10, <1>12, <1>13, <1>14, <1>15, <1>16, Zenon DEF IInv

(* pollTimedOutRPCs fails an expired call and keeps the invariant.         *)
LEMMA failExpiredKept ==
  ASSUME IInv, NEW w \in Worker, failExpired(w)
  PROVE  IInv' /\ Slots' = Slots
<1>1. PICK f \in expired[w] : /\ expired' = [expired EXCEPT ![w] = @ \ {f}]
                              /\ recvCounts' = [recvCounts EXCEPT ![w][f.dst] = @ + 1]
  BY Zenon DEF failExpired, increment
<1>2. /\ clientActiveCalls' = [clientActiveCalls EXCEPT ![w] = @ - 1]
      /\ UNCHANGED <<pc, nextId, futures, tasks, net, deferred, sendCounts, asleep,
                     notified, serverActiveCalls>>
  BY Zenon DEF failExpired, appVars
<1>3. \A x \in Worker : expired'[x] = IF x = w THEN expired[w] \ {f} ELSE expired[x]
  BY <1>1, Zenon DEF IInv, TypeInv
<1>4. Slots' = Slots /\ Counting' = Counting /\ AllCalls' \subseteq AllCalls
  BY <1>2, <1>3 DEF Slots, Counting, AllCalls
<1>5. SlotInv'
  <2>1. SlotsOK(Slots, Counting, nextId, AllCalls')
    BY <1>4, SlotsFewer, Zenon DEF IInv, SlotInv
  <2> QED
    BY <1>2, <1>4, <2>1, Zenon DEF SlotInv
<1>6. CallInv'
  BY <1>2, <1>3 DEF IInv, CallInv, Old
<1>7. HeldInv' /\ ServerInv'
  BY <1>2, <1>4, Zenon DEF IInv, HeldInv, ServerInv, Running, rpcAgentRunning
<1>8. SleepInv'
  BY <1>2, <1>3, Zenon DEF IInv, SleepInv
<1>9. f.dst \in Worker
  BY DEF IInv, TypeInv, Future
<1>10. TypeInv'
  BY <1>1, <1>2, <1>9 DEF IInv, TypeInv
<1>11. IsFiniteSet(expired[w] \ {f}) /\ Cardinality(expired[w] \ {f}) = Cardinality(expired[w]) - 1
  BY MinusOne, Zenon DEF IInv, FiniteInv
<1>12. FiniteInv'
  BY <1>2, <1>3, <1>11, Zenon DEF IInv, FiniteInv
<1>13. ClientInv'
  <2> SUFFICES ASSUME NEW x \in Worker
               PROVE  clientActiveCalls'[x] = Cardinality(futures'[x]) + Cardinality(expired'[x])
    BY Zenon DEF ClientInv
  <2>1. Cardinality(futures[x]) \in Nat /\ Cardinality(expired[x]) \in Nat
    BY FS_CardinalityType, Zenon DEF IInv, FiniteInv
  <2> QED
    BY <1>2, <1>3, <1>11, <2>1 DEF IInv, TypeInv, ClientInv
<1> QED
  BY <1>4, <1>5, <1>6, <1>7, <1>8, <1>10, <1>12, <1>13, Zenon DEF IInv

(* join() and shutdown() of one worker, or of all at once.                 *)
ThreadStep(w) == join(w) \/ JoinStep(w)
(* The application thread keeps the invariant.                             *)
LEMMA ThreadKept ==
  ASSUME IInv, \/ allgather \/ \E w \in Worker : ThreadStep(w)
  PROVE  IInv' /\ UNCHANGED workVars /\ (Running' => Running)
<1>1. UNCHANGED workVars /\ UNCHANGED <<asleep, notified>>
  BY Zenon DEF allgather, ThreadStep, join, JoinStep, barrier, waitWorkComplete, readRecvCounts,
         readSendCounts, waitForFutures, lastBarrier, shutdown, shutdownImpl, AppStep,
         watchVars, workVars
<1>2. pc' \in [Worker -> Place] /\ (Running' => Running)
  <2>1. CASE allgather
    BY <2>1, Zenon DEF allgather, IInv, TypeInv, Place, Running, rpcAgentRunning
  <2>2. ASSUME NEW w \in Worker, ThreadStep(w)
        PROVE  \E from, to \in Place : /\ pc[w] = from /\ pc' = [pc EXCEPT ![w] = to]
                                       /\ from \in {"stopping", "down"} => to = "down"
    BY <2>2, Zenon DEF ThreadStep, join, JoinStep, barrier, waitWorkComplete, readRecvCounts,
         readSendCounts, waitForFutures, lastBarrier, shutdown, shutdownImpl, AppStep, Place
  <2>3. ASSUME NEW w \in Worker, ThreadStep(w)
        PROVE  pc' \in [Worker -> Place] /\ (Running' => Running)
    BY <2>2, <2>3, ZenonT(40) DEF IInv, TypeInv, Running, rpcAgentRunning
  <2> QED
    BY <2>1, <2>3, Zenon
<1>3. FiniteInv' /\ CallInv' /\ ClientInv' /\ SlotInv' /\ HeldInv' /\ ServerInv'
  BY <1>1, <1>2, QuietKept, Zenon
<1>4. TypeInv' /\ SleepInv'
  BY <1>1, <1>2, Zenon DEF IInv, TypeInv, SleepInv, workVars
<1> QED
  BY <1>1, <1>2, <1>3, <1>4, Zenon DEF IInv

----------------------------------------------------------------------------
(* The theorems.                                                           *)

(* The invariant holds when the agents start.                              *)
LEMMA InitKept ==
  ASSUME Init
  PROVE  IInv
<1>1. TypeInv
  BY TimeAssumption DEF Init, TypeInv, Place, Zero
<1>2. Cardinality({}) = 0 /\ IsFiniteSet({})
  BY FS_EmptySet, Zenon
<1>3. FiniteInv /\ SleepInv /\ CallInv
  BY <1>2, TimeAssumption DEF Init, FiniteInv, SleepInv, CallInv
<1>4. Slots = {} /\ Counting = {} /\ AllCalls = {}
  BY Zenon DEF Init, Slots, Counting, AllCalls
<1>5. SlotInv /\ HeldInv
  BY <1>4, Zenon DEF SlotInv, SlotsOK, OneSlot, HeldInv, Init
<1>6. DeferredAt({}, 0) = {} /\ \A w \in Worker : DeferredAt({}, w) = {}
  BY Zenon DEF DeferredAt
<1>7. ServerInv /\ ClientInv
  BY <1>2, <1>6 DEF Init, ServerInv, ClientInv
<1> QED
  BY <1>1, <1>3, <1>5, <1>7, Zenon DEF IInv

(* The steps of Next, one by one.                                          *)
LEMMA NextSteps ==
  ASSUME Next
  PROVE  \/ \E w \in Worker : \/ Call(w) \/ listen(w) \/ SleepStep(w)
                              \/ processTimedOutFutures(w) \/ failExpired(w)
         \/ \E t \in tasks : \/ handleSend(t) \/ sendToSelf(t) \/ markFutureWithError(t)
                             \/ handleRequest(t) \/ handleResponse(t) \/ countRecv(t)
         \/ \E m \in deferred : completeDeferred(m)
         \/ allgather \/ \E w \in Worker : ThreadStep(w)
BY Zenon DEF Next, PoolStep, WatchdogStep, SleepStep, ThreadStep, Deferred

(* Every step keeps the invariant.                                         *)
LEMMA NextKept ==
  ASSUME IInv, [Next]_vars
  PROVE  IInv'
<1>1. CASE UNCHANGED vars
  <2>1. UNCHANGED workVars /\ UNCHANGED <<pc, asleep, notified>>
    BY <1>1, Zenon DEF vars, appVars, watchVars, workVars
  <2>2. FiniteInv' /\ CallInv' /\ ClientInv' /\ SlotInv' /\ HeldInv' /\ ServerInv'
    BY <2>1, QuietKept, Zenon DEF Running, rpcAgentRunning
  <2>3. TypeInv' /\ SleepInv'
    BY <2>1, Zenon DEF IInv, TypeInv, SleepInv, workVars
  <2> QED
    BY <2>2, <2>3, Zenon DEF IInv
<1>2. CASE Next
  BY <1>2, NextSteps, CallKept, listenKept, SleepKept, processTimedOutKept,
     failExpiredKept, handleSendKept, sendToSelfKept, markFutureWithErrorKept,
     handleRequestKept, handleResponseKept, countRecvKept, completeDeferredKept,
     ThreadKept, Zenon
<1> QED
  BY <1>1, <1>2, Zenon

(* The invariant holds throughout.                                         *)
LEMMA Invariance == Spec => []IInv
<1>1. Init => IInv
  BY InitKept, Zenon
<1>2. IInv /\ [Next]_vars => IInv'
  BY NextKept, Zenon
<1> QED
  BY <1>1, <1>2, PTL DEF Spec

(* The watchdog of futureTimeouts_ never oversleeps, for any calls and     *)
(* ends: send() notifies it of every end earlier than those it knows.      *)
THEOREM Vigilance == Spec => []NeverOversleeps
<1>1. ASSUME IInv PROVE NeverOversleeps
  <2> SUFFICES ASSUME NEW w \in Worker, asleep[w] # 0, w \notin notified
               PROVE  asleep[w] <= MinEnd(w)
    BY Zenon DEF NeverOversleeps
  <2>1. MinEnd(w) = Infinite \/ \E f \in futures[w] : MinEnd(w) = f.end
    BY <1>1, MinEndLeast, Zenon DEF IInv
  <2> QED
    BY <1>1, <2>1, Zenon DEF IInv, SleepInv
<1> QED
  BY <1>1, Invariance, PTL

(* clientActiveCalls_ and serverActiveCalls_ count every call once,        *)
(* whichever of response, error and time-out ends it.                      *)
THEOREM CallsCountedOnce == Spec => []ActiveCallsBalance
<1>1. ASSUME IInv PROVE ActiveCallsBalance
  BY <1>1, Zenon DEF IInv, ServerInv, ClientInv, DeferredAt, ActiveCallsBalance
<1> QED
  BY <1>1, Invariance, PTL

=============================================================================
