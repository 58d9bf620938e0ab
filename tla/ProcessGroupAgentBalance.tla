--------------------- MODULE ProcessGroupAgentBalance ----------------------
(***************************************************************************)
(* ProcessGroupAgent, for any workers, calls, hops and ends: the counts of *)
(* sent and received messages keep their balance.                          *)
(***************************************************************************)
EXTENDS ProcessGroupAgentProofs

----------------------------------------------------------------------------
(* The balance of the counts, for sets of slots and calls.                 *)
(*                                                                         *)
(* S: the slots, C: messages about to be counted, F and E: the calls of x  *)
(* that are open or expired.                                               *)
OpenIn(S) == {s.msg : s \in S}
MovingIn(S, C) == OpenIn({s \in S : s.kind \in {"net", "recv"}} \cup C)
BetweenIn(M, w, x) == {m \in M : m.from = w /\ m.to = x}
OwedIn(O, F, w, x) ==
  {m \in O : m.id[1] = x /\ Callee(m) = w /\ \A f \in F : f.id # m.id}
DroppedIn(O, E, w) == {f \in E : f.dst = w /\ \A m \in O : m.id # f.id}
Balanced(sent, received, S, C, F, E, w, x) ==
  sent + Cardinality(OwedIn(OpenIn(S), F \cup E, w, x))
    = received + Cardinality(BetweenIn(MovingIn(S, C), w, x))
        + Cardinality(DroppedIn(OpenIn(S), E, w))
BalanceInv ==
  Running => \A w, x \in Worker :
    Balanced(sendCounts[w][x], recvCounts[x][w], Slots, Counting, futures[x], expired[x],
             w, x)

(* These sets are the ones of CountsBalance.                               *)
LEMMA BalanceIs ==
  ASSUME TypeInv, BalanceInv
  PROVE  CountsBalance
<1>1. Open = OpenIn(Slots)
  BY TaskIs DEF Open, OpenIn, Slots
<1>2. MovingIn(Slots, Counting)
        = net \cup {t.msg : t \in {u \in tasks : u.kind \in {"recv", "count"}}}
  <2> DEFINE M == net \cup {t.msg : t \in {u \in tasks : u.kind \in {"recv", "count"}}}
             Q == {s \in Slots : s.kind \in {"net", "recv"}} \cup Counting
  <2>1. ASSUME NEW s \in Q PROVE s.msg \in M
    BY TaskIs DEF Slots, Counting, TypeInv, TaskType
  <2>2. ASSUME NEW m \in M PROVE \E s \in Q : s.msg = m
    <3>1. CASE m \in net
      BY <3>1, TaskIs DEF Slots
    <3>2. ASSUME NEW t \in tasks, t.kind \in {"recv", "count"}, m = t.msg
          PROVE  t \in Q
      BY <3>2, Zenon DEF Slots, Counting
    <3> QED
      BY <3>1, <3>2, Zenon
  <2> QED
    BY <2>1, <2>2, Zenon DEF MovingIn, OpenIn
<1>3. ASSUME NEW w \in Worker, NEW x \in Worker
      PROVE  /\ Owed(w, x) = OwedIn(OpenIn(Slots), futures[x] \cup expired[x], w, x)
             /\ Uncounted(w, x) = BetweenIn(MovingIn(Slots, Counting), w, x)
             /\ Dropped(w, x) = DroppedIn(OpenIn(Slots), expired[x], w)
  BY <1>1, <1>2, Zenon DEF Owed, OwedIn, Uncounted, BetweenIn, Dropped, DroppedIn
<1> QED
  BY <1>3, Zenon DEF CountsBalance, BalanceInv, Balanced, Running

(* The messages in finitely many slots.                                    *)
LEMMA OpenFinite ==
  ASSUME NEW S, IsFiniteSet(S)
  PROVE  IsFiniteSet(OpenIn(S))
<1> DEFINE f == [s \in S |-> s.msg]
           T == OpenIn(S)
<1>1. f \in Surjection(S, T)
  BY Zenon DEF OpenIn, Surjection
<1> HIDE DEF f, T
<1>2. IsFiniteSet(T)
  BY <1>1, FS_Surjection, Zenon
<1> QED
  BY <1>2, Zenon DEF T

(* There are finitely many slots.                                          *)
LEMMA SlotsFinite ==
  ASSUME TypeInv, FiniteInv
  PROVE  IsFiniteSet(Slots) /\ IsFiniteSet(Counting)
<1> DEFINE A == {u \in tasks : u.kind # "count"}
           B == {Task(m.to, "net", m) : m \in net}
           D == {Task(m.to, "deferred", m) : m \in deferred}
           b == [m \in net |-> Task(m.to, "net", m)]
           d == [m \in deferred |-> Task(m.to, "deferred", m)]
<1>1. b \in Surjection(net, B) /\ d \in Surjection(deferred, D)
  BY Zenon DEF Surjection
<1>2. IsFiniteSet(A) /\ IsFiniteSet(Counting)
  BY FS_Subset, Zenon DEF FiniteInv, Counting
<1>3. Slots = (A \cup B) \cup D
  BY Zenon DEF Slots
<1> HIDE DEF A, B, D, b, d
<1>4. IsFiniteSet(net) /\ IsFiniteSet(deferred)
  BY Zenon DEF FiniteInv
<1>5. IsFiniteSet(B) /\ IsFiniteSet(D)
  BY <1>1, <1>4, FS_Surjection, Zenon
<1>6. IsFiniteSet(A \cup B)
  BY <1>2, <1>5, FS_Union, Zenon
<1>7. IsFiniteSet((A \cup B) \cup D)
  BY <1>5, <1>6, FS_Union, Zenon
<1> QED
  BY <1>2, <1>3, <1>7, Zenon

(* What is counted is finite.                                              *)
LEMMA CountedFinite ==
  ASSUME TypeInv, FiniteInv, NEW w \in Worker, NEW x \in Worker, NEW F
  PROVE  /\ IsFiniteSet(OwedIn(OpenIn(Slots), F, w, x))
         /\ IsFiniteSet(BetweenIn(MovingIn(Slots, Counting), w, x))
         /\ IsFiniteSet(DroppedIn(OpenIn(Slots), expired[x], w))
         /\ Cardinality(OwedIn(OpenIn(Slots), F, w, x)) \in Nat
         /\ Cardinality(BetweenIn(MovingIn(Slots, Counting), w, x)) \in Nat
         /\ Cardinality(DroppedIn(OpenIn(Slots), expired[x], w)) \in Nat
<1> DEFINE M == {s \in Slots : s.kind \in {"net", "recv"}} \cup Counting
<1>1. IsFiniteSet(Slots) /\ IsFiniteSet(Counting) /\ IsFiniteSet(expired[x])
  BY SlotsFinite, Zenon DEF FiniteInv
<1>2. IsFiniteSet({s \in Slots : s.kind \in {"net", "recv"}})
  BY <1>1, FS_Subset, Zenon
<1>3. IsFiniteSet(M)
  BY <1>1, <1>2, FS_Union, Zenon
<1> HIDE DEF M
<1>4. IsFiniteSet(OpenIn(Slots)) /\ IsFiniteSet(OpenIn(M))
  BY <1>1, <1>3, OpenFinite, Zenon
<1>5. MovingIn(Slots, Counting) = OpenIn(M)
  BY Zenon DEF MovingIn, M
<1>6. /\ OwedIn(OpenIn(Slots), F, w, x) \subseteq OpenIn(Slots)
      /\ BetweenIn(MovingIn(Slots, Counting), w, x) \subseteq OpenIn(M)
      /\ DroppedIn(OpenIn(Slots), expired[x], w) \subseteq expired[x]
  BY <1>5, Zenon DEF OwedIn, BetweenIn, DroppedIn
<1>7. /\ IsFiniteSet(OwedIn(OpenIn(Slots), F, w, x))
      /\ IsFiniteSet(BetweenIn(MovingIn(Slots, Counting), w, x))
      /\ IsFiniteSet(DroppedIn(OpenIn(Slots), expired[x], w))
  BY <1>1, <1>4, <1>6, FS_Subset, Zenon
<1> QED
  BY <1>7, FS_CardinalityType, Zenon

(* A slot moves on with its message.                                       *)
LEMMA OpenMoved ==
  ASSUME NEW S, NEW s \in S, NEW r, r.msg = s.msg
  PROVE  OpenIn((S \ {s}) \cup {r}) = OpenIn(S)
BY Zenon DEF OpenIn

(* A slot gives way to one of the same call, is added, or goes.            *)
LEMMA OpenReplaced ==
  ASSUME NEW S, OneSlot(S), NEW s \in S, NEW r
  PROVE  OpenIn((S \ {s}) \cup {r}) = (OpenIn(S) \ {s.msg}) \cup {r.msg}
BY Zenon DEF OpenIn, OneSlot
(* A slot is added.                                                        *)
LEMMA OpenAdded ==
  ASSUME NEW S, NEW q
  PROVE  OpenIn(S \cup {q}) = OpenIn(S) \cup {q.msg}
BY Zenon DEF OpenIn
(* A slot goes.                                                            *)
LEMMA OpenGone ==
  ASSUME NEW S, OneSlot(S), NEW s \in S
  PROVE  OpenIn(S \ {s}) = OpenIn(S) \ {s.msg}
BY Zenon DEF OpenIn, OneSlot

(* A message starts to move: it did not before.                            *)
LEMMA MovingStarts ==
  ASSUME NEW S, NEW C, NEW next, NEW F, SlotsOK(S, C, next, F),
         NEW s \in S, s.kind \in {"send", "self"},
         NEW r, r.kind \in {"net", "recv"}, r.msg = s.msg
  PROVE  /\ MovingIn((S \ {s}) \cup {r}, C) = MovingIn(S, C) \cup {s.msg}
         /\ s.msg \notin MovingIn(S, C)
<1>1. \A q \in S : q.msg = s.msg => q = s
  BY Zenon DEF SlotsOK, OneSlot
<1>2. \A u \in C : u.msg # s.msg
  BY Zenon DEF SlotsOK
<1>3. s.msg \notin MovingIn(S, C)
  BY <1>1, <1>2, Zenon DEF MovingIn, OpenIn
<1>4. {q \in (S \ {s}) \cup {r} : q.kind \in {"net", "recv"}} \cup C
        = ({q \in S : q.kind \in {"net", "recv"}} \cup C) \cup {r}
  BY Zenon
<1> QED
  BY <1>3, <1>4, OpenAdded DEF MovingIn

(* A message moves on, from the network to the pool.                       *)
LEMMA MovingOn ==
  ASSUME NEW S, NEW C, NEW s \in S, s.kind = "net", NEW r, r.kind = "recv",
         r.msg = s.msg
  PROVE  MovingIn((S \ {s}) \cup {r}, C) = MovingIn(S, C)
<1>1. {q \in (S \ {s}) \cup {r} : q.kind \in {"net", "recv"}} \cup C
        = (({q \in S : q.kind \in {"net", "recv"}} \cup C) \ {s})
            \cup (IF s \in C THEN {s, r} ELSE {r})
  BY Zenon
<1> QED
  BY <1>1, Zenon DEF MovingIn, OpenIn

(* Slots that do not move come and go.                                     *)
Still(A) == \A q \in A : q.kind \notin {"net", "recv"}
(* What moves stays the same then.                                         *)
LEMMA MovingSame ==
  ASSUME NEW S, NEW C, NEW A, Still(A), NEW B, Still(B)
  PROVE  MovingIn((S \ A) \cup B, C) = MovingIn(S, C)
<1>1. {q \in (S \ A) \cup B : q.kind \in {"net", "recv"}}
        = {q \in S : q.kind \in {"net", "recv"}}
  BY Zenon DEF Still
<1> QED
  BY <1>1, Zenon DEF MovingIn

(* A message that has been handled is about to be counted.                 *)
LEMMA MovingHandled ==
  ASSUME NEW S, NEW C, NEW s \in S, s.kind = "recv", NEW h, h.msg = s.msg,
         NEW B, Still(B)
  PROVE  MovingIn((S \ {s}) \cup B, C \cup {h}) = MovingIn(S, C)
<1> DEFINE P == {q \in S : q.kind \in {"net", "recv"}}
<1>1. {q \in (S \ {s}) \cup B : q.kind \in {"net", "recv"}} = P \ {s}
  BY Zenon DEF Still
<1>2. s \in P
  BY Zenon
<1> HIDE DEF P
<1>3. OpenIn((P \ {s}) \cup (C \cup {h})) = OpenIn(P \cup C)
  BY <1>2, Zenon DEF OpenIn
<1> QED
  BY <1>1, <1>3, Zenon DEF MovingIn, P

(* A response that nobody waits for is dropped.                            *)
LEMMA MovingDropped ==
  ASSUME NEW S, NEW C, NEW next, NEW F, SlotsOK(S, C, next, F),
         NEW s \in S, s.kind = "recv", s.msg.type = "response"
  PROVE  /\ MovingIn(S \ {s}, C) = MovingIn(S, C) \ {s.msg}
         /\ s.msg \in MovingIn(S, C)
<1>1. \A q \in S : q.msg = s.msg => q = s
  BY Zenon DEF SlotsOK, OneSlot
<1>2. \A u \in C : u.msg # s.msg
  BY Zenon DEF SlotsOK
<1> QED
  BY <1>1, <1>2, Zenon DEF MovingIn, OpenIn

(* A message that has been handled is counted.                             *)
LEMMA MovingCounted ==
  ASSUME NEW S, NEW C, NEW next, NEW F, SlotsOK(S, C, next, F),
         NEW t \in C, \A u \in C : u.msg = t.msg => u = t
  PROVE  /\ MovingIn(S, C \ {t}) = MovingIn(S, C) \ {t.msg}
         /\ t.msg \in MovingIn(S, C)
<1>1. \A q \in S : q.kind \in {"net", "recv"} => q.msg # t.msg
  BY Zenon DEF SlotsOK
<1> QED
  BY <1>1, Zenon DEF MovingIn, OpenIn

(* What moves between two workers, with one message more or fewer.         *)
LEMMA BetweenMore ==
  ASSUME NEW M, NEW m, m \notin M, NEW w, NEW x, IsFiniteSet(BetweenIn(M, w, x))
  PROVE  Cardinality(BetweenIn(M \cup {m}, w, x))
           = IF m.from = w /\ m.to = x THEN Cardinality(BetweenIn(M, w, x)) + 1
             ELSE Cardinality(BetweenIn(M, w, x))
<1>1. CASE m.from = w /\ m.to = x
  <2>1. BetweenIn(M \cup {m}, w, x) = BetweenIn(M, w, x) \cup {m} /\ m \notin BetweenIn(M, w, x)
    BY <1>1, Zenon DEF BetweenIn
  <2> HIDE DEF BetweenIn
  <2>2. Cardinality(BetweenIn(M, w, x) \cup {m}) = Cardinality(BetweenIn(M, w, x)) + 1
    BY <2>1, PlusOne, Zenon
  <2> QED
    BY <1>1, <2>1, <2>2, Zenon
<1>2. CASE ~(m.from = w /\ m.to = x)
  <2>1. BetweenIn(M \cup {m}, w, x) = BetweenIn(M, w, x)
    BY <1>2, Zenon DEF BetweenIn
  <2> QED
    BY <1>2, <2>1, Zenon
<1> QED
  BY <1>1, <1>2, Zenon
(* And with one message fewer.                                             *)
LEMMA BetweenFewer ==
  ASSUME NEW M, NEW m \in M, NEW w, NEW x, IsFiniteSet(BetweenIn(M, w, x))
  PROVE  Cardinality(BetweenIn(M \ {m}, w, x))
           = IF m.from = w /\ m.to = x THEN Cardinality(BetweenIn(M, w, x)) - 1
             ELSE Cardinality(BetweenIn(M, w, x))
<1>1. CASE m.from = w /\ m.to = x
  <2>1. BetweenIn(M \ {m}, w, x) = BetweenIn(M, w, x) \ {m} /\ m \in BetweenIn(M, w, x)
    BY <1>1, Zenon DEF BetweenIn
  <2>2. Cardinality(BetweenIn(M, w, x) \ {m}) = Cardinality(BetweenIn(M, w, x)) - 1
    BY <2>1, MinusOne, Zenon
  <2> QED
    BY <1>1, <2>1, <2>2, Zenon
<1>2. CASE ~(m.from = w /\ m.to = x)
  <2>1. BetweenIn(M \ {m}, w, x) = BetweenIn(M, w, x)
    BY <1>2, Zenon DEF BetweenIn
  <2> QED
    BY <1>2, <2>1, Zenon
<1> QED
  BY <1>1, <1>2, Zenon

(* A request gives way to its response: the same is owed.                  *)
OneMessage(O) == \A m, n \in O : m.id = n.id => m = n
(* The number of responses owed, and the calls dropped, stay the same.     *)
LEMMA OwedReplaced ==
  ASSUME NEW O, OneMessage(O), NEW m \in O, NEW r, r.id = m.id, Callee(r) = Callee(m),
         NEW F, NEW E, NEW w, NEW x, IsFiniteSet(OwedIn(O, F, w, x))
  PROVE  /\ Cardinality(OwedIn((O \ {m}) \cup {r}, F, w, x)) = Cardinality(OwedIn(O, F, w, x))
         /\ DroppedIn((O \ {m}) \cup {r}, E, w) = DroppedIn(O, E, w)
<1> DEFINE O2 == (O \ {m}) \cup {r}
           A == OwedIn(O, F, w, x)
<1>1. DroppedIn(O2, E, w) = DroppedIn(O, E, w)
  BY Zenon DEF DroppedIn
<1>2. CASE m \in A
  <2>1. OwedIn(O2, F, w, x) = (A \ {m}) \cup {r} /\ r \notin A \ {m}
    BY <1>2, Zenon DEF OwedIn, OneMessage
  <2> HIDE DEF A, O2
  <2>2. IsFiniteSet(A) /\ IsFiniteSet(A \ {m}) /\ Cardinality(A \ {m}) = Cardinality(A) - 1
    BY <1>2, MinusOne, Zenon DEF A
  <2> DEFINE B == A \ {m}
  <2>3. r \notin B /\ IsFiniteSet(B)
    BY <2>1, <2>2, Zenon
  <2> HIDE DEF B
  <2>4. Cardinality(B \cup {r}) = Cardinality(B) + 1
    BY <2>3, PlusOne, Zenon
  <2>5. Cardinality(A) \in Nat
    BY <2>2, FS_CardinalityType, Zenon
  <2>6. OwedIn(O2, F, w, x) = B \cup {r} /\ Cardinality(B) = Cardinality(A) - 1
    BY <2>1, <2>2, Zenon DEF B
  <2>7. Cardinality(OwedIn(O2, F, w, x)) = Cardinality(A)
    BY <2>4, <2>5, <2>6
  <2> QED
    BY <1>1, <2>7, Zenon DEF A, O2
<1>3. CASE m \notin A
  <2>1. OwedIn(O2, F, w, x) = A
    BY <1>3, Zenon DEF OwedIn
  <2> QED
    BY <1>1, <2>1, Zenon
<1> QED
  BY <1>2, <1>3, Zenon

(* The calls of x, with one call more, and without the call of a message.  *)
Grown(F, f, x) == IF f.id[1] = x THEN F \cup {f} ELSE F
Shrunk(F, m, x) == IF m.id[1] = x THEN F \ {f \in F : f.id = m.id} ELSE F
(* The late response to an expired call: either the call has not failed    *)
(* yet and its response is dropped, or the response is no longer owed.     *)
Late(O, F, E, m, x) ==
  /\ OneMessage(O) /\ m \in O
  /\ \A f \in F : f.id # m.id
  /\ \A f \in E : f.id[1] = x /\ (f.id = m.id => f.dst = Callee(m))
  /\ \A f, g \in E : f.id = g.id => f = g
(* Either way the balance changes by the one message that is gone.         *)
LateChange(O, F, E, m, w, x) ==
  LET a == Cardinality(OwedIn(O, F \cup E, w, x))
      d == Cardinality(DroppedIn(O, E, w))
      a2 == Cardinality(OwedIn(O \ {m}, F \cup E, w, x))
      d2 == Cardinality(DroppedIn(O \ {m}, E, w))
  IN  /\ a2 \in Nat /\ d2 \in Nat
      /\ Callee(m) = w /\ m.id[1] = x => d2 - a2 = d - a + 1
      /\ ~(Callee(m) = w /\ m.id[1] = x) => d2 - a2 = d - a
(* The response of an expired call arrives late, and is dropped.           *)
LEMMA OwedLate ==
  ASSUME NEW O, NEW F, NEW E, NEW m, NEW w, NEW x, Late(O, F, E, m, x),
         IsFiniteSet(OwedIn(O, F \cup E, w, x)), IsFiniteSet(DroppedIn(O, E, w))
  PROVE  LateChange(O, F, E, m, w, x)
<1> USE DEF Late, LateChange
<1> DEFINE A == OwedIn(O, F \cup E, w, x)
           A2 == OwedIn(O \ {m}, F \cup E, w, x)
           D == DroppedIn(O, E, w)
           D2 == DroppedIn(O \ {m}, E, w)
<1>0. Cardinality(A) \in Nat /\ Cardinality(D) \in Nat
  BY FS_CardinalityType, Zenon
<1>1. CASE ~(Callee(m) = w /\ m.id[1] = x)
  <2>1. A2 = A
    BY <1>1, Zenon DEF OwedIn
  <2>2. D2 = D
    BY <1>1, Zenon DEF DroppedIn
  <2> HIDE DEF A, A2, D, D2
  <2>3. /\ Cardinality(A2) \in Nat /\ Cardinality(D2) \in Nat
        /\ Cardinality(D2) - Cardinality(A2) = Cardinality(D) - Cardinality(A)
    BY <1>0, <2>1, <2>2, Zenon
  <2> QED
    BY <1>1, <2>3, Zenon DEF A, A2, D, D2
<1>2. CASE Callee(m) = w /\ m.id[1] = x /\ \E f \in E : f.id = m.id
  <2>1. PICK f \in E : f.id = m.id
    BY <1>2, Zenon
  <2>2. A2 = A
    BY <1>2, Zenon DEF OwedIn
  <2>3. D2 = D \cup {f} /\ f \notin D
    BY <1>2, <2>1, ZenonT(40) DEF DroppedIn, OneMessage
  <2> HIDE DEF A, A2, D, D2
  <2>4. Cardinality(D \cup {f}) = Cardinality(D) + 1
    BY <2>3, PlusOne, Zenon DEF D
  <2>5. /\ Cardinality(A2) \in Nat /\ Cardinality(D2) \in Nat
        /\ Cardinality(D2) - Cardinality(A2) = Cardinality(D) - Cardinality(A) + 1
    BY <1>0, <2>2, <2>3, <2>4
  <2> QED
    BY <1>2, <2>5, Zenon DEF A, A2, D, D2
<1>3. CASE Callee(m) = w /\ m.id[1] = x /\ \A f \in E : f.id # m.id
  <2>1. A2 = A \ {m} /\ m \in A
    BY <1>3, Zenon DEF OwedIn
  <2>2. D2 = D
    BY <1>3, Zenon DEF DroppedIn
  <2> HIDE DEF A, A2, D, D2
  <2>3. Cardinality(A \ {m}) = Cardinality(A) - 1 /\ Cardinality(A \ {m}) \in Nat
    BY <2>1, MinusOne, FS_CardinalityType, Zenon DEF A
  <2>4. /\ Cardinality(A2) \in Nat /\ Cardinality(D2) \in Nat
        /\ Cardinality(D2) - Cardinality(A2) = Cardinality(D) - Cardinality(A) + 1
    BY <1>0, <2>1, <2>2, <2>3
  <2> QED
    BY <1>3, <2>4, Zenon DEF A, A2, D, D2
<1> QED
  BY <1>1, <1>2, <1>3, Zenon

(* An expired call fails: its response is owed, unless it was dropped.     *)
Failing(O, F, E, e, x) ==
  /\ OneMessage(O) /\ e \in E /\ e.id[1] = x
  /\ \A f \in F : f.id # e.id
  /\ \A m \in O : m.id = e.id => e.dst = Callee(m)
  /\ \A f, g \in E : f.id = g.id => f = g
(* Either way the balance changes by the one response that is counted.     *)
FailedChange(O, F, E, e, w, x) ==
  LET a == Cardinality(OwedIn(O, F \cup E, w, x))
      d == Cardinality(DroppedIn(O, E, w))
      a2 == Cardinality(OwedIn(O, F \cup (E \ {e}), w, x))
      d2 == Cardinality(DroppedIn(O, E \ {e}, w))
  IN  /\ e.dst = w => a2 - d2 = a - d + 1
      /\ e.dst # w => a2 - d2 = a - d
(* An expired call fails, with or without a message still open.            *)
LEMMA OwedFailed ==
  ASSUME NEW O, NEW F, NEW E, NEW e, NEW w, NEW x, Failing(O, F, E, e, x),
         IsFiniteSet(OwedIn(O, F \cup E, w, x)), IsFiniteSet(DroppedIn(O, E, w))
  PROVE  FailedChange(O, F, E, e, w, x)
<1> USE DEF Failing, FailedChange
<1> DEFINE A == OwedIn(O, F \cup E, w, x)
           A2 == OwedIn(O, F \cup (E \ {e}), w, x)
           D == DroppedIn(O, E, w)
           D2 == DroppedIn(O, E \ {e}, w)
<1>0. Cardinality(A) \in Nat /\ Cardinality(D) \in Nat
  BY FS_CardinalityType, Zenon
<1>1. CASE e.dst # w
  <2>1. A2 = A
    BY <1>1, Zenon DEF OwedIn
  <2>2. D2 = D
    BY <1>1, Zenon DEF DroppedIn
  <2> HIDE DEF A, A2, D, D2
  <2>3. Cardinality(A2) - Cardinality(D2) = Cardinality(A) - Cardinality(D)
    BY <1>0, <2>1, <2>2, Zenon
  <2> QED
    BY <1>1, <2>3, Zenon DEF A, A2, D, D2
<1>2. CASE e.dst = w /\ \E m \in O : m.id = e.id
  <2>1. PICK m \in O : m.id = e.id
    BY <1>2, Zenon
  <2>2. A2 = A \cup {m} /\ m \notin A
    <3>1. m \notin A
      BY <2>1, Zenon DEF OwedIn
    <3>2. m \in A2
      BY <1>2, <2>1, Zenon DEF OwedIn
    <3>3. ASSUME NEW n \in O, n # m PROVE n \in A2 <=> n \in A
      BY <2>1, <3>3, Zenon DEF OwedIn, OneMessage
    <3>4. A \subseteq O /\ A2 \subseteq O
      BY Zenon DEF OwedIn
    <3> HIDE DEF A, A2
    <3> QED
      BY <3>1, <3>2, <3>3, <3>4, Zenon
  <2>3. D2 = D
    BY <2>1, Zenon DEF DroppedIn
  <2> HIDE DEF A, A2, D, D2
  <2>4. Cardinality(A \cup {m}) = Cardinality(A) + 1
    BY <2>2, PlusOne, Zenon DEF A
  <2>5. Cardinality(A2) - Cardinality(D2) = Cardinality(A) - Cardinality(D) + 1
    BY <1>0, <2>2, <2>3, <2>4
  <2> QED
    BY <1>2, <2>5, Zenon DEF A, A2, D, D2
<1>3. CASE e.dst = w /\ \A m \in O : m.id # e.id
  <2>1. A2 = A
    BY <1>3, Zenon DEF OwedIn
  <2>2. D2 = D \ {e} /\ e \in D
    BY <1>3, Zenon DEF DroppedIn
  <2> HIDE DEF A, A2, D, D2
  <2>3. Cardinality(D \ {e}) = Cardinality(D) - 1
    BY <2>2, MinusOne, Zenon DEF D
  <2>4. Cardinality(A2) - Cardinality(D2) = Cardinality(A) - Cardinality(D) + 1
    BY <1>0, <2>1, <2>2, <2>3
  <2> QED
    BY <1>3, <2>4, Zenon DEF A, A2, D, D2
<1> QED
  BY <1>1, <1>2, <1>3, Zenon

----------------------------------------------------------------------------
(* The steps keep the balance.                                             *)

(* A call has one open message.                                            *)
LEMMA OneOpen ==
  ASSUME SlotInv
  PROVE  OneSlot(Slots) /\ OneMessage(OpenIn(Slots))
BY DEF SlotInv, SlotsOK, OneSlot, OneMessage, OpenIn

(* The balance of two workers, with all that is counted in Nat.            *)
LEMMA BalanceOf ==
  ASSUME IInv, BalanceInv, Running, NEW w \in Worker, NEW x \in Worker
  PROVE  LET M == MovingIn(Slots, Counting)
             A == OwedIn(OpenIn(Slots), futures[x] \cup expired[x], w, x)
             D == DroppedIn(OpenIn(Slots), expired[x], w)
         IN  /\ IsFiniteSet(BetweenIn(M, w, x)) /\ IsFiniteSet(A) /\ IsFiniteSet(D)
             /\ Cardinality(BetweenIn(M, w, x)) \in Nat
             /\ Cardinality(A) \in Nat /\ Cardinality(D) \in Nat
             /\ sendCounts[w][x] \in Nat /\ recvCounts[x][w] \in Nat
             /\ sendCounts[w][x] + Cardinality(A)
                  = recvCounts[x][w] + Cardinality(BetweenIn(M, w, x)) + Cardinality(D)
<1>1. sendCounts[w][x] \in Nat /\ recvCounts[x][w] \in Nat
  BY Zenon DEF IInv, TypeInv
<1>2. Balanced(sendCounts[w][x], recvCounts[x][w], Slots, Counting, futures[x], expired[x],
               w, x)
  BY Zenon DEF BalanceInv
<1> QED
  BY <1>1, <1>2, CountedFinite, Zenon DEF IInv, Balanced

(* A message is counted as sent and starts to move.                        *)
LEMMA SentBalance ==
  ASSUME IInv, BadInv, BalanceInv, NEW t \in Slots, t.kind \in {"send", "self"},
         ~t.msg.bad, t.msg.from \in Worker, t.msg.to \in Worker,
         NEW r, r.kind \in {"net", "recv"}, r.msg = t.msg,
         Slots' = (Slots \ {t}) \cup {r}, Counting' = Counting,
         sendCounts' = increment(sendCounts, t.msg.from, t.msg.to),
         UNCHANGED <<pc, futures, expired, recvCounts>>
  PROVE  BadInv' /\ BalanceInv'
<1> DEFINE S2 == (Slots \ {t}) \cup {r}
           M == MovingIn(Slots, Counting)
<1>1. OpenIn(S2) = OpenIn(Slots)
  BY OpenMoved, Zenon
<1>2. MovingIn(S2, Counting) = M \cup {t.msg} /\ t.msg \notin M
  BY MovingStarts DEF IInv, SlotInv
<1>3. BadInv'
  BY Zenon DEF BadInv
<1> HIDE DEF S2, M
<1>4. ASSUME Running, NEW w \in Worker, NEW x \in Worker
      PROVE  Balanced(sendCounts'[w][x], recvCounts[x][w], S2, Counting, futures[x],
                      expired[x], w, x)
  <2> DEFINE A == OwedIn(OpenIn(Slots), futures[x] \cup expired[x], w, x)
             D == DroppedIn(OpenIn(Slots), expired[x], w)
             b == Cardinality(BetweenIn(M, w, x))
  <2>1. /\ IsFiniteSet(BetweenIn(M, w, x)) /\ b \in Nat
        /\ Cardinality(A) \in Nat /\ Cardinality(D) \in Nat
        /\ sendCounts[w][x] \in Nat /\ recvCounts[x][w] \in Nat
        /\ sendCounts[w][x] + Cardinality(A) = recvCounts[x][w] + b + Cardinality(D)
    BY <1>4, BalanceOf, Zenon DEF M
  <2>2. Cardinality(BetweenIn(M \cup {t.msg}, w, x))
          = IF t.msg.from = w /\ t.msg.to = x THEN b + 1 ELSE b
    BY <1>2, <2>1, BetweenMore
  <2>3. sendCounts'[w][x] = IF t.msg.from = w /\ t.msg.to = x THEN sendCounts[w][x] + 1
                            ELSE sendCounts[w][x]
    BY Zenon DEF IInv, TypeInv, increment
  <2> HIDE DEF A, D, b
  <2>4. sendCounts'[w][x] + Cardinality(A)
          = recvCounts[x][w] + Cardinality(BetweenIn(M \cup {t.msg}, w, x)) + Cardinality(D)
    BY <2>1, <2>2, <2>3
  <2> QED
    BY <1>1, <1>2, <2>4, Zenon DEF Balanced, A, D
<1> QED
  BY <1>3, <1>4, Zenon DEF BalanceInv, S2, Running, rpcAgentRunning

(* handleSend counts what it sends.                                        *)
LEMMA handleSendBalance ==
  ASSUME IInv, BadInv, BalanceInv, NEW t \in tasks, handleSend(t)
  PROVE  BadInv' /\ BalanceInv'
<1> DEFINE r == Task(t.msg.to, "net", t.msg)
<1>1. /\ t \in Slots /\ t.worker \in Worker /\ t.worker = t.msg.from /\ t.msg.to \in Worker
      /\ t.msg.from \in Worker
      /\ Slots' = (Slots \ {t}) \cup {r} /\ Counting' = Counting
  BY handleSendSlots, Zenon DEF IInv
<1>2. r.msg = t.msg /\ r.kind \in {"net", "recv"}
  BY TaskIs
<1> HIDE DEF r
<1>3. /\ t.kind \in {"send", "self"} /\ ~t.msg.bad /\ UNCHANGED <<pc, futures, expired, recvCounts>>
      /\ sendCounts' = increment(sendCounts, t.msg.from, t.msg.to)
  BY <1>1, Zenon DEF handleSend, appVars, watchVars
<1> QED
  BY <1>1, <1>2, <1>3, SentBalance

(* sendToSelf counts what it sends.                                        *)
LEMMA sendToSelfBalance ==
  ASSUME IInv, BadInv, BalanceInv, NEW t \in tasks, sendToSelf(t)
  PROVE  BadInv' /\ BalanceInv'
<1>1. t.worker \in Worker /\ t.worker = t.msg.from /\ t.worker = t.msg.to
  BY sendToSelfSlots, Zenon DEF IInv
<1>2. PICK r : /\ r.msg = t.msg /\ r.kind \in {"net", "recv"}
               /\ Slots' = (Slots \ {t}) \cup {r}
  BY sendToSelfSlots, Zenon DEF IInv
<1>3. t \in Slots /\ t.msg.from \in Worker /\ t.msg.to \in Worker /\ Counting' = Counting
  BY <1>1, sendToSelfSlots, Zenon DEF IInv
<1>4. /\ t.kind \in {"send", "self"} /\ ~t.msg.bad
      /\ UNCHANGED <<pc, futures, expired, recvCounts>>
      /\ sendCounts' = increment(sendCounts, t.msg.from, t.msg.to)
  BY <1>1, Zenon DEF sendToSelf, appVars, watchVars
<1> QED
  BY <1>2, <1>3, <1>4, SentBalance

(* A message that is received and not handled is still under way.          *)
LEMMA listenBalance ==
  ASSUME IInv, BadInv, BalanceInv, NEW w \in Worker, listen(w)
  PROVE  BadInv' /\ BalanceInv'
<1>1. PICK m \in net :
           LET s == Task(m.to, "net", m)
               r == Task(w, "recv", m)
           IN  /\ m.to = w /\ net' = net \ {m} /\ tasks' = tasks \cup {r}
               /\ s \in Slots /\ r \in TaskType /\ Placed(r)
               /\ Slots' = (Slots \ {s}) \cup {r} /\ Counting' = Counting
  BY listenSlots, Zenon DEF IInv
<1> DEFINE s == Task(m.to, "net", m)
           r == Task(w, "recv", m)
<1>2. s \in Slots /\ Slots' = (Slots \ {s}) \cup {r} /\ Counting' = Counting /\ Placed(r)
  BY <1>1, Zenon
<1>3. r.msg = s.msg /\ s.kind = "net" /\ r.kind = "recv"
  BY TaskIs
<1> HIDE DEF s, r
<1>4. OpenIn(Slots') = OpenIn(Slots)
  BY <1>2, <1>3, OpenMoved, Zenon
<1>5. MovingIn(Slots', Counting) = MovingIn(Slots, Counting)
  BY <1>2, <1>3, MovingOn, Zenon
<1>6. UNCHANGED <<pc, futures, expired, sendCounts, recvCounts>>
  BY Zenon DEF listen, appVars, watchVars
<1>7. BadInv'
  BY <1>2, <1>3, <1>6, Zenon DEF BadInv, Placed
<1>8. BalanceInv'
  BY <1>2, <1>4, <1>5, <1>6, Zenon DEF BalanceInv, Balanced, Running, rpcAgentRunning
<1> QED
  BY <1>7, <1>8, Zenon

(* A message that has been handled is counted once.                        *)
LEMMA countRecvBalance ==
  ASSUME IInv, BadInv, BalanceInv, NEW t \in tasks, countRecv(t)
  PROVE  BadInv' /\ BalanceInv'
<1> DEFINE M == MovingIn(Slots, Counting)
<1>1. Slots' = Slots /\ t.worker \in Worker /\ t.worker = t.msg.to /\ t.msg.from \in Worker
  BY countRecvKept, SlotTypes, Zenon DEF countRecv, IInv
<1>2. t \in Counting /\ Counting' = Counting \ {t}
  BY Zenon DEF countRecv, Counting
<1>3. /\ recvCounts' = [recvCounts EXCEPT ![t.msg.to][t.msg.from] = @ + 1]
      /\ UNCHANGED <<pc, futures, expired, sendCounts>>
  BY <1>1, Zenon DEF countRecv, appVars, watchVars, increment
<1>4. BadInv'
  BY <1>1, <1>3, Zenon DEF BadInv
<1>5. ASSUME NEW u \in Counting, u.msg = t.msg PROVE u = t
  <2>1. Placed(u) /\ Placed(t) /\ u.kind = "count" /\ t.kind = "count"
    BY <1>2, Zenon DEF IInv, SlotInv, SlotsOK, Counting
  <2>2. u \in TaskType /\ t \in TaskType
    BY Zenon DEF Counting, IInv, TypeInv
  <2>3. u.worker = t.worker
    BY <1>5, <2>1, Zenon DEF Placed
  <2> QED
    BY <1>5, <2>1, <2>2, <2>3 DEF TaskType
<1>6. MovingIn(Slots, Counting \ {t}) = M \ {t.msg} /\ t.msg \in M
  BY <1>2, <1>5, MovingCounted, Zenon DEF IInv, SlotInv
<1> HIDE DEF M
<1>7. ASSUME Running, NEW w \in Worker, NEW x \in Worker
      PROVE  Balanced(sendCounts[w][x], recvCounts'[x][w], Slots, Counting \ {t}, futures[x],
                      expired[x], w, x)
  <2> DEFINE A == OwedIn(OpenIn(Slots), futures[x] \cup expired[x], w, x)
             D == DroppedIn(OpenIn(Slots), expired[x], w)
             b == Cardinality(BetweenIn(M, w, x))
  <2>1. /\ IsFiniteSet(BetweenIn(M, w, x)) /\ b \in Nat
        /\ Cardinality(A) \in Nat /\ Cardinality(D) \in Nat
        /\ sendCounts[w][x] \in Nat /\ recvCounts[x][w] \in Nat
        /\ sendCounts[w][x] + Cardinality(A) = recvCounts[x][w] + b + Cardinality(D)
    BY <1>7, BalanceOf, Zenon DEF M
  <2>2. Cardinality(BetweenIn(M \ {t.msg}, w, x))
          = IF t.msg.from = w /\ t.msg.to = x THEN b - 1 ELSE b
    BY <1>6, <2>1, BetweenFewer
  <2>3. recvCounts'[x][w] = IF t.msg.from = w /\ t.msg.to = x THEN recvCounts[x][w] + 1
                            ELSE recvCounts[x][w]
    BY <1>1, <1>3, Zenon DEF IInv, TypeInv
  <2> HIDE DEF A, D, b
  <2>4. sendCounts[w][x] + Cardinality(A)
          = recvCounts'[x][w] + Cardinality(BetweenIn(M \ {t.msg}, w, x)) + Cardinality(D)
    BY <2>1, <2>2, <2>3
  <2> QED
    BY <1>6, <2>4, Zenon DEF Balanced, A, D
<1>8. BalanceInv'
  BY <1>1, <1>2, <1>3, <1>7, Zenon DEF BalanceInv, Running, rpcAgentRunning
<1> QED
  BY <1>4, <1>8, Zenon

(* A request gives way to its response, or to itself, left for later.      *)
LEMMA RepliedBalance ==
  ASSUME IInv, BalanceInv, Running, NEW s \in Slots, NEW r, r.msg.id = s.msg.id,
         Callee(r.msg) = Callee(s.msg), NEW C,
         MovingIn((Slots \ {s}) \cup {r}, C) = MovingIn(Slots, Counting),
         NEW w \in Worker, NEW x \in Worker
  PROVE  Balanced(sendCounts[w][x], recvCounts[x][w], (Slots \ {s}) \cup {r}, C, futures[x],
                  expired[x], w, x)
<1> DEFINE O == OpenIn(Slots)
           O2 == (O \ {s.msg}) \cup {r.msg}
           F == futures[x] \cup expired[x]
<1>1. OpenIn((Slots \ {s}) \cup {r}) = O2
  BY OneOpen, OpenReplaced DEF IInv
<1>2. OneMessage(O) /\ s.msg \in O
  BY OneOpen, Zenon DEF IInv, OpenIn
<1> HIDE DEF O, F
<1>3. IsFiniteSet(OwedIn(O, F, w, x))
  BY CountedFinite, Zenon DEF IInv, O
<1>4. /\ Cardinality(OwedIn(O2, F, w, x)) = Cardinality(OwedIn(O, F, w, x))
      /\ DroppedIn(O2, expired[x], w) = DroppedIn(O, expired[x], w)
  BY <1>2, <1>3, OwedReplaced
<1>5. Balanced(sendCounts[w][x], recvCounts[x][w], Slots, Counting, futures[x], expired[x],
               w, x)
  BY Zenon DEF BalanceInv
<1> HIDE DEF O2
<1> QED
  BY <1>1, <1>4, <1>5, Zenon DEF Balanced, O, F

(* A call is made: q its request, f its future.                            *)
Started(S, E, q, f) ==
  /\ q.kind \in {"send", "self"} /\ f.id = q.msg.id
  /\ \A s \in S : s.msg.id # q.msg.id
  /\ \A g \in E : g.id # q.msg.id

LEMMA FreshBalance ==
  ASSUME NEW sent, NEW received, NEW S, NEW C, NEW F, NEW E, NEW w, NEW x, NEW q, NEW f,
         Started(S, E, q, f), Balanced(sent, received, S, C, F, E, w, x)
  PROVE  Balanced(sent, received, S \cup {q}, C, Grown(F, f, x), E, w, x)
<1>0. /\ q.kind \in {"send", "self"} /\ f.id = q.msg.id
      /\ \A s \in S : s.msg.id # q.msg.id
      /\ \A g \in E : g.id # q.msg.id
  BY Zenon DEF Started
<1> DEFINE O == OpenIn(S)
           m == q.msg
<1>1. OpenIn(S \cup {q}) = O \cup {m}
  BY OpenAdded, Zenon
<1>2. \A n \in O : n.id # m.id
  BY <1>0, Zenon DEF OpenIn
<1>3. MovingIn(S \cup {q}, C) = MovingIn(S, C)
  <2>1. Still({q}) /\ Still({}) /\ S \cup {q} = (S \ {}) \cup {q}
    BY <1>0, Zenon DEF Still
  <2> QED
    BY <2>1, MovingSame
<1>4. /\ f.id = m.id /\ \A g \in E : g.id # m.id
  BY <1>0, Zenon
<1> HIDE DEF O, m
<1>5. /\ OwedIn(O \cup {m}, Grown(F, f, x) \cup E, w, x) = OwedIn(O, F \cup E, w, x)
      /\ DroppedIn(O \cup {m}, E, w) = DroppedIn(O, E, w)
  BY <1>2, <1>4, Zenon DEF OwedIn, DroppedIn, Grown
<1> QED
  BY <1>1, <1>3, <1>5, Zenon DEF Balanced, O

(* A new call: its slot, its future, and an id that nothing else has.      *)
FreshCall(w, n, end) ==
  /\ Enqueued(w, n).kind \in {"send", "self"} /\ Enqueued(w, n).msg = n
  /\ Enqueued(w, n).worker = w /\ n.id[1] = w
  /\ NewFuture(n, end).id = n.id /\ NewFuture(n, end).end = end
  /\ \A s \in Slots : s.msg.id # n.id
  /\ \A x \in Worker : \A g \in expired[x] : g.id # n.id
  /\ \A x \in Worker : futures'[x] = Grown(futures[x], NewFuture(n, end), x)
(* That is what a call by the application or by a handler makes.           *)
LEMMA FreshIs ==
  ASSUME IInv, NEW w \in Worker, NEW n, Fresh(w, n), NEW end \in Nat,
         addFuture(w, n, end), UNCHANGED <<expired, asleep>>
  PROVE  FreshCall(w, n, end)
<1>1. n \in Message /\ n.id = <<w, nextId[w]>> /\ nextId[w] \in Nat /\ n.id[1] = w
  BY DEF Fresh, IInv, TypeInv
<1>2. /\ Enqueued(w, n).kind \in {"send", "self"} /\ Enqueued(w, n).msg = n
      /\ Enqueued(w, n).worker = w
  BY EnqueuedIs DEF Fresh
<1>3. NewFuture(n, end).id = n.id /\ NewFuture(n, end).end = end
  BY Zenon DEF NewFuture
<1>4. ASSUME NEW s \in Slots PROVE s.msg.id # n.id
  <2>1. s.msg.id \in Worker \X Nat /\ s.msg.id[2] < nextId[s.msg.id[1]]
    BY SlotTypes, Zenon DEF IInv, SlotInv, SlotsOK
  <2> QED
    BY <1>1, <2>1
<1>5. ASSUME NEW x \in Worker, NEW g \in expired[x] PROVE g.id # n.id
  <2>1. g.id \in Worker \X Nat /\ g.id[2] < nextId[g.id[1]]
    BY DEF IInv, CallInv, Old, TypeInv, Future
  <2> QED
    BY <1>1, <2>1
<1>6. ASSUME NEW x \in Worker
      PROVE  futures'[x] = Grown(futures[x], NewFuture(n, end), x)
  BY <1>1, Zenon DEF Grown, addFuture, NewFuture, IInv, TypeInv
<1> QED
  BY <1>1, <1>2, <1>3, <1>4, <1>5, <1>6, Zenon DEF FreshCall

(* A call of the application keeps the balance.                            *)
LEMMA CallBalance ==
  ASSUME BadEnds \subseteq {Infinite}, IInv, BadInv, BalanceInv, NEW w \in Worker, Call(w)
  PROVE  BadInv' /\ BalanceInv'
<1>1. PICK n, end :
        /\ Fresh(w, n) /\ end \in EndTimes /\ addFuture(w, n, end)
        /\ n.bad => end \in BadEnds
        /\ Slots' = Slots \cup {Enqueued(w, n)} /\ Counting' = Counting
        /\ UNCHANGED <<pc, sendCounts, recvCounts, asleep, expired>>
  BY CallForm, Zenon DEF IInv
<1> DEFINE q == Enqueued(w, n)
           f == NewFuture(n, end)
<1>2. /\ q.kind \in {"send", "self"} /\ q.msg = n /\ q.worker = w /\ n.id[1] = w
      /\ f.id = n.id /\ f.end = end
      /\ \A s \in Slots : s.msg.id # n.id
      /\ \A x \in Worker : \A g \in expired[x] : g.id # n.id
      /\ \A x \in Worker : futures'[x] = Grown(futures[x], f, x)
  <2>1. end \in Nat /\ UNCHANGED <<expired, asleep>>
    BY <1>1, TimeAssumption, Zenon
  <2>2. FreshCall(w, n, end)
    BY <1>1, <2>1, FreshIs, Zenon
  <2> QED
    BY <2>2, Zenon DEF FreshCall
<1> HIDE DEF q, f
<1>3. Slots' = Slots \cup {q}
  BY <1>1, Zenon DEF q
<1>4. BadInv'
  <2> SUFFICES ASSUME NEW s \in Slots \cup {q}, s.msg.bad
               PROVE  \E g \in futures'[s.worker] : g.id = s.msg.id /\ g.end = Infinite
    BY <1>3, Zenon DEF BadInv
  <2>1. CASE s = q
    <3>0. f \in futures'[w]
      BY <1>2, Zenon DEF Grown
    <3>1. f \in futures'[s.worker] /\ f.id = s.msg.id /\ n.bad
      BY <1>2, <2>1, <3>0, Zenon
    <3>2. f.end = Infinite
      BY <1>1, <1>2, <3>1, Zenon
    <3> QED
      BY <3>1, <3>2, Zenon
  <2>2. CASE s \in Slots
    <3>1. s.worker \in Worker
      BY <2>2, SlotTypes, Zenon DEF IInv, SlotInv, SlotsOK, Placed
    <3>2. futures[s.worker] \subseteq futures'[s.worker]
      BY <1>2, <3>1, Zenon DEF Grown
    <3> QED
      BY <2>2, <3>2, Zenon DEF BadInv
  <2> QED
    BY <2>1, <2>2, Zenon
<1>5. ASSUME Running, NEW v \in Worker, NEW x \in Worker
      PROVE  Balanced(sendCounts[v][x], recvCounts[x][v], Slots \cup {q}, Counting,
                      futures'[x], expired[x], v, x)
  <2>1. Balanced(sendCounts[v][x], recvCounts[x][v], Slots, Counting, futures[x],
                 expired[x], v, x)
    BY <1>5, Zenon DEF BalanceInv
  <2>2. Started(Slots, expired[x], q, f)
    BY <1>2, Zenon DEF Started
  <2>3. Balanced(sendCounts[v][x], recvCounts[x][v], Slots \cup {q}, Counting,
                 Grown(futures[x], f, x), expired[x], v, x)
    BY <2>1, <2>2, FreshBalance, Zenon
  <2> QED
    BY <1>2, <2>3, Zenon
<1>6. BalanceInv'
  BY <1>1, <1>3, <1>5, Zenon DEF BalanceInv, Running, rpcAgentRunning
<1> QED
  BY <1>4, <1>6, Zenon

(* The callback of a deferred request keeps the balance.                   *)
LEMMA completeDeferredBalance ==
  ASSUME IInv, BadInv, BalanceInv, NEW m \in deferred, completeDeferred(m)
  PROVE  BadInv' /\ BalanceInv'
<1> DEFINE s == Task(m.to, "deferred", m)
<1>1. /\ s \in Slots /\ s.msg = m /\ m \in Message /\ m.to \in Worker
      /\ m.type = "request" /\ ~m.bad /\ m.id[1] = m.from
      /\ Slots' = (Slots \ {s}) \cup Reply(m) /\ Counting' = Counting
  BY completeDeferredSlots, Zenon DEF IInv
<1>2. s.kind = "deferred"
  BY TaskIs
<1> HIDE DEF s
<1>3. \A r \in Reply(m) : /\ r.msg.id = s.msg.id /\ Callee(r.msg) = Callee(s.msg)
                          /\ r.kind \in {"send", "self"} /\ ~r.msg.bad
  BY <1>1, ReplyIs, ResponseTo
<1>4. UNCHANGED <<pc, futures, expired, sendCounts, recvCounts>>
  BY Zenon DEF completeDeferred, appVars, watchVars
<1>5. BadInv'
  BY <1>1, <1>3, <1>4, Zenon DEF BadInv
<1>6. ASSUME Running, NEW w \in Worker, NEW x \in Worker
      PROVE  Balanced(sendCounts[w][x], recvCounts[x][w], Slots', Counting, futures[x],
                      expired[x], w, x)
  <2>1. PICK r : Reply(m) = {r}
    BY <1>1, <1>6, Zenon DEF Reply, Running
  <2>2. /\ Slots' = (Slots \ {s}) \cup {r} /\ r.msg.id = s.msg.id
        /\ Callee(r.msg) = Callee(s.msg)
    BY <1>1, <1>3, <2>1, Zenon
  <2>3. Still({s}) /\ Still({r})
    BY <1>2, <1>3, <2>1, Zenon DEF Still
  <2>4. MovingIn((Slots \ {s}) \cup {r}, Counting) = MovingIn(Slots, Counting)
    BY <2>3, MovingSame
  <2>5. Balanced(sendCounts[w][x], recvCounts[x][w], (Slots \ {s}) \cup {r}, Counting,
                 futures[x], expired[x], w, x)
    BY <1>1, <1>6, <2>2, <2>4, RepliedBalance, Zenon
  <2> QED
    BY <2>2, <2>5, Zenon
<1>7. BalanceInv'
  BY <1>1, <1>4, <1>6, Zenon DEF BalanceInv, Running, rpcAgentRunning
<1> QED
  BY <1>5, <1>7

(* handleRecv of a request keeps the balance, nested calls included.       *)
LEMMA handleRequestBalance ==
  ASSUME IInv, BadInv, BalanceInv, NEW t \in tasks, handleRequest(t)
  PROVE  BadInv' /\ BalanceInv'
<1> DEFINE m == t.msg
<1>1. /\ t \in Slots /\ m \in Message /\ t.worker \in Worker /\ t.worker = m.to
      /\ t.kind = "recv" /\ m.type = "request" /\ ~m.bad /\ m.id[1] = m.from
      /\ t \in TaskType /\ Placed(t)
      /\ UNCHANGED <<pc, net, sendCounts, recvCounts, asleep, expired>>
  BY handleRequestForm, Zenon DEF IInv
<1>a. PICK now \in BOOLEAN : \E N : Answer(t, now, N)
  BY handleRequestForm, Zenon DEF IInv
<1>2. PICK N : Answer(t, now, N)
  BY <1>a, Zenon
<1> DEFINE A == Again(m, now)
           S == (Slots \ {t}) \cup A
           C == Counting \cup {Handled(t)}
<1>3. /\ \A r \in A : /\ r.msg.id = m.id /\ Placed(r) /\ Callee(r.msg) = Callee(m)
                      /\ r.kind = "deferred" \/ r.msg.type = "response"
                      /\ r.kind \in {"deferred", "send", "self"}
      /\ \A r, q \in A : r = q
      /\ rpcAgentRunning(m.to) => A # {}
  BY <1>1, AgainIs
<1>4. Handled(t).msg = t.msg
  BY <1>1, HandledIs, Zenon
<1>5. Slots' = S \cup N /\ Counting' = C
  BY <1>2, Zenon DEF Answer
<1> HIDE DEF A
<1>6. \A r \in A : ~r.msg.bad
  BY <1>3, Zenon DEF Placed
<1>7. ASSUME Running
      PROVE  /\ \A w, x \in Worker : Balanced(sendCounts[w][x], recvCounts[x][w], S, C,
                                              futures[x], expired[x], w, x)
  <2>1. PICK r \in A : TRUE
    BY <1>1, <1>3, <1>7, Zenon DEF Running
  <2>2. A = {r}
    BY <1>3, Zenon
  <2>3. Still({r})
    BY <1>3, Zenon DEF Still
  <2>4. MovingIn((Slots \ {t}) \cup {r}, C) = MovingIn(Slots, Counting)
    BY <1>1, <1>4, <2>3, MovingHandled
  <2>5. r.msg.id = t.msg.id /\ Callee(r.msg) = Callee(t.msg)
    BY <1>3, Zenon
  <2> HIDE DEF C
  <2>6. ASSUME NEW w \in Worker, NEW x \in Worker
        PROVE  Balanced(sendCounts[w][x], recvCounts[x][w], (Slots \ {t}) \cup {r}, C,
                        futures[x], expired[x], w, x)
    BY <1>1, <1>7, <2>4, <2>5, RepliedBalance, Zenon
  <2> QED
    BY <2>2, <2>6, Zenon
<1>8. CASE N = {} /\ NoCall
  <2>1. Slots' = S /\ futures' = futures
    BY <1>5, <1>8, Zenon DEF NoCall
  <2>2. BadInv'
    BY <1>6, <2>1, Zenon DEF BadInv
  <2> HIDE DEF S, C
  <2>3. BalanceInv'
    BY <1>1, <1>5, <1>7, <2>1, Zenon DEF BalanceInv, Running, rpcAgentRunning
  <2> QED
    BY <2>2, <2>3, Zenon
<1>9. CASE \E n : /\ Fresh(t.worker, n) /\ ~n.bad /\ addFuture(t.worker, n, Infinite)
                  /\ N = {Enqueued(t.worker, n)}
  <2>1. PICK n : /\ Fresh(t.worker, n) /\ ~n.bad /\ addFuture(t.worker, n, Infinite)
                 /\ N = {Enqueued(t.worker, n)}
    BY <1>9, Zenon
  <2> DEFINE q == Enqueued(t.worker, n)
             f == NewFuture(n, Infinite)
  <2>2. /\ q.kind \in {"send", "self"} /\ q.msg = n
        /\ f.id = n.id
        /\ \A s \in Slots : s.msg.id # n.id
        /\ \A x \in Worker : \A g \in expired[x] : g.id # n.id
        /\ \A x \in Worker : futures'[x] = Grown(futures[x], f, x)
    <3>1. Infinite \in Nat /\ UNCHANGED <<expired, asleep>>
      BY <1>1, TimeAssumption, Zenon
    <3>2. FreshCall(t.worker, n, Infinite)
      BY <1>1, <2>1, <3>1, FreshIs, Zenon
    <3> QED
      BY <3>2, Zenon DEF FreshCall
  <2>3. N = {q}
    BY <2>1, Zenon
  <2> HIDE DEF q, f
  <2>4. \A s \in S : s.msg.id # q.msg.id
    BY <1>1, <1>3, <2>2, Zenon
  <2>5. BadInv'
    <3> SUFFICES ASSUME NEW s \in S \cup {q}, s.msg.bad
                 PROVE  \E g \in futures'[s.worker] : g.id = s.msg.id /\ g.end = Infinite
      BY <1>5, <2>3, Zenon DEF BadInv
    <3>1. s \in Slots
      BY <1>6, <2>1, <2>2, Zenon
    <3>2. s.worker \in Worker
      BY <3>1, SlotTypes, Zenon DEF IInv, SlotInv, SlotsOK, Placed
    <3>3. futures[s.worker] \subseteq futures'[s.worker]
      BY <2>2, <3>2, Zenon DEF Grown
    <3> QED
      BY <3>1, <3>3, Zenon DEF BadInv
  <2> HIDE DEF S, C
  <2>6. ASSUME Running, NEW w \in Worker, NEW x \in Worker
        PROVE  Balanced(sendCounts[w][x], recvCounts[x][w], S \cup {q}, C, futures'[x],
                        expired[x], w, x)
    <3>1. Balanced(sendCounts[w][x], recvCounts[x][w], S, C, futures[x], expired[x], w, x)
      BY <1>7, <2>6, Zenon
    <3>2. Started(S, expired[x], q, f)
      BY <2>2, <2>4, Zenon DEF Started
    <3>3. Balanced(sendCounts[w][x], recvCounts[x][w], S \cup {q}, C, Grown(futures[x], f, x),
                   expired[x], w, x)
      BY <3>1, <3>2, FreshBalance, Zenon
    <3> QED
      BY <2>2, <3>3, Zenon
  <2>7. BalanceInv'
    BY <1>1, <1>5, <2>3, <2>6, Zenon DEF BalanceInv, Running, rpcAgentRunning
  <2> QED
    BY <2>5, <2>7
<1> QED
  BY <1>2, <1>8, <1>9, Zenon DEF Answer

(* A call ends together with its future.                                   *)
LEMMA EndedBalance ==
  ASSUME IInv, BalanceInv, Running, NEW t \in Slots, t.worker \in Worker,
         t.worker = t.msg.id[1], \E f \in futures[t.worker] : f.id = t.msg.id,
         NEW C, MovingIn(Slots \ {t}, C) = MovingIn(Slots, Counting),
         NEW w \in Worker, NEW x \in Worker
  PROVE  Balanced(sendCounts[w][x], recvCounts[x][w], Slots \ {t}, C,
                  Shrunk(futures[x], t.msg, x), expired[x], w, x)
<1> DEFINE O == OpenIn(Slots)
           m == t.msg
           F == futures[x]
           E == expired[x]
<1>1. OpenIn(Slots \ {t}) = O \ {m}
  BY OneOpen, OpenGone, Zenon DEF IInv
<1>2. OneMessage(O) /\ m \in O
  BY OneOpen, Zenon DEF IInv, OpenIn
<1>3. x = m.id[1] => \E f \in F : f.id = m.id
  BY Zenon
<1>4. \A g \in E : g.id # m.id
  <2>1. CASE x = t.worker
    BY <2>1 DEF IInv, CallInv
  <2>2. CASE x # t.worker
    BY <2>2 DEF IInv, CallInv
  <2> QED
    BY <2>1, <2>2, Zenon
<1>5. Balanced(sendCounts[w][x], recvCounts[x][w], Slots, Counting, F, E, w, x)
  BY Zenon DEF BalanceInv
<1> HIDE DEF O, m, F, E
<1>6. /\ OwedIn(O \ {m}, Shrunk(F, m, x) \cup E, w, x) = OwedIn(O, F \cup E, w, x)
      /\ DroppedIn(O \ {m}, E, w) = DroppedIn(O, E, w)
  <2>1. DroppedIn(O \ {m}, E, w) = DroppedIn(O, E, w)
    BY <1>4, Zenon DEF DroppedIn
  <2>2. CASE x = m.id[1]
    BY <1>2, <1>3, <2>1, <2>2, Zenon DEF OwedIn, OneMessage, Shrunk
  <2>3. CASE x # m.id[1]
    BY <2>1, <2>3, Zenon DEF OwedIn, Shrunk
  <2> QED
    BY <2>2, <2>3, Zenon
<1>7. Balanced(sendCounts[w][x], recvCounts[x][w], Slots \ {t}, C, Shrunk(F, m, x), E, w, x)
  BY <1>1, <1>5, <1>6, Zenon DEF Balanced, O
<1> QED
  BY <1>7, Zenon DEF m, F, E

(* The other calls keep their futures.                                     *)
LEMMA EndedOthers ==
  ASSUME IInv, BadInv, NEW t \in Slots, t.worker \in Worker, t.worker = t.msg.id[1],
         futures' = [futures EXCEPT ![t.worker] =
                       @ \ {f \in futures[t.worker] : f.id = t.msg.id}],
         Slots' = Slots \ {t}
  PROVE  BadInv' /\ \A x \in Worker : futures'[x] = Shrunk(futures[x], t.msg, x)
<1>1. \A x \in Worker : futures'[x] = Shrunk(futures[x], t.msg, x)
  BY Zenon DEF Shrunk, IInv, TypeInv
<1>2. BadInv'
  <2> SUFFICES ASSUME NEW s \in Slots \ {t}, s.msg.bad
               PROVE  \E g \in futures'[s.worker] : g.id = s.msg.id /\ g.end = Infinite
    BY Zenon DEF BadInv
  <2>1. PICK g \in futures[s.worker] : g.id = s.msg.id /\ g.end = Infinite
    BY Zenon DEF BadInv
  <2>2. g.id # t.msg.id
    BY <2>1, OneOpen, Zenon DEF IInv, OneSlot
  <2>3. s.worker \in Worker
    BY SlotTypes, Zenon DEF IInv, SlotInv, SlotsOK, Placed
  <2>4. g \in futures'[s.worker]
    BY <1>1, <2>1, <2>2, <2>3 DEF Shrunk
  <2> QED
    BY <2>1, <2>4, Zenon
<1> QED
  BY <1>1, <1>2, Zenon

(* A request that is never sent is not waited for.                         *)
LEMMA markFutureWithErrorBalance ==
  ASSUME IInv, BadInv, BalanceInv, NEW t \in tasks, markFutureWithError(t)
  PROVE  BadInv' /\ BalanceInv'
<1>1. /\ t \in Slots /\ t.worker \in Worker /\ t.worker = t.msg.id[1]
      /\ Slots' = Slots \ {t} /\ Counting' = Counting
  BY markFutureWithErrorSlots, Zenon DEF IInv
<1>2. /\ t.kind \in {"send", "self"} /\ t.msg.bad
      /\ futures' = [futures EXCEPT ![t.worker] =
                       @ \ {f \in futures[t.worker] : f.id = t.msg.id}]
      /\ UNCHANGED <<pc, expired, sendCounts, recvCounts>>
  BY Zenon DEF markFutureWithError, appVars, watchVars
<1>3. BadInv' /\ \A x \in Worker : futures'[x] = Shrunk(futures[x], t.msg, x)
  BY <1>1, <1>2, EndedOthers, Zenon
<1>4. MovingIn(Slots \ {t}, Counting) = MovingIn(Slots, Counting)
  <2>1. Still({t}) /\ Still({}) /\ Slots \ {t} = (Slots \ {t}) \cup {}
    BY <1>2, Zenon DEF Still
  <2> QED
    BY <2>1, MovingSame
<1>5. \E f \in futures[t.worker] : f.id = t.msg.id
  BY <1>1, <1>2, Zenon DEF BadInv
<1>6. ASSUME Running, NEW w \in Worker, NEW x \in Worker
      PROVE  Balanced(sendCounts[w][x], recvCounts[x][w], Slots \ {t}, Counting,
                      Shrunk(futures[x], t.msg, x), expired[x], w, x)
  BY <1>1, <1>4, <1>5, <1>6, EndedBalance, Zenon
<1>7. BalanceInv'
  BY <1>1, <1>2, <1>3, <1>6, Zenon DEF BalanceInv, Running, rpcAgentRunning
<1> QED
  BY <1>3, <1>7, Zenon

(* A response is counted later, or comes too late and is dropped.          *)
LEMMA handleResponseBalance ==
  ASSUME IInv, BadInv, BalanceInv, NEW t \in tasks, handleResponse(t)
  PROVE  BadInv' /\ BalanceInv'
<1> DEFINE m == t.msg
           found == {f \in futures[t.worker] : f.id = m.id}
           D == {Handled(t) : f \in found}
<1>1. /\ t \in Slots /\ m \in Message /\ t.worker \in Worker /\ t.worker = m.id[1]
      /\ t.worker = m.to /\ m.type = "response" /\ Callee(m) = m.from
      /\ Slots' = Slots \ {t} /\ Counting' = Counting \cup D
  BY handleResponseSlots, Zenon DEF IInv
<1>2. /\ t.kind = "recv"
      /\ futures' = [futures EXCEPT ![t.worker] = @ \ found]
      /\ UNCHANGED <<pc, expired, sendCounts, recvCounts>>
  BY Zenon DEF handleResponse, appVars, watchVars
<1>3. BadInv' /\ \A x \in Worker : futures'[x] = Shrunk(futures[x], m, x)
  BY <1>1, <1>2, EndedOthers, Zenon
<1>4. ASSUME Running, NEW w \in Worker, NEW x \in Worker
      PROVE  Balanced(sendCounts[w][x], recvCounts[x][w], Slots \ {t}, Counting \cup D,
                      Shrunk(futures[x], m, x), expired[x], w, x)
  <2>1. CASE found # {}
    <3>1. D = {Handled(t)}
      BY <2>1, Zenon
    <3>2. t \in TaskType /\ Placed(t)
      BY <1>1, Zenon DEF IInv, TypeInv, SlotInv, SlotsOK
    <3>3. Handled(t).msg = t.msg
      BY <1>2, <3>2, HandledIs, Zenon
    <3>4. Still({}) /\ Slots \ {t} = (Slots \ {t}) \cup {}
      BY Zenon DEF Still
    <3>5. MovingIn(Slots \ {t}, Counting \cup {Handled(t)}) = MovingIn(Slots, Counting)
      BY <1>1, <1>2, <3>3, <3>4, MovingHandled
    <3> DEFINE C == Counting \cup {Handled(t)}
    <3>6. /\ MovingIn(Slots \ {t}, C) = MovingIn(Slots, Counting)
          /\ \E f \in futures[t.worker] : f.id = t.msg.id
      BY <2>1, <3>5, Zenon
    <3> HIDE DEF C
    <3>7. Balanced(sendCounts[w][x], recvCounts[x][w], Slots \ {t}, C,
                   Shrunk(futures[x], t.msg, x), expired[x], w, x)
      BY <1>1, <1>4, <3>6, EndedBalance, Zenon
    <3> QED
      BY <3>1, <3>7, Zenon DEF C
  <2>2. CASE found = {}
    <3> DEFINE O == OpenIn(Slots)
               M == MovingIn(Slots, Counting)
               F == futures[x]
               E == expired[x]
    <3>1. D = {} /\ Counting \cup D = Counting
      BY <2>2, Zenon
    <3>2. \A f \in F : f.id # m.id
      <4>1. CASE x = t.worker
        BY <2>2, <4>1, Zenon
      <4>2. CASE x # t.worker
        <5>1. \A f \in F : f.id[1] = x
          BY Zenon DEF IInv, CallInv
        <5>2. m.id[1] # x
          BY <1>1, <4>2, Zenon
        <5> QED
          BY <5>1, <5>2, Zenon
      <4> QED
        BY <4>1, <4>2, Zenon
    <3>3. Shrunk(futures[x], m, x) = F
      BY <3>2, Zenon DEF Shrunk
    <3>4. /\ \A f \in E : f.id[1] = x
          /\ \A f, g \in E : f.id = g.id => f = g
      BY Zenon DEF IInv, CallInv
    <3>5. \A f \in E : f.id = m.id => f.dst = Callee(m)
      BY <1>1 DEF IInv, SlotInv, SlotsOK, AllCalls
    <3>6. OpenIn(Slots \ {t}) = O \ {m} /\ OneMessage(O) /\ m \in O
      BY <1>1, OneOpen, OpenGone, Zenon DEF IInv, OpenIn
    <3>7. MovingIn(Slots \ {t}, Counting) = M \ {m} /\ m \in M
      BY <1>1, <1>2, MovingDropped, Zenon DEF IInv, SlotInv
    <3> HIDE DEF O, M, F, E, m, D, found
    <3> DEFINE a == Cardinality(OwedIn(O, F \cup E, w, x))
               b == Cardinality(BetweenIn(M, w, x))
               d == Cardinality(DroppedIn(O, E, w))
               a2 == Cardinality(OwedIn(O \ {m}, F \cup E, w, x))
               b2 == Cardinality(BetweenIn(M \ {m}, w, x))
               d2 == Cardinality(DroppedIn(O \ {m}, E, w))
    <3>8. /\ IsFiniteSet(BetweenIn(M, w, x)) /\ IsFiniteSet(OwedIn(O, F \cup E, w, x))
          /\ IsFiniteSet(DroppedIn(O, E, w))
          /\ a \in Nat /\ b \in Nat /\ d \in Nat
          /\ sendCounts[w][x] \in Nat /\ recvCounts[x][w] \in Nat
          /\ sendCounts[w][x] + a = recvCounts[x][w] + b + d
      BY <1>4, BalanceOf, Zenon DEF O, M, F, E
    <3>9. b2 = IF m.from = w /\ m.to = x THEN b - 1 ELSE b
      <4>1. m \in M /\ IsFiniteSet(BetweenIn(M, w, x))
        BY <3>7, <3>8, Zenon
      <4> QED
        BY <4>1, BetweenFewer
    <3>10. /\ a2 \in Nat /\ d2 \in Nat
           /\ Callee(m) = w /\ m.id[1] = x => d2 - a2 = d - a + 1
           /\ ~(Callee(m) = w /\ m.id[1] = x) => d2 - a2 = d - a
      <4>1. Late(O, F, E, m, x)
        BY <3>2, <3>4, <3>5, <3>6, Zenon DEF Late
      <4>2. IsFiniteSet(OwedIn(O, F \cup E, w, x)) /\ IsFiniteSet(DroppedIn(O, E, w))
        BY <3>8, Zenon
      <4>3. LateChange(O, F, E, m, w, x)
        BY <4>1, <4>2, OwedLate, Zenon
      <4> QED
        BY <4>3, Zenon DEF LateChange
    <3>11. Callee(m) = m.from /\ m.id[1] = m.to
      BY <1>1, Zenon
    <3>12. \/ b2 = b - 1 /\ d2 - a2 = d - a + 1
           \/ b2 = b /\ d2 - a2 = d - a
      <4> HIDE DEF a, b, d, a2, b2, d2
      <4> QED
        BY <3>9, <3>10, <3>11, Zenon
    <3>13. sendCounts[w][x] + a2 = recvCounts[x][w] + b2 + d2
      <4> DEFINE s == sendCounts[w][x]
                 r == recvCounts[x][w]
      <4>1. /\ s \in Nat /\ r \in Nat /\ a \in Nat /\ b \in Nat /\ d \in Nat
            /\ a2 \in Nat /\ d2 \in Nat /\ s + a = r + b + d
        BY <3>8, <3>10, Zenon
      <4> HIDE DEF a, b, d, a2, b2, d2, s, r
      <4>2. b2 \in Int
        BY <3>12, <4>1
      <4>3. s + a2 = r + b2 + d2
        BY <3>12, <4>1, <4>2
      <4> QED
        BY <4>3, Zenon DEF s, r
    <3>14. Balanced(sendCounts[w][x], recvCounts[x][w], Slots \ {t}, Counting, F, E, w, x)
      BY <3>6, <3>7, <3>13, Zenon DEF Balanced
    <3> QED
      BY <3>1, <3>3, <3>14, Zenon DEF E
  <2> QED
    BY <2>1, <2>2, Zenon
<1>5. BalanceInv'
  <2> HIDE DEF D, found, m
  <2> QED
    BY <1>1, <1>2, <1>3, <1>4, Zenon DEF BalanceInv, Running, rpcAgentRunning
<1> QED
  BY <1>3, <1>5, Zenon

(* Calls that expire have an open message: none is dropped yet.            *)
LEMMA processTimedOutBalance ==
  ASSUME IInv, BadInv, BalanceInv, NEW w \in Worker, processTimedOutFutures(w)
  PROVE  BadInv' /\ BalanceInv'
<1>1. PICK now \in EndTimes \ {Infinite} :
           LET late == {f \in futures[w] : f.end <= now}
           IN  /\ expired[w] = {} /\ expired' = [expired EXCEPT ![w] = late]
               /\ futures' = [futures EXCEPT ![w] = @ \ late]
               /\ asleep' = [asleep EXCEPT ![w] = 0]
               /\ UNCHANGED <<pc, nextId, tasks, net, deferred, sendCounts, recvCounts,
                              notified, clientActiveCalls, serverActiveCalls>>
  BY processTimedOutForm, Zenon
<1> DEFINE late == {f \in futures[w] : f.end <= now}
<1>2. /\ late \subseteq futures[w]
      /\ \A f \in late : f.end # Infinite
  <2>1. now \in Nat /\ Infinite \in Nat /\ now <= Infinite /\ now # Infinite
    BY TimeAssumption, Zenon
  <2> QED
    BY <2>1
<1>3. /\ expired[w] = {} /\ expired' = [expired EXCEPT ![w] = late]
      /\ futures' = [futures EXCEPT ![w] = @ \ late]
      /\ UNCHANGED <<pc, tasks, sendCounts, recvCounts>>
  BY <1>1, Zenon
<1> HIDE DEF late
<1>4. ASSUME NEW x \in Worker
      PROVE  /\ futures'[x] = IF x = w THEN futures[w] \ late ELSE futures[x]
             /\ expired'[x] = IF x = w THEN late ELSE expired[x]
  BY <1>3, Zenon DEF IInv, TypeInv
<1>5. /\ Slots' = Slots
      /\ \A x \in Worker : futures'[x] \cup expired'[x] = futures[x] \cup expired[x]
  BY processTimedOutKept, Zenon
<1>6. Counting' = Counting
  BY <1>3, Zenon DEF Counting
<1>7. BadInv'
  <2> SUFFICES ASSUME NEW s \in Slots, s.msg.bad
               PROVE  \E g \in futures'[s.worker] : g.id = s.msg.id /\ g.end = Infinite
    BY <1>5, Zenon DEF BadInv
  <2>1. PICK g \in futures[s.worker] : g.id = s.msg.id /\ g.end = Infinite
    BY Zenon DEF BadInv
  <2>2. s.worker \in Worker
    BY SlotTypes, Zenon DEF IInv, SlotInv, SlotsOK, Placed
  <2>3. g \in futures'[s.worker]
    BY <1>2, <1>4, <2>1, <2>2, Zenon
  <2> QED
    BY <2>1, <2>3, Zenon
<1>8. ASSUME Running, NEW v \in Worker, NEW x \in Worker
      PROVE  DroppedIn(OpenIn(Slots), expired'[x], v) = DroppedIn(OpenIn(Slots), expired[x], v)
  <2>1. CASE x = w
    <3>1. \A f \in late : \E m \in OpenIn(Slots) : m.id = f.id
      BY <1>2, <1>8, Zenon DEF IInv, HeldInv, OpenIn
    <3>2. expired'[x] = late /\ expired[x] = {}
      BY <1>3, <1>4, <2>1, Zenon
    <3> QED
      BY <3>1, <3>2, Zenon DEF DroppedIn
  <2>2. CASE x # w
    BY <1>4, <2>2, Zenon
  <2> QED
    BY <2>1, <2>2, Zenon
<1>9. BalanceInv'
  <2> SUFFICES ASSUME Running, NEW v \in Worker, NEW x \in Worker
               PROVE  Balanced(sendCounts[v][x], recvCounts[x][v], Slots, Counting,
                               futures'[x], expired'[x], v, x)
    BY <1>3, <1>5, <1>6, Zenon DEF BalanceInv, Running, rpcAgentRunning
  <2>1. Balanced(sendCounts[v][x], recvCounts[x][v], Slots, Counting, futures[x],
                 expired[x], v, x)
    BY Zenon DEF BalanceInv
  <2> QED
    BY <1>5, <1>8, <2>1, Zenon DEF Balanced
<1> QED
  BY <1>7, <1>9, Zenon

(* A call that has expired fails, and its response counts as received.     *)
LEMMA failExpiredBalance ==
  ASSUME IInv, BadInv, BalanceInv, NEW w \in Worker, failExpired(w)
  PROVE  BadInv' /\ BalanceInv'
<1>1. PICK e \in expired[w] : /\ expired' = [expired EXCEPT ![w] = @ \ {e}]
                              /\ recvCounts' = [recvCounts EXCEPT ![w][e.dst] = @ + 1]
  BY Zenon DEF failExpired, increment
<1>2. UNCHANGED <<pc, futures, tasks, sendCounts>> /\ Slots' = Slots
  BY failExpiredKept, Zenon DEF failExpired, appVars
<1>3. Counting' = Counting
  BY <1>2, Zenon DEF Counting
<1>4. BadInv'
  BY <1>2, Zenon DEF BadInv
<1>5. e.dst \in Worker
  BY DEF IInv, TypeInv, Future
<1>6. ASSUME Running, NEW v \in Worker, NEW x \in Worker
      PROVE  Balanced(sendCounts[v][x], recvCounts'[x][v], Slots, Counting, futures[x],
                      expired'[x], v, x)
  <2>1. CASE x # w
    <3>1. recvCounts'[x][v] = recvCounts[x][v] /\ expired'[x] = expired[x]
      BY <1>1, <1>5, <2>1, Zenon DEF IInv, TypeInv
    <3> QED
      BY <1>6, <3>1, Zenon DEF BalanceInv
  <2>2. CASE x = w
    <3> DEFINE O == OpenIn(Slots)
               F == futures[x]
               E == expired[x]
    <3>1. expired'[x] = E \ {e}
      BY <1>1, <2>2, Zenon DEF IInv, TypeInv
    <3>2. /\ e.dst = v => recvCounts'[x][v] = recvCounts[x][v] + 1
          /\ e.dst # v => recvCounts'[x][v] = recvCounts[x][v]
      BY <1>1, <1>5, <2>2, Zenon DEF IInv, TypeInv
    <3>3. Failing(O, F, E, e, x)
      <4>1. OneMessage(O) /\ e \in E
        BY <2>2, OneOpen, Zenon DEF IInv
      <4>2. /\ e.id[1] = x /\ \A f \in F : f.id # e.id
            /\ \A f, g \in E : f.id = g.id => f = g
        BY <2>2 DEF IInv, CallInv
      <4>3. \A s \in Slots : s.msg.id = e.id => e.dst = Callee(s.msg)
        BY <2>2 DEF IInv, SlotInv, SlotsOK, AllCalls
      <4>4. \A m \in O : m.id = e.id => e.dst = Callee(m)
        BY <4>3, Zenon DEF OpenIn
      <4> QED
        BY <4>1, <4>2, <4>4, Zenon DEF Failing
    <3> HIDE DEF O, F, E
    <3> DEFINE a == Cardinality(OwedIn(O, F \cup E, v, x))
               b == Cardinality(BetweenIn(MovingIn(Slots, Counting), v, x))
               d == Cardinality(DroppedIn(O, E, v))
               a2 == Cardinality(OwedIn(O, F \cup (E \ {e}), v, x))
               d2 == Cardinality(DroppedIn(O, E \ {e}, v))
    <3>4. /\ IsFiniteSet(OwedIn(O, F \cup E, v, x)) /\ IsFiniteSet(DroppedIn(O, E, v))
          /\ a \in Nat /\ b \in Nat /\ d \in Nat
          /\ sendCounts[v][x] \in Nat /\ recvCounts[x][v] \in Nat
          /\ sendCounts[v][x] + a = recvCounts[x][v] + b + d
      BY <1>6, BalanceOf, Zenon DEF O, F, E
    <3>5. /\ a2 \in Nat /\ d2 \in Nat
          /\ e.dst = v => a2 - d2 = a - d + 1
          /\ e.dst # v => a2 - d2 = a - d
      <4>1. IsFiniteSet(OwedIn(O, F \cup E, v, x)) /\ IsFiniteSet(DroppedIn(O, E, v))
        BY <3>4, Zenon
      <4>2. a2 \in Nat /\ d2 \in Nat
        <5>1. IsFiniteSet(OpenIn(Slots))
          BY SlotsFinite, OpenFinite, Zenon DEF IInv
        <5>2. /\ OwedIn(O, F \cup (E \ {e}), v, x) \subseteq OpenIn(Slots)
              /\ DroppedIn(O, E \ {e}, v) \subseteq DroppedIn(O, E, v)
          BY Zenon DEF OwedIn, DroppedIn, O
        <5>3. IsFiniteSet(OwedIn(O, F \cup (E \ {e}), v, x))
          BY <5>1, <5>2, FS_Subset, Zenon
        <5>4. IsFiniteSet(DroppedIn(O, E \ {e}, v))
          BY <4>1, <5>2, FS_Subset, Zenon
        <5> QED
          BY <5>3, <5>4, FS_CardinalityType, Zenon
      <4>3. FailedChange(O, F, E, e, v, x)
        BY <3>3, <4>1, OwedFailed, Zenon
      <4> QED
        BY <4>2, <4>3, Zenon DEF FailedChange
    <3>6. sendCounts[v][x] + a2 = recvCounts'[x][v] + b + d2
      <4> DEFINE s == sendCounts[v][x]
                 r == recvCounts[x][v]
                 r2 == recvCounts'[x][v]
      <4>1. /\ s \in Nat /\ r \in Nat /\ a \in Nat /\ b \in Nat /\ d \in Nat
            /\ a2 \in Nat /\ d2 \in Nat /\ s + a = r + b + d
        BY <3>4, <3>5, Zenon
      <4> HIDE DEF a, b, d, a2, d2, s, r, r2
      <4>2. \/ r2 = r + 1 /\ a2 - d2 = a - d + 1
            \/ r2 = r /\ a2 - d2 = a - d
        BY <3>2, <3>5, Zenon DEF r, r2
      <4>3. r2 \in Int
        BY <4>1, <4>2
      <4>4. s + a2 = r2 + b + d2
        BY <4>1, <4>2, <4>3
      <4> QED
        BY <4>4, Zenon DEF s, r2
    <3>7. Balanced(sendCounts[v][x], recvCounts'[x][v], Slots, Counting, F, E \ {e}, v, x)
      BY <3>6, Zenon DEF Balanced, O
    <3> QED
      BY <3>1, <3>7, Zenon DEF F
  <2> QED
    BY <2>1, <2>2, Zenon
<1>7. BalanceInv'
  BY <1>2, <1>3, <1>6, Zenon DEF BalanceInv, Running, rpcAgentRunning
<1> QED
  BY <1>4, <1>7, Zenon

(* Steps that touch neither calls nor messages keep the balance.           *)
LEMMA QuietBalance ==
  ASSUME IInv, BadInv, BalanceInv, UNCHANGED workVars, Running' => Running
  PROVE  BadInv' /\ BalanceInv'
<1>1. Slots' = Slots /\ Counting' = Counting
  BY QuietKept, Zenon
<1> QED
  BY <1>1, Zenon DEF BadInv, BalanceInv, workVars

(* Every step keeps the balance.                                           *)
LEMMA NextBalance ==
  ASSUME BadEnds \subseteq {Infinite}, IInv, BadInv, BalanceInv, [Next]_vars
  PROVE  BadInv' /\ BalanceInv'
<1>1. CASE UNCHANGED vars
  <2>1. UNCHANGED workVars /\ UNCHANGED pc
    BY <1>1, Zenon DEF vars, appVars, watchVars, workVars
  <2> QED
    BY <2>1, QuietBalance, Zenon DEF Running, rpcAgentRunning
<1>2. ASSUME NEW w \in Worker, SleepStep(w) PROVE BadInv' /\ BalanceInv'
  <2>1. UNCHANGED workVars /\ UNCHANGED pc
    BY <1>2, Zenon DEF SleepStep, sleepTillEnd, wakeUp, workVars, appVars
  <2> QED
    BY <2>1, QuietBalance, Zenon DEF Running, rpcAgentRunning
<1>3. CASE allgather \/ \E w \in Worker : ThreadStep(w)
  BY <1>3, ThreadKept, QuietBalance, Zenon
<1>4. CASE Next
  BY <1>2, <1>3, <1>4, NextSteps, CallBalance, listenBalance, processTimedOutBalance,
     failExpiredBalance, handleSendBalance, sendToSelfBalance, markFutureWithErrorBalance,
     handleRequestBalance, handleResponseBalance, countRecvBalance,
     completeDeferredBalance, Zenon
<1> QED
  BY <1>1, <1>4, Zenon

(* sendCounts_ and recvCounts_ keep their balance, for any calls, nested   *)
(* calls and time-outs: what hasPendingMessage compares differs by what is *)
(* under way and by the responses to calls that have timed out, and by     *)
(* nothing else.  A call that cannot be serialized must not time out       *)
(* before handleSend finds out: pollTimedOutRPCs would count a response to *)
(* a request that is never sent.                                           *)
THEOREM CountsKeepBalance ==
  ASSUME BadEnds \subseteq {Infinite}
  PROVE  Spec => []CountsBalance
<1>1. Init => IInv /\ BadInv /\ BalanceInv
  <2> SUFFICES ASSUME Init PROVE IInv /\ BadInv /\ BalanceInv
    BY Zenon
  <2>1. IInv
    BY InitKept, Zenon
  <2>2. Slots = {} /\ Counting = {}
    BY Zenon DEF Init, Slots, Counting
  <2>3. BadInv
    BY <2>2, Zenon DEF BadInv
  <2>4. ASSUME NEW w \in Worker, NEW x \in Worker
        PROVE  Balanced(0, 0, {}, {}, {}, {}, w, x)
    <3>1. OpenIn({}) = {} /\ MovingIn({}, {}) = {}
      BY Zenon DEF OpenIn, MovingIn
    <3>2. /\ OwedIn({}, {} \cup {}, w, x) = {} /\ BetweenIn({}, w, x) = {}
          /\ DroppedIn({}, {}, w) = {}
      BY Zenon DEF OwedIn, BetweenIn, DroppedIn
    <3>3. Cardinality({}) = 0
      BY FS_EmptySet, Zenon
    <3> QED
      BY <3>1, <3>2, <3>3 DEF Balanced
  <2>5. ASSUME NEW w \in Worker, NEW x \in Worker
        PROVE  /\ sendCounts[w][x] = 0 /\ recvCounts[x][w] = 0
               /\ futures[x] = {} /\ expired[x] = {}
    BY Zenon DEF Init, Zero
  <2>6. BalanceInv
    BY <2>2, <2>4, <2>5, Zenon DEF BalanceInv
  <2> QED
    BY <2>1, <2>3, <2>6, Zenon
<1>2. (IInv /\ BadInv /\ BalanceInv) /\ [Next]_vars => (IInv /\ BadInv /\ BalanceInv)'
  BY NextKept, NextBalance, Zenon
<1>3. IInv /\ BalanceInv => CountsBalance
  BY BalanceIs, Zenon DEF IInv
<1> QED
  BY <1>1, <1>2, <1>3, PTL DEF Spec
=============================================================================
