----------------------- MODULE TensorPipeAgentProofs ------------------------
(***************************************************************************)
(* TensorPipeAgent, for any workers, calls, chains and pipes:              *)
(* clientActiveCalls_ counts the active calls, but for those that send()   *)
(* has entered and not counted.                                            *)
(***************************************************************************)
EXTENDS TensorPipeAgent, FiniteSetTheorems, TLAPS

MessageID == Worker \X Nat
Message ==
  [id : MessageID, from : Worker, to : Worker, chain : Seq(Link),
   expiry : Expiries \cup {Never}, above : SUBSET MessageID]
Kind == {"call", "serve", "complete", "decrease"}
TaskType == [worker : Worker, kind : Kind, msg : Message]
SendType == [msg : Message, by : TaskType]

TypeInv ==
  /\ nextMessageID \in [Worker -> Nat] /\ clientActiveCalls \in [Worker -> Int]
  /\ pending \in [Worker -> SUBSET Message]
  /\ timeoutMap \in [Worker -> SUBSET Message]
  /\ requests \in [Pipe -> Seq(Message)] /\ responses \in [Pipe -> Seq(Message)]
  /\ tasks \subseteq TaskType /\ deferred \subseteq Message
  /\ isComplete \subseteq MessageID
  /\ sending \subseteq SendType /\ thrown \subseteq Message

(* The messages there are, wherever they are.                              *)
Elems(s) == {s[i] : i \in 1 .. Len(s)}
Known ==
  {m \in Message :
     \/ \E w \in Worker : m \in pending[w] \/ m \in timeoutMap[w]
     \/ \E p \in Pipe : m \in Elems(requests[p]) \/ m \in Elems(responses[p])
     \/ m \in deferred \/ m \in thrown
     \/ \E t \in tasks : t.msg = m
     \/ \E u \in sending : u.msg = m}

(* A message has an id of its own, and its call is pending until whoever   *)
(* completes it has marked it.                                             *)
KnownInv ==
  /\ \A m \in Known :
       /\ m.id[1] = m.from /\ m.id[2] < nextMessageID[m.from]
       /\ m.id \notin isComplete => m \in pending[m.from]
  /\ \A m, n \in Known : m.id = n.id => m = n
  /\ \A i \in isComplete : i[2] < nextMessageID[i[1]]

(* Each worker has its own calls: pending, to time out, in its pipes.      *)
PlaceInv ==
  /\ \A w \in Worker : \A m \in pending[w] \cup timeoutMap[w] : m.from = w
  /\ \A p \in Pipe : \A m \in Elems(requests[p]) \cup Elems(responses[p]) : m.from = p[1]

(* A call that was marked has one task, of its own worker, that completes  *)
(* it or decreases the count.                                              *)
Counting(T) == {t \in T : t.kind \in {"complete", "decrease"}}
Counted(T, w) == {t.msg : t \in {u \in Counting(T) : u.worker = w}}
TasksOK(T) ==
  /\ \A t \in Counting(T) : t.worker = t.msg.from /\ t.msg.id \in isComplete
  /\ \A t, u \in Counting(T) : t.msg = u.msg => t = u

(* A call being sent has not thrown; the task that makes it waits for it,  *)
(* and makes no other.                                                     *)
SendingInv ==
  /\ \A u \in sending : /\ u.msg \notin thrown /\ u.by.kind # "decrease"
                        /\ u.by.kind \in {"serve", "complete"} => u.by \in tasks
  /\ \A u, v \in sending :
       u.msg = v.msg \/ (u.by.kind \in {"serve", "complete"} /\ u.by = v.by) => u = v

Open(w) == {m \in pending[w] : m.id \notin isComplete}
CountInv ==
  \A w \in Worker :
    /\ IsFiniteSet(Open(w) \cup Counted(tasks, w)) /\ IsFiniteSet(Uncounted(w))
    /\ clientActiveCalls[w] + Cardinality(Uncounted(w))
         = Cardinality(Open(w) \cup Counted(tasks, w))

IInv == TypeInv /\ KnownInv /\ PlaceInv /\ TasksOK(tasks) /\ SendingInv /\ CountInv

(* What is counted are the active calls.                                   *)
LEMMA ActiveIs == \A w : Active(w) = Open(w) \cup Counted(tasks, w)
BY Zenon DEF Active, Open, Counted, Counting

(* What is not counted is being sent, or has thrown.                       *)
LEMMA InUncounted ==
  \A m, w :
    /\ m \in Uncounted(w)
         <=> m.from = w /\ (m \in thrown \/ \E u \in sending : u.msg = m)
    /\ m \in Uncounted(w)'
         <=> m.from = w /\ (m \in thrown' \/ \E u \in sending' : u.msg = m)
BY Zenon DEF Uncounted

----------------------------------------------------------------------------
(* Pipes as sequences.                                                     *)

LEMMA ElemsEmpty == Elems(<<>>) = {}
BY DEF Elems

(* What is read is in the pipe, and the rest stays.                        *)
LEMMA ElemsTail ==
  ASSUME NEW S, NEW s \in Seq(S), s # <<>>
  PROVE  /\ Head(s) \in Elems(s) /\ Head(s) \in S
         /\ Tail(s) \in Seq(S) /\ Elems(Tail(s)) \subseteq Elems(s)
<1>1. Len(s) \in Nat /\ 1 \in 1 .. Len(s) /\ Head(s) = s[1] /\ s[1] \in S
  OBVIOUS
<1>2. /\ Tail(s) \in Seq(S) /\ Len(Tail(s)) = Len(s) - 1
      /\ \A i \in 1 .. Len(Tail(s)) : Tail(s)[i] = s[i + 1]
  BY <1>1
<1>3. ASSUME NEW i \in 1 .. Len(Tail(s)) PROVE Tail(s)[i] \in Elems(s)
  <2>1. i + 1 \in 1 .. Len(s)
    BY <1>1, <1>2
  <2> QED
    BY <1>2, <2>1, Zenon DEF Elems
<1> QED
  BY <1>1, <1>2, <1>3, Zenon DEF Elems

(* What is written is the one thing that is new.                           *)
LEMMA ElemsAppend ==
  ASSUME NEW S, NEW s \in Seq(S), NEW e \in S
  PROVE  Append(s, e) \in Seq(S) /\ Elems(Append(s, e)) \subseteq Elems(s) \cup {e}
<1>1. /\ Append(s, e) \in Seq(S) /\ Len(s) \in Nat /\ Len(Append(s, e)) = Len(s) + 1
      /\ \A i \in 1 .. Len(s) : Append(s, e)[i] = s[i]
      /\ Append(s, e)[Len(s) + 1] = e
  OBVIOUS
<1>2. \A i \in 1 .. Len(Append(s, e)) : i \in 1 .. Len(s) \/ i = Len(s) + 1
  BY <1>1
<1> QED
  BY <1>1, <1>2, Zenon DEF Elems

----------------------------------------------------------------------------
(* What the steps have in common.                                          *)

(* The messages in the pipes afterwards were there before.                 *)
PipesKept ==
  /\ requests' \in [Pipe -> Seq(Message)] /\ responses' \in [Pipe -> Seq(Message)]
  /\ \A p \in Pipe : \A m \in Elems(requests'[p]) \cup Elems(responses'[p]) :
       m \in Known /\ m.from = p[1]
(* Tasks that count the same calls as the present ones.                    *)
Stands(T) ==
  /\ T \subseteq TaskType /\ TasksOK(T) /\ \A t \in T : t.msg \in Known
  /\ \A w \in Worker : Counted(T, w) = Counted(tasks, w)

(* No call is made: the pipes, the time-outs and the deferred requests     *)
(* afterwards are of messages there were.                                  *)
Around ==
  /\ PipesKept
  /\ timeoutMap' \in [Worker -> SUBSET Message]
  /\ \A w \in Worker : \A m \in timeoutMap'[w] : m \in Known /\ m.from = w
  /\ deferred' \subseteq Message /\ deferred' \subseteq Known
  /\ nextMessageID' = nextMessageID
(* A call leaves send() counted or thrown: count and uncounted calls keep  *)
(* their sum.                                                              *)
Sum(w) == clientActiveCalls[w] + Cardinality(Uncounted(w))
SendsKept ==
  /\ sending' \subseteq sending /\ thrown' \subseteq Message /\ thrown' \subseteq Known
  /\ SendingInv' /\ clientActiveCalls' \in [Worker -> Int]
  /\ \A w \in Worker : IsFiniteSet(Uncounted(w)') /\ Sum(w)' = Sum(w)

(* Where the messages are.                                                 *)
LEMMA Places ==
  ASSUME TypeInv
  PROVE  /\ \A w \in Worker : pending[w] \subseteq Known /\ timeoutMap[w] \subseteq Known
         /\ \A p \in Pipe : /\ Elems(requests[p]) \subseteq Known
                            /\ Elems(responses[p]) \subseteq Known
         /\ deferred \subseteq Known /\ \A t \in tasks : t.msg \in Known
         /\ thrown \subseteq Known /\ \A u \in sending : u.msg \in Known
<1>1. \A w \in Worker : pending[w] \subseteq Message /\ timeoutMap[w] \subseteq Message
  BY Zenon DEF TypeInv
<1>2. \A p \in Pipe : /\ Elems(requests[p]) \subseteq Message
                     /\ Elems(responses[p]) \subseteq Message
  BY DEF TypeInv, Elems
<1>3. /\ deferred \subseteq Message /\ \A t \in tasks : t.msg \in Message
      /\ thrown \subseteq Message /\ \A u \in sending : u.msg \in Message
  BY Zenon DEF TypeInv, TaskType, SendType
<1> QED
  BY <1>1, <1>2, <1>3, Zenon DEF Known

(* No message is new when those in each place are not.                     *)
LEMMA KnownWithin ==
  ASSUME \A w \in Worker : pending'[w] \subseteq Known /\ timeoutMap'[w] \subseteq Known,
         \A p \in Pipe : \A m \in Elems(requests'[p]) \cup Elems(responses'[p]) : m \in Known,
         deferred' \subseteq Known, \A t \in tasks' : t.msg \in Known,
         thrown' \subseteq Known, \A u \in sending' : u.msg \in Known
  PROVE  Known' \subseteq Known
<1> SUFFICES ASSUME NEW m \in Known' PROVE m \in Known
  BY Zenon
<1>1. \/ \E w \in Worker : m \in pending'[w] \/ m \in timeoutMap'[w]
      \/ \E p \in Pipe : m \in Elems(requests'[p]) \/ m \in Elems(responses'[p])
      \/ m \in deferred' \/ m \in thrown'
      \/ \E t \in tasks' : t.msg = m
      \/ \E u \in sending' : u.msg = m
  BY Zenon DEF Known
<1> QED
  BY <1>1, Zenon

(* The present tasks are such.                                             *)
LEMMA TasksStand == IInv => Stands(tasks)
BY Places, Zenon DEF IInv, TypeInv, Stands

(* Unread pipes keep their messages.                                       *)
LEMMA SamePipes ==
  ASSUME IInv, UNCHANGED <<requests, responses>>
  PROVE  PipesKept
<1>1. \A p \in Pipe : \A m \in Elems(requests[p]) \cup Elems(responses[p]) :
        m \in Known /\ m.from = p[1]
  BY Places, Zenon DEF IInv, PlaceInv
<1> QED
  BY <1>1, Zenon DEF PipesKept, IInv, TypeInv

(* Ids stay unique, and open calls pending, when no message is new.        *)
LEMMA KnownFewer ==
  ASSUME KnownInv, Known' \subseteq Known, nextMessageID' = nextMessageID,
         isComplete \subseteq isComplete',
         \A i \in isComplete' : i \in isComplete \/ \E m \in Known : m.id = i,
         \A m \in Known :
           m.id \notin isComplete' /\ m \in pending[m.from] => m \in pending'[m.from]
  PROVE  KnownInv'
<1>1. \A m \in Known' :
        /\ m.id[1] = m.from /\ m.id[2] < nextMessageID'[m.from]
        /\ m.id \notin isComplete' => m \in pending'[m.from]
  BY Zenon DEF KnownInv
<1>2. \A m, n \in Known' : m.id = n.id => m = n
  BY Zenon DEF KnownInv
<1>3. \A i \in isComplete' : i[2] < nextMessageID'[i[1]]
  BY DEF KnownInv
<1> QED
  BY <1>1, <1>2, <1>3, Zenon DEF KnownInv

(* The rest stays in its places too.                                       *)
LEMMA SameAround ==
  ASSUME IInv, PipesKept, UNCHANGED <<nextMessageID, timeoutMap, deferred>>
  PROVE  Around
<1>1. \A w \in Worker : \A m \in timeoutMap[w] : m \in Known /\ m.from = w
  BY Places, Zenon DEF IInv, PlaceInv
<1> QED
  BY <1>1, Places, Zenon DEF IInv, TypeInv, Around

(* No call leaves send() while the tasks that are making calls stay.       *)
LEMMA SameSends ==
  ASSUME IInv, UNCHANGED <<sending, thrown, clientActiveCalls>>,
         \A u \in sending : u.by \in tasks => u.by \in tasks'
  PROVE  SendsKept
<1>1. \A w : Uncounted(w)' = Uncounted(w) /\ Sum(w)' = Sum(w)
  BY Zenon DEF Uncounted, Sum
<1>2. SendingInv'
  BY Zenon DEF IInv, SendingInv
<1>3. \A w \in Worker : IsFiniteSet(Uncounted(w))
  BY Zenon DEF IInv, CountInv
<1>4. thrown' \subseteq Known
  BY Places, Zenon DEF IInv
<1> QED
  BY <1>1, <1>2, <1>3, <1>4, Zenon DEF SendsKept, IInv, TypeInv

(* The count is right as long as the active calls stay the same.           *)
LEMMA SameCount ==
  ASSUME IInv, SendsKept,
         \A w \in Worker : (Open(w) \cup Counted(tasks, w))' = Open(w) \cup Counted(tasks, w)
  PROVE  CountInv'
<1> SUFFICES ASSUME NEW w \in Worker
             PROVE  /\ IsFiniteSet((Open(w) \cup Counted(tasks, w))')
                    /\ IsFiniteSet(Uncounted(w)')
                    /\ Sum(w)' = Cardinality((Open(w) \cup Counted(tasks, w))')
  BY Zenon DEF CountInv, Sum
<1>1. /\ IsFiniteSet(Open(w) \cup Counted(tasks, w))
      /\ Sum(w) = Cardinality(Open(w) \cup Counted(tasks, w))
  BY Zenon DEF IInv, CountInv, Sum
<1>2. IsFiniteSet(Uncounted(w)') /\ Sum(w)' = Sum(w)
  BY Zenon DEF SendsKept
<1> QED
  BY <1>1, <1>2, Zenon

(* A step that completes no call and makes none.                           *)
LEMMA Stays ==
  ASSUME IInv, Around, SendsKept, Stands(tasks'), UNCHANGED <<pending, isComplete>>
  PROVE  IInv'
<1>1. TypeInv'
  BY Zenon DEF IInv, TypeInv, Around, SendsKept, PipesKept, Stands
<1>2. Known' \subseteq Known
  <2>1. /\ \A x \in Worker : pending'[x] \subseteq Known /\ timeoutMap'[x] \subseteq Known
        /\ \A u \in sending' : u.msg \in Known
    BY Places, Zenon DEF IInv, Around, SendsKept
  <2> QED
    BY <2>1, KnownWithin, Zenon DEF Around, PipesKept, SendsKept, Stands
<1>3. KnownInv'
  BY <1>2, KnownFewer, Zenon DEF IInv, Around
<1>4. PlaceInv'
  BY Zenon DEF IInv, PlaceInv, Around, PipesKept
<1>5. TasksOK(tasks)'
  BY Zenon DEF Stands, TasksOK
<1>6. CountInv'
  <2>1. \A w \in Worker : (Open(w) \cup Counted(tasks, w))' = Open(w) \cup Counted(tasks, w)
    BY Zenon DEF Open, Stands
  <2> QED
    BY <2>1, SameCount, Zenon
<1> QED
  BY <1>1, <1>3, <1>4, <1>5, <1>6, Zenon DEF IInv, SendsKept

(* A step that marks calls of w, and takes some of them off pending: what  *)
(* was open is now counted by its task.                                    *)
LEMMA Marked ==
  ASSUME IInv, NEW w \in Worker, NEW M, M \subseteq Known, \A m \in M : m.from = w,
         NEW R, R \subseteq M, NEW ok, NEW others, Stands(others),
         markFutures(M, ok, others), pending' = [pending EXCEPT ![w] = @ \ R],
         Around, SendsKept
  PROVE  IInv'
<1> DEFINE new == {m \in M : m.id \notin isComplete}
           ids == {m.id : m \in new}
           done == {Task(m.from, "complete", m) : m \in new}
<1>1. isComplete' = isComplete \cup ids /\ tasks' = others \cup done
  BY Zenon DEF markFutures
<1>2. new \subseteq pending[w] /\ new \subseteq Known /\ \A m \in new : m.from = w
  BY Zenon DEF IInv, KnownInv
<1>3. /\ \A t \in done : /\ t \in TaskType /\ t.worker = w /\ t.kind = "complete"
                        /\ t.msg \in new /\ t = Task(w, "complete", t.msg)
      /\ \A m \in new : \E t \in done : t.msg = m
  <2>1. ASSUME NEW m \in new
        PROVE  LET t == Task(m.from, "complete", m)
               IN  /\ t \in TaskType /\ t.worker = w /\ t.kind = "complete"
                   /\ t.msg = m /\ m.from = w
    BY <1>2, Zenon DEF Task, TaskType, Kind, Known
  <2>2. ASSUME NEW t \in done
        PROVE  /\ t \in TaskType /\ t.worker = w /\ t.kind = "complete"
               /\ t.msg \in new /\ t = Task(w, "complete", t.msg)
    <3>1. PICK m \in new : t = Task(m.from, "complete", m)
      BY <2>2, Zenon
    <3> QED
      BY <2>1, <3>1, Zenon
  <2> QED
    BY <2>1, <2>2, Zenon
<1>4. ids \subseteq MessageID
  BY <1>2 DEF Message, Known
<1> HIDE DEF done
<1>5. pending' \in [Worker -> SUBSET Message]
  BY Zenon DEF IInv, TypeInv
<1>6. TypeInv'
  BY <1>1, <1>3, <1>4, <1>5, Zenon DEF IInv, TypeInv, Around, SendsKept, PipesKept, Stands
<1>7. /\ \A x \in Worker : pending'[x] \subseteq pending[x] /\ (x # w => pending'[x] = pending[x])
      /\ pending'[w] = pending[w] \ R
  BY Zenon DEF IInv, TypeInv
<1>8. Known' \subseteq Known
  <2>1. \A t \in tasks' : t.msg \in Known
    BY <1>1, <1>2, <1>3, Zenon DEF Stands
  <2>2. \A x \in Worker : pending'[x] \subseteq Known /\ timeoutMap'[x] \subseteq Known
    BY <1>7, Places, Zenon DEF IInv, Around
  <2>3. \A u \in sending' : u.msg \in Known
    BY Places, Zenon DEF IInv, SendsKept
  <2> QED
    BY <2>1, <2>2, <2>3, KnownWithin, Zenon DEF Around, PipesKept, SendsKept
<1>9. KnownInv'
  <2>1. ASSUME NEW m \in Known, m.id \notin isComplete', m \in pending[m.from]
        PROVE  m \in pending'[m.from]
    <3>1. m.from \in Worker
      BY Zenon DEF Known, Message
    <3>2. m \notin R
      BY <1>1, <2>1, Zenon
    <3> QED
      BY <1>7, <2>1, <3>1, <3>2, Zenon
  <2> QED
    BY <1>1, <1>2, <1>8, <2>1, KnownFewer, Zenon DEF IInv, Around
<1>10. PlaceInv'
  BY <1>7, Zenon DEF IInv, PlaceInv, Around, PipesKept
<1>11. TasksOK(tasks)'
  <2>1. ASSUME NEW t \in Counting(tasks')
        PROVE  t \in Counting(others) \/ t \in done
    BY <1>1, <2>1, Zenon DEF Counting
  <2>2. \A t \in done : t.msg.id \notin isComplete /\ t.msg.id \in isComplete' /\ t.msg.from = w
    BY <1>1, <1>2, <1>3, Zenon
  <2>3. \A t \in Counting(tasks') : t.worker = t.msg.from /\ t.msg.id \in isComplete'
    BY <1>1, <1>3, <2>1, <2>2, Zenon DEF Stands, TasksOK
  <2>4. ASSUME NEW t \in Counting(tasks'), NEW u \in Counting(tasks'), t.msg = u.msg
        PROVE  t = u
    <3>1. CASE t \in done /\ u \in done
      BY <1>3, <2>4, <3>1, Zenon
    <3>2. CASE t \in Counting(others) /\ u \in Counting(others)
      BY <2>4, <3>2, Zenon DEF Stands, TasksOK
    <3>3. CASE t \in Counting(others) /\ u \in done
      BY <2>2, <2>4, <3>3, Zenon DEF Stands, TasksOK
    <3>4. CASE u \in Counting(others) /\ t \in done
      BY <2>2, <2>4, <3>4, Zenon DEF Stands, TasksOK
    <3> QED
      BY <2>1, <3>1, <3>2, <3>3, <3>4, Zenon
  <2> QED
    BY <2>3, <2>4, Zenon DEF TasksOK
<1>12. CountInv'
  <2>1. ASSUME NEW x \in Worker
        PROVE  (Open(x) \cup Counted(tasks, x))' = Open(x) \cup Counted(tasks, x)
    <3>1. CASE x # w
      <4>1. Open(x)' = Open(x)
        <5>1. \A m \in pending[x] : m \in Known /\ m.from = x
          BY Places, Zenon DEF IInv, PlaceInv
        <5>2. \A m \in pending[x] : m.id \notin ids
          <6> SUFFICES ASSUME NEW m \in pending[x], m.id \in ids PROVE FALSE
            BY Zenon
          <6>1. PICK n \in new : m.id = n.id
            BY Zenon
          <6>2. m \in Known /\ n \in Known /\ m.from = x /\ n.from = w
            BY <1>2, <5>1, <6>1, Zenon
          <6>3. m = n
            BY <6>1, <6>2, Zenon DEF IInv, KnownInv
          <6> QED
            BY <3>1, <6>2, <6>3, Zenon
        <5>3. pending'[x] = pending[x]
          BY <1>7, <3>1, Zenon
        <5> QED
          BY <1>1, <5>2, <5>3, Zenon DEF Open
      <4>2. Counted(tasks, x)' = Counted(tasks, x)
        <5>1. Counted(others \cup done, x) = Counted(others, x)
          BY <1>3, <3>1, Zenon DEF Counted, Counting
        <5> QED
          BY <1>1, <5>1, Zenon DEF Stands
      <4> QED
        BY <4>1, <4>2, Zenon
    <3>2. CASE x = w
      <4>1. Counted(tasks, w)' = Counted(tasks, w) \cup new
        <5>1. Counted(others \cup done, w) = Counted(others, w) \cup new
          BY <1>3 DEF Counted, Counting
        <5> QED
          BY <1>1, <5>1, Zenon DEF Stands
      <4>2. \A m \in pending[w] : m \in R \/ m.id \in ids => m.id \in isComplete \/ m \in new
        BY <1>2, Places, Zenon DEF IInv, KnownInv
      <4>3. Open(w)' \subseteq Open(w) /\ Open(w) \subseteq Open(w)' \cup new
        BY <1>1, <1>7, <4>2, Zenon DEF Open
      <4>4. new \subseteq Open(w)
        BY <1>2, Zenon DEF Open
      <4> QED
        BY <3>2, <4>1, <4>3, <4>4, Zenon
    <3> QED
      BY <3>1, <3>2, Zenon
  <2> QED
    BY <2>1, SameCount, Zenon
<1> QED
  BY <1>6, <1>9, <1>10, <1>11, <1>12, Zenon DEF IInv, SendsKept

(* Calls that are marked, or time out, leave what is around them.          *)
LEMMA FewerAround ==
  ASSUME IInv, PipesKept, timeoutMap' \in [Worker -> SUBSET Message],
         \A x \in Worker : timeoutMap'[x] \subseteq timeoutMap[x],
         UNCHANGED <<nextMessageID, deferred>>
  PROVE  Around
<1>1. \A w \in Worker : \A m \in timeoutMap[w] : m \in Known /\ m.from = w
  BY Places, Zenon DEF IInv, PlaceInv
<1> QED
  BY <1>1, Places, Zenon DEF IInv, TypeInv, Around

(* Marking calls disturbs none that is being sent.                         *)
LEMMA MarkedSends ==
  ASSUME IInv, UNCHANGED <<sending, thrown, clientActiveCalls>>, NEW M, NEW ok,
         markFutures(M, ok, tasks)
  PROVE  SendsKept
<1>1. tasks \subseteq tasks'
  BY Zenon DEF markFutures
<1> QED
  BY <1>1, SameSends, Zenon

(* A call is made: send() gives it a new id and enters it; it is active,   *)
(* and not counted.                                                        *)
LEMMA Entered ==
  ASSUME IInv, NEW w \in Worker, NEW to \in Worker \ {w}, NEW chain \in Seq(Link),
         NEW expiry \in Expiries \cup {Never}, NEW above \in SUBSET MessageID,
         NEW m, m = Request(w, to, chain, expiry, above),
         NEW t, m \in Message => t \in TaskType, t.kind # "decrease",
         t.kind \in {"serve", "complete"} => t \in tasks /\ ~Busy(t),
         enter(m, t)
  PROVE  IInv'
<1>1. /\ m \in Message /\ m.id = <<w, nextMessageID[w]>> /\ m.from = w
      /\ m.id[1] = w /\ m.id[2] = nextMessageID[w]
  BY Zenon DEF Request, Message, MessageID, IInv, TypeInv
<1> DEFINE u == [msg |-> m, by |-> t]
<1>2. u \in SendType /\ u.msg = m /\ u.by = t
  BY <1>1, Zenon DEF SendType
<1>3. /\ nextMessageID' = [nextMessageID EXCEPT ![w] = @ + 1]
      /\ pending' = [pending EXCEPT ![w] = @ \cup {m}]
      /\ sending' = sending \cup {u}
      /\ UNCHANGED <<thrown, isComplete, clientActiveCalls, timeoutMap, requests, responses,
                     tasks, deferred>>
  BY <1>1, Zenon DEF enter, timer, pipes
<1> HIDE DEF u
<1>4. /\ nextMessageID' \in [Worker -> Nat] /\ nextMessageID'[w] = nextMessageID[w] + 1
      /\ \A x \in Worker : x # w => nextMessageID'[x] = nextMessageID[x]
      /\ nextMessageID[w] \in Nat
  BY <1>3 DEF IInv, TypeInv
<1>5. /\ pending' \in [Worker -> SUBSET Message] /\ pending'[w] = pending[w] \cup {m}
      /\ \A x \in Worker : x # w => pending'[x] = pending[x]
  BY <1>1, <1>3, Zenon DEF IInv, TypeInv
<1>6. /\ \A n \in Known : n.id # m.id /\ n.from \in Worker
      /\ m.id \notin isComplete /\ m \notin Known
  <2>1. ASSUME NEW n \in Known PROVE n.id # m.id /\ n.from \in Worker
    <3>1. n.from \in Worker /\ n.id[1] = n.from /\ n.id[2] < nextMessageID[n.from]
      BY Zenon DEF IInv, KnownInv, Known, Message
    <3>2. n.id = m.id => nextMessageID[w] < nextMessageID[w]
      BY <1>1, <3>1, Zenon
    <3> QED
      BY <1>4, <3>1, <3>2
  <2>2. m.id \notin isComplete
    BY <1>1, <1>4 DEF IInv, KnownInv
  <2> QED
    BY <2>1, <2>2, Zenon
<1>7. TypeInv'
  BY <1>2, <1>3, <1>4, <1>5, Zenon DEF IInv, TypeInv
<1>8. \A n \in Known' : n \in Known \/ n = m
  <2>1. \A x \in Worker : \A n \in pending'[x] \cup timeoutMap'[x] : n \in Known \/ n = m
    <3>1. \A x \in Worker : \A n \in pending'[x] : n \in pending[x] \/ n = m
      BY <1>5
    <3> QED
      BY <1>3, <3>1, Places, Zenon DEF IInv
  <2>2. \A v \in sending' : v.msg \in Known \/ v.msg = m
    BY <1>2, <1>3, Places, Zenon DEF IInv
  <2>3. /\ \A q \in Pipe : \A n \in Elems(requests'[q]) \cup Elems(responses'[q]) : n \in Known
        /\ deferred' \subseteq Known /\ thrown' \subseteq Known
        /\ \A v \in tasks' : v.msg \in Known
    BY <1>3, Places, Zenon DEF IInv
  <2> SUFFICES ASSUME NEW n \in Known' PROVE n \in Known \/ n = m
    BY Zenon
  <2>4. \/ \E x \in Worker : n \in pending'[x] \/ n \in timeoutMap'[x]
        \/ \E q \in Pipe : n \in Elems(requests'[q]) \/ n \in Elems(responses'[q])
        \/ n \in deferred' \/ n \in thrown'
        \/ \E v \in tasks' : v.msg = n
        \/ \E v \in sending' : v.msg = n
    BY Zenon DEF Known
  <2> QED
    BY <2>1, <2>2, <2>3, <2>4, Zenon
<1>9. KnownInv'
  <2>1. ASSUME NEW n \in Known'
        PROVE  /\ n.id[1] = n.from /\ n.id[2] < nextMessageID'[n.from]
               /\ n.id \notin isComplete' => n \in pending'[n.from]
    <3>1. CASE n = m
      BY <1>1, <1>4, <1>5, <3>1
    <3>2. CASE n \in Known
      <4>1. /\ n.id[1] = n.from /\ n.id[2] < nextMessageID[n.from] /\ n.from \in Worker
            /\ n.id \notin isComplete => n \in pending[n.from]
            /\ n.id \in MessageID
        BY <1>6, <3>2, Zenon DEF IInv, KnownInv, Known, Message
      <4>2. n.id[2] \in Nat /\ nextMessageID[n.from] \in Nat
        BY <4>1, Zenon DEF MessageID, IInv, TypeInv
      <4>3. nextMessageID'[n.from] \in {nextMessageID[n.from], nextMessageID[n.from] + 1}
        BY <1>4, <4>1, Zenon
      <4>4. n.id \notin isComplete' => n \in pending'[n.from]
        BY <1>3, <1>5, <4>1, Zenon
      <4> QED
        BY <4>1, <4>2, <4>3, <4>4
    <3> QED
      BY <1>8, <2>1, <3>1, <3>2, Zenon
  <2>2. ASSUME NEW n \in Known', NEW k \in Known', n.id = k.id PROVE n = k
    BY <1>6, <1>8, <2>2, Zenon DEF IInv, KnownInv
  <2>3. ASSUME NEW i \in isComplete' PROVE i[2] < nextMessageID'[i[1]]
    <3>1. i \in Worker \X Nat /\ i[2] < nextMessageID[i[1]]
      BY <1>3, <2>3, Zenon DEF IInv, KnownInv, TypeInv, MessageID
    <3>2. i[1] \in Worker /\ i[2] \in Nat /\ nextMessageID[i[1]] \in Nat
      BY <3>1, Zenon DEF IInv, TypeInv
    <3>3. nextMessageID'[i[1]] \in {nextMessageID[i[1]], nextMessageID[i[1]] + 1}
      BY <1>4, <3>2, Zenon
    <3> QED
      BY <3>1, <3>2, <3>3
  <2> QED
    BY <2>1, <2>2, <2>3, Zenon DEF KnownInv
<1>10. PlaceInv'
  BY <1>1, <1>3, <1>5, Zenon DEF IInv, PlaceInv
<1>11. TasksOK(tasks)'
  BY <1>3, Zenon DEF IInv, TasksOK
<1>12. SendingInv'
  <2>1. \A v \in sending : v.msg # m /\ m \notin thrown
    BY <1>6, Places, Zenon DEF IInv
  <2>2. t.kind \in {"serve", "complete"} => t \in tasks /\ \A v \in sending : v.by # t
    BY Zenon DEF Busy
  <2>3. \A v \in sending' : v \in sending \/ v = u
    BY <1>3, Zenon
  <2>4. ASSUME NEW v \in sending'
        PROVE  /\ v.msg \notin thrown' /\ v.by.kind # "decrease"
               /\ v.by.kind \in {"serve", "complete"} => v.by \in tasks'
    <3>1. CASE v \in sending
      BY <1>3, <3>1, Zenon DEF IInv, SendingInv
    <3>2. CASE v = u
      BY <1>2, <1>3, <1>6, <2>2, <3>2, Places, Zenon DEF IInv
    <3> QED
      BY <2>3, <3>1, <3>2, Zenon
  <2>5. ASSUME NEW v \in sending', NEW k \in sending',
               v.msg = k.msg \/ (v.by.kind \in {"serve", "complete"} /\ v.by = k.by)
        PROVE  v = k
    <3>1. CASE v \in sending /\ k \in sending
      BY <2>5, <3>1, Zenon DEF IInv, SendingInv
    <3>2. CASE v = u /\ k \in sending
      BY <1>2, <2>1, <2>2, <2>5, <3>2, Zenon
    <3>3. CASE v \in sending /\ k = u
      BY <1>2, <2>1, <2>2, <2>5, <3>3, Zenon
    <3> QED
      BY <2>3, <2>5, <3>1, <3>2, <3>3, Zenon
  <2> QED
    BY <2>4, <2>5, Zenon DEF SendingInv
<1>13. CountInv'
  <2>1. ASSUME NEW x \in Worker, x # w
        PROVE  /\ (Open(x) \cup Counted(tasks, x))' = Open(x) \cup Counted(tasks, x)
               /\ Uncounted(x)' = Uncounted(x)
    <3>1. Open(x)' = Open(x)
      BY <1>3, <1>5, <2>1, Zenon DEF Open
    <3>2. Counted(tasks, x)' = Counted(tasks, x)
      BY <1>3, Zenon
    <3>3. Uncounted(x)' = Uncounted(x)
      BY <1>1, <1>2, <1>3, <2>1, Zenon DEF Uncounted
    <3> QED
      BY <3>1, <3>2, <3>3, Zenon
  <2>2. /\ (Open(w) \cup Counted(tasks, w))' = (Open(w) \cup Counted(tasks, w)) \cup {m}
        /\ m \notin Open(w) \cup Counted(tasks, w)
    <3>1. m \notin pending[w] /\ m \notin Counted(tasks, w)
      BY <1>6, Places, Zenon DEF Counted, Counting, IInv
    <3>2. Open(w)' = Open(w) \cup {m}
      BY <1>3, <1>5, <1>6, Zenon DEF Open
    <3>3. Counted(tasks, w)' = Counted(tasks, w)
      BY <1>3, Zenon
    <3> QED
      BY <3>1, <3>2, <3>3, Zenon DEF Open
  <2>3. Uncounted(w)' = Uncounted(w) \cup {m} /\ m \notin Uncounted(w)
    <3>1. m \notin thrown /\ \A v \in sending : v.msg # m
      BY <1>6, Places, Zenon DEF IInv
    <3>2. \A n : (\E v \in sending' : v.msg = n) <=> (n = m \/ \E v \in sending : v.msg = n)
      BY <1>2, <1>3, Zenon
    <3> QED
      <4>1. m \notin Uncounted(w)
        BY <3>1, InUncounted, Zenon
      <4>2. ASSUME NEW n PROVE n \in Uncounted(w)' <=> n \in Uncounted(w) \/ n = m
        <5>1. n \in Uncounted(w)' <=>
                n.from = w /\ (n \in thrown' \/ \E v \in sending' : v.msg = n)
          BY InUncounted, Zenon
        <5>2. n \in Uncounted(w) <=>
                n.from = w /\ (n \in thrown \/ \E v \in sending : v.msg = n)
          BY InUncounted, Zenon
        <5> QED
          BY <1>1, <1>3, <3>2, <5>1, <5>2, Zenon
      <4> HIDE DEF Uncounted
      <4> QED
        BY <4>1, <4>2, Zenon
  <2>4. \A x \in Worker : clientActiveCalls'[x] = clientActiveCalls[x] /\ clientActiveCalls[x] \in Int
    BY <1>3, Zenon DEF IInv, TypeInv
  <2>5. ASSUME NEW x \in Worker, x # w
        PROVE  /\ IsFiniteSet((Open(x) \cup Counted(tasks, x))') /\ IsFiniteSet(Uncounted(x)')
               /\ clientActiveCalls'[x] + Cardinality(Uncounted(x)')
                    = Cardinality((Open(x) \cup Counted(tasks, x))')
    BY <2>1, <2>4, <2>5, Zenon DEF IInv, CountInv
  <2>6. /\ IsFiniteSet((Open(w) \cup Counted(tasks, w))') /\ IsFiniteSet(Uncounted(w)')
        /\ clientActiveCalls'[w] + Cardinality(Uncounted(w)')
             = Cardinality((Open(w) \cup Counted(tasks, w))')
    <3> DEFINE A == Open(w) \cup Counted(tasks, w)
               U == Uncounted(w)
    <3>1. IsFiniteSet(A) /\ m \notin A /\ IsFiniteSet(U) /\ m \notin U
      BY <2>2, <2>3, Zenon DEF IInv, CountInv
    <3>2. clientActiveCalls[w] + Cardinality(U) = Cardinality(A)
      BY Zenon DEF IInv, CountInv
    <3> HIDE DEF A, U
    <3>3. IsFiniteSet(A \cup {m}) /\ Cardinality(A \cup {m}) = Cardinality(A) + 1
      BY <3>1, FS_AddElement, Zenon
    <3>4. IsFiniteSet(U \cup {m}) /\ Cardinality(U \cup {m}) = Cardinality(U) + 1
      BY <3>1, FS_AddElement, Zenon
    <3>5. Cardinality(U) \in Nat /\ Cardinality(A) \in Nat
      BY <3>1, FS_CardinalityType, Zenon
    <3>6. clientActiveCalls'[w] + Cardinality(U \cup {m}) = Cardinality(A \cup {m})
      BY <2>4, <3>2, <3>3, <3>4, <3>5
    <3> QED
      BY <2>2, <2>3, <3>3, <3>4, <3>6, Zenon DEF A, U
  <2> QED
    BY <2>5, <2>6, Zenon DEF CountInv
<1> QED
  BY <1>7, <1>9, <1>10, <1>11, <1>12, <1>13, Zenon DEF IInv

(* The count is decreased: the call that was counted is no longer active.  *)
LEMMA Decreased ==
  ASSUME IInv, NEW t \in tasks, decreaseCallCount(t)
  PROVE  IInv'
<1> DEFINE w == t.worker
           m == t.msg
<1>1. /\ t.kind = "decrease" /\ w \in Worker
      /\ clientActiveCalls' = [clientActiveCalls EXCEPT ![w] = @ - 1]
      /\ tasks' = tasks \ {t}
      /\ UNCHANGED <<nextMessageID, sending, thrown, pending, isComplete, timeoutMap,
                     requests, responses, deferred>>
  BY Zenon DEF decreaseCallCount, entering, futures, timer, pipes, IInv, TypeInv, TaskType
<1>2. TypeInv'
  <2>1. clientActiveCalls' \in [Worker -> Int]
    BY <1>1 DEF IInv, TypeInv
  <2> QED
    BY <1>1, <2>1, Zenon DEF IInv, TypeInv
<1>3. PipesKept
  BY <1>1, SamePipes, Zenon
<1>4. KnownInv'
  <2>1. /\ \A x \in Worker : pending'[x] \subseteq Known /\ timeoutMap'[x] \subseteq Known
        /\ deferred' \subseteq Known /\ \A u \in tasks' : u.msg \in Known
        /\ thrown' \subseteq Known /\ \A u \in sending' : u.msg \in Known
    BY <1>1, Places, Zenon DEF IInv
  <2>2. Known' \subseteq Known
    BY <1>3, <2>1, KnownWithin, Zenon DEF PipesKept
  <2> QED
    BY <1>1, <2>2, KnownFewer, Zenon DEF IInv
<1>5. PlaceInv'
  BY <1>1, Zenon DEF IInv, PlaceInv
<1>6. TasksOK(tasks)' /\ SendingInv'
  BY <1>1, Zenon DEF IInv, TasksOK, Counting, SendingInv
<1>7. \A x \in Worker : x # w => (Open(x) \cup Counted(tasks, x))' = Open(x) \cup Counted(tasks, x)
  <2>1. \A x \in Worker : x # w => Counted(tasks', x) = Counted(tasks, x)
    BY <1>1, Zenon DEF Counted, Counting
  <2> QED
    BY <1>1, <2>1, Zenon DEF Open
<1>8. /\ (Open(w) \cup Counted(tasks, w))' = (Open(w) \cup Counted(tasks, w)) \ {m}
      /\ m \in Open(w) \cup Counted(tasks, w)
  <2>1. t \in Counting(tasks) /\ m.id \in isComplete
    BY <1>1, Zenon DEF IInv, TasksOK, Counting
  <2>2. Counted(tasks', w) = Counted(tasks, w) \ {m} /\ m \in Counted(tasks, w)
    <3>1. \A u \in Counting(tasks) : u.msg = m => u = t
      BY <2>1, Zenon DEF IInv, TasksOK
    <3> QED
      BY <1>1, <2>1, <3>1, Zenon DEF Counted, Counting
  <2>3. Open(w)' = Open(w) /\ m \notin Open(w)
    BY <1>1, <2>1, Zenon DEF Open
  <2> QED
    BY <2>2, <2>3, Zenon
<1>9. CountInv'
  <2> HIDE DEF m
  <2> DEFINE A == Open(w) \cup Counted(tasks, w)
  <2>1. IsFiniteSet(A) /\ m \in A /\ Sum(w) = Cardinality(A)
    BY <1>1, <1>8, Zenon DEF IInv, CountInv, Sum
  <2> HIDE DEF A
  <2>2. IsFiniteSet(A \ {m}) /\ Cardinality(A \ {m}) = Cardinality(A) - 1
    BY <2>1, FS_RemoveElement, Zenon
  <2>3. \A x \in Worker : Uncounted(x)' = Uncounted(x) /\ IsFiniteSet(Uncounted(x))
    BY <1>1, Zenon DEF Uncounted, IInv, CountInv
  <2>4. \A x \in Worker : x # w => Sum(x)' = Sum(x)
    BY <1>1, <2>3, Zenon DEF IInv, TypeInv, Sum
  <2>5. Sum(w)' = Sum(w) - 1
    <3>1. clientActiveCalls'[w] = clientActiveCalls[w] - 1 /\ clientActiveCalls[w] \in Int
      BY <1>1, Zenon DEF IInv, TypeInv
    <3>2. Cardinality(Uncounted(w)) \in Nat /\ Cardinality(Uncounted(w)') = Cardinality(Uncounted(w))
      BY <1>1, <2>3, FS_CardinalityType, Zenon
    <3> QED
      BY <3>1, <3>2 DEF Sum
  <2>6. (Open(w) \cup Counted(tasks, w))' = A \ {m}
    BY <1>8, Zenon DEF A
  <2>7. ASSUME NEW x \in Worker
        PROVE  /\ IsFiniteSet((Open(x) \cup Counted(tasks, x))')
               /\ Sum(x)' = Cardinality((Open(x) \cup Counted(tasks, x))')
    <3>1. CASE x # w
      BY <1>7, <2>4, <3>1, Zenon DEF IInv, CountInv, Sum
    <3>2. CASE x = w
      BY <2>1, <2>2, <2>5, <2>6, <3>2, Zenon
    <3> QED
      BY <3>1, <3>2, Zenon
  <2> QED
    BY <2>3, <2>7, Zenon DEF CountInv, Sum
<1> QED
  BY <1>2, <1>4, <1>5, <1>6, <1>9, Zenon DEF IInv

----------------------------------------------------------------------------
(* The steps of Next.                                                      *)

(* The tasks without one that counts no call count the same calls.         *)
LEMMA ServedStands ==
  ASSUME IInv, NEW t, t \notin Counting(tasks)
  PROVE  Stands(tasks \ {t})
<1>1. Counting(tasks \ {t}) = Counting(tasks)
  BY Zenon DEF Counting
<1> QED
  BY <1>1, TasksStand, Zenon DEF Stands, TasksOK, Counted

(* So do those with the next part of a task that has completed a future.   *)
LEMMA CompletedStands ==
  ASSUME IInv, NEW t \in tasks, t.kind = "complete"
  PROVE  Stands((tasks \ {t}) \cup {[t EXCEPT !.kind = "decrease"]})
<1>1. PICK u : u = [t EXCEPT !.kind = "decrease"]
  BY Zenon
<1>2. /\ u \in TaskType /\ u.worker = t.worker /\ u.msg = t.msg /\ u.kind = "decrease"
      /\ t \in TaskType
  BY <1>1, Zenon DEF IInv, TypeInv, TaskType, Kind
<1>3. /\ t \in Counting(tasks)
      /\ \A v \in Counting((tasks \ {t}) \cup {u}) : v \in Counting(tasks) \ {t} \/ v = u
      /\ u \in Counting((tasks \ {t}) \cup {u})
      /\ Counting(tasks) \ {t} \subseteq Counting((tasks \ {t}) \cup {u})
  BY <1>2, Zenon DEF Counting
<1>4. TasksOK((tasks \ {t}) \cup {u})
  <2>1. \A v \in Counting((tasks \ {t}) \cup {u}) :
          v.worker = v.msg.from /\ v.msg.id \in isComplete
    BY <1>2, <1>3, Zenon DEF IInv, TasksOK
  <2>2. ASSUME NEW v \in Counting((tasks \ {t}) \cup {u}),
               NEW x \in Counting((tasks \ {t}) \cup {u}), v.msg = x.msg
        PROVE  v = x
    BY <1>2, <1>3, <2>2, Zenon DEF IInv, TasksOK
  <2> QED
    BY <2>1, <2>2, Zenon DEF TasksOK
<1>5. ASSUME NEW w \in Worker PROVE Counted((tasks \ {t}) \cup {u}, w) = Counted(tasks, w)
  <2>1. ASSUME NEW m \in Counted((tasks \ {t}) \cup {u}, w) PROVE m \in Counted(tasks, w)
    <3>1. PICK v \in Counting((tasks \ {t}) \cup {u}) : v.worker = w /\ v.msg = m
      BY <2>1, Zenon DEF Counted
    <3>2. \E x \in Counting(tasks) : x.worker = w /\ x.msg = m
      BY <1>2, <1>3, <3>1, Zenon
    <3> QED
      BY <3>2, Zenon DEF Counted
  <2>2. ASSUME NEW m \in Counted(tasks, w) PROVE m \in Counted((tasks \ {t}) \cup {u}, w)
    <3>1. PICK v \in Counting(tasks) : v.worker = w /\ v.msg = m
      BY <2>2, Zenon DEF Counted
    <3>2. \E x \in Counting((tasks \ {t}) \cup {u}) : x.worker = w /\ x.msg = m
      BY <1>2, <1>3, <3>1, Zenon
    <3> QED
      BY <3>2, Zenon DEF Counted
  <2> QED
    BY <2>1, <2>2, Zenon
<1>6. \A v \in (tasks \ {t}) \cup {u} : v \in TaskType /\ v.msg \in Known
  BY <1>2, Places, Zenon DEF IInv, TypeInv
<1> QED
  BY <1>1, <1>4, <1>5, <1>6, Zenon DEF Stands

(* A task that the serving of a request adds counts no call.               *)
LEMMA RequestStands ==
  ASSUME IInv, NEW w \in Worker, NEW m \in Known
  PROVE  Stands(tasks \cup {Task(w, "serve", m)})
<1>1. /\ Task(w, "serve", m) \in TaskType /\ Task(w, "serve", m).kind = "serve"
      /\ Task(w, "serve", m).msg = m
  BY Zenon DEF Task, TaskType, Kind, Known
<1>2. Counting(tasks \cup {Task(w, "serve", m)}) = Counting(tasks)
  BY <1>1, Zenon DEF Counting
<1>3. /\ tasks \cup {Task(w, "serve", m)} \subseteq TaskType
      /\ \A t \in tasks \cup {Task(w, "serve", m)} : t.msg \in Known
  BY <1>1, Places, Zenon DEF IInv, TypeInv
<1> QED
  BY <1>2, <1>3, TasksStand, Zenon DEF Stands, TasksOK, Counted

(* What is left of a task that is done, or that has sent its call.         *)
LEMMA AfterStands ==
  ASSUME IInv, NEW t, t \in TaskType, t.kind # "decrease",
         t.kind \in {"serve", "complete"} => t \in tasks
  PROVE  /\ Stands(TasksAfter(t))
         /\ DeferredAfter(t) \subseteq Message /\ DeferredAfter(t) \subseteq Known
<1>1. CASE t.kind = "complete"
  <2>1. TasksAfter(t) = (tasks \ {t}) \cup {[t EXCEPT !.kind = "decrease"]}
    BY <1>1, Zenon DEF TasksAfter
  <2>2. t.kind # "serve"
    BY <1>1
  <2>3. DeferredAfter(t) = deferred
    BY <2>2, Zenon DEF DeferredAfter
  <2> QED
    BY <1>1, <2>1, <2>3, CompletedStands, Places, Zenon DEF IInv, TypeInv
<1>2. CASE t.kind # "complete"
  <2>1. TasksAfter(t) = tasks \ {t}
    BY <1>2, Zenon DEF TasksAfter
  <2>2. t \notin Counting(tasks)
    BY <1>2, Zenon DEF Counting
  <2>3. t.kind = "serve" => t.msg \in Known
    BY Places, Zenon DEF IInv
  <2>4. DeferredAfter(t) \subseteq Known /\ DeferredAfter(t) \subseteq Message
    BY <2>3, Places, Zenon DEF DeferredAfter, IInv, TypeInv, TaskType
  <2> QED
    BY <2>1, <2>2, <2>4, ServedStands, Zenon
<1> QED
  BY <1>1, <1>2, Zenon

(* A handler, or the callbacks of a future, run.                           *)
LEMMA Followed ==
  ASSUME IInv, NEW t \in tasks, t.kind \in {"serve", "complete"}, ~Busy(t), NEW by,
         NEW above \in SUBSET MessageID, Follow(t, by, above)
  PROVE  IInv'
<1>1. /\ t \in TaskType /\ t.worker \in Worker /\ t.msg \in Message
      /\ t.kind # "decrease"
  BY Zenon DEF IInv, TypeInv, TaskType
<1>2. CASE /\ tasks' = TasksAfter(t) /\ deferred' = DeferredAfter(t)
           /\ UNCHANGED <<setup, pc, calls, timer, pipes, total>>
  <2>1. UNCHANGED <<nextMessageID, sending, thrown, clientActiveCalls, pending, isComplete,
                    timeoutMap, requests, responses>>
    BY <1>2, Zenon DEF calls, entering, futures, timer, pipes
  <2>2. Around
    <3>1. \A w \in Worker : \A m \in timeoutMap[w] : m \in Known /\ m.from = w
      BY Places, Zenon DEF IInv, PlaceInv
    <3>2. deferred' \subseteq Message /\ deferred' \subseteq Known
      BY <1>1, <1>2, AfterStands, Zenon
    <3> QED
      BY <2>1, <3>1, <3>2, SamePipes, Zenon DEF Around, IInv, TypeInv
  <2>3. SendsKept
    <3>1. \A u \in sending : u.by # t
      BY Zenon DEF Busy
    <3>2. tasks \ {t} \subseteq tasks'
      BY <1>2, Zenon DEF TasksAfter
    <3> QED
      BY <2>1, <3>1, <3>2, SameSends, Zenon
  <2>4. Stands(tasks')
    BY <1>1, <1>2, AfterStands, Zenon
  <2> QED
    BY <2>1, <2>2, <2>3, <2>4, Stays, Zenon
<1>3. CASE /\ t.msg.chain # <<>>
           /\ \E to \in Worker \ {t.worker} :
                enter(Request(t.worker, to, Tail(t.msg.chain), Never, above), t)
  <2>1. Tail(t.msg.chain) \in Seq(Link) /\ Never \in Expiries \cup {Never}
    BY <1>1, <1>3 DEF Message
  <2>2. PICK to \in Worker \ {t.worker} :
          enter(Request(t.worker, to, Tail(t.msg.chain), Never, above), t)
    BY <1>3, Zenon
  <2> QED
    BY <1>1, <2>1, <2>2, Entered, Zenon
<1> QED
  BY <1>2, <1>3, Zenon DEF Follow

(* The application makes a call.                                           *)
LEMMA CallStep ==
  ASSUME IInv, NEW w \in Worker, Call(w)
  PROVE  IInv'
<1>1. PICK to \in Worker \ {w}, chain \in Chains, expiry \in Expiries :
        enter(Request(w, to, chain, expiry, {}),
              Task(w, "call", Request(w, to, chain, expiry, {})))
  BY Zenon DEF Call
<1>2. /\ chain \in Seq(Link) /\ expiry \in Expiries \cup {Never}
      /\ {} \in SUBSET MessageID
  BY ChainsAssumption, Zenon
<1>3. PICK m : m = Request(w, to, chain, expiry, {})
  BY Zenon
<1>4. PICK t : t = Task(w, "call", m)
  BY Zenon
<1>5. t.kind = "call" /\ (m \in Message => t \in TaskType)
  BY <1>4, Zenon DEF Task, TaskType, Kind
<1>6. t.kind \notin {"serve", "complete"} /\ t.kind # "decrease"
  BY <1>5
<1>7. enter(m, t)
  BY <1>1, <1>3, <1>4, Zenon
<1> QED
  BY <1>2, <1>3, <1>5, <1>6, <1>7, Entered, Zenon

(* A future is completed, or the count decreased.                          *)
LEMMA completeStep ==
  ASSUME IInv, NEW t \in tasks, complete(t)
  PROVE  IInv'
<1>1. CASE t.kind = "complete" /\ ~Busy(t) /\ Follow(t, "callback", t.msg.above)
  <2>1. t.msg.above \in SUBSET MessageID
    BY Zenon DEF IInv, TypeInv, TaskType, Message
  <2> QED
    BY <1>1, <2>1, Followed, Zenon
<1> QED
  BY <1>1, Decreased, Zenon DEF complete

(* The handler of a request runs.                                          *)
LEMMA runHandlerStep ==
  ASSUME IInv, NEW t \in tasks, runHandler(t)
  PROVE  IInv'
<1>1. /\ t.kind = "serve" /\ ~Busy(t)
      /\ Follow(t, "handler", t.msg.above \cup {t.msg.id})
  BY Zenon DEF runHandler
<1>2. t.msg.above \cup {t.msg.id} \in SUBSET MessageID
  BY Zenon DEF IInv, TypeInv, TaskType, Message
<1> QED
  BY <1>1, <1>2, Followed, Zenon

(* The rest of send(): the call is counted and written, or it throws.      *)
LEMMA sendStep ==
  ASSUME IInv, NEW u \in sending, send(u)
  PROVE  IInv'
<1> DEFINE m == u.msg
           w == m.from
           p == <<w, m.to>>
           t == u.by
<1>1. /\ u \in SendType /\ m \in Message /\ m \in Known /\ w \in Worker
      /\ t \in TaskType /\ m \notin thrown
      /\ t.kind \in {"serve", "complete"} => t \in tasks
  BY Places, Zenon DEF IInv, TypeInv, SendType, Message, SendingInv
<1>2. /\ sending' = sending \ {u} /\ deferred' = DeferredAfter(t)
      /\ UNCHANGED <<nextMessageID, pending, responses>>
      /\ \/ /\ thrown' = thrown \cup {m} /\ tasks' = TasksAfter(t)
            /\ UNCHANGED <<isComplete, clientActiveCalls, timeoutMap, requests>>
         \/ /\ UNCHANGED thrown
            /\ clientActiveCalls' = [clientActiveCalls EXCEPT ![w] = @ + 1]
            /\ timeoutMap' = [timeoutMap EXCEPT ![w] =
                               IF m.expiry = Never THEN @ ELSE @ \cup {m}]
            /\ \/ /\ requests' = [requests EXCEPT ![p] = Append(@, m)]
                  /\ tasks' = TasksAfter(t) /\ UNCHANGED isComplete
               \/ /\ markFutures({m} \cap pending[w], FALSE, TasksAfter(t))
                  /\ UNCHANGED requests
  BY Zenon DEF send
<1> HIDE DEF t, p, w, m
<1>3. t.kind # "decrease"
  BY Zenon DEF IInv, SendingInv, t
<1>4. /\ Stands(TasksAfter(t)) /\ deferred' \subseteq Message /\ deferred' \subseteq Known
  BY <1>1, <1>2, <1>3, AfterStands, Zenon
<1>5. PipesKept
  <2>1. CASE requests' = requests
    BY <1>2, <2>1, SamePipes, Zenon
  <2>2. CASE p \in Pipe /\ requests' = [requests EXCEPT ![p] = Append(@, m)]
    <3>1. requests[p] \in Seq(Message) /\ requests \in [Pipe -> Seq(Message)]
      BY <2>2, Zenon DEF IInv, TypeInv
    <3>2. /\ Append(requests[p], m) \in Seq(Message)
          /\ Elems(Append(requests[p], m)) \subseteq Elems(requests[p]) \cup {m}
      BY <1>1, <3>1, ElemsAppend
    <3>3. /\ requests' \in [Pipe -> Seq(Message)]
          /\ requests'[p] = Append(requests[p], m)
          /\ \A q \in Pipe : q # p => requests'[q] = requests[q]
      BY <2>2, <3>1, <3>2, Zenon
    <3>4. \A q \in Pipe : \A n \in Elems(requests'[q]) :
            n \in Elems(requests[q]) \/ (q = p /\ n = m)
      BY <3>2, <3>3, Zenon
    <3>5. p[1] = m.from
      BY Zenon DEF p, w
    <3>6. \A q \in Pipe : \A n \in Elems(requests[q]) \cup Elems(responses[q]) :
            n \in Known /\ n.from = q[1]
      BY Places, Zenon DEF IInv, PlaceInv
    <3> QED
      BY <1>1, <1>2, <3>3, <3>4, <3>5, <3>6, Zenon DEF PipesKept, IInv, TypeInv
  <2>3. CASE p \notin Pipe /\ requests' = [requests EXCEPT ![p] = Append(@, m)]
    <3>1. requests' = requests
      BY <2>3, Zenon DEF IInv, TypeInv
    <3> QED
      BY <2>1, <3>1, Zenon
  <2> QED
    BY <1>2, <2>1, <2>2, <2>3, Zenon
<1>6. Around
  <2>1. timeoutMap \in [Worker -> SUBSET Message]
    BY Zenon DEF IInv, TypeInv
  <2>2. \A x \in Worker : \A n \in timeoutMap[x] : n \in Known /\ n.from = x
    BY Places, Zenon DEF IInv, PlaceInv
  <2>3. CASE timeoutMap' = timeoutMap
    BY <1>2, <1>4, <1>5, <2>1, <2>2, <2>3, Zenon DEF Around
  <2>4. CASE timeoutMap' = [timeoutMap EXCEPT ![w] =
                              IF m.expiry = Never THEN @ ELSE @ \cup {m}]
    <3>1. \A x \in Worker : timeoutMap'[x] \subseteq timeoutMap[x] \cup IF x = w THEN {m} ELSE {}
      BY <1>1, <2>1, <2>4, Zenon
    <3>2. timeoutMap' \in [Worker -> SUBSET Message]
      BY <1>1, <2>1, <2>4, Zenon
    <3>3. m.from = w
      BY Zenon DEF w
    <3>4. \A x \in Worker : \A n \in timeoutMap'[x] : n \in Known /\ n.from = x
      BY <1>1, <2>2, <3>1, <3>3, Zenon
    <3> QED
      BY <1>2, <1>4, <1>5, <3>2, <3>4, Zenon DEF Around
  <2> QED
    BY <1>2, <2>3, <2>4, Zenon
<1>7. SendsKept
  <2>1. \A v \in sending' : v \in sending /\ v # u
    BY <1>2, Zenon
  <2>2. \A v \in sending' : v.msg # m
    BY <2>1, Zenon DEF IInv, SendingInv, m
  <2>3. \A n \in thrown' : n \in thrown \/ n = m
    BY <1>2, Zenon
  <2>4. SendingInv'
    <3>1. tasks \ {t} \subseteq tasks'
      BY <1>2, Zenon DEF markFutures, TasksAfter
    <3>2. ASSUME NEW v \in sending', v.by.kind \in {"serve", "complete"}
          PROVE  v.by \in tasks'
      <4>1. v.by \in tasks /\ v.by # t
        BY <2>1, <3>2, Zenon DEF IInv, SendingInv, t
      <4> QED
        BY <3>1, <4>1, Zenon
    <3>3. \A v \in sending' : v.msg \notin thrown' /\ v.by.kind # "decrease"
      BY <2>1, <2>2, <2>3, Zenon DEF IInv, SendingInv
    <3>4. \A v, k \in sending' :
            v.msg = k.msg \/ (v.by.kind \in {"serve", "complete"} /\ v.by = k.by) => v = k
      BY <2>1, Zenon DEF IInv, SendingInv
    <3> QED
      BY <3>2, <3>3, <3>4, Zenon DEF SendingInv
  <2>5. thrown' \subseteq Message /\ thrown' \subseteq Known
    BY <1>1, <2>3, Places, Zenon DEF IInv, TypeInv
  <2>6. CASE thrown' = thrown \cup {m} /\ clientActiveCalls' = clientActiveCalls
    <3>1. \A n : (n \in thrown' \/ \E v \in sending' : v.msg = n)
                   <=> (n \in thrown \/ \E v \in sending : v.msg = n)
      BY <1>2, <2>1, <2>6, Zenon DEF m
    <3>2. \A x : Uncounted(x)' = Uncounted(x)
      BY <3>1, Zenon DEF Uncounted
    <3>3. \A x \in Worker : IsFiniteSet(Uncounted(x)') /\ Sum(x)' = Sum(x)
      BY <2>6, <3>2, Zenon DEF Sum, IInv, CountInv
    <3> QED
      BY <2>1, <2>4, <2>5, <2>6, <3>3, Zenon DEF SendsKept, IInv, TypeInv
  <2>7. CASE thrown' = thrown /\ clientActiveCalls' = [clientActiveCalls EXCEPT ![w] = @ + 1]
    <3>1. /\ clientActiveCalls' \in [Worker -> Int]
          /\ clientActiveCalls'[w] = clientActiveCalls[w] + 1
          /\ clientActiveCalls[w] \in Int
          /\ \A x \in Worker : x # w => clientActiveCalls'[x] = clientActiveCalls[x]
      BY <1>1, <2>7 DEF IInv, TypeInv
    <3>2. \A n : (\E v \in sending' : v.msg = n) <=> (n # m /\ \E v \in sending : v.msg = n)
      BY <1>2, <2>1, <2>2, Zenon DEF m
    <3>3. ASSUME NEW x, NEW n
          PROVE  n \in Uncounted(x)' <=> n \in Uncounted(x) /\ n # m
      <4>1. n \in Uncounted(x)' <=>
              n.from = x /\ (n \in thrown' \/ \E v \in sending' : v.msg = n)
        BY InUncounted, Zenon
      <4>2. n \in Uncounted(x) <=>
              n.from = x /\ (n \in thrown \/ \E v \in sending : v.msg = n)
        BY InUncounted, Zenon
      <4> QED
        BY <1>1, <2>7, <3>2, <4>1, <4>2, Zenon
    <3>4. m.from = w /\ m \in Uncounted(w) /\ \A x : m \in Uncounted(x) => x = w
      <4>1. m.from = w /\ \E v \in sending : v.msg = m
        BY Zenon DEF w, m
      <4> QED
        BY <4>1, InUncounted, Zenon
    <3>5. ASSUME NEW x, x # w PROVE Uncounted(x)' = Uncounted(x)
      <4>1. m \notin Uncounted(x)
        BY <3>5, <3>4, Zenon
      <4>2. \A n : n \in Uncounted(x)' <=> n \in Uncounted(x)
        BY <3>3, <4>1, Zenon
      <4> QED
        BY <4>2, Zenon
    <3>6. Uncounted(w)' = Uncounted(w) \ {m} /\ m \in Uncounted(w)
      BY <3>3, <3>4, Zenon
    <3>7. \A x \in Worker : IsFiniteSet(Uncounted(x))
      BY Zenon DEF IInv, CountInv
    <3>8. IsFiniteSet(Uncounted(w)') /\ Sum(w)' = Sum(w)
      <4> DEFINE U == Uncounted(w)
      <4>1. IsFiniteSet(U) /\ m \in U
        BY <1>1, <3>6, <3>7, Zenon
      <4> HIDE DEF U
      <4>2. IsFiniteSet(U \ {m}) /\ Cardinality(U \ {m}) = Cardinality(U) - 1
        BY <4>1, FS_RemoveElement, Zenon
      <4>3. Cardinality(U) \in Nat
        BY <4>1, FS_CardinalityType, Zenon
      <4>4. clientActiveCalls'[w] + Cardinality(U \ {m}) = clientActiveCalls[w] + Cardinality(U)
        BY <3>1, <4>2, <4>3
      <4> QED
        BY <3>6, <4>2, <4>4, Zenon DEF Sum, U
    <3>9. \A x \in Worker : IsFiniteSet(Uncounted(x)') /\ Sum(x)' = Sum(x)
      BY <3>1, <3>5, <3>7, <3>8, Zenon DEF Sum
    <3> QED
      BY <2>1, <2>4, <2>5, <3>1, <3>9, Zenon DEF SendsKept
  <2> QED
    BY <1>2, <2>6, <2>7, Zenon
<1>8. CASE tasks' = TasksAfter(t) /\ UNCHANGED isComplete
  BY <1>2, <1>4, <1>6, <1>7, <1>8, Stays, Zenon
<1>9. CASE markFutures({m} \cap pending[w], FALSE, TasksAfter(t))
  <2> DEFINE M == {m} \cap pending[w]
  <2>1. M \subseteq Known /\ (\A n \in M : n.from = w) /\ {} \subseteq M
    BY <1>1, Zenon DEF w
  <2>2. pending' = [pending EXCEPT ![w] = @ \ {}]
    BY <1>2, Zenon DEF IInv, TypeInv
  <2>3. markFutures(M, FALSE, TasksAfter(t))
    BY <1>9, Zenon
  <2> HIDE DEF M
  <2> QED
    BY <1>1, <1>4, <1>6, <1>7, <2>1, <2>2, <2>3, Marked, Zenon
<1> QED
  BY <1>2, <1>8, <1>9, Zenon

(* A request is read off its pipe.                                         *)
LEMMA respondStep ==
  ASSUME IInv, NEW p \in Pipe, respond(p)
  PROVE  IInv'
<1> DEFINE m == Head(requests[p])
<1>1. requests[p] \in Seq(Message) /\ requests[p] # <<>> /\ requests \in [Pipe -> Seq(Message)]
  BY Zenon DEF respond, IInv, TypeInv
<1>2. /\ m \in Elems(requests[p]) /\ Tail(requests[p]) \in Seq(Message)
      /\ Elems(Tail(requests[p])) \subseteq Elems(requests[p])
  BY <1>1, ElemsTail, Zenon
<1>3. /\ requests' \in [Pipe -> Seq(Message)]
      /\ requests'[p] = Tail(requests[p])
      /\ \A q \in Pipe : q # p => requests'[q] = requests[q]
  BY <1>1, <1>2, Zenon DEF respond
<1>4. /\ tasks' = tasks \cup {Task(p[2], "serve", m)}
      /\ UNCHANGED <<nextMessageID, sending, thrown, clientActiveCalls, pending, isComplete,
                     timeoutMap, responses, deferred>>
  BY Zenon DEF respond, calls, entering, futures, timer
<1>5. PipesKept
  <2>1. \A q \in Pipe : Elems(requests'[q]) \subseteq Elems(requests[q])
    BY <1>2, <1>3, Zenon
  <2> QED
    BY <1>3, <1>4, <2>1, Places, Zenon DEF PipesKept, IInv, TypeInv, PlaceInv
<1>6. m \in Known /\ p[2] \in Worker
  BY <1>2, Places, Zenon DEF IInv, Pipe
<1>7. Stands(tasks')
  BY <1>4, <1>6, RequestStands, Zenon
<1>8. Around
  BY <1>4, <1>5, SameAround, Zenon
<1>9. SendsKept
  BY <1>4, SameSends, Zenon
<1> QED
  BY <1>4, <1>7, <1>8, <1>9, Stays, Zenon

(* The response is written, unless the pipe or the agent is gone.          *)
LEMMA responseStep ==
  ASSUME IInv, NEW m \in deferred, sendCompletedResponseMessage(m)
  PROVE  IInv'
<1> DEFINE p == <<m.from, m.to>>
<1>1. /\ UNCHANGED <<nextMessageID, sending, thrown, clientActiveCalls, pending, isComplete,
                     timeoutMap, requests, tasks>>
      /\ deferred' = deferred \ {m}
      /\ responses' = responses \/ responses' = [responses EXCEPT ![p] = Append(@, m)]
  BY Zenon DEF sendCompletedResponseMessage, calls, entering, futures, timer
<1>2. m \in Known /\ m \in Message /\ p[1] = m.from
  BY Places, Zenon DEF IInv, Known
<1>3. PipesKept
  <2>1. responses \in [Pipe -> Seq(Message)]
    BY Zenon DEF IInv, TypeInv
  <2>2. CASE responses' = responses
    BY <1>1, <2>2, SamePipes, Zenon
  <2>3. CASE p \in Pipe /\ responses' = [responses EXCEPT ![p] = Append(@, m)]
    <3>1. responses[p] \in Seq(Message)
      BY <2>1, <2>3, Zenon
    <3>2. /\ Append(responses[p], m) \in Seq(Message)
          /\ Elems(Append(responses[p], m)) \subseteq Elems(responses[p]) \cup {m}
      BY <1>2, <3>1, ElemsAppend
    <3> HIDE DEF p
    <3>3. /\ responses' \in [Pipe -> Seq(Message)]
          /\ responses'[p] = Append(responses[p], m)
          /\ \A q \in Pipe : q # p => responses'[q] = responses[q]
      BY <2>1, <2>3, <3>2, Zenon
    <3>4. \A q \in Pipe : \A n \in Elems(responses'[q]) :
            n \in Elems(responses[q]) \/ (q = p /\ n = m)
      BY <3>2, <3>3, Zenon
    <3> QED
      BY <1>1, <1>2, <3>3, <3>4, Places, ZenonT(40) DEF PipesKept, IInv, TypeInv, PlaceInv
  <2>4. CASE p \notin Pipe /\ responses' = [responses EXCEPT ![p] = Append(@, m)]
    <3>1. responses' = responses
      BY <2>1, <2>4, Zenon
    <3> QED
      BY <2>2, <3>1, Zenon
  <2> QED
    BY <1>1, <2>2, <2>3, <2>4, Zenon
<1>4. Around
  <2>1. deferred' \subseteq Message /\ deferred' \subseteq Known
    BY <1>1, Places, Zenon DEF IInv, TypeInv
  <2>2. \A w \in Worker : \A n \in timeoutMap[w] : n \in Known /\ n.from = w
    BY Places, Zenon DEF IInv, PlaceInv
  <2> QED
    BY <1>1, <1>3, <2>1, <2>2, Zenon DEF Around, IInv, TypeInv
<1>5. SendsKept
  BY <1>1, SameSends, Zenon
<1> QED
  BY <1>1, <1>4, <1>5, TasksStand, Stays, Zenon

(* A response is read: the call it answers is marked, if nobody has done   *)
(* so before.                                                              *)
LEMMA readResponseStep ==
  ASSUME IInv, NEW p \in Pipe, readResponse(p)
  PROVE  IInv'
<1>1. PICK m : m = Head(responses[p])
  BY Zenon
<1>2. PICK w : w = p[1]
  BY Zenon
<1>3. responses[p] \in Seq(Message) /\ responses[p] # <<>> /\ responses \in [Pipe -> Seq(Message)]
  BY Zenon DEF readResponse, IInv, TypeInv
<1>4. /\ m \in Elems(responses[p]) /\ Tail(responses[p]) \in Seq(Message)
      /\ Elems(Tail(responses[p])) \subseteq Elems(responses[p])
  BY <1>1, <1>3, ElemsTail, Zenon
<1>5. m \in Known /\ m.from = w /\ w \in Worker
  BY <1>2, <1>4, Places, Zenon DEF IInv, PlaceInv, Pipe
<1>6. /\ responses' = [responses EXCEPT ![p] = Tail(@)]
      /\ pending' = [pending EXCEPT ![w] = @ \ {m}]
      /\ timeoutMap' = [timeoutMap EXCEPT ![w] =
                          {e \in @ : e.id # m.id \/ e.expiry # Head(armed[p])}]
      /\ markFutures({m}, TRUE, tasks)
      /\ UNCHANGED <<nextMessageID, sending, thrown, clientActiveCalls, requests, deferred>>
  BY <1>1, <1>2, Zenon DEF readResponse, entering
<1>7. /\ responses' \in [Pipe -> Seq(Message)] /\ responses'[p] = Tail(responses[p])
      /\ \A q \in Pipe : q # p => responses'[q] = responses[q]
  BY <1>3, <1>4, <1>6, Zenon
<1>8. PipesKept
  <2>1. \A q \in Pipe : Elems(responses'[q]) \subseteq Elems(responses[q])
    BY <1>4, <1>7, Zenon
  <2> QED
    BY <1>6, <1>7, <2>1, Places, Zenon DEF PipesKept, IInv, TypeInv, PlaceInv
<1>9. /\ timeoutMap' \in [Worker -> SUBSET Message]
      /\ \A x \in Worker : timeoutMap'[x] \subseteq timeoutMap[x]
  BY <1>5, <1>6, Zenon DEF IInv, TypeInv
<1>10. {m} \subseteq Known /\ {m} \subseteq {m} /\ \A n \in {m} : n.from = w
  BY <1>5, Zenon
<1>11. Around
  BY <1>6, <1>8, <1>9, FewerAround, Zenon
<1>12. SendsKept
  BY <1>6, MarkedSends, Zenon
<1> QED
  BY <1>5, <1>6, <1>10, <1>11, <1>12, TasksStand, Marked, Zenon

(* A read fails: everything pending on the pipe is marked.                 *)
LEMMA readErrorStep ==
  ASSUME IInv, NEW p \in Pipe, readError(p)
  PROVE  IInv'
<1>1. PICK w : w = p[1]
  BY Zenon
<1>2. PICK M : M = {m \in pending[w] : m.to = p[2]}
  BY Zenon
<1>3. w \in Worker
  BY <1>1, Zenon DEF Pipe
<1>4. /\ pending' = [pending EXCEPT ![w] = @ \ M] /\ markFutures(M, FALSE, tasks)
      /\ UNCHANGED <<nextMessageID, sending, thrown, clientActiveCalls, timeoutMap,
                     requests, responses, deferred>>
  BY <1>1, <1>2, Zenon DEF readError, entering, timer
<1>5. M \subseteq Known /\ M \subseteq M /\ \A m \in M : m.from = w
  BY <1>2, <1>3, Places, Zenon DEF IInv, PlaceInv
<1>6. Around
  BY <1>4, SamePipes, SameAround, Zenon
<1>7. SendsKept
  BY <1>4, MarkedSends, Zenon
<1> QED
  BY <1>3, <1>4, <1>5, <1>6, <1>7, TasksStand, Marked, Zenon

(* A step that changes nothing the invariant is about.                     *)
LEMMA Quiet ==
  ASSUME IInv, UNCHANGED <<calls, timeoutMap, requests, responses, tasks, deferred>>
  PROVE  IInv'
<1>1. UNCHANGED <<nextMessageID, sending, thrown, clientActiveCalls, pending, isComplete,
                  timeoutMap, requests, responses, tasks, deferred>>
  BY Zenon DEF calls, entering, futures
<1>2. Around /\ SendsKept
  BY <1>1, SamePipes, SameAround, SameSends, Zenon
<1> QED
  BY <1>1, <1>2, TasksStand, Stays, Zenon

(* The calls that expire are marked.                                       *)
LEMMA pollTimeoutStep ==
  ASSUME IInv, NEW w \in Worker, pollTimeoutRpcs(w)
  PROVE  IInv'
<1>1. /\ UNCHANGED <<entering, early, pending, clientActiveCalls, deferred>>
      /\ UNCHANGED <<nextMessageID, sending, thrown, requests, responses>>
  BY Zenon DEF pollTimeoutRpcs, entering, pipes
<1>2. CASE \E M : /\ M \subseteq timeoutMap[w]
                  /\ timeoutMap' = [timeoutMap EXCEPT ![w] = @ \ M]
                  /\ markFutures(M, FALSE, tasks)
  <2>1. PICK M : /\ M \subseteq timeoutMap[w]
                 /\ timeoutMap' = [timeoutMap EXCEPT ![w] = @ \ M]
                 /\ markFutures(M, FALSE, tasks)
    BY <1>2, Zenon
  <2>2. M \subseteq Known /\ \A m \in M : m.from = w
    BY <2>1, Places, Zenon DEF IInv, PlaceInv
  <2>3. /\ timeoutMap' \in [Worker -> SUBSET Message]
        /\ \A x \in Worker : timeoutMap'[x] \subseteq timeoutMap[x]
    BY <2>1, Zenon DEF IInv, TypeInv
  <2>4. {} \subseteq M /\ pending' = [pending EXCEPT ![w] = @ \ {}]
    BY <1>1, Zenon DEF IInv, TypeInv
  <2>5. Around
    BY <1>1, <2>3, SamePipes, FewerAround, Zenon
  <2>6. SendsKept
    BY <1>1, <2>1, MarkedSends, Zenon
  <2> QED
    BY <1>1, <2>1, <2>2, <2>4, <2>5, <2>6, TasksStand, Marked, Zenon
<1>3. CASE UNCHANGED <<timeoutMap, isComplete, failed, tasks>>
  <2>1. UNCHANGED <<calls, timeoutMap, requests, responses, tasks, deferred>>
    BY <1>1, <1>3, Zenon DEF calls, futures
  <2> QED
    BY <2>1, Quiet, Zenon
<1>4. \/ \E M : /\ M \subseteq timeoutMap[w]
               /\ timeoutMap' = [timeoutMap EXCEPT ![w] = @ \ M]
               /\ markFutures(M, FALSE, tasks)
      \/ UNCHANGED <<timeoutMap, isComplete, failed, tasks>>
  <2> DEFINE M == {m \in timeoutMap[w] : m.expiry = earliest(w)}
  <2>1. \/ /\ timeoutMap' = [timeoutMap EXCEPT ![w] = @ \ M]
           /\ markFutures(M, FALSE, tasks)
        \/ UNCHANGED <<timeoutMap, isComplete, failed, tasks>>
    BY Zenon DEF pollTimeoutRpcs
  <2>2. M \subseteq timeoutMap[w]
    BY Zenon
  <2> QED
    BY <2>1, <2>2, Zenon
<1> QED
  BY <1>2, <1>3, <1>4, Zenon

(* Pipes break, or are closed.                                             *)
LEMMA BreakStep ==
  ASSUME IInv, NEW P, BreakPipes(P), UNCHANGED <<calls, timeoutMap, tasks, deferred>>
  PROVE  IInv'
<1>1. UNCHANGED <<nextMessageID, sending, thrown, clientActiveCalls, pending, isComplete,
                  timeoutMap, tasks, deferred>>
  BY Zenon DEF calls, entering, futures
<1>2. /\ requests' \in [Pipe -> Seq(Message)] /\ responses' \in [Pipe -> Seq(Message)]
      /\ \A q \in Pipe : /\ requests'[q] = <<>> \/ requests'[q] = requests[q]
                         /\ responses'[q] = <<>> \/ responses'[q] = responses[q]
  BY DEF BreakPipes, IInv, TypeInv
<1>3. \A q \in Pipe : /\ Elems(requests'[q]) \subseteq Elems(requests[q])
                     /\ Elems(responses'[q]) \subseteq Elems(responses[q])
  BY <1>2, ElemsEmpty, Zenon
<1>4. PipesKept
  BY <1>2, <1>3, Places, Zenon DEF PipesKept, IInv, PlaceInv
<1>5. Around /\ SendsKept
  BY <1>1, <1>4, SameAround, SameSends, Zenon
<1> QED
  BY <1>1, <1>5, TasksStand, Stays, Zenon

(* Start-up, join() and shutdown().                                        *)
LEMMA MainSteps ==
  ASSUME IInv, NEW w \in Worker, MainStep(w)
  PROVE  IInv'
<1>1. CASE collectNames(w) \/ startImpl(w) \/ join(w) \/ allreduce \/ shutdown(w)
  <2>1. UNCHANGED <<calls, timeoutMap, requests, responses, tasks, deferred>>
    BY <1>1, Zenon DEF collectNames, startImpl, join, allreduce, shutdown, timer, pipes
  <2> QED
    BY <2>1, Quiet, Zenon
<1>2. CASE shutdownImpl(w)
  <2>1. UNCHANGED <<calls, timeoutMap, tasks, deferred>>
    BY <1>2, Zenon DEF shutdownImpl, timer
  <2>2. UNCHANGED pipes \/ \E P : BreakPipes(P)
    BY <1>2, Zenon DEF shutdownImpl
  <2>3. UNCHANGED pipes => UNCHANGED <<requests, responses>>
    BY Zenon DEF pipes
  <2> QED
    BY <2>1, <2>2, <2>3, Quiet, BreakStep, Zenon
<1> QED
  BY <1>1, <1>2, Zenon DEF MainStep

----------------------------------------------------------------------------
(* At first there is no call.                                              *)
LEMMA InvInit == Init => IInv
<1> SUFFICES ASSUME Init PROVE IInv
  BY Zenon
<1>1. TypeInv
  BY DEF Init, TypeInv
<1>2. /\ \A w \in Worker : pending[w] = {} /\ timeoutMap[w] = {}
      /\ \A p \in Pipe : Elems(requests[p]) = {} /\ Elems(responses[p]) = {}
      /\ tasks = {} /\ deferred = {} /\ isComplete = {} /\ sending = {} /\ thrown = {}
  BY ElemsEmpty, Zenon DEF Init
<1>3. Known = {}
  BY <1>2, Zenon DEF Known
<1>4. KnownInv /\ PlaceInv /\ TasksOK(tasks) /\ SendingInv
  BY <1>2, <1>3, Zenon DEF KnownInv, PlaceInv, TasksOK, Counting, SendingInv
<1>5. CountInv
  <2>1. \A w \in Worker : Open(w) \cup Counted(tasks, w) = {} /\ Uncounted(w) = {}
    BY <1>2, Zenon DEF Open, Counted, Counting, Uncounted
  <2>2. IsFiniteSet({}) /\ Cardinality({}) = 0
    BY FS_EmptySet, Zenon
  <2>3. \A w \in Worker : clientActiveCalls[w] = 0
    BY Zenon DEF Init
  <2>4. \A w \in Worker : clientActiveCalls[w] + Cardinality({}) = Cardinality({})
    BY <2>2, <2>3
  <2> QED
    BY <2>1, <2>2, <2>4, Zenon DEF CountInv
<1> QED
  BY <1>1, <1>4, <1>5, Zenon DEF IInv

(* Every step keeps the invariant.                                         *)
LEMMA InvNext == IInv /\ [Next]_vars => IInv'
<1> SUFFICES ASSUME IInv, [Next]_vars PROVE IInv'
  BY Zenon
<1>1. CASE PipeStep
  BY <1>1, respondStep, readResponseStep, readErrorStep, Zenon DEF PipeStep
<1>2. CASE PoolStep
  BY <1>2, completeStep, runHandlerStep, sendStep, responseStep, Zenon DEF PoolStep
<1>3. ASSUME NEW w \in Worker, Call(w) \/ MainStep(w) \/ TimerStep(w)
      PROVE  IInv'
  BY <1>3, CallStep, MainSteps, pollTimeoutStep, Zenon DEF TimerStep
<1>4. ASSUME NEW p \in Pipe, breakPipe(p)
      PROVE  IInv'
  <2>1. BreakPipes({p}) /\ UNCHANGED <<calls, timeoutMap, tasks, deferred>>
    BY <1>4, Zenon DEF breakPipe, timer
  <2> QED
    BY <2>1, BreakStep, Zenon
<1>5. CASE UNCHANGED vars
  <2>1. UNCHANGED <<calls, timeoutMap, requests, responses, tasks, deferred>>
    BY <1>5, Zenon DEF vars, timer, pipes
  <2> QED
    BY <2>1, Quiet, Zenon
<1> QED
  BY <1>1, <1>2, <1>3, <1>4, <1>5, Zenon DEF Next

(* clientActiveCalls_ counts the calls that are active, whichever of       *)
(* response, time-out, write error and read error completes a call and     *)
(* whatever calls follow from it; it is short by the calls that send() has *)
(* entered and not counted, for good where it has thrown                   *)
(* (send, markFutureAsComplete, markFutureWithError).                      *)
THEOREM CallsCounted == Spec => []CountMatches
<1>1. IInv => CountMatches
  <2> SUFFICES ASSUME IInv, NEW w \in Worker
               PROVE  clientActiveCalls[w] + Cardinality(Uncounted(w)) = Cardinality(Active(w))
    BY Zenon DEF CountMatches
  <2>1. Active(w) = Open(w) \cup Counted(tasks, w)
    BY ActiveIs, Zenon
  <2> QED
    BY <2>1, Zenon DEF IInv, CountInv
<1> QED
  BY <1>1, InvInit, InvNext, PTL DEF Spec

=============================================================================
