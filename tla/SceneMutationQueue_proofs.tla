---------------------- MODULE SceneMutationQueue_proofs ----------------------
(***************************************************************************)
(* The queue of mutations at any size: every promise is accounted for, and *)
(* of the flags asked for an object only the latest waits.                 *)
(*                                                                         *)
(* The page, the updaters and the headers follow the queue and never lead  *)
(* it: only runMutation and the end of an iteration change what waits.     *)
(* LatestFlagWaits is needed for PromisesAccounted: it says that at most   *)
(* one call can give way to a new one, which is the call that gets null.   *)
(*                                                                         *)
(* The page is behind by the updaters React has not evaluated.  TabsInv    *)
(* speaks of what is rendered; IntentsInv says what the last of the        *)
(* waiting updaters will leave of an object's intent; CountsInv says that  *)
(* the waiting updaters lead from the counts that are shown to those of    *)
(* the work that is left.                                                  *)
(* GameInv speaks of the headers on their way, as events and as waiting    *)
(* updaters, in one order: behind the last acknowledgement, from the first *)
(* fresh header on, all of them say the flag the game has.                 *)
(*                                                                         *)
(* InOrder says of the waiting calls why each may run before those behind  *)
(* it; with it the queue implements MutationCalls, which has none.         *)
(***************************************************************************)
EXTENDS SceneMutationQueue, SequenceTheorems, FiniteSetTheorems, TLAPS

Asked == [op : Ops, object : Objects \cup {NoObject}, active : Active]
Outcomes == {"none", "open", "result", "null", "error"}
Known == 1..Len(requests)

Elements(q) == {q[i] : i \in DOMAIN q}
Distinct(q) == \A i, j \in DOMAIN q : i # j => q[i] # q[j]

\* What runMutation and the loop rely on: the loop stops only when nothing waits.
Loop ==
  /\ current = None => queue = <<>>
  /\ phase # "idle" => current # None

\* The inductive invariant.
QueueInv ==
  /\ requests \in Seq(Asked) /\ Len(requests) <= MaxRequests
  /\ queue \in Seq(Known) /\ current \in Known \cup {None}
  /\ promise \in [Ids -> Outcomes]
  /\ Loop /\ PromisesAccounted /\ LatestFlagWaits

\* The page starts with nothing asked of the game.
LEMMA InitInv == Init => QueueInv
<1> SUFFICES ASSUME Init PROVE QueueInv
  OBVIOUS
<1>1. Outstanding = {}
  BY DEF Init, Outstanding, Waiting, None
<1>2. <<>> \in Seq(Asked) /\ <<>> \in Seq(Known) /\ Len(<<>>) = 0
  OBVIOUS
<1> QED
  BY <1>1, <1>2, ConstantsAssumption
     DEF Init, QueueInv, Loop, PromisesAccounted, LatestFlagWaits, Waiting, None, Outcomes

-----------------------------------------------------------------------------
\* A sequence stays one over its set when an element of it is appended, and keeps the
\* elements it has at their places.
LEMMA Appended ==
  ASSUME NEW S, NEW s \in Seq(S), NEW e \in S
  PROVE  /\ Append(s, e) \in Seq(S)
         /\ DOMAIN Append(s, e) = DOMAIN s \cup {Len(s) + 1}
         /\ Len(s) + 1 \notin DOMAIN s /\ Append(s, e)[Len(s) + 1] = e
         /\ \A i \in DOMAIN s : Append(s, e)[i] = s[i]
  OBVIOUS

\* A sequence over a set is one over a larger set.
LEMMA Wider ==
  ASSUME NEW S, NEW T, S \subseteq T, NEW s \in Seq(S)
  PROVE  s \in Seq(T)
<1>1. s \in [1..Len(s) -> T] /\ Len(s) \in Nat
  OBVIOUS
<1> QED BY <1>1

\* The loop takes the head of the queue: nothing is lost, nothing is taken twice.
LEMMA ProceedTakes ==
  ASSUME NEW n \in Nat, NEW q \in Seq(1..n), Distinct(q), Proceed(q)
  PROVE  /\ queue' \in Seq(1..n) /\ current' \in (1..n) \cup {None}
         /\ Outstanding' = Elements(q) /\ Distinct(queue') /\ current' \notin Waiting'
         /\ Loop'
         /\ \A i \in DOMAIN queue' : \E j \in DOMAIN q : queue'[i] = q[j]
<1>1. CASE q = <<>>
  <2>1. queue' = <<>> /\ current' = None /\ phase' = "idle"
    BY <1>1 DEF Proceed
  <2>2. Elements(q) = {} /\ Waiting' = {}
    BY <1>1, <2>1 DEF Elements, Waiting
  <2> QED BY <2>1, <2>2 DEF Outstanding, Distinct, Loop
<1>2. CASE q # <<>>
  <2>1. queue' = Tail(q) /\ current' = Head(q) /\ phase' = "run"
    BY <1>2 DEF Proceed
  <2>2. /\ Tail(q) \in Seq(1..n) /\ Len(Tail(q)) = Len(q) - 1 /\ Len(q) \in Nat \ {0}
        /\ Head(q) = q[1] /\ q[1] \in 1..n
        /\ \A i \in 1..(Len(q) - 1) : Tail(q)[i] = q[i + 1]
    BY <1>2
  <2>3. DOMAIN q = 1..Len(q) /\ DOMAIN queue' = 1..(Len(q) - 1)
    BY <2>1, <2>2
  <2>4. \A i \in DOMAIN queue' : i + 1 \in DOMAIN q /\ i + 1 # 1 /\ queue'[i] = q[i + 1]
    BY <2>1, <2>2, <2>3
  <2>5. Waiting' = Elements(q) \ {q[1]}
    <3>1. Waiting' \subseteq Elements(q) \ {q[1]}
      BY <2>2, <2>3, <2>4 DEF Waiting, Elements, Distinct
    <3>2. ASSUME NEW i \in DOMAIN q, q[i] # q[1]
          PROVE  q[i] \in Waiting'
      <4>1. i - 1 \in DOMAIN queue' /\ queue'[i - 1] = q[i]
        BY <3>2, <2>1, <2>2, <2>3
      <4> QED BY <4>1 DEF Waiting
    <3> QED BY <3>1, <3>2 DEF Elements
  <2>6. Outstanding' = Elements(q)
    BY <2>1, <2>2, <2>3, <2>5 DEF Outstanding, Elements, None
  <2>7. Distinct(queue')
    BY <2>3, <2>4 DEF Distinct
  <2> QED
    BY <2>1, <2>2, <2>4, <2>5, <2>6, <2>7 DEF Loop, None
<1> QED BY <1>1, <1>2

-----------------------------------------------------------------------------
\* runMutation.

\* At most one waiting call can give way.
LEMMA OneGivesWay ==
  ASSUME QueueInv, NEW op, NEW object, Replaceable(op, object) # {}
  PROVE  \E k \in DOMAIN queue :
           /\ Replaceable(op, object) = {k} /\ LastOf(Replaceable(op, object)) = k
           /\ op = "set-active" /\ Op(queue[k]) = op /\ Object(queue[k]) = object
<1> DEFINE same == Replaceable(op, object)
<1>1. PICK k \in same : TRUE
  OBVIOUS
<1>2. k \in DOMAIN queue /\ op = "set-active" /\ Op(queue[k]) = op /\ Object(queue[k]) = object
  BY <1>1 DEF Replaceable
<1>3. ASSUME NEW i \in same PROVE i = k
  <2>1. i \in DOMAIN queue /\ Op(queue[i]) = op /\ Object(queue[i]) = object
    BY DEF Replaceable
  <2>2. DOMAIN requests = Known /\ queue[i] \in Known /\ queue[k] \in Known
    BY <1>2, <2>1 DEF QueueInv, Known
  <2>3. queue[k] <= queue[i] /\ queue[i] <= queue[k]
    BY <1>2, <2>1, <2>2 DEF QueueInv, LatestFlagWaits
  <2>4. queue[i] = queue[k]
    BY <2>2, <2>3 DEF Known
  <2> QED BY <1>2, <2>1, <2>4 DEF QueueInv, PromisesAccounted
<1>4. same = {k}
  BY <1>1, <1>3
<1>5. k \in Nat
  BY <1>2 DEF QueueInv
<1>6. LastOf(same) = k
  BY <1>4, <1>5 DEF LastOf
<1> QED BY <1>2, <1>4, <1>6

\* The queue once call n has joined it or taken a place.
Enqueued(same, n) ==
  IF same # {} THEN [queue EXCEPT ![LastOf(same)] = n] ELSE Append(queue, n)

\* The queue with the new call: it holds every id once, the new one included, and what
\* gave way is out of it.
LEMMA NewQueue ==
  ASSUME QueueInv, NEW op, NEW object, NEW n, n = Len(requests) + 1, NEW same,
         same = Replaceable(op, object), NEW q, q = Enqueued(same, n)
  PROVE  /\ n \in Nat \ {0} /\ q \in Seq(1..n) /\ Distinct(q)
         /\ Elements(q) = {n} \cup {x \in Waiting : same = {} \/ x # queue[LastOf(same)]}
         /\ \A i \in DOMAIN q :
              q[i] = n \/ (i \in DOMAIN queue /\ i \notin same /\ q[i] = queue[i])
<1>1. n \in Nat \ {0} /\ n \notin Known /\ n \in 1..n /\ Known \subseteq 1..n /\ queue \in Seq(Known)
  BY DEF QueueInv, Known
<1>6. queue \in Seq(1..n)
  BY <1>1, Wider
<1>2. \A i, j \in DOMAIN queue : i # j => queue[i] # queue[j]
  BY DEF QueueInv, PromisesAccounted
<1>3. \A i \in DOMAIN queue : queue[i] \in Known
  BY <1>1
<1>4. CASE same = {}
  <2>1. q = Append(queue, n)
    BY <1>4 DEF Enqueued
  <2>2. /\ q \in Seq(1..n) /\ DOMAIN q = DOMAIN queue \cup {Len(queue) + 1}
        /\ Len(queue) + 1 \notin DOMAIN queue /\ q[Len(queue) + 1] = n
        /\ \A i \in DOMAIN queue : q[i] = queue[i]
    <3>1. /\ Append(queue, n) \in Seq(1..n)
          /\ DOMAIN Append(queue, n) = DOMAIN queue \cup {Len(queue) + 1}
          /\ Len(queue) + 1 \notin DOMAIN queue /\ Append(queue, n)[Len(queue) + 1] = n
          /\ \A i \in DOMAIN queue : Append(queue, n)[i] = queue[i]
      BY <1>1, <1>6, Appended
    <3> QED BY <2>1, <3>1
  <2>5. Distinct(q)
    BY <1>1, <1>2, <1>3, <2>2 DEF Distinct
  <2>6. Elements(q) = {n} \cup Waiting
    BY <2>2 DEF Elements, Waiting
  <2> QED BY <1>1, <1>4, <2>2, <2>5, <2>6
<1>5. CASE same # {}
  <2>1. PICK k \in DOMAIN queue : same = {k} /\ LastOf(same) = k
    BY <1>5, OneGivesWay
  <2>2. q = [queue EXCEPT ![k] = n]
    <3>1. Enqueued(same, n) = [queue EXCEPT ![LastOf(same)] = n]
      BY <1>5 DEF Enqueued
    <3> QED BY <2>1, <3>1
  <2>3. DOMAIN q = DOMAIN queue /\ q[k] = n /\ \A i \in DOMAIN queue \ {k} : q[i] = queue[i]
    BY <2>1, <2>2
  <2>4. q \in Seq(1..n)
    <3>1. [queue EXCEPT ![k] = n] \in Seq(1..n)
      BY <1>1, <1>6, <2>1
    <3> QED BY <2>2, <3>1
  <2>5. Distinct(q)
    <3>1. \A i \in DOMAIN queue : queue[i] # n
      BY <1>1, <1>3
    <3>2. ASSUME NEW i \in DOMAIN q, NEW j \in DOMAIN q, i # j PROVE q[i] # q[j]
      <4>1. i \in DOMAIN queue /\ j \in DOMAIN queue /\ queue[i] # queue[j]
        BY <1>2, <2>3, <3>2
      <4>2. CASE i = k
        BY <2>3, <3>1, <3>2, <4>1, <4>2
      <4>3. CASE j = k
        BY <2>3, <3>1, <3>2, <4>1, <4>3
      <4>4. CASE i # k /\ j # k
        BY <2>3, <4>1, <4>4
      <4> QED BY <4>2, <4>3, <4>4
    <3> QED BY <3>2 DEF Distinct
  <2>6. Elements(q) = {n} \cup {x \in Waiting : x # queue[k]}
    <3>1. ASSUME NEW i \in DOMAIN q
          PROVE  q[i] = n \/ (q[i] \in Waiting /\ q[i] # queue[k])
      BY <1>2, <2>1, <2>3 DEF Waiting
    <3>2. ASSUME NEW i \in DOMAIN queue, queue[i] # queue[k]
          PROVE  queue[i] \in Elements(q)
      BY <2>3, <3>2 DEF Elements
    <3>3. n \in Elements(q)
      BY <2>1, <2>3 DEF Elements
    <3> QED BY <3>1, <3>2, <3>3 DEF Elements, Waiting
  <2> QED BY <1>1, <1>5, <2>1, <2>3, <2>4, <2>5, <2>6
<1> QED BY <1>4, <1>5

\* The call that is replaced is answered with null, the new one waits for its answer,
\* and the game ends with the flag asked for last.
LEMMA RequestKeeps ==
  ASSUME QueueInv, NEW op \in Ops, NEW object \in Objects \cup {NoObject},
         NEW active \in Active, Request(op, object, active)
  PROVE  QueueInv'
<1> PICK n, call, same, q :
      /\ n = Len(requests) + 1
      /\ call = [op |-> op, object |-> object, active |-> active]
      /\ same = Replaceable(op, object)
      /\ q = Enqueued(same, n)
  OBVIOUS
<1>1. /\ n <= MaxRequests /\ requests' = Append(requests, call) /\ promise' = Promised(n, same)
      /\ IF current = None THEN Proceed(q)
                           ELSE queue' = q /\ UNCHANGED <<current, phase>>
  BY DEF Request, Enqueued
<1>2. /\ call \in Asked /\ n \in Nat \ {0} /\ Len(requests) \in Nat
      /\ requests \in Seq(Asked)
  BY DEF QueueInv, Asked
<1>3. /\ requests' \in Seq(Asked) /\ Len(requests') = n /\ Known' = 1..n
      /\ \A i \in Known : requests'[i] = requests[i]
      /\ requests'[n] = call
      /\ DOMAIN requests = Known /\ DOMAIN requests' = 1..n /\ 1..n = Known \cup {n}
      /\ n \notin Known
  BY <1>1, <1>2 DEF Known
<1>4. /\ q \in Seq(1..n) /\ Distinct(q)
      /\ Elements(q) = {n} \cup {x \in Waiting : same = {} \/ x # queue[LastOf(same)]}
      /\ \A i \in DOMAIN q :
           q[i] = n \/ (i \in DOMAIN queue /\ i \notin same /\ q[i] = queue[i])
  BY NewQueue
<1>5. Waiting \subseteq Known /\ current \in Known \cup {None} /\ current \notin Waiting
  BY DEF QueueInv, Waiting, PromisesAccounted
<1>6. /\ queue' \in Seq(1..n) /\ current' \in (1..n) \cup {None} /\ Loop'
      /\ Distinct(queue') /\ current' \notin Waiting'
      /\ Outstanding' = Elements(q) \cup ({current} \ {None})
      /\ \A i \in DOMAIN queue' : \E j \in DOMAIN q : queue'[i] = q[j]
  <2>1. CASE current = None
    BY <1>1, <1>2, <1>4, <2>1, ProceedTakes
  <2>2. CASE current # None
    <3>1. queue' = q /\ current' = current /\ phase' = phase
      BY <1>1, <2>2
    <3>2. Waiting' = Elements(q)
      BY <3>1 DEF Waiting, Elements
    <3>3. current \notin Elements(q)
      BY <1>3, <1>4, <1>5, <2>2
    <3> QED
      BY <1>3, <1>4, <1>5, <2>2, <3>1, <3>2, <3>3 DEF Outstanding, Loop, None
  <2> QED BY <2>1, <2>2
<1>7. \A id \in Ids : promise'[id] =
        IF id = n THEN "open"
        ELSE IF same # {} /\ id = queue[LastOf(same)] THEN "null" ELSE promise[id]
  BY <1>1 DEF Promised
<1>8. promise' \in [Ids -> Outcomes]
  BY <1>1 DEF Promised, QueueInv, Outcomes
<1>9. ASSUME same # {}
      PROVE  /\ queue[LastOf(same)] \in Waiting /\ op = "set-active"
             /\ Op(queue[LastOf(same)]) = op /\ Object(queue[LastOf(same)]) = object
  BY <1>9, OneGivesWay DEF Waiting
<1>10. \A i \in Known : requests'[i].op = Op(i) /\ requests'[i].object = Object(i)
  BY <1>3 DEF Op, Object
<1>11. requests'[n].op = op /\ requests'[n].object = object
  BY <1>3
<1>12. \A id \in Ids : promise'[id] = "open" <=> id \in Outstanding'
  <2> SUFFICES ASSUME NEW id \in Ids PROVE promise'[id] = "open" <=> id \in Outstanding'
    OBVIOUS
  <2>1. promise[id] = "open" <=> id \in Waiting \cup ({current} \ {None})
    BY DEF QueueInv, PromisesAccounted, Outstanding
  <2>2. id \in Outstanding' <=>
          \/ id = n
          \/ id \in Waiting /\ (same = {} \/ id # queue[LastOf(same)])
          \/ id \in {current} \ {None}
    BY <1>4, <1>6
  <2> QED BY <1>3, <1>5, <1>7, <1>9, <2>1, <2>2
<1>13. ASSUME NEW id \in Ids, promise'[id] = "null"
       PROVE  \E later \in DOMAIN requests' :
                /\ later > id
                /\ requests'[later].op = "set-active" /\ requests'[id].op = "set-active"
                /\ requests'[later].object = requests'[id].object
  <2>1. CASE same # {} /\ id = queue[LastOf(same)]
    <3>1. id \in Known
      BY <1>5, <1>9, <2>1
    <3>2. n > id
      BY <1>2, <3>1 DEF Known
    <3> QED BY <1>3, <1>9, <1>10, <1>11, <2>1, <3>1, <3>2
  <2>2. CASE promise[id] = "null"
    <3>1. PICK later \in DOMAIN requests :
             /\ later > id /\ Op(later) = "set-active" /\ Op(id) = "set-active"
             /\ Object(later) = Object(id)
      BY <2>2 DEF QueueInv, PromisesAccounted
    <3>2. id \in Known /\ later \in Known
      BY <1>2, <1>3, <3>1 DEF Known, Ids
    <3> QED BY <1>3, <1>10, <3>1, <3>2
  <2> QED BY <1>7, <1>13, <2>1, <2>2
<1>14. PromisesAccounted'
  BY <1>6, <1>12, <1>13 DEF PromisesAccounted, Distinct, Op, Object
<1>15. ASSUME NEW i \in DOMAIN queue', requests'[queue'[i]].op = "set-active",
              NEW later \in DOMAIN requests', requests'[later].op = "set-active",
              requests'[later].object = requests'[queue'[i]].object
       PROVE  later <= queue'[i]
  <2>1. PICK j \in DOMAIN q : queue'[i] = q[j]
    BY <1>6
  <2>2. CASE q[j] = n
    BY <1>2, <1>3, <2>1, <2>2
  <2>3. CASE j \in DOMAIN queue /\ j \notin same /\ q[j] = queue[j]
    <3>1. queue[j] \in Known
      BY <2>3 DEF QueueInv
    <3>2. Op(queue[j]) = "set-active" /\ requests'[later].object = Object(queue[j])
      BY <1>10, <1>15, <2>1, <2>3, <3>1
    <3>3. later # n
      BY <1>11, <1>15, <2>3, <3>2 DEF Replaceable
    <3>4. later \in Known
      BY <1>3, <3>3
    <3> QED
      BY <1>3, <1>10, <1>15, <2>1, <2>3, <3>2, <3>4 DEF QueueInv, LatestFlagWaits
  <2> QED BY <1>4, <2>2, <2>3
<1>16. LatestFlagWaits'
  BY <1>15 DEF LatestFlagWaits, Op, Object
<1> QED
  BY <1>1, <1>3, <1>6, <1>8, <1>14, <1>16 DEF QueueInv

-----------------------------------------------------------------------------
\* The end of an iteration answers the call and takes the next one.
LEMMA SettlesKeeps ==
  ASSUME QueueInv, NEW outcome \in {"result", "error"}, current # None, Settles(outcome)
  PROVE  QueueInv'
<1>1. promise' = [promise EXCEPT ![current] = outcome] /\ Proceed(queue) /\ requests' = requests
  BY DEF Settles, Answered
<1>2. Len(requests) \in Nat /\ queue \in Seq(1..Len(requests)) /\ Distinct(queue)
  BY DEF QueueInv, Known, PromisesAccounted, Distinct
<1>3. /\ queue' \in Seq(Known) /\ current' \in Known \cup {None} /\ Loop'
      /\ Outstanding' = Elements(queue) /\ Distinct(queue') /\ current' \notin Waiting'
      /\ \A i \in DOMAIN queue' : \E j \in DOMAIN queue : queue'[i] = queue[j]
  BY <1>1, <1>2, ProceedTakes DEF Known
<1>4. Elements(queue) = Outstanding \ {current}
  BY DEF QueueInv, PromisesAccounted, Outstanding, Waiting, Elements
<1>5. promise' \in [Ids -> Outcomes]
  BY <1>1 DEF QueueInv, Outcomes
<1>6. \A id \in Ids : promise'[id] = IF id = current THEN outcome ELSE promise[id]
  BY <1>1 DEF QueueInv
<1>7. Known' = Known
  BY <1>1 DEF Known
<1>8. \A id \in Ids : promise'[id] = "open" <=> id \in Outstanding'
  BY <1>3, <1>4, <1>6 DEF QueueInv, PromisesAccounted
<1>9. \A id \in Ids : promise'[id] = "null" =>
        \E later \in DOMAIN requests' :
          /\ later > id /\ requests'[later].op = "set-active" /\ requests'[id].op = "set-active"
          /\ requests'[later].object = requests'[id].object
  BY <1>1, <1>6 DEF QueueInv, PromisesAccounted, Op, Object
<1>10. PromisesAccounted'
  BY <1>3, <1>8, <1>9 DEF PromisesAccounted, Distinct, Op, Object
<1>11. LatestFlagWaits'
  BY <1>1, <1>3 DEF QueueInv, LatestFlagWaits, Op, Object
<1> QED
  BY <1>1, <1>3, <1>5, <1>7, <1>10, <1>11 DEF QueueInv

\* Whatever leaves the queue alone keeps the invariant, while a mutation is under way.
LEMMA OthersKeep ==
  ASSUME QueueInv, UNCHANGED <<queue, current, requests, promise>>,
         phase' = phase \/ phase # "idle"
  PROVE  QueueInv'
<1>1. Known' = Known /\ Waiting' = Waiting /\ Outstanding' = Outstanding
  BY DEF Known, Waiting, Outstanding
<1>2. PromisesAccounted' /\ LatestFlagWaits' /\ Loop'
  BY <1>1 DEF QueueInv, PromisesAccounted, LatestFlagWaits, Loop, Op, Object
<1> QED BY <1>1, <1>2 DEF QueueInv

\* What React evaluates is the state of the page.
LEMMA RenderLeaves ==
  ASSUME Render
  PROVE  UNCHANGED <<queue, current, requests, promise, phase>>
  BY DEF Render, ApplyQueued, ApplyRunning, ApplySettled, ApplyAcked, ApplySelected,
         ApplyHeader, ApplyReset, ApplyOpened, ApplyFronted, Takes

\* Every step keeps the inductive invariant.
LEMMA NextInv == QueueInv /\ [Next]_vars => QueueInv'
<1> SUFFICES ASSUME QueueInv, [Next]_vars PROVE QueueInv'
  OBVIOUS
<1>1. ASSUME NEW op \in Ops, NEW o \in Objects \cup {NoObject}, NEW active \in Active,
             Request(op, o, active)
      PROVE  QueueInv'
  BY <1>1, RequestKeeps
<1>2. CASE Executes
  BY <1>2, OthersKeep DEF Executes
<1>3. ASSUME NEW o \in Objects \cup {NoObject}, Answers(o) PROVE QueueInv'
  BY <1>3, OthersKeep DEF Answers
<1>4. CASE Completes
  <2>1. current # None
    BY <1>4 DEF Completes, QueueInv, Loop
  <2> QED BY <1>4, <2>1, SettlesKeeps DEF Completes
<1>5. ASSUME NEW changed \in BOOLEAN, Fails(changed) PROVE QueueInv'
  <2>1. current # None
    BY <1>5 DEF Fails, QueueInv, Loop
  <2> QED BY <1>5, <2>1, SettlesKeeps DEF Fails
<1>6. CASE Render
  BY <1>6, RenderLeaves, OthersKeep
<1>7. ASSUME NEW o \in Objects, OpenTab(o) \/ Select(o) \/ ReadHeader(o) PROVE QueueInv'
  BY <1>7, OthersKeep DEF OpenTab, Select, ReadHeader, Clicks
<1>8. ASSUME NEW i \in DOMAIN page.tabs, CloseTab(i) \/ SetActiveTab(i) PROVE QueueInv'
  BY <1>8, OthersKeep DEF CloseTab, SetActiveTab, Clicks
<1>9. CASE HeaderArrives
  BY <1>9, OthersKeep DEF HeaderArrives
<1>10. CASE SessionChanges
  BY <1>10, OthersKeep DEF SessionChanges
<1>11. CASE UNCHANGED vars
  BY <1>11, OthersKeep DEF vars
<1>12. CASE Finished
  BY <1>11, <1>12 DEF Finished
<1> QED
  BY <1>1, <1>2, <1>3, <1>4, <1>5, <1>6, <1>7, <1>8, <1>9, <1>10, <1>11, <1>12 DEF Next

-----------------------------------------------------------------------------
\* Every reachable state satisfies the inductive invariant.
THEOREM QueueCorrect == Spec => []QueueInv
  BY InitInv, NextInv, PTL DEF Spec

\* A promise is open exactly while its mutation waits or is processed, and only a call
\* that a later one replaced was answered with null.
THEOREM PromisesAlwaysAccounted == Spec => []PromisesAccounted
<1>1. QueueInv => PromisesAccounted
  BY DEF QueueInv
<1> QED BY QueueCorrect, <1>1, PTL

\* What waits for an object is the last call made for its flag.
THEOREM LatestAlwaysWaits == Spec => []LatestFlagWaits
<1>1. QueueInv => LatestFlagWaits
  BY DEF QueueInv
<1> QED BY QueueCorrect, <1>1, PTL

-----------------------------------------------------------------------------
\* The page: its types, and the tabs of the inspector.

Pages ==
  [pending  : [AllOps -> Nat],
   loading  : BOOLEAN,
   intent   : [Objects -> Intents],
   override : [Objects -> Active \cup {NoFlag}],
   header   : [Objects -> Headers],
   selected : Objects \cup {NoObject},
   tabs     : Seq(Objects),
   active   : Nat]

News == [object : Objects, header : Headers]

\* What the queue and the page do not hold.
BackendTypes ==
  /\ phase \in {"idle", "run", "executed", "load"}
  /\ game \in [Objects -> Active]
  /\ store \in [Objects -> Headers]
  /\ reading \subseteq Objects
  /\ news \in Seq(News)
  /\ disturbed \subseteq Objects
  /\ actions \in [clicks : Nat, resets : Nat]

Numbered == {"queued", "running", "acked", "settled"}

\* The updaters that wait are of calls that were made.
UpdatesTyped ==
  /\ updates \in Seq(Updates)
  /\ \A i \in DOMAIN updates : updates[i].kind \in Numbered => updates[i].id \in Known

Fronts(u) == u.kind = "fronted"

\* No object has two tabs, an index that waits to be brought to front is one of a tab, and
\* a page with tabs has one in front unless such an index waits.
TabsInv ==
  /\ \A i, j \in DOMAIN page.tabs : page.tabs[i] = page.tabs[j] => i = j
  /\ \A i \in DOMAIN updates : Fronts(updates[i]) => updates[i].index \in 1..Len(page.tabs)
  /\ page.active \in 0..Len(page.tabs)
  /\ page.active = 0 /\ page.tabs # <<>> => \E i \in DOMAIN updates : Fronts(updates[i])

PageInv == BackendTypes /\ UpdatesTyped /\ page \in Pages /\ TabsInv

LEMMA KnownIds ==
  ASSUME QueueInv
  PROVE  /\ Known \subseteq Ids /\ Len(requests) \in Nat /\ DOMAIN requests = Known
         /\ \A id \in Known : requests[id] \in Asked
  BY ConstantsAssumption DEF QueueInv, Known, Ids

\* The invariants type every variable.
LEMMA Types == QueueInv /\ PageInv => TypeOK
<1> SUFFICES ASSUME QueueInv, PageInv PROVE TypeOK
  OBVIOUS
<1>1. queue \in Seq(Ids)
  <2>1. Known \subseteq Ids /\ queue \in Seq(Known)
    BY KnownIds DEF QueueInv
  <2> QED BY <2>1, Wider
<1>2. current \in Ids \cup {None}
  BY KnownIds DEF QueueInv
<1>3. page \in Pages /\ updates \in Seq(Updates)
  BY DEF PageInv, UpdatesTyped
<1> QED
  BY <1>1, <1>2, <1>3 DEF TypeOK, QueueInv, PageInv, BackendTypes, Pages, Asked, Outcomes, News

-----------------------------------------------------------------------------
\* Sequences of updaters.

\* The code dispatches updaters behind those that wait.
Dispatched(more) == page' = page /\ updates' = updates \o more

LEMMA Joined ==
  ASSUME NEW S, NEW s \in Seq(S), NEW t \in Seq(S)
  PROVE  /\ s \o t \in Seq(S)
         /\ \A i \in DOMAIN (s \o t) :
              \/ i \in DOMAIN s /\ (s \o t)[i] = s[i]
              \/ i - Len(s) \in DOMAIN t /\ i > Len(s) /\ (s \o t)[i] = t[i - Len(s)]
         /\ \A i \in DOMAIN s : i \in DOMAIN (s \o t) /\ (s \o t)[i] = s[i] /\ i <= Len(s)
         /\ \A i \in DOMAIN t : i + Len(s) \in DOMAIN (s \o t) /\ (s \o t)[i + Len(s)] = t[i]
  OBVIOUS

LEMMA JoinedElements ==
  ASSUME NEW S, NEW s \in Seq(S), NEW t \in Seq(S)
  PROVE  Elements(s \o t) = Elements(s) \cup Elements(t)
<1> DEFINE c == s \o t
<1>1. /\ \A i \in DOMAIN c :
           \/ i \in DOMAIN s /\ c[i] = s[i]
           \/ i - Len(s) \in DOMAIN t /\ i > Len(s) /\ c[i] = t[i - Len(s)]
      /\ \A i \in DOMAIN s : i \in DOMAIN c /\ c[i] = s[i]
      /\ \A i \in DOMAIN t : i + Len(s) \in DOMAIN c /\ c[i + Len(s)] = t[i]
  BY Joined
<1> HIDE DEF c
<1>2. ASSUME NEW i \in DOMAIN c PROVE c[i] \in Elements(s) \cup Elements(t)
  BY <1>1 DEF Elements
<1>3. ASSUME NEW i \in DOMAIN s PROVE s[i] \in Elements(c)
  BY <1>1 DEF Elements
<1>4. ASSUME NEW i \in DOMAIN t PROVE t[i] \in Elements(c)
  <2>1. i + Len(s) \in DOMAIN c /\ c[i + Len(s)] = t[i]
    BY <1>1
  <2> QED BY <2>1 DEF Elements
<1>5. Elements(c) = Elements(s) \cup Elements(t)
  BY <1>2, <1>3, <1>4 DEF Elements
<1> QED BY <1>5 DEF c

LEMMA JoinedLength ==
  ASSUME NEW S, NEW s \in Seq(S), NEW t \in Seq(S)
  PROVE  /\ s \o t \in Seq(S) /\ Len(s \o t) = Len(s) + Len(t)
         /\ DOMAIN (s \o t) = 1..(Len(s) + Len(t))
  OBVIOUS

LEMMA Rest ==
  ASSUME NEW S, NEW s \in Seq(S), s # <<>>
  PROVE  /\ Tail(s) \in Seq(S) /\ Head(s) = s[1] /\ 1 \in DOMAIN s /\ s[1] \in S
         /\ Len(s) \in Nat \ {0} /\ Len(Tail(s)) = Len(s) - 1
         /\ \A i \in DOMAIN Tail(s) : i + 1 \in DOMAIN s /\ Tail(s)[i] = s[i + 1]
         /\ \A i \in DOMAIN s : i # 1 => i - 1 \in DOMAIN Tail(s) /\ Tail(s)[i - 1] = s[i]
  OBVIOUS

\* What the code dispatches is typed, and none of it is an index of a tab.
Typed(more, n) ==
  /\ more \in Seq(Updates)
  /\ \A i \in DOMAIN more :
       /\ more[i].kind \in Numbered => more[i].id \in 1..n
       /\ ~Fronts(more[i])

LEMMA DispatchKeeps ==
  ASSUME QueueInv, PageInv, QueueInv', Known \subseteq Known',
         NEW more, Typed(more, Len(requests')), Dispatched(more)
  PROVE  UpdatesTyped' /\ page' \in Pages /\ TabsInv'
<1>1. /\ updates' \in Seq(Updates) /\ page' = page
      /\ \A i \in DOMAIN updates' :
           \/ i \in DOMAIN updates /\ updates'[i] = updates[i]
           \/ \E j \in DOMAIN more : updates'[i] = more[j]
      /\ \A i \in DOMAIN updates : i \in DOMAIN updates' /\ updates'[i] = updates[i]
  BY Joined DEF Typed, Dispatched, PageInv, UpdatesTyped
<1>2. UpdatesTyped'
  BY <1>1 DEF UpdatesTyped, PageInv, Typed, Known
<1>3. TabsInv'
  BY <1>1 DEF TabsInv, PageInv, Typed
<1> QED BY <1>1, <1>2, <1>3 DEF PageInv

LEMMA OneTyped ==
  ASSUME NEW n, NEW u \in Updates, u.kind \in Numbered => u.id \in 1..n, ~Fronts(u)
  PROVE  Typed(<<u>>, n)
  BY DEF Typed

LEMMA TwoTyped ==
  ASSUME NEW n, NEW u, NEW v, Typed(<<u>>, n), Typed(<<v>>, n)
  PROVE  Typed(<<u, v>>, n)
<1>1. <<u>>[1] = u /\ <<v>>[1] = v /\ 1 \in DOMAIN <<u>> /\ 1 \in DOMAIN <<v>>
  OBVIOUS
<1>2. u \in Updates /\ v \in Updates
  BY DEF Typed
<1>3. /\ (u.kind \in Numbered => u.id \in 1..n) /\ ~Fronts(u)
      /\ (v.kind \in Numbered => v.id \in 1..n) /\ ~Fronts(v)
  BY <1>1 DEF Typed
<1>4. <<u, v>> \in Seq(Updates) /\ \A i \in DOMAIN <<u, v>> : <<u, v>>[i] = u \/ <<u, v>>[i] = v
  BY <1>2
<1> QED BY <1>3, <1>4 DEF Typed

LEMMA MoreTyped ==
  ASSUME NEW n, NEW s, NEW t, Typed(s, n), Typed(t, n)
  PROVE  Typed(s \o t, n)
<1>1. \A i \in DOMAIN (s \o t) : (\E j \in DOMAIN s : (s \o t)[i] = s[j])
                                 \/ (\E j \in DOMAIN t : (s \o t)[i] = t[j])
  BY Joined DEF Typed
<1>2. s \o t \in Seq(Updates)
  BY DEF Typed
<1> QED BY <1>1, <1>2 DEF Typed

-----------------------------------------------------------------------------
\* Each updater keeps the types of the page and the tabs.

\* An object is given an intent.
LEMMA WithIntentType ==
  ASSUME QueueInv, NEW intent \in [Objects -> Intents], NEW id \in Known,
         NEW status \in {"queued", "running"}
  PROVE  WithIntent(intent, id, status) \in [Objects -> Intents]
<1>1. requests[id].active \in Active
  BY KnownIds DEF Asked
<1>2. [desired |-> requests[id].active, status |-> status] \in Intents
  BY <1>1 DEF Intents
<1> QED BY <1>2 DEF WithIntent

LEMMA ReconciledType ==
  ASSUME QueueInv, NEW intent \in [Objects -> Intents], NEW id \in Known
  PROVE  Reconciled(intent, id) \in [Objects -> Intents]
<1> DEFINE same == {i \in DOMAIN queue : Op(queue[i]) = "set-active" /\ Object(queue[i]) = Object(id)}
<1>1. NoIntent \in Intents
  BY DEF Intents
<1>2. [intent EXCEPT ![Object(id)] = NoIntent] \in [Objects -> Intents]
  BY <1>1
<1>3. CASE same = {}
  BY <1>2, <1>3 DEF Reconciled
<1>4. CASE same # {}
  <2>1. PICK k \in DOMAIN queue : k \in same
    BY <1>4
  <2>2. Op(queue[k]) = "set-active" /\ Object(queue[k]) = Object(id)
    BY <2>1
  <2>3. same = Replaceable("set-active", Object(id))
    BY DEF Replaceable
  <2>4. \E m \in DOMAIN queue : LastOf(same) = m
    BY <1>4, <2>3, OneGivesWay
  <2>5. queue[LastOf(same)] \in Known
    BY <2>4 DEF QueueInv
  <2>6. WithIntent(intent, queue[LastOf(same)], "queued") \in [Objects -> Intents]
    BY <2>5, WithIntentType
  <2> HIDE DEF same
  <2>7. Reconciled(intent, id) = (IF Op(id) # "set-active" THEN intent
                                  ELSE WithIntent(intent, queue[LastOf(same)], "queued"))
    BY <1>4 DEF Reconciled, same
  <2> QED BY <2>6, <2>7
<1> QED BY <1>3, <1>4

\* An updater that leaves the tabs alone.
LEMMA TakesKeeps ==
  ASSUME QueueInv, PageInv, updates # <<>>, updates' = Tail(updates), ~Fronts(updates[1]),
         UNCHANGED requests, page' \in Pages, page'.tabs = page.tabs, page'.active = page.active
  PROVE  UpdatesTyped' /\ TabsInv'
<1>1. /\ updates' \in Seq(Updates) /\ 1 \in DOMAIN updates
      /\ \A i \in DOMAIN updates' : i + 1 \in DOMAIN updates /\ updates'[i] = updates[i + 1]
      /\ \A i \in DOMAIN updates : i # 1 => i - 1 \in DOMAIN updates' /\ updates'[i - 1] = updates[i]
  BY Rest DEF PageInv, UpdatesTyped
<1>2. UpdatesTyped'
  BY <1>1 DEF UpdatesTyped, PageInv, Known
<1>3. \A i \in DOMAIN updates :
        Fronts(updates[i]) => i - 1 \in DOMAIN updates' /\ Fronts(updates'[i - 1])
  BY <1>1
<1>4. TabsInv'
  BY <1>1, <1>3 DEF TabsInv, PageInv
<1> QED BY <1>2, <1>4

\* The updater that is taken.
LEMMA Taken ==
  ASSUME QueueInv, PageInv, updates # <<>>
  PROVE  /\ Head(updates) = updates[1] /\ updates[1] \in Updates /\ 1 \in DOMAIN updates
         /\ updates[1].kind \in Numbered => updates[1].id \in Known
<1>1. updates \in Seq(Updates)
  BY DEF PageInv, UpdatesTyped
<1> QED BY <1>1, Rest DEF PageInv, UpdatesTyped

LEMMA CountsKeep ==
  ASSUME QueueInv, PageInv, ApplyQueued \/ ApplyRunning \/ ApplySettled
  PROVE  UpdatesTyped' /\ page' \in Pages /\ TabsInv'
<1> DEFINE u == updates[1]
<1>1. /\ updates # <<>> /\ updates' = Tail(updates) /\ requests' = requests
      /\ Head(updates).kind \in {"queued", "running", "settled"}
  BY DEF ApplyQueued, ApplyRunning, ApplySettled, Takes
<1>2. Head(updates) = u /\ u.kind \in {"queued", "running", "settled"} /\ u.id \in Known
  BY <1>1, Taken DEF Numbered
<1> HIDE DEF u
<1>3. Op(u.id) \in AllOps
  BY <1>2, KnownIds, ConstantsAssumption DEF Op, Asked
<1>4. page \in Pages /\ page.intent \in [Objects -> Intents] /\ page.pending \in [AllOps -> Nat]
  BY DEF PageInv, Pages
<1>5. \E pending \in [AllOps -> Nat], loading \in BOOLEAN, intent \in [Objects -> Intents] :
        page' = [page EXCEPT !.pending = pending, !.loading = loading, !.intent = intent]
  <2>1. CASE ApplyQueued
    <3> DEFINE m == IF u.replaced THEN page.pending[Op(u.id)] ELSE page.pending[Op(u.id)] + 1
               pending == [page.pending EXCEPT ![Op(u.id)] = m]
               intent == WithIntent(page.intent, u.id, "queued")
    <3>1. m \in Nat
      BY <1>3, <1>4
    <3>2. pending \in [AllOps -> Nat]
      BY <1>4, <3>1
    <3>3. intent \in [Objects -> Intents]
      BY <1>2, <1>4, WithIntentType
    <3>4. page' = [page EXCEPT !.loading = TRUE, !.pending[Op(u.id)] = IF u.replaced THEN @ ELSE @ + 1,
                               !.intent = WithIntent(@, u.id, "queued")]
      BY <1>2, <2>1 DEF ApplyQueued
    <3>5. page' = [page EXCEPT !.pending = pending, !.loading = TRUE, !.intent = intent]
      BY <1>4, <3>4 DEF Pages
    <3> HIDE DEF pending, intent
    <3> QED BY <3>2, <3>3, <3>5
  <2>2. CASE ApplyRunning
    <3> DEFINE intent == WithIntent(page.intent, u.id, "running")
    <3>1. intent \in [Objects -> Intents]
      BY <1>2, <1>4, WithIntentType
    <3>2. page' = [page EXCEPT !.loading = TRUE, !.intent = intent]
      BY <1>2, <2>2 DEF ApplyRunning
    <3> HIDE DEF intent
    <3>3. page' = [page EXCEPT !.pending = page.pending, !.loading = TRUE, !.intent = intent]
      BY <1>4, <3>2 DEF Pages
    <3> QED BY <1>4, <3>1, <3>3
  <2>3. CASE ApplySettled
    <3> DEFINE pending == Decremented(page.pending, Op(u.id))
               loading == \E op \in AllOps : pending[op] > 0
               intent == Reconciled(page.intent, u.id)
    <3>1. intent \in [Objects -> Intents]
      BY <1>2, <1>4, ReconciledType
    <3>2. pending \in [AllOps -> Nat]
      BY <1>3, <1>4 DEF Decremented
    <3>3. page' = [page EXCEPT !.pending = pending, !.loading = loading, !.intent = intent]
      BY <1>2, <2>3 DEF ApplySettled
    <3>4. loading \in BOOLEAN
      OBVIOUS
    <3> HIDE DEF pending, loading, intent
    <3> QED BY <3>1, <3>2, <3>3, <3>4
  <2> QED BY <2>1, <2>2, <2>3
<1>6. page' \in Pages /\ page'.tabs = page.tabs /\ page'.active = page.active
  BY <1>4, <1>5 DEF Pages
<1>7. ~Fronts(u)
  BY <1>2 DEF Fronts
<1> QED BY <1>1, <1>6, <1>7, TakesKeeps DEF u

LEMMA HeadersKeep ==
  ASSUME QueueInv, PageInv, ApplyAcked \/ ApplySelected \/ ApplyHeader \/ ApplyReset
  PROVE  UpdatesTyped' /\ page' \in Pages /\ TabsInv'
<1> DEFINE u == updates[1]
<1>1. /\ updates # <<>> /\ updates' = Tail(updates) /\ requests' = requests
      /\ Head(updates).kind \in {"acked", "selected", "header", "reset"}
  BY DEF ApplyAcked, ApplySelected, ApplyHeader, ApplyReset, Takes
<1>2. /\ Head(updates) = u /\ u.kind \in {"acked", "selected", "header", "reset"}
      /\ u \in Updates
      /\ u.kind = "acked" => u.id \in Known
  BY <1>1, Taken DEF Numbered
<1> HIDE DEF u
<1>3. /\ page \in Pages /\ page.override \in [Objects -> Active \cup {NoFlag}]
      /\ page.header \in [Objects -> Headers]
  BY DEF PageInv, Pages
<1>4. page' \in Pages /\ page'.tabs = page.tabs /\ page'.active = page.active
  <2>1. CASE ApplyAcked
    <3> DEFINE override == CASE Op(u.id) = "load-scene" -> [o \in Objects |-> NoFlag]
                  [] Op(u.id) = "set-active" ->
                       [page.override EXCEPT ![Object(u.id)] = requests[u.id].active]
                  [] Op(u.id) = "delete"     -> [page.override EXCEPT ![Object(u.id)] = NoFlag]
                  [] OTHER                   -> page.override
    <3>1. u.kind = "acked"
      BY <1>2, <2>1 DEF ApplyAcked, Takes
    <3>2. requests[u.id].active \in Active
      BY <1>2, <3>1, KnownIds DEF Asked
    <3>3. override \in [Objects -> Active \cup {NoFlag}]
      <4>1. [o \in Objects |-> NoFlag] \in [Objects -> Active \cup {NoFlag}]
        OBVIOUS
      <4>2. [page.override EXCEPT ![Object(u.id)] = requests[u.id].active]
              \in [Objects -> Active \cup {NoFlag}]
        BY <1>3, <3>2
      <4>3. [page.override EXCEPT ![Object(u.id)] = NoFlag] \in [Objects -> Active \cup {NoFlag}]
        BY <1>3
      <4> QED BY <1>3, <4>1, <4>2, <4>3
    <3>4. page' = [page EXCEPT !.override = override]
      BY <1>2, <2>1 DEF ApplyAcked
    <3> HIDE DEF override
    <3> QED BY <1>3, <3>3, <3>4 DEF Pages
  <2>2. CASE ApplySelected
    <3>1. u.kind = "selected" /\ page' = [page EXCEPT !.selected = u.object]
      BY <1>2, <2>2 DEF ApplySelected, Takes
    <3>2. u.object \in Objects \cup {NoObject}
      BY <1>2, <3>1 DEF Updates
    <3> QED BY <1>3, <3>1, <3>2 DEF Pages
  <2>3. CASE ApplyHeader
    <3> DEFINE header == [page.header EXCEPT ![u.object] = u.header]
               flag == IF ClearsOverride(u.object, u.header) THEN NoFlag ELSE page.override[u.object]
               override == [page.override EXCEPT ![u.object] = flag]
    <3>1. u.kind = "header"
      BY <1>2, <2>3 DEF ApplyHeader, Takes
    <3>2. u.object \in Objects /\ u.header \in Headers
      BY <1>2, <3>1 DEF Updates
    <3>3. header \in [Objects -> Headers]
      BY <1>3, <3>2
    <3>4. flag \in Active \cup {NoFlag}
      BY <1>3, <3>2
    <3>5. override \in [Objects -> Active \cup {NoFlag}]
      BY <1>3, <3>4
    <3>6. page' = [page EXCEPT !.header[u.object] = u.header,
                               !.override[u.object] =
                                  IF ClearsOverride(u.object, u.header) THEN NoFlag ELSE @]
      BY <1>2, <2>3 DEF ApplyHeader
    <3>7. page' = [page EXCEPT !.header = header, !.override = override]
      BY <1>3, <3>6 DEF Pages
    <3> HIDE DEF header, override
    <3> QED BY <1>3, <3>3, <3>5, <3>7 DEF Pages
  <2>4. CASE ApplyReset
    <3>1. page' = EmptyPage(page.selected, page.tabs, page.active)
      BY <2>4 DEF ApplyReset
    <3>2. /\ page.selected \in Objects \cup {NoObject} /\ page.tabs \in Seq(Objects)
          /\ page.active \in Nat
      BY <1>3 DEF Pages
    <3>3. NoIntent \in Intents /\ NoHeader \in Headers
      BY DEF Intents, Headers
    <3> QED BY <3>1, <3>2, <3>3 DEF Pages, EmptyPage
  <2> QED BY <2>1, <2>2, <2>3, <2>4
<1>5. ~Fronts(u)
  BY <1>2 DEF Fronts
<1> QED BY <1>1, <1>4, <1>5, TakesKeeps DEF u

\* A tab that is opened is appended, or its index is brought to front.
LEMMA OpenedKeeps ==
  ASSUME QueueInv, PageInv, ApplyOpened
  PROVE  UpdatesTyped' /\ page' \in Pages /\ TabsInv'
<1> DEFINE o == updates[1].object
           existing == TabsOf(o)
           index == IF existing = {} THEN Len(page.tabs) + 1 ELSE CHOOSE i \in existing : TRUE
           tabs == IF existing = {} THEN Append(page.tabs, o) ELSE page.tabs
           front == [kind |-> "fronted", index |-> index]
           select == [kind |-> "selected", object |-> o]
           more == <<front, select>>
<1>1. updates # <<>> /\ Head(updates).kind = "opened" /\ requests' = requests
  BY DEF ApplyOpened
<1>2. Head(updates) = updates[1] /\ updates[1] \in Updates /\ updates[1].kind = "opened"
  BY <1>1, Taken
<1>3. o \in Objects
  BY <1>2 DEF Updates
<1>4. /\ page \in Pages /\ page.tabs \in Seq(Objects) /\ Len(page.tabs) \in Nat
      /\ \A i, j \in DOMAIN page.tabs : page.tabs[i] = page.tabs[j] => i = j
  BY DEF PageInv, Pages, TabsInv
<1>5. updates' = Tail(updates) \o more /\ page' = [page EXCEPT !.tabs = tabs]
  <2>1. page' = [page EXCEPT !.tabs = IF existing = {} THEN Append(@, o) ELSE @]
    BY <1>2 DEF ApplyOpened
  <2>2. updates' = Tail(updates) \o more
    BY <1>2 DEF ApplyOpened
  <2> QED BY <2>1, <2>2
<1>6. index \in 1..Len(tabs) /\ tabs \in Seq(Objects) /\ Len(tabs) \in Nat
      /\ Len(page.tabs) <= Len(tabs)
      /\ \A i, j \in DOMAIN tabs : tabs[i] = tabs[j] => i = j
  <2>1. CASE existing = {}
    <3>1. \A i \in DOMAIN page.tabs : page.tabs[i] # o
      BY <2>1 DEF TabsOf
    <3>2. tabs = Append(page.tabs, o) /\ index = Len(page.tabs) + 1
      BY <2>1
    <3>3. /\ tabs \in Seq(Objects) /\ Len(tabs) = Len(page.tabs) + 1
          /\ tabs[Len(page.tabs) + 1] = o
          /\ \A i \in DOMAIN page.tabs : tabs[i] = page.tabs[i]
          /\ DOMAIN tabs = DOMAIN page.tabs \cup {Len(page.tabs) + 1}
      BY <1>3, <1>4, <3>2, Appended
    <3> HIDE DEF tabs, index
    <3> QED BY <1>4, <3>1, <3>2, <3>3
  <2>2. CASE existing # {}
    <3>1. tabs = page.tabs /\ index \in existing
      BY <2>2
    <3>2. existing \subseteq DOMAIN page.tabs
      BY DEF TabsOf
    <3> QED BY <1>4, <3>1, <3>2
  <2> QED BY <2>1, <2>2
<1> HIDE DEF index, tabs
<1>7. front \in Updates /\ Fronts(front) /\ front.kind \notin Numbered /\ front.index = index
  <2>1. index \in Nat \ {0}
    BY <1>6
  <2> QED BY <2>1 DEF Updates, Fronts, Numbered
<1>8. select \in Updates /\ ~Fronts(select) /\ select.kind \notin Numbered
  BY <1>3 DEF Updates, Fronts, Numbered
<1> HIDE DEF front, select
<1>9. Tail(updates) \in Seq(Updates) /\ more \in Seq(Updates)
  BY <1>1, <1>7, <1>8, Rest DEF PageInv, UpdatesTyped
<1>10. \A i \in DOMAIN more : more[i] = front \/ more[i] = select
  OBVIOUS
<1>11. 1 \in DOMAIN more /\ more[1] = front
  OBVIOUS
<1> HIDE DEF more
<1>12. /\ updates' \in Seq(Updates)
       /\ \A i \in DOMAIN updates' :
            \/ \E j \in DOMAIN updates : updates'[i] = updates[j]
            \/ updates'[i] = front \/ updates'[i] = select
       /\ \E i \in DOMAIN updates' : updates'[i] = front
  <2>1. \A i \in DOMAIN Tail(updates) : \E j \in DOMAIN updates : Tail(updates)[i] = updates[j]
    BY <1>1, Rest DEF PageInv, UpdatesTyped
  <2> DEFINE rest == Tail(updates)
  <2>4. rest \in Seq(Updates) /\ updates' = rest \o more
    BY <1>5, <1>9
  <2>5. 2 \in DOMAIN more /\ more[2] = select
    BY DEF more
  <2> HIDE DEF rest
  <2>2. Elements(updates') = Elements(rest) \cup Elements(more) /\ updates' \in Seq(Updates)
    BY <1>9, <2>4, JoinedElements
  <2>3. Elements(more) = {front, select}
    BY <1>10, <1>11, <2>5 DEF Elements
  <2>6. Elements(rest) \subseteq Elements(updates)
    BY <2>1 DEF rest, Elements
  <2> QED BY <2>2, <2>3, <2>6 DEF Elements
<1>13. page' \in Pages /\ page'.tabs = tabs /\ page'.active = page.active
  BY <1>4, <1>5, <1>6 DEF Pages
<1>14. UpdatesTyped'
  BY <1>1, <1>7, <1>8, <1>12 DEF UpdatesTyped, PageInv, Known
<1>15. TabsInv'
  <2>1. \A i \in DOMAIN updates : Fronts(updates[i]) => updates[i].index \in 1..Len(tabs)
    BY <1>4, <1>6 DEF PageInv, TabsInv
  <2>2. \A i \in DOMAIN updates' : Fronts(updates'[i]) => updates'[i].index \in 1..Len(tabs)
    BY <1>6, <1>7, <1>8, <1>12, <2>1
  <2>3. page.active \in 0..Len(tabs)
    BY <1>4, <1>6 DEF PageInv, TabsInv
  <2>4. \E i \in DOMAIN updates' : Fronts(updates'[i])
    BY <1>7, <1>12
  <2> QED BY <1>6, <1>13, <2>2, <2>3, <2>4 DEF TabsInv
<1> QED BY <1>13, <1>14, <1>15

\* An index brought to front is one of a tab.
LEMMA FrontedKeeps ==
  ASSUME QueueInv, PageInv, ApplyFronted
  PROVE  UpdatesTyped' /\ page' \in Pages /\ TabsInv'
<1>1. /\ updates # <<>> /\ updates' = Tail(updates) /\ requests' = requests
      /\ Head(updates).kind = "fronted" /\ page' = [page EXCEPT !.active = Head(updates).index]
  BY DEF ApplyFronted, Takes
<1>2. Head(updates) = updates[1] /\ 1 \in DOMAIN updates
  BY <1>1, Taken
<1>3. updates[1].index \in 1..Len(page.tabs)
  BY <1>1, <1>2 DEF PageInv, TabsInv, Fronts
<1>4. page \in Pages /\ Len(page.tabs) \in Nat
  BY DEF PageInv, Pages
<1>5. updates[1].index \in Nat \ {0}
  BY <1>3, <1>4
<1>6. page' \in Pages /\ page'.tabs = page.tabs /\ page'.active = updates[1].index
  BY <1>1, <1>2, <1>4, <1>5 DEF Pages
<1>7. /\ updates' \in Seq(Updates)
      /\ \A i \in DOMAIN updates' : i + 1 \in DOMAIN updates /\ updates'[i] = updates[i + 1]
  BY <1>1, Rest DEF PageInv, UpdatesTyped
<1>8. UpdatesTyped'
  BY <1>1, <1>7 DEF UpdatesTyped, PageInv, Known
<1>9. TabsInv'
  BY <1>3, <1>4, <1>6, <1>7 DEF TabsInv, PageInv
<1> QED BY <1>6, <1>8, <1>9

LEMMA RenderKeeps ==
  ASSUME QueueInv, PageInv, Render
  PROVE  PageInv'
<1>1. UpdatesTyped' /\ page' \in Pages /\ TabsInv'
  BY CountsKeep, HeadersKeep, OpenedKeeps, FrontedKeeps DEF Render
<1>2. UNCHANGED <<phase, game, store, reading, news, disturbed, actions>>
  BY DEF Render, ApplyQueued, ApplyRunning, ApplySettled, ApplyAcked, ApplySelected,
         ApplyHeader, ApplyReset, ApplyOpened, ApplyFronted, Takes
<1> QED BY <1>1, <1>2 DEF PageInv, BackendTypes

-----------------------------------------------------------------------------
\* Clicks on the tabs; everything is rendered by then.
LEMMA ClosedKeeps ==
  ASSUME QueueInv, PageInv, NEW index \in DOMAIN page.tabs, CloseTab(index)
  PROVE  UpdatesTyped' /\ page' \in Pages /\ TabsInv'
<1> DEFINE tabs == page.tabs
           n == Len(tabs)
           before == SubSeq(tabs, 1, index - 1)
           behind == SubSeq(tabs, index + 1, n)
           next == before \o behind
           active == FrontAfter(index, next)
           selected == IF next = <<>> THEN NoObject ELSE next[active]
<1>1. /\ tabs \in Seq(Objects) /\ n \in Nat /\ index \in 1..n /\ page \in Pages
      /\ \A i, j \in DOMAIN tabs : tabs[i] = tabs[j] => i = j
      /\ page.active \in 0..n
  BY DEF PageInv, Pages, TabsInv
<1>2. updates = <<>> /\ updates' = updates /\ requests' = requests
      /\ page' = [page EXCEPT !.tabs = next, !.active = active, !.selected = selected]
  BY DEF CloseTab, Clicks
<1>3. page.active \in 1..n
  <2>1. DOMAIN updates = {} /\ tabs # <<>>
    BY <1>1, <1>2
  <2> QED BY <1>1, <2>1 DEF PageInv, TabsInv
<1>4. before \in Seq(Objects) /\ Len(before) = index - 1 /\ \A i \in 1..(index - 1) : before[i] = tabs[i]
  <2>1. \A i \in 1..(index - 1) : tabs[i] \in Objects
    BY <1>1
  <2> QED BY <1>1, <2>1, SubSeqProperties
<1>5. behind \in Seq(Objects) /\ Len(behind) = n - index
      /\ \A i \in 1..(n - index) : behind[i] = tabs[i + index]
  <2>1. \A i \in (index + 1)..n : tabs[i] \in Objects
    BY <1>1
  <2> QED BY <1>1, <2>1, SubSeqProperties
<1> HIDE DEF before, behind
<1>6. /\ next \in Seq(Objects) /\ Len(next) = n - 1
      /\ \A i \in 1..(n - 1) : next[i] = (IF i < index THEN tabs[i] ELSE tabs[i + 1])
  <2>1. /\ next \in Seq(Objects) /\ Len(next) = Len(before) + Len(behind)
        /\ DOMAIN next = 1..(Len(before) + Len(behind))
    BY <1>4, <1>5, JoinedLength
  <2>2. (index - 1) + (n - index) = n - 1
    BY <1>1
  <2>3. \A i \in DOMAIN next :
          \/ i \in DOMAIN before /\ next[i] = before[i]
          \/ /\ i - Len(before) \in DOMAIN behind /\ i > Len(before)
             /\ next[i] = behind[i - Len(before)]
    BY <1>4, <1>5, Joined
  <2> HIDE DEF next
  <2>4. ASSUME NEW i \in 1..(n - 1)
        PROVE  next[i] = (IF i < index THEN tabs[i] ELSE tabs[i + 1])
    <3>1. CASE i \in 1..(index - 1) /\ next[i] = before[i]
      BY <1>1, <1>4, <3>1
    <3>2. CASE /\ i - (index - 1) \in 1..(n - index) /\ i > index - 1
               /\ next[i] = behind[i - (index - 1)]
      <4>1. (i - (index - 1)) + index = i + 1 /\ ~(i < index)
        BY <1>1, <3>2
      <4>2. behind[i - (index - 1)] = tabs[i + 1]
        BY <1>5, <3>2, <4>1
      <4> QED BY <3>2, <4>1, <4>2
    <3>3. DOMAIN before = 1..(index - 1) /\ DOMAIN behind = 1..(n - index)
      BY <1>4, <1>5
    <3> QED BY <1>4, <2>1, <2>2, <1>5, <2>3, <3>1, <3>2, <3>3
  <2> QED BY <1>4, <1>5, <2>1, <2>2, <2>4
<1> HIDE DEF next
<1>7. \A i, j \in DOMAIN next : next[i] = next[j] => i = j
  <2> SUFFICES ASSUME NEW i \in 1..(n - 1), NEW j \in 1..(n - 1), next[i] = next[j] PROVE i = j
    BY <1>1, <1>6
  <2> DEFINE a == IF i < index THEN i ELSE i + 1
             b == IF j < index THEN j ELSE j + 1
  <2>1. a \in DOMAIN tabs /\ b \in DOMAIN tabs /\ next[i] = tabs[a] /\ next[j] = tabs[b]
    BY <1>1, <1>6
  <2>2. a = b
    BY <1>1, <2>1
  <2> QED BY <1>1, <2>2
<1>8. IF next = <<>> THEN active = 0 ELSE active \in 1..(n - 1)
  <2>1. CASE next = <<>>
    BY <2>1 DEF FrontAfter
  <2>2. CASE next # <<>>
    <3>1. n - 1 >= 1
      BY <1>1, <1>6, <2>2
    <3> QED BY <1>1, <1>3, <2>2, <3>1 DEF FrontAfter
  <2> QED BY <2>1, <2>2
<1> HIDE DEF active
<1>9. active \in Nat /\ active \in 0..Len(next) /\ selected \in Objects \cup {NoObject}
      /\ (active = 0 => next = <<>>)
  BY <1>1, <1>6, <1>8
<1> HIDE DEF selected
<1>10. page' \in Pages /\ page'.tabs = next /\ page'.active = active
  BY <1>1, <1>2, <1>6, <1>9 DEF Pages
<1>11. UpdatesTyped'
  BY <1>2 DEF UpdatesTyped, PageInv, Known
<1>12. TabsInv'
  BY <1>2, <1>7, <1>9, <1>10 DEF TabsInv
<1> QED BY <1>10, <1>11, <1>12

LEMMA ClicksKeep ==
  ASSUME QueueInv, PageInv,
         \/ \E i \in DOMAIN page.tabs : SetActiveTab(i)
         \/ \E o \in Objects : Select(o)
  PROVE  UpdatesTyped' /\ page' \in Pages /\ TabsInv'
<1>1. updates = <<>> /\ updates' = updates /\ requests' = requests
  BY DEF SetActiveTab, Select, Clicks
<1>2. page \in Pages /\ page.tabs \in Seq(Objects) /\ Len(page.tabs) \in Nat
  BY DEF PageInv, Pages
<1>3. UpdatesTyped'
  BY <1>1 DEF UpdatesTyped, PageInv, Known
<1>4. CASE \E i \in DOMAIN page.tabs : SetActiveTab(i)
  <2>1. PICK i \in DOMAIN page.tabs : page' = [page EXCEPT !.active = i, !.selected = page.tabs[i]]
    BY <1>4 DEF SetActiveTab
  <2>2. i \in 1..Len(page.tabs) /\ i \in Nat /\ page.tabs[i] \in Objects
    BY <1>2, <2>1
  <2>3. page' \in Pages /\ page'.tabs = page.tabs /\ page'.active = i
    BY <1>2, <2>1, <2>2 DEF Pages
  <2> QED BY <1>1, <1>3, <2>2, <2>3 DEF TabsInv, PageInv
<1>5. CASE \E o \in Objects : Select(o)
  <2>1. PICK o \in Objects : page' = [page EXCEPT !.selected = o]
    BY <1>5 DEF Select
  <2>2. page' \in Pages /\ page'.tabs = page.tabs /\ page'.active = page.active
    BY <1>2, <2>1 DEF Pages
  <2> QED BY <1>1, <1>3, <2>2 DEF TabsInv, PageInv
<1> QED BY <1>4, <1>5

-----------------------------------------------------------------------------
\* What the code dispatches.

\* The updaters of a call, of its start and of its end.
LEMMA NumberedTyped ==
  ASSUME QueueInv, NEW n \in Nat, n <= MaxRequests, NEW id \in 1..n
  PROVE  /\ \A replaced \in BOOLEAN :
              Typed(<<[kind |-> "queued", id |-> id, replaced |-> replaced]>>, n)
         /\ \A kind \in {"running", "acked", "settled"} : Typed(<<[kind |-> kind, id |-> id]>>, n)
<1>1. id \in Ids
  BY ConstantsAssumption DEF Ids
<1>2. ASSUME NEW replaced \in BOOLEAN
      PROVE  Typed(<<[kind |-> "queued", id |-> id, replaced |-> replaced]>>, n)
  <2> DEFINE u == [kind |-> "queued", id |-> id, replaced |-> replaced]
  <2>1. u \in Updates /\ u.id = id /\ ~Fronts(u)
    BY <1>1 DEF Updates, Fronts
  <2> HIDE DEF u
  <2>2. Typed(<<u>>, n)
    BY <2>1, OneTyped
  <2> QED BY <2>2 DEF u
<1>3. ASSUME NEW kind \in {"running", "acked", "settled"}
      PROVE  Typed(<<[kind |-> kind, id |-> id]>>, n)
  <2> DEFINE u == [kind |-> kind, id |-> id]
  <2>1. u \in Updates /\ u.id = id /\ ~Fronts(u)
    BY <1>1 DEF Updates, Fronts
  <2> HIDE DEF u
  <2>2. Typed(<<u>>, n)
    BY <2>1, OneTyped
  <2> QED BY <2>2 DEF u
<1> QED BY <1>2, <1>3

LEMMA RunningTyped ==
  ASSUME QueueInv, NEW n \in Nat, n <= MaxRequests, NEW q \in Seq(1..n)
  PROVE  Typed(Running(q), n)
<1>1. CASE q = <<>>
  <2>1. Running(q) = <<>>
    BY <1>1 DEF Running
  <2> QED BY <2>1 DEF Typed
<1>2. CASE q # <<>>
  <2>1. Head(q) \in 1..n /\ Running(q) = <<[kind |-> "running", id |-> Head(q)]>>
    BY <1>2 DEF Running
  <2> QED BY <2>1, NumberedTyped
<1> QED BY <1>1, <1>2

\* The updaters without a number.
LEMMA OthersTyped ==
  ASSUME NEW n
  PROVE  /\ \A o \in Objects : Typed(<<[kind |-> "opened", object |-> o]>>, n)
         /\ \A o \in Objects \cup {NoObject} : Typed(<<[kind |-> "selected", object |-> o]>>, n)
         /\ \A o \in Objects, h \in Headers :
              Typed(<<[kind |-> "header", object |-> o, header |-> h]>>, n)
         /\ Typed(<<[kind |-> "reset"]>>, n)
<1>1. ASSUME NEW o \in Objects PROVE Typed(<<[kind |-> "opened", object |-> o]>>, n)
  BY OneTyped DEF Updates, Fronts, Numbered
<1>2. ASSUME NEW o \in Objects \cup {NoObject}
      PROVE  Typed(<<[kind |-> "selected", object |-> o]>>, n)
  BY OneTyped DEF Updates, Fronts, Numbered
<1>3. ASSUME NEW o \in Objects, NEW h \in Headers
      PROVE  Typed(<<[kind |-> "header", object |-> o, header |-> h]>>, n)
  BY OneTyped DEF Updates, Fronts, Numbered
<1>4. Typed(<<[kind |-> "reset"]>>, n)
  BY OneTyped DEF Updates, Fronts, Numbered
<1> QED BY <1>1, <1>2, <1>3, <1>4

\* A call is dispatched behind what waits; a call that starts, behind itself.
LEMMA RequestDispatches ==
  ASSUME QueueInv, PageInv, NEW op \in Ops, NEW object \in Objects \cup {NoObject},
         NEW active \in Active, Request(op, object, active)
  PROVE  LET n == Len(requests) + 1
             same == Replaceable(op, object)
             q == Enqueued(same, n)
             queued == <<[kind |-> "queued", id |-> n, replaced |-> same # {}]>>
         IN  /\ n <= MaxRequests /\ n \in Nat \ {0}
             /\ requests' = Append(requests, [op |-> op, object |-> object, active |-> active])
             /\ Len(requests') = n
             /\ page' = page
             /\ \/ /\ current = None /\ Proceed(q)
                   /\ updates' = updates \o (queued \o Running(q))
                \/ /\ current # None /\ queue' = q /\ current' = current /\ phase' = phase
                   /\ updates' = updates \o queued
             /\ UNCHANGED <<game, store, reading, news, disturbed, actions>>
<1>1. Len(requests) \in Nat /\ requests \in Seq(Asked)
  BY DEF QueueInv
<1> DEFINE n == Len(requests) + 1
           same == Replaceable(op, object)
           replaced == same # {}
           q == Enqueued(same, n)
           queued == <<[kind |-> "queued", id |-> n, replaced |-> replaced]>>
<1>2. /\ n <= MaxRequests
      /\ requests' = Append(requests, [op |-> op, object |-> object, active |-> active])
      /\ page' = page
      /\ IF current = None
           THEN /\ Proceed(q)
                /\ updates' = updates \o queued \o Running(q)
           ELSE /\ queue' = q
                /\ updates' = updates \o queued
                /\ UNCHANGED <<current, phase>>
      /\ UNCHANGED <<game, store, reading, news, disturbed, actions>>
  BY DEF Request, Enqueued
<1>3. Len(requests') = n
  BY <1>1, <1>2
<1>4. updates \o queued \o Running(q) = updates \o (queued \o Running(q))
  <2>1. n \in Nat /\ n \in 1..n /\ replaced \in BOOLEAN /\ q \in Seq(1..n)
    BY <1>1, NewQueue
  <2> HIDE DEF q
  <2>2. Typed(queued, n) /\ Typed(Running(q), n)
    BY <1>2, <2>1, NumberedTyped, RunningTyped
  <2> HIDE DEF queued
  <2>3. updates \in Seq(Updates) /\ queued \in Seq(Updates) /\ Running(q) \in Seq(Updates)
    BY <2>2 DEF PageInv, UpdatesTyped, Typed
  <2> QED BY <2>3, ConcatAssociative
<1> HIDE DEF q, queued
<1>5. n \in Nat \ {0}
  BY <1>1
<1> HIDE DEF n
<1>6. \/ /\ current = None /\ Proceed(q)
         /\ updates' = updates \o (queued \o Running(q))
      \/ /\ current # None /\ queue' = q /\ current' = current /\ phase' = phase
         /\ updates' = updates \o queued
  BY <1>2, <1>4
<1> QED BY <1>2, <1>3, <1>5, <1>6 DEF q, queued, n

LEMMA RequestPage ==
  ASSUME QueueInv, PageInv, QueueInv', NEW op \in Ops, NEW object \in Objects \cup {NoObject},
         NEW active \in Active, Request(op, object, active)
  PROVE  PageInv'
<1> DEFINE n == Len(requests) + 1
           same == Replaceable(op, object)
           replaced == same # {}
           q == Enqueued(same, n)
           queued == <<[kind |-> "queued", id |-> n, replaced |-> replaced]>>
<1>1. /\ n <= MaxRequests /\ n \in Nat \ {0} /\ Len(requests') = n /\ page' = page
      /\ updates' = updates \o (queued \o Running(q)) \/ updates' = updates \o queued
      /\ UNCHANGED <<game, store, reading, news, disturbed, actions>>
      /\ phase' \in {phase, "run", "idle"}
  BY RequestDispatches DEF Proceed
<1>2. q \in Seq(1..n)
  BY NewQueue
<1> HIDE DEF q
<1>3. Typed(queued, n) /\ Typed(Running(q), n)
  <2>1. n \in 1..n /\ replaced \in BOOLEAN
    BY <1>1
  <2> QED BY <1>1, <1>2, <2>1, NumberedTyped, RunningTyped
<1> HIDE DEF queued
<1>4. Typed(queued \o Running(q), n)
  BY <1>3, MoreTyped
<1>5. Known \subseteq Known'
  BY <1>1, KnownIds DEF Known
<1>6. \E more : Typed(more, Len(requests')) /\ Dispatched(more)
  BY <1>1, <1>3, <1>4 DEF Dispatched
<1>7. UpdatesTyped' /\ page' \in Pages /\ TabsInv'
  BY <1>5, <1>6, DispatchKeeps
<1> QED BY <1>1, <1>7 DEF PageInv, BackendTypes

\* A call leaves all that the page holds of the other calls.
LEMMA SameRequests ==
  ASSUME QueueInv, PageInv, QueueInv', requests' = requests,
         NEW more, Typed(more, Len(requests)), Dispatched(more)
  PROVE  UpdatesTyped' /\ page' \in Pages /\ TabsInv'
  BY DispatchKeeps DEF Known

\* The end of an iteration.
LEMMA SettledUpdates ==
  ASSUME QueueInv, PageInv, NEW outcome, current # None, Settles(outcome)
  PROVE  /\ requests' = requests /\ page' = page /\ Proceed(queue)
         /\ updates' = updates \o (<<[kind |-> "settled", id |-> current]>> \o Running(queue))
         /\ UNCHANGED <<store, reading, news, actions>>
<1> DEFINE settled == <<[kind |-> "settled", id |-> current]>>
           run == Running(queue)
<1>1. /\ requests' = requests /\ page' = page /\ Proceed(queue)
      /\ updates' = updates \o settled \o run
      /\ UNCHANGED <<store, reading, news, actions>>
  BY DEF Settles
<1> HIDE DEF settled, run
<1>2. updates \o settled \o run = updates \o (settled \o run)
  <2>1. Len(requests) \in Nat /\ Len(requests) <= MaxRequests /\ queue \in Seq(1..Len(requests))
        /\ current \in 1..Len(requests)
    BY DEF QueueInv, Known
  <2>2. Typed(settled, Len(requests)) /\ Typed(run, Len(requests))
    BY <2>1, NumberedTyped, RunningTyped DEF settled, run
  <2>3. updates \in Seq(Updates) /\ settled \in Seq(Updates) /\ run \in Seq(Updates)
    BY <2>2 DEF PageInv, UpdatesTyped, Typed
  <2> QED BY <2>3, ConcatAssociative
<1> QED BY <1>1, <1>2 DEF settled, run

LEMMA SettledDispatches ==
  ASSUME QueueInv, PageInv, NEW outcome, current # None, Settles(outcome)
  PROVE  \E more : Typed(more, Len(requests)) /\ Dispatched(more)
<1> DEFINE settled == <<[kind |-> "settled", id |-> current]>>
           run == Running(queue)
<1>1. page' = page /\ updates' = updates \o (settled \o run)
  BY SettledUpdates
<1>2. Len(requests) \in Nat /\ Len(requests) <= MaxRequests /\ queue \in Seq(1..Len(requests))
      /\ current \in 1..Len(requests)
  BY DEF QueueInv, Known
<1>3. Typed(settled, Len(requests)) /\ Typed(run, Len(requests))
  BY <1>2, NumberedTyped, RunningTyped
<1> HIDE DEF settled, run
<1>4. Typed(settled \o run, Len(requests))
  BY <1>3, MoreTyped
<1> QED BY <1>1, <1>4 DEF Dispatched

LEMMA SettlesPage ==
  ASSUME QueueInv, PageInv, QueueInv', NEW outcome, current # None, Settles(outcome),
         game' \in [Objects -> Active], disturbed' \subseteq Objects
  PROVE  PageInv'
<1>1. requests' = requests /\ UNCHANGED <<store, reading, news, actions>>
      /\ phase' \in {"idle", "run"}
  BY SettledUpdates DEF Proceed
<1>2. UpdatesTyped' /\ page' \in Pages /\ TabsInv'
  BY <1>1, SettledDispatches, SameRequests
<1> QED BY <1>1, <1>2 DEF PageInv, BackendTypes

-----------------------------------------------------------------------------
\* The game.
LEMMA ChangedType ==
  ASSUME QueueInv, PageInv, current # None
  PROVE  Changed(current) \in [Objects -> Active]
<1>1. requests[current].active \in Active /\ game \in [Objects -> Active]
  BY KnownIds DEF QueueInv, Asked, PageInv, BackendTypes
<1> QED BY <1>1 DEF Changed

\* A call that needs an object has one.
Aimed == \A id \in Known : Op(id) \notin {"load-scene", "structure"} => Object(id) \in Objects

LEMMA RequestAimed ==
  ASSUME QueueInv, PageInv, Aimed, NEW op \in Ops, NEW object \in Objects \cup {NoObject},
         NEW active \in Active, Request(op, object, active)
  PROVE  Aimed'
<1> DEFINE n == Len(requests) + 1
           call == [op |-> op, object |-> object, active |-> active]
<1>1. requests' = Append(requests, call) /\ object \in Targets(op)
  BY DEF Request
<1>2. call \in Asked /\ requests \in Seq(Asked)
  BY DEF QueueInv, Asked
<1>3. /\ Len(requests) \in Nat /\ Len(requests') = n /\ requests'[n] = call
      /\ \A id \in Known : requests'[id] = requests[id]
  BY <1>1, <1>2 DEF Known
<1>4. op \notin {"load-scene", "structure"} => object \in Objects
  BY <1>1 DEF Targets
<1> SUFFICES ASSUME NEW id \in 1..n, requests'[id].op \notin {"load-scene", "structure"}
             PROVE  requests'[id].object \in Objects
  BY <1>3 DEF Aimed, Known, Op, Object
<1>5. CASE id = n
  BY <1>3, <1>4, <1>5
<1>6. CASE id # n
  <2>1. id \in Known
    BY <1>3, <1>6 DEF Known
  <2> QED BY <1>3, <2>1 DEF Aimed, Op, Object
<1> QED BY <1>5, <1>6

LEMMA StaleType ==
  ASSUME NEW h \in Headers
  PROVE  Stale(h) \in Headers
  BY DEF Stale, Headers

LEMMA ExecutesTypes ==
  ASSUME QueueInv, PageInv, Aimed, Executes
  PROVE  BackendTypes'
<1> DEFINE o == Object(current)
<1>1. current \in Known /\ current # None /\ o \in Objects \cup {NoObject}
  BY KnownIds DEF Executes, QueueInv, Loop, Asked, Object
<1>2. game' \in [Objects -> Active]
  BY <1>1, ChangedType DEF Executes
<1>3. disturbed' \subseteq Objects
  <2>1. Gone(current) \subseteq Objects
    BY <1>1 DEF Gone, Aimed
  <2>2. Contradicted(Changed(current)) \subseteq Objects
    BY DEF Contradicted
  <2> QED BY <2>1, <2>2 DEF Executes, PageInv, BackendTypes
<1>4. store \in [Objects -> Headers] /\ news \in Seq(News) /\ reading \subseteq Objects
      /\ actions \in [clicks : Nat, resets : Nat]
  BY DEF PageInv, BackendTypes
<1>5. store' \in [Objects -> Headers] /\ news' \in Seq(News)
  <2>1. CASE o = NoObject
    BY <1>4, <2>1 DEF Executes
  <2>2. CASE o # NoObject
    <3> DEFINE h == Stale(store[o])
    <3>1. o \in Objects
      BY <1>1, <2>2
    <3>2. h \in Headers
      BY <1>4, <3>1, StaleType
    <3>3. store' = [store EXCEPT ![o] = h] /\ news' = Append(news, [object |-> o, header |-> h])
      BY <2>2 DEF Executes
    <3> HIDE DEF h
    <3>4. [object |-> o, header |-> h] \in News
      BY <3>1, <3>2 DEF News
    <3>5. store' \in [Objects -> Headers]
      BY <1>4, <3>2, <3>3
    <3>6. news' \in Seq(News)
      BY <1>4, <3>3, <3>4
    <3> QED BY <3>5, <3>6
  <2> QED BY <2>1, <2>2
<1>6. phase' = "executed" /\ reading' \subseteq Objects /\ actions' = actions
  BY <1>4 DEF Executes
<1> QED BY <1>2, <1>3, <1>4, <1>5, <1>6 DEF BackendTypes

\* Steps that leave the page and the updaters as they are.
LEMMA SamePage ==
  ASSUME PageInv, UNCHANGED <<requests, page, updates>>
  PROVE  UpdatesTyped' /\ page' \in Pages /\ TabsInv'
  BY DEF PageInv, UpdatesTyped, TabsInv, Known

LEMMA ReadTypes ==
  ASSUME PageInv, NEW o \in Objects, ReadHeader(o)
  PROVE  BackendTypes'
<1> DEFINE h == [active |-> game[o], fresh |-> TRUE]
<1>1. h \in Headers
  BY DEF PageInv, BackendTypes, Headers
<1>2. store' = [store EXCEPT ![o] = h] /\ news' = Append(news, [object |-> o, header |-> h])
  BY DEF ReadHeader
<1> HIDE DEF h
<1>3. [object |-> o, header |-> h] \in News
  BY <1>1 DEF News
<1>4. store' \in [Objects -> Headers] /\ news' \in Seq(News)
  BY <1>1, <1>2, <1>3 DEF PageInv, BackendTypes
<1> QED BY <1>4 DEF PageInv, BackendTypes, ReadHeader

\* What the page is told, and what it asks for, while the queue goes on.
LEMMA OthersPage ==
  ASSUME QueueInv, PageInv, QueueInv',
         \/ \E o \in Objects \cup {NoObject} : Answers(o)
         \/ \E o \in Objects : OpenTab(o)
         \/ HeaderArrives
         \/ SessionChanges
  PROVE  PageInv'
<1>1. CASE \E o \in Objects \cup {NoObject} : Answers(o)
  <2>1. PICK o \in Objects \cup {NoObject} : Answers(o)
    BY <1>1
  <2> DEFINE acked == [kind |-> "acked", id |-> current]
             select == [kind |-> "selected", object |-> o]
  <2>2. current \in 1..Len(requests) /\ Len(requests) \in Nat /\ Len(requests) <= MaxRequests
    BY <2>1 DEF Answers, QueueInv, Loop, Known
  <2>3. Typed(<<acked>>, Len(requests)) /\ Typed(<<select>>, Len(requests))
    BY <2>2, NumberedTyped, OthersTyped
  <2>4. updates' = updates \o <<acked, select>> /\ page' = page /\ requests' = requests
    BY <2>1 DEF Answers
  <2> HIDE DEF acked, select
  <2>6. Typed(<<acked, select>>, Len(requests))
    BY <2>3, TwoTyped
  <2>7. UpdatesTyped' /\ page' \in Pages /\ TabsInv'
    BY <2>4, <2>6, SameRequests DEF Dispatched
  <2> QED BY <2>1, <2>7 DEF PageInv, BackendTypes, Answers
<1>2. CASE \E o \in Objects : OpenTab(o)
  <2>1. PICK o \in Objects : OpenTab(o)
    BY <1>2
  <2> DEFINE u == [kind |-> "opened", object |-> o]
  <2>2. Typed(<<u>>, Len(requests))
    BY OthersTyped
  <2>3. updates' = Append(updates, u) /\ page' = page /\ requests' = requests
    BY <2>1 DEF OpenTab, Clicks
  <2> HIDE DEF u
  <2>4. updates' = updates \o <<u>>
    BY <2>2, <2>3 DEF PageInv, UpdatesTyped, Typed
  <2>5. UpdatesTyped' /\ page' \in Pages /\ TabsInv'
    BY <2>2, <2>3, <2>4, SameRequests DEF Dispatched
  <2>6. actions' \in [clicks : Nat, resets : Nat]
    BY <2>1 DEF OpenTab, Clicks, PageInv, BackendTypes
  <2> QED BY <2>1, <2>5, <2>6 DEF PageInv, BackendTypes, OpenTab, Clicks
<1>3. CASE HeaderArrives
  <2> DEFINE u == [kind |-> "header", object |-> Head(news).object, header |-> Head(news).header]
  <2>1. /\ news # <<>> /\ news' = Tail(news) /\ updates' = Append(updates, u)
        /\ page' = page /\ requests' = requests
    BY <1>3 DEF HeaderArrives
  <2>2. Head(news) \in News /\ Tail(news) \in Seq(News)
    BY <2>1, Rest DEF PageInv, BackendTypes
  <2>3. Typed(<<u>>, Len(requests))
    BY <2>2, OthersTyped DEF News
  <2> HIDE DEF u
  <2>4. updates' = updates \o <<u>>
    BY <2>1, <2>3 DEF PageInv, UpdatesTyped, Typed
  <2>5. UpdatesTyped' /\ page' \in Pages /\ TabsInv'
    BY <2>1, <2>3, <2>4, SameRequests DEF Dispatched
  <2> QED BY <1>3, <2>1, <2>2, <2>5 DEF PageInv, BackendTypes, HeaderArrives
<1>4. CASE SessionChanges
  <2> DEFINE u == [kind |-> "reset"]
  <2>1. updates' = Append(updates, u) /\ page' = page /\ requests' = requests
    BY <1>4 DEF SessionChanges
  <2>2. Typed(<<u>>, Len(requests))
    BY OthersTyped
  <2> HIDE DEF u
  <2>3. updates' = updates \o <<u>>
    BY <2>1, <2>2 DEF PageInv, UpdatesTyped, Typed
  <2>4. UpdatesTyped' /\ page' \in Pages /\ TabsInv'
    BY <2>1, <2>2, <2>3, SameRequests DEF Dispatched
  <2>5. /\ store' \in [Objects -> Headers] /\ actions' \in [clicks : Nat, resets : Nat]
        /\ news' \in Seq(News) /\ reading' \subseteq Objects /\ disturbed' \subseteq Objects
    BY <1>4 DEF SessionChanges, PageInv, BackendTypes, Headers
  <2> QED BY <1>4, <2>4, <2>5 DEF PageInv, BackendTypes, SessionChanges
<1> QED BY <1>1, <1>2, <1>3, <1>4

LEMMA PageInit == Init => PageInv /\ Aimed
<1> SUFFICES ASSUME Init PROVE PageInv /\ Aimed
  OBVIOUS
<1>1. game \in [Objects -> Active] /\ store \in [Objects -> Headers]
  BY DEF Init, Active, Headers
<1>2. BackendTypes
  BY <1>1 DEF Init, BackendTypes
<1>3. UpdatesTyped
  BY DEF Init, UpdatesTyped
<1> DEFINE p == IF Opened = NoObject THEN EmptyPage(NoObject, <<>>, 0)
                                     ELSE EmptyPage(Opened, <<Opened>>, 1)
<1>4. page = [p EXCEPT !.header = store]
  BY DEF Init
<1>5. /\ p \in Pages /\ Len(p.tabs) \in {0, 1}
      /\ p.active = Len(p.tabs)
  BY ConstantsAssumption DEF EmptyPage, Pages, Intents, Headers
<1> HIDE DEF p
<1>6. page \in Pages /\ page.tabs = p.tabs /\ page.active = p.active
  BY <1>1, <1>4, <1>5 DEF Pages
<1>7. TabsInv
  <2>1. page.tabs \in Seq(Objects)
    BY <1>6 DEF Pages
  <2> QED BY <1>3, <1>5, <1>6, <2>1 DEF Init, TabsInv
<1>8. Aimed
  BY DEF Init, Aimed, Known
<1> QED BY <1>2, <1>3, <1>6, <1>7, <1>8 DEF PageInv

LEMMA PageStep == QueueInv /\ QueueInv' /\ PageInv /\ Aimed /\ [Next]_vars => PageInv' /\ Aimed'
<1> SUFFICES ASSUME QueueInv, QueueInv', PageInv, Aimed, [Next]_vars PROVE PageInv' /\ Aimed'
  OBVIOUS
<1>0. ASSUME requests' = requests PROVE Aimed'
  BY <1>0 DEF Aimed, Known, Op, Object
<1>1. ASSUME NEW op \in Ops, NEW o \in Objects \cup {NoObject}, NEW active \in Active,
             Request(op, o, active)
      PROVE  PageInv' /\ Aimed'
  BY <1>1, RequestPage, RequestAimed
<1>2. CASE Executes
  <2>1. UpdatesTyped' /\ page' \in Pages /\ TabsInv' /\ requests' = requests
    BY <1>2, SamePage DEF Executes
  <2> QED BY <1>0, <1>2, <2>1, ExecutesTypes DEF PageInv
<1>3. ASSUME NEW o \in Objects \cup {NoObject}, Answers(o) PROVE PageInv' /\ Aimed'
  <2>1. requests' = requests
    BY <1>3 DEF Answers
  <2> QED BY <1>0, <1>3, <2>1, OthersPage
<1>4. CASE Completes
  <2>1. current # None /\ Settles("result") /\ UNCHANGED <<game, disturbed>>
    BY <1>4 DEF Completes, QueueInv, Loop
  <2>2. requests' = requests
    BY <2>1, SettledUpdates
  <2>3. game' \in [Objects -> Active] /\ disturbed' \subseteq Objects
    BY <2>1 DEF PageInv, BackendTypes
  <2> QED BY <1>0, <2>1, <2>2, <2>3, SettlesPage
<1>5. ASSUME NEW changed \in BOOLEAN, Fails(changed) PROVE PageInv' /\ Aimed'
  <2>1. current # None /\ current \in Known /\ Settles("error")
    BY <1>5 DEF Fails, QueueInv, Loop
  <2>2. requests' = requests
    BY <2>1, SettledUpdates
  <2>3. game' \in [Objects -> Active]
    BY <1>5, <2>1, ChangedType DEF Fails, PageInv, BackendTypes
  <2>4. disturbed' \subseteq Objects
    <3>1. Object(current) \in Objects \cup {NoObject}
      BY <2>1, KnownIds DEF Object, Asked
    <3> QED BY <1>5, <3>1 DEF Fails, PageInv, BackendTypes
  <2> QED BY <1>0, <2>1, <2>2, <2>3, <2>4, SettlesPage
<1>6. CASE Render
  <2>1. requests' = requests
    BY <1>6, RenderLeaves
  <2> QED BY <1>0, <1>6, <2>1, RenderKeeps
<1>7. ASSUME NEW o \in Objects, OpenTab(o) PROVE PageInv' /\ Aimed'
  <2>1. requests' = requests
    BY <1>7 DEF OpenTab, Clicks
  <2> QED BY <1>0, <1>7, <2>1, OthersPage
<1>8. ASSUME Clicks, UpdatesTyped' /\ page' \in Pages /\ TabsInv' PROVE PageInv' /\ Aimed'
  <2>1. requests' = requests
    BY <1>8 DEF Clicks
  <2>2. actions' \in [clicks : Nat, resets : Nat]
    BY <1>8 DEF Clicks, PageInv, BackendTypes
  <2> QED BY <1>0, <1>8, <2>1, <2>2 DEF PageInv, BackendTypes, Clicks
<1>9. ASSUME NEW o \in Objects, Select(o) PROVE PageInv' /\ Aimed'
  BY <1>8, <1>9, ClicksKeep DEF Select
<1>10. ASSUME NEW o \in Objects, ReadHeader(o) PROVE PageInv' /\ Aimed'
  <2>1. UpdatesTyped' /\ page' \in Pages /\ TabsInv' /\ requests' = requests
    BY <1>10, SamePage DEF ReadHeader
  <2> QED BY <1>0, <1>10, <2>1, ReadTypes DEF PageInv
<1>11. ASSUME NEW i \in DOMAIN page.tabs, CloseTab(i) \/ SetActiveTab(i)
       PROVE  PageInv' /\ Aimed'
  BY <1>8, <1>11, ClosedKeeps, ClicksKeep DEF CloseTab, SetActiveTab
<1>12. CASE HeaderArrives \/ SessionChanges
  <2>1. requests' = requests
    BY <1>12 DEF HeaderArrives, SessionChanges
  <2> QED BY <1>0, <1>12, <2>1, OthersPage
<1>13. CASE UNCHANGED vars
  <2>1. UpdatesTyped' /\ page' \in Pages /\ TabsInv' /\ requests' = requests
    BY <1>13, SamePage DEF vars
  <2> QED BY <1>0, <1>13, <2>1 DEF PageInv, BackendTypes, vars
<1> QED
  BY <1>1, <1>2, <1>3, <1>4, <1>5, <1>6, <1>7, <1>9, <1>10, <1>11, <1>12, <1>13 DEF Next, Finished

\* Every variable keeps its type, the tabs included: what CloseTab selects is an object
\* because a page with tabs has one in front by the time of a click.
THEOREM PageCorrect == Spec => [](TypeOK /\ PageInv)
<1>1. QueueInv /\ PageInv => TypeOK
  BY Types
<1> QED BY <1>1, InitInv, NextInv, PageInit, PageStep, PTL DEF Spec

\* No object has two tabs, and once the indices that wait to be brought to front are
\* evaluated the tab in front is one of the tabs, with none only when there are none,
\* however openings, closings and resets interleave.
THEOREM TabsAlwaysConsistent == Spec => []TabsConsistent
<1>1. TypeOK /\ PageInv => TabsConsistent
  <2> SUFFICES ASSUME PageInv PROVE TabsConsistent
    OBVIOUS
  <2>1. page.tabs \in Seq(Objects) /\ Len(page.tabs) \in Nat
    BY DEF PageInv, Pages
  <2> QED BY <2>1 DEF PageInv, TabsInv, TabsConsistent, Fronts
<1> QED BY <1>1, PageCorrect, PTL
-----------------------------------------------------------------------------
\* The flag the user asked for: what the last waiting updater that touches the
\* intent of an object will leave.

\* The updaters that change the intent of an object ...
Touches(u, o) ==
  \/ u.kind = "reset"
  \/ u.kind \in {"queued", "running", "settled"} /\ Op(u.id) = "set-active" /\ Object(u.id) = o

WaitingFor(o) == {id \in Waiting : Op(id) = "set-active" /\ Object(id) = o}

\* ... what a completion leaves: the call that waits, if one does ...
Follows(o) ==
  IF WaitingFor(o) = {} THEN NoIntent
  ELSE [desired |-> requests[CHOOSE id \in WaitingFor(o) : TRUE].active, status |-> "queued"]

\* ... and what each of them leaves.
Leaves(u, o) ==
  CASE u.kind = "reset"   -> NoIntent
    [] u.kind = "settled" -> Follows(o)
    [] OTHER              -> [desired |-> requests[u.id].active, status |-> u.kind]

\* What an intent has to say of an object (IntentIsLatest).
Good(v, o) ==
  /\ v = NoIntent => SetActives(o) = {} \/ actions.resets > 0
  /\ v # NoIntent =>
       \E id \in SetActives(o) :
          /\ \A other \in SetActives(o) : other <= id
          /\ v.desired = requests[id].active
          /\ v.status = "running" <=> id = current

Touching(o) == {u \in Updates : Touches(u, o)}
Right(o) == {v \in Intents : Good(v, o)}
Leaving(o) == {u \in Updates : Leaves(u, o) \in Right(o)}

\* The last of the updaters us that is in T is in S; if none is, v is in V.
Ends(v, us, T, V, S) ==
  /\ (\A i \in DOMAIN us : us[i] \notin T) => v \in V
  /\ \A i \in DOMAIN us :
       (us[i] \in T /\ \A j \in DOMAIN us : j > i => us[j] \notin T) => us[i] \in S

IntentsInv ==
  \A o \in Objects : Ends(page.intent[o], updates, Touching(o), Right(o), Leaving(o))

\* The first updater is taken.
LEMMA EndsTaken ==
  ASSUME NEW U, NEW us \in Seq(U), us # <<>>, NEW v, NEW w, NEW T, NEW V, NEW S,
         Ends(v, us, T, V, S), us[1] \notin T => w = v, us[1] \in T /\ us[1] \in S => w \in V
  PROVE  Ends(w, Tail(us), T, V, S)
<1> DEFINE t == Tail(us)
<1>1. /\ 1 \in DOMAIN us
      /\ \A i \in DOMAIN t : i + 1 \in DOMAIN us /\ t[i] = us[i + 1]
      /\ \A i \in DOMAIN us : i # 1 => i - 1 \in DOMAIN t /\ t[i - 1] = us[i]
      /\ \A i \in DOMAIN us : i \in Nat /\ i >= 1
      /\ \A i \in DOMAIN t : i \in Nat /\ i >= 1
  BY Rest
<1> HIDE DEF t
<1>2. ASSUME \A i \in DOMAIN t : t[i] \notin T PROVE w \in V
  <2>1. \A j \in DOMAIN us : j > 1 => us[j] \notin T
    <3> TAKE j \in DOMAIN us
    <3> HAVE j > 1
    <3>1. j - 1 \in DOMAIN t /\ t[j - 1] = us[j]
      BY <1>1
    <3> QED BY <1>2, <3>1
  <2>2. CASE us[1] \in T
    BY <1>1, <2>1, <2>2 DEF Ends
  <2>3. CASE us[1] \notin T
    <3>1. \A j \in DOMAIN us : us[j] \notin T
      BY <1>1, <2>1, <2>3
    <3> QED BY <2>3, <3>1 DEF Ends
  <2> QED BY <2>2, <2>3
<1>3. ASSUME NEW i \in DOMAIN t, t[i] \in T, \A j \in DOMAIN t : j > i => t[j] \notin T
      PROVE  t[i] \in S
  <2>1. \A j \in DOMAIN us : j > i + 1 => us[j] \notin T
    <3> TAKE j \in DOMAIN us
    <3> HAVE j > i + 1
    <3>1. j # 1 /\ j - 1 > i
      BY <1>1, <1>3
    <3> QED BY <1>1, <1>3, <3>1
  <2>2. i + 1 \in DOMAIN us /\ us[i + 1] = t[i]
    BY <1>1, <1>3
  <2> QED BY <1>3, <2>1, <2>2 DEF Ends
<1>4. Ends(w, t, T, V, S)
  BY <1>2, <1>3 DEF Ends
<1> QED BY <1>4 DEF t

\* Updaters that touch nothing are dispatched.
LEMMA EndsJoined ==
  ASSUME NEW U, NEW us \in Seq(U), NEW more \in Seq(U), NEW v, NEW T, NEW V, NEW S,
         Ends(v, us, T, V, S), \A u \in Elements(more) : u \notin T
  PROVE  Ends(v, us \o more, T, V, S)
<1> DEFINE t == us \o more
<1>1. /\ \A i \in DOMAIN t :
           \/ i \in DOMAIN us /\ t[i] = us[i]
           \/ i - Len(us) \in DOMAIN more /\ i > Len(us) /\ t[i] = more[i - Len(us)]
      /\ \A i \in DOMAIN us : i \in DOMAIN t /\ t[i] = us[i] /\ i <= Len(us)
  BY Joined
<1> HIDE DEF t
<1>2. \A i \in DOMAIN t : t[i] \in T => i \in DOMAIN us /\ t[i] = us[i]
  BY <1>1 DEF Elements
<1>3. Ends(v, t, T, V, S)
  BY <1>1, <1>2 DEF Ends
<1> QED BY <1>3 DEF t

\* The last updater decides.
LEMMA EndsLast ==
  ASSUME NEW U, NEW us \in Seq(U), NEW e \in U, NEW v, NEW T, NEW V, NEW S, e \in T, e \in S
  PROVE  Ends(v, us \o <<e>>, T, V, S)
<1> DEFINE t == us \o <<e>>
<1>1. Len(us) + 1 \in DOMAIN t /\ t[Len(us) + 1] = e
  OBVIOUS
<1>2. \A i \in DOMAIN t : i # Len(us) + 1 => Len(us) + 1 > i
  OBVIOUS
<1> HIDE DEF t
<1>3. Ends(v, t, T, V, S)
  BY <1>1, <1>2 DEF Ends
<1> QED BY <1>3 DEF t

\* The sets change, but not for these updaters.
LEMMA EndsSame ==
  ASSUME NEW v, NEW us, NEW T, NEW V, NEW S, NEW T2, NEW V2, NEW S2, Ends(v, us, T, V, S),
         v \in V => v \in V2,
         \A i \in DOMAIN us : /\ us[i] \in T <=> us[i] \in T2
                              /\ us[i] \in S => us[i] \in S2
  PROVE  Ends(v, us, T2, V2, S2)
  BY DEF Ends

-----------------------------------------------------------------------------
\* Each step keeps the intents.

\* At most one call for the flag of an object waits, and it is the latest.
LEMMA FollowsLatest ==
  ASSUME QueueInv, NEW o, NEW id \in WaitingFor(o)
  PROVE  /\ id \in Known
         /\ \A later \in Known :
              (Op(later) = "set-active" /\ Object(later) = o) => later <= id
<1>1. PICK i \in DOMAIN queue : queue[i] = id /\ Op(id) = "set-active" /\ Object(id) = o
  BY DEF WaitingFor, Waiting
<1>2. DOMAIN requests = Known /\ LatestFlagWaits /\ id \in Known
  BY <1>1, KnownIds DEF QueueInv
<1> QED BY <1>1, <1>2 DEF LatestFlagWaits

\* What the completion of a call leaves of the intents.
LEMMA ReconciledFollows ==
  ASSUME QueueInv, NEW intent \in [Objects -> Intents], NEW id \in Known, NEW o \in Objects
  PROVE  Reconciled(intent, id)[o] =
           IF Op(id) = "set-active" /\ Object(id) = o THEN Follows(o) ELSE intent[o]
<1> DEFINE same == {i \in DOMAIN queue : Op(queue[i]) = "set-active" /\ Object(queue[i]) = Object(id)}
<1>1. CASE Op(id) # "set-active"
  BY <1>1 DEF Reconciled
<1>2. CASE Op(id) = "set-active" /\ same = {}
  <2>1. Reconciled(intent, id) = [intent EXCEPT ![Object(id)] = NoIntent]
    BY <1>2 DEF Reconciled
  <2>2. Object(id) = o => WaitingFor(o) = {}
    BY <1>2 DEF WaitingFor, Waiting
  <2> HIDE DEF same
  <2> QED BY <1>2, <2>1, <2>2 DEF Follows
<1>3. CASE Op(id) = "set-active" /\ same # {}
  <2>1. same = Replaceable("set-active", Object(id))
    BY DEF Replaceable
  <2>2. PICK k \in DOMAIN queue : LastOf(same) = k /\ k \in same
    BY <1>3, <2>1, OneGivesWay
  <2>3. Op(queue[k]) = "set-active" /\ Object(queue[k]) = Object(id)
    BY <2>2
  <2>4. Reconciled(intent, id) = WithIntent(intent, queue[LastOf(same)], "queued")
    BY <1>3 DEF Reconciled
  <2> HIDE DEF same
  <2>5. Reconciled(intent, id) =
          [intent EXCEPT ![Object(id)] = [desired |-> requests[queue[k]].active,
                                          status |-> "queued"]]
    BY <2>2, <2>3, <2>4 DEF WithIntent
  <2>6. ASSUME Object(id) = o
        PROVE  Follows(o) = [desired |-> requests[queue[k]].active, status |-> "queued"]
    <3>1. queue[k] \in WaitingFor(o)
      BY <2>3, <2>6 DEF WaitingFor, Waiting
    <3>2. \A x \in WaitingFor(o) : x = queue[k]
      <4> TAKE x \in WaitingFor(o)
      <4>1. x \in Known /\ queue[k] \in Known /\ x <= queue[k] /\ queue[k] <= x
        BY <3>1, FollowsLatest DEF WaitingFor
      <4> QED BY <4>1 DEF Known
    <3>3. (CHOOSE x \in WaitingFor(o) : TRUE) = queue[k]
      BY <3>1, <3>2
    <3> QED BY <3>1, <3>3 DEF Follows
  <2> QED BY <1>3, <2>5, <2>6
<1> QED BY <1>1, <1>2, <1>3

\* An updater leaves the intent that Leaves says.
LEMMA RenderIntent ==
  ASSUME QueueInv, PageInv, Render, NEW o \in Objects
  PROVE  /\ updates # <<>>
         /\ page'.intent[o] = IF Touches(updates[1], o) THEN Leaves(updates[1], o)
                                                        ELSE page.intent[o]
<1> DEFINE u == updates[1]
<1>1. page \in Pages /\ page.intent \in [Objects -> Intents]
  BY DEF PageInv, Pages
<1>2. updates # <<>> /\ Head(updates) = u /\ (u.kind \in Numbered => u.id \in Known)
  <2>1. updates # <<>>
    BY DEF Render, ApplyQueued, ApplyRunning, ApplySettled, ApplyAcked,
           ApplySelected, ApplyHeader, ApplyReset, ApplyOpened, ApplyFronted, Takes
  <2> QED BY <2>1, Taken
<1> HIDE DEF u
<1>3. CASE ApplyQueued
  <2>1. u.kind = "queued" /\ page'.intent = WithIntent(page.intent, u.id, "queued")
    BY <1>1, <1>2, <1>3 DEF ApplyQueued, Takes, Pages
  <2>2. page'.intent[o] = IF Touches(u, o) THEN Leaves(u, o) ELSE page.intent[o]
    BY <1>1, <2>1 DEF WithIntent, Touches, Leaves
  <2> QED BY <1>2, <2>2 DEF u
<1>4. CASE ApplyRunning
  <2>1. u.kind = "running" /\ page'.intent = WithIntent(page.intent, u.id, "running")
    BY <1>1, <1>2, <1>4 DEF ApplyRunning, Takes, Pages
  <2>2. page'.intent[o] = IF Touches(u, o) THEN Leaves(u, o) ELSE page.intent[o]
    BY <1>1, <2>1 DEF WithIntent, Touches, Leaves
  <2> QED BY <1>2, <2>2 DEF u
<1>5. CASE ApplySettled
  <2>1. u.kind = "settled" /\ page'.intent = Reconciled(page.intent, u.id)
    BY <1>1, <1>2, <1>5 DEF ApplySettled, Takes, Pages
  <2>2. page'.intent[o] = IF Touches(u, o) THEN Leaves(u, o) ELSE page.intent[o]
    BY <1>1, <1>2, <2>1, ReconciledFollows DEF Touches, Leaves, Numbered
  <2> QED BY <1>2, <2>2 DEF u
<1>6. CASE ApplyReset
  <2>1. u.kind = "reset" /\ page'.intent = [x \in Objects |-> NoIntent]
    BY <1>2, <1>6 DEF ApplyReset, Takes, EmptyPage
  <2>2. page'.intent[o] = IF Touches(u, o) THEN Leaves(u, o) ELSE page.intent[o]
    BY <2>1 DEF Touches, Leaves
  <2> QED BY <1>2, <2>2 DEF u
<1>7. CASE ApplyAcked \/ ApplySelected \/ ApplyHeader \/ ApplyOpened \/ ApplyFronted
  <2>1. u.kind \in {"acked", "selected", "header", "opened", "fronted"}
    BY <1>2, <1>7 DEF ApplyAcked, ApplySelected, ApplyHeader, ApplyOpened, ApplyFronted, Takes
  <2>2. page'.intent = page.intent
    BY <1>1, <1>7 DEF ApplyAcked, ApplySelected, ApplyHeader, ApplyOpened, ApplyFronted, Pages
  <2>3. page'.intent[o] = IF Touches(u, o) THEN Leaves(u, o) ELSE page.intent[o]
    BY <2>1, <2>2 DEF Touches
  <2> QED BY <1>2, <2>3 DEF u
<1> QED BY <1>3, <1>4, <1>5, <1>6, <1>7 DEF Render

\* What the sets of updaters depend on.
LEMMA SameEnds ==
  ASSUME UNCHANGED <<queue, current, requests>>, actions'.resets = actions.resets, NEW o
  PROVE  Touching(o)' = Touching(o) /\ Right(o)' = Right(o) /\ Leaving(o)' = Leaving(o)
<1>1. Waiting' = Waiting /\ Outstanding' = Outstanding
  BY DEF Waiting, Outstanding
<1>2. \A u : Touches(u, o)' <=> Touches(u, o)
  BY DEF Touches, Op, Object
<1>3. WaitingFor(o)' = WaitingFor(o) /\ SetActives(o)' = SetActives(o)
  BY <1>1 DEF WaitingFor, SetActives, Op, Object
<1>4. Follows(o)' = Follows(o)
  BY <1>3 DEF Follows
<1>5. \A u : Leaves(u, o)' = Leaves(u, o)
  BY <1>4 DEF Leaves
<1>6. \A v : Good(v, o)' <=> Good(v, o)
  BY <1>3 DEF Good
<1> QED BY <1>2, <1>5, <1>6 DEF Touching, Right, Leaving

\* A render keeps the intents: it is in them what the updater leaves.
LEMMA RenderShows ==
  ASSUME QueueInv, PageInv, IntentsInv, Render
  PROVE  IntentsInv'
<1>1. UNCHANGED <<queue, current, requests>> /\ actions' = actions
  BY DEF Render, ApplyQueued, ApplyRunning, ApplySettled, ApplyAcked,
         ApplySelected, ApplyHeader, ApplyReset, ApplyOpened, ApplyFronted, Takes
<1> SUFFICES ASSUME NEW o \in Objects
             PROVE  Ends(page'.intent[o], updates', Touching(o)', Right(o)', Leaving(o)')
  BY DEF IntentsInv
<1>2. Touching(o)' = Touching(o) /\ Right(o)' = Right(o) /\ Leaving(o)' = Leaving(o)
  BY <1>1, SameEnds
<1>3. updates \in Seq(Updates) /\ updates # <<>> /\ updates[1] \in Updates
  BY RenderIntent, Taken DEF PageInv, UpdatesTyped
<1>4. Ends(page.intent[o], updates, Touching(o), Right(o), Leaving(o))
  BY DEF IntentsInv
<1>5. updates[1] \notin Touching(o) => page'.intent[o] = page.intent[o]
  BY <1>3, RenderIntent DEF Touching
<1>6. updates[1] \in Touching(o) /\ updates[1] \in Leaving(o) => page'.intent[o] \in Right(o)
  BY <1>3, RenderIntent DEF Touching, Leaving
<1>7. Ends(page'.intent[o], Tail(updates), Touching(o), Right(o), Leaving(o))
  BY <1>3, <1>4, <1>5, <1>6, EndsTaken
<1>8. CASE updates' = Tail(updates)
  BY <1>2, <1>7, <1>8
<1>9. CASE ApplyOpened
  <2> DEFINE object == Head(updates).object
             existing == TabsOf(object)
             index == IF existing = {} THEN Len(page.tabs) + 1 ELSE CHOOSE i \in existing : TRUE
             f == [kind |-> "fronted", index |-> index]
             s == [kind |-> "selected", object |-> object]
  <2>1. updates' = Tail(updates) \o <<f, s>> /\ f.kind = "fronted" /\ s.kind = "selected"
    BY <1>9 DEF ApplyOpened
  <2> HIDE DEF f, s
  <2>2. f \notin Touching(o) /\ s \notin Touching(o)
    BY <2>1 DEF Touching, Touches
  <2>3. Tail(updates) \in Seq(Updates \cup {f, s}) /\ <<f, s>> \in Seq(Updates \cup {f, s})
    <3>1. Tail(updates) \in Seq(Updates)
      BY <1>3, Rest
    <3>2. Tail(updates) \in Seq(Updates \cup {f, s})
      BY <3>1, Wider
    <3> QED BY <3>2
  <2>4. \A u \in Elements(<<f, s>>) : u \notin Touching(o)
    BY <2>2 DEF Elements
  <2>5. Ends(page'.intent[o], Tail(updates) \o <<f, s>>, Touching(o), Right(o), Leaving(o))
    BY <1>7, <2>3, <2>4, EndsJoined
  <2> QED BY <1>2, <2>1, <2>5
<1> QED
  BY <1>8, <1>9 DEF Render, ApplyQueued, ApplyRunning, ApplySettled, ApplyAcked,
     ApplySelected, ApplyHeader, ApplyReset, ApplyFronted, Takes

\* What touches no intent is dispatched.
LEMMA QuietShows ==
  ASSUME QueueInv, PageInv, IntentsInv, UNCHANGED <<queue, current, requests>>,
         actions'.resets = actions.resets, page'.intent = page.intent,
         NEW more \in Seq(Updates), updates' = updates \o more,
         \A u \in Elements(more) : u.kind \in {"acked", "selected", "opened", "header"}
  PROVE  IntentsInv'
<1> SUFFICES ASSUME NEW o \in Objects
             PROVE  Ends(page'.intent[o], updates', Touching(o)', Right(o)', Leaving(o)')
  BY DEF IntentsInv
<1>1. Touching(o)' = Touching(o) /\ Right(o)' = Right(o) /\ Leaving(o)' = Leaving(o)
  BY SameEnds
<1>2. updates \in Seq(Updates)
  BY DEF PageInv, UpdatesTyped
<1>3. \A u \in Elements(more) : u \notin Touching(o)
  BY DEF Touching, Touches
<1>4. Ends(page.intent[o], updates, Touching(o), Right(o), Leaving(o))
  BY DEF IntentsInv
<1>5. Ends(page.intent[o], updates \o more, Touching(o), Right(o), Leaving(o))
  BY <1>2, <1>3, <1>4, EndsJoined
<1> QED BY <1>1, <1>5

LEMMA SameShows ==
  ASSUME QueueInv, PageInv, IntentsInv, UNCHANGED <<queue, current, requests>>,
         actions'.resets = actions.resets, page'.intent = page.intent, updates' = updates
  PROVE  IntentsInv'
<1> SUFFICES ASSUME NEW o \in Objects
             PROVE  Ends(page'.intent[o], updates', Touching(o)', Right(o)', Leaving(o)')
  BY DEF IntentsInv
<1>1. Touching(o)' = Touching(o) /\ Right(o)' = Right(o) /\ Leaving(o)' = Leaving(o)
  BY SameEnds
<1> QED BY <1>1 DEF IntentsInv

\* After a session change the page shows no intent until it is told of one again.
LEMMA ResetShows ==
  ASSUME QueueInv, PageInv, IntentsInv, SessionChanges
  PROVE  IntentsInv'
<1> DEFINE u == [kind |-> "reset"]
<1>1. updates' = Append(updates, u) /\ actions' = [actions EXCEPT !.resets = @ + 1]
  BY DEF SessionChanges
<1>2. updates \in Seq(Updates) /\ u \in Updates /\ u.kind = "reset"
  BY DEF PageInv, UpdatesTyped, Updates
<1>3. actions'.resets > 0
  BY <1>1 DEF PageInv, BackendTypes
<1> HIDE DEF u
<1>4. updates' = updates \o <<u>>
  BY <1>1, <1>2
<1> SUFFICES ASSUME NEW o \in Objects
             PROVE  Ends(page'.intent[o], updates', Touching(o)', Right(o)', Leaving(o)')
  BY DEF IntentsInv
<1>5. u \in Touching(o)'
  BY <1>2 DEF Touching, Touches
<1>6. u \in Leaving(o)'
  <2>1. Leaves(u, o)' = NoIntent
    BY <1>2 DEF Leaves
  <2>2. NoIntent \in Intents /\ Good(NoIntent, o)'
    BY <1>3 DEF Intents, Good
  <2> QED BY <1>2, <2>1, <2>2 DEF Leaving, Right
<1> QED BY <1>2, <1>4, <1>5, <1>6, EndsLast

-----------------------------------------------------------------------------
\* What a call and a completion change of the calls that are outstanding.

\* Call n joins them in the place of those that are gone: one, if it is another call
\* for the flag of the same object, or none.
Replaces(gone, same, op, object, n) ==
  /\ same = {} => gone = {}
  /\ same # {} => \E x \in Waiting : /\ gone = {x} /\ op = "set-active"
                                     /\ Op(x) = op /\ Object(x) = object
  /\ current # None => Waiting' = (Waiting \ gone) \cup {n}
  /\ Outstanding' = (Outstanding \ gone) \cup {n}

\* A new call joins them, in the place of the one that gives way to it.
LEMMA RequestMoves ==
  ASSUME QueueInv, PageInv, NEW op \in Ops, NEW object \in Objects \cup {NoObject},
         NEW active \in Active, Request(op, object, active), NEW n, n = Len(requests) + 1,
         NEW same, same = Replaceable(op, object)
  PROVE  /\ n \notin Known /\ n \in Ids /\ Known' = Known \cup {n} /\ n \in Nat
         /\ Op(n)' = op /\ Object(n)' = object /\ requests'[n].active = active
         /\ \A id \in Known : requests'[id] = requests[id]
         /\ \A id \in Known : id < n
         /\ current = None => same = {} /\ Outstanding = {} /\ Waiting' = {} /\ current' = n
         /\ current # None => current' = current
         /\ \E gone \in SUBSET Waiting : Replaces(gone, same, op, object, n)
<1> DEFINE q == Enqueued(same, n)
<1>1. /\ n <= MaxRequests /\ n \in Nat \ {0} /\ Len(requests') = n
      /\ requests' = Append(requests, [op |-> op, object |-> object, active |-> active])
      /\ \/ current = None /\ Proceed(q)
         \/ current # None /\ queue' = q /\ current' = current
  BY RequestDispatches
<1>2. requests \in Seq(Asked) /\ Known \subseteq Ids /\ DOMAIN requests = Known
  BY KnownIds DEF QueueInv
<1>3. n \notin Known /\ n \in Ids /\ Known' = Known \cup {n} /\ \A id \in Known : id < n
  BY <1>1, <1>2 DEF Known, Ids
<1>4. /\ requests'[n] = [op |-> op, object |-> object, active |-> active]
      /\ \A id \in Known : requests'[id] = requests[id]
  BY <1>1, <1>2
<1>10. Op(n)' = op /\ Object(n)' = object /\ requests'[n].active = active
  BY <1>4 DEF Op, Object
<1>5. /\ q \in Seq(1..n) /\ Distinct(q)
      /\ Elements(q) = {n} \cup {x \in Waiting : same = {} \/ x # queue[LastOf(same)]}
  BY NewQueue
<1> HIDE DEF q
<1>6. PICK gone \in SUBSET Waiting :
        /\ same = {} => gone = {}
        /\ same # {} => \E x \in Waiting : /\ gone = {x} /\ op = "set-active"
                                           /\ Op(x) = op /\ Object(x) = object
        /\ Elements(q) = (Waiting \ gone) \cup {n}
  <2>1. CASE same = {}
    BY <1>5, <2>1
  <2>2. CASE same # {}
    <3>1. PICK k \in DOMAIN queue : /\ LastOf(same) = k /\ op = "set-active"
                                    /\ Op(queue[k]) = op /\ Object(queue[k]) = object
      BY <2>2, OneGivesWay
    <3>2. queue[k] \in Waiting /\ Elements(q) = (Waiting \ {queue[k]}) \cup {n}
      BY <1>5, <2>2, <3>1 DEF Waiting
    <3> QED BY <2>2, <3>1, <3>2
  <2> QED BY <2>1, <2>2
<1>7. n # None /\ None \notin Waiting
  BY <1>1 DEF QueueInv, Known, Waiting, None
<1>8. CASE current = None
  <2>1. queue = <<>> /\ Waiting = {} /\ Outstanding = {}
    BY <1>8 DEF QueueInv, Loop, Waiting, Outstanding
  <2>2. same = {} /\ q = <<n>>
    <3>1. same = {}
      BY <2>1 DEF Replaceable
    <3> QED BY <2>1, <3>1 DEF q, Enqueued
  <2>3. queue' = <<>> /\ current' = n
    BY <1>1, <1>8, <2>2 DEF Proceed
  <2>4. Waiting' = {} /\ Outstanding' = {n}
    BY <1>7, <2>3 DEF Waiting, Outstanding
  <2>5. Replaces(gone, same, op, object, n)
    BY <1>6, <1>8, <2>1, <2>2, <2>4 DEF Replaces
  <2> QED BY <1>1, <1>3, <1>4, <1>6, <1>8, <1>10, <2>1, <2>2, <2>3, <2>4, <2>5
<1>9. CASE current # None
  <2>1. queue' = q /\ current' = current
    BY <1>1, <1>9
  <2>2. Waiting' = (Waiting \ gone) \cup {n}
    BY <1>6, <2>1 DEF Waiting, Elements
  <2>3. current \notin Waiting
    BY DEF QueueInv, PromisesAccounted
  <2>4. Outstanding' = (Outstanding \ gone) \cup {n}
    BY <1>6, <1>9, <2>1, <2>2, <2>3 DEF Outstanding
  <2>5. Replaces(gone, same, op, object, n)
    BY <1>6, <2>2, <2>4 DEF Replaces
  <2> QED BY <1>1, <1>3, <1>4, <1>9, <1>10, <2>1, <2>5
<1> QED BY <1>8, <1>9

\* The call that is processed leaves, and the next one starts.
LEMMA SettlesMoves ==
  ASSUME QueueInv, current # None, Proceed(queue)
  PROVE  /\ current \in Known
         /\ Outstanding' = Outstanding \ {current} /\ current \in Outstanding
         /\ Waiting' = Waiting \ {current'} /\ current \notin Waiting
         /\ queue = <<>> => current' = None /\ Waiting = {}
         /\ queue # <<>> => current' = Head(queue) /\ Head(queue) \in Waiting
<1>1. Len(requests) \in Nat /\ queue \in Seq(1..Len(requests)) /\ Distinct(queue)
  BY DEF QueueInv, Known, PromisesAccounted, Distinct
<1>2. Outstanding' = Elements(queue) /\ current' \notin Waiting'
  BY <1>1, ProceedTakes
<1>3. current \notin Waiting /\ Elements(queue) = Waiting
  BY DEF QueueInv, PromisesAccounted, Elements, Waiting
<1>4. None \notin Waiting
  BY <1>1 DEF Waiting, None
<1>5. None \notin Waiting'
  <2>1. \A x \in Waiting' : x \in Waiting
    BY <1>2, <1>3 DEF Outstanding
  <2> QED BY <1>4, <2>1
<1>6. queue # <<>> => current' = Head(queue) /\ Head(queue) \in Waiting
  <2>1. queue # <<>> => Head(queue) = queue[1] /\ 1 \in DOMAIN queue
    BY <1>1
  <2> QED BY <2>1 DEF Proceed, Waiting
<1>7. queue = <<>> => current' = None /\ Waiting = {}
  BY DEF Proceed, Waiting
<1> QED BY <1>2, <1>3, <1>4, <1>5, <1>6, <1>7 DEF Outstanding, QueueInv

LEMMA One ==
  ASSUME NEW U, NEW u \in U
  PROVE  <<u>> \in Seq(U) /\ Elements(<<u>>) = {u}
<1>1. DOMAIN <<u>> = {1}
  OBVIOUS
<1>2. Elements(<<u>>) = {u}
  BY <1>1 DEF Elements
<1> QED BY <1>2

\* A call shows the flag it asks for, and leaves the other objects as they are.
LEMMA RequestShows ==
  ASSUME QueueInv, PageInv, IntentsInv, NEW op \in Ops, NEW object \in Objects \cup {NoObject},
         NEW active \in Active, Request(op, object, active)
  PROVE  IntentsInv'
<1>0. PICK n, same : n = Len(requests) + 1 /\ same = Replaceable(op, object)
  OBVIOUS
<1> DEFINE q == Enqueued(same, n)
           joined == [kind |-> "queued", id |-> n, replaced |-> same # {}]
           started == [kind |-> "running", id |-> n]
<1>1. /\ n <= MaxRequests /\ n \in Nat \ {0} /\ page' = page
      /\ actions' = actions
      /\ \/ current = None /\ updates' = updates \o (<<joined>> \o Running(q))
         \/ current # None /\ updates' = updates \o <<joined>>
  BY <1>0, RequestDispatches
<1>2. /\ n \notin Known /\ n \in Ids /\ Known' = Known \cup {n}
      /\ Op(n)' = op /\ Object(n)' = object /\ requests'[n].active = active
      /\ \A id \in Known : requests'[id] = requests[id]
      /\ \A id \in Known : id < n
      /\ current = None => same = {} /\ Outstanding = {} /\ Waiting' = {} /\ current' = n
      /\ current # None => current' = current
  BY <1>0, RequestMoves
<1>11. PICK gone \in SUBSET Waiting : Replaces(gone, same, op, object, n)
  BY <1>0, RequestMoves
<1>3. /\ same = {} => gone = {}
      /\ same # {} => \E x \in Waiting : /\ gone = {x} /\ op = "set-active"
                                         /\ Op(x) = op /\ Object(x) = object
      /\ current # None => Waiting' = (Waiting \ gone) \cup {n}
      /\ Outstanding' = (Outstanding \ gone) \cup {n}
  BY <1>11 DEF Replaces
<1>4. current = None => Running(q) = <<started>>
  <2>1. ASSUME current = None PROVE queue = <<>> /\ same = {}
    BY <1>2, <2>1 DEF QueueInv, Loop
  <2>2. ASSUME current = None PROVE q = <<n>>
    BY <2>1, <2>2 DEF Enqueued
  <2> QED BY <2>2 DEF Running
<1>5. joined \in Updates /\ joined.kind = "queued" /\ joined.id = n
      /\ started \in Updates /\ started.kind = "running" /\ started.id = n
  BY <1>2 DEF Updates
<1>6. /\ updates \in Seq(Updates)
      /\ \A i \in DOMAIN updates : updates[i].kind \in Numbered => updates[i].id \in Known
  BY DEF PageInv, UpdatesTyped
<1>7. Waiting \subseteq Known /\ Outstanding \subseteq Known
  BY DEF Waiting, Outstanding, QueueInv
<1> HIDE DEF q, joined, started
<1>8. \A id \in Known : Op(id)' = Op(id) /\ Object(id)' = Object(id)
  BY <1>2 DEF Op, Object
<1> SUFFICES ASSUME NEW o \in Objects
             PROVE  Ends(page'.intent[o], updates', Touching(o)', Right(o)', Leaving(o)')
  BY DEF IntentsInv
<1>9. CASE op = "set-active" /\ object = o
  <2>1. n \in SetActives(o)'
    BY <1>2, <1>3, <1>9 DEF SetActives
  <2>2. \A other \in SetActives(o)' : other <= n
    <3>1. \A other \in SetActives(o)' : other \in Known \/ other = n
      BY <1>3, <1>7 DEF SetActives
    <3> QED BY <1>1, <1>2, <3>1 DEF Known
  <2>3. joined \in Touching(o)' /\ started \in Touching(o)'
    BY <1>2, <1>5, <1>9 DEF Touching, Touches
  <2>4. ASSUME NEW kind \in {"queued", "running"}, kind = "running" <=> n = current'
        PROVE  [desired |-> active, status |-> kind] \in Right(o)'
    <3> DEFINE v == [desired |-> active, status |-> kind]
    <3>1. v \in Intents /\ v # NoIntent /\ v.desired = active /\ v.status = kind
      BY DEF Intents, NoIntent, NoFlag
    <3> HIDE DEF v
    <3>2. Good(v, o)'
      BY <1>2, <2>1, <2>2, <2>4, <3>1 DEF Good
    <3> QED BY <3>1, <3>2 DEF Right, v
  <2>5. CASE current = None
    <3>1. Leaves(started, o)' = [desired |-> active, status |-> "running"]
      BY <1>2, <1>5 DEF Leaves
    <3>2. started \in Leaving(o)'
      BY <1>2, <1>5, <2>4, <2>5, <3>1 DEF Leaving
    <3>3. updates' = (updates \o <<joined>>) \o <<started>>
      <4>1. updates' = updates \o (<<joined>> \o <<started>>)
        BY <1>1, <1>4, <2>5
      <4> QED BY <1>5, <1>6, <4>1, ConcatAssociative
    <3>4. updates \o <<joined>> \in Seq(Updates)
      BY <1>5, <1>6
    <3> QED BY <1>5, <2>3, <3>2, <3>3, <3>4, EndsLast
  <2>6. CASE current # None
    <3>1. Leaves(joined, o)' = [desired |-> active, status |-> "queued"]
      BY <1>2, <1>5 DEF Leaves
    <3>2. n # current'
      BY <1>2, <2>6 DEF QueueInv
    <3>3. joined \in Leaving(o)'
      BY <1>5, <2>4, <3>1, <3>2 DEF Leaving
    <3>4. updates' = updates \o <<joined>>
      BY <1>1, <2>6
    <3> QED BY <1>5, <1>6, <2>3, <3>3, <3>4, EndsLast
  <2> QED BY <2>5, <2>6
<1>10. CASE ~(op = "set-active" /\ object = o)
  <2>1. \A id \in gone : ~(Op(id) = "set-active" /\ Object(id) = o)
    BY <1>3, <1>10
  <2>2. SetActives(o)' = SetActives(o)
    BY <1>2, <1>3, <1>7, <1>8, <1>10, <2>1 DEF SetActives
  <2>3. WaitingFor(o)' = WaitingFor(o)
    <3>1. CASE current = None
      <4>1. Waiting = {}
        BY <1>2, <3>1 DEF Outstanding
      <4> QED BY <1>2, <3>1, <4>1 DEF WaitingFor
    <3>2. CASE current # None
      BY <1>2, <1>3, <1>7, <1>8, <1>10, <2>1, <3>2 DEF WaitingFor
    <3> QED BY <3>1, <3>2
  <2>4. SetActives(o) \subseteq Known /\ WaitingFor(o) \subseteq Known
    BY <1>7 DEF SetActives, WaitingFor
  <2>5. Follows(o)' = Follows(o)
    <3>1. CASE WaitingFor(o) = {}
      BY <2>3, <3>1 DEF Follows
    <3>2. CASE WaitingFor(o) # {}
      <4>1. (CHOOSE id \in WaitingFor(o) : TRUE) \in Known
        BY <2>4, <3>2
      <4> QED BY <1>2, <2>3, <3>2, <4>1 DEF Follows
    <3> QED BY <3>1, <3>2
  <2>6. \A v : Good(v, o) => Good(v, o)'
    <3>1. SetActives(o) # {} => current' = current
      BY <1>2 DEF SetActives
    <3> QED BY <1>1, <1>2, <2>2, <2>4, <3>1 DEF Good
  <2>7. ASSUME NEW u, u.kind \in Numbered => u.id \in Known
        PROVE  /\ Touches(u, o)' <=> Touches(u, o)
               /\ Touches(u, o) => Leaves(u, o)' = Leaves(u, o)
    <3>1. Touches(u, o)' <=> Touches(u, o)
      BY <1>8, <2>7 DEF Touches, Numbered
    <3>2. Touches(u, o) => \/ u.kind = "reset"
                           \/ u.kind \in {"queued", "running", "settled"} /\ u.id \in Known
      BY <2>7 DEF Touches, Numbered
    <3> QED BY <1>2, <2>5, <3>1, <3>2 DEF Leaves
  <2>8. \A v : v \in Right(o) => v \in Right(o)'
    BY <2>6 DEF Right
  <2>9. /\ \A i \in DOMAIN updates : updates[i] \in Touching(o) <=> updates[i] \in Touching(o)'
        /\ \A i \in DOMAIN updates :
             updates[i] \in Touching(o) /\ updates[i] \in Leaving(o) => updates[i] \in Leaving(o)'
        /\ page.intent[o] \in Right(o) => page.intent[o] \in Right(o)'
    BY <1>6, <2>7, <2>8 DEF Touching, Leaving
  <2>10. Ends(page.intent[o], updates, Touching(o)', Right(o)', Leaving(o)')
    BY <2>9 DEF IntentsInv, Ends
  <2>11. joined \notin Touching(o)' /\ started \notin Touching(o)'
    BY <1>2, <1>5, <1>10 DEF Touching, Touches
  <2>12. \E more \in Seq(Updates) : /\ updates' = updates \o more
                                    /\ \A u \in Elements(more) : u \notin Touching(o)'
    <3>1. CASE current = None
      <4>1. PICK s, t : s = <<joined>> /\ t = <<started>>
        OBVIOUS
      <4>2. s \in Seq(Updates) /\ Elements(s) = {joined} /\ t \in Seq(Updates) /\ Elements(t) = {started}
        BY <1>5, <4>1, One
      <4>3. s \o t \in Seq(Updates)
        BY <4>2, JoinedLength
      <4>4. Elements(s \o t) = Elements(s) \cup Elements(t)
        BY <4>2, JoinedElements
      <4>5. \A u \in Elements(s \o t) : u \notin Touching(o)'
        BY <2>11, <4>2, <4>4
      <4>6. updates' = updates \o (s \o t)
        BY <1>1, <1>4, <3>1, <4>1
      <4> QED BY <4>3, <4>5, <4>6
    <3>2. CASE current # None
      <4>1. updates' = updates \o <<joined>>
        BY <1>1, <3>2
      <4>2. <<joined>> \in Seq(Updates) /\ Elements(<<joined>>) = {joined}
        BY <1>5, One
      <4> QED BY <2>11, <4>1, <4>2
    <3> QED BY <3>1, <3>2
  <2>13. Ends(page.intent[o], updates', Touching(o)', Right(o)', Leaving(o)')
    BY <1>6, <2>10, <2>12, EndsJoined
  <2> QED BY <1>1, <2>13
<1> QED BY <1>9, <1>10

\* A completion leaves what follows, and the next call shows that it runs.
LEMMA SettlesShows ==
  ASSUME QueueInv, PageInv, IntentsInv, QueueInv', NEW outcome, current # None, Settles(outcome)
  PROVE  IntentsInv'
<1>0. PICK c, h : c = current /\ h = Head(queue)
  OBVIOUS
<1> DEFINE settled == [kind |-> "settled", id |-> c]
           started == [kind |-> "running", id |-> h]
<1>1. /\ requests' = requests /\ page' = page /\ Proceed(queue) /\ actions' = actions
      /\ updates' = updates \o (<<settled>> \o Running(queue))
  BY <1>0, SettledUpdates
<1>2. /\ current \in Known
      /\ Outstanding' = Outstanding \ {current} /\ current \in Outstanding
      /\ Waiting' = Waiting \ {current'} /\ current \notin Waiting
      /\ queue = <<>> => current' = None /\ Waiting = {}
      /\ queue # <<>> => current' = h /\ h \in Waiting
  BY <1>0, <1>1, SettlesMoves
<1>3. Waiting \subseteq Known /\ Known \subseteq Ids /\ None \notin Waiting /\ Known' = Known
      /\ Known \subseteq Nat
  BY <1>1, KnownIds DEF Waiting, QueueInv, Known, None, Ids
<1>4. updates \in Seq(Updates)
  BY DEF PageInv, UpdatesTyped
<1>5. settled \in Updates /\ settled.kind = "settled" /\ settled.id = c
  BY <1>0, <1>2, <1>3 DEF Updates
<1>6. queue # <<>> => /\ started \in Updates /\ started.kind = "running" /\ started.id = h
                      /\ Running(queue) = <<started>>
  BY <1>0, <1>2, <1>3 DEF Updates, Running
<1>7. queue = <<>> => Running(queue) = <<>>
  BY DEF Running
<1>8. updates' = (updates \o <<settled>>) \o Running(queue) /\ Running(queue) \in Seq(Updates)
      /\ updates \o <<settled>> \in Seq(Updates)
  <2>1. Running(queue) \in Seq(Updates) /\ <<settled>> \in Seq(Updates)
    <3> HIDE DEF settled, started
    <3>1. <<settled>> \in Seq(Updates) /\ (queue # <<>> => <<started>> \in Seq(Updates))
      BY <1>5, <1>6, One
    <3>2. <<>> \in Seq(Updates)
      OBVIOUS
    <3> QED BY <1>6, <1>7, <3>1, <3>2
  <2> HIDE DEF settled
  <2>2. updates \o (<<settled>> \o Running(queue)) = (updates \o <<settled>>) \o Running(queue)
    BY <1>4, <2>1, ConcatAssociative
  <2>3. updates \o <<settled>> \in Seq(Updates)
    BY <1>4, <2>1
  <2> QED BY <1>1, <2>1, <2>2, <2>3
<1> HIDE DEF settled, started
<1>9. \A id : Op(id)' = Op(id) /\ Object(id)' = Object(id)
  BY <1>1 DEF Op, Object
<1> SUFFICES ASSUME NEW o \in Objects
             PROVE  Ends(page'.intent[o], updates', Touching(o)', Right(o)', Leaving(o)')
  BY DEF IntentsInv
<1>10. SetActives(o)' = SetActives(o) \ {current} /\ SetActives(o) \subseteq Known
  BY <1>2, <1>3, <1>9 DEF SetActives, Outstanding
<1>11. \A id \in WaitingFor(o) : \A other \in SetActives(o) : other <= id
  BY <1>10, FollowsLatest DEF SetActives
<1>12. \A id \in Waiting : id \in SetActives(o)' <=> id \in WaitingFor(o)
  BY <1>2, <1>9, <1>10 DEF SetActives, WaitingFor, Outstanding
<1>13. \A u : Touches(u, o)' <=> Touches(u, o)
  BY <1>9 DEF Touches
<1>14. Touching(o)' = Touching(o)
  BY <1>13 DEF Touching
<1>15. ASSUME NEW id \in WaitingFor(o), NEW kind \in {"queued", "running"},
              kind = "running" <=> id = current'
       PROVE  [desired |-> requests[id].active, status |-> kind] \in Right(o)'
  <2>0. PICK v : v = [desired |-> requests[id].active, status |-> kind]
    OBVIOUS
  <2>1. id \in Waiting /\ id \in Known /\ requests[id].active \in Active
    BY <1>3, KnownIds DEF WaitingFor, Asked
  <2>2. v \in Intents /\ v # NoIntent /\ v.desired = requests[id].active /\ v.status = kind
    BY <2>0, <2>1 DEF Intents, NoIntent, NoFlag
  <2>3. id \in SetActives(o)' /\ \A other \in SetActives(o)' : other <= id
    BY <1>10, <1>11, <1>12, <2>1
  <2>4. Good(v, o)'
    BY <1>1, <1>15, <2>2, <2>3 DEF Good
  <2> QED BY <2>0, <2>2, <2>4 DEF Right
<1>16. CASE queue # <<>> /\ Op(h) = "set-active" /\ Object(h) = o
  <2>1. h \in WaitingFor(o) /\ h = current'
    BY <1>2, <1>16 DEF WaitingFor
  <2>2. started \in Touching(o)'
    BY <1>6, <1>14, <1>16 DEF Touching, Touches
  <2>3. Leaves(started, o)' = [desired |-> requests[h].active, status |-> "running"]
    BY <1>1, <1>6, <1>16 DEF Leaves
  <2>4. started \in Leaving(o)'
    BY <1>6, <1>15, <1>16, <2>1, <2>3 DEF Leaving
  <2> QED BY <1>6, <1>8, <1>16, <2>2, <2>4, EndsLast
<1>17. CASE ~(queue # <<>> /\ Op(h) = "set-active" /\ Object(h) = o)
  <2>1. WaitingFor(o)' = WaitingFor(o) /\ current' \notin WaitingFor(o)
    BY <1>2, <1>3, <1>9, <1>17 DEF WaitingFor
  <2>2. SetActives(o)' = WaitingFor(o)
    BY <1>2, <1>9, <1>10, <2>1 DEF SetActives, WaitingFor, Outstanding
  <2>3. Follows(o)' = Follows(o)
    BY <1>1, <2>1 DEF Follows
  <2>4. Follows(o)' \in Right(o)'
    <3>1. CASE WaitingFor(o) = {}
      <4>1. Follows(o)' = NoIntent /\ NoIntent \in Intents /\ Good(NoIntent, o)'
        BY <2>2, <2>3, <3>1 DEF Follows, Intents, Good
      <4> QED BY <4>1 DEF Right
    <3>2. CASE WaitingFor(o) # {}
      <4>1. (CHOOSE id \in WaitingFor(o) : TRUE) \in WaitingFor(o)
        BY <3>2
      <4> QED BY <1>15, <2>1, <2>3, <3>2, <4>1 DEF Follows
    <3> QED BY <3>1, <3>2
  <2>5. \A u \in Elements(Running(queue)) : u \notin Touching(o)'
    BY <1>6, <1>7, <1>14, <1>17 DEF Elements, Touching, Touches
  <2>6. Ends(page.intent[o], updates \o <<settled>>, Touching(o)', Right(o)', Leaving(o)')
    <3>1. CASE Op(current) = "set-active" /\ Object(current) = o
      <4>1. settled \in Touching(o)'
        BY <1>0, <1>5, <1>14, <3>1 DEF Touching, Touches
      <4>2. settled \in Leaving(o)'
        BY <1>5, <2>4 DEF Leaving, Leaves
      <4> QED BY <1>4, <1>5, <4>1, <4>2, EndsLast
    <3>2. CASE ~(Op(current) = "set-active" /\ Object(current) = o)
      <4>1. SetActives(o)' = SetActives(o) /\ current \notin SetActives(o)
            /\ current' \notin SetActives(o)
        BY <1>10, <2>1, <2>2, <3>2 DEF SetActives
      <4>2. \A v : Good(v, o) => Good(v, o)'
        BY <1>1, <4>1 DEF Good
      <4>3. \A u : Leaves(u, o)' = Leaves(u, o)
        BY <1>1, <2>3 DEF Leaves
      <4>4. Ends(page.intent[o], updates, Touching(o)', Right(o)', Leaving(o)')
        BY <1>14, <4>2, <4>3 DEF IntentsInv, Ends, Right, Leaving
      <4>5. \A u \in Elements(<<settled>>) : u \notin Touching(o)'
        BY <1>0, <1>5, <1>14, <3>2 DEF Elements, Touching, Touches
      <4>6. <<settled>> \in Seq(Updates)
        BY <1>5
      <4> QED BY <1>4, <4>4, <4>5, <4>6, EndsJoined
    <3> QED BY <3>1, <3>2
  <2>7. Ends(page.intent[o], updates', Touching(o)', Right(o)', Leaving(o)')
    BY <1>8, <2>5, <2>6, EndsJoined
  <2> QED BY <1>1, <2>7
<1> QED BY <1>16, <1>17

LEMMA IntentsInit == Init => IntentsInv
<1> SUFFICES ASSUME Init, NEW o \in Objects
             PROVE  Ends(page.intent[o], updates, Touching(o), Right(o), Leaving(o))
  BY DEF IntentsInv
<1>1. updates = <<>> /\ page.intent[o] = NoIntent
  BY ConstantsAssumption DEF Init, EmptyPage
<1>2. NoIntent \in Right(o)
  BY DEF Init, Right, Good, Intents, SetActives, Outstanding, Waiting
<1> QED BY <1>1, <1>2 DEF Ends

LEMMA IntentsStep == QueueInv /\ QueueInv' /\ PageInv /\ IntentsInv /\ [Next]_vars => IntentsInv'
<1> SUFFICES ASSUME QueueInv, QueueInv', PageInv, IntentsInv, [Next]_vars PROVE IntentsInv'
  OBVIOUS
<1>1. ASSUME NEW op \in Ops, NEW o \in Objects \cup {NoObject}, NEW active \in Active,
             Request(op, o, active)
      PROVE  IntentsInv'
  BY <1>1, RequestShows
<1>2. CASE Executes
  BY <1>2, SameShows DEF Executes
<1>3. ASSUME NEW o \in Objects \cup {NoObject}, Answers(o) PROVE IntentsInv'
  <2>1. PICK u, v : u = [kind |-> "acked", id |-> current] /\ v = [kind |-> "selected", object |-> o]
    OBVIOUS
  <2>2. current \in Ids
    BY <1>3, KnownIds DEF Answers, QueueInv, Loop
  <2>3. u \in Updates /\ v \in Updates /\ u.kind = "acked" /\ v.kind = "selected"
    BY <2>1, <2>2 DEF Updates
  <2>4. updates' = updates \o <<u, v>>
    BY <1>3, <2>1 DEF Answers
  <2>5. <<u, v>> \in Seq(Updates) /\ \A x \in Elements(<<u, v>>) : x = u \/ x = v
    BY <2>3 DEF Elements
  <2>6. UNCHANGED <<queue, current, requests, page, actions>>
    BY <1>3 DEF Answers
  <2> QED BY <2>3, <2>4, <2>5, <2>6, QuietShows
<1>4. CASE Completes
  <2>1. current # None /\ Settles("result")
    BY <1>4 DEF Completes, QueueInv, Loop
  <2> QED BY <2>1, SettlesShows
<1>5. ASSUME NEW changed \in BOOLEAN, Fails(changed) PROVE IntentsInv'
  <2>1. current # None /\ Settles("error")
    BY <1>5 DEF Fails, QueueInv, Loop
  <2> QED BY <2>1, SettlesShows
<1>6. CASE Render
  BY <1>6, RenderShows
<1>7. ASSUME NEW u \in Updates, u.kind \in {"opened", "header"}, updates' = Append(updates, u),
             UNCHANGED <<queue, current, requests, page>>, actions'.resets = actions.resets
      PROVE  IntentsInv'
  <2>1. <<u>> \in Seq(Updates) /\ Elements(<<u>>) = {u}
    BY One
  <2>2. updates' = updates \o <<u>>
    BY <1>7 DEF PageInv, UpdatesTyped
  <2> QED BY <1>7, <2>1, <2>2, QuietShows
<1>8. ASSUME Clicks PROVE actions'.resets = actions.resets /\ UNCHANGED <<queue, current, requests>>
  BY <1>8 DEF Clicks, PageInv, BackendTypes
<1>9. ASSUME NEW o \in Objects, OpenTab(o) PROVE IntentsInv'
  <2>1. PICK u : u = [kind |-> "opened", object |-> o]
    OBVIOUS
  <2>2. u \in Updates /\ u.kind = "opened"
    BY <2>1 DEF Updates
  <2>3. updates' = Append(updates, u) /\ UNCHANGED page /\ Clicks
    BY <1>9, <2>1 DEF OpenTab
  <2> QED BY <1>7, <1>8, <2>2, <2>3
<1>10. CASE HeaderArrives
  <2>1. PICK u : u = [kind |-> "header", object |-> Head(news).object, header |-> Head(news).header]
    OBVIOUS
  <2>2. news # <<>> /\ updates' = Append(updates, u)
        /\ UNCHANGED <<queue, current, requests, page, actions>>
    BY <1>10, <2>1 DEF HeaderArrives
  <2>3. Head(news) \in News
    BY <2>2 DEF PageInv, BackendTypes
  <2>4. u \in Updates /\ u.kind = "header"
    BY <2>1, <2>3 DEF Updates, News
  <2> QED BY <1>7, <2>2, <2>4
<1>11. ASSUME NEW o \in Objects, Select(o) PROVE IntentsInv'
  <2>1. Clicks /\ updates' = updates /\ page' = [page EXCEPT !.selected = o]
    BY <1>11 DEF Select
  <2>2. page'.intent = page.intent
    BY <2>1 DEF PageInv, Pages
  <2> QED BY <1>8, <2>1, <2>2, SameShows
<1>12. ASSUME NEW i \in DOMAIN page.tabs, CloseTab(i) \/ SetActiveTab(i) PROVE IntentsInv'
  <2>1. Clicks /\ updates' = updates
    BY <1>12 DEF CloseTab, SetActiveTab
  <2>2. page'.intent = page.intent
    BY <1>12 DEF CloseTab, SetActiveTab, PageInv, Pages
  <2> QED BY <1>8, <2>1, <2>2, SameShows
<1>13. ASSUME NEW o \in Objects, ReadHeader(o) PROVE IntentsInv'
  BY <1>13, SameShows DEF ReadHeader
<1>14. CASE SessionChanges
  BY <1>14, ResetShows
<1>15. CASE UNCHANGED vars
  BY <1>15, SameShows DEF vars
<1> QED
  BY <1>1, <1>2, <1>3, <1>4, <1>5, <1>6, <1>9, <1>10, <1>11, <1>12, <1>13, <1>14, <1>15
     DEF Next, Finished

\* The toggle of an object shows the flag of the latest call for it that is outstanding and
\* says "running" only while that call runs; without such a call it shows no intent.  It
\* holds for any number of calls: what decides is the last updater that waits for the object.
THEOREM IntentAlwaysLatest == Spec => []IntentIsLatest
<1>1. QueueInv /\ PageInv /\ IntentsInv => IntentIsLatest
  <2> SUFFICES ASSUME PageInv, IntentsInv, updates = <<>>, NEW o \in Objects
               PROVE  Good(page.intent[o], o)
    BY DEF IntentIsLatest, Good
  <2>1. Ends(page.intent[o], updates, Touching(o), Right(o), Leaving(o))
    BY DEF IntentsInv
  <2>2. page.intent[o] \in Right(o)
    BY <2>1 DEF Ends
  <2> QED BY <2>2 DEF Right
<1>2. Init => QueueInv /\ PageInv /\ IntentsInv /\ Aimed
  BY InitInv, PageInit, IntentsInit
<1>3. QueueInv /\ PageInv /\ IntentsInv /\ Aimed /\ [Next]_vars
        => QueueInv' /\ PageInv' /\ IntentsInv' /\ Aimed'
  BY NextInv, PageStep, IntentsStep
<1> QED BY <1>1, <1>2, <1>3, PTL DEF Spec

-----------------------------------------------------------------------------
\* The counts: what the page will show once the waiting updaters are evaluated.

Counts == [pending : [AllOps -> Nat], loading : BOOLEAN]
Shows(p) == [pending |-> p.pending, loading |-> p.loading]

\* What an updater makes of the counts, the calls made so far being reqs.
Counted(reqs, c, u) ==
  CASE u.kind = "queued" ->
         [pending |-> IF u.replaced THEN c.pending
                      ELSE [c.pending EXCEPT ![reqs[u.id].op] = @ + 1],
          loading |-> TRUE]
    [] u.kind = "running" -> [pending |-> c.pending, loading |-> TRUE]
    [] u.kind = "settled" ->
         [pending |-> Decremented(c.pending, reqs[u.id].op),
          loading |-> \E op \in AllOps : Decremented(c.pending, reqs[u.id].op)[op] > 0]
    [] u.kind = "reset" -> [pending |-> [op \in AllOps |-> 0], loading |-> FALSE]
    [] OTHER -> c

\* The updaters us take the counts c to e; f tells what they are in between.
Leads(reqs, c, us, e) ==
  \E f : /\ f[0] = c /\ f[Len(us)] = e
         /\ \A i \in 1..Len(us) : f[i] = Counted(reqs, f[i - 1], us[i])

OutOf(op) == {id \in Outstanding : Op(id) = op}

\* What the counts have to say of the calls (PendingCounted).
Fits(e) ==
  /\ \A op \in AllOps : e.pending[op] <= Cardinality(OutOf(op))
  /\ e.loading => Outstanding # {}
  /\ actions.resets = 0 =>
       /\ \A op \in AllOps : e.pending[op] = Cardinality(OutOf(op))
       /\ Outstanding # {} => e.loading

CountsInv == \E e \in Counts : Leads(requests, Shows(page), updates, e) /\ Fits(e)

LEMMA LeadsNowhere ==
  ASSUME NEW reqs, NEW c, NEW e
  PROVE  Leads(reqs, c, <<>>, e) <=> e = c
<1>1. Len(<<>>) = 0 /\ 1..0 = {}
  OBVIOUS
<1>2. ASSUME e = c PROVE Leads(reqs, c, <<>>, e)
  <2> DEFINE f == [i \in {0} |-> c]
  <2>1. f[0] = c
    OBVIOUS
  <2> HIDE DEF f
  <2> QED BY <1>1, <1>2, <2>1 DEF Leads
<1> QED BY <1>1, <1>2 DEF Leads

LEMMA LeadsTaken ==
  ASSUME NEW reqs, NEW c, NEW U, NEW us \in Seq(U), NEW e, us # <<>>, Leads(reqs, c, us, e)
  PROVE  Leads(reqs, Counted(reqs, c, us[1]), Tail(us), e)
<1>1. PICK f : /\ f[0] = c /\ f[Len(us)] = e
               /\ \A i \in 1..Len(us) : f[i] = Counted(reqs, f[i - 1], us[i])
  BY DEF Leads
<1>2. PICK n : n = Len(Tail(us))
  OBVIOUS
<1>3. n \in Nat /\ Len(us) = n + 1 /\ \A i \in 1..n : Tail(us)[i] = us[i + 1]
  BY <1>2
<1> DEFINE g == [i \in 0..n |-> f[i + 1]]
<1>4. g[0] = f[1] /\ g[n] = f[n + 1] /\ \A i \in 1..n : g[i] = f[i + 1] /\ g[i - 1] = f[i]
  BY <1>3
<1> HIDE DEF g
<1>5. f[1] = Counted(reqs, c, us[1])
  BY <1>1, <1>3
<1>6. ASSUME NEW i \in 1..n PROVE g[i] = Counted(reqs, g[i - 1], Tail(us)[i])
  <2>1. i + 1 \in 1..Len(us) /\ (i + 1) - 1 = i
    BY <1>3
  <2>2. f[i + 1] = Counted(reqs, f[i], us[i + 1])
    BY <1>1, <2>1
  <2> QED BY <1>3, <1>4, <2>2
<1> QED BY <1>1, <1>2, <1>3, <1>4, <1>5, <1>6 DEF Leads

LEMMA LeadsAppended ==
  ASSUME NEW reqs, NEW c, NEW U, NEW us \in Seq(U), NEW e, Leads(reqs, c, us, e), NEW u \in U
  PROVE  Leads(reqs, c, us \o <<u>>, Counted(reqs, e, u))
<1>1. PICK f : /\ f[0] = c /\ f[Len(us)] = e
               /\ \A i \in 1..Len(us) : f[i] = Counted(reqs, f[i - 1], us[i])
  BY DEF Leads
<1>2. PICK n, t : n = Len(us) /\ t = us \o <<u>>
  OBVIOUS
<1>3. n \in Nat /\ Len(t) = n + 1 /\ t[n + 1] = u /\ \A i \in 1..n : t[i] = us[i]
  BY <1>2
<1> DEFINE g == [i \in 0..(n + 1) |-> IF i = n + 1 THEN Counted(reqs, e, u) ELSE f[i]]
<1>4. g[n + 1] = Counted(reqs, e, u) /\ \A i \in 0..n : g[i] = f[i]
  BY <1>3
<1> HIDE DEF g
<1>5. ASSUME NEW i \in 1..(n + 1) PROVE g[i] = Counted(reqs, g[i - 1], t[i])
  <2>1. CASE i = n + 1
    BY <1>1, <1>2, <1>3, <1>4, <2>1
  <2>2. CASE i # n + 1
    <3>1. i \in 1..n /\ i \in 0..n /\ i - 1 \in 0..n
      BY <1>3, <2>2
    <3> QED BY <1>1, <1>2, <1>3, <1>4, <3>1
  <2> QED BY <2>1, <2>2
<1>6. Leads(reqs, c, t, Counted(reqs, e, u))
  BY <1>1, <1>3, <1>4, <1>5 DEF Leads
<1> QED BY <1>2, <1>6

\* Counts depend on the calls only by the numbers the updaters bear.
LEMMA LeadsSame ==
  ASSUME NEW reqs, NEW reqs2, NEW c, NEW U, NEW us \in Seq(U), NEW e, Leads(reqs, c, us, e),
         NEW K, \A i \in DOMAIN us : us[i].kind \in Numbered => us[i].id \in K,
         \A id \in K : reqs2[id] = reqs[id]
  PROVE  Leads(reqs2, c, us, e)
<1>1. \A i \in 1..Len(us) : \A d : Counted(reqs2, d, us[i]) = Counted(reqs, d, us[i])
  <2> TAKE i \in 1..Len(us)
  <2> TAKE d
  <2> DEFINE u == us[i]
  <2>1. u.kind \in Numbered => reqs2[u.id] = reqs[u.id]
    OBVIOUS
  <2> HIDE DEF u
  <2>2. Counted(reqs2, d, u) = Counted(reqs, d, u)
    BY <2>1 DEF Counted, Numbered
  <2> QED BY <2>2 DEF u
<1> QED BY <1>1 DEF Leads

LEMMA CountedType ==
  ASSUME NEW reqs, NEW c \in Counts, NEW u, u.kind \in Numbered => reqs[u.id].op \in AllOps
  PROVE  Counted(reqs, c, u) \in Counts
<1>1. c.pending \in [AllOps -> Nat] /\ c.loading \in BOOLEAN
  BY DEF Counts
<1>2. CASE u.kind = "queued"
  <2>1. reqs[u.id].op \in AllOps
    BY <1>2 DEF Numbered
  <2>2. [c.pending EXCEPT ![reqs[u.id].op] = @ + 1] \in [AllOps -> Nat]
    BY <1>1, <2>1
  <2> QED BY <1>1, <1>2, <2>2 DEF Counted, Counts
<1>3. CASE u.kind = "settled"
  <2>1. reqs[u.id].op \in AllOps
    BY <1>3 DEF Numbered
  <2>2. Decremented(c.pending, reqs[u.id].op) \in [AllOps -> Nat]
    BY <1>1, <2>1 DEF Decremented
  <2> QED BY <1>3, <2>2 DEF Counted, Counts
<1>4. CASE u.kind = "running" \/ u.kind = "reset"
  BY <1>1, <1>4 DEF Counted, Counts
<1>5. CASE u.kind \notin {"queued", "settled", "running", "reset"}
  BY <1>5 DEF Counted
<1> QED BY <1>2, <1>3, <1>4, <1>5

\* An updater makes of the counts what Counted says.
LEMMA RenderCounts ==
  ASSUME QueueInv, PageInv, Render
  PROVE  Shows(page') = Counted(requests, Shows(page), updates[1])
<1> DEFINE u == updates[1]
<1>1. page \in Pages /\ page.pending \in [AllOps -> Nat] /\ page.loading \in BOOLEAN
  BY DEF PageInv, Pages
<1>2. updates # <<>> /\ Head(updates) = u
  <2>1. updates # <<>>
    BY DEF Render, ApplyQueued, ApplyRunning, ApplySettled, ApplyAcked,
           ApplySelected, ApplyHeader, ApplyReset, ApplyOpened, ApplyFronted, Takes
  <2> QED BY <2>1, Taken
<1> HIDE DEF u
<1>3. CASE ApplyQueued
  <2>1. /\ u.kind = "queued" /\ page'.loading = TRUE
        /\ page'.pending = [page.pending EXCEPT ![Op(u.id)] = IF u.replaced THEN @ ELSE @ + 1]
    BY <1>1, <1>2, <1>3 DEF ApplyQueued, Takes, Pages
  <2>2. page'.pending = IF u.replaced THEN page.pending
                        ELSE [page.pending EXCEPT ![Op(u.id)] = @ + 1]
    BY <1>1, <2>1
  <2>3. Shows(page') = Counted(requests, Shows(page), u)
    BY <2>1, <2>2 DEF Counted, Shows, Op
  <2> QED BY <2>3 DEF u
<1>4. CASE ApplyRunning
  <2>1. u.kind = "running" /\ page'.loading = TRUE /\ page'.pending = page.pending
    BY <1>1, <1>2, <1>4 DEF ApplyRunning, Takes, Pages
  <2>2. Shows(page') = Counted(requests, Shows(page), u)
    BY <2>1 DEF Counted, Shows
  <2> QED BY <2>2 DEF u
<1>5. CASE ApplySettled
  <2> DEFINE pending == Decremented(page.pending, Op(u.id))
  <2>1. /\ u.kind = "settled" /\ page'.pending = pending
        /\ page'.loading = \E op \in AllOps : pending[op] > 0
    BY <1>1, <1>2, <1>5 DEF ApplySettled, Takes, Pages
  <2>2. Shows(page') = Counted(requests, Shows(page), u)
    BY <2>1 DEF Counted, Shows, Op
  <2> QED BY <2>2 DEF u
<1>6. CASE ApplyReset
  <2>1. u.kind = "reset" /\ page'.pending = [op \in AllOps |-> 0] /\ page'.loading = FALSE
    BY <1>2, <1>6 DEF ApplyReset, Takes, EmptyPage
  <2>2. Shows(page') = Counted(requests, Shows(page), u)
    BY <2>1 DEF Counted, Shows
  <2> QED BY <2>2 DEF u
<1>7. CASE ApplyAcked \/ ApplySelected \/ ApplyHeader \/ ApplyOpened \/ ApplyFronted
  <2>1. u.kind \in {"acked", "selected", "header", "opened", "fronted"}
    BY <1>2, <1>7 DEF ApplyAcked, ApplySelected, ApplyHeader, ApplyOpened, ApplyFronted, Takes
  <2>2. page'.pending = page.pending /\ page'.loading = page.loading
    BY <1>1, <1>7 DEF ApplyAcked, ApplySelected, ApplyHeader, ApplyOpened, ApplyFronted, Pages
  <2>3. Shows(page') = Counted(requests, Shows(page), u)
    BY <2>1, <2>2 DEF Counted, Shows
  <2> QED BY <2>3 DEF u
<1> QED BY <1>3, <1>4, <1>5, <1>6, <1>7 DEF Render

\* What the counts have to say is about the calls outstanding and their operations.
LEMMA SameFits ==
  ASSUME UNCHANGED <<queue, current, requests>>, actions'.resets = actions.resets, NEW e
  PROVE  Fits(e)' <=> Fits(e)
<1>1. Outstanding' = Outstanding
  BY DEF Waiting, Outstanding
<1>2. \A op : OutOf(op)' = OutOf(op)
  BY <1>1 DEF OutOf, Op
<1> QED BY <1>1, <1>2 DEF Fits

LEMMA Pair ==
  ASSUME NEW U, NEW u \in U, NEW v \in U
  PROVE  <<u, v>> = <<u>> \o <<v>>
<1> DEFINE c == <<u>> \o <<v>>
<1>1. <<u, v>> \in Seq(U) /\ Len(<<u, v>>) = 2 /\ <<u, v>>[1] = u /\ <<u, v>>[2] = v
  OBVIOUS
<1>2. c \in Seq(U) /\ Len(c) = 2 /\ c[1] = u /\ c[2] = v
  OBVIOUS
<1> HIDE DEF c
<1>3. \A i \in 1..2 : c[i] = <<u, v>>[i]
  BY <1>1, <1>2
<1>4. c = <<u, v>>
  BY <1>1, <1>2, <1>3, SeqEqual
<1> QED BY <1>4 DEF c

\* A dispatch of an updater without a count.
LEMMA QuietLeads ==
  ASSUME NEW reqs, NEW c, NEW U, NEW us \in Seq(U), NEW e, Leads(reqs, c, us, e), NEW u,
         u.kind \in {"acked", "selected", "opened", "header", "fronted"}
  PROVE  Leads(reqs, c, us \o <<u>>, e)
<1>1. us \in Seq(U \cup {u})
  BY Wider
<1>2. Leads(reqs, c, us \o <<u>>, Counted(reqs, e, u))
  BY <1>1, LeadsAppended
<1>3. Counted(reqs, e, u) = e
  BY DEF Counted
<1> QED BY <1>2, <1>3

LEMMA SameCounts ==
  ASSUME CountsInv, UNCHANGED <<queue, current, requests>>, actions'.resets = actions.resets,
         Shows(page') = Shows(page), updates' = updates
  PROVE  CountsInv'
<1>1. PICK e \in Counts : Leads(requests, Shows(page), updates, e) /\ Fits(e)
  BY DEF CountsInv
<1>2. Fits(e)'
  BY <1>1, SameFits
<1> QED BY <1>1, <1>2 DEF CountsInv

LEMMA QuietCounts ==
  ASSUME QueueInv, PageInv, CountsInv, UNCHANGED <<queue, current, requests>>,
         actions'.resets = actions.resets, Shows(page') = Shows(page),
         NEW u, u.kind \in {"acked", "selected", "opened", "header"}, updates' = updates \o <<u>>
  PROVE  CountsInv'
<1>1. PICK e \in Counts : Leads(requests, Shows(page), updates, e) /\ Fits(e)
  BY DEF CountsInv
<1>2. updates \in Seq(Updates)
  BY DEF PageInv, UpdatesTyped
<1>3. Leads(requests, Shows(page), updates \o <<u>>, e)
  BY <1>1, <1>2, QuietLeads
<1>4. Fits(e)'
  BY <1>1, SameFits
<1> QED BY <1>1, <1>3, <1>4 DEF CountsInv

LEMMA RenderCountsKeep ==
  ASSUME QueueInv, PageInv, CountsInv, Render
  PROVE  CountsInv'
<1>1. PICK e \in Counts : Leads(requests, Shows(page), updates, e) /\ Fits(e)
  BY DEF CountsInv
<1>2. updates \in Seq(Updates) /\ updates # <<>> /\ Tail(updates) \in Seq(Updates)
  <2>1. updates # <<>>
    BY DEF Render, ApplyQueued, ApplyRunning, ApplySettled, ApplyAcked,
           ApplySelected, ApplyHeader, ApplyReset, ApplyOpened, ApplyFronted, Takes
  <2> QED BY <2>1, Rest DEF PageInv, UpdatesTyped
<1>3. Leads(requests, Shows(page'), Tail(updates), e)
  BY <1>1, <1>2, RenderCounts, LeadsTaken
<1>4. UNCHANGED <<queue, current, requests, actions>>
  BY DEF Render, ApplyQueued, ApplyRunning, ApplySettled, ApplyAcked,
         ApplySelected, ApplyHeader, ApplyReset, ApplyOpened, ApplyFronted, Takes
<1>5. Fits(e)'
  BY <1>1, <1>4, SameFits
<1>6. CASE updates' = Tail(updates)
  BY <1>1, <1>3, <1>4, <1>5, <1>6 DEF CountsInv
<1>7. CASE ApplyOpened
  <2> DEFINE object == Head(updates).object
             existing == TabsOf(object)
             index == IF existing = {} THEN Len(page.tabs) + 1 ELSE CHOOSE i \in existing : TRUE
  <2>1. PICK f, s : /\ f = [kind |-> "fronted", index |-> index]
                    /\ s = [kind |-> "selected", object |-> object]
    OBVIOUS
  <2>2. updates' = Tail(updates) \o <<f, s>> /\ f.kind = "fronted" /\ s.kind = "selected"
    BY <1>7, <2>1 DEF ApplyOpened
  <2> HIDE DEF index, existing, object
  <2>3. PICK U : U = Updates \cup {f, s}
    OBVIOUS
  <2>4. Tail(updates) \in Seq(U) /\ <<f>> \in Seq(U) /\ <<s>> \in Seq(U)
        /\ <<f, s>> = <<f>> \o <<s>> /\ Tail(updates) \o <<f>> \in Seq(U)
    BY <1>2, <2>3, Wider, Pair
  <2>5. Leads(requests, Shows(page'), Tail(updates) \o <<f>>, e)
    BY <1>3, <2>2, <2>4, QuietLeads
  <2>6. Leads(requests, Shows(page'), (Tail(updates) \o <<f>>) \o <<s>>, e)
    BY <2>2, <2>4, <2>5, QuietLeads
  <2>7. updates' = (Tail(updates) \o <<f>>) \o <<s>>
    BY <2>2, <2>4, ConcatAssociative
  <2> QED BY <1>1, <1>4, <1>5, <2>6, <2>7 DEF CountsInv
<1> QED
  BY <1>6, <1>7 DEF Render, ApplyQueued, ApplyRunning, ApplySettled, ApplyAcked,
     ApplySelected, ApplyHeader, ApplyReset, ApplyFronted, Takes

\* Finitely many calls are outstanding.
LEMMA OutFinite ==
  ASSUME QueueInv
  PROVE  /\ Outstanding \subseteq Known
         /\ \A op : IsFiniteSet(OutOf(op)) /\ Cardinality(OutOf(op)) \in Nat
         /\ \A op : OutOf(op) # {} => Cardinality(OutOf(op)) > 0
<1>1. Outstanding \subseteq Known
  BY DEF QueueInv, Outstanding, Waiting
<1>2. IsFiniteSet(Known)
  BY KnownIds, FS_Interval DEF Known
<1>3. ASSUME NEW op
      PROVE  /\ IsFiniteSet(OutOf(op)) /\ Cardinality(OutOf(op)) \in Nat
             /\ OutOf(op) # {} => Cardinality(OutOf(op)) > 0
  <2>1. OutOf(op) \subseteq Known
    BY <1>1 DEF OutOf
  <2>2. IsFiniteSet(OutOf(op))
    BY <1>2, <2>1, FS_Subset
  <2>3. Cardinality(OutOf(op)) \in Nat /\ (Cardinality(OutOf(op)) = 0 <=> OutOf(op) = {})
    BY <2>2, FS_CardinalityType, FS_EmptySet
  <2> QED BY <2>2, <2>3
<1> QED BY <1>1, <1>3

\* A call that starts makes the page load.
LEMMA StartedFits ==
  ASSUME NEW reqs, NEW e, Fits(e)', Outstanding' # {}, NEW u, u.kind = "running"
  PROVE  Fits(Counted(reqs, e, u))'
<1>1. PICK d : d = Counted(reqs, e, u)
  OBVIOUS
<1>2. d.pending = e.pending /\ d.loading = TRUE
  BY <1>1 DEF Counted
<1>3. Fits(d)'
  BY <1>2 DEF Fits
<1> QED BY <1>1, <1>3

LEMMA ResetCounts ==
  ASSUME QueueInv, PageInv, CountsInv, SessionChanges
  PROVE  CountsInv'
<1>1. PICK e \in Counts : Leads(requests, Shows(page), updates, e) /\ Fits(e)
  BY DEF CountsInv
<1>2. PICK u : u = [kind |-> "reset"]
  OBVIOUS
<1>3. /\ updates' = Append(updates, u) /\ actions' = [actions EXCEPT !.resets = @ + 1]
      /\ UNCHANGED <<queue, current, requests, page>>
  BY <1>2 DEF SessionChanges
<1>4. updates \in Seq(Updates) /\ u \in Updates /\ u.kind = "reset"
  BY <1>2 DEF PageInv, UpdatesTyped, Updates
<1>5. updates' = updates \o <<u>>
  BY <1>3, <1>4
<1>6. PICK d : d = Counted(requests, e, u)
  OBVIOUS
<1>7. Leads(requests, Shows(page), updates', d)
  BY <1>1, <1>4, <1>5, <1>6, LeadsAppended
<1>8. d \in Counts
  BY <1>4, <1>6, CountedType DEF Numbered
<1>9. d.pending = [op \in AllOps |-> 0] /\ d.loading = FALSE
  BY <1>4, <1>6 DEF Counted
<1>10. actions'.resets # 0
  BY <1>3 DEF PageInv, BackendTypes
<1>11. \A op : OutOf(op)' = OutOf(op)
  BY <1>3 DEF OutOf, Outstanding, Waiting, Op
<1>12. Fits(d)'
  BY <1>9, <1>10, <1>11, OutFinite DEF Fits
<1> QED BY <1>3, <1>7, <1>8, <1>12 DEF CountsInv

\* A call counts once, also when it takes the place of another.
LEMMA RequestCounts ==
  ASSUME QueueInv, PageInv, CountsInv, NEW op \in Ops, NEW object \in Objects \cup {NoObject},
         NEW active \in Active, Request(op, object, active)
  PROVE  CountsInv'
<1>0. PICK n, same : n = Len(requests) + 1 /\ same = Replaceable(op, object)
  OBVIOUS
<1> DEFINE q == Enqueued(same, n)
<1>1. PICK joined, started :
        /\ joined = [kind |-> "queued", id |-> n, replaced |-> same # {}]
        /\ started = [kind |-> "running", id |-> n]
  OBVIOUS
<1>2. /\ page' = page /\ actions' = actions
      /\ \/ current = None /\ updates' = updates \o (<<joined>> \o Running(q))
         \/ current # None /\ updates' = updates \o <<joined>>
  BY <1>0, <1>1, RequestDispatches
<1>3. /\ n \notin Known /\ n \in Ids /\ Known' = Known \cup {n}
      /\ Op(n)' = op /\ requests'[n].op = op
      /\ \A id \in Known : requests'[id] = requests[id]
      /\ current = None => same = {}
  BY <1>0, RequestMoves DEF Op
<1>4. PICK gone \in SUBSET Waiting : Replaces(gone, same, op, object, n)
  BY <1>0, RequestMoves
<1>5. current = None => Running(q) = <<started>>
  <2>1. ASSUME current = None PROVE queue = <<>> /\ same = {}
    BY <1>3, <2>1 DEF QueueInv, Loop
  <2>2. ASSUME current = None PROVE q = <<n>>
    BY <2>1, <2>2 DEF Enqueued
  <2>3. current = None => Running(q) = <<[kind |-> "running", id |-> n]>>
    BY <2>2 DEF Running
  <2> HIDE DEF q
  <2> QED BY <1>1, <2>3
<1> HIDE DEF q
<1>6. /\ joined \in Updates /\ joined.kind = "queued" /\ joined.id = n
      /\ joined.replaced <=> same # {}
      /\ started \in Updates /\ started.kind = "running" /\ started.id = n
  BY <1>1, <1>3 DEF Updates
<1>7. PICK e \in Counts : Leads(requests, Shows(page), updates, e) /\ Fits(e)
  BY DEF CountsInv
<1>8. updates \in Seq(Updates)
      /\ \A i \in DOMAIN updates : updates[i].kind \in Numbered => updates[i].id \in Known
  BY DEF PageInv, UpdatesTyped
<1>9. Leads(requests', Shows(page), updates, e)
  BY <1>3, <1>7, <1>8, LeadsSame
<1>10. PICK d : d = Counted(requests', e, joined)
  OBVIOUS
<1>11. Leads(requests', Shows(page), updates \o <<joined>>, d) /\ updates \o <<joined>> \in Seq(Updates)
  BY <1>6, <1>8, <1>9, <1>10, LeadsAppended
<1>12. op \in AllOps
  BY ConstantsAssumption
<1>13. d \in Counts /\ d.loading = TRUE
       /\ d.pending = IF same # {} THEN e.pending ELSE [e.pending EXCEPT ![op] = @ + 1]
  <2>1. d \in Counts
    BY <1>3, <1>6, <1>10, <1>12, CountedType
  <2> QED BY <1>3, <1>6, <1>10, <2>1 DEF Counted
<1>14. Outstanding' = (Outstanding \ gone) \cup {n}
  BY <1>4 DEF Replaces
<1>15. n \notin OutOf(op) /\ \A k : k # op => OutOf(k)' = OutOf(k)
  <2>1. \A id \in gone : Op(id) = op
    BY <1>4 DEF Replaces
  <2> QED BY <1>3, <1>14, <2>1, OutFinite DEF OutOf, Op
<1>16. Cardinality(OutOf(op)') = IF same # {} THEN Cardinality(OutOf(op))
                                             ELSE Cardinality(OutOf(op)) + 1
  <2>1. IsFiniteSet(OutOf(op)) /\ Cardinality(OutOf(op)) \in Nat
    BY OutFinite
  <2>2. OutOf(op)' = (OutOf(op) \ gone) \cup {n}
    BY <1>3, <1>14, OutFinite DEF OutOf, Op
  <2>3. CASE same = {}
    <3>1. OutOf(op)' = OutOf(op) \cup {n}
      BY <1>4, <2>2, <2>3 DEF Replaces
    <3> QED BY <1>15, <2>1, <2>3, <3>1, FS_AddElement
  <2>4. CASE same # {}
    <3>1. PICK x \in Waiting : gone = {x} /\ Op(x) = op
      BY <1>4, <2>4 DEF Replaces
    <3>2. x \in OutOf(op) /\ OutOf(op)' = (OutOf(op) \ {x}) \cup {n} /\ n \notin OutOf(op) \ {x}
      BY <1>15, <2>2, <3>1 DEF OutOf, Outstanding
    <3>3. IsFiniteSet(OutOf(op) \ {x}) /\ Cardinality(OutOf(op) \ {x}) = Cardinality(OutOf(op)) - 1
      BY <2>1, <3>2, FS_RemoveElement
    <3>4. Cardinality(OutOf(op)') = Cardinality(OutOf(op) \ {x}) + 1
      BY <3>2, <3>3, FS_AddElement
    <3> QED BY <2>1, <2>4, <3>3, <3>4
  <2> QED BY <2>3, <2>4
<1>17. \A k \in AllOps :
         /\ d.pending[k] = IF k = op /\ same = {} THEN e.pending[k] + 1 ELSE e.pending[k]
         /\ Cardinality(OutOf(k)') = IF k = op /\ same = {} THEN Cardinality(OutOf(k)) + 1
                                                           ELSE Cardinality(OutOf(k))
         /\ e.pending[k] \in Nat /\ Cardinality(OutOf(k)) \in Nat
  BY <1>12, <1>13, <1>15, <1>16, OutFinite DEF Counts
<1>18. Fits(d)'
  <2>1. /\ \A k \in AllOps : e.pending[k] <= Cardinality(OutOf(k))
        /\ actions.resets = 0 => \A k \in AllOps : e.pending[k] = Cardinality(OutOf(k))
    BY <1>7 DEF Fits
  <2>2. \A k \in AllOps : d.pending[k] <= Cardinality(OutOf(k)')
    BY <1>17, <2>1
  <2>3. actions'.resets = 0 => \A k \in AllOps : d.pending[k] = Cardinality(OutOf(k)')
    BY <1>2, <1>17, <2>1
  <2>4. Outstanding' # {}
    BY <1>14
  <2> QED BY <1>13, <2>2, <2>3, <2>4 DEF Fits
<1>19. CASE current # None
  BY <1>2, <1>11, <1>13, <1>18, <1>19 DEF CountsInv
<1>20. CASE current = None
  <2>1. updates' = (updates \o <<joined>>) \o <<started>>
    <3>1. PICK s, t : s = <<joined>> /\ t = <<started>>
      OBVIOUS
    <3>2. s \in Seq(Updates) /\ t \in Seq(Updates)
      BY <1>6, <3>1, One
    <3>3. updates' = updates \o (s \o t)
      BY <1>2, <1>5, <1>20, <3>1
    <3>4. updates \o (s \o t) = (updates \o s) \o t
      BY <1>8, <3>2, ConcatAssociative
    <3> QED BY <3>1, <3>3, <3>4
  <2>2. Leads(requests', Shows(page), updates', Counted(requests', d, started))
    BY <1>6, <1>11, <2>1, LeadsAppended
  <2>3. Counted(requests', d, started) \in Counts
    BY <1>3, <1>6, <1>12, <1>13, CountedType
  <2>4. PICK c : c = Counted(requests', d, started)
    OBVIOUS
  <2>5. Outstanding' # {}
    BY <1>14
  <2>6. \A reqs : Fits(Counted(reqs, d, started))'
    BY <1>6, <1>18, <2>5, StartedFits
  <2>7. PICK reqs : reqs = requests'
    OBVIOUS
  <2>8. c = Counted(reqs, d, started)
    BY <2>4, <2>7
  <2>9. Fits(c)'
    BY <2>6, <2>8
  <2> QED BY <1>2, <2>2, <2>3, <2>4, <2>9 DEF CountsInv
<1> QED BY <1>19, <1>20

\* The call that settled is no longer counted, and the page loads while calls are left.
LEMMA SettlesCounts ==
  ASSUME QueueInv, PageInv, CountsInv, QueueInv', NEW outcome, current # None, Settles(outcome)
  PROVE  CountsInv'
<1>0. PICK c, settled, started :
        /\ c = current /\ settled = [kind |-> "settled", id |-> c]
        /\ started = [kind |-> "running", id |-> Head(queue)]
  OBVIOUS
<1>1. /\ requests' = requests /\ page' = page /\ Proceed(queue) /\ actions' = actions
      /\ updates' = updates \o (<<settled>> \o Running(queue))
  BY <1>0, SettledUpdates
<1>2. /\ c \in Known /\ Outstanding' = Outstanding \ {c} /\ c \in Outstanding
      /\ queue # <<>> => Head(queue) \in Outstanding'
  <2>1. /\ current \in Known /\ current \notin Waiting
        /\ Outstanding' = Outstanding \ {current} /\ current \in Outstanding
        /\ queue # <<>> => Head(queue) \in Waiting
    BY <1>1, SettlesMoves
  <2> QED BY <1>0, <2>1 DEF Outstanding
<1>3. Known \subseteq Ids /\ Outstanding \subseteq Known /\ \A id \in Known : requests[id].op \in AllOps
  BY KnownIds, OutFinite, ConstantsAssumption DEF Asked
<1>4. updates \in Seq(Updates)
  BY DEF PageInv, UpdatesTyped
<1>5. settled \in Updates /\ settled.kind = "settled" /\ settled.id = c
  BY <1>0, <1>2, <1>3 DEF Updates
<1>6. queue # <<>> => /\ started \in Updates /\ started.kind = "running"
                      /\ started.id \in Known /\ Running(queue) = <<started>>
  <2>1. queue # <<>> => Running(queue) = <<started>> /\ Head(queue) \in Known
    BY <1>0, <1>2, <1>3 DEF Running
  <2> QED BY <1>0, <1>3, <2>1 DEF Updates
<1>7. PICK e \in Counts : Leads(requests, Shows(page), updates, e) /\ Fits(e)
  BY DEF CountsInv
<1>8. PICK k, d, s : k = Op(c) /\ d = Counted(requests, e, settled) /\ s = <<settled>>
  OBVIOUS
<1>9. k \in AllOps /\ k = requests[c].op
  BY <1>2, <1>3, <1>8 DEF Op
<1>10. s \in Seq(Updates)
  BY <1>5, <1>8, One
<1>11. Leads(requests, Shows(page), updates \o s, d) /\ updates \o s \in Seq(Updates)
  BY <1>4, <1>5, <1>7, <1>8, <1>10, LeadsAppended, JoinedLength
<1>12. d \in Counts /\ d.pending = Decremented(e.pending, k)
       /\ d.loading = \E op \in AllOps : d.pending[op] > 0
  <2>1. d \in Counts
    BY <1>5, <1>8, <1>9, CountedType
  <2> QED BY <1>5, <1>8, <1>9, <2>1 DEF Counted
<1>13. \A op \in AllOps :
         /\ e.pending[op] \in Nat
         /\ d.pending[op] = IF op = k THEN (IF e.pending[op] = 0 THEN 0 ELSE e.pending[op] - 1)
                                      ELSE e.pending[op]
  BY <1>9, <1>12 DEF Decremented, Counts
<1>14. \A op : OutOf(op)' = OutOf(op) \ {c}
  BY <1>1, <1>2 DEF OutOf, Op
<1>15. ASSUME NEW op
       PROVE  /\ Cardinality(OutOf(op)') = IF op = k THEN Cardinality(OutOf(op)) - 1
                                                     ELSE Cardinality(OutOf(op))
              /\ Cardinality(OutOf(op)) \in Nat
              /\ Cardinality(OutOf(op)') \in Nat
              /\ OutOf(op)' # {} <=> Cardinality(OutOf(op)') > 0
  <2>1. IsFiniteSet(OutOf(op)) /\ Cardinality(OutOf(op)) \in Nat
    BY OutFinite
  <2>2. c \in OutOf(op) <=> op = k
    BY <1>2, <1>8 DEF OutOf
  <2>3. IsFiniteSet(OutOf(op)') /\ Cardinality(OutOf(op)') =
          IF op = k THEN Cardinality(OutOf(op)) - 1 ELSE Cardinality(OutOf(op))
    BY <1>14, <2>1, <2>2, FS_RemoveElement
  <2>4. Cardinality(OutOf(op)') \in Nat /\ (Cardinality(OutOf(op)') = 0 <=> OutOf(op)' = {})
    BY <2>3, FS_CardinalityType, FS_EmptySet
  <2> QED BY <2>1, <2>3, <2>4
<1>16. Outstanding' # {} <=> \E op \in AllOps : OutOf(op)' # {}
  BY <1>1, <1>2, <1>3 DEF OutOf, Op
<1>17. Fits(d)'
  <2>1. /\ \A op \in AllOps : e.pending[op] <= Cardinality(OutOf(op))
        /\ actions.resets = 0 => \A op \in AllOps : e.pending[op] = Cardinality(OutOf(op))
    BY <1>7 DEF Fits
  <2>2. \A op \in AllOps : d.pending[op] <= Cardinality(OutOf(op)') /\ d.pending[op] \in Nat
    <3> TAKE op \in AllOps
    <3>1. e.pending[op] <= Cardinality(OutOf(op)) /\ e.pending[op] \in Nat
      BY <1>13, <2>1
    <3> QED BY <1>13, <1>15, <3>1
  <2>3. actions'.resets = 0 => \A op \in AllOps : d.pending[op] = Cardinality(OutOf(op)')
    <3> HAVE actions'.resets = 0
    <3> TAKE op \in AllOps
    <3>1. e.pending[op] = Cardinality(OutOf(op))
      BY <1>1, <2>1
    <3> QED BY <1>13, <1>15, <3>1
  <2>4. d.loading => Outstanding' # {}
    <3>1. ASSUME NEW op \in AllOps, d.pending[op] > 0 PROVE OutOf(op)' # {}
      <4>1. Cardinality(OutOf(op)') > 0
        BY <1>15, <2>2, <3>1
      <4> QED BY <1>15, <4>1
    <3> QED BY <1>12, <1>16, <3>1
  <2>5. actions'.resets = 0 => (Outstanding' # {} => d.loading)
    <3>1. ASSUME actions'.resets = 0, NEW op \in AllOps, OutOf(op)' # {} PROVE d.pending[op] > 0
      BY <1>15, <2>3, <3>1
    <3> QED BY <1>12, <1>16, <3>1
  <2> QED BY <2>2, <2>3, <2>4, <2>5 DEF Fits
<1>18. updates' = (updates \o s) \o Running(queue)
  <2>1. Running(queue) \in Seq(Updates)
    <3>1. PICK t : t = <<started>>
      OBVIOUS
    <3>2. queue # <<>> => Running(queue) = t /\ t \in Seq(Updates)
      BY <1>6, <3>1, One
    <3>3. <<>> \in Seq(Updates) /\ (queue = <<>> => Running(queue) = <<>>)
      BY DEF Running
    <3>4. CASE queue = <<>>
      BY <3>3, <3>4
    <3>5. CASE queue # <<>>
      BY <3>2, <3>5
    <3> QED BY <3>4, <3>5
  <2>2. updates' = updates \o (s \o Running(queue))
    BY <1>1, <1>8
  <2> QED BY <1>4, <1>10, <2>1, <2>2, ConcatAssociative
<1>19. CASE queue = <<>>
  <2>1. updates' = updates \o s
    <3>1. Running(queue) = <<>>
      BY <1>19 DEF Running
    <3> QED BY <1>11, <1>18, <3>1, ConcatEmptySeq
  <2> QED BY <1>1, <1>11, <1>12, <1>17, <2>1 DEF CountsInv
<1>20. CASE queue # <<>>
  <2>1. PICK reqs, x : reqs = requests /\ x = Counted(reqs, d, started)
    OBVIOUS
  <2>2. updates' = (updates \o s) \o <<started>>
    BY <1>6, <1>18, <1>20
  <2>3. Leads(requests, Shows(page), updates', x)
    BY <1>6, <1>11, <1>20, <2>1, <2>2, LeadsAppended
  <2>4. x \in Counts
    BY <1>3, <1>6, <1>12, <1>20, <2>1, CountedType
  <2>5. Outstanding' # {}
    BY <1>2, <1>20
  <2>6. Fits(x)'
    BY <1>6, <1>17, <1>20, <2>1, <2>5, StartedFits
  <2> QED BY <1>1, <2>3, <2>4, <2>6 DEF CountsInv
<1> QED BY <1>19, <1>20

LEMMA CountsInit == Init => CountsInv
<1> SUFFICES ASSUME Init PROVE CountsInv
  OBVIOUS
<1>1. PICK e : e = Shows(page)
  OBVIOUS
<1>2. e.pending = [op \in AllOps |-> 0] /\ e.loading = FALSE /\ e \in Counts
  BY <1>1 DEF Init, EmptyPage, Shows, Counts
<1>3. Leads(requests, Shows(page), updates, e)
  BY <1>1, LeadsNowhere DEF Init
<1>4. Outstanding = {}
  BY DEF Init, Outstanding, Waiting, None
<1>5. \A op : OutOf(op) = {} /\ Cardinality(OutOf(op)) = 0
  BY <1>4, FS_EmptySet DEF OutOf
<1>6. Fits(e)
  BY <1>2, <1>4, <1>5 DEF Fits
<1> QED BY <1>2, <1>3, <1>6 DEF CountsInv

LEMMA CountsStep == QueueInv /\ QueueInv' /\ PageInv /\ CountsInv /\ [Next]_vars => CountsInv'
<1> SUFFICES ASSUME QueueInv, QueueInv', PageInv, CountsInv, [Next]_vars PROVE CountsInv'
  OBVIOUS
<1>1. ASSUME NEW op \in Ops, NEW o \in Objects \cup {NoObject}, NEW active \in Active,
             Request(op, o, active)
      PROVE  CountsInv'
  BY <1>1, RequestCounts
<1>2. CASE Executes
  BY <1>2, SameCounts DEF Executes
<1>3. ASSUME NEW o \in Objects \cup {NoObject}, Answers(o) PROVE CountsInv'
  <2>1. PICK u, v : u = [kind |-> "acked", id |-> current] /\ v = [kind |-> "selected", object |-> o]
    OBVIOUS
  <2>2. current \in Ids
    BY <1>3, KnownIds DEF Answers, QueueInv, Loop
  <2>3. u \in Updates /\ v \in Updates /\ u.kind = "acked" /\ v.kind = "selected"
    BY <2>1, <2>2 DEF Updates
  <2>4. updates' = updates \o <<u, v>> /\ UNCHANGED <<queue, current, requests, page, actions>>
    BY <1>3, <2>1 DEF Answers
  <2>5. /\ updates \in Seq(Updates) /\ <<u>> \in Seq(Updates) /\ <<v>> \in Seq(Updates)
        /\ <<u, v>> = <<u>> \o <<v>>
    BY <2>3, Pair, One DEF PageInv, UpdatesTyped
  <2>6. updates' = (updates \o <<u>>) \o <<v>> /\ updates \o <<u>> \in Seq(Updates)
    BY <2>4, <2>5, ConcatAssociative, JoinedLength
  <2>7. PICK e \in Counts : Leads(requests, Shows(page), updates, e) /\ Fits(e)
    BY DEF CountsInv
  <2>8. Leads(requests, Shows(page), updates \o <<u>>, e)
    BY <2>3, <2>5, <2>7, QuietLeads
  <2>9. Leads(requests, Shows(page), (updates \o <<u>>) \o <<v>>, e)
    <3>1. PICK w : w = updates \o <<u>>
      OBVIOUS
    <3>2. w \in Seq(Updates) /\ Leads(requests, Shows(page), w, e)
      BY <2>6, <2>8, <3>1
    <3>3. Leads(requests, Shows(page), w \o <<v>>, e)
      BY <2>3, <3>2, QuietLeads
    <3> QED BY <3>1, <3>3
  <2>10. Fits(e)'
    BY <2>4, <2>7, SameFits
  <2> QED BY <2>4, <2>6, <2>7, <2>9, <2>10 DEF CountsInv
<1>4. CASE Completes
  <2>1. current # None /\ Settles("result")
    BY <1>4 DEF Completes, QueueInv, Loop
  <2> QED BY <2>1, SettlesCounts
<1>5. ASSUME NEW changed \in BOOLEAN, Fails(changed) PROVE CountsInv'
  <2>1. current # None /\ Settles("error")
    BY <1>5 DEF Fails, QueueInv, Loop
  <2> QED BY <2>1, SettlesCounts
<1>6. CASE Render
  BY <1>6, RenderCountsKeep
<1>7. ASSUME NEW u \in Updates, u.kind \in {"opened", "header"}, updates' = Append(updates, u),
             UNCHANGED <<queue, current, requests, page>>, actions'.resets = actions.resets
      PROVE  CountsInv'
  <2>1. updates' = updates \o <<u>>
    BY <1>7 DEF PageInv, UpdatesTyped
  <2> QED BY <1>7, <2>1, QuietCounts
<1>8. ASSUME Clicks PROVE actions'.resets = actions.resets /\ UNCHANGED <<queue, current, requests>>
  BY <1>8 DEF Clicks, PageInv, BackendTypes
<1>9. ASSUME NEW o \in Objects, OpenTab(o) PROVE CountsInv'
  <2>1. PICK u : u = [kind |-> "opened", object |-> o]
    OBVIOUS
  <2>2. u \in Updates /\ u.kind = "opened"
    BY <2>1 DEF Updates
  <2>3. updates' = Append(updates, u) /\ UNCHANGED page /\ Clicks
    BY <1>9, <2>1 DEF OpenTab
  <2> QED BY <1>7, <1>8, <2>2, <2>3
<1>10. CASE HeaderArrives
  <2>1. PICK u : u = [kind |-> "header", object |-> Head(news).object, header |-> Head(news).header]
    OBVIOUS
  <2>2. news # <<>> /\ updates' = Append(updates, u)
        /\ UNCHANGED <<queue, current, requests, page, actions>>
    BY <1>10, <2>1 DEF HeaderArrives
  <2>3. Head(news) \in News
    BY <2>2 DEF PageInv, BackendTypes
  <2>4. u \in Updates /\ u.kind = "header"
    BY <2>1, <2>3 DEF Updates, News
  <2> QED BY <1>7, <2>2, <2>4
<1>11. ASSUME NEW o \in Objects, Select(o) PROVE CountsInv'
  <2>1. Clicks /\ updates' = updates /\ page' = [page EXCEPT !.selected = o]
    BY <1>11 DEF Select
  <2>2. Shows(page') = Shows(page)
    BY <2>1 DEF PageInv, Pages, Shows
  <2> QED BY <1>8, <2>1, <2>2, SameCounts
<1>12. ASSUME NEW i \in DOMAIN page.tabs, CloseTab(i) \/ SetActiveTab(i) PROVE CountsInv'
  <2>1. Clicks /\ updates' = updates
    BY <1>12 DEF CloseTab, SetActiveTab
  <2>2. Shows(page') = Shows(page)
    BY <1>12 DEF CloseTab, SetActiveTab, PageInv, Pages, Shows
  <2> QED BY <1>8, <2>1, <2>2, SameCounts
<1>13. ASSUME NEW o \in Objects, ReadHeader(o) PROVE CountsInv'
  BY <1>13, SameCounts DEF ReadHeader
<1>14. CASE SessionChanges
  BY <1>14, ResetCounts
<1>15. CASE UNCHANGED vars
  BY <1>15, SameCounts DEF vars
<1> QED
  BY <1>1, <1>2, <1>3, <1>4, <1>5, <1>6, <1>9, <1>10, <1>11, <1>12, <1>13, <1>14, <1>15
     DEF Next, Finished

\* Once React has evaluated everything, each operation is pending as often as it is
\* outstanding and the page loads exactly while calls are left; after a session change the
\* counts may be lower, never higher, and loading still ends with the work.
THEOREM PendingAlwaysCounted == Spec => []PendingCounted
<1>1. QueueInv /\ PageInv /\ CountsInv => PendingCounted
  <2> SUFFICES ASSUME CountsInv, updates = <<>> PROVE Fits(page)
    BY DEF PendingCounted, Fits, OutOf
  <2>1. PICK e \in Counts : Leads(requests, Shows(page), updates, e) /\ Fits(e)
    BY DEF CountsInv
  <2>2. e = Shows(page)
    BY <2>1, LeadsNowhere
  <2>3. e.pending = page.pending /\ e.loading = page.loading
    BY <2>2 DEF Shows
  <2> QED BY <2>1, <2>3 DEF Fits
<1>2. Init => QueueInv /\ PageInv /\ CountsInv /\ Aimed
  BY InitInv, PageInit, CountsInit
<1>3. QueueInv /\ PageInv /\ CountsInv /\ Aimed /\ [Next]_vars
        => QueueInv' /\ PageInv' /\ CountsInv' /\ Aimed'
  BY NextInv, PageStep, CountsStep
<1> QED BY <1>1, <1>2, <1>3, PTL DEF Spec
-----------------------------------------------------------------------------
\* The flag the game has.  The headers of an object reach the page through the news and the
\* updaters; a fresh one ends the flag that was acknowledged, and then the page shows what
\* the headers behind it say.  So what is invariant speaks of all of them.

HeaderUpdates(o) == {u \in Updates : u.kind = "header" /\ u.object = o}
HeaderNews(o) == {n \in News : n.object = o}

\* Of these headers: those that hold a flag, the fresh ones, and those that say flag.
Real(H) == {u \in H : u.header # NoHeader}
FreshOf(H) == {u \in H : u.header # NoHeader /\ u.header.fresh}
Saying(H, flag) == {u \in H : u.header # NoHeader /\ u.header.active = flag}

\* The acknowledgements of the flag of an object, those of the flag it has, and the
\* updaters that forget the object.
Acks(o) == {u \in Updates : u.kind = "acked" /\ Op(u.id) = "set-active" /\ Object(u.id) = o}
RightAcks(o) == {u \in Acks(o) : requests[u.id].active = game[o]}
Ending(o) ==
  {u \in Updates : \/ u.kind = "reset"
                   \/ /\ u.kind = "acked"
                      /\ \/ Op(u.id) = "load-scene"
                         \/ Op(u.id) = "delete" /\ Object(u.id) = o}

\* What is in H is in G.
Agree(us, H, G) == \A i \in DOMAIN us : us[i] \in H => us[i] \in G
NoneOf(us, A) == \A i \in DOMAIN us : us[i] \notin A

\* Behind the last of A there is a fresh header ...
Live(us, A, F) == \E i \in DOMAIN us : us[i] \in F /\ \A j \in DOMAIN us : j > i => us[j] \notin A

\* ... and from there on every header is in G.
Final(us, A, H, F, G) ==
  \A i \in DOMAIN us :
    (us[i] \in F /\ \A j \in DOMAIN us : j > i => us[j] \notin A) =>
      us[i] \in G /\ \A j \in DOMAIN us : (j > i /\ us[j] \in H) => us[j] \in G

\* The game has changed the flag and the page has not been told.
AwaitsAck(o) == phase = "executed" /\ Op(current) = "set-active" /\ Object(current) = o

\* What the backend holds and has on its way says the flag the game has.
NewsSay(o) ==
  /\ store[o].active = game[o]
  /\ Agree(news, HeaderNews(o), Saying(HeaderNews(o), game[o]))

\* The page shows the header, and every header behind it says the same.
Agreed(o) ==
  /\ page.override[o] = NoFlag
  /\ page.header[o].active = game[o]
  /\ Agree(updates, HeaderUpdates(o), Saying(HeaderUpdates(o), game[o]))
  /\ NewsSay(o)

\* What the waiting updaters will leave of the flag.
Tells(o) ==
  /\ Final(updates, Acks(o), HeaderUpdates(o), FreshOf(HeaderUpdates(o)),
           Saying(HeaderUpdates(o), game[o]))
  /\ Live(updates, Acks(o), FreshOf(HeaderUpdates(o))) => NewsSay(o)
  /\ Ends(0, updates, Acks(o), {0}, RightAcks(o))
  /\ NoneOf(updates, Acks(o)) => page.override[o] = game[o] \/ Agreed(o)

\* A fresh header on its way says the flag the game has, and so does what follows it.
Coming(o) ==
  /\ Final(news, {}, HeaderNews(o), FreshOf(HeaderNews(o)), Saying(HeaderNews(o), game[o]))
  /\ Live(news, {}, FreshOf(HeaderNews(o))) => store[o].active = game[o]

\* No header has been lost and nothing forgets the object.
Kept(o) ==
  /\ store[o] # NoHeader
  /\ page.header[o] # NoHeader
  /\ Agree(news, HeaderNews(o), Real(HeaderNews(o)))
  /\ Agree(updates, HeaderUpdates(o), Real(HeaderUpdates(o)))
  /\ NoneOf(updates, Ending(o))
  /\ phase = "executed" => o \notin Gone(current)

GameOf(o) ==
  /\ Kept(o)
  /\ Coming(o)
  /\ AwaitsAck(o) => requests[current].active = game[o]
  /\ ~AwaitsAck(o) => Tells(o)

GameInv == \A o \in Objects \ disturbed : GameOf(o)

\* The first updater is taken.
LEMMA HeadersTaken ==
  ASSUME NEW U, NEW us \in Seq(U), us # <<>>, NEW A, NEW H, NEW F, NEW G
  PROVE  /\ Final(us, A, H, F, G) => Final(Tail(us), A, H, F, G)
         /\ Live(Tail(us), A, F) => Live(us, A, F)
         /\ Agree(us, H, G) => Agree(Tail(us), H, G)
         /\ NoneOf(us, A) => NoneOf(Tail(us), A)
         /\ NoneOf(Tail(us), A) => \A j \in DOMAIN us : j > 1 => us[j] \notin A
         /\ (\A j \in DOMAIN us : j > 1 /\ us[j] \in H => us[j] \in G) => Agree(Tail(us), H, G)
<1> DEFINE t == Tail(us)
<1>1. /\ \A i \in DOMAIN t : i + 1 \in DOMAIN us /\ t[i] = us[i + 1] /\ i \in Nat \ {0}
      /\ \A i \in DOMAIN us : i # 1 => i - 1 \in DOMAIN t /\ t[i - 1] = us[i]
      /\ \A i \in DOMAIN us : i \in Nat \ {0}
  BY Rest
<1> HIDE DEF t
<1>2. ASSUME NEW i \in DOMAIN t, \A j \in DOMAIN t : j > i => t[j] \notin A
      PROVE  \A j \in DOMAIN us : j > i + 1 => us[j] \notin A
  <2> TAKE j \in DOMAIN us
  <2> HAVE j > i + 1
  <2>1. j - 1 \in DOMAIN t /\ t[j - 1] = us[j] /\ j - 1 > i
    BY <1>1
  <2> QED BY <1>2, <2>1
<1>3. ASSUME Final(us, A, H, F, G) PROVE Final(t, A, H, F, G)
  <2> SUFFICES ASSUME NEW i \in DOMAIN t, t[i] \in F, \A j \in DOMAIN t : j > i => t[j] \notin A
               PROVE  t[i] \in G /\ \A j \in DOMAIN t : (j > i /\ t[j] \in H) => t[j] \in G
    BY DEF Final
  <2>1. /\ us[i + 1] \in G
        /\ \A j \in DOMAIN us : (j > i + 1 /\ us[j] \in H) => us[j] \in G
    BY <1>1, <1>2, <1>3 DEF Final
  <2> QED BY <1>1, <2>1
<1>4. ASSUME Live(t, A, F) PROVE Live(us, A, F)
  <2>1. PICK i \in DOMAIN t : t[i] \in F /\ \A j \in DOMAIN t : j > i => t[j] \notin A
    BY <1>4 DEF Live
  <2>2. i + 1 \in DOMAIN us /\ us[i + 1] \in F /\ \A j \in DOMAIN us : j > i + 1 => us[j] \notin A
    BY <1>1, <1>2, <2>1
  <2> QED BY <2>2 DEF Live
<1>5. (\A j \in DOMAIN us : j > 1 /\ us[j] \in H => us[j] \in G) => Agree(t, H, G)
  BY <1>1 DEF Agree
<1>6. Agree(us, H, G) => Agree(t, H, G)
  BY <1>1 DEF Agree
<1>7. NoneOf(us, A) => NoneOf(t, A)
  BY <1>1 DEF NoneOf
<1>8. NoneOf(t, A) => \A j \in DOMAIN us : j > 1 => us[j] \notin A
  <2> HAVE NoneOf(t, A)
  <2> TAKE j \in DOMAIN us
  <2> HAVE j > 1
  <2>1. j - 1 \in DOMAIN t /\ t[j - 1] = us[j]
    BY <1>1
  <2> QED BY <2>1 DEF NoneOf
<1> QED BY <1>3, <1>4, <1>5, <1>6, <1>7, <1>8 DEF t

\* What is neither in A nor a header is dispatched.
LEMMA HeadersJoined ==
  ASSUME NEW U, NEW us \in Seq(U), NEW more \in Seq(U), NEW A, NEW H, NEW F, NEW G,
         F \subseteq H, \A u \in Elements(more) : u \notin A /\ u \notin H
  PROVE  /\ Final(us, A, H, F, G) => Final(us \o more, A, H, F, G)
         /\ Live(us \o more, A, F) => Live(us, A, F)
         /\ Agree(us, H, G) => Agree(us \o more, H, G)
         /\ NoneOf(us \o more, A) <=> NoneOf(us, A)
<1> DEFINE t == us \o more
<1>1. /\ \A i \in DOMAIN t :
           \/ i \in DOMAIN us /\ t[i] = us[i]
           \/ i - Len(us) \in DOMAIN more /\ i > Len(us) /\ t[i] = more[i - Len(us)]
      /\ \A i \in DOMAIN us : i \in DOMAIN t /\ t[i] = us[i]
  BY Joined
<1> HIDE DEF t
<1>2. \A i \in DOMAIN t : \/ i \in DOMAIN us /\ t[i] = us[i]
                          \/ t[i] \notin A /\ t[i] \notin H
  BY <1>1 DEF Elements
<1>3. Final(us, A, H, F, G) => Final(t, A, H, F, G)
  BY <1>1, <1>2 DEF Final
<1>4. Live(t, A, F) => Live(us, A, F)
  BY <1>1, <1>2 DEF Live
<1>5. Agree(us, H, G) => Agree(t, H, G)
  BY <1>2 DEF Agree
<1>6. NoneOf(t, A) <=> NoneOf(us, A)
  BY <1>1, <1>2 DEF NoneOf
<1> QED BY <1>3, <1>4, <1>5, <1>6 DEF t

\* A header joins those on their way: if it is fresh, or a fresh one is before it, it is in G.
LEMMA HeaderJoined ==
  ASSUME NEW U, NEW us \in Seq(U), NEW e \in U, NEW A, NEW H, NEW F, NEW G,
         Final(us, A, H, F, G), e \notin A, e \in F => e \in G, Live(us, A, F) => e \in G
  PROVE  /\ Final(us \o <<e>>, A, H, F, G)
         /\ Live(us \o <<e>>, A, F) => Live(us, A, F) \/ e \in F
         /\ Agree(us, H, G) /\ e \in G => Agree(us \o <<e>>, H, G)
         /\ NoneOf(us \o <<e>>, A) => NoneOf(us, A)
<1> DEFINE t == us \o <<e>>
           n == Len(us) + 1
<1>1. /\ DOMAIN t = DOMAIN us \cup {n} /\ t[n] = e
      /\ \A i \in DOMAIN us : t[i] = us[i] /\ n > i /\ ~(i > n)
      /\ ~(n > n)
  OBVIOUS
<1> HIDE DEF t, n
<1>2. ASSUME NEW i \in DOMAIN us, t[i] \in F, \A j \in DOMAIN t : j > i => t[j] \notin A
      PROVE  /\ Live(us, A, F) /\ t[i] \in G
             /\ \A j \in DOMAIN us : (j > i /\ us[j] \in H) => us[j] \in G
  <2>1. us[i] \in F /\ \A j \in DOMAIN us : j > i => us[j] \notin A
    BY <1>1, <1>2
  <2> QED BY <1>1, <2>1 DEF Final, Live
<1>3. Final(t, A, H, F, G)
  <2> SUFFICES ASSUME NEW i \in DOMAIN t, t[i] \in F, \A j \in DOMAIN t : j > i => t[j] \notin A
               PROVE  t[i] \in G /\ \A j \in DOMAIN t : (j > i /\ t[j] \in H) => t[j] \in G
    BY DEF Final
  <2>1. CASE i = n
    BY <1>1, <2>1
  <2>2. CASE i \in DOMAIN us
    BY <1>1, <1>2, <2>2
  <2> QED BY <1>1, <2>1, <2>2
<1>4. Live(t, A, F) => Live(us, A, F) \/ e \in F
  BY <1>1, <1>2 DEF Live
<1>5. Agree(us, H, G) /\ e \in G => Agree(t, H, G)
  BY <1>1 DEF Agree
<1>6. NoneOf(t, A) => NoneOf(us, A)
  BY <1>1 DEF NoneOf
<1> QED BY <1>3, <1>4, <1>5, <1>6 DEF t

\* What is in A joins: no header counts that is before it.
LEMMA AckJoined ==
  ASSUME NEW U, NEW us \in Seq(U), NEW e \in U, NEW A, NEW H, NEW F, NEW G,
         e \in A, e \notin F, e \notin H
  PROVE  /\ Final(us \o <<e>>, A, H, F, G)
         /\ ~Live(us \o <<e>>, A, F)
         /\ ~NoneOf(us \o <<e>>, A)
         /\ Agree(us, H, G) => Agree(us \o <<e>>, H, G)
<1> DEFINE t == us \o <<e>>
           n == Len(us) + 1
<1>1. /\ DOMAIN t = DOMAIN us \cup {n} /\ t[n] = e
      /\ \A i \in DOMAIN us : t[i] = us[i] /\ n > i
  OBVIOUS
<1> HIDE DEF t, n
<1>2. \A i \in DOMAIN t : t[i] \in F => \E j \in DOMAIN t : j > i /\ t[j] \in A
  BY <1>1
<1>3. Final(t, A, H, F, G) /\ ~Live(t, A, F)
  BY <1>2 DEF Final, Live
<1>4. ~NoneOf(t, A) /\ (Agree(us, H, G) => Agree(t, H, G))
  BY <1>1 DEF NoneOf, Agree
<1> QED BY <1>3, <1>4 DEF t

\* The sets differ, but not for these updaters.
LEMMA HeadersSame ==
  ASSUME NEW us, NEW A, NEW B, NEW H, NEW F, NEW G, \A i \in DOMAIN us : us[i] \in A <=> us[i] \in B
  PROVE  /\ Final(us, A, H, F, G) <=> Final(us, B, H, F, G)
         /\ Live(us, A, F) <=> Live(us, B, F)
         /\ NoneOf(us, A) <=> NoneOf(us, B)
  BY DEF Final, Live, NoneOf

\* What the updaters that wait say of an object while the requests only grow.
LEMMA SameAcks ==
  ASSUME PageInv, NEW o \in Objects, game'[o] = game[o],
         \A id \in Known : requests'[id] = requests[id]
  PROVE  \A i \in DOMAIN updates : /\ updates[i] \in Acks(o) <=> updates[i] \in Acks(o)'
                                   /\ updates[i] \in RightAcks(o) <=> updates[i] \in RightAcks(o)'
                                   /\ updates[i] \in Ending(o) <=> updates[i] \in Ending(o)'
<1> SUFFICES ASSUME NEW i \in DOMAIN updates
             PROVE  /\ updates[i] \in Acks(o) <=> updates[i] \in Acks(o)'
                    /\ updates[i] \in RightAcks(o) <=> updates[i] \in RightAcks(o)'
                    /\ updates[i] \in Ending(o) <=> updates[i] \in Ending(o)'
  OBVIOUS
<1>1. PICK u : u = updates[i]
  OBVIOUS
<1>2. u.kind = "acked" => u.id \in Known
  BY <1>1 DEF PageInv, UpdatesTyped, Numbered
<1>3. u.kind = "acked" => /\ requests'[u.id] = requests[u.id]
                          /\ Op(u.id)' = Op(u.id) /\ Object(u.id)' = Object(u.id)
  BY <1>2 DEF Op, Object
<1>4. u \in Acks(o) <=> u \in Acks(o)'
  BY <1>3 DEF Acks
<1>5. u \in Ending(o) <=> u \in Ending(o)'
  BY <1>3 DEF Ending
<1>6. u \in RightAcks(o) <=> u \in RightAcks(o)'
  BY <1>3, <1>4 DEF RightAcks, Acks
<1> QED BY <1>1, <1>4, <1>5, <1>6

LEMMA HeaderSets ==
  ASSUME NEW o
  PROVE  /\ FreshOf(HeaderUpdates(o)) \subseteq HeaderUpdates(o)
         /\ FreshOf(HeaderNews(o)) \subseteq HeaderNews(o)
  BY DEF FreshOf

\* The updaters that say nothing of the flag of an object.
Silent(u, o) == u \notin Acks(o) /\ u \notin HeaderUpdates(o) /\ u \notin Ending(o)

LEMMA OtherKinds ==
  ASSUME NEW u, NEW o, u.kind \notin {"acked", "header", "reset"}
  PROVE  Silent(u, o)
  BY DEF Silent, Acks, HeaderUpdates, Ending

\* Such updaters are dispatched, and the game and the backend keep what they have.
LEMMA SilentTells ==
  ASSUME PageInv, NEW o \in Objects, Tells(o), game'[o] = game[o], NewsSay(o) => NewsSay(o)',
         \A id \in Known : requests'[id] = requests[id],
         page'.override[o] = page.override[o], page'.header[o] = page.header[o],
         NEW more \in Seq(Updates), updates' = updates \o more,
         \A u \in Elements(more) : Silent(u, o)'
  PROVE  Tells(o)'
<1> DEFINE H == HeaderUpdates(o)
           F == FreshOf(H)
<1>1. PICK f : f = game[o]
  OBVIOUS
<1> DEFINE G == Saying(H, f)
<1>2. updates \in Seq(Updates) /\ F \subseteq H
  BY HeaderSets DEF PageInv, UpdatesTyped
<1>3. /\ Final(updates, Acks(o), H, F, G)
      /\ Live(updates, Acks(o), F) => NewsSay(o)
      /\ Ends(0, updates, Acks(o), {0}, RightAcks(o))
      /\ NoneOf(updates, Acks(o)) => page.override[o] = f \/ Agreed(o)
  BY <1>1 DEF Tells
<1>4. \A i \in DOMAIN updates : /\ updates[i] \in Acks(o) <=> updates[i] \in Acks(o)'
                                /\ updates[i] \in RightAcks(o) <=> updates[i] \in RightAcks(o)'
  BY SameAcks
<1>5. \A u \in Elements(more) : u \notin Acks(o)' /\ u \notin H
  BY DEF Silent
<1> HIDE DEF H, F, G
<1>6. /\ Final(updates, Acks(o)', H, F, G)
      /\ Live(updates, Acks(o)', F) => NewsSay(o)
      /\ NoneOf(updates, Acks(o)') => page.override[o] = f \/ Agreed(o)
  BY <1>3, <1>4, HeadersSame
<1>7. Ends(0, updates, Acks(o)', {0}, RightAcks(o)')
  BY <1>3, <1>4, EndsSame
<1>8. /\ Final(updates', Acks(o)', H, F, G)
      /\ Live(updates', Acks(o)', F) => NewsSay(o)
      /\ Agree(updates, H, G) => Agree(updates', H, G)
      /\ NoneOf(updates', Acks(o)') => NoneOf(updates, Acks(o)')
  BY <1>2, <1>5, <1>6, HeadersJoined
<1>9. Ends(0, updates', Acks(o)', {0}, RightAcks(o)')
  BY <1>2, <1>5, <1>7, EndsJoined
<1>10. Agreed(o) => Agreed(o)'
  BY <1>1, <1>8 DEF Agreed, G, H
<1> QED BY <1>1, <1>6, <1>8, <1>9, <1>10 DEF Tells, F, G, H

LEMMA SilentKept ==
  ASSUME PageInv, NEW o \in Objects, Kept(o), game'[o] = game[o], news' = news,
         store'[o] = store[o], \A id \in Known : requests'[id] = requests[id],
         page'.header[o] = page.header[o], NEW more \in Seq(Updates), updates' = updates \o more,
         \A u \in Elements(more) : u \notin HeaderUpdates(o) /\ u \notin Ending(o)',
         phase' = "executed" => o \notin Gone(current)'
  PROVE  Kept(o)'
<1>1. updates \in Seq(Updates)
  BY DEF PageInv, UpdatesTyped
<1>2. Agree(updates, HeaderUpdates(o), Real(HeaderUpdates(o))) /\ NoneOf(updates, Ending(o))
  BY DEF Kept
<1>3. NoneOf(updates, Ending(o)')
  BY <1>2, SameAcks DEF NoneOf
<1>4. /\ Agree(updates', HeaderUpdates(o), Real(HeaderUpdates(o)))
      /\ NoneOf(updates', Ending(o)')
  <2>1. {} \subseteq HeaderUpdates(o)
    OBVIOUS
  <2> QED BY <1>1, <1>2, <1>3, <2>1, HeadersJoined
<1> QED BY <1>4 DEF Kept

LEMMA SilentGame ==
  ASSUME QueueInv, PageInv, NEW o \in Objects, GameOf(o), game'[o] = game[o], news' = news,
         store'[o] = store[o], \A id \in Known : requests'[id] = requests[id],
         page'.override[o] = page.override[o], page'.header[o] = page.header[o],
         NEW more \in Seq(Updates), updates' = updates \o more,
         \A u \in Elements(more) : Silent(u, o)',
         phase' = "executed" => phase = "executed" /\ current' = current,
         AwaitsAck(o) => phase' = "executed"
  PROVE  GameOf(o)'
<1>2. phase' = "executed" => /\ current \in Known /\ Op(current)' = Op(current)
                             /\ Object(current)' = Object(current)
                             /\ requests'[current] = requests[current]
  BY DEF QueueInv, Loop, Op, Object
<1>3. Kept(o)'
  <2>1. phase' = "executed" => o \notin Gone(current)'
    BY <1>2 DEF GameOf, Kept, Gone
  <2> QED BY <2>1, SilentKept DEF GameOf, Silent
<1>4. Coming(o)'
  BY DEF GameOf, Coming
<1>5. AwaitsAck(o)' <=> AwaitsAck(o)
  BY <1>2 DEF AwaitsAck
<1>6. AwaitsAck(o)' => requests'[current'].active = game'[o]
  BY <1>2, <1>5 DEF AwaitsAck, GameOf
<1>7. NewsSay(o) => NewsSay(o)'
  BY DEF NewsSay
<1>8. ~AwaitsAck(o)' => Tells(o)'
  BY <1>5, <1>7, SilentTells DEF GameOf
<1> QED BY <1>3, <1>4, <1>6, <1>8 DEF GameOf

\* The answer of a call: an acknowledgement of the flag of an object says the flag it has.
LEMMA AnswersGame ==
  ASSUME QueueInv, PageInv, NEW o \in Objects, GameOf(o), NEW p \in Objects \cup {NoObject},
         Answers(p)
  PROVE  GameOf(o)'
<1>0. PICK a, v : a = [kind |-> "acked", id |-> current] /\ v = [kind |-> "selected", object |-> p]
  OBVIOUS
<1>1. /\ phase = "executed" /\ phase' = "load" /\ updates' = updates \o <<a, v>>
      /\ UNCHANGED <<requests, page, game, store, news>>
  BY <1>0 DEF Answers
<1>2. current \in Known /\ current \in Ids
  BY <1>1, KnownIds DEF QueueInv, Loop
<1>3. /\ a \in Updates /\ a.kind = "acked" /\ a.id = current
      /\ v \in Updates /\ v.kind = "selected"
  BY <1>0, <1>2 DEF Updates
<1>4. Silent(v, o)'
  BY <1>3, OtherKinds DEF Silent, Acks, Ending
<1>5. o \notin Gone(current)
  BY <1>1 DEF GameOf, Kept
<1>6. a \notin HeaderUpdates(o) /\ a \notin Ending(o)'
  BY <1>1, <1>3, <1>5 DEF HeaderUpdates, Ending, Gone, Op, Object
<1>7. a \in Acks(o)' <=> AwaitsAck(o)
  BY <1>1, <1>3 DEF Acks, AwaitsAck, Op, Object
<1>8. <<a, v>> \in Seq(Updates) /\ \A u \in Elements(<<a, v>>) : u = a \/ u = v
  BY <1>3 DEF Elements
<1>9. CASE ~AwaitsAck(o)
  <2>1. \A u \in Elements(<<a, v>>) : Silent(u, o)'
    BY <1>4, <1>6, <1>7, <1>8, <1>9 DEF Silent
  <2> QED BY <1>1, <1>8, <1>9, <2>1, SilentGame
<1>10. CASE AwaitsAck(o)
  <2>1. Kept(o)'
    <3>1. \A u \in Elements(<<a, v>>) : u \notin HeaderUpdates(o) /\ u \notin Ending(o)'
      BY <1>4, <1>6, <1>8 DEF Silent
    <3> QED BY <1>1, <1>8, <3>1, SilentKept DEF GameOf
  <2>2. Coming(o)'
    BY <1>1 DEF GameOf, Coming
  <2>3. updates \in Seq(Updates) /\ <<a>> \in Seq(Updates) /\ <<v>> \in Seq(Updates)
        /\ Elements(<<v>>) = {v}
    BY <1>3, One DEF PageInv, UpdatesTyped
  <2>4. PICK s : s = updates \o <<a>>
    OBVIOUS
  <2>5. updates' = s \o <<v>> /\ s \in Seq(Updates)
    <3>1. <<a, v>> = <<a>> \o <<v>>
      BY <1>3, Pair
    <3>2. updates \o (<<a>> \o <<v>>) = (updates \o <<a>>) \o <<v>>
      BY <2>3, ConcatAssociative
    <3> QED BY <1>1, <2>3, <2>4, <3>1, <3>2, JoinedLength
  <2> DEFINE H == HeaderUpdates(o)
             F == FreshOf(H)
  <2>6. PICK f : f = game[o]
    OBVIOUS
  <2> DEFINE G == Saying(H, f)
  <2>7. F \subseteq H /\ a \in Acks(o)' /\ a \notin H /\ a \notin F
    BY <1>6, <1>7, <1>10, HeaderSets
  <2>8. v \notin Acks(o)' /\ v \notin H
    BY <1>4 DEF Silent
  <2> HIDE DEF H, F, G
  <2>9. Final(s, Acks(o)', H, F, G) /\ ~Live(s, Acks(o)', F) /\ ~NoneOf(s, Acks(o)')
    BY <1>3, <2>3, <2>4, <2>7, AckJoined
  <2>10. /\ Final(updates', Acks(o)', H, F, G) /\ ~Live(updates', Acks(o)', F)
         /\ ~NoneOf(updates', Acks(o)')
    BY <2>3, <2>5, <2>7, <2>8, <2>9, HeadersJoined
  <2>11. a \in RightAcks(o)'
    BY <1>1, <1>3, <1>10, <2>7 DEF RightAcks, GameOf
  <2>12. Ends(0, s, Acks(o)', {0}, RightAcks(o)')
    BY <1>3, <2>3, <2>4, <2>7, <2>11, EndsLast
  <2>13. Ends(0, updates', Acks(o)', {0}, RightAcks(o)')
    BY <2>3, <2>5, <2>8, <2>12, EndsJoined
  <2>14. Tells(o)'
    BY <1>1, <2>6, <2>10, <2>13 DEF Tells, F, G, H
  <2>15. ~AwaitsAck(o)'
    BY <1>1 DEF AwaitsAck
  <2> QED BY <2>1, <2>2, <2>14, <2>15 DEF GameOf
<1> QED BY <1>9, <1>10

\* The backend publishes a header.
LEMMA PublishedComing ==
  ASSUME PageInv, NEW o \in Objects, Coming(o), Kept(o), NEW n \in News, n.object = o,
         n.header # NoHeader, news' = Append(news, n), store'[o] = n.header,
         n.header.active = IF n.header.fresh THEN game'[o] ELSE store[o].active,
         \/ game'[o] = game[o]
         \/ \A i \in DOMAIN news : news[i] \notin FreshOf(HeaderNews(o))
  PROVE  Coming(o)' /\ Agree(news', HeaderNews(o), Real(HeaderNews(o)))
<1> DEFINE H == HeaderNews(o)
           F == FreshOf(H)
<1>1. PICK f : f = game'[o]
  OBVIOUS
<1> DEFINE G == Saying(H, f)
<1>2. news \in Seq(News) /\ news' = news \o <<n>>
  BY DEF PageInv, BackendTypes
<1>3. n \in H /\ n \notin {} /\ n \in Real(H)
  BY DEF HeaderNews, Real
<1>4. Final(news, {}, H, F, G) /\ (Live(news, {}, F) => store[o].active = f)
  <2>1. CASE game'[o] = game[o]
    BY <1>1, <2>1 DEF Coming
  <2>2. CASE \A i \in DOMAIN news : news[i] \notin F
    BY <2>2 DEF Final, Live
  <2> QED BY <2>1, <2>2
<1>5. n \in F <=> n.header.fresh
  BY <1>3 DEF FreshOf
<1>6. n \in G <=> n.header.active = f
  BY <1>3 DEF Saying
<1>7. (n \in F => n \in G) /\ (Live(news, {}, F) => n \in G)
  BY <1>1, <1>4, <1>5, <1>6
<1>8. Agree(news, H, Real(H))
  BY DEF Kept
<1> HIDE DEF H, F, G
<1>9. /\ Final(news', {}, H, F, G)
      /\ Live(news', {}, F) => Live(news, {}, F) \/ n \in F
  BY <1>2, <1>3, <1>4, <1>7, HeaderJoined
<1>10. Agree(news', H, Real(H))
  BY <1>2, <1>3, <1>8 DEF Agree
<1>11. Live(news', {}, F) => store'[o].active = f
  BY <1>6, <1>7, <1>9
<1> QED BY <1>1, <1>9, <1>10, <1>11 DEF Coming, F, G, H

LEMMA ElsewhereComing ==
  ASSUME PageInv, NEW o \in Objects, Coming(o), Kept(o), NEW n \in News, n.object # o,
         news' = Append(news, n), store'[o] = store[o], game'[o] = game[o]
  PROVE  /\ Coming(o)' /\ Agree(news', HeaderNews(o), Real(HeaderNews(o)))
         /\ NewsSay(o) => NewsSay(o)'
<1> DEFINE H == HeaderNews(o)
           F == FreshOf(H)
<1>1. PICK f : f = game[o]
  OBVIOUS
<1> DEFINE G == Saying(H, f)
<1>2. news \in Seq(News) /\ news' = news \o <<n>> /\ <<n>> \in Seq(News) /\ Elements(<<n>>) = {n}
  BY One DEF PageInv, BackendTypes
<1>3. n \notin H /\ n \notin {} /\ F \subseteq H
  BY HeaderSets DEF HeaderNews
<1>4. Final(news, {}, H, F, G) /\ (Live(news, {}, F) => store[o].active = f)
  BY <1>1 DEF Coming
<1>5. Agree(news, H, Real(H))
  BY DEF Kept
<1> HIDE DEF H, F, G
<1>6. \A u \in Elements(<<n>>) : u \notin {} /\ u \notin H
  BY <1>2, <1>3
<1>7. /\ Final(news', {}, H, F, G)
      /\ Live(news', {}, F) => Live(news, {}, F)
      /\ Agree(news, H, G) => Agree(news', H, G)
  BY <1>2, <1>3, <1>4, <1>6, HeadersJoined
<1>8. Agree(news', H, Real(H))
  BY <1>2, <1>3, <1>5, <1>6, HeadersJoined
<1> QED BY <1>1, <1>4, <1>7, <1>8 DEF Coming, NewsSay, F, G, H

\* A header that says what the rest says.
LEMMA PublishedSays ==
  ASSUME PageInv, NEW o \in Objects, NewsSay(o), NEW n \in News, n.object = o,
         n.header # NoHeader, n.header.active = game[o], news' = Append(news, n),
         store'[o] = n.header, game'[o] = game[o]
  PROVE  NewsSay(o)'
<1>1. PICK f : f = game[o]
  OBVIOUS
<1>2. n \in Saying(HeaderNews(o), f)
  BY <1>1 DEF Saying, HeaderNews
<1>3. Agree(news, HeaderNews(o), Saying(HeaderNews(o), f)) /\ news \in Seq(News)
  BY <1>1 DEF NewsSay, PageInv, BackendTypes
<1>4. Agree(news', HeaderNews(o), Saying(HeaderNews(o), f))
  BY <1>2, <1>3 DEF Agree
<1> QED BY <1>1, <1>4 DEF NewsSay

\* Steps of the backend that the page does not see.
LEMMA BackendGame ==
  ASSUME QueueInv, PageInv, NEW o \in Objects, GameOf(o), UNCHANGED <<requests, page, updates>>,
         Coming(o)', Agree(news', HeaderNews(o), Real(HeaderNews(o))), store'[o] # NoHeader,
         phase' = "executed" => o \notin Gone(current)',
         AwaitsAck(o)' => requests'[current'].active = game'[o],
         ~AwaitsAck(o)' => /\ ~AwaitsAck(o) /\ game'[o] = game[o]
                           /\ NewsSay(o) => NewsSay(o)'
  PROVE  GameOf(o)'
<1>1. updates \in Seq(Updates) /\ <<>> \in Seq(Updates) /\ updates' = updates \o <<>>
  BY DEF PageInv, UpdatesTyped
<1>2. \A u \in Elements(<<>>) : Silent(u, o)'
  BY DEF Elements
<1>3. Kept(o)'
  <2>1. Ending(o)' = Ending(o)
    BY DEF Ending, Op, Object
  <2> QED BY <2>1 DEF GameOf, Kept
<1>4. ~AwaitsAck(o)' => Tells(o)'
  BY <1>1, <1>2, SilentTells DEF GameOf
<1> QED BY <1>3, <1>4 DEF GameOf

LEMMA ReadGame ==
  ASSUME QueueInv, PageInv, NEW o \in Objects, GameOf(o), NEW p \in Objects, ReadHeader(p)
  PROVE  GameOf(o)'
<1>1. PICK h, n : h = [active |-> game[p], fresh |-> TRUE] /\ n = [object |-> p, header |-> h]
  OBVIOUS
<1>2. /\ store' = [store EXCEPT ![p] = h] /\ news' = Append(news, n)
      /\ UNCHANGED <<queue, current, phase, requests, updates, page, game>>
  BY <1>1 DEF ReadHeader
<1>3. /\ store \in [Objects -> Headers] /\ h \in Headers /\ h # NoHeader /\ h.active = game[p]
      /\ h.fresh /\ n \in News /\ n.object = p /\ n.header = h
  BY <1>1 DEF PageInv, BackendTypes, Headers, News, NoHeader
<1>4. Kept(o) /\ Coming(o) /\ store[o] # NoHeader
  BY DEF GameOf, Kept
<1>5. /\ AwaitsAck(o)' <=> AwaitsAck(o)
      /\ Gone(current)' = Gone(current)
  BY <1>2 DEF AwaitsAck, Op, Object, Gone
<1>6. CASE p = o
  <2>1. store'[o] = h
    BY <1>2, <1>3, <1>6
  <2>2. Coming(o)' /\ Agree(news', HeaderNews(o), Real(HeaderNews(o)))
    BY <1>2, <1>3, <1>4, <1>6, <2>1, PublishedComing
  <2>3. NewsSay(o) => NewsSay(o)'
    BY <1>2, <1>3, <1>6, <2>1, PublishedSays
  <2> QED BY <1>2, <1>3, <1>5, <2>1, <2>2, <2>3, BackendGame DEF GameOf, Kept
<1>7. CASE p # o
  <2>1. store'[o] = store[o]
    BY <1>2, <1>3, <1>7
  <2>2. /\ Coming(o)' /\ Agree(news', HeaderNews(o), Real(HeaderNews(o)))
        /\ NewsSay(o) => NewsSay(o)'
    BY <1>2, <1>3, <1>4, <1>7, <2>1, ElsewhereComing
  <2> QED BY <1>2, <1>4, <1>5, <2>1, <2>2, BackendGame DEF GameOf, Kept
<1> QED BY <1>6, <1>7

\* A call reaches the game.  If it changes the flag of an object while a fresh header with
\* the other flag is on its way, the object is disturbed.
LEMMA ExecutesGame ==
  ASSUME QueueInv, PageInv, Aimed, NEW o \in Objects \ disturbed', GameOf(o), Executes
  PROVE  GameOf(o)'
<1>1. /\ phase = "run" /\ phase' = "executed" /\ game' = Changed(current)
      /\ UNCHANGED <<queue, current, requests, updates, page>>
  BY DEF Executes
<1>2. current \in Known /\ Object(current) \in Objects \cup {NoObject}
      /\ requests[current].active \in Active
  BY <1>1, KnownIds DEF QueueInv, Loop, Asked, Object
<1>3. o \in Objects /\ o \notin Gone(current) /\ o \notin Contradicted(game')
  BY DEF Executes
<1>4. ~AwaitsAck(o) /\ Gone(current)' = Gone(current)
      /\ (AwaitsAck(o)' <=> Op(current) = "set-active" /\ Object(current) = o)
  BY <1>1 DEF AwaitsAck, Op, Object, Gone
<1>5. game \in [Objects -> Active] /\ store \in [Objects -> Headers] /\ news \in Seq(News)
  BY DEF PageInv, BackendTypes
<1>6. game'[o] = IF AwaitsAck(o)' THEN requests[current].active ELSE game[o]
  BY <1>1, <1>3, <1>4, <1>5 DEF Changed
<1>7. Kept(o) /\ Coming(o) /\ store[o] # NoHeader
  BY DEF GameOf, Kept
<1>8. AwaitsAck(o)' => requests'[current'].active = game'[o]
  BY <1>1, <1>6
<1>9. CASE Object(current) # o
  <2>1. ~AwaitsAck(o)' /\ game'[o] = game[o]
    BY <1>4, <1>6, <1>9
  <2>2. CASE Object(current) = NoObject
    <3>1. news' = news /\ store' = store
      BY <2>2 DEF Executes
    <3>2. Coming(o)' /\ Agree(news', HeaderNews(o), Real(HeaderNews(o)))
          /\ (NewsSay(o) => NewsSay(o)')
      BY <1>7, <2>1, <3>1 DEF Coming, Kept, NewsSay
    <3> QED BY <1>1, <1>3, <1>4, <1>7, <2>1, <3>1, <3>2, BackendGame
  <2>3. CASE Object(current) # NoObject
    <3>1. PICK p, h, n : /\ p = Object(current) /\ h = Stale(store[p])
                         /\ n = [object |-> p, header |-> h]
      OBVIOUS
    <3>2. p \in Objects /\ p # o
      BY <1>2, <1>9, <2>3, <3>1
    <3>3. h \in Headers
      BY <1>5, <3>1, <3>2, StaleType
    <3>4. store' = [store EXCEPT ![p] = h] /\ news' = Append(news, n)
      BY <2>3, <3>1 DEF Executes
    <3>5. n \in News /\ n.object # o /\ store'[o] = store[o]
      BY <1>5, <3>1, <3>2, <3>3, <3>4 DEF News
    <3>6. /\ Coming(o)' /\ Agree(news', HeaderNews(o), Real(HeaderNews(o)))
          /\ NewsSay(o) => NewsSay(o)'
      BY <1>3, <1>7, <2>1, <3>4, <3>5, ElsewhereComing
    <3> QED BY <1>1, <1>3, <1>4, <1>7, <2>1, <3>5, <3>6, BackendGame
  <2> QED BY <2>2, <2>3
<1>10. CASE Object(current) = o
  <2>1. PICK h, n : h = Stale(store[o]) /\ n = [object |-> o, header |-> h]
    OBVIOUS
  <2>2. o # NoObject
    BY <1>3, ConstantsAssumption
  <2>3. store' = [store EXCEPT ![o] = h] /\ news' = Append(news, n)
    BY <1>10, <2>1, <2>2 DEF Executes
  <2>4. h \in Headers /\ h # NoHeader /\ ~h.fresh /\ h.active = store[o].active
    <3>1. store[o] \in Headers /\ store[o] # NoHeader
      BY <1>3, <1>5, <1>7
    <3> QED BY <2>1, <3>1 DEF Stale, Headers, NoHeader
  <2>5. n \in News /\ n.object = o /\ n.header = h /\ store'[o] = h
    BY <1>3, <1>5, <2>1, <2>3, <2>4 DEF News
  <2>6. game'[o] = game[o] \/ \A i \in DOMAIN news : news[i] \notin FreshOf(HeaderNews(o))
    <3> SUFFICES ASSUME NEW i \in DOMAIN news, news[i] \in FreshOf(HeaderNews(o))
                 PROVE  game'[o] = game[o]
      OBVIOUS
    <3>1. news[i].object = o /\ news[i].header # NoHeader /\ news[i].header.fresh
      BY DEF FreshOf, HeaderNews
    <3>2. news[i].header.active = game'[o]
      BY <1>3, <3>1 DEF Contradicted
    <3>3. news[i] \in Saying(HeaderNews(o), game[o])
      BY <1>7 DEF Coming, Final
    <3> QED BY <3>2, <3>3 DEF Saying
  <2>7. Coming(o)' /\ Agree(news', HeaderNews(o), Real(HeaderNews(o)))
    BY <1>3, <1>7, <2>3, <2>4, <2>5, <2>6, PublishedComing
  <2>8. ASSUME ~AwaitsAck(o)' PROVE NewsSay(o) => NewsSay(o)'
    <3>1. game'[o] = game[o]
      BY <1>6, <2>8
    <3>2. NewsSay(o) => h.active = game[o]
      BY <2>4 DEF NewsSay
    <3> QED BY <1>3, <2>3, <2>4, <2>5, <3>1, <3>2, PublishedSays
  <2> QED BY <1>1, <1>3, <1>4, <1>6, <1>8, <2>4, <2>5, <2>7, <2>8, BackendGame
<1> QED BY <1>9, <1>10

\* A header arrives: it was the first of the news, it is now the last of the updaters.
LEMMA ArrivesGame ==
  ASSUME QueueInv, PageInv, NEW o \in Objects, GameOf(o), HeaderArrives
  PROVE  GameOf(o)'
<1>1. PICK n, u : n = news[1] /\ u = [kind |-> "header", object |-> n.object, header |-> n.header]
  OBVIOUS
<1>2. news \in Seq(News) /\ news # <<>> /\ updates \in Seq(Updates)
  BY DEF HeaderArrives, PageInv, BackendTypes, UpdatesTyped
<1>3. n \in News /\ Head(news) = n /\ 1 \in DOMAIN news
  BY <1>1, <1>2, Rest
<1>4. /\ news' = Tail(news) /\ updates' = Append(updates, u)
      /\ UNCHANGED <<queue, current, phase, requests, page, game, store>>
  BY <1>1, <1>3 DEF HeaderArrives
<1>5. u \in Updates /\ u.kind = "header" /\ u.object = n.object /\ u.header = n.header
  BY <1>1, <1>3 DEF Updates, News
<1>6. /\ updates' = updates \o <<u>> /\ <<u>> \in Seq(Updates) /\ Elements(<<u>>) = {u}
  BY <1>2, <1>4, <1>5, One
<1>7. PICK f : f = game[o]
  OBVIOUS
<1> DEFINE H == HeaderUpdates(o)
           F == FreshOf(H)
           G == Saying(H, f)
           N == HeaderNews(o)
           NF == FreshOf(N)
           NG == Saying(N, f)
<1>8. /\ u \in H <=> n \in N
      /\ u \in F <=> n \in NF
      /\ u \in G <=> n \in NG
      /\ u \in Real(H) <=> n \in Real(N)
  BY <1>3, <1>5 DEF HeaderUpdates, HeaderNews, FreshOf, Saying, Real
<1>9. u \notin Acks(o) /\ u \notin Ending(o)
  BY <1>5 DEF Acks, Ending
<1>10. Acks(o)' = Acks(o) /\ RightAcks(o)' = RightAcks(o) /\ Ending(o)' = Ending(o)
       /\ (AwaitsAck(o)' <=> AwaitsAck(o)) /\ Gone(current)' = Gone(current)
  BY <1>4 DEF Acks, RightAcks, Ending, AwaitsAck, Gone, Op, Object
<1>11. /\ Agree(news, N, Real(N)) /\ Agree(updates, H, Real(H)) /\ NoneOf(updates, Ending(o))
       /\ Final(news, {}, N, NF, NG) /\ (Live(news, {}, NF) => store[o].active = f)
  BY <1>7 DEF GameOf, Kept, Coming
<1>12. NF \subseteq N /\ F \subseteq H
  BY HeaderSets
<1> HIDE DEF H, F, G, N, NF, NG
<1>13. /\ Final(news', {}, N, NF, NG)
       /\ Live(news', {}, NF) => Live(news, {}, NF)
       /\ Agree(news', N, Real(N))
       /\ Agree(news, N, NG) => Agree(news', N, NG)
  BY <1>2, <1>4, <1>11, HeadersTaken
<1>14. NewsSay(o) => NewsSay(o)' /\ (u \in H => u \in G)
  BY <1>3, <1>4, <1>7, <1>1, <1>8, <1>13 DEF NewsSay, Agree, N, NG
<1>15. u \in F => /\ u \in G
                  /\ NewsSay(o)'
  <2> HAVE u \in F
  <2>1. news[1] \in NF /\ \A j \in DOMAIN news : j > 1 => news[j] \notin {}
    BY <1>1, <1>8
  <2>2. news[1] \in NG /\ \A j \in DOMAIN news : j > 1 /\ news[j] \in N => news[j] \in NG
    BY <1>3, <1>11, <2>1 DEF Final
  <2>3. Agree(news', N, NG)
    BY <1>2, <1>4, <2>2, HeadersTaken
  <2>4. store[o].active = f
    BY <1>3, <1>11, <2>1 DEF Live
  <2> QED BY <1>1, <1>4, <1>7, <1>8, <2>2, <2>3, <2>4 DEF NewsSay, N, NG
<1>16. Kept(o)'
  <2>1. u \in H => u \in Real(H)
    BY <1>1, <1>3, <1>8, <1>11 DEF Agree
  <2>2. Agree(updates', H, Real(H)) /\ NoneOf(updates', Ending(o))
    BY <1>2, <1>5, <1>4, <1>9, <1>11, <2>1 DEF Agree, NoneOf
  <2> QED BY <1>4, <1>10, <1>13, <2>2 DEF GameOf, Kept, H, N
<1>17. Coming(o)'
  BY <1>4, <1>7, <1>11, <1>13 DEF Coming, N, NF, NG
<1>18. ASSUME ~AwaitsAck(o) PROVE Tells(o)'
  <2>1. /\ Final(updates, Acks(o), H, F, G)
        /\ Live(updates, Acks(o), F) => NewsSay(o)
        /\ Ends(0, updates, Acks(o), {0}, RightAcks(o))
        /\ NoneOf(updates, Acks(o)) => page.override[o] = f \/ Agreed(o)
    BY <1>7, <1>18 DEF GameOf, Tells, H, F, G
  <2>2. CASE u \in H
    <3>1. Live(updates, Acks(o), F) => u \in G
      BY <1>14, <2>1, <2>2
    <3>2. /\ Final(updates', Acks(o), H, F, G)
          /\ Live(updates', Acks(o), F) => Live(updates, Acks(o), F) \/ u \in F
          /\ Agree(updates, H, G) /\ u \in G => Agree(updates', H, G)
          /\ NoneOf(updates', Acks(o)) => NoneOf(updates, Acks(o))
      BY <1>2, <1>5, <1>6, <1>9, <1>15, <2>1, <3>1, HeaderJoined
    <3>3. Live(updates', Acks(o), F) => NewsSay(o)'
      BY <1>14, <1>15, <2>1, <3>2
    <3>4. Ends(0, updates', Acks(o), {0}, RightAcks(o))
      BY <1>2, <1>6, <1>9, <2>1, EndsJoined
    <3>5. Agreed(o) => Agreed(o)'
      BY <1>4, <1>7, <1>14, <2>2, <3>2 DEF Agreed, H, G
    <3>6. NoneOf(updates', Acks(o)) => page'.override[o] = f \/ Agreed(o)'
      BY <1>4, <2>1, <3>2, <3>5
    <3> QED BY <1>4, <1>7, <1>10, <3>2, <3>3, <3>4, <3>6 DEF Tells, H, F, G
  <2>3. CASE u \notin H
    <3>1. \A x \in Elements(<<u>>) : Silent(x, o)'
      BY <1>6, <1>9, <1>10, <2>3 DEF Silent, H
    <3>2. Tells(o)
      BY <1>18 DEF GameOf
    <3> QED BY <1>4, <1>6, <1>14, <3>1, <3>2, SilentTells
  <2> QED BY <2>2, <2>3
<1>19. AwaitsAck(o)' => requests'[current'].active = game'[o]
  BY <1>4, <1>10 DEF GameOf
<1> QED BY <1>10, <1>16, <1>17, <1>18, <1>19 DEF GameOf

\* What an updater that does not forget the object makes of the flag that is shown.
LEMMA RenderFlag ==
  ASSUME QueueInv, PageInv, Render, NEW o \in Objects, updates[1] \notin Ending(o)
  PROVE  /\ updates # <<>>
         /\ page'.header[o] = IF updates[1] \in HeaderUpdates(o) THEN updates[1].header
                                                                 ELSE page.header[o]
         /\ page'.override[o] =
              IF updates[1] \in Acks(o) THEN requests[updates[1].id].active
              ELSE IF /\ updates[1] \in FreshOf(HeaderUpdates(o))
                      /\ updates[1].header.active = page.override[o] THEN NoFlag
              ELSE page.override[o]
<1>1. updates # <<>>
  BY DEF Render, ApplyQueued, ApplyRunning, ApplySettled, ApplyAcked,
         ApplySelected, ApplyHeader, ApplyReset, ApplyOpened, ApplyFronted, Takes
<1>2. PICK u : u = updates[1] /\ Head(updates) = u /\ u \in Updates
  BY <1>1, Taken
<1>3. /\ page \in Pages /\ page.header \in [Objects -> Headers]
      /\ page.override \in [Objects -> Active \cup {NoFlag}]
  BY DEF PageInv, Pages
<1> DEFINE Now == /\ page'.header[o] = IF u \in HeaderUpdates(o) THEN u.header ELSE page.header[o]
                  /\ page'.override[o] =
                       IF u \in Acks(o) THEN requests[u.id].active
                       ELSE IF /\ u \in FreshOf(HeaderUpdates(o))
                               /\ u.header.active = page.override[o] THEN NoFlag
                       ELSE page.override[o]
<1>4. CASE ApplyAcked
  <2>1. /\ u.kind = "acked"
        /\ page' = [page EXCEPT !.override =
                      CASE Op(u.id) = "load-scene" -> [x \in Objects |-> NoFlag]
                        [] Op(u.id) = "set-active" -> [@ EXCEPT ![Object(u.id)] = requests[u.id].active]
                        [] Op(u.id) = "delete"     -> [@ EXCEPT ![Object(u.id)] = NoFlag]
                        [] OTHER                   -> @]
    BY <1>2, <1>4 DEF ApplyAcked, Takes
  <2>2. page'.header = page.header
    BY <1>3, <2>1 DEF Pages
  <2>3. Op(u.id) # "load-scene" /\ ~(Op(u.id) = "delete" /\ Object(u.id) = o)
    BY <1>2, <2>1 DEF Ending
  <2>4. page'.override[o] = IF Op(u.id) = "set-active" /\ Object(u.id) = o
                              THEN requests[u.id].active ELSE page.override[o]
    <3>1. CASE Op(u.id) = "set-active"
      <4>1. page'.override = [page.override EXCEPT ![Object(u.id)] = requests[u.id].active]
        BY <1>3, <2>1, <3>1 DEF Pages
      <4> QED BY <1>3, <3>1, <4>1
    <3>2. CASE Op(u.id) = "delete"
      <4>1. page'.override = [page.override EXCEPT ![Object(u.id)] = NoFlag]
        BY <1>3, <2>1, <3>2 DEF Pages
      <4> QED BY <1>3, <2>3, <3>2, <4>1
    <3>3. CASE Op(u.id) \notin {"set-active", "delete"}
      <4>1. page'.override = page.override
        BY <1>3, <2>1, <2>3, <3>3 DEF Pages
      <4> QED BY <3>3, <4>1
    <3> QED BY <3>1, <3>2, <3>3
  <2> QED BY <1>1, <1>2, <2>1, <2>2, <2>4 DEF Acks, HeaderUpdates, FreshOf
<1>5. CASE ApplyHeader
  <2>1. /\ u.kind = "header"
        /\ page' = [page EXCEPT !.header[u.object] = u.header,
                                !.override[u.object] =
                                   IF ClearsOverride(u.object, u.header) THEN NoFlag ELSE @]
    BY <1>2, <1>5 DEF ApplyHeader, Takes
  <2>2. /\ page'.header[o] = IF u.object = o THEN u.header ELSE page.header[o]
        /\ page'.override[o] = IF u.object = o /\ ClearsOverride(o, u.header)
                                 THEN NoFlag ELSE page.override[o]
    BY <1>3, <2>1 DEF Pages
  <2>3. /\ u \notin Acks(o)
        /\ u \in HeaderUpdates(o) <=> u.object = o
        /\ u \in FreshOf(HeaderUpdates(o)) /\ u.header.active = page.override[o]
             <=> u.object = o /\ ClearsOverride(o, u.header)
    BY <1>2, <2>1 DEF Acks, HeaderUpdates, FreshOf, ClearsOverride
  <2> QED BY <1>1, <1>2, <2>2, <2>3
<1>6. CASE \/ ApplyQueued \/ ApplyRunning \/ ApplySettled
           \/ ApplySelected \/ ApplyOpened \/ ApplyFronted
  <2>1. page'.override = page.override /\ page'.header = page.header
    BY <1>3, <1>6 DEF Pages, ApplyQueued, ApplyRunning, ApplySettled,
                      ApplySelected, ApplyOpened, ApplyFronted
  <2>2. u.kind \notin {"acked", "header"}
    BY <1>2, <1>6 DEF ApplyQueued, ApplyRunning, ApplySettled,
                      ApplySelected, ApplyOpened, ApplyFronted, Takes
  <2> QED BY <1>1, <1>2, <2>1, <2>2 DEF Acks, HeaderUpdates, FreshOf
<1>7. CASE ApplyReset
  <2>1. u.kind = "reset"
    BY <1>2, <1>7 DEF ApplyReset, Takes
  <2> QED BY <1>2, <2>1 DEF Ending
<1> QED BY <1>4, <1>5, <1>6, <1>7 DEF Render

\* What a render does to the updaters that wait.
LEMMA RenderUpdates ==
  ASSUME PageInv, Render
  PROVE  /\ UNCHANGED <<queue, current, phase, requests, game, store, news, disturbed>>
         /\ \E U, more : /\ Tail(updates) \in Seq(U) /\ more \in Seq(U)
                         /\ updates' = Tail(updates) \o more
                         /\ \A u \in Elements(more) : u.kind \in {"fronted", "selected"}
<1>1. updates # <<>> /\ UNCHANGED <<queue, current, phase, requests, game, store, news, disturbed>>
  BY DEF Render, ApplyQueued, ApplyRunning, ApplySettled, ApplyAcked,
         ApplySelected, ApplyHeader, ApplyReset, ApplyOpened, ApplyFronted, Takes
<1>2. Tail(updates) \in Seq(Updates)
  BY <1>1, Rest DEF PageInv, UpdatesTyped
<1>3. CASE updates' = Tail(updates)
  <2>1. /\ <<>> \in Seq(Updates) /\ updates' = Tail(updates) \o <<>>
        /\ \A u \in Elements(<<>>) : u.kind \in {"fronted", "selected"}
    BY <1>2, <1>3 DEF Elements
  <2> QED BY <1>1, <1>2, <2>1
<1>4. CASE ApplyOpened
  <2>1. PICK f, s : /\ updates' = Tail(updates) \o <<f, s>>
                    /\ f.kind = "fronted" /\ s.kind = "selected"
    <3> DEFINE object == Head(updates).object
               existing == TabsOf(object)
               index == IF existing = {} THEN Len(page.tabs) + 1 ELSE CHOOSE i \in existing : TRUE
               front == [kind |-> "fronted", index |-> index]
               select == [kind |-> "selected", object |-> object]
    <3>1. /\ updates' = Tail(updates) \o <<front, select>>
          /\ front.kind = "fronted" /\ select.kind = "selected"
      BY <1>4 DEF ApplyOpened
    <3> HIDE DEF front, select
    <3> QED BY <3>1
  <2>2. PICK more : more = <<f, s>>
    OBVIOUS
  <2>3. more \in Seq(Updates \cup {f, s}) /\ \A u \in Elements(more) : u = f \/ u = s
    BY <2>2 DEF Elements
  <2>4. Tail(updates) \in Seq(Updates \cup {f, s})
    BY <1>2, Wider
  <2> QED BY <1>1, <2>1, <2>2, <2>3, <2>4
<1> QED
  BY <1>3, <1>4 DEF Render, ApplyQueued, ApplyRunning, ApplySettled, ApplyAcked,
     ApplySelected, ApplyHeader, ApplyReset, ApplyFronted, Takes

\* A render: an acknowledged flag is the one the game has unless another waits, and the
\* header that ends it says the same.
LEMMA RenderGame ==
  ASSUME QueueInv, PageInv, NEW o \in Objects, GameOf(o), Render
  PROVE  GameOf(o)'
<1>0. PICK u : u = updates[1]
  OBVIOUS
<1>1. updates \in Seq(Updates)
  BY DEF PageInv, UpdatesTyped
<1>2. UNCHANGED <<queue, current, phase, requests, game, store, news>>
  BY RenderUpdates
<1>3. PICK U, more : /\ Tail(updates) \in Seq(U) /\ more \in Seq(U)
                     /\ updates' = Tail(updates) \o more
                     /\ \A x \in Elements(more) : x.kind \in {"fronted", "selected"}
  BY RenderUpdates
<1>4. \A x \in Elements(more) : x \notin Acks(o) /\ x \notin HeaderUpdates(o) /\ x \notin Ending(o)
  BY <1>3 DEF Acks, HeaderUpdates, Ending
<1>5. /\ Acks(o)' = Acks(o) /\ RightAcks(o)' = RightAcks(o) /\ Ending(o)' = Ending(o)
      /\ AwaitsAck(o)' <=> AwaitsAck(o)
      /\ Gone(current)' = Gone(current)
      /\ NewsSay(o)' <=> NewsSay(o)
  BY <1>2 DEF Acks, RightAcks, Ending, AwaitsAck, Gone, NewsSay, Op, Object
<1> DEFINE H == HeaderUpdates(o)
           F == FreshOf(H)
<1>6. PICK f : f = game[o]
  OBVIOUS
<1> DEFINE G == Saying(H, f)
<1>7. /\ page.header[o] # NoHeader /\ Agree(updates, H, Real(H)) /\ NoneOf(updates, Ending(o))
  BY DEF GameOf, Kept
<1>8. updates # <<>>
  BY DEF Render, ApplyQueued, ApplyRunning, ApplySettled, ApplyAcked,
         ApplySelected, ApplyHeader, ApplyReset, ApplyOpened, ApplyFronted, Takes
<1>9. 1 \in DOMAIN updates /\ u \in Updates
  BY <1>0, <1>8, Taken
<1>10. u \notin Ending(o)
  BY <1>0, <1>7, <1>9 DEF NoneOf
<1>11. /\ page'.header[o] = IF u \in H THEN u.header ELSE page.header[o]
       /\ page'.override[o] = IF u \in Acks(o) THEN requests[u.id].active
                              ELSE IF u \in F /\ u.header.active = page.override[o] THEN NoFlag
                              ELSE page.override[o]
  BY <1>0, <1>10, RenderFlag
<1>12. F \subseteq H /\ {} \subseteq H
  BY HeaderSets
<1>13. f \in Active /\ f # NoFlag
  BY <1>6 DEF PageInv, BackendTypes, Active, NoFlag
<1>14. /\ u \in Real(H) => u.header # NoHeader
       /\ u \in G => u.header.active = f
       /\ u \in RightAcks(o) => requests[u.id].active = f
       /\ u \in F <=> u \in H /\ u.header # NoHeader /\ u.header.fresh
  BY <1>6 DEF Real, Saying, RightAcks, FreshOf
<1> HIDE DEF H, F, G
<1>15. Kept(o)'
  <2>1. page'.header[o] # NoHeader
    BY <1>0, <1>7, <1>9, <1>11, <1>14 DEF Agree
  <2>2. Agree(Tail(updates), H, Real(H)) /\ NoneOf(Tail(updates), Ending(o))
    BY <1>1, <1>7, <1>8, HeadersTaken
  <2>3. Agree(updates', H, Real(H)) /\ NoneOf(updates', Ending(o))
    <3>1. \A x \in Elements(more) : x \notin Ending(o) /\ x \notin H
      BY <1>4 DEF H
    <3> QED BY <1>3, <1>12, <2>2, <3>1, HeadersJoined
  <2> QED BY <1>2, <1>5, <2>1, <2>3 DEF GameOf, Kept, H
<1>16. Coming(o)'
  BY <1>2 DEF GameOf, Coming
<1>17. ASSUME ~AwaitsAck(o) PROVE Tells(o)'
  <2>1. /\ Final(updates, Acks(o), H, F, G)
        /\ Live(updates, Acks(o), F) => NewsSay(o)
        /\ Ends(0, updates, Acks(o), {0}, RightAcks(o))
        /\ NoneOf(updates, Acks(o)) => page.override[o] = f \/ Agreed(o)
    BY <1>6, <1>17 DEF GameOf, Tells, H, F, G
  <2>2. PICK t : t = Tail(updates)
    OBVIOUS
  <2>3. /\ Final(t, Acks(o), H, F, G)
        /\ Live(t, Acks(o), F) => NewsSay(o)
        /\ Agree(updates, H, G) => Agree(t, H, G)
        /\ NoneOf(t, Acks(o)) => \A j \in DOMAIN updates : j > 1 => updates[j] \notin Acks(o)
        /\ (\A j \in DOMAIN updates : j > 1 /\ updates[j] \in H => updates[j] \in G)
             => Agree(t, H, G)
    BY <1>1, <1>8, <2>1, <2>2, HeadersTaken
  <2>4. Ends(0, t, Acks(o), {0}, RightAcks(o))
    BY <1>1, <1>8, <2>1, <2>2, EndsTaken
  <2>5. \A x \in Elements(more) : x \notin Acks(o) /\ x \notin H
    BY <1>4 DEF H
  <2>6. /\ Final(updates', Acks(o), H, F, G)
        /\ Live(updates', Acks(o), F) => NewsSay(o)
        /\ Agree(t, H, G) => Agree(updates', H, G)
        /\ NoneOf(updates', Acks(o)) => NoneOf(t, Acks(o))
    BY <1>3, <1>12, <2>2, <2>3, <2>5, HeadersJoined
  <2>7. Ends(0, updates', Acks(o), {0}, RightAcks(o))
    BY <1>3, <2>2, <2>4, <2>5, EndsJoined
  <2>8. ASSUME page'.override[o] = NoFlag, page'.header[o].active = f, Agree(t, H, G), NewsSay(o)
        PROVE  Agreed(o)'
    BY <1>2, <1>5, <1>6, <2>6, <2>8 DEF Agreed, H, G
  <2>9. ASSUME NoneOf(updates', Acks(o)) PROVE page'.override[o] = f \/ Agreed(o)'
    <3>1. \A j \in DOMAIN updates : j > 1 => updates[j] \notin Acks(o)
      BY <2>3, <2>6, <2>9
    <3>2. CASE u \in Acks(o)
      <4>1. u \in RightAcks(o)
        BY <1>0, <1>9, <2>1, <3>1, <3>2 DEF Ends
      <4> QED BY <1>11, <1>14, <3>2, <4>1
    <3>3. CASE u \notin Acks(o)
      <4>1. NoneOf(updates, Acks(o))
        <5>1. \A j \in DOMAIN updates : j = 1 \/ j > 1
          BY <1>1
        <5> QED BY <1>0, <3>1, <3>3, <5>1 DEF NoneOf
      <4>2. CASE page.override[o] = f
        <5>1. CASE u \in F /\ u.header.active = f
          <6>1. updates[1] \in F
            BY <1>0, <5>1
          <6>2. Live(updates, Acks(o), F)
            BY <1>9, <3>1, <6>1 DEF Live
          <6>3. \A j \in DOMAIN updates : j > 1 /\ updates[j] \in H => updates[j] \in G
            BY <1>9, <2>1, <3>1, <6>1 DEF Final
          <6>4. page'.override[o] = NoFlag /\ page'.header[o].active = f
            BY <1>11, <1>12, <3>3, <4>2, <5>1
          <6> QED BY <2>1, <2>3, <2>8, <6>2, <6>3, <6>4
        <5>2. CASE ~(u \in F /\ u.header.active = f)
          BY <1>11, <3>3, <4>2, <5>2
        <5> QED BY <5>1, <5>2
      <4>3. CASE Agreed(o)
        <5>1. /\ page.override[o] = NoFlag /\ page.header[o].active = f
              /\ Agree(updates, H, G) /\ NewsSay(o)
          BY <1>6, <4>3 DEF Agreed, H, G
        <5>2. u \in H => u.header.active = f
          BY <1>0, <1>9, <1>14, <5>1 DEF Agree
        <5>3. page'.override[o] = NoFlag /\ page'.header[o].active = f
          BY <1>11, <3>3, <5>1, <5>2
        <5> QED BY <2>3, <2>8, <5>1, <5>3
      <4> QED BY <2>1, <4>1, <4>2, <4>3
    <3> QED BY <3>2, <3>3
  <2> QED BY <1>2, <1>5, <1>6, <2>6, <2>7, <2>9 DEF Tells, H, F, G
<1>18. AwaitsAck(o)' => requests'[current'].active = game'[o]
  BY <1>2, <1>5 DEF GameOf
<1> QED BY <1>5, <1>15, <1>16, <1>17, <1>18 DEF GameOf

\* A call joins the queue.
LEMMA RequestGame ==
  ASSUME QueueInv, PageInv, NEW o \in Objects, GameOf(o), NEW op \in Ops,
         NEW object \in Objects \cup {NoObject}, NEW active \in Active,
         Request(op, object, active)
  PROVE  GameOf(o)'
<1>0. PICK n, same : n = Len(requests) + 1 /\ same = Replaceable(op, object)
  OBVIOUS
<1> DEFINE q == Enqueued(same, n)
           joined == [kind |-> "queued", id |-> n, replaced |-> same # {}]
<1>1. /\ n <= MaxRequests /\ n \in Nat \ {0} /\ UNCHANGED <<page, game, store, news>>
      /\ \/ /\ current = None /\ Proceed(q)
            /\ updates' = updates \o (<<joined>> \o Running(q))
         \/ /\ current # None /\ current' = current /\ phase' = phase
            /\ updates' = updates \o <<joined>>
  BY <1>0, RequestDispatches
<1>2. n \in Ids /\ \A id \in Known : requests'[id] = requests[id]
  BY <1>0, RequestMoves
<1>3. joined \in Updates /\ joined.kind = "queued"
  BY <1>2 DEF Updates
<1>4. q \in Seq(1..n)
  BY <1>0, NewQueue
<1>5. Running(q) \in Seq(Updates) /\ \A u \in Elements(Running(q)) : u.kind = "running"
  <2>1. Running(q) \in Seq(Updates)
    BY <1>1, <1>4, RunningTyped DEF Typed
  <2>2. CASE q = <<>>
    <3>1. Elements(Running(q)) = {}
      BY <2>2 DEF Running, Elements
    <3> QED BY <2>1, <3>1
  <2>3. CASE q # <<>>
    <3>1. Running(q) = <<[kind |-> "running", id |-> Head(q)]>>
      BY <2>3 DEF Running
    <3>2. Elements(Running(q)) = {[kind |-> "running", id |-> Head(q)]}
      BY <3>1, One
    <3> QED BY <2>1, <3>2
  <2> QED BY <2>2, <2>3
<1> HIDE DEF q, joined
<1>6. <<joined>> \in Seq(Updates) /\ Elements(<<joined>>) = {joined}
  BY <1>3, One
<1>7. phase = "executed" => current # None
  BY DEF QueueInv, Loop
<1>8. CASE current = None
  <2>1. PICK more, s, t : s = <<joined>> /\ t = Running(q) /\ more = s \o t
    OBVIOUS
  <2>2. more \in Seq(Updates) /\ Elements(more) = {joined} \cup Elements(Running(q))
    <3>1. s \in Seq(Updates) /\ t \in Seq(Updates)
      BY <1>5, <1>6, <2>1
    <3>2. s \o t \in Seq(Updates) /\ Elements(s \o t) = Elements(s) \cup Elements(t)
      BY <3>1, JoinedElements, JoinedLength
    <3> QED BY <1>6, <2>1, <3>2
  <2>3. \A u \in Elements(more) : u.kind \in {"queued", "running"}
    BY <1>3, <1>5, <2>2
  <2>4. \A u \in Elements(more) : Silent(u, o)'
    BY <2>3 DEF Silent, Acks, HeaderUpdates, Ending
  <2>5. phase' # "executed" /\ ~AwaitsAck(o)
    BY <1>1, <1>7, <1>8 DEF Proceed, AwaitsAck
  <2> QED BY <1>1, <1>2, <1>8, <2>1, <2>2, <2>4, <2>5, SilentGame
<1>9. CASE current # None
  <2>1. \A u \in Elements(<<joined>>) : Silent(u, o)'
    BY <1>3, <1>6 DEF Silent, Acks, HeaderUpdates, Ending
  <2>2. AwaitsAck(o) => phase' = "executed"
    BY <1>1, <1>9 DEF AwaitsAck
  <2> QED BY <1>1, <1>2, <1>6, <1>9, <2>1, <2>2, SilentGame
<1> QED BY <1>8, <1>9

\* A call is over.
LEMMA SettlesGame ==
  ASSUME QueueInv, PageInv, NEW o \in Objects, GameOf(o), NEW outcome, current # None,
         Settles(outcome), phase # "executed", game'[o] = game[o]
  PROVE  GameOf(o)'
<1>0. PICK settled, started : /\ settled = [kind |-> "settled", id |-> current]
                              /\ started = [kind |-> "running", id |-> Head(queue)]
  OBVIOUS
<1>1. /\ requests' = requests /\ page' = page /\ Proceed(queue)
      /\ updates' = updates \o (<<settled>> \o Running(queue))
      /\ UNCHANGED <<store, news>>
  BY <1>0, SettledUpdates
<1>2. Known \subseteq Ids /\ current \in Known /\ queue \in Seq(Known)
  BY KnownIds DEF QueueInv
<1>3. settled \in Updates /\ settled.kind = "settled"
  BY <1>0, <1>2 DEF Updates
<1>4. Running(queue) \in Seq(Updates) /\ \A u \in Elements(Running(queue)) : u.kind = "running"
  <2>1. CASE queue = <<>>
    <3>1. Running(queue) = <<>> /\ Elements(Running(queue)) = {}
      BY <2>1 DEF Running, Elements
    <3> QED BY <3>1
  <2>2. CASE queue # <<>>
    <3>1. Head(queue) \in Ids
      <4>1. Head(queue) \in Known
        BY <1>2, <2>2, Rest
      <4> QED BY <1>2, <4>1
    <3>2. started \in Updates /\ started.kind = "running" /\ Running(queue) = <<started>>
      BY <1>0, <2>2, <3>1 DEF Updates, Running
    <3>3. <<started>> \in Seq(Updates) /\ Elements(<<started>>) = {started}
      BY <3>2, One
    <3> QED BY <3>2, <3>3
  <2> QED BY <2>1, <2>2
<1>5. <<settled>> \in Seq(Updates) /\ Elements(<<settled>>) = {settled}
  BY <1>3, One
<1>6. PICK more, s, t : s = <<settled>> /\ t = Running(queue) /\ more = s \o t
  OBVIOUS
<1>7. more \in Seq(Updates) /\ Elements(more) = {settled} \cup Elements(Running(queue))
  <2>1. s \in Seq(Updates) /\ t \in Seq(Updates)
    BY <1>4, <1>5, <1>6
  <2>2. s \o t \in Seq(Updates) /\ Elements(s \o t) = Elements(s) \cup Elements(t)
    BY <2>1, JoinedElements, JoinedLength
  <2> QED BY <1>5, <1>6, <2>2
<1>8. \A u \in Elements(more) : u.kind \in {"settled", "running"}
  BY <1>3, <1>4, <1>7
<1>9. \A u \in Elements(more) : Silent(u, o)'
  BY <1>8 DEF Silent, Acks, HeaderUpdates, Ending
<1>10. phase' # "executed" /\ ~AwaitsAck(o)
  BY <1>1 DEF Proceed, AwaitsAck
<1> QED BY <1>1, <1>6, <1>7, <1>9, <1>10, SilentGame

\* The user clicks, or a tab is opened.
LEMMA ClicksGame ==
  ASSUME QueueInv, PageInv, NEW o \in Objects, GameOf(o),
         UNCHANGED <<queue, current, phase, requests, game, store, news>>,
         page'.override = page.override, page'.header = page.header,
         \/ updates' = updates
         \/ \E p \in Objects : updates' = Append(updates, [kind |-> "opened", object |-> p])
  PROVE  GameOf(o)'
<1>1. updates \in Seq(Updates)
  BY DEF PageInv, UpdatesTyped
<1>2. AwaitsAck(o) => phase' = "executed"
  BY DEF AwaitsAck
<1>3. CASE updates' = updates
  <2>1. <<>> \in Seq(Updates) /\ updates' = updates \o <<>>
    BY <1>1, <1>3
  <2>2. \A u \in Elements(<<>>) : Silent(u, o)'
    BY DEF Elements
  <2> QED BY <1>2, <2>1, <2>2, SilentGame
<1>4. ASSUME NEW p \in Objects, updates' = Append(updates, [kind |-> "opened", object |-> p])
      PROVE  GameOf(o)'
  <2>1. PICK u : u = [kind |-> "opened", object |-> p]
    OBVIOUS
  <2>2. u \in Updates /\ u.kind = "opened"
    BY <2>1 DEF Updates
  <2>3. <<u>> \in Seq(Updates) /\ Elements(<<u>>) = {u} /\ updates' = updates \o <<u>>
    BY <1>1, <1>4, <2>1, <2>2, One
  <2>4. \A x \in Elements(<<u>>) : Silent(x, o)'
    BY <2>2, <2>3 DEF Silent, Acks, HeaderUpdates, Ending
  <2> QED BY <1>2, <2>3, <2>4, SilentGame
<1> QED BY <1>3, <1>4

LEMMA GameInit == Init => GameInv
<1> SUFFICES ASSUME Init, NEW o \in Objects PROVE GameOf(o)
  BY DEF GameInv
<1>1. /\ updates = <<>> /\ news = <<>> /\ phase = "idle" /\ game[o] = "on"
      /\ store = [x \in Objects |-> [active |-> game[x], fresh |-> TRUE]]
  BY DEF Init
<1>2. page.header[o] = store[o] /\ page.override[o] = NoFlag
  <2> DEFINE p == IF Opened = NoObject THEN EmptyPage(NoObject, <<>>, 0)
                                       ELSE EmptyPage(Opened, <<Opened>>, 1)
  <2>1. page = [p EXCEPT !.header = store]
    BY DEF Init
  <2>2. p.override[o] = NoFlag /\ p.header \in [Objects -> {NoHeader}]
    BY DEF EmptyPage
  <2>3. page.header = store /\ page.override = p.override
    BY <2>1 DEF EmptyPage
  <2> QED BY <2>2, <2>3
<1>3. store[o].active = game[o] /\ store[o].fresh /\ store[o] # NoHeader
  BY <1>1 DEF NoHeader
<1>4. Kept(o) /\ Coming(o) /\ ~AwaitsAck(o)
  BY <1>1, <1>2, <1>3 DEF Kept, Coming, AwaitsAck, Agree, NoneOf, Final, Live
<1>5. Agreed(o)
  BY <1>1, <1>2, <1>3 DEF Agreed, NewsSay, Agree
<1>6. Tells(o)
  BY <1>1, <1>5 DEF Tells, Final, Live, Ends
<1> QED BY <1>4, <1>6 DEF GameOf

LEMMA GameStep == QueueInv /\ PageInv /\ Aimed /\ GameInv /\ [Next]_vars => GameInv'
<1> SUFFICES ASSUME QueueInv, PageInv, Aimed, GameInv, [Next]_vars,
                    NEW o \in Objects, o \notin disturbed'
             PROVE  GameOf(o)'
  BY DEF GameInv
<1>0. ASSUME disturbed \subseteq disturbed' PROVE GameOf(o)
  BY <1>0 DEF GameInv
<1>1. ASSUME NEW op \in Ops, NEW p \in Objects \cup {NoObject}, NEW active \in Active,
             Request(op, p, active)
      PROVE  GameOf(o)'
  <2>1. disturbed' = disturbed
    BY <1>1 DEF Request
  <2> QED BY <1>0, <1>1, <2>1, RequestGame
<1>2. CASE Executes
  <2>1. disturbed \subseteq disturbed'
    BY <1>2 DEF Executes
  <2> QED BY <1>0, <1>2, <2>1, ExecutesGame
<1>3. ASSUME NEW p \in Objects \cup {NoObject}, Answers(p) PROVE GameOf(o)'
  <2>1. disturbed' = disturbed
    BY <1>3 DEF Answers
  <2> QED BY <1>0, <1>3, <2>1, AnswersGame
<1>4. CASE Completes
  <2>1. /\ current # None /\ Settles("result") /\ phase # "executed"
        /\ game' = game /\ disturbed' = disturbed
    BY <1>4 DEF Completes, QueueInv, Loop
  <2> QED BY <1>0, <2>1, SettlesGame
<1>5. ASSUME NEW changed \in BOOLEAN, Fails(changed) PROVE GameOf(o)'
  <2>1. /\ current # None /\ Settles("error") /\ phase # "executed"
        /\ game' = IF changed THEN Changed(current) ELSE game
        /\ disturbed' = IF changed THEN disturbed \cup ({Object(current)} \ {NoObject})
                                   ELSE disturbed
    BY <1>5 DEF Fails, QueueInv, Loop
  <2>2. o # NoObject /\ game \in [Objects -> Active]
    BY ConstantsAssumption DEF PageInv, BackendTypes
  <2>3. disturbed \subseteq disturbed' /\ (changed => Object(current) # o)
    BY <2>1, <2>2
  <2>4. game'[o] = game[o]
    BY <2>1, <2>2, <2>3 DEF Changed
  <2> QED BY <1>0, <2>1, <2>3, <2>4, SettlesGame
<1>6. CASE Render
  <2>1. disturbed' = disturbed
    BY <1>6, RenderUpdates
  <2> QED BY <1>0, <1>6, <2>1, RenderGame
<1>7. ASSUME NEW p \in Objects, OpenTab(p) PROVE GameOf(o)'
  <2>1. /\ UNCHANGED <<queue, current, phase, requests, game, store, news, disturbed, page>>
        /\ updates' = Append(updates, [kind |-> "opened", object |-> p])
    BY <1>7 DEF OpenTab, Clicks
  <2> QED BY <1>0, <2>1, ClicksGame
<1>8. ASSUME Clicks, updates' = updates, page'.override = page.override,
             page'.header = page.header
      PROVE  GameOf(o)'
  <2>1. UNCHANGED <<queue, current, phase, requests, game, store, news, disturbed>>
    BY <1>8 DEF Clicks
  <2> QED BY <1>0, <1>8, <2>1, ClicksGame
<1>9. ASSUME NEW p \in Objects, Select(p) PROVE GameOf(o)'
  <2>1. page'.override = page.override /\ page'.header = page.header
    BY <1>9 DEF Select, PageInv, Pages
  <2> QED BY <1>8, <1>9, <2>1 DEF Select
<1>10. ASSUME NEW i \in DOMAIN page.tabs, CloseTab(i) \/ SetActiveTab(i) PROVE GameOf(o)'
  <2>1. page'.override = page.override /\ page'.header = page.header
    BY <1>10 DEF CloseTab, SetActiveTab, PageInv, Pages
  <2>2. Clicks /\ updates' = updates
    BY <1>10 DEF CloseTab, SetActiveTab
  <2> QED BY <1>8, <2>1, <2>2
<1>11. ASSUME NEW p \in Objects, ReadHeader(p) PROVE GameOf(o)'
  <2>1. disturbed' = disturbed
    BY <1>11 DEF ReadHeader
  <2> QED BY <1>0, <1>11, <2>1, ReadGame
<1>12. CASE HeaderArrives
  <2>1. disturbed' = disturbed
    BY <1>12 DEF HeaderArrives
  <2> QED BY <1>0, <1>12, <2>1, ArrivesGame
<1>13. CASE SessionChanges
  BY <1>13 DEF SessionChanges
<1>14. CASE UNCHANGED vars
  <2>1. /\ UNCHANGED <<queue, current, phase, requests, game, store, news, disturbed, page>>
        /\ updates' = updates
    BY <1>14 DEF vars
  <2> QED BY <1>0, <2>1, ClicksGame
<1> QED
  BY <1>1, <1>2, <1>3, <1>4, <1>5, <1>6, <1>7, <1>9, <1>10, <1>11, <1>12, <1>13, <1>14
     DEF Next, Finished

\* With no call for an object outstanding the page shows the flag the game has, whatever
\* headers are retained, being read or on their way, for any number of calls and headers.
\* Excepted are the objects that are gone, that a call changed before it failed, and that a
\* call changed while a fresh header with the other flag was on its way.
THEOREM GameAlwaysShown == Spec => []ShowsGame
<1>1. QueueInv /\ PageInv /\ IntentsInv /\ GameInv => ShowsGame
  <2> SUFFICES ASSUME QueueInv, PageInv, IntentsInv, GameInv, NEW o \in Objects \ disturbed,
                      updates = <<>>, \A id \in Outstanding : Object(id) # o
               PROVE  Shown(o) = game[o]
    BY DEF ShowsGame
  <2>1. GameOf(o) /\ o \in Objects /\ game[o] \in Active /\ game[o] # NoFlag
    BY DEF GameInv, PageInv, BackendTypes, Active, NoFlag
  <2>2. page.intent[o] = NoIntent
    <3>1. Ends(page.intent[o], updates, Touching(o), Right(o), Leaving(o))
      BY <2>1 DEF IntentsInv
    <3>2. page.intent[o] \in Right(o) /\ SetActives(o) = {}
      BY <3>1 DEF Ends, SetActives
    <3> QED BY <3>2 DEF Right, Good
  <2>3. ~AwaitsAck(o)
    <3>1. phase = "executed" => current \in Outstanding
      BY DEF QueueInv, Loop, Outstanding
    <3> QED BY <3>1 DEF AwaitsAck
  <2>4. page.override[o] = game[o] \/ Agreed(o)
    BY <2>1, <2>3 DEF GameOf, Tells, NoneOf
  <2> QED BY <2>1, <2>2, <2>4 DEF Shown, Agreed
<1>2. Init => QueueInv /\ PageInv /\ IntentsInv /\ GameInv /\ Aimed
  BY InitInv, PageInit, IntentsInit, GameInit
<1>3. QueueInv /\ PageInv /\ IntentsInv /\ GameInv /\ Aimed /\ [Next]_vars
        => QueueInv' /\ PageInv' /\ IntentsInv' /\ GameInv' /\ Aimed'
  BY NextInv, PageStep, IntentsStep, GameStep
<1> QED BY <1>1, <1>2, <1>3, PTL DEF Spec
-----------------------------------------------------------------------------
\* The queue implements MutationCalls.  Its order is what the refinement needs: a call
\* that runs next must be one that may precede all that wait.
InOrder == \A i, j \in DOMAIN queue :
  i < j => Promises!MayPrecede(queue[i], queue[j])

\* What waits is what is open and does not run.
LEMMA WaitingIsOpen ==
  ASSUME QueueInv
  PROVE  /\ Promises!Open \ {current} = Waiting /\ Waiting \subseteq Known
         /\ Known \subseteq Ids /\ None \notin Ids /\ current \notin Waiting
<1>1. Waiting \subseteq Known
  BY DEF QueueInv, Waiting
<1>2. Known \subseteq Ids /\ None \notin Ids
  BY ConstantsAssumption DEF QueueInv, Known, Ids, None
<1>3. current \notin Waiting /\ \A id \in Ids : promise[id] = "open" <=> id \in Outstanding
  BY DEF QueueInv, PromisesAccounted
<1> QED
  BY <1>1, <1>2, <1>3 DEF Promises!Open, Promises!Ids, Ids, Outstanding

\* The calls that give way in the contract are those at the positions runMutation finds.
LEMMA OutdatedWait ==
  ASSUME QueueInv, NEW op, NEW object, NEW call, call.op = op, call.object = object
  PROVE  Promises!Outdated(call) = {queue[i] : i \in Replaceable(op, object)}
<1>1. Promises!Outdated(call) = {id \in Waiting : Promises!SameFlag(requests[id], call)}
  BY WaitingIsOpen DEF Promises!Outdated
<1>2. \A id : Promises!SameFlag(requests[id], call) <=>
                op = "set-active" /\ Op(id) = op /\ Object(id) = object
  BY DEF Promises!SameFlag, Op, Object
<1> QED BY <1>1, <1>2 DEF Waiting, Replaceable

\* The loop keeps the order of what it leaves.
LEMMA ProceedInOrder ==
  ASSUME NEW n \in Nat, NEW q \in Seq(1..n), Proceed(q)
  PROVE  \A i, j \in DOMAIN queue' : i < j =>
           \E k, l \in DOMAIN q : k < l /\ queue'[i] = q[k] /\ queue'[j] = q[l]
<1>1. CASE q = <<>>
  BY <1>1 DEF Proceed
<1>2. CASE q # <<>>
  <2>1. queue' = Tail(q)
    BY <1>2 DEF Proceed
  <2>2. /\ DOMAIN q = 1..Len(q) /\ Len(q) \in Nat \ {0} /\ DOMAIN queue' = 1..(Len(q) - 1)
        /\ \A i \in 1..(Len(q) - 1) : queue'[i] = q[i + 1]
    BY <1>2, <2>1
  <2>3. ASSUME NEW i \in DOMAIN queue', NEW j \in DOMAIN queue', i < j
        PROVE  \E k, l \in DOMAIN q : k < l /\ queue'[i] = q[k] /\ queue'[j] = q[l]
    <3>2. i \in 1..(Len(q) - 1) /\ j \in 1..(Len(q) - 1) /\ Len(q) \in Nat
      BY <2>2
    <3>1. i + 1 \in 1..Len(q) /\ j + 1 \in 1..Len(q) /\ i + 1 < j + 1
      BY <2>3, <3>2
    <3> QED BY <2>2, <3>1
  <2> QED BY <2>3
<1> QED BY <1>1, <1>2

\* What gave way stays so: an order once justified remains it.
LEMMA OrderStays ==
  ASSUME QueueInv, NEW a \in Known, NEW b \in Known, Promises!MayPrecede(a, b),
         \A id \in Ids : promise[id] = "null" => promise'[id] = "null",
         \A id \in Known : requests'[id] = requests[id]
  PROVE  Promises!MayPrecede(a, b)'
<1>1. CASE a < b
  BY <1>1 DEF Promises!MayPrecede
<1>2. ASSUME NEW id \in Ids, id < b, promise[id] = "null",
             Promises!SameFlag(requests[id], requests[a])
      PROVE  Promises!MayPrecede(a, b)'
  <2>1. id \in Known
    BY <1>2, WaitingIsOpen DEF Known, Ids, QueueInv
  <2>2. promise'[id] = "null" /\ requests'[id] = requests[id] /\ requests'[a] = requests[a]
    BY <1>2, <2>1
  <2> QED
    BY <1>2, <2>2 DEF Promises!MayPrecede, Promises!SameFlag, Promises!Ids, Ids
<1> QED BY <1>1, <1>2 DEF Promises!MayPrecede, Promises!Ids, Ids

\* A new call is the last, or takes the place of a call for the same flag.
LEMMA RequestInOrder ==
  ASSUME QueueInv, InOrder, NEW op \in Ops, NEW object \in Objects \cup {NoObject},
         NEW active \in Active, Request(op, object, active)
  PROVE  InOrder'
<1> PICK n, call, same, q :
      /\ n = Len(requests) + 1
      /\ call = [op |-> op, object |-> object, active |-> active]
      /\ same = Replaceable(op, object)
      /\ q = Enqueued(same, n)
  OBVIOUS
<1>1. /\ n <= MaxRequests /\ requests' = Append(requests, call) /\ promise' = Promised(n, same)
      /\ IF current = None THEN Proceed(q) ELSE queue' = q
  BY DEF Request, Enqueued
<1>2. /\ n \in Nat \ {0} /\ requests \in Seq(Asked) /\ call \in Asked
      /\ q \in Seq(1..n) /\ Len(requests) \in Nat
  BY NewQueue DEF QueueInv, Asked
<1>3. /\ \A id \in Known : requests'[id] = requests[id] /\ id < n
      /\ requests'[n] = call /\ n \notin Known
  BY <1>1, <1>2 DEF Known
<1>4. \A id \in Ids : promise'[id] =
        IF id = n THEN "open"
        ELSE IF same # {} /\ id = queue[LastOf(same)] THEN "null" ELSE promise[id]
  BY <1>1 DEF Promised
<1>5. \A id \in Ids : promise[id] = "null" => promise'[id] = "null"
  <2> SUFFICES ASSUME NEW id \in Ids, promise[id] = "null" PROVE promise'[id] = "null"
    OBVIOUS
  <2>1. PICK later \in DOMAIN requests : later > id
    BY DEF QueueInv, PromisesAccounted
  <2>2. id # n
    BY <1>2, <2>1
  <2> QED BY <1>4, <2>2
<1>6. \A i \in DOMAIN queue : queue[i] \in Known
  BY DEF QueueInv
<1>7. ASSUME NEW k \in DOMAIN queue, NEW l \in DOMAIN queue, k < l,
             NEW a, NEW b, a = queue[k], b = queue[l]
      PROVE  Promises!MayPrecede(a, b)'
  <2>1. a \in Known /\ b \in Known /\ Promises!MayPrecede(a, b)
    BY <1>6, <1>7 DEF InOrder
  <2> QED BY <1>3, <1>5, <2>1, OrderStays
<1>8. ASSUME NEW a \in Known PROVE Promises!MayPrecede(a, n)'
  BY <1>3 DEF Promises!MayPrecede
<1>9. ASSUME NEW k \in DOMAIN queue, same = {k}, LastOf(same) = k,
             NEW l \in DOMAIN queue, k < l, NEW b, b = queue[l]
      PROVE  Promises!MayPrecede(n, b)'
  <2> PICK x : x = queue[k]
    OBVIOUS
  <2>1. x \in Known /\ b \in Known /\ b # n /\ x # n /\ Promises!MayPrecede(x, b)
    BY <1>3, <1>6, <1>9 DEF InOrder
  <2>2. op = "set-active" /\ Op(x) = op /\ Object(x) = object
    BY <1>9 DEF Replaceable
  <2>3. x \in Ids /\ promise'[x] = "null" /\ Known \subseteq Ids
    BY <1>4, <1>9, <2>1, WaitingIsOpen
  <2>4. Promises!SameFlag(requests[x], requests'[n])
    BY <1>3, <2>2 DEF Promises!SameFlag, Op, Object
  <2>5. CASE x < b
    BY <1>3, <2>1, <2>3, <2>4, <2>5 DEF Promises!MayPrecede, Promises!SameFlag, Promises!Ids, Ids
  <2>6. ASSUME NEW id \in Ids, id < b, promise[id] = "null",
               Promises!SameFlag(requests[id], requests[x])
        PROVE  Promises!MayPrecede(n, b)'
    <3>1. id \in Known
      BY <2>1, <2>6 DEF Known, Ids
    <3>2. requests'[id] = requests[id] /\ promise'[id] = "null"
      BY <1>3, <1>5, <2>6, <3>1
    <3>3. Promises!SameFlag(requests'[id], requests'[n])
      BY <1>3, <2>2, <2>6, <3>2 DEF Promises!SameFlag, Op, Object
    <3> QED
      BY <2>6, <3>2, <3>3 DEF Promises!MayPrecede, Promises!SameFlag, Promises!Ids, Ids
  <2> QED BY <2>1, <2>5, <2>6 DEF Promises!MayPrecede, Promises!Ids, Ids
<1>10. ASSUME NEW k \in DOMAIN q, NEW l \in DOMAIN q, k < l, NEW a, NEW b, a = q[k], b = q[l]
       PROVE  Promises!MayPrecede(a, b)'
  <2>1. CASE same = {}
    <3>1. /\ DOMAIN q = DOMAIN queue \cup {Len(queue) + 1} /\ q[Len(queue) + 1] = n
          /\ DOMAIN queue = 1..Len(queue) /\ Len(queue) \in Nat
          /\ \A i \in DOMAIN queue : q[i] = queue[i]
      BY <2>1 DEF Enqueued, QueueInv
    <3>2. k \in DOMAIN queue
      BY <1>10, <3>1
    <3>3. CASE l \in DOMAIN queue
      BY <1>7, <1>10, <3>1, <3>2, <3>3
    <3>4. CASE l = Len(queue) + 1
      BY <1>6, <1>8, <1>10, <3>1, <3>2, <3>4
    <3> QED BY <3>1, <3>3, <3>4
  <2>2. CASE same # {}
    <3>1. PICK m \in DOMAIN queue : same = {m} /\ LastOf(same) = m
      BY <2>2, OneGivesWay
    <3>2. /\ DOMAIN q = DOMAIN queue /\ q[m] = n
          /\ \A i \in DOMAIN queue \ {m} : q[i] = queue[i]
      BY <2>2, <3>1 DEF Enqueued
    <3>3. DOMAIN queue \subseteq Nat
      BY DEF QueueInv
    <3>4. CASE l = m
      BY <1>6, <1>8, <1>10, <3>2, <3>3, <3>4
    <3>5. CASE k = m
      <4>1. l \in DOMAIN queue /\ m < l /\ a = n /\ b = queue[l]
        BY <1>10, <3>2, <3>3, <3>5
      <4>2. Promises!MayPrecede(n, b)'
        BY <1>9, <3>1, <4>1
      <4> QED BY <4>1, <4>2
    <3>6. CASE k # m /\ l # m
      BY <1>7, <1>10, <3>2, <3>6
    <3> QED BY <3>4, <3>5, <3>6
  <2> QED BY <2>1, <2>2
<1>11. ASSUME NEW i \in DOMAIN queue', NEW j \in DOMAIN queue', i < j
       PROVE  \E k, l \in DOMAIN q : k < l /\ queue'[i] = q[k] /\ queue'[j] = q[l]
  <2>1. CASE current = None
    BY <1>1, <1>2, <1>11, <2>1, ProceedInOrder
  <2>2. CASE current # None
    BY <1>1, <1>11, <2>2
  <2> QED BY <2>1, <2>2
<1> QED BY <1>10, <1>11 DEF InOrder

\* The end of an iteration only takes the head.
LEMMA SettlesInOrder ==
  ASSUME QueueInv, InOrder, NEW outcome \in {"result", "error"}, current # None,
         Settles(outcome)
  PROVE  InOrder'
<1>1. /\ Proceed(queue) /\ requests' = requests
      /\ promise' = [promise EXCEPT ![current] = outcome]
  BY DEF Settles, Answered
<1>2. Len(requests) \in Nat /\ queue \in Seq(1..Len(requests)) /\ current \in Known
  BY DEF QueueInv, Known
<1>3. \A id \in Ids : promise[id] = "null" => promise'[id] = "null"
  <2>1. promise[current] = "open"
    BY <1>2, WaitingIsOpen DEF QueueInv, PromisesAccounted, Outstanding
  <2> QED BY <1>1, <2>1 DEF QueueInv
<1>4. ASSUME NEW k \in DOMAIN queue, NEW l \in DOMAIN queue, k < l,
             NEW a, NEW b, a = queue[k], b = queue[l]
      PROVE  Promises!MayPrecede(a, b)'
  <2>1. a \in Known /\ b \in Known /\ Promises!MayPrecede(a, b)
    BY <1>4 DEF InOrder, QueueInv
  <2> QED BY <1>1, <1>3, <2>1, OrderStays
<1>5. \A i, j \in DOMAIN queue' : i < j =>
        \E k, l \in DOMAIN queue : k < l /\ queue'[i] = queue[k] /\ queue'[j] = queue[l]
  BY <1>1, <1>2, ProceedInOrder
<1> QED BY <1>4, <1>5 DEF InOrder

\* What leaves the queue alone leaves the order.
LEMMA OthersInOrder ==
  ASSUME InOrder, UNCHANGED <<queue, current, requests, promise>>
  PROVE  InOrder'
  BY DEF InOrder, Promises!MayPrecede, Promises!SameFlag
\* A step calls, ends an iteration, or leaves the queue alone.
LEMMA NextSteps ==
  ASSUME [Next]_vars
  PROVE  \/ \E op \in Ops, o \in Objects \cup {NoObject}, active \in Active :
              Request(op, o, active)
         \/ Completes \/ \E changed \in BOOLEAN : Fails(changed)
         \/ UNCHANGED <<queue, current, requests, promise>>
<1>1. CASE Render
  BY <1>1, RenderLeaves
<1>2. CASE Executes \/ HeaderArrives \/ SessionChanges \/ Finished \/ UNCHANGED vars
  BY <1>2 DEF Executes, HeaderArrives, SessionChanges, Finished, vars
<1>3. ASSUME NEW o, Answers(o) \/ OpenTab(o) \/ Select(o) \/ ReadHeader(o)
      PROVE  UNCHANGED <<queue, current, requests, promise>>
  BY <1>3 DEF Answers, OpenTab, Select, ReadHeader, Clicks
<1>4. ASSUME NEW i, CloseTab(i) \/ SetActiveTab(i)
      PROVE  UNCHANGED <<queue, current, requests, promise>>
  BY <1>4 DEF CloseTab, SetActiveTab, Clicks
<1> QED BY <1>1, <1>2, <1>3, <1>4 DEF Next

\* Every step keeps the order.
LEMMA NextInOrder == QueueInv /\ InOrder /\ [Next]_vars => InOrder'
<1> SUFFICES ASSUME QueueInv, InOrder, [Next]_vars PROVE InOrder'
  OBVIOUS
<1>1. ASSUME NEW op \in Ops, NEW o \in Objects \cup {NoObject}, NEW active \in Active,
             Request(op, o, active)
      PROVE  InOrder'
  BY <1>1, RequestInOrder
<1>2. ASSUME Completes \/ \E changed \in BOOLEAN : Fails(changed) PROVE InOrder'
  BY <1>2, SettlesInOrder DEF Completes, Fails, QueueInv, Loop
<1>3. CASE UNCHANGED <<queue, current, requests, promise>>
  BY <1>3, OthersInOrder
<1> QED
  BY <1>1, <1>2, <1>3, NextSteps


\* A request is a call of the contract.
LEMMA RequestAsks ==
  ASSUME QueueInv, NEW op \in Ops, NEW object \in Objects \cup {NoObject},
         NEW active \in Active, Request(op, object, active)
  PROVE  Promises!CallsNext
<1> PICK n, call, same, q :
      /\ n = Len(requests) + 1
      /\ call = [op |-> op, object |-> object, active |-> active]
      /\ same = Replaceable(op, object)
      /\ q = Enqueued(same, n)
  OBVIOUS
<1>1. /\ n <= MaxRequests /\ requests' = Append(requests, call) /\ promise' = Promised(n, same)
      /\ IF current = None THEN Proceed(q) ELSE current' = current
  BY DEF Request, Enqueued
<1>2. n \in Promises!Ids
  BY <1>1, ConstantsAssumption DEF Promises!Ids, QueueInv
<1>3. Promises!Outdated(call) = IF same = {} THEN {} ELSE {queue[LastOf(same)]}
  <2>1. Promises!Outdated(call) = {queue[i] : i \in same}
    BY OutdatedWait
  <2> QED BY <2>1, OneGivesWay
<1>4. promise' = [i \in Promises!Ids |-> IF i = n THEN "open"
                    ELSE IF i \in Promises!Outdated(call) THEN "null" ELSE promise[i]]
  BY <1>1, <1>3 DEF Promised, Promises!Ids, Ids
<1>5. current' = IF current = 0 THEN n ELSE current
  <2>1. CASE current = None
    <3>1. queue = <<>>
      BY <2>1 DEF QueueInv, Loop
    <3>2. q = <<n>>
      BY <3>1 DEF Replaceable, Enqueued
    <3>3. q # <<>> /\ Head(q) = n
      BY <3>2
    <3> QED BY <1>1, <2>1, <3>3 DEF Proceed, None
  <2>2. CASE current # None
    BY <1>1, <2>2 DEF None
  <2> QED BY <2>1, <2>2
<1>6. Promises!Asks(call)
  BY <1>1, <1>2, <1>4, <1>5 DEF Promises!Asks
<1> QED BY <1>6 DEF Promises!CallsNext

\* The end of an iteration is the end of a call in the contract.
LEMMA SettlesEnds ==
  ASSUME QueueInv, InOrder, NEW outcome \in {"result", "error"}, current # None,
         Settles(outcome)
  PROVE  Promises!CallsNext
<1>1. /\ Proceed(queue) /\ requests' = requests
      /\ promise' = [promise EXCEPT ![current] = outcome]
  BY DEF Settles, Answered
<1>2. Promises!Open \ {current} = Waiting
  BY WaitingIsOpen
<1>3. CASE queue = <<>>
  <2>1. Waiting = {} /\ current' = 0
    BY <1>1, <1>3 DEF Waiting, Proceed, None
  <2>2. Promises!Ends(outcome)
    BY <1>1, <1>2, <2>1 DEF Promises!Ends, None
  <2> QED BY <2>2 DEF Promises!CallsNext
<1>4. CASE queue # <<>>
  <2>1. /\ DOMAIN queue = 1..Len(queue) /\ Len(queue) \in Nat \ {0}
        /\ current' = queue[1] /\ 1 \in DOMAIN queue
    BY <1>1, <1>4 DEF Proceed, QueueInv
  <2>2. queue[1] \in Waiting /\ Waiting # {}
    BY <2>1 DEF Waiting
  <2>3. ASSUME NEW b \in Waiting \ {queue[1]} PROVE Promises!MayPrecede(queue[1], b)
    <3>1. PICK j \in DOMAIN queue : b = queue[j] /\ j # 1
      BY DEF Waiting
    <3>2. 1 < j
      BY <2>1, <3>1
    <3> QED BY <2>1, <3>1, <3>2 DEF InOrder
  <2>4. current' \in {a \in Waiting : \A b \in Waiting \ {a} : Promises!MayPrecede(a, b)}
    BY <2>1, <2>2, <2>3
  <2>5. Promises!Ends(outcome)
    BY <1>1, <1>2, <2>2, <2>4 DEF Promises!Ends, None
  <2> QED BY <2>5 DEF Promises!CallsNext
<1> QED BY <1>3, <1>4

\* Every step of the queue is one of the contract, or none.
LEMMA StepPromised ==
  ASSUME QueueInv, InOrder, [Next]_vars
  PROVE  [Promises!CallsNext]_(Promises!callVars)
<1>1. ASSUME NEW op \in Ops, NEW o \in Objects \cup {NoObject}, NEW active \in Active,
             Request(op, o, active)
      PROVE  Promises!CallsNext
  BY <1>1, RequestAsks
<1>2. ASSUME Completes \/ \E changed \in BOOLEAN : Fails(changed) PROVE Promises!CallsNext
  BY <1>2, SettlesEnds DEF Completes, Fails, QueueInv, Loop
<1>3. ASSUME UNCHANGED <<queue, current, requests, promise>>
      PROVE  UNCHANGED Promises!callVars
  BY <1>3 DEF Promises!callVars
<1> QED BY <1>1, <1>2, <1>3, NextSteps

\* Calls run in the order they were asked, but for the place a flag inherits.
THEOREM OrderCorrect == Spec => []InOrder
<1>1. Init => InOrder
  BY DEF Init, InOrder
<1> QED BY <1>1, NextInOrder, QueueCorrect, PTL DEF Spec

\* The queue keeps the safety part of what runMutation promises: one call runs at a
\* time, each is answered once, and only for its own flag does one give way.
THEOREM QueueImplementsCalls == Spec => Promises!CallsSafety
<1>1. Init => Promises!CallsInit
  BY DEF Init, Promises!CallsInit, Promises!Ids, Ids, None
<1>2. QueueInv /\ InOrder /\ [Next]_vars => [Promises!CallsNext]_(Promises!callVars)
  BY StepPromised
<1> QED
  BY <1>1, <1>2, QueueCorrect, OrderCorrect, PTL DEF Spec, Promises!CallsSafety
=============================================================================
