--------------------- MODULE WorkspaceLifecycle_proofs ---------------------
(***************************************************************************)
(* The workspace at any size: the runtime session is that of the attached  *)
(* process, the loading flags have a call behind them, and, unless thunks  *)
(* cross, a snapshot is the metadata of that process.                      *)
(*                                                                         *)
(* WorkspaceInv is inductive.  Its first part holds whatever the user      *)
(* does: an attach is one command on the main thread, and the lifecycle    *)
(* has no process until the session of the earlier one is gone.  The       *)
(* second part follows the only thunk through the queues: its attach is    *)
(* asked for once, so that nothing else changes the process while its load *)
(* reads.                                                                  *)
(*                                                                         *)
(* AgreeInv is what the page knows of the backend without crossing: calls  *)
(* are heard in the order in which they were made, so an answer that no    *)
(* attach is called after still says what is so.                           *)
(***************************************************************************)
EXTENDS WorkspaceLifecycle, SequenceTheorems, TLAPS

-----------------------------------------------------------------------------
\* Queues: what Append and Tail leave in place.

LEMMA AppendPlaces ==
  ASSUME NEW S, NEW s \in Seq(S), NEW e \in S
  PROVE  /\ Append(s, e) \in Seq(S) /\ Append(s, e) # <<>>
         /\ Len(s) + 1 \notin DOMAIN s
         /\ \A i \in DOMAIN Append(s, e) :
              \/ i \in DOMAIN s /\ Append(s, e)[i] = s[i]
              \/ i = Len(s) + 1 /\ Append(s, e)[i] = e
         /\ s # <<>> => Head(Append(s, e)) = Head(s)
  OBVIOUS

LEMMA TailPlaces ==
  ASSUME NEW S, NEW s \in Seq(S), s # <<>>
  PROVE  /\ Tail(s) \in Seq(S) /\ Head(s) \in S
         /\ 1 \in DOMAIN s /\ s[1] = Head(s)
         /\ \A i \in DOMAIN Tail(s) :
              i \in Nat \ {0} /\ i + 1 \in DOMAIN s /\ Tail(s)[i] = s[i + 1]
  OBVIOUS

-----------------------------------------------------------------------------
\* Transitions of the lifecycle that an attach does not make.

LEMMA LoadingStays ==
  ASSUME NEW l \in Lifecycle
  PROVE  Loading(l) \in Lifecycle /\ Loading(l).process = l.process /\ ~Loading(l).snapshot
  BY DEF Lifecycle, Loading

LEMMA ReadyStays ==
  ASSUME NEW l \in Lifecycle, NEW c \in BOOLEAN
  PROVE  Ready(l, c) \in Lifecycle /\ Ready(l, c).process = l.process
<1>1. CASE c
  BY <1>1 DEF Lifecycle, Ready
<1>2. CASE ~c
  BY <1>2 DEF Lifecycle, Ready
<1> QED BY <1>1, <1>2

LEMMA FaultedStays ==
  ASSUME NEW l \in Lifecycle
  PROVE  /\ Faulted(l) \in Lifecycle /\ Faulted(l).process = l.process
         /\ Faulted(l).snapshot = l.snapshot
  BY DEF Lifecycle, Faulted

LEMMA LoadFailedStays ==
  ASSUME NEW l \in Lifecycle
  PROVE  /\ LoadFailed(l) \in Lifecycle /\ LoadFailed(l).process = l.process
         /\ LoadFailed(l).snapshot => l.snapshot
<1>1. CASE l.process = NoProcess
  BY <1>1, FaultedStays DEF LoadFailed
<1>2. CASE l.process # NoProcess
  BY <1>2 DEF Lifecycle, LoadFailed
<1> QED BY <1>1, <1>2

LEMMA AliveStays ==
  ASSUME NEW l \in Lifecycle
  PROVE  /\ Alive(l) \in Lifecycle /\ Alive(l).process = l.process
         /\ Alive(l).snapshot = l.snapshot
  BY DEF Lifecycle, Alive

LEMMA Records ==
  /\ Detached \in Lifecycle /\ Attaching \in Lifecycle
  /\ \A s \in {"detached", "error"} : Unattached(s, "error") \in Lifecycle
  /\ \A p \in SomeProcess : AttachedTo(p) \in Lifecycle
  BY DEF Lifecycle, Detached, Attaching, Unattached, AttachedTo, SomeProcess
-----------------------------------------------------------------------------
\* Types of what the steps write.

LEMMA CallTypes ==
  /\ \A t \in Attaches, p \in Processes : Call("attach", t, p) \in Calls
  /\ \A t \in Attaches : Call("lifecycle", t, NoProcess) \in Calls
  /\ Call("lifecycle", Focus, NoProcess) \in Calls
<1>1. Attaches \subseteq Callers /\ Focus \in Callers
  BY DEF Callers
<1>2. Processes \subseteq SomeProcess /\ NoProcess \in SomeProcess
  BY DEF SomeProcess
<1> QED BY <1>1, <1>2 DEF Call, Calls

LEMMA AskTypes ==
  ASSUME calls \in Seq(Calls), NEW c \in Calls, calls' = Append(calls, c)
  PROVE  calls' \in Seq(Calls)
  BY AppendPlaces

LEMMA ReturnTypes ==
  ASSUME calls \in Seq(Calls), calls # <<>>, answers \in Seq(Answers),
         NEW ok \in BOOLEAN, NEW state \in Lifecycle, Returns(ok, state)
  PROVE  calls' \in Seq(Calls) /\ answers' \in Seq(Answers) /\ Head(calls) \in Calls
<1>1. calls' \in Seq(Calls) /\ Head(calls) \in Calls
  BY TailPlaces DEF Returns
<1>2. Answer(Head(calls), ok, state) \in Answers
  BY <1>1 DEF Answer, Answers
<1>3. answers' \in Seq(Answers)
  BY <1>2, AppendPlaces DEF Returns
<1> QED BY <1>1, <1>3

LEMMA HearTypes ==
  ASSUME answers \in Seq(Answers), answers # <<>>
  PROVE  /\ Tail(answers) \in Seq(Answers) /\ Head(answers) \in Answers
         /\ Head(answers).call \in Calls /\ Head(answers).state \in Lifecycle
<1>1. Tail(answers) \in Seq(Answers) /\ Head(answers) \in Answers
  BY TailPlaces
<1>2. \A a \in Answers : a.call \in Calls /\ a.state \in Lifecycle
  BY DEF Answers
<1> QED BY <1>1, <1>2

LEMMA ShowTypes ==
  ASSUME overlay \in SomeProcess, asking \in BOOLEAN,
         NEW l \in Lifecycle, ShowLifecycle(l)
  PROVE  page' \in Lifecycle /\ overlay' \in SomeProcess /\ asking' \in BOOLEAN
<1>1. CASE ClearsRuntime(l)
  BY <1>1 DEF ShowLifecycle, ClearRuntime, SomeProcess
<1>2. CASE ~ClearsRuntime(l)
  BY <1>2 DEF ShowLifecycle
<1>3. QED BY <1>1, <1>2

LEMMA RejectTypes ==
  ASSUME thunks \in [Attaches -> Thunk], NEW t \in Attaches, Rejects(t)
  PROVE  /\ page' \in Lifecycle /\ overlay' \in SomeProcess /\ asking' \in BOOLEAN
         /\ thunks' \in [Attaches -> Thunk] /\ analysis' \in Analysis
<1>1. page' \in Lifecycle
  BY Records DEF Rejects
<1>2. overlay' \in SomeProcess /\ asking' \in BOOLEAN /\ analysis' \in Analysis
  BY DEF Rejects, ClearRuntime, SomeProcess, Analysis, NoAnalysis
<1>3. thunks' \in [Attaches -> Thunk]
  BY DEF Rejects, Thunk
<1> QED BY <1>1, <1>2, <1>3

-----------------------------------------------------------------------------
\* Types.

LEMMA MainThreadTypes ==
  ASSUME TypeOK, MainThread
  PROVE  TypeOK'
<1>1. CASE GetsLifecycle
  BY <1>1, ReturnTypes
     DEF TypeOK, GetsLifecycle, Calling, backend, store
<1>2. CASE AttachBegins
  BY <1>2, Records
     DEF TypeOK, AttachBegins, AttachStep, transit, store
<1>3. CASE AttachFinds
  BY <1>3
     DEF TypeOK, AttachFinds, AttachStep, Kept, transit, store, SomeProcess
<1>4. CASE AttachMisses
  BY <1>4
     DEF TypeOK, AttachMisses, AttachStep, transit, store, SomeProcess
<1>5. CASE AttachResets
  BY <1>5
     DEF TypeOK, AttachResets, AttachStep, transit, store, SomeProcess
<1>6. CASE AttachFails
  BY <1>6, ReturnTypes, Records
     DEF TypeOK, AttachFails, AttachStep, Calling, store
<1>7. CASE AttachCompletes
  <2>1. Head(calls) \in Calls
    BY <1>7, TailPlaces DEF TypeOK, AttachCompletes, AttachStep, Calling
  <2>2. lifecycle' \in Lifecycle
    BY <1>7, <2>1, Records DEF AttachCompletes, Calls
  <2> QED
    BY <1>7, <2>2 DEF TypeOK, AttachCompletes, AttachStep, transit, store
<1>8. CASE SessionOpens
  BY <1>8, ReturnTypes, Records
     DEF TypeOK, SessionOpens, AttachStep, Calling, Calls, store
<1>9. CASE SessionFails
  BY <1>9, ReturnTypes, Records, FaultedStays
     DEF TypeOK, SessionFails, AttachStep, Calling, store
<1> QED
  BY <1>1, <1>2, <1>3, <1>4, <1>5, <1>6, <1>7, <1>8, <1>9
     DEF MainThread

LEMMA TypeStep ==
  ASSUME TypeOK, [Next]_vars, ~MainThread
  PROVE  TypeOK'
<1>1. CASE \E t \in Attaches : LoadBegins(t)
  <2> PICK t \in Attaches : LoadBegins(t)
    BY <1>1
  <2>1. loads' \in [Attaches -> Load]
    BY DEF TypeOK, LoadBegins, Load
  <2> QED
    BY <2>1, LoadingStays DEF TypeOK, LoadBegins, store
<1>2. CASE \E t \in Attaches : LoadFinds(t)
  <2> PICK t \in Attaches : LoadFinds(t)
    BY <1>2
  <2> DEFINE at == IF lifecycle.process = NoProcess THEN "failing"
                   ELSE IF metadata = lifecycle.process THEN "found" ELSE "reading"
  <2>1. lifecycle.process \in SomeProcess /\ at \in {"failing", "found", "reading"}
    BY DEF TypeOK, Lifecycle
  <2>2. loads' = [loads EXCEPT ![t] = [@ EXCEPT !.process = lifecycle.process, !.at = at]]
    BY DEF LoadFinds, TypeOK, Load
  <2> HIDE DEF at
  <2>3. loads' \in [Attaches -> Load]
    BY <2>1, <2>2 DEF TypeOK, Load
  <2> QED
    BY <2>3 DEF TypeOK, LoadFinds, backend, store
<1>3. CASE \E t \in Attaches : LoadReads(t)
  <2> PICK t \in Attaches : LoadReads(t)
    BY <1>3
  <2>1. loads' \in [Attaches -> Load]
    <3>1. PICK a \in {"found", "failing"} : loads' = [loads EXCEPT ![t].at = a]
      BY DEF LoadReads
    <3> QED BY <3>1 DEF TypeOK, Load
  <2>2. metadata' \in SomeProcess
    <3>1. loads[t].process \in SomeProcess /\ metadata \in SomeProcess
      BY DEF TypeOK, Load
    <3> QED BY <3>1 DEF LoadReads
  <2> QED
    BY <2>1, <2>2 DEF TypeOK, LoadReads, store
<1>4. CASE \E t \in Attaches : LoadChecks(t)
  <2> PICK t \in Attaches : LoadChecks(t)
    BY <1>4
  <2>1. loads' \in [Attaches -> Load]
    BY DEF TypeOK, LoadChecks, Load
  <2> QED
    BY <2>1 DEF TypeOK, LoadChecks, backend, store
<1>5. CASE \E t \in Attaches : LoadCompletes(t)
  <2> PICK t \in Attaches : LoadCompletes(t)
    BY <1>5
  <2>1. loads' \in [Attaches -> Load]
    BY DEF TypeOK, LoadCompletes, Load
  <2>2. lifecycle' \in Lifecycle
    BY ReadyStays DEF TypeOK, LoadCompletes, Load
  <2> QED
    BY <2>1, <2>2 DEF TypeOK, LoadCompletes, store
<1>6. CASE \E t \in Attaches : LoadFails(t)
  <2> PICK t \in Attaches : LoadFails(t)
    BY <1>6
  <2>1. loads' \in [Attaches -> Load]
    BY DEF TypeOK, LoadFails, Load
  <2> QED
    BY <2>1, LoadFailedStays DEF TypeOK, LoadFails, store
<1>7. CASE \E k \in Requests : RequestStarts(k)
  <2> PICK k \in Requests : RequestStarts(k)
    BY <1>7
  <2>1. requests' \in [Requests -> Request]
    BY DEF TypeOK, RequestStarts, Request
  <2> QED
    BY <2>1 DEF TypeOK, RequestStarts, backend, store
<1>8. CASE \E k \in Requests : RequestSucceeds(k)
  <2> PICK k \in Requests : RequestSucceeds(k)
    BY <1>8
  <2>1. requests' \in [Requests -> Request]
    BY DEF TypeOK, RequestSucceeds, Request
  <2> QED
    BY <2>1, AliveStays DEF TypeOK, RequestSucceeds, store
<1>9. CASE \E k \in Requests : RequestFails(k)
  <2> PICK k \in Requests : RequestFails(k)
    BY <1>9
  <2>1. requests' \in [Requests -> Request]
    BY DEF TypeOK, RequestFails, Request
  <2> QED
    BY <2>1, FaultedStays DEF TypeOK, RequestFails, store
<1>10. CASE \E t \in Attaches, p \in Processes : SelectProcess(t, p)
  <2> PICK t \in Attaches, p \in Processes : SelectProcess(t, p)
    BY <1>10
  <2>1. calls' \in Seq(Calls)
    BY CallTypes, AskTypes DEF TypeOK, SelectProcess
  <2>2. thunks' \in [Attaches -> Thunk]
    BY DEF TypeOK, SelectProcess, Thunk, SomeProcess
  <2>3. page' \in Lifecycle /\ analysis' \in Analysis /\ overlay' \in SomeProcess
    BY Records DEF SelectProcess, Analysis, NoAnalysis, ClearRuntime, SomeProcess
  <2>4. crossed' \in BOOLEAN /\ loading' \in BOOLEAN /\ asking' \in BOOLEAN
    BY DEF TypeOK, SelectProcess, ClearRuntime
  <2> QED
    BY <2>1, <2>2, <2>3, <2>4 DEF TypeOK, SelectProcess, backend
<1>11. CASE Refresh
  BY <1>11, AskTypes, CallTypes
     DEF TypeOK, Refresh, backend, store
<1>12. CASE \E t \in Attaches : AttachAnswered(t)
  <2> PICK t \in Attaches : AttachAnswered(t)
    BY <1>12
  <2>1. answers' \in Seq(Answers)
    BY HearTypes DEF TypeOK, AttachAnswered, Awaited
  <2>2. CASE Head(answers).ok
    <3>1. calls' \in Seq(Calls)
      BY <2>2, CallTypes, AskTypes DEF TypeOK, AttachAnswered
    <3>2. page' \in Lifecycle
      BY <2>2, Records DEF TypeOK, AttachAnswered, Thunk
    <3>3. thunks' \in [Attaches -> Thunk]
      BY <2>2 DEF TypeOK, AttachAnswered, Thunk
    <3> QED BY <2>1, <2>2, <3>1, <3>2, <3>3 DEF TypeOK, AttachAnswered, backend
  <2>3. CASE ~Head(answers).ok
    BY <2>1, <2>3, RejectTypes DEF TypeOK, AttachAnswered, backend
  <2> QED BY <2>2, <2>3
<1>13. CASE FocusAnswered
  <2>1. answers' \in Seq(Answers) /\ Head(answers).state \in Lifecycle
    BY <1>13, HearTypes DEF TypeOK, FocusAnswered, Awaited
  <2>2. page' \in Lifecycle /\ overlay' \in SomeProcess /\ asking' \in BOOLEAN
    BY <1>13, <2>1, ShowTypes DEF TypeOK, FocusAnswered
  <2>3. analysis' \in Analysis
    BY <1>13 DEF TypeOK, FocusAnswered, AnalysisUnder, Analysis, NoAnalysis, SomeProcess
  <2> QED
    BY <1>13, <2>1, <2>2, <2>3 DEF TypeOK, FocusAnswered, backend
<1>14. CASE \E t \in Attaches : RefreshAnswered(t)
  <2> PICK t \in Attaches : RefreshAnswered(t)
    BY <1>14
  <2>1. answers' \in Seq(Answers) /\ Head(answers).state \in Lifecycle
    BY HearTypes DEF TypeOK, RefreshAnswered, Awaited
  <2>2. page' \in Lifecycle /\ overlay' \in SomeProcess /\ asking' \in BOOLEAN
    BY <2>1, ShowTypes DEF TypeOK, RefreshAnswered
  <2>3. analysis' \in Analysis
    BY DEF RefreshAnswered, Analysis, NoAnalysis, SomeProcess
  <2>4. thunks' \in [Attaches -> Thunk] /\ loads' \in [Attaches -> Load]
    BY DEF TypeOK, RefreshAnswered, Thunk, Load
  <2> QED
    BY <2>1, <2>2, <2>3, <2>4 DEF TypeOK, RefreshAnswered, backend
<1>15. CASE \E t \in Attaches : LoadAnswered(t)
  <2> PICK t \in Attaches : LoadAnswered(t)
    BY <1>15
  <2>1. thunks' \in [Attaches -> Thunk]
    BY DEF TypeOK, LoadAnswered, Thunk
  <2> QED
    BY <2>1, AskTypes, CallTypes DEF TypeOK, LoadAnswered, backend
<1>16. CASE \E t \in Attaches : LoadSettles(t)
  <2> PICK t \in Attaches : LoadSettles(t)
    BY <1>16
  <2>1. answers' \in Seq(Answers) /\ Head(answers).state \in Lifecycle
    BY HearTypes DEF TypeOK, LoadSettles, Awaited
  <2>2. CASE loads[t].at = "loaded"
    <3>1. page' \in Lifecycle /\ overlay' \in SomeProcess /\ asking' \in BOOLEAN
      BY <2>1, <2>2, ShowTypes DEF TypeOK, LoadSettles
    <3>2. thunks' \in [Attaches -> Thunk]
      BY <2>2 DEF TypeOK, LoadSettles, Thunk
    <3>3. thunks[t].process \in SomeProcess /\ loads[t].process \in SomeProcess
      BY DEF TypeOK, Thunk, Load
    <3>4. analysis' \in Analysis
      BY <2>2, <3>3 DEF LoadSettles, Analysis
    <3> QED BY <2>1, <2>2, <3>1, <3>2, <3>4 DEF TypeOK, LoadSettles, backend
  <2>3. CASE loads[t].at # "loaded"
    BY <2>1, <2>3, RejectTypes DEF TypeOK, LoadSettles, backend
  <2> QED BY <2>2, <2>3
<1>17. CASE \E k \in Requests : RequestFields(k)
  <2> PICK k \in Requests : RequestFields(k)
    BY <1>17
  <2>1. requests' \in [Requests -> Request]
    BY DEF TypeOK, RequestFields, Request
  <2> QED
    BY <2>1 DEF TypeOK, RequestFields, backend
<1>18. CASE \E k \in Requests : FieldsAnswered(k)
  <2> PICK k \in Requests : FieldsAnswered(k)
    BY <1>18
  <2>1. overlay' \in SomeProcess /\ requests' \in [Requests -> Request]
    BY DEF TypeOK, FieldsAnswered, Request
  <2> QED
    BY <2>1 DEF TypeOK, FieldsAnswered, backend
<1>19. CASE UNCHANGED vars
  BY <1>19
     DEF TypeOK, vars
<1> QED
  BY <1>1, <1>2, <1>3, <1>4, <1>5, <1>6, <1>7, <1>8, <1>9, <1>10,
      <1>11, <1>12, <1>13, <1>14, <1>15, <1>16, <1>17, <1>18, <1>19
     DEF Next, User, LoadThread, RequestThread, PageHears

-----------------------------------------------------------------------------
\* Where the commands and the answers of a step were before it.

LEMMA AskPlaces ==
  ASSUME calls \in Seq(Calls), NEW c \in Calls, calls' = Append(calls, c)
  PROVE  /\ Len(calls) + 1 \notin DOMAIN calls
         /\ \A i \in DOMAIN calls' :
              \/ i \in DOMAIN calls /\ calls'[i] = calls[i]
              \/ i = Len(calls) + 1 /\ calls'[i] = c
         /\ calls # <<>> => calls' # <<>> /\ Head(calls') = Head(calls)
  BY AppendPlaces

LEMMA HearPlaces ==
  ASSUME answers \in Seq(Answers), answers # <<>>, answers' = Tail(answers)
  PROVE  /\ 1 \in DOMAIN answers /\ answers[1] = Head(answers)
         /\ \A i \in DOMAIN answers' :
              i \in Nat \ {0} /\ i + 1 \in DOMAIN answers /\ answers'[i] = answers[i + 1]
  BY TailPlaces

LEMMA ReturnPlaces ==
  ASSUME calls \in Seq(Calls), calls # <<>>, answers \in Seq(Answers),
         NEW ok \in BOOLEAN, NEW state \in Lifecycle, Returns(ok, state)
  PROVE  /\ 1 \in DOMAIN calls /\ calls[1] = Head(calls)
         /\ \A i \in DOMAIN calls' :
              i \in Nat \ {0} /\ i + 1 \in DOMAIN calls /\ calls'[i] = calls[i + 1]
         /\ Len(answers) + 1 \notin DOMAIN answers
         /\ \A i \in DOMAIN answers' :
              \/ i \in DOMAIN answers /\ answers'[i] = answers[i]
              \/ i = Len(answers) + 1 /\ answers'[i].call = Head(calls)
<1>1. /\ 1 \in DOMAIN calls /\ calls[1] = Head(calls) /\ Head(calls) \in Calls
      /\ \A i \in DOMAIN calls' :
           i \in Nat \ {0} /\ i + 1 \in DOMAIN calls /\ calls'[i] = calls[i + 1]
  BY TailPlaces DEF Returns
<1> DEFINE a == Answer(Head(calls), ok, state)
<1>2. a \in Answers /\ a.call = Head(calls)
  BY <1>1 DEF Answer, Answers
<1>3. answers' = Append(answers, a)
  BY DEF Returns
<1> HIDE DEF a
<1>4. /\ Len(answers) + 1 \notin DOMAIN answers
      /\ \A i \in DOMAIN answers' :
           \/ i \in DOMAIN answers /\ answers'[i] = answers[i]
           \/ i = Len(answers) + 1 /\ answers'[i] = a
  BY <1>2, <1>3, AppendPlaces
<1> QED BY <1>1, <1>2, <1>4

\* Every return of the main thread, with what it is about.
LEMMA MainReturns ==
  ASSUME TypeOK, MainThread, ~UNCHANGED <<calls, answers>>
  PROVE  calls # <<>> /\ \E ok \in BOOLEAN, state \in Lifecycle : Returns(ok, state)
<1>1. CASE GetsLifecycle
  BY <1>1 DEF GetsLifecycle, Calling, TypeOK
<1>2. CASE AttachFails \/ SessionOpens \/ SessionFails
  BY <1>2, Records DEF AttachFails, SessionOpens, SessionFails, AttachStep, Calling
<1> QED
  BY <1>1, <1>2 DEF MainThread, AttachBegins, AttachFinds, AttachMisses, AttachResets,
     AttachCompletes, transit

-----------------------------------------------------------------------------
\* Attach is only called by a thunk, for a process.

LEMMA NamedStep ==
  ASSUME TypeOK, AttachesNamed, [Next]_vars
  PROVE  AttachesNamed'
<1>1. CASE UNCHANGED <<calls, answers>>
  BY <1>1 DEF AttachesNamed
<1>2. CASE MainThread /\ ~UNCHANGED <<calls, answers>>
  <2> PICK ok \in BOOLEAN, state \in Lifecycle : calls # <<>> /\ Returns(ok, state)
    BY <1>2, MainReturns
  <2> QED BY ReturnPlaces DEF TypeOK, AttachesNamed, Attach
<1>3. ASSUME NEW t \in Attaches, NEW p \in Processes, SelectProcess(t, p)
      PROVE  AttachesNamed'
  <2>1. calls' = Append(calls, Call("attach", t, p)) /\ UNCHANGED answers
    BY <1>3 DEF SelectProcess
  <2>2. Call("attach", t, p).thunk = t /\ Call("attach", t, p).process = p
    BY DEF Call
  <2> QED BY <2>1, <2>2, CallTypes, AskPlaces DEF TypeOK, AttachesNamed
<1>4. ASSUME NEW t \in Callers, calls' = Append(calls, Call("lifecycle", t, NoProcess)),
             \/ UNCHANGED answers
             \/ answers # <<>> /\ answers' = Tail(answers)
      PROVE  AttachesNamed'
  <2>1. ~Attach(Call("lifecycle", t, NoProcess)) /\ Call("lifecycle", t, NoProcess) \in Calls
    BY CallTypes DEF Call, Attach, Callers
  <2>2. \A i \in DOMAIN calls' : Attach(calls'[i]) => i \in DOMAIN calls /\ calls'[i] = calls[i]
    BY <1>4, <2>1, AskPlaces DEF TypeOK
  <2>3. \A i \in DOMAIN answers' : \E j \in DOMAIN answers : answers'[i] = answers[j]
    BY <1>4, HearPlaces DEF TypeOK
  <2> QED BY <2>2, <2>3 DEF AttachesNamed
<1>5. ASSUME UNCHANGED calls, answers # <<>>, answers' = Tail(answers)
      PROVE  AttachesNamed'
  BY <1>5, HearPlaces DEF TypeOK, AttachesNamed
<1>6. CASE Refresh \/ \E t \in Attaches : LoadAnswered(t)
  BY <1>4, <1>6 DEF Refresh, LoadAnswered, Callers
<1>7. CASE \E t \in Attaches : AttachAnswered(t)
  <2> PICK t \in Attaches : AttachAnswered(t)
    BY <1>7
  <2> t \in Callers /\ answers # <<>> /\ answers' = Tail(answers)
    BY DEF AttachAnswered, Awaited, Callers
  <2> QED BY <1>4, <1>5 DEF AttachAnswered
<1>8. CASE FocusAnswered \/ \E t \in Attaches : RefreshAnswered(t) \/ LoadSettles(t)
  BY <1>5, <1>8 DEF FocusAnswered, RefreshAnswered, LoadSettles, Awaited
<1> QED
  BY <1>1, <1>2, <1>3, <1>6, <1>7, <1>8 DEF Next, User, PageHears, LoadThread, LoadBegins,
     LoadFinds, LoadReads, LoadChecks, LoadCompletes, LoadFails, RequestThread, RequestStarts,
     RequestSucceeds, RequestFails, RequestFields, FieldsAnswered, vars

LEMMA ThunkAwaits ==
  ASSUME NEW kind, NEW t \in Attaches, NEW at, Awaited(kind, t, at)
  PROVE  thunks[t].at = at
  BY ConstantsAssumption DEF Awaited, Focus, Attaches

-----------------------------------------------------------------------------
\* What the steps off the main thread leave alone: the attach under way, the session
\* and the process.

LEMMA OffMainThread ==
  ASSUME TypeOK, [Next]_vars, ~MainThread
  PROVE  /\ UNCHANGED <<attaching, session>> /\ lifecycle'.process = lifecycle.process
         /\ Calling("attach") => Calling("attach")' /\ Head(calls') = Head(calls)
<1> USE DEF Calling
<1>1. ASSUME UNCHANGED <<attaching, session, lifecycle>>, NEW c \in Calls,
             UNCHANGED calls \/ calls' = Append(calls, c)
      PROVE  /\ UNCHANGED <<attaching, session>> /\ lifecycle'.process = lifecycle.process
             /\ Calling("attach") => Calling("attach")' /\ Head(calls') = Head(calls)
  BY <1>1, AskPlaces DEF TypeOK
<1>2. CASE UNCHANGED <<attaching, session, lifecycle, calls>>
  BY <1>2
<1>3. CASE \E t \in Attaches, p \in Processes : SelectProcess(t, p)
  BY <1>1, <1>3, CallTypes DEF SelectProcess, backend
<1>4. CASE Refresh \/ \E t \in Attaches : AttachAnswered(t) \/ LoadAnswered(t)
  BY <1>1, <1>4, CallTypes DEF Refresh, AttachAnswered, LoadAnswered, backend
<1>5. CASE \E t \in Attaches : LoadBegins(t) \/ LoadReads(t) \/ LoadCompletes(t) \/ LoadFails(t)
  <2> PICK t \in Attaches : LoadBegins(t) \/ LoadReads(t) \/ LoadCompletes(t) \/ LoadFails(t)
    BY <1>5
  <2>1. LoadBegins(t) \/ LoadFails(t) => lifecycle'.process = lifecycle.process
    BY LoadingStays, LoadFailedStays DEF TypeOK, LoadBegins, LoadFails
  <2>2. LoadCompletes(t) => lifecycle'.process = lifecycle.process
    BY ReadyStays DEF TypeOK, Load, LoadCompletes
  <2> QED BY <2>1, <2>2 DEF LoadBegins, LoadReads, LoadCompletes, LoadFails
<1>6. CASE \E k \in Requests : RequestSucceeds(k) \/ RequestFails(k)
  <2>1. lifecycle'.process = lifecycle.process
    BY <1>6, AliveStays, FaultedStays DEF TypeOK, RequestSucceeds, RequestFails
  <2> QED BY <1>6, <2>1 DEF RequestSucceeds, RequestFails
<1> QED
  BY <1>2, <1>3, <1>4, <1>5, <1>6 DEF Next, User, PageHears, LoadThread, LoadFinds, LoadChecks,
     RequestThread, RequestStarts, RequestFields, FieldsAnswered, FocusAnswered,
     RefreshAnswered, LoadSettles, backend, vars

-----------------------------------------------------------------------------
\* The runtime session is that of the attached process.

LEMMA OrderStep ==
  ASSUME TypeOK, AttachInOrder, SessionOfProcess, [Next]_vars
  PROVE  AttachInOrder' /\ SessionOfProcess'
<1> USE DEF AttachInOrder, SessionOfProcess
<1>1. CASE ~MainThread
  BY <1>1, OffMainThread
<1>2. CASE GetsLifecycle
  BY <1>2 DEF GetsLifecycle, backend
<1>3. CASE AttachBegins
  BY <1>3 DEF AttachBegins, AttachStep, transit, Attaching, Unattached, Calling
<1>4. CASE AttachFinds \/ AttachMisses
  BY <1>4 DEF AttachFinds, AttachMisses, AttachStep, transit, Calling
<1>5. CASE AttachResets
  BY <1>5 DEF AttachResets, AttachStep, transit, Calling
<1>6. CASE AttachFails
  BY <1>6 DEF AttachFails, AttachStep, Unattached
<1>7. CASE AttachCompletes
  BY <1>7 DEF AttachCompletes, AttachStep, transit, Calling, AttachedTo
<1>8. CASE SessionOpens
  BY <1>8 DEF SessionOpens, AttachStep
<1>9. CASE SessionFails
  BY <1>9 DEF SessionFails, AttachStep
<1> QED
  BY <1>1, <1>2, <1>3, <1>4, <1>5, <1>6, <1>7, <1>8, <1>9 DEF MainThread

-----------------------------------------------------------------------------
\* The flags that refuse a second call.

LEMMA AskedStep ==
  ASSUME TypeOK, LoadingIsAsked, [Next]_vars
  PROVE  LoadingIsAsked'
<1> DEFINE Asking == \E k \in Requests : requests[k].at \notin {"none", "answered"}
           OfLoad == \E t \in Attaches : thunks[t].at \in {"load", "settle"}
<1>1. LoadingIsAsked <=> (loading => OfLoad) /\ (asking => Asking)
  BY DEF LoadingIsAsked
<1>2. CASE UNCHANGED <<loading, asking, thunks, requests>>
  BY <1>2 DEF LoadingIsAsked
<1>3. CASE \E k \in Requests : RequestStarts(k) \/ RequestSucceeds(k) \/ RequestFails(k)
  <2> PICK k \in Requests : RequestStarts(k) \/ RequestSucceeds(k) \/ RequestFails(k)
    BY <1>3
  <2>1. \A j \in Requests : requests[j].at \notin {"none", "answered"} =>
          requests'[j].at \notin {"none", "answered"}
    BY DEF TypeOK, Request, RequestStarts, RequestSucceeds, RequestFails
  <2>2. UNCHANGED <<loading, asking, thunks>>
    BY DEF RequestStarts, RequestSucceeds, RequestFails, store
  <2> QED BY <2>1, <2>2 DEF LoadingIsAsked
<1>4. CASE \E k \in Requests : RequestFields(k) \/ FieldsAnswered(k)
  <2> PICK k \in Requests : RequestFields(k) \/ FieldsAnswered(k)
    BY <1>4
  <2>1. UNCHANGED <<loading, thunks>>
    BY DEF RequestFields, FieldsAnswered
  <2>2. asking' => requests'[k].at \notin {"none", "answered"}
    BY DEF TypeOK, Request, RequestFields, FieldsAnswered
  <2> QED BY <2>1, <2>2 DEF LoadingIsAsked
<1>5. ASSUME UNCHANGED requests, asking' => asking, loading' => OfLoad'
      PROVE  LoadingIsAsked'
  BY <1>5 DEF LoadingIsAsked
<1>6. CASE \E t \in Attaches, p \in Processes : SelectProcess(t, p)
  BY <1>5, <1>6 DEF SelectProcess, ClearRuntime
<1>7. CASE \E t \in Attaches : AttachAnswered(t)
  <2> PICK t \in Attaches : AttachAnswered(t)
    BY <1>7
  <2>1. \A u \in Attaches : thunks[u].at \in {"load", "settle"} => thunks'[u] = thunks[u]
    BY ThunkAwaits DEF AttachAnswered, Rejects, TypeOK
  <2>2. UNCHANGED <<loading, requests>> /\ (asking' => asking)
    BY DEF AttachAnswered, Rejects, ClearRuntime
  <2> QED BY <1>5, <2>1, <2>2 DEF LoadingIsAsked
<1>8. CASE FocusAnswered
  BY <1>8 DEF FocusAnswered, ShowLifecycle, ClearRuntime, LoadingIsAsked
<1>9. CASE \E t \in Attaches : RefreshAnswered(t) \/ LoadAnswered(t)
  <2> PICK t \in Attaches : RefreshAnswered(t) \/ LoadAnswered(t)
    BY <1>9
  <2>1. thunks'[t].at \in {"load", "settle"}
    BY DEF TypeOK, Thunk, RefreshAnswered, LoadAnswered
  <2>2. UNCHANGED requests /\ (asking' => asking)
    BY DEF RefreshAnswered, LoadAnswered, ShowLifecycle, ClearRuntime
  <2> QED BY <1>5, <2>1, <2>2
<1>10. CASE \E t \in Attaches : LoadSettles(t)
  <2>1. loading' = FALSE /\ UNCHANGED requests /\ (asking' => asking)
    BY <1>10 DEF LoadSettles, ShowLifecycle, Rejects, ClearRuntime
  <2> QED BY <1>5, <2>1
<1> QED
  BY <1>2, <1>3, <1>4, <1>6, <1>7, <1>8, <1>9, <1>10 DEF Next, User, MainThread, GetsLifecycle,
     AttachBegins, AttachFinds, AttachMisses, AttachResets, AttachFails, AttachCompletes,
     SessionOpens, SessionFails, PageHears, LoadThread, LoadBegins, LoadFinds, LoadReads,
     LoadChecks, LoadCompletes, LoadFails, RequestThread, Refresh, transit, store, vars

-----------------------------------------------------------------------------
\* Thunks that do not cross.

Alone == \A t, u \in Attaches : Active(t) /\ Active(u) => t = u
LoadsAwaited == \A t \in Attaches : Running(t) => thunks[t].at = "load"

NoAttach ==
  /\ \A i \in DOMAIN calls : ~Attach(calls[i])
  /\ \A i \in DOMAIN answers : ~Attach(answers[i].call)

\* The part of OneAtATime that is about the queues.
OneAttach ==
  /\ \A i \in DOMAIN calls : Attach(calls[i]) => thunks[calls[i].thunk].at = "attach"
  /\ \A i \in DOMAIN answers :
       Attach(answers[i].call) => thunks[answers[i].call.thunk].at = "attach"
  /\ \A i, j \in DOMAIN calls : Attach(calls[i]) /\ Attach(calls[j]) => i = j
  /\ \A i, j \in DOMAIN answers : Attach(answers[i].call) /\ Attach(answers[j].call) => i = j
  /\ \A i \in DOMAIN calls, j \in DOMAIN answers :
       ~(Attach(calls[i]) /\ Attach(answers[j].call))

LEMMA OneAtATimeParts == OneAtATime <=> Alone /\ OneAttach /\ LoadsAwaited
  BY DEF OneAtATime, Alone, OneAttach, LoadsAwaited

\* An attach that is called or answered is that of the active thunk.
LEMMA NoAttachOf ==
  ASSUME AttachesNamed, OneAtATime,
         \A u \in Attaches : thunks[u].at # "attach"
  PROVE  NoAttach
  BY DEF AttachesNamed, OneAtATime, NoAttach

LEMMA NoAttachBeside ==
  ASSUME AttachesNamed, OneAtATime, NEW t \in Attaches, Active(t), thunks[t].at # "attach"
  PROVE  NoAttach
<1>1. \A u \in Attaches : thunks[u].at # "attach"
  BY DEF OneAtATime, Active, Ended
<1> QED BY <1>1, NoAttachOf

LEMMA NoLoadBeside ==
  ASSUME OneAtATime, NEW t \in Attaches, thunks[t].at = "attach"
  PROVE  \A u \in Attaches : ~Running(u)
  BY DEF OneAtATime, Active, Ended

LEMMA NoLoadInAttach ==
  ASSUME TypeOK, AttachesNamed, OneAtATime, Calling("attach")
  PROVE  \A u \in Attaches : ~Running(u)
<1>1. 1 \in DOMAIN calls /\ Attach(calls[1])
  BY TailPlaces DEF TypeOK, Calling, Attach
<1>2. calls[1].thunk \in Attaches /\ thunks[calls[1].thunk].at = "attach"
  BY <1>1 DEF AttachesNamed, OneAtATime
<1> QED BY <1>2, NoLoadBeside

LEMMA NoAttachStays ==
  ASSUME TypeOK, NoAttach,
         \/ UNCHANGED calls
         \/ \E t \in Callers : calls' = Append(calls, Call("lifecycle", t, NoProcess)),
         UNCHANGED answers \/ (answers # <<>> /\ answers' = Tail(answers))
  PROVE  NoAttach'
<1>1. \A t \in Callers : /\ Call("lifecycle", t, NoProcess) \in Calls
                         /\ ~Attach(Call("lifecycle", t, NoProcess))
  BY CallTypes DEF Callers, Call, Attach
<1>2. \A i \in DOMAIN calls' : ~Attach(calls'[i])
  BY <1>1, AskPlaces DEF TypeOK, NoAttach
<1>3. \A i \in DOMAIN answers' : ~Attach(answers'[i].call)
  BY HearPlaces DEF TypeOK, NoAttach
<1> QED BY <1>2, <1>3 DEF NoAttach

\* The answer of an attach is the only sign of it.
LEMMA NoAttachAfterAnswer ==
  ASSUME TypeOK, OneAtATime, answers # <<>>, Attach(Head(answers).call),
         answers' = Tail(answers)
  PROVE  /\ \A i \in DOMAIN calls : ~Attach(calls[i])
         /\ \A i \in DOMAIN answers' : ~Attach(answers'[i].call)
<1>1. 1 \in DOMAIN answers /\ Attach(answers[1].call)
  BY HearPlaces DEF TypeOK
<1>2. \A i \in DOMAIN calls : ~Attach(calls[i])
  BY <1>1 DEF OneAtATime
<1>3. ASSUME NEW i \in DOMAIN answers' PROVE ~Attach(answers'[i].call)
  <2>1. i \in Nat \ {0} /\ i + 1 \in DOMAIN answers /\ answers'[i] = answers[i + 1]
    BY <1>3, HearPlaces DEF TypeOK
  <2>2. i + 1 # 1
    BY <2>1
  <2> QED BY <1>1, <2>1, <2>2 DEF OneAtATime
<1> QED BY <1>2, <1>3

LEMMA OneStep ==
  ASSUME TypeOK, AttachesNamed, OneAtATime, [Next]_vars, ~crossed'
  PROVE  OneAtATime'
<1>1. ASSUME UNCHANGED <<thunks, calls, answers>>, \A t \in Attaches : Running(t)' => Running(t)
      PROVE  OneAtATime'
  BY <1>1 DEF OneAtATime, Active
<1>2. CASE UNCHANGED <<thunks, calls, answers, loads>>
  BY <1>1, <1>2 DEF Running
<1>3. CASE \E t \in Attaches : LoadThread(t)
  <2> PICK t \in Attaches : LoadThread(t)
    BY <1>3
  <2>1. Running(t) /\ \A u \in Attaches : u # t => loads'[u] = loads[u]
    BY DEF Running, TypeOK, LoadThread, LoadBegins, LoadFinds, LoadReads, LoadChecks,
       LoadCompletes, LoadFails
  <2>2. UNCHANGED <<thunks, calls, answers>>
    BY DEF LoadThread, LoadBegins, LoadFinds, LoadReads, LoadChecks, LoadCompletes, LoadFails,
       store
  <2> QED BY <1>1, <2>1, <2>2 DEF Running
<1>4. CASE MainThread /\ ~UNCHANGED <<calls, answers>>
  <2> PICK ok \in BOOLEAN, state \in Lifecycle : calls # <<>> /\ Returns(ok, state)
    BY <1>4, MainReturns
  <2>1. UNCHANGED <<thunks, loads>>
    BY <1>4 DEF MainThread, GetsLifecycle, AttachBegins, AttachFinds, AttachMisses, AttachResets,
       AttachFails, AttachCompletes, SessionOpens, SessionFails, transit, store
  <2>2. /\ 1 \in DOMAIN calls /\ calls[1] = Head(calls)
        /\ \A i \in DOMAIN calls' :
             i \in Nat \ {0} /\ i + 1 \in DOMAIN calls /\ calls'[i] = calls[i + 1]
        /\ Len(answers) + 1 \notin DOMAIN answers
        /\ \A i \in DOMAIN answers' :
             \/ i \in DOMAIN answers /\ answers'[i] = answers[i]
             \/ i = Len(answers) + 1 /\ answers'[i].call = Head(calls)
    BY ReturnPlaces DEF TypeOK
  <2>3. OneAttach
    BY OneAtATimeParts
  <2>4. \A i, j \in DOMAIN calls' : Attach(calls'[i]) /\ Attach(calls'[j]) => i = j
    BY <2>2, <2>3 DEF OneAttach
  <2>5. \A i, j \in DOMAIN answers' :
          Attach(answers'[i].call) /\ Attach(answers'[j].call) => i = j
    BY <2>2, <2>3 DEF OneAttach
  <2>6. \A i \in DOMAIN calls', j \in DOMAIN answers' :
          ~(Attach(calls'[i]) /\ Attach(answers'[j].call))
    <3> SUFFICES ASSUME NEW i \in DOMAIN calls', NEW j \in DOMAIN answers',
                        Attach(calls'[i]), Attach(answers'[j].call)
                 PROVE  FALSE
      OBVIOUS
    <3>1. i + 1 \in DOMAIN calls /\ Attach(calls[i + 1]) /\ i + 1 # 1
      BY <2>2
    <3>2. CASE j \in DOMAIN answers /\ answers'[j] = answers[j]
      BY <2>3, <3>1, <3>2 DEF OneAttach
    <3>3. CASE answers'[j].call = calls[1]
      BY <2>2, <2>3, <3>1, <3>3 DEF OneAttach
    <3> QED BY <2>2, <3>2, <3>3
  <2>7. /\ \A i \in DOMAIN calls' : Attach(calls'[i]) => thunks'[calls'[i].thunk].at = "attach"
        /\ \A i \in DOMAIN answers' :
             Attach(answers'[i].call) => thunks'[answers'[i].call.thunk].at = "attach"
    BY <2>1, <2>2, <2>3 DEF OneAttach
  <2> QED BY <2>1, <2>4, <2>5, <2>6, <2>7 DEF OneAtATime, Active, Running
<1>5. ASSUME NEW t \in Attaches, NEW p \in Processes, SelectProcess(t, p)
      PROVE  OneAtATime'
  <2> DEFINE c == Call("attach", t, p)
  <2>1. \A u \in Attaches : ~Active(u)
    BY <1>5 DEF SelectProcess, TypeOK
  <2>2. NoAttach
    BY <2>1, NoAttachOf DEF Active, Ended
  <2>3. c \in Calls /\ c.thunk = t
    BY CallTypes DEF Call
  <2>4. calls' = Append(calls, c) /\ UNCHANGED <<answers, loads>>
    BY <1>5 DEF SelectProcess
  <2>5. thunks'[t].at = "attach" /\ \A u \in Attaches : u # t => thunks'[u] = thunks[u]
    BY <1>5 DEF SelectProcess, TypeOK
  <2> HIDE DEF c
  <2>6. \A i \in DOMAIN calls' : Attach(calls'[i]) => i = Len(calls) + 1 /\ calls'[i] = c
    BY <2>2, <2>3, <2>4, AskPlaces DEF TypeOK, NoAttach
  <2>7. OneAttach'
    BY <2>2, <2>3, <2>4, <2>5, <2>6 DEF OneAttach, NoAttach
  <2>8. \A u \in Attaches : ~Running(u)
    BY <2>1 DEF OneAtATime, Active, Ended
  <2>9. Alone' /\ LoadsAwaited'
    BY <2>1, <2>4, <2>5, <2>8 DEF Alone, LoadsAwaited, Active, Running
  <2> QED BY <2>7, <2>9, OneAtATimeParts DEF OneAtATime, Alone, OneAttach, LoadsAwaited
<1>6. CASE Refresh
  <2>1. ~Attach(Call("lifecycle", Focus, NoProcess))
    BY DEF Call, Attach
  <2>2. \A i \in DOMAIN calls' : Attach(calls'[i]) => i \in DOMAIN calls /\ calls'[i] = calls[i]
    BY <1>6, <2>1, CallTypes, AskPlaces DEF TypeOK, Refresh
  <2>3. UNCHANGED <<answers, thunks, loads>>
    BY <1>6 DEF Refresh, store
  <2> QED BY <2>2, <2>3 DEF OneAtATime, Active, Running
<1>7. CASE FocusAnswered
  <2>1. \A i \in DOMAIN answers' :
          i \in Nat \ {0} /\ i + 1 \in DOMAIN answers /\ answers'[i] = answers[i + 1]
    BY <1>7, HearPlaces DEF TypeOK, FocusAnswered, Awaited
  <2>2. UNCHANGED <<calls, thunks, loads>>
    BY <1>7 DEF FocusAnswered
  <2> QED BY <2>1, <2>2 DEF OneAtATime, Active, Running
\* A thunk that goes on, or ends, leaves no attach behind.
<1>8. ASSUME NEW t \in Attaches, NEW a, Active(t), thunks' = [thunks EXCEPT ![t].at = a],
             NoAttach', LoadsAwaited'
      PROVE  OneAtATime'
  <2>1. \A u \in Attaches : Active(u)' => Active(u)
    BY <1>8 DEF TypeOK, Active
  <2> QED BY <1>8, <2>1 DEF OneAtATime, NoAttach, LoadsAwaited
<1>9. CASE \E t \in Attaches : AttachAnswered(t)
  <2> PICK t \in Attaches : AttachAnswered(t)
    BY <1>9
  <2>1. thunks[t].at = "attach" /\ Attach(Head(answers).call)
    BY ThunkAwaits DEF AttachAnswered, Awaited, Attach
  <2>2. /\ \A i \in DOMAIN calls : ~Attach(calls[i])
        /\ \A i \in DOMAIN answers' : ~Attach(answers'[i].call)
    BY <2>1, NoAttachAfterAnswer DEF AttachAnswered, Awaited
  <2>3. UNCHANGED calls \/ calls' = Append(calls, Call("lifecycle", t, NoProcess))
    BY DEF AttachAnswered
  <2>4. ~Attach(Call("lifecycle", t, NoProcess))
    BY DEF Call, Attach
  <2>5. NoAttach'
    BY <2>2, <2>3, <2>4, CallTypes, AskPlaces DEF TypeOK, NoAttach
  <2>6. \A u \in Attaches : ~Running(u)
    BY <2>1, NoLoadBeside
  <2>7. LoadsAwaited'
    BY <2>6 DEF AttachAnswered, Running, LoadsAwaited
  <2>8. \E a : thunks' = [thunks EXCEPT ![t].at = a]
    BY DEF AttachAnswered, Rejects
  <2> QED BY <1>8, <2>1, <2>5, <2>7, <2>8 DEF Active, Ended
<1>10. ASSUME NEW t \in Attaches, RefreshAnswered(t) \/ LoadAnswered(t) \/ LoadSettles(t)
       PROVE  OneAtATime'
  <2>1. thunks[t].at \in {"refresh", "load", "settle"}
    BY <1>10, ThunkAwaits DEF RefreshAnswered, LoadAnswered, LoadSettles
  <2>2. Active(t) /\ NoAttach
    BY <2>1, NoAttachBeside DEF Active, Ended
  <2>3. /\ UNCHANGED calls \/ calls' = Append(calls, Call("lifecycle", t, NoProcess))
        /\ UNCHANGED answers \/ (answers # <<>> /\ answers' = Tail(answers))
    <3>1. RefreshAnswered(t) => UNCHANGED calls /\ answers # <<>> /\ answers' = Tail(answers)
      BY DEF RefreshAnswered, Awaited
    <3>2. LoadSettles(t) => UNCHANGED calls /\ answers # <<>> /\ answers' = Tail(answers)
      BY DEF LoadSettles, Awaited
    <3>3. LoadAnswered(t) => /\ calls' = Append(calls, Call("lifecycle", t, NoProcess))
                             /\ UNCHANGED answers
      BY DEF LoadAnswered
    <3> QED BY <1>10, <3>1, <3>2, <3>3
  <2>4. NoAttach'
    BY <2>2, <2>3, NoAttachStays DEF Callers
  <2>5. \E a : thunks' = [thunks EXCEPT ![t].at = a]
    BY <1>10 DEF RefreshAnswered, LoadAnswered, LoadSettles, Rejects
  <2>6. \A u \in Attaches : u # t => ~Running(u) /\ loads'[u] = loads[u]
    BY <1>10, <2>2 DEF OneAtATime, Active, Ended, TypeOK, RefreshAnswered, LoadAnswered,
       LoadSettles
  <2>7. CASE RefreshAnswered(t)
    <3>1. thunks'[t].at = "load"
      BY <2>7 DEF RefreshAnswered, TypeOK, Thunk
    <3> QED BY <1>8, <2>2, <2>4, <2>5, <2>6, <3>1 DEF LoadsAwaited, Running
  <2>8. CASE LoadAnswered(t) \/ LoadSettles(t)
    <3>1. ~Running(t) /\ UNCHANGED loads
      BY <2>8, ThunkAwaits DEF LoadAnswered, LoadSettles, OneAtATime, Running
    <3> QED BY <1>8, <2>2, <2>4, <2>5, <2>6, <3>1 DEF LoadsAwaited, Running
  <2> QED BY <1>10, <2>7, <2>8
<1> QED
  BY <1>2, <1>3, <1>4, <1>5, <1>6, <1>7, <1>9, <1>10 DEF Next, User, MainThread, GetsLifecycle,
     AttachBegins, AttachFinds, AttachMisses, AttachResets, AttachFails, AttachCompletes,
     SessionOpens, SessionFails, PageHears, RequestThread, RequestStarts, RequestSucceeds,
     RequestFails, RequestFields, FieldsAnswered, transit, store, vars

-----------------------------------------------------------------------------
\* A snapshot is that of the attached process.

Fits ==
  lifecycle.snapshot => lifecycle.process # NoProcess /\ metadata = lifecycle.process

LEMMA LoadStep ==
  ASSUME TypeOK, AttachesNamed, AttachInOrder, OneAtATime, LoadsAttached, Fits,
         [Next]_vars, ~crossed'
  PROVE  LoadsAttached' /\ Fits'
<1>1. ASSUME UNCHANGED <<lifecycle, metadata, attaching, loads>>
      PROVE  LoadsAttached' /\ Fits'
  BY <1>1 DEF LoadsAttached, Fits
\* While an attach is under way no load is, and the lifecycle has no snapshot.
<1>2. ASSUME Calling("attach"), UNCHANGED loads, ~lifecycle'.snapshot
      PROVE  LoadsAttached' /\ Fits'
  <2>1. \A t \in Attaches : loads'[t].at \notin {"reading", "found", "checked"}
    BY <1>2, NoLoadInAttach DEF Running
  <2> QED BY <1>2, <2>1 DEF LoadsAttached, Fits
<1>3. CASE AttachBegins \/ AttachFinds \/ AttachMisses \/ AttachResets \/ AttachFails
             \/ AttachCompletes \/ SessionOpens \/ SessionFails
  <2>1. Calling("attach") /\ UNCHANGED loads
    BY <1>3 DEF AttachBegins, AttachFinds, AttachMisses, AttachResets, AttachFails,
       AttachCompletes, SessionOpens, SessionFails, AttachStep, transit
  <2>2. CASE AttachBegins \/ AttachFails \/ AttachCompletes
    <3>1. ~Attaching.snapshot /\ ~Unattached("detached", "error").snapshot
      BY DEF Attaching, Unattached
    <3>2. ~AttachedTo(Head(calls).process).snapshot
      BY DEF AttachedTo
    <3> QED BY <1>2, <2>1, <2>2, <3>1, <3>2 DEF AttachBegins, AttachFails, AttachCompletes
  <2>3. CASE AttachFinds \/ AttachMisses \/ AttachResets \/ SessionOpens \/ SessionFails
    <3>1. CASE attaching # "idle"
      <4>1. ~lifecycle'.snapshot
        BY <2>3, <3>1, FaultedStays DEF LoadsAttached, TypeOK, AttachFinds, AttachMisses,
           AttachResets, SessionOpens, SessionFails
      <4> QED BY <1>2, <2>1, <4>1
    <3>2. attaching # "idle"
      BY <2>3 DEF AttachFinds, AttachMisses, AttachResets, SessionOpens, SessionFails, AttachStep
    <3> QED BY <3>1, <3>2
  <2> QED BY <1>3, <2>2, <2>3
<1>4. CASE \E k \in Requests : RequestSucceeds(k) \/ RequestFails(k)
  <2>1. lifecycle'.process = lifecycle.process /\ lifecycle'.snapshot = lifecycle.snapshot
    BY <1>4, AliveStays, FaultedStays DEF TypeOK, RequestSucceeds, RequestFails
  <2>2. UNCHANGED <<metadata, attaching, loads>>
    BY <1>4 DEF RequestSucceeds, RequestFails
  <2> QED BY <2>1, <2>2 DEF LoadsAttached, Fits
<1>5. ASSUME NEW t \in Attaches, RefreshAnswered(t)
      PROVE  LoadsAttached' /\ Fits'
  <2>1. /\ loads'[t].at = "asked"
        /\ \A u \in Attaches : u # t => loads'[u] = loads[u]
        /\ UNCHANGED <<lifecycle, metadata, attaching>>
    BY <1>5 DEF RefreshAnswered, TypeOK, Load, backend
  <2> QED BY <2>1 DEF LoadsAttached, Fits
\* The only load there is.
<1>6. ASSUME NEW t \in Attaches, LoadThread(t)
      PROVE  LoadsAttached' /\ Fits'
  <2>1. Running(t) /\ attaching' = attaching
    BY <1>6 DEF Running, LoadThread, LoadBegins, LoadFinds, LoadReads, LoadChecks,
       LoadCompletes, LoadFails, backend
  <2>2. \A u \in Attaches : u # t => ~Running(u) /\ loads'[u] = loads[u]
    BY <1>6, <2>1 DEF OneAtATime, Active, Ended, TypeOK, LoadThread, LoadBegins, LoadFinds,
       LoadReads, LoadChecks, LoadCompletes, LoadFails
  <2>3. attaching = "idle"
    BY <2>1, NoLoadInAttach DEF AttachInOrder
  <2>4. ASSUME /\ loads'[t].at \in {"reading", "found", "checked"} =>
                    loads'[t].process = lifecycle'.process /\ lifecycle'.process # NoProcess
               /\ loads'[t].at \in {"found", "checked"} => metadata' = loads'[t].process
               /\ Fits'
        PROVE  LoadsAttached' /\ Fits'
    BY <2>1, <2>2, <2>3, <2>4 DEF LoadsAttached, Running
  <2>5. CASE LoadBegins(t)
    <3>1. ~lifecycle'.snapshot /\ loads'[t].at = "begun"
      BY <2>5, LoadingStays DEF LoadBegins, TypeOK, Load
    <3> QED BY <2>4, <3>1 DEF Fits
  <2>6. CASE LoadFinds(t)
    <3>1. UNCHANGED <<lifecycle, metadata>> /\ loads'[t].process = lifecycle.process
      BY <2>6 DEF LoadFinds, backend, TypeOK, Load
    <3>2. /\ loads'[t].at \in {"reading", "found", "checked"} => lifecycle.process # NoProcess
          /\ loads'[t].at \in {"found", "checked"} => metadata = lifecycle.process
      BY <2>6 DEF LoadFinds, TypeOK, Load
    <3> QED BY <2>4, <3>1, <3>2 DEF Fits
  <2>7. CASE LoadReads(t)
    <3>1. loads[t].process = lifecycle.process /\ lifecycle.process # NoProcess
      BY <2>7 DEF LoadsAttached, LoadReads
    <3>2. CASE metadata' = loads[t].process
      <4>1. loads'[t].process = loads[t].process /\ UNCHANGED lifecycle
        BY <2>7 DEF LoadReads, TypeOK, Load
      <4> QED BY <2>4, <3>1, <3>2, <4>1 DEF Fits
    <3>3. CASE loads' = [loads EXCEPT ![t].at = "failing"] /\ UNCHANGED metadata
      <4>1. loads'[t].at = "failing" /\ UNCHANGED lifecycle
        BY <2>7, <3>3 DEF LoadReads, TypeOK, Load
      <4> QED BY <2>4, <3>3, <4>1 DEF Fits
    <3> QED BY <2>7, <3>2, <3>3 DEF LoadReads
  <2>8. CASE LoadChecks(t)
    <3>1. loads'[t].process = loads[t].process /\ UNCHANGED <<lifecycle, metadata>>
      BY <2>8 DEF LoadChecks, backend, TypeOK, Load
    <3>2. /\ loads[t].process = lifecycle.process /\ lifecycle.process # NoProcess
          /\ metadata = loads[t].process
      BY <2>8 DEF LoadsAttached, LoadChecks
    <3> QED BY <2>4, <3>1, <3>2 DEF Fits
  <2>9. CASE LoadCompletes(t)
    <3>1. /\ loads[t].process = lifecycle.process /\ lifecycle.process # NoProcess
          /\ metadata = loads[t].process
      BY <2>9 DEF LoadsAttached, LoadCompletes
    <3>2. lifecycle'.process = lifecycle.process /\ UNCHANGED metadata
      BY <2>9, ReadyStays DEF LoadCompletes, TypeOK, Load
    <3>3. loads'[t].at = "loaded"
      BY <2>9 DEF LoadCompletes, TypeOK, Load
    <3> QED BY <2>4, <3>1, <3>2, <3>3 DEF Fits
  <2>10. CASE LoadFails(t)
    <3>1. lifecycle'.process = lifecycle.process /\ (lifecycle'.snapshot => lifecycle.snapshot)
      BY <2>10, LoadFailedStays DEF LoadFails, TypeOK
    <3>2. loads'[t].at = "failed" /\ UNCHANGED metadata
      BY <2>10 DEF LoadFails, TypeOK, Load
    <3> QED BY <2>4, <3>1, <3>2 DEF Fits
  <2> QED BY <1>6, <2>5, <2>6, <2>7, <2>8, <2>9, <2>10 DEF LoadThread
<1> QED
  BY <1>1, <1>3, <1>4, <1>5, <1>6 DEF Next, User, MainThread, GetsLifecycle, SelectProcess,
     Refresh, RequestFields, FieldsAnswered, PageHears, FocusAnswered, AttachAnswered,
     LoadAnswered, LoadSettles, RequestThread, RequestStarts, backend, vars

-----------------------------------------------------------------------------
\* Together.

LEMMA InitInv == Init => WorkspaceInv
<1> SUFFICES ASSUME Init PROVE WorkspaceInv
  OBVIOUS
<1>1. TypeOK
  <2>1. NoLoad \in Load /\ NoRequest \in Request /\ NoThunk \in Thunk /\ NoAnalysis \in Analysis
    BY DEF NoLoad, Load, NoRequest, Request, NoThunk, Thunk, NoAnalysis, Analysis, SomeProcess
  <2>2. calls \in Seq(Calls) /\ answers \in Seq(Answers)
    BY DEF Init
  <2>3. Detached \in Lifecycle
    BY DEF Detached, Unattached, Lifecycle, SomeProcess
  <2> QED BY <2>1, <2>2, <2>3 DEF Init, TypeOK, SomeProcess
<1>2. AttachesNamed /\ OneAtATime
  BY DEF Init, AttachesNamed, OneAtATime, Active, Ended, NoThunk, Running, NoLoad
<1>3. AttachInOrder /\ SessionOfProcess /\ LoadingIsAsked
  BY DEF Init, AttachInOrder, SessionOfProcess, LoadingIsAsked
<1>4. LoadsAttached /\ SnapshotOfProcess
  BY DEF Init, LoadsAttached, SnapshotOfProcess, NoLoad, Detached, Unattached
<1> QED BY <1>1, <1>2, <1>3, <1>4 DEF WorkspaceInv

LEMMA CrossedStays ==
  ASSUME [Next]_vars, ~crossed'
  PROVE  ~crossed
  BY DEF Next, User, SelectProcess, Refresh, RequestFields, MainThread, GetsLifecycle,
     AttachBegins, AttachFinds, AttachMisses, AttachResets, AttachFails, AttachCompletes,
     SessionOpens, SessionFails, PageHears, FocusAnswered, AttachAnswered, RefreshAnswered,
     LoadSettles, LoadThread, LoadBegins, LoadFinds, LoadReads, LoadChecks, LoadCompletes,
     LoadFails, LoadAnswered, RequestThread, RequestStarts, RequestSucceeds, RequestFails,
     FieldsAnswered, vars

LEMMA NextInv ==
  ASSUME WorkspaceInv, [Next]_vars
  PROVE  WorkspaceInv'
<1>1. TypeOK /\ AttachesNamed /\ AttachInOrder /\ SessionOfProcess /\ LoadingIsAsked
  BY DEF WorkspaceInv
<1>2. TypeOK'
  BY <1>1, MainThreadTypes, TypeStep
<1>3. AttachesNamed' /\ AttachInOrder' /\ SessionOfProcess' /\ LoadingIsAsked'
  BY <1>1, NamedStep, OrderStep, AskedStep
<1>4. ASSUME ~crossed' PROVE OneAtATime' /\ LoadsAttached' /\ SnapshotOfProcess'
  <2>1. OneAtATime /\ LoadsAttached /\ Fits
    BY <1>4, CrossedStays DEF WorkspaceInv, SnapshotOfProcess, Fits
  <2>2. OneAtATime'
    BY <1>1, <1>4, <2>1, OneStep
  <2>3. LoadsAttached' /\ Fits'
    BY <1>1, <1>4, <2>1, LoadStep
  <2> QED BY <2>2, <2>3 DEF SnapshotOfProcess, Fits
<1> QED BY <1>2, <1>3, <1>4 DEF WorkspaceInv

\* Every reachable state satisfies the inductive invariant.
THEOREM WorkspaceCorrect == Spec => []WorkspaceInv
<1>1. WorkspaceInv /\ [Next]_vars => WorkspaceInv'
  BY NextInv
<1> QED BY InitInv, <1>1, PTL DEF Spec

\* Lifecycle, queues and store keep their types, for every set of games and every
\* number of attaches, requests and refreshes.
THEOREM WorkspaceTypeCorrect == Spec => []TypeOK
<1>1. WorkspaceInv => TypeOK
  BY DEF WorkspaceInv
<1> QED BY WorkspaceCorrect, <1>1, PTL

\* Between two attaches the runtime session is that of the attached process or there
\* is none, whatever operations of an earlier attachment still run.
THEOREM SessionAlwaysOfProcess == Spec => []SessionOfProcess
<1>1. WorkspaceInv => SessionOfProcess
  BY DEF WorkspaceInv
<1> QED BY WorkspaceCorrect, <1>1, PTL

\* Unless a process was selected while an attach was under way, a snapshot the
\* lifecycle speaks of is the metadata of the attached process.
THEOREM SnapshotAlwaysOfProcess == Spec => []SnapshotOfProcess
<1>1. WorkspaceInv => SnapshotOfProcess
  BY DEF WorkspaceInv, SnapshotOfProcess
<1> QED BY WorkspaceCorrect, <1>1, PTL

\* A flag that refuses a second call is set only while a call is under way that will
\* clear it.
THEOREM LoadingAlwaysAsked == Spec => []LoadingIsAsked
<1>1. WorkspaceInv => LoadingIsAsked
  BY DEF WorkspaceInv
<1> QED BY WorkspaceCorrect, <1>1, PTL

-----------------------------------------------------------------------------
\* What the page and the backend agree on.

\* Calls in the order in which they are heard: those that are answered, then those that
\* wait for the main thread, which takes them in turn.
Heard(a) == [i \in 1..Len(a) |-> a[i].call]
Pipe == Heard(answers) \o calls

Owned(call) == call.thunk # Focus
Stage(t) == thunks[t].at

\* What a thunk awaits is the one call it has made; the lifecycle it asks for after its
\* load is the last call of all, because while a load is under way nothing else is asked.
OwnedFits(i) ==
  LET c == Pipe[i]
  IN /\ Stage(c.thunk) \in {"attach", "refresh", "settle"}
     /\ Attach(c) <=> Stage(c.thunk) = "attach"
     /\ Attach(c) => c.process = thunks[c.thunk].process
     /\ Stage(c.thunk) = "settle" => i = Len(Pipe)

PipeInv ==
  /\ \A i \in 1..Len(Pipe) : Owned(Pipe[i]) => OwnedFits(i)
  /\ \A i, j \in 1..Len(Pipe) : Owned(Pipe[i]) /\ Owned(Pipe[j]) => i = j

ThunksInv ==
  /\ \A t, u \in Attaches : t < u /\ Stage(u) # "none" => Stage(t) \in {"done", "rejected"}
  /\ \A t \in Attaches : Stage(t) # "none" => thunks[t].process \in Processes
  /\ \A t \in Attaches : Stage(t) \in {"load", "settle"} => loading

\* No attach is called after the call at i.
Behind(i) == \A j \in i..Len(Pipe) : ~Attach(Pipe[j])

\* What the answer of an attach says of the process is still so, and so is the
\* lifecycle of an answer that no attach is called after.
AnswersInv ==
  /\ \A i \in 1..Len(answers) : Attach(answers[i].call) =>
       lifecycle.process = IF answers[i].ok THEN answers[i].call.process ELSE NoProcess
  /\ \A i \in 1..Len(answers) : Behind(i) => answers[i].state.process = lifecycle.process

\* What is agreed on, by how far the thunk has come.  A thunk is rejected with nothing
\* else asked, or with the lifecycle of no process.
StageFits(t) ==
  LET p == thunks[t].process
  IN /\ Stage(t) # "done" => analysis = NoAnalysis
     /\ Stage(t) \in {"refresh", "load", "settle", "done"} =>
          lifecycle.process = p /\ page.process = p
     /\ Stage(t) \in {"load", "settle", "done"} /\ loads[t].at = "loaded" =>
          loads[t].process = p /\ metadata = p
     /\ Stage(t) = "done" =>
          loads[t].at = "loaded" /\ analysis = [label |-> p, content |-> p]
     /\ Stage(t) = "rejected" =>
          page.process = NoProcess /\ (Pipe # <<>> => lifecycle.process = NoProcess)

StageInv == \A t \in Attaches : Latest(t) => StageFits(t)

AgreeInv == PipeInv /\ ThunksInv /\ AnswersInv /\ StageInv

-----------------------------------------------------------------------------
\* The pipe: the main thread leaves it as it is, asking appends, hearing takes the first.

LEMMA HeardPlaces ==
  ASSUME NEW a \in Seq(Answers)
  PROVE  /\ Heard(a) \in Seq(Calls) /\ Len(Heard(a)) = Len(a)
         /\ \A i \in 1..Len(a) : Heard(a)[i] = a[i].call
<1>1. \A e \in Answers : e.call \in Calls
  BY DEF Answers
<1>2. \A i \in 1..Len(a) : a[i].call \in Calls
  BY <1>1
<1> QED BY <1>2 DEF Heard

LEMMA PipePlaces ==
  ASSUME NEW a \in Seq(Answers), NEW c \in Seq(Calls)
  PROVE  /\ Heard(a) \o c \in Seq(Calls) /\ Len(Heard(a) \o c) = Len(a) + Len(c)
         /\ \A i \in 1..Len(a) : (Heard(a) \o c)[i] = a[i].call
         /\ \A i \in 1..Len(c) : (Heard(a) \o c)[Len(a) + i] = c[i]
<1> PICK h : h = Heard(a)
  OBVIOUS
<1>1. h \in Seq(Calls) /\ Len(h) = Len(a) /\ \A i \in 1..Len(a) : h[i] = a[i].call
  BY HeardPlaces
<1>2. /\ h \o c \in Seq(Calls) /\ Len(h \o c) = Len(a) + Len(c)
      /\ \A i \in 1..Len(a) : (h \o c)[i] = h[i]
      /\ \A i \in 1..Len(c) : (h \o c)[Len(a) + i] = c[i]
  BY <1>1
<1> QED BY <1>1, <1>2

LEMMA HeardAppends ==
  ASSUME NEW a \in Seq(Answers), NEW e \in Answers
  PROVE  Heard(Append(a, e)) = Append(Heard(a), e.call)
<1> PICK b : b = Append(a, e)
  OBVIOUS
<1>1. /\ b \in Seq(Answers) /\ Len(b) = Len(a) + 1 /\ Len(a) \in Nat
      /\ \A i \in 1..Len(a) : b[i] = a[i]
      /\ b[Len(a) + 1] = e
  OBVIOUS
<1> PICK x : x = e.call
  OBVIOUS
<1>2. x \in Calls
  BY DEF Answers
<1> PICK g : g = Heard(a)
  OBVIOUS
<1> PICK h : h = Heard(b)
  OBVIOUS
<1>3. g \in Seq(Calls) /\ Len(g) = Len(a) /\ \A i \in 1..Len(a) : g[i] = a[i].call
  BY HeardPlaces
<1>4. h \in Seq(Calls) /\ Len(h) = Len(b) /\ \A i \in 1..Len(b) : h[i] = b[i].call
  BY <1>1, HeardPlaces
<1>5. /\ Append(g, x) \in Seq(Calls) /\ Len(Append(g, x)) = Len(a) + 1
      /\ \A i \in 1..Len(a) : Append(g, x)[i] = g[i]
      /\ Append(g, x)[Len(a) + 1] = x
  BY <1>2, <1>3
<1>6. \A i \in 1..Len(h) : h[i] = Append(g, x)[i]
  BY <1>1, <1>3, <1>4, <1>5
<1>7. h = Append(g, x)
  BY <1>1, <1>4, <1>5, <1>6, SeqEqual
<1> QED BY <1>7

LEMMA HeardTails ==
  ASSUME NEW a \in Seq(Answers), a # <<>>
  PROVE  Heard(a) # <<>> /\ Heard(Tail(a)) = Tail(Heard(a)) /\ Head(Heard(a)) = Head(a).call
<1> PICK b : b = Tail(a)
  OBVIOUS
<1>1. /\ b \in Seq(Answers) /\ Len(b) = Len(a) - 1 /\ Len(a) \in Nat \ {0}
      /\ \A i \in 1..Len(b) : b[i] = a[i + 1]
      /\ Head(a) = a[1]
  OBVIOUS
<1> PICK g : g = Heard(a)
  OBVIOUS
<1> PICK h : h = Heard(b)
  OBVIOUS
<1>2. g \in Seq(Calls) /\ Len(g) = Len(a) /\ \A i \in 1..Len(a) : g[i] = a[i].call
  BY HeardPlaces
<1>3. h \in Seq(Calls) /\ Len(h) = Len(b) /\ \A i \in 1..Len(b) : h[i] = b[i].call
  BY <1>1, HeardPlaces
<1>4. /\ g # <<>> /\ Tail(g) \in Seq(Calls) /\ Len(Tail(g)) = Len(a) - 1
      /\ \A i \in 1..Len(b) : Tail(g)[i] = g[i + 1]
      /\ Head(g) = g[1]
  BY <1>1, <1>2
<1>5. \A i \in 1..Len(h) : h[i] = Tail(g)[i]
  BY <1>1, <1>2, <1>3, <1>4
<1>6. h = Tail(g)
  BY <1>1, <1>3, <1>4, <1>5, SeqEqual
<1>7. Head(g) = Head(a).call
  BY <1>1, <1>2, <1>4
<1> QED BY <1>4, <1>6, <1>7

LEMMA PipeReturns ==
  ASSUME TypeOK, calls # <<>>, NEW ok \in BOOLEAN, NEW state \in Lifecycle, Returns(ok, state)
  PROVE  /\ Pipe' = Pipe
         /\ Len(answers') = Len(answers) + 1 /\ Len(answers) \in Nat
         /\ \A i \in 1..Len(answers) : answers'[i] = answers[i]
         /\ answers'[Len(answers) + 1] = Answer(Head(calls), ok, state)
<1>1. calls \in Seq(Calls) /\ answers \in Seq(Answers)
  BY DEF TypeOK
<1> PICK e : e = Answer(Head(calls), ok, state)
  OBVIOUS
<1> PICK x : x = <<e.call>>
  OBVIOUS
<1>2. calls' = Tail(calls) /\ answers' = Append(answers, e)
  BY DEF Returns
<1>3. Head(calls) \in Calls /\ Tail(calls) \in Seq(Calls)
  BY <1>1
<1>4. e \in Answers /\ e.call = Head(calls)
  BY <1>3 DEF Answer, Answers
<1> PICK h : h = Heard(answers)
  OBVIOUS
<1>5. h \in Seq(Calls)
  BY <1>1, HeardPlaces
<1>6. Heard(answers') = Append(h, e.call)
  BY <1>1, <1>2, <1>4, HeardAppends
<1>7. Append(h, e.call) = h \o x /\ x \in Seq(Calls)
  BY <1>3, <1>4, <1>5
<1>8. x \o Tail(calls) = calls
  BY <1>1, <1>3, <1>4
<1>9. (h \o x) \o Tail(calls) = h \o (x \o Tail(calls))
  BY <1>3, <1>5, <1>7, ConcatAssociative
<1>10. Pipe' = Pipe
  BY <1>2, <1>6, <1>7, <1>8, <1>9 DEF Pipe
<1>11. /\ Len(answers') = Len(answers) + 1 /\ Len(answers) \in Nat
       /\ \A i \in 1..Len(answers) : answers'[i] = answers[i]
       /\ answers'[Len(answers) + 1] = e
  BY <1>1, <1>2, <1>4
<1> QED BY <1>10, <1>11

LEMMA PipeAsks ==
  ASSUME TypeOK, NEW c \in Calls, calls' = Append(calls, c), UNCHANGED answers
  PROVE  /\ Len(Pipe') = Len(Pipe) + 1 /\ Len(Pipe) \in Nat
         /\ \A i \in 1..Len(Pipe) : Pipe'[i] = Pipe[i]
         /\ Pipe'[Len(Pipe) + 1] = c
<1>1. calls \in Seq(Calls) /\ answers \in Seq(Answers)
  BY DEF TypeOK
<1> PICK h : h = Heard(answers)
  OBVIOUS
<1> PICK x : x = <<c>>
  OBVIOUS
<1>2. h \in Seq(Calls) /\ x \in Seq(Calls) /\ Pipe = h \o calls /\ Pipe' = h \o calls'
  BY <1>1, HeardPlaces DEF Pipe
<1>3. calls' = calls \o x
  BY <1>1
<1>4. Pipe' = Pipe \o x
  BY <1>1, <1>2, <1>3, ConcatAssociative
<1>5. Pipe \in Seq(Calls)
  BY <1>1, <1>2
<1> HIDE DEF Pipe
<1>6. Pipe' = Append(Pipe, c)
  BY <1>4, <1>5
<1> QED BY <1>5, <1>6

LEMMA PipeHears ==
  ASSUME TypeOK, answers # <<>>, answers' = Tail(answers),
         \/ UNCHANGED calls
         \/ \E c \in Calls : calls' = Append(calls, c)
  PROVE  /\ Len(Pipe) \in Nat \ {0} /\ Pipe[1] = Head(answers).call
         /\ \A i \in 1..Len(Pipe) - 1 : Pipe'[i] = Pipe[i + 1]
         /\ Len(Pipe') = Len(Pipe) - 1 + (Len(calls') - Len(calls))
         /\ calls' # calls => Len(Pipe') = Len(Pipe) /\ calls' = Append(calls, Pipe'[Len(Pipe)])
<1>1. calls \in Seq(Calls) /\ answers \in Seq(Answers)
  BY DEF TypeOK
<1> PICK h : h = Heard(answers)
  OBVIOUS
<1>2. /\ h \in Seq(Calls) /\ h # <<>> /\ Heard(answers') = Tail(h) /\ Head(h) = Head(answers).call
      /\ Pipe = h \o calls /\ Pipe' = Tail(h) \o calls'
  BY <1>1, HeardPlaces, HeardTails DEF Pipe
<1>3. /\ Tail(h) \in Seq(Calls) /\ Len(Tail(h)) = Len(h) - 1 /\ Len(h) \in Nat \ {0}
      /\ \A i \in 1..Len(h) - 1 : Tail(h)[i] = h[i + 1]
      /\ Head(h) = h[1]
  BY <1>2
<1> PICK g : g = Tail(h)
  OBVIOUS
<1> PICK p : p = h \o calls
  OBVIOUS
<1>4. /\ Len(p) = Len(h) + Len(calls) /\ Len(calls) \in Nat
      /\ \A i \in 1..Len(h) : p[i] = h[i]
      /\ \A i \in 1..Len(p) : i > Len(h) => p[i] = calls[i - Len(h)]
  BY <1>1, <1>2
<1>5. ASSUME NEW d \in Seq(Calls), Len(d) >= Len(calls),
             \A i \in 1..Len(calls) : d[i] = calls[i]
      PROVE  /\ Len(g \o d) = Len(h) - 1 + Len(d)
             /\ \A i \in 1..Len(p) - 1 : (g \o d)[i] = p[i + 1]
             /\ \A i \in 1..Len(d) : (g \o d)[Len(h) - 1 + i] = d[i]
  <2> PICK q : q = g \o d
    OBVIOUS
  <2>1. /\ Len(q) = Len(h) - 1 + Len(d) /\ Len(d) \in Nat
        /\ \A i \in 1..Len(h) - 1 : q[i] = g[i]
        /\ \A i \in 1..Len(q) : i > Len(h) - 1 => q[i] = d[i - (Len(h) - 1)]
    BY <1>3, <1>5
  <2>2. ASSUME NEW i \in 1..Len(p) - 1 PROVE q[i] = p[i + 1]
    <3>1. CASE i <= Len(h) - 1
      BY <1>3, <1>4, <2>1, <3>1
    <3>2. CASE i > Len(h) - 1
      <4>1. i \in 1..Len(q) /\ i + 1 \in 1..Len(p) /\ i + 1 > Len(h)
        BY <1>3, <1>4, <1>5, <2>1, <3>2
      <4>2. q[i] = d[i - (Len(h) - 1)] /\ p[i + 1] = calls[(i + 1) - Len(h)]
        BY <1>4, <2>1, <3>2, <4>1
      <4>3. i - (Len(h) - 1) = (i + 1) - Len(h) /\ (i + 1) - Len(h) \in 1..Len(calls)
        BY <1>3, <1>4, <4>1
      <4> QED BY <1>5, <4>2, <4>3
    <3>3. i <= Len(h) - 1 \/ i > Len(h) - 1
      BY <1>3, <1>4, <2>2
    <3> QED BY <3>1, <3>2, <3>3
  <2>3. \A i \in 1..Len(d) : q[Len(h) - 1 + i] = d[i]
    BY <1>3, <2>1
  <2> QED BY <2>1, <2>2, <2>3
<1> HIDE DEF Pipe
<1>6. Pipe = p /\ Pipe' = g \o calls' /\ p[1] = Head(answers).call
  BY <1>2, <1>3, <1>4
<1>7. CASE UNCHANGED calls
  <2>1. /\ Len(g \o calls) = Len(h) - 1 + Len(calls)
        /\ \A i \in 1..Len(p) - 1 : (g \o calls)[i] = p[i + 1]
    <3>1. Len(calls) >= Len(calls)
      BY <1>4
    <3> QED BY <1>1, <1>5, <3>1
  <2> QED BY <1>3, <1>4, <1>6, <1>7, <2>1
<1>8. ASSUME NEW c \in Calls, calls' = Append(calls, c)
      PROVE  /\ Len(Pipe) \in Nat \ {0} /\ Pipe[1] = Head(answers).call
             /\ \A i \in 1..Len(Pipe) - 1 : Pipe'[i] = Pipe[i + 1]
             /\ Len(Pipe') = Len(Pipe) - 1 + (Len(calls') - Len(calls))
             /\ Len(Pipe') = Len(Pipe) /\ calls' = Append(calls, Pipe'[Len(Pipe)])
  <2> PICK d : d = Append(calls, c)
    OBVIOUS
  <2>1. /\ d \in Seq(Calls) /\ Len(d) = Len(calls) + 1 /\ \A i \in 1..Len(calls) : d[i] = calls[i]
        /\ d[Len(d)] = c
    BY <1>1, <1>8
  <2>2. /\ Len(g \o d) = Len(h) - 1 + Len(d)
        /\ \A i \in 1..Len(p) - 1 : (g \o d)[i] = p[i + 1]
        /\ \A i \in 1..Len(d) : (g \o d)[Len(h) - 1 + i] = d[i]
    <3>1. Len(d) >= Len(calls)
      BY <1>4, <2>1
    <3> QED BY <1>5, <2>1, <3>1
  <2>3. Len(h) - 1 + Len(d) = Len(p) /\ Len(d) \in 1..Len(d) /\ calls' = d
    BY <1>3, <1>4, <1>8, <2>1
  <2>4. (g \o d)[Len(p)] = c
    BY <2>1, <2>2, <2>3
  <2> QED BY <1>3, <1>4, <1>6, <1>8, <2>1, <2>2, <2>3, <2>4
<1> QED BY <1>7, <1>8

-----------------------------------------------------------------------------
\* What a thunk has asked for.

LEMMA OwnersAttach ==
  ASSUME TypeOK, PipeInv
  PROVE  /\ \A i \in 1..Len(Pipe) : Pipe[i] \in Calls
         /\ \A i \in 1..Len(Pipe) : Owned(Pipe[i]) =>
              Pipe[i].thunk \in Attaches /\ Active(Pipe[i].thunk) /\ Stage(Pipe[i].thunk) # "load"
<1>1. Pipe \in Seq(Calls)
  BY PipePlaces DEF TypeOK, Pipe
<1>2. \A c \in Calls : Owned(c) => c.thunk \in Attaches
  BY DEF Calls, Callers, Owned
<1>3. \A i \in 1..Len(Pipe) : Pipe[i] \in Calls
  BY <1>1
<1> QED BY <1>2, <1>3 DEF PipeInv, OwnedFits, Stage, Active, Ended

\* With no thunk waiting for a call none is owned.
LEMMA NoneOwned ==
  ASSUME TypeOK, OneAtATime, PipeInv, NEW t \in Attaches, Active(t), Stage(t) = "load"
  PROVE  \A i \in 1..Len(Pipe) : ~Owned(Pipe[i])
<1>1. \A u \in Attaches : Active(u) => u = t
  BY DEF OneAtATime
<1> QED BY <1>1, OwnersAttach

\* A thunk that is active is the latest.
LEMMA ActiveIsLatest ==
  ASSUME ThunksInv, NEW t \in Attaches, Active(t)
  PROVE  Latest(t) /\ \A u \in Attaches : Latest(u) => u = t
<1>1. Stage(t) \notin {"none", "done", "rejected"}
  BY DEF Active, Ended, Stage
<1>2. \A u \in Attaches : u > t => Stage(u) = "none"
  BY <1>1 DEF ThunksInv, Attaches
<1>3. ASSUME NEW u \in Attaches, Latest(u) PROVE u = t
  <2>1. ~(u < t) /\ ~(u > t)
    BY <1>1, <1>2, <1>3 DEF Latest, Stage, Attaches
  <2> QED BY <2>1 DEF Attaches
<1> QED BY <1>1, <1>2, <1>3 DEF Latest, Stage

\* A thunk goes on, or ends.
LEMMA ThunkGoesOn ==
  ASSUME TypeOK, ThunksInv, NEW t \in Attaches, Active(t), NEW a, a # "none",
         thunks' = [thunks EXCEPT ![t].at = a]
  PROVE  /\ Stage(t)' = a /\ thunks'[t].process = thunks[t].process
         /\ \A u \in Attaches : u # t => thunks'[u] = thunks[u]
         /\ \A u \in Attaches : Latest(u)' => u = t
         /\ \A u, v \in Attaches : u < v /\ Stage(v)' # "none" => Stage(u)' \in {"done", "rejected"}
         /\ \A u \in Attaches : Stage(u)' # "none" => thunks'[u].process \in Processes
<1>1. /\ Stage(t)' = a /\ thunks'[t].process = thunks[t].process
      /\ \A u \in Attaches : u # t => thunks'[u] = thunks[u] /\ Stage(u)' = Stage(u)
  BY DEF TypeOK, Thunk, Stage
<1>2. Latest(t) /\ \A u \in Attaches : Latest(u) => u = t
  BY ActiveIsLatest
<1>3. Stage(t) \notin {"none", "done", "rejected"}
  BY DEF Active, Ended, Stage
<1>4. \A u \in Attaches : Stage(u)' = "none" <=> Stage(u) = "none"
  BY <1>1, <1>3
<1>5. \A u \in Attaches : Latest(u)' => Latest(u)
  BY <1>4 DEF Latest, Stage
<1>6. \A u, v \in Attaches : u < v /\ Stage(v)' # "none" => Stage(u) \in {"done", "rejected"}
  BY <1>4 DEF ThunksInv
<1>7. \A u, v \in Attaches : u < v /\ Stage(v)' # "none" => Stage(u)' \in {"done", "rejected"}
  BY <1>1, <1>3, <1>6
<1>8. \A u \in Attaches : Stage(u)' # "none" => thunks'[u].process \in Processes
  BY <1>1, <1>4 DEF ThunksInv
<1> QED BY <1>1, <1>2, <1>5, <1>7, <1>8

\* The main thread moves a call from one part of the pipe to the other.
LEMMA MainKeepsPipe ==
  ASSUME TypeOK, MainThread
  PROVE  Pipe' = Pipe /\ UNCHANGED <<thunks, loading, page, analysis, loads>>
<1>1. UNCHANGED <<thunks, loading, page, analysis, loads>>
  BY DEF MainThread, GetsLifecycle, AttachBegins, AttachFinds, AttachMisses, AttachResets,
     AttachFails, AttachCompletes, SessionOpens, SessionFails, transit, store
<1>2. CASE UNCHANGED <<calls, answers>>
  BY <1>1, <1>2 DEF Pipe
<1>3. CASE ~UNCHANGED <<calls, answers>>
  <2> PICK ok \in BOOLEAN, state \in Lifecycle : calls # <<>> /\ Returns(ok, state)
    BY <1>3, MainReturns
  <2> QED BY <1>1, PipeReturns
<1> QED BY <1>1, <1>2, <1>3

LEMMA HearFacts ==
  ASSUME NEW kind, NEW t \in Callers, NEW at, Awaited(kind, t, at)
  PROVE  /\ answers # <<>> /\ answers' = Tail(answers)
         /\ Head(answers).call.kind = kind /\ Head(answers).call.thunk = t
         /\ t # Focus => thunks[t].at = at
  BY DEF Awaited

LEMMA QueueStep ==
  ASSUME TypeOK, AttachesNamed, OneAtATime, PipeInv, ThunksInv, [Next]_vars, ~crossed'
  PROVE  PipeInv' /\ ThunksInv'
<1> HIDE DEF Pipe
<1>1. ASSUME Pipe' = Pipe, UNCHANGED <<thunks, loading>>
      PROVE  PipeInv' /\ ThunksInv'
  BY <1>1 DEF PipeInv, OwnedFits, ThunksInv, Stage
<1>2. CASE MainThread
  BY <1>1, <1>2, MainKeepsPipe
<1>3. CASE UNCHANGED <<calls, answers, thunks, loading>>
  BY <1>1, <1>3 DEF Pipe
<1>4. ASSUME NEW t \in Attaches, NEW p \in Processes, SelectProcess(t, p)
      PROVE  PipeInv' /\ ThunksInv'
  <2>1. \A u \in Attaches : ~Active(u)
    BY <1>4 DEF SelectProcess, TypeOK
  <2>2. \A i \in 1..Len(Pipe) : ~Owned(Pipe[i])
    BY <2>1, OwnersAttach
  <2> PICK c : c = Call("attach", t, p)
    OBVIOUS
  <2>3. c \in Calls /\ c.kind = "attach" /\ c.thunk = t /\ c.process = p
    BY CallTypes DEF Call
  <2>4. /\ Len(Pipe') = Len(Pipe) + 1 /\ Len(Pipe) \in Nat
        /\ \A i \in 1..Len(Pipe) : Pipe'[i] = Pipe[i]
        /\ Pipe'[Len(Pipe) + 1] = c
    BY <1>4, <2>3, PipeAsks DEF SelectProcess
  <2>5. /\ Stage(t)' = "attach" /\ thunks'[t].process = p
        /\ \A u \in Attaches : u # t => thunks'[u] = thunks[u] /\ Stage(u)' = Stage(u)
    BY <1>4 DEF SelectProcess, TypeOK, Stage
  <2>6. \A i \in 1..Len(Pipe') : Owned(Pipe'[i]) => i = Len(Pipe) + 1 /\ Pipe'[i] = c
    BY <2>2, <2>4
  <2>7. PipeInv'
    BY <2>3, <2>5, <2>6 DEF PipeInv, OwnedFits, Stage, Attach
  <2>8. Stage(t) = "none" /\ \A u \in Attaches : u < t => Stage(u) # "none"
    BY <1>4 DEF SelectProcess, Stage
  <2>9. \A u \in Attaches : Stage(u) \in {"none", "done", "rejected"}
    BY <2>1 DEF Active, Ended, Stage
  <2>10. \A u, v \in Attaches : u < v /\ Stage(v)' # "none" => Stage(u)' \in {"done", "rejected"}
    <3> SUFFICES ASSUME NEW u \in Attaches, NEW v \in Attaches, u < v, Stage(v)' # "none"
                 PROVE  Stage(u)' \in {"done", "rejected"}
      OBVIOUS
    <3>1. CASE v = t
      BY <2>5, <2>8, <2>9, <3>1 DEF Attaches
    <3>2. CASE v # t
      BY <2>5, <2>8, <3>2 DEF ThunksInv
    <3> QED BY <3>1, <3>2
  <2>11. ThunksInv'
    BY <2>5, <2>9, <2>10 DEF ThunksInv
  <2> QED BY <2>7, <2>11
<1>5. CASE Refresh
  <2> PICK c : c = Call("lifecycle", Focus, NoProcess)
    OBVIOUS
  <2>1. c \in Calls /\ ~Owned(c)
    BY CallTypes DEF Call, Owned
  <2>2. /\ Len(Pipe') = Len(Pipe) + 1 /\ Len(Pipe) \in Nat
        /\ \A i \in 1..Len(Pipe) : Pipe'[i] = Pipe[i]
        /\ Pipe'[Len(Pipe) + 1] = c
    BY <1>5, <2>1, PipeAsks DEF Refresh
  <2>3. UNCHANGED <<thunks, loading>> /\ ~loading
    BY <1>5 DEF Refresh, store
  <2>4. \A t \in Attaches : Stage(t) # "settle"
    BY <2>3 DEF ThunksInv
  <2>5. \A i \in 1..Len(Pipe') : Owned(Pipe'[i]) =>
          i \in 1..Len(Pipe) /\ Pipe'[i] = Pipe[i] /\ Pipe[i].thunk \in Attaches
    BY <2>1, <2>2, OwnersAttach
  <2>6. ASSUME NEW i \in 1..Len(Pipe'), Owned(Pipe'[i]) PROVE OwnedFits(i)'
    BY <2>3, <2>4, <2>5, <2>6 DEF PipeInv, OwnedFits, Stage
  <2>7. PipeInv'
    BY <2>5, <2>6 DEF PipeInv
  <2> QED BY <2>3, <2>7 DEF ThunksInv, Stage
<1>6. CASE FocusAnswered
  <2>1. /\ answers # <<>> /\ answers' = Tail(answers) /\ ~Owned(Head(answers).call)
        /\ UNCHANGED <<calls, thunks, loading>>
    BY <1>6 DEF FocusAnswered, Awaited, Owned
  <2>2. /\ Len(Pipe) \in Nat \ {0} /\ Len(Pipe') = Len(Pipe) - 1 + (Len(calls') - Len(calls))
        /\ \A i \in 1..Len(Pipe) - 1 : Pipe'[i] = Pipe[i + 1]
    BY <2>1, PipeHears
  <2>3. Len(Pipe') = Len(Pipe) - 1
    <3>1. Len(calls) \in Nat
      BY DEF TypeOK
    <3> QED BY <2>1, <2>2, <3>1
  <2>4. \A i \in 1..Len(Pipe') : i + 1 \in 1..Len(Pipe) /\ Pipe'[i] = Pipe[i + 1]
    BY <2>2, <2>3
  <2>5. ASSUME NEW i \in 1..Len(Pipe'), Owned(Pipe'[i]) PROVE OwnedFits(i)'
    <3>1. OwnedFits(i + 1) /\ Pipe'[i] = Pipe[i + 1]
      BY <2>4, <2>5 DEF PipeInv
    <3>2. i + 1 = Len(Pipe) => i = Len(Pipe')
      BY <2>2, <2>3
    <3> QED BY <2>1, <3>1, <3>2 DEF OwnedFits, Stage
  <2>6. PipeInv'
    <3>1. \A i, j \in 1..Len(Pipe') : Owned(Pipe'[i]) /\ Owned(Pipe'[j]) => i = j
      <4> SUFFICES ASSUME NEW i \in 1..Len(Pipe'), NEW j \in 1..Len(Pipe'),
                          Owned(Pipe'[i]), Owned(Pipe'[j])
                   PROVE  i = j
        OBVIOUS
      <4>1. i + 1 = j + 1
        BY <2>4 DEF PipeInv
      <4> QED BY <4>1
    <3> QED BY <2>5, <3>1 DEF PipeInv
  <2> QED BY <2>1, <2>6 DEF ThunksInv, Stage
\* The thunk hears what it awaits, and perhaps asks again.
<1>7. ASSUME NEW t \in Attaches, answers # <<>>, answers' = Tail(answers),
             Head(answers).call.thunk = t,
             \/ UNCHANGED calls
             \/ calls' = Append(calls, Call("lifecycle", t, NoProcess))
      PROVE  \A i \in 1..Len(Pipe') : Owned(Pipe'[i]) =>
               /\ i = Len(Pipe') /\ Pipe'[i] = Call("lifecycle", t, NoProcess)
               /\ ~UNCHANGED calls
  <2> PICK c : c = Call("lifecycle", t, NoProcess)
    OBVIOUS
  <2>1. c \in Calls /\ t # Focus
    BY CallTypes, ConstantsAssumption DEF Attaches, Focus
  <2>2. /\ Len(Pipe) \in Nat \ {0} /\ Pipe[1] = Head(answers).call
        /\ \A i \in 1..Len(Pipe) - 1 : Pipe'[i] = Pipe[i + 1]
        /\ Len(Pipe') = Len(Pipe) - 1 + (Len(calls') - Len(calls))
        /\ calls' # calls => Len(Pipe') = Len(Pipe) /\ calls' = Append(calls, Pipe'[Len(Pipe)])
    BY <1>7, <2>1, PipeHears
  <2>3. Owned(Pipe[1])
    BY <1>7, <2>1, <2>2 DEF Owned
  <2>4. \A i \in 1..Len(Pipe) - 1 : ~Owned(Pipe'[i])
    <3> SUFFICES ASSUME NEW i \in 1..Len(Pipe) - 1 PROVE ~Owned(Pipe[i + 1])
      BY <2>2
    <3>1. i + 1 \in 1..Len(Pipe) /\ 1 \in 1..Len(Pipe) /\ i + 1 # 1
      BY <2>2
    <3> QED BY <2>3, <3>1 DEF PipeInv
  <2>5. calls \in Seq(Calls) /\ Len(calls) \in Nat
    BY DEF TypeOK
  <2>6. CASE UNCHANGED calls
    BY <2>2, <2>4, <2>5, <2>6
  <2>7. CASE calls' = Append(calls, c) /\ calls' # calls
    <3>1. Append(calls, Pipe'[Len(Pipe)]) = Append(calls, c) /\ Len(Pipe') = Len(Pipe)
      BY <2>2, <2>7
    <3>2. Pipe'[Len(Pipe)] = c
      BY <2>1, <2>5, <3>1
    <3>3. \A i \in 1..Len(Pipe) : i \in 1..Len(Pipe) - 1 \/ i = Len(Pipe)
      <4>1. \A n \in Nat, i \in Nat : i \in 1..n => i \in 1..n - 1 \/ i = n
        OBVIOUS
      <4> QED BY <2>2, <4>1
    <3>4. \A i \in 1..Len(Pipe') : Owned(Pipe'[i]) => i = Len(Pipe')
      BY <2>4, <3>1, <3>3
    <3> QED BY <2>7, <3>1, <3>2, <3>4
  <2> QED BY <1>7, <2>6, <2>7
<1>8. CASE \E t \in Attaches : AttachAnswered(t)
  <2> PICK t \in Attaches : AttachAnswered(t)
    BY <1>8
  <2>1. Active(t) /\ Stage(t) = "attach" /\ UNCHANGED loading
    BY ThunkAwaits DEF AttachAnswered, Active, Ended, Stage
  <2>2. \A i \in 1..Len(Pipe') : Owned(Pipe'[i]) =>
          i = Len(Pipe') /\ Pipe'[i] = Call("lifecycle", t, NoProcess) /\ ~UNCHANGED calls
    BY <1>7 DEF AttachAnswered, Awaited
  <2> PICK a : a # "none" /\ a \in {"refresh", "rejected"} /\ thunks' = [thunks EXCEPT ![t].at = a]
               /\ (a = "rejected" => UNCHANGED calls)
    BY DEF AttachAnswered, Rejects
  <2>3. /\ Stage(t)' = a
        /\ \A u \in Attaches : u # t => thunks'[u] = thunks[u]
        /\ \A u, v \in Attaches : u < v /\ Stage(v)' # "none" => Stage(u)' \in {"done", "rejected"}
        /\ \A u \in Attaches : Stage(u)' # "none" => thunks'[u].process \in Processes
    BY <2>1, ThunkGoesOn
  <2>4. PipeInv'
    BY <2>2, <2>3 DEF PipeInv, OwnedFits, Call, Attach
  <2> QED BY <2>1, <2>3, <2>4 DEF ThunksInv, Stage
<1>9. CASE \E t \in Attaches : RefreshAnswered(t) \/ LoadSettles(t)
  <2> PICK t \in Attaches : RefreshAnswered(t) \/ LoadSettles(t)
    BY <1>9
  <2>1. Active(t)
    BY ThunkAwaits DEF RefreshAnswered, LoadSettles, Active, Ended
  <2>2. \A i \in 1..Len(Pipe') : ~Owned(Pipe'[i])
    BY <1>7 DEF RefreshAnswered, LoadSettles, Awaited
  <2>3. PipeInv'
    BY <2>2 DEF PipeInv
  <2> PICK a : /\ a \in {"load", "done", "rejected"} /\ thunks' = [thunks EXCEPT ![t].at = a]
               /\ a = "load" => loading'
    BY DEF RefreshAnswered, LoadSettles, Rejects
  <2>4. /\ Stage(t)' = a
        /\ \A u \in Attaches : u # t => thunks'[u] = thunks[u]
        /\ \A u, v \in Attaches : u < v /\ Stage(v)' # "none" => Stage(u)' \in {"done", "rejected"}
        /\ \A u \in Attaches : Stage(u)' # "none" => thunks'[u].process \in Processes
    BY <2>1, ThunkGoesOn
  <2>5. \A u \in Attaches : u # t => Stage(u) \notin {"load", "settle"}
    BY <2>1 DEF OneAtATime, Active, Ended, Stage
  <2> QED BY <2>3, <2>4, <2>5 DEF ThunksInv, Stage
<1>10. CASE \E t \in Attaches : LoadAnswered(t)
  <2> PICK t \in Attaches : LoadAnswered(t)
    BY <1>10
  <2>1. Active(t) /\ Stage(t) = "load" /\ UNCHANGED <<loading, answers>>
    BY DEF LoadAnswered, Active, Ended, Stage
  <2>2. \A i \in 1..Len(Pipe) : ~Owned(Pipe[i])
    BY <2>1, NoneOwned
  <2> PICK c : c = Call("lifecycle", t, NoProcess)
    OBVIOUS
  <2>3. c \in Calls /\ c.thunk = t /\ c.kind = "lifecycle" /\ calls' = Append(calls, c)
    BY CallTypes DEF Call, LoadAnswered
  <2>4. /\ Len(Pipe') = Len(Pipe) + 1 /\ Len(Pipe) \in Nat
        /\ \A i \in 1..Len(Pipe) : Pipe'[i] = Pipe[i]
        /\ Pipe'[Len(Pipe) + 1] = c
    BY <2>1, <2>3, PipeAsks
  <2>5. \A i \in 1..Len(Pipe') : Owned(Pipe'[i]) => i = Len(Pipe') /\ Pipe'[i] = c
    BY <2>2, <2>4
  <2>6. thunks' = [thunks EXCEPT ![t].at = "settle"]
    BY DEF LoadAnswered
  <2>7. /\ Stage(t)' = "settle"
        /\ \A u \in Attaches : u # t => thunks'[u] = thunks[u]
        /\ \A u, v \in Attaches : u < v /\ Stage(v)' # "none" => Stage(u)' \in {"done", "rejected"}
        /\ \A u \in Attaches : Stage(u)' # "none" => thunks'[u].process \in Processes
    BY <2>1, <2>6, ThunkGoesOn
  <2>8. PipeInv'
    BY <2>3, <2>5, <2>7 DEF PipeInv, OwnedFits, Attach
  <2> QED BY <2>1, <2>7, <2>8 DEF ThunksInv, Stage
<1> QED
  BY <1>2, <1>3, <1>4, <1>5, <1>6, <1>8, <1>9, <1>10 DEF Next, User, PageHears, LoadThread,
     LoadBegins, LoadFinds, LoadReads, LoadChecks, LoadCompletes, LoadFails, RequestThread,
     RequestStarts, RequestSucceeds, RequestFails, RequestFields, FieldsAnswered, store, vars

-----------------------------------------------------------------------------
\* What answers say is still so.

\* With an attach at the head of the calls no answer is past it.
LEMMA AttachCalled ==
  ASSUME TypeOK, OneAtATime, AttachesNamed, Calling("attach")
  PROVE  /\ \A i \in 1..Len(answers) : ~Attach(answers[i].call) /\ ~Behind(i)
         /\ Attach(Pipe[Len(answers) + 1]) /\ Len(answers) + 1 \in 1..Len(Pipe)
         /\ Len(answers) \in Nat
         /\ \E t \in Attaches : Active(t) /\ Stage(t) = "attach"
<1>1. calls \in Seq(Calls) /\ answers \in Seq(Answers) /\ calls # <<>> /\ Attach(Head(calls))
  BY DEF TypeOK, Calling, Attach
<1>2. /\ Len(calls) \in Nat \ {0} /\ Head(calls) = calls[1] /\ Len(answers) \in Nat
      /\ 1 \in DOMAIN calls /\ \A i \in 1..Len(answers) : i \in DOMAIN answers
  BY <1>1
<1>3. \A i \in 1..Len(answers) : ~Attach(answers[i].call)
  BY <1>1, <1>2 DEF OneAtATime
<1>4. Pipe[Len(answers) + 1] = calls[1] /\ Len(Pipe) = Len(answers) + Len(calls)
  BY <1>1, <1>2, PipePlaces DEF Pipe
<1>5. \A i \in 1..Len(answers) : Len(answers) + 1 \in i..Len(Pipe)
  BY <1>2, <1>4
<1>6. Attach(Pipe[Len(answers) + 1]) /\ Len(answers) + 1 \in 1..Len(Pipe)
  BY <1>1, <1>2, <1>4
<1>7. \A i \in 1..Len(answers) : ~Behind(i)
  BY <1>5, <1>6 DEF Behind
<1>8. calls[1].thunk \in Attaches /\ thunks[calls[1].thunk].at = "attach"
  BY <1>1, <1>2 DEF OneAtATime, AttachesNamed
<1>9. \E t \in Attaches : Active(t) /\ Stage(t) = "attach"
  BY <1>8 DEF Active, Ended, Stage
<1> QED BY <1>2, <1>3, <1>6, <1>7, <1>9

LEMMA AnswersStep ==
  ASSUME TypeOK, AttachesNamed, AttachInOrder, OneAtATime, AnswersInv, [Next]_vars
  PROVE  AnswersInv'
<1>1. ASSUME UNCHANGED <<calls, answers>>, lifecycle'.process = lifecycle.process
      PROVE  AnswersInv'
  BY <1>1 DEF AnswersInv, Behind, Pipe
\* A call more: an answer that is behind no attach now was behind none before.
<1>2. ASSUME NEW c \in Calls, calls' = Append(calls, c), UNCHANGED answers,
             lifecycle'.process = lifecycle.process
      PROVE  AnswersInv'
  <2>1. /\ Len(Pipe') = Len(Pipe) + 1 /\ Len(Pipe) \in Nat
        /\ \A i \in 1..Len(Pipe) : Pipe'[i] = Pipe[i]
    BY <1>2, PipeAsks
  <2>2. ASSUME NEW i \in 1..Len(answers), Behind(i)' PROVE Behind(i)
    <3>1. Len(answers) \in Nat
      BY DEF TypeOK
    <3>2. \A j \in i..Len(Pipe) : j \in i..Len(Pipe') /\ Pipe'[j] = Pipe[j]
      BY <2>1, <3>1
    <3> QED BY <2>2, <3>2 DEF Behind
  <2> QED BY <1>2, <2>2 DEF AnswersInv
\* An answer less.
<1>3. ASSUME answers # <<>>, answers' = Tail(answers),
             \/ UNCHANGED calls
             \/ \E c \in Calls : calls' = Append(calls, c),
             lifecycle'.process = lifecycle.process
      PROVE  AnswersInv'
  <2>1. /\ Len(Pipe) \in Nat \ {0}
        /\ \A i \in 1..Len(Pipe) - 1 : Pipe'[i] = Pipe[i + 1]
        /\ Len(Pipe') = Len(Pipe) - 1 + (Len(calls') - Len(calls))
    BY <1>3, PipeHears
  <2>2. calls \in Seq(Calls) /\ Len(calls) \in Nat /\ answers \in Seq(Answers)
    BY DEF TypeOK
  <2>3. Len(calls') = Len(calls) \/ Len(calls') = Len(calls) + 1
    BY <1>3, <2>2
  <2>4. \A i \in 1..Len(answers') :
          i \in Nat \ {0} /\ i + 1 \in 1..Len(answers) /\ answers'[i] = answers[i + 1]
    BY <1>3, <2>2
  <2>5. ASSUME NEW i \in 1..Len(answers'), Behind(i)' PROVE Behind(i + 1)
    <3> SUFFICES ASSUME NEW j \in (i + 1)..Len(Pipe) PROVE ~Attach(Pipe[j])
      BY DEF Behind
    <3>1. j - 1 \in i..Len(Pipe') /\ j - 1 \in 1..Len(Pipe) - 1 /\ (j - 1) + 1 = j
      BY <2>1, <2>2, <2>3, <2>4
    <3>2. Pipe'[j - 1] = Pipe[j]
      BY <2>1, <3>1
    <3> QED BY <2>5, <3>1, <3>2 DEF Behind
  <2> QED BY <1>3, <2>4, <2>5 DEF AnswersInv
<1>4. CASE ~MainThread
  <2>1. lifecycle'.process = lifecycle.process
    BY <1>4, OffMainThread
  <2>2. CASE UNCHANGED <<calls, answers>>
    BY <1>1, <2>1, <2>2
  <2>3. CASE \E t \in Attaches, p \in Processes : SelectProcess(t, p)
    BY <1>2, <2>1, <2>3, CallTypes DEF SelectProcess
  <2>4. CASE Refresh \/ \E t \in Attaches : LoadAnswered(t)
    BY <1>2, <2>1, <2>4, CallTypes DEF Refresh, LoadAnswered
  <2>5. CASE FocusAnswered \/ \E t \in Attaches : RefreshAnswered(t) \/ LoadSettles(t)
    BY <1>3, <2>1, <2>5 DEF FocusAnswered, RefreshAnswered, LoadSettles, Awaited
  <2>6. CASE \E t \in Attaches : AttachAnswered(t)
    BY <1>3, <2>1, <2>6, CallTypes DEF AttachAnswered, Awaited
  <2> QED
    BY <1>4, <2>2, <2>3, <2>4, <2>5, <2>6 DEF Next, User, PageHears, LoadThread, LoadBegins,
       LoadFinds, LoadReads, LoadChecks, LoadCompletes, LoadFails, RequestThread, RequestStarts,
       RequestSucceeds, RequestFails, RequestFields, FieldsAnswered, vars
<1>5. CASE GetsLifecycle
  <2>1. calls # <<>> /\ Head(calls).kind = "lifecycle" /\ Returns(TRUE, lifecycle)
        /\ lifecycle \in Lifecycle /\ UNCHANGED lifecycle
    BY <1>5 DEF GetsLifecycle, Calling, TypeOK, backend
  <2>2. /\ Pipe' = Pipe
        /\ Len(answers') = Len(answers) + 1 /\ Len(answers) \in Nat
        /\ \A i \in 1..Len(answers) : answers'[i] = answers[i]
        /\ answers'[Len(answers) + 1] = Answer(Head(calls), TRUE, lifecycle)
    BY <2>1, PipeReturns
  <2>3. /\ ~Attach(answers'[Len(answers) + 1].call)
        /\ answers'[Len(answers) + 1].state = lifecycle
    BY <2>1, <2>2 DEF Answer, Attach
  <2>4. \A i \in 1..Len(answers') : i \in 1..Len(answers) \/ i = Len(answers) + 1
    BY <2>2
  <2>5. \A i \in 1..Len(answers) : Behind(i)' => Behind(i)
    BY <2>2 DEF Behind
  <2> QED BY <2>1, <2>2, <2>3, <2>4, <2>5 DEF AnswersInv
<1>6. CASE AttachBegins \/ AttachFinds \/ AttachMisses \/ AttachResets \/ AttachCompletes
  <2>1. Calling("attach") /\ UNCHANGED <<calls, answers>>
    BY <1>6 DEF AttachBegins, AttachFinds, AttachMisses, AttachResets, AttachCompletes, AttachStep,
       transit
  <2>2. \A i \in 1..Len(answers) : ~Attach(answers[i].call) /\ ~Behind(i)
    BY <2>1, AttachCalled
  <2>3. \A i \in 1..Len(answers) : ~Behind(i)'
    BY <2>1, <2>2 DEF Behind, Pipe
  <2> QED BY <2>1, <2>2, <2>3 DEF AnswersInv
\* The attach returns, and its answer is the last of all.
<1>7. CASE AttachFails \/ SessionOpens \/ SessionFails
  <2>1. Calling("attach") /\ calls # <<>>
    BY <1>7 DEF AttachFails, SessionOpens, SessionFails, AttachStep, Calling
  <2> PICK ok \in BOOLEAN : /\ Returns(ok, Detached)
                            /\ lifecycle'.process = IF ok THEN Head(calls).process ELSE NoProcess
    <3>1. CASE AttachFails
      BY <3>1 DEF AttachFails, Unattached
    <3>2. CASE SessionOpens \/ SessionFails
      <4>1. lifecycle.process = Head(calls).process
        BY <3>2 DEF SessionOpens, SessionFails, AttachStep, AttachInOrder
      <4>2. lifecycle'.process = lifecycle.process /\ Returns(TRUE, Detached)
        BY <3>2, FaultedStays DEF SessionOpens, SessionFails, TypeOK
      <4> QED BY <4>1, <4>2
    <3> QED BY <1>7, <3>1, <3>2
  <2>2. /\ Pipe' = Pipe
        /\ Len(answers') = Len(answers) + 1
        /\ \A i \in 1..Len(answers) : answers'[i] = answers[i]
        /\ answers'[Len(answers) + 1] = Answer(Head(calls), ok, Detached)
    BY <2>1, Records, PipeReturns
  <2>3. /\ \A i \in 1..Len(answers) : ~Attach(answers[i].call) /\ ~Behind(i)
        /\ Attach(Pipe[Len(answers) + 1]) /\ Len(answers) + 1 \in 1..Len(Pipe)
        /\ Len(answers) \in Nat
    BY <2>1, AttachCalled
  <2>4. \A i \in 1..Len(answers) : ~Behind(i)'
    BY <2>2, <2>3 DEF Behind
  <2> PICK n : n = Len(answers) + 1
    OBVIOUS
  <2>5. ~Behind(n)'
    <3>1. n \in n..Len(Pipe) /\ Attach(Pipe[n])
      BY <2>3
    <3> QED BY <2>2, <3>1 DEF Behind
  <2>6. answers'[n].ok = ok /\ answers'[n].call = Head(calls)
    BY <2>2 DEF Answer
  <2>7. \A i \in 1..Len(answers') : i \in 1..Len(answers) \/ i = n
    BY <2>2, <2>3
  <2>8. ASSUME NEW i \in 1..Len(answers')
        PROVE  /\ Attach(answers'[i].call) =>
                    lifecycle'.process = IF answers'[i].ok THEN answers'[i].call.process
                                         ELSE NoProcess
               /\ ~Behind(i)'
    BY <2>2, <2>3, <2>4, <2>5, <2>6, <2>7
  <2> QED BY <2>8 DEF AnswersInv
<1> QED BY <1>4, <1>5, <1>6, <1>7 DEF MainThread

-----------------------------------------------------------------------------
\* Page and backend, step by step.

LEMMA NoAttachInPipe ==
  ASSUME TypeOK, AttachesNamed, OneAtATime, \A u \in Attaches : Stage(u) # "attach"
  PROVE  \A i \in 1..Len(Pipe) : ~Attach(Pipe[i])
<1>1. NoAttach
  BY NoAttachOf DEF Stage
<1>2. /\ \A i \in 1..Len(calls) : ~Attach(calls[i])
      /\ \A i \in 1..Len(answers) : ~Attach(answers[i].call)
  BY <1>1 DEF NoAttach, TypeOK
<1>3. /\ Len(answers) \in Nat /\ Len(calls) \in Nat /\ Len(Pipe) = Len(answers) + Len(calls)
      /\ \A i \in 1..Len(answers) : Pipe[i] = answers[i].call
      /\ \A i \in 1..Len(calls) : Pipe[Len(answers) + i] = calls[i]
  BY PipePlaces DEF TypeOK, Pipe
<1> SUFFICES ASSUME NEW i \in 1..Len(Pipe) PROVE ~Attach(Pipe[i])
  OBVIOUS
<1>4. CASE i <= Len(answers)
  BY <1>2, <1>3, <1>4
<1>5. CASE i > Len(answers)
  <2> PICK k : k = i - Len(answers)
    OBVIOUS
  <2>1. k \in 1..Len(calls) /\ i = Len(answers) + k
    BY <1>3, <1>5
  <2> QED BY <1>2, <1>3, <2>1
<1> QED BY <1>3, <1>4, <1>5

\* Unless a thunk waits for its attach, what is heard is the lifecycle that there is.
LEMMA HearsLifecycle ==
  ASSUME TypeOK, AttachesNamed, OneAtATime, AnswersInv, answers # <<>>,
         \A u \in Attaches : Stage(u) # "attach"
  PROVE  Head(answers).state.process = lifecycle.process
<1>1. 1 \in 1..Len(answers) /\ Head(answers) = answers[1]
  BY DEF TypeOK
<1>2. Len(answers) \in Nat /\ Len(Pipe) \in Nat
  BY PipePlaces DEF TypeOK, Pipe
<1>3. Behind(1)
  BY <1>2, NoAttachInPipe DEF Behind
<1> QED BY <1>1, <1>3 DEF AnswersInv

LEMMA NoneAttaches ==
  ASSUME ThunksInv, NEW t \in Attaches, Latest(t), Stage(t) # "attach"
  PROVE  \A u \in Attaches : Stage(u) # "attach"
<1> SUFFICES ASSUME NEW u \in Attaches, Stage(u) = "attach" PROVE FALSE
  OBVIOUS
<1>1. Active(u)
  BY DEF Active, Ended, Stage
<1> QED BY <1>1, ActiveIsLatest

\* A step of the load under way.
LEMMA LoadFits ==
  ASSUME TypeOK, TypeOK', OneAtATime, LoadsAttached, ThunksInv, StageInv,
         NEW t \in Attaches, LoadThread(t)
  PROVE  StageInv'
<1>1. Running(t) /\ UNCHANGED <<thunks, page, analysis, calls, answers>>
  BY DEF Running, LoadThread, LoadBegins, LoadFinds, LoadReads, LoadChecks, LoadCompletes,
     LoadFails, store
<1>2. Active(t) /\ Stage(t) = "load"
  BY <1>1 DEF OneAtATime, Active, Ended, Stage
<1>3. Latest(t) /\ \A u \in Attaches : Latest(u) => u = t
  BY <1>2, ActiveIsLatest
<1>4. \A u \in Attaches : Latest(u)' => u = t
  BY <1>1, <1>3 DEF Latest
<1>5. Stage(t)' = "load" /\ thunks'[t].process = thunks[t].process
  BY <1>1, <1>2 DEF Stage
<1>6. analysis = NoAnalysis /\ lifecycle.process = thunks[t].process
      /\ page.process = thunks[t].process
  BY <1>2, <1>3 DEF StageInv, StageFits
<1>7. lifecycle'.process = lifecycle.process
  <2>1. LoadBegins(t) \/ LoadFails(t) => lifecycle'.process = lifecycle.process
    BY LoadingStays, LoadFailedStays DEF TypeOK, LoadBegins, LoadFails
  <2>2. LoadCompletes(t) => lifecycle'.process = lifecycle.process
    BY ReadyStays DEF TypeOK, Load, LoadCompletes
  <2> QED BY <2>1, <2>2 DEF LoadThread, LoadFinds, LoadReads, LoadChecks, backend
<1>8. loads'[t].at = "loaded" =>
        loads'[t].process = thunks[t].process /\ metadata' = thunks[t].process
  <2>1. CASE LoadCompletes(t)
    <3>1. loads[t].process = lifecycle.process /\ metadata = loads[t].process
      BY <2>1 DEF LoadCompletes, LoadsAttached
    <3>2. loads'[t].process = loads[t].process /\ UNCHANGED metadata
      BY <2>1 DEF LoadCompletes, TypeOK, Load
    <3> QED BY <1>6, <3>1, <3>2
  <2>2. CASE LoadBegins(t) \/ LoadChecks(t) \/ LoadFails(t)
    BY <2>2 DEF LoadBegins, LoadChecks, LoadFails, TypeOK, Load
  <2>3. CASE LoadFinds(t)
    BY <2>3 DEF LoadFinds, TypeOK, Load
  <2>4. CASE LoadReads(t)
    BY <2>4 DEF LoadReads, TypeOK, Load
  <2> QED BY <2>1, <2>2, <2>3, <2>4 DEF LoadThread
<1>9. StageFits(t)'
  BY <1>1, <1>5, <1>6, <1>7, <1>8 DEF StageFits
<1> QED BY <1>4, <1>9 DEF StageInv

LEMMA StageStep ==
  ASSUME TypeOK, TypeOK', AttachesNamed, AttachInOrder, OneAtATime, LoadsAttached, AgreeInv,
         [Next]_vars, ~crossed'
  PROVE  StageInv'
<1> USE DEF AgreeInv
<1>1. ASSUME UNCHANGED <<thunks, loads, metadata, page, analysis>>,
             lifecycle'.process = lifecycle.process, Pipe' = Pipe
      PROVE  StageInv'
  BY <1>1 DEF StageInv, StageFits, Stage, Latest
<1>2. CASE \E k \in Requests : RequestThread(k) \/ RequestFields(k) \/ FieldsAnswered(k)
  <2>1. lifecycle'.process = lifecycle.process
    BY <1>2, OffMainThread, AliveStays, FaultedStays DEF RequestThread, RequestStarts,
       RequestSucceeds, RequestFails, RequestFields, FieldsAnswered, TypeOK, backend
  <2>2. UNCHANGED <<thunks, loads, metadata, page, analysis, calls, answers>>
    BY <1>2 DEF RequestThread, RequestStarts, RequestSucceeds, RequestFails, RequestFields,
       FieldsAnswered, backend, store
  <2> QED BY <1>1, <2>1, <2>2 DEF Pipe
<1>3. CASE UNCHANGED vars \/ GetsLifecycle
  <2>1. UNCHANGED <<thunks, loads, metadata, page, analysis, lifecycle>>
    BY <1>3 DEF vars, GetsLifecycle, backend, store
  <2>2. Pipe' = Pipe
    BY <1>3, MainKeepsPipe DEF vars, Pipe, MainThread
  <2> QED BY <1>1, <2>1, <2>2
\* While an attach is under way nothing is said of the process.
<1>4. CASE MainThread /\ ~GetsLifecycle
  <2>1. Calling("attach")
    BY <1>4 DEF MainThread, AttachBegins, AttachFinds, AttachMisses, AttachResets, AttachFails,
       AttachCompletes, SessionOpens, SessionFails, AttachStep
  <2> PICK t \in Attaches : Active(t) /\ Stage(t) = "attach"
    BY <2>1, AttachCalled
  <2>2. Latest(t) /\ \A u \in Attaches : Latest(u) => u = t
    BY ActiveIsLatest
  <2>3. UNCHANGED <<thunks, analysis>>
    BY <1>4, MainKeepsPipe
  <2>4. analysis' = NoAnalysis /\ Stage(t)' = "attach"
    BY <2>2, <2>3 DEF StageInv, StageFits, Stage
  <2>5. StageFits(t)'
    BY <2>4 DEF StageFits
  <2>6. \A u \in Attaches : Latest(u)' => u = t
    BY <2>2, <2>3 DEF Latest
  <2> QED BY <2>5, <2>6 DEF StageInv
<1>5. CASE \E t \in Attaches : LoadThread(t)
  BY <1>5, LoadFits
<1>6. ASSUME NEW t \in Attaches, NEW p \in Processes, SelectProcess(t, p)
      PROVE  StageInv'
  <2>1. Stage(t) = "none" /\ Stage(t)' = "attach" /\ analysis' = NoAnalysis
        /\ \A u \in Attaches : u # t => thunks'[u] = thunks[u]
    BY <1>6 DEF SelectProcess, TypeOK, Stage
  <2>2. ASSUME NEW u \in Attaches, Latest(u)' PROVE u = t
    <3>1. ~(t > u)
      BY <2>1, <2>2 DEF Latest, Stage
    <3>2. ~(u > t)
      <4> SUFFICES ASSUME u > t PROVE FALSE
        OBVIOUS
      <4>1. u # t /\ t < u
        BY DEF Attaches
      <4>2. Stage(u) # "none"
        BY <2>1, <2>2, <4>1 DEF Latest, Stage
      <4> QED BY <2>1, <4>1, <4>2 DEF ThunksInv
    <3> QED BY <3>1, <3>2 DEF Attaches
  <2>3. StageFits(t)'
    BY <2>1 DEF StageFits
  <2> QED BY <2>2, <2>3 DEF StageInv
<1>7. CASE Refresh
  <2>1. /\ UNCHANGED <<thunks, loads, metadata, page, analysis, lifecycle>>
        /\ page.process # NoProcess
    BY <1>7 DEF Refresh, backend, store
  <2> QED BY <2>1 DEF StageInv, StageFits, Stage, Latest
<1>8. CASE FocusAnswered
  <2>1. /\ answers # <<>> /\ page' = Head(answers).state
        /\ analysis' = AnalysisUnder(Head(answers).state)
        /\ UNCHANGED <<thunks, loads, metadata, lifecycle>>
    BY <1>8 DEF FocusAnswered, Awaited, ShowLifecycle, backend
  <2>2. Pipe # <<>>
    <3>1. Len(Pipe) # 0
      BY <1>8, <2>1, PipeHears DEF FocusAnswered, Awaited
    <3> QED BY <3>1
  <2> SUFFICES ASSUME NEW t \in Attaches, Latest(t) PROVE StageFits(t)'
    BY <2>1 DEF StageInv, Latest
  <2>3. StageFits(t) /\ Stage(t)' = Stage(t) /\ thunks'[t] = thunks[t]
    BY <2>1 DEF StageInv, Stage
  <2>4. analysis = NoAnalysis => analysis' = NoAnalysis
    BY <2>1 DEF AnalysisUnder
  <2>5. CASE Stage(t) = "attach"
    BY <2>3, <2>4, <2>5 DEF StageFits
  <2>6. CASE Stage(t) # "attach"
    <3>1. page'.process = lifecycle.process
      BY <2>1, <2>6, NoneAttaches, HearsLifecycle
    <3>2. thunks[t].process # NoProcess
      BY ConstantsAssumption DEF ThunksInv, Latest, Stage
    <3>3. lifecycle.process = thunks[t].process => analysis' = analysis
      BY <2>1, <3>1, <3>2 DEF AnalysisUnder
    <3> QED BY <2>1, <2>2, <2>3, <2>4, <2>6, <3>1, <3>3 DEF StageFits
  <2> QED BY <2>5, <2>6
<1>9. ASSUME NEW t \in Attaches, AttachAnswered(t)
      PROVE  StageInv'
  <2>1. Active(t) /\ Stage(t) = "attach"
    BY <1>9, ThunkAwaits DEF AttachAnswered, Active, Ended, Stage
  <2>2. Latest(t) /\ StageFits(t)
    BY <2>1, ActiveIsLatest DEF StageInv
  <2>3. /\ answers # <<>> /\ answers' = Tail(answers) /\ Attach(Head(answers).call)
        /\ Head(answers).call.thunk = t /\ UNCHANGED <<lifecycle, metadata, loads>>
    BY <1>9 DEF AttachAnswered, Awaited, Attach, backend
  <2>4. /\ 1 \in 1..Len(answers) /\ Head(answers) = answers[1] /\ 1 \in 1..Len(Pipe)
        /\ Pipe[1] = Head(answers).call
    <3>1. 1 \in 1..Len(answers) /\ Head(answers) = answers[1]
      BY <2>3 DEF TypeOK
    <3>2. Len(Pipe) \in Nat \ {0} /\ Pipe[1] = Head(answers).call
      BY <1>9, <2>3, CallTypes, PipeHears DEF AttachAnswered
    <3> QED BY <3>1, <3>2
  <2>5. Head(answers).call.process = thunks[t].process
    <3>1. Owned(Pipe[1])
      BY <2>3, <2>4, ConstantsAssumption DEF Owned, Attaches, Focus
    <3> QED BY <2>3, <2>4, <3>1 DEF PipeInv, OwnedFits
  <2>6. lifecycle.process = IF Head(answers).ok THEN thunks[t].process ELSE NoProcess
    BY <2>3, <2>4, <2>5 DEF AnswersInv
  <2>7. CASE Head(answers).ok
    <3>1. /\ page' = AttachedTo(thunks[t].process) /\ UNCHANGED analysis
          /\ thunks' = [thunks EXCEPT ![t].at = "refresh"]
      BY <1>9, <2>7 DEF AttachAnswered
    <3>2. /\ Stage(t)' = "refresh" /\ thunks'[t].process = thunks[t].process
          /\ \A u \in Attaches : Latest(u)' => u = t
      BY <2>1, <3>1, ThunkGoesOn
    <3>3. page'.process = thunks[t].process
      BY <3>1 DEF AttachedTo
    <3>4. StageFits(t)'
      BY <2>1, <2>2, <2>3, <2>6, <2>7, <3>1, <3>2, <3>3 DEF StageFits
    <3> QED BY <3>2, <3>4 DEF StageInv
  <2>8. CASE ~Head(answers).ok
    <3>1. /\ page'.process = NoProcess /\ analysis' = NoAnalysis
          /\ thunks' = [thunks EXCEPT ![t].at = "rejected"]
      BY <1>9, <2>8 DEF AttachAnswered, Rejects, Unattached
    <3>2. Stage(t)' = "rejected" /\ \A u \in Attaches : Latest(u)' => u = t
      BY <2>1, <3>1, ThunkGoesOn
    <3>3. StageFits(t)'
      BY <2>3, <2>6, <2>8, <3>1, <3>2 DEF StageFits
    <3> QED BY <3>2, <3>3 DEF StageInv
  <2> QED BY <2>7, <2>8
<1>10. ASSUME NEW t \in Attaches, RefreshAnswered(t)
       PROVE  StageInv'
  <2>1. Active(t) /\ Stage(t) = "refresh"
    BY <1>10, ThunkAwaits DEF RefreshAnswered, Active, Ended, Stage
  <2>2. Latest(t) /\ StageFits(t)
    BY <2>1, ActiveIsLatest DEF StageInv
  <2>3. /\ answers # <<>> /\ page' = Head(answers).state /\ analysis' = NoAnalysis
        /\ thunks' = [thunks EXCEPT ![t].at = "load"] /\ UNCHANGED <<lifecycle, metadata>>
        /\ loads'[t].at = "asked"
    BY <1>10 DEF RefreshAnswered, Awaited, ShowLifecycle, backend, TypeOK, Load
  <2>4. page'.process = lifecycle.process
    BY <2>1, <2>2, <2>3, NoneAttaches, HearsLifecycle
  <2>5. /\ Stage(t)' = "load" /\ thunks'[t].process = thunks[t].process
        /\ \A u \in Attaches : Latest(u)' => u = t
    BY <2>1, <2>3, ThunkGoesOn
  <2>6. StageFits(t)'
    BY <2>1, <2>2, <2>3, <2>4, <2>5 DEF StageFits
  <2> QED BY <2>5, <2>6 DEF StageInv
<1>11. ASSUME NEW t \in Attaches, LoadAnswered(t)
       PROVE  StageInv'
  <2>1. Active(t) /\ Stage(t) = "load"
    BY <1>11 DEF LoadAnswered, Active, Ended, Stage
  <2>2. Latest(t) /\ StageFits(t)
    BY <2>1, ActiveIsLatest DEF StageInv
  <2>3. /\ thunks' = [thunks EXCEPT ![t].at = "settle"]
        /\ UNCHANGED <<lifecycle, metadata, loads, page, analysis>>
    BY <1>11 DEF LoadAnswered, backend
  <2>4. /\ Stage(t)' = "settle" /\ thunks'[t].process = thunks[t].process
        /\ \A u \in Attaches : Latest(u)' => u = t
    BY <2>1, <2>3, ThunkGoesOn
  <2>5. StageFits(t)'
    BY <2>1, <2>2, <2>3, <2>4 DEF StageFits
  <2> QED BY <2>4, <2>5 DEF StageInv
<1>12. ASSUME NEW t \in Attaches, LoadSettles(t)
       PROVE  StageInv'
  <2>1. Active(t) /\ Stage(t) = "settle"
    BY <1>12, ThunkAwaits DEF LoadSettles, Active, Ended, Stage
  <2>2. Latest(t) /\ StageFits(t)
    BY <2>1, ActiveIsLatest DEF StageInv
  <2>3. /\ answers # <<>> /\ answers' = Tail(answers) /\ Head(answers).call.thunk = t
        /\ UNCHANGED <<lifecycle, metadata, loads, calls>>
    BY <1>12 DEF LoadSettles, Awaited, backend
  <2>4. CASE loads[t].at = "loaded"
    <3>1. /\ page' = Head(answers).state /\ thunks' = [thunks EXCEPT ![t].at = "done"]
          /\ analysis' = [label |-> thunks[t].process, content |-> loads[t].process]
      BY <1>12, <2>4 DEF LoadSettles, ShowLifecycle
    <3>2. page'.process = lifecycle.process
      BY <2>1, <2>2, <2>3, <3>1, NoneAttaches, HearsLifecycle
    <3>3. /\ Stage(t)' = "done" /\ thunks'[t].process = thunks[t].process
          /\ \A u \in Attaches : Latest(u)' => u = t
      BY <2>1, <3>1, ThunkGoesOn
    <3>4. StageFits(t)'
      BY <2>1, <2>2, <2>3, <2>4, <3>1, <3>2, <3>3 DEF StageFits
    <3> QED BY <3>3, <3>4 DEF StageInv
  <2>5. CASE loads[t].at # "loaded"
    <3>1. /\ page'.process = NoProcess /\ analysis' = NoAnalysis
          /\ thunks' = [thunks EXCEPT ![t].at = "rejected"]
      BY <1>12, <2>5 DEF LoadSettles, Rejects, Unattached
    <3>2. /\ Stage(t)' = "rejected" /\ \A u \in Attaches : Latest(u)' => u = t
      BY <2>1, <3>1, ThunkGoesOn
    <3>3. /\ Len(Pipe) \in Nat \ {0} /\ Pipe[1] = Head(answers).call
          /\ Len(Pipe') = Len(Pipe) - 1 + (Len(calls') - Len(calls))
      BY <2>3, PipeHears
    <3>4. Len(Pipe) = 1
      <4>1. Owned(Pipe[1]) /\ 1 \in 1..Len(Pipe)
        BY <2>3, <3>3, ConstantsAssumption DEF Owned, Attaches, Focus
      <4> QED BY <2>1, <2>3, <3>3, <4>1 DEF PipeInv, OwnedFits
    <3>5. Pipe' = <<>>
      <4>1. Len(calls) \in Nat /\ Len(Pipe') = 0
        BY <2>3, <3>3, <3>4 DEF TypeOK
      <4>2. Pipe' \in Seq(Calls)
        BY PipePlaces DEF TypeOK, Pipe
      <4> HIDE DEF Pipe
      <4> QED BY <4>1, <4>2
    <3>6. StageFits(t)'
      BY <3>1, <3>2, <3>5 DEF StageFits
    <3> QED BY <3>2, <3>6 DEF StageInv
  <2> QED BY <2>4, <2>5
<1> QED
  BY <1>2, <1>3, <1>4, <1>5, <1>6, <1>7, <1>8, <1>9, <1>10, <1>11, <1>12 DEF Next, User,
     PageHears

-----------------------------------------------------------------------------
LEMMA AgreeInit == Init => AgreeInv
<1> SUFFICES ASSUME Init PROVE AgreeInv
  OBVIOUS
<1>1. Len(answers) = 0 /\ Len(Pipe) = 0
  <2>1. answers \in Seq(Answers) /\ calls \in Seq(Calls) /\ Len(answers) = 0 /\ Len(calls) = 0
    BY DEF Init
  <2>2. Len(Pipe) = Len(answers) + Len(calls)
    BY <2>1, PipePlaces DEF Pipe
  <2> QED BY <2>1, <2>2
<1>2. \A t \in Attaches : Stage(t) = "none"
  BY DEF Init, NoThunk, Stage
<1>3. PipeInv /\ AnswersInv
  BY <1>1 DEF PipeInv, AnswersInv
<1>4. ThunksInv /\ StageInv
  BY <1>2 DEF ThunksInv, StageInv, Latest, Stage
<1> QED BY <1>3, <1>4 DEF AgreeInv

\* With no attach under way the page and the backend agree on the process, the analysis
\* shown is the metadata of that process, and no page is open without it, unless a process
\* was selected while an attach was under way.
THEOREM PageAlwaysAgrees == Spec => []PageAgrees
<1> DEFINE Agrees == ~crossed => AgreeInv
<1>1. Init => Agrees
  BY AgreeInit
<1>2. WorkspaceInv /\ WorkspaceInv' /\ Agrees /\ [Next]_vars => Agrees'
  <2> SUFFICES ASSUME WorkspaceInv, WorkspaceInv', Agrees, [Next]_vars, ~crossed'
               PROVE  AgreeInv'
    OBVIOUS
  <2>1. ~crossed
    BY CrossedStays
  <2>2. /\ TypeOK /\ TypeOK' /\ AttachesNamed /\ AttachInOrder /\ OneAtATime /\ LoadsAttached
        /\ AgreeInv
    BY <2>1 DEF WorkspaceInv
  <2>3. PipeInv' /\ ThunksInv'
    BY <2>2, QueueStep DEF AgreeInv
  <2>4. AnswersInv'
    BY <2>2, AnswersStep DEF AgreeInv
  <2>5. StageInv'
    BY <2>2, StageStep
  <2> QED BY <2>3, <2>4, <2>5 DEF AgreeInv
<1>3. WorkspaceInv /\ Agrees => PageAgrees
  <2> SUFFICES ASSUME WorkspaceInv, AgreeInv, AtRest, ~crossed, NEW t \in Attaches, Latest(t)
               PROVE  IF thunks[t].at = "done"
                      THEN /\ page.process = thunks[t].process
                           /\ lifecycle.process = thunks[t].process
                           /\ analysis = [label |-> page.process, content |-> page.process]
                           /\ metadata = page.process
                      ELSE page.process = NoProcess /\ analysis = NoAnalysis /\ ~SceneReady(page)
    BY DEF PageAgrees
  <2>1. StageFits(t)
    BY DEF AgreeInv, StageInv
  <2>2. Stage(t) \in {"done", "rejected"}
    BY DEF AtRest, Active, Ended, Latest, Stage
  <2>3. CASE Stage(t) = "done"
    BY <2>1, <2>3 DEF StageFits, Stage
  <2>4. CASE Stage(t) = "rejected"
    BY <2>1, <2>4 DEF StageFits, Stage, SceneReady
  <2> QED BY <2>2, <2>3, <2>4
<1> QED BY WorkspaceCorrect, <1>1, <1>2, <1>3, PTL DEF Spec
=============================================================================
