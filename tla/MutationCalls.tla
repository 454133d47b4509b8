---------------------------- MODULE MutationCalls ----------------------------
(***************************************************************************)
(* What runMutation promises a caller of the Scene page: calls run one at  *)
(* a time, every call is answered once, only a later call for the same     *)
(* flag makes one give way before it runs, and a call overtakes an older   *)
(* one only in the place of a call that gave way to it.                    *)
(***************************************************************************)
EXTENDS Integers, Sequences

CONSTANTS
    Calls,       \* what may be asked: an operation, its object and a flag
    MaxCalls     \* bound: calls of a session

VARIABLES
    asked,       \* the calls so far, by id
    answer,      \* "open" until a call is answered, and with what
    running      \* the call that runs, 0 when none

callVars == <<asked, answer, running>>

Ids == 1..MaxCalls
Open == {id \in Ids : answer[id] = "open"}

SameFlag(a, b) == a.op = "set-active" /\ b.op = "set-active" /\ a.object = b.object

CallsInit == asked = <<>> /\ answer = [id \in Ids |-> "none"] /\ running = 0

(* The calls that give way to a new one: open, for the same flag, and not  *)
(* running.                                                                *)
Outdated(call) == {id \in Open \ {running} : SameFlag(asked[id], call)}

(* A new call is open, and runs at once if none does.                      *)
Asks(call) == LET id == Len(asked) + 1 IN
    /\ id \in Ids
    /\ asked' = Append(asked, call)
    /\ answer' = [i \in Ids |-> IF i = id THEN "open"
                                ELSE IF i \in Outdated(call) THEN "null" ELSE answer[i]]
    /\ running' = IF running = 0 THEN id ELSE running

(* A call may run before another: it was asked before, or it is for a flag *)
(* for which a call was asked before and gave way.                         *)
MayPrecede(a, b) == \/ a < b
                    \/ \E id \in Ids : /\ id < b /\ answer[id] = "null"
                                       /\ SameFlag(asked[id], asked[a])

(* The running call is answered and another runs, if any is open.          *)
Ends(outcome) == LET left == Open \ {running} IN
    /\ running # 0
    /\ answer' = [answer EXCEPT ![running] = outcome]
    /\ IF left = {} THEN running' = 0
                    ELSE running' \in {a \in left : \A b \in left \ {a} : MayPrecede(a, b)}
    /\ UNCHANGED asked

CallsNext == \/ \E call \in Calls : Asks(call)
             \/ \E outcome \in {"result", "error"} : Ends(outcome)

CallsSafety == CallsInit /\ [][CallsNext]_callVars

CallsSpec == /\ CallsSafety
             /\ \A id \in Ids : answer[id] = "open" ~> answer[id] # "open"
=============================================================================
