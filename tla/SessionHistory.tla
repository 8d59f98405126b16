--------------------------- MODULE SessionHistory ---------------------------
(***************************************************************************)
(* The stored history of one session and the two SQL scripts that repair   *)
(* it: cleanup_history.sql after a cancelled or failed turn, and           *)
(* cleanup_histories.sql for every session when the program starts.        *)
(*                                                                         *)
(* A history is the sequence of the session's rows in the order of their   *)
(* ids.  A row keeps its payload_type, the call id of tool rows, and the   *)
(* number of the turn that wrote it (history, not a column).               *)
(***************************************************************************)
EXTENDS Integers, SequencesExt

PayloadType == {"user_prompt", "reasoning", "message", "tool_call", "tool_result"}
NoCall == 0      \* call ids are positive

Row(type, call, turn) == [type |-> type, call |-> call, turn |-> turn]

(* cleanup_turn.start: the id of the latest prompt; 0 stands for NULL.     *)
TurnStart(h) == SelectLastInSeq(h, LAMBDA r : r.type = "user_prompt")

(* The latest row of the turn that is not reasoning; a turn has its prompt.*)
LastItem(h) == SelectLastInSeq(h, LAMBDA r : r.type # "reasoning")

(* Step A: reasoning rows with nothing after them go.  A comparison with   *)
(* NULL selects nothing.                                                   *)
DropTrailingReasoning(h) ==
    IF TurnStart(h) = 0 THEN h ELSE SubSeq(h, 1, LastItem(h))

(* Step B: a turn that is only its prompt goes.                            *)
DropBarePrompt(h) ==
    IF TurnStart(h) # 0 /\ Len(h) = TurnStart(h) THEN SubSeq(h, 1, Len(h) - 1) ELSE h

(* Step C: the tool calls from row `start` on that have no result anywhere *)
(* in the session get one, in the order of the calls.                      *)
Results(h) == {h[i].call : i \in {j \in DOMAIN h : h[j].type = "tool_result"}}

\* Fault: the NOT EXISTS condition is left out.
UnansweredOrNot(h, start) ==
    IF start = 0 THEN <<>>
    ELSE SelectSeq(SubSeq(h, start, Len(h)), LAMBDA r : r.type = "tool_call")

Unanswered(h, start) ==
    LET open(i) == i >= start /\ h[i].type = "tool_call" /\ h[i].call \notin Results(h)
        upTo[i \in 0..Len(h)] ==
            IF i = 0 THEN <<>> ELSE IF open(i) THEN Append(upTo[i - 1], h[i]) ELSE upTo[i - 1]
    IN  IF start = 0 THEN <<>> ELSE upTo[Len(h)]

AnswerCalls(h, start) ==
    LET calls == Unanswered(h, start)
    IN  h \o [i \in DOMAIN calls |-> Row("tool_result", calls[i].call, calls[i].turn)]

\* Fault: Step B deletes every row of the session.
CleanupWholeSession(h) ==
    IF Len(h) > 0 /\ h[Len(h)].type = "user_prompt" THEN <<>>
    ELSE AnswerCalls(DropTrailingReasoning(h), TurnStart(h))

\* Fault: Step C is left out.
CleanupWithoutResults(h) == DropBarePrompt(DropTrailingReasoning(h))

(* cleanup_history.sql, Steps A to C in one transaction; `start` is cached *)
(* before the first of them.  Step D deletes the session when nothing is   *)
(* left.  The set has one member: TLC then computes both arguments once.   *)
Cleanup(h) ==
    CHOOSE rows \in {AnswerCalls(kept, start) :
                        kept \in {DropBarePrompt(DropTrailingReasoning(h))}, start \in {TurnStart(h)}} :
        TRUE

\* Fault: the reasoning is deleted first and counted as an item afterwards.
RecoverKeepsReasonedPrompt(h) ==
    LET start == TurnStart(h)
        a == DropTrailingReasoning(h)
        b == IF start # 0 /\ Len(h) = start THEN SubSeq(a, 1, start - 1) ELSE a
    IN  AnswerCalls(b, start)

(* cleanup_histories.sql on one session: start and last_item are both      *)
(* cached first, and Step B compares them.                                 *)
Recover(h) ==
    LET start == TurnStart(h)
        a == DropTrailingReasoning(h)
        b == IF start # 0 /\ LastItem(h) = start THEN SubSeq(a, 1, start - 1) ELSE a
    IN  AnswerCalls(b, start)
-----------------------------------------------------------------------------
(* What a provider accepts as the messages of a request.                   *)

TurnEnd(h, i) ==
    LET later == {j \in DOMAIN h : j > i /\ h[j].type = "user_prompt"}
    IN  IF later = {} THEN Len(h) ELSE (CHOOSE j \in later : \A k \in later : j <= k) - 1

(* Every call is answered, after it and in its own turn.                   *)
CallsAnswered(h) ==
    \A i \in DOMAIN h : h[i].type = "tool_call" =>
        \E j \in (i + 1)..TurnEnd(h, i) : h[j].type = "tool_result" /\ h[j].call = h[i].call

(* Reasoning is followed by an item it belongs to, in its own turn.        *)
ReasoningFollowed(h) ==
    \A i \in DOMAIN h : h[i].type = "reasoning" =>
        \E j \in (i + 1)..TurnEnd(h, i) : h[j].type # "reasoning"

(* A turn has more than its prompt.                                        *)
PromptsAnswered(h) ==
    \A i \in DOMAIN h : h[i].type = "user_prompt" => TurnEnd(h, i) > i

Acceptable(h) == CallsAnswered(h) /\ ReasoningFollowed(h) /\ PromptsAnswered(h)
=============================================================================
