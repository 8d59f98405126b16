---------------------------- MODULE HistoryRepair ----------------------------
(***************************************************************************)
(* Every history that turns can leave behind, up to MaxHistory rows, and   *)
(* what the repair makes of it: turns add rows one by one and may stop     *)
(* anywhere, and a new prompt only comes after a turn that ended without   *)
(* open calls.  Call ids are not reused in a session: the providers issue  *)
(* them.                                                                   *)
(***************************************************************************)
EXTENDS SessionHistory, FiniteSets

CONSTANTS
    CallIds,       \* call ids
    MaxHistory     \* bound on the rows of a history

ASSUME RepairAssumption == CallIds \subseteq Nat /\ MaxHistory \in Nat

VARIABLE left      \* what a turn left behind

repairVars == <<left>>

Used == {left[i].call : i \in DOMAIN left}
Turn == Cardinality({i \in DOMAIN left : left[i].type = "user_prompt"})

RepairInit == left = <<>>

WritePrompt == CallsAnswered(left) /\ left' = Append(left, Row("user_prompt", NoCall, Turn + 1))
WriteReasoning == Turn > 0 /\ left' = Append(left, Row("reasoning", NoCall, Turn))
WriteMessage == Turn > 0 /\ left' = Append(left, Row("message", NoCall, Turn))
WriteToolCall(c) == Turn > 0 /\ c \notin Used /\ left' = Append(left, Row("tool_call", c, Turn))
\* The results of a step are added in the order of its calls.
WriteToolResult ==
    LET open == Unanswered(left, 1) IN
    open # <<>> /\ left' = Append(left, Row("tool_result", Head(open).call, Turn))

RepairNext ==
    /\ Len(left) < MaxHistory
    /\ \/ WritePrompt \/ WriteReasoning \/ WriteMessage \/ WriteToolResult
       \/ \E c \in CallIds : WriteToolCall(c)

RepairSpec == RepairInit /\ [][RepairNext]_repairVars

-----------------------------------------------------------------------------
(* After a cancelled or failed turn "the next request starts from a valid  *)
(* state" (session_manager.rs, add_event): wherever the turn stopped, every *)
(* call of the repaired history is answered, and if a provider accepts the *)
(* turns before it, it accepts the whole.                                  *)
CleanupRestoresValidity ==
    /\ CallsAnswered(Cleanup(left))
    /\ Acceptable(SubSeq(left, 1, TurnStart(left) - 1)) => Acceptable(Cleanup(left))

(* The script that repairs all sessions at startup does to each of them    *)
(* what the script for one session does.                                   *)
RecoverAgreesWithCleanup == Recover(left) = Cleanup(left)

(* The repair leaves what came before the last prompt alone, and keeps     *)
(* every row of the turn that is not trailing reasoning unless the turn    *)
(* had nothing else; what it adds comes after them.                        *)
CleanupIsConservative ==
    LET c == Cleanup(left)
        start == TurnStart(left)
    IN  \/ start = 0 /\ c = left
        \/ start > 0 /\ IF LastItem(left) = start
                        THEN c = SubSeq(left, 1, start - 1)
                        ELSE SubSeq(c, 1, LastItem(left)) = SubSeq(left, 1, LastItem(left))

(* The repair may run again, after a crash or at the next start, and finds *)
(* nothing more to do.                                                     *)
CleanupIsIdempotent ==
    Acceptable(SubSeq(left, 1, TurnStart(left) - 1)) => Cleanup(Cleanup(left)) = Cleanup(left)

(* Wherever a turn stopped, the repair makes the history valid, loses      *)
(* nothing it need not lose, does the same at startup as after a cancel,   *)
(* and may be repeated (cleanup_history.sql, cleanup_histories.sql).       *)
RepairIsSound ==
    /\ CleanupRestoresValidity
    /\ RecoverAgreesWithCleanup
    /\ CleanupIsConservative
    /\ CleanupIsIdempotent
=============================================================================
