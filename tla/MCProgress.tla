----------------------------- MODULE MCProgress -----------------------------
(***************************************************************************)
(* What must eventually happen when a conversation runs: calls at the      *)
(* permission gate are decided, turns end.  A behaviour is one of the two, *)
(* the other does not move; each keeps the fairness of its own module.     *)
(***************************************************************************)
EXTENDS MCPermissionWorkflow

CONSTANTS
    Slots, MaxTurns, MaxItems, MaxSteps, MaxCancels, MaxRestores, MaxRemoves, MaxCrashes,
    MaxBreaks, MaxEvents, Patient

VARIABLES
    part,      \* the part that runs
    turnQ, turnMap, tasks, session, turnHistory, rx, chat, cancel, restore, remove, spent

turnVars ==
    <<turnQ, turnMap, tasks, session, turnHistory, rx, chat, cancel, restore, remove, spent>>

Turns == INSTANCE ChatTurn WITH history <- turnHistory

TwoSlots == 1..2

\* A line that asks, one that just runs, one that is refused, one that fails.
FewCommands == {cargo, ls, lsSudo, empty}
FewParseOf == [cmd \in FewCommands |-> ParseTable(cmd)]

ProgressInit == part \in {"permission", "turn"} /\ Init /\ Turns!Init

ProgressNext ==
    /\ UNCHANGED part
    /\ \/ part = "permission" /\ Next /\ UNCHANGED turnVars
       \/ part = "turn" /\ Turns!Next /\ UNCHANGED vars

ProgressSpec ==
    /\ ProgressInit /\ [][ProgressNext]_<<part, vars, turnVars>>
    /\ Fairness /\ Turns!Fairness

(* Every turn that runs comes to an end, and so does every stream that the *)
(* front end was handed: with a terminal event, or with the removal of the *)
(* session (run_step, exhaust_events, cancel_session).                     *)
ChatsEnd == Turns!TurnsEnd /\ Turns!StreamsEnd
=============================================================================
