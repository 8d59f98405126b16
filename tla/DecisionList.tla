---------------------------- MODULE DecisionList ----------------------------
(***************************************************************************)
(* The tool calls of a chat that wait for a decision: PendingDecisions     *)
(* (gui/linux/src/widgets/overlay/results/chat/mod.rs) and the sections    *)
(* with their buttons (sections/tool_call.rs).                             *)
(*                                                                         *)
(* A group of buttons is one tool call.  A decision goes to the core and   *)
(* is answered later, in any order, while calls are added, the selection   *)
(* is moved over the buttons of all groups, and the turn may end.          *)
(***************************************************************************)
EXTENDS Naturals, Sequences, SequencesExt, FiniteSets, FiniteSetsExt

CONSTANTS
    Calls,          \* tool calls, each with a group of buttons
    Buttons,        \* the buttons of each call, in order: sequences of kinds
    MaxMoves,       \* bound: keys of the user
    NoSelection

ASSUME DecisionAssumption == Buttons \in [Calls -> Seq(STRING)]

VARIABLES
    view,       \* "off", "on"
    groups,     \* the groups of the turn
    state,      \* of each call: "absent", "Waiting", "Decided", "Done"
    sensitive,  \* the calls whose buttons can be clicked
    active,     \* PendingDecisionsState.active
    current,    \* and .current
    asked,      \* decisions sent to the core and not answered
    sent,       \* how many decisions each call has sent
    moves

decisionVars == <<view, groups, state, sensitive, active, current, asked, sent, moves>>

DecisionRest(where) ==
    /\ view = where
    /\ groups = <<>> /\ state = [c \in Calls |-> "absent"] /\ sensitive = {}
    /\ active = 0 /\ current = NoSelection
    /\ asked = {} /\ sent = [c \in Calls |-> 0] /\ moves = MaxMoves

DecisionInit == DecisionRest("on")

Count(c) == Len(Buttons[c])

(* The buttons of the unfinished groups, up to each.                       *)
ButtonsUpTo(pending, st) ==
    LET upTo[i \in 0..Len(pending)] ==
            IF i = 0 THEN 0 ELSE upTo[i - 1] + IF st[pending[i]] = "Done" THEN 0 ELSE Count(pending[i])
    IN  upTo

(* locate: the group and the button of an index over the unfinished groups.*)
Locate(st, index) ==
    LET upTo == ButtonsUpTo(groups, st)
        beyond == {i \in DOMAIN groups : index < upTo[i]}
    IN  IF index = NoSelection \/ beyond = {} THEN <<>>
        ELSE <<groups[Min(beyond)], index - upTo[Min(beyond) - 1] + 1>>

-----------------------------------------------------------------------------
(* append_tool_call: a call without decisions is not pending.              *)
AppendToolCall(c) ==
    /\ view = "on" /\ state[c] = "absent"
    /\ state' = [state EXCEPT ![c] = IF Count(c) = 0 THEN "Done" ELSE "Waiting"]
    /\ groups' = IF Count(c) = 0 THEN groups ELSE Append(groups, c)
    /\ active' = active + Count(c)
    /\ sensitive' = sensitive \cup {c}
    /\ UNCHANGED <<view, current, asked, sent, moves>>

StepIndex(at, delta, len) == Min({Max({at + delta, 1}) - 1, len - 1})      \* clamp; delta is 0 for up, 2 for down

Navigate(delta) ==
    /\ view = "on" /\ moves > 0 /\ moves' = moves - 1 /\ active > 0
    /\ current' = IF current = NoSelection THEN 0 ELSE StepIndex(current, delta, active)
    /\ UNCHANGED <<view, groups, state, sensitive, active, asked, sent>>

(* decision_button: a click disables the group and sends the decision.     *)
Clicked(c, j) ==
    /\ sensitive' = sensitive \ {c}
    /\ asked' = asked \cup {<<c, j>>}
    /\ sent' = [sent EXCEPT ![c] = @ + 1]

(* By the mouse: the state of the section stays Waiting.                   *)
ClickButton(c, j) ==
    /\ view = "on" /\ moves > 0 /\ moves' = moves - 1
    /\ c \in ToSet(groups) /\ state[c] = "Waiting" /\ c \in sensitive
    /\ Clicked(c, j)
    /\ UNCHANGED <<view, groups, state, active, current>>

\* Fault: a group that was decided is activated again.
ActivateAgain ==
    LET at == Locate(state, current)
    IN  /\ view = "on" /\ moves > 0 /\ moves' = moves - 1
        /\ at # <<>>
        /\ state' = [state EXCEPT ![at[1]] = "Decided"] /\ Clicked(at[1], at[2])
        /\ UNCHANGED <<view, groups, active, current>>

(* By Enter, on the selected button.                                       *)
Activate ==
    LET at == Locate(state, current)
    IN  /\ view = "on" /\ moves > 0 /\ moves' = moves - 1
        /\ at # <<>> /\ state[at[1]] = "Waiting" /\ at[1] \in sensitive
        /\ state' = [state EXCEPT ![at[1]] = "Decided"] /\ Clicked(at[1], at[2])
        /\ UNCHANGED <<view, groups, active, current>>

(* active_matching: an answer to "stop asking" answers the waiting groups  *)
(* with exactly one such button.                                           *)
Ignorable(c) == {j \in 1..Count(c) : Buttons[c][j] = "ignore"}
Followers(st) == {c \in ToSet(groups) : st[c] = "Waiting" /\ c \in sensitive /\ Cardinality(Ignorable(c)) = 1}

\* Fault: the buttons of a finished group stay counted.
FinishGroupUncounted(d, allowed) ==
    LET c == d[1]
        mine == c \in ToSet(groups) /\ state[c] # "Done"
    IN  /\ view = "on" /\ d \in asked /\ Buttons[c][d[2]] # "ignore"
        /\ state' = IF mine THEN [state EXCEPT ![c] = "Done"] ELSE state
        /\ current' = IF active > 0 THEN 0 ELSE NoSelection
        /\ asked' = asked \ {d}
        /\ UNCHANGED <<view, groups, sensitive, active, sent, moves>>

(* The core has answered: the group is resolved, and the selection is back *)
(* at the first button that is left.                                       *)
FinishGroup(d, allowed) ==
    LET c == d[1]
        mine == c \in ToSet(groups) /\ state[c] # "Done"
        resolved == IF mine THEN [state EXCEPT ![c] = "Done"] ELSE state
        follow == IF allowed /\ Buttons[c][d[2]] = "ignore" THEN Followers(resolved) ELSE {}
    IN  /\ view = "on" /\ d \in asked
        /\ active' = IF mine THEN active - Count(c) ELSE active
        /\ state' = [k \in Calls |-> IF k \in follow THEN "Decided" ELSE resolved[k]]
        /\ sensitive' = sensitive \ follow
        /\ sent' = [k \in Calls |-> IF k \in follow THEN sent[k] + 1 ELSE sent[k]]
        /\ asked' = (asked \ {d}) \cup {<<k, CHOOSE j \in Ignorable(k) : TRUE>> : k \in follow}
        /\ current' = IF active' > 0 THEN 0 ELSE NoSelection
        /\ UNCHANGED <<view, groups, moves>>

(* complete_turn, and clear: what still waits is resolved with the turn.   *)
EndOfTurn ==
    /\ view = "on" /\ groups # <<>>
    /\ state' = [c \in Calls |-> IF c \in ToSet(groups) THEN "Done" ELSE state[c]]
    /\ groups' = <<>> /\ active' = 0 /\ current' = NoSelection
    /\ UNCHANGED <<view, sensitive, asked, sent, moves>>

DecisionNext ==
    \/ \E c \in Calls : AppendToolCall(c) \/ \E j \in 1..Count(c) : ClickButton(c, j)
    \/ \E delta \in {0, 2} : Navigate(delta)
    \/ Activate
    \/ \E d \in asked, allowed \in BOOLEAN : FinishGroup(d, allowed)
    \/ EndOfTurn

-----------------------------------------------------------------------------
(* The count of active buttons is that of the groups that are not done, so *)
(* that it never goes below zero, and a selection always has its button:   *)
(* through answers in any order, answers that come after the end of the    *)
(* turn, and "stop asking", which decides several groups at once.          *)
SelectionIsLive ==
    /\ active = ButtonsUpTo(groups, state)[Len(groups)]
    /\ current # NoSelection => Locate(state, current) # <<>>

(* One decision is sent for a tool call, by whichever of the keyboard, the *)
(* mouse and "stop asking" comes first.                                    *)
OneDecisionPerCall == \A c \in Calls : sent[c] <= 1
=============================================================================
