------------------------------ MODULE ChatTurn ------------------------------
(***************************************************************************)
(* One chat session: the turn manager, the tasks it spawns, the session    *)
(* manager with its stored history, and the front end that talks to both.  *)
(*                                                                         *)
(*   RemoteQuery      chat, cancel, restore_session, remove_session: each  *)
(*                    is a short sequence of requests, and other steps may *)
(*                    come between two of them;                            *)
(*   TurnManager      handles the messages of its mailbox, turnQ, in order; *)
(*   tasks            a step of a turn: it sends history items to the      *)
(*                    session manager and, last, ToolCall or Done to turnQ *)
(*                    without waiting;                                     *)
(*   SessionManager   every request to it is answered before the caller    *)
(*                    goes on, so that a handler is one atomic step of the *)
(*                    caller.                                              *)
(*                                                                         *)
(* Left out: what the items say, the deltas between them, the permission   *)
(* workflow (PermissionWorkflow.tla) and failures of the database.         *)
(***************************************************************************)
EXTENDS SessionHistory, FiniteSets

CONSTANTS
    Slots,        \* bound: tasks that exist at the same time, 1..n
    MaxTurns,     \* bound: prompts
    MaxItems,     \* bound: items of one answer of the provider
    MaxSteps,     \* bound: tool steps of one turn
    MaxCancels, MaxRestores, MaxRemoves, MaxCrashes,   \* bounds
    MaxBreaks,    \* bound: provider streams that end without Done or Error
    MaxEvents,    \* bound: cancels, reopenings, removals, crashes and breaks together
    Patient       \* the user prompts and cancels only once the last request settled

ASSUME ChatTurnAssumption ==
    /\ {MaxTurns, MaxItems, MaxSteps} \subseteq Nat
    /\ {MaxCancels, MaxRestores, MaxRemoves, MaxCrashes, MaxBreaks, MaxEvents} \subseteq Nat
    /\ Slots \subseteq Nat \ {0} /\ IsFiniteSet(Slots)
    /\ Patient \in BOOLEAN

VARIABLES
    turnQ,     \* the mailbox of the turn manager
    turnMap,   \* its entry for the session: the state and, if Running, the task's handle
    tasks,     \* the spawned tasks
    session,   \* the session manager's entry (and the row in `sessions`)
    history,   \* the session's rows in `history`
    rx,        \* the front end's latest event stream, by the last thing it saw
    chat, cancel, restore, remove,   \* where the front end's requests are
    spent      \* the budgets used up so far

turnVars == <<turnQ, turnMap>>
sessionVars == <<session, history, rx>>
clientVars == <<chat, cancel, restore, remove>>
vars == <<turnQ, turnMap, tasks, session, history, rx, chat, cancel, restore, remove, spent>>
-----------------------------------------------------------------------------
Phase == {"idle", "prepare", "prompted", "request", "stream", "tools", "results",
          "sendCalls", "sendDone"}
(* `dying`: aborted while a worker thread is polling it; the task may still *)
(* finish the piece of code up to its next await.                          *)
Idle == [phase |-> "idle", turn |-> 0, step |-> 0, items |-> 0, calls |-> <<>>, dying |-> FALSE]
Task(phase, turn, step, calls) ==
    [Idle EXCEPT !.phase = phase, !.turn = turn, !.step = step, !.calls = calls]

Msg(type, turn, step, calls) == [type |-> type, turn |-> turn, step |-> step, calls |-> calls]
Note(type) == Msg(type, 0, 0, <<>>)

NoTurn == [state |-> "None", task |-> 0]

(* Gated: the sender of the stream, none, held back or ready.              *)
NoSession == [present |-> FALSE, terminal |-> "Done", sub |-> "none"]
NewSession == [present |-> TRUE, terminal |-> "Done", sub |-> "none"]

NoChat == [pc |-> "idle", isNew |-> FALSE]

Init ==
    /\ turnQ = <<>> /\ turnMap = NoTurn
    /\ tasks = [t \in Slots |-> Idle]
    /\ session = NoSession /\ history = <<>>
    /\ rx = "none"
    /\ chat = NoChat /\ cancel = "idle" /\ restore = "idle" /\ remove = "idle"
    /\ spent = [turns |-> 0, calls |-> 0, cancels |-> 0, restores |-> 0, removes |-> 0, crashes |-> 0,
                breaks |-> 0]

(* The bounds.                                                             *)
Spend(budget, limit) == spent[budget] < limit /\ spent' = [spent EXCEPT ![budget] = @ + 1]
SpendEvent(budget, limit) ==
    /\ spent.cancels + spent.restores + spent.removes + spent.crashes + spent.breaks < MaxEvents
    /\ Spend(budget, limit)
-----------------------------------------------------------------------------
(* The session manager.                                                    *)

Running == session.present /\ session.terminal = "Running"

(* Dropping the sender ends a stream that was still open.                  *)
Closed == IF rx = "live" THEN "closed" ELSE rx

(* cancel_session: repair the history; a session with nothing left goes.   *)
Repair(s, r) ==
    /\ history' = Cleanup(history)
    /\ session' = IF history' = <<>> THEN NoSession ELSE s
    /\ rx' = IF history' = <<>> /\ r = "live" THEN "closed" ELSE r

\* Fault: only the session's existence is checked.
AddItemAnytime(type, call, turn) ==
    /\ history' = IF session.present THEN Append(history, Row(type, call, turn)) ELSE history
    /\ UNCHANGED <<session, rx>>

(* add_event with an item of the answer or a tool result.                  *)
AddItem(type, call, turn) ==
    /\ history' = IF Running THEN Append(history, Row(type, call, turn)) ELSE history
    /\ UNCHANGED <<session, rx>>

(* add_event with a prompt, when the session is there.                     *)
AddPrompt(turn) ==
    /\ history' = Append(history, Row("user_prompt", NoCall, turn))
    /\ session' = [session EXCEPT !.terminal = "Running"]
    /\ UNCHANGED rx

(* The subscriber gets a terminal event, and is let go, unless it is held. *)
Published(event) ==
    IF session.sub = "ready"
    THEN [sub |-> "none", rx |-> IF rx = "live" THEN event ELSE rx]
    ELSE [sub |-> session.sub, rx |-> rx]

(* add_event with Done.                                                    *)
AddDone ==
    /\ session' = IF Running
                  THEN [session EXCEPT !.terminal = "Done", !.sub = Published("Done").sub]
                  ELSE session
    /\ rx' = IF Running THEN Published("Done").rx ELSE rx
    /\ UNCHANGED history

(* add_event with an error: publish it, then repair the history.           *)
AddErr ==
    IF Running
    THEN Repair([session EXCEPT !.terminal = "Error", !.sub = Published("Error").sub],
                Published("Error").rx)
    ELSE UNCHANGED sessionVars

\* Fault: the subscriber is dropped with the session before it is told.
CancelEventUnpublished ==
    IF Running
    THEN Repair([session EXCEPT !.terminal = "Cancel", !.sub = "none"], Closed)
    ELSE UNCHANGED sessionVars

(* cancel_event; for an unknown session it returns an error.               *)
CancelEvent ==
    IF Running
    THEN Repair([session EXCEPT !.terminal = "Cancel", !.sub = Published("Cancel").sub],
                Published("Cancel").rx)
    ELSE UNCHANGED sessionVars

(* subscribe: the new stream replaces the one before it.                   *)
Subscribe(gate) ==
    /\ session' = [session EXCEPT !.sub = gate]
    /\ rx' = "live"
    /\ UNCHANGED history

(* remove_session.                                                         *)
RemoveSession(r) ==
    /\ session' = NoSession
    /\ history' = <<>>
    /\ rx' = r
-----------------------------------------------------------------------------
(* The tasks.                                                              *)

(* A task that goes on; an aborted one stops at its next await.            *)
Goes(t, next) == tasks' = [tasks EXCEPT ![t] = IF @.dying THEN Idle ELSE next]
To(t, phase) == Goes(t, [tasks[t] EXCEPT !.phase = phase])

Reply(pc) == chat' = IF chat.pc = "started" THEN [chat EXCEPT !.pc = pc] ELSE chat

(* The prompt is stored once the model's configuration and the history     *)
(* have been read; otherwise the request fails.                            *)
Prepare(t) ==
    /\ tasks[t].phase = "prepare"
    /\ \/ /\ session.present
          /\ AddPrompt(tasks[t].turn)
          /\ To(t, "prompted")
          /\ IF tasks[t].dying THEN Reply("failed") ELSE UNCHANGED chat
       \/ /\ Reply("failed")
          /\ To(t, "sendDone")
          /\ UNCHANGED sessionVars
    /\ UNCHANGED <<turnVars, cancel, restore, remove, spent>>

Accept(t) ==
    /\ tasks[t].phase = "prompted"
    /\ Reply("accepted")
    /\ To(t, "request")
    /\ UNCHANGED <<turnVars, sessionVars, cancel, restore, remove, spent>>

Request(t) ==
    /\ tasks[t].phase = "request"
    /\ \/ To(t, "stream") /\ UNCHANGED sessionVars
       \/ To(t, "sendDone") /\ AddErr
    /\ UNCHANGED <<turnVars, clientVars, spent>>

(* exhaust_events: an item of the answer.                                  *)
Item(t, type) ==
    /\ tasks[t].phase = "stream"
    /\ tasks[t].items < MaxItems
    /\ AddItem(type, NoCall, tasks[t].turn)
    /\ Goes(t, [tasks[t] EXCEPT !.items = @ + 1])
    /\ UNCHANGED <<turnVars, clientVars, spent>>

ToolCallItem(t) ==
    LET call == spent.calls + 1 IN
    /\ tasks[t].phase = "stream"
    /\ tasks[t].items < MaxItems /\ tasks[t].step < MaxSteps
    /\ AddItem("tool_call", call, tasks[t].turn)
    /\ Goes(t, [tasks[t] EXCEPT !.items = @ + 1, !.calls = Append(@, call)])
    /\ spent' = [spent EXCEPT !.calls = call]
    /\ UNCHANGED <<turnVars, clientVars>>

\* Fault: whether there are calls is not asked.
AfterStreamAlwaysCalls(t) == "sendCalls"

(* run_step: a step with tool calls is not the turn's last.                *)
AfterStream(t) == IF tasks[t].calls = <<>> THEN "sendDone" ELSE "sendCalls"

\* Fault: Done is never forwarded to the session.
StreamDoneSilent(t) ==
    /\ tasks[t].phase = "stream"
    /\ To(t, AfterStream(t))
    /\ UNCHANGED <<turnVars, sessionVars, clientVars, spent>>

StreamDone(t) ==
    /\ tasks[t].phase = "stream"
    /\ IF tasks[t].calls = <<>> THEN AddDone ELSE UNCHANGED sessionVars
    /\ To(t, AfterStream(t))
    /\ UNCHANGED <<turnVars, clientVars, spent>>

StreamError(t) ==
    /\ tasks[t].phase = "stream"
    /\ Goes(t, [tasks[t] EXCEPT !.phase = "sendDone", !.calls = <<>>])
    /\ AddErr
    /\ UNCHANGED <<turnVars, clientVars, spent>>

(* The stream is dropped without a terminal event.                         *)
StreamStops(t) ==
    /\ tasks[t].phase = "stream"
    /\ SpendEvent("breaks", MaxBreaks)
    /\ To(t, AfterStream(t))
    /\ UNCHANGED <<turnVars, sessionVars, clientVars>>

Send(t) ==
    /\ tasks[t].phase \in {"sendCalls", "sendDone"}
    /\ turnQ' = Append(turnQ,
                  IF tasks[t].phase = "sendCalls"
                  THEN Msg("ToolCall", tasks[t].turn, tasks[t].step + 1, tasks[t].calls)
                  ELSE Note("Done"))
    /\ tasks' = [tasks EXCEPT ![t] = Idle]
    /\ UNCHANGED <<turnMap, sessionVars, clientVars, spent>>

(* join_all: all tools have returned, whatever came of them.               *)
RunTools(t) ==
    /\ tasks[t].phase = "tools"
    /\ To(t, "results")
    /\ UNCHANGED <<turnVars, sessionVars, clientVars, spent>>

\* Fault: the request does not wait for the last result.
AddResultButLast(t) ==
    LET rest == Tail(tasks[t].calls) IN
    /\ tasks[t].phase = "results"
    /\ IF rest = <<>> THEN UNCHANGED sessionVars
       ELSE AddItem("tool_result", Head(tasks[t].calls), tasks[t].turn)
    /\ Goes(t, [tasks[t] EXCEPT !.calls = rest, !.phase = IF rest = <<>> THEN "request" ELSE @])
    /\ UNCHANGED <<turnVars, clientVars, spent>>

(* The results are stored in the order of the calls.                       *)
AddResult(t) ==
    LET rest == Tail(tasks[t].calls) IN
    /\ tasks[t].phase = "results"
    /\ AddItem("tool_result", Head(tasks[t].calls), tasks[t].turn)
    /\ Goes(t, [tasks[t] EXCEPT !.calls = rest, !.phase = IF rest = <<>> THEN "request" ELSE @])
    /\ UNCHANGED <<turnVars, clientVars, spent>>

(* An aborted task is dropped, and with it the promise of an answer.       *)
Reap(t) ==
    /\ tasks[t].dying
    /\ IF tasks[t].phase \in {"prepare", "prompted"} THEN Reply("failed") ELSE UNCHANGED chat
    /\ tasks' = [tasks EXCEPT ![t] = Idle]
    /\ UNCHANGED <<turnVars, sessionVars, cancel, restore, remove, spent>>

TaskStep(t) ==
    \/ Prepare(t) \/ Accept(t) \/ Request(t)
    \/ Item(t, "reasoning") \/ Item(t, "message") \/ ToolCallItem(t)
    \/ StreamDone(t) \/ StreamError(t) \/ StreamStops(t)
    \/ Send(t) \/ RunTools(t) \/ AddResult(t) \/ Reap(t)
-----------------------------------------------------------------------------
(* The turn manager.                                                       *)

Receives(type) == turnQ # <<>> /\ Head(turnQ).type = type /\ turnQ' = Tail(turnQ)

Spawn(t, task) ==
    /\ tasks[t].phase = "idle"
    /\ \A u \in Slots : tasks[u].phase = "idle" => t <= u
    /\ tasks' = [tasks EXCEPT ![t] = task]
    /\ turnMap' = [state |-> "Running", task |-> t]

(* start_chat: a handle that was there is overwritten.                     *)
HandleStart ==
    /\ Receives("Start")
    /\ \E t \in Slots : Spawn(t, Task("prepare", Head(turnQ).turn, 0, <<>>))
    /\ UNCHANGED <<sessionVars, clientVars, spent>>

\* Fault: only a dropped session stops the turn.
HandleToolCallUnlessDropped ==
    /\ Receives("ToolCall")
    /\ IF turnMap.state # "None"
       THEN \E t \in Slots :
              Spawn(t, Task("tools", Head(turnQ).turn, Head(turnQ).step, Head(turnQ).calls))
       ELSE UNCHANGED <<turnMap, tasks>>
    /\ UNCHANGED <<sessionVars, clientVars, spent>>

HandleToolCall ==
    /\ Receives("ToolCall")
    /\ IF turnMap.state = "Running"
       THEN \E t \in Slots :
              Spawn(t, Task("tools", Head(turnQ).turn, Head(turnQ).step, Head(turnQ).calls))
       ELSE UNCHANGED <<turnMap, tasks>>
    /\ UNCHANGED <<sessionVars, clientVars, spent>>

Abort ==
    IF turnMap.state = "Running" /\ tasks[turnMap.task].phase # "idle"
    THEN tasks' = [tasks EXCEPT ![turnMap.task].dying = TRUE]
    ELSE UNCHANGED tasks

\* Fault: the state is changed and the task is left running.
HandleCancelKeepsTask ==
    /\ Receives("Cancel")
    /\ IF turnMap.state = "Running"
       THEN turnMap' = [NoTurn EXCEPT !.state = "Cancelled"] /\ cancel' = "yes"
       ELSE UNCHANGED turnMap /\ cancel' = "idle"
    /\ UNCHANGED <<tasks, sessionVars, chat, restore, remove, spent>>

\* Fault: the caller is told that there was nothing to abort.
HandleCancelReportsNothing ==
    /\ Receives("Cancel")
    /\ turnMap' = IF turnMap.state = "Running" THEN [NoTurn EXCEPT !.state = "Cancelled"] ELSE turnMap
    /\ cancel' = "idle"
    /\ Abort
    /\ UNCHANGED <<sessionVars, chat, restore, remove, spent>>

(* abort_turn; the caller learns whether there was a turn to abort.        *)
HandleCancel ==
    /\ Receives("Cancel")
    /\ IF turnMap.state = "Running"
       THEN turnMap' = [NoTurn EXCEPT !.state = "Cancelled"] /\ cancel' = "yes"
       ELSE UNCHANGED turnMap /\ cancel' = "idle"
    /\ Abort
    /\ UNCHANGED <<sessionVars, chat, restore, remove, spent>>

(* drop_turn.                                                              *)
HandleDrop ==
    /\ Receives("Drop")
    /\ turnMap' = NoTurn
    /\ Abort
    /\ remove' = "dropped"
    /\ UNCHANGED <<sessionVars, chat, cancel, restore, spent>>

(* mark_step_done: whichever task it comes from.                           *)
HandleDone ==
    /\ Receives("Done")
    /\ turnMap' = IF turnMap.state = "Running" THEN [NoTurn EXCEPT !.state = "Done"] ELSE turnMap
    /\ UNCHANGED <<tasks, sessionVars, clientVars, spent>>

TurnManager == HandleStart \/ HandleToolCall \/ HandleCancel \/ HandleDrop \/ HandleDone
-----------------------------------------------------------------------------
(* The front end.  A window shows one stream: the next prompt is typed     *)
(* when the stream has ended, a session is reopened at any time.           *)

(* The previous requests are over, the turn manager has noted the end of   *)
(* the last turn, and an aborted task is gone.                             *)
Settled ==
    /\ cancel = "idle" /\ remove = "idle"
    /\ turnMap.state # "Running"
    /\ \A t \in Slots : ~tasks[t].dying

(* chat, first request: ensure_session.                                    *)
ChatEnsure ==
    /\ chat.pc = "idle" /\ restore = "idle" /\ rx # "live"
    /\ Patient => Settled
    /\ Spend("turns", MaxTurns)
    /\ session' = IF session.present THEN session ELSE NewSession
    /\ chat' = [pc |-> "ensured", isNew |-> ~session.present]
    /\ UNCHANGED <<turnVars, tasks, history, rx, cancel, restore, remove>>

(* subscribe(session_id, false).                                           *)
ChatSubscribe ==
    /\ chat.pc = "ensured"
    /\ \/ session.present /\ Subscribe("ready") /\ chat' = [chat EXCEPT !.pc = "subscribed"]
       \/ ~session.present /\ chat' = [chat EXCEPT !.pc = "failed"] /\ UNCHANGED sessionVars
    /\ UNCHANGED <<turnVars, tasks, cancel, restore, remove, spent>>

ChatStart ==
    /\ chat.pc = "subscribed"
    /\ turnQ' = Append(turnQ, Msg("Start", spent.turns, 0, <<>>))
    /\ chat' = [chat EXCEPT !.pc = "started"]
    /\ UNCHANGED <<turnMap, tasks, sessionVars, cancel, restore, remove, spent>>

(* The stream is handed out; or the error is shown instead of it and a     *)
(* session that was made for this prompt is removed.                       *)
ChatReturn ==
    /\ \/ chat.pc = "accepted" /\ UNCHANGED sessionVars
       \/ /\ chat.pc = "failed"
          /\ IF chat.isNew THEN RemoveSession("Error")
             ELSE rx' = "Error" /\ UNCHANGED <<session, history>>
    /\ chat' = NoChat
    /\ UNCHANGED <<turnVars, tasks, cancel, restore, remove, spent>>

CancelSend ==
    /\ cancel = "idle"
    /\ Patient => chat.pc = "idle"
    /\ spent.turns > 0
    /\ SpendEvent("cancels", MaxCancels)
    /\ turnQ' = Append(turnQ, Note("Cancel"))
    /\ cancel' = "sent"
    /\ UNCHANGED <<turnMap, tasks, sessionVars, chat, restore, remove>>

CancelReturn ==
    /\ cancel = "yes"
    /\ cancel' = "idle"
    /\ CancelEvent
    /\ UNCHANGED <<turnVars, tasks, chat, restore, remove, spent>>

(* restore_session, first request: subscribe(session_id, true).            *)
RestoreSubscribe ==
    /\ restore = "idle" /\ chat.pc = "idle" /\ session.present
    /\ SpendEvent("restores", MaxRestores)
    /\ Subscribe("held")
    /\ restore' = "subscribed"
    /\ UNCHANGED <<turnVars, tasks, chat, cancel, remove>>

\* Fault: the replay of a session that is not running forgets the last event.
RestoreReturnReplayOnly ==
    /\ restore = "subscribed"
    /\ IF session.present
       THEN session' = [session EXCEPT !.sub = "ready"] /\ UNCHANGED rx
       ELSE rx' = "Error" /\ UNCHANGED session
    /\ restore' = "idle"
    /\ UNCHANGED <<turnVars, tasks, history, chat, cancel, remove, spent>>

(* restore_session: release the gate, replay; a session that is not        *)
(* running is done.                                                        *)
RestoreReturn ==
    /\ restore = "subscribed"
    /\ IF session.present
       THEN /\ session' = [session EXCEPT !.sub = IF Running /\ @ # "none" THEN "ready" ELSE "none"]
            /\ rx' = IF ~Running /\ rx = "live" THEN "Done" ELSE rx
       ELSE rx' = "Error" /\ UNCHANGED session
    /\ restore' = "idle"
    /\ UNCHANGED <<turnVars, tasks, history, chat, cancel, remove, spent>>

(* remove_session, first request: drop the turn.                           *)
RemoveSend ==
    /\ remove = "idle"
    /\ Patient => chat.pc = "idle"
    /\ session.present
    /\ SpendEvent("removes", MaxRemoves)
    /\ turnQ' = Append(turnQ, Note("Drop"))
    /\ remove' = "sent"
    /\ UNCHANGED <<turnMap, tasks, sessionVars, chat, cancel, restore>>

RemoveReturn ==
    /\ remove = "dropped"
    /\ RemoveSession(Closed)
    /\ remove' = "idle"
    /\ UNCHANGED <<turnVars, tasks, chat, cancel, restore, spent>>

FrontEnd ==
    \/ ChatEnsure \/ ChatSubscribe \/ ChatStart \/ ChatReturn
    \/ CancelSend \/ CancelReturn \/ RestoreSubscribe \/ RestoreReturn
    \/ RemoveSend \/ RemoveReturn

(* The program stops anywhere and starts again: restore_sessions repairs   *)
(* the stored history; everything else is gone.                            *)
Restart ==
    /\ SpendEvent("crashes", MaxCrashes)
    /\ history' = Recover(history)
    /\ session' = IF history' = <<>> THEN NoSession ELSE NewSession
    /\ turnQ' = <<>> /\ turnMap' = NoTurn
    /\ tasks' = [t \in Slots |-> Idle]
    /\ rx' = "none"
    /\ chat' = NoChat /\ cancel' = "idle" /\ restore' = "idle" /\ remove' = "idle"

Next == TurnManager \/ FrontEnd \/ Restart \/ \E t \in Slots : TaskStep(t)

(* Everything that has begun goes on: the mailbox is read, tasks are       *)
(* polled, the provider and the tools answer, the front end's requests are *)
(* sent.  Nobody has to prompt, cancel, reopen or remove.                  *)
Fairness ==
    /\ WF_vars(TurnManager)
    /\ \A t \in Slots : WF_vars(TaskStep(t))
    /\ WF_vars(ChatSubscribe \/ ChatStart \/ ChatReturn)
    /\ WF_vars(CancelReturn) /\ WF_vars(RestoreReturn) /\ WF_vars(RemoveReturn)

Spec == Init /\ [][Next]_vars
FairSpec == Spec /\ Fairness
-----------------------------------------------------------------------------
Live(t) == tasks[t].phase # "idle" /\ ~tasks[t].dying

(* The types of the variables; a handle is kept only for a running turn,   *)
(* and a tool step has calls.                                              *)
TypeOK ==
    /\ turnQ \in Seq([type : {"Start", "ToolCall", "Cancel", "Drop", "Done"}, turn : Nat,
                      step : Nat, calls : Seq(Nat)])
    /\ turnMap \in [state : {"None", "Running", "Cancelled", "Done"}, task : Slots \cup {0}]
    /\ tasks \in [Slots -> [phase : Phase, turn : Nat, step : Nat, items : Nat,
                            calls : Seq(Nat), dying : BOOLEAN]]
    /\ turnMap.state = "Running" <=> turnMap.task # 0
    /\ \A t \in Slots : tasks[t].phase \in {"sendCalls", "tools", "results"} => tasks[t].calls # <<>>
    /\ session \in [present : BOOLEAN, terminal : {"Running", "Done", "Error", "Cancel"},
                     sub : {"none", "held", "ready"}]
    /\ history \in Seq([type : PayloadType, call : Nat, turn : Nat])
    /\ rx \in {"none", "live", "Done", "Error", "Cancel", "closed"}
    /\ chat \in [pc : {"idle", "ensured", "subscribed", "started", "accepted", "failed"},
                  isNew : BOOLEAN]
    /\ cancel \in {"idle", "sent", "yes"}
    /\ restore \in {"idle", "subscribed"}
    /\ remove \in {"idle", "sent", "dropped"}
    /\ spent \in [{"turns", "calls", "cancels", "restores", "removes", "crashes", "breaks"} -> Nat]

(* As long as every stream of the provider has ended with Done or Error, a *)
(* session says it is running only while somebody is going to end the      *)
(* turn: a task that will store its end, a tool step the turn manager will *)
(* take up, or a cancel or removal on its way.  Otherwise the window would *)
(* wait for ever and the cancel button would do nothing.                   *)
RunningHasWorker ==
    Running /\ spent.breaks = 0 =>
        \/ \E t \in Slots : Live(t) /\ tasks[t].phase \notin {"prepare", "sendDone"}
        \/ turnMap.state = "Running" /\ \E i \in DOMAIN turnQ : turnQ[i].type = "ToolCall"
        \/ cancel = "yes" \/ remove = "dropped"

(* However the last turn ended (answered, failed, cancelled, cut off by a  *)
(* crash), and whatever a task that was aborted still sent, a session that *)
(* is not running has a history in which every call is answered: the next  *)
(* request is one the providers accept.                                    *)
RestIsValid == session.present /\ ~Running => CallsAnswered(history)

(* A request goes out when every call of the steps before it has its       *)
(* result in the stored history it is built from.                          *)
RequestsAreComplete ==
    \A t \in Slots : Live(t) /\ tasks[t].phase = "request" /\ Running => CallsAnswered(history)

(* Between two prompts there are only rows of the turn the first of them   *)
(* opened: nothing of an earlier turn is stored late.                      *)
TurnsDoNotMix ==
    \A i \in 2..Len(history) :
        history[i].type # "user_prompt" => history[i].turn = history[i - 1].turn

(* One step of the session's turn runs at a time, and it is the one the    *)
(* turn manager holds the handle of: a cancel or removal stops it.         *)
OneTrackedWorker ==
    \A t \in Slots : Live(t) /\ tasks[t].phase # "sendDone" =>
        turnMap = [state |-> "Running", task |-> t]

(* A running session has somebody at work on it, only one, and the turn    *)
(* manager holds its handle: the turn will end, and a cancel or a removal  *)
(* stops it (TurnManager::handle_event, run_step).                         *)
WorkersAreTracked == TypeOK /\ RunningHasWorker /\ OneTrackedWorker

(* What is stored can be sent: at rest, and whenever a step builds its     *)
(* request, every call has its result (Session::update, cancel_session,    *)
(* construct_messages).                                                    *)
HistoryStaysValid == RestIsValid /\ RequestsAreComplete

(* A stream that was handed to the front end does not close without a      *)
(* terminal event, unless the user removed the session; the window would   *)
(* show a turn in progress for ever.                                       *)
NoSilentClose ==
    rx = "closed" => restore = "subscribed" \/ spent.removes > 0

(* Every turn that runs comes to an end.                                   *)
TurnsEnd == Running ~> ~Running

(* Every stream comes to an end: a terminal event or its removal.          *)
StreamsEnd == rx = "live" ~> rx # "live"

(* A turn without further tool calls is complete: once the turn manager    *)
(* has marked it as done, the session is not running any more.             *)
DoneIsComplete == turnMap.state = "Done" => ~Running

(* A tool step of the running turn is taken up: the turn manager drops it  *)
(* only when the turn is being cancelled or its session removed.           *)
ToolStepsContinue ==
    turnQ # <<>> /\ Head(turnQ).type = "ToolCall" /\ Running /\ history # <<>>
        /\ history[Len(history)].turn = Head(turnQ).turn
        => turnMap.state = "Running" \/ cancel = "yes" \/ remove = "dropped"
=============================================================================
