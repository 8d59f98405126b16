--------------------------- MODULE SessionReplay ----------------------------
(***************************************************************************)
(* What the windows of one session are shown: core/src/session/            *)
(* session_manager.rs with the events that exhaust_events and the tool     *)
(* tasks of turn_manager.rs give it.  A window that is open gets each      *)
(* event as it is added; one that is opened later gets the stored history  *)
(* and then `delta`, what was streamed and is not stored yet.              *)
(*                                                                         *)
(* A piece is a number: a prompt, a call, or some text.  How a cancel      *)
(* overtakes the turn is the subject of ChatTurn: here it ends it at once. *)
(***************************************************************************)
EXTENDS SessionHistory, FiniteSets

CONSTANTS
    MaxShown,    \* bound: pieces
    MaxReopens,  \* bound: windows opened after the first
    MaxFailures  \* bound: rows that cannot be stored

VARIABLES
    turnPhase,   \* "rest", "stream", "tools", "removed", or "off"
    streamed,    \* the item being streamed: [kind, text], kind being "none" between items
    step,        \* the calls of the step
    stored,      \* the history, whose rows also have their text
    delta,       \* Session::delta
    terminal,    \* Session::terminal
    subscriber,  \* Session::subscriber: "none", "held" or "ready"
    asks,        \* calls that wait for the user
    tracked,     \* calls the permission workflow manager has an entry of
    screen,      \* what the window has been shown
    live,        \* history: what a window that never closed would have been shown
    gone,        \* history: pieces that were shown and are not stored
    missing,     \* history: calls the window was not shown when it was opened
    shownPieces, reopened, failures

replayVars == <<turnPhase, streamed, step, stored, delta, terminal, subscriber, asks, tracked,
                screen, live, gone, missing, shownPieces, reopened, failures>>

NoItem == [kind |-> "none", text |-> <<>>]
Fresh == shownPieces + 1

(* A row of the history table with its payload.                            *)
StoredRow(type, call, text) == [type |-> type, call |-> call, turn |-> 0, text |-> text]

(* RenderEvent; `ask` stands for the decisions offered with a call.        *)
Render(event, text, ask) == [event |-> event, text |-> text, ask |-> ask]

ReplayRest(where) ==
    /\ turnPhase = where /\ streamed = NoItem /\ step = {} /\ stored = <<>> /\ delta = <<>>
    /\ terminal = "Done" /\ subscriber = "none" /\ asks = {} /\ tracked = {}
    /\ screen = <<>> /\ live = <<>> /\ gone = {} /\ missing = {}
    /\ shownPieces = 0 /\ reopened = 0 /\ failures = 0
ReplayInit == ReplayRest("rest")

-----------------------------------------------------------------------------
\* Fault: a stored message leaves its deltas in place.
UpdateKeepingDeltas(d, type) == IF type = "reasoning" THEN SelectSeq(d, LAMBDA e : e.event # "Reasoning") ELSE d

(* Session::update for an item: the deltas it completes go.                *)
Update(d, type) ==
    CASE type = "message" -> SelectSeq(d, LAMBDA e : e.event # "Text")
      [] type = "reasoning" -> SelectSeq(d, LAMBDA e : e.event # "Reasoning")
      [] OTHER -> d

(* add_event: what is rendered goes to the subscriber that is not held.    *)
Publish(events) ==
    /\ live' = live \o events
    /\ screen' = IF subscriber = "ready" THEN screen \o events ELSE screen

(* add_event of an item: it is stored, then rendered; to_render_event      *)
(* gives nothing for messages, reasoning and results.  If it cannot be     *)
(* stored, nothing of the rest happens and the caller goes on.             *)
AddOutputItem(row, events) ==
    \/ /\ stored' = Append(stored, row) /\ delta' = Update(delta, row.type) /\ Publish(events)
       /\ UNCHANGED <<gone, failures>>
    \/ /\ failures < MaxFailures /\ failures' = failures + 1
       /\ gone' = gone \cup Range(row.text)
       /\ UNCHANGED <<stored, delta, live, screen>>

-----------------------------------------------------------------------------
(* start_chat_stream subscribes and the turn manager adds the prompt.      *)
SubmitPrompt ==
    /\ turnPhase = "rest" /\ subscriber # "held" /\ shownPieces < MaxShown
    /\ turnPhase' = "stream" /\ terminal' = "Running" /\ subscriber' = "ready"
    /\ stored' = Append(stored, StoredRow("user_prompt", NoCall, <<Fresh>>))
    /\ LET event == <<Render("Prompt", <<Fresh>>, FALSE)>>
       IN  screen' = screen \o event /\ live' = live \o event
    /\ shownPieces' = Fresh /\ step' = {} /\ streamed' = NoItem
    /\ UNCHANGED <<delta, asks, tracked, gone, reopened, failures, missing>>

(* TextDelta and ReasoningDelta.                                           *)
AddDelta(kind) ==
    /\ turnPhase = "stream" /\ shownPieces < MaxShown /\ streamed.kind \in {"none", kind}
    /\ streamed' = [kind |-> kind, text |-> Append(streamed.text, Fresh)]
    /\ LET event == Render(kind, <<Fresh>>, FALSE)
       IN  delta' = Append(delta, event) /\ Publish(<<event>>)
    /\ shownPieces' = Fresh
    /\ UNCHANGED <<turnPhase, step, stored, terminal, subscriber, asks, tracked, gone, reopened, failures, missing>>

(* The item that was streamed is complete.                                 *)
AddStreamedItem ==
    /\ turnPhase = "stream" /\ streamed # NoItem /\ streamed' = NoItem
    /\ AddOutputItem(StoredRow(IF streamed.kind = "Text" THEN "message" ELSE "reasoning", NoCall, streamed.text), <<>>)
    /\ UNCHANGED <<turnPhase, step, terminal, subscriber, asks, tracked, shownPieces, reopened, missing>>

(* exhaust_events has begun the call's permission workflow; tool_call_-    *)
(* render asks it for the decisions.  A call is run even if its row is     *)
(* not stored.                                                             *)
AddToolCall(ask) ==
    /\ turnPhase = "stream" /\ streamed = NoItem /\ shownPieces < MaxShown
    /\ AddOutputItem(StoredRow("tool_call", Fresh, <<Fresh>>), <<Render("ToolCall", <<Fresh>>, ask)>>)
    /\ step' = step \cup {Fresh} /\ tracked' = tracked \cup {Fresh}
    /\ asks' = IF ask THEN asks \cup {Fresh} ELSE asks
    /\ shownPieces' = Fresh
    /\ UNCHANGED <<turnPhase, streamed, terminal, subscriber, reopened, missing>>

(* hosted_tool_render: a call the service made itself has no result.       *)
AddHostedTool ==
    /\ turnPhase = "stream" /\ streamed = NoItem /\ shownPieces < MaxShown
    /\ AddOutputItem(StoredRow("hosted", NoCall, <<Fresh>>), <<Render("ToolCall", <<Fresh>>, FALSE)>>)
    /\ shownPieces' = Fresh
    /\ UNCHANGED <<turnPhase, streamed, step, terminal, subscriber, asks, tracked, reopened, missing>>

(* The Done of a step with calls is not forwarded.                         *)
EndStep ==
    /\ turnPhase = "stream" /\ streamed = NoItem /\ step # {} /\ turnPhase' = "tools"
    /\ UNCHANGED <<streamed, step, stored, delta, terminal, subscriber, asks, tracked, screen, live, gone,
                   shownPieces, reopened, failures, missing>>

(* add_event of Done: a subscriber that was told is let go.                *)
EndTurn ==
    /\ turnPhase = "stream" /\ streamed = NoItem /\ step = {}
    /\ turnPhase' = "rest" /\ terminal' = "Done" /\ delta' = <<>>
    /\ subscriber' = IF subscriber = "ready" THEN "none" ELSE subscriber
    /\ UNCHANGED <<streamed, step, stored, asks, tracked, screen, live, gone, shownPieces, reopened, failures, missing>>

(* The user answers, and the manager forgets an answered call after        *)
(* PERMISSION_EVICT_TTL_SECS.                                              *)
DecideCall(c) ==
    /\ c \in asks /\ asks' = asks \ {c}
    /\ UNCHANGED <<turnPhase, streamed, step, stored, delta, terminal, subscriber, tracked, screen, live, gone,
                   shownPieces, reopened, failures, missing>>

SweepCalls ==
    /\ tracked # asks /\ tracked' = asks
    /\ UNCHANGED <<turnPhase, streamed, step, stored, delta, terminal, subscriber, asks, screen, live, gone,
                   shownPieces, reopened, failures, missing>>

(* tool_call: the results are stored once all tools have ended, in the     *)
(* order of the calls; then the next step is requested.                    *)
StoreResults ==
    /\ turnPhase = "tools" /\ step \cap asks = {} /\ turnPhase' = "stream" /\ step' = {}
    /\ stored' = stored \o LET calls == SetToSortSeq(step, <)
                           IN  [i \in DOMAIN calls |-> StoredRow("tool_result", calls[i], <<>>)]
    /\ UNCHANGED <<streamed, delta, terminal, subscriber, asks, tracked, screen, live, gone,
                   shownPieces, reopened, failures, missing>>

-----------------------------------------------------------------------------
(* cancel_session after an error or a cancel: the history is repaired, and *)
(* a session of which nothing is left is removed.                          *)
CancelSession ==
    LET left == Cleanup(stored)
    IN  /\ stored' = left
        /\ gone' = gone \cup {e \in 1..shownPieces : \A i \in DOMAIN left :
                                left[i].type \in {"tool_result", "reasoning"} \/ e \notin Range(left[i].text)}
        /\ turnPhase' = IF left = <<>> THEN "removed" ELSE "rest"
        /\ delta' = <<>> /\ streamed' = NoItem /\ step' = {} /\ asks' = {} /\ tracked' = {}
        /\ UNCHANGED <<screen, live, shownPieces, reopened, failures, missing>>

(* add_event of Err; a tool task may fail to make the next request too.    *)
FailTurn ==
    /\ turnPhase = "stream" /\ terminal' = "Error" /\ CancelSession
    /\ subscriber' = IF subscriber = "ready" THEN "none" ELSE subscriber

(* cancel_event: Gated::take leaves a subscriber that is held.             *)
CancelTurn ==
    /\ terminal = "Running" /\ turnPhase # "removed" /\ terminal' = "Cancel" /\ CancelSession
    /\ subscriber' = IF subscriber = "ready" THEN "none" ELSE subscriber

-----------------------------------------------------------------------------
(* A window is opened on the session: subscribe with hold, then            *)
(* restore_session.                                                        *)
SubscribeHeld ==
    /\ turnPhase \notin {"off", "removed"} /\ stored # <<>> /\ reopened < MaxReopens
    /\ reopened' = reopened + 1 /\ subscriber' = "held" /\ screen' = <<>>
    /\ UNCHANGED <<turnPhase, streamed, step, stored, delta, terminal, asks, tracked, live, gone,
                   shownPieces, failures, missing>>

Finished(call) == \E i \in DOMAIN stored : stored[i].type = "tool_result" /\ stored[i].call = call

(* A row as it is shown again.  A call that is under way is shown only if  *)
(* check_decision knows it.                                                *)
Replayed(row) ==
    CASE row.type = "user_prompt" -> <<Render("Prompt", row.text, FALSE)>>
      [] row.type = "message" -> <<Render("Text", row.text, FALSE)>>
      [] row.type = "hosted" -> <<Render("ToolCall", row.text, FALSE)>>
      [] row.type = "tool_call" /\ Finished(row.call) -> <<Render("ToolCall", row.text, FALSE)>>
      [] row.type = "tool_call" /\ ~Finished(row.call) /\ row.call \in tracked ->
            <<Render("ToolCall", row.text, row.call \in asks)>>
      [] OTHER -> <<>>

\* Fault: what is being streamed is not replayed.
RestoreHistoryOnly ==
    /\ turnPhase # "removed" /\ subscriber = "held"
    /\ screen' = FlattenSeq([i \in DOMAIN stored |-> Replayed(stored[i])])
    /\ subscriber' = IF terminal = "Running" THEN "ready" ELSE "none"
    /\ missing' = {c \in step \ tracked : ~Finished(c)}
    /\ UNCHANGED <<turnPhase, streamed, step, stored, delta, terminal, asks, tracked, live, gone,
                   shownPieces, reopened, failures>>

RestoreSession ==
    /\ turnPhase # "removed" /\ subscriber = "held"
    /\ screen' = FlattenSeq([i \in DOMAIN stored |-> Replayed(stored[i])])
                   \o (IF terminal = "Running" THEN delta ELSE <<>>)
    /\ subscriber' = IF terminal = "Running" THEN "ready" ELSE "none"
    /\ missing' = {c \in step \ tracked : ~Finished(c)}
    /\ UNCHANGED <<turnPhase, streamed, step, stored, delta, terminal, asks, tracked, live, gone,
                   shownPieces, reopened, failures>>

ReplayNext ==
    \/ SubmitPrompt \/ AddStreamedItem \/ AddHostedTool \/ EndStep \/ EndTurn
    \/ \E kind \in {"Text", "Reasoning"} : AddDelta(kind)
    \/ \E ask \in BOOLEAN : AddToolCall(ask)
    \/ \E c \in asks : DecideCall(c)
    \/ SweepCalls \/ StoreResults \/ FailTurn \/ CancelTurn \/ SubscribeHeld \/ RestoreSession

-----------------------------------------------------------------------------
(* The pieces of prompts, answers and calls in the order they were shown.  *)
Said(events) ==
    LET shown == SelectSeq(events, LAMBDA e : e.event # "Reasoning")
    IN  FlattenSeq([i \in DOMAIN shown |-> shown[i].text])

(* A window that was opened at any moment shows what one that was open all *)
(* along shows: every prompt, answer and call once and in the same order;  *)
(* what is being thought; and the question of every call that waits for    *)
(* the user.  Only what is not stored, after a failure or a cancel, may be *)
(* missing, and a call that the manager had forgotten while it ran.        *)
WindowsAgree ==
    (subscriber # "held" /\ turnPhase # "removed") =>
        LET Known(p) == p \notin gone \cup missing
        IN  /\ SelectSeq(Said(screen), Known) = SelectSeq(Said(live), Known)
            /\ \A i \in DOMAIN delta : \E j \in DOMAIN screen : screen[j] = delta[i]
            /\ \A c \in asks \ gone : \E j \in DOMAIN screen : screen[j] = Render("ToolCall", <<c>>, TRUE)
=============================================================================
