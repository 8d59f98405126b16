------------------------------- MODULE Overlay -------------------------------
(***************************************************************************)
(* The launcher of the Linux front end (gui/linux/src/widgets/overlay).    *)
(*                                                                         *)
(* Model::update (model.rs) is a reducer: it takes a message from the      *)
(* queue and returns commands, which Overlay::run (mod.rs) carries out at  *)
(* once: on the widgets, by spawning a task on the other runtime, or by    *)
(* queueing a message.  Keys are looked up by the mode of the moment they  *)
(* are pressed (keys.rs); tasks queue what they find whenever they find    *)
(* it.  The queue is in order, but the tasks know nothing of each other.   *)
(***************************************************************************)
EXTENDS Naturals, Sequences, FiniteSets

CONSTANTS
    Uuids,          \* ids of sessions
    OldSessions,    \* those that are stored when the launcher starts
    MaxInputs,      \* bound: what the user does in a behaviour
    MaxQueue,       \* bound: messages in the queue when a task adds one
    NoUuid

ASSUME OverlayAssumption == OldSessions \subseteq Uuids /\ NoUuid \notin Uuids

VARIABLES
    ui,         \* "off", "on"
    model,      \* Model
    w,          \* the widgets, the queue and the tasks that were spawned
    inputs,     \* the inputs left
    taken       \* ids of sessions in use

overlayVars == <<ui, model, w, inputs, taken>>

NewModel == [mode |-> "Search", session |-> NoUuid, turn |-> 0, running |-> FALSE, query |-> 0]

NewOverlay ==
    [page |-> "Search", content |-> FALSE, restore |-> FALSE, shown |-> FALSE, footer |-> "idle",
     typed |-> FALSE, debounce |-> FALSE,     \* the text, and the timer after an edit
     rows |-> {},        \* the search list: the queries its sections answer, 0 for the chat row
     chat |-> {},        \* the chat view: the sessions whose events it shows
     open |-> FALSE,     \* history: whether the content was last shown or closed
     queue |-> <<>>, tasks |-> {}]

OverlayRest(where) ==
    /\ ui = where
    /\ model = NewModel /\ w = NewOverlay
    /\ inputs = MaxInputs
    /\ taken = OldSessions

OverlayInit == OverlayRest("on")

-----------------------------------------------------------------------------
(* The reducer.  begin_query and ChatStatus count; ids do not wrap here.   *)

BeginQuery(m) == [m EXCEPT !.query = @ + 1]
BeginTurn(m) == [m EXCEPT !.turn = @ + 1, !.running = TRUE]
EndTurn(m) == [m EXCEPT !.running = FALSE]
ResetTurn(m) == [m EXCEPT !.turn = @ + 1, !.running = FALSE]
ResetModel(m) == BeginQuery(ResetTurn([m EXCEPT !.mode = "Search", !.session = NoUuid]))

With(m, commands) == [model |-> m, commands |-> commands]
Cmd(name) == [cmd |-> name]

\* Fault: an abandoned turn is not told apart.
IsCurrentAlways(m, msg) == TRUE

(* Messages of turns and queries that were abandoned are dropped.          *)
IsCurrent(m, msg) == msg.turn = m.turn
IsQuery(m, msg) == msg.query = m.query

ExitToSearch(m) == With(ResetModel(m), <<Cmd("ClearQuery"), Cmd("HideContent")>>)

UpdateLauncher(m, msg) ==
    CASE msg.msg = "Toggle" -> With(m, <<Cmd("ToggleLauncher")>>)
      [] msg.msg = "OpenSettings" -> With(ResetModel(m), <<Cmd("OpenSettings"), Cmd("HideOverlay")>>)
      [] msg.msg = "QueryChanged" ->
            CASE m.mode = "Search" ->
                    With(BeginQuery(m),
                         <<Cmd("ClearSearchResults"),
                           IF msg.content THEN [cmd |-> "RunSearchQuery", query |-> m.query + 1]
                           ELSE Cmd("HideContent")>>)
              [] m.mode = "Chat" -> With(m, <<>>)
              [] m.mode = "Session" -> With(m, <<Cmd("FilterSessions")>>)

UpdateSearch(m, msg) ==
    CASE msg.msg = "QueryEvent" ->
            With(m, IF ~IsQuery(m, msg) THEN <<>> ELSE <<[cmd |-> "RenderSearchResult", query |-> msg.query]>>)
      [] msg.msg = "QueryFinished" ->
            With(m, IF ~IsQuery(m, msg) THEN <<>>
                    ELSE <<Cmd(IF msg.found THEN "RenderChatAction" ELSE "HideContent")>>)
      [] msg.msg = "ResultAction" -> With(ResetModel(m), <<Cmd("HideOverlay")>>)
      [] msg.msg = "ExitSearch" -> With(ResetModel(m), <<Cmd("ExitSearch")>>)

UpdateChat(m, msg) ==
    CASE msg.msg = "PromptSubmit" ->
            IF m.running THEN With(m, <<>>)
            ELSE With(BeginTurn(m), <<[cmd |-> "SubmitChatPrompt", turn |-> m.turn + 1]>>)
      [] msg.msg = "PreparationFailed" -> With(IF IsCurrent(m, msg) THEN EndTurn(m) ELSE m, <<>>)
      [] msg.msg = "PromptPrepared" ->
            IF ~IsCurrent(m, msg) THEN With(m, <<>>)
            ELSE With([m EXCEPT !.mode = "Chat"],
                      <<Cmd("ShowChatView"), Cmd("RenderChatStart"),
                        [cmd |-> "SendChat", turn |-> msg.turn, session |-> m.session]>>)
      [] msg.msg = "RequestStarted" -> With(IF IsCurrent(m, msg) THEN [m EXCEPT !.session = msg.session] ELSE m, <<>>)
      [] msg.msg = "RenderEvent" ->
            IF ~IsCurrent(m, msg) THEN With(m, <<>>)
            ELSE LET event == [cmd |-> "RenderChatEvent", of |-> msg.of]
                 IN  IF msg.terminal THEN With(EndTurn(m), <<Cmd("RenderChatFinish"), event>>)
                     ELSE With(m, <<event>>)
      [] msg.msg = "Interrupt" ->
            With(m, IF m.session = NoUuid THEN <<>> ELSE <<[cmd |-> "CancelChat", session |-> m.session]>>)

UpdateSession(m, msg) ==
    CASE msg.msg = "ToggleSessions" ->
            IF m.mode = "Session" THEN ExitToSearch(m)
            ELSE LET opened == [BeginQuery(ResetTurn(m)) EXCEPT !.mode = "Session"]
                 IN  IF m.mode = "Chat"
                     THEN With([opened EXCEPT !.session = NoUuid],
                               <<Cmd("ClearQuery"), Cmd("ClearChatContent"), Cmd("OpenSessions")>>)
                     ELSE With(opened, <<Cmd("ClearQuery"), Cmd("OpenSessions")>>)
      [] msg.msg = "Restore" ->
            IF m.session = msg.session THEN With(m, <<>>)
            ELSE With([BeginTurn(m) EXCEPT !.mode = "Chat", !.session = msg.session],
                      <<Cmd("ClearQuery"), Cmd("ClearChatContent"), Cmd("ShowChatView"), Cmd("RenderChatStart"),
                        [cmd |-> "RestoreSession", turn |-> m.turn + 1, session |-> msg.session]>>)
      [] msg.msg = "RestoreFailed" ->
            IF ~IsCurrent(m, msg) THEN With(m, <<>>)
            ELSE With(EndTurn([m EXCEPT !.session = NoUuid]), <<Cmd("RenderChatFinish")>>)

LauncherMsgs == {"Toggle", "OpenSettings", "QueryChanged"}
SearchMsgs == {"QueryEvent", "QueryFinished", "ResultAction", "ExitSearch"}
SessionMsgs == {"ToggleSessions", "Restore", "RestoreFailed"}

Update(m, msg) ==
    CASE msg.msg \in LauncherMsgs -> UpdateLauncher(m, msg)
      [] msg.msg \in SearchMsgs -> UpdateSearch(m, msg)
      [] msg.msg \in SessionMsgs -> UpdateSession(m, msg)
      [] msg.msg = "ContentClose" -> ExitToSearch(m)
      [] OTHER -> UpdateChat(m, msg)

-----------------------------------------------------------------------------
(* The commands.                                                           *)

(* A programmatic change of the text is not reported as an edit.           *)
ClearInput(v) == [v EXCEPT !.typed = FALSE, !.debounce = IF v.typed THEN FALSE ELSE @]

(* While the launcher is hidden, the content is shown by the next summon.  *)
ShowContent(v) ==
    IF v.shown THEN [v EXCEPT !.content = TRUE, !.open = TRUE]
    ELSE [v EXCEPT !.restore = TRUE, !.open = TRUE]

ShowView(v, page, footer) == ShowContent([v EXCEPT !.page = page, !.footer = footer])

\* Fault: a summon after the content was closed brings it back.
CloseContentOnly(v) ==
    [v EXCEPT !.rows = {}, !.chat = {}, !.page = "Search", !.footer = "idle", !.content = FALSE, !.open = FALSE]

CloseContent(v) ==
    [v EXCEPT !.rows = {}, !.chat = {}, !.restore = FALSE, !.page = "Search",
              !.footer = "idle", !.content = FALSE, !.open = FALSE]

Conceal(v) == [v EXCEPT !.restore = v.content, !.shown = FALSE]
Show(v) == [v EXCEPT !.shown = TRUE, !.restore = FALSE, !.content = @ \/ v.restore]
Hide(v) == [CloseContent(ClearInput(v)) EXCEPT !.shown = FALSE]

Enqueue(v, msg) == [v EXCEPT !.queue = Append(@, msg)]
Spawn(v, t) == [v EXCEPT !.tasks = @ \cup {t}]

\* Fault: an empty prompt is refused without a word.
SubmitChatPromptSilently(v, turn) ==
    IF v.typed THEN Spawn(ClearInput(v), [kind |-> "prepare", turn |-> turn]) ELSE ClearInput(v)

(* construct_chat_prompt: an empty prompt is refused, otherwise the        *)
(* preferred model is looked up.                                           *)
SubmitChatPrompt(v, turn) ==
    IF v.typed THEN Spawn(ClearInput(v), [kind |-> "prepare", turn |-> turn])
    ELSE Enqueue(ClearInput(v), [msg |-> "PreparationFailed", turn |-> turn])

(* Commands for the widgets, and commands that start a task.               *)
RunOnLauncher(v, c) ==
    CASE c.cmd = "ToggleLauncher" -> IF v.shown THEN Conceal(v) ELSE Show(v)
      [] c.cmd = "HideOverlay" -> Hide(v)
      [] c.cmd = "ClearQuery" -> ClearInput(v)
      [] c.cmd = "HideContent" -> CloseContent(v)
      [] c.cmd = "ExitSearch" -> IF v.typed THEN ClearInput(CloseContent(v)) ELSE Hide(v)
      [] c.cmd = "OpenSessions" -> ShowView(v, "Session", "session")

RunOnSearch(v, c) ==
    CASE c.cmd = "ClearSearchResults" -> [v EXCEPT !.rows = {}]
      [] c.cmd = "RenderSearchResult" -> ShowView([v EXCEPT !.rows = @ \cup {c.query}], "Search", "search")
      [] c.cmd = "RenderChatAction" -> ShowView([v EXCEPT !.rows = @ \cup {0}], "Search", "search")

RunOnChat(v, c) ==
    CASE c.cmd = "ShowChatView" -> ShowView(v, "Chat", "chat")
      [] c.cmd = "RenderChatStart" -> [v EXCEPT !.footer = "streaming"]
      [] c.cmd = "RenderChatFinish" -> [v EXCEPT !.footer = "chat"]
      [] c.cmd = "RenderChatEvent" -> [v EXCEPT !.chat = @ \cup {c.of}]
      [] c.cmd = "ClearChatContent" -> [v EXCEPT !.chat = {}]

RunAsTask(v, c) ==
    CASE c.cmd = "RunSearchQuery" -> Spawn(v, [kind |-> "search", query |-> c.query, found |-> FALSE])
      [] c.cmd = "SubmitChatPrompt" -> SubmitChatPrompt(v, c.turn)
      [] c.cmd = "SendChat" -> Spawn(v, [kind |-> "chat", turn |-> c.turn, session |-> c.session, at |-> "opening"])
      [] c.cmd = "RestoreSession" ->
            Spawn(v, [kind |-> "restore", turn |-> c.turn, session |-> c.session, at |-> "opening"])

LauncherCmds == {"ToggleLauncher", "HideOverlay", "ClearQuery", "HideContent", "ExitSearch", "OpenSessions"}
SearchCmds == {"ClearSearchResults", "RenderSearchResult", "RenderChatAction"}
ChatCmds == {"ShowChatView", "RenderChatStart", "RenderChatFinish", "RenderChatEvent", "ClearChatContent"}
TaskCmds == {"RunSearchQuery", "SubmitChatPrompt", "SendChat", "RestoreSession"}

(* OpenSettings, FilterSessions, CancelChat: not the launcher's state.     *)
Do(v, c) ==
    CASE c.cmd \in LauncherCmds -> RunOnLauncher(v, c)
      [] c.cmd \in SearchCmds -> RunOnSearch(v, c)
      [] c.cmd \in ChatCmds -> RunOnChat(v, c)
      [] c.cmd \in TaskCmds -> RunAsTask(v, c)
      [] OTHER -> v

(* One after the other.                                                    *)
DoAll(v, commands) ==
    LET after[i \in 0..Len(commands)] == IF i = 0 THEN v ELSE Do(after[i - 1], commands[i])
    IN  after[Len(commands)]

(* The loop over the queue.                                                *)
HandleMessage ==
    /\ ui = "on" /\ w.queue # <<>>
    /\ LET result == Update(model, Head(w.queue))
       IN  /\ model' = result.model
           /\ w' = DoAll([w EXCEPT !.queue = Tail(@)], result.commands)
    /\ UNCHANGED <<ui, inputs, taken>>

-----------------------------------------------------------------------------
(* Tasks.  A stream is read to its end, also when nobody wants it.         *)

Room == ui = "on" /\ Len(w.queue) < MaxQueue
Step(t, next, msgs) ==
    /\ w' = [w EXCEPT !.tasks = (@ \ {t}) \cup next, !.queue = @ \o msgs]
    /\ UNCHANGED <<ui, model, inputs>>

(* Results without an action count for nothing.                            *)
SearchFinds(t) ==
    /\ Room /\ t.kind = "search" /\ ~t.found
    /\ Step(t, {[t EXCEPT !.found = TRUE]}, <<[msg |-> "QueryEvent", query |-> t.query]>>)
    /\ UNCHANGED taken

SearchEnds(t) ==
    /\ Room /\ t.kind = "search"
    /\ Step(t, {}, <<[msg |-> "QueryFinished", query |-> t.query, found |-> t.found]>>)
    /\ UNCHANGED taken

PreparationEnds(t) ==
    /\ Room /\ t.kind = "prepare"
    /\ \E name \in {"PromptPrepared", "PreparationFailed"} : Step(t, {}, <<[msg |-> name, turn |-> t.turn]>>)
    /\ UNCHANGED taken

(* chat: a session of its own for a prompt without one, or none at all if  *)
(* that fails; the stream then has an error.                               *)
ChatStarts(t) ==
    /\ Room /\ t.kind = "chat" /\ t.at = "opening"
    /\ \E s \in IF t.session # NoUuid THEN {t.session} ELSE (Uuids \ taken) \cup {NoUuid} :
         /\ taken' = taken \cup ({s} \ {NoUuid})
         /\ Step(t, {[t EXCEPT !.session = s, !.at = "streaming"]},
                 <<[msg |-> "RequestStarted", turn |-> t.turn, session |-> s]>>)

RestoreStarts(t) ==
    /\ Room /\ t.kind = "restore" /\ t.at = "opening"
    /\ \/ Step(t, {[t EXCEPT !.at = "streaming"]}, <<>>)
       \/ Step(t, {}, <<[msg |-> "RestoreFailed", turn |-> t.turn]>>)
    /\ UNCHANGED taken

Rendered(t, terminal) == [msg |-> "RenderEvent", turn |-> t.turn, of |-> t.session, terminal |-> terminal]

StreamSpeaks(t) ==
    /\ Room /\ t.kind \in {"chat", "restore"} /\ t.at = "streaming"
    /\ Step(t, {[t EXCEPT !.at = "spoke"]}, <<Rendered(t, FALSE)>>)
    /\ UNCHANGED taken

StreamEnds(t) ==
    /\ Room /\ t.kind \in {"chat", "restore"} /\ t.at \in {"streaming", "spoke"}
    /\ Step(t, {}, <<Rendered(t, TRUE)>>)
    /\ UNCHANGED taken

-----------------------------------------------------------------------------
(* The user.                                                               *)

Input(next) ==
    /\ ui = "on" /\ inputs > 0 /\ inputs' = inputs - 1
    /\ w' = next
    /\ UNCHANGED <<ui, model, taken>>

Type == w.shown /\ Input([w EXCEPT !.typed = TRUE, !.debounce = TRUE])
Erase == w.shown /\ w.typed
         /\ Input(Enqueue([w EXCEPT !.typed = FALSE, !.debounce = FALSE], [msg |-> "QueryChanged", content |-> FALSE]))

(* SEARCH_DEBOUNCE_MS after the last edit.                                 *)
DebounceFires ==
    /\ Room /\ w.debounce
    /\ w' = Enqueue([w EXCEPT !.debounce = FALSE], [msg |-> "QueryChanged", content |-> w.typed])
    /\ UNCHANGED <<ui, model, inputs, taken>>

Hotkey == Input(Enqueue(w, [msg |-> "Toggle"]))
ClickAway == w.shown /\ Input(Conceal(w))
ClickSettings == w.shown /\ w.footer # "streaming" /\ Input(Enqueue(w, [msg |-> "OpenSettings"]))
ToggleSessions == w.shown /\ Input(Enqueue(w, [msg |-> "ToggleSessions"]))

(* Enter in search: the selected row, or a prompt if there are no rows.    *)
SearchKey ==
    /\ w.shown /\ model.mode = "Search"
    /\ \/ Input(Enqueue(w, [msg |-> "ExitSearch"]))
       \/ w.rows # {} /\ Input(Enqueue(w, [msg |-> "ResultAction"]))
       \/ (w.rows = {} \/ 0 \in w.rows) /\ Input(Enqueue(w, [msg |-> "PromptSubmit"]))

ChatKey ==
    /\ w.shown /\ model.mode = "Chat"
    /\ \E name \in {"ContentClose", "PromptSubmit", "Interrupt"} : Input(Enqueue(w, [msg |-> name]))

SessionKey ==
    /\ w.shown /\ model.mode = "Session"
    /\ \/ Input(Enqueue(w, [msg |-> "ContentClose"]))
       \/ \E s \in taken : Input(Enqueue(w, [msg |-> "Restore", session |-> s]))

OverlayNext ==
    \/ HandleMessage
    \/ \E t \in w.tasks :
        \/ SearchFinds(t) \/ SearchEnds(t) \/ PreparationEnds(t) \/ ChatStarts(t)
        \/ RestoreStarts(t) \/ StreamSpeaks(t) \/ StreamEnds(t)
    \/ Type \/ Erase \/ DebounceFires \/ Hotkey \/ ClickAway \/ ClickSettings \/ ToggleSessions
    \/ SearchKey \/ ChatKey \/ SessionKey

OverlaySpec == OverlayInit /\ [][OverlayNext]_overlayVars

-----------------------------------------------------------------------------
(* The chat view never shows events of two sessions, nor of one that is    *)
(* not the current one, whatever turns were abandoned on the way.          *)
OneSessionInView == w.chat \subseteq {model.session, NoUuid}

Carried(turn) ==
    \/ \E t \in w.tasks : t.kind # "search" /\ t.turn = turn
    \/ \E i \in DOMAIN w.queue : w.queue[i].msg \in {"PreparationFailed", "PromptPrepared", "RenderEvent", "RestoreFailed"}
                                  /\ w.queue[i].turn = turn

(* While the model is busy, and so refuses prompts, there is a task or a   *)
(* message of its turn: it does not stay busy for ever.  A stop button is  *)
(* only shown while it is.                                                 *)
BusyIsCarried ==
    /\ model.running => Carried(model.turn)
    /\ w.footer = "streaming" => model.running /\ model.mode = "Chat"

(* The launcher comes back as it was left: the content is visible after a  *)
(* summon exactly if it was last opened and not closed, also by what       *)
(* happened while the launcher was hidden.                                 *)
ContentResumes == w.open = IF w.shown THEN w.content ELSE w.restore

(* The launcher shows one conversation: nothing of another session reaches *)
(* it, it is busy while its stream runs, and hiding it while a page is     *)
(* open does not lose the conversation (Model::update).                    *)
LauncherKeepsItsChat == OneSessionInView /\ BusyIsCarried /\ ContentResumes

(* What is visible belongs to the mode: "late search results or a pending  *)
(* prompt must not flip the visible page" (model.rs).                      *)
PageMatchesMode == w.open /\ w.queue = <<>> => w.page = model.mode
=============================================================================
