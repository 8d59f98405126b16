------------------------- MODULE ExtensionController -------------------------
(***************************************************************************)
(* ExtensionController (core/src/extension/controller.rs) and the plugin   *)
(* processes it starts (connection.rs).                                    *)
(*                                                                         *)
(* An extension is a row of the plugins table and a handler, which holds   *)
(* the process.  A task starts a process and registers it: one per row at  *)
(* the start, then those of the settings page.  The process of a task has  *)
(* the task's name; it dies when it is shut down and when nobody holds its *)
(* connection any longer (kill_on_drop).  A search asks every extension    *)
(* that runs, a call of a tool the one that offers it.                     *)
(***************************************************************************)
EXTENDS Naturals, FiniteSets

CONSTANTS
    Extensions,
    ExtTasks,
    ExtKind,         \* "start", "add", "update" or "remove"
    ExtOf,           \* the extension a task is about
    RenderCapacity,  \* RENDER_CHANNEL_CAPACITY
    NoTask

(* The name of a plugin is the key of its row: the start has one task for  *)
(* each.                                                                   *)
ASSUME ExtAssumption ==
    /\ ExtKind \in [ExtTasks -> {"start", "add", "update", "remove"}]
    /\ ExtOf \in [ExtTasks -> Extensions]
    /\ \A t, u \in ExtTasks :
         ExtKind[t] = "start" /\ ExtKind[u] = "start" /\ ExtOf[t] = ExtOf[u] => t = u
    /\ RenderCapacity \in Nat /\ RenderCapacity >= 2
    /\ NoTask \notin ExtTasks

VARIABLES
    ext,         \* "off", "starting", "on"
    extRows,        \* the task whose config is in each row
    holds,     \* the task whose process each handler holds
    proc,        \* the process of each task
    says,        \* the extension_id its handshake gives
    doing,       \* how far each task is
    mixed,       \* history: extensions two tasks worked on at the same time
    disabled,    \* the extensions that are switched off
    search,      \* how far the search is
    asked,       \* the processes it waits for
    answered,    \* those that have answered, joined in any order
    rendered,    \* events in the render channel
    invoked,     \* the process a call of a tool was sent to
    call         \* how far that call is

extTaskVars == <<extRows, holds, proc, says, doing, mixed>>
extSearchVars == <<search, asked, answered, rendered>>
extCallVars == <<invoked, call>>
extVars == <<ext, extTaskVars, disabled, extSearchVars, extCallVars>>

ExtTypeOK ==
    /\ ext \in {"off", "starting", "on"}
    /\ {extRows, holds} \subseteq [Extensions -> ExtTasks \cup {NoTask}]
    /\ proc \in [ExtTasks -> {"none", "starting", "running", "dead"}]
    /\ says \in [ExtTasks -> Extensions]
    /\ doing \in [ExtTasks -> {"idle", "connecting", "connected", "stored", "deleted", "over"}]
    /\ mixed \subseteq Extensions /\ disabled \subseteq Extensions
    /\ search \in {"idle", "reading", "asking", "ending", "over", "dropped"}
    /\ {asked, answered} \subseteq SUBSET ExtTasks
    /\ rendered \in 0..RenderCapacity
    /\ invoked \in ExtTasks \cup {NoTask}
    /\ call \in {"idle", "waiting", "cancelling", "over"}

ExtRest(where) ==
    /\ ext = where
    /\ extRows = [e \in Extensions |->
                IF \E t \in ExtTasks : ExtKind[t] = "start" /\ ExtOf[t] = e
                THEN CHOOSE t \in ExtTasks : ExtKind[t] = "start" /\ ExtOf[t] = e ELSE NoTask]
    /\ holds = [e \in Extensions |-> NoTask]
    /\ proc = [t \in ExtTasks |-> "none"] /\ says = ExtOf
    /\ doing = [t \in ExtTasks |-> "idle"]
    /\ mixed = {} /\ disabled = {}
    /\ search = "idle" /\ asked = {} /\ answered = {} /\ rendered = 0
    /\ invoked = NoTask /\ call = "idle"

ExtInit == ExtRest("starting")

Working(t) == doing[t] \notin {"idle", "over"}

(* Who keeps the connection of a process: its task until it is registered, *)
(* a handler, the search and the call.                                     *)
IsHeld(t, handlers, search_, call_) ==
    \/ \E e \in Extensions : handlers[e] = t
    \/ t \in search_ \/ t = call_

(* The processes that die when these handlers, searches and calls are all  *)
(* that is left, and those in killed are shut down.                        *)
Reap(handlers, done, killed, search_, call_) ==
    proc' = [t \in ExtTasks |->
        IF \/ t \in killed
           \/ /\ proc[t] \in {"starting", "running"}
              /\ (doing[t] = "idle" \/ doing[t] = "over" \/ t \in done)
              /\ ~IsHeld(t, handlers, search_, call_)
        THEN "dead" ELSE proc[t]]

Waits == IF call \in {"waiting", "cancelling"} THEN invoked ELSE NoTask

Touches(t, names) ==
    mixed' = mixed \cup
        {e \in names : \E o \in ExtTasks \ {t} : Working(o) /\ e \in {ExtOf[o], says[o]}}

-----------------------------------------------------------------------------
(* new and the settings page.                                              *)

(* add, update and new alike begin with init_extension_plugin; add is of   *)
(* a command, whose extension is known by the handshake only; the dialogs  *)
(* of update and remove are of an extension in the list.                   *)
Begin(t) ==
    /\ doing[t] = "idle"
    /\ IF ExtKind[t] = "start" THEN ext = "starting"
       ELSE ext = "on" /\ (ExtKind[t] = "add" \/ extRows[ExtOf[t]] # NoTask)
    /\ Touches(t, {ExtOf[t]})
    /\ IF ExtKind[t] = "remove"
       THEN /\ extRows' = [extRows EXCEPT ![ExtOf[t]] = NoTask]
            /\ doing' = [doing EXCEPT ![t] = "deleted"]
            /\ UNCHANGED proc
       ELSE /\ proc' = [proc EXCEPT ![t] = "starting"]
            /\ doing' = [doing EXCEPT ![t] = "connecting"]
            /\ UNCHANGED extRows
    /\ UNCHANGED <<ext, holds, says, disabled, extSearchVars, extCallVars>>

(* The handshake is answered in the version of the protocol; the command   *)
(* of an update may be that of another extension.                          *)
Handshake(t, id) ==
    /\ doing[t] = "connecting" /\ proc[t] = "starting"
    /\ id = ExtOf[t] \/ ExtKind[t] = "update"
    /\ says' = [says EXCEPT ![t] = id]
    /\ proc' = [proc EXCEPT ![t] = "running"]
    /\ doing' = [doing EXCEPT ![t] = "connected"]
    /\ Touches(t, {id})
    /\ UNCHANGED <<ext, extRows, holds, disabled, extSearchVars, extCallVars>>

(* It is not: the connection is dropped.  At the start an unhealthy        *)
(* handler takes its place (the program ends if the extension is builtin).  *)
NoHandshake(t) ==
    /\ doing[t] = "connecting"
    /\ holds' = IF ExtKind[t] = "start" THEN [holds EXCEPT ![ExtOf[t]] = t] ELSE holds
    /\ proc' = [proc EXCEPT ![t] = "dead"]
    /\ doing' = [doing EXCEPT ![t] = "over"]
    /\ UNCHANGED <<ext, extRows, says, mixed, disabled, extSearchVars, extCallVars>>

(* insert_plugin refuses a name that is taken, update_plugin one that is   *)
(* not; the new process goes then.                                         *)
StorePlugin(t) ==
    LET e == says[t]
        ok == ExtKind[t] = "start" \/ (ExtKind[t] = "add" <=> extRows[e] = NoTask)
    IN  /\ doing[t] = "connected"
        /\ extRows' = IF ok /\ ExtKind[t] # "start" THEN [extRows EXCEPT ![e] = t] ELSE extRows
        /\ doing' = [doing EXCEPT ![t] = IF ok THEN "stored" ELSE "over"]
        /\ IF ok THEN UNCHANGED proc ELSE Reap(holds, {t}, {}, asked, Waits)
        /\ UNCHANGED <<ext, holds, says, mixed, disabled, extSearchVars, extCallVars>>

\* Fault: the process that is replaced is not shut down.
RegisterQuietly(t) ==
    /\ doing[t] = "stored"
    /\ holds' = [holds EXCEPT ![says[t]] = t]
    /\ doing' = [doing EXCEPT ![t] = "over"]
    /\ UNCHANGED <<ext, extRows, proc, says, mixed, disabled, extSearchVars, extCallVars>>

(* register_handler; update shuts the previous process down, even if       *)
(* somebody still waits for it, add lets it go.                            *)
RegisterHandler(t) ==
    LET previous == holds[says[t]]
        handlers == [holds EXCEPT ![says[t]] = t]
    IN  /\ doing[t] = "stored"
        /\ holds' = handlers
        /\ doing' = [doing EXCEPT ![t] = "over"]
        /\ Reap(handlers, {}, IF ExtKind[t] = "update" THEN {previous} \ {NoTask} ELSE {}, asked, Waits)
        /\ UNCHANGED <<ext, extRows, says, mixed, disabled, extSearchVars, extCallVars>>

\* Fault: the handler of a removed extension is left.
RemoveNoHandler(t) ==
    /\ doing[t] = "deleted"
    /\ doing' = [doing EXCEPT ![t] = "over"]
    /\ UNCHANGED <<ext, extRows, holds, proc, says, mixed, disabled, extSearchVars, extCallVars>>

(* remove_extension, once the row is deleted.                              *)
RemoveHandler(t) ==
    LET e == ExtOf[t]
        handlers == [holds EXCEPT ![e] = NoTask]
    IN  /\ doing[t] = "deleted"
        /\ holds' = handlers
        /\ doing' = [doing EXCEPT ![t] = "over"]
        /\ Reap(handlers, {}, {holds[e]} \ {NoTask}, asked, Waits)
        /\ UNCHANGED <<ext, extRows, says, mixed, disabled, extSearchVars, extCallVars>>

Started ==
    /\ ext = "starting" /\ \A t \in ExtTasks : ExtKind[t] = "start" => doing[t] = "over"
    /\ ext' = "on"
    /\ UNCHANGED <<extTaskVars, disabled, extSearchVars, extCallVars>>

(* set_plugin_disabled; a process may end at any time.                     *)
Disable(e) ==
    /\ ext = "on" /\ extRows[e] # NoTask /\ e \notin disabled
    /\ disabled' = disabled \cup {e}
    /\ UNCHANGED <<ext, extTaskVars, extSearchVars, extCallVars>>

Exit(t) ==
    /\ proc[t] = "running" /\ doing[t] = "over"
    /\ proc' = [proc EXCEPT ![t] = "dead"]
    /\ UNCHANGED <<ext, extRows, holds, says, doing, mixed, disabled, extSearchVars, extCallVars>>

-----------------------------------------------------------------------------
(* search.                                                                 *)

Runs(e) == holds[e] # NoTask /\ proc[holds[e]] = "running"

(* An input of blanks, or an error of the storage (with an Error event     *)
(* first), is Done at once; otherwise the capabilities are collected and   *)
(* asked together.                                                         *)
BeginSearch(input) ==
    /\ ext = "on" /\ search = "idle"
    /\ IF input = "text"
       THEN /\ search' = "asking"
            /\ asked' = {holds[e] : e \in {x \in Extensions \ disabled : Runs(x)}}
            /\ UNCHANGED rendered
       ELSE /\ search' = "over"
            /\ rendered' = IF input = "blank" THEN 1 ELSE 2
            /\ UNCHANGED asked
    /\ UNCHANGED <<ext, extTaskVars, disabled, answered, extCallVars>>

\* Fault: a process that dies leaves its requests pending, without a timeout.
AnswerIfAlive(t) ==
    /\ search = "asking" /\ t \in asked \ answered /\ proc[t] = "running"
    /\ answered' = answered \cup {t}
    /\ UNCHANGED <<ext, extTaskVars, disabled, search, asked, rendered, extCallVars>>

(* An answer in time, an error of the plugin, its death, the timeout: one  *)
(* event each.                                                             *)
Answer(t) ==
    /\ search = "asking" /\ t \in asked \ answered
    /\ answered' = answered \cup {t}
    /\ UNCHANGED <<ext, extTaskVars, disabled, search, asked, rendered, extCallVars>>

(* join_next and send, which waits for room; the connection is let go.     *)
Join(t) ==
    /\ search = "asking" /\ t \in answered /\ rendered < RenderCapacity
    /\ answered' = answered \ {t} /\ asked' = asked \ {t}
    /\ rendered' = rendered + 1
    /\ Reap(holds, {}, {}, asked \ {t}, Waits)
    /\ UNCHANGED <<ext, extRows, holds, says, doing, mixed, disabled, search, extCallVars>>

SendDone ==
    /\ search = "asking" /\ asked = {} /\ rendered < RenderCapacity
    /\ rendered' = rendered + 1 /\ search' = "over"
    /\ UNCHANGED <<ext, extTaskVars, disabled, asked, answered, extCallVars>>

Render ==
    /\ rendered > 0 /\ rendered' = rendered - 1
    /\ UNCHANGED <<ext, extTaskVars, disabled, search, asked, answered, extCallVars>>

(* The next query, or a closed overlay, drops the stream; send fails and   *)
(* the JoinSet takes its tasks with it.                                    *)
DropStream ==
    /\ search = "asking" \/ rendered > 0
    /\ search' = "dropped" /\ asked' = {} /\ answered' = {} /\ rendered' = 0
    /\ Reap(holds, {}, {}, {}, Waits)
    /\ UNCHANGED <<ext, extRows, holds, says, doing, mixed, disabled, extCallVars>>

-----------------------------------------------------------------------------
(* invoke: a tool is found by its name in the specs of the handlers, and   *)
(* the process may be dead by then.                                        *)
Invoke(e) ==
    /\ ext = "on" /\ call = "idle" /\ holds[e] # NoTask /\ says[holds[e]] = e
    /\ invoked' = holds[e]
    /\ call' = IF Runs(e) THEN "waiting" ELSE "over"
    /\ UNCHANGED <<ext, extTaskVars, disabled, extSearchVars>>

(* The answer or the end of the process; after TOOL_INVOKE_REQUEST_TIMEOUT *)
(* the tools of the session are cancelled first.                           *)
CallEnds ==
    /\ call \in {"waiting", "cancelling"}
    /\ call' = "over"
    /\ Reap(holds, {}, {}, asked, NoTask)
    /\ UNCHANGED <<ext, extRows, holds, says, doing, mixed, disabled, extSearchVars, invoked>>

CallTimesOut ==
    /\ call = "waiting" /\ proc[invoked] = "running"
    /\ call' = "cancelling"
    /\ UNCHANGED <<ext, extTaskVars, disabled, extSearchVars, invoked>>

ExtNext ==
    \/ \E t \in ExtTasks :
        \/ Begin(t) \/ NoHandshake(t) \/ StorePlugin(t) \/ RegisterHandler(t) \/ RemoveHandler(t)
        \/ (\E id \in Extensions : Handshake(t, id))
        \/ Exit(t) \/ Answer(t) \/ Join(t)
    \/ \E e \in Extensions : Disable(e) \/ Invoke(e)
    \/ \E input \in {"blank", "failing", "text"} : BeginSearch(input)
    \/ Started \/ SendDone \/ Render \/ DropStream \/ CallEnds \/ CallTimesOut

ExtSpec == ExtInit /\ [][ExtNext]_extVars

(* A request has a timeout and the front end reads what it is sent.        *)
ExtFairness ==
    /\ \A t \in ExtTasks : WF_extVars(Answer(t)) /\ WF_extVars(Join(t))
    /\ WF_extVars(SendDone) /\ WF_extVars(Render)

-----------------------------------------------------------------------------
(* Between two tasks, the handlers and the rows are of the same extensions *)
(* and each process runs with the config of its row; a process that nobody *)
(* can reach, since its handler was replaced or removed or its task failed *)
(* is dead, or the search or the call it works for still waits.  Only an   *)
(* extension that two tasks worked on at the same time is excepted.        *)
ExtensionsAgree ==
    /\ ExtTypeOK
    /\ ext = "on" =>
        /\ (\A t \in ExtTasks : ~Working(t)) => \A e \in Extensions \ mixed : holds[e] = extRows[e]
        /\ \A t \in ExtTasks :
            (proc[t] = "running" /\ ~Working(t)) => IsHeld(t, holds, asked, Waits)

(* The GUI resolves a query only on Done: a search that has begun sends it *)
(* once every capability was heard, whatever dies, answers late or is      *)
(* replaced, unless its stream is dropped by the receiver.                 *)
SearchResolves == search = "asking" ~> search \in {"over", "dropped"}
=============================================================================
