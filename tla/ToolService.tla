----------------------------- MODULE ToolService -----------------------------
(***************************************************************************)
(* An extension plugin with tools, from its stdin to the processes it      *)
(* starts: serve_plugin (utils/src/transport.rs), ExtensionService         *)
(* (extension-base/src/service.rs) and, behind its tool handler, the Exec  *)
(* tool and its ProcessController (plugins/extensions/shell/src/exec).     *)
(*                                                                         *)
(* The loop of serve_plugin handles one request at a time and spawns a     *)
(* task for each; the tasks run on two worker threads.  An action is what  *)
(* one of them does between two accesses to a map that others use.  The    *)
(* host writes its requests in some order, which is the order of the       *)
(* Handle actions.                                                         *)
(***************************************************************************)
EXTENDS Naturals, Sequences

CONSTANTS
    Invokes,        \* InvokeToolRequests
    CancelTools,    \* CancelToolRequests
    Searches,       \* SearchRequests and RunActionRequests
    SessionOf,      \* the session_id of an invoke or a cancel
    Absent          \* no entry in a map

ToolSessions == {SessionOf[r] : r \in Invokes \cup CancelTools}
ToolRequests == Invokes \cup CancelTools \cup Searches

ASSUME ToolAssumption ==
    /\ Invokes \cap (CancelTools \cup Searches) = {}
    /\ Absent \notin Invokes /\ \A g \in SUBSET Invokes : g # Absent

VARIABLES
    serve,      \* serve_plugin: "off", "reading", "closed", "broken", "exited"
    stdoutTask,     \* the task that owns stdout: "up", "failed"
    work,       \* how far each request is
    stopped,    \* the invocations answered as cancelled
    reached,    \* history: the cancels that came after each invocation
    registry,   \* cancellation: the token of each session, named by its first holder
    token,      \* the token each invocation holds
    fired,      \* the tokens that are cancelled
    groups,     \* ProcessController.sessions: the process groups of each session
    proc,       \* the command of each invocation
    runner      \* the task that runs it to completion

toolVars == <<serve, stdoutTask, work, stopped, reached, registry, token, fired, groups, proc, runner>>
serviceVars == <<serve, stdoutTask, reached, registry, token, fired>>
execVars == <<groups, proc, runner>>

ToolTypeOK ==
    /\ serve \in {"off", "reading", "closed", "broken", "exited"}
    /\ stdoutTask \in {"up", "failed"}
    /\ work \in [ToolRequests -> {"unsent", "spawned", "invoked", "sent", "written", "lost"}]
    /\ stopped \subseteq Invokes
    /\ reached \in [Invokes -> SUBSET CancelTools]
    /\ registry \in [ToolSessions -> Invokes \cup {Absent}]
    /\ token \in [Invokes -> Invokes \cup {Absent}]
    /\ fired \subseteq Invokes
    /\ groups \in [ToolSessions -> (SUBSET Invokes) \cup {Absent}]
    /\ proc \in [Invokes -> {"none", "alive", "ended"}]
    /\ runner \in [Invokes -> {"none", "attach", "bare", "wait", "drained", "empty", "done"}]

ToolRest(where) ==
    /\ serve = where /\ stdoutTask = "up"
    /\ work = [r \in ToolRequests |-> "unsent"]
    /\ stopped = {}
    /\ reached = [c \in Invokes |-> {}]
    /\ registry = [s \in ToolSessions |-> Absent]
    /\ token = [c \in Invokes |-> Absent]
    /\ fired = {}
    /\ groups = [s \in ToolSessions |-> Absent]
    /\ proc = [c \in Invokes |-> "none"]
    /\ runner = [c \in Invokes |-> "none"]

ToolInit == ToolRest("reading")

-----------------------------------------------------------------------------
(* The loop: serve_plugin calls ExtensionService::handle, which spawns.    *)

(* After each request the loop looks whether the writer is gone.           *)
Handled(r) ==
    /\ serve = "reading" /\ work[r] = "unsent"
    /\ work' = [work EXCEPT ![r] = "spawned"]
    /\ serve' = IF stdoutTask = "failed" THEN "broken" ELSE serve
    /\ UNCHANGED <<stdoutTask, stopped, execVars>>

(* Every invocation of a session takes the session's token.                *)
HandleInvoke(c) ==
    LET s == SessionOf[c]
        mine == IF registry[s] = Absent THEN c ELSE registry[s]
    IN  /\ Handled(c)
        /\ registry' = [registry EXCEPT ![s] = mine]
        /\ token' = [token EXCEPT ![c] = mine]
        /\ UNCHANGED <<fired, reached>>

Reaches(x) ==
    reached' = [c \in Invokes |-> IF work[c] = "unsent" \/ SessionOf[c] # SessionOf[x]
                                  THEN reached[c] ELSE reached[c] \cup {x}]

\* Fault: the token is cancelled and left in the map.
HandleCancelKeeps(x) ==
    /\ Handled(x) /\ Reaches(x)
    /\ fired' = fired \cup ({registry[SessionOf[x]]} \ {Absent})
    /\ UNCHANGED <<registry, token>>

HandleCancel(x) ==
    /\ Handled(x) /\ Reaches(x)
    /\ fired' = fired \cup ({registry[SessionOf[x]]} \ {Absent})
    /\ registry' = [registry EXCEPT ![SessionOf[x]] = Absent]
    /\ UNCHANGED token

HandleSearch(q) ==
    /\ Handled(q)
    /\ UNCHANGED <<reached, registry, token, fired>>

(* The host closes stdin, or dies.                                         *)
CloseStdin ==
    /\ serve = "reading"
    /\ serve' = "closed"
    /\ UNCHANGED <<stdoutTask, work, stopped, reached, registry, token, fired, execVars>>

-----------------------------------------------------------------------------
(* The tasks.  A response goes to the writer's channel; when the writer is *)
(* gone the send fails and is ignored.                                     *)

RespondTool(r) ==
    work' = [work EXCEPT ![r] = IF stdoutTask = "up" THEN "sent" ELSE "lost"]

(* A search or an action runs on a blocking thread; an unknown capability, *)
(* one without a search handler and a panic are answered as errors.        *)
SearchReturns(q) ==
    /\ serve # "exited" /\ work[q] = "spawned"
    /\ RespondTool(q)
    /\ UNCHANGED <<stopped, serviceVars, execVars>>

(* cancel_session: the session's groups leave the map and are killed.      *)
CancelReturns(x) ==
    LET s == SessionOf[x]
        hit == IF groups[s] = Absent THEN {} ELSE groups[s]
    IN  /\ serve # "exited" /\ work[x] = "spawned"
        /\ groups' = [groups EXCEPT ![s] = Absent]
        /\ proc' = [c \in Invokes |-> IF c \in hit /\ proc[c] = "alive" THEN "ended" ELSE proc[c]]
        /\ RespondTool(x)
        /\ UNCHANGED <<stopped, serviceVars, runner>>

(* What ends without a process: an unknown capability, one without a tool, *)
(* arguments that do not parse, an empty argv, a workdir that is relative  *)
(* or no directory, a spawn that fails; and the DeleteFiles tool.          *)
InvokeReturnsAtOnce(c) ==
    /\ serve # "exited" /\ work[c] = "spawned"
    /\ RespondTool(c)
    /\ UNCHANGED <<stopped, serviceVars, execVars>>

(* The select between the tool and the token has no fixed order: either is *)
(* polled first.                                                           *)
CancelledAtOnce(c) ==
    /\ serve # "exited" /\ work[c] = "spawned" /\ token[c] \in fired
    /\ RespondTool(c) /\ stopped' = stopped \cup {c}
    /\ UNCHANGED <<serviceVars, execVars>>

SpawnProcess(c) ==
    /\ serve # "exited" /\ work[c] = "spawned"
    /\ work' = [work EXCEPT ![c] = "invoked"]
    /\ proc' = [proc EXCEPT ![c] = "alive"]
    /\ runner' = [runner EXCEPT ![c] = "attach"]
    /\ UNCHANGED <<serviceVars, stopped, groups>>

AttachGroup(c) ==
    LET s == SessionOf[c]
        known == IF groups[s] = Absent THEN {} ELSE groups[s]
    IN  /\ runner[c] = "attach"
        /\ groups' = [groups EXCEPT ![s] = known \cup {c}]
        /\ runner' = [runner EXCEPT ![c] = "wait"]
        /\ UNCHANGED <<serviceVars, work, stopped, proc>>

(* On Windows the job may not take the process: one that has ended goes on *)
(* without a group, one that runs is killed.                               *)
AttachFails(c) ==
    /\ runner[c] = "attach"
    /\ IF proc[c] = "alive"
       THEN /\ proc' = [proc EXCEPT ![c] = "ended"]
            /\ runner' = [runner EXCEPT ![c] = "done"]
            /\ RespondTool(c)
       ELSE /\ runner' = [runner EXCEPT ![c] = "bare"]
            /\ UNCHANGED <<proc, work>>
    /\ UNCHANGED <<serviceVars, stopped, groups>>

(* The token wins: the call is dropped, the task it started goes on.       *)
CancelledInCall(c) ==
    /\ serve # "exited" /\ work[c] = "invoked" /\ runner[c] # "attach" /\ token[c] \in fired
    /\ RespondTool(c) /\ stopped' = stopped \cup {c}
    /\ UNCHANGED <<serviceVars, execVars>>

InvokeReturns(c) ==
    /\ serve # "exited" /\ work[c] = "invoked" /\ runner[c] = "done"
    /\ RespondTool(c)
    /\ UNCHANGED <<stopped, serviceVars, execVars>>

-----------------------------------------------------------------------------
(* A command and run_to_completion.                                        *)

ProcessExits(c) ==
    /\ proc[c] = "alive"
    /\ proc' = [proc EXCEPT ![c] = "ended"]
    /\ UNCHANGED <<serviceVars, work, stopped, groups, runner>>

(* wait returns; what still holds the pipes is killed and drained.         *)
Reap(c) ==
    /\ serve # "exited" /\ runner[c] \in {"wait", "bare"} /\ proc[c] # "alive"
    /\ runner' = [runner EXCEPT ![c] = IF runner[c] = "wait" THEN "drained" ELSE "done"]
    /\ UNCHANGED <<serviceVars, work, stopped, groups, proc>>

(* COMMAND_TIMEOUT, or an error of wait: the group is killed.              *)
CommandTimeout(c) ==
    /\ serve # "exited" /\ runner[c] = "wait" /\ proc[c] = "alive"
    /\ proc' = [proc EXCEPT ![c] = "ended"]
    /\ runner' = [runner EXCEPT ![c] = "drained"]
    /\ UNCHANGED <<serviceVars, work, stopped, groups>>

(* remove_group: the entry is edited under one lock and removed under      *)
(* another.                                                                *)
RetainOthers(c) ==
    LET s == SessionOf[c]
    IN  /\ serve # "exited" /\ runner[c] = "drained"
        /\ groups' = IF groups[s] = Absent THEN groups ELSE [groups EXCEPT ![s] = @ \ {c}]
        /\ runner' = [runner EXCEPT ![c] = IF groups'[s] = {} THEN "empty" ELSE "done"]
        /\ UNCHANGED <<serviceVars, work, stopped, proc>>

\* Fault: the entry goes without the second look.
RemoveUnchecked(c) ==
    /\ serve # "exited" /\ runner[c] = "empty"
    /\ groups' = [groups EXCEPT ![SessionOf[c]] = Absent]
    /\ runner' = [runner EXCEPT ![c] = "done"]
    /\ UNCHANGED <<serviceVars, work, stopped, proc>>

RemoveIfEmpty(c) ==
    /\ serve # "exited" /\ runner[c] = "empty"
    /\ groups' = [groups EXCEPT ![SessionOf[c]] = IF @ = {} THEN Absent ELSE @]
    /\ runner' = [runner EXCEPT ![c] = "done"]
    /\ UNCHANGED <<serviceVars, work, stopped, proc>>

-----------------------------------------------------------------------------
(* The writer and the end of the plugin.                                   *)

WriteFrame(r) ==
    /\ stdoutTask = "up" /\ work[r] = "sent" /\ serve # "exited"
    /\ work' = [work EXCEPT ![r] = "written"]
    /\ UNCHANGED <<serviceVars, stopped, execVars>>

WriterFails ==
    /\ stdoutTask = "up" /\ serve \notin {"off", "exited"}
    /\ stdoutTask' = "failed"
    /\ work' = [r \in ToolRequests |-> IF work[r] = "sent" THEN "lost" ELSE work[r]]
    /\ UNCHANGED <<serve, stopped, reached, registry, token, fired, execVars>>

HoldsSender(r) == work[r] \in {"spawned", "invoked"}

\* Fault: the end of stdin ends the plugin without the writer's leave.
ServeReturnsEarly ==
    /\ serve \in {"closed", "broken"} /\ \A c \in Invokes : runner[c] # "attach"
    /\ serve' = "exited"
    /\ proc' = [c \in Invokes |-> IF proc[c] = "alive" THEN "ended" ELSE proc[c]]
    /\ UNCHANGED <<stdoutTask, work, stopped, reached, registry, token, fired, groups, runner>>

(* The writer ends once every sender is dropped and its channel is empty;  *)
(* then the runtime goes, and kill_on_drop ends what it still owns.        *)
ServeReturns ==
    /\ serve \in {"closed", "broken"} /\ \A c \in Invokes : runner[c] # "attach"
    /\ stdoutTask = "failed" \/ \A r \in ToolRequests : ~HoldsSender(r) /\ work[r] # "sent"
    /\ serve' = "exited"
    /\ proc' = [c \in Invokes |-> IF proc[c] = "alive" THEN "ended" ELSE proc[c]]
    /\ UNCHANGED <<stdoutTask, work, stopped, reached, registry, token, fired, groups, runner>>

-----------------------------------------------------------------------------
InvokeStep(c) ==
    \/ InvokeReturnsAtOnce(c) \/ CancelledAtOnce(c) \/ SpawnProcess(c)
    \/ CancelledInCall(c) \/ InvokeReturns(c)

RunnerStep(c) ==
    \/ AttachGroup(c) \/ AttachFails(c) \/ Reap(c) \/ CommandTimeout(c)
    \/ RetainOthers(c) \/ RemoveIfEmpty(c)

ToolNext ==
    \/ \E c \in Invokes : HandleInvoke(c) \/ InvokeStep(c) \/ RunnerStep(c) \/ ProcessExits(c)
    \/ \E x \in CancelTools : HandleCancel(x) \/ CancelReturns(x)
    \/ \E q \in Searches : HandleSearch(q) \/ SearchReturns(q)
    \/ \E r \in ToolRequests : WriteFrame(r)
    \/ CloseStdin \/ WriterFails \/ ServeReturns

(* What the runtime schedules.  Nothing is assumed of the host, and        *)
(* nothing of how long a command runs.                                     *)
ToolFairness ==
    /\ \A c \in Invokes : WF_toolVars(InvokeStep(c)) /\ WF_toolVars(RunnerStep(c))
    /\ \A x \in CancelTools : WF_toolVars(CancelReturns(x))
    /\ \A q \in Searches : WF_toolVars(SearchReturns(q))
    /\ \A r \in ToolRequests : WF_toolVars(WriteFrame(r))
    /\ WF_toolVars(ServeReturns)

ToolSpec == ToolInit /\ [][ToolNext]_toolVars /\ ToolFairness

-----------------------------------------------------------------------------
(* As long as a command runs and its task waits for it, its group is in    *)
(* the map, where a cancel finds it, whatever other commands of the        *)
(* session end meanwhile; and an empty entry is one somebody is about to   *)
(* remove.                                                                 *)
RegistryIsExact ==
    serve # "exited" =>
    /\ \A c \in Invokes :
        runner[c] = "wait" /\ proc[c] = "alive" => groups[SessionOf[c]] # Absent
                                                   /\ c \in groups[SessionOf[c]]
    /\ \A s \in ToolSessions :
        groups[s] = {} => \E c \in Invokes : SessionOf[c] = s /\ runner[c] = "empty"

(* An invocation is answered as cancelled only for a cancel of its own     *)
(* session that came after it: one that stops a turn does not reach into   *)
(* the next, although all of a session share a token.                      *)
CancelIsScoped ==
    \A c \in stopped : reached[c] # {}

(* When stdin ends, every request that was read is answered and written    *)
(* before the plugin exits, unless stdout is gone; the loop's end does not *)
(* cut off what its tasks still do.                                        *)
DrainBeforeExit ==
    serve = "exited" /\ stdoutTask = "up" => \A r \in ToolRequests : work[r] \in {"unsent", "written"}

(* A process of a tool is registered while it may have to be killed, and   *)
(* the service does not leave before what it spawned (ProcessController,   *)
(* serve).                                                                 *)
ToolsAreTracked == ToolTypeOK /\ RegistryIsExact /\ DrainBeforeExit

(* What is read is answered, and every command that is started ends: an    *)
(* invocation cannot wait for ever, not even one whose cancel missed its   *)
(* process.                                                                *)
ToolsEnd ==
    /\ \A r \in ToolRequests :
        (work[r] = "spawned") ~> (work[r] \in {"sent", "written", "lost"} \/ serve = "exited")
    /\ \A c \in Invokes : (proc[c] = "alive") ~> (proc[c] # "alive")
==============================================================================
