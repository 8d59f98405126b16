------------------------- MODULE PermissionWorkflow -------------------------
(***************************************************************************)
(* PermissionWorkflowManager (core/src/controller/                         *)
(* permission_workflow_manager.rs), the tool tasks that wait at its gate   *)
(* (ToolController::exec and authorize), the stored rules and the user who *)
(* answers the prompts.                                                    *)
(*                                                                         *)
(* The manager is one task that handles one message at a time, so each     *)
(* handler is one action; a tool task that sends a message and awaits the  *)
(* answer is two.  The session manager (ClearPendingPermission,            *)
(* RemovePermission) and the turn manager (which aborts tool tasks) may do *)
(* so at any moment.                                                       *)
(***************************************************************************)
EXTENDS PermissionClassify

CONSTANTS
    Sessions,
    Calls,      \* call ids; a provider never hands out the same id twice
    Ttl,        \* PERMISSION_EVICT_TTL_SECS, in clock ticks
    MaxTime,    \* bound on the clock
    MaxEpoch    \* bound on removals and restarts

ASSUME WorkflowAssumption ==
    /\ Ttl \in Nat \ {0}
    /\ MaxTime \in Nat
    /\ MaxEpoch \in Nat

VARIABLES
    rules,              \* the permissions table
    sessionPermission,  \* session_permission
    request,            \* permission_tracker, without the futures
    future,             \* the CompletableFuture of each request
    inbox,              \* InitPermissionWorkflow messages not yet handled
    task,               \* where the tool task of each call is
    origin,             \* what each call is: its session and its command
    offered,            \* the answers the frontends have been handed
    now,                \* the clock
    \* history, read by the properties only
    decided,            \* the answers of the user that took effect
    stored,             \* every rule ever stored, with the call it came from
    epoch,              \* how often a session's permissions were forgotten
    era                 \* the epoch of its session in which a call was judged

workflowVars == <<rules, sessionPermission, request, future, inbox, offered, now>>
taskVars == <<task, origin>>
history == <<decided, stored, epoch, era>>
vars == <<workflowVars, taskVars, history>>

Never == -1
NoRequest == [kind |-> "None"]
Requests == [kind : {"Request"}, session : Sessions, command : Commands,
             verdict : Verdicts, evictAt : Nat \cup {Never}]
NoOrigin == [kind |-> "None"]
Origins == [kind : {"Call"}, session : Sessions, command : Commands]
SessionEntry == [known : BOOLEAN, always : BOOLEAN, allowlist : SUBSET {Join(cmd) : cmd \in Commands}]
Forgotten == [known |-> FALSE, always |-> FALSE, allowlist |-> {}]
Granting == {"AllowOnce", "Allow", "AllowSession", "IgnorePermission"}

(* The types of the variables.                                             *)
TypeOK ==
    /\ rules \subseteq Rule
    /\ sessionPermission \in [Sessions -> SessionEntry]
    /\ request \in [Calls -> Requests \cup {NoRequest}]
    /\ future \in [Calls -> {"none", "pending", "dropped"} \cup PermissionState]
    /\ inbox \subseteq Calls
    /\ task \in [Calls -> {"absent", "sent", "streamed", "waiting",
                           "ran", "refused", "aborted"}]
    /\ origin \in [Calls -> Origins \cup {NoOrigin}]
    /\ offered \subseteq [call : Calls, choice : Choice]
    /\ now \in Nat
    /\ decided \subseteq [call : Calls, kind : Granting \cup {"Deny"}]
    /\ stored \subseteq [rule : Rule, call : Calls]
    /\ epoch \in [Sessions -> Nat]
    /\ era \in [Calls -> Nat]

Init ==
    /\ rules = {}
    /\ sessionPermission = [s \in Sessions |-> Forgotten]
    /\ request = [c \in Calls |-> NoRequest]
    /\ future = [c \in Calls |-> "none"]
    /\ inbox = {}
    /\ task = [c \in Calls |-> "absent"]
    /\ origin = [c \in Calls |-> NoOrigin]
    /\ offered = {}
    /\ now = 0
    /\ decided = {}
    /\ stored = {}
    /\ epoch = [s \in Sessions |-> 0]
    /\ era = [c \in Calls |-> 0]

Tracked(c) == request[c] # NoRequest
Pending(c) == Tracked(c) /\ future[c] = "pending"

\* Fault: the sender outlives the request it belonged to.
DropKeepingSender(calls) ==
    /\ request' = [c \in Calls |-> IF c \in calls THEN NoRequest ELSE request[c]]
    /\ UNCHANGED future

(* Dropping a request drops its sender: a waiter that has no value yet     *)
(* gets None, one that has keeps it.                                       *)
Drop(calls) ==
    /\ request' = [c \in Calls |-> IF c \in calls THEN NoRequest ELSE request[c]]
    /\ future' = [c \in Calls |-> IF c \in calls /\ future[c] = "pending"
                                  THEN "dropped" ELSE future[c]]

RequestsOf(s) == {c \in Calls : Tracked(c) /\ request[c].session = s}

-----------------------------------------------------------------------------
(* The tool task and the turn manager.                                     *)

(* A tool call appears in the model's response (exhaust_events): its       *)
(* command goes to the manager at once.                                    *)
CallAppears(c, s, cmd) ==
    /\ task[c] = "absent"
    /\ task' = [task EXCEPT ![c] = "sent"]
    /\ origin' = [origin EXCEPT ![c] = [kind |-> "Call", session |-> s, command |-> cmd]]
    /\ inbox' = inbox \cup {c}
    /\ UNCHANGED <<rules, sessionPermission, request, future, offered, now, history>>

(* A call of a tool no plugin offers at the time is collected, ungated.    *)
UngatedCallAppears(c, s, cmd) ==
    /\ task[c] = "absent"
    /\ task' = [task EXCEPT ![c] = "streamed"]
    /\ origin' = [origin EXCEPT ![c] = [kind |-> "Call", session |-> s, command |-> cmd]]
    /\ UNCHANGED <<workflowVars, history>>

(* exec refuses arguments that do not parse and tools that are (now)       *)
(* unknown before it asks for the permission.                              *)
RefuseUnauthorized(c) ==
    /\ task[c] = "streamed"
    /\ task' = [task EXCEPT ![c] = "refused"]
    /\ UNCHANGED <<workflowVars, origin, history>>

(* authorize, up to the reply of WaitDecision: a missing request refuses   *)
(* the call, otherwise the task holds the future.                          *)
WaitDecision(c) ==
    /\ task[c] = "streamed"
    /\ task' = [task EXCEPT ![c] = IF Tracked(c) THEN "waiting" ELSE "refused"]
    /\ UNCHANGED <<workflowVars, origin, history>>

(* authorize, once the future has a value or its sender is gone; exec then *)
(* runs the tool or returns the refusal to the model.                      *)
Authorize(c) ==
    /\ task[c] = "waiting"
    /\ future[c] # "pending"
    /\ task' = [task EXCEPT ![c] = IF future[c] = "Allow" THEN "ran" ELSE "refused"]
    /\ UNCHANGED <<workflowVars, origin, history>>

(* abort_turn and drop_turn abort the task; a message it has sent stays.   *)
Abort(c) ==
    /\ task[c] \in {"sent", "streamed", "waiting"}
    /\ task' = [task EXCEPT ![c] = "aborted"]
    /\ UNCHANGED <<workflowVars, origin, history>>

-----------------------------------------------------------------------------
(* The manager's handlers.                                                 *)

SessionAllows(s, cmd) ==
    \/ sessionPermission[s].always
    \/ Join(cmd) \in sessionPermission[s].allowlist

\* Fault: the session bypass is looked at before the refusals.
PreResolveBypassFirst(verdict, sessionAllows) ==
    IF verdict.kind = "Err" THEN "Error"
    ELSE IF verdict.decision = "Allow" \/ sessionAllows THEN "Allow"
    ELSE IF verdict.decision = "NotExecutable" THEN "Deny"
    ELSE "pending"

(* What init_permission_workflow makes of a verdict: the state the future  *)
(* is completed with, or "pending".                                        *)
PreResolve(verdict, sessionAllows) ==
    IF verdict.kind = "Err" THEN "Error"
    ELSE IF verdict.decision = "Allow" THEN "Allow"
    ELSE IF verdict.decision = "NotExecutable" THEN "Deny"
    ELSE IF sessionAllows /\ verdict.type = "Composite" THEN "Allow"
    ELSE "pending"

InitPermissionWorkflow(c, dbOk) ==
    LET s == origin[c].session
        cmd == origin[c].command
        verdict == Classify(cmd, rules, dbOk)
        state == PreResolve(verdict, SessionAllows(s, cmd))
    IN
    /\ c \in inbox
    /\ inbox' = inbox \ {c}
    /\ sessionPermission' = [sessionPermission EXCEPT ![s].known = TRUE]
    /\ request' = [request EXCEPT ![c] =
         [kind |-> "Request", session |-> s, command |-> cmd,
          verdict |-> IF verdict.kind = "Ok" THEN verdict
                      ELSE Verdict("Composite", "NotExecutable"),
          evictAt |-> IF state = "pending" THEN Never ELSE now + Ttl]]
    /\ future' = [future EXCEPT ![c] = state]
    /\ task' = [task EXCEPT ![c] = IF @ = "sent" THEN "streamed" ELSE @]
    /\ era' = [era EXCEPT ![c] = epoch[s]]
    /\ UNCHANGED <<rules, offered, now, origin, decided, stored, epoch>>

(* CheckDecision, asked by the session manager when it renders the call    *)
(* (to_render_event) or replays it (restore_session).                      *)
CheckDecision(c) ==
    /\ Pending(c)
    /\ offered' = offered \cup
         {[call |-> c, choice |-> ch] : ch \in Options(request[c].command, request[c].verdict)}
    /\ UNCHANGED <<rules, sessionPermission, request, future, inbox, now, taskVars, history>>

(* PermissionRequest::resolve.                                             *)
Resolve(c, state) ==
    /\ future' = [future EXCEPT ![c] = state]
    /\ request' = [request EXCEPT ![c].evictAt = now + Ttl]

Decides(c, kind) == decided' = decided \cup {[call |-> c, kind |-> kind]}

\* Fault: the guard does not look whether the future is completed.
AnswersTwice(c, choice) == [call |-> c, choice |-> choice] \in offered /\ Tracked(c)

(* get_permission_request_guard: an answer to a request that is gone or    *)
(* already resolved is an error and changes nothing.  Any answer a         *)
(* frontend was handed may come, however late.                             *)
Answers(c, choice) == [call |-> c, choice |-> choice] \in offered /\ Pending(c)

AllowOnce(c) ==
    /\ Answers(c, [kind |-> "AllowOnce"])
    /\ Resolve(c, "Allow")
    /\ Decides(c, "AllowOnce")
    /\ UNCHANGED <<rules, sessionPermission, inbox, offered, now, taskVars, stored, epoch, era>>

Deny(c) ==
    /\ Answers(c, [kind |-> "Deny"])
    /\ Resolve(c, "Deny")
    /\ Decides(c, "Deny")
    /\ UNCHANGED <<rules, sessionPermission, inbox, offered, now, taskVars, stored, epoch, era>>

(* The rule is stored first; when that fails the request stays pending     *)
(* and nothing changes.                                                    *)
Allow(c, rule) ==
    /\ Answers(c, [kind |-> "Allow", rule |-> rule])
    /\ rules' = AddPermission(rules, rule)
    /\ stored' = stored \cup {[rule |-> rule, call |-> c]}
    /\ Resolve(c, "Allow")
    /\ Decides(c, "Allow")
    /\ UNCHANGED <<sessionPermission, inbox, offered, now, taskVars, epoch, era>>

(* A session the manager does not know gets its caller denied.             *)
ForSession(c, kind, entry) ==
    LET s == request[c].session IN
    /\ Answers(c, [kind |-> kind])
    /\ Resolve(c, IF sessionPermission[s].known THEN "Allow" ELSE "Deny")
    /\ sessionPermission' = [sessionPermission EXCEPT ![s] = IF @.known THEN entry ELSE @]
    /\ decided' = IF sessionPermission[s].known
                  THEN decided \cup {[call |-> c, kind |-> kind]} ELSE decided
    /\ UNCHANGED <<rules, inbox, offered, now, taskVars, stored, epoch, era>>

AllowSession(c) ==
    LET entry == sessionPermission[request[c].session] IN
    ForSession(c, "AllowSession",
               [entry EXCEPT !.allowlist = @ \cup {Join(request[c].command)}])

IgnorePermission(c) ==
    LET entry == sessionPermission[request[c].session] IN
    ForSession(c, "IgnorePermission", [entry EXCEPT !.always = TRUE])

(* Cancelling a session: its requests go, its approvals stay.              *)
ClearPendingPermission(s) ==
    /\ RequestsOf(s) # {}
    /\ Drop(RequestsOf(s))
    /\ UNCHANGED <<rules, sessionPermission, inbox, offered, now, taskVars, history>>

\* Fault: the session is forgotten and its requests are not.
RemovePermissionOnly(s) ==
    /\ epoch[s] < MaxEpoch
    /\ sessionPermission[s].known
    /\ sessionPermission' = [sessionPermission EXCEPT ![s] = Forgotten]
    /\ epoch' = [epoch EXCEPT ![s] = @ + 1]
    /\ UNCHANGED <<rules, request, future, inbox, offered, now, taskVars, decided, stored, era>>

(* Removing a session: its approvals go too.                               *)
RemovePermission(s) ==
    /\ epoch[s] < MaxEpoch
    /\ sessionPermission[s].known
    /\ Drop(RequestsOf(s))
    /\ sessionPermission' = [sessionPermission EXCEPT ![s] = Forgotten]
    /\ epoch' = [epoch EXCEPT ![s] = @ + 1]
    /\ UNCHANGED <<rules, inbox, offered, now, taskVars, decided, stored, era>>

(* Every request whose deadline has passed goes; a pending one has none.   *)
Expired(c) == Tracked(c) /\ request[c].evictAt # Never /\ request[c].evictAt <= now
Sweep ==
    /\ \E c \in Calls : Expired(c)
    /\ Drop({c \in Calls : Expired(c)})
    /\ UNCHANGED <<rules, sessionPermission, inbox, offered, now, taskVars, history>>

-----------------------------------------------------------------------------
(* The rest of the program.                                                *)

(* A saved approval is removed from settings (delete_permission).          *)
DeletePermission(rule) ==
    /\ rule \in rules
    /\ rules' = {r \in rules : r.prefix # rule.prefix}
    /\ UNCHANGED <<sessionPermission, request, future, inbox, offered, now, taskVars, history>>

(* The application is started again: only the table of rules survives.     *)
Restart ==
    /\ \A s \in Sessions : epoch[s] < MaxEpoch
    /\ Drop(Calls)
    /\ sessionPermission' = [s \in Sessions |-> Forgotten]
    /\ inbox' = {}
    /\ offered' = {}
    /\ task' = [c \in Calls |-> IF task[c] \in {"sent", "streamed", "waiting"}
                                THEN "aborted" ELSE task[c]]
    /\ epoch' = [s \in Sessions |-> epoch[s] + 1]
    /\ UNCHANGED <<rules, now, origin, decided, stored, era>>

Tick ==
    /\ now < MaxTime
    /\ now' = now + 1
    /\ UNCHANGED <<rules, sessionPermission, request, future, inbox, offered, taskVars, history>>

CallNext(c) ==
    \/ \E s \in Sessions, cmd \in Commands : CallAppears(c, s, cmd) \/ UngatedCallAppears(c, s, cmd)
    \/ RefuseUnauthorized(c)
    \/ WaitDecision(c)
    \/ Authorize(c)
    \/ Abort(c)
    \/ \E dbOk \in BOOLEAN : InitPermissionWorkflow(c, dbOk)
    \/ CheckDecision(c)
    \/ AllowOnce(c)
    \/ Deny(c)
    \/ \E o \in offered : o.choice.kind = "Allow" /\ Allow(c, o.choice.rule)
    \/ AllowSession(c)
    \/ IgnorePermission(c)

Next ==
    \/ \E c \in Calls : CallNext(c)
    \/ \E s \in Sessions : ClearPendingPermission(s) \/ RemovePermission(s)
    \/ \E rule \in rules : DeletePermission(rule)
    \/ Sweep
    \/ Restart
    \/ Tick

(* The tokio scheduler runs the manager and every live tool task.  The     *)
(* user, the clock and the callers that cancel are not obliged to act.     *)
Fairness ==
    \A c \in Calls :
        /\ WF_vars(\E dbOk \in BOOLEAN : InitPermissionWorkflow(c, dbOk))
        /\ WF_vars(WaitDecision(c))
        /\ WF_vars(Authorize(c))

Spec == Init /\ [][Next]_vars /\ Fairness

-----------------------------------------------------------------------------
(* What the gate promises.                                                 *)

(* The argvs that decide about a command: the stripped argv of a single    *)
(* command, the atoms of a list or pipeline, the whole line otherwise.     *)
JudgedArgvs(cmd) ==
    LET parsed == ParseOf[cmd] IN
    CASE parsed.kind = "None" -> {cmd}
      [] parsed.kind = "Err" -> {}
      [] parsed.kind = "Some" ->
           IF Len(parsed.atoms) > 1 THEN Atoms(cmd)
           ELSE {a \in Argvs : StripOf[parsed.atoms[1]] = [kind |-> "Inner", argv |-> a]}

IsMalformed(cmd) ==
    LET parsed == ParseOf[cmd] IN
    \/ parsed.kind = "Err"
    \/ /\ parsed.kind = "Some"
       /\ \/ Len(parsed.atoms) = 1 /\ StripOf[parsed.atoms[1]].kind = "Malformed"
          \/ \E a \in JudgedArgvs(cmd) : SafetyOf[a] = "Err"

IsForbidden(cmd) ==
    IsMalformed(cmd) \/ \E a \in JudgedArgvs(cmd) : SafetyOf[a] = "NotExecutable"

(* A single command that could be read through: the shape that may be      *)
(* approved for future matching calls, and never for a session.            *)
IsSimple(cmd) ==
    /\ ParseOf[cmd].kind = "Some"
    /\ Len(ParseOf[cmd].atoms) = 1
    /\ StripOf[ParseOf[cmd].atoms[1]].kind = "Inner"

IsOrdinary(cmd) == IsSimple(cmd) /\ \A a \in JudgedArgvs(cmd) : SafetyOf[a] = "Unknown"

StoredRules == {e.rule : e \in stored}

(* The built-in tables and the rules the user has ever stored clear every  *)
(* part of the command.                                                    *)
IsCleared(cmd) ==
    /\ ParseOf[cmd].kind = "Some"
    /\ \A a \in JudgedArgvs(cmd) :
         \/ SafetyOf[a] = "Allow"
         \/ SafetyOf[a] = "Unknown" /\ IsCommandAllowed(StoredRules, a)
    /\ JudgedArgvs(cmd) # {}

(* The user allowed the composites of this session, or this very line in   *)
(* it, and the session has not been removed since.                         *)
HasSessionGrant(c) ==
    /\ ~IsSimple(origin[c].command)
    /\ \E d \in decided :
         /\ origin[d.call].session = origin[c].session
         /\ era[d.call] = era[c]
         /\ \/ d.kind = "IgnorePermission"
            \/ /\ d.kind = "AllowSession"
               /\ Join(origin[d.call].command) = Join(origin[c].command)

UserAllowed(c) == \E k \in Granting : [call |-> c, kind |-> k] \in decided

Grounded(c) ==
    /\ ~IsForbidden(origin[c].command)
    /\ UserAllowed(c) \/ IsCleared(origin[c].command) \/ HasSessionGrant(c)

(* "Every extension and MCP tool call passes through the permission gate   *)
(* before it runs": a tool has run only if its command is neither malformed *)
(* nor refused outright, and the user allowed this call, or safe tables    *)
(* and saved approvals clear every part of it, or the user approved the    *)
(* composites (or this line) of the same session since it was created.     *)
RunsAreGrounded == \A c \in Calls : task[c] = "ran" => Grounded(c)

(* "Risky or ambiguous input ... cannot create a persistent approval":     *)
(* every rule in the table was stored by the user's answer to an ordinary  *)
(* single command.                                                         *)
RulesComeFromOrdinaryCommands ==
    \A r \in rules : \E e \in stored :
        e.rule = r /\ IsOrdinary(origin[e.call].command)

(* An approval "for future matching calls" matches the call it was given   *)
(* for: once stored, the same command would be judged "Allow".             *)
RulesMatchTheirCommands ==
    \A e \in stored : \A a \in JudgedArgvs(origin[e.call].command) :
        Matches(e.rule, Join(a))

(* A task never blocks on a request nobody can resolve any more: while it  *)
(* waits for a value, the request is in the map, without a deadline, under *)
(* a session the manager knows (the MissingSession answers are "a bug").   *)
WaitersAreAnswerable ==
    \A c \in Calls :
        task[c] = "waiting" /\ future[c] = "pending" =>
            /\ Tracked(c)
            /\ request[c].evictAt = Never
            /\ sessionPermission[request[c].session].known

(* A call the user denied does not run, whatever arrives after the answer  *)
(* (a second answer, a cancellation, a sweep).                             *)
DenialIsFinal == \A d \in decided : d.kind = "Deny" => task[d.call] # "ran"

(* Every call that reaches the gate gets an outcome, unless the prompt     *)
(* waits for the user in a request that can still be answered; and a task  *)
(* whose request is taken away while it waits gets its outcome after all.  *)
CallsAreDecided ==
    \A c \in Calls :
        task[c] \in {"sent", "streamed", "waiting"} ~>
            \/ task[c] \in {"ran", "refused", "aborted"}
            \/ task[c] = "waiting" /\ Pending(c)

(* permission/entity.rs on AskNoPersist: "Dangerous shape; prompt with     *)
(* once/deny only, never persist."                                         *)
DangerousPromptsAreOnceOrDeny ==
    \A o \in offered :
        (Tracked(o.call) /\ request[o.call].verdict.decision = "AskNoPersist")
            => o.choice.kind \in {"AllowOnce", "Deny"}

(* core/README.md: "safe calls and calls covered by an existing approval   *)
(* can proceed without prompting when execution starts": the sweep does    *)
(* not take away an approval before the call has claimed it.               *)
ApprovalsWaitForExecution ==
    [][Sweep => \A c \in Calls :
         Expired(c) /\ future[c] = "Allow" => task[c] # "streamed"]_vars
=============================================================================
