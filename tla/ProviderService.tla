--------------------------- MODULE ProviderService ---------------------------
(***************************************************************************)
(* A provider plugin: ProviderRuntimeService (provider-base/src/           *)
(* service.rs).  Its loop handles one request at a time; a chat and the    *)
(* end of a connection flow run in tasks of their own, each with a         *)
(* cancellation token in one map, under the session of the chat or the     *)
(* backend of the flow.  The loop spawns such a task before it puts the    *)
(* token into the map, and a task that ends removes whatever token its key *)
(* has by then.                                                            *)
(*                                                                         *)
(* The host keeps the discipline of its turn manager: it sends a chat of a *)
(* session when the one before has ended or it has asked to cancel it.     *)
(***************************************************************************)
EXTENDS Naturals

CONSTANTS
    Chats,          \* ChatRequests
    Flows,          \* FinalizeConnectionRequests
    Cancels,        \* CancelChatRequests and CancelConnectionRequests
    Admin,          \* InitBackendRequests and RemoveBackendRequests
    Queries,        \* requests that are answered at once
    KeyOf,          \* the session of a chat, the backend of a flow, and of their cancels
    PluginBackends, \* the backends of the plugin
    NoToken

Tasks == Chats \cup Flows
PluginRequests == Tasks \cup Cancels \cup Admin \cup Queries
TokenKeys == {KeyOf[r] : r \in Tasks \cup Cancels}

ASSUME ProviderAssumption ==
    /\ Tasks \cap (Cancels \cup Admin \cup Queries) = {}
    /\ Tasks \cap {"off", "idle", NoToken} = {}

VARIABLES
    loop,       \* "off", "idle", or the task whose token the loop is about to insert
    runtimes,   \* the runtime of each backend: "none", "ok", "faulty"
    flights,    \* cancellation: the token of each key, named by its task
    cancelled,  \* the tokens that are cancelled
    job,        \* how far each request is
    closed,     \* the tasks that have sent their last event, and which
    called,     \* history: the tasks the host has asked to cancel
    stray       \* history: the tasks whose token another task has removed

providerVars == <<loop, runtimes, flights, cancelled, job, closed, called, stray>>

ProviderTypeOK ==
    /\ loop \in {"off", "idle"} \cup Tasks
    /\ runtimes \in [PluginBackends -> {"none", "ok", "faulty"}]
    /\ flights \in [TokenKeys -> Tasks \cup {NoToken}]
    /\ cancelled \subseteq Tasks /\ called \subseteq Tasks /\ stray \subseteq Tasks
    /\ job \in [PluginRequests -> {"unsent", "running", "closing", "done"}]
    /\ closed \in [Tasks -> {"no", "own", "cancelled"}]

ProviderRest(where) ==
    /\ loop = where
    /\ runtimes = [b \in PluginBackends |-> "none"]
    /\ flights = [k \in TokenKeys |-> NoToken]
    /\ cancelled = {} /\ called = {} /\ stray = {}
    /\ job = [r \in PluginRequests |-> "unsent"]
    /\ closed = [r \in Tasks |-> "no"]

ProviderInit == ProviderRest("idle")

-----------------------------------------------------------------------------
Live(r) == job[r] = "running"

(* What the host sends when.  A flow is started once per backend at a time *)
(* by the settings page.                                                   *)
MaySend(r) ==
    \A other \in Tasks \ {r} : KeyOf[other] = KeyOf[r] =>
        job[other] = "unsent" \/ closed[other] # "no" \/ other \in called

(* runtime: a chat needs the runtime of some backend.                      *)
HandleChat(c) ==
    /\ loop = "idle" /\ job[c] = "unsent" /\ MaySend(c)
    /\ \E b \in PluginBackends :
        IF runtimes[b] = "none"
        THEN /\ job' = [job EXCEPT ![c] = "done"]
             /\ closed' = [closed EXCEPT ![c] = "own"]
             /\ UNCHANGED loop
        ELSE /\ job' = [job EXCEPT ![c] = "running"]
             /\ loop' = c
             /\ UNCHANGED closed
    /\ UNCHANGED <<runtimes, flights, cancelled, called, stray>>

HandleFinalize(f) ==
    /\ loop = "idle" /\ job[f] = "unsent" /\ MaySend(f)
    /\ job' = [job EXCEPT ![f] = "running"]
    /\ loop' = f
    /\ UNCHANGED <<runtimes, flights, cancelled, closed, called, stray>>

(* A token that is still there belongs to a task that is cancelled.        *)
InsertToken ==
    /\ loop \in Tasks
    /\ cancelled' = cancelled \cup ({flights[KeyOf[loop]]} \ {NoToken})
    /\ flights' = [flights EXCEPT ![KeyOf[loop]] = loop]
    /\ loop' = "idle"
    /\ UNCHANGED <<runtimes, job, closed, called, stray>>

Called(x) == called \cup {r \in Tasks : KeyOf[r] = KeyOf[x] /\ job[r] # "unsent"}

\* Fault: the token is dropped and not cancelled.
HandleCancelDrops(x) ==
    /\ loop = "idle" /\ job[x] = "unsent"
    /\ flights' = [flights EXCEPT ![KeyOf[x]] = NoToken]
    /\ called' = Called(x)
    /\ job' = [job EXCEPT ![x] = "done"]
    /\ UNCHANGED <<loop, runtimes, cancelled, closed, stray>>

HandleCancelRequest(x) ==
    /\ loop = "idle" /\ job[x] = "unsent"
    /\ cancelled' = cancelled \cup ({flights[KeyOf[x]]} \ {NoToken})
    /\ flights' = [flights EXCEPT ![KeyOf[x]] = NoToken]
    /\ called' = Called(x)
    /\ job' = [job EXCEPT ![x] = "done"]
    /\ UNCHANGED <<loop, runtimes, closed, stray>>

(* init_backend: a runtime that could not be built changes nothing; one    *)
(* that is built and finds its service unreachable is kept, and the answer *)
(* is an error.                                                            *)
HandleInitBackend(a, b) ==
    /\ loop = "idle" /\ job[a] = "unsent"
    /\ job' = [job EXCEPT ![a] = "done"]
    /\ \E made \in {"ok", "faulty", runtimes[b]} : runtimes' = [runtimes EXCEPT ![b] = made]
    /\ UNCHANGED <<loop, flights, cancelled, closed, called, stray>>

(* Chats that run keep their runtime.                                      *)
HandleRemoveBackend(a, b) ==
    /\ loop = "idle" /\ job[a] = "unsent"
    /\ job' = [job EXCEPT ![a] = "done"]
    /\ runtimes' = [runtimes EXCEPT ![b] = "none"]
    /\ IF b \in TokenKeys
       THEN /\ cancelled' = cancelled \cup ({flights[b]} \ {NoToken})
            /\ flights' = [flights EXCEPT ![b] = NoToken]
            /\ called' = called \cup ({flights[b]} \ {NoToken})
       ELSE UNCHANGED <<cancelled, flights, called>>
    /\ UNCHANGED <<loop, closed, stray>>

(* Handshake, init_connection, models, health, errors: read and answered.  *)
HandleQuery(q) ==
    /\ loop = "idle" /\ job[q] = "unsent"
    /\ job' = [job EXCEPT ![q] = "done"]
    /\ UNCHANGED <<loop, runtimes, flights, cancelled, closed, called, stray>>

-----------------------------------------------------------------------------
(* The tasks.  The select takes either branch when both are ready.         *)

(* The chat or the flow returns: its last event is sent, and the host may  *)
(* act on it before the token is removed.                                  *)
TaskReturns(r) ==
    /\ Live(r)
    /\ closed' = [closed EXCEPT ![r] = "own"]
    /\ job' = [job EXCEPT ![r] = "closing"]
    /\ UNCHANGED <<loop, runtimes, flights, cancelled, called, stray>>

TaskCancelled(r) ==
    /\ Live(r) /\ r \in cancelled
    /\ closed' = [closed EXCEPT ![r] = "cancelled"]
    /\ job' = [job EXCEPT ![r] = "done"]
    /\ UNCHANGED <<loop, runtimes, flights, cancelled, called, stray>>

\* Fault: the end of a task cancels the token it removes.
RemoveTokenCancels(r) ==
    LET held == flights[KeyOf[r]]
    IN  /\ job[r] = "closing"
        /\ cancelled' = cancelled \cup ({held} \ {NoToken})
        /\ flights' = [flights EXCEPT ![KeyOf[r]] = NoToken]
        /\ job' = [job EXCEPT ![r] = "done"]
        /\ UNCHANGED <<loop, runtimes, closed, called, stray>>

(* cancellation.remove: by key, whoever's token it is.                     *)
RemoveToken(r) ==
    LET held == flights[KeyOf[r]]
    IN  /\ job[r] = "closing"
        /\ flights' = [flights EXCEPT ![KeyOf[r]] = NoToken]
        /\ stray' = stray \cup ({held} \ {NoToken, r})
        /\ job' = [job EXCEPT ![r] = "done"]
        /\ UNCHANGED <<loop, runtimes, cancelled, closed, called>>

TaskStep(r) == TaskReturns(r) \/ TaskCancelled(r) \/ RemoveToken(r)

ProviderNext ==
    \/ \E c \in Chats : HandleChat(c)
    \/ \E f \in Flows : HandleFinalize(f)
    \/ InsertToken
    \/ \E x \in Cancels : HandleCancelRequest(x)
    \/ \E a \in Admin, b \in PluginBackends : HandleInitBackend(a, b) \/ HandleRemoveBackend(a, b)
    \/ \E q \in Queries : HandleQuery(q)
    \/ \E r \in Tasks : TaskStep(r)

(* The tasks are scheduled; that a chat returns by itself is not assumed.  *)
ProviderFairness ==
    /\ \A r \in Tasks : WF_providerVars(TaskCancelled(r)) /\ WF_providerVars(RemoveToken(r))
    /\ WF_providerVars(InsertToken)

ProviderSpec == ProviderInit /\ [][ProviderNext]_providerVars

-----------------------------------------------------------------------------
(* A session has one chat at work: another that still runs has been        *)
(* cancelled and ends, unless its token was taken by the end of the chat   *)
(* before it, which is the one way a chat gets out of reach.               *)
OneChatAtWork ==
    \A r, t \in Tasks :
        r # t /\ KeyOf[r] = KeyOf[t] /\ Live(r) /\ Live(t) =>
            {r, t} \cap (cancelled \cup stray) # {} \/ loop \in {r, t}

(* A task ends as cancelled only when the host has asked for it: no cancel *)
(* and no end of another chat or flow hits one of another session or one   *)
(* that was started later.                                                 *)
CancelHitsItsTask ==
    \A r \in Tasks : closed[r] = "cancelled" => r \in called

(* A session has one chat at work, and a cancel reaches the task it is     *)
(* for, not the one that took its place (ProviderRuntimeService::handle).  *)
ChatsAreTracked == ProviderTypeOK /\ OneChatAtWork /\ CancelHitsItsTask

(* What is cancelled ends, whatever the model's service does.              *)
CancelledTasksEnd ==
    \A r \in Tasks : (r \in cancelled) ~> (job[r] \in {"closing", "done"})
==============================================================================
