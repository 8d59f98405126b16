---------------------------- MODULE McpController ----------------------------
(***************************************************************************)
(* MCP servers: McpController (core/src/mcp/controller.rs), its cache of   *)
(* tool specs (cache.rs) and the calls of a connection (mod.rs).           *)
(*                                                                         *)
(* A server is a row of the plugins table, a handler and a slot of the     *)
(* cache.  Servers of the table connect in the background at the start;    *)
(* the settings page adds, changes and removes servers meanwhile.  A task  *)
(* is one of these; its steps are the pieces between two accesses to what  *)
(* is shared.                                                              *)
(***************************************************************************)
EXTENDS Naturals

CONSTANTS
    Servers,
    McpTasks,       \* the tasks of a behaviour
    McpKind,        \* what each does: "boot", "add", "change" or "remove"
    McpServer,      \* and to which server
    McpCalls,       \* calls of tools, all of one server
    CalledServer,
    MaxRetries,     \* MAX_RETRY_TIMES
    None

Configs == {"first", "second"}

ASSUME McpAssumption ==
    /\ McpKind \in [McpTasks -> {"boot", "add", "change", "remove"}]
    /\ McpServer \in [McpTasks -> Servers]
    /\ CalledServer \in Servers
    /\ MaxRetries \in Nat
    /\ None \notin Configs \cup {"dead", "empty"}

VARIABLES
    mcp,        \* "off", "on"
    table,      \* the config of each server in the table
    handler,    \* the config each handler was connected with, "dead" without a client
    status,     \* and its health
    slot,       \* the config whose specs the cache holds, "empty" for no specs
    old,        \* the slots past their time to live
    refetch,    \* the config a refresh in the background asks
    reader,     \* the config a listing of schemas has read
    task,       \* how far each task is
    crossed,    \* history: servers that two tasks worked on at the same time, or whose add was aborted
    attempt,    \* how far each call is
    sends,      \* how often it was tried
    remote,     \* what the server does about it
    told        \* the calls for which a cancellation was sent

mcpSpecs == <<slot, old, refetch, reader>>
mcpTasks == <<task, crossed>>
mcpCallVars == <<attempt, sends, remote, told>>
mcpVars == <<mcp, table, handler, status, mcpSpecs, mcpTasks, mcpCallVars>>

McpTypeOK ==
    /\ mcp \in {"off", "on"}
    /\ {table, refetch, reader} \subseteq [Servers -> Configs \cup {None}]
    /\ handler \in [Servers -> Configs \cup {None, "dead"}]
    /\ slot \in [Servers -> Configs \cup {None, "empty"}]
    /\ status \in [Servers -> {"Running", "Unhealthy"}]
    /\ old \subseteq Servers
    /\ task \in [McpTasks -> {"idle", "connecting", "connected", "refused", "cached", "empty", "unlisted",
                               "stopped", "unstored", "over"}]
    /\ crossed \subseteq Servers
    /\ attempt \in [McpCalls -> {"idle", "sending", "waiting", "over"}]
    /\ sends \in [McpCalls -> 0..(MaxRetries + 1)]
    /\ remote \in [McpCalls -> {"none", "running", "done", "lost"}]
    /\ told \subseteq McpCalls

(* The servers with a boot task are in the table when the program starts.  *)
McpRest(where) ==
    /\ mcp = where
    /\ table = [s \in Servers |-> IF \E t \in McpTasks : McpKind[t] = "boot" /\ McpServer[t] = s
                                  THEN "first" ELSE None]
    /\ handler = [s \in Servers |-> None] /\ slot = handler /\ refetch = handler /\ reader = handler
    /\ status = [s \in Servers |-> "Running"]
    /\ old = {} /\ crossed = {} /\ told = {}
    /\ task = [t \in McpTasks |-> "idle"]
    /\ attempt = [c \in McpCalls |-> "idle"]
    /\ sends = [c \in McpCalls |-> 0]
    /\ remote = [c \in McpCalls |-> "none"]

McpInit == McpRest("on")

Active(t) == task[t] \notin {"idle", "over"}
To(t, pc) == task' = [task EXCEPT ![t] = pc]

Crosses(t) ==
    crossed' = IF \E other \in McpTasks \ {t} : McpServer[other] = McpServer[t] /\ Active(other)
               THEN crossed \cup {McpServer[t]} ELSE crossed

NewConfig(t) == IF McpKind[t] = "change" THEN "second" ELSE "first"

(* The boot tasks are spawned before there is a settings page.             *)
Booted == \A b \in McpTasks : McpKind[b] = "boot" => task[b] # "idle"
MayBegin(t, kind) == mcp = "on" /\ McpKind[t] = kind /\ task[t] = "idle" /\ (kind # "boot" => Booted)

-----------------------------------------------------------------------------
(* new: one task per server of the table.                                  *)
BeginBoot(t) ==
    /\ MayBegin(t, "boot")
    /\ To(t, "connecting") /\ Crosses(t)
    /\ UNCHANGED <<mcp, table, handler, status, mcpSpecs, mcpCallVars>>

(* finalize_connection: the row comes first, since an OAuth connection     *)
(* loads its credential from there; a name that is taken is refused.       *)
BeginAdd(t) ==
    LET s == McpServer[t]
    IN  /\ MayBegin(t, "add")
        /\ IF table[s] # None THEN To(t, "over") /\ UNCHANGED <<table, crossed>>
           ELSE /\ table' = [table EXCEPT ![s] = NewConfig(t)]
                /\ To(t, "connecting") /\ Crosses(t)
        /\ UNCHANGED <<mcp, handler, status, mcpSpecs, mcpCallVars>>

(* update_mcp: the server is in the list when its dialog is opened.        *)
BeginChange(t) ==
    /\ MayBegin(t, "change") /\ table[McpServer[t]] # None
    /\ To(t, "connecting") /\ Crosses(t)
    /\ UNCHANGED <<mcp, table, handler, status, mcpSpecs, mcpCallVars>>

(* McpPlugin::new: it connects, with retries, within CONNECTION_TIMEOUT,   *)
(* or is unhealthy and has no client; at the start that is a handler too,  *)
(* register_mcp refuses it.                                                *)
Connect(t, ok) ==
    /\ task[t] = "connecting"
    /\ To(t, IF ok THEN "connected"
             ELSE CASE McpKind[t] = "boot" -> "refused" [] McpKind[t] = "add" -> "unstored" [] OTHER -> "over")
    /\ UNCHANGED <<mcp, table, handler, status, mcpSpecs, crossed, mcpCallVars>>

(* A refresh of the slot that is under way will be dropped.                *)
CacheSpecs(t) ==
    LET s == McpServer[t]
    IN  /\ task[t] \in {"connected", "refused"}
        /\ slot' = [slot EXCEPT ![s] = IF task[t] = "refused" THEN "empty" ELSE NewConfig(t)]
        /\ old' = old \ {s} /\ refetch' = [refetch EXCEPT ![s] = None]
        /\ To(t, IF task[t] = "refused" THEN "empty" ELSE "cached")
        /\ UNCHANGED <<mcp, table, handler, status, reader, crossed, mcpCallVars>>

(* The handler that is replaced goes with its last caller.                 *)
Register(t) ==
    LET s == McpServer[t]
    IN  /\ task[t] \in {"cached", "empty"}
        /\ handler' = [handler EXCEPT ![s] = IF task[t] = "empty" THEN "dead" ELSE NewConfig(t)]
        /\ status' = [status EXCEPT ![s] = IF task[t] = "empty" THEN "Unhealthy" ELSE "Running"]
        /\ To(t, IF McpKind[t] = "change" THEN "unlisted" ELSE "over")
        /\ UNCHANGED <<mcp, table, mcpSpecs, crossed, mcpCallVars>>

(* A change is stored at last; no row is an error, and the handler stays.  *)
StoreChange(t) ==
    LET s == McpServer[t]
    IN  /\ task[t] = "unlisted"
        /\ table' = IF table[s] = None THEN table ELSE [table EXCEPT ![s] = NewConfig(t)]
        /\ To(t, "over")
        /\ UNCHANGED <<mcp, handler, status, mcpSpecs, crossed, mcpCallVars>>

(* remove_mcp: handler, slot, row.                                         *)
BeginRemoval(t) ==
    LET s == McpServer[t]
    IN  /\ MayBegin(t, "remove") /\ table[s] # None
        /\ handler' = [handler EXCEPT ![s] = None]
        /\ To(t, "stopped") /\ Crosses(t)
        /\ UNCHANGED <<mcp, table, status, mcpSpecs, mcpCallVars>>

RemoveSpecs(t) ==
    LET s == McpServer[t]
    IN  /\ task[t] = "stopped"
        /\ slot' = [slot EXCEPT ![s] = None]
        /\ old' = old \ {s} /\ refetch' = [refetch EXCEPT ![s] = None]
        /\ To(t, "unstored")
        /\ UNCHANGED <<mcp, table, handler, status, reader, crossed, mcpCallVars>>

\* Fault: the row of a server that does not connect is left.
DeleteNoPlugin(t) ==
    /\ task[t] = "unstored"
    /\ table' = IF McpKind[t] = "add" THEN table ELSE [table EXCEPT ![McpServer[t]] = None]
    /\ To(t, "over")
    /\ UNCHANGED <<mcp, handler, status, mcpSpecs, crossed, mcpCallVars>>

(* delete_plugin: the end of a removal, or of an add that did not connect. *)
DeletePlugin(t) ==
    /\ task[t] = "unstored"
    /\ table' = [table EXCEPT ![McpServer[t]] = None]
    /\ To(t, "over")
    /\ UNCHANGED <<mcp, handler, status, mcpSpecs, crossed, mcpCallVars>>

(* The popup of the authorization is closed: the front end aborts the call *)
(* at its next await, and the row stays.                                   *)
AbortAdd(t) ==
    /\ McpKind[t] = "add" /\ Active(t)
    /\ To(t, "over") /\ crossed' = crossed \cup {McpServer[t]}
    /\ UNCHANGED <<mcp, table, handler, status, mcpSpecs, mcpCallVars>>

-----------------------------------------------------------------------------
(* schemas, for a turn: the running handlers, then the slot of each.       *)

ReadHandlers(s) ==
    /\ mcp = "on" /\ reader[s] = None /\ handler[s] \in Configs /\ status[s] = "Running"
    /\ reader' = [reader EXCEPT ![s] = handler[s]]
    /\ UNCHANGED <<mcp, table, handler, status, slot, old, refetch, mcpTasks, mcpCallVars>>

(* A slot that is missing is fetched, one past its time is fetched in the  *)
(* background by one caller at a time.                                     *)
GetSpecs(s) ==
    /\ reader[s] # None
    /\ reader' = [reader EXCEPT ![s] = None]
    /\ slot' = IF slot[s] = None THEN [slot EXCEPT ![s] = reader[s]] ELSE slot
    /\ refetch' = IF slot[s] # None /\ s \in old /\ refetch[s] = None
                  THEN [refetch EXCEPT ![s] = reader[s]] ELSE refetch
    /\ UNCHANGED <<mcp, table, handler, status, old, mcpTasks, mcpCallVars>>

(* The server that is asked may be the one that was replaced meanwhile.    *)
ListingFails(s) ==
    /\ reader[s] # None
    /\ slot[s] = None
    /\ reader' = [reader EXCEPT ![s] = None]
    /\ status' = IF handler[s] = reader[s] THEN [status EXCEPT ![s] = "Unhealthy"] ELSE status
    /\ UNCHANGED <<mcp, table, handler, slot, old, refetch, mcpTasks, mcpCallVars>>

(* The revision of the slot is the one the refresh began with: an insert   *)
(* or a removal in between has emptied refetch.                            *)
Refetched(s) ==
    /\ refetch[s] # None
    /\ refetch' = [refetch EXCEPT ![s] = None]
    /\ \/ slot' = [slot EXCEPT ![s] = refetch[s]] /\ old' = old \ {s} /\ UNCHANGED status
       \/ /\ status' = IF handler[s] = refetch[s] THEN [status EXCEPT ![s] = "Unhealthy"] ELSE status
          /\ UNCHANGED <<slot, old>>
    /\ UNCHANGED <<mcp, table, handler, reader, mcpTasks, mcpCallVars>>

(* MCP_SPECS_CACHE_TTL_SECS is hours, a task or a listing takes seconds.   *)
Expire(s) ==
    /\ mcp = "on" /\ slot[s] # None /\ reader[s] = None /\ \A t \in McpTasks : McpServer[t] = s => ~Active(t)
    /\ old' = old \cup {s} /\ old' # old
    /\ UNCHANGED <<mcp, table, handler, status, slot, refetch, reader, mcpTasks, mcpCallVars>>

-----------------------------------------------------------------------------
(* call: a request, tried again when the connection fails.                 *)

(* locate: the first handler whose slot has the tool, whatever its health. *)
BeginCall(c) ==
    /\ mcp = "on" /\ attempt[c] = "idle"
    /\ handler[CalledServer] # None /\ slot[CalledServer] \in Configs
    /\ attempt' = [attempt EXCEPT ![c] = IF handler[CalledServer] = "dead" THEN "over" ELSE "sending"]
    /\ UNCHANGED <<mcp, table, handler, status, mcpSpecs, mcpTasks, sends, remote, told>>

SendCall(c) ==
    /\ attempt[c] = "sending" /\ sends[c] <= MaxRetries
    /\ sends' = [sends EXCEPT ![c] = @ + 1]
    /\ attempt' = [attempt EXCEPT ![c] = "waiting"]
    /\ remote' = [remote EXCEPT ![c] = "running"]
    /\ UNCHANGED <<mcp, table, handler, status, mcpSpecs, mcpTasks, told>>

(* TransportSend, or TransportClosed while it waits: it is sent again, up  *)
(* to MaxRetries times.  A server that already has the request keeps it.   *)
Retry(c) ==
    /\ attempt[c] \in {"sending", "waiting"}
    /\ LET tries == IF attempt[c] = "sending" THEN sends[c] + 1 ELSE sends[c]
       IN  /\ tries <= MaxRetries + 1
           /\ sends' = [sends EXCEPT ![c] = tries]
           /\ remote' = [remote EXCEPT ![c] = IF @ = "running" THEN "lost" ELSE @]
           /\ IF tries <= MaxRetries
              THEN attempt' = [attempt EXCEPT ![c] = "sending"] /\ UNCHANGED status
              ELSE /\ attempt' = [attempt EXCEPT ![c] = "over"]
                   /\ status' = [status EXCEPT ![CalledServer] = "Unhealthy"]
    /\ UNCHANGED <<mcp, table, handler, mcpSpecs, mcpTasks, told>>

(* An answer, or an error of the server itself, which does not count       *)
(* against its health.                                                     *)
CallReturns(c) ==
    /\ attempt[c] = "waiting" /\ remote[c] = "done"
    /\ attempt' = [attempt EXCEPT ![c] = "over"]
    /\ \E s \in {"Running", status[CalledServer]} : status' = [status EXCEPT ![CalledServer] = s]
    /\ UNCHANGED <<mcp, table, handler, mcpSpecs, mcpTasks, sends, remote, told>>

\* Fault: a request that is given up is not cancelled.
GiveUpSilently(c) ==
    /\ attempt[c] \in {"sending", "waiting"}
    /\ attempt' = [attempt EXCEPT ![c] = "over"]
    /\ UNCHANGED <<mcp, table, handler, status, mcpSpecs, mcpTasks, sends, remote, told>>

(* The call times out or its session is cancelled: the future is dropped,  *)
(* and CancellableRequest with it, which tells the server.                 *)
GiveUp(c) ==
    /\ attempt[c] \in {"sending", "waiting"}
    /\ attempt' = [attempt EXCEPT ![c] = "over"]
    /\ told' = IF attempt[c] = "waiting" THEN told \cup {c} ELSE told
    /\ UNCHANGED <<mcp, table, handler, status, mcpSpecs, mcpTasks, sends, remote>>

(* The server: external.                                                   *)
ServerEnds(c) ==
    /\ remote[c] = "running"
    /\ remote' = [remote EXCEPT ![c] = "done"]
    /\ UNCHANGED <<mcp, table, handler, status, mcpSpecs, mcpTasks, attempt, sends, told>>

McpNext ==
    \/ \E t \in McpTasks :
        \/ BeginBoot(t) \/ BeginAdd(t) \/ BeginChange(t) \/ BeginRemoval(t)
        \/ Connect(t, TRUE) \/ Connect(t, FALSE) \/ CacheSpecs(t) \/ Register(t)
        \/ StoreChange(t) \/ DeletePlugin(t) \/ RemoveSpecs(t) \/ AbortAdd(t)
    \/ \E s \in Servers : ReadHandlers(s) \/ GetSpecs(s) \/ ListingFails(s) \/ Refetched(s) \/ Expire(s)
    \/ \E c \in McpCalls :
        \/ BeginCall(c) \/ SendCall(c) \/ Retry(c) \/ CallReturns(c) \/ GiveUp(c) \/ ServerEnds(c)

McpSpec == McpInit /\ [][McpNext]_mcpVars

-----------------------------------------------------------------------------
(* When no task is under way, a handler is one of the table, was connected *)
(* with the config of the table, and the cache has the specs of that very  *)
(* connection, whatever was listed or refreshed meanwhile: what the model  *)
(* is offered can be called.  Connections that failed have left nothing.   *)
(* Only a server that two tasks worked on at the same time, or whose add   *)
(* was aborted, is excepted.                                               *)
ServersAgree ==
    (\A t \in McpTasks : ~Active(t)) =>
        \A s \in Servers \ crossed :
            /\ handler[s] \in Configs => handler[s] = table[s] /\ slot[s] = handler[s]
            /\ handler[s] = "dead" => table[s] # None /\ slot[s] = "empty"
            /\ table[s] # None /\ Booted => handler[s] # None

(* The server works on a call that nobody waits for only if it has been    *)
(* told, or the connection was lost.                                       *)
NoAbandonedCalls ==
    \A c \in McpCalls : attempt[c] = "over" /\ remote[c] = "running" => c \in told

(* When nothing is under way the connected MCP servers are the stored      *)
(* ones, and nobody waits for a call that was given up (McpController).    *)
ServersSettle == McpTypeOK /\ ServersAgree /\ NoAbandonedCalls
=============================================================================
