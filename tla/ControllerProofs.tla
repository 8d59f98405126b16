-------------------------- MODULE ControllerProofs --------------------------
(***************************************************************************)
(* Proofs about the controllers of MCP servers and of extensions, the      *)
(* login flows and the cached value behind the model lists, for any number *)
(* of servers, extensions, tasks, calls, flows and callers: what is        *)
(* stored, what is connected and what is cached agree again once the tasks *)
(* are over; a login whose time has not run out succeeds; a reader of the  *)
(* cached value neither waits for its refresh nor goes back.  The accounts *)
(* of providers are in AccountProofs.                                      *)
(***************************************************************************)
EXTENDS McpController, ExtensionController, ConnectFlow, RefreshSlot, FiniteSetTheorems, TLAPS

-----------------------------------------------------------------------------
(* McpController.                                                          *)

On(t, s) == McpServer[t] = s /\ Active(t)
Quiet(s) == \A t \in McpTasks : ~On(t, s)

(* Two tasks at the same time are recorded in crossed.                     *)
OneAtATime ==
    \A s \in Servers \ crossed : \A t, u \in McpTasks : On(t, s) /\ On(u, s) => t = u

(* Until every boot task is spawned no other task exists and the table is  *)
(* that of the start.                                                      *)
BootComesFirst ==
    ~Booted => \A t \in McpTasks : IF McpKind[t] = "boot" THEN table[McpServer[t]] = "first"
                                                          ELSE task[t] = "idle"

(* A handler is of the table's config and its specs are cached.            *)
Matched(s) ==
    /\ handler[s] \in Configs => handler[s] = table[s] /\ slot[s] = handler[s]
    /\ handler[s] = "dead" => table[s] # None /\ slot[s] = "empty"

Connected(s) ==
    table[s] # None /\ (\A b \in McpTasks : McpKind[b] = "boot" /\ McpServer[b] = s => task[b] # "idle")
        => handler[s] # None

(* A task takes the steps of its kind.                                     *)
StepsFitKind ==
    \A t \in McpTasks :
        /\ task[t] \in {"connecting", "connected", "cached"} => McpKind[t] # "remove"
        /\ task[t] \in {"refused", "empty"} => McpKind[t] = "boot"
        /\ task[t] = "unlisted" => McpKind[t] = "change"
        /\ task[t] = "stopped" => McpKind[t] = "remove"
        /\ task[t] = "unstored" => McpKind[t] \in {"add", "remove"}

(* The row a task that connects works for.                                 *)
RowStands(t) ==
    /\ table[McpServer[t]] # None
    /\ McpKind[t] \in {"boot", "add"} => table[McpServer[t]] = "first"

(* What a task has done to its server so far.                              *)
TaskOK(t) ==
    LET s == McpServer[t]
    IN  /\ task[t] \in {"connecting", "connected", "refused"} =>
            /\ Matched(s) /\ RowStands(t)
            /\ McpKind[t] = "add" => handler[s] = None
            /\ McpKind[t] = "change" => handler[s] # None
        /\ task[t] \in {"cached", "empty"} =>
            /\ RowStands(t)
            /\ slot[s] = IF task[t] = "empty" THEN "empty" ELSE NewConfig(t)
            /\ s \notin old /\ refetch[s] = None
        /\ task[t] = "unlisted" =>
            /\ RowStands(t)
            /\ handler[s] = NewConfig(t) /\ slot[s] = NewConfig(t)
        /\ task[t] \in {"stopped", "unstored"} => handler[s] = None

(* A refresh under way, and a listing that may begin one, asks the         *)
(* connection that is registered.                                          *)
Fresh(s) ==
    \/ handler[s] = None
    \/ /\ refetch[s] \in {None, handler[s]}
       /\ s \in old => reader[s] \in {None, handler[s]}

(* A server no two tasks met on.                                           *)
ServerOK(s) ==
    /\ Fresh(s)
    /\ Quiet(s) => Matched(s) /\ Connected(s)
    /\ \A t \in McpTasks : McpServer[t] = s => TaskOK(t)

ServersInv == \A s \in Servers \ crossed : ServerOK(s)

(* A request the server works on is one its caller waits for, or was told  *)
(* about.                                                                  *)
CallsInv ==
    \A c \in McpCalls :
        /\ attempt[c] = "idle" => remote[c] = "none"
        /\ remote[c] = "running" => attempt[c] = "waiting" \/ c \in told

McpInv == McpTypeOK /\ StepsFitKind /\ OneAtATime /\ BootComesFirst /\ ServersInv /\ CallsInv

(* A controller that starts satisfies the invariant.                       *)
LEMMA McpInitOK == McpInit => McpInv
  <1> SUFFICES ASSUME McpInit PROVE McpInv
    OBVIOUS
  <1> USE McpAssumption DEF McpInit, McpRest
  <1>1. McpTypeOK
    BY DEF McpTypeOK, Configs
  <1>2. StepsFitKind /\ OneAtATime /\ CallsInv
    BY DEF StepsFitKind, OneAtATime, On, Active, CallsInv
  <1>3. BootComesFirst
    BY DEF BootComesFirst
  <1>4. ServersInv
    BY DEF ServersInv, ServerOK, Fresh, Matched, Connected, TaskOK, Quiet, Configs
  <1> QED
    BY <1>1, <1>2, <1>3, <1>4 DEF McpInv

(* A step that touches neither the server nor its tasks.                   *)
LEMMA ServerFrame ==
  ASSUME NEW s \in Servers, ServerOK(s),
         table'[s] = table[s], handler'[s] = handler[s], slot'[s] = slot[s],
         refetch'[s] = refetch[s], reader'[s] = reader[s], s \in old' <=> s \in old,
         \A t \in McpTasks : McpServer[t] = s => task'[t] = task[t]
  PROVE  ServerOK(s)'
  BY McpAssumption DEF ServerOK, Fresh, Quiet, On, Active, Matched, Connected, TaskOK, RowStands, NewConfig

(* A step of the only task at a server.                                    *)
LEMMA ServerTask ==
  ASSUME McpTypeOK, NEW t \in McpTasks, NEW pc, To(t, pc),
         \A u \in McpTasks \ {t} : McpServer[u] = McpServer[t] => ~Active(u),
         Fresh(McpServer[t])', TaskOK(t)',
         pc = "over" => Matched(McpServer[t])' /\ Connected(McpServer[t])',
         pc # "idle"
  PROVE  ServerOK(McpServer[t])'
  <1> DEFINE s == McpServer[t]
  <1>1. task'[t] = pc
    BY DEF To, McpTypeOK
  <1>2. \A u \in McpTasks \ {t} : McpServer[u] = s => task'[u] = task[u] /\ task[u] \in {"idle", "over"}
    BY DEF To, McpTypeOK, Active
  <1>3. \A u \in McpTasks \ {t} : McpServer[u] = s => TaskOK(u)'
    BY <1>2 DEF TaskOK
  <1>4. Quiet(s)' => pc = "over"
    BY <1>1 DEF Quiet, On, Active
  <1> QED
    BY <1>3, <1>4 DEF ServerOK

(* Every step keeps the types.                                             *)
LEMMA McpTypeStep ==
  ASSUME McpTypeOK, McpNext
  PROVE  McpTypeOK'
  <1> USE McpAssumption DEF McpTypeOK, mcpSpecs, mcpTasks, mcpCallVars, Configs
  <1>1. ASSUME NEW t \in McpTasks,
               \/ BeginBoot(t) \/ BeginAdd(t) \/ BeginChange(t) \/ BeginRemoval(t)
               \/ Connect(t, TRUE) \/ Connect(t, FALSE) \/ CacheSpecs(t) \/ Register(t)
               \/ StoreChange(t) \/ DeletePlugin(t) \/ RemoveSpecs(t) \/ AbortAdd(t)
        PROVE  McpTypeOK'
    <2> USE DEF To, Crosses, NewConfig
    <2>1. CASE BeginBoot(t)
      BY <2>1 DEF BeginBoot
    <2>2. CASE BeginAdd(t)
      BY <2>2 DEF BeginAdd
    <2>3. CASE BeginChange(t)
      BY <2>3 DEF BeginChange
    <2>4. CASE BeginRemoval(t)
      BY <2>4 DEF BeginRemoval
    <2>5. ASSUME NEW ok \in BOOLEAN, Connect(t, ok)
          PROVE  McpTypeOK'
      BY <2>5 DEF Connect
    <2>6. CASE CacheSpecs(t)
      BY <2>6 DEF CacheSpecs
    <2>7. CASE Register(t)
      BY <2>7 DEF Register
    <2>8. CASE StoreChange(t)
      BY <2>8 DEF StoreChange
    <2>9. CASE DeletePlugin(t)
      BY <2>9 DEF DeletePlugin
    <2>10. CASE RemoveSpecs(t)
      BY <2>10 DEF RemoveSpecs
    <2>11. CASE AbortAdd(t)
      BY <2>11 DEF AbortAdd
    <2> QED
      BY <1>1, <2>1, <2>2, <2>3, <2>4, <2>5, <2>6, <2>7, <2>8, <2>9, <2>10, <2>11
  <1>2. ASSUME NEW s \in Servers, ReadHandlers(s) \/ GetSpecs(s) \/ ListingFails(s) \/ Refetched(s) \/ Expire(s)
        PROVE  McpTypeOK'
    <2>1. CASE ReadHandlers(s)
      BY <2>1 DEF ReadHandlers
    <2>2. CASE GetSpecs(s)
      BY <2>2 DEF GetSpecs
    <2>3. CASE ListingFails(s)
      BY <2>3 DEF ListingFails
    <2>4. CASE Refetched(s)
      BY <2>4 DEF Refetched
    <2>5. CASE Expire(s)
      BY <2>5 DEF Expire
    <2> QED
      BY <1>2, <2>1, <2>2, <2>3, <2>4, <2>5
  <1>3. ASSUME NEW c \in McpCalls,
               \/ BeginCall(c) \/ SendCall(c) \/ Retry(c) \/ CallReturns(c) \/ GiveUp(c) \/ ServerEnds(c)
        PROVE  McpTypeOK'
    <2>1. CASE BeginCall(c)
      BY <2>1 DEF BeginCall
    <2>2. CASE SendCall(c)
      BY <2>2 DEF SendCall
    <2>3. CASE Retry(c)
      BY <2>3 DEF Retry
    <2>4. CASE CallReturns(c)
      BY <2>4 DEF CallReturns
    <2>5. CASE GiveUp(c)
      BY <2>5 DEF GiveUp
    <2>6. CASE ServerEnds(c)
      BY <2>6 DEF ServerEnds
    <2> QED
      BY <1>3, <2>1, <2>2, <2>3, <2>4, <2>5, <2>6
  <1> QED
    BY <1>1, <1>2, <1>3 DEF McpNext

(* The calls of a connection: what is given up while the server works on   *)
(* it is told to the server, and what is tried again was lost.             *)
LEMMA McpCallsStep ==
  ASSUME McpTypeOK, CallsInv, McpNext
  PROVE  CallsInv'
  <1> USE DEF McpTypeOK, CallsInv, mcpCallVars
  <1>1. ASSUME NEW c \in McpCalls, BeginCall(c)
        PROVE  CallsInv'
    BY <1>1 DEF BeginCall
  <1>2. ASSUME NEW c \in McpCalls, SendCall(c)
        PROVE  CallsInv'
    BY <1>2 DEF SendCall
  <1>3. ASSUME NEW c \in McpCalls, Retry(c)
        PROVE  CallsInv'
    BY <1>3 DEF Retry
  <1>4. ASSUME NEW c \in McpCalls, CallReturns(c)
        PROVE  CallsInv'
    BY <1>4 DEF CallReturns
  <1>5. ASSUME NEW c \in McpCalls, GiveUp(c)
        PROVE  CallsInv'
    BY <1>5 DEF GiveUp
  <1>6. ASSUME NEW c \in McpCalls, ServerEnds(c)
        PROVE  CallsInv'
    BY <1>6 DEF ServerEnds
  <1>7. ASSUME UNCHANGED mcpCallVars
        PROVE  CallsInv'
    BY <1>7
  <1> QED
    BY <1>1, <1>2, <1>3, <1>4, <1>5, <1>6, <1>7
    DEF McpNext, BeginBoot, BeginAdd, BeginChange, BeginRemoval, Connect, CacheSpecs, Register, StoreChange,
        DeletePlugin, RemoveSpecs, AbortAdd, ReadHandlers, GetSpecs, ListingFails, Refetched, Expire

(* Every task goes through the steps of its kind.                          *)
LEMMA McpKindStep ==
  ASSUME McpTypeOK, StepsFitKind, McpNext
  PROVE  StepsFitKind'
  <1> USE McpAssumption DEF McpTypeOK, StepsFitKind, To, mcpTasks
  <1>1. ASSUME NEW t \in McpTasks, BeginBoot(t) \/ BeginAdd(t) \/ BeginChange(t) \/ BeginRemoval(t)
        PROVE  StepsFitKind'
    BY <1>1 DEF BeginBoot, BeginAdd, BeginChange, BeginRemoval, MayBegin
  <1>2. ASSUME NEW t \in McpTasks, NEW ok \in BOOLEAN, Connect(t, ok)
        PROVE  StepsFitKind'
    BY <1>2 DEF Connect
  <1>3. ASSUME NEW t \in McpTasks, CacheSpecs(t) \/ Register(t) \/ StoreChange(t) \/ DeletePlugin(t)
                                   \/ RemoveSpecs(t) \/ AbortAdd(t)
        PROVE  StepsFitKind'
    BY <1>3 DEF CacheSpecs, Register, StoreChange, DeletePlugin, RemoveSpecs, AbortAdd
  <1>4. ASSUME UNCHANGED task
        PROVE  StepsFitKind'
    BY <1>4
  <1> QED
    BY <1>1, <1>2, <1>3, <1>4
    DEF McpNext, ReadHandlers, GetSpecs, ListingFails, Refetched, Expire, BeginCall, SendCall, Retry,
        CallReturns, GiveUp, ServerEnds

(* The boot tasks come first: the other ones wait for them, and a boot     *)
(* task writes no row.                                                     *)
LEMMA McpBootStep ==
  ASSUME McpTypeOK, StepsFitKind, BootComesFirst, McpNext
  PROVE  BootComesFirst'
  <1> USE McpAssumption DEF McpTypeOK, To, mcpTasks
  <1>1. ASSUME NEW t \in McpTasks, BeginBoot(t)
        PROVE  BootComesFirst'
    BY <1>1 DEF BeginBoot, MayBegin, BootComesFirst, Booted
  <1>2. ASSUME NEW t \in McpTasks, BeginAdd(t) \/ BeginChange(t) \/ BeginRemoval(t)
        PROVE  BootComesFirst'
    BY <1>2 DEF BeginAdd, BeginChange, BeginRemoval, MayBegin, BootComesFirst, Booted
  <1>3. ASSUME NEW t \in McpTasks, Connect(t, TRUE) \/ Connect(t, FALSE) \/ CacheSpecs(t) \/ Register(t)
                                   \/ StoreChange(t) \/ DeletePlugin(t) \/ RemoveSpecs(t) \/ AbortAdd(t)
        PROVE  BootComesFirst'
    <2>1. Booted => Booted'
      BY <1>3 DEF Connect, CacheSpecs, Register, StoreChange, DeletePlugin, RemoveSpecs, AbortAdd, Booted
    <2>2. task[t] # "idle" /\ \E pc : To(t, pc)
      BY <1>3 DEF Connect, CacheSpecs, Register, StoreChange, DeletePlugin, RemoveSpecs, AbortAdd, Active
    <2>3. McpKind[t] = "boot" => UNCHANGED table
      BY <1>3 DEF Connect, CacheSpecs, Register, StoreChange, DeletePlugin, RemoveSpecs, AbortAdd,
          StepsFitKind
    <2> QED
      BY <2>1, <2>2, <2>3 DEF BootComesFirst
  <1>4. ASSUME UNCHANGED <<task, table>>
        PROVE  BootComesFirst'
    BY <1>4 DEF BootComesFirst, Booted
  <1> QED
    BY <1>1, <1>2, <1>3, <1>4
    DEF McpNext, ReadHandlers, GetSpecs, ListingFails, Refetched, Expire, BeginCall, SendCall, Retry,
        CallReturns, GiveUp, ServerEnds

(* A task that begins at a server where another one works is recorded.     *)
LEMMA McpAloneStep ==
  ASSUME McpTypeOK, OneAtATime, McpNext
  PROVE  OneAtATime' /\ crossed \subseteq crossed'
  <1> USE McpAssumption DEF McpTypeOK, To, mcpTasks
  <1>1. ASSUME NEW t \in McpTasks, NEW pc, To(t, pc), Crosses(t)
        PROVE  OneAtATime' /\ crossed \subseteq crossed'
    BY <1>1 DEF OneAtATime, On, Active, Crosses
  <1>2. ASSUME NEW t \in McpTasks, NEW pc, To(t, pc), Active(t) \/ pc = "over", crossed \subseteq crossed'
        PROVE  OneAtATime' /\ crossed \subseteq crossed'
    BY <1>2 DEF OneAtATime, On, Active
  <1>3. ASSUME UNCHANGED <<task, crossed>>
        PROVE  OneAtATime' /\ crossed \subseteq crossed'
    BY <1>3 DEF OneAtATime, On, Active
  <1>4. ASSUME NEW t \in McpTasks,
               \/ BeginBoot(t) \/ BeginAdd(t) \/ BeginChange(t) \/ BeginRemoval(t)
               \/ Connect(t, TRUE) \/ Connect(t, FALSE) \/ CacheSpecs(t) \/ Register(t)
               \/ StoreChange(t) \/ DeletePlugin(t) \/ RemoveSpecs(t) \/ AbortAdd(t)
        PROVE  OneAtATime' /\ crossed \subseteq crossed'
    <2> USE DEF Active
    <2> HIDE DEF To, Crosses
    <2>1. CASE BeginBoot(t) \/ BeginChange(t) \/ BeginRemoval(t)
      BY <1>1, <2>1 DEF BeginBoot, BeginChange, BeginRemoval
    <2>2. CASE BeginAdd(t)
      BY <1>1, <1>2, <2>2 DEF BeginAdd
    <2>3. CASE Connect(t, TRUE) \/ Connect(t, FALSE)
      BY <1>2, <2>3 DEF Connect
    <2>4. CASE CacheSpecs(t) \/ Register(t) \/ StoreChange(t) \/ DeletePlugin(t) \/ RemoveSpecs(t)
      BY <1>2, <2>4 DEF CacheSpecs, Register, StoreChange, DeletePlugin, RemoveSpecs
    <2>5. CASE AbortAdd(t)
      BY <1>2, <2>5 DEF AbortAdd
    <2> QED
      BY <1>4, <2>1, <2>2, <2>3, <2>4, <2>5
  <1> QED
    BY <1>3, <1>4
    DEF McpNext, ReadHandlers, GetSpecs, ListingFails, Refetched, Expire, BeginCall, SendCall, Retry,
        CallReturns, GiveUp, ServerEnds

(* When a task begins at a server that is not recorded in crossed, nobody  *)
(* works on it; when it goes on, it is the only one.                       *)
LEMMA Undisturbed ==
  ASSUME McpTypeOK, OneAtATime, NEW t \in McpTasks, McpServer[t] \notin crossed',
         \/ task[t] = "idle" /\ Crosses(t)
         \/ Active(t) /\ crossed \subseteq crossed'
  PROVE  /\ McpServer[t] \in Servers \ crossed
         /\ \A u \in McpTasks \ {t} : McpServer[u] = McpServer[t] => ~Active(u)
  BY McpAssumption DEF OneAtATime, On, Crosses, McpTypeOK

(* The servers of other tasks are left alone.                              *)
LEMMA OtherServers ==
  ASSUME McpTypeOK, ServersInv, NEW t \in McpTasks, NEW pc, To(t, pc), crossed \subseteq crossed', UNCHANGED reader,
         \A s \in Servers \ {McpServer[t]} :
             /\ table'[s] = table[s] /\ handler'[s] = handler[s] /\ slot'[s] = slot[s]
             /\ refetch'[s] = refetch[s] /\ (s \in old' <=> s \in old),
         McpServer[t] \notin crossed' => ServerOK(McpServer[t])'
  PROVE  ServersInv'
  <1>1. SUFFICES ASSUME NEW s \in Servers, s \notin crossed', s # McpServer[t]
                 PROVE  ServerOK(s)'
    BY DEF ServersInv
  <1>2. \A u \in McpTasks : McpServer[u] = s => task'[u] = task[u]
    BY <1>1 DEF To, McpTypeOK
  <1>3. ServerOK(s)
    BY <1>1 DEF ServersInv
  <1> QED
    BY <1>1, <1>2, <1>3, ServerFrame

(* A step of a task keeps the servers in order: it connects, caches and    *)
(* registers in this order, and removes in the order handler, specs, row.  *)
LEMMA McpTaskStep ==
  ASSUME McpTypeOK, McpTypeOK', StepsFitKind, OneAtATime, BootComesFirst, ServersInv, NEW t \in McpTasks,
         \/ BeginBoot(t) \/ BeginAdd(t) \/ BeginChange(t) \/ BeginRemoval(t)
         \/ Connect(t, TRUE) \/ Connect(t, FALSE) \/ CacheSpecs(t) \/ Register(t)
         \/ StoreChange(t) \/ DeletePlugin(t) \/ RemoveSpecs(t) \/ AbortAdd(t)
  PROVE  ServersInv'
  <1> DEFINE s == McpServer[t]
  <1> s \in Servers
    BY McpAssumption
  <1> USE McpAssumption DEF mcpSpecs, mcpTasks
  <1>1. CASE BeginBoot(t)
    <2>1. To(t, "connecting") /\ Crosses(t) /\ task[t] = "idle" /\ McpKind[t] = "boot"
      BY <1>1 DEF BeginBoot, MayBegin
    <2>2. ASSUME s \notin crossed'
          PROVE  ServerOK(s)'
      <3>1. s \notin crossed /\ \A u \in McpTasks \ {t} : McpServer[u] = s => ~Active(u)
        BY <2>1, <2>2, Undisturbed
      <3>2. Quiet(s) /\ ServerOK(s)
        BY <2>1, <3>1 DEF Quiet, On, Active, ServersInv
      <3>3. table[s] = "first"
        BY <2>1 DEF BootComesFirst, Booted
      <3>4. TaskOK(t)' /\ Fresh(s)'
        BY <1>1, <2>1, <3>2, <3>3 DEF BeginBoot, To, ServerOK, TaskOK, RowStands, Matched, Fresh, McpTypeOK,
            Configs
      <3> QED
        BY <2>1, <3>1, <3>4, ServerTask
    <2> QED
      BY <1>1, <2>1, <2>2, OtherServers DEF BeginBoot, Crosses
  <1>2. CASE BeginAdd(t)
    <2>1. CASE table[s] # None
      <3>1. To(t, "over") /\ UNCHANGED <<table, crossed>> /\ task[t] = "idle" /\ McpKind[t] = "add"
        BY <1>2, <2>1 DEF BeginAdd, MayBegin
      <3>2. ASSUME NEW r \in Servers, r \notin crossed
            PROVE  ServerOK(r)'
        <4>1. ServerOK(r)
          BY <3>2 DEF ServersInv
        <4>2. \A u \in McpTasks : IF u = t THEN task'[u] = "over" ELSE task'[u] = task[u]
          BY <3>1 DEF To, McpTypeOK
        <4>3. UNCHANGED <<table, handler, slot, refetch, reader, old>>
          BY <1>2, <3>1 DEF BeginAdd
        <4>4. Fresh(r)' /\ (Matched(r) => Matched(r)')
          BY <4>1, <4>3 DEF ServerOK, Fresh, Matched
        <4>5. \A u \in McpTasks : TaskOK(u) => TaskOK(u)'
          BY <4>2, <4>3 DEF TaskOK, RowStands, Matched, NewConfig
        <4>6. Quiet(r)' => Quiet(r)
          BY <3>1, <4>2 DEF Quiet, On, Active
        <4>7. Connected(r) => Connected(r)'
          BY <3>1, <4>2, <4>3 DEF Connected
        <4> QED
          BY <4>1, <4>4, <4>5, <4>6, <4>7 DEF ServerOK
      <3> QED
        BY <3>1, <3>2 DEF ServersInv
    <2>2. CASE table[s] = None
      <3>1. /\ To(t, "connecting") /\ Crosses(t) /\ task[t] = "idle" /\ McpKind[t] = "add"
            /\ table' = [table EXCEPT ![s] = "first"]
        BY <1>2, <2>2 DEF BeginAdd, MayBegin, NewConfig
      <3>2. ASSUME s \notin crossed'
            PROVE  ServerOK(s)'
        <4>1. s \notin crossed /\ \A u \in McpTasks \ {t} : McpServer[u] = s => ~Active(u)
          BY <3>1, <3>2, Undisturbed
        <4>2. Quiet(s) /\ ServerOK(s)
          BY <3>1, <4>1 DEF Quiet, On, Active, ServersInv
        <4>3. handler[s] = None
          BY <2>2, <4>2 DEF ServerOK, Matched, McpTypeOK, Configs
        <4>4. TaskOK(t)' /\ Fresh(s)'
          BY <1>2, <3>1, <4>2, <4>3 DEF BeginAdd, To, TaskOK, RowStands, Matched, Fresh, McpTypeOK, Configs
        <4> QED
          BY <3>1, <4>1, <4>4, ServerTask
      <3> QED
        BY <1>2, <3>1, <3>2, OtherServers DEF BeginAdd, Crosses, McpTypeOK
    <2> QED
      BY <2>1, <2>2
  <1>3. CASE BeginChange(t)
    <2>1. /\ To(t, "connecting") /\ Crosses(t) /\ task[t] = "idle" /\ McpKind[t] = "change" /\ Booted
          /\ table[s] # None
      BY <1>3 DEF BeginChange, MayBegin
    <2>2. ASSUME s \notin crossed'
          PROVE  ServerOK(s)'
      <3>1. s \notin crossed /\ \A u \in McpTasks \ {t} : McpServer[u] = s => ~Active(u)
        BY <2>1, <2>2, Undisturbed
      <3>2. Quiet(s) /\ ServerOK(s)
        BY <2>1, <3>1 DEF Quiet, On, Active, ServersInv
      <3>3. handler[s] # None
        BY <2>1, <3>2 DEF ServerOK, Connected, Booted
      <3>4. TaskOK(t)' /\ Fresh(s)'
        BY <1>3, <2>1, <3>2, <3>3 DEF BeginChange, To, ServerOK, TaskOK, RowStands, Matched, Fresh, McpTypeOK
      <3> QED
        BY <2>1, <3>1, <3>4, ServerTask
    <2> QED
      BY <1>3, <2>1, <2>2, OtherServers DEF BeginChange, Crosses
  <1>4. CASE BeginRemoval(t)
    <2>1. To(t, "stopped") /\ Crosses(t) /\ task[t] = "idle" /\ handler' = [handler EXCEPT ![s] = None]
      BY <1>4 DEF BeginRemoval, MayBegin
    <2>2. ASSUME s \notin crossed'
          PROVE  ServerOK(s)'
      <3>1. \A u \in McpTasks \ {t} : McpServer[u] = s => ~Active(u)
        BY <2>1, <2>2, Undisturbed
      <3>2. TaskOK(t)' /\ Fresh(s)'
        BY <2>1 DEF To, TaskOK, Fresh, McpTypeOK
      <3> QED
        BY <2>1, <3>1, <3>2, ServerTask
    <2> QED
      BY <1>4, <2>1, <2>2, OtherServers DEF BeginRemoval, Crosses, McpTypeOK
  <1>5. ASSUME Active(t), crossed \subseteq crossed', s \notin crossed'
        PROVE  /\ s \notin crossed /\ \A u \in McpTasks \ {t} : McpServer[u] = s => ~Active(u)
               /\ ServerOK(s) /\ TaskOK(t)
    BY <1>5, Undisturbed DEF ServersInv, ServerOK
  <1>6. ASSUME NEW ok \in BOOLEAN, Connect(t, ok)
        PROVE  ServersInv'
    <2>1. task[t] = "connecting" /\ Active(t) /\ crossed' = crossed
      BY <1>6 DEF Connect, Active
    <2>2. PICK pc : To(t, pc) /\ pc = IF ok THEN "connected"
            ELSE CASE McpKind[t] = "boot" -> "refused" [] McpKind[t] = "add" -> "unstored" [] OTHER -> "over"
      BY <1>6 DEF Connect
    <2>3. ASSUME s \notin crossed'
          PROVE  ServerOK(s)'
      <3>1. TaskOK(t)' /\ Fresh(s)'
        BY <1>5, <1>6, <2>1, <2>2, <2>3 DEF Connect, To, ServerOK, TaskOK, RowStands, Matched, Fresh, McpTypeOK
      <3>2. pc = "over" => McpKind[t] = "change"
        BY <2>1, <2>2 DEF StepsFitKind
      <3>3. pc = "over" => Matched(s)' /\ Connected(s)'
        BY <1>5, <1>6, <2>1, <2>3, <3>2 DEF Connect, TaskOK, Matched, Connected
      <3>4. pc # "idle"
        BY <2>2
      <3> QED
        BY <1>5, <2>1, <2>2, <2>3, <3>1, <3>3, <3>4, ServerTask
    <2> QED
      BY <1>6, <2>1, <2>2, <2>3, OtherServers DEF Connect
  <1>7. CASE CacheSpecs(t)
    <2>1. task[t] \in {"connected", "refused"} /\ Active(t) /\ crossed' = crossed
      BY <1>7 DEF CacheSpecs, Active
    <2>2. PICK pc : To(t, pc) /\ pc = IF task[t] = "refused" THEN "empty" ELSE "cached"
      BY <1>7 DEF CacheSpecs
    <2>3. ASSUME s \notin crossed'
          PROVE  ServerOK(s)'
      <3>1. TaskOK(t)' /\ Fresh(s)'
        BY <1>5, <1>7, <2>1, <2>2, <2>3 DEF CacheSpecs, To, TaskOK, RowStands, Fresh, McpTypeOK, NewConfig
      <3> QED
        BY <1>5, <2>1, <2>2, <2>3, <3>1, ServerTask
    <2> QED
      BY <1>7, <2>1, <2>2, <2>3, OtherServers DEF CacheSpecs, McpTypeOK
  <1>8. CASE Register(t)
    <2>1. task[t] \in {"cached", "empty"} /\ Active(t) /\ crossed' = crossed
      BY <1>8 DEF Register, Active
    <2>2. PICK pc : To(t, pc) /\ pc = IF McpKind[t] = "change" THEN "unlisted" ELSE "over"
      BY <1>8 DEF Register
    <2>3. ASSUME s \notin crossed'
          PROVE  ServerOK(s)'
      <3>1. TaskOK(t)' /\ Fresh(s)'
        BY <1>5, <1>8, <2>1, <2>2, <2>3
        DEF Register, To, TaskOK, RowStands, Fresh, McpTypeOK, NewConfig, StepsFitKind
      <3>2. pc = "over" => Matched(s)' /\ Connected(s)'
        BY <1>5, <1>8, <2>1, <2>2, <2>3
        DEF Register, TaskOK, RowStands, Matched, Connected, McpTypeOK, NewConfig, StepsFitKind, Configs
      <3> QED
        BY <1>5, <2>1, <2>2, <2>3, <3>1, <3>2, ServerTask
    <2> QED
      BY <1>8, <2>1, <2>2, <2>3, OtherServers DEF Register, McpTypeOK
  <1>9. CASE StoreChange(t)
    <2>1. task[t] = "unlisted" /\ Active(t) /\ crossed' = crossed /\ To(t, "over")
      BY <1>9 DEF StoreChange, Active
    <2>2. ASSUME s \notin crossed'
          PROVE  ServerOK(s)'
      <3>1. TaskOK(t)' /\ Fresh(s)'
        BY <1>5, <1>9, <2>1, <2>2 DEF StoreChange, To, TaskOK, Fresh, McpTypeOK, ServerOK
      <3>2. Matched(s)' /\ Connected(s)'
        BY <1>5, <1>9, <2>1, <2>2
        DEF StoreChange, TaskOK, RowStands, Matched, Connected, McpTypeOK, NewConfig, Configs
      <3> QED
        BY <1>5, <2>1, <2>2, <3>1, <3>2, ServerTask
    <2> QED
      BY <1>9, <2>1, <2>2, OtherServers DEF StoreChange, McpTypeOK
  <1>10. CASE DeletePlugin(t)
    <2>1. task[t] = "unstored" /\ Active(t) /\ crossed' = crossed /\ To(t, "over")
      BY <1>10 DEF DeletePlugin, Active
    <2>2. ASSUME s \notin crossed'
          PROVE  ServerOK(s)'
      <3>1. TaskOK(t)' /\ Fresh(s)'
        BY <1>5, <1>10, <2>1, <2>2 DEF DeletePlugin, To, TaskOK, Fresh, McpTypeOK, ServerOK
      <3>2. Matched(s)' /\ Connected(s)'
        BY <1>5, <1>10, <2>1, <2>2 DEF DeletePlugin, TaskOK, Matched, Connected, McpTypeOK, Configs
      <3> QED
        BY <1>5, <2>1, <2>2, <3>1, <3>2, ServerTask
    <2> QED
      BY <1>10, <2>1, <2>2, OtherServers DEF DeletePlugin, McpTypeOK
  <1>11. CASE RemoveSpecs(t)
    <2>1. task[t] = "stopped" /\ Active(t) /\ crossed' = crossed /\ To(t, "unstored")
      BY <1>11 DEF RemoveSpecs, Active
    <2>2. ASSUME s \notin crossed'
          PROVE  ServerOK(s)'
      <3>1. TaskOK(t)' /\ Fresh(s)'
        BY <1>5, <1>11, <2>1, <2>2 DEF RemoveSpecs, To, TaskOK, Fresh, McpTypeOK
      <3> QED
        BY <1>5, <2>1, <2>2, <3>1, ServerTask
    <2> QED
      BY <1>11, <2>1, <2>2, OtherServers DEF RemoveSpecs, McpTypeOK
  <1>12. CASE AbortAdd(t)
    <2>1. To(t, "over") /\ crossed' = crossed \cup {s}
      BY <1>12 DEF AbortAdd
    <2> QED
      BY <1>12, <2>1, OtherServers DEF AbortAdd
  <1> QED
    BY <1>1, <1>2, <1>3, <1>4, <1>6, <1>7, <1>8, <1>9, <1>10, <1>11, <1>12

(* Listing and refreshing the specs fill the slot with those of the        *)
(* registered connection only.                                             *)
LEMMA McpSpecsStep ==
  ASSUME McpTypeOK, ServersInv, NEW r \in Servers,
         ReadHandlers(r) \/ GetSpecs(r) \/ ListingFails(r) \/ Refetched(r) \/ Expire(r)
  PROVE  ServersInv'
  <1> USE DEF mcpTasks
  <1>1. /\ UNCHANGED <<table, handler, task, crossed>>
        /\ \A s \in Servers \ {r} : /\ slot'[s] = slot[s] /\ refetch'[s] = refetch[s] /\ reader'[s] = reader[s]
                                    /\ (s \in old' <=> s \in old)
    BY DEF ReadHandlers, GetSpecs, ListingFails, Refetched, Expire, McpTypeOK
  <1>2. ASSUME NEW s \in Servers, s \notin crossed, s # r
        PROVE  ServerOK(s)'
    <2>1. ServerOK(s)
      BY <1>2 DEF ServersInv
    <2> QED
      BY <1>1, <1>2, <2>1, ServerFrame
  <1>3. ASSUME r \notin crossed
        PROVE  ServerOK(r)'
    <2>1. ServerOK(r)
      BY <1>3 DEF ServersInv
    <2>2. Quiet(r)' <=> Quiet(r)
      BY <1>1 DEF Quiet, On, Active
    <2>3. Connected(r)' <=> Connected(r)
      BY <1>1 DEF Connected
    <2>4. Fresh(r)'
      BY <1>1, <2>1 DEF ServerOK, Fresh, ReadHandlers, GetSpecs, ListingFails, Refetched, Expire, McpTypeOK
    <2>5. Matched(r) => Matched(r)'
      BY <1>1, <2>1, McpAssumption
      DEF ServerOK, Fresh, Matched, ReadHandlers, GetSpecs, ListingFails, Refetched, Expire, McpTypeOK, Configs
    <2>6. ASSUME NEW t \in McpTasks, McpServer[t] = r
          PROVE  TaskOK(t)'
      <3>1. TaskOK(t)
        BY <2>1, <2>6 DEF ServerOK
      <3>2. RowStands(t)' <=> RowStands(t)
        BY <1>1 DEF RowStands
      <3>3. task[t] \in {"cached", "empty"} => refetch'[r] = None /\ r \notin old' /\ slot'[r] = slot[r]
        <4>1. ASSUME task[t] \in {"cached", "empty"}
              PROVE  On(t, r) /\ slot[r] # None /\ r \notin old /\ refetch[r] = None
          BY <2>6, <3>1, <4>1, McpAssumption DEF TaskOK, On, Active, NewConfig, Configs
        <4> QED
          BY <2>6, <4>1 DEF On, ReadHandlers, GetSpecs, ListingFails, Refetched, Expire, McpTypeOK
      <3>4. task[t] = "unlisted" => slot'[r] = slot[r]
        BY <2>1, <2>6, <3>1, McpAssumption
        DEF TaskOK, NewConfig, Configs, ServerOK, Fresh, ReadHandlers, GetSpecs, ListingFails, Refetched,
            Expire, McpTypeOK
      <3> QED
        BY <1>1, <2>5, <2>6, <3>1, <3>2, <3>3, <3>4 DEF TaskOK, NewConfig
    <2> QED
      BY <2>1, <2>2, <2>3, <2>4, <2>5, <2>6 DEF ServerOK
  <1> QED
    BY <1>1, <1>2, <1>3 DEF ServersInv

(* Every step keeps the invariant.                                         *)
LEMMA McpStep == McpInv /\ [McpNext]_mcpVars => McpInv'
  <1> SUFFICES ASSUME McpInv, [McpNext]_mcpVars PROVE McpInv'
    OBVIOUS
  <1>1. CASE McpNext
    <2>1. McpTypeOK' /\ StepsFitKind' /\ OneAtATime' /\ BootComesFirst' /\ CallsInv'
      BY <1>1, McpTypeStep, McpKindStep, McpAloneStep, McpBootStep, McpCallsStep DEF McpInv
    <2>2. ASSUME NEW c \in McpCalls,
                 \/ BeginCall(c) \/ SendCall(c) \/ Retry(c) \/ CallReturns(c) \/ GiveUp(c) \/ ServerEnds(c)
          PROVE  ServersInv'
      <3>1. UNCHANGED <<table, handler, mcpSpecs, mcpTasks>>
        BY <2>2 DEF BeginCall, SendCall, Retry, CallReturns, GiveUp, ServerEnds
      <3>2. ASSUME NEW s \in Servers, s \notin crossed
            PROVE  ServerOK(s)'
        <4>1. ServerOK(s)
          BY <3>2 DEF McpInv, ServersInv
        <4> QED
          BY <3>1, <4>1, ServerFrame DEF mcpSpecs, mcpTasks
      <3> QED
        BY <3>1, <3>2 DEF ServersInv, mcpTasks
    <2>3. ServersInv'
      BY <1>1, <2>1, <2>2, McpTaskStep, McpSpecsStep DEF McpInv, McpNext
    <2> QED
      BY <2>1, <2>3 DEF McpInv
  <1>2. CASE UNCHANGED mcpVars
    BY <1>2 DEF mcpVars, mcpSpecs, mcpTasks, mcpCallVars, McpInv, McpTypeOK, StepsFitKind, OneAtATime, On, Active,
        BootComesFirst, Booted, CallsInv, ServersInv, ServerOK, Fresh, Quiet, Matched, Connected, TaskOK,
        RowStands, NewConfig
  <1> QED
    BY <1>1, <1>2

(* For any number of servers, tasks and calls: once the tasks of a server  *)
(* are over its handler, its row and its cached specs agree, whatever was  *)
(* listed or refreshed meanwhile (McpController, cache.rs), and a call     *)
(* that was given up is known to the server.                               *)
THEOREM ServersSettleAlways == McpSpec => []ServersSettle
  <1>1. McpInv => ServersSettle
    <2> SUFFICES ASSUME McpInv PROVE ServersSettle
      OBVIOUS
    <2>1. McpTypeOK /\ NoAbandonedCalls
      BY DEF McpInv, CallsInv, NoAbandonedCalls
    <2>2. ASSUME \A t \in McpTasks : ~Active(t), NEW s \in Servers \ crossed
          PROVE  Matched(s) /\ Connected(s)
      BY <2>2 DEF McpInv, ServersInv, ServerOK, Quiet, On
    <2>3. ServersAgree
      BY <2>2 DEF ServersAgree, Matched, Connected, Booted
    <2> QED
      BY <2>1, <2>3 DEF ServersSettle
  <1> QED
    BY <1>1, McpInitOK, McpStep, PTL DEF McpSpec

-----------------------------------------------------------------------------
(* ExtensionController.                                                    *)

About(t, e) == Working(t) /\ e \in {ExtOf[t], says[t]}

(* Two tasks of an extension at the same time are recorded in mixed.       *)
OneTaskEach ==
    \A e \in Extensions \ mixed : \A t, u \in ExtTasks : About(t, e) /\ About(u, e) => t = u

(* A task of each kind takes the steps of its kind, and only the command   *)
(* of an update may turn out to be another extension's.                    *)
TasksInv ==
    \A t \in ExtTasks :
        /\ doing[t] = "deleted" => ExtKind[t] = "remove"
        /\ doing[t] \in {"connecting", "connected", "stored"} => ExtKind[t] # "remove"
        /\ doing[t] = "idle" \/ ExtKind[t] = "remove" => proc[t] # "running"
        /\ ExtKind[t] # "update" \/ doing[t] \in {"idle", "connecting"} => says[t] = ExtOf[t]

(* While the controller starts there are only the tasks of the start; the  *)
(* row is there before its handler.                                        *)
StartInv ==
    /\ ext # "off"
    /\ ext = "starting" =>
        /\ \A t \in ExtTasks : IF ExtKind[t] = "start"
                               THEN /\ extRows[ExtOf[t]] = t
                                    /\ holds[ExtOf[t]] = IF doing[t] = "over" THEN t ELSE NoTask
                               ELSE doing[t] = "idle"
        /\ \A e \in Extensions :
            (\A t \in ExtTasks : ExtKind[t] = "start" => ExtOf[t] # e) => extRows[e] = NoTask /\ holds[e] = NoTask

(* Once it is on, a row and its handler differ only while the task that    *)
(* wrote the row has not yet come to the handler.                          *)
HandlersFollow ==
    ext = "on" =>
        /\ \A t \in ExtTasks :
            /\ ExtKind[t] = "start" => doing[t] = "over"
            /\ doing[t] = "stored" /\ says[t] \notin mixed => extRows[says[t]] = t
            /\ doing[t] = "deleted" /\ ExtOf[t] \notin mixed => extRows[ExtOf[t]] = NoTask
        /\ \A e \in Extensions \ mixed :
            \/ holds[e] = extRows[e]
            \/ \E t \in ExtTasks : doing[t] = "stored" /\ says[t] = e
            \/ \E t \in ExtTasks : doing[t] = "deleted" /\ ExtOf[t] = e

(* A process runs for its task or for whoever holds its connection.        *)
NobodyLeftBehind ==
    /\ search = "idle" => asked = {}
    /\ \A t \in ExtTasks : proc[t] = "running" /\ ~Working(t) => IsHeld(t, holds, asked, Waits)

ExtInv == ExtTypeOK /\ OneTaskEach /\ TasksInv /\ StartInv /\ HandlersFollow /\ NobodyLeftBehind

(* Reap only ever ends processes, and leaves none that runs for nobody.    *)
LEMMA Reaped ==
  ASSUME ExtTypeOK, NEW handlers, NEW done, NEW killed, NEW search_, NEW call_,
         Reap(handlers, done, killed, search_, call_)
  PROVE  /\ proc' \in [ExtTasks -> {"none", "starting", "running", "dead"}]
         /\ \A t \in ExtTasks : proc'[t] \in {proc[t], "dead"}
         /\ \A t \in ExtTasks : proc'[t] = "running" /\ (~Working(t) \/ t \in done) =>
                  IsHeld(t, handlers, search_, call_)
  BY DEF Reap, ExtTypeOK, Working

(* A controller that starts satisfies the invariant.                       *)
LEMMA ExtInitOK == ExtInit => ExtInv
  <1> SUFFICES ASSUME ExtInit PROVE ExtInv
    OBVIOUS
  <1> USE ExtAssumption DEF ExtInit, ExtRest
  <1>1. ASSUME NEW e \in Extensions
        PROVE  /\ extRows[e] \in ExtTasks \cup {NoTask}
               /\ (\A t \in ExtTasks : ExtKind[t] = "start" => ExtOf[t] # e) => extRows[e] = NoTask
               /\ \A t \in ExtTasks : ExtKind[t] = "start" /\ ExtOf[t] = e => extRows[e] = t
    <2>1. CASE \E t \in ExtTasks : ExtKind[t] = "start" /\ ExtOf[t] = e
      <3> DEFINE c == CHOOSE t \in ExtTasks : ExtKind[t] = "start" /\ ExtOf[t] = e
      <3>1. c \in ExtTasks /\ ExtKind[c] = "start" /\ ExtOf[c] = e
        BY <2>1
      <3>2. extRows[e] = c
        BY <2>1
      <3> QED
        BY <3>1, <3>2
    <2>2. CASE ~\E t \in ExtTasks : ExtKind[t] = "start" /\ ExtOf[t] = e
      BY <2>2
    <2> QED
      BY <2>1, <2>2
  <1>2. extRows \in [Extensions -> ExtTasks \cup {NoTask}]
    BY <1>1
  <1>3. ExtTypeOK
    BY <1>2 DEF ExtTypeOK
  <1>4. OneTaskEach /\ TasksInv /\ HandlersFollow
    BY DEF OneTaskEach, About, Working, TasksInv, HandlersFollow
  <1>5. StartInv
    BY <1>1 DEF StartInv
  <1>6. NobodyLeftBehind
    BY DEF NobodyLeftBehind
  <1> QED
    BY <1>3, <1>4, <1>5, <1>6 DEF ExtInv

(* Every step keeps the types; the render channel stays within its         *)
(* capacity.                                                               *)
LEMMA ExtTypeStep ==
  ASSUME ExtTypeOK, ExtNext
  PROVE  ExtTypeOK'
  <1> USE ExtAssumption DEF extTaskVars, extSearchVars, extCallVars
  <1>1. ASSUME NEW t \in ExtTasks,
               \/ Begin(t) \/ NoHandshake(t) \/ StorePlugin(t) \/ RegisterHandler(t) \/ RemoveHandler(t)
               \/ (\E id \in Extensions : Handshake(t, id))
               \/ Exit(t) \/ Answer(t) \/ Join(t)
        PROVE  ExtTypeOK'
    <2>1. CASE Begin(t)
      BY <2>1 DEF Begin, Touches, ExtTypeOK
    <2>2. CASE NoHandshake(t)
      BY <2>2 DEF NoHandshake, ExtTypeOK
    <2>3. CASE StorePlugin(t)
      <3>1. proc' \in [ExtTasks -> {"none", "starting", "running", "dead"}]
        BY <2>3, Reaped DEF StorePlugin, ExtTypeOK
      <3>2. extRows' \in [Extensions -> ExtTasks \cup {NoTask}]
        BY <2>3 DEF StorePlugin, ExtTypeOK
      <3>3. doing' \in [ExtTasks -> {"idle", "connecting", "connected", "stored", "deleted", "over"}]
        BY <2>3 DEF StorePlugin, ExtTypeOK
      <3>4. UNCHANGED <<ext, holds, says, mixed, disabled, extSearchVars, extCallVars>>
        BY <2>3 DEF StorePlugin
      <3> QED
        BY <3>1, <3>2, <3>3, <3>4 DEF ExtTypeOK
    <2>4. CASE RegisterHandler(t)
      <3>1. proc' \in [ExtTasks -> {"none", "starting", "running", "dead"}]
        BY <2>4, Reaped DEF RegisterHandler
      <3> QED
        BY <2>4, <3>1 DEF RegisterHandler, ExtTypeOK
    <2>5. CASE RemoveHandler(t)
      <3>1. proc' \in [ExtTasks -> {"none", "starting", "running", "dead"}]
        BY <2>5, Reaped DEF RemoveHandler
      <3> QED
        BY <2>5, <3>1 DEF RemoveHandler, ExtTypeOK
    <2>6. ASSUME NEW id \in Extensions, Handshake(t, id)
          PROVE  ExtTypeOK'
      BY <2>6 DEF Handshake, Touches, ExtTypeOK
    <2>7. CASE Exit(t) \/ Answer(t)
      BY <2>7 DEF Exit, Answer, ExtTypeOK
    <2>8. CASE Join(t)
      <3>1. proc' \in [ExtTasks -> {"none", "starting", "running", "dead"}]
        BY <2>8, Reaped DEF Join
      <3> QED
        BY <2>8, <3>1 DEF Join, ExtTypeOK
    <2> QED
      BY <1>1, <2>1, <2>2, <2>3, <2>4, <2>5, <2>6, <2>7, <2>8
  <1>2. ASSUME NEW e \in Extensions, Disable(e) \/ Invoke(e)
        PROVE  ExtTypeOK'
    BY <1>2 DEF Disable, Invoke, ExtTypeOK
  <1>3. ASSUME NEW input \in {"blank", "failing", "text"}, BeginSearch(input)
        PROVE  ExtTypeOK'
    <2>1. {holds[e] : e \in {x \in Extensions \ disabled : Runs(x)}} \subseteq ExtTasks
      BY DEF Runs, ExtTypeOK
    <2> QED
      BY <1>3, <2>1 DEF BeginSearch, ExtTypeOK
  <1>4. CASE Started \/ SendDone \/ Render \/ CallTimesOut
    BY <1>4 DEF Started, SendDone, Render, CallTimesOut, ExtTypeOK
  <1>5. CASE DropStream
    <2>1. proc' \in [ExtTasks -> {"none", "starting", "running", "dead"}]
      BY <1>5, Reaped DEF DropStream
    <2> QED
      BY <1>5, <2>1 DEF DropStream, ExtTypeOK
  <1>6. CASE CallEnds
    <2>1. proc' \in [ExtTasks -> {"none", "starting", "running", "dead"}]
      BY <1>6, Reaped DEF CallEnds
    <2> QED
      BY <1>6, <2>1 DEF CallEnds, ExtTypeOK
  <1> QED
    BY <1>1, <1>2, <1>3, <1>4, <1>5, <1>6 DEF ExtNext

(* The steps of a task.                                                    *)
TaskMoves(t) ==
    \/ Begin(t) \/ NoHandshake(t) \/ StorePlugin(t) \/ RegisterHandler(t) \/ RemoveHandler(t)
    \/ (\E id \in Extensions : Handshake(t, id))

(* A step that is of no task leaves rows, handlers and tasks alone, and    *)
(* may end processes.                                                      *)
LEMMA OtherSteps ==
  ASSUME ExtTypeOK, ExtNext
  PROVE  \/ \E t \in ExtTasks : TaskMoves(t)
         \/ Started
         \/ /\ UNCHANGED <<ext, extRows, holds, says, doing, mixed>>
            /\ \A t \in ExtTasks : proc'[t] \in {proc[t], "dead"}
  <1> USE DEF extTaskVars, extSearchVars, extCallVars
  <1>1. ASSUME NEW t \in ExtTasks, Join(t)
        PROVE  \A u \in ExtTasks : proc'[u] \in {proc[u], "dead"}
    BY <1>1, Reaped DEF Join
  <1>2. ASSUME DropStream
        PROVE  \A u \in ExtTasks : proc'[u] \in {proc[u], "dead"}
    BY <1>2, Reaped DEF DropStream
  <1>3. ASSUME CallEnds
        PROVE  \A u \in ExtTasks : proc'[u] \in {proc[u], "dead"}
    BY <1>3, Reaped DEF CallEnds
  <1>4. ASSUME NEW t \in ExtTasks, Exit(t)
        PROVE  \A u \in ExtTasks : proc'[u] \in {proc[u], "dead"}
    BY <1>4 DEF Exit, ExtTypeOK
  <1> QED
    BY <1>1, <1>2, <1>3, <1>4
    DEF ExtNext, TaskMoves, Exit, Answer, Join, Disable, Invoke, BeginSearch, SendDone, Render, DropStream,
        CallEnds, CallTimesOut

(* What a step of a task leaves alone: the other tasks.                    *)
LEMMA OwnTask ==
  ASSUME ExtTypeOK, NEW t \in ExtTasks, TaskMoves(t)
  PROVE  /\ UNCHANGED ext /\ mixed \subseteq mixed'
         /\ \A u \in ExtTasks \ {t} : /\ doing'[u] = doing[u] /\ says'[u] = says[u]
                                      /\ proc'[u] \in {proc[u], "dead"}
  <1> USE DEF ExtTypeOK
  <1>1. CASE Begin(t)
    BY <1>1 DEF Begin, Touches
  <1>2. CASE NoHandshake(t)
    BY <1>2 DEF NoHandshake
  <1>3. CASE StorePlugin(t)
    <2>1. \A u \in ExtTasks : proc'[u] \in {proc[u], "dead"}
      BY <1>3, Reaped DEF StorePlugin
    <2> QED
      BY <1>3, <2>1 DEF StorePlugin
  <1>4. CASE RegisterHandler(t)
    <2>1. \A u \in ExtTasks : proc'[u] \in {proc[u], "dead"}
      BY <1>4, Reaped DEF RegisterHandler
    <2> QED
      BY <1>4, <2>1 DEF RegisterHandler
  <1>5. CASE RemoveHandler(t)
    <2>1. \A u \in ExtTasks : proc'[u] \in {proc[u], "dead"}
      BY <1>5, Reaped DEF RemoveHandler
    <2> QED
      BY <1>5, <2>1 DEF RemoveHandler
  <1>6. ASSUME NEW id \in Extensions, Handshake(t, id)
        PROVE  /\ UNCHANGED ext /\ mixed \subseteq mixed'
               /\ \A u \in ExtTasks \ {t} : /\ doing'[u] = doing[u] /\ says'[u] = says[u]
                                            /\ proc'[u] \in {proc[u], "dead"}
    BY <1>6 DEF Handshake, Touches
  <1> QED
    BY <1>1, <1>2, <1>3, <1>4, <1>5, <1>6 DEF TaskMoves

(* A task goes through the steps of its kind.                              *)
LEMMA ExtTasksStep ==
  ASSUME ExtTypeOK, TasksInv, ExtNext
  PROVE  TasksInv'
  <1> USE ExtAssumption
  <1> DEFINE Fits(t) ==
          /\ doing[t] = "deleted" => ExtKind[t] = "remove"
          /\ doing[t] \in {"connecting", "connected", "stored"} => ExtKind[t] # "remove"
          /\ doing[t] = "idle" \/ ExtKind[t] = "remove" => proc[t] # "running"
          /\ ExtKind[t] # "update" \/ doing[t] \in {"idle", "connecting"} => says[t] = ExtOf[t]
  <1>1. \A t \in ExtTasks : Fits(t)
    BY DEF TasksInv
  <1>2. ASSUME NEW t \in ExtTasks, TaskMoves(t)
        PROVE  \A u \in ExtTasks : Fits(u)'
    <2>1. ASSUME NEW u \in ExtTasks, u # t
          PROVE  Fits(u)'
      BY <1>1, <1>2, <2>1, OwnTask
    <2>2. Fits(t)'
      <3>1. CASE Begin(t) \/ NoHandshake(t)
        BY <1>1, <3>1 DEF Begin, NoHandshake, ExtTypeOK
      <3>2. CASE StorePlugin(t)
        <4>1. proc'[t] \in {proc[t], "dead"}
          BY <3>2, Reaped DEF StorePlugin
        <4> QED
          BY <1>1, <3>2, <4>1 DEF StorePlugin, ExtTypeOK
      <3>3. CASE RegisterHandler(t)
        <4>1. proc'[t] \in {proc[t], "dead"}
          BY <3>3, Reaped DEF RegisterHandler
        <4> QED
          BY <1>1, <3>3, <4>1 DEF RegisterHandler, ExtTypeOK
      <3>4. CASE RemoveHandler(t)
        <4>1. proc'[t] \in {proc[t], "dead"}
          BY <3>4, Reaped DEF RemoveHandler
        <4> QED
          BY <1>1, <3>4, <4>1 DEF RemoveHandler, ExtTypeOK
      <3>5. ASSUME NEW id \in Extensions, Handshake(t, id)
            PROVE  Fits(t)'
        BY <1>1, <3>5 DEF Handshake, ExtTypeOK
      <3> QED
        BY <1>2, <3>1, <3>2, <3>3, <3>4, <3>5 DEF TaskMoves
    <2> QED
      BY <2>1, <2>2
  <1>3. ASSUME UNCHANGED <<says, doing>>, \A t \in ExtTasks : proc'[t] \in {proc[t], "dead"}
        PROVE  \A u \in ExtTasks : Fits(u)'
    BY <1>1, <1>3
  <1>4. Started => UNCHANGED <<says, doing, proc>>
    BY DEF Started, extTaskVars
  <1>5. \A u \in ExtTasks : Fits(u)'
    BY <1>2, <1>3, <1>4, OtherSteps
  <1> QED
    BY <1>5 DEF TasksInv

(* Two tasks of one extension at the same time are recorded, whether the   *)
(* settings page or the handshake names it.                                *)
LEMMA ExtAloneStep ==
  ASSUME ExtTypeOK, TasksInv, OneTaskEach, ExtNext
  PROVE  OneTaskEach'
  <1> USE ExtAssumption
  <1>1. ASSUME NEW t \in ExtTasks, TaskMoves(t)
        PROVE  OneTaskEach'
    <2>1. ASSUME NEW e \in Extensions, e \notin mixed', NEW u \in ExtTasks, u # t, About(t, e)', About(u, e)'
          PROVE  FALSE
      <3>1. About(u, e) /\ e \notin mixed
        BY <1>1, <2>1, OwnTask DEF About, Working
      <3>2. ~About(t, e)
        BY <2>1, <3>1 DEF OneTaskEach
      <3>3. CASE Begin(t)
        BY <2>1, <3>1, <3>3 DEF Begin, Touches, About, TasksInv
      <3>4. CASE NoHandshake(t) \/ StorePlugin(t) \/ RegisterHandler(t) \/ RemoveHandler(t)
        BY <2>1, <3>2, <3>4
        DEF NoHandshake, StorePlugin, RegisterHandler, RemoveHandler, About, Working, ExtTypeOK
      <3>5. ASSUME NEW id \in Extensions, Handshake(t, id)
            PROVE  FALSE
        <4>1. Working(t) /\ says'[t] = id
          BY <3>5 DEF Handshake, Working, ExtTypeOK
        <4>2. e = id
          BY <2>1, <3>2, <4>1 DEF About
        <4> QED
          BY <2>1, <3>1, <3>5, <4>2 DEF Handshake, Touches, About
      <3> QED
        BY <1>1, <3>3, <3>4, <3>5 DEF TaskMoves
    <2>2. ASSUME NEW e \in Extensions, e \notin mixed', NEW u \in ExtTasks, NEW v \in ExtTasks, u # t, v # t,
                 About(u, e)', About(v, e)'
          PROVE  u = v
      <3>1. About(u, e) /\ About(v, e) /\ e \notin mixed
        BY <1>1, <2>2, OwnTask DEF About, Working
      <3> QED
        BY <3>1 DEF OneTaskEach
    <2> QED
      BY <2>1, <2>2 DEF OneTaskEach
  <1>2. ASSUME UNCHANGED <<says, doing, mixed>>
        PROVE  OneTaskEach'
    BY <1>2 DEF OneTaskEach, About, Working
  <1> QED
    BY <1>1, <1>2, OtherSteps DEF Started, extTaskVars

(* Until the controller is on, a handler takes the place its row has.      *)
LEMMA ExtStartStep ==
  ASSUME ExtTypeOK, TasksInv, StartInv, HandlersFollow, ExtNext
  PROVE  StartInv'
  <1> USE ExtAssumption
  <1>1. ASSUME NEW t \in ExtTasks, TaskMoves(t), ext = "starting"
        PROVE  StartInv'
    <2>1. ext' = ext /\ \A u \in ExtTasks \ {t} : doing'[u] = doing[u]
      BY <1>1, OwnTask
    <2>2. CASE ExtKind[t] # "start"
      BY <1>1, <2>2
      DEF StartInv, TaskMoves, Begin, NoHandshake, StorePlugin, RegisterHandler, RemoveHandler, Handshake
    <2>3. CASE ExtKind[t] = "start"
      <3>1. says[t] = ExtOf[t] /\ ~RemoveHandler(t)
        BY <2>3 DEF TasksInv, RemoveHandler
      <3>2. extRows' = extRows
        BY <1>1, <2>3, <3>1
        DEF TaskMoves, Begin, NoHandshake, StorePlugin, RegisterHandler, Handshake
      <3>3. CASE holds' = [holds EXCEPT ![ExtOf[t]] = t] /\ doing'[t] = "over"
        BY <1>1, <2>1, <2>3, <3>2, <3>3 DEF StartInv, ExtTypeOK
      <3>4. CASE holds' = holds /\ doing[t] # "over" /\ doing'[t] # "over"
        BY <1>1, <2>1, <2>3, <3>2, <3>4 DEF StartInv
      <3> QED
        BY <1>1, <2>3, <3>1, <3>3, <3>4
        DEF TaskMoves, Begin, NoHandshake, StorePlugin, RegisterHandler, Handshake, ExtTypeOK
    <2> QED
      BY <2>2, <2>3
  <1>2. ASSUME NEW t \in ExtTasks, TaskMoves(t), ext # "starting"
        PROVE  StartInv'
    BY <1>2, OwnTask DEF StartInv
  <1>3. CASE Started
    BY <1>3 DEF Started, StartInv
  <1>4. ASSUME UNCHANGED <<ext, extRows, holds, says, doing, mixed>>
        PROVE  StartInv'
    BY <1>4 DEF StartInv
  <1> QED
    BY <1>1, <1>2, <1>3, <1>4, OtherSteps

(* A handler follows its row: the task that wrote the row comes to the     *)
(* handler before another one touches the extension, or that is recorded.  *)
LEMMA ExtHandlersStep ==
  ASSUME ExtTypeOK, TasksInv, OneTaskEach, OneTaskEach', StartInv, HandlersFollow, ExtNext
  PROVE  HandlersFollow'
  <1> USE ExtAssumption
  <1> DEFINE Behind(e) == \/ \E t \in ExtTasks : doing[t] = "stored" /\ says[t] = e
                          \/ \E t \in ExtTasks : doing[t] = "deleted" /\ ExtOf[t] = e
             Follows(t) == /\ ExtKind[t] = "start" => doing[t] = "over"
                           /\ doing[t] = "stored" /\ says[t] \notin mixed => extRows[says[t]] = t
                           /\ doing[t] = "deleted" /\ ExtOf[t] \notin mixed => extRows[ExtOf[t]] = NoTask
  <1>1. HandlersFollow <=>
          (ext = "on" => /\ \A t \in ExtTasks : Follows(t)
                         /\ \A e \in Extensions \ mixed : holds[e] = extRows[e] \/ Behind(e))
    BY DEF HandlersFollow
  <1>2. ASSUME ext' = "on" => /\ \A t \in ExtTasks : Follows(t)'
                              /\ \A e \in Extensions \ mixed' : (holds[e] = extRows[e] \/ Behind(e))'
        PROVE  HandlersFollow'
    BY <1>2 DEF HandlersFollow
  <1>3. ASSUME NEW t \in ExtTasks, TaskMoves(t), ext = "on"
        PROVE  /\ \A u \in ExtTasks : Follows(u)'
               /\ \A e \in Extensions \ mixed' : (holds[e] = extRows[e] \/ Behind(e))'
    <2>1. ExtKind[t] # "start" /\ says[t] \in Extensions /\ ExtOf[t] \in Extensions
      BY <1>1, <1>3 DEF TaskMoves, Begin, NoHandshake, StorePlugin, RegisterHandler, RemoveHandler, Handshake,
          ExtTypeOK
    <2>2. /\ mixed \subseteq mixed'
          /\ \A u \in ExtTasks \ {t} : doing'[u] = doing[u] /\ says'[u] = says[u]
      BY <1>3, OwnTask
  \* the extension whose row or handler the step may write
    <2>3. PICK x \in Extensions :
            /\ \A e \in Extensions \ {x} : extRows'[e] = extRows[e] /\ holds'[e] = holds[e]
            /\ x \in {ExtOf[t], says[t]}
            /\ ExtKind[t] = "remove" => x = ExtOf[t]
            /\ ExtKind[t] # "remove" => x = says[t]
      <3>1. CASE ExtKind[t] = "remove"
        BY <1>3, <2>1, <3>1
        DEF TaskMoves, Begin, NoHandshake, StorePlugin, RegisterHandler, RemoveHandler, Handshake, ExtTypeOK,
            TasksInv
      <3>2. CASE ExtKind[t] # "remove"
        BY <1>3, <2>1, <3>2
        DEF TaskMoves, Begin, NoHandshake, StorePlugin, RegisterHandler, RemoveHandler, Handshake, ExtTypeOK,
            TasksInv
      <3> QED
        BY <3>1, <3>2
    <2>4. ASSUME NEW e \in Extensions, e \notin mixed', e \in {ExtOf[t], says[t]}, NEW u \in ExtTasks, u # t
          PROVE  ~About(u, e)
      <3>1. CASE Begin(t)
        BY <2>4, <3>1 DEF Begin, Touches, About, TasksInv
      <3>2. CASE ~Begin(t)
        <4>1. Working(t)
          BY <1>3, <3>2
          DEF TaskMoves, NoHandshake, StorePlugin, RegisterHandler, RemoveHandler, Handshake, Working
        <4> QED
          BY <2>2, <2>4, <4>1 DEF OneTaskEach, About
      <3> QED
        BY <3>1, <3>2
    <2>5. ASSUME NEW u \in ExtTasks, u # t
          PROVE  Follows(u)'
      <3>1. Follows(u) /\ doing'[u] = doing[u] /\ says'[u] = says[u]
        BY <1>1, <1>3, <2>2, <2>5
      <3>2. ASSUME doing[u] = "stored", says[u] \notin mixed'
            PROVE  extRows'[says[u]] = u
        <4>1. About(u, says[u]) /\ says[u] \in Extensions
          BY <3>2 DEF About, Working, ExtTypeOK
        <4>2. says[u] # x
          BY <2>3, <2>4, <2>5, <3>2, <4>1
        <4> QED
          BY <2>2, <2>3, <3>1, <3>2, <4>1, <4>2
      <3>3. ASSUME doing[u] = "deleted", ExtOf[u] \notin mixed'
            PROVE  extRows'[ExtOf[u]] = NoTask
        <4>1. About(u, ExtOf[u]) /\ ExtOf[u] \in Extensions
          BY <3>3 DEF About, Working
        <4>2. ExtOf[u] # x
          BY <2>3, <2>4, <2>5, <3>3, <4>1
        <4> QED
          BY <2>2, <2>3, <3>1, <3>3, <4>1, <4>2
      <3> QED
        BY <3>1, <3>2, <3>3
    <2>6. Follows(t)'
      <3>1. Follows(t)
        BY <1>1, <1>3
      <3>2. CASE StorePlugin(t)
        BY <2>1, <3>1, <3>2 DEF StorePlugin, ExtTypeOK
      <3>3. CASE Begin(t)
        BY <2>1, <3>1, <3>3 DEF Begin, ExtTypeOK
      <3>4. CASE NoHandshake(t) \/ RegisterHandler(t) \/ RemoveHandler(t)
        BY <2>1, <3>1, <3>4 DEF NoHandshake, RegisterHandler, RemoveHandler, ExtTypeOK
      <3>5. ASSUME NEW id \in Extensions, Handshake(t, id)
            PROVE  Follows(t)'
        BY <2>1, <3>1, <3>5 DEF Handshake, ExtTypeOK
      <3> QED
        BY <1>3, <3>2, <3>3, <3>4, <3>5 DEF TaskMoves
    <2>7. ASSUME NEW e \in Extensions, e \notin mixed', e # x
          PROVE  (holds[e] = extRows[e] \/ Behind(e))'
      <3>1. holds[e] = extRows[e] \/ Behind(e)
        BY <1>1, <1>3, <2>2, <2>7
      <3>2. CASE holds[e] = extRows[e]
        BY <2>3, <2>7, <3>2
      <3>3. ASSUME NEW u \in ExtTasks, \/ doing[u] = "stored" /\ says[u] = e
                                       \/ doing[u] = "deleted" /\ ExtOf[u] = e
            PROVE  Behind(e)'
        <4>1. u # t
          BY <2>3, <2>7, <3>3 DEF TasksInv
        <4> QED
          BY <2>2, <3>3, <4>1
      <3> QED
        BY <3>1, <3>2, <3>3
    <2>8. ASSUME x \notin mixed'
          PROVE  (holds[x] = extRows[x] \/ Behind(x))'
      <3>1. \A u \in ExtTasks \ {t} : ~About(u, x)
        BY <2>3, <2>4, <2>8
      <3>2. doing[t] \notin {"stored", "deleted"} => holds[x] = extRows[x]
        BY <1>1, <1>3, <2>2, <2>8, <3>1 DEF About, Working
      <3>3. CASE Begin(t)
        BY <2>1, <2>3, <3>2, <3>3 DEF Begin, ExtTypeOK
      <3>4. CASE NoHandshake(t)
        BY <2>1, <3>2, <3>4 DEF NoHandshake
      <3>5. CASE StorePlugin(t)
        BY <2>1, <2>3, <3>2, <3>5 DEF StorePlugin, ExtTypeOK, TasksInv
      <3>6. CASE RegisterHandler(t)
        <4>1. x = says[t] /\ extRows[x] = t
          BY <1>1, <1>3, <2>2, <2>3, <2>8, <3>6 DEF RegisterHandler, TasksInv
        <4> QED
          BY <3>6, <4>1 DEF RegisterHandler, ExtTypeOK
      <3>7. CASE RemoveHandler(t)
        <4>1. x = ExtOf[t] /\ extRows[x] = NoTask
          BY <1>1, <1>3, <2>2, <2>3, <2>8, <3>7 DEF RemoveHandler, TasksInv
        <4> QED
          BY <3>7, <4>1 DEF RemoveHandler, ExtTypeOK
      <3>8. ASSUME NEW id \in Extensions, Handshake(t, id)
            PROVE  (holds[x] = extRows[x] \/ Behind(x))'
        BY <3>2, <3>8 DEF Handshake
      <3> QED
        BY <1>3, <3>3, <3>4, <3>5, <3>6, <3>7, <3>8 DEF TaskMoves
    <2> QED
      BY <2>5, <2>6, <2>7, <2>8
  <1>4. ASSUME NEW t \in ExtTasks, TaskMoves(t)
        PROVE  HandlersFollow'
    <2>1. ext' = ext
      BY <1>4, OwnTask
    <2> QED
      BY <1>2, <1>3, <1>4, <2>1
  <1>5. CASE Started
    <2>1. /\ ext = "starting" /\ UNCHANGED <<extRows, holds, says, doing, mixed>>
          /\ \A t \in ExtTasks : ExtKind[t] = "start" => doing[t] = "over"
      BY <1>5 DEF Started, extTaskVars
    <2>2. \A t \in ExtTasks : Follows(t)
      BY <2>1 DEF StartInv
    <2>3. \A e \in Extensions : holds[e] = extRows[e]
      BY <2>1 DEF StartInv
    <2> QED
      BY <1>2, <2>1, <2>2, <2>3
  <1>6. ASSUME UNCHANGED <<ext, extRows, holds, says, doing, mixed>>
        PROVE  HandlersFollow'
    BY <1>6 DEF HandlersFollow
  <1> QED
    BY <1>4, <1>5, <1>6, OtherSteps

(* A process that lost its last holder is dead: whoever lets go of a       *)
(* connection reaps what it held.                                          *)
LEMMA ExtHeldStep ==
  ASSUME ExtTypeOK, TasksInv, StartInv, HandlersFollow, NobodyLeftBehind, ExtNext
  PROVE  NobodyLeftBehind'
  <1> USE ExtAssumption DEF extTaskVars, extSearchVars, extCallVars
  <1> DEFINE Kept(u) == proc[u] = "running" /\ ~Working(u) => IsHeld(u, holds, asked, Waits)
  <1>1. (search = "idle" => asked = {}) /\ \A u \in ExtTasks : Kept(u)
    BY DEF NobodyLeftBehind
  <1>2. ASSUME search' = "idle" => asked' = {}, \A u \in ExtTasks : Kept(u)'
        PROVE  NobodyLeftBehind'
    BY <1>2 DEF NobodyLeftBehind
\* a step that reaps with what is held after it, and moves no task
  <1>3. ASSUME UNCHANGED doing, NEW killed, Reap(holds', {}, killed, asked', Waits'), NEW u \in ExtTasks
        PROVE  Kept(u)'
    <2>1. proc'[u] = "running" /\ ~Working(u) => IsHeld(u, holds', asked', Waits')
      BY <1>3, Reaped
    <2> QED
      BY <1>3, <2>1 DEF Working, IsHeld
\* a step that takes nothing from anybody
  <1>4. ASSUME UNCHANGED <<doing, holds>>, asked \subseteq asked', Waits' = Waits \/ Waits = NoTask,
               NEW u \in ExtTasks, proc'[u] \in {proc[u], "dead"}
        PROVE  Kept(u)'
    <2>1. Kept(u)
      BY <1>1
    <2> QED
      BY <1>4, <2>1 DEF Working, IsHeld
  <1>5. ASSUME NEW t \in ExtTasks, Begin(t) \/ (\E id \in Extensions : Handshake(t, id))
        PROVE  NobodyLeftBehind'
    <2>1. UNCHANGED <<holds, search, asked, invoked, call>> /\ Waits' = Waits
      BY <1>5 DEF Begin, Handshake, Waits
    <2>2. ASSUME NEW u \in ExtTasks
          PROVE  Kept(u)'
      <3>1. CASE u = t
        BY <1>5, <3>1 DEF Begin, Handshake, Working, ExtTypeOK
      <3>2. CASE u # t
        <4>1. doing'[u] = doing[u] /\ proc'[u] \in {proc[u], "dead"}
          BY <1>5, <3>2, OwnTask DEF TaskMoves
        <4> QED
          BY <1>1, <2>1, <4>1 DEF Working, IsHeld
      <3> QED
        BY <3>1, <3>2
    <2> QED
      BY <1>1, <1>2, <2>1, <2>2
  <1>6. ASSUME NEW t \in ExtTasks, NoHandshake(t)
        PROVE  NobodyLeftBehind'
    <2>1. UNCHANGED <<search, asked, invoked, call>> /\ Waits' = Waits
      BY <1>6 DEF NoHandshake, Waits
    <2>2. ASSUME NEW u \in ExtTasks
          PROVE  Kept(u)'
      <3>1. CASE u = t
        BY <1>6, <3>1 DEF NoHandshake, ExtTypeOK
      <3>2. CASE u # t
        <4>1. doing'[u] = doing[u] /\ proc'[u] = proc[u]
          BY <1>6, <3>2 DEF NoHandshake, ExtTypeOK
        <4>2. \A e \in Extensions : holds[e] = u => holds'[e] = u
          <5>1. CASE ExtKind[t] = "start"
            <6>1. ext = "starting"
              BY <1>6, <5>1 DEF NoHandshake, StartInv, HandlersFollow, ExtTypeOK
            <6>2. holds[ExtOf[t]] = NoTask
              BY <1>6, <5>1, <6>1 DEF NoHandshake, StartInv
            <6> QED
              BY <1>6, <5>1, <6>2 DEF NoHandshake, ExtTypeOK
          <5>2. CASE ExtKind[t] # "start"
            BY <1>6, <5>2 DEF NoHandshake
          <5> QED
            BY <5>1, <5>2
        <4> QED
          BY <1>1, <2>1, <4>1, <4>2 DEF Working, IsHeld
      <3> QED
        BY <3>1, <3>2
    <2> QED
      BY <1>1, <1>2, <2>1, <2>2
  <1>7. ASSUME NEW t \in ExtTasks, StorePlugin(t)
        PROVE  NobodyLeftBehind'
    <2>1. UNCHANGED <<holds, search, asked, invoked, call>> /\ Waits' = Waits
      BY <1>7 DEF StorePlugin, Waits
    <2>2. CASE doing'[t] = "stored" /\ UNCHANGED proc
      <3>1. \A u \in ExtTasks : Kept(u)'
        BY <1>1, <1>7, <2>1, <2>2 DEF StorePlugin, Working, IsHeld, ExtTypeOK
      <3> QED
        BY <1>1, <1>2, <2>1, <3>1
    <2>3. CASE doing'[t] = "over" /\ Reap(holds, {t}, {}, asked, Waits)
      <3>1. ASSUME NEW u \in ExtTasks
            PROVE  Kept(u)'
        <4>1. proc'[u] = "running" /\ (~Working(u) \/ u = t) => IsHeld(u, holds, asked, Waits)
          BY <2>3, Reaped
        <4>2. u # t => doing'[u] = doing[u]
          BY <1>7 DEF StorePlugin, ExtTypeOK
        <4> QED
          BY <2>1, <4>1, <4>2 DEF Working, IsHeld
      <3> QED
        BY <1>1, <1>2, <2>1, <3>1
    <2> QED
      BY <1>7, <2>2, <2>3 DEF StorePlugin, ExtTypeOK
  <1>8. ASSUME NEW t \in ExtTasks, RegisterHandler(t)
        PROVE  NobodyLeftBehind'
    <2>1. UNCHANGED <<search, asked, invoked, call>> /\ Waits' = Waits
      BY <1>8 DEF RegisterHandler, Waits
    <2>2. ASSUME NEW u \in ExtTasks
          PROVE  Kept(u)'
      <3>1. CASE u = t
        <4>1. says[t] \in Extensions /\ holds'[says[t]] = t
          BY <1>8 DEF RegisterHandler, ExtTypeOK
        <4> QED
          BY <3>1, <4>1 DEF IsHeld
      <3>2. CASE u # t
        <4>1. doing'[u] = doing[u]
          BY <1>8, <3>2 DEF RegisterHandler, ExtTypeOK
        <4>2. proc'[u] = "running" /\ ~Working(u) => IsHeld(u, holds', asked, Waits)
          BY <1>8, Reaped DEF RegisterHandler
        <4> QED
          BY <2>1, <4>1, <4>2 DEF Working, IsHeld
      <3> QED
        BY <3>1, <3>2
    <2> QED
      BY <1>1, <1>2, <2>1, <2>2
  <1>9. ASSUME NEW t \in ExtTasks, RemoveHandler(t)
        PROVE  NobodyLeftBehind'
    <2>1. UNCHANGED <<search, asked, invoked, call>> /\ Waits' = Waits
      BY <1>9 DEF RemoveHandler, Waits
    <2>2. ASSUME NEW u \in ExtTasks
          PROVE  Kept(u)'
      <3>1. proc'[u] \in {proc[u], "dead"} /\ (proc'[u] = "running" /\ ~Working(u) => IsHeld(u, holds', asked, Waits))
        BY <1>9, Reaped DEF RemoveHandler
      <3>2. CASE u = t
        BY <1>9, <3>1, <3>2 DEF RemoveHandler, TasksInv
      <3>3. CASE u # t
        <4>1. doing'[u] = doing[u]
          BY <1>9, <3>3 DEF RemoveHandler, ExtTypeOK
        <4> QED
          BY <2>1, <3>1, <4>1 DEF Working, IsHeld
      <3> QED
        BY <3>2, <3>3
    <2> QED
      BY <1>1, <1>2, <2>1, <2>2
  <1>10. ASSUME NEW t \in ExtTasks, Join(t)
         PROVE  NobodyLeftBehind'
    <2>1. UNCHANGED <<holds, doing, search>> /\ Waits' = Waits /\ asked' = asked \ {t}
      BY <1>10 DEF Join, Waits
    <2>2. Reap(holds', {}, {}, asked', Waits')
      BY <1>10, <2>1 DEF Join
    <2> QED
      BY <1>1, <1>2, <1>3, <2>1, <2>2
  <1>11. CASE DropStream
    <2>1. UNCHANGED <<holds, doing>> /\ Waits' = Waits /\ asked' = {}
      BY <1>11 DEF DropStream, Waits
    <2>2. Reap(holds', {}, {}, asked', Waits')
      BY <1>11, <2>1 DEF DropStream
    <2> QED
      BY <1>2, <1>3, <2>1, <2>2
  <1>12. CASE CallEnds
    <2>1. UNCHANGED <<holds, doing, search, asked>> /\ Waits' = NoTask
      BY <1>12 DEF CallEnds, Waits
    <2>2. Reap(holds', {}, {}, asked', Waits')
      BY <1>12, <2>1 DEF CallEnds
    <2> QED
      BY <1>1, <1>2, <1>3, <2>1, <2>2
  <1>13. ASSUME \/ \E t \in ExtTasks : Exit(t) \/ Answer(t)
                \/ \E e \in Extensions : Disable(e) \/ Invoke(e)
                \/ \E input \in {"blank", "failing", "text"} : BeginSearch(input)
                \/ Started \/ SendDone \/ Render \/ CallTimesOut
         PROVE  NobodyLeftBehind'
    <2>1. UNCHANGED <<doing, holds>> /\ \A u \in ExtTasks : proc'[u] \in {proc[u], "dead"}
      BY <1>13
      DEF Exit, Answer, Disable, Invoke, BeginSearch, Started, SendDone, Render, CallTimesOut, ExtTypeOK
    <2>2. asked \subseteq asked' /\ (search' = "idle" => asked' = {})
      BY <1>1, <1>13
      DEF Exit, Answer, Disable, Invoke, BeginSearch, Started, SendDone, Render, CallTimesOut
    <2>3. Waits' = Waits \/ Waits = NoTask
      BY <1>13
      DEF Exit, Answer, Disable, Invoke, BeginSearch, Started, SendDone, Render, CallTimesOut, Waits
    <2> QED
      BY <1>2, <1>4, <2>1, <2>2, <2>3
  <1> QED
    BY <1>5, <1>6, <1>7, <1>8, <1>9, <1>10, <1>11, <1>12, <1>13 DEF ExtNext

(* Every step keeps the invariant.                                         *)
LEMMA ExtStep == ExtInv /\ [ExtNext]_extVars => ExtInv'
  <1> SUFFICES ASSUME ExtInv, [ExtNext]_extVars PROVE ExtInv'
    OBVIOUS
  <1>1. CASE ExtNext
    <2>1. ExtTypeOK' /\ TasksInv' /\ OneTaskEach' /\ StartInv' /\ NobodyLeftBehind'
      BY <1>1, ExtTypeStep, ExtTasksStep, ExtAloneStep, ExtStartStep, ExtHeldStep DEF ExtInv
    <2>2. HandlersFollow'
      BY <1>1, <2>1, ExtHandlersStep DEF ExtInv
    <2> QED
      BY <2>1, <2>2 DEF ExtInv
  <1>2. CASE UNCHANGED extVars
    BY <1>2 DEF extVars, extTaskVars, extSearchVars, extCallVars, ExtInv, ExtTypeOK, OneTaskEach, About, Working,
        TasksInv, StartInv, HandlersFollow, NobodyLeftBehind, IsHeld, Waits
  <1> QED
    BY <1>1, <1>2

(* For any number of extensions and tasks: once the tasks are over, the    *)
(* handlers are those of the rows (ExtensionController), and a process     *)
(* that nobody can reach is dead.                                          *)
THEOREM ExtensionsAgreeAlways == ExtSpec => []ExtensionsAgree
  <1>1. ExtInv => ExtensionsAgree
    <2> SUFFICES ASSUME ExtInv PROVE ExtensionsAgree
      OBVIOUS
    <2>1. ASSUME ext = "on", \A t \in ExtTasks : ~Working(t), NEW e \in Extensions \ mixed
          PROVE  holds[e] = extRows[e]
      BY <2>1 DEF ExtInv, HandlersFollow, Working
    <2> QED
      BY <2>1 DEF ExtInv, NobodyLeftBehind, ExtensionsAgree
  <1> QED
    BY <1>1, ExtInitOK, ExtStep, PTL DEF ExtSpec


-----------------------------------------------------------------------------
(* ConnectFlow.                                                            *)

FlowTypeOK ==
    /\ flowPc \in {"check", "sleep", "exchange", "accept", "read", "pasting", "over"}
    /\ elapsed \in Nat /\ slept \in Nat /\ window \in ServerWindows
    /\ approvedAt \in Nat \cup {-1}
    /\ outcome \in {"none", "token", "timeout", "failed", "unreachable"}
    /\ backlog \in Seq(Connections) /\ connected \in Nat /\ idleAhead \in Nat
    /\ pending \in Nat /\ newest \in Nat /\ succeeded \in BOOLEAN

(* A poll that follows the approval is still ahead, unless the server's    *)
(* window closes before it.                                                *)
PollIsDue ==
    /\ flowPc = "check" => approvedAt = -1 /\ elapsed < DeviceTimeout + PollInterval
    /\ flowPc = "sleep" => /\ slept <= PollInterval /\ elapsed < DeviceTimeout + slept
                           /\ approvedAt >= 0 => elapsed <= approvedAt + slept

(* The idle connections that are read before connection n of the queue.    *)
IdleBefore(queue, n) == {i \in 1..(n - 1) : queue[i] = "idle"}

(* The callback waits in the backlog, and the time since it came was spent *)
(* reading idle connections that came before it.                           *)
IsQueued(n) ==
    /\ n \in DOMAIN backlog /\ backlog[n] = "callback"
    /\ IF flowPc = "read"
       THEN elapsed <= approvedAt + ReadTimeout * (idleAhead - Cardinality(IdleBefore(backlog, n)) - 1) + slept
       ELSE elapsed <= approvedAt + ReadTimeout * (idleAhead - Cardinality(IdleBefore(backlog, n)))

CallbackIsQueued ==
    /\ flowPc = "read" => slept <= ReadTimeout
    /\ backlog # <<>> => connected > 0
    /\ Listening => elapsed <= CallbackTimeout
    /\ Listening /\ approvedAt >= 0 => connected > 0 /\ \E n \in Nat : IsQueued(n)

FlowInv ==
    /\ FlowTypeOK
    /\ flowPc # "over" => outcome = "none"
    /\ PollIsDue /\ CallbackIsQueued /\ LoginsSucceed

(* The limit of a device flow is a number of ticks.                        *)
LEMMA DeviceTimeoutType ==
  ASSUME FlowTypeOK
  PROVE  DeviceTimeout \in Nat /\ DeviceTimeout <= window
<1>1. window \in Nat /\ DeviceAuthTimeout \in Nat
  BY FlowAssumption DEF FlowTypeOK
<1>2. \E m \in {window, DeviceAuthTimeout} : \A y \in {window, DeviceAuthTimeout} : m <= y
  <2>1. CASE window <= DeviceAuthTimeout
    BY <1>1, <2>1
  <2>2. CASE ~(window <= DeviceAuthTimeout)
    BY <1>1, <2>2
  <2> QED  BY <2>1, <2>2
<1>3. /\ DeviceTimeout \in {window, DeviceAuthTimeout}
      /\ \A y \in {window, DeviceAuthTimeout} : DeviceTimeout <= y
  BY <1>2 DEF DeviceTimeout, Min
<1> QED  BY <1>1, <1>3

(* The idle connections before a place are finitely many.                  *)
LEMMA IdleFinite ==
  ASSUME NEW queue, NEW n \in Nat
  PROVE  IsFiniteSet(IdleBefore(queue, n)) /\ Cardinality(IdleBefore(queue, n)) \in Nat
<1>1. IsFiniteSet(1..(n - 1))
  BY FS_Interval
<1>2. IdleBefore(queue, n) \subseteq 1..(n - 1)
  BY DEF IdleBefore
<1> QED  BY <1>1, <1>2, FS_Subset, FS_CardinalityType

(* When the first connection is accepted, everything moves up by one, and  *)
(* the count drops by the first if that is idle.                           *)
LEMMA IdleMovesUp ==
  ASSUME NEW queue \in Seq(Connections), NEW n \in DOMAIN queue, n > 1
  PROVE  Cardinality(IdleBefore(queue, n))
           = Cardinality(IdleBefore(Tail(queue), n - 1)) + (IF queue[1] = "idle" THEN 1 ELSE 0)
<1> DEFINE before == IdleBefore(queue, n)
           after == IdleBefore(Tail(queue), n - 1)
           move == [i \in after |-> i + 1]
<1>1. n \in Nat /\ n - 1 \in Nat /\ n <= Len(queue) /\ queue # <<>>
  OBVIOUS
<1>2. \A i \in 1..(n - 2) : Tail(queue)[i] = queue[i + 1]
  BY <1>1
<1>3. move \in Bijection(after, before \ {1})
  <2>1. \A i \in after : i \in Nat /\ i + 1 \in before \ {1}
    BY <1>1, <1>2 DEF IdleBefore
  <2>2. \A j \in before \ {1} : j - 1 \in after /\ move[j - 1] = j
    BY <1>1, <1>2 DEF IdleBefore
  <2>3. \A i, k \in after : move[i] = move[k] => i = k
    BY <2>1
  <2> HIDE DEF after, before
  <2>4. move \in [after -> before \ {1}]
    BY <2>1
  <2> QED  BY <2>2, <2>3, <2>4 DEF Bijection, Injection, Surjection, IsInjective
<1>4. IsFiniteSet(before) /\ IsFiniteSet(after)
  BY <1>1, IdleFinite
<1>5. Cardinality(before \ {1}) = Cardinality(after)
  BY <1>3, <1>4, FS_Bijection DEF ExistsBijection
<1>6. 1 \in before <=> queue[1] = "idle"
  BY <1>1 DEF IdleBefore
<1>7. Cardinality(before) \in Nat
  BY <1>1, IdleFinite
<1>8. Cardinality(before \ {1}) = IF 1 \in before THEN Cardinality(before) - 1 ELSE Cardinality(before)
  BY <1>4, FS_RemoveElement
<1> QED  BY <1>5, <1>6, <1>7, <1>8

(* Reading times by whole numbers.                                         *)
LEMMA ReadTimes ==
  ASSUME NEW k \in Int
  PROVE  /\ ReadTimeout * k \in Int
         /\ ReadTimeout * (k - 1) + ReadTimeout = ReadTimeout * k
         /\ \A m \in Nat : ReadTimeout * (k - m) <= ReadTimeout * k
<1>1. ReadTimeout \in Nat
  BY FlowAssumption
<1>2. ReadTimeout * (k - 1) = ReadTimeout * k - ReadTimeout
  BY <1>1
<1>3. ASSUME NEW m \in Nat PROVE ReadTimeout * (k - m) <= ReadTimeout * k
  <2>1. ReadTimeout * (k - m) = ReadTimeout * k - ReadTimeout * m
    BY <1>1
  <2>2. ReadTimeout * m \in Nat /\ ReadTimeout * k \in Int
    BY <1>1
  <2> QED  BY <2>1, <2>2
<1> QED  BY <1>1, <1>2, <1>3

(* A sleep begun before the limit ends within one interval of it.          *)
LEMMA WithinLimit ==
  ASSUME NEW time \in Nat, NEW limit \in Nat, NEW sleep \in Nat, NEW interval \in Nat,
         time < limit + sleep, sleep <= interval
  PROVE  time < limit + interval
 OBVIOUS

(* A step of the device flow keeps the invariant.                          *)
LEMMA DeviceStep ==
  ASSUME FlowInv, EnterCode \/ PollCheck \/ PollSleep \/ Poll \/ Exchange
  PROVE  FlowInv'
<1> USE DEF FlowInv, PollIsDue, LoginsSucceed, flowVars, deviceVars, callbackVars,
            pastingVars, End
<1>1. DeviceTimeout \in Nat /\ DeviceTimeout <= window /\ PollInterval \in Nat
  BY DeviceTimeoutType, FlowAssumption
<1>2. window' = window /\ DeviceTimeout' = DeviceTimeout
  BY DEF EnterCode, PollCheck, PollSleep, Poll, Exchange, DeviceTimeout
<1>3. FlowTypeOK'
  BY SMTT(30) DEF FlowTypeOK, EnterCode, PollCheck, PollSleep, Poll, Exchange
<1>4. ~Listening' /\ RetriesStayOpen' /\ (flowPc' # "over" => outcome' = "none")
  BY DEF RetriesStayOpen, Listening, EnterCode, PollCheck, PollSleep, Poll, Exchange
<1>5. CallbackIsQueued'
  BY <1>4 DEF CallbackIsQueued, Listening, EnterCode, PollCheck, PollSleep, Poll, Exchange
<1>6. PollIsDue'
  BY <1>1, <1>2 DEF FlowTypeOK, EnterCode, PollCheck, PollSleep, Poll, Exchange, PollStatus
<1>7. ApprovalsAreNoticed'
  <2>1. Polling' => elapsed' < DeviceTimeout + PollInterval
    <3>1. elapsed' \in Nat /\ slept' \in Nat
      BY <1>3 DEF FlowTypeOK
    <3>2. /\ flowPc' = "check" => elapsed' < DeviceTimeout + PollInterval
          /\ flowPc' = "sleep" => slept' <= PollInterval /\ elapsed' < DeviceTimeout + slept'
      BY <1>2, <1>6
    <3>3. flowPc' = "sleep" => elapsed' < DeviceTimeout + PollInterval
      <4> HIDE DEF FlowInv
      <4> SUFFICES ASSUME flowPc' = "sleep" PROVE elapsed' < DeviceTimeout + PollInterval
        OBVIOUS
      <4>1. slept' <= PollInterval /\ elapsed' < DeviceTimeout + slept'
        BY <3>2
      <4>2. DeviceTimeout \in Nat /\ PollInterval \in Nat
        BY <1>1
      <4> QED  BY <3>1, <4>1, <4>2, WithinLimit
    <3> QED  BY <3>2, <3>3 DEF Polling
  <2>2. (outcome' \in {"timeout", "failed"} /\ approvedAt' >= 0) => approvedAt' + PollInterval > DeviceTimeout
    <3>1. /\ elapsed \in Nat /\ slept \in Nat /\ window \in Nat /\ approvedAt \in Nat \cup {-1}
          /\ flowPc \in {"check", "sleep", "exchange"} /\ outcome = "none"
      BY FlowAssumption DEF FlowTypeOK, EnterCode, PollCheck, PollSleep, Poll, Exchange
    <3>2. CASE Poll
      <4>1. outcome' = "failed" => elapsed > window
        BY <3>1, <3>2 DEF Poll, PollStatus
      <4>2. outcome' # "timeout" /\ approvedAt' = approvedAt /\ slept = PollInterval /\ flowPc = "sleep"
        BY <3>1, <3>2 DEF Poll
      <4>3. approvedAt >= 0 => elapsed <= approvedAt + slept
        BY <4>2
      <4> QED  BY <1>1, <3>1, <4>1, <4>2, <4>3
    <3>3. CASE PollCheck
      BY <3>1, <3>3 DEF PollCheck
    <3>4. CASE EnterCode \/ PollSleep \/ Exchange
      BY <3>1, <3>4 DEF EnterCode, PollSleep, Exchange
    <3> QED  BY <3>2, <3>3, <3>4
  <2>3. ~(outcome' = "timeout" /\ approvedAt' >= 0)
    BY DEF FlowTypeOK, EnterCode, PollCheck, PollSleep, Poll, Exchange
  <2> QED  BY <1>2, <1>4, <2>1, <2>2, <2>3 DEF ApprovalsAreNoticed
<1> QED  BY <1>3, <1>4, <1>5, <1>6, <1>7

(* A step of the callback flow keeps the callback in the queue and its     *)
(* waiting time accounted for.                                             *)
LEMMA QueueStep ==
  ASSUME FlowInv, Accept \/ ReadTimesOut \/ ListenOn \/ \E c \in Connections : OpenConnection(c)
  PROVE  Listening' /\ approvedAt' >= 0 => connected' > 0 /\ \E n \in Nat : IsQueued(n)'
<1> SUFFICES ASSUME Listening', approvedAt' >= 0
             PROVE  connected' > 0 /\ \E n \in Nat : IsQueued(n)'
  OBVIOUS
<1> USE DEF FlowInv, FlowTypeOK, CallbackIsQueued, Listening, flowVars, deviceVars, callbackVars, pastingVars, End
<1>0. ReadTimeout \in Nat /\ \A n \in Nat : Cardinality(IdleBefore(backlog, n)) \in Nat
  BY FlowAssumption, IdleFinite
<1>1. ASSUME NEW c \in Connections, OpenConnection(c)
      PROVE  connected' > 0 /\ \E n \in Nat : IsQueued(n)'
  <2>1. /\ Len(backlog) \in Nat /\ connected' = connected + 1 /\ flowPc' = flowPc
        /\ elapsed' = elapsed /\ slept' = slept
        /\ backlog' = Append(backlog, c) /\ Len(backlog') = Len(backlog) + 1 /\ backlog' \in Seq(Connections)
        /\ \A i \in 1..Len(backlog) : backlog'[i] = backlog[i]
        /\ backlog'[Len(backlog) + 1] = c
    BY <1>1 DEF OpenConnection
  <2>2. CASE c = "callback" /\ approvedAt = -1
    <3>0. PICK n \in Nat : n = Len(backlog) + 1
      BY <2>1
    <3>1. IdleBefore(backlog', n) = {i \in DOMAIN backlog : backlog[i] = "idle"}
      BY <2>1, <3>0 DEF IdleBefore
    <3>2. Cardinality(IdleBefore(backlog', n)) = Idle(backlog)
      BY <3>1 DEF Idle
    <3>3. Idle(backlog) \in Nat
      <4>1. {i \in DOMAIN backlog : backlog[i] = "idle"} = IdleBefore(backlog, Len(backlog) + 1)
        BY <2>1 DEF IdleBefore
      <4>2. Len(backlog) + 1 \in Nat
        BY <2>1
      <4> QED  BY <4>1, <4>2, <1>0 DEF Idle
    <3>4. approvedAt' = elapsed /\ idleAhead' = Idle(backlog) + (IF flowPc = "read" THEN 1 ELSE 0)
      BY <1>1, <2>2 DEF OpenConnection
    <3>5. ReadTimeout * 0 = 0
      BY <1>0
    <3>6. /\ n \in DOMAIN backlog' /\ backlog'[n] = "callback"
          /\ elapsed' <= approvedAt' + 0 /\ elapsed' <= approvedAt' + 0 + slept'
      BY <2>1, <2>2, <3>0, <3>4
    <3>7. IsQueued(n)'
      <4>1. CASE flowPc = "read"
        <5>1. idleAhead' - Cardinality(IdleBefore(backlog', n)) - 1 = 0
          BY <3>2, <3>3, <3>4, <4>1
        <5>2. elapsed' <= approvedAt' + ReadTimeout * (idleAhead' - Cardinality(IdleBefore(backlog', n)) - 1) + slept'
          BY <3>5, <3>6, <5>1
        <5> HIDE DEF FlowInv
        <5>3. flowPc' = "read"
          BY <2>1, <4>1
        <5> QED  BY <3>6, <5>2, <5>3, Zenon DEF IsQueued
      <4>2. CASE flowPc # "read"
        <5>1. idleAhead' - Cardinality(IdleBefore(backlog', n)) = 0
          BY <3>2, <3>3, <3>4, <4>2
        <5>2. elapsed' <= approvedAt' + ReadTimeout * (idleAhead' - Cardinality(IdleBefore(backlog', n)))
          BY <3>5, <3>6, <5>1
        <5> HIDE DEF FlowInv
        <5>3. flowPc' # "read"
          BY <2>1, <4>2
        <5> QED  BY <3>6, <5>2, <5>3, Zenon DEF IsQueued
      <4> QED  BY <4>1, <4>2
    <3> QED  BY <2>1, <3>7
  <2>3. CASE ~(c = "callback" /\ approvedAt = -1)
    <3>1. approvedAt' = approvedAt /\ idleAhead' = idleAhead
      BY <1>1, <2>3 DEF OpenConnection
    <3>2. PICK n \in Nat : IsQueued(n)
      BY <1>1, <2>1, <3>1 DEF OpenConnection
    <3>3. n \in DOMAIN backlog /\ backlog'[n] = backlog[n] /\ n \in DOMAIN backlog'
      BY <2>1, <3>2 DEF IsQueued
    <3>4. IdleBefore(backlog', n) = IdleBefore(backlog, n)
      BY <2>1, <3>3 DEF IdleBefore
    <3>5. IsQueued(n)'
      BY <2>1, <3>1, <3>2, <3>3, <3>4 DEF IsQueued
    <3> QED  BY <2>1, <3>5
  <2> QED  BY <2>2, <2>3
<1>2. CASE Accept
  <2>1. /\ flowPc = "accept" /\ backlog # <<>> /\ backlog' = Tail(backlog) /\ slept' = 0 /\ elapsed' = elapsed
        /\ approvedAt' = approvedAt /\ connected' = connected /\ idleAhead' = idleAhead
        /\ IF backlog[1] = "idle" THEN flowPc' = "read" ELSE flowPc' = "accept"
        /\ backlog[1] # "callback"
    BY <1>2 DEF Accept
  <2>2. PICK n \in Nat : IsQueued(n)
    BY <2>1
  <2>3. n \in DOMAIN backlog /\ backlog[n] = "callback" /\ n > 1 /\ n - 1 \in Nat
    BY <2>1, <2>2 DEF IsQueued
  <2>4. n - 1 \in DOMAIN backlog' /\ backlog'[n - 1] = "callback"
    BY <2>1, <2>3
  <2> DEFINE ahead == Cardinality(IdleBefore(backlog, n))
             still == Cardinality(IdleBefore(backlog', n - 1))
  <2>5. ahead = still + (IF backlog[1] = "idle" THEN 1 ELSE 0)
    BY <2>1, <2>3, IdleMovesUp
  <2>6. ahead \in Nat /\ still \in Nat
    BY <2>3, IdleFinite
  <2>7. elapsed <= approvedAt + ReadTimeout * (idleAhead - ahead)
    BY <2>1, <2>2 DEF IsQueued
  <2>8. IF backlog[1] = "idle" THEN idleAhead - ahead = idleAhead - still - 1 ELSE idleAhead - ahead = idleAhead - still
    BY <2>5, <2>6
  <2>9. ReadTimeout * (idleAhead - ahead) \in Int
    BY <2>6, ReadTimes
  <2>10. IsQueued(n - 1)'
    <3> HIDE DEF ahead, still
    <3>1. CASE backlog[1] = "idle"
      <4>1. elapsed <= approvedAt + ReadTimeout * (idleAhead - still - 1) + 0
        BY <2>7, <2>8, <2>9, <3>1
      <4> QED  BY <2>1, <2>4, <3>1, <4>1 DEF IsQueued, still
    <3>2. CASE backlog[1] # "idle"
      <4>1. elapsed <= approvedAt + ReadTimeout * (idleAhead - still)
        BY <2>7, <2>8, <3>2
      <4> QED  BY <2>1, <2>4, <3>2, <4>1 DEF IsQueued, still
    <3> QED  BY <3>1, <3>2
  <2> QED  BY <2>1, <2>3, <2>10
<1>3. CASE ReadTimesOut
  <2>1. /\ flowPc = "read" /\ flowPc' = "accept" /\ slept = ReadTimeout
        /\ UNCHANGED <<elapsed, approvedAt, backlog, connected, idleAhead>>
    BY <1>3 DEF ReadTimesOut
  <2>2. PICK n \in Nat : IsQueued(n)
    BY <2>1
  <2> DEFINE ahead == Cardinality(IdleBefore(backlog, n))
  <2>3. ahead \in Nat /\ ReadTimeout * (idleAhead - ahead - 1) \in Int
    <3>1. ahead \in Nat
      BY <1>0
    <3> HIDE DEF ahead
    <3>2. idleAhead - ahead - 1 \in Int
      BY <3>1
    <3> QED  BY <3>1, <3>2, ReadTimes
  <2>4. elapsed <= approvedAt + ReadTimeout * (idleAhead - ahead - 1) + ReadTimeout
    BY <2>1, <2>2 DEF IsQueued
  <2>5. ReadTimeout * (idleAhead - ahead - 1) + ReadTimeout = ReadTimeout * (idleAhead - ahead)
    BY <2>3, ReadTimes
  <2>6. elapsed <= approvedAt + ReadTimeout * (idleAhead - ahead)
    <3> HIDE DEF ahead
    <3> QED  BY <1>0, <2>3, <2>4, <2>5
  <2>7. IsQueued(n)'
    BY <2>1, <2>2, <2>6 DEF IsQueued
  <2> QED  BY <2>1, <2>7
<1>4. CASE ListenOn
  <2>1. /\ UNCHANGED <<flowPc, approvedAt, backlog, connected, idleAhead>>
        /\ elapsed' = elapsed + 1
    BY <1>4 DEF ListenOn
  <2>2. PICK n \in Nat : IsQueued(n)
    BY <2>1
  <2>3. flowPc = "read" /\ slept' = slept + 1
    BY <1>4, <2>2 DEF ListenOn, IsQueued
  <2> DEFINE spent == ReadTimeout * (idleAhead - Cardinality(IdleBefore(backlog, n)) - 1)
  <2>4. spent \in Int
    <3>1. idleAhead - Cardinality(IdleBefore(backlog, n)) - 1 \in Int
      BY <1>0
    <3> QED  BY <3>1, ReadTimes
  <2>5. elapsed <= approvedAt + spent + slept
    BY <2>2, <2>3 DEF IsQueued
  <2>6. elapsed' <= approvedAt + spent + slept'
    <3> HIDE DEF spent
    <3> QED  BY <2>1, <2>3, <2>4, <2>5
  <2>7. IsQueued(n)'
    BY <2>1, <2>2, <2>3, <2>6 DEF IsQueued
  <2> QED  BY <2>1, <2>7
<1> QED  BY <1>1, <1>2, <1>3, <1>4

(* A step of the callback flow keeps the invariant.                        *)
LEMMA CallbackStep ==
  ASSUME FlowInv,
         Accept \/ ReadTimesOut \/ ListenOn \/ CallbackTimesOut \/ \E c \in Connections : OpenConnection(c)
  PROVE  FlowInv'
<1> USE DEF FlowInv, LoginsSucceed, flowVars, deviceVars, callbackVars, pastingVars, End, Listening
<1>0. DeviceTimeout' = DeviceTimeout
  BY DEF Accept, ReadTimesOut, ListenOn, CallbackTimesOut, OpenConnection, DeviceTimeout
<1>1. FlowTypeOK'
  <2>1. CASE \E c \in Connections : OpenConnection(c)
    <3>1. Idle(backlog) \in Nat
      <4>1. {i \in DOMAIN backlog : backlog[i] = "idle"} = IdleBefore(backlog, Len(backlog) + 1)
        BY DEF IdleBefore, FlowTypeOK
      <4>2. Len(backlog) + 1 \in Nat
        BY DEF FlowTypeOK
      <4> QED  BY <4>1, <4>2, IdleFinite DEF Idle
    <3> QED  BY <2>1, <3>1 DEF FlowTypeOK, OpenConnection
  <2>2. CASE Accept
    <3>1. Tail(backlog) \in Seq(Connections)
      BY <2>2 DEF Accept, FlowTypeOK
    <3> QED  BY <2>2, <3>1 DEF FlowTypeOK, Accept
  <2>3. CASE ReadTimesOut \/ ListenOn \/ CallbackTimesOut
    BY <2>3, SMTT(30) DEF FlowTypeOK, ReadTimesOut, ListenOn, CallbackTimesOut
  <2> QED  BY <2>1, <2>2, <2>3
<1>2. /\ RetriesStayOpen' /\ (flowPc' # "over" => outcome' = "none")
      /\ flowPc' \notin {"check", "sleep"} /\ ~Polling'
  BY DEF RetriesStayOpen, Polling, Accept, ReadTimesOut, ListenOn, CallbackTimesOut, OpenConnection
<1>3. Listening' /\ approvedAt' >= 0 => connected' > 0 /\ \E n \in Nat : IsQueued(n)'
  BY <1>2, QueueStep DEF CallbackTimesOut
<1>4. CallbackIsQueued'
  <2>1. flowPc' = "read" => slept' <= ReadTimeout
    BY FlowAssumption DEF FlowTypeOK, CallbackIsQueued, Accept, ReadTimesOut, ListenOn, CallbackTimesOut, OpenConnection
  <2>2. backlog' # <<>> => connected' > 0
    BY DEF FlowTypeOK, CallbackIsQueued, Accept, ReadTimesOut, ListenOn, CallbackTimesOut, OpenConnection
  <2>3. Listening' => elapsed' <= CallbackTimeout
    BY FlowAssumption DEF FlowTypeOK, CallbackIsQueued, Accept, ReadTimesOut, ListenOn, CallbackTimesOut, OpenConnection
  <2> QED  BY <1>3, <2>1, <2>2, <2>3 DEF CallbackIsQueued
<1>5. ASSUME CallbackTimesOut, approvedAt >= 0
      PROVE  connected > 0 /\ approvedAt + ReadTimeout * idleAhead >= CallbackTimeout
  <2>1. connected > 0 /\ elapsed = CallbackTimeout /\ CallbackTimeout \in Nat /\ ReadTimeout \in Nat
    BY <1>5, FlowAssumption DEF CallbackTimesOut, CallbackIsQueued
  <2>2. PICK n \in Nat : IsQueued(n)
    BY <1>5 DEF CallbackTimesOut, CallbackIsQueued
  <2> DEFINE ahead == Cardinality(IdleBefore(backlog, n))
  <2>3. ahead \in Nat /\ idleAhead \in Int
    BY IdleFinite DEF FlowTypeOK
  <2>4. /\ ReadTimeout * idleAhead \in Int
        /\ ReadTimeout * (idleAhead - ahead) <= ReadTimeout * idleAhead
        /\ ReadTimeout * (idleAhead - ahead) \in Int
        /\ ReadTimeout * (idleAhead - ahead - 1) + ReadTimeout = ReadTimeout * (idleAhead - ahead)
        /\ ReadTimeout * (idleAhead - ahead - 1) \in Int
    <3> HIDE DEF ahead
    <3>1. idleAhead - ahead \in Int /\ idleAhead - ahead - 1 \in Int
      BY <2>3
    <3> QED  BY <2>3, <3>1, ReadTimes
  <2>5. elapsed <= approvedAt + ReadTimeout * (idleAhead - ahead)
    <3>1. CASE flowPc = "read"
      <4>1. elapsed <= approvedAt + ReadTimeout * (idleAhead - ahead - 1) + slept /\ slept <= ReadTimeout
        BY <2>2, <3>1 DEF IsQueued, CallbackIsQueued
      <4> HIDE DEF ahead
      <4> QED  BY <2>1, <2>4, <4>1 DEF FlowTypeOK
    <3>2. CASE flowPc # "read"
      BY <2>2, <3>2 DEF IsQueued
    <3> QED  BY <3>1, <3>2
  <2> HIDE DEF ahead
  <2> QED  BY <2>1, <2>4, <2>5 DEF FlowTypeOK
<1>6. ApprovalsAreNoticed'
  <2>1. CASE CallbackTimesOut
    <3>1. approvedAt' = approvedAt /\ connected' = connected /\ idleAhead' = idleAhead /\ ~Listening' /\ outcome' = "timeout"
      BY <2>1 DEF CallbackTimesOut
    <3>2. approvedAt' >= 0 => connected' > 0 /\ approvedAt' + ReadTimeout * idleAhead' >= CallbackTimeout
      BY <1>5, <2>1, <3>1
    <3>3. approvedAt' >= 0 => connected' # 0
      BY <3>2
    <3> QED  BY <1>2, <3>1, <3>2, <3>3 DEF ApprovalsAreNoticed
  <2>2. CASE ~CallbackTimesOut
    <3>1. outcome' # "timeout"
      BY <1>2, <2>2 DEF Accept, ReadTimesOut, ListenOn, OpenConnection
    <3>2. outcome' = "failed" => connected' # 0
      <4>1. CASE Accept
        BY <4>1 DEF Accept, CallbackIsQueued, FlowTypeOK
      <4>2. CASE ~Accept
        BY <1>2, <2>2, <4>2 DEF ReadTimesOut, ListenOn, OpenConnection
      <4> QED  BY <4>1, <4>2
    <3>3. Listening' => elapsed' <= CallbackTimeout
      BY <1>4 DEF CallbackIsQueued
    <3> QED  BY <1>2, <3>1, <3>2, <3>3 DEF ApprovalsAreNoticed
  <2> QED  BY <2>1, <2>2
<1> QED  BY <1>1, <1>2, <1>4, <1>6 DEF PollIsDue

(* A step of a pasted login keeps the invariant.                           *)
LEMMA PastingStep ==
  ASSUME FlowInv,
         \/ InitConnection
         \/ \E f \in Finalizers : \/ \E r \in Responses : Finalize(f, r)
                                  \/ FinalizeSucceeds(f) \/ FinalizeFails(f)
  PROVE  FlowInv'
<1> USE DEF FlowInv, flowVars, deviceVars, callbackVars
<1>1. /\ UNCHANGED <<flowPc, elapsed, slept, approvedAt, outcome, window, backlog, connected, idleAhead>>
      /\ newest' \in Nat /\ pending' \in Nat /\ succeeded' \in BOOLEAN
      /\ RetriesStayOpen'
  <2>1. newest \in Nat /\ pending \in Nat /\ succeeded \in BOOLEAN /\ RetriesStayOpen
    BY DEF FlowTypeOK, LoginsSucceed
  <2> HIDE DEF FlowInv
  <2>2. CASE InitConnection
    <3>1. newest + 1 \in Nat
      BY <2>1
    <3> QED  BY <2>2, <3>1 DEF InitConnection, RetriesStayOpen
  <2>3. ASSUME NEW f \in Finalizers, NEW r \in Responses, Finalize(f, r)
        PROVE  UNCHANGED <<flowPc, elapsed, slept, approvedAt, outcome, window, backlog, connected, idleAhead,
                           pending, newest, succeeded>>
    BY <2>3 DEF Finalize
  <2>4. ASSUME NEW f \in Finalizers, FinalizeFails(f)
        PROVE  UNCHANGED <<flowPc, elapsed, slept, approvedAt, outcome, window, backlog, connected, idleAhead,
                           pending, newest, succeeded>>
    BY <2>4 DEF FinalizeFails
  <2>5. ASSUME NEW f \in Finalizers, FinalizeSucceeds(f)
        PROVE  /\ UNCHANGED <<flowPc, elapsed, slept, approvedAt, outcome, window, backlog, connected, idleAhead,
                              newest>>
               /\ pending' = 0 /\ succeeded' = TRUE
    BY <2>5 DEF FinalizeSucceeds
  <2>6. CASE UNCHANGED <<flowPc, elapsed, slept, approvedAt, outcome, window, backlog, connected, idleAhead,
                         pending, newest, succeeded>>
    <3>1. RetriesStayOpen'
      BY <2>1, <2>6, Zenon DEF RetriesStayOpen
    <3> QED  BY <2>1, <2>6, <3>1
  <2>7. CASE \E f \in Finalizers : FinalizeSucceeds(f)
    <3>1. /\ UNCHANGED <<flowPc, elapsed, slept, approvedAt, outcome, window, backlog, connected, idleAhead, newest>>
          /\ pending' = 0 /\ succeeded' = TRUE
      BY <2>5, <2>7, Zenon
    <3>2. RetriesStayOpen' /\ succeeded' \in BOOLEAN
      BY <3>1, Zenon DEF RetriesStayOpen
    <3> QED  BY <2>1, <3>1, <3>2
  <2> QED  BY <2>2, <2>3, <2>4, <2>6, <2>7
<1>2. FlowTypeOK' /\ PollIsDue' /\ (flowPc' # "over" => outcome' = "none")
  BY <1>1 DEF FlowTypeOK, PollIsDue, DeviceTimeout
<1>3. CallbackIsQueued'
  BY <1>1 DEF CallbackIsQueued, IsQueued, Listening
<1>4. ApprovalsAreNoticed'
  BY <1>1 DEF LoginsSucceed, ApprovalsAreNoticed, DeviceTimeout, Polling, Listening
<1> QED  BY <1>1, <1>2, <1>3, <1>4 DEF LoginsSucceed

(* A login that the user completed in time is noticed, however many idle,  *)
(* stray or unreadable connections come before the browser's, and a        *)
(* mistyped response leaves its flow open: for every timeout, poll         *)
(* interval and server window (poll_for_device_token, wait_for_callback,   *)
(* finalize_connection).                                                   *)
THEOREM LoginsSucceedAlways == FlowSpec => []LoginsSucceed
<1>1. FlowInit => FlowInv
  <2> SUFFICES ASSUME FlowInit PROVE FlowInv
    OBVIOUS
  <2>1. FlowTypeOK
    <3>1. PICK where \in {"check", "accept", "pasting"} : FlowRest(where) /\ window \in ServerWindows
      BY DEF FlowInit
    <3>2. <<>> \in Seq(Connections)
      OBVIOUS
    <3> QED  BY <3>1, <3>2 DEF FlowRest, FlowTypeOK
  <2>2. DeviceTimeout \in Nat
    BY <2>1, DeviceTimeoutType
  <2>3. DeviceTimeout + PollInterval > 0 /\ CallbackTimeout > 0
    BY <2>2, FlowAssumption
  <2>4. approvedAt = -1 /\ elapsed = 0 /\ outcome = "none" /\ backlog = <<>> /\ flowPc \notin {"sleep", "read", "over"}
    BY DEF FlowInit, FlowRest
  <2>5. PollIsDue /\ CallbackIsQueued
    BY <2>3, <2>4, FlowAssumption DEF PollIsDue, CallbackIsQueued, Listening
  <2>6. ApprovalsAreNoticed
    BY <2>3, <2>4, FlowAssumption DEF ApprovalsAreNoticed, Polling, Listening
  <2>7. RetriesStayOpen
    BY DEF FlowInit, FlowRest, RetriesStayOpen
  <2> QED  BY <2>1, <2>4, <2>5, <2>6, <2>7 DEF FlowInv, LoginsSucceed
<1>2. FlowInv /\ [FlowNext]_flowVars => FlowInv'
  <2> SUFFICES ASSUME FlowInv, [FlowNext]_flowVars PROVE FlowInv'
    OBVIOUS
  <2>1. CASE UNCHANGED flowVars
    BY <2>1 DEF FlowInv, FlowTypeOK, PollIsDue, CallbackIsQueued, IsQueued, LoginsSucceed, ApprovalsAreNoticed,
                RetriesStayOpen, Polling, Listening, DeviceTimeout, flowVars, deviceVars, callbackVars, pastingVars
  <2>2. CASE FlowNext
    BY <2>2, DeviceStep, CallbackStep, PastingStep DEF FlowNext
  <2> QED  BY <2>1, <2>2
<1> QED  BY <1>1, <1>2, PTL DEF FlowSpec, FlowInv

-----------------------------------------------------------------------------
(* RefreshSlot.                                                            *)

(* A cold slot has never been written; a warm one knew of all writes but   *)
(* its own, and nobody was handed more than it.                            *)
ValueInv ==
    /\ Cold => writes = 0 /\ cached.seen = 0
    /\ ~Cold => cached.seen + 1 = writes
    /\ \A c \in Callers : served[c] <= cached.seen

(* The revision counts the writes, for the slot and for each task.         *)
RevisionInv ==
    /\ revision = writes
    /\ \A r \in Refreshers : refresh[r].busy =>
         /\ refresh[r].revision = refresh[r].seen
         /\ refresh[r].seen <= writes
         /\ ~Cold

SlotInv == TypeOK /\ ValueInv /\ RevisionInv /\ OneRefresh /\ WarmNeverBlocks

-----------------------------------------------------------------------------
(* wrapping_add does not wrap below the modulus.                           *)
LEMMA NoWrap ==
  ASSUME NEW n \in Nat, NEW m \in Nat, n < m
  PROVE  n % m = n
  BY SMT

(* RefreshState::replace keeps the facts about value and revision when the *)
(* producer knew of every write.                                           *)
LEMMA ReplaceFacts ==
  ASSUME TypeOK, RevisionInv, NEW ttl \in Nat, NEW by \in {"insert", "fetch"},
         Replace(by, writes, ttl)
  PROVE  /\ cached' \in Produced
         /\ cached'.by # "nothing" /\ cached'.by = by /\ cached'.seen = writes
         /\ revision' = writes + 1 /\ writes' = writes + 1
         /\ revision' \in 0..(Modulus - 1)
         /\ writes' \in 0..MaxWrites
  <1>1. writes + 1 \in Nat /\ Modulus \in Nat /\ writes + 1 < Modulus
    BY SlotAssumption DEF TypeOK, Replace
  <1>2. (writes + 1) % Modulus = writes + 1
    BY <1>1, NoWrap
  <1>3. revision' = writes + 1
    BY <1>2 DEF RevisionInv, Replace
  <1> QED
    BY <1>1, <1>3, SlotAssumption DEF TypeOK, Replace, Produced

(* The start state satisfies the invariant.                                *)
LEMMA InitOK == Init => SlotInv
  <1> SUFFICES ASSUME Init PROVE SlotInv
    OBVIOUS
  <1>1. \A r \in Refreshers : ~refresh[r].busy
    BY DEF Init, Resting
  <1>2. /\ cached \in Produced
        /\ refresh \in [Refreshers -> [busy : BOOLEAN, revision : Nat, seen : Nat, ttl : Nat]]
    BY DEF Init, Empty, Resting, Produced
  <1>3. TypeOK
    <2>1. revision \in 0..(Modulus - 1) /\ writes \in 0..MaxWrites
      BY SlotAssumption DEF Init
    <2>2. now \in Nat /\ served \in [Callers -> Nat] /\ refreshing \in BOOLEAN
      BY DEF Init
    <2> QED
      BY <1>2, <2>1, <2>2 DEF Init, TypeOK
  <1>4. ValueInv /\ RevisionInv
    BY <1>1 DEF Init, ValueInv, RevisionInv, Cold, Empty
  <1>5. OneRefresh /\ WarmNeverBlocks
    BY <1>1 DEF Init, OneRefresh, WarmNeverBlocks, Unlocked
  <1> QED
    BY <1>3, <1>4, <1>5 DEF SlotInv

(* insert preserves the invariant.                                         *)
LEMMA InsertStep ==
  ASSUME SlotInv, NEW ttl \in Ttls, Insert(ttl)
  PROVE  SlotInv'
  <1>1. ttl \in Nat
    BY SlotAssumption
  <1>2. /\ cached' \in Produced /\ cached'.by # "nothing" /\ cached'.seen = writes
        /\ revision' = writes + 1 /\ writes' = writes + 1
        /\ revision' \in 0..(Modulus - 1) /\ writes' \in 0..MaxWrites
    BY <1>1, ReplaceFacts DEF SlotInv, Insert
  <1>3. /\ UNCHANGED <<refreshing, holder, refresh, now, served>>
        /\ holder = Nobody
    BY DEF Insert, Unlocked
  <1>4. TypeOK'
    BY <1>2, <1>3 DEF SlotInv, TypeOK
  <1>5. ValueInv'
    <2>1. cached.seen <= writes /\ cached.seen \in Nat /\ writes \in Nat
      BY DEF SlotInv, ValueInv, TypeOK, Produced
    <2>2. \A c \in Callers : served[c] <= cached.seen /\ served[c] \in Nat
      BY DEF SlotInv, ValueInv, TypeOK
    <2> QED
      BY <1>2, <1>3, <2>1, <2>2 DEF ValueInv, Cold
  <1>6. RevisionInv'
    BY <1>2, <1>3 DEF SlotInv, RevisionInv, TypeOK, Cold
  <1>7. OneRefresh' /\ WarmNeverBlocks'
    BY <1>3 DEF SlotInv, OneRefresh, WarmNeverBlocks, Unlocked
  <1> QED
    BY <1>4, <1>5, <1>6, <1>7 DEF SlotInv

(* Reading the value, with peek or while it is fresh or being refreshed,   *)
(* and starting or losing the fetch of an empty slot preserve it.          *)
LEMMA ReadSteps ==
  ASSUME SlotInv, NEW c \in Callers,
         Peek(c) \/ ServeCached(c) \/ FetchCold(c) \/ FetchColdErr(c)
  PROVE  SlotInv'
  <1>1. /\ UNCHANGED <<cached, revision, refreshing, refresh, now, writes>>
        /\ served' = served \/ served' = [served EXCEPT ![c] = cached.seen]
        /\ \/ holder' = Nobody
           \/ holder' \in Callers /\ Cold
    BY DEF Peek, ServeCached, FetchCold, FetchColdErr, Served, Unlocked
  <1>2. cached.seen \in Nat
    BY DEF SlotInv, TypeOK, Produced
  <1>3. TypeOK'
    BY <1>1, <1>2 DEF SlotInv, TypeOK
  <1>4. ValueInv'
    BY <1>1, <1>2 DEF SlotInv, ValueInv, TypeOK, Cold
  <1>5. RevisionInv' /\ OneRefresh' /\ WarmNeverBlocks'
    BY <1>1 DEF SlotInv, RevisionInv, OneRefresh, WarmNeverBlocks, Cold, Unlocked
  <1> QED
    BY <1>3, <1>4, <1>5 DEF SlotInv

(* Serving an expired value and spawning its refresh preserves it.         *)
LEMMA ServeStaleStep ==
  ASSUME SlotInv, NEW c \in Callers, NEW ttl \in Ttls, ServeStale(c, ttl)
  PROVE  SlotInv'
  <1>1. PICK r \in Refreshers :
          /\ ~refresh[r].busy
          /\ refresh' = [refresh EXCEPT ![r] =
               [busy |-> TRUE, revision |-> revision, seen |-> writes, ttl |-> ttl]]
    BY DEF ServeStale
  <1>2. /\ UNCHANGED <<cached, revision, holder, now, writes>>
        /\ served' = [served EXCEPT ![c] = cached.seen]
        /\ refreshing' = TRUE /\ refreshing = FALSE /\ ~Cold
    BY DEF ServeStale, Served, SlotInv, TypeOK
  <1>3. ttl \in Nat /\ cached.seen \in Nat /\ writes \in Nat /\ revision \in Nat
    BY SlotAssumption DEF SlotInv, TypeOK, Produced
  <1>4. TypeOK'
    BY <1>1, <1>2, <1>3 DEF SlotInv, TypeOK
  <1>5. ValueInv'
    BY <1>2, <1>3 DEF SlotInv, ValueInv, TypeOK, Cold
  <1>6. RevisionInv'
    BY <1>1, <1>2, <1>3 DEF SlotInv, RevisionInv, TypeOK, Cold
  <1>7. \A q \in Refreshers : ~refresh[q].busy
    BY <1>2 DEF SlotInv, OneRefresh
  <1>8. OneRefresh'
    BY <1>1, <1>2, <1>7 DEF SlotInv, OneRefresh, TypeOK
  <1>9. WarmNeverBlocks'
    BY <1>2 DEF SlotInv, WarmNeverBlocks, Cold, Unlocked
  <1> QED
    BY <1>4, <1>5, <1>6, <1>8, <1>9 DEF SlotInv

(* The end of the fetch of an empty slot preserves it.                     *)
LEMMA FetchColdOkStep ==
  ASSUME SlotInv, NEW c \in Callers, NEW ttl \in Ttls, FetchColdOk(c, ttl)
  PROVE  SlotInv'
  <1>1. ttl \in Nat
    BY SlotAssumption
  <1>2. /\ cached' \in Produced /\ cached'.by # "nothing" /\ cached'.seen = writes
        /\ revision' = writes + 1 /\ writes' = writes + 1
        /\ revision' \in 0..(Modulus - 1) /\ writes' \in 0..MaxWrites
    BY <1>1, ReplaceFacts DEF SlotInv, FetchColdOk
  <1>3. /\ UNCHANGED <<refreshing, refresh, now>>
        /\ holder' = Nobody /\ holder = c
        /\ served' = [served EXCEPT ![c] = writes]
    BY DEF FetchColdOk
  <1>4. writes \in Nat
    BY DEF SlotInv, TypeOK
  <1>5. TypeOK'
    BY <1>2, <1>3, <1>4 DEF SlotInv, TypeOK
  <1>6. Cold
    BY <1>3, SlotAssumption DEF SlotInv, WarmNeverBlocks, Unlocked
  <1>7. ValueInv'
    BY <1>2, <1>3, <1>4, <1>6 DEF SlotInv, ValueInv, TypeOK, Cold
  <1>8. RevisionInv'
    BY <1>2, <1>3, <1>4, <1>6 DEF SlotInv, RevisionInv, TypeOK, Cold
  <1>9. OneRefresh' /\ WarmNeverBlocks'
    BY <1>3 DEF SlotInv, OneRefresh, WarmNeverBlocks, Unlocked
  <1> QED
    BY <1>5, <1>7, <1>8, <1>9 DEF SlotInv

(* The end of a background refresh preserves it: a task whose revision is  *)
(* still the slot's knew of every write.                                   *)
LEMMA RefreshDoneStep ==
  ASSUME SlotInv, NEW r \in Refreshers, RefreshDone(r)
  PROVE  SlotInv'
  <1>1. /\ refresh[r].busy /\ holder = Nobody
        /\ refresh' = [refresh EXCEPT ![r] = Resting]
        /\ refreshing' = FALSE
        /\ UNCHANGED <<holder, now, served>>
    BY DEF RefreshDone, Unlocked
  <1>2. \A q \in Refreshers : ~refresh'[q].busy
    BY <1>1 DEF SlotInv, OneRefresh, TypeOK, Resting
  <1>3. Resting \in [busy : BOOLEAN, revision : Nat, seen : Nat, ttl : Nat]
    BY DEF Resting
  <1>4. OneRefresh' /\ WarmNeverBlocks'
    BY <1>1, <1>2 DEF OneRefresh, WarmNeverBlocks, Unlocked
  <1>5. CASE UNCHANGED <<cached, revision, writes>>
    <2>1. TypeOK'
      BY <1>1, <1>3, <1>5 DEF SlotInv, TypeOK
    <2>2. ValueInv' /\ RevisionInv'
      BY <1>1, <1>2, <1>5 DEF SlotInv, ValueInv, RevisionInv, Cold
    <2> QED
      BY <1>4, <2>1, <2>2 DEF SlotInv
  <1>6. CASE /\ refresh[r].revision = revision
             /\ Replace("fetch", refresh[r].seen, refresh[r].ttl)
    <2>1. refresh[r].seen = writes /\ refresh[r].ttl \in Nat
      BY <1>1, <1>6 DEF SlotInv, RevisionInv, TypeOK
    <2>2. Replace("fetch", writes, refresh[r].ttl)
      BY <1>6, <2>1
    <2>3. /\ cached' \in Produced /\ cached'.by # "nothing" /\ cached'.seen = writes
          /\ revision' = writes + 1 /\ writes' = writes + 1
          /\ revision' \in 0..(Modulus - 1) /\ writes' \in 0..MaxWrites
      BY <2>1, <2>2, ReplaceFacts DEF SlotInv
    <2>4. TypeOK'
      BY <1>1, <1>3, <2>3 DEF SlotInv, TypeOK
    <2>5. cached.seen <= writes /\ cached.seen \in Nat /\ writes \in Nat
      BY DEF SlotInv, ValueInv, TypeOK, Produced
    <2>6. \A c \in Callers : served[c] <= cached.seen /\ served[c] \in Nat
      BY DEF SlotInv, ValueInv, TypeOK
    <2>7. ValueInv'
      BY <1>1, <2>3, <2>5, <2>6 DEF ValueInv, Cold
    <2>8. RevisionInv'
      BY <1>2, <2>3 DEF RevisionInv
    <2> QED
      BY <1>4, <2>4, <2>7, <2>8 DEF SlotInv
  <1> QED
    BY <1>5, <1>6 DEF RefreshDone

(* The clock and stuttering preserve the invariant.                        *)
LEMMA IdleSteps ==
  ASSUME SlotInv, Tick \/ UNCHANGED vars
  PROVE  SlotInv'
  <1>1. UNCHANGED <<cached, revision, refreshing, holder, refresh, writes, served>> /\ now' \in Nat
    BY DEF Tick, vars, SlotInv, TypeOK
  <1> QED
    BY <1>1 DEF SlotInv, TypeOK, ValueInv, RevisionInv, OneRefresh, WarmNeverBlocks, Cold, Unlocked

(* Every step of the slot preserves the invariant.                         *)
LEMMA StepOK == SlotInv /\ [Next]_vars => SlotInv'
  BY InsertStep, ReadSteps, ServeStaleStep, FetchColdOkStep, RefreshDoneStep, IdleSteps
  DEF Next, CallerNext

-----------------------------------------------------------------------------
(* Every reachable state of a slot satisfies the inductive invariant.      *)
THEOREM SlotInvariance == Spec => []SlotInv
  BY InitOK, StepOK, PTL DEF Spec

(* The fields of RefreshState keep their types.                            *)
THEOREM SlotTypes == Spec => []TypeOK
  <1>1. SlotInv => TypeOK
    BY DEF SlotInv
  <1> QED
    BY <1>1, SlotInvariance, PTL

(* get_or_refresh never has two refreshes in flight, and its flag is set   *)
(* exactly while there is one.                                             *)
THEOREM SlotOneRefresh == Spec => []OneRefresh
  <1>1. SlotInv => OneRefresh
    BY DEF SlotInv
  <1> QED
    BY <1>1, SlotInvariance, PTL

(* Once the slot has a value, its mutex is not held during a fetch.        *)
THEOREM SlotNeverBlocks == Spec => []WarmNeverBlocks
  <1>1. SlotInv => WarmNeverBlocks
    BY DEF SlotInv
  <1> QED
    BY <1>1, SlotInvariance, PTL

(* peek and get_or_refresh never hand a caller an older value than before. *)
THEOREM SlotReads == Spec => ReadsDoNotGoBack
  <1>1. SlotInv /\ [Next]_vars => [\A c \in Callers : served[c] <= served'[c]]_vars
    <2> SUFFICES ASSUME SlotInv, Next, NEW c \in Callers
                 PROVE  served[c] <= served'[c]
      OBVIOUS
    <2>1. /\ served \in [Callers -> Nat] /\ writes \in Nat /\ cached.seen \in Nat
          /\ \A d \in Callers : served[d] <= cached.seen
          /\ cached.seen <= writes
      BY DEF SlotInv, ValueInv, TypeOK, Produced
    <2>2. \/ served' = served
          \/ \E d \in Callers : served' = [served EXCEPT ![d] = cached.seen]
          \/ \E d \in Callers : served' = [served EXCEPT ![d] = writes]
      BY DEF Next, CallerNext, Insert, Peek, ServeCached, ServeStale, Served, FetchCold,
             FetchColdErr, FetchColdOk, RefreshDone, Tick
    <2> QED
      BY <2>1, <2>2
  <1> QED
    BY <1>1, SlotInvariance, PTL DEF Spec, ReadsDoNotGoBack

(* RefreshSlot implements the atomically replaced value: a fetch that      *)
(* lands might as well have been made in one step.                         *)
THEOREM SlotRefinement == Spec => ImplementsCachedValue
  <1>1. Init => Cache!Init
    BY DEF Init, Empty, Cache!Init, Cache!Nothing
  <1>2. SlotInv /\ [Next]_vars =>
          [Cache!Next]_<<[by |-> cached.by, seen |-> cached.seen], writes>>
    <2> SUFFICES ASSUME SlotInv, [Next]_vars
                 PROVE  \/ Cache!Next
                        \/ UNCHANGED <<cached, writes>>
      OBVIOUS
    <2>1. ASSUME NEW by \in {"insert", "fetch"}, NEW ttl, Replace(by, writes, ttl)
          PROVE  Cache!Next
      BY <2>1 DEF Replace, Cache!Next, Cache!Replace
    <2>2. ASSUME NEW ttl \in Ttls, Insert(ttl) PROVE Cache!Next
      BY <2>1, <2>2 DEF Insert
    <2>3. ASSUME NEW c \in Callers, NEW ttl \in Ttls, FetchColdOk(c, ttl) PROVE Cache!Next
      BY <2>1, <2>3 DEF FetchColdOk
    <2>4. ASSUME NEW r \in Refreshers, RefreshDone(r)
          PROVE  Cache!Next \/ UNCHANGED <<cached, writes>>
      <3>1. refresh[r].busy /\ refresh[r].revision = revision => refresh[r].seen = writes
        BY DEF SlotInv, RevisionInv
      <3> QED
        BY <2>1, <2>4, <3>1 DEF RefreshDone
    <2>5. ASSUME NEW c \in Callers, NEW ttl \in Ttls, ServeStale(c, ttl)
          PROVE  UNCHANGED <<cached, writes>>
      BY <2>5 DEF ServeStale
    <2>6. ASSUME NEW c \in Callers,
                 Peek(c) \/ ServeCached(c) \/ FetchCold(c) \/ FetchColdErr(c)
          PROVE  UNCHANGED <<cached, writes>>
      BY <2>6 DEF Peek, ServeCached, FetchCold, FetchColdErr
    <2>7. Tick \/ UNCHANGED vars => UNCHANGED <<cached, writes>>
      BY DEF Tick, vars
    <2> QED
      BY <2>2, <2>3, <2>4, <2>5, <2>6, <2>7 DEF Next, CallerNext
  <1> QED
    BY <1>1, <1>2, SlotInvariance, PTL DEF Spec, ImplementsCachedValue, Cache!Spec

(* get_or_refresh has one refresh in flight at most, and no caller of a    *)
(* slot with a value waits for it.                                         *)
THEOREM SlotService == Spec => []SlotIsServed
  <1>1. OneRefresh /\ WarmNeverBlocks => SlotIsServed
    BY DEF SlotIsServed
  <1> QED
    BY <1>1, SlotOneRefresh, SlotNeverBlocks, PTL

(* Seen from outside, inserts and refreshes replace one value atomically,  *)
(* and no reader goes back.                                                *)
THEOREM SlotCache == Spec => SlotIsACache
  BY SlotRefinement, SlotReads DEF SlotIsACache
=============================================================================
