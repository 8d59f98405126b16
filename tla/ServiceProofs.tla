---------------------------- MODULE ServiceProofs ----------------------------
(***************************************************************************)
(* Proofs about the plugin processes and the connection to them: the OAuth *)
(* runtimes, the service loop of a provider plugin, the extension plugin   *)
(* with tools, and the requests and chats of a connection, for any number  *)
(* of requests, chats, sessions, backends, callers and token rotations.    *)
(***************************************************************************)
EXTENDS PluginConnection, OAuthRuntime, ProviderService, ToolService, TLAPS

-----------------------------------------------------------------------------
(* OAuthRuntime.                                                           *)

(* The exchange is under the lock: who asks the service, or has its answer *)
(* and has not stored it, holds the lock of a runtime that is up, while    *)
(* the access token is stale.                                              *)
ExchangeIsLocked ==
    \A c \in OAuthCallers :
        /\ call[c] \in {"asking", "rotated"} => lock = c /\ ~fresh /\ power = "up"
        /\ call[c] = "rotated" => held # Nothing

RotationOpen == \E c \in OAuthCallers : call[c] = "rotated"

(* While no token is lost: the runtime and the table are each at most the  *)
(* open exchange behind, and an update on its way carries the newest       *)
(* token; a stale access token means that its update has arrived, which is *)
(* why the next rotation cannot overtake it.                               *)
CopiesKeepStep ==
    lost = "no" =>
        /\ power = "up" =>
            /\ held \in {service, Nothing} \/ RotationOpen
            /\ stored = service \/ service \in mail \/ RotationOpen
            /\ mail \subseteq {service}
            /\ ~fresh /\ held # Nothing => mail = {}
        /\ power = "down" => stored = service /\ mail = {}

OAuthInv == OAuthTypeOK /\ ExchangeIsLocked /\ CopiesKeepStep

(* A runtime that starts with the credential it was given satisfies the    *)
(* invariant.                                                              *)
LEMMA OAuthInitOK == OAuthInit => OAuthInv
  BY OAuthAssumption DEF OAuthInit, OAuthRest, OAuthInv, OAuthTypeOK, ExchangeIsLocked, CopiesKeepStep,
      RotationOpen

(* Every step keeps the types: a token is handed out below the bound only. *)
LEMMA OAuthTypeStep ==
  ASSUME OAuthTypeOK, OAuthNext
  PROVE  OAuthTypeOK'
  <1> USE OAuthAssumption DEF OAuthTypeOK
  <1>1. ASSUME NEW c \in OAuthCallers, BeginRefresh(c)
        PROVE  OAuthTypeOK'
    BY <1>1 DEF BeginRefresh
  <1>2. ASSUME NEW c \in OAuthCallers, OAuthStep(c)
        PROVE  OAuthTypeOK'
    <2>1. CASE TakeLock(c)
      BY <2>1 DEF TakeLock
    <2>2. CASE ServiceRotates(c)
      BY <2>2 DEF ServiceRotates
    <2>3. CASE ExchangeFails(c)
      BY <2>3 DEF ExchangeFails, LockReleased, Lost
    <2>4. CASE FetchAccessToken(c)
      BY <2>4 DEF FetchAccessToken, LockReleased
    <2>5. CASE MissingClaim(c)
      BY <2>5 DEF MissingClaim, LockReleased, Lost
    <2> QED
      BY <1>2, <2>1, <2>2, <2>3, <2>4, <2>5 DEF OAuthStep
  <1>3. ASSUME NEW c \in OAuthCallers, DropCall(c)
        PROVE  OAuthTypeOK'
    BY <1>3 DEF DropCall, LockReleased, Lost
  <1>4. ASSUME NEW t \in mail, StoreUpdate(t)
        PROVE  OAuthTypeOK'
    BY <1>4 DEF StoreUpdate
  <1>5. CASE Expire
    BY <1>5 DEF Expire
  <1>6. CASE Stop
    BY <1>6 DEF Stop, Lost
  <1>7. CASE Start
    BY <1>7 DEF Start
  <1>8. CASE StartUnhealthy
    <2>1. service' \in 0..MaxRotations
      BY <1>8 DEF StartUnhealthy
    <2>2. mail' \subseteq 0..MaxRotations
      <3>1. CASE UNCHANGED mail
        BY <3>1
      <3>2. CASE mail' = {service + 1} /\ service < MaxRotations
        BY <3>2
      <3> QED
        BY <1>8, <3>1, <3>2 DEF StartUnhealthy
    <2>3. lost' \in {"no", "network", "claims", "crash", "cancel"}
      BY <1>8 DEF StartUnhealthy, Lost
    <2> QED
      BY <1>8, <2>1, <2>2, <2>3 DEF StartUnhealthy
  <1> QED
    BY <1>1, <1>2, <1>3, <1>4, <1>5, <1>6, <1>7, <1>8 DEF OAuthNext

(* A step of a caller keeps the exchange under the lock and the copies in  *)
(* step.                                                                   *)
LEMMA OAuthCallerStep ==
  ASSUME OAuthInv, NEW c \in OAuthCallers, BeginRefresh(c) \/ OAuthStep(c) \/ DropCall(c)
  PROVE  ExchangeIsLocked' /\ CopiesKeepStep'
  <1> USE OAuthAssumption DEF OAuthInv, OAuthTypeOK, ExchangeIsLocked, CopiesKeepStep, RotationOpen
  <1>1. CASE BeginRefresh(c)
    BY <1>1 DEF BeginRefresh
  <1>2. CASE TakeLock(c)
    BY <1>2 DEF TakeLock
  <1>3. CASE ServiceRotates(c)
    <2>1. call'[c] = "rotated" /\ held # Nothing
      BY <1>3 DEF ServiceRotates
    <2>2. lost = "no" => mail = {}
      BY <1>3, <2>1 DEF ServiceRotates
    <2> QED
      BY <1>3, <2>1, <2>2 DEF ServiceRotates
  <1>4. CASE ExchangeFails(c)
    BY <1>4 DEF ExchangeFails, LockReleased, Lost
  <1>5. CASE FetchAccessToken(c)
    <2>1. \A d \in OAuthCallers : call'[d] \notin {"asking", "rotated"}
      BY <1>5 DEF FetchAccessToken
    <2> QED
      BY <1>5, <2>1 DEF FetchAccessToken
  <1>6. CASE MissingClaim(c)
    BY <1>6 DEF MissingClaim, LockReleased, Lost
  <1>7. CASE DropCall(c)
    BY <1>7 DEF DropCall, LockReleased, Lost
  <1> QED
    BY <1>1, <1>2, <1>3, <1>4, <1>5, <1>6, <1>7 DEF OAuthStep

(* Every step keeps the invariant.                                         *)
LEMMA OAuthStepOK ==
  ASSUME OAuthInv, [OAuthNext]_oauthVars
  PROVE  OAuthInv'
  <1>1. CASE OAuthNext
    <2>1. OAuthTypeOK'
      BY <1>1, OAuthTypeStep DEF OAuthInv
    <2> USE OAuthAssumption DEF OAuthInv, OAuthTypeOK, ExchangeIsLocked, CopiesKeepStep, RotationOpen
    <2>2. ASSUME NEW t \in mail, StoreUpdate(t)
          PROVE  OAuthInv'
      BY <2>1, <2>2 DEF StoreUpdate
    <2>3. CASE Expire
      BY <2>1, <2>3 DEF Expire
    <2>4. CASE Stop
      BY <2>1, <2>4 DEF Stop, Lost
    <2>5. CASE Start
      BY <2>1, <2>5 DEF Start
    <2>6. CASE StartUnhealthy
      BY <2>1, <2>6 DEF StartUnhealthy, Lost
    <2> QED
      BY <1>1, <2>1, <2>2, <2>3, <2>4, <2>5, <2>6, OAuthCallerStep DEF OAuthNext
  <1>2. CASE UNCHANGED oauthVars
    BY <1>2 DEF oauthVars, OAuthInv, OAuthTypeOK, ExchangeIsLocked, CopiesKeepStep, RotationOpen
  <1> QED
    BY <1>1, <1>2

(* The service, the runtime and the host's table keep step, for any number *)
(* of concurrent refreshes, drops, rotations, stops and starts: unless a   *)
(* rotated token was lost on the way, the newest is the runtime's and the  *)
(* table's or about to be, and no caller offers one that is used up.       *)
THEOREM TokensKeepStepAlways == OAuthSpec => []TokensKeepStep
  <1>1. OAuthInv => TokensKeepStep
    BY OAuthAssumption DEF OAuthInv, TokensKeepStep, OAuthTypeOK, ExchangeIsLocked, CopiesKeepStep, RotationOpen
  <1> QED
    BY <1>1, OAuthInitOK, OAuthStepOK, PTL DEF OAuthSpec

-----------------------------------------------------------------------------
(* ProviderService.                                                        *)

(* A task that runs has its token in the map, unless the token is          *)
(* cancelled, was taken by the end of another task, or is about to be      *)
(* inserted.                                                               *)
RunningIsMapped ==
    \A r \in Tasks : Live(r) /\ r \notin cancelled \cup stray /\ loop # r => flights[KeyOf[r]] = r

(* A token in the map is under its task's key, and was inserted.           *)
MapIsKeyed ==
    \A k \in TokenKeys : flights[k] # NoToken =>
        KeyOf[flights[k]] = k /\ job[flights[k]] # "unsent" /\ flights[k] # loop

(* The task whose token is about to be inserted was sent when the host     *)
(* might send it, and nothing of its key was sent since.                   *)
InsertIsTimely == loop \in Tasks => job[loop] # "unsent" /\ MaySend(loop)

(* A token is cancelled for a task that the host gave up or that had ended *)
(* already; a task that has not ended has sent no last event.              *)
CancelsAreAsked ==
    \A r \in Tasks :
        /\ r \in cancelled => r \in called \/ closed[r] # "no"
        /\ job[r] \in {"unsent", "running"} => closed[r] = "no"

ProviderInv ==
    ProviderTypeOK /\ RunningIsMapped /\ MapIsKeyed /\ InsertIsTimely /\ CancelsAreAsked /\ CancelHitsItsTask

(* The key of a task or of a cancel is one of the map's.                   *)
LEMMA KeysOfTasks == \A r \in Tasks \cup Cancels : KeyOf[r] \in TokenKeys
  BY DEF TokenKeys

(* A service that has just started satisfies the invariant.                *)
LEMMA ProviderInitOK == ProviderInit => ProviderInv
  BY ProviderAssumption DEF ProviderInit, ProviderRest, ProviderInv, ProviderTypeOK, RunningIsMapped, MapIsKeyed,
      InsertIsTimely, CancelsAreAsked, CancelHitsItsTask, Live, PluginRequests, Tasks

(* The loop's steps for a chat and for the end of a connection flow.       *)
LEMMA SpawnOK ==
  ASSUME ProviderInv, NEW c \in Tasks, HandleChat(c) \/ HandleFinalize(c)
  PROVE  ProviderInv'
  <1> USE ProviderAssumption, KeysOfTasks DEF ProviderInv, ProviderTypeOK, PluginRequests
  <1>1. /\ loop = "idle" /\ job[c] = "unsent" /\ MaySend(c) /\ closed[c] = "no" /\ loop \notin Tasks
        /\ UNCHANGED <<runtimes, flights, cancelled, called, stray>>
    BY DEF HandleChat, HandleFinalize, CancelsAreAsked
  <1>2. \/ /\ job' = [job EXCEPT ![c] = "done"] /\ closed' = [closed EXCEPT ![c] = "own"]
           /\ UNCHANGED loop
        \/ job' = [job EXCEPT ![c] = "running"] /\ loop' = c /\ UNCHANGED closed
    BY DEF HandleChat, HandleFinalize
  <1>3. ProviderTypeOK'
    BY <1>1, <1>2
  <1>4. RunningIsMapped'
    BY <1>1, <1>2 DEF RunningIsMapped, Live
  <1>5. MapIsKeyed'
    BY <1>1, <1>2 DEF MapIsKeyed
  <1>6. InsertIsTimely'
    BY <1>1, <1>2 DEF InsertIsTimely, MaySend
  <1>7. CancelsAreAsked' /\ CancelHitsItsTask'
    BY <1>1, <1>2 DEF CancelsAreAsked, CancelHitsItsTask
  <1> QED
    BY <1>3, <1>4, <1>5, <1>6, <1>7

(* The loop's step that inserts a token and cancels the one it finds.      *)
LEMMA InsertTokenOK ==
  ASSUME ProviderInv, InsertToken
  PROVE  ProviderInv'
  <1> USE ProviderAssumption, KeysOfTasks DEF ProviderInv, ProviderTypeOK, InsertToken
  <1>1. ProviderTypeOK'
    OBVIOUS
  <1>2. RunningIsMapped'
    BY DEF RunningIsMapped, Live
  <1>3. MapIsKeyed'
    BY DEF MapIsKeyed, InsertIsTimely
  <1>4. InsertIsTimely'
    BY DEF InsertIsTimely
  <1>5. CancelsAreAsked' /\ CancelHitsItsTask'
    BY DEF CancelsAreAsked, CancelHitsItsTask, MapIsKeyed, InsertIsTimely, MaySend
  <1> QED
    BY <1>1, <1>2, <1>3, <1>4, <1>5

(* The loop's steps that remove a token and cancel it: a cancel, and the   *)
(* removal of a backend.                                                   *)
LEMMA CancelOK ==
  ASSUME ProviderInv, NEW k \in TokenKeys, NEW x \in PluginRequests \ Tasks, loop = "idle",
         cancelled' = cancelled \cup ({flights[k]} \ {NoToken}),
         flights' = [flights EXCEPT ![k] = NoToken],
         called' \subseteq Tasks, called \subseteq called', flights[k] # NoToken => flights[k] \in called',
         job' = [job EXCEPT ![x] = "done"],
         runtimes' \in [PluginBackends -> {"none", "ok", "faulty"}],
         UNCHANGED <<loop, closed, stray>>
  PROVE  ProviderInv'
  <1> USE ProviderAssumption, KeysOfTasks DEF ProviderInv, ProviderTypeOK
  <1>1. ProviderTypeOK'
    OBVIOUS
  <1>2. \A r \in Tasks : job'[r] = job[r]
    BY DEF PluginRequests
  <1>3. RunningIsMapped'
    BY <1>2 DEF RunningIsMapped, Live
  <1>4. MapIsKeyed'
    BY <1>2 DEF MapIsKeyed
  <1>5. InsertIsTimely'
    BY DEF InsertIsTimely
  <1>6. CancelsAreAsked' /\ CancelHitsItsTask'
    BY <1>2 DEF CancelsAreAsked, CancelHitsItsTask
  <1> QED
    BY <1>1, <1>3, <1>4, <1>5, <1>6

(* The loop's steps that leave the tasks and the map alone.                *)
LEMMA AnswerOK ==
  ASSUME ProviderInv, NEW x \in PluginRequests \ Tasks,
         job' = [job EXCEPT ![x] = "done"],
         runtimes' \in [PluginBackends -> {"none", "ok", "faulty"}],
         UNCHANGED <<loop, flights, cancelled, closed, called, stray>>
  PROVE  ProviderInv'
  <1> USE ProviderAssumption DEF ProviderInv, ProviderTypeOK
  <1>1. ProviderTypeOK'
    OBVIOUS
  <1>2. \A r \in Tasks : job'[r] = job[r]
    BY DEF PluginRequests
  <1>3. RunningIsMapped' /\ MapIsKeyed'
    BY <1>2 DEF RunningIsMapped, MapIsKeyed, Live
  <1>4. InsertIsTimely'
    BY <1>2 DEF InsertIsTimely, MaySend
  <1>5. CancelsAreAsked' /\ CancelHitsItsTask'
    BY <1>2 DEF CancelsAreAsked, CancelHitsItsTask
  <1> QED
    BY <1>1, <1>3, <1>4, <1>5

(* The steps of a task.                                                    *)
LEMMA TaskStepOK ==
  ASSUME ProviderInv, NEW r \in Tasks, TaskStep(r)
  PROVE  ProviderInv'
  <1> USE ProviderAssumption, KeysOfTasks DEF ProviderInv, ProviderTypeOK, PluginRequests, Live
  <1>1. CASE TaskReturns(r)
    <2> USE <1>1 DEF TaskReturns
    <2>1. ProviderTypeOK'
      OBVIOUS
    <2>2. RunningIsMapped' /\ MapIsKeyed'
      BY DEF RunningIsMapped, MapIsKeyed
    <2>3. InsertIsTimely'
      BY DEF InsertIsTimely, MaySend
    <2>4. CancelsAreAsked' /\ CancelHitsItsTask'
      BY DEF CancelsAreAsked, CancelHitsItsTask
    <2> QED
      BY <2>1, <2>2, <2>3, <2>4
  <1>2. CASE TaskCancelled(r)
    <2> USE <1>2 DEF TaskCancelled
    <2>1. ProviderTypeOK'
      OBVIOUS
    <2>2. RunningIsMapped' /\ MapIsKeyed'
      BY DEF RunningIsMapped, MapIsKeyed
    <2>3. InsertIsTimely'
      BY DEF InsertIsTimely, MaySend
    <2>4. CancelsAreAsked' /\ CancelHitsItsTask'
      BY DEF CancelsAreAsked, CancelHitsItsTask
    <2> QED
      BY <2>1, <2>2, <2>3, <2>4
  <1>3. CASE RemoveToken(r)
    <2> USE <1>3 DEF RemoveToken
    <2>1. ProviderTypeOK'
      OBVIOUS
    <2>2. RunningIsMapped'
      BY DEF RunningIsMapped
    <2>3. MapIsKeyed'
      BY DEF MapIsKeyed
    <2>4. InsertIsTimely'
      BY DEF InsertIsTimely, MaySend
    <2>5. CancelsAreAsked' /\ CancelHitsItsTask'
      BY DEF CancelsAreAsked, CancelHitsItsTask
    <2> QED
      BY <2>1, <2>2, <2>3, <2>4, <2>5
  <1> QED
    BY <1>1, <1>2, <1>3 DEF TaskStep

(* Every step keeps the invariant.                                         *)
LEMMA ProviderStepOK ==
  ASSUME ProviderInv, [ProviderNext]_providerVars
  PROVE  ProviderInv'
  <1>1. ASSUME NEW c \in Chats, HandleChat(c)
        PROVE  ProviderInv'
    BY <1>1, SpawnOK DEF Tasks
  <1>2. ASSUME NEW f \in Flows, HandleFinalize(f)
        PROVE  ProviderInv'
    BY <1>2, SpawnOK DEF Tasks
  <1>3. ASSUME NEW x \in Cancels, HandleCancelRequest(x)
        PROVE  ProviderInv'
    <2>1. x \in PluginRequests \ Tasks /\ KeyOf[x] \in TokenKeys
      BY ProviderAssumption, KeysOfTasks DEF PluginRequests
    <2>2. called' \subseteq Tasks /\ called \subseteq called'
      BY <1>3 DEF HandleCancelRequest, Called, ProviderInv, ProviderTypeOK
    <2>3. flights[KeyOf[x]] # NoToken => flights[KeyOf[x]] \in called'
      BY <1>3, <2>1 DEF HandleCancelRequest, Called, ProviderInv, ProviderTypeOK, MapIsKeyed
    <2>4. runtimes' \in [PluginBackends -> {"none", "ok", "faulty"}]
      BY <1>3 DEF HandleCancelRequest, ProviderInv, ProviderTypeOK
    <2> QED
      BY <1>3, <2>1, <2>2, <2>3, <2>4, CancelOK DEF HandleCancelRequest
  <1>4. ASSUME NEW a \in Admin, NEW b \in PluginBackends, HandleInitBackend(a, b)
        PROVE  ProviderInv'
    <2>1. a \in PluginRequests \ Tasks
      BY ProviderAssumption DEF PluginRequests
    <2>2. runtimes' \in [PluginBackends -> {"none", "ok", "faulty"}]
      BY <1>4 DEF HandleInitBackend, ProviderInv, ProviderTypeOK
    <2> QED
      BY <1>4, <2>1, <2>2, AnswerOK DEF HandleInitBackend
  <1>5. ASSUME NEW a \in Admin, NEW b \in PluginBackends, HandleRemoveBackend(a, b)
        PROVE  ProviderInv'
    <2>1. a \in PluginRequests \ Tasks
      BY ProviderAssumption DEF PluginRequests
    <2>2. runtimes' \in [PluginBackends -> {"none", "ok", "faulty"}]
      BY <1>5 DEF HandleRemoveBackend, ProviderInv, ProviderTypeOK
    <2>3. CASE b \in TokenKeys
      <3>1. called' \subseteq Tasks /\ called \subseteq called'
        BY <1>5, <2>3 DEF HandleRemoveBackend, ProviderInv, ProviderTypeOK
      <3>2. flights[b] # NoToken => flights[b] \in called'
        BY <1>5, <2>3 DEF HandleRemoveBackend
      <3> QED
        BY <1>5, <2>1, <2>2, <2>3, <3>1, <3>2, CancelOK DEF HandleRemoveBackend
    <2>4. CASE b \notin TokenKeys
      BY <1>5, <2>1, <2>2, <2>4, AnswerOK DEF HandleRemoveBackend
    <2> QED
      BY <2>3, <2>4
  <1>6. ASSUME NEW q \in Queries, HandleQuery(q)
        PROVE  ProviderInv'
    <2>1. q \in PluginRequests \ Tasks
      BY ProviderAssumption DEF PluginRequests
    <2>2. runtimes' \in [PluginBackends -> {"none", "ok", "faulty"}]
      BY <1>6 DEF HandleQuery, ProviderInv, ProviderTypeOK
    <2> QED
      BY <1>6, <2>1, <2>2, AnswerOK DEF HandleQuery
  <1>7. CASE UNCHANGED providerVars
    BY <1>7 DEF providerVars, ProviderInv, ProviderTypeOK, RunningIsMapped, MapIsKeyed, InsertIsTimely,
        CancelsAreAsked, CancelHitsItsTask, Live, MaySend
  <1> QED
    BY <1>1, <1>2, <1>3, <1>4, <1>5, <1>6, <1>7, InsertTokenOK, TaskStepOK DEF ProviderNext

(* A session has one chat at work and a cancel reaches only the task it is *)
(* for, for any number of chats, flows, sessions and backends and in any   *)
(* order of requests, cancels and ends (ProviderRuntimeService::handle).   *)
THEOREM ChatsAreTrackedAlways == ProviderSpec => []ChatsAreTracked
  <1>1. ProviderInv => ChatsAreTracked
    <2> SUFFICES ASSUME ProviderInv PROVE OneChatAtWork
      BY DEF ProviderInv, ChatsAreTracked
    <2> QED
      BY DEF ProviderInv, RunningIsMapped, OneChatAtWork
  <1> QED
    BY <1>1, ProviderInitOK, ProviderStepOK, PTL DEF ProviderSpec

-----------------------------------------------------------------------------
(* ToolService.                                                            *)

(* A token in the registry is the one of an invocation of its session that *)
(* was handled, and is not cancelled.                                      *)
RegisteredIsUnfired ==
    \A s \in ToolSessions : registry[s] # Absent =>
        SessionOf[registry[s]] = s /\ work[registry[s]] # "unsent" /\ registry[s] \notin fired

(* An invocation holds a token of its own session, and when that token is  *)
(* cancelled a cancel came after the invocation.                           *)
TokensAreScoped ==
    \A c \in Invokes :
        /\ token[c] # Absent => SessionOf[token[c]] = SessionOf[c]
        /\ token[c] \in fired => reached[c] # {}
        /\ work[c] = "unsent" => token[c] = Absent /\ c \notin fired

(* A command runs for an invocation that was polled; frames are lost only  *)
(* with the writer; and the plugin does not exit in the middle of a spawn. *)
TasksAreOrdered ==
    /\ \A c \in Invokes : work[c] \in {"unsent", "spawned"} => runner[c] = "none"
    /\ stdoutTask = "up" => \A r \in ToolRequests : work[r] # "lost"
    /\ serve = "exited" => \A c \in Invokes : runner[c] # "attach"

ScopeInv == RegisteredIsUnfired /\ TokensAreScoped /\ CancelIsScoped

DrainInv == TasksAreOrdered /\ RegistryIsExact /\ DrainBeforeExit

ToolInv == ToolTypeOK /\ ScopeInv /\ DrainInv

(* The session of a request is one of the map's; an invocation is neither  *)
(* a cancel nor a search.                                                  *)
LEMMA SessionsOfRequests ==
  /\ \A r \in Invokes \cup CancelTools : SessionOf[r] \in ToolSessions
  /\ \A c \in Invokes : c \in ToolRequests /\ c \notin CancelTools /\ c \notin Searches
  BY ToolAssumption DEF ToolSessions, ToolRequests

(* A plugin that has just started satisfies the invariant.                 *)
LEMMA ToolInitOK == ToolInit => ToolInv
  <1> SUFFICES ASSUME ToolInit PROVE ToolInv
    OBVIOUS
  <1> USE ToolAssumption, SessionsOfRequests DEF ToolInit, ToolRest
  <1>1. ToolTypeOK
    BY DEF ToolTypeOK
  <1>2. ScopeInv
    BY DEF ScopeInv, RegisteredIsUnfired, TokensAreScoped, CancelIsScoped
  <1>3. DrainInv
    BY DEF DrainInv, TasksAreOrdered, RegistryIsExact, DrainBeforeExit
  <1> QED
    BY <1>1, <1>2, <1>3 DEF ToolInv

(* Every step of the plugin keeps the types.                               *)
LEMMA ToolTypeStep ==
  ASSUME ToolTypeOK, ToolNext
  PROVE  ToolTypeOK'
  <1> USE ToolAssumption, SessionsOfRequests DEF ToolTypeOK, serviceVars, execVars
  <1>1. ASSUME NEW c \in Invokes, HandleInvoke(c)
        PROVE  ToolTypeOK'
    BY <1>1 DEF HandleInvoke, Handled
  <1>2. ASSUME NEW c \in Invokes, InvokeStep(c)
        PROVE  ToolTypeOK'
    BY <1>2 DEF InvokeStep, InvokeReturnsAtOnce, CancelledAtOnce, SpawnProcess, CancelledInCall, InvokeReturns,
        RespondTool
  <1>3. ASSUME NEW c \in Invokes, RunnerStep(c)
        PROVE  ToolTypeOK'
    <2>1. CASE AttachGroup(c)
      BY <2>1 DEF AttachGroup
    <2>2. CASE AttachFails(c)
      BY <2>2 DEF AttachFails, RespondTool
    <2>3. CASE Reap(c)
      BY <2>3 DEF Reap
    <2>4. CASE CommandTimeout(c)
      BY <2>4 DEF CommandTimeout
    <2>5. CASE RetainOthers(c)
      BY <2>5 DEF RetainOthers
    <2>6. CASE RemoveIfEmpty(c)
      BY <2>6 DEF RemoveIfEmpty
    <2> QED
      BY <1>3, <2>1, <2>2, <2>3, <2>4, <2>5, <2>6 DEF RunnerStep
  <1>4. ASSUME NEW c \in Invokes, ProcessExits(c)
        PROVE  ToolTypeOK'
    BY <1>4 DEF ProcessExits
  <1>5. ASSUME NEW x \in CancelTools, HandleCancel(x)
        PROVE  ToolTypeOK'
    BY <1>5 DEF HandleCancel, Handled, Reaches, ToolRequests
  <1>6. ASSUME NEW x \in CancelTools, CancelReturns(x)
        PROVE  ToolTypeOK'
    BY <1>6 DEF CancelReturns, RespondTool, ToolRequests
  <1>7. ASSUME NEW q \in Searches, HandleSearch(q) \/ SearchReturns(q)
        PROVE  ToolTypeOK'
    BY <1>7 DEF HandleSearch, Handled, SearchReturns, RespondTool, ToolRequests
  <1>8. ASSUME NEW r \in ToolRequests, WriteFrame(r)
        PROVE  ToolTypeOK'
    BY <1>8 DEF WriteFrame
  <1>9. CASE CloseStdin \/ WriterFails \/ ServeReturns
    BY <1>9 DEF CloseStdin, WriterFails, ServeReturns
  <1> QED
    BY <1>1, <1>2, <1>3, <1>4, <1>5, <1>6, <1>7, <1>8, <1>9 DEF ToolNext

-----------------------------------------------------------------------------
(* The scope of a cancel.                                                  *)

(* A step that touches neither the tokens nor the cancels.                 *)
ScopeUntouched ==
    /\ UNCHANGED <<reached, registry, token, fired>>
    /\ \A c \in Invokes : work'[c] = "unsent" <=> work[c] = "unsent"
    /\ stopped' \subseteq stopped \cup {c \in Invokes : token[c] \in fired}

(* Such a step keeps the scope.                                            *)
LEMMA ScopeKept ==
  ASSUME ToolTypeOK, ScopeInv, ScopeUntouched
  PROVE  ScopeInv'
  BY ToolAssumption DEF ScopeUntouched, ToolTypeOK, ScopeInv, RegisteredIsUnfired, TokensAreScoped, CancelIsScoped

(* The loop's step for an invocation gives it a token that is not          *)
(* cancelled.                                                              *)
LEMMA HandleInvokeScope ==
  ASSUME ToolTypeOK, ScopeInv, NEW c \in Invokes, HandleInvoke(c)
  PROVE  ScopeInv'
  <1> USE ToolAssumption, SessionsOfRequests DEF ToolTypeOK, HandleInvoke, Handled
  <1>1. RegisteredIsUnfired'
    BY DEF ScopeInv, RegisteredIsUnfired, TokensAreScoped
  <1>2. TokensAreScoped'
    BY DEF ScopeInv, RegisteredIsUnfired, TokensAreScoped
  <1>3. CancelIsScoped'
    BY DEF ScopeInv, CancelIsScoped
  <1> QED
    BY <1>1, <1>2, <1>3 DEF ScopeInv

(* The loop's step for a cancel reaches every holder of the token it       *)
(* cancels.                                                                *)
LEMMA HandleCancelScope ==
  ASSUME ToolTypeOK, ScopeInv, NEW x \in CancelTools, HandleCancel(x)
  PROVE  ScopeInv'
  <1> USE ToolAssumption, SessionsOfRequests DEF ToolTypeOK, HandleCancel, Handled
  <1>1. \A c \in Invokes : (work'[c] = "unsent" <=> work[c] = "unsent") /\ x \in ToolRequests
    BY DEF ToolRequests
  <1>2. \A c \in Invokes : /\ reached[c] \subseteq reached'[c]
                           /\ work[c] # "unsent" /\ SessionOf[c] = SessionOf[x] => x \in reached'[c]
    BY DEF Reaches
  <1>3. RegisteredIsUnfired'
    BY <1>1 DEF ScopeInv, RegisteredIsUnfired
  <1>4. TokensAreScoped'
    <2> SUFFICES ASSUME NEW c \in Invokes
                 PROVE  /\ token[c] # Absent => SessionOf[token[c]] = SessionOf[c]
                        /\ token[c] \in fired' => reached'[c] # {}
                        /\ work'[c] = "unsent" => token[c] = Absent /\ c \notin fired'
      BY DEF TokensAreScoped
    <2>1. token[c] \in fired => reached'[c] # {}
      BY <1>2 DEF ScopeInv, TokensAreScoped
    <2>2. token[c] = registry[SessionOf[x]] /\ token[c] # Absent => reached'[c] # {}
      BY <1>2 DEF ScopeInv, TokensAreScoped, RegisteredIsUnfired
    <2>3. work'[c] = "unsent" => token[c] = Absent /\ c \notin fired'
      BY <1>1 DEF ScopeInv, TokensAreScoped, RegisteredIsUnfired
    <2> QED
      BY <2>1, <2>2, <2>3 DEF ScopeInv, TokensAreScoped
  <1>5. CancelIsScoped'
    BY <1>2 DEF ScopeInv, CancelIsScoped
  <1> QED
    BY <1>3, <1>4, <1>5 DEF ScopeInv

(* Every step keeps the scope.                                             *)
LEMMA ScopeStep ==
  ASSUME ToolTypeOK, TasksAreOrdered, ScopeInv, ToolNext
  PROVE  ScopeInv'
  <1> USE SessionsOfRequests DEF ToolTypeOK, serviceVars, execVars
  <1>1. ASSUME NEW c \in Invokes, InvokeStep(c)
        PROVE  ScopeUntouched
    BY <1>1 DEF ScopeUntouched, InvokeStep, InvokeReturnsAtOnce, CancelledAtOnce, SpawnProcess,
        CancelledInCall, InvokeReturns, RespondTool
  <1>2. ASSUME NEW c \in Invokes, AttachFails(c)
        PROVE  ScopeUntouched
    BY <1>2 DEF ScopeUntouched, TasksAreOrdered, AttachFails, RespondTool
  <1>3. ASSUME NEW c \in Invokes, RunnerStep(c), ~AttachFails(c)
        PROVE  ScopeUntouched
    BY <1>3 DEF ScopeUntouched, RunnerStep, AttachGroup, Reap, CommandTimeout, RetainOthers, RemoveIfEmpty
  <1>4. ASSUME NEW c \in Invokes, ProcessExits(c)
        PROVE  ScopeUntouched
    BY <1>4 DEF ScopeUntouched, ProcessExits
  <1>5. ASSUME NEW x \in CancelTools, CancelReturns(x)
        PROVE  ScopeUntouched
    BY <1>5 DEF ScopeUntouched, CancelReturns, RespondTool
  <1>6. ASSUME NEW q \in Searches, HandleSearch(q) \/ SearchReturns(q)
        PROVE  ScopeUntouched
    BY <1>6 DEF ScopeUntouched, HandleSearch, Handled, SearchReturns, RespondTool
  <1>7. ASSUME NEW r \in ToolRequests, WriteFrame(r)
        PROVE  ScopeUntouched
    BY <1>7 DEF ScopeUntouched, WriteFrame
  <1>8. ASSUME CloseStdin \/ WriterFails \/ ServeReturns
        PROVE  ScopeUntouched
    BY <1>8 DEF ScopeUntouched, CloseStdin, WriterFails, ServeReturns
  <1> QED
    BY <1>1, <1>2, <1>3, <1>4, <1>5, <1>6, <1>7, <1>8, ScopeKept, HandleInvokeScope, HandleCancelScope DEF ToolNext

-----------------------------------------------------------------------------
(* The order of the tasks, the groups and the end.                         *)

(* Every step keeps the order of the tasks.                                *)
LEMMA OrderStep ==
  ASSUME ToolTypeOK, TasksAreOrdered, ToolNext
  PROVE  TasksAreOrdered'
  <1> USE ToolAssumption, SessionsOfRequests DEF ToolTypeOK, TasksAreOrdered, serviceVars, execVars
  <1>1. ASSUME NEW c \in Invokes, HandleInvoke(c)
        PROVE  TasksAreOrdered'
    BY <1>1 DEF HandleInvoke, Handled
  <1>2. ASSUME NEW c \in Invokes, InvokeStep(c)
        PROVE  TasksAreOrdered'
    <2>1. CASE SpawnProcess(c)
      BY <2>1 DEF SpawnProcess
    <2>2. CASE ~SpawnProcess(c)
      BY <1>2, <2>2 DEF InvokeStep, InvokeReturnsAtOnce, CancelledAtOnce, CancelledInCall, InvokeReturns,
          RespondTool
    <2> QED
      BY <2>1, <2>2
  <1>3. ASSUME NEW c \in Invokes, AttachFails(c)
        PROVE  TasksAreOrdered'
    BY <1>3 DEF AttachFails, RespondTool
  <1>4. ASSUME NEW c \in Invokes, RunnerStep(c), ~AttachFails(c)
        PROVE  TasksAreOrdered'
    BY <1>4 DEF RunnerStep, AttachGroup, Reap, CommandTimeout, RetainOthers, RemoveIfEmpty
  <1>5. ASSUME NEW c \in Invokes, ProcessExits(c)
        PROVE  TasksAreOrdered'
    BY <1>5 DEF ProcessExits
  <1>6. ASSUME NEW x \in CancelTools, HandleCancel(x) \/ CancelReturns(x)
        PROVE  TasksAreOrdered'
    BY <1>6 DEF HandleCancel, Handled, CancelReturns, RespondTool
  <1>7. ASSUME NEW q \in Searches, HandleSearch(q) \/ SearchReturns(q)
        PROVE  TasksAreOrdered'
    BY <1>7 DEF HandleSearch, Handled, SearchReturns, RespondTool
  <1>8. ASSUME NEW r \in ToolRequests, WriteFrame(r)
        PROVE  TasksAreOrdered'
    BY <1>8 DEF WriteFrame
  <1>9. CASE CloseStdin \/ WriterFails \/ ServeReturns
    BY <1>9 DEF CloseStdin, WriterFails, ServeReturns
  <1> QED
    BY <1>1, <1>2, <1>3, <1>4, <1>5, <1>6, <1>7, <1>8, <1>9 DEF ToolNext

(* A step that leaves the groups and their runners alone and starts no     *)
(* process.                                                                *)
GroupsUntouched ==
    /\ UNCHANGED <<groups, runner>>
    /\ \A c \in Invokes : proc'[c] = "alive" => proc[c] = "alive"
    /\ serve' # "exited" => serve # "exited"

(* Every step keeps the groups exact: what waits for a running command is  *)
(* in the map, and an empty entry has somebody who removes it.             *)
LEMMA RegistryStep ==
  ASSUME ToolTypeOK, TasksAreOrdered, RegistryIsExact, ToolNext
  PROVE  RegistryIsExact'
  <1> USE ToolAssumption, SessionsOfRequests DEF ToolTypeOK, serviceVars, execVars
  <1>0. ASSUME GroupsUntouched
        PROVE  RegistryIsExact'
    BY <1>0 DEF GroupsUntouched, RegistryIsExact
  <1>1. ASSUME NEW c \in Invokes, HandleInvoke(c)
        PROVE  GroupsUntouched
    BY <1>1 DEF HandleInvoke, Handled, GroupsUntouched
  <1>2. ASSUME NEW c \in Invokes, InvokeStep(c)
        PROVE  RegistryIsExact'
    <2>1. CASE SpawnProcess(c)
      BY <2>1 DEF SpawnProcess, TasksAreOrdered, RegistryIsExact
    <2>2. ASSUME ~SpawnProcess(c)
          PROVE  GroupsUntouched
      BY <1>2, <2>2 DEF InvokeStep, InvokeReturnsAtOnce, CancelledAtOnce, CancelledInCall, InvokeReturns,
          GroupsUntouched
    <2> QED
      BY <1>0, <2>1, <2>2
  <1>3. ASSUME NEW c \in Invokes, RunnerStep(c)
        PROVE  RegistryIsExact'
    <2>1. CASE AttachGroup(c)
      <3> DEFINE known == IF groups[SessionOf[c]] = Absent THEN {} ELSE groups[SessionOf[c]]
      <3>1. known \cup {c} \in SUBSET Invokes /\ known \cup {c} # {}
        OBVIOUS
      <3>2. known \cup {c} # Absent
        BY <3>1
      <3>3. /\ groups' = [groups EXCEPT ![SessionOf[c]] = known \cup {c}]
            /\ runner' = [runner EXCEPT ![c] = "wait"] /\ runner[c] = "attach"
            /\ proc' = proc /\ serve' = serve
        BY <2>1 DEF AttachGroup
      <3> HIDE DEF known
      <3>4. c \in known \cup {c} /\ \A d \in Invokes :
              SessionOf[d] = SessionOf[c] /\ groups[SessionOf[d]] # Absent /\ d \in groups[SessionOf[d]] =>
                  d \in known \cup {c}
        BY DEF known
      <3> QED
        BY <3>1, <3>2, <3>3, <3>4 DEF RegistryIsExact
    <2>2. CASE AttachFails(c)
      BY <2>2 DEF AttachFails, RegistryIsExact
    <2>3. CASE Reap(c)
      BY <2>3 DEF Reap, RegistryIsExact
    <2>4. CASE CommandTimeout(c)
      BY <2>4 DEF CommandTimeout, RegistryIsExact
    <2>5. CASE RetainOthers(c)
      BY <2>5 DEF RetainOthers, RegistryIsExact
    <2>6. CASE RemoveIfEmpty(c)
      BY <2>6 DEF RemoveIfEmpty, RegistryIsExact
    <2> QED
      BY <1>3, <2>1, <2>2, <2>3, <2>4, <2>5, <2>6 DEF RunnerStep
  <1>4. ASSUME NEW c \in Invokes, ProcessExits(c)
        PROVE  GroupsUntouched
    BY <1>4 DEF ProcessExits, GroupsUntouched
  <1>5. ASSUME NEW x \in CancelTools, HandleCancel(x)
        PROVE  GroupsUntouched
    BY <1>5 DEF HandleCancel, Handled, GroupsUntouched
  <1>6. ASSUME NEW x \in CancelTools, CancelReturns(x)
        PROVE  RegistryIsExact'
    BY <1>6 DEF CancelReturns, RegistryIsExact
  <1>7. ASSUME NEW q \in Searches, HandleSearch(q) \/ SearchReturns(q)
        PROVE  GroupsUntouched
    BY <1>7 DEF HandleSearch, Handled, SearchReturns, GroupsUntouched
  <1>8. ASSUME NEW r \in ToolRequests, WriteFrame(r)
        PROVE  GroupsUntouched
    BY <1>8 DEF WriteFrame, GroupsUntouched
  <1>9. ASSUME CloseStdin \/ WriterFails \/ ServeReturns
        PROVE  GroupsUntouched
    BY <1>9 DEF CloseStdin, WriterFails, ServeReturns, GroupsUntouched
  <1> QED
    BY <1>0, <1>1, <1>2, <1>3, <1>4, <1>5, <1>6, <1>7, <1>8, <1>9 DEF ToolNext

(* The plugin exits when all it has read is answered and written, and does *)
(* nothing to a request afterwards.                                        *)
LEMMA DrainStep ==
  ASSUME ToolTypeOK, TasksAreOrdered, DrainBeforeExit, ToolNext
  PROVE  DrainBeforeExit'
  <1> USE DEF ToolTypeOK, serviceVars, execVars
  <1>1. CASE ServeReturns
    BY <1>1 DEF ServeReturns, TasksAreOrdered, DrainBeforeExit, HoldsSender
  <1>2. CASE ~ServeReturns
    <2>1. serve' = "exited" => serve = "exited"
      BY <1>2 DEF ToolNext, HandleInvoke, HandleCancel, HandleSearch, Handled, InvokeStep, InvokeReturnsAtOnce,
          CancelledAtOnce, SpawnProcess, CancelledInCall, InvokeReturns, RunnerStep, AttachGroup, AttachFails,
          Reap, CommandTimeout, RetainOthers, RemoveIfEmpty, ProcessExits, CancelReturns, SearchReturns,
          WriteFrame, CloseStdin, WriterFails
    <2>2. serve = "exited" => UNCHANGED <<work, stdoutTask>>
      BY <1>2 DEF ToolNext, HandleInvoke, HandleCancel, HandleSearch, Handled, InvokeStep, InvokeReturnsAtOnce,
          CancelledAtOnce, SpawnProcess, CancelledInCall, InvokeReturns, RunnerStep, AttachGroup, AttachFails,
          Reap, CommandTimeout, RetainOthers, RemoveIfEmpty, ProcessExits, CancelReturns, SearchReturns,
          WriteFrame, CloseStdin, WriterFails, TasksAreOrdered
    <2> QED
      BY <2>1, <2>2 DEF DrainBeforeExit
  <1> QED
    BY <1>1, <1>2

(* Every step keeps the invariant.                                         *)
LEMMA ToolStepOK ==
  ASSUME ToolInv, [ToolNext]_toolVars
  PROVE  ToolInv'
  <1>1. CASE ToolNext
    BY <1>1, ToolTypeStep, ScopeStep, OrderStep, RegistryStep, DrainStep DEF ToolInv, DrainInv
  <1>2. CASE UNCHANGED toolVars
    <2> USE <1>2 DEF toolVars, ToolInv
    <2>1. ToolTypeOK'
      BY DEF ToolTypeOK
    <2>2. ScopeInv'
      BY DEF ScopeInv, RegisteredIsUnfired, TokensAreScoped, CancelIsScoped
    <2>3. DrainInv'
      BY DEF DrainInv, TasksAreOrdered, RegistryIsExact, DrainBeforeExit
    <2> QED
      BY <2>1, <2>2, <2>3
  <1> QED
    BY <1>1, <1>2

(* An invocation is answered as cancelled only for a cancel of its session *)
(* that came after it, for any number of invocations, cancels and sessions *)
(* (ExtensionService::handle).                                             *)
THEOREM CancelIsScopedAlways == ToolSpec => []CancelIsScoped
  <1>1. ToolInv => CancelIsScoped
    BY DEF ToolInv, ScopeInv
  <1> QED
    BY <1>1, ToolInitOK, ToolStepOK, PTL DEF ToolSpec

(* A running command is in its session's groups while its task waits for   *)
(* it, and the plugin does not exit before what it has read is written,    *)
(* for any number of commands, cancels and searches (ProcessController,    *)
(* serve_plugin).                                                          *)
THEOREM ToolsAreTrackedAlways == ToolSpec => []ToolsAreTracked
  <1>1. ToolInv => ToolsAreTracked
    BY DEF ToolInv, DrainInv, ToolsAreTracked
  <1> QED
    BY <1>1, ToolInitOK, ToolStepOK, PTL DEF ToolSpec
-----------------------------------------------------------------------------
(***************************************************************************)
(* PluginConnection: its types, that a dead provider has no orphan routes, *)
(* that no chat ends silently and that nothing follows the end of a chat,  *)
(* for any number of requests and chats and any capacities.                *)
(***************************************************************************)

\* The request has not been handed to the writer.
Early == {"idle", "inserted", "checked"}

(* The order of the startup, and what an answer to init_backends says: it  *)
(* was read after Running had been stored, so that a reader task that ends *)
(* later has the last word on the health.                                  *)
StartupInv ==
    /\ pc["init"] # "idle" => pc["handshake"] = "ok"
    /\ startup \in {"init", "ready"} => pc["handshake"] = "ok"
    /\ startup = "ready" => pc["init"] \in {"idle", "ok"}
    /\ startup = "ready" /\ kind = "provider" => reply["init"] # "none"
    /\ reader # "reading" /\ reply["init"] # "none" => health = "Unhealthy"
    /\ reader = "ended" /\ reply["init"] # "none" => \A i \in routes : pc[i] = "inserted"

(* A request that has not begun has left no trace.                         *)
IdleInv ==
    \A i \in Ids : pc[i] = "idle" =>
        reply[i] = "none" /\ chan[i] = <<>> /\ i \notin routes /\ i \notin toFail

(* Only what was sent is answered, and a chat by events only.              *)
FrameInv ==
    /\ \A k \in 1..Len(queue) : pc[queue[k]] \notin Early
    /\ \A i \in Ids : received[i] > 0 => pc[i] \notin Early
    /\ \A k \in 1..Len(stdout) :
         /\ pc[stdout[k].id] \notin Early
         /\ kind = "provider" /\ stdout[k].id \in Streams =>
                stdout[k].body \in {"Item", "Done", "Blank", "Garbage"}

EndsInTerminal(i) == chan[i] # <<>> /\ chan[i][Len(chan[i])] \in Terminal

(* The reader will still feed the chat.                                    *)
Fed(i) == i \in toFail \/ (i \in routes /\ reader \in {"reading", "marked"})

(* A chat under way is fed or has its end in its channel, not both, unless *)
(* it was cut short.                                                       *)
ChatInv ==
    /\ reader \in {"reading", "marked", "ended"} => toFail = {}
    /\ \A i \in Streams :
         /\ pc[i] # "idle" => kind = "provider" /\ startup = "ready"
         /\ pc[i] = "inserted" /\ reader = "reading" => i \in routes
         /\ pc[i] \in {"checked", "streaming"} => Fed(i) \/ EndsInTerminal(i) \/ i \in cut
         /\ Fed(i) => \A k \in 1..Len(chan[i]) : chan[i][k] \notin Terminal
         /\ pc[i] = "closed" => i \in cut

BaseInv == TypeOK /\ StartupInv /\ IdleInv
StreamInv == FrameInv /\ ChatInv /\ TerminalIsLast
-----------------------------------------------------------------------------
(* What Append does to a sequence, the only way one grows here.            *)
LEMMA AppendFacts ==
  ASSUME NEW S, NEW s \in Seq(S), NEW e \in S
  PROVE  /\ Append(s, e) \in Seq(S) /\ Len(Append(s, e)) = Len(s) + 1
         /\ \A k \in 1..Len(s) : Append(s, e)[k] = s[k]
         /\ Append(s, e)[Len(s) + 1] = e /\ Append(s, e) # <<>>
BY SMT

(* What Tail leaves of a channel, a queue or a pipe that is read.          *)
LEMMA TailFacts ==
  ASSUME NEW S, NEW s \in Seq(S), s # <<>>
  PROVE  /\ Head(s) \in S /\ Head(s) = s[1] /\ Len(s) \in Nat \ {0}
         /\ Tail(s) \in Seq(S) /\ Len(Tail(s)) = Len(s) - 1
         /\ \A k \in 1..(Len(s) - 1) : Tail(s)[k] = s[k + 1]
BY SMT

(* The initial state: a process that was just spawned.                     *)
LEMMA InitBase == Init => BaseInv
BY ConnectionAssumption DEF Init, BaseInv, TypeOK, StartupInv, IdleInv, Ids, Frame

(* The callers' steps: a request and its answer.                           *)
LEMMA CallerBase ==
  ASSUME BaseInv, NEW i \in Ids,
         Begin(i) \/ CallerStep(i) \/ Timeout(i) \/ Leave(i)
  PROVE  BaseInv'
<1> USE ConnectionAssumption DEF BaseInv, Ids, Goes, Fails
<1>1. CASE Begin(i)
  <2>1. TypeOK' BY <1>1 DEF TypeOK, Begin, pluginVars, Returned
  <2>2. StartupInv' BY <1>1 DEF TypeOK, Begin, pluginVars, StartupInv, IdleInv, MayBegin
  <2>3. IdleInv' BY <1>1 DEF TypeOK, Begin, pluginVars, IdleInv
  <2> QED BY <2>1, <2>2, <2>3
<1>2. CASE CheckHealth(i)
  <2>1. TypeOK' BY <1>2 DEF TypeOK, CheckHealth, pluginVars, Returned
  <2>2. StartupInv' BY <1>2, ZenonT(30) DEF TypeOK, CheckHealth, pluginVars, StartupInv, IdleInv
  <2>3. IdleInv' BY <1>2 DEF TypeOK, CheckHealth, pluginVars, IdleInv
  <2> QED BY <2>1, <2>2, <2>3
<1>3. CASE Enqueue(i)
  <2>0. Append(queue, i) \in Seq(Ids) /\ Len(Append(queue, i)) = Len(queue) + 1 /\ Len(queue) \in Nat
    BY AppendFacts DEF TypeOK
  <2>1. TypeOK'
    <3>1. queue' \in Seq(Ids) /\ Len(queue') <= QueueCapacity
      <4>1. QueueCapacity \in Nat OBVIOUS
      <4>2. queue \in Seq(Ids) /\ Len(queue) <= QueueCapacity BY DEF TypeOK
      <4>3. queue' = queue \/ (Len(queue) < QueueCapacity /\ queue' = Append(queue, i))
        BY <1>3 DEF Enqueue, HasRoom
      <4> HIDE ConnectionAssumption DEF Ids
      <4> QED BY <2>0, <4>1, <4>2, <4>3
    <3>2. pc' \in [Ids -> {"idle", "inserted", "checked", "waiting", "streaming"} \cup Returned]
      BY <1>3 DEF TypeOK, Enqueue, Returned
    <3> QED BY <1>3, <3>1, <3>2 DEF TypeOK, Enqueue, pluginVars
  <2>2. StartupInv' BY <1>3 DEF TypeOK, Enqueue, pluginVars, StartupInv, IdleInv
  <2>3. IdleInv' BY <1>3 DEF TypeOK, Enqueue, pluginVars, IdleInv
  <2> QED BY <2>1, <2>2, <2>3
<1>4. CASE Take(i)
  <2>1. TypeOK' BY <1>4 DEF TypeOK, Take, pluginVars, Returned
  <2>2. StartupInv' BY <1>4 DEF TypeOK, Take, pluginVars, StartupInv, IdleInv
  <2>3. IdleInv' BY <1>4 DEF TypeOK, Take, pluginVars, IdleInv
  <2> QED BY <2>1, <2>2, <2>3
<1>5. CASE Disconnect(i) \/ Timeout(i)
  <2>1. TypeOK' BY <1>5, ZenonT(30) DEF TypeOK, Disconnect, Timeout, pluginVars, Returned
  <2>2. StartupInv' BY <1>5 DEF TypeOK, Disconnect, Timeout, pluginVars, StartupInv, IdleInv
  <2>3. IdleInv' BY <1>5 DEF TypeOK, Disconnect, Timeout, pluginVars, IdleInv
  <2> QED BY <2>1, <2>2, <2>3
<1>6. CASE Consume(i)
  <2>0. Tail(chan[i]) \in Seq({"Item"} \cup Terminal)
    BY <1>6, TailFacts DEF TypeOK, Consume
  <2>1. TypeOK' BY <1>6, <2>0 DEF TypeOK, Consume, hostVars, pluginVars, Returned
  <2>2. StartupInv' BY <1>6 DEF TypeOK, Consume, hostVars, pluginVars, StartupInv, IdleInv
  <2>3. IdleInv' BY <1>6 DEF TypeOK, Consume, hostVars, pluginVars, IdleInv
  <2> QED BY <2>1, <2>2, <2>3
<1>7. CASE Close(i) \/ Leave(i)
  <2>1. TypeOK' BY <1>7, ZenonT(30) DEF TypeOK, Close, Leave, hostVars, pluginVars, Returned
  <2>2. StartupInv' BY <1>7 DEF TypeOK, Close, Leave, hostVars, pluginVars, StartupInv, IdleInv
  <2>3. IdleInv' BY <1>7 DEF TypeOK, Close, Leave, hostVars, pluginVars, IdleInv
  <2> QED BY <2>1, <2>2, <2>3
<1> QED BY <1>1, <1>2, <1>3, <1>4, <1>5, <1>6, <1>7 DEF CallerStep

(* The writer task and the plugin.                                         *)
LEMMA PluginBase ==
  ASSUME BaseInv,
         Write \/ Die \/ \E i \in Ids : \E body \in Bodies(i) : Respond(i, body)
  PROVE  BaseInv'
<1> USE ConnectionAssumption DEF BaseInv
<1>1. CASE Write
  <2>0. Head(queue) \in Ids /\ Tail(queue) \in Seq(Ids) /\ Len(Tail(queue)) <= Len(queue)
    BY <1>1, TailFacts DEF TypeOK, Write
  <2>1. QueueCapacity \in Nat /\ Len(queue) \in Nat /\ <<>> \in Seq(Ids) /\ Len(<<>>) = 0 /\ MaxItems \in Nat
    BY DEF TypeOK
  <2>2. queue' \in Seq(Ids) /\ Len(queue') <= QueueCapacity
    <3>1. queue \in Seq(Ids) /\ Len(queue) <= QueueCapacity BY DEF TypeOK
    <3>2. CASE queue' = Tail(queue)
      <4>1. Len(Tail(queue)) \in Nat BY <2>0
      <4> QED BY <2>0, <2>1, <3>1, <3>2, <4>1
    <3>3. CASE queue' = <<>> BY <2>1, <3>3
    <3> QED BY <1>1, <3>2, <3>3 DEF Write
  <2>3. received' \in [Ids -> 0..(MaxItems + 1)]
    <3>1. received \in [Ids -> 0..(MaxItems + 1)] /\ 1 \in 0..(MaxItems + 1) BY <2>1 DEF TypeOK
    <3>2. received' \in {received, [received EXCEPT ![Head(queue)] = 1]} BY <1>1 DEF Write
    <3> QED BY <2>0, <3>1, <3>2
  <2>4. TypeOK' BY <1>1, <2>2, <2>3 DEF TypeOK, Write, callerVars
  <2>5. StartupInv' BY <1>1 DEF TypeOK, Write, callerVars, StartupInv
  <2>6. IdleInv' BY <1>1 DEF Write, callerVars, IdleInv
  <2> QED BY <2>4, <2>5, <2>6
<1>2. CASE Die
  BY <1>2 DEF Die, hostVars, callerVars, TypeOK, StartupInv, IdleInv
<1>3. ASSUME NEW i \in Ids, NEW body \in Bodies(i), Respond(i, body)
      PROVE  BaseInv'
  <2>1. [id |-> i, body |-> body] \in Frame
    BY <1>3 DEF Bodies, Frame
  <2>2. Append(stdout, [id |-> i, body |-> body]) \in Seq(Frame)
    BY <2>1, AppendFacts DEF TypeOK
  <2>3. body = "Item" => received[i] <= MaxItems
    BY <1>3 DEF Bodies
  <2>4. received' \in [Ids -> 0..(MaxItems + 1)]
    BY <1>3, <2>3 DEF TypeOK, Respond
  <2>5. TypeOK' BY <1>3, <2>2, <2>4 DEF TypeOK, Respond, hostVars, callerVars
  <2>6. StartupInv' /\ IdleInv' BY <1>3 DEF Respond, hostVars, callerVars, StartupInv, IdleInv
  <2> QED BY <2>5, <2>6
<1> QED BY <1>1, <1>2, <1>3

(* The reader task.                                                        *)
LEMMA ReaderBase ==
  ASSUME BaseInv, Reader
  PROVE  BaseInv'
<1> USE ConnectionAssumption DEF BaseInv
<1>1. CASE ReadFrame
  <2> DEFINE i == Head(stdout).id
             body == Head(stdout).body
  <2>1. /\ Head(stdout) \in Frame /\ Tail(stdout) \in Seq(Frame)
    BY <1>1, TailFacts DEF TypeOK, ReadFrame
  <2>2. i \in Ids BY <2>1 DEF Frame
  <2>3. /\ stdout' = Tail(stdout) /\ routes' \in {routes, routes \ {i}}
        /\ UNCHANGED <<kind, startup, health, pc, queue, writer, reader, toFail, plugin, received>>
        /\ cut' \subseteq cut \cup Streams
        /\ reader = "reading"
        /\ \/ reply' = reply /\ chan' = chan
           \/ /\ i \in routes /\ body \in {"Answer", "Refusal"}
              /\ reply' = [reply EXCEPT ![i] = body] /\ chan' = chan
           \/ /\ i \in routes /\ body \in {"Item", "Done"}
              /\ chan' = Sent(i, body) /\ reply' = reply
    BY <1>1 DEF ReadFrame
  <2>4. ASSUME body \in {"Item", "Done"} PROVE Sent(i, body) \in [Ids -> Seq({"Item"} \cup Terminal)]
    <3>1. Append(chan[i], body) \in Seq({"Item"} \cup Terminal)
      BY <2>2, <2>4, AppendFacts DEF TypeOK, Terminal
    <3> QED BY <2>2, <3>1 DEF TypeOK, Sent
  <2> HIDE DEF i, body
  <2>5. TypeOK'
    <3>1. chan' \in [Ids -> Seq({"Item"} \cup Terminal)] BY <2>3, <2>4 DEF TypeOK
    <3>2. reply' \in [Ids -> {"none", "Answer", "Refusal"}] BY <2>2, <2>3 DEF TypeOK
    <3>3. routes' \subseteq Ids BY <2>3 DEF TypeOK
    <3> QED BY <2>1, <2>3, <3>1, <3>2, <3>3 DEF TypeOK
  <2>6. StartupInv'
    <3>1. "init" \in Ids BY DEF Ids
    <3>2. reply["init"] # "none" => reply'["init"] # "none" BY <2>2, <2>3, <3>1 DEF TypeOK
    <3> QED BY <2>3, <3>2 DEF StartupInv
  <2>7. IdleInv' BY <2>2, <2>3 DEF TypeOK, IdleInv, Sent
  <2> QED BY <2>5, <2>6, <2>7
<1>2. CASE EndOfFile
  BY <1>2 DEF EndOfFile, callerVars, pluginVars, TypeOK, StartupInv, IdleInv
<1>3. CASE Collect
  BY <1>3 DEF Collect, callerVars, pluginVars, TypeOK, StartupInv, IdleInv
<1>4. CASE Clear
  BY <1>4 DEF Clear, callerVars, pluginVars, TypeOK, StartupInv, IdleInv
<1>5. ASSUME NEW i \in Streams, FailStream(i) PROVE BaseInv'
  <2>1. i \in Ids BY DEF Ids
  <2>2. Append(chan[i], "Error") \in Seq({"Item"} \cup Terminal)
    BY <2>1, AppendFacts DEF TypeOK, Terminal
  <2>3. Sent(i, "Error") \in [Ids -> Seq({"Item"} \cup Terminal)]
    BY <2>1, <2>2 DEF TypeOK, Sent
  <2>4. TypeOK' BY <1>5, <2>3 DEF TypeOK, FailStream, pluginVars
  <2>5. StartupInv' BY <1>5 DEF FailStream, pluginVars, StartupInv
  <2>6. IdleInv' BY <1>5, <2>1 DEF TypeOK, FailStream, pluginVars, IdleInv, Sent
  <2> QED BY <2>4, <2>5, <2>6
<1> QED BY <1>1, <1>2, <1>3, <1>4, <1>5 DEF Reader

(* What every state of a connection has in common, without which none of   *)
(* the claims below is inductive.                                          *)
THEOREM BaseInvariance == Spec => []BaseInv
<1>1. BaseInv /\ UNCHANGED vars => BaseInv'
  BY DEF BaseInv, TypeOK, StartupInv, IdleInv, vars
<1>2. BaseInv /\ [Next]_vars => BaseInv'
  BY <1>1, CallerBase, PluginBase, ReaderBase DEF Next
<1> QED BY <1>2, InitBase, PTL DEF Spec

(* The variables of a connection keep their types: in particular the       *)
(* request channel stays within its capacity.                              *)
THEOREM ConnectionTypes == Spec => []TypeOK
<1>1. BaseInv => TypeOK BY DEF BaseInv
<1> QED BY <1>1, BaseInvariance, PTL

(* The reader task of a provider in use leaves no route behind that        *)
(* somebody relies on.                                                     *)
THEOREM NoOrphans == Spec => []NoOrphanRoutes
<1>1. BaseInv => NoOrphanRoutes BY DEF BaseInv, StartupInv, NoOrphanRoutes
<1> QED BY <1>1, BaseInvariance, PTL
-----------------------------------------------------------------------------
(* Once a plugin is in use, no request to it ends its startup.             *)
LEMMA ReadyStays ==
  ASSUME BaseInv, startup = "ready", NEW i \in Ids,
         Begin(i) \/ CallerStep(i) \/ Timeout(i) \/ Leave(i)
  PROVE  startup' = "ready"
<1>1. pc[i] \notin {"idle", "ok"} => i \notin {"handshake", "init"}
  BY DEF BaseInv, StartupInv
<1> QED BY <1>1 DEF CallerStep, Begin, CheckHealth, Enqueue, Take, Disconnect, Consume, Close,
        Timeout, Leave, Fails, Goes, hostVars, Returned

(* A chat that is about to be sent to a provider that is still read has    *)
(* its route.                                                              *)
LEMMA InsertedChats ==
  ASSUME BaseInv, ChatInv, NEW i \in Streams, pc[i] = "inserted", health # "Unhealthy"
  PROVE  Fed(i)
<1>1. startup = "ready" /\ kind = "provider" BY DEF ChatInv
<1>2. reader = "reading" BY <1>1 DEF BaseInv, StartupInv
<1> QED BY <1>2 DEF ChatInv, Fed

(* The callers' steps that leave the channels alone.  `next` is where the  *)
(* caller goes.                                                            *)
LEMMA QuietCallers ==
  ASSUME BaseInv, StreamInv, NEW i \in Ids, NEW next,
         Begin(i) \/ CallerStep(i) \/ Timeout(i) \/ Leave(i),
         chan' = chan, cut' = cut, kind' = kind, reader' = reader, toFail' = toFail,
         pc' = [pc EXCEPT ![i] = next],
         routes' \ {i} = routes \ {i},
         next \in Early => pc[i] \in Early,
         i \in routes' => i \in routes \/ pc[i] = "idle",
         i \in Streams /\ next \in {"checked", "streaming"} =>
             (i \in routes' <=> i \in routes) /\ (Fed(i) \/ EndsInTerminal(i) \/ i \in cut),
         next = "inserted" => i \in routes',
         next # "idle", i \in Streams /\ next = "closed" => i \in cut,
         i \in Streams /\ pc[i] = "idle" => kind = "provider" /\ startup = "ready"
  PROVE  ChatInv' /\ TerminalIsLast'
<1> USE DEF BaseInv, StreamInv
<1>1. TerminalIsLast' BY DEF TerminalIsLast
<1>2. reader' \in {"reading", "marked", "ended"} => toFail' = {} BY DEF ChatInv
<1>3. ASSUME NEW j \in Streams PROVE pc'[j] # "idle" => kind' = "provider" /\ startup' = "ready"
  <2>1. j \in Ids /\ pc \in [Ids -> {"idle", "inserted", "checked", "waiting", "streaming"} \cup Returned]
    BY DEF Ids, TypeOK
  <2> QED BY <2>1, ReadyStays DEF ChatInv
<1>4. ASSUME NEW j \in Streams
      PROVE  /\ pc'[j] = "inserted" /\ reader' = "reading" => j \in routes'
             /\ pc'[j] \in {"checked", "streaming"} => Fed(j)' \/ EndsInTerminal(j)' \/ j \in cut'
             /\ Fed(j)' => \A k \in 1..Len(chan'[j]) : chan'[j][k] \notin Terminal
             /\ pc'[j] = "closed" => j \in cut'
  <2>1. j \in Ids /\ pc \in [Ids -> {"idle", "inserted", "checked", "waiting", "streaming"} \cup Returned]
    BY DEF Ids, TypeOK
  <2>2. EndsInTerminal(j)' <=> EndsInTerminal(j) BY DEF EndsInTerminal
  <2>3. CASE j # i
    <3>1. pc'[j] = pc[j] /\ (j \in routes' <=> j \in routes) BY <2>1, <2>3
    <3>2. Fed(j)' <=> Fed(j) BY <3>1 DEF Fed
    <3> QED BY <2>2, <3>1, <3>2 DEF ChatInv
  <2>4. CASE j = i
    <3>1. pc'[j] = next BY <2>1, <2>4
    <3>2. pc[j] = "idle" => chan[j] = <<>> BY <2>1 DEF IdleInv
    <3>3. next \in {"checked", "streaming"} => Fed(j)' \/ EndsInTerminal(j)' \/ j \in cut
      BY <2>2, <2>4 DEF Fed
    <3>4. Fed(j)' => Fed(j) \/ chan[j] = <<>> BY <2>4, <3>2 DEF Fed
    <3> QED BY <2>4, <3>1, <3>3, <3>4 DEF ChatInv
  <2> QED BY <2>3, <2>4
<1> QED BY <1>1, <1>2, <1>3, <1>4 DEF ChatInv

(* Every frame is for some request.                                        *)
LEMMA FrameIds ==
  ASSUME NEW s \in Seq(Frame), NEW k \in 1..Len(s)
  PROVE  s[k] \in Frame /\ s[k].id \in Ids
<1>1. s[k] \in Frame OBVIOUS
<1> QED BY <1>1 DEF Frame

(* A caller puts its own request, and nothing else, into the queue.        *)
LEMMA CallerFrames ==
  ASSUME BaseInv, FrameInv, NEW i \in Ids,
         Begin(i) \/ CallerStep(i) \/ Timeout(i) \/ Leave(i)
  PROVE  FrameInv'
<1>1. PICK next :
        /\ pc' = [pc EXCEPT ![i] = next] /\ (next \in Early => pc[i] \in Early)
        /\ queue' = queue \/ (queue' = Append(queue, i) /\ next \notin Early)
        /\ kind' = kind /\ received' = received /\ stdout' = stdout
  BY DEF CallerStep, Begin, CheckHealth, Enqueue, Take, Disconnect, Consume, Close,
         Timeout, Leave, Fails, Goes, hostVars, pluginVars, Early
<1>2. /\ pc \in [Ids -> {"idle", "inserted", "checked", "waiting", "streaming"} \cup Returned]
      /\ queue \in Seq(Ids) /\ stdout \in Seq(Frame)
  BY DEF BaseInv, TypeOK
<1>3. \A j \in Ids : pc[j] \notin Early => pc'[j] \notin Early
  BY <1>1, <1>2
<1>4. \A k \in 1..Len(queue') : pc'[queue'[k]] \notin Early
  <2>1. CASE queue' = queue
    BY <1>2, <1>3, <2>1 DEF FrameInv
  <2>2. CASE queue' = Append(queue, i) /\ next \notin Early
    <3>1. pc'[i] \notin Early BY <1>1, <1>2, <2>2
    <3>2. Len(queue') = Len(queue) + 1 /\ Len(queue) \in Nat /\ queue'[Len(queue) + 1] = i
      BY <1>2, <2>2, AppendFacts
    <3>3. \A k \in 1..Len(queue) : queue'[k] = queue[k] /\ queue[k] \in Ids
      BY <1>2, <2>2, AppendFacts
    <3>4. \A k \in 1..Len(queue) : pc'[queue'[k]] \notin Early
      BY <1>3, <3>3 DEF FrameInv
    <3> QED BY <3>1, <3>2, <3>4
  <2> QED BY <1>1, <2>1, <2>2
<1>5. \A k \in 1..Len(stdout) : stdout[k].id \in Ids
  BY <1>2, FrameIds
<1> QED BY <1>1, <1>3, <1>4, <1>5 DEF FrameInv

(* The callers keep a chat fed until it has ended.                         *)
LEMMA CallerStreams ==
  ASSUME BaseInv, StreamInv, NEW i \in Ids,
         Begin(i) \/ CallerStep(i) \/ Timeout(i) \/ Leave(i)
  PROVE  StreamInv'
<1> SUFFICES ChatInv' /\ TerminalIsLast'
  BY CallerFrames DEF StreamInv
<1> USE DEF Goes, Fails, hostVars, pluginVars
<1>1. CASE Begin(i)
  <2>1. i \in Streams => startup = "ready" /\ kind = "provider"
    BY <1>1, ConnectionAssumption DEF Begin, MayBegin
  <2> QED BY <1>1, <2>1, QuietCallers DEF Begin, Early
<1>2. CASE CheckHealth(i)
  <2>1. CASE health = "Unhealthy"
    BY <1>2, <2>1, QuietCallers DEF CheckHealth, Early
  <2>2. CASE health # "Unhealthy"
    <3>1. i \in Streams => Fed(i) BY <1>2, <2>2, InsertedChats DEF CheckHealth, StreamInv
    <3> QED BY <1>2, <2>2, <3>1, QuietCallers DEF CheckHealth, Early
  <2> QED BY <2>1, <2>2
<1>3. CASE Enqueue(i)
  <2>1. i \in Streams => Fed(i) \/ EndsInTerminal(i) \/ i \in cut
    BY <1>3 DEF Enqueue, StreamInv, ChatInv
  <2>2. CASE queue' = queue /\ pc' = [pc EXCEPT ![i] = "disconnected"] /\ routes' = routes \ {i}
    BY <1>3, <2>2, QuietCallers DEF Enqueue, Early
  <2>3. CASE /\ pc' = [pc EXCEPT ![i] = IF i \in Streams THEN "streaming" ELSE "waiting"]
             /\ routes' = routes
    BY <1>3, <2>1, <2>3, QuietCallers DEF Enqueue, Early
  <2> QED BY <1>3, <2>2, <2>3 DEF Enqueue
<1>4. CASE Take(i)
  BY <1>4, QuietCallers DEF Take, Early
<1>5. CASE Disconnect(i)
  BY <1>5, QuietCallers DEF Disconnect, Early
<1>6. CASE Timeout(i)
  BY <1>6, QuietCallers DEF Timeout, Early
<1>7. CASE Leave(i)
  BY <1>7, QuietCallers DEF Leave, Early
<1>8. CASE Close(i)
  <2>1. ~Fed(i) BY <1>8 DEF Close, Fed
  <2>2. ~EndsInTerminal(i) BY <1>8 DEF Close, EndsInTerminal
  <2>3. i \in Streams => i \in cut BY <1>8, <2>1, <2>2 DEF Close, StreamInv, ChatInv
  <2> QED BY <1>8, <2>3, QuietCallers DEF Close, Early
<1>9. CASE Consume(i)
  <2>1. /\ pc \in [Ids -> {"idle", "inserted", "checked", "waiting", "streaming"} \cup Returned]
        /\ chan \in [Ids -> Seq({"Item"} \cup Terminal)]
    BY DEF BaseInv, TypeOK
  <2>2. /\ pc[i] = "streaming" /\ chan[i] # <<>>
        /\ chan' = [chan EXCEPT ![i] = Tail(chan[i])]
        /\ pc' = [pc EXCEPT ![i] = IF Head(chan[i]) \in Terminal THEN "ended" ELSE "streaming"]
        /\ UNCHANGED <<kind, startup, health, routes, reader, toFail, cut>>
    BY <1>9 DEF Consume
  <2>3. /\ Len(chan[i]) \in Nat \ {0} /\ Len(chan'[i]) = Len(chan[i]) - 1
        /\ Head(chan[i]) = chan[i][1] /\ chan'[i] \in Seq({"Item"} \cup Terminal)
        /\ \A k \in 1..(Len(chan[i]) - 1) : chan'[i][k] = chan[i][k + 1]
    BY <2>1, <2>2, TailFacts
  <2>4. \A j \in Ids \ {i} : chan'[j] = chan[j] /\ pc'[j] = pc[j] BY <2>1, <2>2
  <2>5. \A j \in Streams : j \in Ids BY DEF Ids
  <2>6. TerminalIsLast'
    <3> SUFFICES ASSUME NEW j \in Streams, NEW k \in 1..Len(chan'[j]), chan'[j][k] \in Terminal
                 PROVE  k = Len(chan'[j])
      BY DEF TerminalIsLast
    <3>1. CASE j # i BY <2>4, <2>5, <3>1 DEF StreamInv, TerminalIsLast
    <3>2. CASE j = i
      <4>1. chan[i][k + 1] \in Terminal /\ k + 1 \in 1..Len(chan[i]) BY <2>3, <3>2
      <4> QED BY <2>3, <3>2, <4>1 DEF StreamInv, TerminalIsLast
    <3> QED BY <3>1, <3>2
  <2>7. ASSUME NEW j \in Streams
        PROVE  /\ pc'[j] \in {"checked", "streaming"} => Fed(j)' \/ EndsInTerminal(j)' \/ j \in cut'
               /\ Fed(j)' => \A k \in 1..Len(chan'[j]) : chan'[j][k] \notin Terminal
    <3>0. Fed(j)' <=> Fed(j) BY <2>2 DEF Fed
    <3>1. CASE j # i
      <4>1. EndsInTerminal(j)' <=> EndsInTerminal(j) BY <2>4, <2>5, <3>1 DEF EndsInTerminal
      <4> QED BY <2>2, <2>4, <2>5, <3>0, <3>1, <4>1 DEF StreamInv, ChatInv
    <3>2. CASE j = i
      <4>1. Fed(j)' => \A k \in 1..Len(chan'[j]) : chan'[j][k] \notin Terminal
        <5>1. Fed(i) => \A k \in 1..Len(chan[i]) : chan[i][k] \notin Terminal
          BY <3>2 DEF StreamInv, ChatInv
        <5> SUFFICES ASSUME Fed(i), NEW k \in 1..Len(chan'[i]) PROVE chan'[i][k] \notin Terminal
          BY <3>0, <3>2
        <5>2. k + 1 \in 1..Len(chan[i]) /\ chan'[i][k] = chan[i][k + 1] BY <2>3
        <5> QED BY <5>1, <5>2
      <4>2. Fed(i) \/ EndsInTerminal(i) \/ i \in cut BY <2>2, <3>2 DEF StreamInv, ChatInv
      <4>3. ASSUME EndsInTerminal(i), pc'[i] = "streaming" PROVE EndsInTerminal(i)'
        <5>1. Head(chan[i]) \notin Terminal BY <2>1, <2>2, <4>3
        <5>2. Len(chan[i]) # 1 BY <2>3, <4>3, <5>1 DEF EndsInTerminal
        <5>3. chan'[i][Len(chan'[i])] = chan[i][Len(chan[i])] /\ chan'[i] # <<>>
          <6> DEFINE n == Len(chan[i])
          <6>1. n \in Nat \ {0} /\ n # 1 /\ Len(chan'[i]) = n - 1 BY <2>3, <5>2
          <6>2. \A k \in 1..(n - 1) : chan'[i][k] = chan[i][k + 1] BY <2>3
          <6> HIDE DEF n
          <6>3. n - 1 \in 1..(n - 1) /\ (n - 1) + 1 = n /\ n - 1 # 0 BY <6>1
          <6>4. chan'[i][n - 1] = chan[i][n] BY <6>2, <6>3
          <6>5. chan'[i] # <<>> BY <6>1, <6>3
          <6> QED BY <6>1, <6>4, <6>5 DEF n
        <5> QED BY <4>3, <5>3 DEF EndsInTerminal
      <4>4. pc'[i] # "checked" BY <2>1, <2>2
      <4> QED BY <2>2, <3>0, <3>2, <4>1, <4>2, <4>3, <4>4
    <3> QED BY <3>1, <3>2
  <2>8. \A j \in Streams :
          /\ pc'[j] # "idle" => kind' = "provider" /\ startup' = "ready"
          /\ pc'[j] = "inserted" /\ reader' = "reading" => j \in routes'
          /\ pc'[j] = "closed" => j \in cut'
    BY <2>1, <2>2, <2>4, <2>5 DEF StreamInv, ChatInv
  <2>9. reader' \in {"reading", "marked", "ended"} => toFail' = {}
    BY <2>2 DEF StreamInv, ChatInv
  <2> QED BY <2>6, <2>7, <2>8, <2>9 DEF ChatInv
<1> QED BY <1>1, <1>2, <1>3, <1>4, <1>5, <1>6, <1>7, <1>8, <1>9 DEF CallerStep

(* The writer and the plugin touch no channel; the plugin answers what it  *)
(* was sent.                                                               *)
LEMMA PluginStreams ==
  ASSUME BaseInv, StreamInv,
         Write \/ Die \/ \E i \in Ids : \E body \in Bodies(i) : Respond(i, body)
  PROVE  StreamInv'
<1>1. UNCHANGED <<kind, startup, pc, chan, routes, reader, toFail, cut>>
  BY DEF Write, Die, Respond, hostVars, callerVars
<1>2. TerminalIsLast' BY <1>1 DEF StreamInv, TerminalIsLast
<1>3. ChatInv' BY <1>1 DEF StreamInv, ChatInv, Fed, EndsInTerminal
<1>4. /\ queue \in Seq(Ids) /\ stdout \in Seq(Frame) /\ received \in [Ids -> 0..(MaxItems + 1)]
  BY DEF BaseInv, TypeOK
<1>5. FrameInv'
  <2>1. CASE Write
    <3>1. \A k \in 1..Len(queue') : pc[queue'[k]] \notin Early
      <4>1. CASE queue' = Tail(queue)
        <5>1. /\ Len(queue) \in Nat \ {0} /\ Len(queue') = Len(queue) - 1
              /\ \A k \in 1..(Len(queue) - 1) : queue'[k] = queue[k + 1]
          BY <1>4, <2>1, <4>1, TailFacts DEF Write
        <5>2. \A k \in 1..(Len(queue) - 1) : k + 1 \in 1..Len(queue) BY <5>1
        <5> QED BY <5>1, <5>2 DEF StreamInv, FrameInv
      <4>2. CASE queue' = <<>> BY <4>2
      <4> QED BY <2>1, <4>1, <4>2 DEF Write
    <3>2. \A i \in Ids : received'[i] > 0 => pc[i] \notin Early
      <4>1. Head(queue) \in Ids /\ Head(queue) = queue[1] /\ 1 \in 1..Len(queue)
        BY <1>4, <2>1, TailFacts DEF Write
      <4>2. pc[Head(queue)] \notin Early BY <4>1 DEF StreamInv, FrameInv
      <4>3. received' = received \/ received' = [received EXCEPT ![Head(queue)] = 1]
        BY <2>1 DEF Write
      <4> QED BY <1>4, <4>1, <4>2, <4>3 DEF StreamInv, FrameInv
    <3> QED BY <1>1, <2>1, <3>1, <3>2 DEF Write, StreamInv, FrameInv
  <2>2. CASE Die
    BY <1>1, <2>2 DEF Die, hostVars, StreamInv, FrameInv
  <2>3. ASSUME NEW i \in Ids, NEW body \in Bodies(i), Respond(i, body) PROVE FrameInv'
    <3> DEFINE frame == [id |-> i, body |-> body]
    <3>1. pc[i] \notin Early BY <2>3 DEF Respond, StreamInv, FrameInv
    <3>2. frame \in Frame BY <2>3 DEF Bodies, Frame
    <3>3. /\ stdout' = Append(stdout, frame) /\ Len(stdout') = Len(stdout) + 1 /\ Len(stdout) \in Nat
          /\ \A k \in 1..Len(stdout) : stdout'[k] = stdout[k]
          /\ stdout'[Len(stdout) + 1] = frame
      BY <1>4, <2>3, <3>2, AppendFacts DEF Respond
    <3>4. frame.id = i /\ frame.body = body OBVIOUS
    <3>5. i \in Streams => body \in {"Item", "Done", "Blank", "Garbage"}
      BY <2>3 DEF Bodies
    <3> HIDE DEF frame
    <3>6. ASSUME NEW k \in 1..Len(stdout')
          PROVE  /\ pc[stdout'[k].id] \notin Early
                 /\ kind = "provider" /\ stdout'[k].id \in Streams =>
                      stdout'[k].body \in {"Item", "Done", "Blank", "Garbage"}
      <4>1. CASE k \in 1..Len(stdout) BY <3>3, <4>1 DEF StreamInv, FrameInv
      <4>2. CASE k = Len(stdout) + 1 BY <3>1, <3>3, <3>4, <3>5, <4>2
      <4> QED BY <3>3, <4>1, <4>2
    <3>7. \A j \in Ids : received'[j] > 0 => pc[j] \notin Early
      BY <1>4, <2>3, <3>1 DEF Respond, StreamInv, FrameInv
    <3>8. queue' = queue BY <2>3 DEF Respond, hostVars
    <3> QED BY <1>1, <3>6, <3>7, <3>8 DEF StreamInv, FrameInv
  <2> QED BY <2>1, <2>2, <2>3
<1> QED BY <1>2, <1>3, <1>5 DEF StreamInv

(* An event added to a channel that is still fed: the reader's only way to *)
(* write into one.                                                         *)
LEMMA SendStreams ==
  ASSUME BaseInv, StreamInv, NEW i \in Streams, NEW event \in {"Item"} \cup Terminal,
         Fed(i), chan' = Sent(i, event), pc' = pc, kind' = kind, startup' = startup
  PROVE  /\ TerminalIsLast'
         /\ \A j \in Streams \ {i} : chan'[j] = chan[j]
         /\ event \in Terminal /\ pc[i] \notin Returned => EndsInTerminal(i)'
         /\ event \notin Terminal => \A k \in 1..Len(chan'[i]) : chan'[i][k] \notin Terminal
<1>1. chan \in [Ids -> Seq({"Item"} \cup Terminal)] /\ Streams \subseteq Ids
  BY DEF BaseInv, TypeOK, Ids
<1>2. \A k \in 1..Len(chan[i]) : chan[i][k] \notin Terminal BY DEF StreamInv, ChatInv
<1>3. \A j \in Streams \ {i} : chan'[j] = chan[j] BY <1>1 DEF Sent
<1>4. CASE pc[i] \in Returned
  <2>1. chan'[i] = chan[i] BY <1>1, <1>4 DEF Sent
  <2>2. \A j \in Streams : chan'[j] = chan[j] BY <1>3, <2>1
  <2> QED BY <1>2, <1>4, <2>1, <2>2 DEF StreamInv, TerminalIsLast
<1>5. CASE pc[i] \notin Returned
  <2>1. chan'[i] = Append(chan[i], event) BY <1>1, <1>5 DEF Sent
  <2>2. /\ Len(chan'[i]) = Len(chan[i]) + 1 /\ Len(chan[i]) \in Nat
        /\ \A k \in 1..Len(chan[i]) : chan'[i][k] = chan[i][k]
        /\ chan'[i][Len(chan[i]) + 1] = event /\ chan'[i] # <<>>
    BY <1>1, <2>1, AppendFacts, SMTT(30)
  <2>3. \A k \in 1..Len(chan'[i]) : k # Len(chan'[i]) => chan'[i][k] \notin Terminal
    BY <1>2, <2>2
  <2>4. \A j \in Streams : \A k \in 1..Len(chan'[j]) : chan'[j][k] \in Terminal => k = Len(chan'[j])
    BY <1>3, <2>3 DEF StreamInv, TerminalIsLast
  <2>5. event \in Terminal => EndsInTerminal(i)' BY <2>2 DEF EndsInTerminal
  <2>6. event \notin Terminal => \A k \in 1..Len(chan'[i]) : chan'[i][k] \notin Terminal
    BY <2>2, <2>3
  <2> QED BY <1>3, <2>4, <2>5, <2>6 DEF TerminalIsLast
<1> QED BY <1>4, <1>5

(* The reader task, frame by frame and at its end.                         *)
LEMMA ReaderStreams ==
  ASSUME BaseInv, StreamInv, Reader
  PROVE  StreamInv'
<1>0. /\ pc \in [Ids -> {"idle", "inserted", "checked", "waiting", "streaming"} \cup Returned]
      /\ stdout \in Seq(Frame) /\ Streams \subseteq Ids /\ routes \subseteq Ids
  BY DEF BaseInv, TypeOK, Ids
<1>1. CASE ReadFrame
  <2>0. PICK i, body : i = Head(stdout).id /\ body = Head(stdout).body OBVIOUS
  <2>1. /\ stdout # <<>> /\ stdout' = Tail(stdout) /\ reader = "reading" /\ body # "Garbage"
        /\ UNCHANGED <<kind, startup, health, pc, queue, writer, reader, toFail, plugin, received>>
        /\ routes' = IF body = "Item" THEN routes ELSE routes \ {i}
        /\ cut' = IF body = "Blank" THEN cut \cup ({i} \cap routes \cap Streams) ELSE cut
        /\ \/ (i \notin routes \/ body = "Blank") /\ chan' = chan
           \/ i \in routes /\ body \in {"Answer", "Refusal"} /\ chan' = chan
           \/ i \in routes /\ body \in {"Item", "Done"} /\ chan' = Sent(i, body)
    BY <1>1, <2>0 DEF ReadFrame, KeepsRoute
  <2>2. /\ Head(stdout) = stdout[1] /\ 1 \in 1..Len(stdout) /\ Len(stdout) \in Nat \ {0}
        /\ Len(stdout') = Len(stdout) - 1
        /\ \A k \in 1..(Len(stdout) - 1) : stdout'[k] = stdout[k + 1]
    BY <1>0, <2>1, TailFacts
  <2>3. /\ i \in Ids /\ pc[i] \notin Early
        /\ kind = "provider" /\ i \in Streams => body \in {"Item", "Done", "Blank"}
    BY <1>0, <2>0, <2>1, <2>2, FrameIds DEF StreamInv, FrameInv
  <2>4. FrameInv'
    <3>1. \A k \in 1..(Len(stdout) - 1) : k + 1 \in 1..Len(stdout) BY <2>2
    <3>2. \A k \in 1..Len(stdout') :
            /\ pc[stdout'[k].id] \notin Early
            /\ kind = "provider" /\ stdout'[k].id \in Streams =>
                 stdout'[k].body \in {"Item", "Done", "Blank", "Garbage"}
      BY <2>2, <3>1 DEF StreamInv, FrameInv
    <3> QED BY <2>1, <3>2 DEF StreamInv, FrameInv
  <2>5. toFail = {} /\ (\A j \in Streams : Fed(j) <=> j \in routes) /\ (\A j \in Streams : Fed(j)' <=> j \in routes')
    BY <2>1 DEF StreamInv, ChatInv, Fed
  <2>6. \A j \in Streams : pc[j] # "idle" => kind = "provider" /\ startup = "ready"
    BY DEF StreamInv, ChatInv
  <2>7. i \in Streams => body \in {"Item", "Done", "Blank"}
    BY <2>3, <2>6 DEF Early
  <2>8. CASE chan' = chan /\ (i \notin routes \/ body \in {"Blank", "Answer", "Refusal"})
    <3>1. TerminalIsLast' BY <2>8 DEF StreamInv, TerminalIsLast
    <3>2. ASSUME NEW j \in Streams
          PROVE  /\ pc[j] = "inserted" => j \in routes'
                 /\ pc[j] \in {"checked", "streaming"} => Fed(j)' \/ EndsInTerminal(j)' \/ j \in cut'
                 /\ Fed(j)' => \A k \in 1..Len(chan'[j]) : chan'[j][k] \notin Terminal
                 /\ pc[j] = "closed" => j \in cut'
      <4>1. EndsInTerminal(j)' <=> EndsInTerminal(j) BY <2>8 DEF EndsInTerminal
      <4>2. cut \subseteq cut' /\ routes' \subseteq routes BY <2>1
      <4>3. CASE j \in routes /\ j \notin routes'
        <5>1. j = i /\ body = "Blank" BY <2>1, <2>7, <2>8, <4>3
        <5>2. j \in cut' BY <2>1, <4>3, <5>1
        <5> QED BY <2>3, <2>5, <4>3, <5>1, <5>2 DEF Early
      <4>4. CASE j \in routes <=> j \in routes'
        <5>1. Fed(j)' <=> Fed(j) BY <2>5, <4>4
        <5> QED BY <2>1, <2>8, <4>1, <4>2, <4>4, <5>1 DEF StreamInv, ChatInv
      <4> QED BY <4>2, <4>3, <4>4
    <3> QED BY <2>1, <2>4, <2>5, <2>6, <3>1, <3>2 DEF StreamInv, ChatInv
  <2>9. CASE i \in routes /\ body \in {"Item", "Done"} /\ chan' = Sent(i, body)
    <3>1. CASE i \notin Streams
      <4>1. \A j \in Streams : chan'[j] = chan[j]
        <5>1. chan \in [Ids -> Seq({"Item"} \cup Terminal)] BY DEF BaseInv, TypeOK
        <5> QED BY <1>0, <2>3, <2>9, <3>1, <5>1 DEF Sent
      <4>2. \A j \in Streams : (j \in routes' <=> j \in routes) /\ (EndsInTerminal(j)' <=> EndsInTerminal(j))
        BY <2>1, <3>1, <4>1 DEF EndsInTerminal
      <4>3. cut' = cut BY <2>1, <2>9
      <4>4. TerminalIsLast' BY <4>1 DEF StreamInv, TerminalIsLast
      <4>5. \A j \in Streams : Fed(j)' <=> Fed(j) BY <2>5, <4>2
      <4> QED BY <2>1, <2>4, <4>1, <4>2, <4>3, <4>4, <4>5 DEF StreamInv, ChatInv
    <3>2. CASE i \in Streams
      <4>1. /\ TerminalIsLast'
            /\ \A j \in Streams \ {i} : chan'[j] = chan[j]
            /\ body = "Done" /\ pc[i] \notin Returned => EndsInTerminal(i)'
            /\ body = "Item" => \A k \in 1..Len(chan'[i]) : chan'[i][k] \notin Terminal
        BY <2>1, <2>5, <2>9, <3>2, SendStreams DEF Terminal
      <4>2. cut' = cut BY <2>1, <2>9
      <4>3. ASSUME NEW j \in Streams
            PROVE  /\ pc[j] = "inserted" => j \in routes'
                   /\ pc[j] \in {"checked", "streaming"} => Fed(j)' \/ EndsInTerminal(j)' \/ j \in cut'
                   /\ Fed(j)' => \A k \in 1..Len(chan'[j]) : chan'[j][k] \notin Terminal
                   /\ pc[j] = "closed" => j \in cut'
        <5>1. CASE j # i
          <6>1. /\ j \in routes' <=> j \in routes
                /\ chan'[j] = chan[j]
            BY <2>1, <4>1, <5>1
          <6>2. EndsInTerminal(j)' <=> EndsInTerminal(j) BY <6>1 DEF EndsInTerminal
          <6> QED BY <2>1, <2>5, <4>2, <6>1, <6>2 DEF StreamInv, ChatInv
        <5>2. CASE j = i /\ body = "Item"
          BY <2>1, <2>3, <2>5, <2>9, <4>1, <4>2, <5>2 DEF StreamInv, ChatInv
        <5>3. CASE j = i /\ body = "Done"
          BY <2>1, <2>3, <2>5, <2>9, <4>1, <4>2, <5>3 DEF StreamInv, ChatInv, Early, Returned
        <5> QED BY <2>9, <5>1, <5>2, <5>3
      <4> QED BY <2>1, <2>4, <2>5, <2>6, <4>1, <4>3 DEF StreamInv, ChatInv
    <3> QED BY <3>1, <3>2
  <2> QED BY <2>1, <2>8, <2>9
<1> SUFFICES ASSUME ~ReadFrame PROVE StreamInv'
  BY <1>1
<1>2. CASE EndOfFile
  BY <1>2 DEF EndOfFile, callerVars, pluginVars, StreamInv, FrameInv, ChatInv, TerminalIsLast, Fed,
     EndsInTerminal
<1>3. CASE Collect
  BY <1>3 DEF Collect, callerVars, pluginVars, StreamInv, FrameInv, ChatInv, TerminalIsLast, Fed,
     EndsInTerminal
<1>4. CASE Clear
  BY <1>4 DEF Clear, callerVars, pluginVars, StreamInv, FrameInv, ChatInv, TerminalIsLast, Fed,
     EndsInTerminal
<1>5. ASSUME NEW i \in Streams, FailStream(i) PROVE StreamInv'
  <2>1. /\ UNCHANGED <<kind, startup, health, routes, pc, queue, reader, cut, received, stdout>>
        /\ reader = "failing" /\ i \in toFail /\ toFail' = toFail \ {i} /\ chan' = Sent(i, "Error")
    BY <1>5 DEF FailStream, pluginVars
  <2>2. /\ TerminalIsLast'
        /\ \A j \in Streams \ {i} : chan'[j] = chan[j]
        /\ pc[i] \notin Returned => EndsInTerminal(i)'
    BY <2>1, SendStreams DEF Terminal, Fed
  <2>3. FrameInv' BY <2>1 DEF StreamInv, FrameInv
  <2>4. ASSUME NEW j \in Streams
        PROVE  /\ pc[j] \in {"checked", "streaming"} => Fed(j)' \/ EndsInTerminal(j)' \/ j \in cut
               /\ Fed(j)' => \A k \in 1..Len(chan'[j]) : chan'[j][k] \notin Terminal
    <3>1. CASE j = i BY <2>1, <2>2, <3>1 DEF Fed, Returned
    <3>2. CASE j # i
      <4>1. EndsInTerminal(j)' <=> EndsInTerminal(j) BY <2>2, <3>2 DEF EndsInTerminal
      <4>2. Fed(j)' <=> Fed(j) BY <2>1, <3>2 DEF Fed
      <4> QED BY <2>2, <3>2, <4>1, <4>2 DEF StreamInv, ChatInv
    <3> QED BY <3>1, <3>2
  <2> QED BY <2>1, <2>2, <2>3, <2>4 DEF StreamInv, ChatInv
<1> QED BY <1>2, <1>3, <1>4, <1>5 DEF Reader

(* The chats of a connection, in every reachable state.                    *)
THEOREM StreamInvariance == Spec => [](BaseInv /\ StreamInv)
<1>1. Init => StreamInv
  BY DEF Init, StreamInv, FrameInv, ChatInv, TerminalIsLast, Fed, EndsInTerminal, Ids, Early
<1>2. BaseInv /\ StreamInv /\ UNCHANGED vars => StreamInv'
  BY DEF StreamInv, FrameInv, ChatInv, TerminalIsLast, Fed, EndsInTerminal, vars
<1>3. BaseInv /\ StreamInv /\ [Next]_vars => StreamInv'
  BY <1>2, CallerStreams, PluginStreams, ReaderStreams DEF Next
<1> QED BY <1>1, <1>3, BaseInvariance, PTL DEF Spec

(* No chat ends without Done or Error unless a frame without payload took  *)
(* its route away.                                                         *)
THEOREM StreamsLoud == Spec => []StreamsEndLoudly
<1>1. StreamInv => StreamsEndLoudly BY DEF StreamInv, ChatInv, StreamsEndLoudly
<1> QED BY <1>1, StreamInvariance, PTL

(* Nothing follows the end of a chat.                                      *)
THEOREM TerminalLast == Spec => []TerminalIsLast
<1>1. StreamInv => TerminalIsLast BY DEF StreamInv
<1> QED BY <1>1, StreamInvariance, PTL
=============================================================================
