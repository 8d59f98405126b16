-------------------------- MODULE PluginConnection --------------------------
(***************************************************************************)
(* The core's end of a plugin: ProviderPlugin (core/src/provider/          *)
(* connection.rs) and ExtensionPlugin (core/src/extension/connection.rs).  *)
(* A provider is asked for init_backends after the handshake and before it *)
(* is used, an extension is not; and only providers stream.                *)
(*                                                                         *)
(* Three kinds of task share the map of routes and the health byte: the    *)
(* callers, the writer task that empties the request channel into stdin,   *)
(* and the reader task that routes the frames of stdout until its end.     *)
(* An action is what one of them does between two points at which another  *)
(* may see the shared state.  The plugin itself may answer in any order,   *)
(* not at all, or die at any time; what it has written is still read.  It  *)
(* is assumed to read its stdin while it lives.                            *)
(***************************************************************************)
EXTENDS Naturals, Sequences

CONSTANTS
    Unary,          \* requests with one answer
    Streams,        \* chats
    Kinds,          \* "provider", "extension" or both
    QueueCapacity,  \* PROVIDER_REQUEST_CHANNEL_CAPACITY
    ChatCapacity,   \* PROVIDER_CHAT_CHANNEL_CAPACITY
    PipeCapacity,   \* bound: frames in stdout
    MaxItems        \* bound: events of an answer before its last

ASSUME ConnectionAssumption ==
    /\ "handshake" \notin Unary \cup Streams /\ "init" \notin Unary \cup Streams
    /\ Unary \cap Streams = {}
    /\ Kinds \subseteq {"provider", "extension"}
    /\ {QueueCapacity, ChatCapacity, PipeCapacity, MaxItems} \subseteq Nat \ {0}

\* A request is named by its event_id, which next_event_id never repeats.
Ids == {"handshake", "init"} \cup Unary \cup Streams

VARIABLES
    kind,       \* what the plugin is; never changes
    startup,    \* how far init_provider_plugin / init_extension_plugin is
    health,     \* health_status
    routes,     \* pending: who still has a sender in the map
    pc,         \* where each caller is
    reply,      \* the oneshot of a unary request
    chan,       \* the channel of a chat, a sequence of events
    queue,      \* the channel to the writer task
    writer,     \* the writer task: "up" or "stopped"
    reader,     \* the reader task: "reading", and the steps after its end
    toFail,     \* the streams the reader still has to tell of the end
    plugin,     \* the process
    received,   \* the requests it works on, with the events it has sent for them
    stdout,     \* frames it has written and nobody has read
    cut         \* history: the chats whose route went with a frame without payload

callerVars == <<pc, reply, chan>>
hostVars == <<kind, startup, health, routes, queue, writer, reader, toFail, cut>>
pluginVars == <<plugin, received, stdout>>
vars == <<kind, startup, health, routes, pc, reply, chan, queue, writer, reader, toFail,
          plugin, received, stdout, cut>>

Terminal == {"Done", "Error"}
Returned == {"ok", "disconnected", "timeout", "ended", "closed", "gone"}
(* What a frame carries.  Refusal: an error, or the wrong version; Done:    *)
(* the end of a chat by the plugin, Done or Error; Blank: no payload;       *)
(* Garbage: bytes that are no frame.                                       *)
Frame == [id : Ids, body : {"Answer", "Refusal", "Item", "Done", "Blank", "Garbage"}]

(* The types of the variables.                                             *)
TypeOK ==
    /\ kind \in Kinds
    /\ startup \in {"handshake", "init", "ready", "failed"}
    /\ health \in {"Starting", "Running", "Unhealthy"}
    /\ routes \subseteq Ids
    /\ pc \in [Ids -> {"idle", "inserted", "checked", "waiting", "streaming"} \cup Returned]
    /\ reply \in [Ids -> {"none", "Answer", "Refusal"}]
    /\ chan \in [Ids -> Seq({"Item"} \cup Terminal)]
    /\ queue \in Seq(Ids) /\ Len(queue) <= QueueCapacity
    /\ writer \in {"up", "stopped"}
    /\ reader \in {"reading", "marked", "failing", "ended"}
    /\ toFail \subseteq Streams
    /\ plugin \in {"up", "dead"}
    /\ received \in [Ids -> 0..(MaxItems + 1)]
    /\ stdout \in Seq(Frame)
    /\ cut \subseteq Streams

Init ==
    /\ kind \in Kinds
    /\ startup = "handshake" /\ health = "Starting"
    /\ routes = {} /\ pc = [i \in Ids |-> "idle"]
    /\ reply = [i \in Ids |-> "none"] /\ chan = [i \in Ids |-> <<>>]
    /\ queue = <<>> /\ writer = "up" /\ reader = "reading" /\ toFail = {}
    /\ plugin = "up" /\ received = [i \in Ids |-> 0] /\ stdout = <<>>
    /\ cut = {}

-----------------------------------------------------------------------------
(* The callers: request_with_timeout and chat.                             *)

Goes(i, where) == pc' = [pc EXCEPT ![i] = where]

(* What is asked when: a plugin is in the controller's map, and used, once *)
(* its startup has succeeded.                                              *)
MayBegin(i) ==
    IF i \in {"handshake", "init"} THEN startup = i
    ELSE startup = "ready" /\ (i \in Streams => kind = "provider")

Begin(i) ==
    /\ pc[i] = "idle" /\ MayBegin(i)
    /\ routes' = routes \cup {i}
    /\ Goes(i, "inserted")
    /\ UNCHANGED <<kind, cut, startup, health, reply, chan, queue, writer, reader, toFail, pluginVars>>

(* A startup request that fails ends the startup.                          *)
Fails(i, how) ==
    /\ Goes(i, how)
    /\ startup' = IF i \in {"handshake", "init"} THEN "failed" ELSE startup

\* Fault: the guard is missing.
CheckHealthAlways(i) ==
    /\ pc[i] = "inserted"
    /\ Goes(i, "checked")
    /\ UNCHANGED <<kind, cut, startup, health, routes, reply, chan, queue, writer, reader, toFail, pluginVars>>

(* "Defensive guard on child process killed".                              *)
CheckHealth(i) ==
    /\ pc[i] = "inserted"
    /\ IF health = "Unhealthy"
       THEN Fails(i, "disconnected") /\ routes' = routes \ {i}
       ELSE Goes(i, "checked") /\ UNCHANGED <<startup, routes>>
    /\ UNCHANGED <<kind, cut, health, reply, chan, queue, writer, reader, toFail, pluginVars>>

\* Fault: the channel is unbounded.
HasRoomAlways == TRUE

HasRoom == Len(queue) < QueueCapacity

(* writer.send: waits for room, and fails once the writer task is gone.    *)
Enqueue(i) ==
    /\ pc[i] = "checked"
    /\ \/ /\ writer = "stopped"
          /\ Fails(i, "disconnected")
          /\ routes' = routes \ {i}
          /\ UNCHANGED queue
       \/ /\ writer = "up" /\ HasRoom
          /\ queue' = Append(queue, i)
          /\ Goes(i, IF i \in Streams THEN "streaming" ELSE "waiting")
          /\ UNCHANGED <<startup, routes>>
    /\ UNCHANGED <<kind, cut, health, reply, chan, writer, reader, toFail, pluginVars>>

(* The answer is there.  The handshake stores Running, whatever was there, *)
(* unless it is refused; a refusal ends the startup.                       *)
Take(i) ==
    /\ pc[i] = "waiting" /\ reply[i] # "none"
    /\ Goes(i, "ok")
    /\ startup' = CASE i \notin {"handshake", "init"} -> startup
                    [] i \in {"handshake", "init"} /\ reply[i] = "Refusal" -> "failed"
                    [] i = "handshake" /\ reply[i] = "Answer" /\ kind = "provider" -> "init"
                    [] OTHER -> "ready"
    /\ health' = IF i = "handshake" /\ reply[i] = "Answer" THEN "Running" ELSE health
    /\ UNCHANGED <<kind, cut, routes, reply, chan, queue, writer, reader, toFail, pluginVars>>

(* The sender was dropped with the route.                                  *)
Disconnect(i) ==
    /\ pc[i] = "waiting" /\ reply[i] = "none" /\ i \notin routes
    /\ Fails(i, "disconnected")
    /\ UNCHANGED <<kind, cut, health, routes, reply, chan, queue, writer, reader, toFail, pluginVars>>

\* Fault: only the caller gives up waiting, by looking for the route.
TimeoutNever(i) ==
    /\ pc[i] = "waiting" /\ reply[i] = "none" /\ i \notin routes
    /\ Fails(i, "timeout")
    /\ UNCHANGED <<kind, cut, health, routes, reply, chan, queue, writer, reader, toFail, pluginVars>>

Timeout(i) ==
    /\ pc[i] = "waiting" /\ reply[i] = "none"
    /\ Fails(i, "timeout")
    /\ routes' = routes \ {i}
    /\ UNCHANGED <<kind, cut, health, reply, chan, queue, writer, reader, toFail, pluginVars>>

(* The consumer of a chat stops at its terminal event.                     *)
Consume(i) ==
    /\ pc[i] = "streaming" /\ chan[i] # <<>>
    /\ chan' = [chan EXCEPT ![i] = Tail(@)]
    /\ Goes(i, IF Head(chan[i]) \in Terminal THEN "ended" ELSE "streaming")
    /\ UNCHANGED <<hostVars, reply, pluginVars>>

(* No sender is left: the stream is over without a terminal event.         *)
Close(i) ==
    /\ pc[i] = "streaming" /\ chan[i] = <<>> /\ i \notin routes \cup toFail
    /\ Goes(i, "closed")
    /\ UNCHANGED <<hostVars, reply, chan, pluginVars>>

(* The caller's task is aborted while it waits; its route stays.           *)
Leave(i) ==
    /\ i \in Unary \cup Streams
    /\ pc[i] \in {"checked", "waiting", "streaming"}
    /\ Goes(i, "gone")
    /\ UNCHANGED <<hostVars, reply, chan, pluginVars>>

-----------------------------------------------------------------------------
(* The writer task.  A write to a process that is gone fails.              *)
Write ==
    /\ writer = "up" /\ queue # <<>>
    /\ IF plugin = "up"
       THEN /\ queue' = Tail(queue)
            /\ received' = [received EXCEPT ![Head(queue)] = 1]
            /\ UNCHANGED <<writer, health>>
       ELSE /\ queue' = <<>> /\ writer' = "stopped" /\ health' = "Unhealthy"
            /\ UNCHANGED received
    /\ UNCHANGED <<kind, cut, startup, routes, callerVars, reader, toFail, plugin, stdout>>

-----------------------------------------------------------------------------
(* The reader task.                                                        *)

\* send on a chat's channel waits for room; a consumer that has gone needs none
CanSend(i) == Len(chan[i]) < ChatCapacity \/ pc[i] \in Returned
Sent(i, event) == [chan EXCEPT ![i] = IF pc[i] \in Returned THEN @ ELSE Append(@, event)]

\* Fault: Done is taken for one event among others.
KeepsRouteOfChats(body) == body \in {"Item", "Done"}

KeepsRoute(body) == body = "Item"

(* handle_response: an answer is handed to the route and takes it away; a  *)
(* chat keeps its route up to Done.  A frame without a route is dropped,   *)
(* and one without a payload takes the route away.                         *)
ReadFrame ==
    /\ reader = "reading" /\ stdout # <<>> /\ Head(stdout).body # "Garbage"
    /\ LET i == Head(stdout).id
           body == Head(stdout).body
       IN  /\ stdout' = Tail(stdout)
           /\ routes' = IF KeepsRoute(body) THEN routes ELSE routes \ {i}
           /\ cut' = IF body = "Blank" THEN cut \cup ({i} \cap routes \cap Streams) ELSE cut
           /\ \/ /\ i \notin routes \/ body = "Blank"
                 /\ UNCHANGED <<reply, chan>>
              \/ /\ i \in routes /\ body \in {"Answer", "Refusal"}
                 /\ reply' = [reply EXCEPT ![i] = body]
                 /\ UNCHANGED chan
              \/ /\ i \in routes /\ body \in {"Item", "Done"} /\ CanSend(i)
                 /\ chan' = Sent(i, body)
                 /\ UNCHANGED reply
    /\ UNCHANGED <<kind, startup, health, pc, queue, writer, reader, toFail, plugin, received>>

(* The end of stdout, or what cannot be split into frames; then, in the    *)
(* order of the code: the health, the streams that are registered, their   *)
(* error, the map.                                                         *)
EndOfFile ==
    /\ reader = "reading"
    /\ \/ stdout = <<>> /\ plugin = "dead"
       \/ stdout # <<>> /\ Head(stdout).body = "Garbage"
    /\ health' = "Unhealthy"
    /\ reader' = "marked"
    /\ UNCHANGED <<kind, cut, startup, routes, callerVars, queue, writer, toFail, pluginVars>>

\* Fault: the streams are left to the drop of the map.
CollectNone ==
    /\ reader = "marked"
    /\ toFail' = {}
    /\ reader' = "failing"
    /\ UNCHANGED <<kind, cut, startup, health, routes, callerVars, queue, writer, pluginVars>>

Collect ==
    /\ reader = "marked"
    /\ toFail' = routes \cap Streams
    /\ reader' = "failing"
    /\ UNCHANGED <<kind, cut, startup, health, routes, callerVars, queue, writer, pluginVars>>

FailStream(i) ==
    /\ reader = "failing" /\ i \in toFail /\ CanSend(i)
    /\ chan' = Sent(i, "Error")
    /\ toFail' = toFail \ {i}
    /\ UNCHANGED <<kind, cut, startup, health, routes, pc, reply, queue, writer, reader, pluginVars>>

\* Fault: only the streams are taken out of the map.
ClearStreams ==
    /\ reader = "failing" /\ toFail = {}
    /\ routes' = routes \ Streams
    /\ reader' = "ended"
    /\ UNCHANGED <<kind, cut, startup, health, callerVars, queue, writer, toFail, pluginVars>>

Clear ==
    /\ reader = "failing" /\ toFail = {}
    /\ routes' = {}
    /\ reader' = "ended"
    /\ UNCHANGED <<kind, cut, startup, health, callerVars, queue, writer, toFail, pluginVars>>

Reader == ReadFrame \/ EndOfFile \/ Collect \/ Clear \/ \E i \in Streams : FailStream(i)

-----------------------------------------------------------------------------
(* The plugin, as the connection sees it.                                  *)

Bodies(i) ==
    (IF i \in Streams THEN (IF received[i] <= MaxItems THEN {"Item"} ELSE {}) \cup {"Done"}
     ELSE IF i \in Unary THEN {"Answer"} ELSE {"Answer", "Refusal"})
    \cup {"Blank", "Garbage"}

\* What is written after garbage is never read.
Understood == reader = "reading" /\ \A k \in DOMAIN stdout : stdout[k].body # "Garbage"

Respond(i, body) ==
    /\ plugin = "up" /\ received[i] > 0 /\ Len(stdout) < PipeCapacity /\ Understood
    /\ body \in Bodies(i)
    /\ stdout' = Append(stdout, [id |-> i, body |-> body])
    /\ received' = [received EXCEPT ![i] = IF body = "Item" THEN @ + 1 ELSE 0]
    /\ UNCHANGED <<hostVars, callerVars, plugin>>

(* It crashes, or is killed by shutdown or with a startup that failed.     *)
Die ==
    /\ plugin = "up"
    /\ plugin' = "dead"
    /\ received' = [i \in Ids |-> 0]
    /\ UNCHANGED <<hostVars, callerVars, stdout>>

CallerStep(i) == CheckHealth(i) \/ Enqueue(i) \/ Take(i) \/ Disconnect(i) \/ Consume(i) \/ Close(i)

Next ==
    \/ \E i \in Ids : Begin(i) \/ CallerStep(i) \/ Timeout(i) \/ Leave(i)
    \/ Write
    \/ Reader
    \/ \E i \in Ids : \E body \in Bodies(i) : Respond(i, body)
    \/ Die

(* The runtime polls callers, writer and reader.                           *)
Scheduled ==
    /\ \A i \in Ids : WF_vars(CallerStep(i))
    /\ WF_vars(Write) /\ WF_vars(Reader)

Spec == Init /\ [][Next]_vars
ScheduledSpec == Spec /\ Scheduled
-----------------------------------------------------------------------------
(* When the reader task of a provider that is in use has ended, nobody is  *)
(* left in the map who counts on it: a route that is still there is that   *)
(* of a caller who is about to see that the plugin is unhealthy.           *)
NoOrphanRoutes ==
    kind = "provider" /\ startup = "ready" /\ reader = "ended" =>
        health = "Unhealthy" /\ \A i \in routes : pc[i] = "inserted"

(* A chat stream does not end without Done or Error, whenever the plugin   *)
(* dies: "populate the error to ongoing streams".  The one exception is a  *)
(* chat that was answered with a frame without payload.                    *)
StreamsEndLoudly == \A i \in Streams : pc[i] = "closed" => i \in cut

(* Nothing follows the terminal event of a chat: the error of a dead       *)
(* plugin does not come after the answer's own end.                        *)
TerminalIsLast ==
    \A i \in Streams : \A k \in 1..Len(chan[i]) : chan[i][k] \in Terminal => k = Len(chan[i])

(* Once a provider is dead, or cannot be understood any more, everyone who *)
(* uses it returns, without waiting for a timeout.                         *)
DeathReleasesCallers ==
    \A i \in Unary \cup Streams :
        /\ kind = "provider" /\ (plugin = "dead" \/ reader # "reading")
        /\ pc[i] \notin {"idle"} \cup Returned
        ~> pc[i] \in Returned

(* Every unary request returns if time passes, whatever the plugin answers *)
(* or fails to answer.                                                     *)
RequestsReturn ==
    (\A i \in Ids : WF_vars(Timeout(i))) =>
    \A i \in Ids \ Streams : pc[i] = "inserted" ~> pc[i] \in Returned

(* extension/connection.rs, request: "Defensive guard on child process     *)
(* killed".  The guard stops every request that begins after the reader    *)
(* task has seen the end of the plugin.                                    *)
GuardCatchesDeath ==
    [][\A i \in Ids : pc[i] = "inserted" /\ pc'[i] = "checked" => reader # "ended"]_vars
=============================================================================
