---------------------------- MODULE ConnectFlow -----------------------------
(***************************************************************************)
(* The three ways of connecting an account, each while the user works in a *)
(* browser: the device code of Codex, polled for; the authorization        *)
(* response of Claude Code, pasted by the user; and the local callback of  *)
(* an MCP server.  A behaviour is about one of them.  Time is counted in   *)
(* ticks and passes only while the flow waits.                             *)
(***************************************************************************)
EXTENDS Integers, SequencesExt, FiniteSetsExt

CONSTANTS
    DeviceAuthTimeout,  \* DEVICE_AUTH_TIMEOUT
    ServerWindows,      \* what the server may leave of its window
    PollInterval,       \* the suggested interval plus POLL_SAFETY_MARGIN
    CallbackTimeout,    \* CALLBACK_TIMEOUT
    ReadTimeout,        \* READ_TIMEOUT
    Connections,        \* what may connect to the callback port
    MaxConnections,     \* bound: connections
    MaxFlows,           \* bound: Claude Code flows begun
    Finalizers          \* finalize tasks of the plugin

ASSUME FlowAssumption ==
    /\ {DeviceAuthTimeout, PollInterval, CallbackTimeout, ReadTimeout} \subseteq Nat \ {0}
    /\ ServerWindows \subseteq Nat
    /\ MaxFlows \in Nat
    /\ Connections \subseteq {"idle", "stray", "unreadable", "denied", "stateless", "callback"}

VARIABLES
    flowPc,        \* "off", "pasting", or where the polling or listening flow is
    elapsed,       \* ticks since the flow began to wait
    slept,         \* ticks of the current sleep or read
    window,        \* device: what the server leaves
    approvedAt,    \* when the user approved the flow, -1 before
    outcome,       \* "none", "token", "timeout", "failed", "unreachable"
    backlog,       \* callback: the connections not yet accepted
    connected,     \* callback: connections so far
    idleAhead,     \* ghost: the idle connections the callback waits for
    pending,       \* Claude Code: the flow whose verifier is kept, 0 for none
    newest,        \* Claude Code: the flow begun last
    finalizing,    \* finalizer -> the response it exchanges and its verifier
    succeeded      \* ghost: a finalize succeeded since the newest flow began

deviceVars == <<window>>
callbackVars == <<backlog, connected, idleAhead>>
pastingVars == <<pending, newest, finalizing, succeeded>>
flowVars == <<flowPc, elapsed, slept, approvedAt, outcome, deviceVars, callbackVars, pastingVars>>

NotFinalizing == [code |-> 0, state |-> 0, verifier |-> 0]

FlowRest(where) ==
    /\ flowPc = where /\ elapsed = 0 /\ slept = 0 /\ approvedAt = -1 /\ outcome = "none"
    /\ backlog = <<>> /\ connected = 0 /\ idleAhead = 0
    /\ pending = 0 /\ newest = 0 /\ succeeded = FALSE
    /\ finalizing = [f \in Finalizers |-> NotFinalizing]

FlowInit == \E where \in {"check", "accept", "pasting"} :
                FlowRest(where) /\ window \in ServerWindows

End(result) == flowPc' = "over" /\ outcome' = result
-----------------------------------------------------------------------------
(* Codex.                                                                  *)

Polling == flowPc \in {"check", "sleep"}
DeviceTimeout == Min({window, DeviceAuthTimeout})

(* The user enters the code while the server's window is open.             *)
EnterCode ==
    /\ flowPc = "sleep" /\ approvedAt = -1 /\ elapsed <= window
    /\ approvedAt' = elapsed
    /\ UNCHANGED <<flowPc, elapsed, slept, outcome, deviceVars, callbackVars, pastingVars>>

PollCheck ==
    /\ flowPc = "check"
    /\ IF elapsed >= DeviceTimeout THEN End("timeout") ELSE flowPc' = "sleep" /\ UNCHANGED outcome
    /\ slept' = 0
    /\ UNCHANGED <<elapsed, approvedAt, deviceVars, callbackVars, pastingVars>>

PollSleep ==
    /\ flowPc = "sleep" /\ slept < PollInterval
    /\ slept' = slept + 1 /\ elapsed' = elapsed + 1
    /\ UNCHANGED <<flowPc, approvedAt, outcome, deviceVars, callbackVars, pastingVars>>

(* The server: past its window every poll fails, before it an approved     *)
(* flow succeeds and one that is not answers 403 or 404.                   *)
PollStatus ==
    IF elapsed > window THEN "error" ELSE IF approvedAt >= 0 THEN "success" ELSE "pending"

Poll ==
    /\ flowPc = "sleep" /\ slept = PollInterval
    /\ \/ PollStatus = "success" /\ flowPc' = "exchange" /\ UNCHANGED outcome
       \/ PollStatus = "pending" /\ flowPc' = "check" /\ UNCHANGED outcome
       \/ PollStatus = "error" /\ End("failed")
       \/ End("unreachable")
    /\ UNCHANGED <<elapsed, slept, approvedAt, deviceVars, callbackVars, pastingVars>>

(* The authorization code for a refresh token; shared by the callback.     *)
Exchange ==
    /\ flowPc = "exchange"
    /\ End("token") \/ End("unreachable")
    /\ UNCHANGED <<elapsed, slept, approvedAt, deviceVars, callbackVars, pastingVars>>
-----------------------------------------------------------------------------
(* An MCP server: wait_for_callback under CALLBACK_TIMEOUT.                *)

Listening == flowPc \in {"accept", "read"}
Idle(connections) == Cardinality({i \in DOMAIN connections : connections[i] = "idle"})

(* The port is bound before the URL is shown, so a connection waits in the *)
(* backlog at the latest.                                                  *)
OpenConnection(c) ==
    /\ Listening /\ connected < MaxConnections
    /\ backlog' = Append(backlog, c) /\ connected' = connected + 1
    /\ IF c = "callback" /\ approvedAt = -1
       THEN /\ approvedAt' = elapsed
            /\ idleAhead' = Idle(backlog) + (IF flowPc = "read" THEN 1 ELSE 0)
       ELSE UNCHANGED <<approvedAt, idleAhead>>
    /\ UNCHANGED <<flowPc, elapsed, slept, outcome, deviceVars, pastingVars>>

(* Accept and read: all but an idle connection say at once what they are.  *)
Accept ==
    /\ flowPc = "accept" /\ backlog # <<>>
    /\ backlog' = Tail(backlog) /\ slept' = 0
    /\ \/ Head(backlog) = "idle" /\ flowPc' = "read" /\ UNCHANGED outcome
       \/ Head(backlog) \in {"stray", "unreadable"} /\ UNCHANGED <<flowPc, outcome>>
       \/ Head(backlog) \in {"denied", "stateless"} /\ End("failed")
       \/ Head(backlog) = "callback" /\ flowPc' = "exchange" /\ UNCHANGED outcome
    /\ UNCHANGED <<elapsed, approvedAt, connected, idleAhead, deviceVars, pastingVars>>

ReadTimesOut ==
    /\ flowPc = "read" /\ slept = ReadTimeout
    /\ flowPc' = "accept"
    /\ UNCHANGED <<elapsed, slept, approvedAt, outcome, deviceVars, callbackVars, pastingVars>>

(* Time passes while nothing connects or an idle connection is read.       *)
ListenOn ==
    /\ elapsed < CallbackTimeout
    /\ \/ flowPc = "accept" /\ backlog = <<>> /\ UNCHANGED slept
       \/ flowPc = "read" /\ slept < ReadTimeout /\ slept' = slept + 1
    /\ elapsed' = elapsed + 1
    /\ UNCHANGED <<flowPc, approvedAt, outcome, deviceVars, callbackVars, pastingVars>>

CallbackTimesOut ==
    /\ Listening /\ elapsed = CallbackTimeout
    /\ End("timeout")
    /\ UNCHANGED <<elapsed, slept, approvedAt, deviceVars, callbackVars, pastingVars>>
-----------------------------------------------------------------------------
(* Claude Code.  Flow n has verifier n, which is also its state.           *)

InitConnection ==
    /\ flowPc = "pasting" /\ newest < MaxFlows
    /\ newest' = newest + 1 /\ pending' = newest + 1 /\ succeeded' = FALSE
    /\ UNCHANGED <<flowPc, elapsed, slept, approvedAt, outcome, deviceVars, callbackVars, finalizing>>

(* What the user pastes: a URL or code#state carry the state, a bare code  *)
(* none (0), and a response may be of an older flow or mistyped (-1).      *)
Responses == [code : (1..MaxFlows) \cup {-1}, state : 0..MaxFlows]
ParseAuthorizationResponse(r, verifier) ==
    [code |-> r.code, state |-> IF r.state = 0 THEN verifier ELSE r.state, verifier |-> verifier]

\* Fault: the verifier is taken, not copied.
FinalizeTakes(f, r) ==
    /\ flowPc = "pasting" /\ finalizing[f] = NotFinalizing
    /\ r.code <= newest /\ r.state \in {0, r.code}
    /\ pending # 0
    /\ finalizing' = [finalizing EXCEPT ![f] = ParseAuthorizationResponse(r, pending)]
    /\ pending' = 0
    /\ UNCHANGED <<flowPc, elapsed, slept, approvedAt, outcome, deviceVars, callbackVars,
                   newest, succeeded>>

(* finalize_connection up to the exchange; without a flow it is refused.   *)
Finalize(f, r) ==
    /\ flowPc = "pasting" /\ finalizing[f] = NotFinalizing
    /\ r.code <= newest /\ r.state \in {0, r.code}
    /\ pending # 0
    /\ finalizing' = [finalizing EXCEPT ![f] = ParseAuthorizationResponse(r, pending)]
    /\ UNCHANGED <<flowPc, elapsed, slept, approvedAt, outcome, deviceVars, callbackVars,
                   pending, newest, succeeded>>

(* The server exchanges a code for the verifier and the state of its flow. *)
FinalizeSucceeds(f) ==
    /\ finalizing[f] # NotFinalizing
    /\ finalizing[f].code = finalizing[f].verifier /\ finalizing[f].state = finalizing[f].verifier
    /\ finalizing' = [finalizing EXCEPT ![f] = NotFinalizing]
    /\ pending' = 0 /\ succeeded' = TRUE
    /\ UNCHANGED <<flowPc, elapsed, slept, approvedAt, outcome, deviceVars, callbackVars, newest>>

(* A refusal, a broken connection or a cancelled task.                     *)
FinalizeFails(f) ==
    /\ finalizing[f] # NotFinalizing
    /\ finalizing' = [finalizing EXCEPT ![f] = NotFinalizing]
    /\ UNCHANGED <<flowPc, elapsed, slept, approvedAt, outcome, deviceVars, callbackVars,
                   pending, newest, succeeded>>
-----------------------------------------------------------------------------
FlowNext ==
    \/ EnterCode \/ PollCheck \/ PollSleep \/ Poll \/ Exchange
    \/ \E c \in Connections : OpenConnection(c)
    \/ Accept \/ ReadTimesOut \/ ListenOn \/ CallbackTimesOut
    \/ InitConnection
    \/ \E f \in Finalizers :
          \/ \E r \in Responses : Finalize(f, r)
          \/ FinalizeSucceeds(f)
          \/ FinalizeFails(f)

FlowSpec == FlowInit /\ [][FlowNext]_flowVars
-----------------------------------------------------------------------------
(* An approval in time is noticed: a device flow does not end without its  *)
(* token when the user approved a poll interval before the deadline, nor a *)
(* callback flow when the callback came early enough for the idle          *)
(* connections before it to run out; and no flow outlives its limit by     *)
(* more than one poll.                                                     *)
ApprovalsAreNoticed ==
    /\ outcome \in {"timeout", "failed"} /\ approvedAt >= 0 /\ connected = 0 =>
          approvedAt + PollInterval > DeviceTimeout
    /\ outcome = "timeout" /\ approvedAt >= 0 /\ connected > 0 =>
          approvedAt + ReadTimeout * idleAhead >= CallbackTimeout
    /\ Polling => elapsed < DeviceTimeout + PollInterval
    /\ Listening => elapsed <= CallbackTimeout

(* A refused or mistyped response does not cost the user the flow: until a *)
(* finalize succeeds the verifier kept is that of the newest flow.         *)
RetriesStayOpen ==
    /\ pending \in {0, newest}
    /\ newest > 0 /\ ~succeeded => pending = newest

(* A login that the user completed in time is noticed, and one that was    *)
(* mistyped may be tried again (poll_for_device_token, wait_for_callback,  *)
(* finalize_connection).                                                   *)
LoginsSucceed == ApprovalsAreNoticed /\ RetriesStayOpen
=============================================================================
