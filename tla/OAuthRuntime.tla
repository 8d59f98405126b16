---------------------------- MODULE OAuthRuntime ----------------------------
(***************************************************************************)
(* A runtime with an OAuth credential: CodexRuntime (plugins/providers/    *)
(* openai) and ClaudeRuntime (plugins/providers/anthropic), which are      *)
(* alike.  The service rotates the refresh token at every exchange and     *)
(* takes only the newest, so three copies must keep step: the service's,   *)
(* the runtime's token_state and the row in the host's table, which the    *)
(* runtime updates by a message.                                           *)
(*                                                                         *)
(* Chats call refresh from tasks that a cancel may drop at any await; the  *)
(* fetch of the model list calls it from a task nobody drops.  A token is  *)
(* a number, the number of rotations before it.                            *)
(***************************************************************************)
EXTENDS Naturals

CONSTANTS
    OAuthCallers,   \* calls of refresh
    Droppable,      \* those of them made by chats, which a cancel drops
    MaxRotations,   \* bound: tokens the service hands out
    Nothing         \* no holder of the lock, no token_state

ASSUME OAuthAssumption == MaxRotations \in Nat /\ Nothing \notin OAuthCallers \cup 0..MaxRotations

VARIABLES
    power,      \* "off", "up": the plugin and its host run; "down": they do not
    service,    \* the refresh token the service takes
    held,       \* token_state: the refresh token the runtime holds
    fresh,      \* whether its access token is fresh
    authHealth,     \* status of the runtime: "Running", "Unhealthy"
    lock,       \* refresh_lock
    call,       \* how far each caller is
    mail,       \* AuthUpdateRequests on their way to the table
    stored,     \* backend_credentials.secret
    lost        \* history: how a rotated token was lost for the first time, or "no"

oauthVars == <<power, service, held, fresh, authHealth, lock, call, mail, stored, lost>>

OAuthTypeOK ==
    /\ power \in {"off", "up", "down"}
    /\ {service, stored} \subseteq 0..MaxRotations /\ mail \subseteq 0..MaxRotations
    /\ held \in (0..MaxRotations) \cup {Nothing} /\ fresh \in BOOLEAN /\ authHealth \in {"Running", "Unhealthy"}
    /\ lock \in OAuthCallers \cup {Nothing}
    /\ call \in [OAuthCallers -> {"idle", "locking", "asking", "rotated", "ok", "failed", "dropped"}]
    /\ lost \in {"no", "network", "claims", "crash", "cancel"}

OAuthRest(where) ==
    /\ power = where /\ service = 0 /\ held = 0 /\ stored = 0 /\ mail = {}
    /\ fresh = TRUE /\ authHealth = "Running" /\ lock = Nothing
    /\ call = [c \in OAuthCallers |-> "idle"] /\ lost = "no"

OAuthInit == OAuthRest("up")

Lost(how) == lost' = IF lost = "no" THEN how ELSE lost

-----------------------------------------------------------------------------
(* refresh.                                                                *)

(* An access token that is fresh is used as it is.                         *)
BeginRefresh(c) ==
    /\ power = "up" /\ call[c] = "idle"
    /\ call' = [call EXCEPT ![c] = IF fresh THEN "ok" ELSE "locking"]
    /\ UNCHANGED <<power, service, held, fresh, authHealth, lock, mail, stored, lost>>

\* Fault: the exchange is not serialized.
TakeLockNever(c) ==
    /\ power = "up" /\ call[c] = "locking"
    /\ call' = [call EXCEPT ![c] = IF fresh THEN "ok" ELSE "asking"]
    /\ UNCHANGED <<power, service, held, fresh, authHealth, lock, mail, stored, lost>>

(* Under the lock it looks again: the caller before may have refreshed.    *)
TakeLock(c) ==
    /\ power = "up" /\ call[c] = "locking" /\ lock = Nothing
    /\ call' = [call EXCEPT ![c] = IF fresh THEN "ok" ELSE "asking"]
    /\ lock' = IF fresh THEN Nothing ELSE c
    /\ UNCHANGED <<power, service, held, fresh, authHealth, mail, stored, lost>>

LockReleased(c) == lock' = IF lock = c THEN Nothing ELSE lock

(* The service's side of the exchange: external.                           *)
ServiceRotates(c) ==
    /\ call[c] = "asking" /\ held = service /\ service < MaxRotations
    /\ service' = service + 1
    /\ call' = [call EXCEPT ![c] = "rotated"]
    /\ UNCHANGED <<power, held, fresh, authHealth, lock, mail, stored, lost>>

(* The exchange fails: no credential, a token the service no longer takes, *)
(* or the network, before or after the service has rotated.  A chat that   *)
(* cannot refresh marks the runtime unhealthy.                             *)
ExchangeFails(c) ==
    /\ power = "up" /\ call[c] \in {"asking", "rotated"}
    /\ call' = [call EXCEPT ![c] = "failed"]
    /\ authHealth' = "Unhealthy"
    /\ LockReleased(c)
    /\ IF call[c] = "rotated" THEN Lost("network") ELSE UNCHANGED lost
    /\ UNCHANGED <<power, service, held, fresh, mail, stored>>

(* fetch_access_token returns: the update is sent by a task of its own, so *)
(* that a caller dropped later does not take it along, and token_state is  *)
(* replaced.  An expired answer leaves the access token stale.             *)
FetchAccessToken(c) ==
    /\ power = "up" /\ call[c] = "rotated"
    /\ mail' = mail \cup {service}
    /\ held' = service /\ fresh' = TRUE
    /\ call' = [call EXCEPT ![c] = "ok"]
    /\ LockReleased(c)
    /\ UNCHANGED <<power, service, authHealth, stored, lost>>

(* Codex: an id_token without the account claim fails the call after the   *)
(* update is sent and before token_state is replaced.                      *)
MissingClaim(c) ==
    /\ power = "up" /\ call[c] = "rotated"
    /\ mail' = mail \cup {service}
    /\ call' = [call EXCEPT ![c] = "failed"]
    /\ authHealth' = "Unhealthy"
    /\ LockReleased(c)
    /\ Lost("claims")
    /\ UNCHANGED <<power, service, held, fresh, stored>>

\* Fault: the lock is freed by hand, at the end of the call only.
DropCallLocked(c) ==
    /\ power = "up" /\ c \in Droppable /\ call[c] \in {"locking", "asking", "rotated"}
    /\ call' = [call EXCEPT ![c] = "dropped"]
    /\ IF call[c] = "rotated" THEN Lost("cancel") ELSE UNCHANGED lost
    /\ UNCHANGED <<power, service, held, fresh, authHealth, lock, mail, stored>>

(* The chat is cancelled: its future is dropped where it waits, and the    *)
(* guard of the lock with it.                                              *)
DropCall(c) ==
    /\ power = "up" /\ c \in Droppable /\ call[c] \in {"locking", "asking", "rotated"}
    /\ call' = [call EXCEPT ![c] = "dropped"]
    /\ LockReleased(c)
    /\ IF call[c] = "rotated" THEN Lost("cancel") ELSE UNCHANGED lost
    /\ UNCHANGED <<power, service, held, fresh, authHealth, mail, stored>>

(* The access token expires.  It outlives the delivery of the update that  *)
(* came with it.                                                           *)
Expire ==
    /\ power = "up" /\ fresh /\ mail = {}
    /\ fresh' = FALSE
    /\ UNCHANGED <<power, service, held, authHealth, lock, call, mail, stored, lost>>

-----------------------------------------------------------------------------
(* The host: handle_response stores an AuthUpdateRequest.                  *)
StoreUpdate(t) ==
    /\ power = "up" /\ t \in mail
    /\ mail' = mail \ {t}
    /\ stored' = t
    /\ UNCHANGED <<power, service, held, fresh, authHealth, lock, call, lost>>

(* The application ends, with updates on their way or an exchange open.    *)
Stop ==
    /\ power = "up"
    /\ power' = "down"
    /\ mail' = {} /\ lock' = Nothing
    /\ call' = [c \in OAuthCallers |-> IF call[c] \in {"locking", "asking", "rotated"} THEN "dropped" ELSE call[c]]
    /\ IF mail # {} \/ \E c \in OAuthCallers : call[c] = "rotated" THEN Lost("crash") ELSE UNCHANGED lost
    /\ UNCHANGED <<service, held, fresh, authHealth, stored>>

(* new: a start exchanges the stored token.                                *)
Start ==
    /\ power = "down" /\ stored = service /\ service < MaxRotations
    /\ power' = "up"
    /\ service' = service + 1 /\ held' = service + 1 /\ mail' = {service + 1}
    /\ fresh' = TRUE /\ authHealth' = "Running"
    /\ UNCHANGED <<lock, call, stored, lost>>

(* The exchange of a start fails, or the fetch of the models after it: the *)
(* runtime is unhealthy, without token_state, until the next start.        *)
StartUnhealthy ==
    /\ power = "down"
    /\ power' = "up"
    /\ held' = Nothing /\ fresh' = FALSE /\ authHealth' = "Unhealthy"
    /\ \/ UNCHANGED <<service, mail, lost>>
       \/ /\ stored = service /\ service < MaxRotations
          /\ service' = service + 1
          /\ \/ mail' = {service + 1} /\ UNCHANGED lost
             \/ Lost("network") /\ UNCHANGED mail
    /\ UNCHANGED <<lock, call, stored>>

OAuthStep(c) ==
    \/ TakeLock(c) \/ ServiceRotates(c) \/ ExchangeFails(c)
    \/ FetchAccessToken(c) \/ MissingClaim(c)

OAuthNext ==
    \/ \E c \in OAuthCallers : BeginRefresh(c) \/ OAuthStep(c) \/ DropCall(c)
    \/ \E t \in mail : StoreUpdate(t)
    \/ Expire \/ Stop \/ Start \/ StartUnhealthy

OAuthFairness ==
    /\ \A c \in OAuthCallers : WF_oauthVars(OAuthStep(c))
    /\ \A t \in 0..MaxRotations : WF_oauthVars(StoreUpdate(t))

OAuthSpec == OAuthInit /\ [][OAuthNext]_oauthVars

-----------------------------------------------------------------------------
(* The newest token is never only the service's, as long as none was lost: *)
(* the runtime holds it or a caller is about to receive it, the table has  *)
(* it or is about to; and so no exchange ever offers a token that another  *)
(* has used up, whatever the callers do at the same time.                  *)
TokensKeepStep ==
    /\ OAuthTypeOK
    /\ lost = "no" /\ power = "up" =>
        LET open == {c \in OAuthCallers : call[c] = "rotated"}
        IN  /\ held \in {service, Nothing} \/ open # {}
            /\ stored = service \/ service \in mail \/ open # {}
            /\ \A c \in OAuthCallers : call[c] = "asking" => held \in {service, Nothing}

(* A refresh ends: nobody waits for ever for a lock whose holder was       *)
(* dropped.                                                                *)
RefreshEnds ==
    \A c \in OAuthCallers : (call[c] = "locking") ~> (call[c] \in {"ok", "failed", "dropped"})
=============================================================================
