------------------------------ MODULE Storage -------------------------------
(***************************************************************************)
(* The SQLite tables behind sessions and plugins.  ProviderAccounts has    *)
(* the credentials and the preferred backend, PermissionWorkflow the       *)
(* permission rules; SessionHistory says which rows a repair keeps.        *)
(*                                                                         *)
(* Every operation is one statement or one transaction, hence one action.  *)
(* history.id is an INTEGER PRIMARY KEY without AUTOINCREMENT: a new row   *)
(* gets the largest id of the table plus one, so the id of a deleted row   *)
(* is given out again, and what still hangs on the id goes with it.        *)
(***************************************************************************)
EXTENDS SessionHistory, FiniteSetsExt

CONSTANTS
    StoredSessions,     \* session ids
    StoredPlugins,      \* plugin names
    Capabilities,       \* capability ids of a plugin
    StoredItems,        \* what insert_history is given: [type, call, images]
    MaxStoreOps         \* bound: operations

VARIABLES
    sessionRows,     \* table sessions: the session ids
    historyRows,     \* table history: [id, session, type, call]
    attachmentRows,  \* table attachments: [history, ordinal, data]
    pluginRows,      \* table plugins: name -> disabled, "absent" when no row
    flagRows,        \* table disabled_capabilities: <<plugin, capability>>
    storeLeft,       \* operations left
    written,         \* ghost: per session, the items its history must show
    switchedOff      \* ghost: the capabilities switched off since the plugin was deleted

storeVars == <<sessionRows, historyRows, attachmentRows, pluginRows, flagRows,
               storeLeft, written, switchedOff>>
historyVars == <<sessionRows, historyRows, attachmentRows, written>>
pluginVars == <<pluginRows, flagRows, switchedOff>>

(* Only the images of a prompt become attachments (insert_history).        *)
ASSUME StorageAssumption ==
    /\ StoredItems \subseteq [type : PayloadType, call : Nat, images : Seq([ordinal : Nat, data : STRING])]
    /\ \A item \in StoredItems : item.images # <<>> => item.type = "user_prompt"

StoreRest(left) ==
    /\ sessionRows = {} /\ historyRows = {} /\ attachmentRows = {}
    /\ pluginRows = [p \in StoredPlugins |-> "absent"] /\ flagRows = {}
    /\ storeLeft = left
    /\ written = [s \in StoredSessions |-> <<>>] /\ switchedOff = {}

StoreInit == StoreRest(MaxStoreOps)

Operate == storeLeft > 0 /\ storeLeft' = storeLeft - 1
-----------------------------------------------------------------------------
NextId(rows) == Max({0} \cup {r.id : r \in rows}) + 1

(* ORDER BY id.                                                            *)
InOrder(rows) ==
    LET last == NextId(rows) - 1
        At(n) == {r \in rows : r.id = n}
        upTo[n \in 0..last] ==
            IF n = 0 THEN <<>>
            ELSE IF At(n) # {} THEN Append(upTo[n - 1], CHOOSE r \in At(n) : TRUE) ELSE upTo[n - 1]
    IN  upTo[last]

RowsOf(s) == InOrder({r \in historyRows : r.session = s})

\* Fault: the attachments stay when their history row goes.
CascadeNothing(rows) == attachmentRows

(* attachments.history_id ... ON DELETE CASCADE: rows are what is left.    *)
Cascade(rows) == {a \in attachmentRows : \E r \in rows : r.id = a.history}

(* The rows of an id in reconstruct_history: the join's attachments become *)
(* the content of a prompt.                                                *)
Content(r) ==
    IF r.type = "user_prompt"
    THEN {[ordinal |-> a.ordinal, data |-> a.data] :
            a \in {b \in attachmentRows : b.history = r.id}}
    ELSE {}

GetHistory(s) ==
    LET rows == RowsOf(s)
    IN  [i \in DOMAIN rows |->
            [type |-> rows[i].type, call |-> rows[i].call, images |-> Content(rows[i])]]

(* Results are left out, and a call is finished when its result is stored. *)
RestoreHistory(s) ==
    LET shown == InOrder({r \in historyRows : r.session = s /\ r.type # "tool_result"})
        results == {r.call : r \in {o \in historyRows : o.session = s /\ o.type = "tool_result"}}
    IN  [i \in DOMAIN shown |->
            [type |-> shown[i].type, call |-> shown[i].call, images |-> Content(shown[i]),
             finished |-> shown[i].type = "tool_call" /\ shown[i].call \in results]]
-----------------------------------------------------------------------------
CreateNewSession(s) ==
    /\ Operate /\ s \notin sessionRows
    /\ sessionRows' = sessionRows \cup {s}
    /\ UNCHANGED <<historyRows, attachmentRows, written, pluginVars>>

DeleteSession(s) ==
    /\ Operate /\ s \in sessionRows
    /\ sessionRows' = sessionRows \ {s}
    /\ historyRows' = {r \in historyRows : r.session # s}
    /\ attachmentRows' = Cascade(historyRows')
    /\ written' = [written EXCEPT ![s] = <<>>]
    /\ UNCHANGED pluginVars

(* One transaction: a missing session (the foreign key) or two images with *)
(* one number (the primary key of attachments) leave nothing behind.       *)
InsertHistory(s, item) ==
    LET id == NextId(historyRows)
        row == [id |-> id, session |-> s, type |-> item.type, call |-> item.call]
        new == {[history |-> id, ordinal |-> image.ordinal, data |-> image.data] :
                    image \in ToSet(item.images)}
        taken == {a.ordinal : a \in {b \in attachmentRows : b.history = id}}
        fits == /\ s \in sessionRows
                /\ Cardinality({a.ordinal : a \in new}) = Len(item.images)
                /\ \A a \in new : a.ordinal \notin taken
    IN  /\ Operate
        /\ \/ /\ fits
              /\ historyRows' = historyRows \cup {row}
              /\ attachmentRows' = attachmentRows \cup new
              /\ written' = [written EXCEPT ![s] =
                    Append(@, [type |-> item.type, call |-> item.call,
                               images |-> ToSet(item.images)])]
           \/ ~fits /\ UNCHANGED <<historyRows, attachmentRows, written>>
        /\ UNCHANGED <<sessionRows, pluginVars>>

(* The rows a repair of a session leaves and the calls it answers.  The    *)
(* two scripts keep the same rows (SessionHistory: Cleanup and Recover).   *)
KeptRows(s) == DropBarePrompt(DropTrailingReasoning(RowsOf(s)))
ToAnswer(s) == Unanswered(KeptRows(s), TurnStart(RowsOf(s)))

(* What a repair does to the items of a session, without ids.              *)
Repaired(w) ==
    LET kept == DropBarePrompt(DropTrailingReasoning(w))
        calls == Unanswered(kept, TurnStart(w))
    IN  kept \o [i \in DOMAIN calls |->
                    [type |-> "tool_result", call |-> calls[i].call, images |-> {}]]

(* Steps A to D for the sessions ss, in one transaction.  The answers get  *)
(* the ids after the rows that are left, in the order of their calls.      *)
RepairSessions(ss) ==
    LET others == {r \in historyRows : r.session \notin ss}
        kept == others \cup UNION {ToSet(KeptRows(s)) : s \in ss}
        calls == InOrder(UNION {ToSet(ToAnswer(s)) : s \in ss})
        answers == {[id |-> NextId(kept) + i - 1, session |-> calls[i].session,
                     type |-> "tool_result", call |-> calls[i].call] : i \in DOMAIN calls}
        rows == kept \cup answers
    IN  /\ historyRows' = rows
        /\ attachmentRows' = Cascade(kept)
        /\ sessionRows' = {s \in sessionRows : s \in ss => \E r \in rows : r.session = s}
        /\ written' = [s \in StoredSessions |-> IF s \in ss THEN Repaired(written[s]) ELSE written[s]]

CleanupSessionHistory(s) == Operate /\ RepairSessions({s}) /\ UNCHANGED pluginVars

(* At start, before the sessions are listed.                               *)
RestoreSessions == Operate /\ RepairSessions(StoredSessions) /\ UNCHANGED pluginVars
-----------------------------------------------------------------------------
InsertPlugin(p) ==
    /\ Operate /\ pluginRows[p] = "absent"
    /\ pluginRows' = [pluginRows EXCEPT ![p] = "enabled"]
    /\ UNCHANGED <<historyVars, flagRows, switchedOff>>

\* Fault: the trigger on plugins is missing.
RemovePluginRow(p) ==
    /\ Operate /\ pluginRows[p] # "absent"
    /\ pluginRows' = [pluginRows EXCEPT ![p] = "absent"]
    /\ switchedOff' = {f \in switchedOff : f[1] # p}
    /\ UNCHANGED <<historyVars, flagRows>>

(* The trigger plugins_delete_disabled_capabilities is part of it.         *)
RemovePlugin(p) ==
    /\ Operate /\ pluginRows[p] # "absent"
    /\ pluginRows' = [pluginRows EXCEPT ![p] = "absent"]
    /\ flagRows' = {f \in flagRows : f[1] # p}
    /\ switchedOff' = {f \in switchedOff : f[1] # p}
    /\ UNCHANGED historyVars

TogglePlugin(p, disabled) ==
    /\ Operate /\ pluginRows[p] # "absent"
    /\ pluginRows' = [pluginRows EXCEPT ![p] = IF disabled THEN "disabled" ELSE "enabled"]
    /\ UNCHANGED <<historyVars, flagRows, switchedOff>>

(* INSERT OR IGNORE or DELETE; nothing asks whether the plugin is there.   *)
ToggleCapability(p, c, disabled) ==
    /\ Operate
    /\ flagRows' = IF disabled THEN flagRows \cup {<<p, c>>} ELSE flagRows \ {<<p, c>>}
    /\ switchedOff' = IF disabled THEN switchedOff \cup {<<p, c>>} ELSE switchedOff \ {<<p, c>>}
    /\ UNCHANGED <<historyVars, pluginRows>>

(* The tools of a running plugin a chat request offers.                    *)
DisabledPlugins == {p \in StoredPlugins : pluginRows[p] = "disabled"}
Schemas(p) == {<<p, c>> : c \in Capabilities} \ flagRows
ToolSchemas ==
    UNION {Schemas(p) : p \in {q \in StoredPlugins \ DisabledPlugins : pluginRows[q] # "absent"}}
-----------------------------------------------------------------------------
StoreNext ==
    \/ \E s \in StoredSessions :
          \/ CreateNewSession(s)
          \/ DeleteSession(s)
          \/ CleanupSessionHistory(s)
          \/ \E item \in StoredItems : InsertHistory(s, item)
    \/ RestoreSessions
    \/ \E p \in StoredPlugins :
          \/ InsertPlugin(p)
          \/ RemovePlugin(p)
          \/ \E off \in BOOLEAN : TogglePlugin(p, off)
          \/ \E c \in Capabilities, off \in BOOLEAN : ToggleCapability(p, c, off)

StoreSpec == StoreInit /\ [][StoreNext]_storeVars
-----------------------------------------------------------------------------
(* A session's history reads back as it was written and repaired: in       *)
(* order, each prompt with its own images and no others although ids are   *)
(* given out again, and a restored call shows as finished exactly when the *)
(* session holds its result.                                               *)
HistoryReadsBack ==
    \A s \in StoredSessions :
        /\ GetHistory(s) = written[s]
        /\ LET answered == {i.call : i \in {j \in ToSet(written[s]) : j.type = "tool_result"}}
           IN  {r.call : r \in {e \in ToSet(RestoreHistory(s)) : e.finished}}
                 = answered \cap {i.call : i \in {j \in ToSet(written[s]) : j.type = "tool_call"}}

(* A plugin offers its capabilities but those switched off since a plugin  *)
(* of that name was last deleted: one added again does not inherit the     *)
(* switches of the one before.                                             *)
SwitchesDieWithThePlugin ==
    \A p \in StoredPlugins, c \in Capabilities :
        pluginRows[p] = "enabled" => (<<p, c>> \in ToolSchemas <=> <<p, c>> \notin switchedOff)

(* What is stored is read back, attachments included, although ids are     *)
(* reused; and a switch does not outlive its plugin.                       *)
TablesAgree == HistoryReadsBack /\ SwitchesDieWithThePlugin
=============================================================================
