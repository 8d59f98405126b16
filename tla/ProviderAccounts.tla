-------------------------- MODULE ProviderAccounts --------------------------
(***************************************************************************)
(* The accounts of model providers: ProviderController (core/src/provider/ *)
(* controller.rs), the tables and triggers behind it (core/src/db), and    *)
(* the plugin processes that hold a runtime for every connected backend.   *)
(*                                                                         *)
(* Connecting a backend is a row, a runtime and a stored model, made one   *)
(* after the other with awaits between; disconnecting, replacing or        *)
(* removing the plugin and the end of the program may fall anywhere.       *)
(* Requests to a process are handled in the order they are sent; how they  *)
(* get there and time out is module PluginConnection.                      *)
(***************************************************************************)
EXTENDS Naturals, Sequences, SequencesExt

CONSTANTS
    Attempts,       \* calls of finalize
    BackendOf,      \* the backend each of them connects
    ProviderOf,     \* the plugin of each backend
    Builtin,        \* the plugins that come with Paloma
    Procs,          \* bound: plugin processes at a time
    MaxOperations,  \* bound: operations other than finalize, and restarts, in a behaviour
    Tables,         \* the accounts an earlier run of the program may have left
    Null

Backends == DOMAIN ProviderOf
Providers == {ProviderOf[b] : b \in Backends}
Of(p) == {b \in Backends : ProviderOf[b] = p}

(* The backend is the key of its table, and there is a process for every   *)
(* plugin.                                                                 *)
ASSUME AccountsAssumption ==
    /\ BackendOf \in [Attempts -> Backends] /\ Null \notin Backends \cup Procs \cup Attempts
    /\ \A table \in Tables : /\ table \in Seq(Backends)
                             /\ \A i, j \in DOMAIN table : table[i] = table[j] => i = j
    /\ \A running \in SUBSET Providers : \E h \in [Providers -> Procs \cup {Null}] :
            /\ \A p \in Providers : h[p] = Null <=> p \notin running
            /\ \A p, q \in Providers : h[p] = h[q] /\ h[p] # Null => p = q

VARIABLES
    app,        \* "off", "up", "down"
    rows,       \* backend_credentials in the order of rowid
    unset,      \* the rows whose model is still empty
    preferred,  \* settings
    plugins,    \* the rows of plugins with type provider
    handlers,   \* the process of each registered plugin
    runtimes,   \* the runtimes of each process
    inbox,      \* the requests each process has not handled
    killed,     \* the processes that were shut down while somebody holds them
    fin,        \* how far each finalize is, and the process it holds
    leaving,    \* the backends whose disconnect has still to tell the plugin
    adm,        \* add, update, remove: how far each plugin's operation is
    left,       \* the operations left by MaxOperations
    torn,       \* history: rows whose finalize the end of the program cut
    overtaken   \* history: backends of which a row went, or came, under a finalize or a removal,
                \* or whose finalize was aborted

accountTables == <<rows, unset, preferred, plugins>>
accountVars == <<app, accountTables, handlers, runtimes, inbox, killed, fin, leaving, adm, left, torn, overtaken>>

NobodyAtWork == [at |-> "idle", proc |-> Null]

(* The tables hold what earlier runs of the program have left.             *)
AccountsRest(where, table) ==
    /\ app = where
    /\ rows = table /\ unset = {} /\ plugins = Providers \ Builtin
    /\ preferred = IF table = <<>> THEN Null ELSE Last(table)
    /\ handlers = [p \in Providers |-> Null]
    /\ runtimes = [k \in Procs |-> {}] /\ inbox = [k \in Procs |-> <<>>] /\ killed = {}
    /\ fin = [a \in Attempts |-> NobodyAtWork]
    /\ leaving = {} /\ adm = [p \in Providers |-> NobodyAtWork]
    /\ left = MaxOperations /\ torn = {} /\ overtaken = {}

AccountsInit == \E table \in Tables : AccountsRest("down", table)

Operation == left > 0 /\ left' = left - 1

-----------------------------------------------------------------------------
(* The tables.                                                             *)

(* settings_prefer_first_backend.                                          *)
InsertBackend(b) ==
    /\ rows' = Append(rows, b)
    /\ unset' = unset \cup {b}
    /\ preferred' = IF preferred = Null THEN b ELSE preferred

\* Fault: the deleted row is not excluded from the choice.
ReassignAny(table, b) == IF table = <<>> THEN Null ELSE Head(table)

(* The table without the row of b.                                         *)
Without(table, b) ==
    LET at == {i \in DOMAIN table : table[i] = b}
    IN  IF at = {} THEN table ELSE RemoveAt(table, CHOOSE i \in at : TRUE)

(* settings_reassign_preferred_on_delete: the oldest other row.            *)
Reassign(table, b) ==
    LET others == Without(table, b)
    IN  IF others = <<>> THEN Null ELSE Head(others)

(* One row goes, its BEFORE DELETE trigger first.                          *)
DeleteRow(t, b) ==
    [rows |-> Without(t.rows, b),
     preferred |-> IF t.preferred = b THEN Reassign(t.rows, b) ELSE t.preferred]

(* One after the other, in the order of rowid.                             *)
DeleteBackends(bs) ==
    LET upTo[i \in 0..Len(rows)] ==
            IF i = 0 THEN [rows |-> rows, preferred |-> preferred]
            ELSE IF rows[i] \in bs THEN DeleteRow(upTo[i - 1], rows[i]) ELSE upTo[i - 1]
        kept == upTo[Len(rows)]
    IN  /\ rows' = kept.rows
        /\ preferred' = kept.preferred
        /\ unset' = unset \ bs

InTable(b) == b \in ToSet(rows)

-----------------------------------------------------------------------------
(* Processes.                                                              *)

Held == ({handlers[p] : p \in Providers} \cup {fin[a].proc : a \in Attempts}
         \cup {adm[p].proc : p \in Providers}) \ {Null}

Spawned(k, bs) ==
    /\ k \notin Held /\ \A j \in Procs \ Held : k <= j
    /\ runtimes' = [runtimes EXCEPT ![k] = bs]
    /\ inbox' = [inbox EXCEPT ![k] = <<>>]
    /\ killed' = killed \ {k}

Send(k, request) ==
    inbox' = IF k \in killed THEN inbox ELSE [inbox EXCEPT ![k] = Append(@, request)]

Goto(a, pc) == fin' = [fin EXCEPT ![a].at = pc]
Return(a) == fin' = [fin EXCEPT ![a] = [at |-> "over", proc |-> Null]]

(* The loop of a process takes its next request.  A runtime that cannot    *)
(* reach its service is kept and reported as an error.                     *)
Serve(k) ==
    /\ app = "up" /\ k \in Held \ killed /\ inbox[k] # <<>>
    /\ inbox' = [inbox EXCEPT ![k] = Tail(@)]
    /\ LET request == Head(inbox[k])
           b == request.backend
       IN  IF request.op = "remove"
           THEN runtimes' = [runtimes EXCEPT ![k] = @ \ {b}] /\ UNCHANGED fin
           ELSE \E made \in BOOLEAN, ok \in BOOLEAN :
                  /\ ok => made
                  /\ runtimes' = [runtimes EXCEPT ![k] = IF made THEN @ \cup {b} ELSE @]
                  /\ fin' = IF fin[request.from].at # "initing" \/ ~request.waited THEN fin
                            ELSE [fin EXCEPT ![request.from].at = IF ok THEN "ready" ELSE "failed"]
    /\ UNCHANGED <<app, accountTables, handlers, killed, leaving, adm, torn, overtaken, left>>

-----------------------------------------------------------------------------
(* finalize.                                                               *)

BeginFinalize(a) ==
    LET k == handlers[ProviderOf[BackendOf[a]]]
    IN  /\ app = "up" /\ fin[a].at = "idle" /\ k # Null
        /\ fin' = [fin EXCEPT ![a] = [at |-> "asking", proc |-> k]]
        /\ UNCHANGED <<app, accountTables, handlers, runtimes, inbox, killed, leaving, adm, torn, overtaken, left>>

(* The plugin refuses a backend that it has a runtime for, or runs the     *)
(* flow with the service.                                                  *)
FlowStarts(a) ==
    /\ app = "up" /\ fin[a].at = "asking"
    /\ IF fin[a].proc \in killed \/ BackendOf[a] \in runtimes[fin[a].proc]
       THEN Return(a) ELSE Goto(a, "flow")
    /\ UNCHANGED <<app, accountTables, handlers, runtimes, inbox, killed, leaving, adm, torn, overtaken, left>>

(* The flow fails, is cancelled, times out, or brings a secret.            *)
FlowEnds(a) ==
    /\ app = "up" /\ fin[a].at = "flow"
    /\ Return(a) \/ (fin[a].proc \notin killed /\ Goto(a, "authorized"))
    /\ UNCHANGED <<app, accountTables, handlers, runtimes, inbox, killed, leaving, adm, torn, overtaken, left>>

(* The row comes first, so that a token refreshed by init has its place.   *)
StoreAuth(a) ==
    LET b == BackendOf[a]
    IN  /\ app = "up" /\ fin[a].at = "authorized"
        /\ IF InTable(b)
           THEN Return(a) /\ UNCHANGED <<rows, unset, preferred, torn, overtaken>>
           ELSE /\ InsertBackend(b) /\ Goto(a, "inserted")
                /\ torn' = torn \ {b}
                /\ overtaken' = IF adm[ProviderOf[b]].at = "removing" THEN overtaken \cup {b} ELSE overtaken
        /\ UNCHANGED <<app, plugins, handlers, runtimes, inbox, killed, leaving, adm, left>>

SendInit(a) ==
    LET k == fin[a].proc
    IN  /\ app = "up" /\ fin[a].at = "inserted"
        /\ Send(k, [op |-> "init", backend |-> BackendOf[a], from |-> a, waited |-> TRUE])
        /\ Goto(a, IF k \in killed THEN "failed" ELSE "initing")
        /\ UNCHANGED <<app, accountTables, handlers, runtimes, killed, leaving, adm, torn, overtaken, left>>

(* BACKEND_INIT_TIMEOUT, or the plugin is gone: the request is answered    *)
(* later, to nobody.                                                       *)
InitTimeout(a) ==
    LET k == fin[a].proc
    IN  /\ app = "up" /\ fin[a].at = "initing"
        /\ Goto(a, "failed")
        /\ inbox' = [inbox EXCEPT ![k] = [i \in DOMAIN @ |->
                       IF @[i].from = a THEN [@[i] EXCEPT !.waited = FALSE] ELSE @[i]]]
        /\ UNCHANGED <<app, accountTables, handlers, runtimes, killed, leaving, adm, torn, overtaken, left>>

(* An error of list_models counts as an empty list.                        *)
ListModels(a) ==
    /\ app = "up" /\ fin[a].at = "ready"
    /\ \/ Goto(a, "failed")
       \/ BackendOf[a] \in runtimes[fin[a].proc] /\ fin[a].proc \notin killed /\ Goto(a, "listed")
    /\ UNCHANGED <<app, accountTables, handlers, runtimes, inbox, killed, leaving, adm, torn, overtaken, left>>

(* update_preferences; no row is an error, and nothing more is done.       *)
StoreModel(a) ==
    /\ app = "up" /\ fin[a].at = "listed"
    /\ unset' = unset \ {BackendOf[a]}
    /\ Return(a)
    /\ UNCHANGED <<app, rows, preferred, plugins, handlers, runtimes, inbox, killed, leaving, adm, torn, overtaken, left>>

\* Fault: the row of a connection that fails is left.
CleanUpRuntimeOnly(a) ==
    /\ app = "up" /\ fin[a].at = "failed" /\ InTable(BackendOf[a])
    /\ Goto(a, "cleaning")
    /\ UNCHANGED <<app, accountTables, handlers, runtimes, inbox, killed, leaving, adm, torn, overtaken, left>>

(* A connection that fails is taken back, the row first.  A row that is    *)
(* gone already is an error that ends the cleanup.                         *)
CleanUp(a) ==
    LET b == BackendOf[a]
    IN  /\ app = "up" /\ fin[a].at = "failed"
        /\ DeleteBackends({b})
        /\ IF InTable(b) THEN Goto(a, "cleaning") ELSE Return(a)
        /\ UNCHANGED <<app, plugins, handlers, runtimes, inbox, killed, leaving, adm, torn, overtaken, left>>

CleanUpRuntime(a) ==
    /\ app = "up" /\ fin[a].at = "cleaning"
    /\ Send(fin[a].proc, [op |-> "remove", backend |-> BackendOf[a], from |-> a, waited |-> FALSE])
    /\ Return(a)
    /\ UNCHANGED <<app, accountTables, handlers, runtimes, killed, leaving, adm, torn, overtaken, left>>

-----------------------------------------------------------------------------
(* disconnect and set_preferred.                                           *)

Connecting(b) == \E a \in Attempts : BackendOf[a] = b /\ fin[a].at \notin {"idle", "over"}
UnderWay(b) == \E a \in Attempts : BackendOf[a] = b /\ fin[a].at \notin {"idle", "over", "asking", "flow", "authorized"}

(* The dialog is closed: the front end aborts the call at its next await,  *)
(* wherever that is, and nothing is taken back.                            *)
AbortFinalize(a) ==
    LET b == BackendOf[a]
    IN  /\ app = "up" /\ fin[a].at \notin {"idle", "over"}
        /\ Return(a)
        /\ overtaken' = IF UnderWay(b) THEN overtaken \cup {b} ELSE overtaken
        /\ UNCHANGED <<app, accountTables, handlers, runtimes, inbox, killed, leaving, adm, torn, left>>

Disconnect(b) ==
    /\ app = "up" /\ InTable(b) /\ b \notin leaving
    /\ DeleteBackends({b})
    /\ leaving' = leaving \cup {b}
    /\ overtaken' = IF UnderWay(b) THEN overtaken \cup {b} ELSE overtaken
    /\ Operation
    /\ UNCHANGED <<app, plugins, handlers, runtimes, inbox, killed, fin, adm, torn>>

DisconnectRuntime(b) ==
    LET k == handlers[ProviderOf[b]]
    IN  /\ app = "up" /\ b \in leaving
        /\ leaving' = leaving \ {b}
        /\ IF k = Null THEN UNCHANGED inbox
           ELSE Send(k, [op |-> "remove", backend |-> b, from |-> Null, waited |-> FALSE])
        /\ UNCHANGED <<app, accountTables, handlers, runtimes, killed, fin, adm, torn, overtaken, left>>

(* One transaction: the model of the row, and the preference if asked.     *)
SetPreferred(b, as_default) ==
    /\ app = "up" /\ InTable(b)
    /\ unset' = unset \ {b}
    /\ preferred' = IF as_default THEN b ELSE preferred
    /\ Operation
    /\ UNCHANGED <<app, rows, plugins, handlers, runtimes, inbox, killed, fin, leaving, adm, torn, overtaken>>

-----------------------------------------------------------------------------
(* Plugins.  The settings page has one operation per plugin at a time.     *)

AddProvider(p, k) ==
    /\ app = "up" /\ p \notin Builtin /\ p \notin plugins /\ adm[p].at = "idle"
    /\ Spawned(k, {})
    /\ plugins' = plugins \cup {p}
    /\ handlers' = [handlers EXCEPT ![p] = k]
    /\ Operation
    /\ UNCHANGED <<app, rows, unset, preferred, fin, leaving, adm, torn, overtaken>>

(* init_provider_plugin with the accounts of this moment; those that fail  *)
(* are skipped.                                                            *)
BeginUpdate(p, k) ==
    /\ app = "up" /\ p \in plugins /\ adm[p].at = "idle"
    /\ Spawned(k, {b \in Of(p) : InTable(b)})
    /\ adm' = [adm EXCEPT ![p] = [at |-> "updating", proc |-> k]]
    /\ Operation
    /\ UNCHANGED <<app, accountTables, handlers, fin, leaving, torn, overtaken>>

(* The process that is replaced goes with its last caller.                 *)
EndUpdate(p) ==
    /\ app = "up" /\ adm[p].at = "updating"
    /\ adm' = [adm EXCEPT ![p] = NobodyAtWork]
    /\ \/ UNCHANGED <<handlers, overtaken>>
       \/ /\ handlers' = [handlers EXCEPT ![p] = adm[p].proc]
          /\ overtaken' = overtaken \cup {b \in runtimes[adm[p].proc] : ~InTable(b)}
                                    \cup {b \in Of(p) : Connecting(b)}
    /\ UNCHANGED <<app, accountTables, runtimes, inbox, killed, fin, leaving, torn, left>>

(* delete_plugin, whose trigger deletes the accounts, each with a trigger  *)
(* of its own.                                                             *)
BeginRemove(p) ==
    /\ app = "up" /\ p \in plugins /\ adm[p].at = "idle"
    /\ plugins' = plugins \ {p}
    /\ DeleteBackends(Of(p))
    /\ adm' = [adm EXCEPT ![p] = [at |-> "removing", proc |-> Null]]
    /\ Operation
    /\ UNCHANGED <<app, handlers, runtimes, inbox, killed, fin, leaving, torn, overtaken>>

EndRemove(p) ==
    /\ app = "up" /\ adm[p].at = "removing"
    /\ adm' = [adm EXCEPT ![p] = NobodyAtWork]
    /\ handlers' = [handlers EXCEPT ![p] = Null]
    /\ killed' = killed \cup ({handlers[p]} \ {Null})
    /\ overtaken' = overtaken \cup {b \in Of(p) : Connecting(b)}
    /\ UNCHANGED <<app, accountTables, runtimes, inbox, fin, leaving, torn, left>>

-----------------------------------------------------------------------------
(* ProviderController::new: a process for every plugin, with the accounts  *)
(* of the table.                                                           *)
Startup ==
    CHOOSE h \in [Providers -> Procs \cup {Null}] :
        /\ \A p \in Providers : h[p] = Null <=> p \notin Builtin \cup plugins
        /\ \A p, q \in Providers : h[p] = h[q] /\ h[p] # Null => p = q

StartProviders ==
    /\ app = "down"
    /\ app' = "up"
    /\ handlers' = Startup
    /\ runtimes' = [k \in Procs |-> {b \in Backends : Startup[ProviderOf[b]] = k /\ InTable(b)}]
    /\ inbox' = [k \in Procs |-> <<>>] /\ killed' = {}
    /\ UNCHANGED <<accountTables, fin, leaving, adm, torn, overtaken, left>>

StopApp ==
    /\ app = "up"
    /\ app' = "down"
    /\ torn' = torn \cup {b \in ToSet(rows) : UnderWay(b) \/ b \in overtaken}
    /\ handlers' = [p \in Providers |-> Null]
    /\ fin' = [a \in Attempts |-> NobodyAtWork]
    /\ leaving' = {} /\ adm' = [p \in Providers |-> NobodyAtWork] /\ overtaken' = {}
    /\ runtimes' = [k \in Procs |-> {}] /\ inbox' = [k \in Procs |-> <<>>] /\ killed' = {}
    /\ Operation
    /\ UNCHANGED accountTables

AccountsNext ==
    \/ \E a \in Attempts :
        \/ BeginFinalize(a) \/ AbortFinalize(a) \/ FlowStarts(a) \/ FlowEnds(a) \/ StoreAuth(a) \/ SendInit(a)
        \/ InitTimeout(a) \/ ListModels(a) \/ StoreModel(a) \/ CleanUp(a) \/ CleanUpRuntime(a)
    \/ \E b \in Backends : Disconnect(b) \/ DisconnectRuntime(b)
    \/ \E b \in Backends, as_default \in BOOLEAN : SetPreferred(b, as_default)
    \/ \E p \in Providers, k \in Procs : AddProvider(p, k) \/ BeginUpdate(p, k)
    \/ \E p \in Providers : EndUpdate(p) \/ BeginRemove(p) \/ EndRemove(p)
    \/ \E k \in Procs : Serve(k)
    \/ StartProviders \/ StopApp

AccountsSpec == AccountsInit /\ [][AccountsNext]_accountVars

-----------------------------------------------------------------------------
(* As long as there are accounts, the default is one of them, through      *)
(* every insertion, deletion and removal of a plugin with several          *)
(* accounts, whose rows go one by one with a trigger each.                 *)
PreferredIsConnected ==
    /\ preferred = Null <=> rows = <<>>
    /\ preferred # Null => InTable(preferred)

Settled ==
    /\ app = "up" /\ leaving = {}
    /\ \A a \in Attempts : fin[a].at \in {"idle", "over"}
    /\ \A p \in Providers : adm[p].at = "idle" /\ (handlers[p] # Null => inbox[handlers[p]] = <<>>)

(* Once everything has come to rest, a backend is connected or it is not:  *)
(* a row has its model and its plugin, and a runtime has its row, however  *)
(* late the plugin answered; unless the program ended or the dialog was    *)
(* closed in the middle, or a disconnect, a replacement or a removal met a *)
(* connection under way.                                                   *)
AccountsSettle ==
    Settled => \A b \in Backends :
        /\ InTable(b) /\ b \notin torn \cup overtaken =>
            b \notin unset /\ ProviderOf[b] \in Builtin \cup plugins
        /\ handlers[ProviderOf[b]] # Null /\ b \in runtimes[handlers[ProviderOf[b]]] =>
            InTable(b) \/ b \in overtaken

(* The preferred backend is one that can be used, and an attempt to        *)
(* connect leaves all of an account or nothing of it, whatever overtook it *)
(* (finalize_connection, remove_backend).                                  *)
AccountsAreWhole == PreferredIsConnected /\ AccountsSettle
=============================================================================
