--------------------------- MODULE SettingsPages ---------------------------
(***************************************************************************)
(* The pages of the settings window (gui/linux/src/widgets/settings).      *)
(*                                                                         *)
(* Clicks and the ends of tasks on the other runtime are messages of one   *)
(* queue per page, which the main loop empties before it takes the next    *)
(* input.                                                                  *)
(*                                                                         *)
(* Plugins: State::update (plugins/model.rs), PluginsPage::run (mod.rs)    *)
(* and the dialog a plugin is entered in (plugin_dialog.rs).  A submitted  *)
(* dialog is locked until its task reports; an MCP server may need a popup *)
(* for its OAuth flow, which the user can close at any time.               *)
(*                                                                         *)
(* Services: Model::update (services/model.rs), ServicesPage::run (mod.rs) *)
(* and the dialog a service is connected in (connection_dialog.rs).  The   *)
(* dialog may be closed at any time; its task is aborted, but a message it *)
(* has sent is only told from one of the next dialog by the name of the    *)
(* backend.  Permissions: a list whose rows are deleted one by one.        *)
(***************************************************************************)
EXTENDS Naturals, Sequences, FiniteSets

CONSTANTS
    Plugs,         \* plugins with a switch in the list
    MaxClicks,     \* bound: inputs of the user
    MaxPageTasks   \* bound: tasks under way when there is an input

VARIABLES
    page,       \* "off", "on"
    pg,         \* the page
    saved,      \* the plugins that are enabled in the table
    raced,      \* history: plugins that two tasks were about at once, or whose reload failed
    clicks      \* the inputs left

pageVars == <<page, pg, saved, raced, clicks>>

Kinds == {"local", "mcp"}       \* extensions and providers are alike
NoDialog == [kind |-> "none", editing |-> FALSE, locked |-> FALSE]

PageRest(where) ==
    /\ page = where
    /\ pg = [dialog |-> NoDialog, popup |-> "none",
             flow |-> 0,                 \* connection_flow, by the id of its task
             made |-> 0,                 \* the id of the last task
             queue |-> <<>>, tasks |-> {},
             shown |-> Plugs]            \* the switches that are on
    /\ saved = Plugs /\ raced = {} /\ clicks = MaxClicks

PageInit == PageRest("on")

Told(v, m) == [v EXCEPT !.queue = Append(@, m)]
StartWith(v, what, about, on) ==
    [v EXCEPT !.made = @ + 1,
              !.tasks = @ \cup {[id |-> v.made + 1, do |-> what, about |-> about, on |-> on,
                                 result |-> "none", list |-> {}]}]
Start(v, what, about) == StartWith(v, what, about, FALSE)

(* abort takes effect at the next await: what is past its last one is      *)
(* still sent.                                                             *)
Abort(v, id) == [v EXCEPT !.tasks = {t \in @ : ~(t.id = id /\ t.result = "none")}]

(* replace and abort: one flow at a time.                                  *)
Track(v, what, about) ==
    LET next == Start(Abort(v, v.flow), what, about) IN [next EXCEPT !.flow = next.made]

Unlock(v) == IF v.dialog = NoDialog THEN v ELSE [v EXCEPT !.dialog.locked = FALSE]
CloseDialog(v) == [v EXCEPT !.dialog = NoDialog]
ClosePopup(v) == [v EXCEPT !.popup = "none"]

-----------------------------------------------------------------------------
(* update and run, by message.                                             *)

Submitted(v, m) ==
    CASE m.editing -> Start(v, "update", m.kind)
      [] ~m.editing /\ m.kind = "mcp" -> Start(v, "init", m.kind)
      [] OTHER -> Track(v, "save", m.kind)

InitFinished(v, m) ==
    IF m.result = "failed" THEN Unlock(v)
    ELSE Track([v EXCEPT !.popup = IF m.result = "oauth" THEN "open" ELSE @], "finalize", "mcp")

SaveFinished(v, m) ==
    LET u == IF m.about = "mcp" THEN ClosePopup(v) ELSE v
    IN  IF m.ok THEN Start(CloseDialog(u), "load", "all") ELSE Unlock(u)

\* Fault: the dialog under a popup that was closed stays as it is.
PopupDismissedOnly(v) == [Abort(ClosePopup(v), v.flow) EXCEPT !.flow = 0]

(* OauthDialogClosed: AbortMcpConnection, ShowPluginDialogError.           *)
PopupDismissed(v) == Unlock([Abort(ClosePopup(v), v.flow) EXCEPT !.flow = 0])

\* Fault: a switch whose toggle failed is left as the user set it.
ToggleFinishedOnly(v, m) == v

(* A failed toggle reloads the list, which resets the switch.              *)
ToggleFinished(v, m) == IF m.ok THEN v ELSE Start(v, "load", "all")

Handle(v, m) ==
    CASE m.msg = "Clicked" -> [v EXCEPT !.dialog = [kind |-> m.kind, editing |-> m.editing, locked |-> FALSE]]
      [] m.msg = "Cancelled" -> CloseDialog(v)
      [] m.msg = "Submitted" -> Submitted(v, m)
      [] m.msg = "init" -> InitFinished(v, m)
      [] m.msg \in {"save", "update", "finalize"} -> SaveFinished(v, m)
      [] m.msg = "PopupDismissed" -> PopupDismissed(v)
      [] m.msg = "RemoveClicked" -> Start(v, "remove", "all")
      [] m.msg = "remove" -> IF m.ok THEN Start(v, "load", "all") ELSE v
      [] m.msg = "ToggleSwitch" -> StartWith(v, "toggle", m.plug, m.on)
      [] m.msg = "toggle" -> ToggleFinished(v, m)
      [] m.msg = "load" -> IF m.ok THEN [v EXCEPT !.shown = m.list] ELSE v

(* What a plugin's switch may be overwritten with, or overwrite.           *)
Toggles(v) == {t.about : t \in {x \in v.tasks : x.do = "toggle"}}
Loads(v) == (\E t \in v.tasks : t.do = "load") \/ (\E i \in DOMAIN v.queue : v.queue[i].msg = "load")

HandlePage ==
    /\ page = "on" /\ pg.queue # <<>>
    /\ LET m == Head(pg.queue)
           next == Handle([pg EXCEPT !.queue = Tail(@)], m)
           loading == \E t \in next.tasks \ pg.tasks : t.do = "load"
       IN  /\ pg' = next
           /\ raced' = raced \cup (IF m.msg = "load" /\ ~m.ok THEN Plugs ELSE {})
                             \cup (IF loading THEN Toggles(pg) ELSE {})
                             \cup (IF m.msg = "ToggleSwitch" /\ (Loads(pg) \/ m.plug \in Toggles(pg))
                                   THEN {m.plug} ELSE {})
    /\ UNCHANGED <<page, saved, clicks>>

-----------------------------------------------------------------------------
(* Tasks: the call, then the message.                                      *)

Ends(t, result) ==
    pg' = [pg EXCEPT !.tasks = (@ \ {t}) \cup {[t EXCEPT !.result = result,
                                                       !.list = IF t.do = "load" THEN saved ELSE {}]}]

TaskWorks(t, ok) ==
    /\ t.result = "none"
    /\ Ends(t, IF ok THEN "plain" ELSE "failed")
    /\ saved' = IF t.do = "toggle" /\ ok
                THEN IF t.on THEN saved \cup {t.about} ELSE saved \ {t.about}
                ELSE saved
    /\ UNCHANGED <<page, raced, clicks>>

(* A remote server with authentication.                                    *)
NeedsAuthorization(t) ==
    /\ t.result = "none" /\ t.do = "init"
    /\ Ends(t, "oauth")
    /\ UNCHANGED <<page, saved, raced, clicks>>

TaskReports(t) ==
    /\ t.result # "none"
    /\ pg' = Told([pg EXCEPT !.tasks = @ \ {t}],
                  [msg |-> t.do, about |-> t.about, ok |-> t.result # "failed",
                   result |-> t.result, list |-> t.list])
    /\ UNCHANGED <<page, saved, raced, clicks>>

-----------------------------------------------------------------------------
(* The user.  A dialog and a popup are modal.                              *)

MayClick ==
    /\ page = "on" /\ pg.queue = <<>> /\ Cardinality(pg.tasks) < MaxPageTasks
    /\ clicks > 0 /\ clicks' = clicks - 1

Click(next) ==
    /\ MayClick
    /\ pg' = next
    /\ UNCHANGED <<page, saved, raced>>

Free == pg.dialog = NoDialog /\ pg.popup = "none"

OpenDialog(kind, editing) ==
    Free /\ Click(Told(pg, [msg |-> "Clicked", kind |-> kind, editing |-> editing]))

(* The form is valid; its buttons are switched off until the task reports. *)
Submit ==
    /\ pg.dialog # NoDialog /\ ~pg.dialog.locked /\ pg.popup = "none"
    /\ Click(Told([pg EXCEPT !.dialog.locked = TRUE],
                  [msg |-> "Submitted", kind |-> pg.dialog.kind, editing |-> pg.dialog.editing]))

CancelDialog == pg.dialog # NoDialog /\ ~pg.dialog.locked /\ Click(Told(pg, [msg |-> "Cancelled"]))

DismissPopup == pg.popup = "open" /\ Click(Told([pg EXCEPT !.popup = "dismissed"], [msg |-> "PopupDismissed"]))

RemovePlugin == Free /\ Click(Told(pg, [msg |-> "RemoveClicked"]))

Toggle(p) ==
    /\ Free
    /\ Click(Told([pg EXCEPT !.shown = IF p \in @ THEN @ \ {p} ELSE @ \cup {p}],
                  [msg |-> "ToggleSwitch", plug |-> p, on |-> p \notin pg.shown]))

(* The page is opened again.                                               *)
Refresh ==
    /\ MayClick /\ Free
    /\ pg' = Start(pg, "load", "all")
    /\ raced' = raced \cup Toggles(pg)
    /\ UNCHANGED <<page, saved>>

PageNext ==
    \/ HandlePage
    \/ \E t \in pg.tasks : TaskReports(t) \/ NeedsAuthorization(t) \/ \E ok \in BOOLEAN : TaskWorks(t, ok)
    \/ \E kind \in Kinds, editing \in BOOLEAN : OpenDialog(kind, editing)
    \/ \E p \in Plugs : Toggle(p)
    \/ Submit \/ CancelDialog \/ DismissPopup \/ RemovePlugin \/ Refresh

-----------------------------------------------------------------------------
Answers == {"save", "update", "init", "finalize"}
UnderWay(what) ==
    \/ \E t \in pg.tasks : t.do \in what
    \/ \E i \in DOMAIN pg.queue : pg.queue[i].msg \in what \cup {"Submitted", "PopupDismissed"}

(* Nobody is locked in: a dialog that can neither be closed nor submitted  *)
(* has a task or a message that will unlock or close it, and the popup of  *)
(* an authorization is open only while its flow goes on.                   *)
DialogIsAnswered ==
    /\ pg.dialog.locked => UnderWay(Answers)
    /\ pg.popup # "none" => UnderWay({"finalize"})

(* When all is quiet, a switch shows what is stored, also after a toggle   *)
(* that failed.  Excepted are tasks that were about the same plugin at the *)
(* same time, which may end in either order, and a reload that failed.     *)
SwitchesAgree ==
    pg.queue = <<>> /\ pg.tasks = {} => \A p \in Plugs \ raced : (p \in pg.shown <=> p \in saved)

-----------------------------------------------------------------------------
(* The services and permissions pages.                                     *)

CONSTANTS
    Offers,        \* backends that can be connected
    GrantedPrefixes,      \* permissions that are stored
    MaxActs,       \* bound: inputs of the user
    NoBackend

ASSUME OffersAssumption == NoBackend \notin Offers

VARIABLES
    svc,        \* "off", "on"
    sp,         \* the services page
    linked,     \* the backends that are connected
    loose,      \* history: the list may be behind, a load crossed a change or failed
    perm,       \* the permissions page
    kept,       \* the permissions in the table
    acts        \* the inputs left

servicesPageVars == <<svc, sp, linked, loose, perm, kept, acts>>

ServicesPageRest(where) ==
    /\ svc = where
    /\ sp = [connecting |-> NoBackend, dialog |-> "none",
             flow |-> 0, made |-> 0, queue |-> <<>>, tasks |-> {}, listed |-> {}]
    /\ linked = {} /\ loose = FALSE
    /\ perm = [rows |-> GrantedPrefixes, deleting |-> {}, tasks |-> {}, late |-> FALSE]
    /\ kept = GrantedPrefixes
    /\ acts = MaxActs

ServicesPageInit == ServicesPageRest("on")

Post(v, m) == [v EXCEPT !.queue = Append(@, m)]
Launch(v, what, b) ==
    [v EXCEPT !.made = @ + 1,
              !.tasks = @ \cup {[id |-> v.made + 1, do |-> what, of |-> b, result |-> "none", list |-> {}]}]
Drop(v, id) == [v EXCEPT !.tasks = {t \in @ : ~(t.id = id /\ t.result \in {"none", "stored"})}]
TrackFlow(v, what, b) ==
    LET next == Launch(Drop(v, v.flow), what, b) IN [next EXCEPT !.flow = next.made]

(* with_dialog: nothing without a dialog.                                  *)
ShowIn(v, what) == IF v.dialog = "none" THEN v ELSE [v EXCEPT !.dialog = what]

-----------------------------------------------------------------------------
(* update and run, by message.                                             *)

ConnectClicked(v, m) ==
    IF v.connecting # NoBackend THEN v
    ELSE TrackFlow([v EXCEPT !.connecting = m.of, !.dialog = "loading"], "init", m.of)

(* A device code is polled for at once; a key or a pasted code is          *)
(* submitted by the user.                                                  *)
InitFinishedFor(v, m) ==
    IF v.connecting # m.of THEN v
    ELSE CASE m.result = "device" -> TrackFlow(ShowIn(v, "challenge"), "finalize", m.of)
           [] m.result = "manual" -> ShowIn(v, "manual")
           [] OTHER -> ShowIn(v, "error")

ConnectionSubmitted(v, m) ==
    IF v.connecting # m.of THEN v ELSE TrackFlow(ShowIn(v, "loading"), "finalize", m.of)

\* Fault: a connection made after the dialog moved on is not listed.
FinalizeFinishedOnly(v, m) ==
    IF v.connecting # m.of THEN v
    ELSE IF m.result = "ok" THEN Launch(ShowIn(v, "success"), "fetch", NoBackend) ELSE ShowIn(v, "error")

(* "the connection exists either way, so still refresh".                   *)
FinalizeFinished(v, m) ==
    IF m.result = "ok"
    THEN Launch(IF v.connecting = m.of THEN ShowIn(v, "success") ELSE v, "fetch", NoBackend)
    ELSE IF v.connecting = m.of THEN ShowIn(v, "error") ELSE v

\* Fault: the flow of a closed dialog goes on.
DialogClosedOnly(v, m) == [v EXCEPT !.connecting = NoBackend, !.dialog = "none"]

(* The plugin is told too, if there was a task.                            *)
DialogClosed(v, m) ==
    LET u == [v EXCEPT !.connecting = NoBackend, !.dialog = "none"]
    IN  IF v.flow = 0 THEN u ELSE [Launch(Drop(u, v.flow), "cancel", m.of) EXCEPT !.flow = 0]

React(v, m) ==
    CASE m.msg = "ConnectClicked" -> ConnectClicked(v, m)
      [] m.msg = "init" -> InitFinishedFor(v, m)
      [] m.msg = "ConnectionSubmitted" -> ConnectionSubmitted(v, m)
      [] m.msg = "finalize" -> FinalizeFinished(v, m)
      [] m.msg = "DialogClosed" -> DialogClosed(v, m)
      [] m.msg = "DisconnectConfirmed" -> Launch(v, "disconnect", m.of)
      [] m.msg = "disconnect" -> IF m.result = "ok" THEN Launch(v, "fetch", NoBackend) ELSE v
      [] m.msg = "fetch" -> IF m.result = "ok" THEN [v EXCEPT !.listed = m.list] ELSE v

Fetching(v) == (\E t \in v.tasks : t.do = "fetch") \/ (\E i \in DOMAIN v.queue : v.queue[i].msg = "fetch")

(* A finalize that is aborted after it has stored the row reports nothing. *)
Cut(v, next) == \E t \in v.tasks : t.result = "stored" /\ \A u \in next.tasks : u.id # t.id

ReactOnPage ==
    /\ svc = "on" /\ sp.queue # <<>>
    /\ LET m == Head(sp.queue)
           next == React([sp EXCEPT !.queue = Tail(@)], m)
       IN  /\ sp' = next
           /\ loose' = (loose \/ Cut(sp, next) \/ (m.msg = "fetch" /\ m.result # "ok")
                              \/ (m.msg \in {"finalize", "disconnect"} /\ Fetching(sp)))
    /\ UNCHANGED <<svc, linked, perm, kept, acts>>

-----------------------------------------------------------------------------
(* Tasks.  What they do to accounts is module ProviderAccounts.            *)

Finish(t, result) ==
    sp' = [sp EXCEPT !.tasks = (@ \ {t}) \cup {[t EXCEPT !.result = result,
                                                       !.list = IF t.do = "fetch" THEN linked ELSE {}]}]

Results(what) ==
    IF what = "init" THEN {"device", "manual", "failed"} ELSE {"ok", "failed"}

(* finalize stores the row first, then initialises the backend and chooses *)
(* its model, or takes the row back.                                       *)
TaskStores(t) ==
    /\ t.do = "finalize" /\ t.result = "none" /\ t.of \notin linked
    /\ linked' = linked \cup {t.of}
    /\ Finish(t, "stored")
    /\ UNCHANGED <<svc, loose, perm, kept, acts>>

TaskFinishes(t, result) ==
    /\ result \in Results(t.do)
    /\ CASE t.do = "finalize" ->
              \/ t.result = "none" /\ result = "failed" /\ UNCHANGED linked
              \/ t.result = "stored" /\ linked' = IF result = "ok" THEN linked ELSE linked \ {t.of}
         [] t.do = "disconnect" ->
              t.result = "none" /\ linked' = IF result = "ok" THEN linked \ {t.of} ELSE linked
         [] OTHER -> t.result = "none" /\ UNCHANGED linked
    /\ Finish(t, result)
    /\ loose' = (loose \/ (linked' # linked /\ Fetching(sp))
                       \/ (t.do = "fetch" /\ \E u \in sp.tasks : u.result = "stored"))
    /\ UNCHANGED <<svc, perm, kept, acts>>

(* cancel_connection reports nothing.                                      *)
TaskPosts(t) ==
    /\ t.result \notin {"none", "stored"}
    /\ LET rest == [sp EXCEPT !.tasks = @ \ {t}]
       IN  sp' = IF t.do = "cancel" THEN rest
                 ELSE Post(rest, [msg |-> t.do, of |-> t.of, result |-> t.result, list |-> t.list])
    /\ UNCHANGED <<svc, linked, loose, perm, kept, acts>>

-----------------------------------------------------------------------------
(* The user.                                                               *)

Act == svc = "on" /\ acts > 0 /\ acts' = acts - 1 /\ sp.queue = <<>>
ActOn(next) == Act /\ sp' = next /\ UNCHANGED <<svc, linked, loose, perm, kept>>

ClickConnect(b) ==
    sp.dialog = "none" /\ b \notin sp.listed /\ ActOn(Post(sp, [msg |-> "ConnectClicked", of |-> b]))

SubmitKey ==
    sp.dialog = "manual" /\ ActOn(Post(sp, [msg |-> "ConnectionSubmitted", of |-> sp.connecting]))

(* Closed by the user, or CLOSE_DELAY after a success.                     *)
CloseConnection ==
    sp.dialog # "none" /\ ActOn(Post([sp EXCEPT !.dialog = "none"], [msg |-> "DialogClosed", of |-> sp.connecting]))

Confirm(b) ==
    sp.dialog = "none" /\ b \in sp.listed /\ ActOn(Post(sp, [msg |-> "DisconnectConfirmed", of |-> b]))

-----------------------------------------------------------------------------
(* The permissions page: calls and replies without a queue.                *)

(* DeleteClicked: once per row.                                            *)
DeletePermission(p) ==
    /\ Act /\ p \in perm.rows \ perm.deleting
    /\ perm' = [perm EXCEPT !.deleting = @ \cup {p}, !.tasks = @ \cup {[do |-> "delete", of |-> p, list |-> {}]}]
    /\ UNCHANGED <<svc, sp, linked, loose, kept>>

LoadPermissions ==
    /\ Act /\ \A t \in perm.tasks : t.do # "load"
    /\ perm' = [perm EXCEPT !.tasks = @ \cup {[do |-> "load", of |-> NoBackend, list |-> kept]}]
    /\ UNCHANGED <<svc, sp, linked, loose, kept>>

DeleteFinished(t, ok) ==
    /\ t.do = "delete"
    /\ kept' = IF ok THEN kept \ {t.of} ELSE kept
    /\ perm' = [perm EXCEPT !.tasks = @ \ {t}, !.deleting = @ \ {t.of},
                            !.rows = IF ok THEN @ \ {t.of} ELSE @,
                            !.late = @ \/ (\E o \in perm.tasks : o.do = "load")]
    /\ UNCHANGED <<svc, sp, linked, loose, acts>>

(* A list that was read before a delete is applied after it.               *)
PermissionsLoaded(t) ==
    /\ t.do = "load"
    /\ perm' = [perm EXCEPT !.tasks = @ \ {t}, !.rows = t.list, !.deleting = @ \cap t.list]
    /\ UNCHANGED <<svc, sp, linked, loose, kept, acts>>

ServicesPageNext ==
    \/ ReactOnPage
    \/ \E t \in sp.tasks :
        TaskStores(t) \/ TaskPosts(t) \/ \E r \in {"device", "manual", "ok", "failed"} : TaskFinishes(t, r)
    \/ \E b \in Offers : ClickConnect(b) \/ Confirm(b)
    \/ SubmitKey \/ CloseConnection
    \/ \E p \in GrantedPrefixes : DeletePermission(p)
    \/ \E t \in perm.tasks : PermissionsLoaded(t) \/ \E ok \in BOOLEAN : DeleteFinished(t, ok)
    \/ LoadPermissions

-----------------------------------------------------------------------------
(* A dialog that waits is answered, and only the dialog that is open has   *)
(* somebody at work: closing it leaves no flow behind, not even one whose  *)
(* answer came at that moment.                                             *)
ConnectionIsAnswered ==
    /\ sp.dialog \in {"loading", "challenge"} =>
        \/ \E t \in sp.tasks : t.do \in {"init", "finalize"} /\ t.of = sp.connecting
        \/ \E i \in DOMAIN sp.queue : sp.queue[i].msg \in {"init", "finalize", "ConnectionSubmitted"}
    /\ \A t \in sp.tasks :
        t.do \in {"init", "finalize"} /\ t.result \in {"none", "stored"} =>
            t.id = sp.flow /\ t.of = sp.connecting

(* When all is quiet, the page lists what is connected, also what was      *)
(* connected after its dialog was closed, and the permissions that are     *)
(* stored, each of them deletable.  Excepted are lists that were read      *)
(* while something changed, lists that failed, and a flow that was aborted *)
(* between its steps.                                                      *)
PagesAgree ==
    /\ sp.queue = <<>> /\ sp.tasks = {} /\ ~loose => sp.listed = linked
    /\ perm.tasks = {} => perm.deleting = {} /\ (~perm.late => perm.rows = kept)

-----------------------------------------------------------------------------
(* The window: its pages share nothing.                                    *)
SettingsInit == PageInit /\ ServicesPageInit

SettingsNext ==
    \/ PageNext /\ UNCHANGED servicesPageVars
    \/ ServicesPageNext /\ UNCHANGED pageVars

SettingsSpec == SettingsInit /\ [][SettingsNext]_<<pageVars, servicesPageVars>>

(* Nobody is locked in: every dialog of the settings that waits has a task *)
(* or a message that will answer it, and a closed one has nobody at work   *)
(* (PluginsPage::run, ServicesPage::run).  When all is quiet the settings  *)
(* show what is stored: switches, connected services and permissions,      *)
(* whatever failed or was closed on the way.                               *)
SettingsSettle == DialogIsAnswered /\ ConnectionIsAnswered /\ SwitchesAgree /\ PagesAgree
=============================================================================
