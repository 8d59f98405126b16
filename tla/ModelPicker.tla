----------------------------- MODULE ModelPicker -----------------------------
(***************************************************************************)
(* The footer of the launcher: the picker of the model to chat with        *)
(* (gui/linux/src/widgets/overlay/footer/picker.rs) and the dot that sums  *)
(* up the health of the accounts (status.rs).                              *)
(*                                                                         *)
(* Both are filled by tasks of the other runtime, which read the stored    *)
(* accounts and ask the plugins one by one (core/src/provider/             *)
(* controller.rs).  Nothing keeps two of them in order, and accounts,      *)
(* their health and their models change while they read.                   *)
(***************************************************************************)
EXTENDS Naturals, Sequences, SequencesExt, FiniteSets, FiniteSetsExt

CONSTANTS
    Accounts,       \* backends that may be connected
    Catalogues,     \* the sets of models that an account may list, with makers and efforts
    MaxPicks,       \* bound: times the launcher is shown, and choices made
    MaxDrifts,      \* bound: changes from elsewhere, and failures
    MaxLookups,     \* bound: tasks when the user does something
    NoChoice

(* The models of an account have ids of their own, and one has efforts.    *)
ASSUME PickerAssumption ==
    /\ Accounts # {}
    /\ \A c \in Catalogues :
         /\ \E m \in c : m.efforts # {}
         /\ \A m, n \in c : m.id = n.id => m = n
         /\ \A m \in c : \A e \in m.efforts : [model |-> m.id, effort |-> e] # NoChoice

VARIABLES
    footer,     \* "off", "on"
    choices,    \* backend_credentials: the model and effort of each account, NoChoice if not connected
    default,    \* settings: the preferred account
    live,       \* what each account would answer
    menu,       \* the button and its popover
    dot,        \* the level that the dot shows
    lookups,    \* the tasks, in the order they were started
    excused,    \* history: why the footer may be out of date
    picks, drifts

pickerVars == <<footer, choices, default, live, menu, dot, lookups, excused, picks, drifts>>

NoMenu == [rows |-> {}, greyed |-> {}, ticks |-> {}, checked |-> NoChoice, sensitive |-> FALSE]

PickerRest(where) ==
    /\ footer = where
    /\ choices = [a \in Accounts |-> NoChoice] /\ default = NoChoice
    /\ live = [a \in Accounts |-> [status |-> "Unhealthy", models |-> {}]]
    /\ menu = NoMenu /\ dot = "Inactive"
    /\ lookups = <<>> /\ excused = {"never"}
    /\ picks = MaxPicks /\ drifts = MaxDrifts

(* Accounts that run, each with a model of its own stored, as              *)
(* finalize_connection leaves them.                                        *)
Defaults(models) ==
    LET m == CHOOSE m \in models : m.efforts # {}
    IN  [model |-> m.id, effort |-> CHOOSE e \in m.efforts : TRUE]

PickerInit ==
    /\ footer = "on"
    /\ live \in [Accounts -> [status : {"Running"}, models : Catalogues]]
    /\ choices = [a \in Accounts |-> Defaults(live[a].models)]
    /\ default = CHOOSE a \in Accounts : TRUE
    /\ menu = NoMenu /\ dot = "Inactive"
    /\ lookups = <<>> /\ excused = {"never"}
    /\ picks = MaxPicks /\ drifts = MaxDrifts

-----------------------------------------------------------------------------
(* HealthLevel::combine: two bits, one for the healthy, one for the down.  *)
Combine(statuses) ==
    LET healthy == "Running" \in statuses
        down == "Unhealthy" \in statuses
    IN  CASE healthy /\ down -> "Degraded"
          [] healthy /\ ~down -> "Healthy"
          [] ~healthy /\ down -> "Down"
          [] OTHER -> "Inactive"

(* What a connector is made of: a stored account and its live status.      *)
Connected(c) == {a \in Accounts : c.stored[a] # NoChoice}

\* Fault: the effort is taken for granted.
CurrentSelectionOfModel(c) ==
    LET a == c.default
        models == IF a = NoChoice \/ a \notin Connected(c) THEN {}
                  ELSE {m \in c.models[a] : m.id = c.stored[a].model}
    IN  IF models # {} /\ c.health[a] = "Running"
        THEN [account |-> a, model |-> c.stored[a].model, effort |-> c.stored[a].effort]
        ELSE NoChoice

(* The stored preference, while it resolves to a row.                      *)
CurrentSelection(c) ==
    LET a == c.default
        models == IF a = NoChoice \/ a \notin Connected(c) THEN {}
                  ELSE {m \in c.models[a] : m.id = c.stored[a].model /\ c.stored[a].effort \in m.efforts}
    IN  IF models # {} /\ c.health[a] = "Running"
        THEN [account |-> a, model |-> c.stored[a].model, effort |-> c.stored[a].effort]
        ELSE NoChoice

Pickable(c, a) == {m \in c.models[a] : m.efforts # {} /\ c.health[a] = "Running"}

(* The models of an account are grouped by their makers, unless there is   *)
(* but one: the labels of a row's path.                                    *)
PathOf(c, a, m) ==
    IF Cardinality({n.maker : n \in Pickable(c, a)}) = 1 THEN <<a, m.id>> ELSE <<a, m.maker, m.id>>

RowsOf(c, a) ==
    UNION {{[path |-> PathOf(c, a, m), to |-> [account |-> a, model |-> m.id, effort |-> e]] : e \in m.efforts}
           : m \in Pickable(c, a)}

(* The labels that are ticked by hand: the account, the maker and the      *)
(* model of the selection.                                                 *)
Ticks(c, selection) ==
    IF selection = NoChoice THEN {}
    ELSE LET paths == {PathOf(c, selection.account, m) : m \in {n \in Pickable(c, selection.account) : n.id = selection.model}}
         IN  UNION {{SubSeq(p, 1, k) : k \in DOMAIN p} : p \in paths}

(* set_options.  Without a choice the button is dead.                      *)
SetOptions(c) ==
    LET selection == CurrentSelection(c)
        selectable == {a \in Connected(c) : Pickable(c, a) # {}}
    IN  IF selectable = {} THEN NoMenu
        ELSE [rows |-> UNION {RowsOf(c, a) : a \in selectable}, greyed |-> Connected(c) \ selectable,
              ticks |-> Ticks(c, selection), checked |-> selection, sensitive |-> TRUE]

(* The connectors as they are now.                                         *)
Now ==
    [stored |-> choices, default |-> default,
     health |-> [a \in Accounts |-> live[a].status], models |-> [a \in Accounts |-> live[a].models]]

-----------------------------------------------------------------------------
(* The tasks.                                                              *)

RefreshTask == [kind |-> "refresh", at |-> "spawned"]
LevelTask == [kind |-> "level", at |-> "spawned"]
Lookup(i, t) == lookups' = [lookups EXCEPT ![i] = t]
Landed(i, more) == lookups' = RemoveAt(lookups, i) \o more
Elsewhere == footer = "on" /\ UNCHANGED <<footer, live, picks>>

(* What lands before a task that was started earlier may be overwritten.   *)
Overtakes(i) ==
    excused' = IF \E j \in 1..(i - 1) : lookups[j].kind = lookups[i].kind THEN excused \cup {"crossed"} ELSE excused

MayFail(silent) ==
    \/ silent = {} /\ UNCHANGED <<excused, drifts>>
    \/ silent # {} /\ drifts > 0 /\ drifts' = drifts - 1 /\ excused' = excused \cup {"failed"}

(* available_connectors reads the accounts, then asks the connected ones.  *)
ReadAccounts(i) ==
    /\ Elsewhere /\ lookups[i].kind = "refresh" /\ lookups[i].at = "spawned"
    /\ Lookup(i, [kind |-> "refresh", at |-> "asking", stored |-> choices, default |-> default,
                  health |-> <<>>, models |-> <<>>])
    /\ UNCHANGED <<choices, default, menu, dot, excused, drifts>>

(* Accounts that do not answer are taken for unhealthy.                    *)
AskHealth(i) ==
    LET t == lookups[i]
    IN  /\ Elsewhere /\ t.kind = "refresh" /\ t.at = "asking"
        /\ \E silent \in SUBSET Connected(t) :
             /\ Lookup(i, [t EXCEPT !.at = "healthy",
                                   !.health = [a \in Connected(t) |-> IF a \in silent THEN "Unhealthy" ELSE live[a].status]])
             /\ MayFail(silent)
        /\ UNCHANGED <<choices, default, menu, dot>>

(* Their models are asked for next, and may be of another time.            *)
AskModels(i) ==
    LET t == lookups[i]
    IN  /\ Elsewhere /\ t.kind = "refresh" /\ t.at = "healthy"
        /\ \E silent \in SUBSET Connected(t) :
             /\ Lookup(i, [t EXCEPT !.at = "answered",
                                   !.models = [a \in Connected(t) |-> IF a \in silent THEN {} ELSE live[a].models]])
             /\ MayFail(silent)
        /\ UNCHANGED <<choices, default, menu, dot>>

RefreshLands(i) ==
    LET t == lookups[i]
    IN  /\ Elsewhere /\ t.kind = "refresh" /\ t.at = "answered"
        /\ menu' = SetOptions(t)
        /\ Landed(i, <<>>) /\ Overtakes(i)
        /\ UNCHANGED <<choices, default, dot, drifts>>

(* backends_health_level asks every plugin; one that does not answer is    *)
(* down.                                                                   *)
AskLevel(i) ==
    /\ Elsewhere /\ lookups[i].kind = "level" /\ lookups[i].at = "spawned"
    /\ \E silent \in SUBSET Accounts :
         /\ Lookup(i, [kind |-> "level", at |-> "asked",
                       level |-> Combine({IF a \in silent THEN "Unhealthy" ELSE live[a].status
                                          : a \in Connected(Now) \cup silent})])
         /\ MayFail(silent)
    /\ UNCHANGED <<choices, default, menu, dot>>

LevelLands(i) ==
    /\ Elsewhere /\ lookups[i].kind = "level" /\ lookups[i].at = "asked"
    /\ dot' = lookups[i].level
    /\ Landed(i, <<>>) /\ Overtakes(i)
    /\ UNCHANGED <<choices, default, menu, drifts>>

(* The database fails: a line in the log.                                  *)
LookupFails(i) ==
    /\ Elsewhere
    /\ \/ lookups[i].kind = "refresh" /\ lookups[i].at = "spawned"
       \/ lookups[i].kind = "store" /\ lookups[i].at = "spawned"
    /\ Landed(i, <<>>) /\ MayFail({i})
    /\ UNCHANGED <<choices, default, menu, dot>>

(* set_model_preference: one transaction, refused if the account is gone.  *)
StoreChoice(i) ==
    LET t == lookups[i]
    IN  /\ Elsewhere /\ t.kind = "store" /\ t.at = "spawned"
        /\ choices[t.to.account] # NoChoice
        /\ choices' = [choices EXCEPT ![t.to.account] = [model |-> t.to.model, effort |-> t.to.effort]]
        /\ default' = t.to.account
        /\ Lookup(i, [t EXCEPT !.at = "stored"])
        /\ UNCHANGED <<menu, dot, excused, drifts>>

StoreRefused(i) ==
    LET t == lookups[i]
    IN  /\ Elsewhere /\ t.kind = "store" /\ t.at = "spawned"
        /\ choices[t.to.account] = NoChoice
        /\ Landed(i, <<>>)
        /\ UNCHANGED <<choices, default, menu, dot, excused, drifts>>

\* Fault: the choice is stored, and the picker left as it is.
ChoiceStoredOnly(i) ==
    /\ Elsewhere /\ lookups[i].kind = "store" /\ lookups[i].at = "stored"
    /\ Landed(i, <<>>)
    /\ UNCHANGED <<choices, default, menu, dot, excused, drifts>>

(* Back on the main thread the picker asks for what was stored.            *)
ChoiceStored(i) ==
    /\ Elsewhere /\ lookups[i].kind = "store" /\ lookups[i].at = "stored"
    /\ Landed(i, <<RefreshTask>>)
    /\ UNCHANGED <<choices, default, menu, dot, excused, drifts>>

-----------------------------------------------------------------------------
(* The user and the rest of the program.                                   *)

UserPicks ==
    /\ footer = "on" /\ picks > 0 /\ picks' = picks - 1
    /\ Len(lookups) < MaxLookups
    /\ UNCHANGED <<footer, choices, default, live, menu, dot, drifts>>

(* Overlay::show refreshes the footer.  Nothing else would make up for     *)
(* what was missed.                                                        *)
ShowFooter ==
    /\ UserPicks
    /\ lookups' = lookups \o <<LevelTask, RefreshTask>>
    /\ excused' = IF lookups = <<>> THEN {} ELSE excused

(* A row of the menu, as old as it may be.                                 *)
PickModel(row) ==
    /\ menu.sensitive /\ row \in menu.rows
    /\ UserPicks
    /\ lookups' = Append(lookups, [kind |-> "store", at |-> "spawned", to |-> row.to])
    /\ UNCHANGED excused

Drift ==
    /\ footer = "on" /\ drifts > 0 /\ drifts' = drifts - 1
    /\ excused' = excused \cup {"drift"}
    /\ UNCHANGED <<footer, menu, dot, lookups, picks>>

AccountChanges(a) ==
    /\ Drift /\ choices[a] # NoChoice
    /\ \E s \in {"Starting", "Running", "Unhealthy"}, c \in Catalogues \cup {{}} :
         /\ s = live[a].status \/ c = live[a].models
         /\ live' = [live EXCEPT ![a] = [status |-> s, models |-> c]]
    /\ UNCHANGED <<choices, default>>

(* disconnect; another account becomes the default.                        *)
AccountDisconnects(a) ==
    LET others == {b \in Accounts \ {a} : choices[b] # NoChoice}
    IN  /\ Drift
        /\ choices[a] # NoChoice
        /\ choices' = [choices EXCEPT ![a] = NoChoice]
        /\ live' = [live EXCEPT ![a] = [status |-> "Unhealthy", models |-> {}]]
        /\ IF default # a THEN UNCHANGED default
           ELSE default' \in IF others = {} THEN {NoChoice} ELSE others

PickerNext ==
    \/ ShowFooter
    \/ \E row \in menu.rows : PickModel(row)
    \/ \E a \in Accounts : AccountChanges(a) \/ AccountDisconnects(a)
    \/ \E i \in DOMAIN lookups :
        \/ ReadAccounts(i) \/ RefreshLands(i) \/ AskLevel(i) \/ LevelLands(i) \/ LookupFails(i) \/ AskHealth(i) \/ AskModels(i)
        \/ StoreChoice(i) \/ StoreRefused(i) \/ ChoiceStored(i)

-----------------------------------------------------------------------------
(* What is checked can be picked: the selection is a row of the menu, and  *)
(* the ticked labels are the way to it, also when the accounts changed     *)
(* between the questions that the menu is made of (set_options).           *)
CheckedIsOffered ==
    menu.checked # NoChoice =>
        \E row \in menu.rows : row.to = menu.checked /\ menu.ticks = {SubSeq(row.path, 1, k) : k \in DOMAIN row.path}

(* The footer comes to rest on what is stored and what the accounts        *)
(* answer: a choice is shown once it is stored, unless a question failed,  *)
(* the accounts changed, or two refreshes crossed.                         *)
PickerSettles ==
    lookups = <<>> /\ excused = {} => menu = SetOptions(Now) /\ dot = Combine({live[a].status : a \in Connected(Now)})
=============================================================================
