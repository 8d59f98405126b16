--------------------------- MODULE InternalSearch ---------------------------
(***************************************************************************)
(* The searches of the internal extension that keep state of their own:    *)
(* the files (FileIndex), and here the installed applications and the      *)
(* history of the clipboard (plugins/extensions/internal/src/app_search,   *)
(* clipboard).                                                             *)
(*                                                                         *)
(* The applications are read by a thread when the extension starts, and    *)
(* again by the thread of the watcher after every change; each replaces    *)
(* the whole list when it has read it.                                     *)
(***************************************************************************)
EXTENDS FileIndex, FiniteSetsExt

CONSTANTS
    AppIds,         \* applications
    NumDirs,        \* the directories of desktop files, in the order of their precedence
    Texts,          \* texts that are copied
    Sensitive,      \* those that the clipboard marks as sensitive
    HistoryLimit,   \* HISTORY_LIMIT
    MaxInstalls,    \* bound: changes of the directories
    MaxCopies,      \* bound: what happens to the clipboard
    NoText

ASSUME InternalAssumption ==
    NumDirs \in Nat /\ HistoryLimit \in Nat \ {0} /\ NoText \notin Texts

VARIABLES
    tools,      \* "off", "apps", "clipboard"
    disk,       \* the desktop files of each directory, with what they say of their display
    watches,    \* the directories that existed when the watch began
    apps,       \* AppSearch.entries
    changed,    \* whether the debouncer holds a change
    loaders,    \* the two threads that load, and how far they have read
    late,       \* history: a change that nobody watches, or the first load coming last
    history,    \* Clipboard.history
    clip,       \* the content of the clipboard
    watching,   \* whether wl-paste runs
    pipe,       \* what it has emitted and nobody has read
    recent,     \* history: the text that was read last and not removed since
    installs, copies

internalVars == <<tools, disk, watches, apps, changed, loaders, late, history, clip, watching, pipe, recent, installs, copies>>
appVars == <<disk, watches, apps, changed, loaders, late, installs>>
clipVars == <<history, clip, watching, pipe, recent, copies>>

Idle == [at |-> 0, seen |-> {}, read |-> <<>>]
Begun == [at |-> 1, seen |-> {}, read |-> <<>>]

InternalRest(where) ==
    /\ tools = where
    /\ disk = [d \in 1..NumDirs |-> [a \in AppIds |-> "none"]]
    /\ watches = 1..NumDirs /\ apps = <<>> /\ changed = FALSE
    /\ loaders = [first |-> Idle, trigger |-> Idle] /\ late = FALSE
    /\ history = <<>> /\ clip = NoText /\ watching = FALSE /\ pipe = <<>> /\ recent = NoText
    /\ installs = MaxInstalls /\ copies = MaxCopies

(* AppSearch::new watches first, and loads then.                           *)
AppsInit ==
    /\ tools = "apps"
    /\ disk \in [1..NumDirs -> [AppIds -> {"none", "shown"}]]
    /\ watches \in SUBSET (1..NumDirs)
    /\ apps = <<>> /\ changed = FALSE
    /\ loaders = [first |-> Begun, trigger |-> Idle] /\ late = FALSE
    /\ history = <<>> /\ clip = NoText /\ watching = FALSE /\ pipe = <<>> /\ recent = NoText
    /\ installs = MaxInstalls /\ copies = MaxCopies

ClipboardInit == InternalRest("clipboard")

-----------------------------------------------------------------------------
(* Applications.                                                           *)

(* A file that is not shown is passed over: it neither counts nor hides    *)
(* the file of the same name in a later directory.                         *)
Kept(found, seen) == {a \in AppIds \ seen : found[a] = "shown"}

\* Fault: an application is listed once for every directory.
ReadDirectoryAgain(t, found) ==
    [at |-> t.at + 1, seen |-> t.seen \cup Kept(found, {}), read |-> Append(t.read, Kept(found, {}))]

ReadDirectory(t, found) ==
    [at |-> t.at + 1, seen |-> t.seen \cup Kept(found, t.seen), read |-> Append(t.read, Kept(found, t.seen))]

Loading(who) == loaders[who].at \in 1..NumDirs
HasLoaded(who) == loaders[who].at > NumDirs

LoadStep(who) ==
    /\ tools = "apps" /\ Loading(who)
    /\ loaders' = [loaders EXCEPT ![who] = ReadDirectory(@, disk[@.at])]
    /\ UNCHANGED <<disk, watches, apps, changed, late, installs>>

(* The list is replaced under its lock.  The first load may come last.     *)
LoadEnds(who) ==
    /\ tools = "apps" /\ HasLoaded(who)
    /\ apps' = loaders[who].read
    /\ loaders' = [loaders EXCEPT ![who] = Idle]
    /\ late' = (late \/ (who = "trigger" /\ loaders["first"] # Idle))
    /\ UNCHANGED <<disk, watches, changed, installs>>

\* Fault: a change that comes while the trigger loads is forgotten.
TriggerFiresOnce ==
    /\ tools = "apps" /\ changed
    /\ changed' = FALSE
    /\ loaders' = IF loaders["trigger"] = Idle THEN [loaders EXCEPT !["trigger"] = Begun] ELSE loaders
    /\ UNCHANGED <<disk, watches, apps, late, installs>>

(* The debouncer calls the trigger on its own thread, one at a time.       *)
TriggerFires ==
    /\ tools = "apps" /\ changed /\ loaders["trigger"] = Idle
    /\ changed' = FALSE
    /\ loaders' = [loaders EXCEPT !["trigger"] = Begun]
    /\ UNCHANGED <<disk, watches, apps, late, installs>>

(* A directory that did not exist is not watched.                          *)
InstallApp(d, a, kind) ==
    /\ tools = "apps" /\ installs > 0 /\ installs' = installs - 1
    /\ disk[d][a] # kind
    /\ disk' = [disk EXCEPT ![d][a] = kind]
    /\ changed' = (changed \/ d \in watches)
    /\ late' = (late \/ d \notin watches)
    /\ UNCHANGED <<watches, apps, loaders>>

AppsNext ==
    /\ \/ TriggerFires
       \/ \E who \in DOMAIN loaders : LoadStep(who) \/ LoadEnds(who)
       \/ \E d \in 1..NumDirs, a \in AppIds, kind \in {"none", "hidden", "shown"} : InstallApp(d, a, kind)
    /\ UNCHANGED <<tools, clipVars>>

-----------------------------------------------------------------------------
(* The clipboard.                                                          *)

\* Fault: the text is put in front, and stays where it was as well.
PushEntryTwice(h, text) == SubSeq(<<text>> \o h, 1, Min({HistoryLimit, Len(h) + 1}))

\* retain
Without(h, text) ==
    LET upTo[i \in 0..Len(h)] ==
            IF i = 0 THEN <<>>
            ELSE IF h[i] = text THEN upTo[i - 1] ELSE Append(upTo[i - 1], h[i])
    IN  upTo[Len(h)]

PushEntry(h, text) ==
    LET rest == Without(h, text)
    IN  SubSeq(<<text>> \o rest, 1, Min({HistoryLimit, Len(rest) + 1}))

(* wl-paste --watch runs its command for each content, which leaves out    *)
(* what is sensitive; decode_frame what is not text.                       *)
Emitted(text) == IF text \in Texts \ Sensitive THEN <<text>> ELSE <<>>

ClipboardStep == tools = "clipboard" /\ copies > 0 /\ copies' = copies - 1

(* The user copies, here or elsewhere, also by the action of an item.      *)
CopyText(text) ==
    /\ ClipboardStep
    /\ clip' = text
    /\ pipe' = IF watching THEN pipe \o Emitted(text) ELSE pipe
    /\ UNCHANGED <<history, watching, recent>>

(* The loop of watch_clipboard.                                            *)
ReadFrame ==
    /\ tools = "clipboard" /\ pipe # <<>>
    /\ history' = PushEntry(history, Head(pipe)) /\ recent' = Head(pipe)
    /\ pipe' = Tail(pipe)
    /\ UNCHANGED <<clip, watching, copies>>

(* The action of an item, which may have left the history since.           *)
RemoveEntry(text) ==
    /\ ClipboardStep
    /\ history' = Without(history, text)
    /\ recent' = IF recent = text THEN NoText ELSE recent
    /\ UNCHANGED <<clip, watching, pipe>>

(* The watcher ends, maybe with an error before all was read, and is run   *)
(* again two seconds later; it begins with the content of the moment.      *)
WatcherExits ==
    /\ ClipboardStep /\ watching
    /\ watching' = FALSE /\ pipe' = <<>>
    /\ UNCHANGED <<history, clip, recent>>

WatcherStarts ==
    /\ tools = "clipboard" /\ ~watching
    /\ watching' = TRUE /\ pipe' = Emitted(clip)
    /\ UNCHANGED <<history, clip, recent, copies>>

ClipboardNext ==
    /\ \/ WatcherExits \/ WatcherStarts \/ ReadFrame
       \/ \E text \in Texts : CopyText(text) \/ RemoveEntry(text)
    /\ UNCHANGED <<tools, appVars>>

-----------------------------------------------------------------------------
(* When nothing is being read, a search looks at the applications that are *)
(* installed, each once and in the order of precedence, whatever changed   *)
(* while a directory was read; unless nobody watches the change, or the    *)
(* first load was overtaken by a later one.                                *)
AppsFollowDisk ==
    tools = "apps" /\ ~changed /\ ~late /\ loaders = [first |-> Idle, trigger |-> Idle] =>
        \A a \in AppIds :
             LET at == {d \in 1..NumDirs : disk[d][a] = "shown"}
             IN  {d \in DOMAIN apps : a \in apps[d]} = IF at = {} THEN {} ELSE {Min(at)}

(* The history holds each text once, nothing sensitive and no more than    *)
(* its limit, and what was read last is at its front unless it was         *)
(* removed, however often the watcher was restarted in between.            *)
HistoryIsRecent ==
    /\ Len(history) <= HistoryLimit /\ IsInjective(history)
    /\ ToSet(history) \cap Sensitive = {}
    /\ recent # NoText => history # <<>> /\ Head(history) = recent
-----------------------------------------------------------------------------
(* The searches share nothing.                                             *)
searchVars == <<fileVars, rankVars, internalVars>>

SearchInit == FilesInit /\ RankInit /\ (AppsInit \/ ClipboardInit)

SearchNext ==
    \/ FilesNext /\ UNCHANGED <<rankVars, internalVars>>
    \/ RankNext /\ UNCHANGED <<fileVars, internalVars>>
    \/ (AppsNext \/ ClipboardNext) /\ UNCHANGED <<fileVars, rankVars>>

SearchSpec == SearchInit /\ [][SearchNext]_searchVars

(* A search looks at what is there and shows the best of it: the files and *)
(* the applications on disk, and what was copied last (the internal        *)
(* extension).                                                             *)
SearchIsCurrent == IndexFollowsTree /\ RankIsGlobal /\ AppsFollowDisk /\ HistoryIsRecent
=============================================================================
