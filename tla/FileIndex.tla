----------------------------- MODULE FileIndex ------------------------------
(***************************************************************************)
(* The file index of the internal extension                                *)
(* (plugins/extensions/internal/src/file_search/mod.rs) on Linux, where    *)
(* every directory is watched on its own.                                  *)
(*                                                                         *)
(* Two threads share the entries and the watcher: paloma-file-index scans  *)
(* the root once, watches what it found and publishes it;                  *)
(* paloma-file-watch takes the directories the debouncer reports as dirty, *)
(* lists them again and applies the difference.  The user's programs       *)
(* change the tree meanwhile, and a change is reported only if the         *)
(* directory it happens in is watched at that moment.                      *)
(*                                                                         *)
(* A path is a sequence of names below the root, which is <<>>.  Names     *)
(* that the walker skips (hidden, ignored, excluded) do not occur.         *)
(*                                                                         *)
(* The second part is the ranking of a query, on an index of its own.      *)
(***************************************************************************)
EXTENDS Integers, Sequences, FiniteSets, Bags, SequencesExt

CONSTANTS
    Paths,       \* the paths below the root
    MaxEntries,  \* MAX_ENTRIES: the budget of one scan
    MaxChanges,  \* bound: how often the tree changes
    FileKinds,   \* the files a ranking meets: [score, depth, name]
    MaxFiles,    \* bound: files in a ranked index
    MaxResults,  \* MAX_RESULTS
    ChunkSize    \* the files of one ranking task

Root == <<>>
Parent(p) == SubSeq(p, 1, Len(p) - 1)
InSubtree(p, prefix) ==
    Len(prefix) <= Len(p) /\ SubSeq(p, 1, Len(prefix)) = prefix

\* A FileEntry, [path, dir], without its depth, which is the length of its path.
NoEntry == [path |-> Root, dir |-> FALSE]

ASSUME PathsAssumption ==
    /\ Paths \subseteq Seq(Nat) /\ IsFiniteSet(Paths)
    /\ \A p \in Paths : Len(p) > 0 /\ (Len(p) > 1 => Parent(p) \in Paths)
    /\ MaxEntries \in Nat

ASSUME RankAssumption ==
    /\ MaxResults \in Nat \ {0} /\ ChunkSize \in Nat \ {0}
    /\ FileKinds \subseteq [score : Nat, depth : Nat, name : Nat]

VARIABLES
    tree,     \* what is on disk: Paths -> {"none", "file", "dir"}
    watched,  \* the directories with a live watch
    events,   \* directories with a change the debouncer still holds back
    dirty,    \* the dirty channel, its batches merged
    entries,  \* the index: a bag of entries
    indexer,  \* paloma-file-index: where it is and what it has scanned
    rescan,   \* paloma-file-watch: where it is and what it has gathered
    missed,   \* history: changed paths that nobody has looked at since
    overlap,  \* history: a rescan read the index before it was published
    revived,  \* history: directories a rescan gave up and then found again
    changes   \* the changes made

fileVars == <<tree, watched, events, dirty, entries, indexer, rescan, missed,
              overlap, revived, changes>>

EmptyTree == [p \in Paths |-> "none"]
Trees == {t \in [Paths -> {"none", "file", "dir"}] :
            \A p \in Paths : (Len(p) > 1 /\ t[p] # "none") => t[Parent(p)] = "dir"}

NoRescan == [at |-> "idle", batch |-> {}, known |-> {}, files |-> {},
            subtrees |-> {}, adds |-> {}, adding |-> NoEntry, found |-> {}]

FilesRest(where) ==
    /\ watched = {} /\ events = {} /\ dirty = {} /\ entries = EmptyBag
    /\ indexer = [at |-> where, found |-> {}]
    /\ rescan = NoRescan
    /\ missed = {} /\ overlap = FALSE /\ revived = {} /\ changes = 0

OnDisk(d) == d = Root \/ (d \in Paths /\ tree[d] = "dir")
Below(d) == {p \in Paths : p # d /\ InSubtree(p, d) /\ tree[p] # "none"}
Children(d) == {p \in Below(d) : Len(p) = Len(d) + 1}
EntryAt(p) == [path |-> p, dir |-> tree[p] = "dir"]

-----------------------------------------------------------------------------
(* The file system and the watcher (external).                             *)

\* A watched directory reports what is created, removed or renamed in it.
Report(p) ==
    /\ events' = events \cup ({Parent(p)} \cap watched)
    /\ missed' = missed \cup (IF Parent(p) \in watched THEN {} ELSE {p})

Create(p, kind) ==
    /\ changes < MaxChanges /\ changes' = changes + 1
    /\ OnDisk(Parent(p)) /\ tree[p] = "none"
    /\ tree' = [tree EXCEPT ![p] = kind]
    /\ Report(p)
    /\ UNCHANGED <<watched, dirty, entries, indexer, rescan, overlap, revived>>

\* A whole subtree leaves in one rename: only its own parent reports it, and
\* the watches of its directories leave with it.
MoveAway(p) ==
    /\ changes < MaxChanges /\ changes' = changes + 1
    /\ tree[p] # "none"
    /\ tree' = [q \in Paths |-> IF InSubtree(q, p) THEN "none" ELSE tree[q]]
    /\ watched' = {d \in watched : ~InSubtree(d, p)}
    /\ events' = events \cup ({Parent(p)} \cap watched)
    /\ missed' = missed \cup Below(p)
                   \cup (IF Parent(p) \in watched THEN {} ELSE {p})
    /\ UNCHANGED <<dirty, entries, indexer, rescan, overlap, revived>>

\* The debouncer's callback: dirty_dirs maps the events to their parents.
Debounce ==
    /\ events # {}
    /\ dirty' = dirty \cup events /\ events' = {}
    /\ UNCHANGED <<tree, watched, entries, indexer, rescan, missed, overlap, revived, changes>>

-----------------------------------------------------------------------------
(* scan: the walk visits parents before children, in an order of its own,  *)
(* and stops when the budget is spent.                                     *)
Scans(d) ==
    LET all == {EntryAt(p) : p \in Below(d)} IN
    IF Cardinality(all) <= MaxEntries THEN {all}
    ELSE {found \in SUBSET all :
            /\ Cardinality(found) = MaxEntries
            /\ \A e \in found : Parent(e.path) = d
                                  \/ [path |-> Parent(e.path), dir |-> TRUE] \in found}

\* What a scan of d leaves unknown: the paths beyond its budget.
MissedAfterScan(d, found) ==
    {p \in missed : ~InSubtree(p, d)}
      \cup {p \in Below(d) : EntryAt(p) \notin found}

DirPaths(found) == {e.path : e \in {f \in found : f.dir}}

\* watch_dirs: a directory that is gone by now cannot be watched.
Watch(dirs) == watched' = watched \cup {d \in dirs : OnDisk(d)}

-----------------------------------------------------------------------------
(* The thread paloma-file-index.                                           *)
IndexScan ==
    /\ indexer.at = "scan"
    /\ \E found \in Scans(Root) :
         /\ indexer' = [at |-> "watch", found |-> found]
         /\ missed' = MissedAfterScan(Root, found)
    /\ UNCHANGED <<tree, watched, events, dirty, entries, rescan, overlap, revived, changes>>

IndexWatch ==
    /\ indexer.at = "watch"
    /\ Watch({Root} \cup DirPaths(indexer.found))
    /\ indexer' = [indexer EXCEPT !.at = "publish"]
    /\ UNCHANGED <<tree, events, dirty, entries, rescan, missed, overlap, revived, changes>>

IndexPublish ==
    /\ indexer.at = "publish"
    /\ entries' = entries (+) SetToBag(indexer.found)
    /\ indexer' = [at |-> "done", found |-> {}]
    /\ UNCHANGED <<tree, watched, events, dirty, rescan, missed, overlap, revived, changes>>

-----------------------------------------------------------------------------
(* The thread paloma-file-watch: rescan_dirs.                              *)

\* The backlog becomes one batch, and one read pass remembers the index.
TakeBatch ==
    /\ rescan.at = "idle" /\ dirty # {}
    /\ rescan' = [NoRescan EXCEPT !.at = "list", !.batch = dirty,
                                 !.known = BagToSet(entries)]
    /\ dirty' = {}
    /\ overlap' = (overlap \/ indexer.at # "done")
    /\ UNCHANGED <<tree, watched, events, entries, indexer, missed, revived, changes>>

Indexed(d) == d = Root \/ [path |-> d, dir |-> TRUE] \in rescan.known
KnownIn(d) == {e \in rescan.known : Parent(e.path) = d}
CurrentIn(d) == {EntryAt(p) : p \in Children(d)}

\* Fault: the difference is taken on paths alone.
DiffOnPaths(d) ==
    LET paths(es) == {e.path : e \in es} IN
    [gone |-> {e \in KnownIn(d) : e.path \notin paths(CurrentIn(d))},
     new  |-> {e \in CurrentIn(d) : e.path \notin paths(KnownIn(d))}]

\* The difference on (path, kind): an entry whose kind changed goes and comes.
Diff(d) == [gone |-> KnownIn(d) \ CurrentIn(d), new |-> CurrentIn(d) \ KnownIn(d)]

\* The listing of a directory above d, or that of d, saw that it was gone.
GivenUp(d) == \E s \in rescan.subtrees : InSubtree(d, s)

\* One directory of the batch, parents before the directories below them.
ListDir ==
    /\ rescan.at = "list"
    /\ \E d \in rescan.batch :
         /\ \A other \in rescan.batch \ {d} : ~InSubtree(d, other)
         /\ LET diff == Diff(d)
                left == rescan.batch \ {d}
                next == [rescan EXCEPT !.batch = left,
                                       !.at = IF left = {} THEN "remove" ELSE "list"]
            IN  CASE ~Indexed(d) -> rescan' = next /\ UNCHANGED missed
                  [] Indexed(d) /\ ~OnDisk(d) ->
                       /\ rescan' = [next EXCEPT !.subtrees = @ \cup {d}]
                       /\ UNCHANGED missed
                  [] OTHER ->
                       /\ rescan' = [next EXCEPT
                            !.files = @ \cup {e.path : e \in {g \in diff.gone : ~g.dir}},
                            !.subtrees = @ \cup DirPaths(diff.gone),
                            !.adds = @ \cup diff.new]
                       /\ missed' = {p \in missed : Parent(p) # d}
         /\ revived' = revived \cup (IF Indexed(d) /\ OnDisk(d) /\ GivenUp(d) THEN {d} ELSE {})
    /\ UNCHANGED <<tree, watched, events, dirty, entries, indexer, overlap, changes>>

\* Where the additions go on: at the next one, or nowhere.
ToAdd(adds) == IF adds = {} THEN NoRescan
               ELSE [NoRescan EXCEPT !.at = "add", !.adds = adds]

Dead(e) == e.path \in rescan.files \/ \E d \in rescan.subtrees : InSubtree(e.path, d)

ApplyRemovals ==
    LET gone == {e \in BagToSet(entries) : Dead(e)} IN
    /\ rescan.at = "remove"
    /\ entries' = [e \in BagToSet(entries) \ gone |-> entries[e]]
    /\ watched' = watched \ DirPaths(gone)
    /\ missed' = {p \in missed : ~\E d \in rescan.subtrees : InSubtree(p, d) /\ p # d
                                                              /\ tree[p] = "none"}
    /\ rescan' = ToAdd(rescan.adds)
    /\ UNCHANGED <<tree, events, dirty, indexer, overlap, revived, changes>>

\* A new file is pushed at once; a new directory is scanned first ...
AddFile ==
    /\ rescan.at = "add"
    /\ \E e \in rescan.adds :
         /\ ~e.dir
         /\ entries' = entries (+) SetToBag({e})
         /\ rescan' = ToAdd(rescan.adds \ {e})
    /\ UNCHANGED <<tree, watched, events, dirty, indexer, missed, overlap, revived, changes>>

AddScan ==
    /\ rescan.at = "add"
    /\ \E e \in rescan.adds :
         /\ e.dir
         /\ \E found \in Scans(e.path) :
              /\ rescan' = [rescan EXCEPT !.at = "watch", !.adding = e, !.found = found,
                                          !.adds = @ \ {e}]
              /\ missed' = MissedAfterScan(e.path, found)
                             \cup (missed \cap {e.path})
    /\ UNCHANGED <<tree, watched, events, dirty, entries, indexer, overlap, revived, changes>>

\* ... then watched with the directories below it, then pushed.
AddWatch ==
    /\ rescan.at = "watch"
    /\ Watch({rescan.adding.path} \cup DirPaths(rescan.found))
    /\ rescan' = [rescan EXCEPT !.at = "push"]
    /\ UNCHANGED <<tree, events, dirty, entries, indexer, missed, overlap, revived, changes>>

AddPush ==
    /\ rescan.at = "push"
    /\ entries' = entries (+) SetToBag(rescan.found) (+) SetToBag({rescan.adding})
    /\ rescan' = ToAdd(rescan.adds)
    /\ UNCHANGED <<tree, watched, events, dirty, indexer, missed, overlap, revived, changes>>

-----------------------------------------------------------------------------
FilesInit == FilesRest("scan") /\ tree \in Trees

FilesNext ==
    \/ \E p \in Paths, kind \in {"file", "dir"} : Create(p, kind)
    \/ \E p \in Paths : MoveAway(p)
    \/ Debounce
    \/ IndexScan \/ IndexWatch \/ IndexPublish
    \/ TakeBatch \/ ListDir \/ ApplyRemovals
    \/ AddFile \/ AddScan \/ AddWatch \/ AddPush

FilesSpec == FilesInit /\ [][FilesNext]_fileVars

-----------------------------------------------------------------------------
Quiet == /\ indexer.at = "done" /\ rescan.at = "idle"
         /\ events = {} /\ dirty = {}

Known(p) == \A q \in missed \cup revived : ~InSubtree(p, q)

(* Once both threads have nothing left to do, the index shows exactly what *)
(* is on disk, up to the paths that changed in a directory nobody watched  *)
(* and that nobody has looked at since; a directory removed, replaced by a *)
(* file or filled while it was being scanned leaves nothing behind.        *)
(* Excepted are a rescan that starts before the first index is published,  *)
(* and what lies below a directory that one batch gave up, as the listing  *)
(* above it saw no directory there, and then found again when its own turn *)
(* came: the scan of the one may list what the additions of the other, all *)
(* made after the removals, list once more or after it has gone.           *)
IndexFollowsTree ==
    (Quiet /\ ~overlap) =>
      \A p \in Paths : Known(p) =>
        {e \in BagToSet(entries) : e.path = p}
          = (IF tree[p] = "none" THEN {} ELSE {EntryAt(p)})
-----------------------------------------------------------------------------
(***************************************************************************)
(* The ranking: the entries are cut into chunks, every worker keeps the    *)
(* best of its chunk in a bounded heap, and the survivors are sorted and   *)
(* cut once more.  The matcher is external: a file carries the score the   *)
(* pattern gives its name, 0 when it does not match.  Candidates that      *)
(* compare equal are told apart by their position, one of the orders an    *)
(* unstable sort gives.                                                    *)
(***************************************************************************)
VARIABLE files  \* the ranked index, a sequence of FileKinds
rankVars == <<files>>

\* Candidate::cmp: the score, then the shallower path, then the smaller name.
Better(f, g) ==
    \/ f.score > g.score
    \/ /\ f.score = g.score
       /\ f.depth < g.depth \/ (f.depth = g.depth /\ f.name < g.name)

Ahead(i, j) == Better(files[i], files[j])
                 \/ (~Better(files[j], files[i]) /\ i < j)

\* The heap's root: a candidate no other is worse than.
Worst(best) == CHOOSE i \in best : \A j \in best \ {i} : Ahead(j, i)

\* Fault: a full heap keeps what it has.
OfferFirst(best, i) ==
    IF files[i].score = 0 THEN best
    ELSE IF Cardinality(best) < MaxResults THEN best \cup {i}
    ELSE best

Offer(best, i) ==
    IF files[i].score = 0 THEN best
    ELSE IF Cardinality(best) < MaxResults THEN best \cup {i}
    ELSE IF Better(files[i], files[Worst(best)])
         THEN (best \ {Worst(best)}) \cup {i}
    ELSE best

\* top_matches over the positions from..to.
TopMatches(from, to) ==
    LET upTo[i \in (from - 1)..to] == IF i < from THEN {} ELSE Offer(upTo[i - 1], i)
    IN  upTo[to]

Chunks == {<<k * ChunkSize + 1,
             IF (k + 1) * ChunkSize < Len(files) THEN (k + 1) * ChunkSize
             ELSE Len(files)>> :
             k \in 0..((Len(files) - 1) \div ChunkSize)}

\* rank, on a query that is long enough: the positions shown, best first.
Rank ==
    LET merged == UNION {TopMatches(c[1], c[2]) : c \in Chunks}
        shown == IF Cardinality(merged) < MaxResults THEN Cardinality(merged) ELSE MaxResults
        Before(i) == Cardinality({j \in merged : Ahead(j, i)})
    IN  [k \in 1..shown |-> CHOOSE i \in merged : Before(i) = k - 1]

RankInit == files = <<>>
AddToIndex == Len(files) < MaxFiles /\ \E f \in FileKinds : files' = Append(files, f)
RankNext == AddToIndex
RankSpec == RankInit /\ [][RankNext]_rankVars

(* Cutting the work into chunks loses nothing: the files shown are the     *)
(* best of the whole index, best first, as many as there are matches up    *)
(* to the limit.                                                           *)
RankIsGlobal ==
    files # <<>> =>
      LET shown == Rank
          matches == {i \in DOMAIN files : files[i].score > 0}
          left == matches \ {shown[k] : k \in DOMAIN shown}
      IN  /\ Len(shown) + Cardinality(left) = Cardinality(matches)
          /\ Len(shown) = MaxResults \/ left = {}
          /\ \A i, j \in DOMAIN shown : i < j => ~Better(files[shown[j]], files[shown[i]])
          /\ \A k \in DOMAIN shown, i \in left : ~Better(files[i], files[shown[k]])
=============================================================================
