---------------------------- MODULE SearchProofs ----------------------------
(***************************************************************************)
(* Proofs about the searches of the internal extension: what the index of  *)
(* the files, the ranking, the applications and the clipboard show, for    *)
(* any tree, any number of changes and any limits; and about the lists the *)
(* user selects from, the decisions of a chat, the sessions, the results   *)
(* of a search and the models of the footer: what is selected is there,    *)
(* for any rows, any replies and any order in which they arrive.           *)
(***************************************************************************)
EXTENDS InternalSearch, SearchList, FiniteSetTheorems, SequenceTheorems, WellFoundedInduction, TLAPS

-----------------------------------------------------------------------------
(* A set of naturals that is not empty has a least member.                 *)
LEMMA Least ==
  ASSUME NEW T \in SUBSET Nat, T # {}
  PROVE  \E x \in T : \A y \in T : x <= y
  <1> DEFINE R == OpToRel(<, Nat)
  <1>1. IsWellFoundedOn(R, Nat)
    BY NatLessThanWellFounded
  <1>2. R = {ss \in Nat \X Nat : ss[1] < ss[2]}
    BY DEF OpToRel
  <1> HIDE DEF R
  <1>3. PICK x \in T : \A y \in T : ~(<<y, x>> \in R)
    BY <1>1, WFMin
  <1>4. \A y \in T : ~(y < x)
    <2> SUFFICES ASSUME NEW y \in T, y < x PROVE FALSE
      OBVIOUS
    <2>1. <<y, x>> \in {ss \in Nat \X Nat : ss[1] < ss[2]}
      OBVIOUS
    <2> QED
      BY <2>1, <1>2, <1>3
  <1> QED
    BY <1>4

-----------------------------------------------------------------------------
(* Paths.                                                                  *)
Places == Seq(Nat)
Inside(p, q) == InSubtree(p, q) /\ p # q

LEMMA PlaceFacts ==
  ASSUME NEW p \in Places
  PROVE  /\ Len(p) \in Nat /\ p \in [1..Len(p) -> Nat]
         /\ p = Root <=> Len(p) = 0
  BY LenProperties, EmptySeq DEF Places, Root

LEMMA RootIsPlace == Root \in Places
  BY DEF Places, Root

(* The beginning of a path is a path.                                      *)
LEMMA Beginning ==
  ASSUME NEW p \in Places, NEW n \in 0..Len(p)
  PROVE  /\ SubSeq(p, 1, n) \in Places /\ Len(SubSeq(p, 1, n)) = n
         /\ \A i \in 1..n : SubSeq(p, 1, n)[i] = p[i]
  <1>1. Len(p) \in Nat /\ \A i \in 1..n : p[i] \in Nat
    BY PlaceFacts
  <1>2. /\ SubSeq(p, 1, n) \in Seq(Nat)
        /\ Len(SubSeq(p, 1, n)) = IF 1 <= n THEN n - 1 + 1 ELSE 0
        /\ \A i \in 1 .. n - 1 + 1 : SubSeq(p, 1, n)[i] = p[1 + i - 1]
    <2>1. 1 \in Int /\ n \in Int
      BY <1>1
    <2> QED
      BY <1>1, <2>1, SubSeqProperties
  <1>3. n \in Nat
    BY <1>1
  <1>4. ASSUME NEW i \in 1..n
        PROVE  SubSeq(p, 1, n)[i] = p[i]
    <2>1. i \in 1 .. n - 1 + 1 /\ 1 + i - 1 = i
      BY <1>3
    <2> QED
      BY <1>2, <2>1
  <1> QED
    BY <1>2, <1>3, <1>4 DEF Places

LEMMA InSubtreeIs ==
  ASSUME NEW p \in Places, NEW q \in Places
  PROVE  InSubtree(p, q) <=> Len(q) <= Len(p) /\ \A i \in 1..Len(q) : p[i] = q[i]
  <1>1. Len(p) \in Nat /\ Len(q) \in Nat /\ q \in [1..Len(q) -> Nat]
    BY PlaceFacts
  <1>2. CASE Len(q) > Len(p)
    BY <1>1, <1>2 DEF InSubtree
  <1>3. CASE Len(q) <= Len(p)
    <2> DEFINE s == SubSeq(p, 1, Len(q))
    <2>1. Len(q) \in 0..Len(p)
      BY <1>1, <1>3
    <2>2. s \in Places /\ Len(s) = Len(q) /\ \A i \in 1..Len(q) : s[i] = p[i]
      BY <2>1, Beginning
    <2>3. s \in [1..Len(q) -> Nat]
      BY <2>2, PlaceFacts
    <2>4. InSubtree(p, q) <=> s = q
      BY <1>3 DEF InSubtree
    <2> HIDE DEF s
    <2>5. s = q <=> \A i \in 1..Len(q) : s[i] = q[i]
      BY <1>1, <2>3
    <2> QED
      BY <1>3, <2>2, <2>4, <2>5
  <1> QED
    BY <1>1, <1>2, <1>3

LEMMA SamePlace ==
  ASSUME NEW p \in Places, NEW q \in Places, Len(p) = Len(q), \A i \in 1..Len(q) : p[i] = q[i]
  PROVE  p = q
  BY PlaceFacts

LEMMA SubtreeOrder ==
  ASSUME NEW p \in Places, NEW q \in Places, NEW r \in Places
  PROVE  /\ InSubtree(p, p) /\ InSubtree(p, Root)
         /\ InSubtree(Root, p) => p = Root
         /\ InSubtree(p, q) /\ InSubtree(q, r) => InSubtree(p, r)
         /\ InSubtree(p, q) /\ InSubtree(q, p) => p = q
         /\ InSubtree(p, q) /\ InSubtree(p, r) => InSubtree(q, r) \/ InSubtree(r, q)
  <1>0. /\ Len(p) \in Nat /\ Len(q) \in Nat /\ Len(r) \in Nat /\ Len(Root) = 0 /\ Root \in Places
        /\ Len(p) = 0 <=> p = Root
    BY PlaceFacts, RootIsPlace
  <1>1. InSubtree(p, p) /\ InSubtree(p, Root)
    BY <1>0, InSubtreeIs
  <1>2. InSubtree(Root, p) => p = Root
    BY <1>0, InSubtreeIs
  <1>3. InSubtree(p, q) /\ InSubtree(q, r) => InSubtree(p, r)
    BY <1>0, InSubtreeIs
  <1>4. InSubtree(p, q) /\ InSubtree(q, p) => p = q
    <2> SUFFICES ASSUME InSubtree(p, q), InSubtree(q, p) PROVE p = q
      OBVIOUS
    <2>1. Len(p) = Len(q) /\ \A i \in 1..Len(q) : p[i] = q[i]
      BY <1>0, InSubtreeIs
    <2> QED
      BY <2>1, SamePlace
  <1>5. InSubtree(p, q) /\ InSubtree(p, r) => InSubtree(q, r) \/ InSubtree(r, q)
    <2> SUFFICES ASSUME InSubtree(p, q), InSubtree(p, r)
                 PROVE  InSubtree(q, r) \/ InSubtree(r, q)
      OBVIOUS
    <2>1. /\ \A i \in 1..Len(q) : p[i] = q[i]
          /\ \A i \in 1..Len(r) : p[i] = r[i]
      BY InSubtreeIs
    <2>2. CASE Len(r) <= Len(q)
      <3>1. \A i \in 1..Len(r) : q[i] = r[i]
        BY <2>1, <2>2, <1>0
      <3> QED
        BY <3>1, <2>2, InSubtreeIs
    <2>3. CASE Len(q) <= Len(r)
      <3>1. \A i \in 1..Len(q) : r[i] = q[i]
        BY <2>1, <2>3, <1>0
      <3> QED
        BY <3>1, <2>3, InSubtreeIs
    <2> QED
      BY <2>2, <2>3, <1>0
  <1> QED
    BY <1>1, <1>2, <1>3, <1>4, <1>5

LEMMA ParentFacts ==
  ASSUME NEW p \in Places, p # Root
  PROVE  /\ Parent(p) \in Places /\ Len(Parent(p)) = Len(p) - 1 /\ Len(p) > 0
         /\ Inside(p, Parent(p)) /\ ~InSubtree(Parent(p), p)
         /\ \A q \in Places : Inside(p, q) <=> InSubtree(Parent(p), q)
  <1>0. Len(p) \in Nat /\ Len(p) > 0 /\ Len(p) - 1 \in 0..Len(p)
    BY PlaceFacts
  <1>1. /\ Parent(p) \in Places /\ Len(Parent(p)) = Len(p) - 1
        /\ \A i \in 1..(Len(p) - 1) : Parent(p)[i] = p[i]
    BY <1>0, Beginning DEF Parent
  <1>2. Inside(p, Parent(p)) /\ ~InSubtree(Parent(p), p)
    BY <1>0, <1>1, InSubtreeIs DEF Inside
  <1>3. ASSUME NEW q \in Places, Inside(p, q) PROVE InSubtree(Parent(p), q)
    <2>1. /\ Len(q) \in Nat /\ Len(q) <= Len(p)
          /\ \A i \in 1..Len(q) : p[i] = q[i]
      BY <1>3, InSubtreeIs, PlaceFacts DEF Inside
    <2>2. Len(q) # Len(p)
      BY <1>3, <2>1, SamePlace DEF Inside
    <2> QED
      BY <1>0, <1>1, <2>1, <2>2, InSubtreeIs
  <1>4. ASSUME NEW q \in Places, InSubtree(Parent(p), q) PROVE Inside(p, q)
    <2>1. InSubtree(p, q)
      BY <1>1, <1>2, <1>4, SubtreeOrder DEF Inside
    <2>2. p # q
      BY <1>2, <1>4
    <2> QED
      BY <2>1, <2>2 DEF Inside
  <1> QED
    BY <1>0, <1>1, <1>2, <1>3, <1>4

(* Below a path there is a child on the way.                               *)
LEMMA ChildOnTheWay ==
  ASSUME NEW p \in Places, NEW d \in Places, Inside(p, d)
  PROVE  \E c \in Places : c # Root /\ Parent(c) = d /\ InSubtree(p, c)
  <1>0. /\ Len(p) \in Nat /\ Len(d) \in Nat /\ Len(d) <= Len(p)
        /\ \A i \in 1..Len(d) : p[i] = d[i]
    BY PlaceFacts, InSubtreeIs DEF Inside
  <1>1. Len(d) # Len(p)
    BY <1>0, SamePlace DEF Inside
  <1> DEFINE c == SubSeq(p, 1, Len(d) + 1)
  <1>2. Len(d) + 1 \in 0..Len(p)
    BY <1>0, <1>1
  <1>3. c \in Places /\ Len(c) = Len(d) + 1 /\ \A i \in 1..(Len(d) + 1) : c[i] = p[i]
    BY <1>2, Beginning
  <1> HIDE DEF c
  <1>4. c # Root
    BY <1>0, <1>3, PlaceFacts
  <1>5. InSubtree(p, c)
    BY <1>0, <1>2, <1>3, InSubtreeIs
  <1>6. Parent(c) = d
    <2>1. /\ Parent(c) \in Places /\ Len(Parent(c)) = Len(d)
          /\ \A i \in 1..Len(d) : Parent(c)[i] = c[i]
      <3>1. Len(c) - 1 = Len(d) /\ Len(c) - 1 \in 0..Len(c)
        BY <1>0, <1>3
      <3> QED
        BY <3>1, <1>3, Beginning DEF Parent
    <2>2. \A i \in 1..Len(d) : Parent(c)[i] = d[i]
      <3> SUFFICES ASSUME NEW i \in 1..Len(d) PROVE Parent(c)[i] = d[i]
        OBVIOUS
      <3>1. i \in 1..(Len(d) + 1)
        BY <1>0
      <3> QED
        BY <3>1, <2>1, <1>0, <1>3
    <2> QED
      BY <2>1, <2>2, SamePlace
  <1> QED
    <2>1. c \in Places
      BY <1>3
    <2> QED
      BY <2>1, <1>4, <1>5, <1>6, Zenon

(* What holds the parents of its members up to a top holds everything on   *)
(* the way to it.                                                          *)
LEMMA Upwards ==
  ASSUME NEW S \in SUBSET (Places \ {Root}), NEW top \in Places,
         \A p \in S : Parent(p) = top \/ Parent(p) \in S,
         NEW x \in S, NEW q \in Places, InSubtree(x, q), Inside(q, top)
  PROVE  q \in S
  <1> SUFFICES ASSUME q \notin S PROVE FALSE
    OBVIOUS
  <1> DEFINE T == {n \in Nat : \E y \in S : InSubtree(y, q) /\ n = Len(y)}
  <1>1. T \in SUBSET Nat /\ T # {}
    <2>1. Len(x) \in Nat
      BY PlaceFacts
    <2> QED
      BY <2>1
  <1>2. PICK n \in T : \A m \in T : n <= m
    <2> HIDE DEF T
    <2> QED
      BY <1>1, Least
  <1>3. PICK p \in S : InSubtree(p, q) /\ n = Len(p)
    BY <1>2
  <1>4. Inside(p, q) /\ p \in Places /\ p # Root
    BY <1>3 DEF Inside
  <1>5. InSubtree(Parent(p), q) /\ Parent(p) \in Places /\ Len(Parent(p)) = Len(p) - 1
    BY <1>4, ParentFacts
  <1>6. CASE Parent(p) = top
    BY <1>5, <1>6, SubtreeOrder DEF Inside
  <1>7. CASE Parent(p) \in S
    <2>1. Len(p) - 1 \in T
      BY <1>5, <1>7
    <2> QED
      BY <2>1, <1>2, <1>3, <1>1
  <1> QED
    BY <1>3, <1>6, <1>7


-----------------------------------------------------------------------------
(* FileIndex: the invariant.                                               *)

AllPaths == Paths \cup {Root}
AllEntries == [path : Paths, dir : BOOLEAN]
Index == BagToSet(entries)
DirEntry(p) == [path |-> p, dir |-> TRUE]
FileEntry(p) == [path |-> p, dir |-> FALSE]
AtPath(es, p) == {e \in es : e.path = p}
IsDirIn(es, d) == d = Root \/ DirEntry(d) \in es

FilesTypeOK ==
    /\ tree \in Trees
    /\ watched \subseteq AllPaths /\ events \subseteq AllPaths /\ dirty \subseteq AllPaths
    /\ Index \subseteq AllEntries
    /\ indexer \in [at : {"off", "scan", "watch", "publish", "done"}, found : SUBSET AllEntries]
    /\ rescan \in [at : {"idle", "list", "remove", "add", "watch", "push"},
                   batch : SUBSET AllPaths, known : SUBSET AllEntries,
                   files : SUBSET Paths, subtrees : SUBSET Paths, adds : SUBSET AllEntries,
                   adding : [path : AllPaths, dir : BOOLEAN], found : SUBSET AllEntries]
    /\ rescan.at \in {"watch", "push"} => rescan.adding \in AllEntries
    /\ missed \subseteq Paths /\ revived \subseteq AllPaths

(* A rescan gave a directory above up and then found it again: what was    *)
(* added below it may be listed for ever.                                  *)
Lost(p) == \E r \in revived : InSubtree(p, r)

(* The index as it will be once the threads have applied what they hold.   *)
Survivors == {e \in Index : ~Dead(e)}
InHand == IF rescan.at \in {"watch", "push"} THEN rescan.found \cup {rescan.adding} ELSE {}
Future == Survivors \cup rescan.adds \cup indexer.found \cup InHand

Shown(p) == IF tree[p] = "none" THEN {} ELSE {EntryAt(p)}
Right(p) == AtPath(Future, p) = Shown(p)

(* A directory that will be listed, and a path that it will tell about or  *)
(* that nobody was told about.                                             *)
Due(d) == \/ d \in events \cup dirty /\ IsDirIn(Future, d)
          \/ rescan.at = "list" /\ d \in rescan.batch /\ Indexed(d)
Stale(q) == q \in missed \/ Due(Parent(q))

(* What is not right will be: a listing or a scan that is to come tells    *)
(* about the path, or about the first one above it that is unknown.        *)
Waits(p) == \E q \in Paths : InSubtree(p, q) /\ Stale(q) /\ (q = p \/ DirEntry(q) \notin Future)
Covered(p) == \E e \in rescan.adds : e.dir /\ Inside(p, e.path)
Accounted(p) == Right(p) \/ Lost(p) \/ Waits(p) \/ Covered(p)
TreeInv == indexer.at \notin {"off", "scan"} => \A p \in Paths : Accounted(p)

WatchInv == \A d \in watched : OnDisk(d) /\ (IsDirIn(Future, d) \/ Lost(d))

(* The entries of a set hang together below top, with one kind for a path. *)
Closed(es, top) == \A e \in es : Lost(e.path) \/ Parent(e.path) = top \/ DirEntry(Parent(e.path)) \in es
OneKind(es) == \A e, f \in es : e.path = f.path /\ e # f => Lost(e.path)

IndexInv ==
    /\ Closed(Index, Root) /\ OneKind(Index)
    /\ indexer.at # "done" => rescan = NoRescan /\ Index = {}
    /\ indexer.at \in {"off", "scan", "done"} => indexer.found = {}
    /\ Closed(indexer.found, Root) /\ OneKind(indexer.found)

(* What a batch has gathered is out of reach of the directories it has yet *)
(* to list.                                                                *)
Apart(b) ==
    /\ \A e \in rescan.adds : ~InSubtree(Parent(e.path), b)
    /\ \A s \in rescan.subtrees : ~Inside(s, b)
    /\ \A x \in rescan.files : ~InSubtree(Parent(x), b)

ListInv ==
    /\ rescan.at = "list" => rescan.known = Index
    /\ rescan.at # "list" => rescan.batch = {}
    /\ rescan.at \notin {"list", "remove"} => rescan.files = {} /\ rescan.subtrees = {}
    /\ rescan.at = "idle" => rescan.adds = {}
    /\ \A x \in rescan.files : FileEntry(x) \in Index
    /\ \A b \in rescan.batch : Apart(b)

(* An addition has its directory in the index, where it is not yet.        *)
Adds == rescan.adds \cup (IF rescan.at \in {"watch", "push"} THEN {rescan.adding} ELSE {})

AddInv ==
    /\ \A e \in Adds : IsDirIn(Survivors, Parent(e.path)) \/ Lost(e.path)
    /\ \A e \in Adds, f \in Survivors : e.path = f.path => Lost(e.path)
    /\ OneKind(Adds)

ScanInv ==
    rescan.at \in {"watch", "push"} =>
        /\ rescan.adding.dir /\ rescan.adding \notin rescan.adds
        /\ \A f \in rescan.found : Inside(f.path, rescan.adding.path)
        /\ Closed(rescan.found, rescan.adding.path) /\ OneKind(rescan.found)

FilesInv ==
    /\ FilesTypeOK
    /\ ~overlap => WatchInv /\ IndexInv /\ ListInv /\ AddInv /\ ScanInv /\ TreeInv

-----------------------------------------------------------------------------
(* The paths of a tree.                                                    *)

LEMMA PathFacts ==
  ASSUME NEW p \in Paths
  PROVE  /\ p \in Places /\ p # Root /\ Parent(p) \in AllPaths /\ Parent(p) \in Places
         /\ Parent(p) = Root \/ (Parent(p) \in Paths /\ Len(p) > 1)
  <1>1. p \in Places /\ Len(p) > 0 /\ Len(p) \in Nat
    BY PathsAssumption, PlaceFacts DEF Places
  <1>2. p # Root
    BY <1>1, PlaceFacts
  <1>3. Parent(p) \in Places /\ Len(Parent(p)) = Len(p) - 1
    BY <1>1, <1>2, ParentFacts
  <1>4. Len(p) = 1 => Parent(p) = Root
    BY <1>3, PlaceFacts
  <1>5. Len(p) > 1 => Parent(p) \in Paths
    BY PathsAssumption
  <1> QED
    BY <1>1, <1>2, <1>3, <1>4, <1>5 DEF AllPaths

LEMMA AllPlaces == AllPaths \subseteq Places /\ Paths \subseteq Places \ {Root}
  BY PathFacts, RootIsPlace DEF AllPaths

(* What is above a path is a path.                                         *)
LEMMA PathsAbove ==
  ASSUME NEW p \in Paths, NEW q \in Places, InSubtree(p, q), q # Root
  PROVE  q \in Paths
  <1>1. Inside(q, Root)
    BY SubtreeOrder, RootIsPlace DEF Inside
  <1>2. \A x \in Paths : Parent(x) = Root \/ Parent(x) \in Paths
    BY PathFacts
  <1> QED
    BY <1>1, <1>2, AllPlaces, RootIsPlace, Upwards

(* What is above something on disk is a directory on disk.                 *)
LEMMA DirsAbove ==
  ASSUME tree \in Trees, NEW p \in Paths, tree[p] # "none", NEW q \in Places, Inside(p, q)
  PROVE  OnDisk(q)
  <1> DEFINE S == {x \in Paths : tree[x] = "dir"}
  <1>1. \A x \in Paths : tree[x] # "none" => Parent(x) = Root \/ Parent(x) \in S
    <2> SUFFICES ASSUME NEW x \in Paths, tree[x] # "none", Parent(x) # Root PROVE Parent(x) \in S
      OBVIOUS
    <2>1. Parent(x) \in Paths /\ Len(x) > 1
      BY PathFacts
    <2> QED
      BY <2>1 DEF Trees
  <1>2. S \in SUBSET (Places \ {Root}) /\ \A x \in S : Parent(x) = Root \/ Parent(x) \in S
    BY <1>1, AllPlaces
  <1>3. Parent(p) \in Places /\ InSubtree(Parent(p), q)
    BY PathFacts, ParentFacts
  <1>4. CASE Parent(p) = Root
    BY <1>3, <1>4, SubtreeOrder DEF OnDisk
  <1>5. CASE Parent(p) \in S /\ q # Root
    <2>1. Inside(q, Root)
      BY <1>5, SubtreeOrder DEF Inside
    <2>2. q \in S
      <3> HIDE DEF S
      <3> QED
        BY <1>2, <1>3, <1>5, <2>1, RootIsPlace, Upwards
    <2> QED
      BY <2>2 DEF OnDisk
  <1>6. CASE q = Root
    BY <1>6 DEF OnDisk
  <1> QED
    BY <1>1, <1>4, <1>5, <1>6


LEMMA LostBelow ==
  ASSUME revived \subseteq AllPaths, NEW p \in Places, NEW q \in Places, InSubtree(p, q), Lost(q)
  PROVE  Lost(p)
  <1>1. PICK r \in revived : InSubtree(q, r)
    BY DEF Lost
  <1>2. r \in Places
    BY AllPlaces
  <1> QED
    BY <1>1, <1>2, SubtreeOrder DEF Lost

(* What hangs together holds every directory on the way to the top.        *)
LEMMA EntriesAbove ==
  ASSUME revived \subseteq AllPaths, NEW es \in SUBSET AllEntries, NEW top \in Places, Closed(es, top),
         NEW e \in es, ~Lost(e.path), NEW q \in Places, Inside(e.path, q), Inside(q, top)
  PROVE  DirEntry(q) \in es
  <1> DEFINE S == {x \in Paths : DirEntry(x) \in es /\ ~Lost(x)}
  <1>1. ASSUME NEW f \in es, ~Lost(f.path)
        PROVE  Parent(f.path) = top \/ Parent(f.path) \in S
    <2>1. SUFFICES ASSUME Parent(f.path) # top PROVE Parent(f.path) \in S
      OBVIOUS
    <2>2. DirEntry(Parent(f.path)) \in es
      BY <1>1, <2>1 DEF Closed
    <2>3. f.path \in Paths /\ Parent(f.path) \in Paths
      BY <2>2 DEF AllEntries, DirEntry
    <2>4. InSubtree(f.path, Parent(f.path)) /\ f.path \in Places /\ Parent(f.path) \in Places
      BY <2>3, PathFacts, ParentFacts DEF Inside
    <2> QED
      BY <1>1, <2>2, <2>3, <2>4, LostBelow
  <1>2. S \in SUBSET (Places \ {Root})
    BY AllPlaces
  <1>3. \A x \in S : Parent(x) = top \/ Parent(x) \in S
    <2> SUFFICES ASSUME NEW x \in S PROVE Parent(x) = top \/ Parent(x) \in S
      OBVIOUS
    <2>1. DirEntry(x) \in es /\ ~Lost(x) /\ DirEntry(x).path = x
      BY DEF DirEntry
    <2> HIDE DEF S
    <2> QED
      BY <1>1, <2>1
  <1>4. e.path \in Paths /\ e.path \in Places /\ e.path # Root
    BY AllPlaces DEF AllEntries
  <1>5. InSubtree(Parent(e.path), q)
    BY <1>4, ParentFacts
  <1>6. Parent(e.path) # top
    BY <1>5, SubtreeOrder DEF Inside
  <1>7. Parent(e.path) \in S
    <2> HIDE DEF S
    <2> QED
      BY <1>1, <1>6
  <1>8. q \in S
    <2> HIDE DEF S
    <2> QED
      BY <1>2, <1>3, <1>5, <1>7, Upwards
  <1> QED
    BY <1>8

-----------------------------------------------------------------------------
(* The steps of the file system.                                           *)

LEMMA SameHands ==
  ASSUME UNCHANGED <<entries, rescan, indexer, revived>>
  PROVE  /\ Index' = Index /\ Survivors' = Survivors /\ Future' = Future /\ Adds' = Adds
         /\ \A p : Lost(p)' <=> Lost(p)
         /\ \A p : Covered(p)' <=> Covered(p)
         /\ \A d : Indexed(d)' <=> Indexed(d)
         /\ IndexInv' <=> IndexInv
         /\ ListInv' <=> ListInv
         /\ AddInv' <=> AddInv
         /\ ScanInv' <=> ScanInv
  <1>1. Index' = Index
    BY DEF Index
  <1>2. Survivors' = Survivors
    BY <1>1 DEF Survivors, Dead
  <1>3. Future' = Future /\ Adds' = Adds
    BY <1>2 DEF Future, InHand, Adds
  <1>4. \A p : Lost(p)' <=> Lost(p)
    BY DEF Lost
  <1>5. \A p : Covered(p)' <=> Covered(p)
    BY DEF Covered
  <1>6. \A d : Indexed(d)' <=> Indexed(d)
    BY DEF Indexed
  <1>7. /\ \A es, top : Closed(es, top)' <=> Closed(es, top)
        /\ \A es : OneKind(es)' <=> OneKind(es)
    BY <1>4 DEF Closed, OneKind
  <1>8. IndexInv' <=> IndexInv
    BY <1>1, <1>7 DEF IndexInv
  <1>9. ListInv' <=> ListInv
    BY <1>1 DEF ListInv, Apart
  <1>10. AddInv' <=> AddInv
    BY <1>2, <1>3, <1>4, <1>7 DEF AddInv
  <1>11. ScanInv' <=> ScanInv
    BY <1>7 DEF ScanInv
  <1> QED
    BY <1>1, <1>2, <1>3, <1>4, <1>5, <1>6, <1>8, <1>9, <1>10, <1>11


(* A change that is reported, or remembered as one nobody was told of,     *)
(* leaves every path accounted for.                                        *)
LEMMA TreeChange ==
  ASSUME FilesTypeOK, WatchInv, TreeInv, UNCHANGED <<entries, rescan, indexer, revived, dirty>>,
         events \subseteq events', missed \subseteq missed',
         \A p \in Paths : \/ Shown(p)' = Shown(p) \/ p \in missed'
                          \/ Parent(p) \in watched /\ Parent(p) \in events'
  PROVE  TreeInv'
  <1>1. /\ Future' = Future
        /\ \A p : Lost(p)' <=> Lost(p)
        /\ \A p : Covered(p)' <=> Covered(p)
        /\ \A d : Indexed(d)' <=> Indexed(d)
    BY SameHands
  <1>2. \A d : Due(d) => Due(d)'
    BY <1>1 DEF Due, IsDirIn
  <1>3. \A q : Stale(q) => Stale(q)'
    BY <1>2 DEF Stale
  <1>4. \A p : Waits(p) => Waits(p)'
    BY <1>1, <1>3 DEF Waits
  <1>5. ASSUME NEW p \in Paths, Accounted(p) PROVE Accounted(p)'
    <2>1. CASE Shown(p)' = Shown(p)
      <3>1. Right(p) => Right(p)'
        BY <2>1, <1>1 DEF Right
      <3> QED
        BY <3>1, <1>1, <1>4, <1>5 DEF Accounted
    <2>2. CASE p \in missed'
      <3>1. Stale(p)' /\ InSubtree(p, p)
        BY <2>2, AllPlaces, SubtreeOrder DEF Stale
      <3> QED
        BY <3>1 DEF Accounted, Waits
    <2>3. CASE Parent(p) \in watched /\ Parent(p) \in events'
      <3>1. IsDirIn(Future, Parent(p)) \/ Lost(Parent(p))
        BY <2>3 DEF WatchInv
      <3>2. InSubtree(p, p) /\ InSubtree(p, Parent(p)) /\ p \in Places /\ Parent(p) \in Places
        BY PathFacts, ParentFacts, SubtreeOrder DEF Inside
      <3>3. CASE IsDirIn(Future, Parent(p))
        <4>1. Due(Parent(p))'
          BY <2>3, <3>3, <1>1 DEF Due, IsDirIn
        <4> QED
          BY <4>1, <3>2 DEF Accounted, Waits, Stale
      <3>4. CASE Lost(Parent(p))
        <4>1. Lost(p)
          BY <3>2, <3>4, LostBelow DEF FilesTypeOK
        <4> QED
          BY <4>1, <1>1 DEF Accounted
      <3> QED
        BY <3>1, <3>3, <3>4
    <2> QED
      BY <2>1, <2>2, <2>3
  <1> QED
    BY <1>5 DEF TreeInv

LEMMA CreateKeeps ==
  ASSUME FilesInv, NEW p \in Paths, NEW kind \in {"file", "dir"}, Create(p, kind)
  PROVE  FilesInv'
  <1>0. FilesTypeOK /\ tree \in Trees /\ tree \in [Paths -> {"none", "file", "dir"}]
    BY DEF FilesInv, FilesTypeOK, Trees
  <1>1. /\ OnDisk(Parent(p)) /\ tree[p] = "none"
        /\ tree' = [tree EXCEPT ![p] = kind]
        /\ UNCHANGED <<watched, dirty, entries, indexer, rescan, overlap, revived>>
        /\ events' = events \cup ({Parent(p)} \cap watched)
        /\ missed' = missed \cup (IF Parent(p) \in watched THEN {} ELSE {p})
    BY DEF Create, Report
  <1>2. /\ tree' \in [Paths -> {"none", "file", "dir"}]
        /\ \A q \in Paths : tree'[q] = IF q = p THEN kind ELSE tree[q]
    BY <1>0, <1>1
  <1>3. tree' \in Trees
    <2> SUFFICES ASSUME NEW q \in Paths, Len(q) > 1, tree'[q] # "none"
                 PROVE  tree'[Parent(q)] = "dir"
      BY <1>2 DEF Trees
    <2>1. Parent(q) \in Paths /\ Parent(q) # q /\ Parent(q) # Root
      BY PathsAssumption, PathFacts, ParentFacts DEF Inside
    <2>2. CASE q = p
      BY <1>1, <1>2, <2>1, <2>2 DEF OnDisk
    <2>3. CASE q # p
      <3>1. tree[Parent(q)] = "dir"
        BY <1>0, <1>2, <2>3 DEF Trees
      <3> QED
        BY <1>1, <1>2, <2>1, <3>1
    <2> QED
      BY <2>2, <2>3
  <1>4. FilesTypeOK'
    <2>1. Parent(p) \in AllPaths
      BY PathFacts
    <2>2. Index' = Index
      BY <1>1, SameHands
    <2> QED
      BY <1>0, <1>1, <1>3, <2>1, <2>2 DEF FilesTypeOK
  <1>5. ASSUME ~overlap
        PROVE  WatchInv' /\ TreeInv'
    <2>1. WatchInv /\ TreeInv
      BY <1>5 DEF FilesInv
    <2>2. \A d : OnDisk(d) => OnDisk(d)'
      BY <1>1, <1>2 DEF OnDisk
    <2>3. WatchInv'
      BY <1>1, <2>1, <2>2, SameHands DEF WatchInv, IsDirIn
    <2>4. \A q \in Paths \ {p} : Shown(q)' = Shown(q)
      BY <1>2 DEF Shown, EntryAt
    <2>5. p \in missed' \/ (Parent(p) \in watched /\ Parent(p) \in events')
      BY <1>1
    <2>6. TreeInv'
      BY <1>0, <1>1, <2>1, <2>4, <2>5, TreeChange
    <2> QED
      BY <2>3, <2>6
  <1> QED
    BY <1>1, <1>4, <1>5, SameHands DEF FilesInv

LEMMA MoveAwayKeeps ==
  ASSUME FilesInv, NEW p \in Paths, MoveAway(p)
  PROVE  FilesInv'
  <1>0. FilesTypeOK /\ tree \in Trees /\ tree \in [Paths -> {"none", "file", "dir"}]
    BY DEF FilesInv, FilesTypeOK, Trees
  <1>1. /\ tree' = [q \in Paths |-> IF InSubtree(q, p) THEN "none" ELSE tree[q]]
        /\ watched' = {d \in watched : ~InSubtree(d, p)}
        /\ UNCHANGED <<dirty, entries, indexer, rescan, overlap, revived>>
        /\ events' = events \cup ({Parent(p)} \cap watched)
        /\ missed' = missed \cup Below(p) \cup (IF Parent(p) \in watched THEN {} ELSE {p})
    BY DEF MoveAway
  <1>2. /\ tree' \in [Paths -> {"none", "file", "dir"}]
        /\ \A q \in Paths : tree'[q] = IF InSubtree(q, p) THEN "none" ELSE tree[q]
    BY <1>0, <1>1
  <1>3. tree' \in Trees
    <2> SUFFICES ASSUME NEW q \in Paths, Len(q) > 1, tree'[q] # "none"
                 PROVE  tree'[Parent(q)] = "dir"
      BY <1>2 DEF Trees
    <2>1. Parent(q) \in Paths /\ q \in Places /\ Parent(q) \in Places /\ p \in Places
      BY PathsAssumption, PathFacts
    <2>2. ~InSubtree(q, p) /\ tree[q] # "none"
      BY <1>2
    <2>3. InSubtree(q, Parent(q))
      BY PathFacts, ParentFacts DEF Inside
    <2>4. ~InSubtree(Parent(q), p)
      BY <2>1, <2>2, <2>3, SubtreeOrder
    <2>5. tree[Parent(q)] = "dir"
      BY <1>0, <2>2 DEF Trees
    <2> QED
      BY <1>2, <2>1, <2>4, <2>5
  <1>4. FilesTypeOK'
    <2>1. Parent(p) \in AllPaths
      BY PathFacts
    <2>2. Index' = Index
      BY <1>1, SameHands
    <2>3. Below(p) \subseteq Paths
      BY DEF Below
    <2> QED
      BY <1>0, <1>1, <1>3, <2>1, <2>2, <2>3 DEF FilesTypeOK
  <1>5. ASSUME ~overlap
        PROVE  WatchInv' /\ TreeInv'
    <2>1. WatchInv /\ TreeInv
      BY <1>5 DEF FilesInv
    <2>2. \A d : OnDisk(d) /\ ~InSubtree(d, p) => OnDisk(d)'
      BY <1>1, <1>2 DEF OnDisk
    <2>3. WatchInv'
      BY <1>1, <2>1, <2>2, SameHands DEF WatchInv, IsDirIn
    <2>4. ASSUME NEW q \in Paths
          PROVE  \/ Shown(q)' = Shown(q) \/ q \in missed'
                 \/ Parent(q) \in watched /\ Parent(q) \in events'
      <3>1. CASE ~InSubtree(q, p) \/ tree[q] = "none"
        BY <1>2, <3>1 DEF Shown, EntryAt
      <3>2. CASE InSubtree(q, p) /\ tree[q] # "none" /\ q # p
        BY <1>1, <3>2 DEF Below
      <3>3. CASE q = p
        BY <1>1, <3>3
      <3> QED
        BY <3>1, <3>2, <3>3
    <2>5. TreeInv'
      BY <1>0, <1>1, <2>1, <2>4, TreeChange
    <2> QED
      BY <2>3, <2>5
  <1> QED
    BY <1>1, <1>4, <1>5, SameHands DEF FilesInv

LEMMA DebounceKeeps ==
  ASSUME FilesInv, Debounce
  PROVE  FilesInv'
  <1>1. /\ dirty' = dirty \cup events /\ events' = {}
        /\ UNCHANGED <<tree, watched, entries, indexer, rescan, missed, overlap, revived>>
    BY DEF Debounce
  <1>2. FilesTypeOK'
    <2>1. Index' = Index
      BY <1>1, SameHands
    <2> QED
      BY <1>1, <2>1 DEF FilesInv, FilesTypeOK
  <1>3. WatchInv' <=> WatchInv
    BY <1>1, SameHands DEF WatchInv, OnDisk, IsDirIn
  <1>4. TreeInv' <=> TreeInv
    <2>1. events' \cup dirty' = events \cup dirty
      BY <1>1
    <2>2. \A d : Due(d)' <=> Due(d)
      BY <1>1, <2>1, SameHands DEF Due, IsDirIn
    <2>3. \A p : Right(p)' <=> Right(p)
      BY <1>1, SameHands DEF Right, Shown, EntryAt
    <2>4. \A p : Waits(p)' <=> Waits(p)
      BY <1>1, <2>2, SameHands DEF Waits, Stale
    <2> QED
      BY <1>1, <2>3, <2>4, SameHands DEF TreeInv, Accounted
  <1> QED
    BY <1>1, <1>2, <1>3, <1>4, SameHands DEF FilesInv


-----------------------------------------------------------------------------
(* The steps of the thread that makes the index.                           *)

LEMMA BagFacts ==
  /\ BagToSet(EmptyBag) = {}
  /\ \A S : BagToSet(SetToBag(S)) = S
  /\ \A A, B : BagToSet(A (+) B) = BagToSet(A) \cup BagToSet(B)
  BY DEF BagToSet, EmptyBag, SetToBag, (+)

(* A scan finds what is there, and the directories on the way to it.       *)
LEMMA ScanFacts ==
  ASSUME tree \in Trees, NEW d \in AllPaths, NEW found \in Scans(d)
  PROVE  /\ found \subseteq AllEntries /\ Closed(found, d) /\ OneKind(found)
         /\ \A f \in found : f.path \in Below(d) /\ Inside(f.path, d) /\ f = EntryAt(f.path)
         /\ \A p \in Below(d) : EntryAt(p) \in found => AtPath(found, p) = Shown(p)
         /\ \A p \in Paths : p \notin Below(d) => AtPath(found, p) = {}
  <1> DEFINE all == {EntryAt(p) : p \in Below(d)}
  <1>1. found \subseteq all
    BY DEF Scans
  <1>2. \A p \in Below(d) : p \in Paths /\ Inside(p, d) /\ tree[p] # "none"
    BY DEF Below, Inside
  <1>3. \A p \in Paths : EntryAt(p) \in AllEntries /\ EntryAt(p).path = p
    BY DEF EntryAt, AllEntries
  <1>4. \A f \in found : f.path \in Below(d) /\ f = EntryAt(f.path)
    <2> SUFFICES ASSUME NEW f \in found PROVE f.path \in Below(d) /\ f = EntryAt(f.path)
      OBVIOUS
    <2>1. PICK p \in Below(d) : f = EntryAt(p)
      BY <1>1
    <2> QED
      BY <2>1, <1>2, <1>3
  <1>5. found \subseteq AllEntries
    BY <1>2, <1>3, <1>4
  <1>6. ASSUME NEW e \in found, Parent(e.path) # d
        PROVE  DirEntry(Parent(e.path)) \in found
    <2>1. CASE found = all
      <3> DEFINE p == e.path
      <3>1. p \in Paths /\ Inside(p, d) /\ tree[p] # "none"
        BY <1>2, <1>4
      <3>2. p \in Places /\ p # Root /\ d \in Places /\ Parent(p) \in Places
        BY <3>1, AllPlaces, PathFacts
      <3>3. InSubtree(Parent(p), d) /\ Inside(p, Parent(p))
        BY <3>1, <3>2, ParentFacts
      <3>4. Parent(p) # Root
        BY <3>2, <3>3, <1>6, SubtreeOrder
      <3>5. Parent(p) \in Paths
        BY <3>1, <3>4, PathFacts
      <3>6. tree[Parent(p)] = "dir"
        BY <3>1, <3>2, <3>3, <3>4, DirsAbove DEF OnDisk
      <3>7. Parent(p) \in Below(d) /\ EntryAt(Parent(p)) = DirEntry(Parent(p))
        BY <3>3, <3>5, <3>6, <1>6 DEF Below, EntryAt, DirEntry
      <3> QED
        BY <2>1, <3>7
    <2>2. CASE found # all
      BY <1>6, <2>2 DEF Scans, DirEntry
    <2> QED
      BY <2>1, <2>2
  <1>7. Closed(found, d)
    BY <1>6 DEF Closed
  <1>8. OneKind(found)
    BY <1>4 DEF OneKind
  <1>9. ASSUME NEW p \in Below(d), EntryAt(p) \in found
        PROVE  AtPath(found, p) = Shown(p)
    BY <1>2, <1>3, <1>4, <1>9 DEF AtPath, Shown
  <1>10. \A p \in Paths : p \notin Below(d) => AtPath(found, p) = {}
    BY <1>4 DEF AtPath
  <1> HIDE DEF all
  <1> QED
    BY <1>2, <1>4, <1>5, <1>7, <1>8, <1>9, <1>10

LEMMA AtPathUnion ==
  ASSUME NEW A, NEW B, NEW p
  PROVE  AtPath(A \cup B, p) = AtPath(A, p) \cup AtPath(B, p)
  BY DEF AtPath

LEMMA NothingBelow ==
  ASSUME NEW p \in Paths
  PROVE  p \notin Below(Root) => Shown(p) = {}
  <1>1. InSubtree(p, Root) /\ p # Root
    BY AllPlaces, SubtreeOrder
  <1> QED
    BY <1>1 DEF Below, Shown

LEMMA NoRescanFacts ==
  ASSUME rescan = NoRescan
  PROVE  /\ Survivors = Index /\ InHand = {} /\ Adds = {} /\ Future = Index \cup indexer.found
         /\ rescan.at = "idle" /\ rescan.batch = {} /\ rescan.files = {} /\ rescan.subtrees = {}
         /\ rescan.adds = {}
  <1>1. /\ rescan.at = "idle" /\ rescan.batch = {} /\ rescan.files = {} /\ rescan.subtrees = {}
        /\ rescan.adds = {}
    BY DEF NoRescan
  <1>2. Survivors = Index
    BY <1>1 DEF Survivors, Dead
  <1> QED
    BY <1>1, <1>2 DEF InHand, Adds, Future

LEMMA NoRescanNext ==
  ASSUME rescan' = NoRescan
  PROVE  /\ Survivors' = Index' /\ InHand' = {} /\ Adds' = {}
         /\ Future' = Index' \cup indexer'.found
         /\ rescan'.at = "idle" /\ rescan'.batch = {} /\ rescan'.files = {} /\ rescan'.subtrees = {}
         /\ rescan'.adds = {}
  <1>1. /\ rescan'.at = "idle" /\ rescan'.batch = {} /\ rescan'.files = {} /\ rescan'.subtrees = {}
        /\ rescan'.adds = {}
    BY DEF NoRescan
  <1>2. Survivors' = Index'
    BY <1>1 DEF Survivors, Dead
  <1> QED
    BY <1>1, <1>2 DEF InHand, Adds, Future

LEMMA FilesInitOK == FilesInit => FilesInv
  <1> SUFFICES ASSUME FilesInit PROVE FilesInv
    OBVIOUS
  <1>1. /\ tree \in Trees /\ watched = {} /\ events = {} /\ dirty = {} /\ entries = EmptyBag
        /\ indexer = [at |-> "scan", found |-> {}] /\ rescan = NoRescan
        /\ missed = {} /\ overlap = FALSE /\ revived = {}
    BY DEF FilesInit, FilesRest
  <1>2. Index = {}
    BY <1>1, BagFacts DEF Index
  <1>3. FilesTypeOK
    <2>1. NoRescan \in [at : {"idle", "list", "remove", "add", "watch", "push"},
               batch : SUBSET AllPaths, known : SUBSET AllEntries,
               files : SUBSET Paths, subtrees : SUBSET Paths, adds : SUBSET AllEntries,
               adding : [path : AllPaths, dir : BOOLEAN], found : SUBSET AllEntries]
      BY DEF NoRescan, NoEntry, AllPaths
    <2>2. NoRescan.at = "idle"
      BY DEF NoRescan
    <2> QED
      BY <1>1, <1>2, <2>1, <2>2 DEF FilesTypeOK
  <1>4. WatchInv /\ TreeInv
    BY <1>1 DEF WatchInv, TreeInv
  <1>5. IndexInv
    BY <1>1, <1>2 DEF IndexInv, Closed, OneKind
  <1>6. ListInv /\ AddInv /\ ScanInv
    BY <1>1, NoRescanFacts DEF ListInv, AddInv, ScanInv, OneKind
  <1> QED
    BY <1>3, <1>4, <1>5, <1>6 DEF FilesInv

LEMMA IndexScanKeeps ==
  ASSUME FilesInv, IndexScan
  PROVE  FilesInv'
  <1>0. PICK found \in Scans(Root) :
          /\ indexer' = [at |-> "watch", found |-> found]
          /\ missed' = MissedAfterScan(Root, found)
    BY DEF IndexScan
  <1>1. /\ indexer.at = "scan" /\ FilesTypeOK /\ tree \in Trees /\ Root \in AllPaths
        /\ UNCHANGED <<tree, watched, events, dirty, entries, rescan, overlap, revived>>
    BY DEF IndexScan, FilesInv, FilesTypeOK, AllPaths
  <1>2. /\ found \subseteq AllEntries /\ Closed(found, Root) /\ OneKind(found)
        /\ \A p \in Below(Root) : EntryAt(p) \in found => AtPath(found, p) = Shown(p)
        /\ \A p \in Paths : p \notin Below(Root) => AtPath(found, p) = {}
    BY <1>0, <1>1, ScanFacts
  <1>3. Index' = Index /\ \A p : Shown(p)' = Shown(p)
    BY <1>1 DEF Index, Shown, EntryAt
  <1>4. missed' \subseteq Paths
    BY <1>0, <1>1 DEF MissedAfterScan, FilesTypeOK, Below
  <1>5. FilesTypeOK'
    BY <1>0, <1>1, <1>2, <1>3, <1>4 DEF FilesTypeOK
  <1>6. ASSUME ~overlap
        PROVE  WatchInv' /\ IndexInv' /\ ListInv' /\ AddInv' /\ ScanInv' /\ TreeInv'
    <2>1. WatchInv /\ IndexInv /\ rescan = NoRescan /\ Index = {}
      BY <1>1, <1>6 DEF FilesInv, IndexInv
    <2>2. rescan' = NoRescan
      BY <1>1, <2>1
    <2>3. /\ Future' = found /\ Adds' = {} /\ Future = indexer.found
          /\ rescan'.at = "idle" /\ rescan'.batch = {} /\ rescan'.files = {} /\ rescan'.subtrees = {}
          /\ rescan'.adds = {}
      BY <1>0, <1>3, <2>1, <2>2, NoRescanFacts, NoRescanNext
    <2>4. /\ \A p : Lost(p)' <=> Lost(p)
          /\ \A es, top : Closed(es, top)' <=> Closed(es, top)
          /\ \A es : OneKind(es)' <=> OneKind(es)
      BY <1>1 DEF Lost, Closed, OneKind
    <2>5. indexer.found = {}
      BY <1>1, <2>1 DEF IndexInv
    <2>6. WatchInv'
      BY <1>1, <2>1, <2>3, <2>4, <2>5 DEF WatchInv, IsDirIn, OnDisk
    <2>7. IndexInv'
      <3>1. Index' = {} /\ indexer'.at = "watch" /\ indexer'.found = found
        BY <1>0, <1>3, <2>1
      <3>2. Closed({}, Root) /\ OneKind({})
        BY DEF Closed, OneKind
      <3> QED
        BY <1>2, <2>2, <2>4, <3>1, <3>2 DEF IndexInv
    <2>8. ListInv' /\ AddInv' /\ ScanInv'
      BY <2>3, <2>4 DEF ListInv, AddInv, ScanInv, OneKind
    <2>9. ASSUME NEW p \in Paths PROVE Accounted(p)'
      <3>1. CASE p \notin Below(Root)
        BY <3>1, <1>2, <1>3, <2>3, NothingBelow DEF Accounted, Right
      <3>2. CASE p \in Below(Root) /\ EntryAt(p) \in found
        BY <3>2, <1>2, <1>3, <2>3 DEF Accounted, Right
      <3>3. CASE p \in Below(Root) /\ EntryAt(p) \notin found
        <4>1. p \in missed' /\ InSubtree(p, p)
          BY <3>3, <1>0, AllPlaces, SubtreeOrder DEF MissedAfterScan
        <4> QED
          BY <4>1 DEF Accounted, Waits, Stale
      <3> QED
        BY <3>1, <3>2, <3>3
    <2> QED
      BY <2>6, <2>7, <2>8, <2>9 DEF TreeInv
  <1> QED
    BY <1>1, <1>5, <1>6 DEF FilesInv


LEMMA DirPathsAre ==
  ASSUME NEW es \in SUBSET AllEntries, NEW d
  PROVE  d \in DirPaths(es) <=> DirEntry(d) \in es
  <1>1. ASSUME NEW e \in es, e.dir PROVE e = DirEntry(e.path)
    <2>1. e \in [path : Paths, dir : BOOLEAN] /\ e.dir = TRUE
      BY <1>1 DEF AllEntries
    <2> QED
      BY <2>1 DEF DirEntry
  <1>2. DirEntry(d).path = d /\ DirEntry(d).dir
    BY DEF DirEntry
  <1> QED
    BY <1>1, <1>2 DEF DirPaths

(* What is watched from now on is in the index to be.                      *)
LEMMA WatchMore ==
  ASSUME FilesTypeOK, WatchInv, NEW dirs, Watch(dirs), \A d \in dirs : IsDirIn(Future, d),
         UNCHANGED <<tree, revived>>, Future' = Future
  PROVE  WatchInv'
  <1>1. \A d : OnDisk(d)' <=> OnDisk(d)
    BY DEF OnDisk
  <1>3. \A d : Lost(d)' <=> Lost(d)
    BY DEF Lost
  <1>4. \A d : IsDirIn(Future, d)' <=> IsDirIn(Future, d)
    BY DEF IsDirIn
  <1>2. watched' = watched \cup {d \in dirs : OnDisk(d)}
    BY DEF Watch
  <1> QED
    BY <1>1, <1>2, <1>3, <1>4 DEF WatchInv

LEMMA IndexWatchKeeps ==
  ASSUME FilesInv, IndexWatch
  PROVE  FilesInv'
  <1>1. /\ indexer.at = "watch" /\ FilesTypeOK
        /\ Watch({Root} \cup DirPaths(indexer.found))
        /\ indexer' = [indexer EXCEPT !.at = "publish"]
        /\ UNCHANGED <<tree, events, dirty, entries, rescan, missed, overlap, revived>>
    BY DEF IndexWatch, FilesInv
  <1>2. indexer'.at = "publish" /\ indexer'.found = indexer.found
    BY <1>1 DEF FilesTypeOK
  <1>3. /\ Index' = Index /\ Survivors' = Survivors /\ Future' = Future /\ Adds' = Adds
    BY <1>1, <1>2 DEF Index, Survivors, Dead, Future, InHand, Adds
  <1>4. FilesTypeOK'
    <2>1. DirPaths(indexer.found) \subseteq AllPaths
      BY <1>1 DEF FilesTypeOK, DirPaths, AllEntries, AllPaths
    <2>2. watched' \subseteq AllPaths
      BY <1>1, <2>1 DEF Watch, FilesTypeOK, AllPaths
    <2> QED
      BY <1>1, <1>3, <2>2 DEF FilesTypeOK
  <1>5. ASSUME ~overlap
        PROVE  WatchInv' /\ IndexInv' /\ ListInv' /\ AddInv' /\ ScanInv' /\ TreeInv'
    <2>1. WatchInv /\ IndexInv /\ ListInv /\ AddInv /\ ScanInv /\ TreeInv
      BY <1>5 DEF FilesInv
    <2>2. /\ \A p : Lost(p)' <=> Lost(p)
          /\ \A es, top : Closed(es, top)' <=> Closed(es, top)
          /\ \A es : OneKind(es)' <=> OneKind(es)
      BY <1>1 DEF Lost, Closed, OneKind
    <2>3. WatchInv'
      <3>1. \A d \in {Root} \cup DirPaths(indexer.found) : IsDirIn(Future, d)
        BY <1>1, DirPathsAre DEF IsDirIn, Future, FilesTypeOK
      <3> QED
        BY <1>1, <1>3, <2>1, <3>1, WatchMore
    <2>4. IndexInv'
      BY <1>1, <1>2, <1>3, <2>1, <2>2 DEF IndexInv
    <2>5. ListInv'
      BY <1>1, <1>3, <2>1 DEF ListInv, Apart
    <2>6. AddInv' /\ ScanInv'
      BY <1>1, <1>3, <2>1, <2>2 DEF AddInv, ScanInv, IsDirIn
    <2>7. ASSUME NEW p \in Paths PROVE Accounted(p)'
      <3>1. Accounted(p)
        BY <1>1, <2>1 DEF TreeInv
      <3>2. \A d : Due(d)' <=> Due(d)
        BY <1>1, <1>3 DEF Due, IsDirIn, Indexed
      <3>3. Right(p)' <=> Right(p)
        BY <1>1, <1>3 DEF Right, Shown, EntryAt
      <3>4. Waits(p)' <=> Waits(p)
        BY <1>1, <1>3, <3>2 DEF Waits, Stale
      <3>5. Covered(p)' <=> Covered(p)
        BY <1>1 DEF Covered
      <3> QED
        BY <2>2, <3>1, <3>3, <3>4, <3>5 DEF Accounted
    <2> QED
      BY <2>3, <2>4, <2>5, <2>6, <2>7 DEF TreeInv
  <1> QED
    BY <1>1, <1>4, <1>5 DEF FilesInv

LEMMA IndexPublishKeeps ==
  ASSUME FilesInv, IndexPublish
  PROVE  FilesInv'
  <1>1. /\ indexer.at = "publish" /\ FilesTypeOK
        /\ entries' = entries (+) SetToBag(indexer.found)
        /\ indexer' = [at |-> "done", found |-> {}]
        /\ UNCHANGED <<tree, watched, events, dirty, rescan, missed, overlap, revived>>
    BY DEF IndexPublish, FilesInv
  <1>2. Index' = Index \cup indexer.found
    BY <1>1, BagFacts DEF Index
  <1>3. FilesTypeOK'
    <2>1. indexer.found \subseteq AllEntries /\ Index \subseteq AllEntries
      BY <1>1 DEF FilesTypeOK
    <2> QED
      BY <1>1, <1>2, <2>1 DEF FilesTypeOK
  <1>4. ASSUME ~overlap
        PROVE  WatchInv' /\ IndexInv' /\ ListInv' /\ AddInv' /\ ScanInv' /\ TreeInv'
    <2>1. WatchInv /\ IndexInv /\ TreeInv
      BY <1>4 DEF FilesInv
    <2>2. /\ \A p : Lost(p)' <=> Lost(p)
          /\ \A es, top : Closed(es, top)' <=> Closed(es, top)
          /\ \A es : OneKind(es)' <=> OneKind(es)
      BY <1>1 DEF Lost, Closed, OneKind
    <2>3. rescan = NoRescan /\ rescan' = NoRescan /\ Index = {} /\ Index' = indexer.found
      BY <1>1, <1>2, <2>1 DEF IndexInv
    <2>4. /\ Future = indexer.found /\ Future' = indexer.found /\ Adds' = {}
          /\ rescan'.at = "idle" /\ rescan'.batch = {} /\ rescan'.files = {} /\ rescan'.subtrees = {}
          /\ rescan'.adds = {}
      BY <1>1, <2>3, NoRescanFacts, NoRescanNext
    <2>5. WatchInv'
      BY <1>1, <2>1, <2>2, <2>4 DEF WatchInv, IsDirIn, OnDisk
    <2>6. IndexInv'
      <3>1. Closed(indexer.found, Root) /\ OneKind(indexer.found)
        BY <2>1 DEF IndexInv
      <3>2. Closed({}, Root) /\ OneKind({})
        BY DEF Closed, OneKind
      <3> QED
        BY <1>1, <2>2, <2>3, <3>1, <3>2 DEF IndexInv
    <2>7. ListInv' /\ AddInv' /\ ScanInv'
      BY <2>4 DEF ListInv, AddInv, ScanInv, OneKind
    <2>8. ASSUME NEW p \in Paths PROVE Accounted(p)'
      <3>1. Accounted(p)
        BY <1>1, <2>1 DEF TreeInv
      <3>2. \A d : Due(d)' <=> Due(d)
        BY <1>1, <2>4 DEF Due, IsDirIn, Indexed
      <3>3. Right(p)' <=> Right(p)
        BY <1>1, <2>4 DEF Right, Shown, EntryAt
      <3>4. Waits(p)' <=> Waits(p)
        BY <1>1, <2>4, <3>2 DEF Waits, Stale
      <3>5. Covered(p)' <=> Covered(p)
        BY <1>1 DEF Covered
      <3> QED
        BY <2>2, <3>1, <3>3, <3>4, <3>5 DEF Accounted
    <2> QED
      BY <2>5, <2>6, <2>7, <2>8 DEF TreeInv
  <1> QED
    BY <1>1, <1>3, <1>4 DEF FilesInv

-----------------------------------------------------------------------------
(* A batch: its listings and its removals.                                 *)

LEMMA TakeBatchKeeps ==
  ASSUME FilesInv, TakeBatch
  PROVE  FilesInv'
  <1>1. /\ rescan.at = "idle" /\ FilesTypeOK
        /\ rescan' = [NoRescan EXCEPT !.at = "list", !.batch = dirty, !.known = BagToSet(entries)]
        /\ dirty' = {} /\ overlap' = (overlap \/ indexer.at # "done")
        /\ UNCHANGED <<tree, watched, events, entries, indexer, missed, revived>>
    BY DEF TakeBatch, FilesInv
  <1>2. /\ rescan' = [at |-> "list", batch |-> dirty, known |-> Index, files |-> {}, subtrees |-> {},
                      adds |-> {}, adding |-> NoEntry, found |-> {}]
        /\ Index' = Index
    BY <1>1 DEF NoRescan, Index
  <1>3. FilesTypeOK'
    <2>1. NoEntry \in [path : AllPaths, dir : BOOLEAN]
      BY DEF NoEntry, AllPaths
    <2> QED
      BY <1>1, <1>2, <2>1 DEF FilesTypeOK
  <1>4. ASSUME ~overlap'
        PROVE  WatchInv' /\ IndexInv' /\ ListInv' /\ AddInv' /\ ScanInv' /\ TreeInv'
    <2>1. WatchInv /\ IndexInv /\ ListInv /\ TreeInv /\ indexer.at = "done"
      BY <1>1, <1>4 DEF FilesInv
    <2>2. /\ \A p : Lost(p)' <=> Lost(p)
          /\ \A es, top : Closed(es, top)' <=> Closed(es, top)
          /\ \A es : OneKind(es)' <=> OneKind(es)
      BY <1>1 DEF Lost, Closed, OneKind
    <2>3. Future = Index
      <3>1. /\ rescan.files = {} /\ rescan.subtrees = {} /\ rescan.adds = {} /\ indexer.found = {}
            /\ rescan.at \notin {"watch", "push"}
        BY <1>1, <2>1 DEF ListInv, IndexInv
      <3>2. Survivors = Index
        BY <3>1 DEF Survivors, Dead
      <3> QED
        BY <3>1, <3>2 DEF Future, InHand
    <2>4. Future' = Index /\ Adds' = {} /\ indexer' = indexer /\ indexer.found = {}
      <3>1. indexer.found = {} /\ indexer' = indexer
        BY <1>1, <2>1 DEF IndexInv
      <3>2. Survivors' = Index
        BY <1>2 DEF Survivors, Dead
      <3> QED
        BY <1>2, <3>1, <3>2 DEF Future, InHand, Adds
    <2>5. WatchInv'
      BY <1>1, <2>1, <2>2, <2>3, <2>4 DEF WatchInv, IsDirIn, OnDisk
    <2>6. IndexInv'
      BY <1>1, <1>2, <2>1, <2>2 DEF IndexInv
    <2>7. ListInv'
      BY <1>2 DEF ListInv, Apart
    <2>8. AddInv' /\ ScanInv'
      BY <1>2, <2>4 DEF AddInv, ScanInv, OneKind
    <2>9. ASSUME NEW p \in Paths PROVE Accounted(p)'
      <3>1. Accounted(p)
        BY <2>1 DEF TreeInv
      <3>2. ASSUME NEW d, Due(d) PROVE Due(d)'
        <4>1. d \in events \cup dirty /\ IsDirIn(Index, d)
          BY <1>1, <2>3, <3>2 DEF Due
        <4>2. CASE d \in events
          BY <1>1, <2>4, <4>1, <4>2 DEF Due, IsDirIn
        <4>3. CASE d \in dirty
          BY <1>2, <4>1, <4>3 DEF Due, IsDirIn, Indexed, DirEntry
        <4> QED
          BY <4>1, <4>2, <4>3
      <3>3. Right(p)' <=> Right(p)
        BY <1>1, <2>3, <2>4 DEF Right, Shown, EntryAt
      <3>4. Waits(p) => Waits(p)'
        BY <1>1, <2>3, <2>4, <3>2 DEF Waits, Stale
      <3>5. ~Covered(p)
        BY <1>1, <2>1 DEF Covered, ListInv
      <3> QED
        BY <2>2, <3>1, <3>3, <3>4, <3>5 DEF Accounted
    <2> QED
      BY <2>5, <2>6, <2>7, <2>8, <2>9 DEF TreeInv
  <1> QED
    BY <1>1, <1>3, <1>4 DEF FilesInv


LEMMA SameLength ==
  ASSUME NEW p \in Places, NEW q \in Places, InSubtree(p, q), Len(p) = Len(q)
  PROVE  p = q
  BY InSubtreeIs, SamePlace

(* Two children of a directory above the same path are one.                *)
LEMMA SameChild ==
  ASSUME NEW p \in Places, NEW a \in Places, NEW b \in Places, a # Root, b # Root,
         Parent(a) = Parent(b), InSubtree(p, a), InSubtree(p, b)
  PROVE  a = b
  <1>1. Len(a) = Len(b)
    BY ParentFacts, PlaceFacts
  <1>2. InSubtree(a, b) \/ InSubtree(b, a)
    BY SubtreeOrder
  <1> QED
    BY <1>1, <1>2, SameLength

LEMMA ChildrenAre ==
  ASSUME NEW d \in AllPaths, NEW p \in Paths
  PROVE  p \in Children(d) <=> Parent(p) = d /\ tree[p] # "none"
  <1>1. p \in Places /\ p # Root /\ d \in Places /\ Parent(p) \in Places
    BY AllPlaces, PathFacts
  <1>2. /\ Len(p) \in Nat /\ Len(d) \in Nat /\ Len(Parent(p)) = Len(p) - 1
        /\ Inside(p, d) <=> InSubtree(Parent(p), d)
    BY <1>1, PlaceFacts, ParentFacts
  <1>3. ASSUME p \in Children(d) PROVE Parent(p) = d /\ tree[p] # "none"
    <2>1. Inside(p, d) /\ tree[p] # "none" /\ Len(p) = Len(d) + 1
      BY <1>3 DEF Children, Below, Inside
    <2> QED
      BY <1>1, <1>2, <2>1, SameLength
  <1>4. ASSUME Parent(p) = d, tree[p] # "none" PROVE p \in Children(d)
    <2>1. Inside(p, d)
      BY <1>1, <1>2, <1>4, SubtreeOrder
    <2>2. Len(p) = Len(d) + 1
      BY <1>2, <1>4
    <2> QED
      BY <1>4, <2>1, <2>2 DEF Children, Below, Inside
  <1> QED
    BY <1>3, <1>4

\* What the listing of a directory does to the batch, whatever it shows.
Lists(d) ==
    /\ rescan.at = "list" /\ d \in rescan.batch
    /\ \A other \in rescan.batch \ {d} : ~InSubtree(d, other)
    /\ rescan'.batch = rescan.batch \ {d}
    /\ rescan'.at = IF rescan.batch \ {d} = {} THEN "remove" ELSE "list"
    /\ rescan'.known = rescan.known
    /\ UNCHANGED <<tree, watched, events, dirty, entries, indexer, overlap>>

LEMMA ListFacts ==
  ASSUME FilesInv, ~overlap, NEW d, Lists(d)
  PROVE  /\ WatchInv /\ IndexInv /\ ListInv /\ AddInv /\ TreeInv /\ FilesTypeOK
         /\ d \in AllPaths /\ d \in Places /\ Apart(d)
         /\ rescan.known = Index /\ Index' = Index /\ Index \subseteq AllEntries
         /\ indexer.at = "done" /\ indexer.found = {}
         /\ Adds = rescan.adds /\ Adds' = rescan'.adds
         /\ Future = Survivors \cup rescan.adds /\ Future' = Survivors' \cup rescan'.adds
         /\ rescan'.at \in {"list", "remove"}
         /\ \A b : b \in rescan'.batch <=> b \in rescan.batch /\ b # d
         /\ \A b \in rescan'.batch : rescan'.at = "list"
  <1>1. WatchInv /\ IndexInv /\ ListInv /\ AddInv /\ TreeInv /\ FilesTypeOK
    BY DEF FilesInv
  <1>2. d \in AllPaths /\ d \in Places /\ Apart(d)
    BY <1>1, AllPlaces DEF Lists, FilesTypeOK, ListInv
  <1>3. rescan.known = Index /\ Index' = Index /\ Index \subseteq AllEntries
    BY <1>1 DEF Lists, ListInv, Index, FilesTypeOK
  <1>4. indexer.at = "done" /\ indexer.found = {}
    <2>1. rescan # NoRescan
      BY DEF Lists, NoRescan
    <2> QED
      BY <1>1, <2>1 DEF IndexInv
  <1>5. rescan.at = "list" /\ rescan'.at \in {"list", "remove"} /\ indexer' = indexer
    BY DEF Lists
  <1>6. InHand = {} /\ InHand' = {} /\ Adds = rescan.adds /\ Adds' = rescan'.adds
    BY <1>5 DEF InHand, Adds
  <1>7. Future = Survivors \cup rescan.adds /\ Future' = Survivors' \cup rescan'.adds
    BY <1>4, <1>5, <1>6 DEF Future
  <1>8. /\ \A b : b \in rescan'.batch <=> b \in rescan.batch /\ b # d
        /\ \A b \in rescan'.batch : rescan'.at = "list"
    BY DEF Lists
  <1> QED
    BY <1>1, <1>2, <1>3, <1>4, <1>5, <1>6, <1>7, <1>8

LEMMA DueKept ==
  ASSUME FilesInv, ~overlap, NEW d, Lists(d), NEW b, b # d, Due(b),
         IsDirIn(Future, b) => IsDirIn(Future, b)'
  PROVE  Due(b)'
  <1>1. events' = events /\ dirty' = dirty /\ rescan'.known = rescan.known
    BY DEF Lists
  <1>2. CASE b \in events \cup dirty /\ IsDirIn(Future, b)
    BY <1>1, <1>2 DEF Due
  <1>3. CASE rescan.at = "list" /\ b \in rescan.batch /\ Indexed(b)
    <2>1. b \in rescan'.batch /\ rescan'.at = "list"
      BY <1>3, ListFacts
    <2> QED
      BY <1>1, <1>3, <2>1 DEF Due, Indexed
  <1> QED
    BY <1>2, <1>3 DEF Due

(* What is not below the listed directory waits for what it waited for.    *)
LEMMA ElsewhereKept ==
  ASSUME FilesInv, ~overlap, NEW d, Lists(d), NEW p \in Paths, NEW q \in Paths, InSubtree(p, q), Stale(q),
         q = p \/ DirEntry(q) \notin Future, ~Inside(q, d),
         \A x \in Places : DirEntry(x) \in Future' /\ ~Inside(x, d) => DirEntry(x) \in Future,
         \A x \in Places : DirEntry(x) \in Future /\ ~InSubtree(x, d) => DirEntry(x) \in Future',
         \A m \in missed : ~Inside(m, d) => m \in missed'
  PROVE  Waits(p)'
  <1>1. d \in Places /\ q \in Places /\ q # Root /\ Parent(q) \in Places
    BY ListFacts, AllPlaces, PathFacts
  <1>2. ~InSubtree(Parent(q), d) /\ Parent(q) # d
    BY <1>1, ParentFacts, SubtreeOrder
  <1>3. Due(Parent(q)) => Due(Parent(q))'
    BY <1>1, <1>2, DueKept DEF IsDirIn
  <1>4. Stale(q)'
    BY <1>3 DEF Stale
  <1>5. q = p \/ DirEntry(q) \notin Future'
    BY <1>1
  <1> QED
    BY <1>4, <1>5 DEF Waits


LEMMA InsideBelow ==
  ASSUME NEW p \in Places, NEW q \in Places, NEW d \in Places, InSubtree(p, q), Inside(q, d)
  PROVE  Inside(p, d)
  BY SubtreeOrder DEF Inside

LEMMA RescanTypes ==
  ASSUME FilesTypeOK, NEW d, Lists(d), rescan'.files \subseteq Paths, rescan'.subtrees \subseteq Paths,
         rescan'.adds \subseteq AllEntries, missed' \subseteq missed, revived' \subseteq revived \cup {d},
         \E b, s, f, x, a : rescan' = [rescan EXCEPT !.batch = b, !.at = a, !.files = f, !.subtrees = s, !.adds = x]
  PROVE  FilesTypeOK'
  <1>1. Index' = Index
    BY DEF Lists, Index
  <1>2. d \in AllPaths
    BY DEF Lists, FilesTypeOK
  <1>3. rescan' \in [at : {"idle", "list", "remove", "add", "watch", "push"},
                 batch : SUBSET AllPaths, known : SUBSET AllEntries,
                 files : SUBSET Paths, subtrees : SUBSET Paths, adds : SUBSET AllEntries,
                 adding : [path : AllPaths, dir : BOOLEAN], found : SUBSET AllEntries]
    <2>1. PICK b, s, f, x, a :
            rescan' = [rescan EXCEPT !.batch = b, !.at = a, !.files = f, !.subtrees = s, !.adds = x]
      OBVIOUS
    <2>2. rescan' = [at |-> rescan'.at, batch |-> rescan'.batch, known |-> rescan.known,
                     files |-> rescan'.files, subtrees |-> rescan'.subtrees, adds |-> rescan'.adds,
                     adding |-> rescan.adding, found |-> rescan.found]
      BY <2>1 DEF FilesTypeOK
    <2>3. rescan'.at \in {"list", "remove"} /\ rescan'.batch \subseteq AllPaths
      BY DEF Lists, FilesTypeOK
    <2> QED
      BY <2>2, <2>3 DEF FilesTypeOK
  <1> QED
    BY <1>1, <1>2, <1>3 DEF Lists, FilesTypeOK

(* A directory that the index does not have is passed over.                *)
LEMMA ListNothing ==
  ASSUME FilesInv, ~overlap, NEW d, Lists(d), ~Indexed(d),
         UNCHANGED <<missed, revived>>, rescan'.files = rescan.files,
         rescan'.subtrees = rescan.subtrees, rescan'.adds = rescan.adds
  PROVE  WatchInv' /\ IndexInv' /\ ListInv' /\ AddInv' /\ ScanInv' /\ TreeInv'
  <1>1. /\ WatchInv /\ IndexInv /\ ListInv /\ AddInv /\ TreeInv
        /\ rescan.known = Index /\ Index' = Index
        /\ indexer.at = "done" /\ indexer.found = {}
        /\ Adds = rescan.adds /\ Adds' = rescan'.adds
        /\ Future = Survivors \cup rescan.adds /\ Future' = Survivors' \cup rescan'.adds
        /\ rescan'.at \in {"list", "remove"}
        /\ \A b : b \in rescan'.batch <=> b \in rescan.batch /\ b # d
    BY ListFacts
  <1>2. /\ UNCHANGED <<tree, watched, events, dirty, entries, indexer, overlap>>
        /\ rescan'.known = rescan.known /\ rescan.at = "list"
    BY DEF Lists
  <1>3. Survivors' = Survivors /\ Future' = Future
    <2>1. Survivors' = Survivors
      BY <1>1 DEF Survivors, Dead
    <2> QED
      BY <1>1, <2>1
  <1>4. /\ \A p : Lost(p)' <=> Lost(p)
        /\ \A es, top : Closed(es, top)' <=> Closed(es, top)
        /\ \A es : OneKind(es)' <=> OneKind(es)
    BY DEF Lost, Closed, OneKind
  <1>5. WatchInv'
    BY <1>1, <1>2, <1>3, <1>4 DEF WatchInv, OnDisk, IsDirIn
  <1>6. IndexInv'
    BY <1>1, <1>2, <1>4 DEF IndexInv
  <1>7. ListInv'
    BY <1>1, <1>2 DEF ListInv, Apart, Lists
  <1>8. AddInv' /\ ScanInv'
    BY <1>1, <1>3, <1>4 DEF AddInv, ScanInv, IsDirIn
  <1>9. ASSUME NEW p \in Paths PROVE Accounted(p)'
    <2>1. Accounted(p)
      BY <1>1 DEF TreeInv
    <2>2. ASSUME NEW b, Due(b) PROVE Due(b)'
      <3>1. CASE b \in events \cup dirty /\ IsDirIn(Future, b)
        BY <3>1, <1>2, <1>3 DEF Due, IsDirIn
      <3>2. CASE rescan.at = "list" /\ b \in rescan.batch /\ Indexed(b)
        <4>1. b # d
          BY <3>2
        <4>2. b \in rescan'.batch /\ rescan'.at = "list"
          BY <3>2, <4>1, ListFacts
        <4> QED
          BY <1>2, <3>2, <4>2 DEF Due, Indexed
      <3> QED
        BY <2>2, <3>1, <3>2 DEF Due
    <2>3. Right(p)' <=> Right(p)
      BY <1>2, <1>3 DEF Right, Shown, EntryAt
    <2>4. Waits(p) => Waits(p)'
      BY <1>3, <2>2 DEF Waits, Stale
    <2>5. Covered(p)' <=> Covered(p)
      BY DEF Covered
    <2> QED
      BY <1>4, <2>1, <2>3, <2>4, <2>5 DEF Accounted
  <1> QED
    BY <1>5, <1>6, <1>7, <1>8, <1>9 DEF TreeInv

(* A directory that is gone is given up with all below it.                 *)
LEMMA ListGone ==
  ASSUME FilesInv, ~overlap, NEW d, Lists(d), Indexed(d), ~OnDisk(d),
         UNCHANGED <<missed, revived>>, rescan'.files = rescan.files,
         rescan'.subtrees = rescan.subtrees \cup {d}, rescan'.adds = rescan.adds
  PROVE  WatchInv' /\ IndexInv' /\ ListInv' /\ AddInv' /\ ScanInv' /\ TreeInv'
  <1>1. /\ WatchInv /\ IndexInv /\ ListInv /\ AddInv /\ TreeInv /\ FilesTypeOK
        /\ d \in AllPaths /\ d \in Places /\ Apart(d)
        /\ rescan.known = Index /\ Index' = Index /\ Index \subseteq AllEntries
        /\ indexer.at = "done" /\ indexer.found = {}
        /\ Adds = rescan.adds /\ Adds' = rescan'.adds
        /\ Future = Survivors \cup rescan.adds /\ Future' = Survivors' \cup rescan'.adds
        /\ rescan'.at \in {"list", "remove"}
        /\ \A b : b \in rescan'.batch <=> b \in rescan.batch /\ b # d
    BY ListFacts
  <1>2. /\ UNCHANGED <<tree, watched, events, dirty, entries, indexer, overlap>>
        /\ rescan'.known = rescan.known /\ rescan.at = "list"
    BY DEF Lists
  <1>3. \A e : e \in Survivors' <=> e \in Survivors /\ ~InSubtree(e.path, d)
    BY <1>1 DEF Survivors, Dead
  <1>4. /\ \A p : Lost(p)' <=> Lost(p)
        /\ \A es, top : Closed(es, top)' <=> Closed(es, top)
        /\ \A es : OneKind(es)' <=> OneKind(es)
    BY DEF Lost, Closed, OneKind
  <1>5. d \in Paths /\ tree[d] # "dir" /\ DirEntry(d) \in Index /\ tree \in Trees
    BY <1>1 DEF OnDisk, Indexed, AllPaths, DirEntry, FilesTypeOK
  <1>6. ASSUME NEW x \in Paths, Inside(x, d) PROVE tree[x] = "none"
    BY <1>1, <1>5, <1>6, DirsAbove
  <1>7. \A x : DirEntry(x).path = x
    BY DEF DirEntry
  <1>8. WatchInv'
    <2> SUFFICES ASSUME NEW w \in watched
                 PROVE  OnDisk(w)' /\ (IsDirIn(Future, w)' \/ Lost(w)')
      BY <1>2 DEF WatchInv
    <2>1. OnDisk(w) /\ OnDisk(w)' /\ (IsDirIn(Future, w) \/ Lost(w))
      BY <1>1, <1>2 DEF WatchInv, OnDisk
    <2>2. CASE DirEntry(w) \in Survivors /\ w # Root
      <3>1. w \in Paths /\ tree[w] = "dir"
        BY <2>1, <2>2 DEF OnDisk
      <3>2. ~InSubtree(w, d)
        BY <3>1, <1>5, <1>6 DEF Inside
      <3> QED
        BY <2>1, <2>2, <3>2, <1>1, <1>3, <1>7 DEF IsDirIn
    <2> QED
      BY <2>1, <2>2, <1>1, <1>4 DEF IsDirIn
  <1>9. IndexInv'
    BY <1>1, <1>2, <1>4 DEF IndexInv
  <1>10. ListInv'
    <2>1. ASSUME NEW b \in rescan'.batch PROVE Apart(b)'
      <3>1. b \in rescan.batch /\ b # d
        BY <1>1
      <3>2. ~Inside(d, b) /\ Apart(b)
        BY <3>1, <1>1 DEF Lists, Inside, ListInv
      <3> QED
        BY <3>2 DEF Apart
    <2> QED
      BY <1>1, <1>2, <2>1 DEF ListInv, Lists
  <1>11. AddInv'
    <2>1. ASSUME NEW e \in Adds'
          PROVE  IsDirIn(Survivors, Parent(e.path))' \/ Lost(e.path)'
      <3>1. IsDirIn(Survivors, Parent(e.path)) \/ Lost(e.path)
        BY <1>1, <2>1 DEF AddInv
      <3>2. ~InSubtree(Parent(e.path), d)
        BY <1>1, <2>1 DEF Apart
      <3> QED
        BY <3>1, <3>2, <1>3, <1>4, <1>7 DEF IsDirIn
    <2>2. Survivors' \subseteq Survivors
      BY <1>3
    <2> QED
      BY <1>1, <1>4, <2>1, <2>2 DEF AddInv
  <1>12. ScanInv'
    BY <1>1 DEF ScanInv
  <1>13. ASSUME NEW p \in Paths PROVE Accounted(p)'
    <2>0. Accounted(p) /\ p \in Places
      BY <1>1, AllPlaces DEF TreeInv
    <2>1. CASE Inside(p, d)
      <3>1. Shown(p)' = {}
        BY <1>2, <1>6, <2>1 DEF Shown
      <3>2. ASSUME NEW e \in Future', e.path = p PROVE FALSE
        <4>1. e \in rescan.adds
          BY <1>1, <1>3, <2>1, <3>2 DEF Inside
        <4>2. ~InSubtree(Parent(p), d)
          BY <4>1, <1>1, <3>2 DEF Apart
        <4> QED
          BY <4>2, <2>0, <2>1, <1>1, PathFacts, ParentFacts
      <3> QED
        BY <3>1, <3>2 DEF Accounted, Right, AtPath
    <2>2. CASE ~Inside(p, d)
      <3>1. \A q \in Paths : InSubtree(p, q) => ~Inside(q, d)
        BY <2>0, <2>2, <1>1, AllPlaces, InsideBelow
      <3>2. /\ \A x \in Places : DirEntry(x) \in Future' => DirEntry(x) \in Future
            /\ \A x \in Places : DirEntry(x) \in Future /\ ~InSubtree(x, d) => DirEntry(x) \in Future'
        BY <1>1, <1>3, <1>7
      <3>3. Waits(p) => Waits(p)'
        BY <3>1, <3>2, ElsewhereKept DEF Waits
      <3>4. Covered(p) => Covered(p)'
        BY DEF Covered
      <3>5. Right(p) => Right(p)' \/ Lost(p)
        <4>1. CASE ~InSubtree(p, d)
          <5>1. AtPath(Future, p)' = AtPath(Future, p)
            BY <1>1, <1>3, <4>1 DEF AtPath
          <5> QED
            BY <5>1, <1>2 DEF Right, Shown, EntryAt
        <4>2. CASE p = d
          <5>1. SUFFICES ASSUME AtPath(Future, p) = Shown(p), ~Lost(p)
                         PROVE  AtPath(Future, p)' = Shown(p)
            BY <1>2 DEF Right, Shown, EntryAt
          <5>2. AtPath(Future, p)' \subseteq AtPath(Future, p)
            BY <1>1, <1>3 DEF AtPath
          <5>3. ASSUME NEW e \in AtPath(Future, p) PROVE e \in rescan.adds
            <6>1. SUFFICES ASSUME e \in Survivors PROVE FALSE
              BY <5>3, <1>1 DEF AtPath
            <6>2. e \in Index /\ e.path = p
              BY <5>3, <6>1 DEF AtPath, Survivors
            <6>3. e = EntryAt(p) /\ ~e.dir
              <7>1. e = EntryAt(p)
                BY <5>1, <5>3 DEF Shown
              <7> QED
                BY <7>1, <4>2, <1>5 DEF EntryAt
            <6>4. e # DirEntry(p)
              BY <6>3 DEF DirEntry
            <6> QED
              BY <6>2, <6>4, <1>1, <1>5, <1>7, <4>2, <5>1 DEF IndexInv, OneKind
          <5>4. AtPath(Future, p) \subseteq AtPath(Future, p)'
            BY <5>3, <1>1 DEF AtPath
          <5> QED
            BY <5>1, <5>2, <5>4
        <4> QED
          BY <4>1, <4>2, <2>2 DEF Inside
      <3> QED
        BY <2>0, <3>3, <3>4, <3>5, <1>4 DEF Accounted
    <2> QED
      BY <2>1, <2>2
  <1> QED
    BY <1>8, <1>9, <1>10, <1>11, <1>12, <1>13 DEF TreeInv


(* What a listing of a directory says: what is gone from it and what is    *)
(* new in it.                                                              *)
LEMMA DiffFacts ==
  ASSUME NEW d \in AllPaths, rescan.known = Index, Index \subseteq AllEntries
  PROVE  /\ \A g : g \in Diff(d).gone <=> g \in Index /\ Parent(g.path) = d
                                           /\ ~(g = EntryAt(g.path) /\ tree[g.path] # "none")
         /\ \A n : n \in Diff(d).new <=> n \in AllEntries /\ Parent(n.path) = d /\ n \notin Index
                                           /\ n = EntryAt(n.path) /\ tree[n.path] # "none"
         /\ Diff(d).gone \subseteq AllEntries /\ Diff(d).new \subseteq AllEntries
  <1>1. \A p \in Paths : EntryAt(p) \in AllEntries /\ EntryAt(p).path = p
    BY DEF EntryAt, AllEntries
  <1>2. \A e : e \in CurrentIn(d) <=> e \in AllEntries /\ Parent(e.path) = d
                                        /\ e = EntryAt(e.path) /\ tree[e.path] # "none"
    <2>1. ASSUME NEW e \in CurrentIn(d)
          PROVE  e \in AllEntries /\ Parent(e.path) = d /\ e = EntryAt(e.path) /\ tree[e.path] # "none"
      <3>1. PICK p \in Children(d) : e = EntryAt(p)
        BY DEF CurrentIn
      <3>2. p \in Paths
        BY DEF Children, Below
      <3>3. Parent(p) = d /\ tree[p] # "none"
        BY <3>2, ChildrenAre
      <3> QED
        BY <1>1, <3>1, <3>2, <3>3
    <2>2. ASSUME NEW e \in AllEntries, Parent(e.path) = d, e = EntryAt(e.path), tree[e.path] # "none"
          PROVE  e \in CurrentIn(d)
      <3>1. e.path \in Paths
        BY DEF AllEntries
      <3>2. e.path \in Children(d)
        BY <2>2, <3>1, ChildrenAre
      <3> QED
        BY <2>2, <3>2 DEF CurrentIn
    <2> QED
      BY <2>1, <2>2
  <1>3. \A e : e \in KnownIn(d) <=> e \in Index /\ Parent(e.path) = d
    BY DEF KnownIn
  <1>4. Diff(d).gone = KnownIn(d) \ CurrentIn(d) /\ Diff(d).new = CurrentIn(d) \ KnownIn(d)
    BY DEF Diff
  <1> QED
    BY <1>2, <1>3, <1>4

\* What the listing of a directory that is there does.
ListsPresent(d) ==
    /\ Lists(d) /\ Indexed(d) /\ OnDisk(d)
    /\ rescan'.files = rescan.files \cup {e.path : e \in {g \in Diff(d).gone : ~g.dir}}
    /\ rescan'.subtrees = rescan.subtrees \cup DirPaths(Diff(d).gone)
    /\ rescan'.adds = rescan.adds \cup Diff(d).new
    /\ missed' = {p \in missed : Parent(p) # d}
    /\ revived' = revived \cup (IF GivenUp(d) THEN {d} ELSE {})

LEMMA PresentFacts ==
  ASSUME FilesInv, ~overlap, NEW d, ListsPresent(d)
  PROVE  /\ \A e : e \in Survivors' <=>
              /\ e \in Survivors
              /\ \A g \in Diff(d).gone : IF g.dir THEN ~InSubtree(e.path, g.path) ELSE e.path # g.path
         /\ \A e \in AllEntries : ~Inside(e.path, d) => (e \in Future' <=> e \in Future)
         /\ \A p : Lost(p) => Lost(p)'
         /\ \A p \in Places : GivenUp(d) /\ Inside(p, d) => Lost(p)'
         /\ \A es, top : Closed(es, top) => Closed(es, top)'
         /\ \A es : OneKind(es) => OneKind(es)'
         /\ \A g \in Diff(d).gone : g \in Index /\ Parent(g.path) = d /\ Inside(g.path, d)
         /\ \A n \in Diff(d).new : n \in AllEntries /\ Parent(n.path) = d /\ Inside(n.path, d)
  <1>1. /\ d \in AllPaths /\ d \in Places /\ rescan.known = Index /\ Index' = Index /\ Index \subseteq AllEntries
        /\ Future = Survivors \cup rescan.adds /\ Future' = Survivors' \cup rescan'.adds
    BY ListFacts DEF ListsPresent
  <1>2. /\ \A g \in Diff(d).gone : g \in Index /\ Parent(g.path) = d
        /\ \A n \in Diff(d).new : n \in AllEntries /\ Parent(n.path) = d
    BY <1>1, DiffFacts
  <1>3. ASSUME NEW x \in Paths, Parent(x) = d PROVE Inside(x, d)
    BY <1>3, AllPlaces, ParentFacts
  <1>4. /\ \A g \in Diff(d).gone : Inside(g.path, d)
        /\ \A n \in Diff(d).new : Inside(n.path, d)
    BY <1>1, <1>2, <1>3 DEF AllEntries
  <1>5. ASSUME NEW e
        PROVE  Dead(e)' <=> \/ Dead(e)
                            \/ \E g \in Diff(d).gone : IF g.dir THEN InSubtree(e.path, g.path)
                                                       ELSE e.path = g.path
    <2>1. e.path \in rescan'.files <=> e.path \in rescan.files
                                         \/ \E g \in Diff(d).gone : ~g.dir /\ e.path = g.path
      BY DEF ListsPresent
    <2>2. \A s : s \in rescan'.subtrees <=> s \in rescan.subtrees
                                              \/ \E g \in Diff(d).gone : g.dir /\ s = g.path
      BY DEF ListsPresent, DirPaths
    <2> QED
      BY <2>1, <2>2 DEF Dead
  <1>6. \A e : e \in Survivors' <=>
              /\ e \in Survivors
              /\ \A g \in Diff(d).gone : IF g.dir THEN ~InSubtree(e.path, g.path) ELSE e.path # g.path
    BY <1>1, <1>5 DEF Survivors
  <1>7. ASSUME NEW e \in AllEntries, ~Inside(e.path, d) PROVE e \in Future' <=> e \in Future
    <2>1. \A g \in Diff(d).gone : IF g.dir THEN ~InSubtree(e.path, g.path) ELSE e.path # g.path
      <3>1. e.path \in Places /\ \A g \in Diff(d).gone : g.path \in Places
        BY <1>1, <1>2, AllPlaces DEF AllEntries
      <3> QED
        BY <1>1, <1>4, <1>7, <3>1, InsideBelow
    <2>2. e \notin Diff(d).new
      BY <1>4, <1>7
    <2> QED
      BY <1>1, <1>6, <2>1, <2>2 DEF ListsPresent
  <1>8. /\ \A p : Lost(p) => Lost(p)'
        /\ \A p \in Places : GivenUp(d) /\ Inside(p, d) => Lost(p)'
    BY DEF Lost, ListsPresent, Inside
  <1>9. /\ \A es, top : Closed(es, top) => Closed(es, top)'
        /\ \A es : OneKind(es) => OneKind(es)'
    BY <1>8 DEF Closed, OneKind
  <1> QED
    BY <1>2, <1>4, <1>6, <1>7, <1>8, <1>9


LEMMA PresentWatch ==
  ASSUME FilesInv, ~overlap, NEW d, ListsPresent(d)
  PROVE  WatchInv'
  <1>1. /\ WatchInv /\ IndexInv /\ FilesTypeOK /\ d \in AllPaths /\ rescan.known = Index
        /\ Index \subseteq AllEntries
        /\ Future = Survivors \cup rescan.adds /\ Future' = Survivors' \cup rescan'.adds
        /\ UNCHANGED <<tree, watched>> /\ rescan.adds \subseteq rescan'.adds
    BY ListFacts DEF ListsPresent, Lists
  <1>2. SUFFICES ASSUME NEW w \in watched
                 PROVE  OnDisk(w)' /\ (IsDirIn(Future, w)' \/ Lost(w)')
    BY <1>1 DEF WatchInv
  <1>3. OnDisk(w) /\ OnDisk(w)' /\ (IsDirIn(Future, w) \/ Lost(w))
    BY <1>1 DEF WatchInv, OnDisk
  <1>4. CASE Lost(w) \/ w = Root \/ DirEntry(w) \in rescan.adds
    BY <1>1, <1>3, <1>4, PresentFacts DEF IsDirIn
  <1>5. CASE DirEntry(w) \in Survivors /\ w # Root /\ ~Lost(w)
    <2>1. w \in Paths /\ tree[w] = "dir" /\ w \in Places /\ tree \in Trees
      BY <1>1, <1>3, <1>5, AllPlaces DEF OnDisk, FilesTypeOK
    <2>2. DirEntry(w) \in Index /\ DirEntry(w).path = w /\ DirEntry(w).dir
      BY <1>5 DEF Survivors, DirEntry
    <2>3. ASSUME NEW g \in Diff(d).gone
          PROVE  IF g.dir THEN ~InSubtree(w, g.path) ELSE w # g.path
      <3>1. g \in Index /\ g \in AllEntries /\ g.path \in Paths /\ g.path \in Places /\ g.path # Root
        BY <1>1, PresentFacts, AllPlaces DEF AllEntries
      <3>2. CASE ~g.dir /\ w = g.path
        BY <3>1, <3>2, <2>2, <1>1, <1>5 DEF IndexInv, OneKind
      <3>3. CASE g.dir /\ InSubtree(w, g.path)
        <4>1. OnDisk(g.path)
          BY <2>1, <3>1, <3>3, <1>3, DirsAbove DEF Inside
        <4>2. tree[g.path] = "dir"
          BY <3>1, <4>1 DEF OnDisk
        <4>3. g = EntryAt(g.path)
          BY <3>1, <3>3, <4>2 DEF EntryAt, AllEntries
        <4> QED
          BY <4>2, <4>3, <1>1, DiffFacts
      <3> QED
        BY <3>2, <3>3
    <2>4. DirEntry(w) \in Survivors'
      BY <1>5, <2>2, <2>3, PresentFacts
    <2> QED
      BY <1>1, <1>3, <2>4 DEF IsDirIn
  <1> QED
    BY <1>1, <1>3, <1>4, <1>5 DEF IsDirIn

LEMMA PresentLists ==
  ASSUME FilesInv, ~overlap, NEW d, ListsPresent(d)
  PROVE  IndexInv' /\ ListInv' /\ ScanInv'
  <1>1. /\ IndexInv /\ ListInv /\ d \in AllPaths /\ d \in Places
        /\ rescan.known = Index /\ Index' = Index /\ Index \subseteq AllEntries
        /\ indexer.at = "done" /\ indexer.found = {}
        /\ rescan'.at \in {"list", "remove"}
        /\ \A b : b \in rescan'.batch <=> b \in rescan.batch /\ b # d
    BY ListFacts DEF ListsPresent
  <1>2. UNCHANGED indexer /\ rescan'.known = rescan.known /\ rescan.at = "list"
    BY DEF ListsPresent, Lists
  <1>3. IndexInv'
    <2>1. Closed(Index, Root)' /\ OneKind(Index)' /\ Closed(indexer.found, Root)' /\ OneKind(indexer.found)'
      BY <1>1, <1>2, PresentFacts DEF IndexInv
    <2> QED
      BY <1>1, <1>2, <2>1 DEF IndexInv
  <1>4. ASSUME NEW b \in rescan'.batch PROVE Apart(b)'
    <2>1. b \in rescan.batch /\ ~InSubtree(d, b) /\ Apart(b) /\ b \in Places
      BY <1>1, AllPlaces DEF ListsPresent, Lists, ListInv, FilesInv, FilesTypeOK
    <2>2. \A e \in rescan'.adds : ~InSubtree(Parent(e.path), b)
      BY <2>1, PresentFacts DEF Apart, ListsPresent
    <2>3. ASSUME NEW s \in rescan'.subtrees PROVE ~Inside(s, b)
      <3>1. CASE s \in rescan.subtrees
        BY <2>1, <3>1 DEF Apart
      <3>2. CASE s \notin rescan.subtrees
        <4>1. PICK g \in Diff(d).gone : s = g.path
          BY <3>2 DEF ListsPresent, DirPaths
        <4>2. Parent(s) = d /\ s \in Places /\ s # Root
          BY <4>1, <1>1, PresentFacts, AllPlaces DEF AllEntries
        <4> QED
          BY <4>2, <2>1, ParentFacts
      <3> QED
        BY <3>1, <3>2
    <2>4. \A x \in rescan'.files : ~InSubtree(Parent(x), b)
      BY <2>1, PresentFacts DEF Apart, ListsPresent
    <2> QED
      BY <2>2, <2>3, <2>4 DEF Apart
  <1>5. \A x \in rescan'.files : FileEntry(x) \in Index
    <2> SUFFICES ASSUME NEW x \in rescan'.files PROVE FileEntry(x) \in Index
      OBVIOUS
    <2>1. CASE x \in rescan.files
      BY <1>1, <2>1 DEF ListInv
    <2>2. CASE x \notin rescan.files
      <3>1. PICK g \in Diff(d).gone : ~g.dir /\ x = g.path
        BY <2>2 DEF ListsPresent
      <3>2. g \in Index /\ g \in [path : Paths, dir : BOOLEAN] /\ g.dir = FALSE
        BY <1>1, <3>1, PresentFacts DEF AllEntries
      <3>3. g = FileEntry(x)
        BY <3>1, <3>2 DEF FileEntry
      <3> QED
        BY <3>2, <3>3
    <2> QED
      BY <2>1, <2>2
  <1>6. ListInv'
    BY <1>1, <1>2, <1>4, <1>5 DEF ListInv, ListsPresent, Lists
  <1> QED
    BY <1>1, <1>3, <1>6 DEF ScanInv

LEMMA PresentAdds ==
  ASSUME FilesInv, ~overlap, NEW d, ListsPresent(d)
  PROVE  AddInv'
  <1>1. /\ IndexInv /\ ListInv /\ AddInv /\ d \in AllPaths /\ d \in Places /\ Apart(d)
        /\ rescan.known = Index /\ Index' = Index /\ Index \subseteq AllEntries
        /\ Adds = rescan.adds /\ Adds' = rescan.adds \cup Diff(d).new
    BY ListFacts DEF ListsPresent
  <1>2. ASSUME NEW x, ~Inside(x, d), x \in Paths, DirEntry(x) \in Survivors
        PROVE  DirEntry(x) \in Survivors'
    <2>1. ASSUME NEW g \in Diff(d).gone
          PROVE  IF g.dir THEN ~InSubtree(x, g.path) ELSE x # g.path
      <3>1. Inside(g.path, d) /\ g.path \in Places /\ x \in Places
        BY <1>1, <1>2, PresentFacts, AllPlaces DEF AllEntries
      <3> QED
        BY <1>1, <1>2, <3>1, InsideBelow
    <2>2. DirEntry(x).path = x
      BY DEF DirEntry
    <2> QED
      BY <1>2, <2>1, <2>2, PresentFacts
  <1>3. \A x : DirEntry(x) \in Survivors => x \in Paths
    BY <1>1 DEF Survivors, DirEntry, AllEntries
  <1>4. ASSUME NEW e \in Adds'
        PROVE  IsDirIn(Survivors, Parent(e.path))' \/ Lost(e.path)'
    <2>1. CASE e \in rescan.adds
      <3>1. IsDirIn(Survivors, Parent(e.path)) \/ Lost(e.path)
        BY <1>1, <2>1 DEF AddInv
      <3>2. ~Inside(Parent(e.path), d)
        BY <1>1, <2>1 DEF Apart, Inside
      <3> QED
        BY <3>1, <3>2, <1>2, <1>3, PresentFacts DEF IsDirIn
    <2>2. CASE e \in Diff(d).new /\ ~Lost(e.path)'
      <3>1. Parent(e.path) = d /\ Inside(e.path, d) /\ e.path \in Places /\ InSubtree(e.path, d)
        BY <2>2, PresentFacts, AllPlaces DEF AllEntries, Inside
      <3>2. ~GivenUp(d) /\ ~Lost(e.path)
        BY <2>2, <3>1, PresentFacts
      <3>3. ~Lost(d)
        BY <1>1, <3>1, <3>2, LostBelow DEF FilesInv, FilesTypeOK
      <3>4. CASE d # Root
        <4>1. DirEntry(d) \in Index /\ DirEntry(d).path = d /\ DirEntry(d).dir
          BY <1>1, <3>4 DEF ListsPresent, Indexed, DirEntry
        <4>2. d \notin rescan.files
          <5>1. FileEntry(d).path = d /\ ~FileEntry(d).dir
            BY DEF FileEntry
          <5> QED
            BY <5>1, <4>1, <3>3, <1>1 DEF ListInv, IndexInv, OneKind
        <4>3. DirEntry(d) \in Survivors
          BY <4>1, <4>2, <3>2 DEF Survivors, Dead, GivenUp
        <4>4. DirEntry(d) \in Survivors'
          BY <4>3, <1>2, <1>3 DEF Inside
        <4> QED
          BY <4>4, <3>1 DEF IsDirIn
      <3> QED
        BY <3>1, <3>4 DEF IsDirIn
    <2> QED
      BY <1>1, <1>4, <2>1, <2>2
  <1>5. ASSUME NEW e \in Adds', NEW f \in Survivors', e.path = f.path
        PROVE  Lost(e.path)'
    <2>1. f \in Survivors /\ f \in Index
      BY PresentFacts DEF Survivors
    <2>2. CASE e \in rescan.adds
      BY <1>1, <1>5, <2>1, <2>2, PresentFacts DEF AddInv
    <2>3. CASE e \in Diff(d).new
      <3>1. e \in AllEntries /\ Parent(e.path) = d /\ e \notin Index /\ e = EntryAt(e.path)
        BY <2>3, <1>1, DiffFacts
      <3>2. f.path \in Places
        BY <3>1, <1>5, AllPlaces DEF AllEntries
      <3>3. f # EntryAt(f.path)
        BY <3>1, <2>1, <1>5
      <3>4. f \in Diff(d).gone
        BY <3>1, <3>3, <2>1, <1>1, <1>5, DiffFacts
      <3> QED
        BY <3>2, <3>4, <1>5, PresentFacts, SubtreeOrder
    <2> QED
      BY <1>1, <1>5, <2>2, <2>3
  <1>6. ASSUME NEW e \in Adds', NEW f \in Adds', e.path = f.path, e # f
        PROVE  Lost(e.path)'
    <2>1. \A x \in rescan.adds, n \in Diff(d).new : x.path # n.path
      <3>1. \A n \in Diff(d).new : Parent(n.path) = d
        BY PresentFacts
      <3>2. InSubtree(d, d)
        BY <1>1, SubtreeOrder
      <3> QED
        BY <1>1, <3>1, <3>2 DEF Apart
    <2>2. \A n \in Diff(d).new : n = EntryAt(n.path)
      BY <1>1, DiffFacts
    <2>3. e \in rescan.adds /\ f \in rescan.adds
      BY <1>1, <1>6, <2>1, <2>2
    <2> QED
      BY <1>1, <1>6, <2>3, PresentFacts DEF AddInv, OneKind
  <1> QED
    BY <1>4, <1>5, <1>6 DEF AddInv, OneKind


(* A child of the listed directory is right afterwards.                    *)
LEMMA PresentChild ==
  ASSUME FilesInv, ~overlap, NEW d, ListsPresent(d), ~GivenUp(d),
         NEW c \in Paths, Parent(c) = d, ~Lost(c)
  PROVE  AtPath(Future', c) = Shown(c)
  <1>1. /\ IndexInv /\ d \in AllPaths /\ d \in Places /\ Apart(d)
        /\ rescan.known = Index /\ Index \subseteq AllEntries
        /\ Future' = Survivors' \cup rescan.adds \cup Diff(d).new
    BY ListFacts DEF ListsPresent
  <1>2. c \in Places /\ c # Root /\ Inside(c, d) /\ InSubtree(d, d) /\ InSubtree(c, c)
    BY <1>1, AllPlaces, ParentFacts, SubtreeOrder
  <1>3. \A e \in rescan.adds : e.path # c
    BY <1>1, <1>2 DEF Apart
  <1>4. ASSUME NEW e \in Future', e.path = c PROVE e \in Shown(c)
    <2>1. CASE e \in Diff(d).new
      BY <2>1, <1>1, <1>4, DiffFacts DEF Shown
    <2>2. CASE e \in Survivors'
      <3>1. e \in Index
        BY <2>2, PresentFacts DEF Survivors
      <3>2. e \notin Diff(d).gone
        BY <2>2, <1>2, <1>4, PresentFacts
      <3> QED
        BY <3>1, <3>2, <1>1, <1>4, DiffFacts DEF Shown
    <2> QED
      BY <1>1, <1>3, <1>4, <2>1, <2>2
  <1>5. ASSUME tree[c] # "none" PROVE EntryAt(c) \in Future' /\ EntryAt(c).path = c
    <2> DEFINE e == EntryAt(c)
    <2>1. e.path = c /\ e \in AllEntries
      BY DEF EntryAt, AllEntries
    <2> HIDE DEF e
    <2>2. CASE e \notin Index
      <3>1. e \in Diff(d).new
        BY <2>1, <2>2, <1>1, <1>5, DiffFacts DEF e
      <3> QED
        BY <3>1, <2>1, <1>1 DEF e
    <2>3. CASE e \in Index
      <3>1. c \notin rescan.files
        BY <1>1, <1>2 DEF Apart
      <3>2. ASSUME NEW s \in rescan.subtrees, InSubtree(c, s) PROVE FALSE
        <4>1. s \in Places /\ ~Inside(s, d) /\ ~InSubtree(d, s)
          BY <1>1, AllPlaces DEF Apart, GivenUp, FilesInv, FilesTypeOK
        <4>2. Inside(c, s)
          BY <1>2, <3>2, <4>1 DEF Inside
        <4> QED
          BY <4>1, <4>2, <1>2, ParentFacts
      <3>3. e \in Survivors
        BY <2>1, <2>3, <3>1, <3>2 DEF Survivors, Dead
      <3>4. ASSUME NEW g \in Diff(d).gone
            PROVE  IF g.dir THEN ~InSubtree(e.path, g.path) ELSE e.path # g.path
        <4>1. /\ g \in Index /\ Parent(g.path) = d /\ g.path \in Places /\ g.path # Root
              /\ ~(g = EntryAt(g.path) /\ tree[g.path] # "none")
          BY <1>1, DiffFacts, AllPlaces DEF AllEntries
        <4>2. ASSUME c = g.path PROVE FALSE
          <5>1. g # e
            BY <4>1, <4>2, <1>5 DEF e
          <5> QED
            BY <5>1, <4>1, <4>2, <2>1, <2>3, <1>1 DEF IndexInv, OneKind
        <4>3. InSubtree(c, g.path) => c = g.path
          BY <4>1, <1>2, SameChild
        <4> QED
          BY <4>2, <4>3, <2>1
      <3>5. e \in Survivors'
        BY <3>3, <3>4, PresentFacts
      <3> QED
        BY <3>5, <2>1, <1>1 DEF e
    <2> QED
      BY <2>2, <2>3
  <1>6. AtPath(Future', c) \subseteq Shown(c)
    BY <1>4 DEF AtPath
  <1>7. Shown(c) \subseteq AtPath(Future', c)
    BY <1>5 DEF AtPath, Shown
  <1> QED
    BY <1>6, <1>7

(* Nothing below a child moves that was a directory and still is.          *)
LEMMA PresentKeepsBelow ==
  ASSUME FilesInv, ~overlap, NEW d, ListsPresent(d),
         NEW c \in Paths, Parent(c) = d, tree[c] = "dir", ~Lost(c), DirEntry(c) \in Index
  PROVE  \A e \in AllEntries : Inside(e.path, c) => (e \in Future' <=> e \in Future)
  <1>1. /\ IndexInv /\ d \in AllPaths /\ d \in Places
        /\ rescan.known = Index /\ Index \subseteq AllEntries
        /\ Future = Survivors \cup rescan.adds
        /\ Future' = Survivors' \cup rescan.adds \cup Diff(d).new
    BY ListFacts DEF ListsPresent
  <1>2. c \in Places /\ c # Root /\ DirEntry(c) = EntryAt(c) /\ DirEntry(c).path = c /\ DirEntry(c).dir
    BY AllPlaces DEF DirEntry, EntryAt
  <1> SUFFICES ASSUME NEW e \in AllEntries, Inside(e.path, c) PROVE e \in Future' <=> e \in Future
    OBVIOUS
  <1>3. e.path \in Places /\ e.path # Root /\ Parent(e.path) # d
    <2>1. e.path \in Places /\ e.path # Root
      BY AllPlaces DEF AllEntries
    <2> QED
      BY <1>2, <2>1, SubtreeOrder, SameChild DEF Inside
  <1>4. e \notin Diff(d).new
    BY <1>3, PresentFacts
  <1>5. ASSUME NEW g \in Diff(d).gone
        PROVE  IF g.dir THEN ~InSubtree(e.path, g.path) ELSE e.path # g.path
    <2>1. /\ g \in Index /\ Parent(g.path) = d /\ g.path \in Places /\ g.path # Root
          /\ ~(g = EntryAt(g.path) /\ tree[g.path] # "none")
      BY <1>1, DiffFacts, AllPlaces DEF AllEntries
    <2>2. e.path # g.path
      BY <1>3, <2>1
    <2>3. ASSUME g.dir, InSubtree(e.path, g.path) PROVE FALSE
      <3>1. g.path = c
        BY <1>2, <1>3, <2>1, <2>3, SameChild DEF Inside
      <3>2. g # DirEntry(c)
        BY <1>2, <2>1, <3>1
      <3> QED
        BY <3>1, <3>2, <2>1, <1>1, <1>2 DEF IndexInv, OneKind
    <2> QED
      BY <2>2, <2>3
  <1>6. e \in Survivors' <=> e \in Survivors
    BY <1>5, PresentFacts
  <1> QED
    BY <1>1, <1>4, <1>6


(* What is below a child waits on, or is covered by its addition.          *)
LEMMA PresentBelow ==
  ASSUME FilesInv, ~overlap, NEW d, ListsPresent(d), ~GivenUp(d),
         NEW c \in Paths, Parent(c) = d, NEW p \in Paths, Inside(p, c), ~Lost(p), Accounted(p)
  PROVE  Accounted(p)'
  <1>1. /\ IndexInv /\ AddInv /\ FilesTypeOK /\ tree \in Trees
        /\ d \in AllPaths /\ d \in Places /\ Apart(d)
        /\ rescan.known = Index /\ Index \subseteq AllEntries
        /\ Future = Survivors \cup rescan.adds
        /\ Future' = Survivors' \cup rescan.adds \cup Diff(d).new
    BY ListFacts DEF ListsPresent, FilesTypeOK
  <1>2. /\ Lists(d) /\ UNCHANGED tree /\ rescan'.adds = rescan.adds \cup Diff(d).new
        /\ missed' = {m \in missed : Parent(m) # d}
    BY DEF ListsPresent, Lists
  <1>3. DirEntry(c).path = c /\ DirEntry(c).dir /\ DirEntry(c) \in AllEntries
    BY DEF DirEntry, AllEntries
  <1>4. c \in Places /\ c # Root /\ p \in Places /\ p # Root /\ Inside(c, d) /\ ~Inside(d, c)
    BY <1>1, AllPlaces, ParentFacts, SubtreeOrder DEF Inside
  <1>5. ~Lost(c)
    BY <1>1, <1>4, LostBelow DEF FilesTypeOK, Inside
  <1>6. AtPath(Future', c) = Shown(c)
    BY <1>5, PresentChild
  <1>7. CASE tree[c] = "dir" /\ DirEntry(c) \notin Index
    <2>1. DirEntry(c) = EntryAt(c)
      BY <1>7 DEF DirEntry, EntryAt
    <2>2. DirEntry(c) \in Diff(d).new
      BY <1>1, <1>3, <1>7, <2>1, DiffFacts
    <2>3. Covered(p)'
      BY <2>2, <1>2, <1>3 DEF Covered
    <2> QED
      BY <2>3 DEF Accounted
  <1>8. CASE tree[c] = "dir" /\ DirEntry(c) \in Index
    <2>1. \A e \in AllEntries : Inside(e.path, c) => (e \in Future' <=> e \in Future)
      BY <1>5, <1>8, PresentKeepsBelow
    <2>2. DirEntry(c) \in Future'
      <3>1. EntryAt(c) = DirEntry(c) /\ EntryAt(c) \in Shown(c)
        BY <1>8 DEF DirEntry, EntryAt, Shown
      <3> QED
        BY <3>1, <1>6 DEF AtPath
    <2>3. DirEntry(c) \in Future
      <3>1. DirEntry(c) \notin Diff(d).new
        BY <1>1, <1>8, DiffFacts
      <3> QED
        BY <3>1, <2>2, <1>1, PresentFacts
    <2>4. Right(p) => Right(p)'
      <3>1. Future \subseteq AllEntries /\ Future' \subseteq AllEntries
        <4>1. rescan.adds \subseteq AllEntries /\ Diff(d).new \subseteq AllEntries
          BY <1>1, DiffFacts DEF FilesTypeOK
        <4>2. Survivors \subseteq AllEntries /\ Survivors' \subseteq AllEntries
          BY <1>1, PresentFacts DEF Survivors
        <4> QED
          BY <4>1, <4>2, <1>1
      <3>2. AtPath(Future', p) = AtPath(Future, p)
        BY <3>1, <2>1 DEF AtPath
      <3>3. Shown(p)' = Shown(p)
        BY <1>2 DEF Shown, EntryAt
      <3> QED
        BY <3>2, <3>3 DEF Right, AtPath
    <2>5. Covered(p) => Covered(p)'
      BY <1>2 DEF Covered
    <2>6. ASSUME Waits(p) PROVE Waits(p)'
      <3>1. PICK q \in Paths : InSubtree(p, q) /\ Stale(q) /\ (q = p \/ DirEntry(q) \notin Future)
        BY <2>6 DEF Waits
      <3>2. q \in Places /\ q # Root /\ Parent(q) \in Places
        BY AllPlaces, PathFacts
      <3>3. CASE ~Inside(q, d)
        <4>1. ASSUME NEW e \in AllEntries, ~Inside(e.path, d) PROVE e \in Future' <=> e \in Future
          BY <4>1, PresentFacts
        <4>2. \A x \in Places : DirEntry(x) \in Future' /\ ~Inside(x, d) => DirEntry(x) \in Future
          <5>1. \A x : DirEntry(x) \in Future' => DirEntry(x) \in AllEntries /\ DirEntry(x).path = x
            <6>1. rescan.adds \subseteq AllEntries /\ Diff(d).new \subseteq AllEntries
              BY <1>1, DiffFacts DEF FilesTypeOK
            <6>2. Survivors' \subseteq AllEntries
              BY <1>1, PresentFacts DEF Survivors
            <6> QED
              BY <6>1, <6>2, <1>1 DEF DirEntry
          <5> QED
            BY <5>1, <4>1
        <4>3. \A x \in Places : DirEntry(x) \in Future /\ ~InSubtree(x, d) => DirEntry(x) \in Future'
          <5>1. \A x : DirEntry(x) \in Future => DirEntry(x) \in AllEntries /\ DirEntry(x).path = x
            <6>1. rescan.adds \subseteq AllEntries /\ Survivors \subseteq AllEntries
              BY <1>1 DEF FilesTypeOK, Survivors
            <6> QED
              BY <6>1, <1>1 DEF DirEntry
          <5> QED
            BY <5>1, <4>1 DEF Inside
        <4>4. \A m \in missed : ~Inside(m, d) => m \in missed'
          <5>1. \A m \in missed : m \in Places /\ m # Root
            BY <1>1, AllPlaces DEF FilesTypeOK
          <5>2. \A m \in missed : Parent(m) = d => Inside(m, d)
            BY <5>1, ParentFacts
          <5> QED
            BY <5>2, <1>2
        <4> QED
          BY <1>2, <3>1, <3>3, <4>2, <4>3, <4>4, ElsewhereKept
      <3>4. CASE Inside(q, d)
        <4>1. InSubtree(q, c) \/ InSubtree(c, q)
          BY <3>1, <3>2, <1>4, SubtreeOrder DEF Inside
        <4>2. q # c
          BY <3>1, <2>3 DEF Inside
        <4>3. ~InSubtree(c, q)
          <5>1. SUFFICES ASSUME Inside(c, q) PROVE FALSE
            BY <4>2 DEF Inside
          <5>2. InSubtree(d, q)
            BY <5>1, <1>4, <3>2, ParentFacts
          <5> QED
            BY <5>2, <3>4, <3>2, <1>1, SubtreeOrder DEF Inside
        <4>4. Inside(q, c) /\ InSubtree(Parent(q), c)
          BY <4>1, <4>2, <4>3, <1>4, <3>2, ParentFacts DEF Inside
        <4>5. Parent(q) # d
          BY <4>4, <1>4, <1>1, SubtreeOrder DEF Inside
        <4>6. IsDirIn(Future, Parent(q)) => IsDirIn(Future, Parent(q))'
          <5>1. CASE Parent(q) = c
            BY <5>1, <2>2 DEF IsDirIn
          <5>2. CASE Inside(Parent(q), c)
            <6>1. Parent(q) # Root
              BY <5>2, <1>4, SubtreeOrder DEF Inside
            <6>2. DirEntry(Parent(q)) \in AllEntries /\ DirEntry(Parent(q)).path = Parent(q)
              BY <6>1, PathFacts DEF AllEntries, DirEntry
            <6> QED
              BY <2>1, <5>2, <6>2 DEF IsDirIn
          <5> QED
            BY <5>1, <5>2, <4>4 DEF Inside
        <4>7. Due(Parent(q)) => Due(Parent(q))'
          BY <1>2, <4>5, <4>6, DueKept
        <4>8. Stale(q)'
          BY <3>1, <4>5, <4>7, <1>2 DEF Stale
        <4>9. DirEntry(q) \in Future' <=> DirEntry(q) \in Future
          <5>1. DirEntry(q) \in AllEntries /\ DirEntry(q).path = q
            BY DEF AllEntries, DirEntry
          <5> QED
            BY <5>1, <4>4, <2>1
        <4> QED
          BY <3>1, <4>8, <4>9 DEF Waits
      <3> QED
        BY <3>3, <3>4
    <2> QED
      BY <2>4, <2>5, <2>6 DEF Accounted
  <1>9. CASE tree[c] # "dir"
    <2>1. tree[p] = "none"
      <3>1. ~OnDisk(c)
        BY <1>4, <1>9 DEF OnDisk
      <3> QED
        BY <3>1, <1>1, <1>4, DirsAbove
    <2>2. ASSUME NEW e \in Future', e.path = p PROVE FALSE
      <3>1. CASE e \in Diff(d).new
        <4>1. Parent(p) = d
          BY <2>2, <3>1, PresentFacts
        <4>2. InSubtree(d, c)
          BY <4>1, <1>4, ParentFacts
        <4> QED
          BY <4>2, <1>1, <1>4, SubtreeOrder DEF Inside
      <3>2. CASE e \in rescan.adds
        <4>1. ~InSubtree(Parent(p), d) /\ InSubtree(Parent(p), c) /\ Parent(p) \in Places
          BY <3>2, <2>2, <1>1, <1>4, ParentFacts DEF Apart
        <4> QED
          BY <4>1, <1>1, <1>4, SubtreeOrder DEF Inside
      <3>3. CASE e \in Survivors'
        <4>1. e \in Index
          BY <3>3, PresentFacts DEF Survivors
        <4>2. DirEntry(c) \in Index
          <5>1. Inside(c, Root)
            BY <1>4, SubtreeOrder DEF Inside
          <5> QED
            BY <5>1, <4>1, <2>2, <1>1, <1>4, RootIsPlace, EntriesAbove DEF IndexInv, FilesTypeOK
        <4>3. DirEntry(c) # EntryAt(c)
          <5>1. EntryAt(c).dir = FALSE
            BY <1>9 DEF EntryAt
          <5> QED
            BY <5>1 DEF DirEntry
        <4>4. DirEntry(c) \in Diff(d).gone
          BY <4>2, <4>3, <1>1, <1>3, DiffFacts
        <4> QED
          BY <4>4, <3>3, <2>2, <1>3, PresentFacts DEF Inside
      <3> QED
        BY <1>1, <3>1, <3>2, <3>3
    <2>3. Right(p)'
      BY <2>1, <2>2, <1>2 DEF Right, AtPath, Shown
    <2> QED
      BY <2>3 DEF Accounted
  <1> QED
    BY <1>7, <1>8, <1>9

LEMMA PresentTree ==
  ASSUME FilesInv, ~overlap, NEW d, ListsPresent(d)
  PROVE  TreeInv'
  <1>1. /\ TreeInv /\ FilesTypeOK /\ d \in AllPaths /\ d \in Places /\ Index \subseteq AllEntries
        /\ Future = Survivors \cup rescan.adds
        /\ Future' = Survivors' \cup rescan.adds \cup Diff(d).new
        /\ rescan.known = Index
        /\ indexer.at = "done"
    BY ListFacts DEF ListsPresent
  <1>2. /\ Lists(d) /\ UNCHANGED tree /\ rescan'.adds = rescan.adds \cup Diff(d).new
        /\ missed' = {m \in missed : Parent(m) # d}
    BY DEF ListsPresent, Lists
  <1>3. Future \subseteq AllEntries /\ Future' \subseteq AllEntries
    <2>1. rescan.adds \subseteq AllEntries /\ Diff(d).new \subseteq AllEntries
      BY <1>1, DiffFacts DEF FilesTypeOK
    <2>2. Survivors \subseteq AllEntries /\ Survivors' \subseteq AllEntries
      BY <1>1, PresentFacts DEF Survivors
    <2> QED
      BY <2>1, <2>2, <1>1
  <1>4. ASSUME NEW e \in AllEntries, ~Inside(e.path, d) PROVE e \in Future' <=> e \in Future
    BY <1>4, PresentFacts
  <1>5. \A x : DirEntry(x).path = x
    BY DEF DirEntry
  <1> SUFFICES ASSUME NEW p \in Paths, ~Lost(p)' PROVE Accounted(p)'
    BY DEF TreeInv, Accounted
  <1>6. Accounted(p) /\ ~Lost(p) /\ p \in Places /\ p # Root
    BY <1>1, PresentFacts, AllPlaces DEF TreeInv
  <1>7. CASE ~Inside(p, d)
    <2>1. Right(p) => Right(p)'
      <3>1. AtPath(Future', p) = AtPath(Future, p)
        BY <1>3, <1>4, <1>7 DEF AtPath
      <3>2. Shown(p)' = Shown(p)
        BY <1>2 DEF Shown, EntryAt
      <3> QED
        BY <3>1, <3>2 DEF Right, AtPath
    <2>2. Covered(p) => Covered(p)'
      BY <1>2 DEF Covered
    <2>3. ASSUME Waits(p) PROVE Waits(p)'
      <3>1. PICK q \in Paths : InSubtree(p, q) /\ Stale(q) /\ (q = p \/ DirEntry(q) \notin Future)
        BY <2>3 DEF Waits
      <3>2. ~Inside(q, d)
        BY <3>1, <1>1, <1>6, <1>7, AllPlaces, InsideBelow
      <3>3. \A x \in Places : DirEntry(x) \in Future' /\ ~Inside(x, d) => DirEntry(x) \in Future
        BY <1>3, <1>4, <1>5
      <3>4. \A x \in Places : DirEntry(x) \in Future /\ ~InSubtree(x, d) => DirEntry(x) \in Future'
        BY <1>3, <1>4, <1>5 DEF Inside
      <3>5. \A m \in missed : ~Inside(m, d) => m \in missed'
        <4>1. \A m \in missed : m \in Places /\ m # Root
          BY <1>1, AllPlaces DEF FilesTypeOK
        <4>2. \A m \in missed : Parent(m) = d => Inside(m, d)
          BY <4>1, ParentFacts
        <4> QED
          BY <4>2, <1>2
      <3> QED
        BY <1>2, <3>1, <3>2, <3>3, <3>4, <3>5, ElsewhereKept
    <2> QED
      BY <1>6, <2>1, <2>2, <2>3 DEF Accounted
  <1>8. CASE Inside(p, d)
    <2>1. ~GivenUp(d)
      BY <1>6, <1>8, PresentFacts
    <2>2. PICK c \in Places : c # Root /\ Parent(c) = d /\ InSubtree(p, c)
      BY <1>1, <1>6, <1>8, ChildOnTheWay
    <2>3. c \in Paths
      BY <2>2, PathsAbove
    <2>4. CASE p = c
      <3>1. AtPath(Future', p) = Shown(p)
        BY <1>6, <2>1, <2>2, <2>4, PresentChild
      <3>2. Shown(p)' = Shown(p)
        BY <1>2 DEF Shown, EntryAt
      <3> QED
        BY <3>1, <3>2 DEF Accounted, Right, AtPath
    <2>5. CASE p # c
      BY <1>6, <2>1, <2>2, <2>3, <2>5, PresentBelow DEF Inside
    <2> QED
      BY <2>4, <2>5
  <1> QED
    BY <1>7, <1>8


LEMMA ListDirKeeps ==
  ASSUME FilesInv, ListDir
  PROVE  FilesInv'
  <1>1. PICK d \in rescan.batch :
          /\ rescan.at = "list"
          /\ \A other \in rescan.batch \ {d} : ~InSubtree(d, other)
          /\ LET diff == Diff(d)
                 left == rescan.batch \ {d}
                 next == [rescan EXCEPT !.batch = left, !.at = IF left = {} THEN "remove" ELSE "list"]
             IN  CASE ~Indexed(d) -> rescan' = next /\ UNCHANGED missed
                   [] Indexed(d) /\ ~OnDisk(d) ->
                        /\ rescan' = [next EXCEPT !.subtrees = @ \cup {d}]
                        /\ UNCHANGED missed
                   [] OTHER ->
                        /\ rescan' = [next EXCEPT
                             !.files = @ \cup {e.path : e \in {g \in diff.gone : ~g.dir}},
                             !.subtrees = @ \cup DirPaths(diff.gone),
                             !.adds = @ \cup diff.new]
                        /\ missed' = {p \in missed : Parent(p) # d}
          /\ revived' = revived \cup (IF Indexed(d) /\ OnDisk(d) /\ GivenUp(d) THEN {d} ELSE {})
          /\ UNCHANGED <<tree, watched, events, dirty, entries, indexer, overlap>>
    BY DEF ListDir
  <1> DEFINE left == rescan.batch \ {d}
             at == IF left = {} THEN "remove" ELSE "list"
  <1>2. FilesTypeOK
    BY DEF FilesInv
  <1>3. ASSUME NEW f, NEW s, NEW x,
               rescan' = [rescan EXCEPT !.batch = left, !.at = at, !.files = f, !.subtrees = s, !.adds = x]
        PROVE  Lists(d) /\ rescan'.files = f /\ rescan'.subtrees = s /\ rescan'.adds = x
    BY <1>1, <1>2, <1>3 DEF Lists, FilesTypeOK
  <1>4. revived' \subseteq revived \cup {d} /\ overlap' = overlap
    BY <1>1
  <1>5. CASE ~Indexed(d)
    <2>1. /\ rescan' = [rescan EXCEPT !.batch = left, !.at = at] /\ missed' = missed /\ revived' = revived
      BY <1>1, <1>5
    <2>2. rescan' = [rescan EXCEPT !.batch = left, !.at = at, !.files = rescan.files,
                                   !.subtrees = rescan.subtrees, !.adds = rescan.adds]
      BY <2>1, <1>2 DEF FilesTypeOK
    <2> HIDE DEF left, at
    <2>3. /\ Lists(d) /\ rescan'.files = rescan.files /\ rescan'.subtrees = rescan.subtrees
          /\ rescan'.adds = rescan.adds
      BY <2>2, <1>3
    <2>4. FilesTypeOK'
      <3>1. rescan.files \subseteq Paths /\ rescan.subtrees \subseteq Paths /\ rescan.adds \subseteq AllEntries
        BY <1>2 DEF FilesTypeOK
      <3>2. \E b, s, f, x, a :
              rescan' = [rescan EXCEPT !.batch = b, !.at = a, !.files = f, !.subtrees = s, !.adds = x]
        BY <2>2
      <3> QED
        BY <1>2, <1>4, <2>1, <2>3, <3>1, <3>2, RescanTypes
    <2>5. ~overlap => WatchInv' /\ IndexInv' /\ ListInv' /\ AddInv' /\ ScanInv' /\ TreeInv'
      BY <1>5, <2>1, <2>3, ListNothing
    <2> QED
      BY <1>4, <2>4, <2>5 DEF FilesInv
  <1>6. CASE Indexed(d) /\ ~OnDisk(d)
    <2>1. /\ rescan' = [[rescan EXCEPT !.batch = left, !.at = at] EXCEPT !.subtrees = @ \cup {d}]
          /\ missed' = missed /\ revived' = revived
      BY <1>1, <1>6
    <2>2. rescan' = [rescan EXCEPT !.batch = left, !.at = at, !.files = rescan.files,
                                   !.subtrees = rescan.subtrees \cup {d}, !.adds = rescan.adds]
      BY <2>1, <1>2 DEF FilesTypeOK
    <2> HIDE DEF left, at
    <2>3. /\ Lists(d) /\ rescan'.files = rescan.files /\ rescan'.subtrees = rescan.subtrees \cup {d}
          /\ rescan'.adds = rescan.adds
      BY <2>2, <1>3
    <2>4. FilesTypeOK'
      <3>1. d \in Paths
        BY <1>2, <1>6 DEF OnDisk, FilesTypeOK, AllPaths
      <3>2. /\ rescan.files \subseteq Paths /\ rescan.subtrees \cup {d} \subseteq Paths
            /\ rescan.adds \subseteq AllEntries
        BY <1>2, <3>1 DEF FilesTypeOK
      <3>3. \E b, s, f, x, a :
              rescan' = [rescan EXCEPT !.batch = b, !.at = a, !.files = f, !.subtrees = s, !.adds = x]
        BY <2>2
      <3> QED
        BY <1>2, <1>4, <2>1, <2>3, <3>2, <3>3, RescanTypes
    <2>5. ~overlap => WatchInv' /\ IndexInv' /\ ListInv' /\ AddInv' /\ ScanInv' /\ TreeInv'
      BY <1>6, <2>1, <2>3, ListGone
    <2> QED
      BY <1>4, <2>4, <2>5 DEF FilesInv
  <1>7. CASE Indexed(d) /\ OnDisk(d)
    <2> DEFINE f == rescan.files \cup {e.path : e \in {g \in Diff(d).gone : ~g.dir}}
               s == rescan.subtrees \cup DirPaths(Diff(d).gone)
               x == rescan.adds \cup Diff(d).new
    <2>1. /\ rescan' = [[rescan EXCEPT !.batch = left, !.at = at] EXCEPT
                          !.files = @ \cup {e.path : e \in {g \in Diff(d).gone : ~g.dir}},
                          !.subtrees = @ \cup DirPaths(Diff(d).gone),
                          !.adds = @ \cup Diff(d).new]
          /\ missed' = {p \in missed : Parent(p) # d}
          /\ revived' = revived \cup (IF GivenUp(d) THEN {d} ELSE {})
      BY <1>1, <1>7
    <2>2. rescan' = [rescan EXCEPT !.batch = left, !.at = at, !.files = f, !.subtrees = s, !.adds = x]
      BY <2>1, <1>2 DEF FilesTypeOK
    <2> HIDE DEF left, at
    <2>3. Lists(d) /\ rescan'.files = f /\ rescan'.subtrees = s /\ rescan'.adds = x
      <3> HIDE DEF f, s, x
      <3> QED
        BY <2>2, <1>3
    <2>4. ListsPresent(d)
      BY <1>7, <2>1, <2>3 DEF ListsPresent
    <2>5. FilesTypeOK'
      <3>1. Diff(d).gone \subseteq rescan.known
        BY DEF Diff, KnownIn
      <3>2. Diff(d).new \subseteq AllEntries
        <4>1. \A p \in Children(d) : EntryAt(p) \in AllEntries
          BY DEF Children, Below, EntryAt, AllEntries
        <4> QED
          BY <4>1 DEF Diff, CurrentIn
      <3>3. /\ rescan.files \subseteq Paths /\ rescan.subtrees \subseteq Paths
            /\ rescan.adds \subseteq AllEntries /\ rescan.known \subseteq AllEntries
        BY <1>2 DEF FilesTypeOK
      <3>4. \A e \in Diff(d).gone : e.path \in Paths
        BY <3>1, <3>3 DEF AllEntries
      <3>5. f \subseteq Paths /\ s \subseteq Paths /\ x \subseteq AllEntries
        BY <3>2, <3>3, <3>4 DEF DirPaths
      <3> HIDE DEF f, s, x
      <3>6. \E b, ss, ff, xx, a :
              rescan' = [rescan EXCEPT !.batch = b, !.at = a, !.files = ff, !.subtrees = ss, !.adds = xx]
        BY <2>2
      <3>7. missed' \subseteq missed
        BY <2>1
      <3> QED
        BY <1>2, <1>4, <2>3, <3>5, <3>6, <3>7, RescanTypes
    <2>6. ~overlap => WatchInv' /\ IndexInv' /\ ListInv' /\ AddInv' /\ ScanInv' /\ TreeInv'
      BY <2>4, PresentWatch, PresentLists, PresentAdds, PresentTree
    <2> QED
      BY <1>4, <2>5, <2>6 DEF FilesInv
  <1> QED
    BY <1>5, <1>6, <1>7


-----------------------------------------------------------------------------
(* The removals, and the additions one by one.                             *)

(* Where the additions go on, nothing but them is in hand.                 *)
LEMMA ToAddFacts ==
  ASSUME NEW xs \in SUBSET AllEntries, rescan' = ToAdd(xs)
  PROVE  /\ rescan' \in [at : {"idle", "list", "remove", "add", "watch", "push"},
                 batch : SUBSET AllPaths, known : SUBSET AllEntries,
                 files : SUBSET Paths, subtrees : SUBSET Paths, adds : SUBSET AllEntries,
                 adding : [path : AllPaths, dir : BOOLEAN], found : SUBSET AllEntries]
         /\ rescan'.batch = {} /\ rescan'.files = {} /\ rescan'.subtrees = {} /\ rescan'.adds = xs
         /\ rescan'.at \in {"idle", "add"}
         /\ Survivors' = Index' /\ Adds' = xs /\ Future' = Index' \cup xs \cup indexer'.found
         /\ ListInv' /\ ScanInv'
  <1>1. rescan' = [at |-> IF xs = {} THEN "idle" ELSE "add", batch |-> {}, known |-> {}, files |-> {},
                   subtrees |-> {}, adds |-> xs, adding |-> NoEntry, found |-> {}]
    BY DEF ToAdd, NoRescan
  <1>2. NoEntry \in [path : AllPaths, dir : BOOLEAN]
    BY DEF NoEntry, AllPaths
  <1>3. rescan' \in [at : {"idle", "list", "remove", "add", "watch", "push"},
                 batch : SUBSET AllPaths, known : SUBSET AllEntries,
                 files : SUBSET Paths, subtrees : SUBSET Paths, adds : SUBSET AllEntries,
                 adding : [path : AllPaths, dir : BOOLEAN], found : SUBSET AllEntries]
    BY <1>1, <1>2
  <1>4. /\ rescan'.batch = {} /\ rescan'.files = {} /\ rescan'.subtrees = {} /\ rescan'.adds = xs
        /\ rescan'.at \in {"idle", "add"} /\ (rescan'.at = "idle" => xs = {})
    BY <1>1
  <1>5. Survivors' = Index'
    BY <1>4 DEF Survivors, Dead
  <1>6. InHand' = {} /\ Adds' = xs
    BY <1>4 DEF InHand, Adds
  <1>7. Future' = Index' \cup xs \cup indexer'.found
    BY <1>4, <1>5, <1>6 DEF Future
  <1>8. ListInv' /\ ScanInv'
    BY <1>4 DEF ListInv, ScanInv
  <1> QED
    BY <1>3, <1>4, <1>5, <1>6, <1>7, <1>8

LEMMA ApplyRemovalsKeeps ==
  ASSUME FilesInv, ApplyRemovals
  PROVE  FilesInv'
  <1>1. /\ rescan.at = "remove" /\ FilesTypeOK
        /\ entries' = [e \in Index \ {x \in Index : Dead(x)} |-> entries[e]]
        /\ watched' \subseteq watched
        /\ missed' = {p \in missed : ~\E d \in rescan.subtrees : InSubtree(p, d) /\ p # d /\ tree[p] = "none"}
        /\ rescan' = ToAdd(rescan.adds)
        /\ UNCHANGED <<tree, events, dirty, indexer, overlap, revived>>
    BY DEF ApplyRemovals, FilesInv, Index
  <1>2. Index' = Survivors
    BY <1>1 DEF Index, Survivors, BagToSet
  <1>3. rescan.adds \in SUBSET AllEntries /\ Index \subseteq AllEntries /\ tree \in Trees
    BY <1>1 DEF FilesTypeOK
  <1>4. /\ rescan'.batch = {} /\ rescan'.adds = rescan.adds /\ rescan'.at \in {"idle", "add"}
        /\ Survivors' = Survivors /\ Adds' = rescan.adds
        /\ Future' = Survivors \cup rescan.adds \cup indexer.found /\ ListInv' /\ ScanInv'
    BY <1>1, <1>2, <1>3, ToAddFacts
  <1>5. FilesTypeOK'
    <2>1. Index' \subseteq AllEntries
      BY <1>2, <1>3 DEF Survivors
    <2>2. rescan' \in [at : {"idle", "list", "remove", "add", "watch", "push"},
               batch : SUBSET AllPaths, known : SUBSET AllEntries,
               files : SUBSET Paths, subtrees : SUBSET Paths, adds : SUBSET AllEntries,
               adding : [path : AllPaths, dir : BOOLEAN], found : SUBSET AllEntries]
      BY <1>1, <1>3, ToAddFacts
    <2> QED
      BY <1>1, <1>4, <2>1, <2>2 DEF FilesTypeOK
  <1>6. ASSUME ~overlap
        PROVE  WatchInv' /\ IndexInv' /\ AddInv' /\ TreeInv'
    <2>1. WatchInv /\ IndexInv /\ ListInv /\ AddInv /\ TreeInv
      BY <1>6 DEF FilesInv
    <2>2. /\ \A p : Lost(p)' <=> Lost(p)
          /\ \A es, top : Closed(es, top)' <=> Closed(es, top)
          /\ \A es : OneKind(es)' <=> OneKind(es)
      BY <1>1 DEF Lost, Closed, OneKind
    <2>3. indexer.at = "done" /\ indexer.found = {} /\ Adds = rescan.adds /\ Future' = Future
      <3>1. indexer.at = "done" /\ indexer.found = {}
        BY <1>1, <2>1 DEF IndexInv, NoRescan
      <3>2. InHand = {} /\ Adds = rescan.adds
        BY <1>1 DEF InHand, Adds
      <3> QED
        BY <1>4, <3>1, <3>2 DEF Future
    <2>4. WatchInv'
      BY <1>1, <2>1, <2>2, <2>3 DEF WatchInv, OnDisk, IsDirIn
    <2>5. Closed(Survivors, Root)
      <3> SUFFICES ASSUME NEW e \in Survivors, ~Lost(e.path), Parent(e.path) # Root
                   PROVE  DirEntry(Parent(e.path)) \in Survivors
        BY DEF Closed
      <3> DEFINE q == Parent(e.path)
      <3>1. e \in Index /\ ~Dead(e) /\ DirEntry(q) \in Index /\ DirEntry(q).path = q /\ DirEntry(q).dir
        BY <2>1 DEF Survivors, IndexInv, Closed, DirEntry
      <3>2. e.path \in Places /\ e.path # Root /\ q \in Places /\ InSubtree(e.path, q)
        BY <3>1, <1>3, AllPlaces, ParentFacts DEF AllEntries, Inside
      <3>3. \A s \in rescan.subtrees : s \in Places
        BY <1>1, AllPlaces DEF FilesTypeOK
      <3> HIDE DEF q
      <3>4. ASSUME q \in rescan.files PROVE FALSE
        <4>1. FileEntry(q) \in Index /\ FileEntry(q).path = q /\ ~FileEntry(q).dir
          BY <2>1, <3>4 DEF ListInv, FileEntry
        <4>2. Lost(q)
          BY <4>1, <3>1, <2>1 DEF IndexInv, OneKind
        <4> QED
          BY <4>2, <3>2, <1>1, LostBelow DEF FilesTypeOK
      <3>5. ASSUME NEW s \in rescan.subtrees, InSubtree(q, s) PROVE FALSE
        BY <3>1, <3>2, <3>3, <3>5, SubtreeOrder DEF Dead
      <3> QED
        BY <3>1, <3>4, <3>5 DEF Survivors, Dead, q
    <2>6. IndexInv'
      <3>1. OneKind(Survivors)
        BY <2>1 DEF IndexInv, OneKind, Survivors
      <3>2. Closed({}, Root) /\ OneKind({})
        BY DEF Closed, OneKind
      <3> QED
        BY <1>1, <1>2, <2>2, <2>3, <2>5, <3>1, <3>2 DEF IndexInv
    <2>7. AddInv'
      BY <1>4, <2>1, <2>2, <2>3 DEF AddInv, IsDirIn
    <2>8. ASSUME NEW p \in Paths PROVE Accounted(p)'
      <3>1. Accounted(p) /\ p \in Places /\ p # Root
        BY <2>1, <2>3, AllPlaces DEF TreeInv
      <3>2. \A d : Due(d) => Due(d)'
        BY <1>1, <2>3 DEF Due, IsDirIn
      <3>3. Right(p)' <=> Right(p)
        BY <1>1, <2>3 DEF Right, Shown, EntryAt
      <3>4. Covered(p)' <=> Covered(p)
        BY <1>4 DEF Covered
      <3>5. ASSUME Waits(p), ~Lost(p) PROVE Waits(p)' \/ Right(p)
        <4>1. PICK q \in Paths : InSubtree(p, q) /\ Stale(q) /\ (q = p \/ DirEntry(q) \notin Future)
          BY <3>5 DEF Waits
        <4>2. CASE Due(Parent(q)) \/ q \in missed'
          BY <4>1, <4>2, <3>2, <2>3 DEF Waits, Stale
        <4>3. CASE q \in missed /\ q \notin missed'
          <5>1. PICK s \in rescan.subtrees : Inside(q, s) /\ tree[q] = "none"
            BY <1>1, <4>3 DEF Inside
          <5>2. s \in Places /\ q \in Places /\ q # Root /\ s # Root
            BY <1>1, AllPlaces DEF FilesTypeOK
          <5>3. Inside(p, s) /\ InSubtree(p, s) /\ InSubtree(Parent(p), s)
            BY <5>1, <5>2, <4>1, <3>1, InsideBelow, ParentFacts DEF Inside
          <5>4. tree[p] = "none"
            <6>1. ~OnDisk(q)
              BY <5>1, <5>2 DEF OnDisk
            <6>2. p # q => Inside(p, q)
              BY <4>1 DEF Inside
            <6> QED
              BY <6>1, <6>2, <5>1, <5>2, <1>3, DirsAbove
          <5>5. Parent(p) # Root /\ Parent(p) \in Places
            BY <5>2, <5>3, PathFacts, SubtreeOrder
          <5>6. ASSUME NEW e \in Future, e.path = p PROVE FALSE
            <6>1. e \notin Survivors
              BY <5>3, <5>6 DEF Survivors, Dead
            <6>2. e \in Adds
              BY <6>1, <5>6, <1>4, <2>3
            <6>3. DirEntry(Parent(p)) \in Survivors
              BY <6>2, <5>5, <5>6, <3>5, <2>1 DEF AddInv, IsDirIn
            <6>4. DirEntry(Parent(p)).path = Parent(p)
              BY DEF DirEntry
            <6> QED
              BY <6>3, <6>4, <5>3 DEF Survivors, Dead
          <5> QED
            BY <5>4, <5>6 DEF Right, AtPath, Shown
        <4> QED
          BY <4>1, <4>2, <4>3 DEF Stale
      <3> QED
        BY <2>2, <3>1, <3>3, <3>4, <3>5 DEF Accounted
    <2> QED
      BY <2>4, <2>6, <2>7, <2>8 DEF TreeInv
  <1> QED
    BY <1>1, <1>4, <1>5, <1>6 DEF FilesInv


(* While additions are made, nothing is on its way out.                    *)
LEMMA AddingFacts ==
  ASSUME FilesInv, ~overlap, rescan.at \in {"add", "watch", "push"}
  PROVE  /\ WatchInv /\ IndexInv /\ ListInv /\ AddInv /\ ScanInv /\ TreeInv
         /\ indexer.at = "done" /\ indexer.found = {}
         /\ rescan.batch = {} /\ rescan.files = {} /\ rescan.subtrees = {}
         /\ Survivors = Index /\ Index \subseteq AllEntries
         /\ Future = Index \cup rescan.adds \cup InHand
         /\ Adds \subseteq AllEntries /\ \A e \in Adds : e.path \in Paths
  <1>1. WatchInv /\ IndexInv /\ ListInv /\ AddInv /\ ScanInv /\ TreeInv /\ FilesTypeOK
    BY DEF FilesInv
  <1>2. indexer.at = "done" /\ indexer.found = {}
    BY <1>1 DEF IndexInv, NoRescan
  <1>3. rescan.batch = {} /\ rescan.files = {} /\ rescan.subtrees = {}
    BY <1>1 DEF ListInv
  <1>4. Survivors = Index
    BY <1>3 DEF Survivors, Dead
  <1>5. Future = Index \cup rescan.adds \cup InHand
    BY <1>2, <1>4 DEF Future
  <1>6. Index \subseteq AllEntries /\ Adds \subseteq AllEntries
    BY <1>1 DEF FilesTypeOK, Adds, ScanInv
  <1>7. \A e \in AllEntries : e.path \in Paths
    BY DEF AllEntries
  <1> QED
    BY <1>1, <1>2, <1>3, <1>4, <1>5, <1>6, <1>7

(* The index has nothing at or below an addition yet, and nothing else is  *)
(* added below it.                                                         *)
LEMMA NothingYet ==
  ASSUME FilesInv, ~overlap, rescan.at \in {"add", "watch", "push"}, NEW e \in Adds
  PROVE  /\ \A g \in Index : InSubtree(g.path, e.path) => Lost(g.path)
         /\ \A f \in Adds : Inside(f.path, e.path) => Lost(f.path)
  <1>1. /\ IndexInv /\ AddInv /\ Survivors = Index /\ Index \subseteq AllEntries
        /\ Adds \subseteq AllEntries /\ e.path \in Paths /\ revived \subseteq AllPaths
    BY AddingFacts DEF FilesInv, FilesTypeOK
  <1>2. e.path \in Places /\ e.path # Root
    BY <1>1, AllPlaces
  <1>3. ASSUME NEW g \in Index, InSubtree(g.path, e.path), ~Lost(g.path) PROVE FALSE
    <2>1. g.path \in Places
      BY <1>1, AllPlaces DEF AllEntries
    <2>2. ~Lost(e.path)
      BY <1>1, <1>2, <1>3, <2>1, LostBelow
    <2>3. \A f \in Index : e.path # f.path
      BY <1>1, <2>2 DEF AddInv
    <2>4. DirEntry(e.path) \in Index
      <3>1. Inside(g.path, e.path) /\ Inside(e.path, Root)
        BY <1>2, <1>3, <2>3, SubtreeOrder DEF Inside
      <3> QED
        BY <1>1, <1>2, <1>3, <3>1, RootIsPlace, EntriesAbove DEF IndexInv
    <2> QED
      BY <2>3, <2>4 DEF DirEntry
  <1>4. ASSUME NEW f \in Adds, Inside(f.path, e.path), ~Lost(f.path) PROVE FALSE
    <2>1. f.path \in Paths /\ f.path \in Places /\ f.path # Root /\ Parent(f.path) \in Places
      BY <1>1, AllPlaces, PathFacts DEF AllEntries
    <2>2. InSubtree(Parent(f.path), e.path) /\ InSubtree(f.path, Parent(f.path))
      BY <1>2, <1>4, <2>1, ParentFacts DEF Inside
    <2>3. Parent(f.path) # Root /\ ~Lost(Parent(f.path))
      BY <1>1, <1>2, <1>4, <2>1, <2>2, SubtreeOrder, LostBelow
    <2>4. DirEntry(Parent(f.path)) \in Index /\ DirEntry(Parent(f.path)).path = Parent(f.path)
      BY <1>1, <1>4, <2>3 DEF AddInv, IsDirIn, DirEntry
    <2> QED
      BY <2>2, <2>3, <2>4, <1>3
  <1> QED
    BY <1>3, <1>4

LEMMA AddFileKeeps ==
  ASSUME FilesInv, AddFile
  PROVE  FilesInv'
  <1>1. PICK e \in rescan.adds :
          /\ rescan.at = "add" /\ ~e.dir
          /\ entries' = entries (+) SetToBag({e})
          /\ rescan' = ToAdd(rescan.adds \ {e})
          /\ UNCHANGED <<tree, watched, events, dirty, indexer, missed, overlap, revived>>
    BY DEF AddFile
  <1>2. Index' = Index \cup {e}
    BY <1>1, BagFacts DEF Index
  <1>3. FilesTypeOK /\ rescan.adds \subseteq AllEntries /\ Index \subseteq AllEntries
    BY DEF FilesInv, FilesTypeOK
  <1>4. /\ rescan' \in [at : {"idle", "list", "remove", "add", "watch", "push"},
                 batch : SUBSET AllPaths, known : SUBSET AllEntries,
                 files : SUBSET Paths, subtrees : SUBSET Paths, adds : SUBSET AllEntries,
                 adding : [path : AllPaths, dir : BOOLEAN], found : SUBSET AllEntries]
        /\ rescan'.batch = {} /\ rescan'.adds = rescan.adds \ {e} /\ rescan'.at \in {"idle", "add"}
        /\ Survivors' = Index' /\ Adds' = rescan.adds \ {e}
        /\ Future' = Index' \cup (rescan.adds \ {e}) \cup indexer'.found /\ ListInv' /\ ScanInv'
    BY <1>1, <1>3, ToAddFacts
  <1>5. FilesTypeOK'
    BY <1>1, <1>2, <1>3, <1>4 DEF FilesTypeOK
  <1>6. ASSUME ~overlap
        PROVE  WatchInv' /\ IndexInv' /\ AddInv' /\ TreeInv'
    <2>1. /\ WatchInv /\ IndexInv /\ AddInv /\ TreeInv
          /\ indexer.at = "done" /\ indexer.found = {} /\ Survivors = Index
          /\ Future = Index \cup rescan.adds \cup InHand
      BY <1>1, <1>6, AddingFacts
    <2>2. /\ \A p : Lost(p)' <=> Lost(p)
          /\ \A es, top : Closed(es, top)' <=> Closed(es, top)
          /\ \A es : OneKind(es)' <=> OneKind(es)
      BY <1>1 DEF Lost, Closed, OneKind
    <2>3. Adds = rescan.adds /\ Future' = Future
      <3>1. InHand = {} /\ Adds = rescan.adds
        BY <1>1 DEF InHand, Adds
      <3> QED
        BY <1>1, <1>2, <1>4, <2>1, <3>1
    <2>4. WatchInv'
      BY <1>1, <2>1, <2>2, <2>3 DEF WatchInv, OnDisk, IsDirIn
    <2>5. e \in Adds
      BY <2>3
    <2>6. IndexInv'
      <3>1. IsDirIn(Index, Parent(e.path)) \/ Lost(e.path)
        BY <2>1, <2>5 DEF AddInv
      <3>2. Closed(Index \cup {e}, Root)
        BY <2>1, <3>1 DEF IndexInv, Closed, IsDirIn
      <3>3. \A f \in Index : e.path = f.path => Lost(e.path)
        BY <2>1, <2>5 DEF AddInv
      <3>4. OneKind(Index \cup {e})
        BY <2>1, <3>3 DEF IndexInv, OneKind
      <3>5. Closed({}, Root) /\ OneKind({})
        BY DEF Closed, OneKind
      <3> QED
        BY <1>1, <1>2, <2>1, <2>2, <3>2, <3>4, <3>5 DEF IndexInv
    <2>7. AddInv'
      <3>1. \A f \in Adds' : IsDirIn(Survivors, Parent(f.path))' \/ Lost(f.path)'
        BY <1>2, <1>4, <2>1, <2>2, <2>3 DEF AddInv, IsDirIn
      <3>2. \A f \in Adds' : e.path = f.path => Lost(f.path)
        BY <1>4, <2>1, <2>3, <2>5 DEF AddInv, OneKind
      <3>3. \A f \in Adds', g \in Survivors' : f.path = g.path => Lost(f.path)'
        BY <1>2, <1>4, <2>1, <2>2, <2>3, <3>2 DEF AddInv
      <3>4. OneKind(Adds)'
        BY <1>4, <2>1, <2>2, <2>3 DEF AddInv, OneKind
      <3> QED
        BY <3>1, <3>3, <3>4 DEF AddInv
    <2>8. ASSUME NEW p \in Paths PROVE Accounted(p)'
      <3>1. Accounted(p)
        BY <2>1 DEF TreeInv
      <3>2. \A d : Due(d) => Due(d)'
        BY <1>1, <2>3 DEF Due, IsDirIn
      <3>3. Right(p)' <=> Right(p)
        BY <1>1, <2>3 DEF Right, Shown, EntryAt
      <3>4. Covered(p) => Covered(p)'
        BY <1>1, <1>4 DEF Covered
      <3>5. Waits(p) => Waits(p)'
        BY <1>1, <2>3, <3>2 DEF Waits, Stale
      <3> QED
        BY <2>2, <3>1, <3>3, <3>4, <3>5 DEF Accounted
    <2> QED
      BY <2>4, <2>6, <2>7, <2>8 DEF TreeInv
  <1> QED
    BY <1>1, <1>4, <1>5, <1>6 DEF FilesInv

(* The scan of an addition tells about all below it.                       *)
LEMMA AddScanKeeps ==
  ASSUME FilesInv, AddScan
  PROVE  FilesInv'
  <1>0. PICK e \in rescan.adds : \E found \in Scans(e.path) :
          /\ rescan.at = "add" /\ e.dir
          /\ rescan' = [rescan EXCEPT !.at = "watch", !.adding = e, !.found = found, !.adds = @ \ {e}]
          /\ missed' = MissedAfterScan(e.path, found) \cup (missed \cap {e.path})
          /\ UNCHANGED <<tree, watched, events, dirty, entries, indexer, overlap, revived>>
    BY DEF AddScan
  <1>1. PICK found \in Scans(e.path) :
          /\ rescan.at = "add" /\ e.dir
          /\ rescan' = [rescan EXCEPT !.at = "watch", !.adding = e, !.found = found, !.adds = @ \ {e}]
          /\ missed' = MissedAfterScan(e.path, found) \cup (missed \cap {e.path})
          /\ UNCHANGED <<tree, watched, events, dirty, entries, indexer, overlap, revived>>
    BY <1>0
  <1>2. /\ FilesTypeOK /\ rescan.adds \subseteq AllEntries /\ Index \subseteq AllEntries /\ tree \in Trees
        /\ e \in AllEntries /\ e.path \in Paths /\ e.path \in AllPaths
    BY DEF FilesInv, FilesTypeOK, AllEntries, AllPaths
  <1>3. /\ found \subseteq AllEntries /\ Closed(found, e.path) /\ OneKind(found)
        /\ \A f \in found : f.path \in Below(e.path) /\ Inside(f.path, e.path) /\ f = EntryAt(f.path)
        /\ \A p \in Below(e.path) : EntryAt(p) \in found => AtPath(found, p) = Shown(p)
        /\ \A p \in Paths : p \notin Below(e.path) => AtPath(found, p) = {}
    BY <1>2, ScanFacts
  <1>4. /\ rescan'.at = "watch" /\ rescan'.adding = e /\ rescan'.found = found
        /\ rescan'.adds = rescan.adds \ {e} /\ rescan'.batch = rescan.batch
        /\ rescan'.files = rescan.files /\ rescan'.subtrees = rescan.subtrees
        /\ rescan'.known = rescan.known
    BY <1>1, <1>2 DEF FilesTypeOK
  <1>5. Index' = Index
    BY <1>1 DEF Index
  <1>6. FilesTypeOK'
    <2>1. e \in [path : AllPaths, dir : BOOLEAN]
      BY <1>2 DEF AllEntries, AllPaths
    <2>2. rescan' \in [at : {"idle", "list", "remove", "add", "watch", "push"},
               batch : SUBSET AllPaths, known : SUBSET AllEntries,
               files : SUBSET Paths, subtrees : SUBSET Paths, adds : SUBSET AllEntries,
               adding : [path : AllPaths, dir : BOOLEAN], found : SUBSET AllEntries]
      BY <1>1, <1>2, <1>3, <2>1 DEF FilesTypeOK
    <2>3. missed' \subseteq Paths
      BY <1>1, <1>2 DEF MissedAfterScan, Below, FilesTypeOK
    <2> QED
      BY <1>1, <1>2, <1>5, <2>2, <2>3 DEF FilesTypeOK
  <1>7. ASSUME ~overlap
        PROVE  WatchInv' /\ IndexInv' /\ ListInv' /\ AddInv' /\ ScanInv' /\ TreeInv'
    <2>1. /\ WatchInv /\ IndexInv /\ ListInv /\ AddInv /\ TreeInv
          /\ indexer.at = "done" /\ indexer.found = {} /\ Survivors = Index
          /\ rescan.batch = {} /\ rescan.files = {} /\ rescan.subtrees = {}
          /\ Future = Index \cup rescan.adds \cup InHand
      BY <1>1, <1>7, AddingFacts
    <2>2. /\ \A p : Lost(p)' <=> Lost(p)
          /\ \A es, top : Closed(es, top)' <=> Closed(es, top)
          /\ \A es : OneKind(es)' <=> OneKind(es)
      BY <1>1 DEF Lost, Closed, OneKind
    <2>3. Adds = rescan.adds /\ Adds' = rescan.adds /\ Survivors' = Survivors /\ e \in Adds
      BY <1>1, <1>4, <1>5 DEF Adds, Survivors, Dead
    <2>4. Future = Index \cup rescan.adds /\ Future' = Future \cup found
      <3>1. InHand = {} /\ InHand' = found \cup {e}
        BY <1>1, <1>4 DEF InHand
      <3> QED
        BY <1>1, <1>4, <1>5, <2>1, <2>3, <3>1 DEF Future
    <2>5. WatchInv'
      BY <1>1, <2>1, <2>2, <2>4 DEF WatchInv, OnDisk, IsDirIn
    <2>6. IndexInv'
      BY <1>1, <1>5, <2>1, <2>2 DEF IndexInv
    <2>7. ListInv'
      BY <1>4, <2>1 DEF ListInv
    <2>8. AddInv'
      BY <2>1, <2>2, <2>3 DEF AddInv, IsDirIn
    <2>9. ScanInv'
      BY <1>1, <1>2, <1>3, <1>4, <2>2 DEF ScanInv
    <2>10. ASSUME NEW p \in Paths, ~Lost(p) PROVE Accounted(p)'
      <3>0. Accounted(p) /\ p \in Places /\ p # Root /\ e.path \in Places /\ e.path # Root
        BY <1>2, <2>1, AllPlaces DEF TreeInv
      <3>1. Shown(p)' = Shown(p)
        BY <1>1 DEF Shown, EntryAt
      <3>2. AtPath(Future', p) = AtPath(Future, p) \cup AtPath(found, p)
        BY <2>4, AtPathUnion
      <3>3. CASE Inside(p, e.path)
        <4>1. AtPath(Future, p) = {}
          <5>1. \A g \in Index : g.path # p
            BY <1>1, <1>7, <2>3, <2>10, <3>3, NothingYet DEF Inside
          <5>2. \A g \in Adds : g.path # p
            BY <1>1, <1>7, <2>3, <2>10, <3>3, NothingYet
          <5> QED
            BY <5>1, <5>2, <2>3, <2>4 DEF AtPath
        <4>2. CASE p \in Below(e.path) /\ EntryAt(p) \in found
          <5>1. AtPath(Future', p) = Shown(p)
            BY <4>1, <4>2, <3>2, <1>3
          <5> QED
            BY <5>1, <3>1 DEF Accounted, Right, AtPath
        <4>3. CASE p \in Below(e.path) /\ EntryAt(p) \notin found
          <5>1. p \in missed' /\ InSubtree(p, p)
            BY <4>3, <1>1, <3>0, SubtreeOrder DEF MissedAfterScan
          <5> QED
            BY <5>1 DEF Accounted, Waits, Stale
        <4>4. CASE p \notin Below(e.path)
          <5>1. Shown(p) = {}
            BY <4>4, <3>3 DEF Below, Inside, Shown
          <5>2. AtPath(Future', p) = Shown(p)
            BY <4>1, <4>4, <3>2, <5>1, <1>3
          <5> QED
            BY <5>2, <3>1 DEF Accounted, Right, AtPath
        <4> QED
          BY <4>2, <4>3, <4>4
      <3>4. CASE ~Inside(p, e.path)
        <4>1. Right(p) => Right(p)'
          <5>1. AtPath(found, p) = {}
            BY <3>4, <1>3 DEF AtPath
          <5> QED
            BY <5>1, <3>1, <3>2 DEF Right, AtPath
        <4>2. Covered(p) => Covered(p)'
          <5>1. SUFFICES ASSUME NEW f \in rescan.adds, f.dir, Inside(p, f.path) PROVE Covered(p)'
            BY DEF Covered
          <5>2. f \in rescan'.adds
            BY <5>1, <3>4, <1>4
          <5> QED
            BY <5>1, <5>2 DEF Covered
        <4>3. ASSUME Waits(p) PROVE Waits(p)'
          <5>1. PICK q \in Paths : InSubtree(p, q) /\ Stale(q) /\ (q = p \/ DirEntry(q) \notin Future)
            BY <4>3 DEF Waits
          <5>2. ~Inside(q, e.path)
            BY <5>1, <3>0, <3>4, AllPlaces, InsideBelow
          <5>3. q \in missed => q \in missed'
            BY <5>2, <1>1 DEF MissedAfterScan, Inside
          <5>4. Due(Parent(q)) => Due(Parent(q))'
            BY <1>1, <2>4 DEF Due, IsDirIn
          <5>5. DirEntry(q) \notin found
            BY <5>2, <1>3 DEF DirEntry
          <5> QED
            BY <5>1, <5>3, <5>4, <5>5, <2>4 DEF Waits, Stale
        <4> QED
          BY <3>0, <4>1, <4>2, <4>3, <2>10 DEF Accounted
      <3> QED
        BY <3>3, <3>4
    <2>11. TreeInv'
      BY <2>2, <2>10 DEF TreeInv, Accounted
    <2> QED
      BY <2>5, <2>6, <2>7, <2>8, <2>9, <2>11
  <1> QED
    BY <1>1, <1>6, <1>7 DEF FilesInv

LEMMA AddWatchKeeps ==
  ASSUME FilesInv, AddWatch
  PROVE  FilesInv'
  <1>1. /\ rescan.at = "watch" /\ FilesTypeOK
        /\ Watch({rescan.adding.path} \cup DirPaths(rescan.found))
        /\ rescan' = [rescan EXCEPT !.at = "push"]
        /\ UNCHANGED <<tree, events, dirty, entries, indexer, missed, overlap, revived>>
    BY DEF AddWatch, FilesInv
  <1>2. /\ rescan'.at = "push" /\ rescan'.adding = rescan.adding /\ rescan'.found = rescan.found
        /\ rescan'.adds = rescan.adds /\ rescan'.batch = rescan.batch
        /\ rescan'.files = rescan.files /\ rescan'.subtrees = rescan.subtrees
        /\ rescan'.known = rescan.known
    BY <1>1 DEF FilesTypeOK
  <1>3. /\ Index' = Index /\ Survivors' = Survivors /\ InHand' = InHand /\ Future' = Future /\ Adds' = Adds
    <2>1. Index' = Index /\ InHand' = InHand /\ Adds' = Adds
      BY <1>1, <1>2 DEF Index, InHand, Adds
    <2>2. Survivors' = Survivors
      BY <2>1, <1>2 DEF Survivors, Dead
    <2> QED
      BY <1>1, <1>2, <2>1, <2>2 DEF Future
  <1>4. FilesTypeOK'
    <2>1. DirPaths(rescan.found) \subseteq AllPaths /\ rescan.adding.path \in AllPaths
      BY <1>1 DEF FilesTypeOK, DirPaths, AllEntries, AllPaths
    <2>2. watched' \subseteq AllPaths
      BY <1>1, <2>1 DEF Watch, FilesTypeOK
    <2> QED
      BY <1>1, <1>3, <2>2 DEF FilesTypeOK
  <1>5. ASSUME ~overlap
        PROVE  WatchInv' /\ IndexInv' /\ ListInv' /\ AddInv' /\ ScanInv' /\ TreeInv'
    <2>1. WatchInv /\ IndexInv /\ ListInv /\ AddInv /\ ScanInv /\ TreeInv
      BY <1>5 DEF FilesInv
    <2>2. /\ \A p : Lost(p)' <=> Lost(p)
          /\ \A es, top : Closed(es, top)' <=> Closed(es, top)
          /\ \A es : OneKind(es)' <=> OneKind(es)
      BY <1>1 DEF Lost, Closed, OneKind
    <2>3. WatchInv'
      <3>1. InHand = rescan.found \cup {rescan.adding} /\ rescan.found \subseteq AllEntries
        BY <1>1 DEF InHand, FilesTypeOK
      <3>2. rescan.adding = DirEntry(rescan.adding.path)
        <4>1. rescan.adding \in [path : Paths, dir : BOOLEAN] /\ rescan.adding.dir = TRUE
          BY <1>1, <2>1 DEF ScanInv, AllEntries, FilesTypeOK
        <4> QED
          BY <4>1 DEF DirEntry
      <3>3. \A d \in {rescan.adding.path} \cup DirPaths(rescan.found) : IsDirIn(Future, d)
        BY <3>1, <3>2, DirPathsAre DEF IsDirIn, Future
      <3> QED
        BY <1>1, <1>3, <2>1, <3>3, WatchMore
    <2>4. IndexInv'
      BY <1>1, <1>3, <2>1, <2>2 DEF IndexInv, NoRescan
    <2>5. ListInv'
      BY <1>1, <1>2, <2>1 DEF ListInv
    <2>6. AddInv' /\ ScanInv'
      <3>1. AddInv'
        BY <1>3, <2>1, <2>2 DEF AddInv, IsDirIn
      <3>2. ScanInv'
        BY <1>1, <1>2, <2>1, <2>2 DEF ScanInv
      <3> QED
        BY <3>1, <3>2
    <2>7. ASSUME NEW p \in Paths PROVE Accounted(p)'
      <3>1. indexer.at \notin {"off", "scan"}
        BY <1>1, <2>1 DEF IndexInv, NoRescan
      <3>2. Accounted(p)
        BY <2>1, <3>1 DEF TreeInv
      <3>3. \A d : Due(d) => Due(d)'
        BY <1>1, <1>3 DEF Due, IsDirIn
      <3>4. Right(p)' <=> Right(p)
        BY <1>1, <1>3 DEF Right, Shown, EntryAt
      <3>5. Waits(p) => Waits(p)'
        BY <1>1, <1>3, <3>3 DEF Waits, Stale
      <3>6. Covered(p)' <=> Covered(p)
        BY <1>2 DEF Covered
      <3> QED
        BY <2>2, <3>2, <3>4, <3>5, <3>6 DEF Accounted
    <2> QED
      BY <2>3, <2>4, <2>5, <2>6, <2>7 DEF TreeInv
  <1> QED
    BY <1>1, <1>4, <1>5 DEF FilesInv

LEMMA AddPushKeeps ==
  ASSUME FilesInv, AddPush
  PROVE  FilesInv'
  <1>1. /\ rescan.at = "push" /\ FilesTypeOK
        /\ entries' = entries (+) SetToBag(rescan.found) (+) SetToBag({rescan.adding})
        /\ rescan' = ToAdd(rescan.adds)
        /\ UNCHANGED <<tree, watched, events, dirty, indexer, missed, overlap, revived>>
    BY DEF AddPush, FilesInv
  <1> DEFINE a == rescan.adding
             found == rescan.found
  <1>2. Index' = Index \cup found \cup {a}
    BY <1>1, BagFacts DEF Index
  <1>3. rescan.adds \subseteq AllEntries /\ Index \subseteq AllEntries /\ found \subseteq AllEntries
    BY <1>1 DEF FilesTypeOK
  <1>4. /\ rescan' \in [at : {"idle", "list", "remove", "add", "watch", "push"},
                 batch : SUBSET AllPaths, known : SUBSET AllEntries,
                 files : SUBSET Paths, subtrees : SUBSET Paths, adds : SUBSET AllEntries,
                 adding : [path : AllPaths, dir : BOOLEAN], found : SUBSET AllEntries]
        /\ rescan'.batch = {} /\ rescan'.adds = rescan.adds /\ rescan'.at \in {"idle", "add"}
        /\ Survivors' = Index' /\ Adds' = rescan.adds
        /\ Future' = Index' \cup rescan.adds \cup indexer'.found /\ ListInv' /\ ScanInv'
    BY <1>1, <1>3, ToAddFacts
  <1>5. FilesTypeOK'
    <2>1. Index' \subseteq AllEntries
      BY <1>1, <1>2, <1>3 DEF FilesTypeOK
    <2> QED
      BY <1>1, <1>4, <2>1 DEF FilesTypeOK
  <1>6. ASSUME ~overlap
        PROVE  WatchInv' /\ IndexInv' /\ AddInv' /\ TreeInv'
    <2>1. /\ WatchInv /\ IndexInv /\ AddInv /\ ScanInv /\ TreeInv
          /\ indexer.at = "done" /\ indexer.found = {} /\ Survivors = Index
          /\ Future = Index \cup rescan.adds \cup InHand
      BY <1>1, <1>6, AddingFacts
    <2>2. /\ \A p : Lost(p)' <=> Lost(p)
          /\ \A es, top : Closed(es, top)' <=> Closed(es, top)
          /\ \A es : OneKind(es)' <=> OneKind(es)
      BY <1>1 DEF Lost, Closed, OneKind
    <2>3. Adds = rescan.adds \cup {a} /\ Future' = Future /\ a \in Adds
      <3>1. InHand = found \cup {a} /\ Adds = rescan.adds \cup {a}
        BY <1>1 DEF InHand, Adds
      <3> QED
        BY <1>1, <1>2, <1>4, <2>1, <3>1
    <2>4. WatchInv'
      BY <1>1, <2>1, <2>2, <2>3 DEF WatchInv, OnDisk, IsDirIn
    <2>5. /\ a.dir /\ a \in AllEntries /\ a \notin rescan.adds /\ a = DirEntry(a.path)
          /\ \A f \in found : Inside(f.path, a.path)
          /\ Closed(found, a.path) /\ OneKind(found)
      <3>1. /\ a.dir /\ a \in AllEntries /\ a \notin rescan.adds
            /\ \A f \in found : Inside(f.path, a.path)
            /\ Closed(found, a.path) /\ OneKind(found)
        BY <1>1, <2>1 DEF ScanInv, FilesTypeOK
      <3>2. a \in [path : Paths, dir : BOOLEAN] /\ a.dir = TRUE
        BY <3>1 DEF AllEntries
      <3> HIDE DEF a
      <3>3. a = DirEntry(a.path)
        BY <3>2 DEF DirEntry
      <3> QED
        BY <3>1, <3>3
    <2>6. /\ \A g \in Index : InSubtree(g.path, a.path) => Lost(g.path)
          /\ \A f \in Adds : Inside(f.path, a.path) => Lost(f.path)
      BY <1>1, <1>6, <2>3, NothingYet
    <2>7. IndexInv'
      <3>1. IsDirIn(Index, Parent(a.path)) \/ Lost(a.path)
        BY <2>1, <2>3 DEF AddInv
      <3> HIDE DEF a, found
      <3>2. Closed(Index \cup found \cup {a}, Root)
        <4>1. Closed(Index, Root)
          BY <2>1 DEF IndexInv
        <4>2. SUFFICES ASSUME NEW f \in found \cup {a}, ~Lost(f.path), Parent(f.path) # Root
                       PROVE  DirEntry(Parent(f.path)) \in Index \cup found \cup {a}
          BY <4>1 DEF Closed
        <4>3. CASE f = a
          BY <4>2, <4>3, <3>1 DEF IsDirIn
        <4>4. CASE f \in found
          BY <4>2, <4>4, <2>5 DEF Closed
        <4> QED
          BY <4>2, <4>3, <4>4
      <3>3. ASSUME NEW e \in Index \cup found \cup {a}, NEW f \in Index \cup found \cup {a},
                   e.path = f.path, e # f
            PROVE  Lost(e.path)
        <4>1. a.path \in Places /\ InSubtree(a.path, a.path)
          BY <2>5, AllPlaces, SubtreeOrder DEF AllEntries
        <4>2. CASE e \in Index /\ f \in Index
          BY <4>2, <2>1, <3>3 DEF IndexInv, OneKind
        <4>3. CASE e \in Index /\ f \notin Index
          BY <4>1, <4>3, <2>5, <2>6, <3>3 DEF Inside
        <4>4. CASE e \notin Index /\ f \in Index
          BY <4>1, <4>4, <2>5, <2>6, <3>3 DEF Inside
        <4>5. CASE e \notin Index /\ f \notin Index
          <5>1. CASE e = a \/ f = a
            BY <5>1, <4>5, <2>5, <3>3 DEF Inside
          <5>2. CASE e # a /\ f # a
            BY <5>2, <4>5, <2>5, <3>3 DEF OneKind
          <5> QED
            BY <5>1, <5>2
        <4> QED
          BY <4>2, <4>3, <4>4, <4>5
      <3>4. OneKind(Index \cup found \cup {a})
        BY <3>3 DEF OneKind
      <3>5. Closed({}, Root) /\ OneKind({})
        BY DEF Closed, OneKind
      <3> QED
        BY <1>1, <1>2, <2>1, <2>2, <3>2, <3>4, <3>5 DEF IndexInv, a, found
    <2>8. AddInv'
      <3>1. \A f \in Adds' : IsDirIn(Survivors, Parent(f.path))' \/ Lost(f.path)'
        BY <1>2, <1>4, <2>1, <2>2, <2>3 DEF AddInv, IsDirIn
      <3>2. ASSUME NEW f \in rescan.adds, NEW g \in Index', f.path = g.path PROVE Lost(f.path)
        <4> HIDE DEF a, found
        <4>1. CASE g \in Index
          BY <4>1, <2>1, <2>3, <3>2 DEF AddInv
        <4>2. CASE g = a
          BY <4>2, <2>1, <2>3, <2>5, <3>2 DEF AddInv, OneKind
        <4>3. CASE g \in found
          BY <4>3, <2>3, <2>5, <2>6, <3>2
        <4> QED
          BY <4>1, <4>2, <4>3, <1>2
      <3>3. OneKind(rescan.adds)
        BY <2>1, <2>3 DEF AddInv, OneKind
      <3> QED
        BY <1>4, <2>2, <3>1, <3>2, <3>3 DEF AddInv
    <2>9. ASSUME NEW p \in Paths PROVE Accounted(p)'
      <3>1. Accounted(p)
        BY <2>1 DEF TreeInv
      <3>2. \A d : Due(d) => Due(d)'
        BY <1>1, <2>3 DEF Due, IsDirIn
      <3>3. Right(p)' <=> Right(p)
        BY <1>1, <2>3 DEF Right, Shown, EntryAt
      <3>4. Covered(p)' <=> Covered(p)
        BY <1>4 DEF Covered
      <3>5. Waits(p) => Waits(p)'
        BY <1>1, <2>3, <3>2 DEF Waits, Stale
      <3> QED
        BY <2>2, <3>1, <3>3, <3>4, <3>5 DEF Accounted
    <2> QED
      BY <2>4, <2>7, <2>8, <2>9 DEF TreeInv
  <1> QED
    BY <1>1, <1>4, <1>5, <1>6 DEF FilesInv


-----------------------------------------------------------------------------
(* The steps together, and what the invariant says when all is quiet.      *)

LEMMA FilesStandStill ==
  ASSUME FilesInv, UNCHANGED fileVars
  PROVE  FilesInv'
  <1>1. UNCHANGED <<tree, watched, events, dirty, entries, indexer, rescan, missed, overlap, revived>>
    BY DEF fileVars
  <1>2. /\ Index' = Index /\ Survivors' = Survivors /\ InHand' = InHand /\ Future' = Future /\ Adds' = Adds
    <2>1. Index' = Index /\ InHand' = InHand /\ Adds' = Adds
      BY <1>1 DEF Index, InHand, Adds
    <2>2. Survivors' = Survivors
      BY <1>1, <2>1 DEF Survivors, Dead
    <2> QED
      BY <1>1, <2>1, <2>2 DEF Future
  <1>3. FilesTypeOK'
    BY <1>1, <1>2 DEF FilesInv, FilesTypeOK
  <1>4. ASSUME ~overlap
        PROVE  WatchInv' /\ IndexInv' /\ ListInv' /\ AddInv' /\ ScanInv' /\ TreeInv'
    <2>1. WatchInv /\ IndexInv /\ ListInv /\ AddInv /\ ScanInv /\ TreeInv
      BY <1>4 DEF FilesInv
    <2>2. /\ \A p : Lost(p)' <=> Lost(p)
          /\ \A es, top : Closed(es, top)' <=> Closed(es, top)
          /\ \A es : OneKind(es)' <=> OneKind(es)
      BY <1>1 DEF Lost, Closed, OneKind
    <2>3. WatchInv'
      BY <1>1, <1>2, <2>1, <2>2 DEF WatchInv, OnDisk, IsDirIn
    <2>4. IndexInv'
      BY <1>1, <1>2, <2>1, <2>2 DEF IndexInv
    <2>5. ListInv'
      BY <1>1, <1>2, <2>1 DEF ListInv, Apart
    <2>6. AddInv' /\ ScanInv'
      BY <1>1, <1>2, <2>1, <2>2 DEF AddInv, ScanInv, IsDirIn
    <2>7. ASSUME NEW p \in Paths, indexer.at \notin {"off", "scan"} PROVE Accounted(p)'
      <3>1. Accounted(p)
        BY <2>1, <2>7 DEF TreeInv
      <3>2. \A d : Due(d) => Due(d)'
        BY <1>1, <1>2 DEF Due, IsDirIn, Indexed
      <3>3. Right(p)' <=> Right(p)
        BY <1>1, <1>2 DEF Right, Shown, EntryAt
      <3>4. Waits(p) => Waits(p)'
        BY <1>1, <1>2, <3>2 DEF Waits, Stale
      <3>5. Covered(p)' <=> Covered(p)
        BY <1>1 DEF Covered
      <3> QED
        BY <2>2, <3>1, <3>3, <3>4, <3>5 DEF Accounted
    <2>8. TreeInv'
      BY <1>1, <2>7 DEF TreeInv
    <2> QED
      BY <2>3, <2>4, <2>5, <2>6, <2>8
  <1> QED
    BY <1>1, <1>3, <1>4 DEF FilesInv

LEMMA FilesNextKeeps ==
  ASSUME FilesInv, FilesNext \/ UNCHANGED fileVars
  PROVE  FilesInv'
  <1>1. ASSUME NEW p \in Paths, NEW kind \in {"file", "dir"}, Create(p, kind) PROVE FilesInv'
    BY <1>1, CreateKeeps
  <1>2. ASSUME NEW p \in Paths, MoveAway(p) PROVE FilesInv'
    BY <1>2, MoveAwayKeeps
  <1>3. Debounce => FilesInv'
    BY DebounceKeeps
  <1>4. IndexScan \/ IndexWatch \/ IndexPublish => FilesInv'
    BY IndexScanKeeps, IndexWatchKeeps, IndexPublishKeeps
  <1>5. TakeBatch \/ ListDir \/ ApplyRemovals => FilesInv'
    BY TakeBatchKeeps, ListDirKeeps, ApplyRemovalsKeeps
  <1>6. AddFile \/ AddScan \/ AddWatch \/ AddPush => FilesInv'
    BY AddFileKeeps, AddScanKeeps, AddWatchKeeps, AddPushKeeps
  <1>7. UNCHANGED fileVars => FilesInv'
    BY FilesStandStill
  <1> QED
    BY <1>1, <1>2, <1>3, <1>4, <1>5, <1>6, <1>7 DEF FilesNext

(* When nothing is in hand and nothing reported, nothing but what was      *)
(* missed or given up waits: the index shows the tree.                     *)
LEMMA QuietIndex == FilesInv => IndexFollowsTree
  <1> SUFFICES ASSUME FilesInv, Quiet, ~overlap, NEW p \in Paths, Known(p)
               PROVE  {e \in BagToSet(entries) : e.path = p}
                        = (IF tree[p] = "none" THEN {} ELSE {EntryAt(p)})
    BY DEF IndexFollowsTree
  <1>1. /\ IndexInv /\ ListInv /\ TreeInv /\ indexer.at = "done" /\ rescan.at = "idle"
        /\ events = {} /\ dirty = {}
    BY DEF FilesInv, Quiet
  <1>2. indexer.found = {} /\ rescan.adds = {} /\ rescan.files = {} /\ rescan.subtrees = {}
    BY <1>1 DEF IndexInv, ListInv
  <1>3. Survivors = Index /\ InHand = {}
    BY <1>1, <1>2 DEF Survivors, Dead, InHand
  <1>4. Future = Index
    BY <1>2, <1>3 DEF Future
  <1>5. Accounted(p)
    BY <1>1 DEF TreeInv
  <1>6. ~Lost(p)
    BY DEF Known, Lost
  <1>7. ~Covered(p)
    BY <1>2 DEF Covered
  <1>8. \A d : ~Due(d)
    BY <1>1 DEF Due
  <1>9. ~Waits(p)
    BY <1>8 DEF Waits, Stale, Known
  <1>10. AtPath(Index, p) = Shown(p)
    BY <1>4, <1>5, <1>6, <1>7, <1>9 DEF Accounted, Right
  <1> QED
    BY <1>10 DEF AtPath, Index, Shown

(* For any tree, any budget of a scan and any number of changes, the index *)
(* follows the tree (the file search of the internal extension).           *)
THEOREM IndexFollowsTreeAlways == FilesSpec => []IndexFollowsTree
  <1>1. FilesInit => FilesInv
    BY FilesInitOK
  <1>2. FilesInv /\ [FilesNext]_fileVars => FilesInv'
    BY FilesNextKeeps
  <1>3. FilesInv => IndexFollowsTree
    BY QuietIndex
  <1> QED
    BY <1>1, <1>2, <1>3, PTL DEF FilesSpec


-----------------------------------------------------------------------------
(* Recursive functions over positions.                                     *)

(* A set with a number that has the next of each below a bound has all.    *)
LEMMA UpFrom ==
  ASSUME NEW a \in Nat, NEW b \in Nat, NEW S, a \in S, \A n \in S \cap (a..b) : n < b => n + 1 \in S
  PROVE  a..b \subseteq S
  <1> SUFFICES ASSUME (a..b) \ S # {} PROVE FALSE
    OBVIOUS
  <1>1. PICK x \in (a..b) \ S : \A y \in (a..b) \ S : x <= y
    <2>1. (a..b) \ S \in SUBSET Nat
      OBVIOUS
    <2> QED
      BY <2>1, Least
  <1>2. x - 1 \in a..b /\ x - 1 < b /\ x - 1 \in S
    BY <1>1
  <1> QED
    BY <1>1, <1>2

(* A value that is made step by step exists, where the steps lead from one *)
(* level to the next.                                                      *)
Leads(step, L, S, a, b) ==
    /\ L \in [a..b -> SUBSET S] /\ step \in [(a + 1)..b -> [S -> S]]
    /\ \A i \in (a + 1)..b : \A t \in L[i - 1] : step[i][t] \in L[i]
Steps(f, step, a, b, start) == f[a] = start /\ \A i \in (a + 1)..b : f[i] = step[i][f[i - 1]]

LEMMA Climbs ==
  ASSUME NEW a \in Nat, NEW b \in Nat, a <= b, NEW S, NEW L, NEW start \in L[a], NEW step,
         Leads(step, L, S, a, b)
  PROVE  \E f \in [a..b -> S] : Steps(f, step, a, b, start)
  <1>0. /\ L \in [a..b -> SUBSET S] /\ step \in [(a + 1)..b -> [S -> S]]
        /\ \A i \in (a + 1)..b : \A t \in L[i - 1] : step[i][t] \in L[i]
    BY DEF Leads
  <1> DEFINE Made(m, f) == /\ f[a] = start
                           /\ \A i \in (a + 1)..m : f[i] = step[i][f[i - 1]]
                           /\ f[m] \in L[m]
             T == {m \in a..b : \E f \in [a..m -> S] : Made(m, f)}
  <1>1. a \in T
    <2> DEFINE g == [i \in a..a |-> start]
    <2>1. g \in [a..a -> S] /\ Made(a, g) /\ a \in a..b
      BY <1>0
    <2> HIDE DEF g
    <2> QED
      BY <2>1
  <1>2. ASSUME NEW m \in T \cap (a..b), m < b PROVE m + 1 \in T
    <2>1. PICK f \in [a..m -> S] : Made(m, f)
      BY <1>2
    <2> DEFINE next == step[m + 1][f[m]]
               g == [i \in a..(m + 1) |-> IF i = m + 1 THEN next ELSE f[i]]
    <2>2. m \in Nat /\ m + 1 \in (a + 1)..b /\ m \in a..m /\ m \in a..b /\ (m + 1) - 1 = m /\ m + 1 \in a..b
      BY <1>2
    <2>3. next \in L[m + 1] /\ next \in S
      <3>1. f[m] \in L[m]
        BY <2>1
      <3>2. next \in L[m + 1]
        BY <1>0, <2>2, <3>1
      <3> QED
        BY <1>0, <2>2, <3>2
    <2> HIDE DEF next
    <2>4. g \in [a..(m + 1) -> S]
      BY <2>2, <2>3
    <2>5. g[m + 1] = next /\ \A i \in a..m : g[i] = f[i]
      BY <2>2
    <2> HIDE DEF g
    <2>6. ASSUME NEW i \in (a + 1)..(m + 1) PROVE g[i] = step[i][g[i - 1]]
      <3>1. CASE i = m + 1
        BY <2>2, <2>5, <3>1 DEF next
      <3>2. CASE i # m + 1
        <4>1. i \in (a + 1)..m /\ i \in a..m /\ i - 1 \in a..m
          BY <2>2, <3>2
        <4> QED
          BY <2>1, <2>5, <4>1
      <3> QED
        BY <3>1, <3>2
    <2>7. g[a] = start
      BY <2>1, <2>2, <2>5
    <2>8. Made(m + 1, g)
      BY <2>3, <2>5, <2>6, <2>7
    <2> QED
      BY <2>2, <2>4, <2>8
  <1>3. b \in T
    <2> HIDE DEF T
    <2>1. a..b \subseteq T
      BY <1>1, <1>2, UpFrom
    <2> QED
      BY <2>1
  <1> QED
    BY <1>3 DEF Steps

-----------------------------------------------------------------------------
(* The history of the clipboard.                                           *)

(* What is left of the first i texts without one of them.                  *)
LeftOf(h, text, S, i) ==
    {q \in Seq(S \ {text}) :
        /\ Len(q) <= i
        /\ \A j \in 1..Len(q) : \E k \in 1..i : q[j] = h[k]
        /\ (\A j, k \in 1..Len(h) : h[j] = h[k] => j = k) => \A j, k \in 1..Len(q) : q[j] = q[k] => j = k
        /\ i >= 1 /\ h[1] # text => Len(q) >= 1 /\ q[1] = h[1]}

LEMMA LeftMore ==
  ASSUME NEW S, NEW h \in Seq(S), NEW text, NEW i \in 1..Len(h), NEW q \in LeftOf(h, text, S, i - 1)
  PROVE  (IF h[i] = text THEN q ELSE Append(q, h[i])) \in LeftOf(h, text, S, i)
  <1>1. /\ q \in Seq(S \ {text}) /\ Len(q) \in Nat /\ Len(q) <= i - 1
        /\ \A j \in 1..Len(q) : \E k \in 1..(i - 1) : q[j] = h[k]
        /\ (\A j, k \in 1..Len(h) : h[j] = h[k] => j = k) => \A j, k \in 1..Len(q) : q[j] = q[k] => j = k
        /\ i - 1 >= 1 /\ h[1] # text => Len(q) >= 1 /\ q[1] = h[1]
    BY DEF LeftOf
  <1>2. CASE h[i] = text
    <2>1. \A j \in 1..Len(q) : \E k \in 1..i : q[j] = h[k]
      BY <1>1
    <2>2. i >= 1 /\ h[1] # text => Len(q) >= 1 /\ q[1] = h[1]
      BY <1>1, <1>2
    <2>3. Len(q) <= i
      BY <1>1
    <2> QED
      BY <1>1, <1>2, <2>1, <2>2, <2>3 DEF LeftOf
  <1>3. CASE h[i] # text
    <2> DEFINE r == Append(q, h[i])
    <2>1. /\ r \in Seq(S \ {text}) /\ Len(r) = Len(q) + 1 /\ r[Len(r)] = h[i]
          /\ \A j \in 1..Len(q) : r[j] = q[j]
      BY <1>1, <1>3
    <2> HIDE DEF r
    <2>2. \A j \in 1..Len(r) : \E k \in 1..i : r[j] = h[k]
      <3> SUFFICES ASSUME NEW j \in 1..Len(r) PROVE \E k \in 1..i : r[j] = h[k]
        OBVIOUS
      <3>1. CASE j = Len(r)
        BY <2>1, <3>1
      <3>2. CASE j # Len(r)
        <4>1. j \in 1..Len(q)
          BY <1>1, <2>1, <3>2
        <4> QED
          BY <1>1, <2>1, <4>1
      <3> QED
        BY <3>1, <3>2
    <2>3. ASSUME \A j, k \in 1..Len(h) : h[j] = h[k] => j = k, NEW j \in 1..Len(r), NEW k \in 1..Len(r), r[j] = r[k]
          PROVE  j = k
      <3>1. ASSUME NEW m \in 1..Len(q) PROVE q[m] # h[i]
        <4>1. PICK n \in 1..(i - 1) : q[m] = h[n]
          BY <1>1
        <4>2. n \in 1..Len(h) /\ n # i
          OBVIOUS
        <4> QED
          BY <2>3, <4>1, <4>2
      <3>2. \A m \in 1..Len(r) : m = Len(r) \/ m \in 1..Len(q)
        BY <1>1, <2>1
      <3>3. CASE j = Len(r) /\ k = Len(r)
        BY <3>3
      <3>4. CASE j = Len(r) /\ k \in 1..Len(q)
        BY <2>1, <2>3, <3>1, <3>4
      <3>5. CASE j \in 1..Len(q) /\ k = Len(r)
        BY <2>1, <2>3, <3>1, <3>5
      <3>6. CASE j \in 1..Len(q) /\ k \in 1..Len(q)
        BY <1>1, <2>1, <2>3, <3>6
      <3> QED
        BY <3>2, <3>3, <3>4, <3>5, <3>6
    <2>4. i >= 1 /\ h[1] # text => Len(r) >= 1 /\ r[1] = h[1]
      <3>1. CASE i = 1
        BY <1>1, <2>1, <3>1
      <3>2. CASE i # 1
        BY <1>1, <2>1, <3>2
      <3> QED
        BY <3>1, <3>2
    <2>5. Len(r) <= i
      BY <1>1, <2>1
    <2> QED
      BY <1>3, <2>1, <2>2, <2>3, <2>4, <2>5 DEF LeftOf, r
  <1> QED
    BY <1>2, <1>3

LEMMA WithoutFacts ==
  ASSUME NEW S, NEW h \in Seq(S), NEW text
  PROVE  Without(h, text) \in LeftOf(h, text, S, Len(h))
  <1> DEFINE n == Len(h)
             body(f) == [i \in 0..n |-> IF i = 0 THEN <<>>
                                        ELSE IF h[i] = text THEN f[i - 1] ELSE Append(f[i - 1], h[i])]
             upTo == CHOOSE f : f = body(f)
             One(i, q) == IF h[i] = text THEN q ELSE Append(q, h[i])
             L == [i \in 0..n |-> LeftOf(h, text, S, i)]
             step == [i \in (0 + 1)..n |-> [q \in Seq(S) |-> One(i, q)]]
  <1>1. Without(h, text) = upTo[n]
    BY DEF Without
  <1>2. n \in Nat /\ 0 \in Nat /\ 0 <= n
    OBVIOUS
  <1>3. <<>> \in LeftOf(h, text, S, 0)
    BY DEF LeftOf
  <1>4. ASSUME NEW i \in 1..n, NEW q \in LeftOf(h, text, S, i - 1)
        PROVE  One(i, q) \in LeftOf(h, text, S, i)
    BY LeftMore
  <1>5. \A i : LeftOf(h, text, S, i) \subseteq Seq(S)
    BY DEF LeftOf
  <1>6. \A i \in 1..n : \A q \in Seq(S) : One(i, q) \in Seq(S)
    OBVIOUS
  <1> HIDE DEF n, One
  <1>7. L \in [0..n -> SUBSET Seq(S)] /\ L[0] = LeftOf(h, text, S, 0)
    BY <1>2, <1>5
  <1>8. step \in [(0 + 1)..n -> [Seq(S) -> Seq(S)]]
    BY <1>6
  <1>9. \A i \in (0 + 1)..n : \A t \in L[i - 1] : step[i][t] \in L[i]
    <2> SUFFICES ASSUME NEW i \in (0 + 1)..n, NEW t \in L[i - 1] PROVE step[i][t] \in L[i]
      OBVIOUS
    <2>1. i - 1 \in 0..n /\ i \in 0..n /\ i \in 1..n
      BY <1>2
    <2>2. t \in LeftOf(h, text, S, i - 1) /\ t \in Seq(S)
      BY <2>1, <1>5
    <2>3. step[i][t] = One(i, t)
      BY <2>1, <2>2
    <2>4. L[i] = LeftOf(h, text, S, i)
      BY <2>1
    <2> QED
      BY <2>1, <2>2, <2>3, <2>4, <1>4
  <1> HIDE DEF L
  <1>10. PICK g \in [0..n -> Seq(S)] : g[0] = <<>> /\ \A i \in (0 + 1)..n : g[i] = step[i][g[i - 1]]
    <2>1. <<>> \in L[0] /\ Leads(step, L, Seq(S), 0, n)
      BY <1>3, <1>7, <1>8, <1>9 DEF Leads
    <2> HIDE DEF step
    <2>2. \E f \in [0..n -> Seq(S)] : Steps(f, step, 0, n, <<>>)
      BY <1>2, <2>1, Climbs
    <2> QED
      BY <2>2 DEF Steps
  <1>11. g = body(g)
    <2>1. ASSUME NEW i \in 0..n PROVE g[i] = body(g)[i]
      <3>1. CASE i = 0
        BY <1>10, <3>1
      <3>2. CASE i # 0
        <4>1. i \in 1..n /\ i \in (0 + 1)..n /\ i - 1 \in 0..n
          BY <1>2, <3>2
        <4>2. g[i] = step[i][g[i - 1]] /\ g[i - 1] \in Seq(S)
          BY <1>10, <4>1
        <4>3. g[i] = One(i, g[i - 1])
          BY <4>1, <4>2
        <4> QED
          BY <3>2, <4>1, <4>3 DEF One
      <3> QED
        BY <3>1, <3>2
    <2>2. DOMAIN body(g) = 0..n /\ body(g) = [i \in DOMAIN body(g) |-> body(g)[i]]
      OBVIOUS
    <2> HIDE DEF body
    <2> QED
      BY <2>1, <2>2
  <1>12. upTo = body(upTo)
    <2> HIDE DEF body
    <2> QED
      BY <1>11
  <1> HIDE DEF upTo
  <1>13. upTo[0] = <<>> /\ \A i \in 1..n : upTo[i] = One(i, upTo[i - 1])
    <2>1. /\ body(upTo)[0] = <<>>
          /\ \A i \in 1..n : body(upTo)[i] = One(i, upTo[i - 1])
      BY <1>2 DEF One
    <2> HIDE DEF body
    <2> QED
      BY <1>12, <2>1
  <1> HIDE DEF body
  <1> DEFINE T == {i \in 0..n : upTo[i] \in LeftOf(h, text, S, i)}
  <1>14. 0..n \subseteq T
    <2>1. 0 \in T
      BY <1>2, <1>3, <1>13
    <2>2. ASSUME NEW i \in T \cap (0..n), i < n PROVE i + 1 \in T
      <3>1. i + 1 \in 1..n /\ i + 1 \in 0..n /\ (i + 1) - 1 = i
        BY <1>2, <2>2
      <3>2. upTo[i + 1] = One(i + 1, upTo[i])
        BY <1>13, <3>1
      <3> QED
        BY <1>4, <2>2, <3>1, <3>2
    <2> HIDE DEF T
    <2> QED
      BY <1>2, <2>1, <2>2, UpFrom
  <1> QED
    BY <1>1, <1>2, <1>14 DEF n


LEMMA SmallerOf ==
  ASSUME NEW m \in Nat, NEW n \in Nat
  PROVE  Min({m, n}) \in Nat /\ Min({m, n}) = IF m <= n THEN m ELSE n
  <1>1. \E x \in {m, n} : \A y \in {m, n} : x <= y
    OBVIOUS
  <1>2. Min({m, n}) \in {m, n} /\ \A y \in {m, n} : Min({m, n}) <= y
    BY <1>1 DEF Min
  <1> QED
    BY <1>2

Distinct(h) == \A j, k \in 1..Len(h) : h[j] = h[k] => j = k

(* A text that is read comes to the front, and is there once.              *)
LEMMA PushFacts ==
  ASSUME NEW S, NEW h \in Seq(S), NEW text \in S, Distinct(h)
  PROVE  /\ PushEntry(h, text) \in Seq(S) /\ Len(PushEntry(h, text)) \in 1..HistoryLimit
         /\ PushEntry(h, text)[1] = text /\ Distinct(PushEntry(h, text))
  <1> DEFINE rest == Without(h, text)
             s == <<text>> \o rest
             n == Min({HistoryLimit, Len(rest) + 1})
             r == SubSeq(s, 1, n)
  <1>1. PushEntry(h, text) = r
    BY DEF PushEntry
  <1>2. rest \in Seq(S \ {text}) /\ \A j, k \in 1..Len(rest) : rest[j] = rest[k] => j = k
    BY WithoutFacts DEF LeftOf, Distinct
  <1> HIDE DEF rest
  <1>3. Len(rest) \in Nat /\ \A j \in 1..Len(rest) : rest[j] \in S /\ rest[j] # text
    BY <1>2
  <1>4. /\ s \in Seq(S) /\ Len(s) = Len(rest) + 1 /\ s[1] = text
        /\ \A j \in 2..Len(s) : s[j] = rest[j - 1]
    BY <1>2
  <1> HIDE DEF s
  <1>5. n \in Nat /\ 1 <= n /\ n <= HistoryLimit /\ n <= Len(s)
    BY <1>3, <1>4, SmallerOf, InternalAssumption
  <1> HIDE DEF n
  <1>6. r \in Seq(S) /\ Len(r) = n /\ \A j \in 1..n : r[j] = s[j]
    <2>1. 1 \in Int /\ n \in Int /\ \A j \in 1..n : s[j] \in S
      BY <1>4, <1>5
    <2>2. /\ SubSeq(s, 1, n) \in Seq(S)
          /\ Len(SubSeq(s, 1, n)) = IF 1 <= n THEN n - 1 + 1 ELSE 0
          /\ \A j \in 1 .. n - 1 + 1 : SubSeq(s, 1, n)[j] = s[1 + j - 1]
      BY <1>4, <2>1, SubSeqProperties
    <2>3. ASSUME NEW j \in 1..n PROVE r[j] = s[j]
      <3>1. j \in 1 .. n - 1 + 1 /\ 1 + j - 1 = j
        BY <1>5
      <3> QED
        BY <2>2, <3>1
    <2> QED
      BY <1>5, <2>2, <2>3
  <1> HIDE DEF r
  <1>7. ASSUME NEW j \in 1..n, NEW k \in 1..n, r[j] = r[k] PROVE j = k
    <2>1. s[j] = s[k]
      BY <1>6, <1>7
    <2>2. ASSUME NEW i \in 2..Len(s) PROVE s[i] # text
      <3>1. i - 1 \in 1..Len(rest)
        BY <1>3, <1>4
      <3> QED
        BY <1>3, <1>4, <3>1
    <2>3. \A i \in 1..n : i = 1 \/ i \in 2..Len(s)
      BY <1>4, <1>5
    <2>4. CASE j \in 2..Len(s) /\ k \in 2..Len(s)
      <3>1. j - 1 \in 1..Len(rest) /\ k - 1 \in 1..Len(rest) /\ rest[j - 1] = rest[k - 1]
        BY <1>3, <1>4, <2>1, <2>4
      <3> QED
        BY <1>2, <3>1
    <2> QED
      BY <1>4, <2>1, <2>2, <2>3, <2>4
  <1>8. Len(r) \in 1..HistoryLimit /\ r[1] = text
    BY <1>4, <1>5, <1>6, InternalAssumption
  <1>9. Distinct(r)
    BY <1>6, <1>7 DEF Distinct
  <1> QED
    BY <1>1, <1>6, <1>8, <1>9

(* What was read last is in front; nothing sensitive is ever in the pipe.  *)
Clean == Texts \ Sensitive

ClipInv ==
    /\ history \in Seq(Clean) /\ Len(history) <= HistoryLimit /\ Distinct(history)
    /\ pipe \in Seq(Clean) /\ clip \in Texts \cup {NoText}
    /\ recent # NoText => Len(history) >= 1 /\ history[1] = recent

LEMMA EmittedFacts ==
  ASSUME NEW text
  PROVE  Emitted(text) \in Seq(Clean)
  <1>1. text \in Clean => <<text>> \in Seq(Clean)
    OBVIOUS
  <1>2. <<>> \in Seq(Clean)
    BY EmptySeq
  <1>3. Emitted(text) = IF text \in Clean THEN <<text>> ELSE <<>>
    BY DEF Emitted, Clean
  <1> QED
    BY <1>1, <1>2, <1>3

LEMMA ClipInit == AppsInit \/ ClipboardInit => ClipInv
  <1>1. AppsInit \/ ClipboardInit =>
          history = <<>> /\ pipe = <<>> /\ clip = NoText /\ recent = NoText
    BY DEF AppsInit, ClipboardInit, InternalRest
  <1>2. <<>> \in Seq(Clean) /\ Len(<<>>) = 0
    BY EmptySeq
  <1>3. Distinct(<<>>) /\ Len(<<>>) <= HistoryLimit
    BY <1>2, InternalAssumption DEF Distinct
  <1> QED
    BY <1>1, <1>2, <1>3 DEF ClipInv

LEMMA ClipKeeps ==
  ASSUME ClipInv, AppsNext \/ ClipboardNext \/ UNCHANGED internalVars
  PROVE  ClipInv'
  <1>1. /\ history \in Seq(Clean) /\ Len(history) <= HistoryLimit /\ Distinct(history)
        /\ pipe \in Seq(Clean) /\ clip \in Texts \cup {NoText}
        /\ recent # NoText => Len(history) >= 1 /\ history[1] = recent
    BY DEF ClipInv
  <1>2. CASE UNCHANGED <<history, clip, pipe, recent>>
    BY <1>1, <1>2 DEF ClipInv, Distinct
  <1>3. ASSUME NEW text \in Texts, CopyText(text) PROVE ClipInv'
    <2>1. pipe' \in Seq(Clean)
      BY <1>1, <1>3, EmittedFacts, ConcatProperties DEF CopyText
    <2> QED
      BY <1>1, <1>3, <2>1 DEF CopyText, ClipInv, Distinct
  <1>4. CASE ReadFrame
    <2> DEFINE text == Head(pipe)
    <2>1. text \in Clean /\ pipe' \in Seq(Clean) /\ clip' = clip
          /\ history' = PushEntry(history, text) /\ recent' = text
      BY <1>1, <1>4 DEF ReadFrame
    <2> HIDE DEF text
    <2>2. /\ history' \in Seq(Clean) /\ Len(history') \in 1..HistoryLimit /\ history'[1] = text
          /\ Distinct(history')
      BY <1>1, <2>1, PushFacts
    <2>3. Len(history') >= 1 /\ Len(history') <= HistoryLimit /\ Distinct(history)'
      BY <2>2, InternalAssumption
    <2> QED
      BY <1>1, <2>1, <2>2, <2>3 DEF ClipInv
  <1>5. ASSUME NEW text \in Texts, RemoveEntry(text) PROVE ClipInv'
    <2>1. /\ history' = Without(history, text) /\ clip' = clip /\ pipe' = pipe
          /\ recent' = IF recent = text THEN NoText ELSE recent
      BY <1>5 DEF RemoveEntry
    <2>2. history' \in LeftOf(history, text, Clean, Len(history))
      BY <1>1, <2>1, WithoutFacts
    <2>3. history' \in Seq(Clean \ {text}) /\ Len(history') <= Len(history) /\ Distinct(history)'
      BY <1>1, <2>2 DEF LeftOf, Distinct
    <2>4. Len(history) >= 1 /\ history[1] # text => Len(history') >= 1 /\ history'[1] = history[1]
      BY <2>2 DEF LeftOf
    <2>5. history' \in Seq(Clean) /\ Len(history') <= HistoryLimit
      BY <1>1, <2>3, InternalAssumption
    <2> QED
      BY <1>1, <2>1, <2>3, <2>4, <2>5 DEF ClipInv
  <1>6. CASE WatcherExits
    BY <1>1, <1>6 DEF WatcherExits, ClipInv, Distinct
  <1>7. CASE WatcherStarts
    BY <1>1, <1>7, EmittedFacts DEF WatcherStarts, ClipInv, Distinct
  <1>8. CASE ClipboardNext
    BY <1>3, <1>4, <1>5, <1>6, <1>7, <1>8 DEF ClipboardNext
  <1>9. CASE AppsNext \/ UNCHANGED internalVars
    BY <1>2, <1>9 DEF AppsNext, clipVars, internalVars
  <1> QED
    BY <1>8, <1>9

LEMMA ClipShown == ClipInv => HistoryIsRecent
  <1> SUFFICES ASSUME ClipInv PROVE HistoryIsRecent
    OBVIOUS
  <1>1. history \in Seq(Clean) /\ Len(history) <= HistoryLimit /\ Distinct(history)
    BY DEF ClipInv
  <1>2. IsInjective(history)
    BY <1>1 DEF IsInjective, Distinct
  <1>3. ToSet(history) \cap Sensitive = {}
    BY <1>1 DEF ToSet, Clean
  <1>4. recent # NoText => history # <<>> /\ Head(history) = recent
    BY <1>1 DEF ClipInv
  <1> QED
    BY <1>1, <1>2, <1>3, <1>4 DEF HistoryIsRecent


-----------------------------------------------------------------------------
(* The applications.                                                       *)

Dirs == 1..NumDirs

\* The applications that a directory is the first to show, and those that an
\* earlier one shows.
FirstIn(d) == {a \in AppIds : disk[d][a] = "shown" /\ \A c \in Dirs : c < d => disk[c][a] # "shown"}
ShownBefore(d) == {a \in AppIds : \E c \in Dirs : c < d /\ disk[c][a] = "shown"}

Loads == [at : 0..(NumDirs + 1), seen : SUBSET AppIds, read : Seq(SUBSET AppIds)]
Whos == {"first", "trigger"}

(* What a thread has read is what is on disk, so far.                      *)
Correct(t) ==
    /\ t.at >= 1 /\ Len(t.read) = t.at - 1 /\ t.seen = ShownBefore(t.at)
    /\ \A d \in 1..(t.at - 1) : t.read[d] = FirstIn(d)
Listed(r) == Len(r) = NumDirs /\ \A d \in Dirs : r[d] = FirstIn(d)

AppsTypeOK ==
    /\ disk \in [Dirs -> [AppIds -> {"none", "hidden", "shown"}]]
    /\ loaders \in [Whos -> Loads] /\ apps \in Seq(SUBSET AppIds)

(* Unless a change is about to be noticed, was not noticed or was undone   *)
(* by a late load, the thread that will replace the list last has read     *)
(* what is on disk, or the list is that.                                   *)
AppsInv ==
    /\ AppsTypeOK
    /\ tools = "apps" /\ ~late /\ ~changed =>
         IF loaders["trigger"] # Idle THEN Correct(loaders["trigger"])
         ELSE IF loaders["first"] # Idle THEN Correct(loaders["first"])
         ELSE Listed(apps)

LEMMA BegunFacts ==
  /\ Idle \in Loads /\ Begun \in Loads /\ Begun # Idle /\ Correct(Begun)
  <1>1. <<>> \in Seq(SUBSET AppIds) /\ Len(<<>>) = 0
    BY EmptySeq
  <1>2. Idle \in Loads /\ Begun \in Loads /\ Begun # Idle
    BY <1>1, InternalAssumption DEF Idle, Begun, Loads
  <1>3. Begun.at = 1 /\ Begun.seen = {} /\ Begun.read = <<>>
    BY DEF Begun
  <1>4. ShownBefore(1) = {}
    BY InternalAssumption DEF ShownBefore, Dirs
  <1> QED
    BY <1>1, <1>2, <1>3, <1>4 DEF Correct

LEMMA ReadFacts ==
  ASSUME AppsTypeOK, NEW t \in Loads, t.at \in Dirs
  PROVE  /\ ReadDirectory(t, disk[t.at]) \in Loads
         /\ ReadDirectory(t, disk[t.at]) # Idle
         /\ Correct(t) => Correct(ReadDirectory(t, disk[t.at]))
  <1> DEFINE d == t.at
             k == Kept(disk[d], t.seen)
             r == ReadDirectory(t, disk[d])
  <1>1. d \in Nat /\ d >= 1 /\ d <= NumDirs /\ NumDirs \in Nat /\ d \in Dirs
    BY InternalAssumption DEF Dirs
  <1>2. r = [at |-> d + 1, seen |-> t.seen \cup k, read |-> Append(t.read, k)]
    BY DEF ReadDirectory
  <1>3. t.read \in Seq(SUBSET AppIds) /\ t.seen \subseteq AppIds /\ k \subseteq AppIds
    BY DEF Loads, Kept
  <1> HIDE DEF d, r
  <1>4. \A a : a \in k <=> a \in AppIds /\ a \notin t.seen /\ disk[d][a] = "shown"
    BY DEF Kept
  <1> HIDE DEF k
  <1>5. r \in Loads
    <2>1. d + 1 \in 0..(NumDirs + 1) /\ Append(t.read, k) \in Seq(SUBSET AppIds)
      BY <1>1, <1>3
    <2> QED
      BY <1>2, <1>3, <2>1 DEF Loads
  <1>6. r.at = d + 1 /\ r.seen = t.seen \cup k /\ r.read = Append(t.read, k)
    BY <1>2
  <1>7. r # Idle
    BY <1>1, <1>6 DEF Idle
  <1>8. ASSUME Correct(t) PROVE Correct(r)
    <2>1. Len(t.read) = d - 1 /\ t.seen = ShownBefore(d) /\ \A c \in 1..(d - 1) : t.read[c] = FirstIn(c)
      BY <1>8 DEF Correct, d
    <2>2. Len(r.read) = d /\ r.read[d] = k /\ \A c \in 1..(d - 1) : r.read[c] = t.read[c]
      BY <1>1, <1>3, <1>6, <2>1
    <2>3. k = FirstIn(d)
      BY <1>4, <2>1 DEF ShownBefore, FirstIn
    <2>4. r.seen = ShownBefore(d + 1)
      <3>1. \A c \in Dirs : c < d + 1 <=> c < d \/ c = d
        BY <1>1 DEF Dirs
      <3> QED
        BY <1>1, <1>4, <1>6, <2>1, <3>1 DEF ShownBefore
    <2>5. \A c \in 1..d : r.read[c] = FirstIn(c)
      <3>1. \A c \in 1..d : c = d \/ c \in 1..(d - 1)
        BY <1>1
      <3> QED
        BY <2>1, <2>2, <2>3, <3>1
    <2>6. r.at >= 1 /\ r.at - 1 = d
      BY <1>1, <1>6
    <2> QED
      BY <1>6, <2>2, <2>4, <2>5, <2>6 DEF Correct
  <1> QED
    BY <1>5, <1>7, <1>8 DEF r, d

LEMMA AppsBegin == AppsInit \/ ClipboardInit => AppsInv
  <1>1. ASSUME AppsInit PROVE AppsInv
    <2>1. /\ disk \in [Dirs -> [AppIds -> {"none", "shown"}]]
          /\ apps = <<>> /\ loaders = [first |-> Begun, trigger |-> Idle]
      BY <1>1 DEF AppsInit, Dirs
    <2>2. loaders \in [Whos -> Loads] /\ loaders["first"] = Begun /\ loaders["trigger"] = Idle
      BY <2>1, BegunFacts DEF Whos
    <2>3. AppsTypeOK
      BY <2>1, <2>2, EmptySeq DEF AppsTypeOK
    <2> QED
      BY <2>2, <2>3, BegunFacts DEF AppsInv
  <1>2. ASSUME ClipboardInit PROVE AppsInv
    <2>1. /\ tools = "clipboard" /\ disk = [d \in Dirs |-> [a \in AppIds |-> "none"]]
          /\ apps = <<>> /\ loaders = [first |-> Idle, trigger |-> Idle]
      BY <1>2 DEF ClipboardInit, InternalRest, Dirs
    <2>2. loaders \in [Whos -> Loads]
      BY <2>1, BegunFacts DEF Whos
    <2> QED
      BY <2>1, <2>2, EmptySeq DEF AppsInv, AppsTypeOK
  <1> QED
    BY <1>1, <1>2

LEMMA AppsKeep ==
  ASSUME AppsInv, AppsNext \/ ClipboardNext \/ UNCHANGED internalVars
  PROVE  AppsInv'
  <1>1. AppsTypeOK /\ \A who \in Whos : loaders[who] \in Loads
    BY DEF AppsInv, AppsTypeOK
  <1>2. disk' = disk => \A t, r : (Correct(t)' <=> Correct(t)) /\ (Listed(r)' <=> Listed(r))
    BY DEF Correct, Listed, FirstIn, ShownBefore
  <1>3. CASE UNCHANGED <<tools, disk, apps, changed, loaders, late>>
    BY <1>3 DEF AppsInv, AppsTypeOK, Correct, Listed, FirstIn, ShownBefore
  <1>4. ASSUME NEW who \in Whos, LoadStep(who), tools' = tools PROVE AppsInv'
    <2> DEFINE t == loaders[who]
               r == ReadDirectory(t, disk[t.at])
    <2>1. /\ t.at \in Dirs /\ t \in Loads /\ loaders' = [loaders EXCEPT ![who] = r]
          /\ UNCHANGED <<tools, disk, apps, changed, late>>
      BY <1>1, <1>4 DEF LoadStep, Loading, Dirs
    <2>2. r \in Loads /\ r # Idle /\ (Correct(t) => Correct(r))
      BY <1>1, <2>1, ReadFacts
    <2>3. t # Idle
      BY <2>1 DEF Idle, Dirs
    <2> HIDE DEF r
    <2>4. AppsTypeOK'
      BY <1>1, <2>1, <2>2 DEF AppsTypeOK
    <2>5. loaders'[who] = r /\ \A w \in Whos : w # who => loaders'[w] = loaders[w]
      BY <1>1, <2>1 DEF AppsTypeOK
    <2> QED
      BY <1>2, <2>1, <2>2, <2>3, <2>4, <2>5 DEF AppsInv, Whos
  <1>5. ASSUME NEW who \in Whos, LoadEnds(who), tools' = tools PROVE AppsInv'
    <2> DEFINE t == loaders[who]
    <2>1. /\ t.at > NumDirs /\ t \in Loads /\ loaders' = [loaders EXCEPT ![who] = Idle]
          /\ apps' = t.read
          /\ late' = (late \/ (who = "trigger" /\ loaders["first"] # Idle))
          /\ UNCHANGED <<tools, disk, changed>>
      BY <1>1, <1>5 DEF LoadEnds, HasLoaded
    <2>2. t.at = NumDirs + 1 /\ t.read \in Seq(SUBSET AppIds)
      BY <2>1, InternalAssumption DEF Loads
    <2>3. Correct(t) => Listed(t.read)
      BY <2>2, InternalAssumption DEF Correct, Listed, Dirs
    <2>4. t # Idle
      BY <2>2, InternalAssumption DEF Idle
    <2>5. AppsTypeOK'
      BY <1>1, <2>1, <2>2, BegunFacts DEF AppsTypeOK
    <2>6. loaders'[who] = Idle /\ \A w \in Whos : w # who => loaders'[w] = loaders[w]
      BY <1>1, <2>1 DEF AppsTypeOK
    <2> QED
      BY <1>2, <2>1, <2>3, <2>4, <2>5, <2>6 DEF AppsInv, Whos
  <1>6. ASSUME TriggerFires, tools' = tools PROVE AppsInv'
    <2>1. /\ loaders' = [loaders EXCEPT !["trigger"] = Begun]
          /\ UNCHANGED <<tools, disk, apps, late>>
      BY <1>6 DEF TriggerFires
    <2>2. AppsTypeOK' /\ loaders'["trigger"] = Begun
      BY <1>1, <2>1, BegunFacts DEF AppsTypeOK, Whos
    <2> QED
      BY <1>2, <2>1, <2>2, BegunFacts DEF AppsInv
  <1>7. ASSUME NEW d \in 1..NumDirs, NEW a \in AppIds, NEW kind \in {"none", "hidden", "shown"},
               InstallApp(d, a, kind), tools' = tools
        PROVE  AppsInv'
    <2>1. /\ disk' = [disk EXCEPT ![d][a] = kind]
          /\ changed' = (changed \/ d \in watches) /\ late' = (late \/ d \notin watches)
          /\ UNCHANGED <<apps, loaders>>
      BY <1>7 DEF InstallApp
    <2>2. late' \/ changed'
      BY <2>1
    <2>3. AppsTypeOK'
      BY <1>1, <2>1 DEF AppsTypeOK, Dirs
    <2> QED
      BY <2>2, <2>3 DEF AppsInv
  <1>8. CASE AppsNext
    <2>1. DOMAIN loaders = Whos /\ tools' = tools
      BY <1>1, <1>8 DEF AppsTypeOK, AppsNext
    <2> QED
      BY <1>4, <1>5, <1>6, <1>7, <1>8, <2>1 DEF AppsNext
  <1>9. CASE ClipboardNext \/ UNCHANGED internalVars
    BY <1>3, <1>9 DEF ClipboardNext, appVars, internalVars
  <1> QED
    BY <1>8, <1>9

LEMMA AppsShown == AppsInv => AppsFollowDisk
  <1> SUFFICES ASSUME AppsInv, tools = "apps", ~changed, ~late,
                      loaders = [first |-> Idle, trigger |-> Idle], NEW a \in AppIds
               PROVE  LET at == {d \in 1..NumDirs : disk[d][a] = "shown"}
                      IN  {d \in DOMAIN apps : a \in apps[d]} = IF at = {} THEN {} ELSE {Min(at)}
    BY DEF AppsFollowDisk
  <1> DEFINE at == {d \in 1..NumDirs : disk[d][a] = "shown"}
  <1>1. Listed(apps) /\ apps \in Seq(SUBSET AppIds)
    BY DEF AppsInv, AppsTypeOK
  <1>2. DOMAIN apps = Dirs
    BY <1>1, InternalAssumption DEF Listed, Dirs
  <1>3. \A d \in Dirs : a \in apps[d] <=> d \in at /\ \A c \in at : c >= d
    <2>1. \A d \in Dirs : a \in apps[d] <=> d \in at /\ \A c \in Dirs : c < d => c \notin at
      BY <1>1 DEF Listed, FirstIn, Dirs
    <2>2. \A c, d \in Dirs : c < d <=> ~(c >= d)
      BY InternalAssumption DEF Dirs
    <2>3. at \subseteq Dirs
      BY DEF Dirs
    <2> HIDE DEF at
    <2> QED
      BY <2>1, <2>2, <2>3
  <1>4. CASE at = {}
    BY <1>2, <1>3, <1>4
  <1>5. CASE at # {}
    <2>1. at \subseteq Dirs /\ at \in SUBSET Nat
      BY InternalAssumption DEF Dirs
    <2> HIDE DEF at
    <2>2. \E x \in at : \A y \in at : x <= y
      BY <1>5, <2>1, Least
    <2>3. Min(at) \in at /\ \A y \in at : Min(at) <= y
      BY <2>2 DEF Min
    <2>4. \A d \in Dirs : a \in apps[d] <=> d = Min(at)
      <3>1. ASSUME NEW d \in at PROVE (\A c \in at : c >= d) <=> d = Min(at)
        <4>1. d \in Nat /\ Min(at) \in Nat /\ Min(at) <= d
          BY <2>1, <2>3
        <4>2. (\A c \in at : c >= d) => d = Min(at)
          BY <2>3, <4>1
        <4>3. d = Min(at) => \A c \in at : c >= d
          BY <2>1, <2>3, <4>1
        <4> QED
          BY <4>2, <4>3
      <3> QED
        BY <1>3, <2>3, <3>1
    <2>5. {d \in DOMAIN apps : a \in apps[d]} = {Min(at)}
      BY <1>2, <2>1, <2>3, <2>4
    <2> QED
      BY <1>5, <2>5 DEF at
  <1> QED
    BY <1>4, <1>5


-----------------------------------------------------------------------------
(* The ranking.                                                            *)
Positions == 1..Len(files)
Hits == {i \in Positions : files[i].score > 0}

LEMMA KeysAre ==
  ASSUME files \in Seq(FileKinds)
  PROVE  /\ Len(files) \in Nat
         /\ \A i \in Positions : files[i].score \in Nat /\ files[i].depth \in Nat /\ files[i].name \in Nat
  <1>1. Len(files) \in Nat /\ \A i \in Positions : files[i] \in FileKinds
    BY DEF Positions
  <1>2. \A f \in FileKinds : f.score \in Nat /\ f.depth \in Nat /\ f.name \in Nat
    BY RankAssumption
  <1> QED
    BY <1>1, <1>2

(* Any two positions are ordered, one way only.                            *)
LEMMA AheadOrder ==
  ASSUME files \in Seq(FileKinds)
  PROVE  /\ \A i, j \in Positions : i # j => Ahead(i, j) \/ Ahead(j, i)
         /\ \A i, j \in Positions : ~(Ahead(i, j) /\ Ahead(j, i))
  <1> SUFFICES ASSUME NEW i \in Positions, NEW j \in Positions
               PROVE  (i # j => Ahead(i, j) \/ Ahead(j, i)) /\ ~(Ahead(i, j) /\ Ahead(j, i))
    OBVIOUS
  <1>1. i \in Nat /\ j \in Nat
    BY KeysAre DEF Positions
  <1>2. /\ files[i].score \in Nat /\ files[i].depth \in Nat /\ files[i].name \in Nat
        /\ files[j].score \in Nat /\ files[j].depth \in Nat /\ files[j].name \in Nat
    BY KeysAre
  <1>3. CASE Better(files[i], files[j])
    <2>1. ~Better(files[j], files[i])
      BY <1>2, <1>3 DEF Better
    <2> QED
      BY <1>3, <2>1 DEF Ahead
  <1>4. CASE Better(files[j], files[i])
    <2>1. ~Better(files[i], files[j])
      BY <1>2, <1>4 DEF Better
    <2> QED
      BY <1>4, <2>1 DEF Ahead
  <1>5. CASE ~Better(files[i], files[j]) /\ ~Better(files[j], files[i])
    BY <1>1, <1>5 DEF Ahead
  <1> QED
    BY <1>3, <1>4, <1>5

(* A higher score is better.                                               *)
LEMMA ScoreDecides == \A f, g : ~Better(f, g) => ~(f.score > g.score)
  BY DEF Better

LEMMA AheadTransitive ==
  ASSUME files \in Seq(FileKinds), NEW i \in Positions, NEW j \in Positions, NEW k \in Positions,
         Ahead(i, j), Ahead(j, k)
  PROVE  Ahead(i, k)
  <1>1. i \in Nat /\ j \in Nat /\ k \in Nat
    BY KeysAre DEF Positions
  <1>2. /\ files[i].score \in Nat /\ files[i].depth \in Nat /\ files[i].name \in Nat
        /\ files[j].score \in Nat /\ files[j].depth \in Nat /\ files[j].name \in Nat
        /\ files[k].score \in Nat /\ files[k].depth \in Nat /\ files[k].name \in Nat
    BY KeysAre
  <1>3. ~Better(files[j], files[i]) /\ ~Better(files[k], files[j])
    BY AheadOrder DEF Ahead
  <1>4. CASE Better(files[i], files[k])
    BY <1>4 DEF Ahead
  <1>5. CASE ~Better(files[i], files[k])
    <2>1. files[i].score >= files[j].score /\ files[j].score >= files[k].score
      <3>1. ~(files[j].score > files[i].score) /\ ~(files[k].score > files[j].score)
        BY <1>3, ScoreDecides
      <3> QED
        BY <1>2, <3>1
    <2>2. files[i].score = files[j].score /\ files[j].score = files[k].score
      <3>1. ~(files[i].score > files[k].score)
        BY <1>5, ScoreDecides
      <3> QED
        BY <1>2, <2>1, <3>1
    <2>3. files[i].depth <= files[j].depth /\ files[j].depth <= files[k].depth
      BY <1>2, <1>3, <2>2 DEF Better
    <2>4. files[i].depth = files[j].depth /\ files[j].depth = files[k].depth
      BY <1>2, <1>5, <2>2, <2>3 DEF Better
    <2>5. files[i].name <= files[j].name /\ files[j].name <= files[k].name
      BY <1>2, <1>3, <2>2, <2>4 DEF Better
    <2>6. files[i].name = files[j].name /\ files[j].name = files[k].name
      BY <1>2, <1>5, <2>2, <2>4, <2>5 DEF Better
    <2>7. i < j /\ j < k
      BY <1>2, <2>2, <2>4, <2>6 DEF Ahead, Better
    <2>8. ~Better(files[k], files[i])
      BY <1>2, <2>2, <2>4, <2>6 DEF Better
    <2> QED
      BY <1>1, <2>7, <2>8 DEF Ahead
  <1> QED
    BY <1>4, <1>5

(* The better of two files is ahead, and an earlier one that is no worse.  *)
LEMMA BetterAhead ==
  ASSUME files \in Seq(FileKinds), NEW i \in Positions, NEW j \in Positions
  PROVE  /\ Better(files[i], files[j]) => Ahead(i, j)
         /\ j < i /\ Ahead(i, j) => Better(files[i], files[j])
         /\ Ahead(i, j) => ~Better(files[j], files[i])
  <1>1. i \in Nat /\ j \in Nat
    BY KeysAre DEF Positions
  <1>2. /\ files[i].score \in Nat /\ files[i].depth \in Nat /\ files[i].name \in Nat
        /\ files[j].score \in Nat /\ files[j].depth \in Nat /\ files[j].name \in Nat
    BY KeysAre
  <1>3. Ahead(i, j) => ~Better(files[j], files[i])
    BY <1>1, <1>2 DEF Ahead, Better
  <1>4. j < i /\ Ahead(i, j) => Better(files[i], files[j])
    BY <1>1 DEF Ahead
  <1> QED
    BY <1>3, <1>4 DEF Ahead

(* What is not empty has a worst.                                          *)
LEMMA WorstFacts ==
  ASSUME files \in Seq(FileKinds), NEW B \in SUBSET Positions, B # {}
  PROVE  Worst(B) \in B /\ \A j \in B \ {Worst(B)} : Ahead(j, Worst(B))
  <1> DEFINE n == Len(files)
             Lowest(C, w) == \A j \in C \ {w} : Ahead(j, w)
             T == {m \in 0..n : \A C \in SUBSET (1..m) : C # {} => \E w \in C : Lowest(C, w)}
  <1>1. n \in Nat /\ 0 \in Nat /\ Positions = 1..n
    BY KeysAre DEF Positions
  <1>2. 0 \in T
    <2>1. \A C \in SUBSET (1..0) : C = {}
      OBVIOUS
    <2>2. 0 \in 0..n
      BY <1>1
    <2> HIDE DEF Lowest, n
    <2> QED
      BY <2>1, <2>2
  <1>3. ASSUME NEW m \in T \cap (0..n), m < n PROVE m + 1 \in T
    <2>1. m \in Nat /\ m + 1 \in 0..n /\ m + 1 \in Positions /\ 1..m \subseteq Positions
          /\ 1..(m + 1) = (1..m) \cup {m + 1}
      BY <1>1, <1>3
    <2>2. ASSUME NEW C \in SUBSET (1..(m + 1)), C # {} PROVE \E w \in C : Lowest(C, w)
      <3> DEFINE D == C \ {m + 1}
      <3>1. D \in SUBSET (1..m) /\ D \subseteq C /\ \A j \in C : j \in D \/ j = m + 1
        BY <2>1
      <3>2. CASE D = {}
        <4>1. C = {m + 1}
          BY <2>2, <3>1, <3>2
        <4>2. Lowest(C, m + 1)
          BY <4>1
        <4> QED
          BY <4>1, <4>2
      <3>3. CASE D # {}
        <4>1. PICK w \in D : Lowest(D, w)
          BY <1>3, <3>1, <3>3
        <4>2. w \in Positions /\ w \in C /\ w # m + 1
          BY <4>1, <3>1, <2>1
        <4>3. CASE m + 1 \notin C
          <5>1. Lowest(C, w)
            BY <4>1, <4>3, <3>1
          <5> QED
            BY <4>2, <5>1
        <4>4. CASE m + 1 \in C /\ Ahead(m + 1, w)
          <5>1. Lowest(C, w)
            <6> SUFFICES ASSUME NEW j \in C \ {w} PROVE Ahead(j, w)
              OBVIOUS
            <6>1. CASE j = m + 1
              BY <4>4, <6>1
            <6>2. CASE j # m + 1
              BY <4>1, <6>2
            <6> QED
              BY <6>1, <6>2
          <5> QED
            BY <4>2, <5>1
        <4>5. CASE m + 1 \in C /\ ~Ahead(m + 1, w)
          <5>1. Ahead(w, m + 1)
            BY <4>2, <4>5, <2>1, AheadOrder
          <5>2. Lowest(C, m + 1)
            <6> SUFFICES ASSUME NEW j \in C \ {m + 1} PROVE Ahead(j, m + 1)
              OBVIOUS
            <6>1. CASE j = w
              BY <5>1, <6>1
            <6>2. CASE j # w
              <7>1. Ahead(j, w) /\ j \in Positions
                BY <4>1, <6>2, <3>1, <2>1
              <7> QED
                BY <7>1, <5>1, <4>2, <2>1, AheadTransitive
            <6> QED
              BY <6>1, <6>2
          <5> QED
            BY <4>5, <5>2
        <4> QED
          BY <4>3, <4>4, <4>5
      <3> QED
        BY <3>2, <3>3
    <2> HIDE DEF Lowest
    <2> QED
      BY <2>1, <2>2
  <1>4. n \in T
    <2> HIDE DEF T
    <2>1. 0..n \subseteq T
      BY <1>1, <1>2, <1>3, UpFrom
    <2> QED
      BY <1>1, <2>1
  <1>5. \E w \in B : Lowest(B, w)
    <2> HIDE DEF Lowest
    <2> QED
      BY <1>1, <1>4
  <1> QED
    BY <1>5 DEF Worst

(* The best matches of a stretch: all of them, or as many as fit, and then *)
(* none that was left out is ahead of one that was kept.                   *)
Best(B, from, i) ==
    /\ B \in SUBSET {j \in Hits : from <= j /\ j <= i}
    /\ Cardinality(B) <= MaxResults
    /\ \A j \in Hits : from <= j /\ j <= i /\ j \notin B =>
          Cardinality(B) = MaxResults /\ \A b \in B : Ahead(b, j)

LEMMA HitsFinite ==
  ASSUME files \in Seq(FileKinds), NEW B \in SUBSET Hits
  PROVE  B \in SUBSET Positions /\ IsFiniteSet(B) /\ Cardinality(B) \in Nat
  <1>1. B \in SUBSET Positions
    BY DEF Hits
  <1>2. IsFiniteSet(Positions)
    BY KeysAre, FS_Interval DEF Positions
  <1>3. IsFiniteSet(B)
    BY <1>1, <1>2, FS_Subset
  <1> QED
    BY <1>1, <1>3, FS_CardinalityType

(* A file that is offered after the ones before it.                        *)
LEMMA OfferKeeps ==
  ASSUME files \in Seq(FileKinds), NEW from \in Nat, NEW i \in Positions, from <= i,
         NEW B, Best(B, from, i - 1)
  PROVE  Best(Offer(B, i), from, i)
  <1>1. i \in Nat /\ MaxResults \in Nat /\ MaxResults # 0 /\ files[i].score \in Nat /\ Hits \subseteq Nat
    BY KeysAre, RankAssumption DEF Positions, Hits
  <1>2. /\ B \in SUBSET {j \in Hits : from <= j /\ j <= i - 1}
        /\ Cardinality(B) <= MaxResults
    BY DEF Best
  <1>3. \A j \in Hits : from <= j /\ j <= i - 1 /\ j \notin B =>
            Cardinality(B) = MaxResults /\ \A b \in B : Ahead(b, j)
    BY DEF Best
  <1>4. B \in SUBSET Hits /\ B \in SUBSET Positions /\ IsFiniteSet(B) /\ Cardinality(B) \in Nat
    BY <1>2, HitsFinite
  <1>5. i \notin B /\ \A b \in B : b < i /\ from <= b
    BY <1>1, <1>2
  <1>6. \A j \in Hits : from <= j /\ j <= i => j = i \/ j <= i - 1
    BY <1>1
  <1>7. B \in SUBSET {j \in Hits : from <= j /\ j <= i}
    <2> SUFFICES ASSUME NEW b \in B PROVE b \in Hits /\ from <= b /\ b <= i
      OBVIOUS
    <2>1. b \in Hits /\ b \in Nat /\ from <= b /\ b < i
      BY <1>1, <1>4, <1>5
    <2> QED
      BY <1>1, <2>1
  <1>8. CASE files[i].score = 0
    <2>1. i \notin Hits /\ Offer(B, i) = B
      BY <1>8 DEF Hits, Offer
    <2> QED
      BY <2>1, <1>7, <1>2, <1>3, <1>6 DEF Best
  <1>9. CASE files[i].score # 0 /\ Cardinality(B) < MaxResults
    <2>1. i \in Hits /\ Offer(B, i) = B \cup {i}
      BY <1>1, <1>9 DEF Hits, Offer
    <2>2. B \cup {i} \in SUBSET {j \in Hits : from <= j /\ j <= i}
      <3>1. i \in {j \in Hits : from <= j /\ j <= i}
        BY <1>1, <2>1
      <3> QED
        BY <3>1, <1>7
    <2>3. Cardinality(B \cup {i}) = Cardinality(B) + 1
      BY <1>4, <1>5, FS_AddElement
    <2>4. Cardinality(B \cup {i}) <= MaxResults
      BY <2>3, <1>9, <1>1, <1>4
    <2>5. \A j \in Hits : ~(from <= j /\ j <= i /\ j \notin B \cup {i})
      BY <1>1, <1>3, <1>6, <1>9, <1>4
    <2> QED
      BY <2>1, <2>2, <2>4, <2>5 DEF Best
  <1>10. CASE files[i].score # 0 /\ ~(Cardinality(B) < MaxResults)
    <2>1. i \in Hits /\ Cardinality(B) = MaxResults
      BY <1>1, <1>2, <1>4, <1>10 DEF Hits
    <2>2. B # {}
      BY <2>1, <1>1, FS_EmptySet
    <2> DEFINE w == Worst(B)
    <2>3. w \in B /\ \A j \in B \ {w} : Ahead(j, w)
      BY <1>4, <2>2, WorstFacts
    <2> HIDE DEF w
    <2>4. w \in Positions /\ w < i
      BY <2>3, <1>4, <1>5
    <2>5. CASE Better(files[i], files[w])
      <3>1. Offer(B, i) = (B \ {w}) \cup {i}
        BY <1>10, <2>5 DEF Offer, w
      <3> DEFINE C == (B \ {w}) \cup {i}
      <3>2. C \in SUBSET {j \in Hits : from <= j /\ j <= i}
        <4>1. i \in {j \in Hits : from <= j /\ j <= i}
          BY <1>1, <2>1
        <4> QED
          BY <4>1, <1>7
      <3>3. Cardinality(C) = MaxResults
        <4>1. IsFiniteSet(B \ {w}) /\ Cardinality(B \ {w}) = Cardinality(B) - 1
          BY <1>4, <2>3, FS_RemoveElement
        <4>2. i \notin B \ {w}
          BY <1>5
        <4>3. Cardinality(C) = Cardinality(B \ {w}) + 1
          BY <4>1, <4>2, FS_AddElement
        <4> QED
          BY <4>1, <4>3, <2>1, <1>1
      <3>4. Ahead(i, w)
        BY <2>4, <2>5, BetterAhead
      <3>5. ASSUME NEW j \in Hits, from <= j, j <= i, j \notin C, NEW b \in C PROVE Ahead(b, j)
        <4>1. j # i /\ j <= i - 1 /\ j \in Positions /\ b \in Positions
          BY <3>5, <1>6, <1>4 DEF Hits
        <4>2. b = i \/ b \in B \ {w}
          OBVIOUS
        <4>3. CASE j = w
          BY <4>2, <4>3, <3>4, <2>3
        <4>4. CASE j # w
          <5>1. j \notin B
            BY <3>5, <4>4
          <5>2. \A d \in B : Ahead(d, j)
            BY <5>1, <4>1, <3>5, <1>3
          <5>3. Ahead(w, j)
            BY <5>2, <2>3
          <5>4. Ahead(i, j)
            BY <5>3, <3>4, <2>4, <4>1, AheadTransitive
          <5> QED
            BY <4>2, <5>2, <5>4
        <4> QED
          BY <4>3, <4>4
      <3>6. Cardinality(C) <= MaxResults
        BY <3>3, <1>1
      <3> HIDE DEF C
      <3>7. Best(C, from, i)
        BY <3>2, <3>3, <3>5, <3>6 DEF Best
      <3> QED
        BY <3>1, <3>7 DEF C
    <2>6. CASE ~Better(files[i], files[w])
      <3>1. Offer(B, i) = B
        BY <1>10, <2>6 DEF Offer, w
      <3>2. Ahead(w, i)
        <4>1. ~Ahead(i, w)
          BY <2>4, <2>6, BetterAhead
        <4> QED
          BY <4>1, <2>4, <1>1, AheadOrder
      <3>3. \A b \in B : Ahead(b, i)
        <4> SUFFICES ASSUME NEW b \in B, b # w PROVE Ahead(b, i)
          BY <3>2
        <4>1. Ahead(b, w) /\ b \in Positions
          BY <2>3, <1>4
        <4> QED
          BY <4>1, <3>2, <2>4, AheadTransitive
      <3>4. ASSUME NEW j \in Hits, from <= j, j <= i, j \notin B
            PROVE  \A b \in B : Ahead(b, j)
        <4>1. CASE j = i
          BY <4>1, <3>3
        <4>2. CASE j <= i - 1
          BY <4>2, <3>4, <1>3
        <4> QED
          BY <4>1, <4>2, <3>4, <1>6
      <3> QED
        BY <3>1, <1>7, <3>4, <2>1, <1>2 DEF Best
    <2> QED
      BY <2>5, <2>6
  <1> QED
    BY <1>8, <1>9, <1>10


(* The best of the stretch that follows the first a positions.             *)
LEMMA TopFacts ==
  ASSUME files \in Seq(FileKinds), NEW a \in Nat, NEW to \in Nat, a <= to, to <= Len(files)
  PROVE  Best(TopMatches(a + 1, to), a + 1, to)
  <1> DEFINE from == a + 1
             body(f) == [i \in (from - 1)..to |-> IF i < from THEN {} ELSE Offer(f[i - 1], i)]
             upTo == CHOOSE f : f = body(f)
             S == SUBSET Positions
             Good(i) == {B \in S : Best(B, from, i)}
             L == [i \in a..to |-> Good(i)]
             One(i, B) == IF Best(B, from, i - 1) THEN Offer(B, i) ELSE {}
             step == [i \in (a + 1)..to |-> [B \in S |-> One(i, B)]]
  <1>1. TopMatches(from, to) = upTo[to]
    BY DEF TopMatches
  <1>2. from \in Nat /\ from - 1 = a /\ MaxResults \in Nat /\ Len(files) \in Nat
    BY KeysAre, RankAssumption
  <1>3. \A B, i : Best(B, from, i) => B \in S
    BY DEF Best, Hits
  <1>4. {} \in Good(a)
    <2>1. Cardinality({}) = 0
      BY FS_EmptySet
    <2>2. \A j \in Hits : ~(from <= j /\ j <= a)
      BY <1>2, KeysAre DEF Hits, Positions
    <2> QED
      BY <1>2, <2>1, <2>2 DEF Best
  <1>5. ASSUME NEW i \in (a + 1)..to, NEW B, Best(B, from, i - 1) PROVE Best(Offer(B, i), from, i)
    <2>1. i \in Positions /\ from <= i
      BY <1>2 DEF Positions
    <2> HIDE DEF from
    <2> QED
      BY <1>2, <1>5, <2>1, OfferKeeps
  <1> HIDE DEF from
  <1>6. \A i \in (a + 1)..to : \A B \in S : One(i, B) \in S
    <2> SUFFICES ASSUME NEW i \in (a + 1)..to, NEW B \in S PROVE One(i, B) \in S
      OBVIOUS
    <2>1. CASE Best(B, from, i - 1)
      <3>1. Best(Offer(B, i), from, i)
        BY <2>1, <1>5
      <3>2. Offer(B, i) \in S
        BY <3>1, <1>3
      <3> QED
        BY <2>1, <3>2
    <2>2. CASE ~Best(B, from, i - 1)
      BY <2>2
    <2> QED
      BY <2>1, <2>2
  <1> HIDE DEF S
  <1>7. L \in [a..to -> SUBSET S] /\ L[a] = Good(a)
    OBVIOUS
  <1>8. step \in [(a + 1)..to -> [S -> S]]
    BY <1>6
  <1>9. \A i \in (a + 1)..to : \A t \in L[i - 1] : step[i][t] \in L[i]
    <2> SUFFICES ASSUME NEW i \in (a + 1)..to, NEW t \in L[i - 1] PROVE step[i][t] \in L[i]
      OBVIOUS
    <2>1. i - 1 \in a..to /\ i \in a..to
      OBVIOUS
    <2>2. t \in S /\ Best(t, from, i - 1)
      BY <2>1
    <2>3. step[i][t] = Offer(t, i)
      BY <2>1, <2>2
    <2>4. Best(Offer(t, i), from, i)
      BY <2>2, <1>5
    <2>5. Offer(t, i) \in Good(i)
      BY <2>4, <1>3
    <2>6. L[i] = Good(i)
      BY <2>1
    <2> HIDE DEF L, step, Good
    <2> QED
      BY <2>3, <2>5, <2>6
  <1> HIDE DEF L
  <1>10. PICK g \in [a..to -> S] : g[a] = {} /\ \A i \in (a + 1)..to : g[i] = step[i][g[i - 1]]
    <2>1. {} \in L[a] /\ Leads(step, L, S, a, to)
      BY <1>4, <1>7, <1>8, <1>9 DEF Leads
    <2> HIDE DEF step
    <2>2. \E f \in [a..to -> S] : Steps(f, step, a, to, {})
      BY <2>1, Climbs
    <2> QED
      BY <2>2 DEF Steps
  <1> HIDE DEF Good
  <1>11. \A i \in a..to : g[i] \in Good(i)
    <2> DEFINE T == {i \in a..to : g[i] \in Good(i)}
    <2>1. a \in T
      <3>1. g[a] \in Good(a)
        BY <1>4, <1>10
      <3>2. a \in a..to
        OBVIOUS
      <3> QED
        BY <3>1, <3>2
    <2>2. ASSUME NEW i \in T \cap (a..to), i < to PROVE i + 1 \in T
      <3>1. i + 1 \in (a + 1)..to /\ i + 1 \in a..to /\ (i + 1) - 1 = i
        BY <2>2
      <3>2. g[i + 1] = step[i + 1][g[i]] /\ g[i] \in S
        BY <1>10, <3>1
      <3>3. g[i] \in Good(i) /\ Best(g[i], from, i)
        BY <2>2 DEF Good
      <3>4. g[i + 1] = Offer(g[i], i + 1)
        BY <3>1, <3>2, <3>3
      <3>5. Best(Offer(g[i], i + 1), from, i + 1)
        BY <3>1, <3>3, <1>5
      <3>6. Offer(g[i], i + 1) \in Good(i + 1)
        BY <3>5, <1>3 DEF Good
      <3> QED
        BY <3>1, <3>4, <3>6
    <2> HIDE DEF T
    <2>3. a..to \subseteq T
      BY <2>1, <2>2, UpFrom
    <2> QED
      BY <2>3 DEF T
  <1>12. g = body(g)
    <2>1. ASSUME NEW i \in a..to PROVE g[i] = body(g)[i]
      <3>1. CASE i = a
        <4>1. i < from /\ i \in (from - 1)..to
          BY <1>2, <3>1
        <4> QED
          BY <1>10, <3>1, <4>1
      <3>2. CASE i # a
        <4>1. i \in (a + 1)..to /\ i - 1 \in a..to /\ i \in (from - 1)..to /\ ~(i < from)
          BY <1>2, <3>2
        <4>2. g[i] = step[i][g[i - 1]] /\ g[i - 1] \in S
          BY <1>10, <4>1
        <4>3. Best(g[i - 1], from, i - 1)
          BY <4>1, <1>11 DEF Good
        <4>4. g[i] = Offer(g[i - 1], i)
          BY <4>1, <4>2, <4>3
        <4> QED
          BY <4>1, <4>4
      <3> QED
        BY <3>1, <3>2
    <2>2. DOMAIN body(g) = a..to /\ body(g) = [i \in DOMAIN body(g) |-> body(g)[i]]
      BY <1>2
    <2> HIDE DEF body
    <2> QED
      BY <2>1, <2>2, <1>10
  <1>13. upTo = body(upTo)
    <2> HIDE DEF body
    <2> QED
      BY <1>12
  <1> HIDE DEF upTo
  <1>14. upTo[a] = {} /\ \A i \in (a + 1)..to : upTo[i] = Offer(upTo[i - 1], i)
    <2>1. /\ body(upTo)[a] = {}
          /\ \A i \in (a + 1)..to : body(upTo)[i] = Offer(upTo[i - 1], i)
      <3>1. a \in (from - 1)..to /\ a < from
        BY <1>2
      <3>2. \A i \in (a + 1)..to : i \in (from - 1)..to /\ ~(i < from)
        BY <1>2
      <3> QED
        BY <3>1, <3>2
    <2> HIDE DEF body
    <2> QED
      BY <1>13, <2>1
  <1> HIDE DEF body, step
  <1> DEFINE T == {i \in a..to : Best(upTo[i], from, i)}
  <1>15. a..to \subseteq T
    <2>1. a \in T
      <3>1. Best(upTo[a], from, a)
        BY <1>4, <1>14 DEF Good
      <3>2. a \in a..to
        OBVIOUS
      <3> QED
        BY <3>1, <3>2
    <2>2. ASSUME NEW i \in T \cap (a..to), i < to PROVE i + 1 \in T
      <3>1. i + 1 \in (a + 1)..to /\ i + 1 \in a..to /\ (i + 1) - 1 = i
        BY <2>2
      <3>2. upTo[i + 1] = Offer(upTo[i], i + 1)
        BY <1>14, <3>1
      <3>3. Best(Offer(upTo[i], i + 1), from, i + 1)
        BY <1>5, <2>2, <3>1
      <3> QED
        BY <3>1, <3>2, <3>3
    <2> HIDE DEF T
    <2> QED
      BY <2>1, <2>2, UpFrom
  <1>16. Best(upTo[to], from, to)
    BY <1>15
  <1> QED
    BY <1>1, <1>16 DEF from

(* The work is cut into stretches that cover the index.                    *)
LEMMA Division ==
  ASSUME NEW x \in Nat, NEW K \in Nat \ {0}
  PROVE  /\ x \div K \in Nat /\ (x \div K) * K \in Nat
         /\ (x \div K) * K <= x /\ x < (x \div K) * K + K
  OBVIOUS

LEMMA Multiples ==
  ASSUME NEW K \in Nat \ {0}, NEW k \in Nat, NEW q \in Nat, k <= q
  PROVE  k * K \in Nat /\ k * K <= q * K /\ (k + 1) * K = k * K + K
  OBVIOUS

LEMMA DivisionGrows ==
  ASSUME NEW x \in Nat, NEW y \in Nat, NEW K \in Nat \ {0}, x <= y
  PROVE  x \div K <= y \div K
  OBVIOUS

LEMMA ChunkIs ==
  ASSUME files \in Seq(FileKinds), files # <<>>, NEW c \in Chunks
  PROVE  \E a \in Nat : c[1] = a + 1 /\ c[2] \in Nat /\ a <= c[2] /\ c[2] <= Len(files)
  <1>1. Len(files) \in Nat \ {0} /\ ChunkSize \in Nat \ {0}
    BY RankAssumption, EmptySeq
  <1> DEFINE n == Len(files)
             to(k) == IF (k + 1) * ChunkSize < n THEN (k + 1) * ChunkSize ELSE n
  <1>2. PICK k \in 0..((n - 1) \div ChunkSize) : c = <<k * ChunkSize + 1, to(k)>>
    BY DEF Chunks
  <1>3. n \in Nat /\ n - 1 \in Nat
    BY <1>1
  <1> HIDE DEF n
  <1> DEFINE q == (n - 1) \div ChunkSize
  <1>4. q \in Nat /\ q * ChunkSize \in Nat /\ q * ChunkSize <= n - 1
    BY <1>1, <1>3, Division
  <1>5. k \in Nat /\ k <= q
    BY <1>2, <1>4
  <1> HIDE DEF q
  <1>6. k * ChunkSize \in Nat /\ k * ChunkSize <= q * ChunkSize
        /\ (k + 1) * ChunkSize = k * ChunkSize + ChunkSize
    BY <1>1, <1>4, <1>5, Multiples
  <1> DEFINE a == k * ChunkSize
  <1>7. to(k) = IF a + ChunkSize < n THEN a + ChunkSize ELSE n
    BY <1>6
  <1>8. a \in Nat /\ a <= n - 1
    BY <1>1, <1>3, <1>4, <1>6
  <1>9. c[1] = a + 1 /\ c[2] = to(k)
    BY <1>2
  <1> HIDE DEF a, to
  <1>10. to(k) \in Nat /\ a <= to(k) /\ to(k) <= n
    BY <1>1, <1>3, <1>7, <1>8
  <1> QED
    BY <1>8, <1>9, <1>10 DEF n

LEMMA ChunkOf ==
  ASSUME files \in Seq(FileKinds), NEW i \in Positions
  PROVE  \E c \in Chunks : c[1] <= i /\ i <= c[2]
  <1>1. Len(files) \in Nat /\ ChunkSize \in Nat \ {0} /\ i \in Nat /\ i - 1 \in Nat /\ i <= Len(files)
    BY RankAssumption, KeysAre DEF Positions
  <1> DEFINE n == Len(files)
             to(k) == IF (k + 1) * ChunkSize < n THEN (k + 1) * ChunkSize ELSE n
             k == (i - 1) \div ChunkSize
             c == <<k * ChunkSize + 1, to(k)>>
  <1>2. n \in Nat /\ i <= n /\ n - 1 \in Nat /\ i - 1 <= n - 1
    BY <1>1
  <1>3. (n - 1) \div ChunkSize \in Nat
    BY <1>1, <1>2, Division
  <1>4. k \in Nat /\ k * ChunkSize \in Nat /\ k * ChunkSize <= i - 1 /\ i - 1 < k * ChunkSize + ChunkSize
    BY <1>1, Division
  <1>5. k <= (n - 1) \div ChunkSize
    BY <1>1, <1>2, DivisionGrows
  <1> HIDE DEF k
  <1>6. k \in 0..((n - 1) \div ChunkSize)
    BY <1>3, <1>4, <1>5
  <1>7. c \in Chunks
    BY <1>6 DEF Chunks
  <1>8. (k + 1) * ChunkSize = k * ChunkSize + ChunkSize
    BY <1>1, <1>4, Multiples
  <1>9. k * ChunkSize + 1 <= i
    BY <1>1, <1>4
  <1>10. i <= to(k)
    BY <1>1, <1>2, <1>4, <1>8
  <1>11. c[1] <= i /\ i <= c[2]
    BY <1>9, <1>10
  <1> QED
    BY <1>7, <1>11


(* What the workers hand over: a match that was left out has as many ahead *)
(* of it as are shown.                                                     *)
Merged == UNION {TopMatches(c[1], c[2]) : c \in Chunks}
AheadOf(i) == {j \in Merged : Ahead(j, i)}

LEMMA MergedFacts ==
  ASSUME files \in Seq(FileKinds), files # <<>>
  PROVE  /\ Merged \subseteq Hits
         /\ \A m \in Hits \ Merged :
               \E B \in SUBSET Merged : Cardinality(B) = MaxResults /\ \A b \in B : Ahead(b, m)
  <1>1. ASSUME NEW c \in Chunks PROVE Best(TopMatches(c[1], c[2]), c[1], c[2])
    <2>1. PICK a \in Nat : c[1] = a + 1 /\ c[2] \in Nat /\ a <= c[2] /\ c[2] <= Len(files)
      BY ChunkIs
    <2> QED
      BY <2>1, TopFacts
  <1>2. Merged \subseteq Hits
    BY <1>1 DEF Merged, Best
  <1>3. ASSUME NEW m \in Hits \ Merged
        PROVE  \E B \in SUBSET Merged : Cardinality(B) = MaxResults /\ \A b \in B : Ahead(b, m)
    <2>1. m \in Positions
      BY DEF Hits
    <2>2. PICK c \in Chunks : c[1] <= m /\ m <= c[2]
      BY <2>1, ChunkOf
    <2> DEFINE B == TopMatches(c[1], c[2])
    <2>3. B \in SUBSET Merged
      BY DEF Merged
    <2>4. Best(B, c[1], c[2])
      BY <1>1
    <2> HIDE DEF B
    <2>5. Cardinality(B) = MaxResults /\ \A b \in B : Ahead(b, m)
      BY <2>2, <2>3, <2>4 DEF Best
    <2> QED
      BY <2>3, <2>5
  <1> QED
    BY <1>2, <1>3

(* How many are ahead tells the survivors apart, and each number below     *)
(* theirs is met.                                                          *)
LEMMA PlacesAre ==
  ASSUME files \in Seq(FileKinds), Merged \subseteq Hits
  PROVE  /\ IsFiniteSet(Merged) /\ Cardinality(Merged) \in Nat
         /\ \A i \in Merged : Cardinality(AheadOf(i)) \in 0..(Cardinality(Merged) - 1)
         /\ \A i, j \in Merged : Ahead(i, j) => Cardinality(AheadOf(i)) < Cardinality(AheadOf(j))
  <1>1. Merged \in SUBSET Positions /\ IsFiniteSet(Merged) /\ Cardinality(Merged) \in Nat
    BY HitsFinite
  <1>2. \A i : AheadOf(i) \in SUBSET Merged /\ IsFiniteSet(AheadOf(i)) /\ Cardinality(AheadOf(i)) \in Nat
    <2> SUFFICES ASSUME NEW i PROVE AheadOf(i) \in SUBSET Merged /\ IsFiniteSet(AheadOf(i))
                                    /\ Cardinality(AheadOf(i)) \in Nat
      OBVIOUS
    <2>1. AheadOf(i) \in SUBSET Hits
      BY DEF AheadOf
    <2> QED
      BY <2>1, HitsFinite DEF AheadOf
  <1>3. ASSUME NEW i \in Merged PROVE Cardinality(AheadOf(i)) \in 0..(Cardinality(Merged) - 1)
    <2>1. i \notin AheadOf(i)
      BY <1>1, AheadOrder DEF AheadOf
    <2>2. /\ Cardinality(AheadOf(i)) <= Cardinality(Merged)
          /\ Cardinality(Merged) = Cardinality(AheadOf(i)) => Merged = AheadOf(i)
      BY <1>1, <1>2, FS_Subset
    <2>3. Merged # AheadOf(i)
      BY <2>1
    <2> QED
      BY <1>1, <1>2, <2>2, <2>3
  <1>4. ASSUME NEW i \in Merged, NEW j \in Merged, Ahead(i, j)
        PROVE  Cardinality(AheadOf(i)) < Cardinality(AheadOf(j))
    <2>1. AheadOf(i) \in SUBSET AheadOf(j)
      <3> SUFFICES ASSUME NEW h \in Merged, Ahead(h, i) PROVE Ahead(h, j)
        BY DEF AheadOf
      <3> QED
        BY <1>1, <1>4, AheadTransitive
    <2>2. i \notin AheadOf(i) /\ i \in AheadOf(j)
      BY <1>1, <1>4, AheadOrder DEF AheadOf
    <2>3. /\ Cardinality(AheadOf(i)) <= Cardinality(AheadOf(j))
          /\ Cardinality(AheadOf(j)) = Cardinality(AheadOf(i)) => AheadOf(j) = AheadOf(i)
      BY <1>2, <2>1, FS_Subset
    <2> QED
      BY <1>2, <2>2, <2>3
  <1> QED
    BY <1>1, <1>3, <1>4

LEMMA OnePlace ==
  ASSUME files \in Seq(FileKinds), Merged \subseteq Hits, NEW i \in Merged, NEW j \in Merged,
         Cardinality(AheadOf(i)) = Cardinality(AheadOf(j))
  PROVE  i = j
  <1> SUFFICES ASSUME i # j PROVE FALSE
    OBVIOUS
  <1>1. i \in Positions /\ j \in Positions
    BY DEF Hits
  <1>2. Cardinality(AheadOf(i)) \in Nat /\ Cardinality(AheadOf(j)) \in Nat
    BY PlacesAre
  <1>3. ~Ahead(i, j) /\ ~Ahead(j, i)
    BY <1>2, PlacesAre
  <1> QED
    BY <1>1, <1>3, AheadOrder

LEMMA EachPlace ==
  ASSUME files \in Seq(FileKinds), Merged \subseteq Hits, NEW v \in 0..(Cardinality(Merged) - 1)
  PROVE  \E i \in Merged : Cardinality(AheadOf(i)) = v
  <1> DEFINE f == [i \in Merged |-> Cardinality(AheadOf(i))]
             V == 0..(Cardinality(Merged) - 1)
  <1>1. IsFiniteSet(Merged) /\ Cardinality(Merged) \in Nat
    BY PlacesAre
  <1>2. f \in [Merged -> V]
    BY PlacesAre
  <1>3. \A i, j \in Merged : f[i] = f[j] => i = j
    <2> SUFFICES ASSUME NEW i \in Merged, NEW j \in Merged, f[i] = f[j] PROVE i = j
      OBVIOUS
    <2>1. Cardinality(AheadOf(i)) = Cardinality(AheadOf(j))
      OBVIOUS
    <2> QED
      BY <2>1, OnePlace
  <1>4. IsFiniteSet(V) /\ Cardinality(V) = Cardinality(Merged)
    <2>1. 0 \in Int /\ Cardinality(Merged) - 1 \in Int
      BY <1>1
    <2>2. Cardinality(V) = IF 0 > Cardinality(Merged) - 1 THEN 0 ELSE Cardinality(Merged) - 1 - 0 + 1
      BY <2>1, FS_Interval
    <2> QED
      BY <2>1, <2>2, <1>1, FS_Interval
  <1> HIDE DEF V
  <1>5. f \in Injection(Merged, V)
    <2> HIDE DEF f
    <2>1. DOMAIN f = Merged
      BY <1>2
    <2> QED
      BY <1>2, <1>3, <2>1 DEF Injection, IsInjective
  <1>6. f \in Surjection(Merged, V)
    <2> HIDE DEF f
    <2> QED
      BY <1>4, <1>5, FS_Injection
  <1>7. \E i \in Merged : f[i] = v
    <2>1. v \in V
      BY DEF V
    <2> HIDE DEF f
    <2> QED
      BY <1>6, <2>1 DEF Surjection
  <1> QED
    BY <1>7

(* The survivors are shown in their order.                                 *)
Quota == IF Cardinality(Merged) < MaxResults THEN Cardinality(Merged) ELSE MaxResults

LEMMA RankFacts ==
  ASSUME files \in Seq(FileKinds), Merged \subseteq Hits
  PROVE  /\ Quota \in Nat /\ Quota <= Cardinality(Merged) /\ Quota <= MaxResults
         /\ Rank \in [1..Quota -> Merged] /\ Len(Rank) = Quota /\ DOMAIN Rank = 1..Quota
         /\ \A k \in 1..Quota : Cardinality(AheadOf(Rank[k])) = k - 1
  <1>1. Cardinality(Merged) \in Nat /\ MaxResults \in Nat
    BY PlacesAre, RankAssumption
  <1>2. Quota \in Nat /\ Quota <= Cardinality(Merged) /\ Quota <= MaxResults
    BY <1>1 DEF Quota
  <1> DEFINE At(k) == CHOOSE i \in Merged : Cardinality(AheadOf(i)) = k - 1
             s == [k \in 1..Quota |-> At(k)]
  <1>3. Rank = s
    BY DEF Rank, Merged, AheadOf, Quota
  <1>4. ASSUME NEW k \in 1..Quota PROVE At(k) \in Merged /\ Cardinality(AheadOf(At(k))) = k - 1
    <2>1. k - 1 \in 0..(Cardinality(Merged) - 1)
      BY <1>1, <1>2
    <2> QED
      BY <2>1, EachPlace
  <1> HIDE DEF At
  <1>5. s \in [1..Quota -> Merged] /\ \A k \in 1..Quota : Cardinality(AheadOf(s[k])) = k - 1
    BY <1>4
  <1>6. Len(s) = Quota /\ DOMAIN s = 1..Quota
    BY <1>2
  <1> HIDE DEF s
  <1> QED
    BY <1>2, <1>3, <1>5, <1>6

(* Each position is shown once.                                            *)
LEMMA ShownOnce ==
  ASSUME files \in Seq(FileKinds), Merged \subseteq Hits
  PROVE  LET R == {Rank[k] : k \in DOMAIN Rank}
         IN  R \in SUBSET Merged /\ Cardinality(R) = Quota
  <1> DEFINE R == {Rank[k] : k \in 1..Quota}
  <1>1. /\ Quota \in Nat /\ Rank \in [1..Quota -> Merged] /\ DOMAIN Rank = 1..Quota
        /\ \A k \in 1..Quota : Cardinality(AheadOf(Rank[k])) = k - 1
    BY RankFacts
  <1>2. R \in SUBSET Merged
    BY <1>1
  <1>3. \A j, k \in 1..Quota : Rank[j] = Rank[k] => j = k
    BY <1>1
  <1>4. Rank \in [1..Quota -> R] /\ \A t \in R : \E k \in 1..Quota : Rank[k] = t
    BY <1>1
  <1>5. Rank \in Bijection(1..Quota, R)
    BY <1>1, <1>3, <1>4 DEF Bijection, Injection, Surjection, IsInjective
  <1>6. ExistsBijection(1..Quota, R)
    BY <1>5 DEF ExistsBijection
  <1> HIDE DEF R
  <1>7. Cardinality(R) = Quota
    BY <1>1, <1>6, FS_CountingElements
  <1> QED
    BY <1>1, <1>2, <1>7 DEF R

LEMMA RankShown == files \in Seq(FileKinds) => RankIsGlobal
  <1> SUFFICES ASSUME files \in Seq(FileKinds), files # <<>> PROVE RankIsGlobal
    BY DEF RankIsGlobal
  <1> DEFINE R == {Rank[k] : k \in DOMAIN Rank}
             left == Hits \ R
  <1>1. Merged \subseteq Hits
    BY MergedFacts
  <1>2. /\ Quota \in Nat /\ Quota <= Cardinality(Merged) /\ Quota <= MaxResults
        /\ Rank \in [1..Quota -> Merged] /\ Len(Rank) = Quota /\ DOMAIN Rank = 1..Quota
        /\ \A k \in 1..Quota : Cardinality(AheadOf(Rank[k])) = k - 1
    BY <1>1, RankFacts
  <1>3. R \in SUBSET Merged /\ Cardinality(R) = Quota
    BY <1>1, ShownOnce
  <1>4. IsFiniteSet(Merged) /\ Cardinality(Merged) \in Nat /\ MaxResults \in Nat
    BY <1>1, PlacesAre, RankAssumption
  <1>5. \A k \in 1..Quota : Rank[k] \in Merged /\ Rank[k] \in Positions /\ Rank[k] \in R
    <2>1. Merged \subseteq Positions
      BY <1>1 DEF Hits
    <2> QED
      BY <1>2, <2>1
  <1>6. \A k \in 1..Quota : Rank[k] \in R
    BY <1>5
  <1> HIDE DEF R
  <1>7. ASSUME NEW m \in Hits \ Merged
        PROVE  \E B \in SUBSET Merged : Cardinality(B) = MaxResults /\ \A b \in B : Ahead(b, m)
    BY MergedFacts
  <1>8. Len(Rank) + Cardinality(left) = Cardinality(Hits)
    <2>1. IsFiniteSet(Hits) /\ Cardinality(Hits) \in Nat
      BY HitsFinite
    <2>2. R = Hits \cap R
      BY <1>1, <1>3
    <2>3. Cardinality(left) = Cardinality(Hits) - Cardinality(Hits \cap R)
      BY <2>1, FS_Difference
    <2> HIDE DEF left
    <2>4. Cardinality(left) = Cardinality(Hits) - Quota
      BY <2>2, <2>3, <1>3
    <2> QED
      BY <2>1, <2>4, <1>2
  <1>9. Len(Rank) = MaxResults \/ left = {}
    <2> SUFFICES ASSUME Quota # MaxResults, NEW m \in left PROVE FALSE
      BY <1>2
    <2>1. Quota = Cardinality(Merged) /\ Cardinality(Merged) < MaxResults
      BY DEF Quota
    <2>2. R = Merged
      BY <1>3, <1>4, <2>1, FS_Subset
    <2>3. m \in Hits \ Merged
      BY <2>2
    <2>4. PICK B \in SUBSET Merged : Cardinality(B) = MaxResults
      BY <1>7, <2>3
    <2>5. Cardinality(B) <= Cardinality(Merged)
      BY <1>4, FS_Subset
    <2> QED
      BY <1>4, <2>1, <2>4, <2>5
  <1>10. \A i, j \in DOMAIN Rank : i < j => ~Better(files[Rank[j]], files[Rank[i]])
    <2> SUFFICES ASSUME NEW i \in 1..Quota, NEW j \in 1..Quota, i < j,
                        Better(files[Rank[j]], files[Rank[i]])
                 PROVE  FALSE
      BY <1>2
    <2>1. Ahead(Rank[j], Rank[i])
      BY <1>5, BetterAhead
    <2>2. Cardinality(AheadOf(Rank[j])) < Cardinality(AheadOf(Rank[i]))
      BY <1>1, <1>5, <2>1, PlacesAre
    <2>3. j - 1 < i - 1
      BY <1>2, <2>2
    <2> QED
      BY <2>3
  <1>11. \A k \in DOMAIN Rank, i \in left : ~Better(files[i], files[Rank[k]])
    <2> SUFFICES ASSUME NEW k \in 1..Quota, NEW i \in left, Better(files[i], files[Rank[k]]) PROVE FALSE
      BY <1>2
    <2>1. i \in Positions /\ i \in Hits /\ i \notin R
      BY DEF Hits
    <2>2. Ahead(i, Rank[k])
      BY <1>5, <2>1, BetterAhead
    <2>3. Cardinality(AheadOf(Rank[k])) = k - 1
      BY <1>2
    <2>4. CASE i \in Merged
      <3> DEFINE v == Cardinality(AheadOf(i))
      <3>1. v \in 0..(Cardinality(Merged) - 1) /\ v < Cardinality(AheadOf(Rank[k]))
        BY <1>1, <1>5, <2>2, <2>4, PlacesAre
      <3> HIDE DEF v
      <3>2. v + 1 \in 1..Quota /\ (v + 1) - 1 = v
        BY <3>1, <2>3, <1>2, <1>4
      <3>3. Cardinality(AheadOf(Rank[v + 1])) = v
        BY <1>2, <3>2
      <3>4. Rank[v + 1] = i
        <4>1. Cardinality(AheadOf(Rank[v + 1])) = Cardinality(AheadOf(i)) /\ Rank[v + 1] \in Merged
          BY <1>5, <3>2, <3>3 DEF v
        <4> QED
          BY <1>1, <2>4, <4>1, OnePlace
      <3> QED
        BY <1>6, <2>1, <3>2, <3>4
    <2>5. CASE i \notin Merged
      <3>1. PICK B \in SUBSET Merged : Cardinality(B) = MaxResults /\ \A b \in B : Ahead(b, i)
        BY <1>7, <2>1, <2>5
      <3>2. B \in SUBSET AheadOf(Rank[k])
        <4> SUFFICES ASSUME NEW b \in B PROVE b \in Merged /\ Ahead(b, Rank[k])
          BY DEF AheadOf
        <4>1. b \in Positions /\ Ahead(b, i)
          BY <1>1, <3>1 DEF Hits
        <4> QED
          BY <4>1, <1>5, <2>1, <2>2, AheadTransitive
      <3>3. IsFiniteSet(AheadOf(Rank[k]))
        <4>1. AheadOf(Rank[k]) \in SUBSET Hits
          BY <1>1 DEF AheadOf
        <4> QED
          BY <4>1, HitsFinite
      <3>4. Cardinality(B) <= Cardinality(AheadOf(Rank[k]))
        BY <3>2, <3>3, FS_Subset
      <3>5. MaxResults <= k - 1
        BY <3>1, <3>4, <2>3
      <3> QED
        BY <3>5, <1>2, <1>4
    <2> QED
      BY <2>4, <2>5
  <1>12. DOMAIN files = Positions
    BY KeysAre DEF Positions
  <1> QED
    BY <1>8, <1>9, <1>10, <1>11, <1>12 DEF RankIsGlobal, R, Hits


-----------------------------------------------------------------------------
(* A search shows the best of what is there, whatever is created, removed, *)
(* installed or copied while it reads: for any tree and any limits the     *)
(* index follows the files, the ranking loses nothing, the applications    *)
(* follow the disk and the history holds what was copied last (the         *)
(* searches of the internal extension).                                    *)
THEOREM SearchIsCurrentAlways == SearchSpec => []SearchIsCurrent
  <1> DEFINE Inv == FilesInv /\ files \in Seq(FileKinds) /\ ClipInv /\ AppsInv
  <1>1. SearchInit => Inv
    <2>1. RankInit => files \in Seq(FileKinds)
      BY EmptySeq DEF RankInit
    <2> QED
      BY <2>1, FilesInitOK, ClipInit, AppsBegin DEF SearchInit
  <1>2. Inv /\ [SearchNext]_searchVars => Inv'
    <2> SUFFICES ASSUME Inv, [SearchNext]_searchVars PROVE Inv'
      OBVIOUS
    <2>1. /\ FilesNext \/ UNCHANGED fileVars
          /\ RankNext \/ UNCHANGED rankVars
          /\ AppsNext \/ ClipboardNext \/ UNCHANGED internalVars
      BY DEF SearchNext, searchVars
    <2>2. FilesInv'
      BY <2>1, FilesNextKeeps
    <2>3. (files \in Seq(FileKinds))'
      BY <2>1 DEF RankNext, AddToIndex, rankVars
    <2>4. ClipInv' /\ AppsInv'
      BY <2>1, ClipKeeps, AppsKeep
    <2> QED
      BY <2>2, <2>3, <2>4
  <1>3. Inv => SearchIsCurrent
    BY QuietIndex, RankShown, ClipShown, AppsShown DEF SearchIsCurrent
  <1> QED
    BY <1>1, <1>2, <1>3, PTL DEF SearchSpec
-----------------------------------------------------------------------------
(* A function that follows the steps stays on the levels they lead to.     *)
Follows(up, step, S, n, start) ==
    up[0] = start /\ \A i \in 1..n : up[i - 1] \in S => up[i] = step[i][up[i - 1]]

LEMMA Arrives ==
  ASSUME NEW n \in Nat, NEW S, NEW L, NEW start \in L[0], NEW step, Leads(step, L, S, 0, n),
         NEW up, Follows(up, step, S, n, start)
  PROVE  up[n] \in L[n]
  <1> DEFINE T == {i \in 0..n : up[i] \in L[i]}
  <1>0. /\ L \in [0..n -> SUBSET S] /\ step \in [(0 + 1)..n -> [S -> S]]
        /\ \A i \in (0 + 1)..n : \A t \in L[i - 1] : step[i][t] \in L[i]
    BY DEF Leads
  <1>1. 0 \in T
    BY DEF Follows
  <1>2. ASSUME NEW i \in T \cap (0..n), i < n PROVE i + 1 \in T
    <2>1. i \in Nat /\ i + 1 \in (0 + 1)..n /\ i + 1 \in 1..n /\ i + 1 \in 0..n /\ (i + 1) - 1 = i /\ i \in 0..n
      BY <1>2
    <2>2. up[i] \in L[i]
      BY <1>2
    <2>3. up[i] \in S
      BY <1>0, <2>1, <2>2
    <2>4. up[i + 1] = step[i + 1][up[i]]
      BY <2>1, <2>3 DEF Follows
    <2>5. step[i + 1][up[i]] \in L[i + 1]
      BY <1>0, <2>1, <2>2
    <2> QED
      BY <2>1, <2>4, <2>5
  <1>3. 0..n \subseteq T
    <2> HIDE DEF T
    <2>1. 0 \in Nat
      OBVIOUS
    <2> QED
      BY <1>1, <1>2, <2>1, UpFrom
  <1> QED
    BY <1>3

-----------------------------------------------------------------------------
(* DecisionList.                                                           *)
Weight(st, c) == IF st[c] = "Done" THEN 0 ELSE Count(c)

LEMMA CountIsNat == \A c \in Calls : Count(c) \in Nat
  BY DecisionAssumption DEF Count

(* The sums exist.                                                         *)
LEMMA SumIs ==
  ASSUME NEW gs \in Seq(Calls), NEW st
  PROVE  /\ ButtonsUpTo(gs, st) \in [0..Len(gs) -> Nat]
         /\ ButtonsUpTo(gs, st)[0] = 0
         /\ \A i \in 1..Len(gs) : ButtonsUpTo(gs, st)[i] = ButtonsUpTo(gs, st)[i - 1] + Weight(st, gs[i])
  <1> DEFINE n == Len(gs)
             body(f) == [i \in 0..n |-> IF i = 0 THEN 0 ELSE f[i - 1] + IF st[gs[i]] = "Done" THEN 0 ELSE Count(gs[i])]
             upTo == CHOOSE f : f = body(f)
             One(i, q) == q + Weight(st, gs[i])
             L == [i \in 0..n |-> Nat]
             step == [i \in (0 + 1)..n |-> [q \in Nat |-> One(i, q)]]
  <1>1. ButtonsUpTo(gs, st) = upTo
    BY DEF ButtonsUpTo
  <1>2. n \in Nat /\ 0 \in Nat /\ 0 <= n
    OBVIOUS
  <1>3. \A i \in 1..n : gs[i] \in Calls /\ Weight(st, gs[i]) \in Nat
    BY CountIsNat DEF Weight
  <1>4. \A i \in 1..n : \A q \in Nat : One(i, q) \in Nat
    BY <1>3
  <1> HIDE DEF n, One
  <1>5. L \in [0..n -> SUBSET Nat] /\ L[0] = Nat
    BY <1>2
  <1>6. step \in [(0 + 1)..n -> [Nat -> Nat]] /\ \A i \in 1..n : \A q \in Nat : step[i][q] = One(i, q)
    BY <1>4
  <1>7. \A i \in (0 + 1)..n : \A t \in L[i - 1] : step[i][t] \in L[i]
    <2> SUFFICES ASSUME NEW i \in (0 + 1)..n, NEW t \in L[i - 1] PROVE step[i][t] \in L[i]
      OBVIOUS
    <2>1. i - 1 \in 0..n /\ i \in 0..n /\ i \in 1..n
      BY <1>2
    <2>2. t \in Nat /\ L[i] = Nat
      BY <2>1
    <2> QED
      BY <1>4, <1>6, <2>1, <2>2
  <1> HIDE DEF L, step
  <1>8. PICK g \in [0..n -> Nat] : g[0] = 0 /\ \A i \in (0 + 1)..n : g[i] = step[i][g[i - 1]]
    <2>1. 0 \in L[0] /\ Leads(step, L, Nat, 0, n)
      BY <1>2, <1>5, <1>6, <1>7 DEF Leads
    <2>2. \E f \in [0..n -> Nat] : Steps(f, step, 0, n, 0)
      BY <1>2, <2>1, Climbs
    <2> QED
      BY <2>2 DEF Steps
  <1>9. g = body(g)
    <2>1. ASSUME NEW i \in 0..n PROVE g[i] = body(g)[i]
      <3>1. CASE i = 0
        BY <1>8, <3>1
      <3>2. CASE i # 0
        <4>1. i \in 1..n /\ i \in (0 + 1)..n /\ i - 1 \in 0..n
          BY <1>2, <3>2
        <4>2. g[i] = step[i][g[i - 1]] /\ g[i - 1] \in Nat
          BY <1>8, <4>1
        <4>3. g[i] = One(i, g[i - 1])
          BY <1>6, <4>1, <4>2
        <4> QED
          BY <3>2, <4>1, <4>3 DEF One, Weight
      <3> QED
        BY <3>1, <3>2
    <2>2. DOMAIN body(g) = 0..n /\ body(g) = [i \in DOMAIN body(g) |-> body(g)[i]]
      OBVIOUS
    <2> HIDE DEF body
    <2> QED
      BY <2>1, <2>2
  <1>10. upTo = body(upTo)
    <2> HIDE DEF body
    <2> QED
      BY <1>9
  <1> HIDE DEF upTo
  <1>11. /\ DOMAIN upTo = 0..n /\ upTo = [i \in DOMAIN upTo |-> upTo[i]] /\ upTo[0] = 0
         /\ \A i \in 1..n : upTo[i] = One(i, upTo[i - 1])
    <2>1. /\ DOMAIN body(upTo) = 0..n /\ body(upTo) = [i \in DOMAIN body(upTo) |-> body(upTo)[i]]
          /\ body(upTo)[0] = 0
          /\ \A i \in 1..n : body(upTo)[i] = One(i, upTo[i - 1])
      BY <1>2 DEF One, Weight
    <2> HIDE DEF body
    <2> QED
      BY <1>10, <2>1
  <1> HIDE DEF body
  <1> DEFINE T == {i \in 0..n : upTo[i] \in Nat}
  <1>12. 0..n \subseteq T
    <2>1. 0 \in T
      BY <1>2, <1>11
    <2>2. ASSUME NEW i \in T \cap (0..n), i < n PROVE i + 1 \in T
      <3>1. i + 1 \in 1..n /\ i + 1 \in 0..n /\ (i + 1) - 1 = i
        BY <1>2, <2>2
      <3>2. upTo[i + 1] = One(i + 1, upTo[i]) /\ upTo[i] \in Nat
        BY <1>11, <2>2, <3>1
      <3> QED
        BY <1>4, <3>1, <3>2
    <2> HIDE DEF T
    <2> QED
      BY <1>2, <2>1, <2>2, UpFrom
  <1>13. upTo \in [0..n -> Nat]
    BY <1>11, <1>12
  <1> QED
    BY <1>1, <1>11, <1>13 DEF n, One

(* A group that is finished takes its buttons with it, from its place on.  *)
LEMMA SumDrops ==
  ASSUME NEW gs \in Seq(Calls), NEW st, NEW u, NEW k \in 1..Len(gs),
         \A i \in 1..Len(gs) : Weight(u, gs[i]) = IF i = k THEN 0 ELSE Weight(st, gs[i])
  PROVE  ButtonsUpTo(gs, u)[Len(gs)] = ButtonsUpTo(gs, st)[Len(gs)] - Weight(st, gs[k])
  <1> DEFINE n == Len(gs)
             a == ButtonsUpTo(gs, st)
             b == ButtonsUpTo(gs, u)
             T == {i \in 0..n : b[i] = IF i >= k THEN a[i] - Weight(st, gs[k]) ELSE a[i]}
  <1>0. n \in Nat /\ k \in 1..n /\ 0 \in Nat
    OBVIOUS
  <1>1. /\ a \in [0..n -> Nat] /\ a[0] = 0 /\ \A i \in 1..n : a[i] = a[i - 1] + Weight(st, gs[i])
        /\ b \in [0..n -> Nat] /\ b[0] = 0 /\ \A i \in 1..n : b[i] = b[i - 1] + Weight(u, gs[i])
    BY SumIs
  <1>2. \A i \in 1..n : Weight(st, gs[i]) \in Nat /\ Weight(u, gs[i]) = IF i = k THEN 0 ELSE Weight(st, gs[i])
    BY CountIsNat DEF Weight
  <1> HIDE DEF n, a, b
  <1>3. 0 \in T
    BY <1>0, <1>1
  <1>4. ASSUME NEW i \in T \cap (0..n), i < n PROVE i + 1 \in T
    <2>1. i \in Nat /\ i + 1 \in 1..n /\ i + 1 \in 0..n /\ (i + 1) - 1 = i /\ i \in 0..n
      BY <1>0, <1>4
    <2>2. a[i + 1] = a[i] + Weight(st, gs[i + 1]) /\ b[i + 1] = b[i] + Weight(u, gs[i + 1])
      BY <1>1, <2>1
    <2>3. a[i] \in Nat /\ Weight(st, gs[i + 1]) \in Nat /\ Weight(st, gs[k]) \in Nat
      BY <1>0, <1>1, <1>2, <2>1
    <2>4. b[i] = IF i >= k THEN a[i] - Weight(st, gs[k]) ELSE a[i]
      BY <1>4
    <2>5. CASE i + 1 = k
      BY <1>0, <1>2, <2>1, <2>2, <2>3, <2>4, <2>5
    <2>6. CASE i + 1 # k
      <3>1. Weight(u, gs[i + 1]) = Weight(st, gs[i + 1])
        BY <1>2, <2>1, <2>6
      <3>2. i >= k <=> i + 1 >= k
        BY <1>0, <2>1, <2>6
      <3> QED
        BY <1>0, <2>1, <2>2, <2>3, <2>4, <3>1, <3>2
    <2> QED
      BY <2>5, <2>6
  <1>5. 0..n \subseteq T
    <2> HIDE DEF T
    <2> QED
      BY <1>0, <1>3, <1>4, UpFrom
  <1>6. n \in T
    BY <1>0, <1>5
  <1> QED
    BY <1>0, <1>6 DEF n, a, b

(* Nothing else changes the sums.                                          *)
LEMMA SumStays ==
  ASSUME NEW gs \in Seq(Calls), NEW hs \in Seq(Calls), NEW st, NEW u, NEW m \in 0..Len(gs), m <= Len(hs),
         \A i \in 1..m : gs[i] = hs[i] /\ Weight(u, gs[i]) = Weight(st, gs[i])
  PROVE  ButtonsUpTo(hs, u)[m] = ButtonsUpTo(gs, st)[m]
  <1> DEFINE a == ButtonsUpTo(gs, st)
             b == ButtonsUpTo(hs, u)
             T == {i \in 0..m : b[i] = a[i]}
  <1>0. m \in Nat /\ 0 \in Nat /\ Len(gs) \in Nat /\ Len(hs) \in Nat
    OBVIOUS
  <1>1. /\ a[0] = 0 /\ \A i \in 1..m : a[i] = a[i - 1] + Weight(st, gs[i])
        /\ b[0] = 0 /\ \A i \in 1..m : b[i] = b[i - 1] + Weight(u, hs[i])
    BY SumIs
  <1> HIDE DEF a, b
  <1>2. 0 \in T
    BY <1>0, <1>1
  <1>3. ASSUME NEW i \in T \cap (0..m), i < m PROVE i + 1 \in T
    <2>1. i \in Nat /\ i + 1 \in 1..m /\ i + 1 \in 0..m /\ (i + 1) - 1 = i
      BY <1>0, <1>3
    <2>2. a[i + 1] = a[i] + Weight(st, gs[i + 1]) /\ b[i + 1] = b[i] + Weight(u, hs[i + 1]) /\ a[i] = b[i]
      BY <1>1, <1>3, <2>1
    <2> QED
      BY <2>1, <2>2
  <1>4. 0..m \subseteq T
    <2> HIDE DEF T
    <2> QED
      BY <1>0, <1>2, <1>3, UpFrom
  <1>5. m \in T
    BY <1>0, <1>4
  <1> QED
    BY <1>5 DEF a, b

(* Finished groups stand aside, so that the count is the sum; a call whose *)
(* buttons can be clicked has sent nothing.                                *)
DecisionTypeOK ==
    /\ groups \in Seq(Calls) /\ \A i, j \in 1..Len(groups) : groups[i] = groups[j] => i = j
    /\ state \in [Calls -> {"absent", "Waiting", "Decided", "Done"}]
    /\ sensitive \subseteq Calls /\ sent \in [Calls -> 0..1]
    /\ \A d \in asked : d[1] \in Calls

CountIsSum == active = ButtonsUpTo(groups, state)[Len(groups)]
SelectionInRange == current # NoSelection => current \in Nat /\ current < active
SendersAreDull ==
    /\ \A i \in 1..Len(groups) : state[groups[i]] # "absent"
    /\ \A c \in Calls : c \in sensitive \/ state[c] = "absent" => sent[c] = 0
    /\ \A c \in sensitive : state[c] # "absent"

DecisionInv == DecisionTypeOK /\ CountIsSum /\ SelectionInRange /\ SendersAreDull

LEMMA ActiveIsNat ==
  ASSUME DecisionTypeOK, CountIsSum
  PROVE  active \in Nat /\ (groups = <<>> => active = 0) /\ Len(groups) \in Nat
  <1>1. groups \in Seq(Calls) /\ Len(groups) \in Nat /\ Len(groups) \in 0..Len(groups)
    BY DEF DecisionTypeOK
  <1>2. ButtonsUpTo(groups, state) \in [0..Len(groups) -> Nat] /\ ButtonsUpTo(groups, state)[0] = 0
    BY <1>1, SumIs
  <1>3. groups = <<>> => Len(groups) = 0
    OBVIOUS
  <1> QED
    BY <1>1, <1>2, <1>3 DEF CountIsSum

(* An index below the count has its group.                                 *)
LEMMA LocateFacts ==
  ASSUME DecisionTypeOK, CountIsSum, NEW index \in Nat, index < active, index # NoSelection
  PROVE  \E i \in 1..Len(groups), j \in Int : Locate(state, index) = <<groups[i], j>>
  <1> DEFINE n == Len(groups)
             upTo == ButtonsUpTo(groups, state)
             beyond == {i \in DOMAIN groups : index < upTo[i]}
  <1>1. groups \in Seq(Calls) /\ n \in Nat /\ DOMAIN groups = 1..n
    BY DEF DecisionTypeOK
  <1>2. upTo \in [0..n -> Nat] /\ upTo[0] = 0 /\ active = upTo[n]
    BY <1>1, SumIs DEF CountIsSum
  <1>3. Locate(state, index) = IF beyond = {} THEN <<>> ELSE <<groups[Min(beyond)], index - upTo[Min(beyond) - 1] + 1>>
    BY DEF Locate
  <1>4. beyond \in SUBSET Nat
    BY <1>1
  <1>5. n \in beyond
    <2> HIDE DEF upTo
    <2> QED
      BY <1>1, <1>2
  <1>6. Min(beyond) \in beyond
    <2> HIDE DEF beyond
    <2>1. \E x \in beyond : \A y \in beyond : x <= y
      BY <1>4, <1>5, Least
    <2> QED
      BY <2>1 DEF Min
  <1> DEFINE m == Min(beyond)
  <1>7. m \in 1..n /\ m - 1 \in 0..n
    BY <1>1, <1>6
  <1> HIDE DEF m
  <1>8. index - upTo[m - 1] + 1 \in Int
    <2> HIDE DEF upTo
    <2>1. upTo[m - 1] \in Nat
      BY <1>2, <1>7
    <2> QED
      BY <2>1
  <1> HIDE DEF upTo, n
  <1>9. Locate(state, index) = <<groups[m], index - upTo[m - 1] + 1>>
    BY <1>3, <1>5 DEF m
  <1> QED
    BY <1>7, <1>8, <1>9 DEF n

LEMMA LiveFromInv ==
  ASSUME DecisionInv
  PROVE  SelectionIsLive /\ OneDecisionPerCall
  <1>1. OneDecisionPerCall
    BY DEF DecisionInv, DecisionTypeOK, OneDecisionPerCall
  <1>2. ASSUME current # NoSelection PROVE Locate(state, current) # <<>>
    <2>1. current \in Nat /\ current < active
      BY <1>2 DEF DecisionInv, SelectionInRange
    <2>2. PICK i \in 1..Len(groups), j \in Int : Locate(state, current) = <<groups[i], j>>
      BY <1>2, <2>1, LocateFacts DEF DecisionInv
    <2> QED
      BY <2>2
  <1> QED
    BY <1>1, <1>2 DEF SelectionIsLive, DecisionInv, CountIsSum

LEMMA DecisionInitOK == DecisionInit => DecisionInv
  <1> SUFFICES ASSUME DecisionInit PROVE DecisionInv
    OBVIOUS
  <1>1. /\ groups = <<>> /\ state = [c \in Calls |-> "absent"] /\ sensitive = {}
        /\ active = 0 /\ current = NoSelection /\ asked = {} /\ sent = [c \in Calls |-> 0]
    BY DEF DecisionInit, DecisionRest
  <1>2. groups \in Seq(Calls) /\ Len(groups) = 0
    BY <1>1
  <1>3. ButtonsUpTo(groups, state)[0] = 0
    BY <1>2, SumIs
  <1>4. DecisionTypeOK
    BY <1>1, <1>2 DEF DecisionTypeOK
  <1>5. CountIsSum
    BY <1>1, <1>2, <1>3 DEF CountIsSum
  <1> QED
    BY <1>1, <1>2, <1>4, <1>5 DEF DecisionInv, SelectionInRange, SendersAreDull

(* A step that moves no group in or out keeps the count.                   *)
LEMMA CountStays ==
  ASSUME DecisionTypeOK, CountIsSum, groups' = groups, active' = active,
         \A c \in Calls : state'[c] = "Done" <=> state[c] = "Done"
  PROVE  CountIsSum'
  <1>1. groups \in Seq(Calls) /\ Len(groups) \in 0..Len(groups) /\ Len(groups) <= Len(groups)
    BY DEF DecisionTypeOK
  <1>2. \A i \in 1..Len(groups) : groups[i] \in Calls
    BY <1>1
  <1>3. \A i \in 1..Len(groups) : groups[i] = groups[i] /\ Weight(state', groups[i]) = Weight(state, groups[i])
    BY <1>2 DEF Weight
  <1>4. ButtonsUpTo(groups, state')[Len(groups)] = ButtonsUpTo(groups, state)[Len(groups)]
    BY <1>1, <1>3, SumStays
  <1> QED
    BY <1>4 DEF CountIsSum

LEMMA KeptByAppendToolCall ==
  ASSUME DecisionInv, NEW c \in Calls, AppendToolCall(c)
  PROVE  DecisionInv'
  <1> USE DEF DecisionInv
  <1>1. /\ state[c] = "absent" /\ sent' = sent /\ asked' = asked /\ current' = current
        /\ state' = [state EXCEPT ![c] = IF Count(c) = 0 THEN "Done" ELSE "Waiting"]
        /\ groups' = IF Count(c) = 0 THEN groups ELSE Append(groups, c)
        /\ active' = active + Count(c) /\ sensitive' = sensitive \cup {c}
    BY DEF AppendToolCall
  <1>2. Count(c) \in Nat /\ active \in Nat /\ groups \in Seq(Calls) /\ Len(groups) \in Nat
    BY CountIsNat, ActiveIsNat DEF DecisionTypeOK
  <1>3. \A i \in 1..Len(groups) : groups[i] \in Calls /\ groups[i] # c
    BY <1>1, <1>2 DEF SendersAreDull
  <1>4. SelectionInRange'
    BY <1>1, <1>2 DEF SelectionInRange
  <1>5. \A k \in Calls : state'[k] = IF k = c THEN (IF Count(c) = 0 THEN "Done" ELSE "Waiting") ELSE state[k]
    BY <1>1 DEF DecisionTypeOK
  <1>6. sensitive' \subseteq Calls /\ state' \in [Calls -> {"absent", "Waiting", "Decided", "Done"}]
    BY <1>1 DEF DecisionTypeOK
  <1>7. /\ \A k \in Calls : k \in sensitive' \/ state'[k] = "absent" => sent'[k] = 0
        /\ \A k \in sensitive' : state'[k] # "absent"
    <2>1. \A k \in Calls : k \in sensitive' => k = c \/ k \in sensitive
      BY <1>1
    <2> QED
      BY <1>1, <1>5, <1>6, <2>1 DEF SendersAreDull
  <1>8. \A i \in 1..Len(groups) : Weight(state', groups[i]) = Weight(state, groups[i])
    BY <1>3, <1>5 DEF Weight
  <1>9. CASE Count(c) = 0
    <2>1. groups' = groups /\ active' = active
      BY <1>1, <1>2, <1>9
    <2>2. ButtonsUpTo(groups, state')[Len(groups)] = ButtonsUpTo(groups, state)[Len(groups)]
      <3>1. Len(groups) \in 0..Len(groups) /\ Len(groups) <= Len(groups)
        BY <1>2
      <3> QED
        BY <1>2, <1>8, <3>1, SumStays
    <2>3. CountIsSum'
      BY <2>1, <2>2 DEF CountIsSum
    <2>4. DecisionTypeOK'
      BY <1>1, <1>6, <2>1 DEF DecisionTypeOK
    <2>5. \A i \in 1..Len(groups') : state'[groups'[i]] # "absent"
      BY <1>3, <1>5, <2>1 DEF SendersAreDull
    <2> QED
      BY <1>4, <1>7, <2>3, <2>4, <2>5 DEF SendersAreDull
  <1>10. CASE Count(c) # 0
    <2> DEFINE g == Append(groups, c)
               n == Len(groups)
    <2>1. /\ groups' = g /\ g \in Seq(Calls) /\ Len(g) = n + 1 /\ g[n + 1] = c
          /\ \A i \in 1..n : g[i] = groups[i]
      BY <1>1, <1>2, <1>10
    <2> HIDE DEF g
    <2>2. ButtonsUpTo(g, state')[n] = ButtonsUpTo(groups, state)[n]
      <3>1. n \in 0..Len(groups) /\ n <= Len(g)
        BY <1>2, <2>1
      <3>2. \A i \in 1..n : groups[i] = g[i] /\ Weight(state', groups[i]) = Weight(state, groups[i])
        BY <1>8, <2>1
      <3> HIDE DEF n
      <3> QED
        BY <1>2, <2>1, <3>1, <3>2, SumStays
    <2>3. ButtonsUpTo(g, state')[n + 1] = ButtonsUpTo(g, state')[n] + Count(c)
      <3>1. n + 1 \in 1..Len(g) /\ (n + 1) - 1 = n
        BY <1>2, <2>1
      <3>2. Weight(state', g[n + 1]) = Count(c)
        BY <1>5, <1>10, <2>1 DEF Weight
      <3>3. ButtonsUpTo(g, state')[n + 1] = ButtonsUpTo(g, state')[(n + 1) - 1] + Weight(state', g[n + 1])
        BY <2>1, <3>1, SumIs
      <3> QED
        BY <3>1, <3>2, <3>3
    <2>4. CountIsSum'
      BY <1>1, <2>1, <2>2, <2>3 DEF CountIsSum
    <2>5. \A i, j \in 1..Len(g) : g[i] = g[j] => i = j
      <3>1. \A i \in 1..Len(g) : i = n + 1 \/ i \in 1..n
        BY <1>2, <2>1
      <3>2. \A i \in 1..n : g[i] # c
        BY <1>3, <2>1
      <3>3. \A i, j \in 1..n : g[i] = g[j] => i = j
        BY <2>1 DEF DecisionTypeOK
      <3> QED
        BY <2>1, <3>1, <3>2, <3>3
    <2>6. DecisionTypeOK'
      BY <1>1, <1>6, <2>1, <2>5 DEF DecisionTypeOK
    <2>7. \A i \in 1..Len(g) : state'[g[i]] # "absent"
      <3>1. \A i \in 1..Len(g) : i = n + 1 \/ i \in 1..n
        BY <1>2, <2>1
      <3>2. \A i \in 1..n : state[g[i]] # "absent" /\ g[i] \in Calls /\ g[i] # c
        BY <1>3, <2>1 DEF SendersAreDull
      <3> QED
        BY <1>5, <1>10, <2>1, <3>1, <3>2
    <2> QED
      BY <1>4, <1>7, <2>1, <2>4, <2>6, <2>7 DEF SendersAreDull
  <1> QED
    BY <1>9, <1>10

LEMMA KeptByNavigate ==
  ASSUME DecisionInv, NEW delta \in {0, 2}, Navigate(delta)
  PROVE  DecisionInv'
  <1>1. /\ UNCHANGED <<groups, state, sensitive, active, asked, sent>> /\ active > 0
        /\ current' = IF current = NoSelection THEN 0 ELSE StepIndex(current, delta, active)
    BY DEF Navigate
  <1>2. active \in Nat
    BY ActiveIsNat DEF DecisionInv
  <1>3. SelectionInRange'
    <2>1. CASE current = NoSelection
      BY <1>1, <1>2, <2>1 DEF SelectionInRange
    <2>2. CASE current # NoSelection
      <3>1. current \in Nat /\ current < active
        BY <2>2 DEF DecisionInv, SelectionInRange
      <3> DEFINE x == Max({current + delta, 1})
                 y == Min({x - 1, active - 1})
      <3>2. x \in Nat /\ x >= 1
        <4>1. x \in {current + delta, 1} /\ \A z \in {current + delta, 1} : x >= z
          <5>1. \E z \in {current + delta, 1} : \A w \in {current + delta, 1} : z >= w
            BY <3>1
          <5> QED
            BY <5>1 DEF Max
        <4> QED
          BY <3>1, <4>1
      <3> HIDE DEF x
      <3>3. y \in {x - 1, active - 1} /\ \A z \in {x - 1, active - 1} : y <= z
        <4>1. \E z \in {x - 1, active - 1} : \A w \in {x - 1, active - 1} : z <= w
          BY <1>2, <3>2
        <4> QED
          BY <4>1 DEF Min
      <3> HIDE DEF y
      <3>4. y \in Nat /\ y < active
        BY <1>1, <1>2, <3>2, <3>3
      <3>5. current' = y
        BY <1>1, <2>2 DEF StepIndex, x, y
      <3> QED
        BY <1>1, <3>4, <3>5 DEF SelectionInRange
    <2> QED
      BY <2>1, <2>2
  <1>4. DecisionTypeOK' /\ CountIsSum' /\ SendersAreDull'
    BY <1>1 DEF DecisionInv, DecisionTypeOK, CountIsSum, SendersAreDull
  <1> QED
    BY <1>3, <1>4 DEF DecisionInv

(* A click, on a button that can be clicked.                               *)
LEMMA KeptByClicked ==
  ASSUME DecisionInv, NEW c \in Calls, NEW j, Clicked(c, j), c \in sensitive, state[c] = "Waiting",
         state' \in {state, [state EXCEPT ![c] = "Decided"]}, UNCHANGED <<groups, active, current>>
  PROVE  DecisionInv'
  <1> USE DEF DecisionInv
  <1>1. /\ sensitive' = sensitive \ {c} /\ asked' = asked \cup {<<c, j>>}
        /\ sent' = [sent EXCEPT ![c] = @ + 1]
    BY DEF Clicked
  <1>2. sent[c] = 0 /\ sent' = [sent EXCEPT ![c] = 1]
    <2>1. sent[c] = 0
      BY DEF SendersAreDull
    <2> QED
      BY <1>1, <2>1
  <1>3. /\ state' \in [Calls -> {"absent", "Waiting", "Decided", "Done"}]
        /\ \A k \in Calls : state'[k] = state[k] \/ (k = c /\ state'[k] = "Decided")
    BY DEF DecisionTypeOK
  <1>4. \A d \in asked' : d[1] \in Calls
    BY <1>1 DEF DecisionTypeOK
  <1>5. DecisionTypeOK'
    <2>1. sent \in [Calls -> 0..1] /\ 1 \in 0..1
      BY DEF DecisionTypeOK
    <2>2. sent' \in [Calls -> 0..1]
      BY <1>2, <2>1
    <2>3. sensitive' \subseteq Calls
      BY <1>1 DEF DecisionTypeOK
    <2>4. groups' \in Seq(Calls) /\ \A m, k \in 1..Len(groups') : groups'[m] = groups'[k] => m = k
      BY DEF DecisionTypeOK
    <2> QED
      BY <1>3, <1>4, <2>2, <2>3, <2>4 DEF DecisionTypeOK
  <1>6. \A k \in Calls : state'[k] = "Done" <=> state[k] = "Done"
    BY <1>3
  <1>7. CountIsSum'
    BY <1>6, CountStays
  <1>8. SendersAreDull'
    <2>1. \A i \in 1..Len(groups) : groups[i] \in Calls
      BY DEF DecisionTypeOK
    <2>2. \A k \in Calls : sent'[k] = IF k = c THEN 1 ELSE sent[k]
      BY <1>2 DEF DecisionTypeOK
    <2>3. \A k \in Calls : state'[k] = "absent" <=> state[k] = "absent"
      BY <1>3
    <2>4. \A k \in sensitive' : k \in sensitive /\ k # c /\ k \in Calls
      BY <1>1 DEF DecisionTypeOK
    <2>5. /\ \A i \in 1..Len(groups) : state[groups[i]] # "absent"
          /\ \A k \in Calls : k \in sensitive \/ state[k] = "absent" => sent[k] = 0
          /\ \A k \in sensitive : state[k] # "absent"
      BY DEF SendersAreDull
    <2> QED
      BY <2>1, <2>2, <2>3, <2>4, <2>5 DEF SendersAreDull
  <1>9. SelectionInRange'
    BY DEF SelectionInRange
  <1> QED
    BY <1>5, <1>7, <1>8, <1>9

LEMMA KeptByActivate ==
  ASSUME DecisionInv, Activate
  PROVE  DecisionInv'
  <1> DEFINE at == Locate(state, current)
  <1>1. /\ at # <<>> /\ state[at[1]] = "Waiting" /\ at[1] \in sensitive
        /\ state' = [state EXCEPT ![at[1]] = "Decided"] /\ Clicked(at[1], at[2])
        /\ UNCHANGED <<groups, active, current>>
    BY DEF Activate
  <1> HIDE DEF at
  <1>2. at[1] \in Calls
    BY <1>1 DEF DecisionInv, DecisionTypeOK
  <1> QED
    BY <1>1, <1>2, KeptByClicked

LEMMA KeptByFinishGroup ==
  ASSUME DecisionInv, NEW d \in asked, NEW allowed \in BOOLEAN, FinishGroup(d, allowed)
  PROVE  DecisionInv'
  <1> USE DEF DecisionInv
  <1> DEFINE c == d[1]
             mine == c \in ToSet(groups) /\ state[c] # "Done"
             resolved == IF mine THEN [state EXCEPT ![c] = "Done"] ELSE state
             follow == IF allowed /\ Buttons[c][d[2]] = "ignore" THEN Followers(resolved) ELSE {}
  <1>1. /\ active' = IF mine THEN active - Count(c) ELSE active
        /\ state' = [k \in Calls |-> IF k \in follow THEN "Decided" ELSE resolved[k]]
        /\ sensitive' = sensitive \ follow
        /\ sent' = [k \in Calls |-> IF k \in follow THEN sent[k] + 1 ELSE sent[k]]
        /\ asked' = (asked \ {d}) \cup {<<k, CHOOSE j \in Ignorable(k) : TRUE>> : k \in follow}
        /\ current' = IF active' > 0 THEN 0 ELSE NoSelection
        /\ groups' = groups
    BY DEF FinishGroup
  <1>2. c \in Calls /\ groups \in Seq(Calls) /\ Len(groups) \in Nat /\ DOMAIN groups = 1..Len(groups)
    BY DEF DecisionTypeOK
  <1>3. \A k \in follow : k \in Calls /\ k \in sensitive /\ resolved[k] = "Waiting"
    <2>1. \A k \in Followers(resolved) : k \in sensitive /\ resolved[k] = "Waiting"
      BY DEF Followers
    <2> HIDE DEF resolved
    <2> QED
      BY <2>1 DEF DecisionTypeOK
  <1>4. /\ resolved \in [Calls -> {"absent", "Waiting", "Decided", "Done"}]
        /\ \A k \in Calls : resolved[k] = IF mine /\ k = c THEN "Done" ELSE state[k]
    BY <1>2 DEF DecisionTypeOK
  <1> HIDE DEF c, resolved, follow
  <1>5. \A k \in Calls : state'[k] = IF k \in follow THEN "Decided" ELSE resolved[k]
    BY <1>1
  <1>6. state' \in [Calls -> {"absent", "Waiting", "Decided", "Done"}]
    BY <1>1, <1>4
  <1>7. \A k \in Calls : state'[k] = "Done" <=> resolved[k] = "Done"
    BY <1>3, <1>5
  <1>8. DecisionTypeOK'
    <2>1. \A k \in follow : sent[k] = 0
      BY <1>3 DEF SendersAreDull
    <2>2. sent' \in [Calls -> 0..1]
      BY <1>1, <2>1 DEF DecisionTypeOK
    <2>3. ASSUME NEW e \in asked' PROVE e[1] \in Calls
      <3>1. CASE e \in asked
        BY <3>1 DEF DecisionTypeOK
      <3>2. CASE e \notin asked
        <4>1. PICK k \in follow : e = <<k, CHOOSE j \in Ignorable(k) : TRUE>>
          BY <1>1, <3>2
        <4> QED
          BY <1>3, <4>1
      <3> QED
        BY <3>1, <3>2
    <2> QED
      BY <1>1, <1>6, <2>2, <2>3 DEF DecisionTypeOK
  <1>9. CountIsSum' /\ active' \in Nat
    <2>1. CASE mine
      <3>1. PICK k \in 1..Len(groups) : groups[k] = c
        BY <1>2, <2>1 DEF ToSet
      <3>2. Weight(state, groups[k]) = Count(c)
        BY <2>1, <3>1 DEF Weight
      <3>3. ASSUME NEW i \in 1..Len(groups)
            PROVE  Weight(state', groups[i]) = IF i = k THEN 0 ELSE Weight(state, groups[i])
        <4>1. groups[i] \in Calls /\ (groups[i] = c <=> i = k)
          BY <1>2, <3>1 DEF DecisionTypeOK
        <4>2. state'[groups[i]] = "Done" <=> i = k \/ state[groups[i]] = "Done"
          BY <1>4, <1>7, <2>1, <4>1
        <4> QED
          BY <4>2 DEF Weight
      <3>4. ButtonsUpTo(groups, state')[Len(groups)] = ButtonsUpTo(groups, state)[Len(groups)] - Weight(state, groups[k])
        BY <1>2, <3>3, SumDrops
      <3>5. ButtonsUpTo(groups, state')[Len(groups)] \in Nat
        <4>1. Len(groups) \in 0..Len(groups)
          BY <1>2
        <4> QED
          BY <1>2, <4>1, SumIs
      <3> QED
        BY <1>1, <2>1, <3>2, <3>4, <3>5 DEF CountIsSum
    <2>2. CASE ~mine
      <3>1. \A k \in Calls : state'[k] = "Done" <=> state[k] = "Done"
        BY <1>4, <1>7, <2>2
      <3>2. active' = active
        BY <1>1, <2>2
      <3>3. CountIsSum'
        BY <1>1, <3>1, <3>2, CountStays
      <3> QED
        BY <3>2, <3>3, ActiveIsNat
    <2> QED
      BY <2>1, <2>2
  <1>10. SelectionInRange'
    BY <1>1, <1>9 DEF SelectionInRange
  <1>11. SendersAreDull'
    <2>1. \A i \in 1..Len(groups) : groups[i] \in Calls
      BY <1>2
    <2>2. \A k \in Calls : state[k] # "absent" => state'[k] # "absent"
      BY <1>4, <1>5
    <2>3. \A k \in Calls : state'[k] = "absent" => state[k] = "absent"
      BY <2>2
    <2>4. \A k \in sensitive' : k \in sensitive /\ k \notin follow /\ k \in Calls
      BY <1>1 DEF DecisionTypeOK
    <2>5. \A k \in Calls : state'[k] = "absent" => k \notin follow
      BY <1>5
    <2>6. \A k \in Calls : k \notin follow => sent'[k] = sent[k]
      BY <1>1
    <2>7. /\ \A i \in 1..Len(groups) : state[groups[i]] # "absent"
          /\ \A k \in Calls : k \in sensitive \/ state[k] = "absent" => sent[k] = 0
          /\ \A k \in sensitive : state[k] # "absent"
      BY DEF SendersAreDull
    <2> QED
      BY <1>1, <2>1, <2>2, <2>3, <2>4, <2>5, <2>6, <2>7 DEF SendersAreDull
  <1> QED
    BY <1>8, <1>9, <1>10, <1>11

LEMMA KeptByEndOfTurn ==
  ASSUME DecisionInv, EndOfTurn
  PROVE  DecisionInv'
  <1> USE DEF DecisionInv
  <1>1. /\ state' = [c \in Calls |-> IF c \in ToSet(groups) THEN "Done" ELSE state[c]]
        /\ groups' = <<>> /\ active' = 0 /\ current' = NoSelection
        /\ UNCHANGED <<sensitive, asked, sent>>
    BY DEF EndOfTurn
  <1>2. groups' \in Seq(Calls) /\ Len(groups') = 0
    BY <1>1
  <1>3. ButtonsUpTo(groups', state')[0] = 0
    BY <1>2, SumIs
  <1>4. DecisionTypeOK'
    BY <1>1, <1>2 DEF DecisionTypeOK
  <1>5. CountIsSum'
    BY <1>1, <1>2, <1>3 DEF CountIsSum
  <1>6. \A c \in Calls : state'[c] = "absent" => state[c] = "absent"
    BY <1>1
  <1>7. \A c \in Calls : state[c] # "absent" => state'[c] # "absent"
    BY <1>1
  <1>8. SendersAreDull'
    BY <1>1, <1>2, <1>6, <1>7 DEF SendersAreDull, DecisionTypeOK
  <1> QED
    BY <1>1, <1>4, <1>5, <1>8 DEF SelectionInRange

LEMMA DecisionStepOK ==
  ASSUME DecisionInv, [DecisionNext]_decisionVars
  PROVE  DecisionInv'
  <1>1. CASE UNCHANGED decisionVars
    BY <1>1 DEF decisionVars, DecisionInv, DecisionTypeOK, CountIsSum, SelectionInRange, SendersAreDull
  <1>2. ASSUME NEW c \in Calls, NEW j \in 1..Count(c), ClickButton(c, j)
        PROVE  DecisionInv'
    <2>1. /\ state[c] = "Waiting" /\ c \in sensitive /\ Clicked(c, j) /\ state' = state
          /\ UNCHANGED <<groups, active, current>>
      BY <1>2 DEF ClickButton
    <2> QED
      BY <2>1, KeptByClicked
  <1> QED
    BY <1>1, <1>2, KeptByAppendToolCall, KeptByNavigate, KeptByActivate, KeptByFinishGroup, KeptByEndOfTurn
    DEF DecisionNext

-----------------------------------------------------------------------------
(* Sequences and sets of positions.                                        *)

LEMMA LeastIn ==
  ASSUME NEW n \in Nat, NEW T \in SUBSET (1..n), T # {}
  PROVE  /\ Min(T) \in T /\ \A x \in T : Min(T) <= x
         /\ Max(T) \in T /\ \A x \in T : Max(T) >= x
  <1>1. T \in SUBSET Nat
    OBVIOUS
  <1>2. \E x \in T : \A y \in T : x <= y
    BY <1>1, Least
  <1> DEFINE D == {n - x : x \in T}
  <1>3. D \in SUBSET Nat /\ D # {}
    <2>1. \A x \in T : n - x \in Nat
      OBVIOUS
    <2>2. PICK x \in T : TRUE
      OBVIOUS
    <2>3. n - x \in D
      BY <2>2
    <2>4. \A d \in D : d \in Nat
      BY <2>1
    <2> QED
      BY <2>3, <2>4
  <1>4. PICK d \in D : \A e \in D : d <= e
    BY <1>3, Least
  <1>5. PICK x \in T : d = n - x
    BY <1>4
  <1>6. \A y \in T : x >= y
    <2> SUFFICES ASSUME NEW y \in T PROVE x >= y
      OBVIOUS
    <2>1. n - y \in D
      OBVIOUS
    <2>2. d <= n - y
      BY <1>4, <2>1
    <2> QED
      BY <1>1, <1>5, <2>2
  <1>7. \E z \in T : \A y \in T : z >= y
    BY <1>6
  <1>8. Min(T) \in T /\ \A y \in T : Min(T) <= y
    BY <1>2 DEF Min
  <1>9. Max(T) \in T /\ \A y \in T : Max(T) >= y
    BY <1>7 DEF Max
  <1> QED
    BY <1>8, <1>9

LEMMA RemoveAtIs ==
  ASSUME NEW S, NEW s \in Seq(S), NEW i \in 1..Len(s)
  PROVE  /\ RemoveAt(s, i) \in Seq(S) /\ Len(RemoveAt(s, i)) = Len(s) - 1
         /\ \A j \in 1..(Len(s) - 1) : RemoveAt(s, i)[j] = IF j < i THEN s[j] ELSE s[j + 1]
  <1> DEFINE a == SubSeq(s, 1, i - 1)
             b == SubSeq(s, i + 1, Len(s))
  <1>1. Len(s) \in Nat /\ i \in Nat
    OBVIOUS
  <1>2. a \in Seq(S) /\ Len(a) = i - 1 /\ \A j \in 1..(i - 1) : a[j] = s[j]
    BY <1>1
  <1>3. b \in Seq(S) /\ Len(b) = Len(s) - i /\ \A j \in 1..(Len(s) - i) : b[j] = s[j + i]
    BY <1>1
  <1>4. RemoveAt(s, i) = a \o b
    BY DEF RemoveAt
  <1> HIDE DEF a, b
  <1>5. a \o b \in Seq(S) /\ Len(a \o b) = Len(s) - 1
    <2>1. a \in Seq(S) /\ b \in Seq(S) /\ Len(a) = i - 1 /\ Len(b) = Len(s) - i
      BY <1>2, <1>3
    <2>2. a \o b \in Seq(S) /\ Len(a \o b) = Len(a) + Len(b)
      BY <2>1
    <2> QED
      BY <1>1, <2>1, <2>2
  <1>6. \A j \in 1..(Len(s) - 1) : (a \o b)[j] = IF j < i THEN s[j] ELSE s[j + 1]
    <2> SUFFICES ASSUME NEW j \in 1..(Len(s) - 1) PROVE (a \o b)[j] = IF j < i THEN s[j] ELSE s[j + 1]
      OBVIOUS
    <2>1. CASE j < i
      <3>1. j \in 1..Len(a) /\ j \in 1..(i - 1) /\ a \in Seq(S) /\ b \in Seq(S)
        BY <1>1, <1>2, <1>3, <2>1
      <3>2. (a \o b)[j] = a[j]
        BY <3>1
      <3> QED
        BY <1>2, <2>1, <3>1, <3>2
    <2>2. CASE j >= i
      <3>1. (a \o b)[j] = b[j - (i - 1)]
        BY <1>1, <1>2, <1>3, <2>2
      <3>2. j - (i - 1) \in 1..(Len(s) - i) /\ (j - (i - 1)) + i = j + 1
        BY <1>1, <2>2
      <3> QED
        BY <1>1, <1>3, <2>2, <3>1, <3>2
    <2>3. j < i \/ j >= i
      BY <1>1
    <2> QED
      BY <2>1, <2>2, <2>3
  <1> QED
    BY <1>4, <1>5, <1>6

-----------------------------------------------------------------------------
(* SessionList.                                                            *)
Sessions == ToSet(StoredSessions)
ListTasks ==
    [kind : {"list"}] \cup [kind : {"search"}, needle : Needles] \cup [kind : {"delete"}, session : Sessions]
    \cup [kind : {"result"}, of : {"list"}, rows : Seq(Sessions)]
    \cup [kind : {"result"}, of : {"search"}, rows : SUBSET Sessions]
    \cup [kind : {"result"}, of : {"delete"}, rows : Sessions]

SessionListTypeOK == stored \in Seq(Sessions) /\ listed \in Seq(Sessions) /\ work \in Seq(ListTasks)
SessionListInv == SessionListTypeOK /\ SelectionIsListed

(* What is taken out of a list leaves the other rows.                      *)
LEMMA TakeOutFacts ==
  ASSUME NEW S, NEW rows \in Seq(S), NEW s
  PROVE  /\ TakeOut(rows, s) \in Seq(S)
         /\ \A r \in ToSet(rows) : r # s => r \in ToSet(TakeOut(rows, s))
         /\ RowsFor(rows, s) = {} => TakeOut(rows, s) = rows
  <1> DEFINE T == RowsFor(rows, s)
             p == Min(T)
             rest == TakeOut(rows, s)
  <1>1. CASE T = {}
    <2>1. rest = rows
      BY <1>1 DEF TakeOut
    <2> QED
      BY <1>1, <2>1
  <1>2. CASE T # {}
    <2>1. rest = RemoveAt(rows, p)
      BY <1>2 DEF TakeOut
    <2>2. T \in SUBSET (1..Len(rows)) /\ Len(rows) \in Nat
      BY DEF RowsFor
    <2>3. p \in 1..Len(rows) /\ rows[p] = s
      <3>1. p \in T
        BY <1>2, <2>2, LeastIn
      <3> QED
        BY <2>2, <3>1 DEF RowsFor
    <2> HIDE DEF p, rest
    <2>4. /\ rest \in Seq(S) /\ Len(rest) = Len(rows) - 1
          /\ \A j \in 1..(Len(rows) - 1) : rest[j] = IF j < p THEN rows[j] ELSE rows[j + 1]
      BY <2>1, <2>3, RemoveAtIs
    <2>5. ASSUME NEW r \in ToSet(rows), r # s PROVE r \in ToSet(rest)
      <3>1. PICK k \in 1..Len(rows) : rows[k] = r
        BY <2>5 DEF ToSet
      <3>2. k # p
        BY <2>3, <2>5, <3>1
      <3> DEFINE j == IF k < p THEN k ELSE k - 1
      <3>3. j \in 1..(Len(rows) - 1) /\ rest[j] = r
        BY <2>2, <2>3, <2>4, <3>1, <3>2
      <3>4. j \in DOMAIN rest
        BY <2>4, <3>3
      <3> QED
        BY <3>3, <3>4 DEF ToSet
    <2> QED
      BY <1>2, <2>4, <2>5 DEF rest
  <1> QED
    BY <1>1, <1>2

LEMMA NearestIsListed ==
  ASSUME NEW S, NEW rows \in Seq(S), NEW h, NEW pos \in Nat
  PROVE  Nearest(rows, h, pos) # NoRow => Nearest(rows, h, pos) \in ToSet(rows)
  <1> DEFINE visible == Visible(rows, h)
             after == {i \in visible : i >= pos}
  <1>1. visible \in SUBSET (1..Len(rows)) /\ after \in SUBSET (1..Len(rows)) /\ Len(rows) \in Nat
    BY DEF Visible
  <1>2. Nearest(rows, h, pos) =
            IF visible = {} THEN NoRow ELSE rows[IF after = {} THEN Max(visible) ELSE Min(after)]
    BY DEF Nearest
  <1> HIDE DEF after, visible
  <1>3. ASSUME visible # {}
        PROVE  (IF after = {} THEN Max(visible) ELSE Min(after)) \in 1..Len(rows)
    <2>1. Max(visible) \in 1..Len(rows)
      BY <1>1, <1>3, LeastIn
    <2>2. after # {} => Min(after) \in 1..Len(rows)
      BY <1>1, LeastIn
    <2> QED
      BY <2>1, <2>2
  <1> QED
    BY <1>2, <1>3 DEF ToSet

LEMMA SessionListInitOK == SessionListInit => SessionListInv
  BY SessionListAssumption DEF SessionListInit, SessionListRest, SessionListInv, SessionListTypeOK,
      SelectionIsListed, Sessions

LEMMA StartTaskType ==
  ASSUME SessionListTypeOK, NEW t \in ListTasks, StartTask(t)
  PROVE  work' \in Seq(ListTasks)
  BY DEF SessionListTypeOK, StartTask

LEMMA DropTaskType ==
  ASSUME SessionListTypeOK, NEW i \in DOMAIN work, DropTask(i)
  PROVE  work' \in Seq(ListTasks) /\ work[i] \in ListTasks /\ i \in 1..Len(work)
  <1>1. work \in Seq(ListTasks) /\ i \in 1..Len(work)
    BY DEF SessionListTypeOK
  <1>2. RemoveAt(work, i) \in Seq(ListTasks)
    BY <1>1, RemoveAtIs
  <1> QED
    BY <1>1, <1>2 DEF DropTask

LEMMA KeptByUserSteps ==
  ASSUME SessionListInv,
         \/ OpenList
         \/ \E n \in Needles \cup {NoNeedle} : Filter(n)
         \/ \E up \in BOOLEAN : NavigateRows(up)
         \/ \E s \in Sessions : DeleteSession(s)
  PROVE  SessionListInv'
  <1> USE DEF SessionListInv
  <1>1. CASE OpenList
    <2>1. [kind |-> "list"] \in ListTasks
      BY DEF ListTasks
    <2>2. /\ selected' = NoRow /\ stored' = stored /\ listed' = listed
          /\ StartTask([kind |-> "list"])
      BY <1>1 DEF OpenList
    <2>3. work' \in Seq(ListTasks)
      BY <2>1, <2>2, StartTaskType
    <2> QED
      BY <2>2, <2>3 DEF SessionListTypeOK, SelectionIsListed
  <1>2. ASSUME NEW n \in Needles \cup {NoNeedle}, Filter(n) PROVE SessionListInv'
    <2>1. /\ selected' = NoRow /\ stored' = stored /\ listed' = listed
          /\ work' = work \/ (n # NoNeedle /\ StartTask([kind |-> "search", needle |-> n]))
      BY <1>2 DEF Filter
    <2>2. work' \in Seq(ListTasks)
      <3>1. n # NoNeedle => [kind |-> "search", needle |-> n] \in ListTasks
        BY DEF ListTasks
      <3>2. work' = work => work' \in Seq(ListTasks)
        BY DEF SessionListTypeOK
      <3> QED
        BY <2>1, <3>1, <3>2, StartTaskType
    <2> QED
      BY <2>1, <2>2 DEF SessionListTypeOK, SelectionIsListed
  <1>3. ASSUME NEW up \in BOOLEAN, NavigateRows(up) PROVE SessionListInv'
    <2> DEFINE visible == Visible(listed, hidden)
               at == visible \cap RowsFor(listed, selected)
               from == Min(at)
               beyond == {i \in visible : IF up THEN i < from ELSE i > from}
               next == IF at = {} THEN Min(visible)
                       ELSE IF beyond = {} THEN from
                       ELSE IF up THEN Max(beyond) ELSE Min(beyond)
    <2>1. visible # {} /\ selected' = listed[next] /\ UNCHANGED <<stored, listed, work>>
      BY <1>3 DEF NavigateRows
    <2>2. visible \in SUBSET (1..Len(listed)) /\ Len(listed) \in Nat
      BY DEF Visible, SessionListTypeOK
    <2>3. at \in SUBSET visible /\ beyond \in SUBSET visible
      OBVIOUS
    <2> HIDE DEF visible, at, beyond
    <2>4. /\ Min(visible) \in visible
          /\ at # {} => Min(at) \in visible
          /\ beyond # {} => Max(beyond) \in visible /\ Min(beyond) \in visible
      <3>1. Min(visible) \in visible
        BY <2>1, <2>2, LeastIn
      <3>2. at # {} => Min(at) \in at
        BY <2>2, <2>3, LeastIn
      <3>3. beyond # {} => Max(beyond) \in beyond /\ Min(beyond) \in beyond
        BY <2>2, <2>3, LeastIn
      <3> QED
        BY <2>3, <3>1, <3>2, <3>3
    <2>5. next \in visible
      BY <2>4
    <2> HIDE DEF next
    <2>6. next \in 1..Len(listed) /\ DOMAIN listed = 1..Len(listed)
      BY <2>2, <2>5 DEF SessionListTypeOK
    <2>7. listed[next] \in ToSet(listed)
      BY <2>6 DEF ToSet
    <2> QED
      BY <2>1, <2>7 DEF SessionListTypeOK, SelectionIsListed
  <1>4. ASSUME NEW s \in Sessions, DeleteSession(s) PROVE SessionListInv'
    <2>1. [kind |-> "delete", session |-> s] \in ListTasks
      BY DEF ListTasks
    <2>2. /\ StartTask([kind |-> "delete", session |-> s])
          /\ UNCHANGED <<stored, listed, selected>>
      BY <1>4 DEF DeleteSession
    <2>3. work' \in Seq(ListTasks)
      BY <2>1, <2>2, StartTaskType
    <2> QED
      BY <2>2, <2>3 DEF SessionListTypeOK, SelectionIsListed
  <1> QED
    BY <1>1, <1>2, <1>3, <1>4

LEMMA KeptByDatabaseAnswers ==
  ASSUME SessionListInv, NEW i \in DOMAIN work, DatabaseAnswers(i)
  PROVE  SessionListInv'
  <1> USE DEF SessionListInv
  <1> DEFINE t == work[i]
             r == CASE t.kind = "list" -> [kind |-> "result", of |-> "list", rows |-> stored]
                    [] t.kind = "search" -> [kind |-> "result", of |-> "search", rows |-> Matches[t.needle]]
                    [] t.kind = "delete" -> [kind |-> "result", of |-> "delete", rows |-> t.session]
  <1>1. /\ t.kind # "result" /\ work' = [work EXCEPT ![i] = r] /\ UNCHANGED <<listed, selected>>
        /\ stored' = IF t.kind = "delete" THEN TakeOut(stored, t.session) ELSE stored
    BY DEF DatabaseAnswers
  <1>2. work \in Seq(ListTasks) /\ t \in ListTasks /\ stored \in Seq(Sessions)
    BY DEF SessionListTypeOK
  <1> HIDE DEF t, r
  <1>3. /\ t.kind \in {"list", "search", "delete"}
        /\ t.kind = "search" => t.needle \in Needles
        /\ t.kind = "delete" => t.session \in Sessions
    BY <1>1, <1>2 DEF ListTasks
  <1>4. r \in ListTasks
    <2>1. CASE t.kind = "list"
      <3>1. r = [kind |-> "result", of |-> "list", rows |-> stored]
        BY <2>1 DEF r
      <3> QED
        BY <1>2, <3>1 DEF ListTasks
    <2>2. CASE t.kind = "search"
      <3>1. r = [kind |-> "result", of |-> "search", rows |-> Matches[t.needle]]
        BY <2>2 DEF r
      <3>2. Matches[t.needle] \in SUBSET Sessions
        BY <1>3, <2>2, SessionListAssumption DEF Sessions
      <3> QED
        BY <3>1, <3>2 DEF ListTasks
    <2>3. CASE t.kind = "delete"
      <3>1. r = [kind |-> "result", of |-> "delete", rows |-> t.session]
        BY <2>3 DEF r
      <3> QED
        BY <1>3, <2>3, <3>1 DEF ListTasks
    <2> QED
      BY <1>3, <2>1, <2>2, <2>3
  <1>5. work' \in Seq(ListTasks)
    BY <1>1, <1>2, <1>4
  <1>6. stored' \in Seq(Sessions)
    <2>1. TakeOut(stored, t.session) \in Seq(Sessions)
      BY <1>2, TakeOutFacts
    <2> QED
      BY <1>1, <1>2, <2>1
  <1> QED
    BY <1>1, <1>5, <1>6 DEF SessionListTypeOK, SelectionIsListed

LEMMA KeptByResults ==
  ASSUME SessionListInv, NEW i \in DOMAIN work,
         TaskFails(i) \/ SetSessions(i) \/ ApplyFilter(i) \/ RemoveRow(i)
  PROVE  SessionListInv'
  <1> USE DEF SessionListInv
  <1>1. DropTask(i) /\ stored' = stored
    BY DEF TaskFails, SetSessions, ApplyFilter, RemoveRow
  <1>2. work' \in Seq(ListTasks) /\ work[i] \in ListTasks
    BY <1>1, DropTaskType
  <1>3. CASE TaskFails(i) \/ ApplyFilter(i)
    <2>1. UNCHANGED <<listed, selected>>
      BY <1>3 DEF TaskFails, ApplyFilter
    <2> QED
      BY <1>1, <1>2, <2>1 DEF SessionListTypeOK, SelectionIsListed
  <1>4. CASE SetSessions(i)
    <2>1. work[i].kind = "result" /\ work[i].of = "list" /\ listed' = work[i].rows /\ selected' = NoRow
      BY <1>4 DEF SetSessions
    <2>2. work[i].rows \in Seq(Sessions)
      BY <1>2, <2>1 DEF ListTasks
    <2> QED
      BY <1>1, <1>2, <2>1, <2>2 DEF SessionListTypeOK, SelectionIsListed
  <1>5. CASE RemoveRow(i)
    <2> DEFINE s == work[i].rows
               at == RowsFor(listed, s)
               rest == TakeOut(listed, s)
    <2>1. /\ listed' = rest
          /\ selected' = IF at = {} \/ selected # s THEN selected ELSE Nearest(rest, hidden, Min(at))
      BY <1>5 DEF RemoveRow
    <2>2. listed \in Seq(Sessions)
      BY DEF SessionListTypeOK
    <2>3. /\ rest \in Seq(Sessions) /\ \A x \in ToSet(listed) : x # s => x \in ToSet(rest)
          /\ at = {} => rest = listed
      BY <2>2, TakeOutFacts
    <2>4. at # {} => Min(at) \in Nat
      <3>1. at \in SUBSET (1..Len(listed)) /\ Len(listed) \in Nat
        BY <2>2 DEF RowsFor
      <3> HIDE DEF at
      <3>2. ASSUME at # {} PROVE Min(at) \in Nat
        <4>1. Min(at) \in at
          BY <3>1, <3>2, LeastIn
        <4>2. Min(at) \in 1..Len(listed)
          BY <3>1, <4>1
        <4> QED
          BY <3>1, <4>2
      <3> QED
        BY <3>2
    <2> HIDE DEF s, at, rest
    <2>5. SelectionIsListed'
      <3>1. CASE at = {}
        BY <2>1, <2>3, <3>1 DEF SelectionIsListed
      <3>2. CASE at # {} /\ selected # s
        BY <2>1, <2>3, <3>2 DEF SelectionIsListed
      <3>3. CASE at # {} /\ selected = s
        BY <2>1, <2>3, <2>4, <3>3, NearestIsListed DEF SelectionIsListed
      <3> QED
        BY <3>1, <3>2, <3>3
    <2> QED
      BY <1>1, <1>2, <2>1, <2>3, <2>5 DEF SessionListTypeOK
  <1> QED
    BY <1>3, <1>4, <1>5

LEMMA SessionListStepOK ==
  ASSUME SessionListInv, [SessionListNext]_sessionListVars
  PROVE  SessionListInv'
  <1>1. CASE UNCHANGED sessionListVars
    BY <1>1 DEF sessionListVars, SessionListInv, SessionListTypeOK, SelectionIsListed
  <1> QED
    BY <1>1, KeptByUserSteps, KeptByDatabaseAnswers, KeptByResults DEF SessionListNext, Sessions

-----------------------------------------------------------------------------
(* SearchList: the values.                                                 *)
ActionLists == Seq(BOOLEAN)
ResultRows ==
    [kind : {"Item"}, of : Capabilities, actions : ActionLists]
    \cup [kind : {"ShowMore"}, of : Capabilities, tail : Nat \ {0}] \cup [kind : {"Chat"}]
ActionPanels == [row : Nat, of : Capabilities, actions : ActionLists, at : Nat, open : BOOLEAN]
LauncherMsgs ==
    [msg : {"QueryChanged"}, content : BOOLEAN]
    \cup [msg : {"QueryEvent"}, query : Nat, of : Capabilities, items : Replies]
    \cup [msg : {"QueryFinished"}, query : Nat, found : BOOLEAN]
    \cup [msg : {"ResultAction"}, of : Capabilities, action : Nat]
    \cup [msg : {"Exit", "OpenPanel", "PanelClosed", "Prompt"}]
SearchViews ==
    [rows : Seq(ResultRows), hidden : SUBSET Nat, selected : Nat, panel : ActionPanels \cup {NoPanel},
     strays : {0}, queue : Seq(LauncherMsgs)]
SearchTasks == [query : Nat, left : SUBSET Capabilities, found : BOOLEAN]

(* What the three properties come from, of any view.                       *)
Announced(v, i) ==
    \E j \in VisibleRows(v) :
        /\ v.rows[j].kind = "ShowMore"
        /\ i \in (j + 1)..(j + v.rows[j].tail)
        /\ v.rows[j].of = v.rows[i].of
RowsAreSound(v) ==
    /\ v.hidden \subseteq 1..Len(v.rows)
    /\ \A j \in 1..Len(v.rows) : v.rows[j].kind = "ShowMore" => j + v.rows[j].tail <= Len(v.rows)
    /\ v.selected # 0 => v.selected \in VisibleRows(v)
    /\ \A i \in v.hidden : v.rows[i].kind = "Item" => Announced(v, i)
PanelIsSound(v) ==
    IsActionPanelOpen(v) =>
        /\ v.panel.row \in VisibleRows(v)
        /\ v.rows[v.panel.row] = ItemRow(v.panel.of, v.panel.actions)
        /\ v.panel.at \in DOMAIN v.panel.actions
ViewIsSound(v) == v \in SearchViews /\ RowsAreSound(v) /\ PanelIsSound(v)

(* A panel that is open is not one whose close is still queued, and what   *)
(* would open it again is not queued before that, unless there is nothing  *)
(* it could open.                                                          *)
ClosedFree(q) == \A k \in 1..Len(q) : q[k].msg # "PanelClosed"
OpenFree(q) == \A k \in 1..Len(q) : q[k].msg # "OpenPanel"
ClosedFirst(q) == \A j, k \in 1..Len(q) : q[j].msg = "OpenPanel" /\ q[k].msg = "PanelClosed" => k < j
QueueIsSound(v, loop) ==
    /\ IsActionPanelOpen(v) => ClosedFree(v.queue)
    /\ ClosedFirst(v.queue) \/ (loop /\ v.selected = 0)
    /\ IsActionPanelOpen(v) /\ ~loop => OpenFree(v.queue)

SearchListInv ==
    /\ ViewIsSound(card) /\ QueueIsSound(card, looping)
    /\ looping \in BOOLEAN /\ query \in Nat /\ searches \in SUBSET SearchTasks

-----------------------------------------------------------------------------
(* Sequences.                                                              *)
LEMMA ConcatIs ==
  ASSUME NEW S, NEW a \in Seq(S), NEW b \in Seq(S)
  PROVE  /\ a \o b \in Seq(S) /\ Len(a \o b) = Len(a) + Len(b)
         /\ \A i \in 1..Len(a) : (a \o b)[i] = a[i]
         /\ \A i \in (Len(a) + 1)..(Len(a) + Len(b)) : (a \o b)[i] = b[i - Len(a)]
  <1>1. a \o b \in Seq(S) /\ Len(a \o b) = Len(a) + Len(b)
    OBVIOUS
  <1>2. \A i \in 1..Len(a) : (a \o b)[i] = a[i]
    OBVIOUS
  <1>3. \A i \in (Len(a) + 1)..(Len(a) + Len(b)) : (a \o b)[i] = b[i - Len(a)]
    OBVIOUS
  <1> QED
    BY <1>1, <1>2, <1>3

LEMMA SliceIs ==
  ASSUME NEW S, NEW s \in Seq(S), NEW m \in 1..(Len(s) + 1), NEW n \in (m - 1)..Len(s)
  PROVE  /\ SubSeq(s, m, n) \in Seq(S) /\ Len(SubSeq(s, m, n)) = n - m + 1
         /\ \A i \in 1..(n - m + 1) : SubSeq(s, m, n)[i] = s[i + m - 1]
  OBVIOUS

LEMMA TailKeepsOrder ==
  ASSUME NEW S, NEW q \in Seq(S), q # <<>>
  PROVE  /\ Tail(q) \in Seq(S) /\ Head(q) \in S
         /\ ClosedFree(q) => ClosedFree(Tail(q))
         /\ OpenFree(q) => OpenFree(Tail(q))
         /\ ClosedFirst(q) => ClosedFirst(Tail(q))
         /\ ClosedFirst(q) /\ Head(q).msg = "OpenPanel" => ClosedFree(Tail(q))
  <1>1. /\ Tail(q) \in Seq(S) /\ Len(Tail(q)) = Len(q) - 1 /\ Len(q) \in Nat /\ Len(q) > 0
        /\ Head(q) = q[1] /\ Head(q) \in S
    OBVIOUS
  <1>2. \A k \in 1..(Len(q) - 1) : Tail(q)[k] = q[k + 1] /\ k + 1 \in 1..Len(q)
    OBVIOUS
  <1>3. ClosedFree(q) => ClosedFree(Tail(q))
    BY <1>1, <1>2 DEF ClosedFree
  <1>4. OpenFree(q) => OpenFree(Tail(q))
    BY <1>1, <1>2 DEF OpenFree
  <1>5. ASSUME ClosedFirst(q) PROVE ClosedFirst(Tail(q))
    <2> SUFFICES ASSUME NEW j \in 1..Len(Tail(q)), NEW k \in 1..Len(Tail(q)),
                        Tail(q)[j].msg = "OpenPanel", Tail(q)[k].msg = "PanelClosed"
                 PROVE  k < j
      BY DEF ClosedFirst
    <2>1. /\ j + 1 \in 1..Len(q) /\ q[j + 1].msg = "OpenPanel"
          /\ k + 1 \in 1..Len(q) /\ q[k + 1].msg = "PanelClosed" /\ j \in Nat /\ k \in Nat
      BY <1>1, <1>2
    <2>2. k + 1 < j + 1
      BY <1>5, <2>1 DEF ClosedFirst
    <2> QED
      BY <2>1, <2>2
  <1>6. ASSUME ClosedFirst(q), Head(q).msg = "OpenPanel" PROVE ClosedFree(Tail(q))
    <2> SUFFICES ASSUME NEW k \in 1..Len(Tail(q)), Tail(q)[k].msg = "PanelClosed" PROVE FALSE
      BY DEF ClosedFree
    <2>1. /\ k + 1 \in 1..Len(q) /\ q[k + 1].msg = "PanelClosed" /\ k \in Nat /\ k > 0
          /\ 1 \in 1..Len(q) /\ q[1].msg = "OpenPanel"
      BY <1>1, <1>2, <1>6
    <2>2. k + 1 < 1
      BY <1>6, <2>1 DEF ClosedFirst
    <2> QED
      BY <2>1, <2>2
  <1> QED
    BY <1>1, <1>3, <1>4, <1>5, <1>6

LEMMA AppendKeepsOrder ==
  ASSUME NEW S, NEW q \in Seq(S), NEW m \in S
  PROVE  /\ Append(q, m) \in Seq(S)
         /\ ClosedFree(q) /\ m.msg # "PanelClosed" => ClosedFree(Append(q, m))
         /\ OpenFree(q) /\ m.msg # "OpenPanel" => OpenFree(Append(q, m))
         /\ ClosedFirst(q) /\ (m.msg # "PanelClosed" \/ OpenFree(q)) => ClosedFirst(Append(q, m))
  <1> DEFINE p == Append(q, m)
  <1>1. /\ p \in Seq(S) /\ Len(p) = Len(q) + 1 /\ Len(q) \in Nat /\ p[Len(q) + 1] = m
        /\ \A k \in 1..Len(q) : p[k] = q[k]
    OBVIOUS
  <1> HIDE DEF p
  <1>2. \A k \in 1..Len(p) : k \in Nat /\ (k = Len(q) + 1 \/ k \in 1..Len(q))
    BY <1>1
  <1>3. ClosedFree(q) /\ m.msg # "PanelClosed" => ClosedFree(p)
    BY <1>1, <1>2 DEF ClosedFree
  <1>4. OpenFree(q) /\ m.msg # "OpenPanel" => OpenFree(p)
    BY <1>1, <1>2 DEF OpenFree
  <1>5. ASSUME ClosedFirst(q), m.msg # "PanelClosed" \/ OpenFree(q) PROVE ClosedFirst(p)
    <2> SUFFICES ASSUME NEW j \in 1..Len(p), NEW k \in 1..Len(p),
                        p[j].msg = "OpenPanel", p[k].msg = "PanelClosed"
                 PROVE  k < j
      BY DEF ClosedFirst
    <2>1. CASE k = Len(q) + 1
      <3>1. m.msg = "PanelClosed"
        BY <1>1, <2>1
      <3>2. OpenFree(q)
        BY <1>5, <3>1
      <3>3. j \in 1..Len(q)
        BY <1>1, <1>2, <3>1
      <3> QED
        BY <1>1, <3>2, <3>3 DEF OpenFree
    <2>2. CASE k \in 1..Len(q) /\ j = Len(q) + 1
      BY <1>1, <2>2
    <2>3. CASE k \in 1..Len(q) /\ j \in 1..Len(q)
      BY <1>1, <1>5, <2>3 DEF ClosedFirst
    <2> QED
      BY <1>2, <2>1, <2>2, <2>3
  <1> QED
    BY <1>1, <1>3, <1>4, <1>5 DEF p

(* What is shown of a reply are lists of actions.                          *)
LEMMA UsableType ==
  ASSUME NEW items \in Seq(ActionLists)
  PROVE  Usable(items) \in Seq(ActionLists)
  <1> DEFINE n == Len(items)
             Q == Seq(ActionLists)
             One(i, q) == IF items[i] = <<>> THEN q ELSE Append(q, items[i])
             body(f) == [i \in 0..n |-> IF i = 0 THEN <<>>
                                        ELSE IF items[i] = <<>> THEN f[i - 1] ELSE Append(f[i - 1], items[i])]
             kept == CHOOSE f : f = body(f)
             L == [i \in 0..n |-> Q]
             step == [i \in (0 + 1)..n |-> [q \in Q |-> One(i, q)]]
  <1>1. Usable(items) = kept[n]
    BY DEF Usable
  <1>2. n \in Nat /\ 0 \in Nat /\ 0 <= n
    OBVIOUS
  <1>3. \A i \in 1..n : \A q \in Q : One(i, q) \in Q
    <2> SUFFICES ASSUME NEW i \in 1..n, NEW q \in Q PROVE One(i, q) \in Q
      OBVIOUS
    <2>1. items[i] \in ActionLists
      OBVIOUS
    <2>2. Append(q, items[i]) \in Q
      BY <2>1
    <2> QED
      BY <2>2
  <1>4. <<>> \in Q
    OBVIOUS
  <1> HIDE DEF n, One, Q
  <1>5. L \in [0..n -> SUBSET Q] /\ L[0] = Q /\ L[n] = Q /\ \A i \in 0..n : L[i] = Q
    BY <1>2
  <1>6. step \in [(0 + 1)..n -> [Q -> Q]] /\ \A i \in 1..n : \A q \in Q : step[i][q] = One(i, q)
    BY <1>3
  <1>7. \A i \in (0 + 1)..n : \A t \in L[i - 1] : step[i][t] \in L[i]
    <2> SUFFICES ASSUME NEW i \in (0 + 1)..n, NEW t \in L[i - 1] PROVE step[i][t] \in L[i]
      OBVIOUS
    <2>1. i - 1 \in 0..n /\ i \in 0..n /\ i \in 1..n
      BY <1>2
    <2>2. t \in Q /\ L[i] = Q
      BY <1>5, <2>1
    <2> QED
      BY <1>3, <1>6, <2>1, <2>2
  <1> HIDE DEF L, step
  <1>8. <<>> \in L[0] /\ Leads(step, L, Q, 0, n)
    BY <1>4, <1>5, <1>6, <1>7 DEF Leads
  <1>9. PICK g \in [0..n -> Q] : g[0] = <<>> /\ \A i \in (0 + 1)..n : g[i] = step[i][g[i - 1]]
    <2>1. \E f \in [0..n -> Q] : Steps(f, step, 0, n, <<>>)
      BY <1>2, <1>8, Climbs
    <2> QED
      BY <2>1 DEF Steps
  <1>10. g = body(g)
    <2>1. ASSUME NEW i \in 0..n PROVE g[i] = body(g)[i]
      <3>1. CASE i = 0
        BY <1>9, <3>1
      <3>2. CASE i # 0
        <4>1. i \in 1..n /\ i \in (0 + 1)..n /\ i - 1 \in 0..n
          BY <1>2, <3>2
        <4>2. g[i] = step[i][g[i - 1]] /\ g[i - 1] \in Q
          BY <1>9, <4>1
        <4>3. g[i] = One(i, g[i - 1])
          BY <1>6, <4>1, <4>2
        <4> QED
          BY <3>2, <4>1, <4>3 DEF One
      <3> QED
        BY <3>1, <3>2
    <2>2. DOMAIN body(g) = 0..n /\ body(g) = [i \in DOMAIN body(g) |-> body(g)[i]]
      OBVIOUS
    <2> HIDE DEF body
    <2> QED
      BY <2>1, <2>2
  <1>11. kept = body(kept)
    <2> HIDE DEF body
    <2> QED
      BY <1>10
  <1> HIDE DEF kept
  <1>12. Follows(kept, step, Q, n, <<>>)
    <2>1. /\ body(kept)[0] = <<>>
          /\ \A i \in 1..n : body(kept)[i] = One(i, kept[i - 1])
      BY <1>2 DEF One
    <2> HIDE DEF body
    <2> QED
      BY <1>6, <1>11, <2>1 DEF Follows
  <1> HIDE DEF body
  <1>13. kept[n] \in L[n]
    BY <1>2, <1>8, <1>12, Arrives
  <1> QED
    BY <1>1, <1>5, <1>13 DEF n, Q

-----------------------------------------------------------------------------
(* What is done to a view keeps it sound.                                  *)

(* The tail of a section follows the row that announces it.                *)
LEMMA SectionIsSound ==
  ASSUME NEW v \in SearchViews, ViewIsSound(v), NEW of \in Capabilities, NEW items \in Seq(ActionLists)
  PROVE  /\ ViewIsSound(AppendSection(v, of, items))
         /\ AppendSection(v, of, items).queue = v.queue
         /\ AppendSection(v, of, items).selected = v.selected
         /\ AppendSection(v, of, items).panel = v.panel
  <1> DEFINE usable == Usable(items)
             n == Len(usable)
             head == IF n > MaxSectionItems + 1 THEN MaxSectionItems ELSE n
             first == SubSeq(usable, 1, head)
             tail == SubSeq(usable, head + 1, n)
             t == n - head
             announce == [kind |-> "ShowMore", of |-> of, tail |-> Len(tail)]
             more == IF tail = <<>> THEN <<>> ELSE <<announce>>
             a == ItemRows(of, first)
             c == ItemRows(of, tail)
             r == Len(v.rows)
             start == r + head + Len(more)
             rows == v.rows \o a \o more \o c
             hid == v.hidden \cup (start + 1)..(start + Len(tail))
             w == [v EXCEPT !.rows = rows, !.hidden = hid]
  <1>1. AppendSection(v, of, items) = w
    BY DEF AppendSection
  <1>2. v.rows \in Seq(ResultRows) /\ r \in Nat /\ v.hidden \in SUBSET Nat
    BY DEF SearchViews
  <1>3. usable \in Seq(ActionLists) /\ n \in Nat
    BY UsableType
  <1>4. head \in 0..n /\ t \in Nat
    BY <1>3, SearchListAssumption
  <1> HIDE DEF usable, n, head
  <1>5. first \in Seq(ActionLists) /\ Len(first) = head
    BY <1>3, <1>4, SliceIs DEF n
  <1>6. tail \in Seq(ActionLists) /\ Len(tail) = t
    BY <1>3, <1>4, SliceIs DEF n
  <1> HIDE DEF first, tail
  <1>7. tail = <<>> <=> t = 0
    <2> HIDE DEF t
    <2>1. tail = <<>> => Len(tail) = 0
      OBVIOUS
    <2>2. Len(tail) = 0 => tail = <<>>
      BY <1>6
    <2> QED
      BY <1>6, <2>1, <2>2
  <1>8. a \in Seq(ResultRows) /\ Len(a) = head /\ \A i \in 1..head : a[i].kind = "Item"
    <2>1. DOMAIN first = 1..head /\ \A i \in 1..head : first[i] \in ActionLists
      BY <1>5
    <2>2. a = [i \in 1..head |-> ItemRow(of, first[i])]
      BY <2>1 DEF ItemRows
    <2>3. \A i \in 1..head : ItemRow(of, first[i]) \in ResultRows /\ ItemRow(of, first[i]).kind = "Item"
      BY <2>1 DEF ItemRow, ResultRows
    <2> QED
      BY <1>4, <2>2, <2>3
  <1>9. /\ c \in Seq(ResultRows) /\ Len(c) = t /\ \A i \in 1..t : c[i].kind = "Item" /\ c[i].of = of
    <2>1. DOMAIN tail = 1..t /\ \A i \in 1..t : tail[i] \in ActionLists
      BY <1>6
    <2>2. c = [i \in 1..t |-> ItemRow(of, tail[i])]
      BY <2>1 DEF ItemRows
    <2>3. \A i \in 1..t : /\ ItemRow(of, tail[i]) \in ResultRows
                          /\ ItemRow(of, tail[i]).kind = "Item" /\ ItemRow(of, tail[i]).of = of
      BY <2>1 DEF ItemRow, ResultRows
    <2> QED
      BY <1>4, <2>2, <2>3
  <1>10. t # 0 => announce \in ResultRows
    BY <1>4, <1>6 DEF ResultRows
  <1> HIDE DEF a, c, t, announce
  <1>11. /\ more \in Seq(ResultRows) /\ Len(more) = IF t = 0 THEN 0 ELSE 1
         /\ t # 0 => more[1] = announce
    BY <1>7, <1>10
  <1> HIDE DEF more, r
  <1> DEFINE x == v.rows \o a
             y == x \o more
  <1>12. /\ x \in Seq(ResultRows) /\ Len(x) = r + head
         /\ \A i \in 1..r : x[i] = v.rows[i]
         /\ \A i \in (r + 1)..(r + head) : x[i].kind = "Item"
    <2>1. /\ x \in Seq(ResultRows) /\ Len(x) = r + head
          /\ \A i \in 1..r : x[i] = v.rows[i]
          /\ \A i \in (r + 1)..(r + head) : x[i] = a[i - r]
      BY <1>2, <1>8, ConcatIs DEF r
    <2>2. \A i \in (r + 1)..(r + head) : i - r \in 1..head
      BY <1>2, <1>4
    <2> QED
      BY <1>8, <2>1, <2>2
  <1> HIDE DEF x
  <1>13. /\ y \in Seq(ResultRows) /\ Len(y) = start
         /\ \A i \in 1..(r + head) : y[i] = x[i]
         /\ t # 0 => start = r + head + 1 /\ y[start] = announce
    <2>1. /\ y \in Seq(ResultRows) /\ Len(y) = Len(x) + Len(more)
          /\ \A i \in 1..Len(x) : y[i] = x[i]
          /\ \A i \in (Len(x) + 1)..(Len(x) + Len(more)) : y[i] = more[i - Len(x)]
      BY <1>11, <1>12, ConcatIs
    <2>2. ASSUME t # 0 PROVE start = r + head + 1 /\ y[start] = announce
      <3>1. Len(more) = 1 /\ more[1] = announce
        BY <1>11, <2>2
      <3>2. start = r + head + 1 /\ start \in (Len(x) + 1)..(Len(x) + Len(more)) /\ start - Len(x) = 1
        BY <1>2, <1>4, <1>12, <3>1
      <3> QED
        BY <2>1, <3>1, <3>2
    <2> QED
      BY <1>12, <2>1, <2>2
  <1> HIDE DEF y
  <1>14. start \in Nat /\ start >= r + head /\ start <= r + head + 1 /\ r + head \in Nat /\ (start > r + head => t # 0)
    BY <1>2, <1>4, <1>11
  <1> HIDE DEF start
  <1>15. /\ rows \in Seq(ResultRows) /\ Len(rows) = start + t
         /\ \A i \in 1..start : rows[i] = y[i]
         /\ \A i \in (start + 1)..(start + t) : rows[i].kind = "Item" /\ rows[i].of = of
    <2>1. rows = y \o c
      BY DEF y, x
    <2>2. /\ y \o c \in Seq(ResultRows) /\ Len(y \o c) = start + t
          /\ \A i \in 1..start : (y \o c)[i] = y[i]
          /\ \A i \in (start + 1)..(start + t) : (y \o c)[i] = c[i - start]
      <3>1. y \in Seq(ResultRows) /\ c \in Seq(ResultRows) /\ Len(y) = start /\ Len(c) = t
        BY <1>9, <1>13
      <3> HIDE DEF c
      <3>2. /\ y \o c \in Seq(ResultRows) /\ Len(y \o c) = Len(y) + Len(c)
            /\ \A i \in 1..Len(y) : (y \o c)[i] = y[i]
            /\ \A i \in (Len(y) + 1)..(Len(y) + Len(c)) : (y \o c)[i] = c[i - Len(y)]
        BY <3>1, ConcatIs
      <3> QED
        BY <3>1, <3>2
    <2>3. \A i \in (start + 1)..(start + t) : i - start \in 1..t
      BY <1>4, <1>14
    <2> HIDE DEF rows, c
    <2>4. ASSUME NEW i \in (start + 1)..(start + t)
          PROVE  (y \o c)[i].kind = "Item" /\ (y \o c)[i].of = of
      <3>1. (y \o c)[i] = c[i - start]
        BY <2>2
      <3>2. i - start \in 1..t
        BY <2>3
      <3>3. \A k \in 1..t : c[k].kind = "Item" /\ c[k].of = of
        BY <1>9
      <3> QED
        BY <3>1, <3>2, <3>3
    <2> QED
      BY <2>1, <2>2, <2>4
  <1> HIDE DEF rows
  <1>16. /\ \A i \in 1..r : rows[i] = v.rows[i] /\ i \in 1..Len(rows)
         /\ \A i \in (r + 1)..(r + head) : rows[i].kind = "Item"
         /\ t # 0 => rows[start] = announce
    <2>1. \A i \in 1..r : i \in 1..(r + head) /\ i \in 1..start /\ i \in 1..Len(rows)
      BY <1>2, <1>4, <1>14, <1>15
    <2>2. \A i \in (r + 1)..(r + head) : i \in 1..(r + head) /\ i \in 1..start
      BY <1>2, <1>4, <1>14
    <2>3. t # 0 => start \in 1..start
      BY <1>2, <1>4, <1>13, <1>14
    <2> QED
      BY <1>12, <1>13, <1>15, <2>1, <2>2, <2>3
  <1>17. hid \in SUBSET (1..Len(rows)) /\ \A i \in hid : i \in v.hidden \/ i \in (start + 1)..(start + t)
    <2>1. v.hidden \subseteq 1..r
      BY DEF ViewIsSound, RowsAreSound, r
    <2>2. \A i \in (start + 1)..(start + t) : i \in 1..Len(rows)
      BY <1>4, <1>14, <1>15
    <2>3. \A i \in v.hidden : i \in 1..Len(rows)
      BY <1>16, <2>1
    <2> QED
      BY <1>6, <2>2, <2>3
  <1> HIDE DEF hid
  <1>18. /\ w \in SearchViews /\ w.rows = rows /\ w.hidden = hid
         /\ w.queue = v.queue /\ w.selected = v.selected /\ w.panel = v.panel
    <2>1. hid \in SUBSET Nat
      BY <1>15, <1>17
    <2> QED
      BY <1>15, <2>1 DEF SearchViews
  <1> HIDE DEF w
  <1>19. \A i \in VisibleRows(v) : i \in 1..r /\ i \in VisibleRows(w) /\ w.rows[i] = v.rows[i]
    <2> SUFFICES ASSUME NEW i \in VisibleRows(v) PROVE i \in 1..r /\ i \in VisibleRows(w) /\ w.rows[i] = v.rows[i]
      OBVIOUS
    <2>1. i \in 1..r /\ i \notin v.hidden
      BY <1>2 DEF VisibleRows, r
    <2>2. i \notin (start + 1)..(start + t)
      BY <1>2, <1>4, <1>14, <2>1
    <2>3. i \in 1..Len(rows) /\ i \notin hid
      BY <1>16, <1>17, <2>1, <2>2
    <2>4. i \in VisibleRows(w)
      BY <1>15, <1>18, <2>3 DEF VisibleRows
    <2> QED
      BY <1>16, <1>18, <2>1, <2>4
  <1>20. \A j \in 1..Len(w.rows) : w.rows[j].kind = "ShowMore" => j + w.rows[j].tail <= Len(w.rows)
    <2> SUFFICES ASSUME NEW j \in 1..Len(rows), rows[j].kind = "ShowMore" PROVE j + rows[j].tail <= Len(rows)
      BY <1>18
    <2>0. j \in 1..r \/ j \in (r + 1)..(r + head) \/ j = start \/ j \in (start + 1)..(start + t)
      BY <1>2, <1>4, <1>14, <1>15
    <2>1. CASE j \in 1..r
      <3>1. rows[j] = v.rows[j]
        BY <1>16, <2>1
      <3>2. j + v.rows[j].tail <= r
        BY <2>1, <3>1 DEF ViewIsSound, RowsAreSound, r
      <3>3. v.rows[j] \in ResultRows
        BY <1>2, <2>1 DEF r
      <3>4. v.rows[j].tail \in Nat
        BY <3>1, <3>3 DEF ResultRows
      <3> QED
        BY <1>2, <1>4, <1>14, <1>15, <3>1, <3>2, <3>4
    <2>2. CASE j = start /\ j \notin 1..(r + head)
      <3>1. t # 0
        BY <1>2, <1>4, <1>14, <2>2
      <3>2. rows[j] = announce
        BY <1>16, <2>2, <3>1
      <3>3. rows[j].tail = t
        BY <1>6, <3>2 DEF announce
      <3> QED
        BY <1>15, <2>2, <3>3
    <2>3. j \notin (r + 1)..(r + head)
      BY <1>16
    <2>4. j \notin (start + 1)..(start + t)
      BY <1>15
    <2>5. j \in 1..(r + head) => j \in 1..r \/ j \in (r + 1)..(r + head)
      BY <1>2, <1>4
    <2> QED
      BY <2>0, <2>1, <2>2, <2>3, <2>4, <2>5
  <1>21. \A i \in w.hidden : w.rows[i].kind = "Item" => Announced(w, i)
    <2> SUFFICES ASSUME NEW i \in hid, rows[i].kind = "Item" PROVE Announced(w, i)
      BY <1>18
    <2>1. CASE i \in v.hidden
      <3>1. i \in 1..r
        BY <2>1 DEF ViewIsSound, RowsAreSound, r
      <3>2. rows[i] = v.rows[i]
        BY <1>16, <3>1
      <3>3. Announced(v, i)
        BY <2>1, <3>2 DEF ViewIsSound, RowsAreSound
      <3>4. PICK j \in VisibleRows(v) : /\ v.rows[j].kind = "ShowMore"
                                        /\ i \in (j + 1)..(j + v.rows[j].tail)
                                        /\ v.rows[j].of = v.rows[i].of
        BY <3>3 DEF Announced
      <3>5. j \in VisibleRows(w) /\ w.rows[j] = v.rows[j]
        BY <1>19
      <3> QED
        BY <1>18, <3>2, <3>4, <3>5 DEF Announced
    <2>2. CASE i \in (start + 1)..(start + t) /\ i \notin v.hidden
      <3>1. t # 0 /\ start \notin v.hidden
        <4>1. t # 0 /\ start > r
          BY <1>2, <1>4, <1>13, <1>14, <2>2
        <4>2. v.hidden \subseteq 1..r
          BY DEF ViewIsSound, RowsAreSound, r
        <4> QED
          BY <1>2, <1>14, <4>1, <4>2
      <3>2. start \in 1..Len(rows) /\ start \notin hid
        <4>1. start \in 1..Len(rows) /\ start \notin (start + 1)..(start + t)
          BY <1>2, <1>4, <1>13, <1>14, <1>15, <3>1
        <4> QED
          BY <1>17, <3>1, <4>1
      <3>3. start \in VisibleRows(w)
        BY <1>15, <1>18, <3>2 DEF VisibleRows
      <3>4. w.rows[start].kind = "ShowMore" /\ w.rows[start].tail = t /\ w.rows[start].of = of
        BY <1>6, <1>16, <1>18, <3>1 DEF announce
      <3>5. w.rows[i].of = of
        BY <1>15, <1>18, <2>2
      <3> QED
        BY <2>2, <3>3, <3>4, <3>5 DEF Announced
    <2> QED
      BY <1>17, <2>1, <2>2
  <1>22. RowsAreSound(w)
    <2>1. w.selected # 0 => w.selected \in VisibleRows(w)
      BY <1>18, <1>19 DEF ViewIsSound, RowsAreSound
    <2> QED
      BY <1>17, <1>18, <1>20, <1>21, <2>1 DEF RowsAreSound
  <1>23. PanelIsSound(w)
    <2> SUFFICES ASSUME IsActionPanelOpen(w) PROVE PanelIsSound(w)
      BY DEF PanelIsSound
    <2>1. IsActionPanelOpen(v)
      BY <1>18 DEF IsActionPanelOpen
    <2>2. /\ v.panel.row \in VisibleRows(v)
          /\ v.rows[v.panel.row] = ItemRow(v.panel.of, v.panel.actions)
          /\ v.panel.at \in DOMAIN v.panel.actions
      BY <2>1 DEF ViewIsSound, PanelIsSound
    <2> QED
      BY <1>18, <1>19, <2>2 DEF PanelIsSound
  <1> QED
    BY <1>1, <1>18, <1>22, <1>23 DEF ViewIsSound

LEMMA ChatActionIsSound ==
  ASSUME NEW v \in SearchViews, ViewIsSound(v)
  PROVE  /\ ViewIsSound(AppendChatAction(v))
         /\ AppendChatAction(v).queue = v.queue /\ AppendChatAction(v).selected = v.selected
         /\ AppendChatAction(v).panel = v.panel
  <1> DEFINE w == AppendChatAction(v)
             chat == [kind |-> "Chat"]
             rows == Append(v.rows, chat)
  <1>1. v.rows \in Seq(ResultRows) /\ Len(v.rows) \in Nat /\ v.hidden \in SUBSET Nat
    BY DEF SearchViews
  <1>2. chat \in ResultRows
    BY DEF ResultRows
  <1>3. /\ rows \in Seq(ResultRows) /\ Len(rows) = Len(v.rows) + 1 /\ rows[Len(v.rows) + 1] = chat
        /\ \A i \in 1..Len(v.rows) : rows[i] = v.rows[i] /\ i \in 1..Len(rows)
    BY <1>1, <1>2
  <1>4. w = [v EXCEPT !.rows = rows]
    BY DEF AppendChatAction
  <1> HIDE DEF rows
  <1>5. /\ w \in SearchViews /\ w.rows = rows /\ w.hidden = v.hidden
        /\ w.queue = v.queue /\ w.selected = v.selected /\ w.panel = v.panel
    BY <1>3, <1>4 DEF SearchViews
  <1> HIDE DEF w
  <1>6. \A i \in VisibleRows(v) : i \in 1..Len(v.rows) /\ i \in VisibleRows(w) /\ w.rows[i] = v.rows[i]
    <2> SUFFICES ASSUME NEW i \in VisibleRows(v)
                 PROVE  i \in 1..Len(v.rows) /\ i \in VisibleRows(w) /\ w.rows[i] = v.rows[i]
      OBVIOUS
    <2>1. i \in 1..Len(v.rows) /\ i \notin v.hidden
      BY <1>1 DEF VisibleRows
    <2>2. i \in VisibleRows(w)
      BY <1>3, <1>5, <2>1 DEF VisibleRows
    <2> QED
      BY <1>3, <1>5, <2>1, <2>2
  <1>7. v.hidden \subseteq 1..Len(v.rows)
    BY DEF ViewIsSound, RowsAreSound
  <1>8. \A j \in 1..Len(w.rows) : w.rows[j].kind = "ShowMore" => j + w.rows[j].tail <= Len(w.rows)
    <2> SUFFICES ASSUME NEW j \in 1..Len(rows), rows[j].kind = "ShowMore" PROVE j + rows[j].tail <= Len(rows)
      BY <1>5
    <2>1. j # Len(v.rows) + 1
      BY <1>3
    <2>2. j \in 1..Len(v.rows)
      BY <1>1, <1>3, <2>1
    <2>3. rows[j] = v.rows[j] /\ v.rows[j] \in ResultRows
      BY <1>1, <1>3, <2>2
    <2>4. v.rows[j].tail \in Nat /\ j + v.rows[j].tail <= Len(v.rows)
      <3>1. v.rows[j].tail \in Nat
        BY <2>3 DEF ResultRows
      <3>2. j + v.rows[j].tail <= Len(v.rows)
        BY <2>2, <2>3 DEF ViewIsSound, RowsAreSound
      <3> QED
        BY <3>1, <3>2
    <2> QED
      BY <1>1, <1>3, <2>2, <2>3, <2>4
  <1>9. ASSUME NEW i \in w.hidden, w.rows[i].kind = "Item" PROVE Announced(w, i)
    <2>1. i \in v.hidden /\ i \in 1..Len(v.rows)
      BY <1>5, <1>7
    <2>2. w.rows[i] = v.rows[i]
      BY <1>3, <1>5, <2>1
    <2>3. Announced(v, i)
      BY <1>9, <2>1, <2>2 DEF ViewIsSound, RowsAreSound
    <2> QED
      BY <1>6, <2>2, <2>3 DEF Announced
  <1>10. RowsAreSound(w)
    <2>1. w.selected # 0 => w.selected \in VisibleRows(w)
      BY <1>5, <1>6 DEF ViewIsSound, RowsAreSound
    <2>2. w.hidden \subseteq 1..Len(w.rows)
      BY <1>3, <1>5, <1>7
    <2> QED
      BY <1>8, <1>9, <2>1, <2>2 DEF RowsAreSound
  <1>11. PanelIsSound(w)
    <2>1. IsActionPanelOpen(w) = IsActionPanelOpen(v)
      BY <1>5 DEF IsActionPanelOpen
    <2> QED
      BY <1>5, <1>6, <2>1 DEF ViewIsSound, PanelIsSound
  <1> QED
    BY <1>5, <1>10, <1>11 DEF ViewIsSound, w

(* The panel is closed before the rows go.                                 *)
LEMMA ClosedIsSound ==
  ASSUME NEW v \in SearchViews, ViewIsSound(v)
  PROVE  LET w == ClosePanel(v)
         IN  /\ ViewIsSound(w) /\ ~IsActionPanelOpen(w) /\ w.selected = v.selected
             /\ w.queue = IF IsActionPanelOpen(v) THEN Append(v.queue, [msg |-> "PanelClosed"]) ELSE v.queue
  <1> DEFINE closed == [v EXCEPT !.panel.open = FALSE]
             m == [msg |-> "PanelClosed"]
             w == ClosePanel(v)
  <1>1. CASE ~IsActionPanelOpen(v)
    <2>1. w = v
      BY <1>1 DEF ClosePanel
    <2> QED
      BY <1>1, <2>1
  <1>2. CASE IsActionPanelOpen(v)
    <2>1. m \in LauncherMsgs
      BY DEF LauncherMsgs
    <2>2. v.panel \in ActionPanels /\ v.queue \in Seq(LauncherMsgs)
      BY <1>2 DEF SearchViews, IsActionPanelOpen
    <2>3. Append(v.queue, m) \in Seq(LauncherMsgs)
      BY <2>1, <2>2
    <2>4. w = [closed EXCEPT !.queue = Append(@, m)]
      BY <1>2 DEF ClosePanel, Queue
    <2>5. /\ closed.panel = [v.panel EXCEPT !.open = FALSE] /\ closed.queue = v.queue
          /\ closed.rows = v.rows /\ closed.hidden = v.hidden /\ closed.selected = v.selected
          /\ closed.strays = v.strays
      BY DEF SearchViews
    <2>6. [v.panel EXCEPT !.open = FALSE] \in ActionPanels /\ [v.panel EXCEPT !.open = FALSE].open = FALSE
      BY <2>2 DEF ActionPanels
    <2>7. closed \in SearchViews
      BY <2>6 DEF SearchViews
    <2> HIDE DEF closed, m
    <2>8. /\ w \in SearchViews /\ w.panel = closed.panel /\ w.queue = Append(v.queue, m)
          /\ w.rows = v.rows /\ w.hidden = v.hidden /\ w.selected = v.selected
      BY <2>3, <2>4, <2>5, <2>7 DEF SearchViews
    <2> HIDE DEF w
    <2>9. ~IsActionPanelOpen(w)
      BY <2>5, <2>6, <2>8 DEF IsActionPanelOpen
    <2>10. RowsAreSound(w)
      BY <2>8 DEF ViewIsSound, RowsAreSound, VisibleRows, Announced
    <2>11. ViewIsSound(w)
      BY <2>8, <2>9, <2>10 DEF ViewIsSound, PanelIsSound
    <2> QED
      BY <1>2, <2>8, <2>9, <2>11 DEF m, w
  <1> QED
    BY <1>1, <1>2

LEMMA LetGoIsSound ==
  ASSUME NEW v \in SearchViews, ViewIsSound(v), ~IsActionPanelOpen(v)
  PROVE  /\ ViewIsSound(LetGo(v)) /\ ~IsActionPanelOpen(LetGo(v))
         /\ LetGo(v).queue = v.queue /\ LetGo(v).selected = v.selected
  <1> DEFINE w == LetGo(v)
  <1>1. w = [v EXCEPT !.panel = NoPanel, !.strays = v.strays]
    BY DEF LetGo
  <1>2. /\ w \in SearchViews /\ w.panel = NoPanel /\ w.queue = v.queue
        /\ w.rows = v.rows /\ w.hidden = v.hidden /\ w.selected = v.selected
    BY <1>1 DEF SearchViews
  <1> HIDE DEF w
  <1>3. ~IsActionPanelOpen(w)
    BY <1>2 DEF IsActionPanelOpen
  <1>4. RowsAreSound(w)
    BY <1>2 DEF ViewIsSound, RowsAreSound, VisibleRows, Announced
  <1>5. ViewIsSound(w)
    BY <1>2, <1>3, <1>4 DEF ViewIsSound, PanelIsSound
  <1> QED
    BY <1>2, <1>3, <1>5 DEF w

LEMMA ClearedIsSound ==
  ASSUME NEW v \in SearchViews, ViewIsSound(v)
  PROVE  LET w == ClearResults(v)
         IN  /\ ViewIsSound(w) /\ ~IsActionPanelOpen(w) /\ w.selected = 0
             /\ w.queue = IF IsActionPanelOpen(v) THEN Append(v.queue, [msg |-> "PanelClosed"]) ELSE v.queue
  <1> DEFINE w == ClearResults(v)
             u == ClosePanel(v)
             x == LetGo(u)
  <1>1. /\ ViewIsSound(u) /\ ~IsActionPanelOpen(u)
        /\ u.queue = IF IsActionPanelOpen(v) THEN Append(v.queue, [msg |-> "PanelClosed"]) ELSE v.queue
    BY ClosedIsSound
  <1> HIDE DEF u
  <1>2. ViewIsSound(x) /\ ~IsActionPanelOpen(x) /\ x.queue = u.queue
    <2>1. u \in SearchViews
      BY <1>1 DEF ViewIsSound
    <2> QED
      BY <1>1, <2>1, LetGoIsSound
  <1>3. w = [x EXCEPT !.rows = <<>>, !.hidden = {}, !.selected = 0]
    BY DEF ClearResults, u
  <1> HIDE DEF x
  <1>4. x \in SearchViews
    BY <1>2 DEF ViewIsSound
  <1>5. /\ w \in SearchViews /\ w.rows = <<>> /\ w.hidden = {} /\ w.selected = 0
        /\ w.panel = x.panel /\ w.queue = x.queue
    <2> HIDE DEF w
    <2>1. <<>> \in Seq(ResultRows) /\ {} \in SUBSET Nat /\ 0 \in Nat
      OBVIOUS
    <2>2. /\ x.panel \in ActionPanels \cup {NoPanel} /\ x.strays \in {0} /\ x.queue \in Seq(LauncherMsgs)
          /\ w = [rows |-> <<>>, hidden |-> {}, selected |-> 0, panel |-> x.panel, strays |-> x.strays, queue |-> x.queue]
      BY <1>3, <1>4 DEF SearchViews
    <2> QED
      BY <2>1, <2>2 DEF SearchViews
  <1> HIDE DEF w
  <1>6. ~IsActionPanelOpen(w)
    BY <1>2, <1>5 DEF IsActionPanelOpen
  <1>7. RowsAreSound(w)
    BY <1>5 DEF RowsAreSound
  <1>8. ViewIsSound(w)
    BY <1>5, <1>6, <1>7 DEF ViewIsSound, PanelIsSound
  <1> QED
    BY <1>1, <1>2, <1>5, <1>6, <1>8 DEF w

(* A panel opens on the row that is selected.                              *)
LEMMA OpenedIsSound ==
  ASSUME NEW v \in SearchViews, ViewIsSound(v)
  PROVE  LET w == OpenActionPanel(v)
         IN  /\ ViewIsSound(w) /\ w.selected = v.selected /\ w.queue = v.queue
             /\ w = v \/ (v.selected # 0 /\ ~IsActionPanelOpen(v))
  <1> DEFINE w == OpenActionPanel(v)
             row == v.rows[v.selected]
             panel == [row |-> v.selected, of |-> row.of, actions |-> row.actions, at |-> 1, open |-> TRUE]
  <1>1. CASE w = v
    BY <1>1
  <1>2. CASE w # v
    <2>1. /\ ~IsActionPanelOpen(v) /\ v.selected # 0 /\ row.kind = "Item" /\ ~(Len(row.actions) < 2)
          /\ w = [v EXCEPT !.panel = panel]
      BY <1>2 DEF OpenActionPanel
    <2>2. v.rows \in Seq(ResultRows) /\ v.selected \in Nat
      BY DEF SearchViews
    <2>3. v.selected \in VisibleRows(v)
      BY <2>1 DEF ViewIsSound, RowsAreSound
    <2>4. v.selected \in 1..Len(v.rows)
      BY <2>2, <2>3 DEF VisibleRows
    <2>5. row \in ResultRows
      BY <2>2, <2>4
    <2> HIDE DEF row
    <2>6. row.of \in Capabilities /\ row.actions \in ActionLists /\ row = ItemRow(row.of, row.actions)
      BY <2>1, <2>5 DEF ResultRows, ItemRow
    <2>7. panel \in ActionPanels /\ panel.row = v.selected /\ panel.of = row.of /\ panel.actions = row.actions /\ panel.at = 1
      BY <2>2, <2>6 DEF ActionPanels
    <2>8. 1 \in DOMAIN row.actions
      BY <2>1, <2>6 DEF ActionLists
    <2> HIDE DEF panel
    <2>9. /\ w \in SearchViews /\ w.panel = panel /\ w.queue = v.queue
          /\ w.rows = v.rows /\ w.hidden = v.hidden /\ w.selected = v.selected
      BY <2>1, <2>7 DEF SearchViews
    <2> HIDE DEF w
    <2>10. RowsAreSound(w) /\ VisibleRows(w) = VisibleRows(v)
      BY <2>9 DEF ViewIsSound, RowsAreSound, VisibleRows, Announced
    <2>11. w.rows[v.selected] = ItemRow(panel.of, panel.actions)
      BY <2>6, <2>7, <2>9 DEF row
    <2>12. PanelIsSound(w)
      BY <2>3, <2>7, <2>8, <2>9, <2>10, <2>11 DEF PanelIsSound
    <2>13. ViewIsSound(w)
      BY <2>9, <2>10, <2>12 DEF ViewIsSound
    <2> QED
      BY <2>1, <2>9, <2>13 DEF w
  <1> QED
    BY <1>1, <1>2

(* Selecting a row that is visible, or the row that gives way.             *)
LEMMA SelectedIsSound ==
  ASSUME NEW v \in SearchViews, ViewIsSound(v), NEW i \in VisibleRows(v)
  PROVE  LET w == [v EXCEPT !.selected = i]
         IN  /\ ViewIsSound(w) /\ w.queue = v.queue /\ w.panel = v.panel /\ w.selected = i
             /\ VisibleRows(w) = VisibleRows(v) /\ w.rows = v.rows
  <1> DEFINE w == [v EXCEPT !.selected = i]
  <1>1. v.rows \in Seq(ResultRows)
    BY DEF SearchViews
  <1>2. i \in Nat
    BY <1>1 DEF VisibleRows
  <1>3. /\ w \in SearchViews /\ w.panel = v.panel /\ w.queue = v.queue
        /\ w.rows = v.rows /\ w.hidden = v.hidden /\ w.selected = i
    BY <1>2 DEF SearchViews
  <1> HIDE DEF w
  <1>4. VisibleRows(w) = VisibleRows(v)
    BY <1>3 DEF VisibleRows
  <1>5. RowsAreSound(w)
    BY <1>3, <1>4 DEF ViewIsSound, RowsAreSound, Announced
  <1>6. PanelIsSound(w)
    BY <1>3, <1>4 DEF ViewIsSound, PanelIsSound, IsActionPanelOpen
  <1> QED
    BY <1>3, <1>4, <1>5, <1>6 DEF ViewIsSound, w

LEMMA ExpandedIsSound ==
  ASSUME NEW v \in SearchViews, ViewIsSound(v), ~IsActionPanelOpen(v),
         NEW i \in VisibleRows(v), v.rows[i].kind = "ShowMore"
  PROVE  LET w == Expand(v, i)
         IN  ViewIsSound(w) /\ w.queue = v.queue /\ w.panel = v.panel
  <1> DEFINE w == Expand(v, i)
             t == v.rows[i].tail
             hid == (v.hidden \cup {i}) \ (i + 1)..(i + t)
  <1>1. v.rows \in Seq(ResultRows) /\ v.hidden \in SUBSET Nat /\ Len(v.rows) \in Nat
    BY DEF SearchViews
  <1>2. i \in 1..Len(v.rows) /\ i \notin v.hidden /\ i \in Nat
    BY <1>1 DEF VisibleRows
  <1>3. v.rows[i] \in ResultRows
    BY <1>1, <1>2
  <1>4. t \in Nat \ {0}
    BY <1>3 DEF ResultRows
  <1>5. i + t <= Len(v.rows) /\ v.hidden \subseteq 1..Len(v.rows)
    BY <1>2 DEF ViewIsSound, RowsAreSound
  <1>6. w = [v EXCEPT !.hidden = hid, !.selected = i + 1]
    BY DEF Expand
  <1> HIDE DEF t
  <1>7. hid \in SUBSET Nat /\ hid \subseteq 1..Len(v.rows)
    BY <1>1, <1>2, <1>5
  <1>8. i + 1 \in 1..Len(v.rows) /\ i + 1 \notin hid /\ i + 1 \in Nat
    BY <1>1, <1>2, <1>4, <1>5
  <1> HIDE DEF hid
  <1>9. /\ w \in SearchViews /\ w.panel = v.panel /\ w.queue = v.queue
        /\ w.rows = v.rows /\ w.hidden = hid /\ w.selected = i + 1
    BY <1>6, <1>7, <1>8 DEF SearchViews
  <1> HIDE DEF w
  <1>10. i + 1 \in VisibleRows(w)
    BY <1>1, <1>8, <1>9 DEF VisibleRows
  <1>11. ASSUME NEW k \in hid, v.rows[k].kind = "Item" PROVE Announced(w, k)
    <2>1. k # i /\ k \in v.hidden /\ k \notin (i + 1)..(i + t)
      BY <1>11 DEF hid
    <2>2. PICK j \in VisibleRows(v) : /\ v.rows[j].kind = "ShowMore"
                                      /\ k \in (j + 1)..(j + v.rows[j].tail)
                                      /\ v.rows[j].of = v.rows[k].of
      BY <1>11, <2>1 DEF ViewIsSound, RowsAreSound, Announced
    <2>3. j # i
      BY <2>1, <2>2 DEF t
    <2>4. j \in DOMAIN v.rows /\ j \notin hid
      BY <2>2, <2>3 DEF VisibleRows, hid
    <2>5. j \in VisibleRows(w)
      BY <1>9, <2>4 DEF VisibleRows
    <2> QED
      BY <1>9, <2>2, <2>5 DEF Announced
  <1>12. \A j \in 1..Len(v.rows) : v.rows[j].kind = "ShowMore" => j + v.rows[j].tail <= Len(v.rows)
    BY DEF ViewIsSound, RowsAreSound
  <1>13. RowsAreSound(w)
    BY <1>7, <1>9, <1>10, <1>11, <1>12 DEF RowsAreSound
  <1>14. PanelIsSound(w)
    <2>1. ~IsActionPanelOpen(w)
      BY <1>9 DEF IsActionPanelOpen
    <2> QED
      BY <2>1 DEF PanelIsSound
  <1> QED
    BY <1>9, <1>13, <1>14 DEF ViewIsSound, w

-----------------------------------------------------------------------------
(* The steps.                                                              *)
LEMMA SearchListInitOK == SearchListInit => SearchListInv
  <1> SUFFICES ASSUME SearchListInit PROVE SearchListInv
    OBVIOUS
  <1>1. card = NewView /\ looping = FALSE /\ query = 0 /\ searches = {}
    BY DEF SearchListInit, SearchListRest
  <1>2. NewView \in SearchViews
    <2>1. <<>> \in Seq(ResultRows) /\ <<>> \in Seq(LauncherMsgs)
      OBVIOUS
    <2> QED
      BY <2>1 DEF NewView, SearchViews
  <1>3. ~IsActionPanelOpen(NewView)
    BY DEF IsActionPanelOpen, NewView
  <1>4. RowsAreSound(NewView)
    BY DEF RowsAreSound, NewView
  <1>5. QueueIsSound(NewView, FALSE)
    <2>1. NewView.queue = <<>>
      BY DEF NewView
    <2>2. ClosedFirst(<<>>)
      BY DEF ClosedFirst
    <2> QED
      BY <1>3, <2>1, <2>2 DEF QueueIsSound
  <1> QED
    BY <1>1, <1>2, <1>3, <1>4, <1>5 DEF SearchListInv, ViewIsSound, PanelIsSound

(* A message that is queued, where no panel opens or closes.               *)
LEMMA QueuedIsSound ==
  ASSUME NEW v \in SearchViews, ViewIsSound(v), NEW loop \in BOOLEAN, QueueIsSound(v, loop),
         NEW m \in LauncherMsgs, m.msg # "PanelClosed", IsActionPanelOpen(v) => m.msg # "OpenPanel"
  PROVE  ViewIsSound(Queue(v, m)) /\ QueueIsSound(Queue(v, m), loop)
  <1> DEFINE w == Queue(v, m)
  <1>1. v.queue \in Seq(LauncherMsgs)
    BY DEF SearchViews
  <1>2. /\ Append(v.queue, m) \in Seq(LauncherMsgs)
        /\ ClosedFree(v.queue) => ClosedFree(Append(v.queue, m))
        /\ OpenFree(v.queue) /\ m.msg # "OpenPanel" => OpenFree(Append(v.queue, m))
        /\ ClosedFirst(v.queue) => ClosedFirst(Append(v.queue, m))
    BY <1>1, AppendKeepsOrder
  <1>3. /\ w \in SearchViews /\ w.queue = Append(v.queue, m) /\ w.panel = v.panel
        /\ w.rows = v.rows /\ w.hidden = v.hidden /\ w.selected = v.selected
    BY <1>2 DEF Queue, SearchViews
  <1> HIDE DEF w
  <1>4. IsActionPanelOpen(w) <=> IsActionPanelOpen(v)
    BY <1>3 DEF IsActionPanelOpen
  <1>5. VisibleRows(w) = VisibleRows(v)
    BY <1>3 DEF VisibleRows
  <1>6. ViewIsSound(w)
    <2>1. RowsAreSound(w)
      BY <1>3, <1>5 DEF ViewIsSound, RowsAreSound, Announced
    <2>2. PanelIsSound(w)
      BY <1>3, <1>4, <1>5 DEF ViewIsSound, PanelIsSound
    <2> QED
      BY <1>3, <2>1, <2>2 DEF ViewIsSound
  <1>7. QueueIsSound(w, loop)
    BY <1>2, <1>3, <1>4 DEF QueueIsSound
  <1> QED
    BY <1>6, <1>7 DEF w

(* The loop handles a message: what it leaves of the queue.                *)
LEMMA LeftAreSound ==
  ASSUME NEW v \in SearchViews, ViewIsSound(v), NEW loop \in BOOLEAN, QueueIsSound(v, loop), v.queue # <<>>
  PROVE  LET q == Tail(v.queue)
             w == [v EXCEPT !.queue = q]
         IN  /\ ViewIsSound(w) /\ w.queue = q /\ w.selected = v.selected /\ w.panel = v.panel
             /\ IsActionPanelOpen(w) <=> IsActionPanelOpen(v)
             /\ IsActionPanelOpen(v) => ClosedFree(q)
             /\ ClosedFirst(q) \/ v.selected = 0
             /\ Head(v.queue) \in LauncherMsgs
             /\ Head(v.queue).msg = "PanelClosed" => ~IsActionPanelOpen(v)
             /\ Head(v.queue).msg = "OpenPanel" => ClosedFree(q) \/ v.selected = 0
  <1> DEFINE q == Tail(v.queue)
             w == [v EXCEPT !.queue = q]
  <1>1. v.queue \in Seq(LauncherMsgs)
    BY DEF SearchViews
  <1>2. /\ q \in Seq(LauncherMsgs) /\ Head(v.queue) \in LauncherMsgs
        /\ ClosedFree(v.queue) => ClosedFree(q)
        /\ ClosedFirst(v.queue) => ClosedFirst(q)
        /\ ClosedFirst(v.queue) /\ Head(v.queue).msg = "OpenPanel" => ClosedFree(q)
    BY <1>1, TailKeepsOrder
  <1>3. ClosedFree(v.queue) => Head(v.queue).msg # "PanelClosed"
    <2>1. Head(v.queue) = v.queue[1] /\ 1 \in 1..Len(v.queue)
      BY <1>1
    <2> QED
      BY <2>1 DEF ClosedFree
  <1> HIDE DEF q
  <1>4. /\ w \in SearchViews /\ w.queue = q /\ w.panel = v.panel
        /\ w.rows = v.rows /\ w.hidden = v.hidden /\ w.selected = v.selected
    BY <1>2 DEF SearchViews
  <1> HIDE DEF w
  <1>5. IsActionPanelOpen(w) <=> IsActionPanelOpen(v)
    BY <1>4 DEF IsActionPanelOpen
  <1>6. VisibleRows(w) = VisibleRows(v)
    BY <1>4 DEF VisibleRows
  <1>7. ViewIsSound(w)
    <2>1. RowsAreSound(w)
      BY <1>4, <1>6 DEF ViewIsSound, RowsAreSound, Announced
    <2>2. PanelIsSound(w)
      BY <1>4, <1>5, <1>6 DEF ViewIsSound, PanelIsSound
    <2> QED
      BY <1>4, <2>1, <2>2 DEF ViewIsSound
  <1>8. /\ IsActionPanelOpen(v) => ClosedFree(q)
        /\ ClosedFirst(q) \/ v.selected = 0
        /\ Head(v.queue).msg = "PanelClosed" => ~IsActionPanelOpen(v)
        /\ Head(v.queue).msg = "OpenPanel" => ClosedFree(q) \/ v.selected = 0
    BY <1>2, <1>3 DEF QueueIsSound
  <1> QED
    BY <1>2, <1>4, <1>5, <1>7, <1>8 DEF w, q

(* The loop goes on until the queue is empty.                              *)
LEMMA HandledIsSound ==
  ASSUME NEW w \in SearchViews, ViewIsSound(w), IsActionPanelOpen(w) => ClosedFree(w.queue),
         ClosedFirst(w.queue) \/ w.selected = 0
  PROVE  QueueIsSound(w, w.queue # <<>>)
  <1>1. w.queue = <<>> => ClosedFirst(w.queue) /\ OpenFree(w.queue)
    BY DEF ClosedFirst, OpenFree
  <1> QED
    BY <1>1 DEF QueueIsSound

LEMMA HandleSearchMsgOK ==
  ASSUME SearchListInv, HandleSearchMsg
  PROVE  SearchListInv'
  <1> DEFINE msg == Head(card.queue)
             q == Tail(card.queue)
             v == [card EXCEPT !.queue = q]
             w == card'
  <1>0. /\ ViewIsSound(card) /\ QueueIsSound(card, looping) /\ card \in SearchViews
        /\ looping \in BOOLEAN /\ query \in Nat /\ searches \in SUBSET SearchTasks
    BY DEF SearchListInv, ViewIsSound
  <1>1. /\ card.queue # <<>>
        /\ \/ msg.msg = "QueryChanged" /\ QueryChanged(v, msg.content)
           \/ msg.msg = "QueryEvent" /\ QueryEventReceived(v, msg)
           \/ msg.msg = "QueryFinished" /\ QueryFinished(v, msg)
           \/ msg.msg \in {"ResultAction", "Exit"} /\ Dismissed(v)
           \/ msg.msg = "OpenPanel" /\ OnlySee(OpenActionPanel(v))
           \/ msg.msg = "PanelClosed" /\ OnlySee(LetGo(v))
           \/ msg.msg = "Prompt" /\ OnlySee(v)
    BY DEF HandleSearchMsg
  <1>2. /\ ViewIsSound(v) /\ v.queue = q /\ v.selected = card.selected
        /\ IsActionPanelOpen(v) => ClosedFree(q)
        /\ ClosedFirst(q) \/ v.selected = 0
        /\ msg \in LauncherMsgs
        /\ msg.msg = "PanelClosed" => ~IsActionPanelOpen(v)
        /\ msg.msg = "OpenPanel" => ClosedFree(q) \/ v.selected = 0
    BY <1>0, <1>1, LeftAreSound
  <1> HIDE DEF msg, v, q
  <1>3. v \in SearchViews
    BY <1>2 DEF ViewIsSound
  <1>4. CASE \/ msg.msg = "QueryChanged" /\ QueryChanged(v, msg.content)
             \/ msg.msg \in {"ResultAction", "Exit"} /\ Dismissed(v)
             \/ msg.msg = "QueryFinished" /\ QueryFinished(v, msg) /\ msg.query = query /\ ~msg.found
    <2> DEFINE c == ClearResults(v)
    <2>1. LetSee(c)
      BY <1>4 DEF QueryChanged, Dismissed, QueryFinished, OnlySee
    <2>2. /\ ViewIsSound(c) /\ ~IsActionPanelOpen(c) /\ c.selected = 0
      BY <1>2, <1>3, ClearedIsSound
    <2>3. query' \in Nat /\ searches' \in SUBSET SearchTasks
      <3>1. CASE UNCHANGED <<query, searches>>
        BY <1>0, <3>1
      <3>2. CASE query' = query + 1 /\ UNCHANGED searches
        BY <1>0, <3>2
      <3>3. CASE QueryChanged(v, msg.content)
        <4> DEFINE x == [query |-> query + 1, left |-> Capabilities, found |-> FALSE]
        <4>1. query + 1 \in Nat
          BY <1>0
        <4>2. x \in SearchTasks
          BY <4>1 DEF SearchTasks
        <4>3. query' = query + 1 /\ (searches' = searches \/ searches' = searches \cup {x})
          BY <3>3 DEF QueryChanged
        <4> HIDE DEF x
        <4>4. searches \cup {x} \in SUBSET SearchTasks
          BY <1>0, <4>2
        <4> QED
          BY <1>0, <4>1, <4>3, <4>4
      <3> QED
        BY <1>4, <3>1, <3>2, <3>3 DEF Dismissed, QueryFinished, OnlySee
    <2> HIDE DEF c
    <2>4. c \in SearchViews
      BY <2>2 DEF ViewIsSound
    <2>5. QueueIsSound(c, c.queue # <<>>)
      BY <2>2, <2>4, HandledIsSound
    <2>6. card' = c /\ looping' = (c.queue # <<>>)
      BY <2>1 DEF LetSee
    <2> QED
      BY <2>2, <2>3, <2>5, <2>6 DEF SearchListInv
  <1>5. CASE \E c \in SearchViews : /\ OnlySee(c) /\ ViewIsSound(c) /\ c.queue = q /\ c.selected = v.selected
                                    /\ IsActionPanelOpen(c) => ClosedFree(q)
    <2>1. PICK c \in SearchViews : /\ OnlySee(c) /\ ViewIsSound(c) /\ c.queue = q /\ c.selected = v.selected
                                   /\ IsActionPanelOpen(c) => ClosedFree(q)
      BY <1>5
    <2>2. QueueIsSound(c, c.queue # <<>>)
      BY <1>2, <2>1, HandledIsSound
    <2>3. card' = c /\ looping' = (c.queue # <<>>) /\ UNCHANGED <<query, searches>>
      BY <2>1 DEF OnlySee, LetSee
    <2> QED
      BY <1>0, <2>1, <2>2, <2>3 DEF SearchListInv
  <1>6. CASE \/ msg.msg = "Prompt" /\ OnlySee(v)
             \/ msg.msg = "QueryEvent" /\ QueryEventReceived(v, msg) /\ msg.query # query
             \/ msg.msg = "QueryFinished" /\ QueryFinished(v, msg) /\ msg.query # query
    <2>1. OnlySee(v)
      BY <1>6 DEF QueryEventReceived, QueryFinished
    <2> QED
      BY <1>2, <1>3, <1>5, <2>1
  <1>7. CASE msg.msg = "QueryEvent" /\ QueryEventReceived(v, msg) /\ msg.query = query
    <2> DEFINE c == AppendSection(v, msg.of, msg.items)
    <2>1. OnlySee(c)
      BY <1>7 DEF QueryEventReceived
    <2>2. msg.of \in Capabilities /\ msg.items \in Replies
      BY <1>2, <1>7 DEF LauncherMsgs
    <2>3. msg.items \in Seq(ActionLists)
      BY <2>2, SearchListAssumption DEF ActionLists
    <2>4. ViewIsSound(c) /\ c.queue = v.queue /\ c.selected = v.selected /\ c.panel = v.panel
      BY <1>2, <1>3, <2>2, <2>3, SectionIsSound
    <2> HIDE DEF c
    <2>5. c \in SearchViews /\ (IsActionPanelOpen(c) <=> IsActionPanelOpen(v))
      BY <2>4 DEF ViewIsSound, IsActionPanelOpen
    <2> QED
      BY <1>2, <1>5, <2>1, <2>4, <2>5
  <1>8. CASE msg.msg = "QueryFinished" /\ QueryFinished(v, msg) /\ msg.query = query /\ msg.found
    <2> DEFINE c == AppendChatAction(v)
    <2>1. OnlySee(c)
      BY <1>8 DEF QueryFinished
    <2>4. ViewIsSound(c) /\ c.queue = v.queue /\ c.selected = v.selected /\ c.panel = v.panel
      BY <1>2, <1>3, ChatActionIsSound
    <2> HIDE DEF c
    <2>5. c \in SearchViews /\ (IsActionPanelOpen(c) <=> IsActionPanelOpen(v))
      BY <2>4 DEF ViewIsSound, IsActionPanelOpen
    <2> QED
      BY <1>2, <1>5, <2>1, <2>4, <2>5
  <1>9. CASE msg.msg = "OpenPanel" /\ OnlySee(OpenActionPanel(v))
    <2> DEFINE c == OpenActionPanel(v)
    <2>1. /\ ViewIsSound(c) /\ c.selected = v.selected /\ c.queue = v.queue
          /\ c = v \/ (v.selected # 0 /\ ~IsActionPanelOpen(v))
      BY <1>2, <1>3, OpenedIsSound
    <2>2. OnlySee(c)
      BY <1>9
    <2> HIDE DEF c
    <2>3. IsActionPanelOpen(c) => ClosedFree(q)
      BY <1>2, <1>9, <2>1
    <2>4. c \in SearchViews
      BY <2>1 DEF ViewIsSound
    <2> QED
      BY <1>2, <1>5, <2>1, <2>2, <2>3, <2>4
  <1>10. CASE msg.msg = "PanelClosed" /\ OnlySee(LetGo(v))
    <2> DEFINE c == LetGo(v)
    <2>1. /\ ViewIsSound(c) /\ ~IsActionPanelOpen(c) /\ c.queue = v.queue /\ c.selected = v.selected
      BY <1>2, <1>3, <1>10, LetGoIsSound
    <2>2. OnlySee(c)
      BY <1>10
    <2> HIDE DEF c
    <2>4. c \in SearchViews
      BY <2>1 DEF ViewIsSound
    <2> QED
      BY <1>2, <1>5, <2>1, <2>2, <2>4
  <1> QED
    BY <1>1, <1>4, <1>6, <1>7, <1>8, <1>9, <1>10

LEMMA SearchTaskOK ==
  ASSUME SearchListInv, NEW t \in searches,
         SearchFinishes(t) \/ \E of \in Capabilities, items \in Replies : SearchReplies(t, of, items)
  PROVE  SearchListInv'
  <1>0. /\ ViewIsSound(card) /\ QueueIsSound(card, looping) /\ card \in SearchViews
        /\ looping \in BOOLEAN /\ query \in Nat /\ searches \in SUBSET SearchTasks /\ t \in SearchTasks
    BY DEF SearchListInv, ViewIsSound
  <1>1. CASE SearchFinishes(t)
    <2> DEFINE m == [msg |-> "QueryFinished", query |-> t.query, found |-> t.found]
    <2>1. m \in LauncherMsgs /\ m.msg = "QueryFinished"
      BY <1>0 DEF LauncherMsgs, SearchTasks
    <2>2. card' = Queue(card, m) /\ searches' = searches \ {t} /\ UNCHANGED <<looping, query>>
      BY <1>1 DEF SearchFinishes
    <2> HIDE DEF m
    <2>3. ViewIsSound(Queue(card, m)) /\ QueueIsSound(Queue(card, m), looping)
      BY <1>0, <2>1, QueuedIsSound
    <2>4. searches' \in SUBSET SearchTasks
      BY <1>0, <2>2
    <2> QED
      BY <1>0, <2>2, <2>3, <2>4 DEF SearchListInv
  <1>2. ASSUME NEW of \in Capabilities, NEW items \in Replies, SearchReplies(t, of, items)
        PROVE  SearchListInv'
    <2> DEFINE m == [msg |-> "QueryEvent", query |-> t.query, of |-> of, items |-> items]
               more == t.found \/ Usable(items) # <<>>
               u == [t EXCEPT !.left = @ \ {of}, !.found = more]
    <2>1. m \in LauncherMsgs /\ m.msg = "QueryEvent"
      BY <1>0 DEF LauncherMsgs, SearchTasks
    <2>2. card' = Queue(card, m) /\ searches' = (searches \ {t}) \cup {u} /\ UNCHANGED <<looping, query>>
      BY <1>2 DEF SearchReplies
    <2>3. more \in BOOLEAN
      BY <1>0 DEF SearchTasks
    <2> HIDE DEF m, more
    <2>4. u \in SearchTasks
      BY <1>0, <2>3 DEF SearchTasks
    <2> HIDE DEF u
    <2>5. ViewIsSound(Queue(card, m)) /\ QueueIsSound(Queue(card, m), looping)
      BY <1>0, <2>1, QueuedIsSound
    <2>6. searches' \in SUBSET SearchTasks
      BY <1>0, <2>2, <2>4
    <2> QED
      BY <1>0, <2>2, <2>5, <2>6 DEF SearchListInv
  <1> QED
    BY <1>1, <1>2

(* What the user presses, or the timer.                                    *)
LEMMA PressedOK ==
  ASSUME SearchListInv, NEW v, ViewIsSound(v), QueueIsSound(v, FALSE),
         ~looping, card' = v, UNCHANGED <<looping, query, searches>>
  PROVE  SearchListInv'
  BY DEF SearchListInv

LEMMA QueuesOnly ==
  ASSUME SearchListInv, ~looping, NEW v, ViewIsSound(v), QueueIsSound(v, FALSE),
         NEW m \in LauncherMsgs, m.msg # "PanelClosed", IsActionPanelOpen(v) => m.msg # "OpenPanel",
         card' = Queue(v, m), UNCHANGED <<looping, query, searches>>
  PROVE  SearchListInv'
  <1>1. v \in SearchViews
    BY DEF ViewIsSound
  <1>2. ViewIsSound(Queue(v, m)) /\ QueueIsSound(Queue(v, m), FALSE)
    BY <1>1, QueuedIsSound
  <1> QED
    BY <1>2, PressedOK

LEMMA TypingOK ==
  ASSUME SearchListInv, TypingEnds \/ TypeText \/ EraseText
  PROVE  SearchListInv'
  <1> DEFINE m(content) == [msg |-> "QueryChanged", content |-> content]
  <1>0. ViewIsSound(card) /\ (~looping => QueueIsSound(card, FALSE))
    BY DEF SearchListInv
  <1>1. \A content \in BOOLEAN : m(content) \in LauncherMsgs /\ m(content).msg = "QueryChanged"
    BY DEF LauncherMsgs
  <1>2. CASE TypeText
    <2>1. ~looping /\ card' = card /\ UNCHANGED <<looping, query, searches>>
      BY <1>2 DEF TypeText, Press
    <2> QED
      BY <1>0, <2>1, PressedOK
  <1>3. CASE EraseText
    <2>1. ~looping /\ card' = Queue(card, m(FALSE)) /\ UNCHANGED <<looping, query, searches>>
      BY <1>3 DEF EraseText, Press
    <2> HIDE DEF m
    <2> QED
      BY <1>0, <1>1, <2>1, QueuesOnly
  <1>4. CASE TypingEnds
    <2>1. ~looping /\ UNCHANGED <<looping, query, searches>>
      BY <1>4 DEF TypingEnds
    <2>2. PICK content \in BOOLEAN : card' = Queue(card, m(content))
      BY <1>4 DEF TypingEnds
    <2> HIDE DEF m
    <2> QED
      BY <1>0, <1>1, <2>1, <2>2, QueuesOnly
  <1> QED
    BY <1>2, <1>3, <1>4

LEMMA NavigateResultsOK ==
  ASSUME SearchListInv, NEW up \in BOOLEAN, NavigateResults(up)
  PROVE  SearchListInv'
  <1> DEFINE visible == VisibleRows(card)
             from == card.selected
             beyond == {i \in visible : IF up THEN i < from ELSE i > from}
             next == IF from \notin visible THEN Min(visible)
                     ELSE IF beyond = {} THEN from
                     ELSE IF up THEN Max(beyond) ELSE Min(beyond)
             w == [card EXCEPT !.selected = next]
  <1>0. ViewIsSound(card) /\ (~looping => QueueIsSound(card, FALSE)) /\ card \in SearchViews
    BY DEF SearchListInv, ViewIsSound
  <1>1. /\ visible # {} /\ ~looping /\ ~IsActionPanelOpen(card) /\ card' = w
        /\ UNCHANGED <<looping, query, searches>>
    BY DEF NavigateResults, OnList, Press
  <1>2. card.rows \in Seq(ResultRows) /\ Len(card.rows) \in Nat
    BY <1>0 DEF SearchViews
  <1>3. visible \in SUBSET (1..Len(card.rows)) /\ beyond \in SUBSET visible
    BY <1>2 DEF VisibleRows
  <1> HIDE DEF visible, beyond
  <1>4. /\ Min(visible) \in visible
        /\ beyond # {} => Max(beyond) \in visible /\ Min(beyond) \in visible
    <2>1. Min(visible) \in visible
      BY <1>1, <1>2, <1>3, LeastIn
    <2>2. beyond # {} => Max(beyond) \in beyond /\ Min(beyond) \in beyond
      BY <1>2, <1>3, LeastIn
    <2> QED
      BY <1>3, <2>1, <2>2
  <1>5. next \in visible
    BY <1>4
  <1> HIDE DEF next
  <1>6. /\ ViewIsSound(w) /\ w.queue = card.queue /\ w.panel = card.panel
    BY <1>0, <1>5, SelectedIsSound DEF visible
  <1> HIDE DEF w
  <1>7. QueueIsSound(w, FALSE)
    <2>1. IsActionPanelOpen(w) <=> IsActionPanelOpen(card)
      BY <1>6 DEF IsActionPanelOpen
    <2> QED
      BY <1>0, <1>1, <1>6, <2>1 DEF QueueIsSound
  <1> QED
    BY <1>1, <1>6, <1>7, PressedOK

(* A row is activated, where it is visible.                                *)
LEMMA ActivatedOK ==
  ASSUME SearchListInv, NEW v, ViewIsSound(v), QueueIsSound(v, FALSE), ~IsActionPanelOpen(v),
         NEW i \in VisibleRows(v), ~looping, card' = RowActivated(v, i), UNCHANGED <<looping, query, searches>>
  PROVE  SearchListInv'
  <1> DEFINE row == v.rows[i]
  <1>1. v \in SearchViews
    BY DEF ViewIsSound
  <1>2. v.rows \in Seq(ResultRows)
    BY <1>1 DEF SearchViews
  <1>3. i \in 1..Len(v.rows)
    BY <1>2 DEF VisibleRows
  <1>4. row \in ResultRows
    BY <1>2, <1>3
  <1>5. row.kind \in {"Item", "ShowMore", "Chat"}
    BY <1>4 DEF ResultRows
  <1>6. CASE row.kind = "Item"
    <2> DEFINE m == [msg |-> "ResultAction", of |-> row.of, action |-> PrimaryIndex(row.actions)]
    <2>1. card' = Queue(v, m)
      BY <1>6 DEF RowActivated
    <2>2. row.of \in Capabilities /\ row.actions \in ActionLists
      BY <1>4, <1>6 DEF ResultRows
    <2>3. PrimaryIndex(row.actions) \in Nat
      <3> DEFINE primary == {k \in DOMAIN row.actions : row.actions[k]}
      <3>1. primary \in SUBSET (1..Len(row.actions)) /\ Len(row.actions) \in Nat
        BY <2>2 DEF ActionLists
      <3>2. PrimaryIndex(row.actions) = IF \E k \in DOMAIN row.actions : row.actions[k] THEN Min(primary) ELSE 1
        BY DEF PrimaryIndex
      <3>3. (\E k \in DOMAIN row.actions : row.actions[k]) => primary # {}
        OBVIOUS
      <3> HIDE DEF primary
      <3>4. primary # {} => Min(primary) \in primary
        BY <3>1, LeastIn
      <3>5. ASSUME primary # {} PROVE Min(primary) \in Nat
        <4>1. Min(primary) \in 1..Len(row.actions)
          BY <3>1, <3>4, <3>5
        <4> QED
          BY <3>1, <4>1
      <3> QED
        BY <3>2, <3>3, <3>5
    <2>4. m \in LauncherMsgs /\ m.msg = "ResultAction"
      BY <2>2, <2>3 DEF LauncherMsgs
    <2> HIDE DEF m
    <2> QED
      BY <2>1, <2>4, QueuesOnly
  <1>7. CASE row.kind = "ShowMore"
    <2> DEFINE w == Expand(v, i)
    <2>1. card' = w
      BY <1>7 DEF RowActivated
    <2>2. ViewIsSound(w) /\ w.queue = v.queue /\ w.panel = v.panel
      BY <1>1, <1>7, ExpandedIsSound
    <2> HIDE DEF w
    <2>3. QueueIsSound(w, FALSE)
      <3>1. IsActionPanelOpen(w) <=> IsActionPanelOpen(v)
        BY <2>2 DEF IsActionPanelOpen
      <3> QED
        BY <2>2, <3>1 DEF QueueIsSound
    <2> QED
      BY <2>1, <2>2, <2>3, PressedOK
  <1>8. CASE row.kind = "Chat"
    <2> DEFINE m == [msg |-> "Prompt"]
    <2>1. card' = Queue(v, m)
      BY <1>8 DEF RowActivated
    <2>2. m \in LauncherMsgs /\ m.msg = "Prompt"
      BY DEF LauncherMsgs
    <2> HIDE DEF m
    <2> QED
      BY <2>1, <2>2, QueuesOnly
  <1> QED
    BY <1>5, <1>6, <1>7, <1>8

LEMMA ListKeysOK ==
  ASSUME SearchListInv,
         \/ EnterKey \/ ShowActionsKey \/ ExitKey
         \/ \E i \in VisibleRows(card) : ClickRow(i) \/ MoreActions(i)
  PROVE  SearchListInv'
  <1> DEFINE m(k) == [msg |-> k]
  <1>0. ViewIsSound(card) /\ (~looping => QueueIsSound(card, FALSE)) /\ card \in SearchViews
    BY DEF SearchListInv, ViewIsSound
  <1>1. \A k \in {"Prompt", "OpenPanel", "Exit"} : m(k) \in LauncherMsgs /\ m(k).msg = k
    BY DEF LauncherMsgs
  <1>2. CASE EnterKey
    <2>1. ~looping /\ ~IsActionPanelOpen(card) /\ UNCHANGED <<looping, query, searches>>
      BY <1>2 DEF EnterKey, OnList, Press
    <2>2. card' = IF card.selected # 0 THEN RowActivated(card, card.selected)
                  ELSE IF card.rows = <<>> THEN Queue(card, m("Prompt"))
                  ELSE card
      BY <1>2 DEF EnterKey, OnList, Press
    <2> HIDE DEF m
    <2>3. CASE card.selected # 0
      <3>1. card.selected \in VisibleRows(card)
        BY <1>0, <2>3 DEF ViewIsSound, RowsAreSound
      <3>2. card' = RowActivated(card, card.selected)
        BY <2>2, <2>3
      <3> QED
        BY <1>0, <2>1, <3>1, <3>2, ActivatedOK
    <2>4. CASE card.selected = 0 /\ card.rows = <<>>
      BY <1>0, <1>1, <2>1, <2>2, <2>4, QueuesOnly
    <2>5. CASE card.selected = 0 /\ card.rows # <<>>
      BY <1>0, <2>1, <2>2, <2>5, PressedOK
    <2> QED
      BY <2>3, <2>4, <2>5
  <1>3. CASE ShowActionsKey
    <2>1. ~looping /\ ~IsActionPanelOpen(card) /\ card' = Queue(card, m("OpenPanel")) /\ UNCHANGED <<looping, query, searches>>
      BY <1>3 DEF ShowActionsKey, OnList, Press
    <2> HIDE DEF m
    <2> QED
      BY <1>0, <1>1, <2>1, QueuesOnly
  <1>4. CASE ExitKey
    <2>1. ~looping /\ ~IsActionPanelOpen(card) /\ card' = Queue(card, m("Exit")) /\ UNCHANGED <<looping, query, searches>>
      BY <1>4 DEF ExitKey, OnList, Press
    <2> HIDE DEF m
    <2> QED
      BY <1>0, <1>1, <2>1, QueuesOnly
  <1>5. ASSUME NEW i \in VisibleRows(card), ClickRow(i) \/ MoreActions(i) PROVE SearchListInv'
    <2> DEFINE v == [card EXCEPT !.selected = i]
    <2>1. ~looping /\ ~IsActionPanelOpen(card) /\ UNCHANGED <<looping, query, searches>>
      BY <1>5 DEF ClickRow, MoreActions, OnList, Press
    <2>2. card' = RowActivated(v, i) \/ card' = Queue(v, m("OpenPanel"))
      BY <1>5 DEF ClickRow, MoreActions, OnList, Press
    <2>3. /\ ViewIsSound(v) /\ v.queue = card.queue /\ v.panel = card.panel
          /\ VisibleRows(v) = VisibleRows(card)
      BY <1>0, SelectedIsSound
    <2> HIDE DEF v, m
    <2>4. ~IsActionPanelOpen(v)
      BY <2>1, <2>3 DEF IsActionPanelOpen
    <2>5. QueueIsSound(v, FALSE)
      BY <1>0, <2>1, <2>3, <2>4 DEF QueueIsSound
    <2>6. CASE card' = RowActivated(v, i)
      BY <2>1, <2>3, <2>4, <2>5, <2>6, ActivatedOK
    <2>7. CASE card' = Queue(v, m("OpenPanel"))
      BY <1>1, <2>1, <2>3, <2>4, <2>5, <2>7, QueuesOnly
    <2> QED
      BY <2>2, <2>6, <2>7
  <1> QED
    BY <1>2, <1>3, <1>4, <1>5

(* The panel closes, and its close is queued behind whatever is.           *)
LEMMA PanelClosesOK ==
  ASSUME SearchListInv, ~looping, IsActionPanelOpen(card)
  PROVE  ViewIsSound(ClosePanel(card)) /\ QueueIsSound(ClosePanel(card), FALSE) /\ ~IsActionPanelOpen(ClosePanel(card))
  <1> DEFINE w == ClosePanel(card)
             m == [msg |-> "PanelClosed"]
  <1>0. ViewIsSound(card) /\ QueueIsSound(card, FALSE) /\ card \in SearchViews /\ card.queue \in Seq(LauncherMsgs)
    BY DEF SearchListInv, ViewIsSound, SearchViews
  <1>1. ViewIsSound(w) /\ ~IsActionPanelOpen(w) /\ w.queue = Append(card.queue, m)
    BY <1>0, ClosedIsSound
  <1>2. ClosedFirst(card.queue) /\ OpenFree(card.queue)
    BY <1>0 DEF QueueIsSound
  <1>3. m \in LauncherMsgs
    BY DEF LauncherMsgs
  <1> HIDE DEF m
  <1>4. ClosedFirst(Append(card.queue, m))
    BY <1>0, <1>2, <1>3, AppendKeepsOrder
  <1> HIDE DEF w
  <1>5. QueueIsSound(w, FALSE)
    BY <1>1, <1>4 DEF QueueIsSound
  <1> QED
    BY <1>1, <1>5 DEF w

LEMMA PanelKeysOK ==
  ASSUME SearchListInv,
         \/ PanelDismissed
         \/ \E up \in BOOLEAN : PanelMoves(up)
         \/ \E k \in DOMAIN card.panel.actions : PanelSubmits(k)
  PROVE  SearchListInv'
  <1>0. ViewIsSound(card) /\ (~looping => QueueIsSound(card, FALSE)) /\ card \in SearchViews
    BY DEF SearchListInv, ViewIsSound
  <1>1. IsActionPanelOpen(card) /\ ~looping /\ UNCHANGED <<looping, query, searches>>
    BY DEF PanelDismissed, PanelMoves, PanelSubmits, OnPanel, Press
  <1>2. card.panel \in ActionPanels
    BY <1>0, <1>1 DEF SearchViews, IsActionPanelOpen
  <1>3. card.panel.actions \in ActionLists /\ card.panel.of \in Capabilities
    BY <1>2 DEF ActionPanels
  <1>4. ViewIsSound(ClosePanel(card)) /\ QueueIsSound(ClosePanel(card), FALSE) /\ ~IsActionPanelOpen(ClosePanel(card))
    BY <1>1, PanelClosesOK
  <1>5. CASE PanelDismissed
    <2>1. card' = ClosePanel(card)
      BY <1>5 DEF PanelDismissed, OnPanel, Press
    <2> QED
      BY <1>1, <1>4, <2>1, PressedOK
  <1>6. ASSUME NEW k \in DOMAIN card.panel.actions, PanelSubmits(k) PROVE SearchListInv'
    <2> DEFINE m == [msg |-> "ResultAction", of |-> card.panel.of, action |-> k]
    <2>1. card' = Queue(ClosePanel(card), m)
      BY <1>6 DEF PanelSubmits, OnPanel, Press
    <2>2. k \in Nat
      BY <1>3, <1>6 DEF ActionLists
    <2>3. m \in LauncherMsgs /\ m.msg = "ResultAction"
      BY <1>3, <2>2 DEF LauncherMsgs
    <2> HIDE DEF m
    <2> QED
      BY <1>1, <1>4, <2>1, <2>3, QueuesOnly
  <1>7. ASSUME NEW up \in BOOLEAN, PanelMoves(up) PROVE SearchListInv'
    <2> DEFINE n == Len(card.panel.actions)
               at == card.panel.at
               next == IF up THEN ((at + n - 2) % n) + 1 ELSE (at % n) + 1
               w == [card EXCEPT !.panel.at = next]
    <2>1. card' = w
      BY <1>7 DEF PanelMoves, OnPanel, Press
    <2>2. at \in 1..n /\ n \in Nat
      <3>1. at \in DOMAIN card.panel.actions
        BY <1>0, <1>1 DEF ViewIsSound, PanelIsSound
      <3> QED
        BY <1>3, <3>1 DEF ActionLists
    <2> HIDE DEF n, at
    <2>3. next \in 1..n
      <3>1. at + n - 2 \in Int /\ at \in Int /\ n > 0 /\ n \in Nat
        BY <2>2
      <3>2. (at + n - 2) % n \in 0..(n - 1) /\ at % n \in 0..(n - 1)
        BY <3>1
      <3> QED
        BY <2>2, <3>2
    <2> HIDE DEF next
    <2>4. next \in DOMAIN card.panel.actions /\ next \in Nat
      <3>1. DOMAIN card.panel.actions = 1..n
        BY <1>3 DEF ActionLists, n
      <3> QED
        BY <2>2, <2>3, <3>1
    <2>5. /\ w \in SearchViews /\ w.panel = [card.panel EXCEPT !.at = next] /\ w.queue = card.queue
          /\ w.rows = card.rows /\ w.hidden = card.hidden /\ w.selected = card.selected
      <3>1. [card.panel EXCEPT !.at = next] \in ActionPanels
        BY <1>2, <2>4 DEF ActionPanels
      <3> QED
        BY <1>0, <3>1 DEF SearchViews
    <2> HIDE DEF w
    <2>6. /\ w.panel.row = card.panel.row /\ w.panel.of = card.panel.of /\ w.panel.actions = card.panel.actions
          /\ w.panel.at = next /\ w.panel.open = card.panel.open
      BY <1>2, <2>5 DEF ActionPanels
    <2>7. VisibleRows(w) = VisibleRows(card)
      BY <2>5 DEF VisibleRows
    <2>8. RowsAreSound(w)
      BY <1>0, <2>5, <2>7 DEF ViewIsSound, RowsAreSound, Announced
    <2>9. PanelIsSound(w)
      BY <1>0, <1>1, <2>4, <2>5, <2>6, <2>7 DEF ViewIsSound, PanelIsSound
    <2>10. QueueIsSound(w, FALSE)
      BY <1>0, <1>1, <2>5 DEF QueueIsSound
    <2> QED
      BY <1>1, <2>1, <2>5, <2>8, <2>9, <2>10, PressedOK DEF ViewIsSound
  <1> QED
    BY <1>5, <1>6, <1>7

LEMMA SearchListStepOK ==
  ASSUME SearchListInv, [SearchListNext]_searchListVars
  PROVE  SearchListInv'
  <1>1. CASE UNCHANGED searchListVars
    BY <1>1 DEF searchListVars, SearchListInv
  <1>2. CASE UserPresses
    BY <1>2, TypingOK, ListKeysOK, NavigateResultsOK, PanelKeysOK DEF UserPresses
  <1> QED
    BY <1>1, <1>2, HandleSearchMsgOK, TypingOK, SearchTaskOK DEF SearchListNext

LEMMA ResultsFromInv ==
  ASSUME SearchListInv
  PROVE  SelectedIsVisible /\ HiddenIsAnnounced /\ PanelIsAnchored
  <1>1. RowsAreSound(card) /\ PanelIsSound(card) /\ card \in SearchViews
    BY DEF SearchListInv, ViewIsSound
  <1>2. SelectedIsVisible
    BY <1>1 DEF RowsAreSound, SelectedIsVisible
  <1>3. HiddenIsAnnounced
    BY <1>1 DEF RowsAreSound, HiddenIsAnnounced, Announced
  <1>4. PanelIsAnchored
    <2>1. card.strays = 0
      BY <1>1 DEF SearchViews
    <2> QED
      BY <1>1, <2>1 DEF PanelIsSound, PanelIsAnchored
  <1> QED
    BY <1>2, <1>3, <1>4

-----------------------------------------------------------------------------
(* ModelPicker: the values.                                                *)
ModelIds == UNION {{m.id : m \in c} : c \in Catalogues}
EffortIds == UNION {UNION {m.efforts : m \in c} : c \in Catalogues}
Chosen == {x \in [model : ModelIds, effort : EffortIds] : x # NoChoice}
StoredChoices == Chosen \cup {NoChoice}
PreferredAccounts == Accounts \cup {NoChoice}
Offerings ==
    {to \in [account : Accounts, model : ModelIds, effort : EffortIds] : [model |-> to.model, effort |-> to.effort] \in Chosen}
AccountStatuses == {"Starting", "Running", "Unhealthy"}
ModelLists == Catalogues \cup {{}}
HealthAnswers == {<<>>} \cup UNION {[A -> AccountStatuses] : A \in SUBSET Accounts}
ModelAnswers == {<<>>} \cup UNION {[A -> ModelLists] : A \in SUBSET Accounts}
RefreshTasks(stage) ==
    [kind : {"refresh"}, at : stage, stored : [Accounts -> StoredChoices], default : PreferredAccounts,
     health : HealthAnswers, models : ModelAnswers]
AnsweredTasks == {t \in RefreshTasks({"answered"}) : t.models \in [Connected(t) -> ModelLists]}
HealthLevels == {"Degraded", "Healthy", "Down", "Inactive"}
PickerTasks ==
    [kind : {"refresh", "level"}, at : {"spawned"}] \cup RefreshTasks({"asking", "healthy"}) \cup AnsweredTasks
    \cup [kind : {"level"}, at : {"asked"}, level : HealthLevels]
    \cup [kind : {"store"}, at : {"spawned", "stored"}, to : Offerings]

PickerTypeOK ==
    /\ choices \in [Accounts -> StoredChoices] /\ default \in PreferredAccounts
    /\ live \in [Accounts -> [status : AccountStatuses, models : ModelLists]]
    /\ lookups \in Seq(PickerTasks)

MenuIsSound(mn) ==
    /\ \A row \in mn.rows : row.to \in Offerings
    /\ mn.checked # NoChoice =>
         \E row \in mn.rows : row.to = mn.checked /\ mn.ticks = {SubSeq(row.path, 1, k) : k \in DOMAIN row.path}

(* The tasks that the menu and the dot come from, where c is what they     *)
(* should show.                                                            *)
LevelOf(c) == Combine({c.health[a] : a \in Connected(c)})
IsFresh(t, c) ==
    \/ t.at = "spawned"
    \/ /\ t.stored = c.stored /\ t.default = c.default
       /\ t.at \in {"healthy", "answered"} => t.health = [a \in Connected(t) |-> c.health[a]]
       /\ t.at = "answered" => t.models = [a \in Connected(t) |-> c.models[a]]
LevelsAreRight(q, c) == \A i \in 1..Len(q) : q[i].kind = "level" /\ q[i].at = "asked" => q[i].level = LevelOf(c)
HasLevel(q) == \E i \in 1..Len(q) : q[i].kind = "level"
HasStored(q) == \E i \in 1..Len(q) : q[i].kind = "store" /\ q[i].at = "stored"
LastIsFresh(q, c) ==
    \E i \in 1..Len(q) : /\ q[i].kind = "refresh" /\ IsFresh(q[i], c)
                         /\ \A j \in 1..Len(q) : j > i => q[j].kind # "refresh"
NoRefresh(q) == \A i \in 1..Len(q) : q[i].kind # "refresh"
MenuIsComing(q, c, mn) == HasStored(q) \/ LastIsFresh(q, c) \/ (NoRefresh(q) /\ mn = SetOptions(c))
DotIsComing(q, c, d) == LevelsAreRight(q, c) /\ (d = LevelOf(c) \/ HasLevel(q))

PickerInv ==
    /\ PickerTypeOK /\ MenuIsSound(menu)
    /\ excused = {} => MenuIsComing(lookups, Now, menu) /\ DotIsComing(lookups, Now, dot)

-----------------------------------------------------------------------------
(* The tasks in a queue.                                                   *)
LEMMA PutInQueue ==
  ASSUME NEW S, NEW q \in Seq(S), NEW i \in 1..Len(q), NEW t \in S, t.kind = q[i].kind, NEW c
  PROVE  LET p == [q EXCEPT ![i] = t]
         IN  /\ p \in Seq(S)
             /\ LevelsAreRight(q, c) /\ (t.kind = "level" /\ t.at = "asked" => t.level = LevelOf(c)) => LevelsAreRight(p, c)
             /\ HasLevel(q) => HasLevel(p)
             /\ HasStored(q) /\ q[i].at # "stored" => HasStored(p)
             /\ t.kind = "store" /\ t.at = "stored" => HasStored(p)
             /\ LastIsFresh(q, c) /\ (t.kind = "refresh" /\ IsFresh(q[i], c) => IsFresh(t, c)) => LastIsFresh(p, c)
             /\ NoRefresh(q) => NoRefresh(p)
  <1> DEFINE p == [q EXCEPT ![i] = t]
  <1>1. p \in Seq(S) /\ Len(p) = Len(q) /\ p[i] = t /\ \A j \in 1..Len(q) : j # i => p[j] = q[j]
    OBVIOUS
  <1> HIDE DEF p
  <1>2. \A j \in 1..Len(q) : p[j].kind = q[j].kind
    BY <1>1
  <1>3. LevelsAreRight(q, c) /\ (t.kind = "level" /\ t.at = "asked" => t.level = LevelOf(c)) => LevelsAreRight(p, c)
    BY <1>1 DEF LevelsAreRight
  <1>4. HasLevel(q) => HasLevel(p)
    BY <1>1, <1>2 DEF HasLevel
  <1>5. HasStored(q) /\ q[i].at # "stored" => HasStored(p)
    BY <1>1 DEF HasStored
  <1>6. t.kind = "store" /\ t.at = "stored" => HasStored(p)
    BY <1>1 DEF HasStored
  <1>7. ASSUME LastIsFresh(q, c), t.kind = "refresh" /\ IsFresh(q[i], c) => IsFresh(t, c) PROVE LastIsFresh(p, c)
    <2>1. PICK k \in 1..Len(q) : /\ q[k].kind = "refresh" /\ IsFresh(q[k], c)
                                 /\ \A j \in 1..Len(q) : j > k => q[j].kind # "refresh"
      BY <1>7 DEF LastIsFresh
    <2>2. IsFresh(p[k], c) /\ p[k].kind = "refresh"
      <3>1. CASE k = i
        BY <1>1, <1>7, <2>1, <3>1
      <3>2. CASE k # i
        BY <1>1, <2>1, <3>2
      <3> QED
        BY <3>1, <3>2
    <2>3. \A j \in 1..Len(p) : j > k => p[j].kind # "refresh"
      BY <1>1, <1>2, <2>1
    <2>4. k \in 1..Len(p)
      BY <1>1
    <2> QED
      BY <2>2, <2>3, <2>4 DEF LastIsFresh
  <1>8. NoRefresh(q) => NoRefresh(p)
    BY <1>1, <1>2 DEF NoRefresh
  <1> QED
    BY <1>1, <1>3, <1>4, <1>5, <1>6, <1>7, <1>8 DEF p

LEMMA AddToQueue ==
  ASSUME NEW S, NEW q \in Seq(S), NEW t \in S, NEW c
  PROVE  LET p == Append(q, t)
         IN  /\ p \in Seq(S)
             /\ LevelsAreRight(q, c) /\ ~(t.kind = "level" /\ t.at = "asked") => LevelsAreRight(p, c)
             /\ HasLevel(q) \/ t.kind = "level" => HasLevel(p)
             /\ HasStored(q) => HasStored(p)
             /\ t.kind = "refresh" /\ IsFresh(t, c) => LastIsFresh(p, c)
             /\ t.kind # "refresh" /\ LastIsFresh(q, c) => LastIsFresh(p, c)
             /\ t.kind # "refresh" /\ NoRefresh(q) => NoRefresh(p)
  <1> DEFINE p == Append(q, t)
             n == Len(q) + 1
  <1>1. /\ p \in Seq(S) /\ Len(p) = n /\ p[n] = t /\ \A j \in 1..Len(q) : p[j] = q[j] /\ j \in 1..Len(p)
        /\ Len(q) \in Nat
    OBVIOUS
  <1> HIDE DEF p
  <1>2. n \in 1..Len(p) /\ \A j \in 1..Len(p) : (j = n \/ j \in 1..Len(q)) /\ ~(j > n)
    BY <1>1
  <1>3. LevelsAreRight(q, c) /\ ~(t.kind = "level" /\ t.at = "asked") => LevelsAreRight(p, c)
    BY <1>1, <1>2 DEF LevelsAreRight
  <1> HIDE DEF n
  <1>4. HasLevel(q) \/ t.kind = "level" => HasLevel(p)
    BY <1>1, <1>2 DEF HasLevel
  <1>5. HasStored(q) => HasStored(p)
    BY <1>1 DEF HasStored
  <1>6. t.kind = "refresh" /\ IsFresh(t, c) => LastIsFresh(p, c)
    BY <1>1, <1>2 DEF LastIsFresh
  <1>7. ASSUME t.kind # "refresh", LastIsFresh(q, c) PROVE LastIsFresh(p, c)
    <2>1. PICK k \in 1..Len(q) : /\ q[k].kind = "refresh" /\ IsFresh(q[k], c)
                                 /\ \A j \in 1..Len(q) : j > k => q[j].kind # "refresh"
      BY <1>7 DEF LastIsFresh
    <2>2. k \in 1..Len(p) /\ p[k].kind = "refresh" /\ IsFresh(p[k], c)
      BY <1>1, <2>1
    <2>3. \A j \in 1..Len(p) : j > k => p[j].kind # "refresh"
      BY <1>1, <1>2, <1>7, <2>1
    <2> QED
      BY <2>2, <2>3 DEF LastIsFresh
  <1>8. t.kind # "refresh" /\ NoRefresh(q) => NoRefresh(p)
    BY <1>1, <1>2 DEF NoRefresh
  <1> QED
    BY <1>1, <1>3, <1>4, <1>5, <1>6, <1>7, <1>8 DEF p

LEMMA DropFromQueue ==
  ASSUME NEW S, NEW q \in Seq(S), NEW i \in 1..Len(q), NEW c
  PROVE  LET p == RemoveAt(q, i)
         IN  /\ p \in Seq(S)
             /\ LevelsAreRight(q, c) => LevelsAreRight(p, c)
             /\ HasLevel(q) /\ q[i].kind # "level" => HasLevel(p)
             /\ HasStored(q) /\ ~(q[i].kind = "store" /\ q[i].at = "stored") => HasStored(p)
             /\ q[i].kind # "refresh" /\ LastIsFresh(q, c) => LastIsFresh(p, c)
             /\ LastIsFresh(q, c) /\ (\A j \in 1..(i - 1) : q[j].kind # "refresh") =>
                   LastIsFresh(p, c) \/ (IsFresh(q[i], c) /\ q[i].kind = "refresh" /\ NoRefresh(p))
             /\ NoRefresh(q) => NoRefresh(p)
  <1> DEFINE p == RemoveAt(q, i)
             n == Len(q)
             from(j) == IF j < i THEN j ELSE j + 1
             new(k) == IF k < i THEN k ELSE k - 1
  <1>0. n \in Nat /\ i \in 1..n
    OBVIOUS
  <1>1. /\ p \in Seq(S) /\ Len(p) = n - 1
        /\ \A j \in 1..(n - 1) : p[j] = IF j < i THEN q[j] ELSE q[j + 1]
    BY RemoveAtIs
  <1> HIDE DEF p
  <1>2. \A j \in 1..Len(p) : p[j] = q[from(j)] /\ from(j) \in 1..n /\ from(j) # i
    <2> SUFFICES ASSUME NEW j \in 1..Len(p) PROVE p[j] = q[from(j)] /\ from(j) \in 1..n /\ from(j) # i
      OBVIOUS
    <2>1. j \in 1..(n - 1)
      BY <1>1
    <2>2. p[j] = q[from(j)]
      BY <1>1, <2>1
    <2>3. from(j) \in 1..n /\ from(j) # i
      BY <1>0, <2>1
    <2> QED
      BY <2>2, <2>3
  <1>3. \A k \in 1..n : k # i => new(k) \in 1..Len(p) /\ p[new(k)] = q[k] /\ from(new(k)) = k
    <2> SUFFICES ASSUME NEW k \in 1..n, k # i PROVE new(k) \in 1..Len(p) /\ p[new(k)] = q[k] /\ from(new(k)) = k
      OBVIOUS
    <2>1. new(k) \in 1..(n - 1) /\ from(new(k)) = k
      BY <1>0
    <2> HIDE DEF new, from
    <2>2. new(k) \in 1..Len(p)
      BY <1>1, <2>1
    <2> QED
      BY <1>2, <2>1, <2>2
  <1>4. \A j \in 1..Len(p), k \in 1..n : k # i /\ j > new(k) => from(j) > k
    <2> SUFFICES ASSUME NEW j \in 1..Len(p), NEW k \in 1..n, k # i, j > new(k) PROVE from(j) > k
      OBVIOUS
    <2>1. j \in 1..(n - 1)
      BY <1>1
    <2> QED
      BY <1>0, <2>1
  <1> HIDE DEF from, new, n
  <1>5. LevelsAreRight(q, c) => LevelsAreRight(p, c)
    BY <1>2 DEF LevelsAreRight, n
  <1>6. HasLevel(q) /\ q[i].kind # "level" => HasLevel(p)
    BY <1>3 DEF HasLevel, n
  <1>7. HasStored(q) /\ ~(q[i].kind = "store" /\ q[i].at = "stored") => HasStored(p)
    BY <1>3 DEF HasStored, n
  <1>8. NoRefresh(q) => NoRefresh(p)
    BY <1>2 DEF NoRefresh, n
  <1>9. ASSUME LastIsFresh(q, c)
        PROVE  \/ LastIsFresh(p, c)
               \/ IsFresh(q[i], c) /\ q[i].kind = "refresh" /\ \A j \in 1..n : j > i => q[j].kind # "refresh"
    <2>1. PICK k \in 1..n : /\ q[k].kind = "refresh" /\ IsFresh(q[k], c)
                            /\ \A j \in 1..n : j > k => q[j].kind # "refresh"
      BY <1>9 DEF LastIsFresh, n
    <2>2. CASE k = i
      BY <2>1, <2>2
    <2>3. CASE k # i
      <3>1. new(k) \in 1..Len(p) /\ p[new(k)].kind = "refresh" /\ IsFresh(p[new(k)], c)
        BY <1>3, <2>1, <2>3
      <3>2. \A j \in 1..Len(p) : j > new(k) => p[j].kind # "refresh"
        <4> SUFFICES ASSUME NEW j \in 1..Len(p), j > new(k) PROVE p[j].kind # "refresh"
          OBVIOUS
        <4>1. from(j) > k
          BY <1>4, <2>3
        <4> QED
          BY <1>2, <2>1, <4>1
      <3> QED
        BY <3>1, <3>2 DEF LastIsFresh
    <2> QED
      BY <2>2, <2>3
  <1>10. ASSUME LastIsFresh(q, c), \A j \in 1..(i - 1) : q[j].kind # "refresh"
         PROVE  LastIsFresh(p, c) \/ (IsFresh(q[i], c) /\ q[i].kind = "refresh" /\ NoRefresh(p))
    <2>1. ASSUME \A j \in 1..n : j > i => q[j].kind # "refresh" PROVE NoRefresh(p)
      <3> SUFFICES ASSUME NEW j \in 1..Len(p) PROVE p[j].kind # "refresh"
        BY DEF NoRefresh
      <3>1. from(j) \in 1..n /\ from(j) # i /\ p[j] = q[from(j)]
        BY <1>2
      <3>2. from(j) \in 1..(i - 1) \/ from(j) > i
        BY <1>0, <3>1
      <3> QED
        BY <1>10, <2>1, <3>1, <3>2
    <2> QED
      BY <1>9, <1>10, <2>1
  <1> QED
    BY <1>1, <1>5, <1>6, <1>7, <1>8, <1>9, <1>10 DEF p

-----------------------------------------------------------------------------
(* The options of the menu.                                                *)
LEMMA OfferedIsChosen ==
  ASSUME NEW c \in Catalogues, NEW m \in c, NEW e \in m.efforts
  PROVE  m.id \in ModelIds /\ e \in EffortIds /\ [model |-> m.id, effort |-> e] \in Chosen
  <1>1. m.id \in ModelIds
    BY DEF ModelIds
  <1>2. e \in EffortIds
    BY DEF EffortIds
  <1>3. [model |-> m.id, effort |-> e] # NoChoice
    BY PickerAssumption
  <1> QED
    BY <1>1, <1>2, <1>3 DEF Chosen

(* What is checked is a row, and the ticks are the way to it.              *)
LEMMA OptionsAreSound ==
  ASSUME NEW c, \A a \in Connected(c) : c.models[a] \in ModelLists
  PROVE  MenuIsSound(SetOptions(c))
  <1> DEFINE selection == CurrentSelection(c)
             selectable == {a \in Connected(c) : Pickable(c, a) # {}}
             rows == UNION {RowsOf(c, a) : a \in selectable}
             mn == SetOptions(c)
  <1>1. CASE selectable = {}
    <2>1. mn = NoMenu
      BY <1>1 DEF SetOptions
    <2>2. mn.rows = {} /\ mn.checked = NoChoice
      BY <2>1 DEF NoMenu
    <2> QED
      BY <2>2 DEF MenuIsSound
  <1>2. CASE selectable # {}
    <2>1. mn.rows = rows /\ mn.checked = selection /\ mn.ticks = Ticks(c, selection)
      BY <1>2 DEF SetOptions
    <2> HIDE DEF mn
    <2>2. ASSUME NEW a \in Connected(c), NEW m \in Pickable(c, a)
          PROVE  c.models[a] \in Catalogues /\ m \in c.models[a] /\ a \in Accounts
      <3>1. m \in c.models[a] /\ a \in Accounts
        BY DEF Pickable, Connected
      <3>2. c.models[a] \in ModelLists
        OBVIOUS
      <3> QED
        BY <3>1, <3>2 DEF ModelLists
    <2>3. \A row \in rows : row.to \in Offerings
      <3> SUFFICES ASSUME NEW a \in selectable, NEW row \in RowsOf(c, a) PROVE row.to \in Offerings
        OBVIOUS
      <3>1. PICK m \in Pickable(c, a) : \E e \in m.efforts :
                row = [path |-> PathOf(c, a, m), to |-> [account |-> a, model |-> m.id, effort |-> e]]
        BY DEF RowsOf
      <3>2. PICK e \in m.efforts :
                row = [path |-> PathOf(c, a, m), to |-> [account |-> a, model |-> m.id, effort |-> e]]
        BY <3>1
      <3>3. c.models[a] \in Catalogues /\ m \in c.models[a] /\ a \in Accounts
        BY <2>2
      <3>4. m.id \in ModelIds /\ e \in EffortIds /\ [model |-> m.id, effort |-> e] \in Chosen
        BY <3>3, OfferedIsChosen
      <3>5. row.to = [account |-> a, model |-> m.id, effort |-> e]
        BY <3>2
      <3> QED
        BY <3>3, <3>4, <3>5 DEF Offerings
    <2>4. ASSUME selection # NoChoice
          PROVE  \E row \in rows : row.to = selection /\ Ticks(c, selection) = {SubSeq(row.path, 1, k) : k \in DOMAIN row.path}
      <3> DEFINE a == c.default
                 models == IF a = NoChoice \/ a \notin Connected(c) THEN {}
                           ELSE {m \in c.models[a] : m.id = c.stored[a].model /\ c.stored[a].effort \in m.efforts}
      <3>1. models # {} /\ c.health[a] = "Running"
            /\ selection = [account |-> a, model |-> c.stored[a].model, effort |-> c.stored[a].effort]
        BY <2>4 DEF CurrentSelection
      <3>2. PICK m \in models : TRUE
        BY <3>1
      <3>3. /\ a \in Connected(c) /\ m \in c.models[a] /\ m.id = c.stored[a].model
            /\ c.stored[a].effort \in m.efforts
        BY <3>2
      <3> HIDE DEF a, models, selection
      <3>4. m \in Pickable(c, a)
        BY <3>1, <3>3 DEF Pickable
      <3>5. a \in selectable
        BY <3>3, <3>4
      <3>6. c.models[a] \in Catalogues
        BY <2>2, <3>3, <3>4
      <3> DEFINE path == PathOf(c, a, m)
                 row == [path |-> path, to |-> [account |-> a, model |-> m.id, effort |-> c.stored[a].effort]]
      <3>7. row \in RowsOf(c, a)
        BY <3>3, <3>4 DEF RowsOf
      <3>8. row \in rows
        BY <3>5, <3>7
      <3>9. row.to = selection /\ row.path = path
        BY <3>1, <3>3
      <3>10. {n \in Pickable(c, a) : n.id = m.id} = {m}
        <4>1. \A n \in Pickable(c, a) : n \in c.models[a]
          BY DEF Pickable
        <4>2. \A n \in c.models[a] : n.id = m.id => n = m
          BY <3>3, <3>6, PickerAssumption
        <4> QED
          BY <3>4, <4>1, <4>2
      <3>11. selection.account = a /\ selection.model = m.id
        BY <3>1, <3>3
      <3> HIDE DEF path, row
      <3>12. Ticks(c, selection) = UNION {{SubSeq(p, 1, k) : k \in DOMAIN p} : p \in {path}}
        <4>1. Ticks(c, selection) =
                  UNION {{SubSeq(p, 1, k) : k \in DOMAIN p} : p \in {PathOf(c, a, n) : n \in {m}}}
          BY <2>4, <3>10, <3>11 DEF Ticks
        <4>2. {PathOf(c, a, n) : n \in {m}} = {path}
          BY DEF path
        <4> QED
          BY <4>1, <4>2
      <3>13. Ticks(c, selection) = {SubSeq(path, 1, k) : k \in DOMAIN path}
        BY <3>12
      <3> QED
        BY <3>8, <3>9, <3>13
    <2> HIDE DEF rows, selection
    <2>5. \A row \in mn.rows : row.to \in Offerings
      BY <2>1, <2>3
    <2>6. mn.checked # NoChoice =>
            \E row \in mn.rows : row.to = mn.checked /\ mn.ticks = {SubSeq(row.path, 1, k) : k \in DOMAIN row.path}
      BY <2>1, <2>4
    <2> QED
      BY <2>5, <2>6 DEF MenuIsSound, mn
  <1> QED
    BY <1>1, <1>2

(* The options are those of the connected accounts alone.                  *)
LEMMA SameOptions ==
  ASSUME NEW c, NEW d, c.stored = d.stored, c.default = d.default,
         \A a \in Connected(c) : c.health[a] = d.health[a] /\ c.models[a] = d.models[a]
  PROVE  SetOptions(c) = SetOptions(d) /\ Connected(c) = Connected(d)
  <1>1. Connected(c) = Connected(d)
    BY DEF Connected
  <1>2. CurrentSelection(c) = CurrentSelection(d)
    <2> DEFINE M(x) == IF x.default = NoChoice \/ x.default \notin Connected(x) THEN {}
                       ELSE {m \in x.models[x.default] : m.id = x.stored[x.default].model /\ x.stored[x.default].effort \in m.efforts}
    <2>1. M(c) = M(d)
      BY <1>1
    <2>2. M(c) # {} => c.health[c.default] = d.health[d.default]
      BY <1>1
    <2>3. \A x : CurrentSelection(x) =
                IF M(x) # {} /\ x.health[x.default] = "Running"
                THEN [account |-> x.default, model |-> x.stored[x.default].model, effort |-> x.stored[x.default].effort]
                ELSE NoChoice
      BY DEF CurrentSelection
    <2> HIDE DEF M
    <2> QED
      BY <2>1, <2>2, <2>3
  <1>3. \A a \in Connected(c) : Pickable(c, a) = Pickable(d, a)
    BY DEF Pickable
  <1>4. \A a \in Connected(c) : \A m : PathOf(c, a, m) = PathOf(d, a, m)
    BY <1>3 DEF PathOf
  <1>5. \A a \in Connected(c) : RowsOf(c, a) = RowsOf(d, a)
    BY <1>3, <1>4 DEF RowsOf
  <1>6. Ticks(c, CurrentSelection(c)) = Ticks(d, CurrentSelection(d))
    <2> DEFINE s == CurrentSelection(c)
    <2>1. CASE s = NoChoice
      BY <1>2, <2>1 DEF Ticks
    <2>2. CASE s # NoChoice
      <3>1. s.account \in Connected(c)
        BY <2>2 DEF CurrentSelection
      <3> HIDE DEF s
      <3>2. {PathOf(c, s.account, m) : m \in {n \in Pickable(c, s.account) : n.id = s.model}} =
            {PathOf(d, s.account, m) : m \in {n \in Pickable(d, s.account) : n.id = s.model}}
        BY <1>3, <1>4, <3>1
      <3>3. Ticks(c, s) = Ticks(d, s)
        BY <2>2, <3>2 DEF Ticks
      <3> QED
        BY <1>2, <3>3 DEF s
    <2> QED
      BY <2>1, <2>2
  <1> DEFINE selectable(x) == {a \in Connected(x) : Pickable(x, a) # {}}
  <1>7. selectable(c) = selectable(d)
    BY <1>1, <1>3
  <1>8. UNION {RowsOf(c, a) : a \in selectable(c)} = UNION {RowsOf(d, a) : a \in selectable(d)}
    <2>1. \A a \in selectable(c) : RowsOf(c, a) = RowsOf(d, a)
      BY <1>5
    <2> HIDE DEF selectable
    <2> QED
      BY <1>7, <2>1
  <1>9. \A x : SetOptions(x) =
            IF selectable(x) = {} THEN NoMenu
            ELSE [rows |-> UNION {RowsOf(x, a) : a \in selectable(x)}, greyed |-> Connected(x) \ selectable(x),
                  ticks |-> Ticks(x, CurrentSelection(x)), checked |-> CurrentSelection(x), sensitive |-> TRUE]
    BY DEF SetOptions
  <1> HIDE DEF selectable
  <1> QED
    BY <1>1, <1>2, <1>6, <1>7, <1>8, <1>9

-----------------------------------------------------------------------------
(* The steps.                                                              *)
LEMMA PickerInitOK == PickerInit => PickerInv
  <1> SUFFICES ASSUME PickerInit PROVE PickerInv
    OBVIOUS
  <1>1. /\ live \in [Accounts -> [status : {"Running"}, models : Catalogues]]
        /\ choices = [a \in Accounts |-> Defaults(live[a].models)]
        /\ default = CHOOSE a \in Accounts : TRUE
        /\ menu = NoMenu /\ lookups = <<>> /\ excused = {"never"}
    BY DEF PickerInit
  <1>2. ASSUME NEW a \in Accounts PROVE Defaults(live[a].models) \in Chosen
    <2> DEFINE c == live[a].models
               m == CHOOSE m \in c : m.efforts # {}
               e == CHOOSE e \in m.efforts : TRUE
    <2>1. c \in Catalogues
      BY <1>1
    <2> HIDE DEF c
    <2>2. \E n \in c : n.efforts # {}
      BY <2>1, PickerAssumption
    <2>3. m \in c /\ m.efforts # {}
      BY <2>2
    <2> HIDE DEF m
    <2>4. e \in m.efforts
      BY <2>3
    <2>5. Defaults(c) = [model |-> m.id, effort |-> e]
      BY DEF Defaults, m
    <2> HIDE DEF e
    <2>6. [model |-> m.id, effort |-> e] \in Chosen
      BY <2>1, <2>3, <2>4, OfferedIsChosen
    <2> QED
      BY <2>5, <2>6 DEF c
  <1>3. choices \in [Accounts -> StoredChoices]
    BY <1>1, <1>2 DEF StoredChoices
  <1>4. default \in PreferredAccounts
    BY <1>1, PickerAssumption DEF PreferredAccounts
  <1>5. live \in [Accounts -> [status : AccountStatuses, models : ModelLists]]
    <2>1. \A x \in [status : {"Running"}, models : Catalogues] : x \in [status : AccountStatuses, models : ModelLists]
      BY DEF AccountStatuses, ModelLists
    <2> QED
      BY <1>1, <2>1
  <1>6. MenuIsSound(menu)
    BY <1>1 DEF MenuIsSound, NoMenu
  <1> QED
    BY <1>1, <1>3, <1>4, <1>5, <1>6 DEF PickerInv, PickerTypeOK

(* While nothing but the tasks moves, what they should show stays.         *)
LEMMA TasksOnly ==
  ASSUME PickerInv, UNCHANGED <<choices, default, live>>, lookups' \in Seq(PickerTasks), MenuIsSound(menu'),
         excused' = {} => MenuIsComing(lookups', Now, menu') /\ DotIsComing(lookups', Now, dot')
  PROVE  PickerInv'
  <1>1. Now' = Now
    BY DEF Now
  <1>2. PickerTypeOK'
    BY DEF PickerInv, PickerTypeOK
  <1>3. (excused = {} => MenuIsComing(lookups, Now, menu) /\ DotIsComing(lookups, Now, dot))'
    BY <1>1
  <1> QED
    BY <1>2, <1>3 DEF PickerInv

LEMMA FailureIsNoted ==
  ASSUME NEW silent, MayFail(silent), excused' = {}
  PROVE  silent = {} /\ excused = {}
  BY DEF MayFail

LEMMA ReadAccountsOK ==
  ASSUME PickerInv, NEW i \in DOMAIN lookups, ReadAccounts(i)
  PROVE  PickerInv'
  <1> DEFINE t == [kind |-> "refresh", at |-> "asking", stored |-> choices, default |-> default,
                   health |-> <<>>, models |-> <<>>]
  <1>1. /\ lookups[i].kind = "refresh" /\ lookups[i].at = "spawned" /\ lookups' = [lookups EXCEPT ![i] = t]
        /\ UNCHANGED <<choices, default, live, menu, dot, excused>>
    BY DEF ReadAccounts, Lookup, Elsewhere
  <1>2. PickerTypeOK /\ MenuIsSound(menu)
    BY DEF PickerInv
  <1>3. lookups \in Seq(PickerTasks) /\ i \in 1..Len(lookups)
    BY <1>2 DEF PickerTypeOK
  <1>4. t \in PickerTasks
    <2>1. <<>> \in HealthAnswers /\ <<>> \in ModelAnswers
      BY DEF HealthAnswers, ModelAnswers
    <2>2. t \in RefreshTasks({"asking", "healthy"})
      BY <1>2, <2>1 DEF RefreshTasks, PickerTypeOK
    <2> QED
      BY <2>2 DEF PickerTasks
  <1>5. t.kind = "refresh" /\ t.kind = lookups[i].kind /\ IsFresh(t, Now)
    BY <1>1 DEF IsFresh, Now
  <1> HIDE DEF t
  <1>6. /\ lookups' \in Seq(PickerTasks)
        /\ LevelsAreRight(lookups, Now) => LevelsAreRight(lookups', Now)
        /\ HasLevel(lookups) => HasLevel(lookups')
        /\ HasStored(lookups) => HasStored(lookups')
        /\ LastIsFresh(lookups, Now) => LastIsFresh(lookups', Now)
        /\ NoRefresh(lookups) => NoRefresh(lookups')
    BY <1>1, <1>3, <1>4, <1>5, PutInQueue
  <1>7. excused' = {} => MenuIsComing(lookups', Now, menu') /\ DotIsComing(lookups', Now, dot')
    BY <1>1, <1>6 DEF PickerInv, MenuIsComing, DotIsComing
  <1> QED
    BY <1>1, <1>2, <1>6, <1>7, TasksOnly

LEMMA AskHealthOK ==
  ASSUME PickerInv, NEW i \in DOMAIN lookups, AskHealth(i)
  PROVE  PickerInv'
  <1> DEFINE t == lookups[i]
  <1>1. t.kind = "refresh" /\ t.at = "asking" /\ UNCHANGED <<choices, default, live, menu, dot>>
    BY DEF AskHealth, Elsewhere
  <1>2. PICK silent \in SUBSET Connected(t) :
          /\ Lookup(i, [t EXCEPT !.at = "healthy",
                                 !.health = [a \in Connected(t) |-> IF a \in silent THEN "Unhealthy" ELSE live[a].status]])
          /\ MayFail(silent)
    BY DEF AskHealth
  <1> DEFINE h == [a \in Connected(t) |-> IF a \in silent THEN "Unhealthy" ELSE live[a].status]
             u == [t EXCEPT !.at = "healthy", !.health = h]
  <1>3. lookups' = [lookups EXCEPT ![i] = u]
    BY <1>2 DEF Lookup
  <1>4. PickerTypeOK /\ MenuIsSound(menu)
    BY DEF PickerInv
  <1>5. lookups \in Seq(PickerTasks) /\ i \in 1..Len(lookups) /\ t \in PickerTasks
    BY <1>4 DEF PickerTypeOK
  <1> HIDE DEF t
  <1>6. t \in RefreshTasks({"asking"})
    BY <1>1, <1>5 DEF PickerTasks, AnsweredTasks, RefreshTasks
  <1>7. Connected(t) \in SUBSET Accounts
    BY DEF Connected
  <1>8. h \in HealthAnswers
    <2>1. \A a \in Connected(t) : live[a].status \in AccountStatuses
      BY <1>4, <1>7 DEF PickerTypeOK
    <2>2. h \in [Connected(t) -> AccountStatuses]
      BY <2>1 DEF AccountStatuses
    <2> QED
      BY <1>7, <2>2 DEF HealthAnswers
  <1>9. silent = {} => h = [a \in Connected(t) |-> live[a].status]
    OBVIOUS
  <1> HIDE DEF h
  <1>10. u \in RefreshTasks({"healthy"}) /\ u.kind = "refresh" /\ u.at = "healthy" /\ u.health = h
         /\ u.stored = t.stored /\ u.default = t.default
    BY <1>6, <1>8 DEF RefreshTasks
  <1>11. u \in PickerTasks
    BY <1>10 DEF PickerTasks, RefreshTasks
  <1> HIDE DEF u
  <1>12. Connected(u) = Connected(t)
    BY <1>10 DEF Connected
  <1>13. ASSUME silent = {}, IsFresh(t, Now) PROVE IsFresh(u, Now)
    <2>1. t.stored = choices /\ t.default = default
      BY <1>1, <1>13 DEF IsFresh, Now
    <2>2. u.health = [a \in Connected(u) |-> Now.health[a]]
      <3>1. \A a \in Connected(t) : Now.health[a] = live[a].status
        BY <1>7 DEF Now
      <3> QED
        BY <1>9, <1>10, <1>12, <1>13, <3>1
    <2> QED
      BY <1>10, <2>1, <2>2 DEF IsFresh, Now
  <1>14. u.kind = lookups[i].kind
    BY <1>1, <1>10 DEF t
  <1>15. lookups' \in Seq(PickerTasks)
    BY <1>3, <1>5, <1>11, <1>14, PutInQueue
  <1>16. ASSUME excused' = {} PROVE MenuIsComing(lookups', Now, menu') /\ DotIsComing(lookups', Now, dot')
    <2>1. silent = {} /\ excused = {}
      BY <1>2, <1>16, FailureIsNoted
    <2>2. IsFresh(lookups[i], Now) => IsFresh(u, Now)
      BY <1>13, <2>1 DEF t
    <2>3. lookups[i].at # "stored" /\ u.kind # "level"
      BY <1>1, <1>10 DEF t
    <2>4. /\ LevelsAreRight(lookups, Now) => LevelsAreRight(lookups', Now)
          /\ HasLevel(lookups) => HasLevel(lookups')
          /\ HasStored(lookups) => HasStored(lookups')
          /\ LastIsFresh(lookups, Now) => LastIsFresh(lookups', Now)
          /\ NoRefresh(lookups) => NoRefresh(lookups')
      BY <1>3, <1>5, <1>11, <1>14, <2>2, <2>3, PutInQueue
    <2> QED
      BY <1>1, <2>1, <2>4 DEF PickerInv, MenuIsComing, DotIsComing
  <1> QED
    BY <1>1, <1>4, <1>15, <1>16, TasksOnly

LEMMA AskModelsOK ==
  ASSUME PickerInv, NEW i \in DOMAIN lookups, AskModels(i)
  PROVE  PickerInv'
  <1> DEFINE t == lookups[i]
  <1>1. t.kind = "refresh" /\ t.at = "healthy" /\ UNCHANGED <<choices, default, live, menu, dot>>
    BY DEF AskModels, Elsewhere
  <1>2. PICK silent \in SUBSET Connected(t) :
          /\ Lookup(i, [t EXCEPT !.at = "answered",
                                 !.models = [a \in Connected(t) |-> IF a \in silent THEN {} ELSE live[a].models]])
          /\ MayFail(silent)
    BY DEF AskModels
  <1> DEFINE ms == [a \in Connected(t) |-> IF a \in silent THEN {} ELSE live[a].models]
             u == [t EXCEPT !.at = "answered", !.models = ms]
  <1>3. lookups' = [lookups EXCEPT ![i] = u]
    BY <1>2 DEF Lookup
  <1>4. PickerTypeOK /\ MenuIsSound(menu)
    BY DEF PickerInv
  <1>5. lookups \in Seq(PickerTasks) /\ i \in 1..Len(lookups) /\ t \in PickerTasks
    BY <1>4 DEF PickerTypeOK
  <1> HIDE DEF t
  <1>6. t \in RefreshTasks({"healthy"})
    BY <1>1, <1>5 DEF PickerTasks, AnsweredTasks, RefreshTasks
  <1>7. Connected(t) \in SUBSET Accounts
    BY DEF Connected
  <1>8. ms \in [Connected(t) -> ModelLists] /\ ms \in ModelAnswers
    <2>1. \A a \in Connected(t) : live[a].models \in ModelLists
      BY <1>4, <1>7 DEF PickerTypeOK
    <2>2. {} \in ModelLists
      BY DEF ModelLists
    <2>3. ms \in [Connected(t) -> ModelLists]
      BY <2>1, <2>2
    <2> QED
      BY <1>7, <2>3 DEF ModelAnswers
  <1>9. silent = {} => ms = [a \in Connected(t) |-> live[a].models]
    OBVIOUS
  <1> HIDE DEF ms
  <1>10. u \in RefreshTasks({"answered"}) /\ u.kind = "refresh" /\ u.at = "answered" /\ u.models = ms
         /\ u.stored = t.stored /\ u.default = t.default /\ u.health = t.health
    BY <1>6, <1>8 DEF RefreshTasks
  <1> HIDE DEF u
  <1>12. Connected(u) = Connected(t)
    BY <1>10 DEF Connected
  <1>11. u \in PickerTasks
    BY <1>8, <1>10, <1>12 DEF PickerTasks, AnsweredTasks
  <1>13. ASSUME silent = {}, IsFresh(t, Now) PROVE IsFresh(u, Now)
    <2>1. t.stored = choices /\ t.default = default /\ t.health = [a \in Connected(t) |-> Now.health[a]]
      BY <1>1, <1>13 DEF IsFresh, Now
    <2>2. u.models = [a \in Connected(u) |-> Now.models[a]]
      <3>1. \A a \in Connected(t) : Now.models[a] = live[a].models
        BY <1>7 DEF Now
      <3> QED
        BY <1>9, <1>10, <1>12, <1>13, <3>1
    <2>3. u.health = [a \in Connected(u) |-> Now.health[a]]
      BY <1>10, <1>12, <2>1
    <2>4. Now.stored = choices /\ Now.default = default
      BY DEF Now
    <2> QED
      BY <1>10, <2>1, <2>2, <2>3, <2>4 DEF IsFresh
  <1>14. u.kind = lookups[i].kind
    BY <1>1, <1>10 DEF t
  <1>15. lookups' \in Seq(PickerTasks)
    BY <1>3, <1>5, <1>11, <1>14, PutInQueue
  <1>16. ASSUME excused' = {} PROVE MenuIsComing(lookups', Now, menu') /\ DotIsComing(lookups', Now, dot')
    <2>1. silent = {} /\ excused = {}
      BY <1>2, <1>16, FailureIsNoted
    <2>2. IsFresh(lookups[i], Now) => IsFresh(u, Now)
      BY <1>13, <2>1 DEF t
    <2>3. lookups[i].at # "stored" /\ u.kind # "level"
      BY <1>1, <1>10 DEF t
    <2>4. /\ LevelsAreRight(lookups, Now) => LevelsAreRight(lookups', Now)
          /\ HasLevel(lookups) => HasLevel(lookups')
          /\ HasStored(lookups) => HasStored(lookups')
          /\ LastIsFresh(lookups, Now) => LastIsFresh(lookups', Now)
          /\ NoRefresh(lookups) => NoRefresh(lookups')
      BY <1>3, <1>5, <1>11, <1>14, <2>2, <2>3, PutInQueue
    <2> QED
      BY <1>1, <2>1, <2>4 DEF PickerInv, MenuIsComing, DotIsComing
  <1> QED
    BY <1>1, <1>4, <1>15, <1>16, TasksOnly

LEMMA LandedType ==
  ASSUME PickerInv, NEW i \in DOMAIN lookups, Landed(i, <<>>)
  PROVE  /\ lookups' = RemoveAt(lookups, i) /\ lookups' \in Seq(PickerTasks)
         /\ lookups \in Seq(PickerTasks) /\ i \in 1..Len(lookups) /\ lookups[i] \in PickerTasks
  <1>1. lookups \in Seq(PickerTasks) /\ i \in 1..Len(lookups) /\ lookups[i] \in PickerTasks
    BY DEF PickerInv, PickerTypeOK
  <1>2. RemoveAt(lookups, i) \in Seq(PickerTasks)
    BY <1>1, RemoveAtIs
  <1>3. lookups' = RemoveAt(lookups, i) \o <<>>
    BY DEF Landed
  <1>4. RemoveAt(lookups, i) \o <<>> = RemoveAt(lookups, i)
    BY <1>2
  <1> QED
    BY <1>1, <1>2, <1>3, <1>4

LEMMA CrossingIsNoted ==
  ASSUME NEW i \in DOMAIN lookups, Overtakes(i), excused' = {}
  PROVE  excused = {} /\ \A j \in 1..(i - 1) : lookups[j].kind # lookups[i].kind
  BY DEF Overtakes

LEMMA RefreshLandsOK ==
  ASSUME PickerInv, NEW i \in DOMAIN lookups, RefreshLands(i)
  PROVE  PickerInv'
  <1> DEFINE t == lookups[i]
  <1>1. /\ t.kind = "refresh" /\ t.at = "answered" /\ menu' = SetOptions(t) /\ Landed(i, <<>>) /\ Overtakes(i)
        /\ UNCHANGED <<choices, default, live, dot>>
    BY DEF RefreshLands, Elsewhere
  <1>2. /\ lookups' = RemoveAt(lookups, i) /\ lookups' \in Seq(PickerTasks)
        /\ lookups \in Seq(PickerTasks) /\ i \in 1..Len(lookups) /\ t \in PickerTasks
    BY <1>1, LandedType
  <1> HIDE DEF t
  <1>3. t \in AnsweredTasks
    BY <1>1, <1>2 DEF PickerTasks, RefreshTasks
  <1>4. MenuIsSound(menu')
    <2>1. \A a \in Connected(t) : t.models[a] \in ModelLists
      BY <1>3 DEF AnsweredTasks
    <2>2. MenuIsSound(SetOptions(t))
      BY <2>1, OptionsAreSound
    <2> QED
      BY <1>1, <2>2
  <1>5. IsFresh(t, Now) => SetOptions(t) = SetOptions(Now)
    <2> SUFFICES ASSUME IsFresh(t, Now) PROVE SetOptions(t) = SetOptions(Now)
      OBVIOUS
    <2>1. /\ t.stored = Now.stored /\ t.default = Now.default
          /\ t.health = [a \in Connected(t) |-> Now.health[a]] /\ t.models = [a \in Connected(t) |-> Now.models[a]]
      BY <1>1 DEF IsFresh
    <2>2. \A a \in Connected(t) : t.health[a] = Now.health[a] /\ t.models[a] = Now.models[a]
      BY <2>1
    <2> QED
      BY <2>1, <2>2, SameOptions
  <1>6. ASSUME excused' = {} PROVE MenuIsComing(lookups', Now, menu') /\ DotIsComing(lookups', Now, dot')
    <2>1. excused = {} /\ \A j \in 1..(i - 1) : lookups[j].kind # "refresh"
      BY <1>1, <1>6, CrossingIsNoted DEF t
    <2>2. MenuIsComing(lookups, Now, menu) /\ DotIsComing(lookups, Now, dot)
      BY <2>1 DEF PickerInv
    <2>3. lookups[i].kind = "refresh" /\ lookups[i].at = "answered"
      BY <1>1 DEF t
    <2>4. /\ LevelsAreRight(lookups, Now) => LevelsAreRight(lookups', Now)
          /\ HasLevel(lookups) => HasLevel(lookups')
          /\ HasStored(lookups) => HasStored(lookups')
          /\ LastIsFresh(lookups, Now) => LastIsFresh(lookups', Now) \/ (IsFresh(lookups[i], Now) /\ NoRefresh(lookups'))
      BY <1>2, <2>1, <2>3, DropFromQueue
    <2>5. ~NoRefresh(lookups)
      BY <1>2, <2>3 DEF NoRefresh
    <2>6. MenuIsComing(lookups', Now, menu')
      BY <1>1, <1>5, <2>2, <2>4, <2>5 DEF MenuIsComing, t
    <2>7. DotIsComing(lookups', Now, dot')
      BY <1>1, <2>2, <2>4 DEF DotIsComing
    <2> QED
      BY <2>6, <2>7
  <1> QED
    BY <1>1, <1>2, <1>4, <1>6, TasksOnly

LEMMA AskLevelOK ==
  ASSUME PickerInv, NEW i \in DOMAIN lookups, AskLevel(i)
  PROVE  PickerInv'
  <1>1. lookups[i].kind = "level" /\ lookups[i].at = "spawned" /\ UNCHANGED <<choices, default, live, menu, dot>>
    BY DEF AskLevel, Elsewhere
  <1>2. PICK silent \in SUBSET Accounts :
          /\ Lookup(i, [kind |-> "level", at |-> "asked",
                        level |-> Combine({IF a \in silent THEN "Unhealthy" ELSE live[a].status
                                           : a \in Connected(Now) \cup silent})])
          /\ MayFail(silent)
    BY DEF AskLevel
  <1> DEFINE level == Combine({IF a \in silent THEN "Unhealthy" ELSE live[a].status : a \in Connected(Now) \cup silent})
             u == [kind |-> "level", at |-> "asked", level |-> level]
  <1>3. lookups' = [lookups EXCEPT ![i] = u]
    BY <1>2 DEF Lookup
  <1>4. PickerTypeOK /\ MenuIsSound(menu)
    BY DEF PickerInv
  <1>5. lookups \in Seq(PickerTasks) /\ i \in 1..Len(lookups)
    BY <1>4 DEF PickerTypeOK
  <1>6. silent = {} => level = LevelOf(Now)
    <2> SUFFICES ASSUME silent = {} PROVE level = LevelOf(Now)
      OBVIOUS
    <2>1. Connected(Now) \in SUBSET Accounts
      BY DEF Connected
    <2>2. \A a \in Connected(Now) : Now.health[a] = live[a].status
      BY <2>1 DEF Now
    <2>3. {IF a \in silent THEN "Unhealthy" ELSE live[a].status : a \in Connected(Now) \cup silent} =
          {Now.health[a] : a \in Connected(Now)}
      BY <2>2
    <2> QED
      BY <2>3 DEF LevelOf
  <1>7. level \in HealthLevels
    BY DEF Combine, HealthLevels
  <1> HIDE DEF level
  <1>8. u \in PickerTasks /\ u.kind = lookups[i].kind /\ u.kind = "level" /\ u.level = level
    BY <1>1, <1>7 DEF PickerTasks
  <1> HIDE DEF u
  <1>9. lookups' \in Seq(PickerTasks)
    BY <1>3, <1>5, <1>8, PutInQueue
  <1>10. ASSUME excused' = {} PROVE MenuIsComing(lookups', Now, menu') /\ DotIsComing(lookups', Now, dot')
    <2>1. silent = {} /\ excused = {}
      BY <1>2, <1>10, FailureIsNoted
    <2>2. /\ LevelsAreRight(lookups, Now) => LevelsAreRight(lookups', Now)
          /\ HasLevel(lookups) => HasLevel(lookups')
          /\ HasStored(lookups) => HasStored(lookups')
          /\ LastIsFresh(lookups, Now) => LastIsFresh(lookups', Now)
          /\ NoRefresh(lookups) => NoRefresh(lookups')
      <3>1. u.level = LevelOf(Now) /\ lookups[i].at # "stored" /\ u.kind # "refresh"
        BY <1>1, <1>6, <1>8, <2>1
      <3> QED
        BY <1>3, <1>5, <1>8, <3>1, PutInQueue
    <2> QED
      BY <1>1, <2>1, <2>2 DEF PickerInv, MenuIsComing, DotIsComing
  <1> QED
    BY <1>1, <1>4, <1>9, <1>10, TasksOnly

LEMMA LevelLandsOK ==
  ASSUME PickerInv, NEW i \in DOMAIN lookups, LevelLands(i)
  PROVE  PickerInv'
  <1>1. /\ lookups[i].kind = "level" /\ lookups[i].at = "asked" /\ dot' = lookups[i].level
        /\ Landed(i, <<>>) /\ Overtakes(i) /\ UNCHANGED <<choices, default, live, menu>>
    BY DEF LevelLands, Elsewhere
  <1>2. /\ lookups' = RemoveAt(lookups, i) /\ lookups' \in Seq(PickerTasks)
        /\ lookups \in Seq(PickerTasks) /\ i \in 1..Len(lookups)
    BY <1>1, LandedType
  <1>3. MenuIsSound(menu')
    BY <1>1 DEF PickerInv
  <1>4. ASSUME excused' = {} PROVE MenuIsComing(lookups', Now, menu') /\ DotIsComing(lookups', Now, dot')
    <2>1. excused = {}
      BY <1>1, <1>4, CrossingIsNoted
    <2>2. MenuIsComing(lookups, Now, menu) /\ LevelsAreRight(lookups, Now)
      BY <2>1 DEF PickerInv, DotIsComing
    <2>3. /\ LevelsAreRight(lookups, Now) => LevelsAreRight(lookups', Now)
          /\ HasStored(lookups) => HasStored(lookups')
          /\ LastIsFresh(lookups, Now) => LastIsFresh(lookups', Now)
          /\ NoRefresh(lookups) => NoRefresh(lookups')
      BY <1>1, <1>2, DropFromQueue
    <2>4. dot' = LevelOf(Now)
      BY <1>1, <1>2, <2>2 DEF LevelsAreRight
    <2> QED
      BY <1>1, <2>2, <2>3, <2>4 DEF MenuIsComing, DotIsComing
  <1> QED
    BY <1>1, <1>2, <1>3, <1>4, TasksOnly

LEMMA LookupEndsOK ==
  ASSUME PickerInv, NEW i \in DOMAIN lookups, LookupFails(i) \/ StoreRefused(i)
  PROVE  PickerInv'
  <1>1. Landed(i, <<>>) /\ UNCHANGED <<choices, default, live, menu, dot>>
    BY DEF LookupFails, StoreRefused, Elsewhere
  <1>2. /\ lookups' = RemoveAt(lookups, i) /\ lookups' \in Seq(PickerTasks)
        /\ lookups \in Seq(PickerTasks) /\ i \in 1..Len(lookups)
    BY <1>1, LandedType
  <1>3. MenuIsSound(menu')
    BY <1>1 DEF PickerInv
  <1>4. ASSUME excused' = {} PROVE MenuIsComing(lookups', Now, menu') /\ DotIsComing(lookups', Now, dot')
    <2>1. ~LookupFails(i)
      <3> SUFFICES ASSUME MayFail({i}) PROVE FALSE
        BY DEF LookupFails
      <3> QED
        BY <1>4, FailureIsNoted
    <2>2. lookups[i].kind = "store" /\ lookups[i].at = "spawned" /\ excused = {}
      BY <1>4, <2>1 DEF StoreRefused
    <2>3. /\ LevelsAreRight(lookups, Now) => LevelsAreRight(lookups', Now)
          /\ HasLevel(lookups) => HasLevel(lookups')
          /\ HasStored(lookups) => HasStored(lookups')
          /\ LastIsFresh(lookups, Now) => LastIsFresh(lookups', Now)
          /\ NoRefresh(lookups) => NoRefresh(lookups')
      BY <1>2, <2>2, DropFromQueue
    <2> QED
      BY <1>1, <2>2, <2>3 DEF PickerInv, MenuIsComing, DotIsComing
  <1> QED
    BY <1>1, <1>2, <1>3, <1>4, TasksOnly

LEMMA StoreChoiceOK ==
  ASSUME PickerInv, NEW i \in DOMAIN lookups, StoreChoice(i)
  PROVE  PickerInv'
  <1> DEFINE t == lookups[i]
             x == [model |-> t.to.model, effort |-> t.to.effort]
             u == [t EXCEPT !.at = "stored"]
  <1>1. /\ t.kind = "store" /\ t.at = "spawned" /\ choices[t.to.account] # NoChoice
        /\ choices' = [choices EXCEPT ![t.to.account] = x] /\ default' = t.to.account
        /\ lookups' = [lookups EXCEPT ![i] = u]
        /\ UNCHANGED <<live, menu, dot, excused>>
    BY DEF StoreChoice, Lookup, Elsewhere
  <1>2. PickerTypeOK /\ MenuIsSound(menu)
    BY DEF PickerInv
  <1>3. lookups \in Seq(PickerTasks) /\ i \in 1..Len(lookups) /\ t \in PickerTasks
    BY <1>2 DEF PickerTypeOK
  <1> HIDE DEF t
  <1>4. t \in [kind : {"store"}, at : {"spawned", "stored"}, to : Offerings]
    BY <1>1, <1>3 DEF PickerTasks, AnsweredTasks, RefreshTasks
  <1>5. u \in PickerTasks /\ u.kind = "store" /\ u.at = "stored"
    BY <1>4 DEF PickerTasks
  <1>6. t.to.account \in Accounts /\ x \in Chosen
    <2>1. t.to \in Offerings
      BY <1>4
    <2> QED
      BY <2>1 DEF Offerings
  <1> HIDE DEF x, u
  <1>7. x # NoChoice
    BY <1>6 DEF Chosen
  <1>8. u.kind = lookups[i].kind
    BY <1>1, <1>5 DEF t
  <1>9. /\ lookups' \in Seq(PickerTasks) /\ HasStored(lookups')
        /\ HasLevel(lookups) => HasLevel(lookups')
        /\ LevelsAreRight(lookups, Now') => LevelsAreRight(lookups', Now')
    BY <1>1, <1>3, <1>5, <1>8, PutInQueue
  <1>10. choices' \in [Accounts -> StoredChoices] /\ default' \in PreferredAccounts
    BY <1>1, <1>2, <1>6 DEF PickerTypeOK, StoredChoices, PreferredAccounts
  <1>11. LevelOf(Now') = LevelOf(Now)
    <2>1. \A a \in Accounts : choices'[a] # NoChoice <=> choices[a] # NoChoice
      BY <1>1, <1>2, <1>7 DEF PickerTypeOK
    <2>2. Connected(Now') = Connected(Now)
      <3>1. Now'.stored = choices' /\ Now.stored = choices
        BY DEF Now
      <3> QED
        BY <2>1, <3>1 DEF Connected
    <2>3. Now'.health = Now.health
      BY <1>1 DEF Now
    <2> QED
      BY <2>2, <2>3 DEF LevelOf
  <1>12. (excused = {} => MenuIsComing(lookups, Now, menu) /\ DotIsComing(lookups, Now, dot))'
    <2> SUFFICES ASSUME excused' = {}
                 PROVE  MenuIsComing(lookups', Now', menu') /\ DotIsComing(lookups', Now', dot')
      OBVIOUS
    <2>1. DotIsComing(lookups, Now, dot)
      BY <1>1 DEF PickerInv
    <2>2. LevelsAreRight(lookups, Now')
      BY <1>11, <2>1 DEF DotIsComing, LevelsAreRight
    <2> QED
      BY <1>1, <1>9, <1>11, <2>1, <2>2 DEF MenuIsComing, DotIsComing
  <1>13. PickerTypeOK'
    BY <1>1, <1>2, <1>9, <1>10 DEF PickerTypeOK
  <1>14. MenuIsSound(menu')
    BY <1>1, <1>2
  <1> QED
    BY <1>12, <1>13, <1>14 DEF PickerInv

LEMMA ChoiceStoredOK ==
  ASSUME PickerInv, NEW i \in DOMAIN lookups, ChoiceStored(i)
  PROVE  PickerInv'
  <1> DEFINE q == RemoveAt(lookups, i)
  <1>1. /\ lookups[i].kind = "store" /\ lookups[i].at = "stored" /\ lookups' = q \o <<RefreshTask>>
        /\ UNCHANGED <<choices, default, live, menu, dot, excused>>
    BY DEF ChoiceStored, Elsewhere, Landed
  <1>2. lookups \in Seq(PickerTasks) /\ i \in 1..Len(lookups) /\ MenuIsSound(menu)
    BY DEF PickerInv, PickerTypeOK
  <1>3. /\ q \in Seq(PickerTasks)
        /\ LevelsAreRight(lookups, Now) => LevelsAreRight(q, Now)
        /\ HasLevel(lookups) => HasLevel(q)
    BY <1>1, <1>2, DropFromQueue
  <1> HIDE DEF q
  <1>4. RefreshTask \in PickerTasks /\ RefreshTask.kind = "refresh" /\ RefreshTask.at = "spawned" /\ IsFresh(RefreshTask, Now)
    BY DEF RefreshTask, PickerTasks, IsFresh
  <1>5. lookups' = Append(q, RefreshTask)
    <2> HIDE DEF RefreshTask
    <2> QED
      BY <1>1, <1>3, <1>4
  <1>6. /\ lookups' \in Seq(PickerTasks) /\ LastIsFresh(lookups', Now)
        /\ LevelsAreRight(q, Now) => LevelsAreRight(lookups', Now)
        /\ HasLevel(q) => HasLevel(lookups')
    BY <1>3, <1>4, <1>5, AddToQueue
  <1>7. excused' = {} => MenuIsComing(lookups', Now, menu') /\ DotIsComing(lookups', Now, dot')
    BY <1>1, <1>3, <1>6 DEF PickerInv, MenuIsComing, DotIsComing
  <1> QED
    BY <1>1, <1>2, <1>6, <1>7, TasksOnly

LEMMA ShowFooterOK ==
  ASSUME PickerInv, ShowFooter
  PROVE  PickerInv'
  <1> DEFINE q == Append(lookups, LevelTask)
  <1>1. /\ lookups' = lookups \o <<LevelTask, RefreshTask>>
        /\ excused' = IF lookups = <<>> THEN {} ELSE excused
        /\ UNCHANGED <<choices, default, live, menu, dot>>
    BY DEF ShowFooter, UserPicks
  <1>2. lookups \in Seq(PickerTasks) /\ MenuIsSound(menu)
    BY DEF PickerInv, PickerTypeOK
  <1>3. RefreshTask \in PickerTasks /\ RefreshTask.kind = "refresh" /\ IsFresh(RefreshTask, Now)
    BY DEF RefreshTask, PickerTasks, IsFresh
  <1>4. LevelTask \in PickerTasks /\ LevelTask.kind = "level" /\ LevelTask.at = "spawned"
    BY DEF LevelTask, PickerTasks
  <1>5. lookups' = Append(q, RefreshTask)
    <2> HIDE DEF RefreshTask, LevelTask
    <2> QED
      BY <1>1, <1>2, <1>3, <1>4
  <1>6. /\ q \in Seq(PickerTasks) /\ HasLevel(q)
        /\ LevelsAreRight(lookups, Now) => LevelsAreRight(q, Now)
    BY <1>2, <1>4, AddToQueue
  <1> HIDE DEF q
  <1>7. /\ lookups' \in Seq(PickerTasks) /\ LastIsFresh(lookups', Now) /\ HasLevel(lookups')
        /\ LevelsAreRight(q, Now) => LevelsAreRight(lookups', Now)
    BY <1>3, <1>5, <1>6, AddToQueue
  <1>8. ASSUME excused' = {} PROVE MenuIsComing(lookups', Now, menu') /\ DotIsComing(lookups', Now, dot')
    <2>1. LevelsAreRight(lookups, Now)
      <3>1. CASE lookups = <<>>
        BY <3>1 DEF LevelsAreRight
      <3>2. CASE lookups # <<>>
        BY <1>1, <1>8, <3>2 DEF PickerInv, DotIsComing
      <3> QED
        BY <3>1, <3>2
    <2> QED
      BY <1>6, <1>7, <2>1 DEF MenuIsComing, DotIsComing
  <1> QED
    BY <1>1, <1>2, <1>7, <1>8, TasksOnly

LEMMA PickModelOK ==
  ASSUME PickerInv, NEW row \in menu.rows, PickModel(row)
  PROVE  PickerInv'
  <1> DEFINE t == [kind |-> "store", at |-> "spawned", to |-> row.to]
  <1>1. lookups' = Append(lookups, t) /\ UNCHANGED <<choices, default, live, menu, dot, excused>>
    BY DEF PickModel, UserPicks
  <1>2. lookups \in Seq(PickerTasks) /\ MenuIsSound(menu)
    BY DEF PickerInv, PickerTypeOK
  <1>3. row.to \in Offerings
    BY <1>2 DEF MenuIsSound
  <1>4. t \in PickerTasks /\ t.kind = "store"
    BY <1>3 DEF PickerTasks
  <1> HIDE DEF t
  <1>5. /\ lookups' \in Seq(PickerTasks)
        /\ LevelsAreRight(lookups, Now) => LevelsAreRight(lookups', Now)
        /\ HasLevel(lookups) => HasLevel(lookups')
        /\ HasStored(lookups) => HasStored(lookups')
        /\ LastIsFresh(lookups, Now) => LastIsFresh(lookups', Now)
        /\ NoRefresh(lookups) => NoRefresh(lookups')
    BY <1>1, <1>2, <1>4, AddToQueue
  <1>6. excused' = {} => MenuIsComing(lookups', Now, menu') /\ DotIsComing(lookups', Now, dot')
    BY <1>1, <1>5 DEF PickerInv, MenuIsComing, DotIsComing
  <1> QED
    BY <1>1, <1>2, <1>5, <1>6, TasksOnly

(* What the accounts do on their own excuses the footer.                   *)
LEMMA DriftOK ==
  ASSUME PickerInv, NEW a \in Accounts, AccountChanges(a) \/ AccountDisconnects(a)
  PROVE  PickerInv'
  <1>1. excused' # {} /\ UNCHANGED <<menu, lookups>>
    BY DEF AccountChanges, AccountDisconnects, Drift
  <1>2. PickerTypeOK /\ MenuIsSound(menu)
    BY DEF PickerInv
  <1>3. PickerTypeOK'
    <2>1. CASE AccountChanges(a)
      <3>1. PICK s \in {"Starting", "Running", "Unhealthy"}, c \in Catalogues \cup {{}} :
              live' = [live EXCEPT ![a] = [status |-> s, models |-> c]]
        BY <2>1 DEF AccountChanges
      <3>2. [status |-> s, models |-> c] \in [status : AccountStatuses, models : ModelLists]
        BY DEF AccountStatuses, ModelLists
      <3>3. live' \in [Accounts -> [status : AccountStatuses, models : ModelLists]]
        BY <1>2, <3>1, <3>2 DEF PickerTypeOK
      <3>4. UNCHANGED <<choices, default>>
        BY <2>1 DEF AccountChanges
      <3> QED
        BY <1>1, <1>2, <3>3, <3>4 DEF PickerTypeOK
    <2>2. CASE AccountDisconnects(a)
      <3> DEFINE others == {b \in Accounts \ {a} : choices[b] # NoChoice}
      <3>1. /\ choices' = [choices EXCEPT ![a] = NoChoice]
            /\ live' = [live EXCEPT ![a] = [status |-> "Unhealthy", models |-> {}]]
            /\ IF default # a THEN UNCHANGED default
               ELSE default' \in IF others = {} THEN {NoChoice} ELSE others
        BY <2>2 DEF AccountDisconnects
      <3>2. [status |-> "Unhealthy", models |-> {}] \in [status : AccountStatuses, models : ModelLists]
        BY DEF AccountStatuses, ModelLists
      <3>3. live' \in [Accounts -> [status : AccountStatuses, models : ModelLists]]
        BY <1>2, <3>1, <3>2 DEF PickerTypeOK
      <3>4. default' \in PreferredAccounts
        BY <1>2, <3>1 DEF PickerTypeOK, PreferredAccounts
      <3>5. choices' \in [Accounts -> StoredChoices]
        BY <1>2, <3>1 DEF PickerTypeOK, StoredChoices
      <3> QED
        BY <1>1, <1>2, <3>3, <3>4, <3>5 DEF PickerTypeOK
    <2> QED
      BY <2>1, <2>2
  <1>4. MenuIsSound(menu')
    BY <1>1, <1>2
  <1> QED
    BY <1>1, <1>3, <1>4 DEF PickerInv

LEMMA PickerStepOK ==
  ASSUME PickerInv, [PickerNext]_pickerVars
  PROVE  PickerInv'
  <1>1. CASE UNCHANGED pickerVars
    <2>1. UNCHANGED <<choices, default, live, menu, dot, lookups, excused>>
      BY <1>1 DEF pickerVars
    <2>2. lookups' \in Seq(PickerTasks) /\ MenuIsSound(menu')
      BY <2>1 DEF PickerInv, PickerTypeOK
    <2>3. excused' = {} => MenuIsComing(lookups', Now, menu') /\ DotIsComing(lookups', Now, dot')
      BY <2>1 DEF PickerInv
    <2> QED
      BY <2>1, <2>2, <2>3, TasksOnly
  <1>2. ASSUME NEW i \in DOMAIN lookups,
               \/ ReadAccounts(i) \/ RefreshLands(i) \/ AskLevel(i) \/ LevelLands(i) \/ LookupFails(i)
               \/ AskHealth(i) \/ AskModels(i) \/ StoreChoice(i) \/ StoreRefused(i) \/ ChoiceStored(i)
        PROVE  PickerInv'
    BY <1>2, ReadAccountsOK, RefreshLandsOK, AskLevelOK, LevelLandsOK, LookupEndsOK, AskHealthOK, AskModelsOK,
       StoreChoiceOK, ChoiceStoredOK
  <1> QED
    BY <1>1, <1>2, ShowFooterOK, PickModelOK, DriftOK DEF PickerNext

LEMMA FooterFromInv ==
  ASSUME PickerInv
  PROVE  CheckedIsOffered /\ PickerSettles
  <1>1. CheckedIsOffered
    BY DEF PickerInv, MenuIsSound, CheckedIsOffered
  <1>2. ASSUME lookups = <<>>, excused = {}
        PROVE  menu = SetOptions(Now) /\ dot = Combine({live[a].status : a \in Connected(Now)})
    <2>1. MenuIsComing(lookups, Now, menu) /\ DotIsComing(lookups, Now, dot)
      BY <1>2 DEF PickerInv
    <2>2. menu = SetOptions(Now)
      BY <1>2, <2>1 DEF MenuIsComing, HasStored, LastIsFresh
    <2>3. dot = LevelOf(Now)
      BY <1>2, <2>1 DEF DotIsComing, HasLevel
    <2>4. {Now.health[a] : a \in Connected(Now)} = {live[a].status : a \in Connected(Now)}
      <3>1. \A a \in Connected(Now) : a \in Accounts
        BY DEF Connected
      <3>2. \A a \in Accounts : Now.health[a] = live[a].status
        BY DEF Now
      <3> QED
        BY <3>1, <3>2
    <2> QED
      BY <2>2, <2>3, <2>4 DEF LevelOf
  <1> QED
    BY <1>1, <1>2 DEF PickerSettles

-----------------------------------------------------------------------------
(* In every behaviour of the launcher, what Enter acts on is there: the    *)
(* selected decision is one that is offered, and each call is decided      *)
(* once; the selected session is a row of the list; the selected result is *)
(* visible, what is hidden is announced, and the panel of actions belongs  *)
(* to its row; the picker has checked a model that is offered, and shows   *)
(* what is stored once all is quiet.                                       *)
THEOREM SelectionsAreLiveAlways == SelectionsSpec => []SelectionsAreLive
  <1> DEFINE Inv == DecisionInv /\ SessionListInv /\ SearchListInv /\ PickerInv
  <1>1. SelectionsInit => Inv
    BY DecisionInitOK, SessionListInitOK, SearchListInitOK, PickerInitOK DEF SelectionsInit
  <1>2. Inv /\ [SelectionsNext]_selectionVars => Inv'
    <2> SUFFICES ASSUME Inv, [SelectionsNext]_selectionVars PROVE Inv'
      OBVIOUS
    <2>1. /\ [DecisionNext]_decisionVars /\ [SessionListNext]_sessionListVars
          /\ [SearchListNext]_searchListVars /\ [PickerNext]_pickerVars
      BY DEF SelectionsNext, selectionVars
    <2>2. DecisionInv'
      BY <2>1, DecisionStepOK
    <2>3. SessionListInv'
      BY <2>1, SessionListStepOK
    <2>4. SearchListInv'
      BY <2>1, SearchListStepOK
    <2>5. PickerInv'
      BY <2>1, PickerStepOK
    <2> QED
      BY <2>2, <2>3, <2>4, <2>5
  <1>3. Inv => SelectionsAreLive
    BY LiveFromInv, ResultsFromInv, FooterFromInv DEF SelectionsAreLive, SessionListInv
  <1> QED
    BY <1>1, <1>2, <1>3, PTL DEF SelectionsSpec
=============================================================================
