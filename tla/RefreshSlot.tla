---------------------------- MODULE RefreshSlot ----------------------------
(***************************************************************************)
(* RefreshSlot (utils/src/refresh.rs): a cached value that is served stale *)
(* while one background task refreshes it.                                 *)
(*                                                                         *)
(* The mutex is held for the whole of every operation, so an operation is  *)
(* one step while nobody else holds it; the fetch of an empty slot keeps   *)
(* it (`holder`), the background task fetches without it.  The data is     *)
(* left out: a value is how it was produced and what its producer could    *)
(* know.                                                                   *)
(***************************************************************************)
EXTENDS Naturals

CONSTANTS
    Callers,
    Refreshers,   \* names for the spawned tasks
    Nobody,
    Ttls,         \* the ttl_secs that are passed
    Modulus,      \* 2^64: revision is a u64 that wraps
    MaxWrites,    \* bound: replacements, fewer than would wrap
    MaxTime       \* bound: the clock

ASSUME SlotAssumption ==
    /\ Nobody \notin Callers
    /\ Ttls \subseteq Nat
    /\ Modulus \in Nat /\ MaxWrites \in Nat /\ MaxWrites < Modulus
    /\ MaxTime \in Nat

VARIABLES
    cached,       \* RefreshState::cached, with what produced it
    revision,
    refreshing,
    holder,       \* the caller that holds the mutex during its fetch
    refresh,      \* the background tasks
    now,          \* unix_now
    writes,       \* history: the replacements so far
    served        \* history: what the value last handed to a caller knew of

vars == <<cached, revision, refreshing, holder, refresh, now, writes, served>>

Empty == [by |-> "nothing", seen |-> 0, expiresAt |-> 0]
Resting == [busy |-> FALSE, revision |-> 0, seen |-> 0, ttl |-> 0]
Produced == [by : {"nothing", "insert", "fetch"}, seen : Nat, expiresAt : Nat]

(* The types of the variables.                                             *)
TypeOK ==
    /\ cached \in Produced
    /\ revision \in 0..(Modulus - 1)
    /\ refreshing \in BOOLEAN
    /\ holder \in Callers \cup {Nobody}
    /\ refresh \in [Refreshers -> [busy : BOOLEAN, revision : Nat, seen : Nat, ttl : Nat]]
    /\ now \in Nat
    /\ writes \in 0..MaxWrites
    /\ served \in [Callers -> Nat]

Init ==
    /\ cached = Empty /\ revision = 0 /\ refreshing = FALSE
    /\ holder = Nobody
    /\ refresh = [r \in Refreshers |-> Resting]
    /\ now = 0
    /\ writes = 0
    /\ served = [c \in Callers |-> 0]

Cold == cached.by = "nothing"
Unlocked == holder = Nobody

\* Fault: the time to live is subtracted.
ReplaceBackdated(by, seen, ttl) ==
    /\ writes < MaxWrites
    /\ revision' = (revision + 1) % Modulus
    /\ cached' = [by |-> by, seen |-> seen, expiresAt |-> now - ttl]
    /\ writes' = writes + 1

(* RefreshState::replace.                                                  *)
Replace(by, seen, ttl) ==
    /\ writes < MaxWrites
    /\ revision' = (revision + 1) % Modulus
    /\ cached' = [by |-> by, seen |-> seen, expiresAt |-> now + ttl]
    /\ writes' = writes + 1

Served(c) == served' = [served EXCEPT ![c] = cached.seen]

Insert(ttl) ==
    /\ Unlocked
    /\ Replace("insert", writes, ttl)
    /\ UNCHANGED <<refreshing, holder, refresh, now, served>>

(* peek: the value, expired or not.                                        *)
Peek(c) ==
    /\ Unlocked /\ ~Cold
    /\ Served(c)
    /\ UNCHANGED <<cached, revision, refreshing, holder, refresh, now, writes>>

(* get_or_refresh of a fresh value, or of one that is being refreshed.     *)
ServeCached(c) ==
    /\ Unlocked /\ ~Cold
    /\ now < cached.expiresAt \/ refreshing
    /\ Served(c)
    /\ UNCHANGED <<cached, revision, refreshing, holder, refresh, now, writes>>

\* Fault: the refresh is made under the lock.
ServeStaleLocked(c, ttl) ==
    /\ Unlocked /\ ~Cold
    /\ cached.expiresAt <= now /\ ~refreshing
    /\ holder' = c
    /\ UNCHANGED <<cached, revision, refreshing, refresh, now, writes, served>>

(* get_or_refresh of an expired value: it is served, and one task is       *)
(* spawned that knows the revision it is to replace.                       *)
ServeStale(c, ttl) ==
    /\ Unlocked /\ ~Cold
    /\ cached.expiresAt <= now /\ ~refreshing
    /\ Served(c)
    /\ refreshing' = TRUE
    /\ \E r \in Refreshers :
         /\ ~refresh[r].busy
         /\ refresh' = [refresh EXCEPT ![r] =
              [busy |-> TRUE, revision |-> revision, seen |-> writes, ttl |-> ttl]]
    /\ UNCHANGED <<cached, revision, holder, now, writes>>

(* get_or_refresh of an empty slot: the fetch, with the mutex held.        *)
FetchCold(c) ==
    /\ Unlocked /\ Cold
    /\ holder' = c
    /\ UNCHANGED <<cached, revision, refreshing, refresh, now, writes, served>>

FetchColdOk(c, ttl) ==
    /\ holder = c
    /\ Replace("fetch", writes, ttl)
    /\ holder' = Nobody
    /\ served' = [served EXCEPT ![c] = writes]
    /\ UNCHANGED <<refreshing, refresh, now>>

(* The fetch fails, or its caller is dropped.                              *)
FetchColdErr(c) ==
    /\ holder = c
    /\ holder' = Nobody
    /\ UNCHANGED <<cached, revision, refreshing, refresh, now, writes, served>>

\* Fault: the flag is reset only when the value is.
RefreshDoneKeepsFlag(r) ==
    /\ refresh[r].busy /\ Unlocked
    /\ refresh' = [refresh EXCEPT ![r] = Resting]
    /\ \/ /\ refresh[r].revision = revision
          /\ Replace("fetch", refresh[r].seen, refresh[r].ttl)
          /\ refreshing' = FALSE
       \/ UNCHANGED <<cached, revision, writes, refreshing>>
    /\ UNCHANGED <<holder, now, served>>

\* Fault: the revision is not compared.
RefreshDoneAnyRevision(r) ==
    /\ refresh[r].busy /\ Unlocked
    /\ refresh' = [refresh EXCEPT ![r] = Resting]
    /\ refreshing' = FALSE
    /\ \/ Replace("fetch", refresh[r].seen, refresh[r].ttl)
       \/ UNCHANGED <<cached, revision, writes>>
    /\ UNCHANGED <<holder, now, served>>

(* The task's fetch is over: a value is stored if the slot still has the   *)
(* revision the task started from; an older one, or an error, is dropped.  *)
RefreshDone(r) ==
    /\ refresh[r].busy /\ Unlocked
    /\ refresh' = [refresh EXCEPT ![r] = Resting]
    /\ refreshing' = FALSE
    /\ \/ /\ refresh[r].revision = revision
          /\ Replace("fetch", refresh[r].seen, refresh[r].ttl)
       \/ UNCHANGED <<cached, revision, writes>>
    /\ UNCHANGED <<holder, now, served>>

Tick ==
    /\ now < MaxTime
    /\ now' = now + 1
    /\ UNCHANGED <<cached, revision, refreshing, holder, refresh, writes, served>>

CallerNext(c) ==
    \/ Peek(c) \/ ServeCached(c) \/ FetchCold(c) \/ FetchColdErr(c)
    \/ \E ttl \in Ttls : ServeStale(c, ttl) \/ FetchColdOk(c, ttl)

Next ==
    \/ \E ttl \in Ttls : Insert(ttl)
    \/ \E c \in Callers : CallerNext(c)
    \/ \E r \in Refreshers : RefreshDone(r)
    \/ Tick

(* A fetch comes to an end and the runtime polls who waits for it.  Nobody *)
(* has to ask for the value or insert one.                                 *)
Fairness ==
    /\ \A r \in Refreshers : WF_vars(RefreshDone(r))
    /\ \A c \in Callers : WF_vars(FetchColdErr(c) \/ \E ttl \in Ttls : FetchColdOk(c, ttl))

Spec == Init /\ [][Next]_vars
FairSpec == Spec /\ Fairness
-----------------------------------------------------------------------------
(* "a refresh already in flight must not be duplicated": there is at most  *)
(* one background task, and refreshing says whether there is one; a flag   *)
(* that stayed set would keep the slot stale for ever.                     *)
OneRefresh ==
    /\ refreshing <=> \E r \in Refreshers : refresh[r].busy
    /\ \A q, r \in Refreshers : refresh[q].busy /\ refresh[r].busy => q = r

(* Stale-while-revalidate: once the slot has a value, no caller waits for  *)
(* somebody's fetch.                                                       *)
WarmNeverBlocks == ~Cold => Unlocked

(* What a caller is handed is never older than what it was handed before:  *)
(* "insert supersedes older background refresh", seen from outside.        *)
ReadsDoNotGoBack == [][\A c \in Callers : served[c] <= served'[c]]_vars

(* An expired value that was asked for is being refreshed only for a time: *)
(* every refresh ends and the next one can begin.                          *)
RefreshesEnd == refreshing ~> ~refreshing

(* The slot is a value that is replaced atomically, although fetches take  *)
(* time and run beside the inserts: a replacement knew of the one before   *)
(* it, so no inserted value is lost to a fetch that began earlier.         *)
Cache == INSTANCE CachedValue WITH value <- [by |-> cached.by, seen |-> cached.seen]
ImplementsCachedValue == Cache!Spec

(* One refresh at a time, and nobody waits for it (get_or_refresh).        *)
SlotIsServed == OneRefresh /\ WarmNeverBlocks

(* Whoever reads the slot sees a value that is replaced atomically and     *)
(* never an older one than before (peek, insert, get_or_refresh).          *)
SlotIsACache == ImplementsCachedValue /\ ReadsDoNotGoBack
=============================================================================
