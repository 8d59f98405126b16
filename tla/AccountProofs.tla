---------------------------- MODULE AccountProofs ---------------------------
(***************************************************************************)
(* Proofs about ProviderAccounts for any number of backends, plugins,      *)
(* processes and attempts.  The invariant follows who is responsible for   *)
(* each row and for each runtime: a row without a model has the finalize   *)
(* that made it, and a runtime that a process has, or will have when it    *)
(* has served its requests, has a row or somebody who still takes it away. *)
(*                                                                         *)
(* And about ModelCatalog, for any listings: the models that an account    *)
(* offers can be used.                                                     *)
(***************************************************************************)
EXTENDS ProviderAccounts, ModelCatalog, NaturalsInduction, WellFoundedInduction, TLAPS

FinSteps == {"idle", "over", "asking", "flow", "authorized", "inserted", "initing", "ready", "listed",
             "failed", "cleaning"}
Requests == [op : {"init", "remove"}, backend : Backends, from : Attempts \cup {Null}, waited : BOOLEAN]
DistinctRows(table) == \A i, j \in DOMAIN table : table[i] = table[j] => i = j

AccountsTypeOK ==
    /\ app \in {"up", "down"}
    /\ rows \in Seq(Backends) /\ DistinctRows(rows)
    /\ unset \in SUBSET Backends /\ preferred \in Backends \cup {Null} /\ plugins \in SUBSET Providers
    /\ handlers \in [Providers -> Procs \cup {Null}]
    /\ runtimes \in [Procs -> SUBSET Backends] /\ inbox \in [Procs -> Seq(Requests)]
    /\ killed \in SUBSET Procs
    /\ fin \in [Attempts -> [at : FinSteps, proc : Procs \cup {Null}]]
    /\ leaving \in SUBSET Backends
    /\ adm \in [Providers -> [at : {"idle", "updating", "removing"}, proc : Procs \cup {Null}]]
    /\ torn \in SUBSET Backends /\ overtaken \in SUBSET Backends

AtWork(a) == fin[a].at \notin {"idle", "over"}
Owns(a, b) == BackendOf[a] = b /\ fin[a].at \in {"inserted", "initing", "ready", "listed", "failed"}

(* Who holds a process.  One that is being prepared has no other holder    *)
(* and no request; one that is registered is not shut down.                *)
ProcsInv ==
    /\ \A a \in Attempts : AtWork(a) <=> fin[a].proc # Null
    /\ \A p \in Providers : adm[p].at = "updating" <=> adm[p].proc # Null
    /\ \A p, q \in Providers : handlers[p] # Null /\ handlers[p] = handlers[q] => p = q
    /\ \A p, q \in Providers : adm[p].proc # Null /\ adm[p].proc = adm[q].proc => p = q
    /\ \A p \in Providers : adm[p].proc # Null =>
            /\ \A q \in Providers : handlers[q] # adm[p].proc
            /\ \A a \in Attempts : fin[a].proc # adm[p].proc
            /\ inbox[adm[p].proc] = <<>> /\ adm[p].proc \notin killed
    /\ \A p \in Providers : handlers[p] \notin killed

(* A plugin without a row that nobody works on is not registered; and      *)
(* while the program is down nobody is at work.                            *)
PluginsInv ==
    /\ \A p \in Providers :
        /\ adm[p].at = "updating" => p \in plugins
        /\ p \notin Builtin \cup plugins /\ adm[p].at = "idle" => handlers[p] = Null
    /\ app = "down" => /\ \A a \in Attempts : ~AtWork(a)
                       /\ \A p \in Providers : adm[p].at = "idle" /\ handlers[p] = Null

(* A finalize that was not overtaken talks to the registered process; its  *)
(* row is there, and nobody else's, until the plugin is removed.           *)
FinalizersInv ==
    \A a \in Attempts : AtWork(a) /\ BackendOf[a] \notin overtaken =>
        /\ fin[a].proc = handlers[ProviderOf[BackendOf[a]]]
        /\ Owns(a, BackendOf[a]) =>
            /\ InTable(BackendOf[a]) \/ adm[ProviderOf[BackendOf[a]]].at = "removing"
            /\ \A c \in Attempts : Owns(c, BackendOf[a]) => c = a

(* A row has its plugin, and its model unless it has its finalize.         *)
AccountRowsInv ==
    \A b \in Backends : InTable(b) /\ b \notin torn \cup overtaken =>
        /\ b \in unset => \E a \in Attempts : Owns(a, b)
        /\ ProviderOf[b] \in Builtin \cup plugins

(* Whether a process will have a runtime for b once it has served q.       *)
WillRun(q, running, b) ==
    \/ b \in running /\ \A i \in DOMAIN q : q[i].backend # b
    \/ \E i \in DOMAIN q : /\ q[i].op = "init" /\ q[i].backend = b
                           /\ \A j \in DOMAIN q : j > i => q[j].backend # b

(* Somebody has still to take the runtime of b away.                       *)
Expected(b) ==
    \/ InTable(b) \/ b \in overtaken \/ b \in leaving
    \/ adm[ProviderOf[b]].at = "removing"
    \/ \E a \in Attempts : BackendOf[a] = b /\ fin[a].at = "cleaning"

RuntimesInv ==
    \A b \in Backends :
        LET k == handlers[ProviderOf[b]]
        IN  k # Null /\ WillRun(inbox[k], runtimes[k], b) => Expected(b)

AccountsInv ==
    /\ AccountsTypeOK /\ PreferredIsConnected
    /\ ProcsInv /\ PluginsInv /\ FinalizersInv /\ AccountRowsInv /\ RuntimesInv


-----------------------------------------------------------------------------
(* The tables.                                                             *)

(* Induction over the numbers up to a bound, in the form of sets.          *)
LEMMA UpToBound ==
  ASSUME NEW m \in Nat, NEW S, 0 \in S, \A n \in S \cap (0..m) : n < m => n + 1 \in S
  PROVE  0..m \subseteq S
<1> SUFFICES ASSUME (0..m) \ S # {} PROVE FALSE
  OBVIOUS
<1> DEFINE R == OpToRel(<, Nat)
           T == (0..m) \ S
<1>1. IsWellFoundedOn(R, Nat)
  BY NatLessThanWellFounded
<1>2. R = {ss \in Nat \X Nat : ss[1] < ss[2]}
  BY DEF OpToRel
<1>3. T \in SUBSET Nat /\ T # {}
  OBVIOUS
<1> HIDE DEF R, T
<1>4. PICK x \in T : \A y \in T : ~(<<y, x>> \in R)
  BY <1>1, <1>3, WFMin
<1>5. x \in 0..m /\ x \notin S /\ x # 0
  BY <1>4 DEF T
<1>6. x - 1 \in 0..m /\ x - 1 < m /\ (x - 1) + 1 = x
  BY <1>5
<1>7. x - 1 \notin S
  BY <1>5, <1>6
<1>8. x - 1 \in T /\ <<x - 1, x>> \in R
  BY <1>2, <1>5, <1>6, <1>7 DEF T
<1> QED  BY <1>4, <1>8

(* Deleting a row leaves the others, in their order.                       *)
LEMMA WithoutFacts ==
  ASSUME NEW table \in Seq(Backends), DistinctRows(table), NEW b
  PROVE  /\ Without(table, b) \in Seq(Backends) /\ DistinctRows(Without(table, b))
         /\ ToSet(Without(table, b)) = ToSet(table) \ {b}
<1>1. CASE {i \in DOMAIN table : table[i] = b} = {}
  BY <1>1 DEF Without, ToSet
<1>2. CASE {i \in DOMAIN table : table[i] = b} # {}
  <2> DEFINE k == CHOOSE i \in {j \in DOMAIN table : table[j] = b} : TRUE
             rest == RemoveAt(table, k)
  <2>1. k \in 1..Len(table) /\ table[k] = b /\ Without(table, b) = rest
    BY <1>2 DEF Without
  <2> HIDE DEF k
  <2> DEFINE before == SubSeq(table, 1, k - 1)
             after == SubSeq(table, k + 1, Len(table))
  <2>2. rest = before \o after
    BY DEF RemoveAt
  <2>3. before \in Seq(Backends) /\ Len(before) = k - 1 /\ \A i \in 1..(k - 1) : before[i] = table[i]
    BY <2>1
  <2>4. after \in Seq(Backends) /\ Len(after) = Len(table) - k /\ \A i \in 1..(Len(table) - k) : after[i] = table[i + k]
    BY <2>1
  <2> HIDE DEF rest, before, after
  <2>5. /\ rest \in Seq(Backends) /\ Len(rest) = Len(table) - 1
        /\ \A i \in 1..(Len(table) - 1) : rest[i] = IF i < k THEN table[i] ELSE table[i + 1]
    <3>1. rest \in Seq(Backends) /\ Len(rest) = Len(table) - 1
      BY <2>1, <2>2, <2>3, <2>4
    <3>2. ASSUME NEW i \in 1..(Len(table) - 1) PROVE rest[i] = IF i < k THEN table[i] ELSE table[i + 1]
      <4>1. CASE i < k
        BY <2>1, <2>2, <2>3, <2>4, <4>1
      <4>2. CASE ~(i < k)
        <5>1. i - (k - 1) \in 1..(Len(table) - k) /\ (i - (k - 1)) + k = i + 1
          BY <2>1, <4>2
        <5>2. rest[i] = after[i - (k - 1)]
          BY <2>1, <2>2, <2>3, <2>4, <4>2
        <5> QED  BY <2>4, <4>2, <5>1, <5>2
      <4> QED  BY <4>1, <4>2
    <3> QED  BY <3>1, <3>2
  <2>6. DistinctRows(rest)
    BY <2>1, <2>5, SMTT(30) DEF DistinctRows
  <2>7. ToSet(rest) = ToSet(table) \ {b}
    <3>1. ASSUME NEW i \in DOMAIN rest PROVE rest[i] \in ToSet(table) \ {b}
      <4>1. PICK j \in DOMAIN table : j # k /\ rest[i] = table[j]
        BY <2>1, <2>5
      <4> QED  BY <2>1, <4>1 DEF ToSet, DistinctRows
    <3>2. ASSUME NEW j \in DOMAIN table, table[j] # b PROVE \E i \in DOMAIN rest : rest[i] = table[j]
      <4>1. j # k
        BY <2>1, <3>2
      <4>2. CASE j < k
        <5>1. j \in 1..(Len(table) - 1) /\ j \in DOMAIN rest
          BY <2>1, <2>5, <4>2
        <5> QED  BY <2>5, <4>2, <5>1
      <4>3. CASE j > k
        <5>1. j - 1 \in 1..(Len(table) - 1) /\ j - 1 \in DOMAIN rest /\ ~(j - 1 < k) /\ (j - 1) + 1 = j
          BY <2>1, <2>5, <4>3
        <5> QED  BY <2>5, <5>1
      <4> QED  BY <2>1, <4>1, <4>2, <4>3
    <3> QED  BY <3>1, <3>2 DEF ToSet
  <2> QED  BY <2>1, <2>5, <2>6, <2>7
<1> QED  BY <1>1, <1>2

(* A table whose preferred backend is one of its rows, if it has any.      *)
SoundTables ==
    {t \in [rows : Seq(Backends), preferred : Backends \cup {Null}] :
        /\ DistinctRows(t.rows)
        /\ t.preferred = Null <=> t.rows = <<>>
        /\ t.preferred # Null => t.preferred \in ToSet(t.rows)}

(* The trigger keeps the tables sound.                                     *)
LEMMA DeleteRowSound ==
  ASSUME NEW t \in SoundTables, NEW b \in ToSet(t.rows)
  PROVE  DeleteRow(t, b) \in SoundTables /\ ToSet(DeleteRow(t, b).rows) = ToSet(t.rows) \ {b}
<1> DEFINE rest == Without(t.rows, b)
<1>1. /\ t.rows \in Seq(Backends) /\ DistinctRows(t.rows) /\ t.preferred \in Backends \cup {Null}
      /\ t.preferred = Null <=> t.rows = <<>>
      /\ t.preferred # Null => t.preferred \in ToSet(t.rows)
  BY DEF SoundTables
<1>2. rest \in Seq(Backends) /\ DistinctRows(rest) /\ ToSet(rest) = ToSet(t.rows) \ {b}
  BY <1>1, WithoutFacts
<1> HIDE DEF rest
<1>3. rest # <<>> => Head(rest) \in Backends /\ Head(rest) \in ToSet(rest)
  BY <1>2 DEF ToSet
<1>4. rest = <<>> => ToSet(rest) = {}
  BY DEF ToSet
<1>5. t.rows # <<>>
  BY <1>1 DEF ToSet
<1>6. Null \notin Backends
  BY AccountsAssumption
<1>7. DeleteRow(t, b) = [rows |-> rest, preferred |-> IF t.preferred # b THEN t.preferred
                                                      ELSE IF rest = <<>> THEN Null ELSE Head(rest)]
  BY DEF DeleteRow, Reassign, rest
<1>8. CASE t.preferred # b
  <2>1. t.preferred \in ToSet(rest)
    BY <1>1, <1>2, <1>5, <1>8
  <2> QED  BY <1>1, <1>2, <1>4, <1>5, <1>7, <1>8, <2>1 DEF SoundTables
<1>9. CASE t.preferred = b
  BY <1>2, <1>3, <1>6, <1>7, <1>9 DEF SoundTables
<1> QED  BY <1>8, <1>9

(* So does deleting several, one by one, which leaves all the others.      *)
LEMMA DeleteBackendsSound ==
  ASSUME AccountsTypeOK, PreferredIsConnected, NEW bs, DeleteBackends(bs)
  PROVE  /\ rows' \in Seq(Backends) /\ DistinctRows(rows') /\ preferred' \in Backends \cup {Null}
         /\ PreferredIsConnected'
         /\ ToSet(rows') = ToSet(rows) \ bs /\ unset' = unset \ bs
<1> DEFINE n == Len(rows)
           start == [rows |-> rows, preferred |-> preferred]
           body(f) == [i \in 0..n |-> IF i = 0 THEN start
                                      ELSE IF rows[i] \in bs THEN DeleteRow(f[i - 1], rows[i]) ELSE f[i - 1]]
           upTo == CHOOSE f : f = body(f)
           Gone(i) == {rows[j] : j \in {h \in 1..i : rows[h] \in bs}}
           Left(i) == {t \in SoundTables : ToSet(t.rows) = ToSet(rows) \ Gone(i)}
<1>1. rows' = upTo[n].rows /\ preferred' = upTo[n].preferred /\ unset' = unset \ bs
  BY DEF DeleteBackends
<1>2. n \in Nat /\ rows \in Seq(Backends) /\ DistinctRows(rows)
  BY DEF AccountsTypeOK
<1>3. start \in SoundTables /\ start \in Left(0)
  <2>1. start \in SoundTables
    BY DEF AccountsTypeOK, PreferredIsConnected, SoundTables, InTable
  <2>2. Gone(0) = {}
    OBVIOUS
  <2> QED  BY <2>1, <2>2
<1> HIDE DEF start
<1>4. ASSUME NEW i \in 1..n, NEW t \in Left(i - 1)
      PROVE  (IF rows[i] \in bs THEN DeleteRow(t, rows[i]) ELSE t) \in Left(i)
  <2>1. i \in 1..Len(rows) /\ rows[i] \in ToSet(rows)
    BY <1>2 DEF ToSet
  <2>2. rows[i] \notin Gone(i - 1)
    BY <1>2, <2>1 DEF DistinctRows
  <2>3. CASE rows[i] \in bs
    <3>1. Gone(i) = Gone(i - 1) \cup {rows[i]}
      <4>1. {h \in 1..i : rows[h] \in bs} = {h \in 1..(i - 1) : rows[h] \in bs} \cup {i}
        BY <2>1, <2>3
      <4> QED  BY <4>1
    <3>2. rows[i] \in ToSet(t.rows) /\ t \in SoundTables
      BY <2>1, <2>2
    <3>3. DeleteRow(t, rows[i]) \in SoundTables /\ ToSet(DeleteRow(t, rows[i]).rows) = ToSet(t.rows) \ {rows[i]}
      BY <3>2, DeleteRowSound
    <3>4. ToSet(t.rows) \ {rows[i]} = ToSet(rows) \ Gone(i)
      BY <3>1
    <3> QED  BY <2>3, <3>3, <3>4
  <2>4. CASE rows[i] \notin bs
    <3>1. {h \in 1..i : rows[h] \in bs} = {h \in 1..(i - 1) : rows[h] \in bs}
      BY <2>1, <2>4
    <3>2. Gone(i) = Gone(i - 1)
      BY <3>1
    <3> QED  BY <2>4, <3>2
  <2> QED  BY <2>3, <2>4
<1> HIDE DEF Left
<1> DEFINE One(i, t) == IF rows[i] \in bs THEN DeleteRow(t, rows[i]) ELSE t
           Made(m, f) == f[0] = start /\ \A i \in 1..m : f[i] = One(i, f[i - 1]) /\ f[i] \in Left(i)
           S == {m \in 0..n : \E f \in [0..m -> SoundTables] : Made(m, f)}
<1> HIDE DEF n
<1>5. \A i \in 0..n : Left(i) \subseteq SoundTables
  BY DEF Left
<1>6. 0 \in S
  <2> DEFINE g == [i \in 0..0 |-> start]
  <2>1. g \in [0..0 -> SoundTables] /\ Made(0, g)
    BY <1>3
  <2> HIDE DEF g
  <2> QED  BY <1>2, <2>1
<1>7. \A i \in 1..n : \A t \in Left(i - 1) : One(i, t) \in Left(i)
  BY <1>4
<1> HIDE DEF One
<1>8. ASSUME NEW m \in S \cap (0..n), m < n PROVE m + 1 \in S
  <2>1. PICK f \in [0..m -> SoundTables] : Made(m, f)
    BY <1>8
  <2> DEFINE g == [i \in 0..(m + 1) |-> IF i = m + 1 THEN One(m + 1, f[m]) ELSE f[i]]
  <2>2. m \in Nat /\ m + 1 \in 1..n /\ m \in 0..m /\ (m + 1) - 1 = m
    BY <1>2, <1>8
  <2>3. f[m] \in Left(m)
    BY <1>3, <2>1, <2>2
  <2>4. One(m + 1, f[m]) \in Left(m + 1) /\ One(m + 1, f[m]) \in SoundTables
    BY <1>5, <1>7, <2>2, <2>3
  <2>5. g \in [0..(m + 1) -> SoundTables]
    BY <2>2, <2>4
  <2>6. g[0] = start
    BY <2>1, <2>2
  <2>7. ASSUME NEW i \in 1..(m + 1) PROVE g[i] = One(i, g[i - 1]) /\ g[i] \in Left(i)
    <3>1. CASE i = m + 1
      BY <2>2, <2>4, <3>1
    <3>2. CASE i # m + 1
      <4>1. i \in 1..m /\ i \in 0..(m + 1) /\ i - 1 \in 0..(m + 1) /\ i - 1 # m + 1
        BY <2>2, <3>2
      <4>2. f[i] = One(i, f[i - 1]) /\ f[i] \in Left(i) /\ g[i] = f[i] /\ g[i - 1] = f[i - 1]
        BY <2>1, <3>2, <4>1
      <4> QED  BY <4>2
    <3> QED  BY <3>1, <3>2
  <2> HIDE DEF g
  <2>8. Made(m + 1, g)
    BY <2>6, <2>7
  <2>9. m + 1 \in 0..n
    BY <2>2
  <2> QED  BY <2>5, <2>8, <2>9
<1>9. n \in S
  <2>1. n \in 0..n
    BY <1>2
  <2> HIDE DEF S
  <2> QED  BY <1>2, <1>6, <1>8, <2>1, UpToBound
<1>10. PICK f \in [0..n -> SoundTables] : Made(n, f)
  BY <1>9
<1>11. f = body(f)
  <2>1. ASSUME NEW i \in 0..n
        PROVE  f[i] = IF i = 0 THEN start
                      ELSE IF rows[i] \in bs THEN DeleteRow(f[i - 1], rows[i]) ELSE f[i - 1]
    <3>1. CASE i = 0
      BY <1>10, <3>1
    <3>2. CASE i # 0
      <4>1. i \in 1..n
        BY <1>2, <3>2
      <4> QED  BY <1>10, <3>2, <4>1 DEF One
    <3> QED  BY <3>1, <3>2
  <2> QED  BY <1>10, <2>1
<1>12. upTo = body(upTo)
  <2> HIDE DEF body
  <2> QED  BY <1>11
<1> HIDE DEF upTo
<1> DEFINE U == {i \in 0..n : upTo[i] \in Left(i)}
<1>13. n \in U
  <2>1. 0 \in U
    BY <1>2, <1>3, <1>12
  <2>2. ASSUME NEW i \in U \cap (0..n), i < n PROVE i + 1 \in U
    <3>1. i + 1 \in 1..n /\ i + 1 \in 0..n /\ (i + 1) - 1 = i /\ i + 1 # 0 /\ upTo[i] \in Left((i + 1) - 1)
      BY <1>2, <2>2
    <3>2. upTo[i + 1] = IF rows[i + 1] \in bs THEN DeleteRow(upTo[i], rows[i + 1]) ELSE upTo[i]
      BY <1>12, <3>1
    <3> QED  BY <1>4, <3>1, <3>2
  <2>3. n \in 0..n
    BY <1>2
  <2> HIDE DEF U
  <2> QED  BY <1>2, <2>1, <2>2, <2>3, UpToBound
<1>14. upTo[n] \in SoundTables /\ ToSet(upTo[n].rows) = ToSet(rows) \ Gone(n)
  BY <1>13 DEF Left
<1>15. ToSet(rows) \ Gone(n) = ToSet(rows) \ bs
  BY <1>2 DEF ToSet, n
<1> QED  BY <1>1, <1>14, <1>15 DEF SoundTables, PreferredIsConnected, InTable

-----------------------------------------------------------------------------
(* The requests of a process.                                              *)

(* A request for another backend changes nothing for b, and the last one   *)
(* decides.                                                                *)
LEMMA WillRunAppend ==
  ASSUME NEW q \in Seq(Requests), NEW r \in Requests, NEW running, NEW b
  PROVE  /\ r.backend # b => (WillRun(Append(q, r), running, b) <=> WillRun(q, running, b))
         /\ r.backend = b /\ r.op = "remove" => ~WillRun(Append(q, r), running, b)
<1> DEFINE s == Append(q, r)
           n == Len(q)
<1>1. n \in Nat /\ DOMAIN q = 1..n /\ DOMAIN s = 1..(n + 1) /\ s[n + 1] = r /\ \A i \in 1..n : s[i] = q[i]
  OBVIOUS
<1> HIDE DEF s, n
<1>2. ASSUME r.backend # b PROVE WillRun(s, running, b) <=> WillRun(q, running, b)
  <2>1. (\A i \in DOMAIN s : s[i].backend # b) <=> (\A i \in DOMAIN q : q[i].backend # b)
    BY <1>1, <1>2
  <2>2. ASSUME NEW i \in DOMAIN q
        PROVE  (\A j \in DOMAIN s : j > i => s[j].backend # b) <=> (\A j \in DOMAIN q : j > i => q[j].backend # b)
    BY <1>1, <1>2
  <2>3. ASSUME NEW i \in DOMAIN s, s[i].backend = b PROVE i \in DOMAIN q /\ s[i] = q[i]
    BY <1>1, <1>2, <2>3
  <2>4. ASSUME NEW i \in DOMAIN q PROVE i \in DOMAIN s /\ s[i] = q[i]
    BY <1>1
  <2> QED  BY <2>1, <2>2, <2>3, <2>4 DEF WillRun
<1>3. ASSUME r.backend = b, r.op = "remove" PROVE ~WillRun(s, running, b)
  <2>1. n + 1 \in DOMAIN s /\ s[n + 1].backend = b /\ s[n + 1].op # "init"
    BY <1>1, <1>3
  <2>2. \A i \in DOMAIN s : i # n + 1 => n + 1 > i
    BY <1>1
  <2> QED  BY <2>1, <2>2 DEF WillRun
<1> QED  BY <1>2, <1>3 DEF s

(* Serving a request does not change what there will be in the end, except *)
(* that an init may fail.                                                  *)
LEMMA WillRunServe ==
  ASSUME NEW q \in Seq(Requests), q # <<>>, NEW running, NEW served, NEW b,
         b \in served => \/ b \in running /\ (Head(q).op = "remove" => Head(q).backend # b)
                         \/ Head(q).op = "init" /\ Head(q).backend = b,
         WillRun(Tail(q), served, b)
  PROVE  WillRun(q, running, b)
<1> DEFINE s == Tail(q)
           n == Len(q)
           r == Head(q)
<1>1. /\ n \in Nat /\ n > 0 /\ DOMAIN q = 1..n /\ DOMAIN s = 1..(n - 1) /\ q[1] = r /\ r \in Requests
      /\ \A i \in 1..(n - 1) : s[i] = q[i + 1]
  OBVIOUS
<1>2. b \in served => \/ b \in running /\ (r.op = "remove" => r.backend # b)
                      \/ r.op = "init" /\ r.backend = b
  OBVIOUS
<1>3. WillRun(s, served, b)
  OBVIOUS
<1> HIDE DEF s, n, r
<1>4. r.op \in {"init", "remove"}
  BY <1>1 DEF Requests
<1>5. ASSUME NEW i \in DOMAIN q, i # 1 PROVE i - 1 \in DOMAIN s /\ q[i] = s[i - 1]
  <2>1. i - 1 \in 1..(n - 1) /\ (i - 1) + 1 = i
    BY <1>1, <1>5
  <2> QED  BY <1>1, <2>1
<1>6. CASE b \in served /\ \A i \in DOMAIN s : s[i].backend # b
  <2>1. \A i \in DOMAIN q : i # 1 => q[i].backend # b
    BY <1>5, <1>6
  <2>2. CASE r.backend = b
    <3>1. r.op = "init"
      BY <1>2, <1>4, <1>6, <2>2
    <3>2. 1 \in DOMAIN q /\ \A j \in DOMAIN q : j > 1 => j # 1
      BY <1>1
    <3> QED  BY <1>1, <2>1, <2>2, <3>1, <3>2 DEF WillRun
  <2>3. CASE r.backend # b
    <3>1. b \in running
      BY <1>2, <1>6, <2>3
    <3>2. \A i \in DOMAIN q : q[i].backend # b
      BY <1>1, <2>1, <2>3
    <3> QED  BY <3>1, <3>2 DEF WillRun
  <2> QED  BY <2>2, <2>3
<1>7. CASE \E i \in DOMAIN s : /\ s[i].op = "init" /\ s[i].backend = b
                               /\ \A j \in DOMAIN s : j > i => s[j].backend # b
  <2>1. PICK i \in DOMAIN s : /\ s[i].op = "init" /\ s[i].backend = b
                              /\ \A j \in DOMAIN s : j > i => s[j].backend # b
    BY <1>7
  <2>2. i + 1 \in DOMAIN q /\ q[i + 1] = s[i]
    BY <1>1
  <2>3. ASSUME NEW j \in DOMAIN q, j > i + 1 PROVE q[j].backend # b
    <3>1. j # 1 /\ j - 1 > i
      BY <1>1, <2>3
    <3> QED  BY <1>5, <2>1, <3>1
  <2> QED  BY <2>1, <2>2, <2>3 DEF WillRun
<1> QED  BY <1>3, <1>6, <1>7 DEF WillRun

(* What is done with the answer does not matter.                           *)
LEMMA WillRunSame ==
  ASSUME NEW q, NEW s, DOMAIN s = DOMAIN q, NEW running, NEW b,
         \A i \in DOMAIN q : s[i].op = q[i].op /\ s[i].backend = q[i].backend
  PROVE  WillRun(s, running, b) <=> WillRun(q, running, b)
BY DEF WillRun

(* With nothing to serve, what is there will be.                           *)
LEMMA WillRunEmpty ==
  ASSUME NEW running, NEW b
  PROVE  WillRun(<<>>, running, b) <=> b \in running
BY DEF WillRun

-----------------------------------------------------------------------------
(* The steps of a finalize that move nothing but itself.                   *)

(* From the row to the model, or to the cleanup.                           *)
OwnSteps == {"inserted", "initing", "ready", "listed", "failed"}

(* A finalize moves alone: it keeps its process, gains no row, and gives   *)
(* one up only with its model set or on record.                            *)
LEMMA FinalizeMoves ==
  ASSUME AccountsInv, app = "up", NEW a \in Attempts,
         NEW e \in [at : FinSteps, proc : Procs \cup {Null}], fin' = [fin EXCEPT ![a] = e],
         e.at \notin {"idle", "over"} <=> e.proc # Null,
         e.proc \in {Null, fin[a].proc, handlers[ProviderOf[BackendOf[a]]]},
         e.at \in OwnSteps => fin[a].at \in OwnSteps,
         fin[a].at \in OwnSteps /\ e.at \notin OwnSteps => BackendOf[a] \notin unset' \ overtaken',
         fin[a].at = "cleaning" => BackendOf[a] \in overtaken',
         e.proc = fin[a].proc \/ e.proc = Null \/ fin[a].proc = Null,
         unset' \subseteq unset, overtaken \subseteq overtaken', overtaken' \subseteq Backends,
         UNCHANGED <<app, rows, preferred, plugins, handlers, runtimes, inbox, killed, leaving, adm, torn>>
  PROVE  AccountsInv'
<1> DEFINE b == BackendOf[a]
<1>1. AccountsTypeOK /\ PreferredIsConnected /\ ProcsInv /\ PluginsInv /\ FinalizersInv /\ AccountRowsInv /\ RuntimesInv
  BY DEF AccountsInv
<1>2. BackendOf \in [Attempts -> Backends] /\ Null \notin Procs
  BY AccountsAssumption
<1>3. fin \in [Attempts -> [at : FinSteps, proc : Procs \cup {Null}]]
  BY <1>1 DEF AccountsTypeOK
<1>4. fin'[a] = e /\ \A c \in Attempts : c # a => fin'[c] = fin[c]
  BY <1>3
<1>5. AccountsTypeOK'
  <2>1. fin' \in [Attempts -> [at : FinSteps, proc : Procs \cup {Null}]]
    BY <1>3
  <2> QED  BY <1>1, <2>1 DEF AccountsTypeOK
<1>6. PreferredIsConnected'
  BY <1>1 DEF PreferredIsConnected, InTable
<1>7. \A c \in Attempts : Owns(c, BackendOf[c])' => Owns(c, BackendOf[c])
  BY <1>4 DEF Owns, OwnSteps
<1>8. ProcsInv'
  <2>1. \A c \in Attempts : AtWork(c)' <=> fin'[c].proc # Null
    BY <1>1, <1>4 DEF ProcsInv, AtWork
  <2>2. \A p \in Providers : adm[p].proc # Null => \A c \in Attempts : fin'[c].proc # adm[p].proc
    <3> SUFFICES ASSUME NEW p \in Providers, adm[p].proc # Null PROVE e.proc # adm[p].proc
      BY <1>1, <1>4 DEF ProcsInv
    <3>1. fin[a].proc # adm[p].proc /\ \A q \in Providers : handlers[q] # adm[p].proc
      BY <1>1 DEF ProcsInv
    <3>2. ProviderOf[b] \in Providers
      BY <1>2 DEF Providers
    <3> QED  BY <3>1, <3>2
  <2> QED  BY <1>1, <2>1, <2>2 DEF ProcsInv
<1>9. PluginsInv'
  BY <1>1 DEF PluginsInv
<1>10. FinalizersInv'
  <2> SUFFICES ASSUME NEW c \in Attempts, AtWork(c)', BackendOf[c] \notin overtaken'
               PROVE  /\ fin'[c].proc = handlers[ProviderOf[BackendOf[c]]]
                      /\ Owns(c, BackendOf[c])' =>
                            /\ InTable(BackendOf[c]) \/ adm[ProviderOf[BackendOf[c]]].at = "removing"
                            /\ \A d \in Attempts : Owns(d, BackendOf[c])' => d = c
    BY DEF FinalizersInv, InTable
  <2>1. BackendOf[c] \notin overtaken
    OBVIOUS
  <2>2. fin'[c].proc = handlers[ProviderOf[BackendOf[c]]]
    <3>1. CASE c # a
      BY <1>1, <1>4, <2>1, <3>1 DEF FinalizersInv, AtWork
    <3>2. CASE c = a
      <4>1. e.proc # Null
        BY <1>4, <3>2 DEF AtWork
      <4>2. CASE e.proc = fin[a].proc
        <5>1. AtWork(a)
          BY <1>1, <4>1, <4>2 DEF ProcsInv
        <5> QED  BY <1>1, <1>4, <2>1, <3>2, <4>2, <5>1 DEF FinalizersInv
      <4>3. CASE e.proc # fin[a].proc
        BY <1>4, <3>2, <4>1, <4>3
      <4> QED  BY <4>2, <4>3
    <3> QED  BY <3>1, <3>2
  <2>3. ASSUME Owns(c, BackendOf[c])'
        PROVE  /\ InTable(BackendOf[c]) \/ adm[ProviderOf[BackendOf[c]]].at = "removing"
               /\ \A d \in Attempts : Owns(d, BackendOf[c])' => d = c
    <3>1. Owns(c, BackendOf[c]) /\ AtWork(c)
      BY <1>7, <2>3 DEF Owns, AtWork
    <3>2. \A d \in Attempts : Owns(d, BackendOf[c])' => Owns(d, BackendOf[c])
      BY <1>7 DEF Owns
    <3> QED  BY <1>1, <2>1, <3>1, <3>2 DEF FinalizersInv
  <2> QED  BY <2>2, <2>3
<1>11. AccountRowsInv'
  <2> SUFFICES ASSUME NEW c \in Backends, InTable(c), c \notin torn \cup overtaken'
               PROVE  /\ c \in unset' => \E d \in Attempts : Owns(d, c)'
                      /\ ProviderOf[c] \in Builtin \cup plugins
    BY DEF AccountRowsInv, InTable
  <2>1. /\ c \in unset => \E d \in Attempts : Owns(d, c)
        /\ ProviderOf[c] \in Builtin \cup plugins
    BY <1>1 DEF AccountRowsInv
  <2>2. ASSUME c \in unset' PROVE \E d \in Attempts : Owns(d, c)'
    <3>1. PICK d \in Attempts : Owns(d, c)
      BY <2>1, <2>2
    <3>2. CASE d # a
      BY <1>4, <3>1, <3>2 DEF Owns
    <3>3. CASE d = a
      BY <1>4, <2>2, <3>1, <3>3 DEF Owns, OwnSteps
    <3> QED  BY <3>2, <3>3
  <2> QED  BY <2>1, <2>2
<1>12. RuntimesInv'
  <2> SUFFICES ASSUME NEW c \in Backends, Expected(c) PROVE Expected(c)'
    BY <1>1 DEF RuntimesInv
  <2>1. ASSUME NEW d \in Attempts, BackendOf[d] = c, fin[d].at = "cleaning"
        PROVE  c \in overtaken' \/ fin'[d].at = "cleaning"
    BY <1>4, <2>1
  <2> QED  BY <2>1 DEF Expected, InTable
<1> QED  BY <1>5, <1>6, <1>8, <1>9, <1>10, <1>11, <1>12 DEF AccountsInv

(* What is known of the constants.                                         *)
LEMMA AccountFacts ==
  /\ BackendOf \in [Attempts -> Backends] /\ Null \notin Backends /\ Null \notin Procs /\ Null \notin Attempts
  /\ \A b \in Backends : ProviderOf[b] \in Providers
  /\ \A a \in Attempts : BackendOf[a] \in Backends /\ ProviderOf[BackendOf[a]] \in Providers
<1>1. BackendOf \in [Attempts -> Backends] /\ Null \notin Backends /\ Null \notin Procs /\ Null \notin Attempts
  BY AccountsAssumption
<1>2. \A b \in Backends : ProviderOf[b] \in Providers
  BY DEF Providers
<1> QED  BY <1>1, <1>2

(* The record of a finalize after Goto and after Return.                   *)
LEMMA GotoForm ==
  ASSUME AccountsTypeOK, NEW a \in Attempts, NEW pc \in FinSteps, Goto(a, pc)
  PROVE  /\ [at |-> pc, proc |-> fin[a].proc] \in [at : FinSteps, proc : Procs \cup {Null}]
         /\ fin' = [fin EXCEPT ![a] = [at |-> pc, proc |-> fin[a].proc]]
         /\ fin'[a] = [at |-> pc, proc |-> fin[a].proc]
         /\ \A c \in Attempts : c # a => fin'[c] = fin[c]
         /\ fin' \in [Attempts -> [at : FinSteps, proc : Procs \cup {Null}]]
<1> DEFINE e == [fin[a] EXCEPT !.at = pc]
<1>1. fin \in [Attempts -> [at : FinSteps, proc : Procs \cup {Null}]]
  BY DEF AccountsTypeOK
<1>2. fin[a] \in [at : FinSteps, proc : Procs \cup {Null}]
  BY <1>1
<1>3. e = [at |-> pc, proc |-> fin[a].proc] /\ e \in [at : FinSteps, proc : Procs \cup {Null}]
  BY <1>2
<1>4. fin' = [fin EXCEPT ![a] = e]
  BY DEF Goto
<1> HIDE DEF e
<1> QED  BY <1>1, <1>3, <1>4

(* The same for Return.                                                    *)
LEMMA ReturnForm ==
  ASSUME AccountsTypeOK, NEW a \in Attempts, Return(a)
  PROVE  /\ [at |-> "over", proc |-> Null] \in [at : FinSteps, proc : Procs \cup {Null}]
         /\ fin' = [fin EXCEPT ![a] = [at |-> "over", proc |-> Null]]
         /\ fin'[a] = [at |-> "over", proc |-> Null]
         /\ \A c \in Attempts : c # a => fin'[c] = fin[c]
         /\ fin' \in [Attempts -> [at : FinSteps, proc : Procs \cup {Null}]]
BY DEF AccountsTypeOK, Return, FinSteps

(* A finalize that goes on in its own steps, or from one of the steps      *)
(* before it has a row to another.                                         *)
LEMMA GotoKeeps ==
  ASSUME AccountsInv, app = "up", NEW a \in Attempts, NEW pc \in FinSteps \ {"idle", "over"}, Goto(a, pc),
         fin[a].at \notin {"idle", "over", "cleaning"}, fin[a].at \in OwnSteps <=> pc \in OwnSteps,
         UNCHANGED <<app, accountTables, handlers, runtimes, inbox, killed, leaving, adm, torn, overtaken>>
  PROVE  AccountsInv'
<1> DEFINE e == [at |-> pc, proc |-> fin[a].proc]
<1>1. AccountsTypeOK /\ ProcsInv
  BY DEF AccountsInv
<1>2. e \in [at : FinSteps, proc : Procs \cup {Null}] /\ fin' = [fin EXCEPT ![a] = e]
  BY <1>1, GotoForm
<1>3. e.proc # Null
  BY <1>1 DEF ProcsInv, AtWork
<1>4. UNCHANGED <<app, rows, unset, preferred, plugins, handlers, runtimes, inbox, killed, leaving, adm,
                  torn, overtaken>>
  BY DEF accountTables
<1>5. e.at = pc /\ e.proc = fin[a].proc /\ overtaken \subseteq Backends
  BY <1>1 DEF AccountsTypeOK
<1> HIDE DEF e
<1> QED  BY <1>2, <1>3, <1>4, <1>5, FinalizeMoves

(* A finalize that gives up before it has a row.                           *)
LEMMA ReturnKeeps ==
  ASSUME AccountsInv, app = "up", NEW a \in Attempts, Return(a),
         fin[a].at \in OwnSteps => BackendOf[a] \notin unset' \ overtaken',
         fin[a].at = "cleaning" => BackendOf[a] \in overtaken',
         unset' \subseteq unset, overtaken \subseteq overtaken', overtaken' \subseteq Backends,
         UNCHANGED <<app, rows, preferred, plugins, handlers, runtimes, inbox, killed, leaving, adm, torn>>
  PROVE  AccountsInv'
<1> DEFINE e == [at |-> "over", proc |-> Null]
<1>1. AccountsTypeOK
  BY DEF AccountsInv
<1>2. e \in [at : FinSteps, proc : Procs \cup {Null}] /\ fin' = [fin EXCEPT ![a] = e]
  BY <1>1, ReturnForm
<1>3. e.at = "over" /\ e.proc = Null /\ e.at \notin OwnSteps
  BY DEF OwnSteps
<1> HIDE DEF e
<1> QED  BY <1>2, <1>3, FinalizeMoves

(* The flow with the service, the list of models, the stored model and an  *)
(* aborted call.                                                           *)
LEMMA KeptByQuietSteps ==
  ASSUME AccountsInv, NEW a \in Attempts,
         BeginFinalize(a) \/ FlowStarts(a) \/ FlowEnds(a) \/ ListModels(a) \/ StoreModel(a) \/ AbortFinalize(a)
  PROVE  AccountsInv'
<1>1. AccountsTypeOK /\ ProcsInv /\ overtaken \subseteq Backends
  BY DEF AccountsInv, AccountsTypeOK
<1>2. BackendOf[a] \in Backends /\ ProviderOf[BackendOf[a]] \in Providers
  BY AccountFacts
<1>3. CASE BeginFinalize(a)
  <2> DEFINE k == handlers[ProviderOf[BackendOf[a]]]
             e == [at |-> "asking", proc |-> k]
  <2>1. k # Null /\ fin' = [fin EXCEPT ![a] = e] /\ fin[a].at = "idle" /\ app = "up"
    BY <1>3 DEF BeginFinalize
  <2>2. k \in Procs \cup {Null}
    BY <1>1, <1>2 DEF AccountsTypeOK
  <2>3. e \in [at : FinSteps, proc : Procs \cup {Null}] /\ e.at = "asking" /\ e.proc = k
    BY <2>2 DEF FinSteps
  <2>4. UNCHANGED <<app, rows, unset, preferred, plugins, handlers, runtimes, inbox, killed, leaving, adm,
                  torn, overtaken>>
    BY <1>3 DEF BeginFinalize, accountTables
  <2>5. fin[a].proc = Null
    BY <1>1, <2>1 DEF ProcsInv, AtWork
  <2>6. e.at \notin OwnSteps /\ fin[a].at \notin OwnSteps
    BY <2>1 DEF OwnSteps
  <2> HIDE DEF e
  <2> QED  BY <1>1, <2>1, <2>3, <2>4, <2>5, <2>6, FinalizeMoves
<1>4. CASE FlowStarts(a)
  <2>1. /\ app = "up" /\ fin[a].at = "asking" /\ (Return(a) \/ Goto(a, "flow"))
        /\ UNCHANGED <<app, accountTables, handlers, runtimes, inbox, killed, leaving, adm, torn, overtaken>>
    BY <1>4 DEF FlowStarts
  <2>2. "flow" \in FinSteps \ {"idle", "over"} /\ "flow" \notin OwnSteps /\ "asking" \notin OwnSteps
    BY DEF FinSteps, OwnSteps
  <2> QED  BY <1>1, <2>1, <2>2, GotoKeeps, ReturnKeeps DEF accountTables
<1>5. CASE FlowEnds(a)
  <2>1. /\ app = "up" /\ fin[a].at = "flow" /\ (Return(a) \/ Goto(a, "authorized"))
        /\ UNCHANGED <<app, accountTables, handlers, runtimes, inbox, killed, leaving, adm, torn, overtaken>>
    BY <1>5 DEF FlowEnds
  <2>2. "authorized" \in FinSteps \ {"idle", "over"} /\ "flow" \notin OwnSteps /\ "authorized" \notin OwnSteps
    BY DEF FinSteps, OwnSteps
  <2> QED  BY <1>1, <2>1, <2>2, GotoKeeps, ReturnKeeps DEF accountTables
<1>6. CASE ListModels(a)
  <2>1. /\ app = "up" /\ fin[a].at = "ready" /\ (Goto(a, "failed") \/ Goto(a, "listed"))
        /\ UNCHANGED <<app, accountTables, handlers, runtimes, inbox, killed, leaving, adm, torn, overtaken>>
    BY <1>6 DEF ListModels
  <2>2. /\ "failed" \in FinSteps \ {"idle", "over"} /\ "listed" \in FinSteps \ {"idle", "over"}
        /\ "failed" \in OwnSteps /\ "listed" \in OwnSteps /\ "ready" \in OwnSteps
    BY DEF FinSteps, OwnSteps
  <2> QED  BY <2>1, <2>2, GotoKeeps
<1>7. CASE StoreModel(a)
  <2>1. /\ app = "up" /\ fin[a].at = "listed" /\ Return(a) /\ unset' = unset \ {BackendOf[a]}
        /\ UNCHANGED <<app, rows, preferred, plugins, handlers, runtimes, inbox, killed, leaving, adm, torn, overtaken>>
    BY <1>7 DEF StoreModel
  <2> QED  BY <1>1, <2>1, ReturnKeeps
<1>8. CASE AbortFinalize(a)
  <2>1. /\ app = "up" /\ Return(a)
        /\ overtaken' = IF UnderWay(BackendOf[a]) THEN overtaken \cup {BackendOf[a]} ELSE overtaken
        /\ UNCHANGED <<app, accountTables, handlers, runtimes, inbox, killed, leaving, adm, torn>>
    BY <1>8 DEF AbortFinalize
  <2>2. fin[a].at \in OwnSteps \cup {"cleaning"} => UnderWay(BackendOf[a])
    BY DEF OwnSteps, UnderWay
  <2>3. fin[a].at \in OwnSteps \cup {"cleaning"} => BackendOf[a] \in overtaken'
    BY <2>1, <2>2
  <2> QED  BY <1>1, <1>2, <2>1, <2>3, ReturnKeeps DEF accountTables
<1> QED  BY <1>3, <1>4, <1>5, <1>6, <1>7, <1>8

-----------------------------------------------------------------------------
(* The parts of the invariant under a step of one finalize.                *)

Moves(a) ==
    /\ \A c \in Attempts : c # a => fin'[c] = fin[c]
    /\ fin' \in [Attempts -> [at : FinSteps, proc : Procs \cup {Null}]]
    /\ \/ AtWork(a) /\ AtWork(a)' /\ fin'[a].proc = fin[a].proc
       \/ ~AtWork(a)' /\ fin'[a].proc = Null

(* Who holds which process.                                                *)
LEMMA ProcsKept ==
  ASSUME ProcsInv, NEW a \in Attempts, Moves(a), UNCHANGED <<handlers, adm, killed>>,
         \A p \in Providers : adm[p].proc # Null => inbox'[adm[p].proc] = inbox[adm[p].proc]
  PROVE  ProcsInv'
<1>1. \A c \in Attempts : AtWork(c)' <=> fin'[c].proc # Null
  BY DEF ProcsInv, Moves, AtWork
<1>2. \A p \in Providers : adm[p].proc # Null => \A c \in Attempts : fin'[c].proc # adm[p].proc
  <2> SUFFICES ASSUME NEW p \in Providers, adm[p].proc # Null, NEW c \in Attempts PROVE fin'[c].proc # adm[p].proc
    OBVIOUS
  <2>1. fin[c].proc # adm[p].proc
    BY DEF ProcsInv
  <2>2. fin'[c].proc = fin[c].proc \/ fin'[c].proc = Null
    BY DEF Moves
  <2> QED  BY <2>1, <2>2
<1> QED  BY <1>1, <1>2 DEF ProcsInv

(* No finalize comes to own a row, and a row goes only if nobody owns it   *)
(* any more or if that is recorded.                                        *)
LEMMA FinalizersKept ==
  ASSUME FinalizersInv, NEW a \in Attempts, Moves(a), UNCHANGED <<handlers, adm>>, overtaken \subseteq overtaken',
         fin'[a].at \in OwnSteps => fin[a].at \in OwnSteps,
         \A c \in Attempts : Owns(c, BackendOf[c])' /\ InTable(BackendOf[c]) /\ BackendOf[c] \notin overtaken' =>
             InTable(BackendOf[c])'
  PROVE  FinalizersInv'
<1> SUFFICES ASSUME NEW c \in Attempts, AtWork(c)', BackendOf[c] \notin overtaken'
             PROVE  /\ fin'[c].proc = handlers[ProviderOf[BackendOf[c]]]
                    /\ Owns(c, BackendOf[c])' =>
                         /\ InTable(BackendOf[c])' \/ adm[ProviderOf[BackendOf[c]]].at = "removing"
                         /\ \A d \in Attempts : Owns(d, BackendOf[c])' => d = c
  BY DEF FinalizersInv
<1>1. AtWork(c) /\ fin'[c].proc = fin[c].proc
  BY DEF Moves, AtWork
<1>2. \A d \in Attempts : Owns(d, BackendOf[c])' => Owns(d, BackendOf[c])
  BY DEF Moves, Owns, OwnSteps
<1>3. /\ fin[c].proc = handlers[ProviderOf[BackendOf[c]]]
      /\ Owns(c, BackendOf[c]) =>
             /\ InTable(BackendOf[c]) \/ adm[ProviderOf[BackendOf[c]]].at = "removing"
             /\ \A d \in Attempts : Owns(d, BackendOf[c]) => d = c
  BY <1>1 DEF FinalizersInv
<1> QED  BY <1>1, <1>2, <1>3

(* Rows and models stay or go, and a row whose model is unset keeps its    *)
(* finalize.                                                               *)
LEMMA RowsKept ==
  ASSUME AccountRowsInv, NEW a \in Attempts, Moves(a), ToSet(rows)' \subseteq ToSet(rows),
         unset' \subseteq unset, plugins' = plugins, torn' = torn, overtaken \subseteq overtaken',
         fin[a].at \in OwnSteps =>
             fin'[a].at \in OwnSteps \/ BackendOf[a] \notin ToSet(rows)' \/ BackendOf[a] \notin unset'
  PROVE  AccountRowsInv'
<1> SUFFICES ASSUME NEW c \in Backends, c \in ToSet(rows)', c \notin torn \cup overtaken'
             PROVE  /\ c \in unset' => \E d \in Attempts : Owns(d, c)'
                    /\ ProviderOf[c] \in Builtin \cup plugins
  BY DEF AccountRowsInv, InTable
<1>1. /\ c \in unset => \E d \in Attempts : Owns(d, c)
      /\ ProviderOf[c] \in Builtin \cup plugins
  BY DEF AccountRowsInv, InTable
<1>2. ASSUME c \in unset' PROVE \E d \in Attempts : Owns(d, c)'
  <2>1. PICK d \in Attempts : Owns(d, c)
    BY <1>1, <1>2
  <2>2. CASE d # a
    BY <2>1, <2>2 DEF Owns, Moves
  <2>3. CASE d = a
    BY <1>2, <2>1, <2>3 DEF Owns, OwnSteps
  <2> QED  BY <2>2, <2>3
<1> QED  BY <1>1, <1>2

(* A request that is sent.                                                 *)
LEMMA SendForm ==
  ASSUME AccountsTypeOK, NEW k \in Procs, NEW r \in Requests, Send(k, r)
  PROVE  /\ inbox' \in [Procs -> Seq(Requests)]
         /\ \A j \in Procs : j # k => inbox'[j] = inbox[j]
         /\ inbox'[k] = IF k \in killed THEN inbox[k] ELSE Append(inbox[k], r)
         /\ \A j \in Procs : \A running, b : r.backend # b =>
                (WillRun(inbox'[j], running, b) <=> WillRun(inbox[j], running, b))
         /\ \A running : k \notin killed /\ r.op = "remove" => ~WillRun(inbox'[k], running, r.backend)
<1>1. inbox \in [Procs -> Seq(Requests)] /\ inbox[k] \in Seq(Requests)
  BY DEF AccountsTypeOK
<1>2. Append(inbox[k], r) \in Seq(Requests)
  BY <1>1
<1>3. /\ inbox' \in [Procs -> Seq(Requests)]
      /\ \A j \in Procs : j # k => inbox'[j] = inbox[j]
      /\ inbox'[k] = IF k \in killed THEN inbox[k] ELSE Append(inbox[k], r)
  BY <1>1, <1>2 DEF Send
<1>4. \A j \in Procs : \A running, b : r.backend # b =>
          (WillRun(inbox'[j], running, b) <=> WillRun(inbox[j], running, b))
  <2> SUFFICES ASSUME NEW j \in Procs, NEW running, NEW b, r.backend # b
               PROVE  WillRun(inbox'[j], running, b) <=> WillRun(inbox[j], running, b)
    OBVIOUS
  <2>1. CASE inbox'[j] = inbox[j]
    BY <2>1
  <2>2. CASE j = k /\ inbox'[j] = Append(inbox[j], r)
    BY <1>1, <2>2, WillRunAppend
  <2> QED  BY <1>3, <2>1, <2>2
<1>5. \A running : k \notin killed /\ r.op = "remove" => ~WillRun(inbox'[k], running, r.backend)
  BY <1>1, <1>3, WillRunAppend
<1> QED  BY <1>3, <1>4, <1>5

-----------------------------------------------------------------------------
(* The steps of a finalize that move the tables or a process.              *)

(* A finalize that inserts a row is the only one to own it, unless its     *)
(* plugin is being removed, which is recorded.                             *)
LEMMA KeptByStoreAuth ==
  ASSUME AccountsInv, NEW a \in Attempts, StoreAuth(a)
  PROVE  AccountsInv'
<1> DEFINE b == BackendOf[a]
           p == ProviderOf[b]
<1>1. AccountsTypeOK /\ PreferredIsConnected /\ ProcsInv /\ PluginsInv /\ FinalizersInv /\ AccountRowsInv /\ RuntimesInv
  BY DEF AccountsInv
<1>2. b \in Backends /\ p \in Providers /\ Null \notin Backends
  BY AccountFacts
<1>3. /\ app = "up" /\ fin[a].at = "authorized"
      /\ UNCHANGED <<app, plugins, handlers, runtimes, inbox, killed, leaving, adm, left>>
  BY DEF StoreAuth
<1>4. CASE InTable(b)
  <2>1. Return(a) /\ UNCHANGED <<rows, unset, preferred, torn, overtaken>>
    BY <1>4 DEF StoreAuth
  <2>2. overtaken \subseteq Backends /\ "authorized" \notin OwnSteps
    BY <1>1 DEF AccountsTypeOK, OwnSteps
  <2> QED  BY <1>3, <2>1, <2>2, ReturnKeeps
<1>5. CASE ~InTable(b)
  <2>1. /\ rows' = Append(rows, b) /\ unset' = unset \cup {b}
        /\ preferred' = (IF preferred = Null THEN b ELSE preferred)
        /\ Goto(a, "inserted") /\ torn' = torn \ {b}
        /\ overtaken' = (IF adm[p].at = "removing" THEN overtaken \cup {b} ELSE overtaken)
    BY <1>5 DEF StoreAuth, InsertBackend
  <2>2. /\ fin'[a] = [at |-> "inserted", proc |-> fin[a].proc]
        /\ \A c \in Attempts : c # a => fin'[c] = fin[c]
        /\ fin' \in [Attempts -> [at : FinSteps, proc : Procs \cup {Null}]]
    <3>1. "inserted" \in FinSteps
      BY DEF FinSteps
    <3> QED  BY <1>1, <2>1, <3>1, GotoForm
  <2>3. rows \in Seq(Backends) /\ DistinctRows(rows) /\ ~(\E i \in DOMAIN rows : rows[i] = b)
    BY <1>1, <1>5 DEF AccountsTypeOK, InTable, ToSet
  <2>4. /\ rows' \in Seq(Backends) /\ Len(rows') = Len(rows) + 1 /\ rows'[Len(rows) + 1] = b /\ rows' # <<>>
        /\ \A i \in 1..Len(rows) : rows'[i] = rows[i]
    BY <1>2, <2>1, <2>3
  <2>5. DistinctRows(rows')
    BY <2>3, <2>4 DEF DistinctRows
  <2>6. ToSet(rows') = ToSet(rows) \cup {b}
    <3>1. DOMAIN rows = 1..Len(rows) /\ DOMAIN rows' = 1..Len(rows) \cup {Len(rows) + 1} /\ Len(rows) \in Nat
      BY <2>3, <2>4
    <3> QED  BY <2>4, <3>1 DEF ToSet
  <2>7. Moves(a)
    <3>1. AtWork(a) /\ AtWork(a)'
      BY <1>3, <2>2 DEF AtWork
    <3> QED  BY <2>2, <3>1 DEF Moves
  <2>8. overtaken \subseteq overtaken' /\ overtaken' \in SUBSET Backends
    BY <1>1, <1>2, <2>1 DEF AccountsTypeOK
  <2>9. AccountsTypeOK'
    BY <1>1, <1>2, <1>3, <2>1, <2>2, <2>4, <2>5, <2>8 DEF AccountsTypeOK
  <2>10. PreferredIsConnected'
    <3>1. preferred' # Null /\ preferred' \in ToSet(rows')
      BY <1>1, <1>2, <2>1, <2>6 DEF PreferredIsConnected, InTable
    <3> QED  BY <2>4, <3>1 DEF PreferredIsConnected, InTable
  <2>11. ProcsInv'
    BY <1>1, <1>3, <2>7, ProcsKept
  <2>12. PluginsInv'
    BY <1>1, <1>3 DEF PluginsInv
  <2>13. FinalizersInv'
    <3> SUFFICES ASSUME NEW c \in Attempts, AtWork(c)', BackendOf[c] \notin overtaken'
                 PROVE  /\ fin'[c].proc = handlers[ProviderOf[BackendOf[c]]]
                        /\ Owns(c, BackendOf[c])' =>
                             /\ BackendOf[c] \in ToSet(rows') \/ adm[ProviderOf[BackendOf[c]]].at = "removing"
                             /\ \A d \in Attempts : Owns(d, BackendOf[c])' => d = c
      BY <1>3 DEF FinalizersInv, InTable
    <3>1. AtWork(c) /\ fin'[c].proc = fin[c].proc /\ BackendOf[c] \notin overtaken
      BY <2>7, <2>8 DEF Moves, AtWork
    <3>2. /\ fin[c].proc = handlers[ProviderOf[BackendOf[c]]]
          /\ Owns(c, BackendOf[c]) =>
                 /\ BackendOf[c] \in ToSet(rows) \/ adm[ProviderOf[BackendOf[c]]].at = "removing"
                 /\ \A d \in Attempts : Owns(d, BackendOf[c]) => d = c
      BY <1>1, <3>1 DEF FinalizersInv, InTable
    <3>3. \A d \in Attempts : d # a /\ Owns(d, BackendOf[c])' => Owns(d, BackendOf[c])
      BY <2>2 DEF Owns
    <3>4. CASE BackendOf[c] # b
      <4>1. c # a /\ \A d \in Attempts : Owns(d, BackendOf[c])' => d # a
        BY <3>4 DEF Owns
      <4> QED  BY <2>6, <3>1, <3>2, <3>3, <4>1
    <3>5. CASE BackendOf[c] = b
      <4>1. adm[p].at # "removing" /\ b \notin ToSet(rows)
        BY <1>5, <2>1, <3>5 DEF InTable
      <4>2. ASSUME NEW d \in Attempts, Owns(d, b)', d # a PROVE FALSE
        <5>1. Owns(d, b) /\ AtWork(d) /\ BackendOf[d] = b
          BY <3>3, <3>5, <4>2 DEF Owns, AtWork
        <5> QED  BY <1>1, <3>1, <3>5, <4>1, <5>1 DEF FinalizersInv, InTable
      <4> QED  BY <2>6, <3>1, <3>2, <3>5, <4>2
    <3> QED  BY <3>4, <3>5
  <2>14. AccountRowsInv'
    <3> SUFFICES ASSUME NEW c \in Backends, c \in ToSet(rows'), c \notin torn' \cup overtaken'
                 PROVE  /\ c \in unset' => \E d \in Attempts : Owns(d, c)'
                        /\ ProviderOf[c] \in Builtin \cup plugins
      BY <1>3 DEF AccountRowsInv, InTable
    <3>1. CASE c = b
      <4>1. Owns(a, b)'
        BY <2>2 DEF Owns
      <4>2. fin[a].proc # Null /\ fin[a].proc = handlers[p]
        BY <1>1, <1>3, <2>8, <3>1 DEF ProcsInv, FinalizersInv, AtWork
      <4>3. adm[p].at \in {"idle", "updating"}
        BY <1>1, <1>2, <2>1, <3>1 DEF AccountsTypeOK
      <4>4. p \in Builtin \cup plugins
        BY <1>1, <1>2, <4>2, <4>3 DEF PluginsInv
      <4> QED  BY <3>1, <4>1, <4>4
    <3>2. CASE c # b
      <4>1. c \in ToSet(rows) /\ c \notin torn \cup overtaken /\ (c \in unset' => c \in unset)
        BY <2>1, <2>6, <2>8, <3>2
      <4>2. \A d \in Attempts : Owns(d, c) => Owns(d, c)'
        BY <2>2, <3>2 DEF Owns
      <4> QED  BY <1>1, <4>1, <4>2 DEF AccountRowsInv, InTable
    <3> QED  BY <3>1, <3>2
  <2>15. RuntimesInv'
    <3> SUFFICES ASSUME NEW c \in Backends, Expected(c) PROVE Expected(c)'
      BY <1>1, <1>3 DEF RuntimesInv
    <3>1. ASSUME NEW d \in Attempts, fin[d].at = "cleaning" PROVE fin'[d].at = "cleaning"
      BY <1>3, <2>2, <3>1
    <3> QED  BY <1>3, <2>6, <2>8, <3>1 DEF Expected, InTable
  <2> QED  BY <2>9, <2>10, <2>11, <2>12, <2>13, <2>14, <2>15 DEF AccountsInv
<1> QED  BY <1>4, <1>5

(* A runtime is asked for only while its row stands.                       *)
LEMMA KeptBySendInit ==
  ASSUME AccountsInv, NEW a \in Attempts, SendInit(a)
  PROVE  AccountsInv'
<1> DEFINE b == BackendOf[a]
           k == fin[a].proc
           r == [op |-> "init", backend |-> b, from |-> a, waited |-> TRUE]
           pc == IF k \in killed THEN "failed" ELSE "initing"
<1>1. AccountsTypeOK /\ PreferredIsConnected /\ ProcsInv /\ PluginsInv /\ FinalizersInv /\ AccountRowsInv /\ RuntimesInv
  BY DEF AccountsInv
<1>2. b \in Backends /\ ProviderOf[b] \in Providers
  BY AccountFacts
<1>3. /\ app = "up" /\ fin[a].at = "inserted" /\ Send(k, r) /\ Goto(a, pc)
      /\ UNCHANGED <<app, rows, unset, preferred, plugins, handlers, runtimes, killed, leaving, adm, torn, overtaken>>
  BY DEF SendInit, accountTables
<1>4. AtWork(a) /\ Owns(a, b) /\ k # Null /\ k \in Procs
  <2>1. AtWork(a) /\ Owns(a, b)
    BY <1>3 DEF AtWork, Owns
  <2> QED  BY <1>1, <2>1 DEF AccountsTypeOK, ProcsInv
<1>5. /\ fin'[a] = [at |-> pc, proc |-> k]
      /\ \A c \in Attempts : c # a => fin'[c] = fin[c]
      /\ fin' \in [Attempts -> [at : FinSteps, proc : Procs \cup {Null}]]
  <2>1. pc \in FinSteps
    BY DEF FinSteps
  <2> QED  BY <1>1, <1>3, <2>1, GotoForm
<1>6. r \in Requests /\ r.backend = b
  BY <1>2 DEF Requests
<1>7. fin'[a].at \in {"failed", "initing"} /\ fin'[a].proc = k
  BY <1>5
<1> HIDE DEF r, pc
<1>8. /\ inbox' \in [Procs -> Seq(Requests)]
      /\ \A j \in Procs : j # k => inbox'[j] = inbox[j]
      /\ \A j \in Procs : \A running, c : c # b =>
             (WillRun(inbox'[j], running, c) <=> WillRun(inbox[j], running, c))
  BY <1>1, <1>3, <1>4, <1>6, SendForm
<1>9. Moves(a)
  BY <1>4, <1>5, <1>7 DEF Moves, AtWork
<1>10. AccountsTypeOK'
  BY <1>1, <1>3, <1>5, <1>8 DEF AccountsTypeOK
<1>11. PreferredIsConnected' /\ PluginsInv'
  BY <1>1, <1>3 DEF PreferredIsConnected, InTable, PluginsInv
<1>12. ProcsInv'
  <2>1. ASSUME NEW p \in Providers, adm[p].proc # Null PROVE inbox'[adm[p].proc] = inbox[adm[p].proc]
    BY <1>1, <1>8, <2>1 DEF ProcsInv, AccountsTypeOK
  <2> QED  BY <1>1, <1>3, <1>9, <2>1, ProcsKept
<1>13. FinalizersInv'
  BY <1>1, <1>3, <1>9, FinalizersKept DEF OwnSteps, InTable
<1>14. AccountRowsInv'
  BY <1>1, <1>3, <1>7, <1>9, RowsKept DEF OwnSteps
<1>15. RuntimesInv'
  <2> SUFFICES ASSUME NEW c \in Backends, handlers[ProviderOf[c]] # Null,
                      WillRun(inbox'[handlers[ProviderOf[c]]], runtimes[handlers[ProviderOf[c]]], c)
               PROVE  Expected(c)'
    BY <1>3 DEF RuntimesInv
  <2>1. Expected(c)
    <3>1. CASE c = b
      BY <1>1, <1>4, <3>1 DEF FinalizersInv, Expected
    <3>2. CASE c # b
      <4>1. handlers[ProviderOf[c]] \in Procs
        BY <1>1, AccountFacts DEF AccountsTypeOK
      <4> QED  BY <1>1, <1>8, <3>2, <4>1 DEF RuntimesInv
    <3> QED  BY <3>1, <3>2
  <2>2. \A d \in Attempts : fin[d].at = "cleaning" => fin'[d].at = "cleaning"
    BY <1>3, <1>5
  <2> QED  BY <1>3, <2>1, <2>2 DEF Expected, InTable
<1> QED  BY <1>10, <1>11, <1>12, <1>13, <1>14, <1>15 DEF AccountsInv

(* A timeout leaves the request in the queue; what it will make is taken   *)
(* back later.                                                             *)
LEMMA KeptByInitTimeout ==
  ASSUME AccountsInv, NEW a \in Attempts, InitTimeout(a)
  PROVE  AccountsInv'
<1> DEFINE k == fin[a].proc
           q == inbox[k]
           s == [i \in DOMAIN q |-> IF q[i].from = a THEN [q[i] EXCEPT !.waited = FALSE] ELSE q[i]]
<1>1. AccountsTypeOK /\ PreferredIsConnected /\ ProcsInv /\ PluginsInv /\ FinalizersInv /\ AccountRowsInv /\ RuntimesInv
  BY DEF AccountsInv
<1>2. /\ app = "up" /\ fin[a].at = "initing" /\ Goto(a, "failed") /\ inbox' = [inbox EXCEPT ![k] = s]
      /\ UNCHANGED <<app, rows, unset, preferred, plugins, handlers, runtimes, killed, leaving, adm, torn, overtaken>>
  BY DEF InitTimeout, accountTables
<1>3. AtWork(a) /\ k # Null /\ k \in Procs
  <2>1. AtWork(a)
    BY <1>2 DEF AtWork
  <2> QED  BY <1>1, <2>1 DEF AccountsTypeOK, ProcsInv
<1>4. /\ fin'[a] = [at |-> "failed", proc |-> k]
      /\ \A c \in Attempts : c # a => fin'[c] = fin[c]
      /\ fin' \in [Attempts -> [at : FinSteps, proc : Procs \cup {Null}]]
  <2>1. "failed" \in FinSteps
    BY DEF FinSteps
  <2> QED  BY <1>1, <1>2, <2>1, GotoForm
<1>5. q \in Seq(Requests) /\ inbox \in [Procs -> Seq(Requests)]
  BY <1>1, <1>3 DEF AccountsTypeOK
<1> HIDE DEF q
<1>6. ASSUME NEW i \in DOMAIN q PROVE s[i] \in Requests /\ s[i].op = q[i].op /\ s[i].backend = q[i].backend
  <2>1. q[i] \in Requests
    BY <1>5
  <2> QED  BY <2>1 DEF Requests
<1>7. s \in Seq(Requests) /\ DOMAIN s = DOMAIN q
  <2>1. \A i \in 1..Len(q) : s[i] \in Requests
    BY <1>5, <1>6
  <2>2. DOMAIN q = 1..Len(q) /\ Len(q) \in Nat
    BY <1>5
  <2>3. s \in [1..Len(q) -> Requests]
    BY <2>1, <2>2
  <2> HIDE DEF s
  <2> QED  BY <2>2, <2>3
<1> HIDE DEF s
<1>8. /\ inbox' \in [Procs -> Seq(Requests)] /\ inbox'[k] = s
      /\ \A j \in Procs : j # k => inbox'[j] = inbox[j]
  BY <1>2, <1>3, <1>5, <1>7
<1>9. \A j \in Procs : \A running, c : WillRun(inbox'[j], running, c) <=> WillRun(inbox[j], running, c)
  <2>1. \A running, c : WillRun(s, running, c) <=> WillRun(q, running, c)
    BY <1>6, <1>7, WillRunSame
  <2> QED  BY <1>8, <2>1 DEF q
<1>10. Moves(a)
  BY <1>3, <1>4 DEF Moves, AtWork
<1>11. AccountsTypeOK'
  BY <1>1, <1>2, <1>4, <1>8 DEF AccountsTypeOK
<1>12. PreferredIsConnected' /\ PluginsInv'
  BY <1>1, <1>2 DEF PreferredIsConnected, InTable, PluginsInv
<1>13. ProcsInv'
  <2>1. ASSUME NEW p \in Providers, adm[p].proc # Null PROVE inbox'[adm[p].proc] = inbox[adm[p].proc]
    BY <1>1, <1>8, <2>1 DEF ProcsInv, AccountsTypeOK
  <2> QED  BY <1>1, <1>2, <1>10, <2>1, ProcsKept
<1>14. FinalizersInv'
  BY <1>1, <1>2, <1>10, FinalizersKept DEF OwnSteps, InTable
<1>15. AccountRowsInv'
  BY <1>1, <1>2, <1>4, <1>10, RowsKept DEF OwnSteps
<1>16. RuntimesInv'
  <2> SUFFICES ASSUME NEW c \in Backends, handlers[ProviderOf[c]] # Null,
                      WillRun(inbox'[handlers[ProviderOf[c]]], runtimes[handlers[ProviderOf[c]]], c)
               PROVE  Expected(c)'
    BY <1>2 DEF RuntimesInv
  <2>1. handlers[ProviderOf[c]] \in Procs
    BY <1>1, AccountFacts DEF AccountsTypeOK
  <2>2. Expected(c)
    BY <1>1, <1>9, <2>1 DEF RuntimesInv
  <2>3. \A d \in Attempts : fin[d].at = "cleaning" => fin'[d].at = "cleaning"
    BY <1>2, <1>4
  <2> QED  BY <1>2, <2>2, <2>3 DEF Expected, InTable
<1> QED  BY <1>11, <1>12, <1>13, <1>14, <1>15, <1>16 DEF AccountsInv

(* The row goes first, and the finalize is then the one to take the        *)
(* runtime away.                                                           *)
LEMMA KeptByCleanUp ==
  ASSUME AccountsInv, NEW a \in Attempts, CleanUp(a)
  PROVE  AccountsInv'
<1> DEFINE b == BackendOf[a]
<1>1. AccountsTypeOK /\ PreferredIsConnected /\ ProcsInv /\ PluginsInv /\ FinalizersInv /\ AccountRowsInv /\ RuntimesInv
  BY DEF AccountsInv
<1>2. /\ app = "up" /\ fin[a].at = "failed" /\ DeleteBackends({b})
      /\ IF InTable(b) THEN Goto(a, "cleaning") ELSE Return(a)
      /\ UNCHANGED <<app, plugins, handlers, runtimes, inbox, killed, leaving, adm, torn, overtaken>>
  BY DEF CleanUp
<1>3. AtWork(a) /\ Owns(a, b)
  BY <1>2 DEF AtWork, Owns
<1>4. /\ fin'[a] = IF InTable(b) THEN [at |-> "cleaning", proc |-> fin[a].proc] ELSE [at |-> "over", proc |-> Null]
      /\ \A c \in Attempts : c # a => fin'[c] = fin[c]
      /\ fin' \in [Attempts -> [at : FinSteps, proc : Procs \cup {Null}]]
  <2>1. "cleaning" \in FinSteps
    BY DEF FinSteps
  <2> QED  BY <1>1, <1>2, <2>1, GotoForm, ReturnForm
<1>5. /\ rows' \in Seq(Backends) /\ DistinctRows(rows') /\ preferred' \in Backends \cup {Null}
      /\ PreferredIsConnected' /\ ToSet(rows') = ToSet(rows) \ {b} /\ unset' = unset \ {b}
  BY <1>1, <1>2, DeleteBackendsSound
<1>6. Moves(a)
  BY <1>3, <1>4 DEF Moves, AtWork
<1>7. AccountsTypeOK'
  BY <1>1, <1>2, <1>4, <1>5 DEF AccountsTypeOK
<1>8. PluginsInv'
  BY <1>1, <1>2 DEF PluginsInv
<1>9. ProcsInv'
  BY <1>1, <1>2, <1>6, ProcsKept
<1>10. FinalizersInv'
  <2>1. fin'[a].at \notin OwnSteps
    BY <1>4 DEF OwnSteps
  <2>2. ASSUME NEW c \in Attempts, Owns(c, BackendOf[c])', InTable(BackendOf[c]), BackendOf[c] \notin overtaken
        PROVE  InTable(BackendOf[c])'
    <3>1. c # a /\ Owns(c, BackendOf[c])
      BY <1>4, <2>1, <2>2 DEF Owns, OwnSteps
    <3>2. BackendOf[c] # b
      BY <1>1, <1>3, <2>2, <3>1 DEF FinalizersInv
    <3> QED  BY <1>5, <2>2, <3>2 DEF InTable
  <2> QED  BY <1>1, <1>2, <1>6, <2>1, <2>2, FinalizersKept
<1>11. AccountRowsInv'
  BY <1>1, <1>2, <1>5, <1>6, RowsKept
<1>12. RuntimesInv'
  <2> SUFFICES ASSUME NEW c \in Backends, Expected(c) PROVE Expected(c)'
    BY <1>1, <1>2 DEF RuntimesInv
  <2>1. \A d \in Attempts : fin[d].at = "cleaning" => fin'[d].at = "cleaning"
    BY <1>2, <1>4
  <2>2. InTable(c) => InTable(c)' \/ (c = b /\ fin'[a].at = "cleaning")
    BY <1>4, <1>5 DEF InTable
  <2> QED  BY <1>2, <2>1, <2>2 DEF Expected
<1> QED  BY <1>5, <1>7, <1>8, <1>9, <1>10, <1>11, <1>12 DEF AccountsInv

(* The request to remove comes after the one to initialise, so nothing is  *)
(* left; a finalize that talks to another process than the registered one  *)
(* was overtaken.                                                          *)
LEMMA KeptByCleanUpRuntime ==
  ASSUME AccountsInv, NEW a \in Attempts, CleanUpRuntime(a)
  PROVE  AccountsInv'
<1> DEFINE b == BackendOf[a]
           k == fin[a].proc
           r == [op |-> "remove", backend |-> b, from |-> a, waited |-> FALSE]
<1>1. AccountsTypeOK /\ PreferredIsConnected /\ ProcsInv /\ PluginsInv /\ FinalizersInv /\ AccountRowsInv /\ RuntimesInv
  BY DEF AccountsInv
<1>2. b \in Backends /\ ProviderOf[b] \in Providers
  BY AccountFacts
<1>3. /\ app = "up" /\ fin[a].at = "cleaning" /\ Send(k, r) /\ Return(a)
      /\ UNCHANGED <<app, rows, unset, preferred, plugins, handlers, runtimes, killed, leaving, adm, torn, overtaken>>
  BY DEF CleanUpRuntime, accountTables
<1>4. AtWork(a) /\ k # Null /\ k \in Procs
  <2>1. AtWork(a)
    BY <1>3 DEF AtWork
  <2> QED  BY <1>1, <2>1 DEF AccountsTypeOK, ProcsInv
<1>5. /\ fin'[a] = [at |-> "over", proc |-> Null]
      /\ \A c \in Attempts : c # a => fin'[c] = fin[c]
      /\ fin' \in [Attempts -> [at : FinSteps, proc : Procs \cup {Null}]]
  BY <1>1, <1>3, ReturnForm
<1>6. r \in Requests /\ r.backend = b /\ r.op = "remove"
  BY <1>2 DEF Requests
<1> HIDE DEF r
<1>7. /\ inbox' \in [Procs -> Seq(Requests)]
      /\ \A j \in Procs : j # k => inbox'[j] = inbox[j]
      /\ \A j \in Procs : \A running, c : c # b =>
             (WillRun(inbox'[j], running, c) <=> WillRun(inbox[j], running, c))
      /\ \A running : k \notin killed => ~WillRun(inbox'[k], running, b)
  BY <1>1, <1>3, <1>4, <1>6, SendForm
<1>8. Moves(a)
  BY <1>4, <1>5 DEF Moves, AtWork
<1>9. AccountsTypeOK'
  BY <1>1, <1>3, <1>5, <1>7 DEF AccountsTypeOK
<1>10. PreferredIsConnected' /\ PluginsInv'
  BY <1>1, <1>3 DEF PreferredIsConnected, InTable, PluginsInv
<1>11. ProcsInv'
  <2>1. ASSUME NEW p \in Providers, adm[p].proc # Null PROVE inbox'[adm[p].proc] = inbox[adm[p].proc]
    BY <1>1, <1>7, <2>1 DEF ProcsInv, AccountsTypeOK
  <2> QED  BY <1>1, <1>3, <1>8, <2>1, ProcsKept
<1>12. FinalizersInv'
  BY <1>1, <1>3, <1>5, <1>8, FinalizersKept DEF OwnSteps, InTable
<1>13. AccountRowsInv'
  BY <1>1, <1>3, <1>8, RowsKept DEF OwnSteps
<1>14. RuntimesInv'
  <2> SUFFICES ASSUME NEW c \in Backends, handlers[ProviderOf[c]] # Null,
                      WillRun(inbox'[handlers[ProviderOf[c]]], runtimes[handlers[ProviderOf[c]]], c)
               PROVE  Expected(c)'
    BY <1>3 DEF RuntimesInv
  <2>1. handlers[ProviderOf[c]] \in Procs /\ handlers[ProviderOf[c]] \notin killed
    BY <1>1, AccountFacts DEF AccountsTypeOK, ProcsInv
  <2>2. CASE c = b
    <3>1. k # handlers[ProviderOf[b]]
      BY <1>7, <2>1, <2>2
    <3>2. b \in overtaken
      BY <1>1, <1>4, <3>1 DEF FinalizersInv
    <3> QED  BY <1>3, <2>2, <3>2 DEF Expected
  <2>3. CASE c # b
    <3>1. Expected(c)
      BY <1>1, <1>7, <2>1, <2>3 DEF RuntimesInv
    <3>2. \A d \in Attempts : BackendOf[d] = c => fin'[d] = fin[d]
      BY <1>5, <2>3
    <3> QED  BY <1>3, <3>1, <3>2 DEF Expected, InTable
  <2> QED  BY <2>2, <2>3
<1> QED  BY <1>9, <1>10, <1>11, <1>12, <1>13, <1>14 DEF AccountsInv

(* Serving a request brings nothing that was not to come.                  *)
LEMMA KeptByServe ==
  ASSUME AccountsInv, NEW k \in Procs, Serve(k)
  PROVE  AccountsInv'
<1> DEFINE r == Head(inbox[k])
           b == r.backend
<1>1. AccountsTypeOK /\ PreferredIsConnected /\ ProcsInv /\ PluginsInv /\ FinalizersInv /\ AccountRowsInv /\ RuntimesInv
  BY DEF AccountsInv
<1>2. /\ app = "up" /\ inbox[k] # <<>> /\ inbox' = [inbox EXCEPT ![k] = Tail(@)]
      /\ UNCHANGED <<app, rows, unset, preferred, plugins, handlers, killed, leaving, adm, torn, overtaken>>
  BY DEF Serve, accountTables
<1>3. /\ inbox \in [Procs -> Seq(Requests)] /\ runtimes \in [Procs -> SUBSET Backends]
      /\ fin \in [Attempts -> [at : FinSteps, proc : Procs \cup {Null}]]
  BY <1>1 DEF AccountsTypeOK
<1>4. inbox[k] \in Seq(Requests) /\ r \in Requests /\ Tail(inbox[k]) \in Seq(Requests)
  BY <1>2, <1>3
<1>5. r.op \in {"init", "remove"} /\ b \in Backends /\ r.from \in Attempts \cup {Null}
  BY <1>4 DEF Requests
<1>6. /\ inbox' \in [Procs -> Seq(Requests)] /\ inbox'[k] = Tail(inbox[k])
      /\ \A j \in Procs : j # k => inbox'[j] = inbox[j]
  BY <1>2, <1>3, <1>4
<1>7. /\ runtimes' \in [Procs -> SUBSET Backends]
      /\ \A j \in Procs : j # k => runtimes'[j] = runtimes[j]
      /\ \A c : c \in runtimes'[k] => \/ c \in runtimes[k] /\ (r.op = "remove" => b # c)
                                      \/ r.op = "init" /\ b = c
  <2>1. CASE r.op = "remove"
    <3>1. runtimes' = [runtimes EXCEPT ![k] = @ \ {b}]
      BY <2>1 DEF Serve
    <3> QED  BY <1>3, <2>1, <3>1
  <2>2. CASE r.op # "remove"
    <3>1. PICK made \in BOOLEAN : runtimes' = [runtimes EXCEPT ![k] = IF made THEN @ \cup {b} ELSE @]
      BY <2>2 DEF Serve
    <3>2. runtimes[k] \cup {b} \in SUBSET Backends
      BY <1>3, <1>5
    <3>3. CASE made
      BY <1>3, <1>5, <2>2, <3>1, <3>2, <3>3
    <3>4. CASE ~made
      BY <1>3, <1>5, <2>2, <3>1, <3>4
    <3> QED  BY <3>3, <3>4
  <2> QED  BY <2>1, <2>2
<1>8. \A c \in Attempts :
          \/ fin'[c] = fin[c]
          \/ /\ fin[c].at = "initing" /\ fin'[c].at \in {"ready", "failed"} /\ fin'[c].proc = fin[c].proc
             /\ fin'[c] \in [at : FinSteps, proc : Procs \cup {Null}]
  <2>1. CASE r.op = "remove"
    BY <2>1 DEF Serve
  <2>2. CASE r.op # "remove"
    <3>1. PICK ok \in BOOLEAN : fin' = IF fin[r.from].at # "initing" \/ ~r.waited THEN fin
                                       ELSE [fin EXCEPT ![r.from].at = IF ok THEN "ready" ELSE "failed"]
      BY <2>2 DEF Serve
    <3>2. CASE fin[r.from].at # "initing" \/ ~r.waited
      BY <3>1, <3>2
    <3>3. CASE ~(fin[r.from].at # "initing" \/ ~r.waited)
      <4> DEFINE pc == IF ok THEN "ready" ELSE "failed"
      <4>1. fin[r.from].at = "initing" /\ fin' = [fin EXCEPT ![r.from].at = pc]
        BY <3>1, <3>3
      <4>2. pc \in {"ready", "failed"} /\ pc \in FinSteps
        BY DEF FinSteps
      <4> HIDE DEF pc
      <4>3. \A c \in Attempts : c # r.from => fin'[c] = fin[c]
        BY <1>3, <4>1
      <4>4. ASSUME r.from \in Attempts
            PROVE  /\ fin'[r.from] = [fin[r.from] EXCEPT !.at = pc]
                   /\ fin[r.from] \in [at : FinSteps, proc : Procs \cup {Null}]
        BY <1>3, <4>1, <4>4
      <4>5. ASSUME r.from \in Attempts
            PROVE  /\ fin'[r.from].at = pc /\ fin'[r.from].proc = fin[r.from].proc
                   /\ fin'[r.from] \in [at : FinSteps, proc : Procs \cup {Null}]
        BY <4>2, <4>4, <4>5
      <4> QED  BY <4>1, <4>2, <4>3, <4>5
    <3> QED  BY <3>2, <3>3
  <2> QED  BY <2>1, <2>2
<1>9. DOMAIN fin' = Attempts /\ fin' = [c \in Attempts |-> fin'[c]]
  BY <1>3 DEF Serve
<1>10. /\ \A c \in Attempts : (AtWork(c)' <=> AtWork(c)) /\ fin'[c].proc = fin[c].proc
       /\ \A c \in Attempts : \A d : Owns(c, d)' <=> Owns(c, d)
       /\ \A c \in Attempts : fin[c].at = "cleaning" => fin'[c].at = "cleaning"
  BY <1>8 DEF AtWork, Owns
<1>11. AccountsTypeOK'
  <2>1. fin' \in [Attempts -> [at : FinSteps, proc : Procs \cup {Null}]]
    BY <1>3, <1>8, <1>9
  <2> QED  BY <1>1, <1>2, <1>6, <1>7, <2>1 DEF AccountsTypeOK
<1>12. PreferredIsConnected' /\ PluginsInv'
  BY <1>1, <1>2 DEF PreferredIsConnected, InTable, PluginsInv
<1>13. ProcsInv'
  <2>1. ASSUME NEW p \in Providers, adm[p].proc # Null PROVE inbox'[adm[p].proc] = <<>>
    BY <1>1, <1>2, <1>6, <2>1 DEF ProcsInv, AccountsTypeOK
  <2> QED  BY <1>1, <1>2, <1>10, <2>1 DEF ProcsInv
<1>14. FinalizersInv'
  BY <1>1, <1>2, <1>10 DEF FinalizersInv, InTable
<1>15. AccountRowsInv'
  BY <1>1, <1>2, <1>10 DEF AccountRowsInv, InTable
<1>16. RuntimesInv'
  <2> SUFFICES ASSUME NEW c \in Backends, handlers[ProviderOf[c]] # Null,
                      WillRun(inbox'[handlers[ProviderOf[c]]], runtimes'[handlers[ProviderOf[c]]], c)
               PROVE  Expected(c)'
    BY <1>2 DEF RuntimesInv
  <2> DEFINE j == handlers[ProviderOf[c]]
  <2>1. j \in Procs
    BY <1>1, AccountFacts DEF AccountsTypeOK
  <2>2. WillRun(inbox[j], runtimes[j], c)
    <3>1. CASE j # k
      BY <1>6, <1>7, <2>1, <3>1
    <3>2. CASE j = k
      <4>1. WillRun(Tail(inbox[k]), runtimes'[k], c)
        BY <1>6, <3>2
      <4>2. c \in runtimes'[k] => \/ c \in runtimes[k] /\ (r.op = "remove" => b # c)
                                  \/ r.op = "init" /\ b = c
        BY <1>7
      <4> QED  BY <1>2, <1>4, <3>2, <4>1, <4>2, WillRunServe
    <3> QED  BY <3>1, <3>2
  <2>3. Expected(c)
    BY <1>1, <2>2 DEF RuntimesInv
  <2> QED  BY <1>2, <1>10, <2>3 DEF Expected, InTable
<1> QED  BY <1>11, <1>12, <1>13, <1>14, <1>15, <1>16 DEF AccountsInv

-----------------------------------------------------------------------------
(* The other operations on accounts.                                       *)

(* Between its two steps a disconnect answers for the runtime.             *)
LEMMA KeptByDisconnect ==
  ASSUME AccountsInv, NEW b \in Backends, Disconnect(b)
  PROVE  AccountsInv'
<1>1. AccountsTypeOK /\ PreferredIsConnected /\ ProcsInv /\ PluginsInv /\ FinalizersInv /\ AccountRowsInv /\ RuntimesInv
  BY DEF AccountsInv
<1>2. /\ DeleteBackends({b}) /\ leaving' = leaving \cup {b}
      /\ overtaken' = (IF UnderWay(b) THEN overtaken \cup {b} ELSE overtaken)
      /\ UNCHANGED <<app, plugins, handlers, runtimes, inbox, killed, fin, adm, torn>>
  BY DEF Disconnect
<1>3. /\ rows' \in Seq(Backends) /\ DistinctRows(rows') /\ preferred' \in Backends \cup {Null}
      /\ PreferredIsConnected' /\ ToSet(rows') = ToSet(rows) \ {b} /\ unset' = unset \ {b}
  BY <1>1, <1>2, DeleteBackendsSound
<1>4. overtaken \subseteq overtaken' /\ overtaken' \in SUBSET Backends
  BY <1>1, <1>2 DEF AccountsTypeOK
<1>5. AccountsTypeOK'
  BY <1>1, <1>2, <1>3, <1>4 DEF AccountsTypeOK
<1>6. ProcsInv' /\ PluginsInv'
  BY <1>1, <1>2 DEF ProcsInv, PluginsInv, AtWork
<1>7. FinalizersInv'
  <2> SUFFICES ASSUME NEW a \in Attempts, AtWork(a), BackendOf[a] \notin overtaken'
               PROVE  /\ fin[a].proc = handlers[ProviderOf[BackendOf[a]]]
                      /\ Owns(a, BackendOf[a]) =>
                           /\ InTable(BackendOf[a])' \/ adm[ProviderOf[BackendOf[a]]].at = "removing"
                           /\ \A c \in Attempts : Owns(c, BackendOf[a]) => c = a
    BY <1>2 DEF FinalizersInv, AtWork, Owns
  <2>1. Owns(a, b) => UnderWay(b)
    BY DEF Owns, UnderWay
  <2>2. Owns(a, BackendOf[a]) => BackendOf[a] # b
    BY <1>2, <2>1
  <2> QED  BY <1>1, <1>3, <1>4, <2>2 DEF FinalizersInv, InTable
<1>8. AccountRowsInv'
  BY <1>1, <1>2, <1>3, <1>4 DEF AccountRowsInv, InTable, Owns
<1>9. RuntimesInv'
  <2> SUFFICES ASSUME NEW c \in Backends, Expected(c) PROVE Expected(c)'
    BY <1>1, <1>2 DEF RuntimesInv
  <2> QED  BY <1>2, <1>3, <1>4 DEF Expected, InTable
<1> QED  BY <1>3, <1>5, <1>6, <1>7, <1>8, <1>9 DEF AccountsInv

(* The registered process is told last.                                    *)
LEMMA KeptByDisconnectRuntime ==
  ASSUME AccountsInv, NEW b \in Backends, DisconnectRuntime(b)
  PROVE  AccountsInv'
<1> DEFINE k == handlers[ProviderOf[b]]
           r == [op |-> "remove", backend |-> b, from |-> Null, waited |-> FALSE]
<1>1. AccountsTypeOK /\ PreferredIsConnected /\ ProcsInv /\ PluginsInv /\ FinalizersInv /\ AccountRowsInv /\ RuntimesInv
  BY DEF AccountsInv
<1>2. /\ leaving' = leaving \ {b} /\ (IF k = Null THEN UNCHANGED inbox ELSE Send(k, r))
      /\ UNCHANGED <<app, rows, unset, preferred, plugins, handlers, runtimes, killed, fin, adm, torn, overtaken>>
  BY DEF DisconnectRuntime, accountTables
<1>3. k \in Procs \cup {Null} /\ k \notin killed
  BY <1>1, AccountFacts DEF AccountsTypeOK, ProcsInv
<1>4. r \in Requests /\ r.backend = b /\ r.op = "remove"
  BY DEF Requests
<1> HIDE DEF r
<1>5. /\ inbox' \in [Procs -> Seq(Requests)]
      /\ \A j \in Procs : j # k => inbox'[j] = inbox[j]
      /\ \A j \in Procs : \A running, c : c # b =>
             (WillRun(inbox'[j], running, c) <=> WillRun(inbox[j], running, c))
      /\ k # Null => \A running : ~WillRun(inbox'[k], running, b)
  <2>1. CASE k = Null
    BY <1>1, <1>2, <2>1 DEF AccountsTypeOK
  <2>2. CASE k # Null
    BY <1>1, <1>2, <1>3, <1>4, <2>2, SendForm, ZenonT(30)
  <2> QED  BY <2>1, <2>2
<1>6. AccountsTypeOK'
  BY <1>1, <1>2, <1>5 DEF AccountsTypeOK
<1>7. PreferredIsConnected' /\ PluginsInv' /\ FinalizersInv' /\ AccountRowsInv'
  <2>1. PreferredIsConnected' /\ PluginsInv'
    BY <1>1, <1>2 DEF PreferredIsConnected, InTable, PluginsInv, AtWork
  <2>2. FinalizersInv' /\ AccountRowsInv'
    BY <1>1, <1>2 DEF FinalizersInv, AccountRowsInv, InTable, AtWork, Owns
  <2> QED  BY <2>1, <2>2
<1>8. ProcsInv'
  <2>1. ASSUME NEW p \in Providers, adm[p].proc # Null PROVE inbox'[adm[p].proc] = inbox[adm[p].proc]
    <3>1. ProviderOf[b] \in Providers
      BY AccountFacts
    <3> QED  BY <1>1, <1>5, <2>1, <3>1 DEF ProcsInv, AccountsTypeOK
  <2> QED  BY <1>1, <1>2, <2>1 DEF ProcsInv, AtWork
<1>9. RuntimesInv'
  <2> SUFFICES ASSUME NEW c \in Backends, handlers[ProviderOf[c]] # Null,
                      WillRun(inbox'[handlers[ProviderOf[c]]], runtimes[handlers[ProviderOf[c]]], c)
               PROVE  Expected(c)'
    BY <1>2 DEF RuntimesInv
  <2>1. c # b
    BY <1>5
  <2>2. handlers[ProviderOf[c]] \in Procs
    BY <1>1, AccountFacts DEF AccountsTypeOK
  <2>3. Expected(c)
    BY <1>1, <1>5, <2>1, <2>2 DEF RuntimesInv
  <2> QED  BY <1>2, <2>1, <2>3 DEF Expected, InTable
<1> QED  BY <1>6, <1>7, <1>8, <1>9 DEF AccountsInv

(* Only a row can be preferred.                                            *)
LEMMA KeptBySetPreferred ==
  ASSUME AccountsInv, NEW b \in Backends, NEW as_default \in BOOLEAN, SetPreferred(b, as_default)
  PROVE  AccountsInv'
<1>1. AccountsTypeOK /\ PreferredIsConnected /\ ProcsInv /\ PluginsInv /\ FinalizersInv /\ AccountRowsInv /\ RuntimesInv
  BY DEF AccountsInv
<1>2. /\ InTable(b) /\ unset' = unset \ {b} /\ preferred' \in {b, preferred}
      /\ UNCHANGED <<app, rows, plugins, handlers, runtimes, inbox, killed, fin, leaving, adm, torn, overtaken>>
  BY DEF SetPreferred
<1>3. AccountsTypeOK'
  BY <1>1, <1>2 DEF AccountsTypeOK
<1>4. PreferredIsConnected'
  <2>1. rows # <<>>
    BY <1>2 DEF InTable, ToSet
  <2>2. b # Null
    BY AccountFacts
  <2> QED  BY <1>1, <1>2, <2>1, <2>2 DEF PreferredIsConnected, InTable
<1>5. ProcsInv' /\ PluginsInv'
  BY <1>1, <1>2 DEF ProcsInv, PluginsInv, AtWork
<1>6. FinalizersInv' /\ AccountRowsInv'
  BY <1>1, <1>2 DEF FinalizersInv, AccountRowsInv, InTable, AtWork, Owns
<1>7. RuntimesInv'
  BY <1>1, <1>2 DEF RuntimesInv, Expected, InTable
<1> QED  BY <1>3, <1>4, <1>5, <1>6, <1>7 DEF AccountsInv

-----------------------------------------------------------------------------
(* The operations on plugins, and the program's start and end.             *)

(* A process that nobody holds is empty and lives.                         *)
LEMMA SpawnedForm ==
  ASSUME AccountsTypeOK, NEW k \in Procs, NEW bs \in SUBSET Backends, Spawned(k, bs)
  PROVE  /\ runtimes' \in [Procs -> SUBSET Backends] /\ inbox' \in [Procs -> Seq(Requests)]
         /\ killed' \in SUBSET Procs /\ killed' \subseteq killed /\ k \notin killed'
         /\ runtimes'[k] = bs /\ inbox'[k] = <<>>
         /\ \A j \in Procs : j # k => runtimes'[j] = runtimes[j] /\ inbox'[j] = inbox[j]
         /\ k # Null /\ \A p \in Providers : handlers[p] # k /\ adm[p].proc # k
         /\ \A a \in Attempts : fin[a].proc # k
<1>1. k # Null
  BY AccountFacts
<1>2. /\ k \notin Held /\ runtimes' = [runtimes EXCEPT ![k] = bs] /\ inbox' = [inbox EXCEPT ![k] = <<>>]
      /\ killed' = killed \ {k}
  BY DEF Spawned
<1>3. /\ \A p \in Providers : handlers[p] # k /\ adm[p].proc # k
      /\ \A a \in Attempts : fin[a].proc # k
  BY <1>1, <1>2 DEF Held
<1>4. <<>> \in Seq(Requests)
  OBVIOUS
<1> QED  BY <1>1, <1>2, <1>3, <1>4 DEF AccountsTypeOK

(* A new plugin starts without runtimes.                                   *)
LEMMA KeptByAddProvider ==
  ASSUME AccountsInv, NEW p \in Providers, NEW k \in Procs, AddProvider(p, k)
  PROVE  AccountsInv'
<1>1. AccountsTypeOK /\ PreferredIsConnected /\ ProcsInv /\ PluginsInv /\ FinalizersInv /\ AccountRowsInv /\ RuntimesInv
  BY DEF AccountsInv
<1>2. /\ app = "up" /\ p \notin Builtin \cup plugins /\ adm[p].at = "idle" /\ Spawned(k, {})
      /\ plugins' = plugins \cup {p} /\ handlers' = [handlers EXCEPT ![p] = k]
      /\ UNCHANGED <<app, rows, unset, preferred, fin, leaving, adm, torn, overtaken>>
  BY DEF AddProvider
<1>3. handlers[p] = Null
  BY <1>1, <1>2 DEF PluginsInv
<1>4. /\ runtimes' \in [Procs -> SUBSET Backends] /\ inbox' \in [Procs -> Seq(Requests)]
      /\ killed' \in SUBSET Procs /\ killed' \subseteq killed /\ k \notin killed'
      /\ runtimes'[k] = {} /\ inbox'[k] = <<>>
      /\ \A j \in Procs : j # k => runtimes'[j] = runtimes[j] /\ inbox'[j] = inbox[j]
      /\ k # Null /\ \A q \in Providers : handlers[q] # k /\ adm[q].proc # k
      /\ \A a \in Attempts : fin[a].proc # k
  BY <1>1, <1>2, SpawnedForm
<1>5. /\ handlers' \in [Providers -> Procs \cup {Null}] /\ handlers'[p] = k
      /\ \A q \in Providers : q # p => handlers'[q] = handlers[q]
  BY <1>1, <1>2 DEF AccountsTypeOK
<1>6. AccountsTypeOK'
  BY <1>1, <1>2, <1>4, <1>5 DEF AccountsTypeOK
<1>7. PreferredIsConnected' /\ PluginsInv'
  BY <1>1, <1>2, <1>5 DEF PreferredIsConnected, InTable, PluginsInv, AtWork
<1>8. ProcsInv'
  <2>1. \A q \in Providers : adm[q].proc # Null => adm[q].proc \in Procs
    BY <1>1 DEF AccountsTypeOK
  <2>2. \A q, s \in Providers : handlers'[q] # Null /\ handlers'[q] = handlers'[s] => q = s
    BY <1>1, <1>4, <1>5 DEF ProcsInv
  <2>3. \A q \in Providers : adm[q].proc # Null =>
            /\ \A s \in Providers : handlers'[s] # adm[q].proc
            /\ inbox'[adm[q].proc] = <<>> /\ adm[q].proc \notin killed'
    <3> SUFFICES ASSUME NEW q \in Providers, adm[q].proc # Null
                 PROVE  /\ \A s \in Providers : handlers'[s] # adm[q].proc
                        /\ inbox'[adm[q].proc] = <<>> /\ adm[q].proc \notin killed'
      OBVIOUS
    <3>1. /\ \A s \in Providers : handlers[s] # adm[q].proc
          /\ inbox[adm[q].proc] = <<>> /\ adm[q].proc \notin killed /\ adm[q].proc # k
      BY <1>1, <1>4 DEF ProcsInv
    <3>2. \A s \in Providers : handlers'[s] # adm[q].proc
      BY <1>5, <3>1
    <3> QED  BY <1>4, <2>1, <3>1, <3>2
  <2>4. \A q \in Providers : handlers'[q] \notin killed'
    BY <1>1, <1>4, <1>5 DEF ProcsInv
  <2> QED  BY <1>1, <1>2, <2>2, <2>3, <2>4 DEF ProcsInv, AtWork
<1>9. FinalizersInv'
  <2>1. ASSUME NEW a \in Attempts, AtWork(a), BackendOf[a] \notin overtaken
        PROVE  handlers'[ProviderOf[BackendOf[a]]] = handlers[ProviderOf[BackendOf[a]]]
    <3>1. handlers[ProviderOf[BackendOf[a]]] # Null /\ ProviderOf[BackendOf[a]] \in Providers
      BY <1>1, <2>1, AccountFacts DEF FinalizersInv, ProcsInv
    <3> QED  BY <1>3, <1>5, <3>1
  <2> QED  BY <1>1, <1>2, <2>1 DEF FinalizersInv, InTable, AtWork, Owns
<1>10. AccountRowsInv'
  BY <1>1, <1>2 DEF AccountRowsInv, InTable, Owns
<1>11. RuntimesInv'
  <2> SUFFICES ASSUME NEW c \in Backends, handlers'[ProviderOf[c]] # Null,
                      WillRun(inbox'[handlers'[ProviderOf[c]]], runtimes'[handlers'[ProviderOf[c]]], c)
               PROVE  Expected(c)
    BY <1>2 DEF RuntimesInv, Expected, InTable
  <2>1. ProviderOf[c] # p
    BY <1>4, <1>5, WillRunEmpty
  <2>2. handlers'[ProviderOf[c]] = handlers[ProviderOf[c]] /\ handlers[ProviderOf[c]] # k /\ ProviderOf[c] \in Providers
    BY <1>4, <1>5, <2>1, AccountFacts
  <2>3. handlers[ProviderOf[c]] \in Procs
    BY <1>1, <2>2 DEF AccountsTypeOK
  <2> QED  BY <1>1, <1>4, <2>2, <2>3 DEF RuntimesInv
<1> QED  BY <1>6, <1>7, <1>8, <1>9, <1>10, <1>11 DEF AccountsInv

(* The process that is prepared is nobody else's.                          *)
LEMMA KeptByBeginUpdate ==
  ASSUME AccountsInv, NEW p \in Providers, NEW k \in Procs, BeginUpdate(p, k)
  PROVE  AccountsInv'
<1>1. AccountsTypeOK /\ PreferredIsConnected /\ ProcsInv /\ PluginsInv /\ FinalizersInv /\ AccountRowsInv /\ RuntimesInv
  BY DEF AccountsInv
<1>2. /\ app = "up" /\ p \in plugins /\ adm[p].at = "idle" /\ Spawned(k, {b \in Of(p) : InTable(b)})
      /\ adm' = [adm EXCEPT ![p] = [at |-> "updating", proc |-> k]]
      /\ UNCHANGED <<app, rows, unset, preferred, plugins, handlers, fin, leaving, torn, overtaken>>
  BY DEF BeginUpdate, accountTables
<1>3. {b \in Of(p) : InTable(b)} \in SUBSET Backends
  BY DEF Of
<1>4. /\ runtimes' \in [Procs -> SUBSET Backends] /\ inbox' \in [Procs -> Seq(Requests)]
      /\ killed' \in SUBSET Procs /\ killed' \subseteq killed /\ k \notin killed' /\ inbox'[k] = <<>>
      /\ \A j \in Procs : j # k => runtimes'[j] = runtimes[j] /\ inbox'[j] = inbox[j]
      /\ k # Null /\ \A q \in Providers : handlers[q] # k /\ adm[q].proc # k
      /\ \A a \in Attempts : fin[a].proc # k
  BY <1>1, <1>2, <1>3, SpawnedForm
<1>5. /\ adm' \in [Providers -> [at : {"idle", "updating", "removing"}, proc : Procs \cup {Null}]]
      /\ adm'[p].at = "updating" /\ adm'[p].proc = k /\ \A q \in Providers : q # p => adm'[q] = adm[q]
      /\ \A q \in Providers : adm'[q].at = "removing" <=> adm[q].at = "removing"
  BY <1>1, <1>2 DEF AccountsTypeOK
<1>6. AccountsTypeOK'
  BY <1>1, <1>2, <1>4, <1>5 DEF AccountsTypeOK
<1>7. PreferredIsConnected' /\ PluginsInv'
  BY <1>1, <1>2, <1>5 DEF PreferredIsConnected, InTable, PluginsInv, AtWork
<1>8. ProcsInv'
  <2>1. \A q \in Providers : adm[q].proc # Null => adm[q].proc \in Procs
    BY <1>1 DEF AccountsTypeOK
  <2>2. \A q, s \in Providers : adm'[q].proc # Null /\ adm'[q].proc = adm'[s].proc => q = s
    <3> SUFFICES ASSUME NEW q \in Providers, NEW s \in Providers, adm'[q].proc # Null, adm'[q].proc = adm'[s].proc
                 PROVE  q = s
      OBVIOUS
    <3>1. CASE q # p /\ s # p
      BY <1>1, <1>5, <3>1 DEF ProcsInv
    <3>2. CASE q = p /\ s # p
      BY <1>4, <1>5, <3>2
    <3>3. CASE q # p /\ s = p
      BY <1>4, <1>5, <3>3
    <3> QED  BY <3>1, <3>2, <3>3
  <2>3. \A q \in Providers : adm'[q].proc # Null =>
            /\ \A s \in Providers : handlers[s] # adm'[q].proc
            /\ \A a \in Attempts : fin[a].proc # adm'[q].proc
            /\ inbox'[adm'[q].proc] = <<>> /\ adm'[q].proc \notin killed'
    <3> SUFFICES ASSUME NEW q \in Providers, adm'[q].proc # Null
                 PROVE  /\ \A s \in Providers : handlers[s] # adm'[q].proc
                        /\ \A a \in Attempts : fin[a].proc # adm'[q].proc
                        /\ inbox'[adm'[q].proc] = <<>> /\ adm'[q].proc \notin killed'
      OBVIOUS
    <3>1. CASE q = p
      BY <1>4, <1>5, <3>1
    <3>2. CASE q # p
      <4>1. adm'[q] = adm[q] /\ adm[q].proc \in Procs /\ adm[q].proc # k
        BY <1>4, <1>5, <2>1, <3>2
      <4> QED  BY <1>1, <1>4, <4>1, SMTT(30) DEF ProcsInv
    <3> QED  BY <3>1, <3>2
  <2>4. \A q \in Providers : adm'[q].at = "updating" <=> adm'[q].proc # Null
    BY <1>1, <1>4, <1>5 DEF ProcsInv
  <2>5. \A q \in Providers : handlers[q] \notin killed'
    BY <1>1, <1>4 DEF ProcsInv
  <2> QED  BY <1>1, <1>2, <2>2, <2>3, <2>4, <2>5 DEF ProcsInv, AtWork
<1>9. FinalizersInv'
  BY <1>1, <1>2, <1>5, AccountFacts DEF FinalizersInv, InTable, AtWork, Owns
<1>10. AccountRowsInv'
  BY <1>1, <1>2 DEF AccountRowsInv, InTable, Owns
<1>11. RuntimesInv'
  <2> SUFFICES ASSUME NEW c \in Backends, handlers[ProviderOf[c]] # Null,
                      WillRun(inbox'[handlers[ProviderOf[c]]], runtimes'[handlers[ProviderOf[c]]], c)
               PROVE  Expected(c)'
    BY <1>2 DEF RuntimesInv
  <2>1. ProviderOf[c] \in Providers /\ handlers[ProviderOf[c]] # k
    BY <1>4, AccountFacts
  <2>2. handlers[ProviderOf[c]] \in Procs
    BY <1>1, <2>1 DEF AccountsTypeOK
  <2>3. Expected(c)
    BY <1>1, <1>4, <2>1, <2>2 DEF RuntimesInv
  <2> QED  BY <1>2, <1>5, <2>1, <2>3 DEF Expected, InTable
<1> QED  BY <1>6, <1>7, <1>8, <1>9, <1>10, <1>11 DEF AccountsInv

(* A replacement knows the rows of the moment it was prepared; those that  *)
(* changed since are recorded.                                             *)
LEMMA KeptByEndUpdate ==
  ASSUME AccountsInv, NEW p \in Providers, EndUpdate(p)
  PROVE  AccountsInv'
<1> DEFINE k == adm[p].proc
<1>1. AccountsTypeOK /\ PreferredIsConnected /\ ProcsInv /\ PluginsInv /\ FinalizersInv /\ AccountRowsInv /\ RuntimesInv
  BY DEF AccountsInv
<1>2. /\ app = "up" /\ adm[p].at = "updating" /\ adm' = [adm EXCEPT ![p] = NobodyAtWork]
      /\ UNCHANGED <<app, rows, unset, preferred, plugins, runtimes, inbox, killed, fin, leaving, torn>>
  BY DEF EndUpdate, accountTables
<1>3. k # Null /\ k \in Procs /\ inbox[k] = <<>> /\ k \notin killed
  BY <1>1, <1>2 DEF ProcsInv, AccountsTypeOK
<1>4. /\ adm' \in [Providers -> [at : {"idle", "updating", "removing"}, proc : Procs \cup {Null}]]
      /\ adm'[p].at = "idle" /\ adm'[p].proc = Null /\ \A q \in Providers : q # p => adm'[q] = adm[q]
      /\ \A q \in Providers : adm'[q].at = "removing" <=> adm[q].at = "removing"
  BY <1>1, <1>2 DEF AccountsTypeOK, NobodyAtWork
<1>5. /\ handlers' \in [Providers -> Procs \cup {Null}]
      /\ \A q \in Providers : q # p => handlers'[q] = handlers[q]
      /\ overtaken \subseteq overtaken' /\ overtaken' \in SUBSET Backends
      /\ \/ handlers'[p] = handlers[p]
         \/ /\ handlers'[p] = k
            /\ \A b \in Backends : ProviderOf[b] = p =>
                   /\ b \in runtimes[k] => InTable(b) \/ b \in overtaken'
                   /\ Connecting(b) => b \in overtaken'
  <2>1. CASE UNCHANGED <<handlers, overtaken>>
    BY <1>1, <2>1 DEF AccountsTypeOK
  <2>2. CASE /\ handlers' = [handlers EXCEPT ![p] = k]
             /\ overtaken' = overtaken \cup {b \in runtimes[k] : ~InTable(b)} \cup {b \in Of(p) : Connecting(b)}
    <3>1. overtaken' \in SUBSET Backends
      BY <1>1, <1>3, <2>2 DEF AccountsTypeOK, Of
    <3>2. /\ handlers' \in [Providers -> Procs \cup {Null}] /\ handlers'[p] = k
          /\ \A q \in Providers : q # p => handlers'[q] = handlers[q]
      BY <1>1, <1>3, <2>2 DEF AccountsTypeOK
    <3> QED  BY <2>2, <3>1, <3>2 DEF Of
  <2> QED  BY <2>1, <2>2 DEF EndUpdate
<1>6. AccountsTypeOK'
  BY <1>1, <1>2, <1>4, <1>5 DEF AccountsTypeOK
<1>7. PreferredIsConnected' /\ PluginsInv'
  <2>1. PreferredIsConnected'
    BY <1>1, <1>2 DEF PreferredIsConnected, InTable
  <2>2. PluginsInv'
    <3>1. p \in plugins
      BY <1>1, <1>2 DEF PluginsInv
    <3> QED  BY <1>1, <1>2, <1>4, <1>5, <3>1 DEF PluginsInv
  <2> QED  BY <2>1, <2>2
<1>8. ProcsInv'
  <2>1. \A q, s \in Providers : handlers'[q] # Null /\ handlers'[q] = handlers'[s] => q = s
    BY <1>1, <1>3, <1>5 DEF ProcsInv
  <2>2. \A q, s \in Providers : adm'[q].proc # Null /\ adm'[q].proc = adm'[s].proc => q = s
    BY <1>1, <1>4 DEF ProcsInv
  <2>3. ASSUME NEW q \in Providers, adm'[q].proc # Null
        PROVE  /\ \A s \in Providers : handlers'[s] # adm'[q].proc
               /\ \A a \in Attempts : fin[a].proc # adm'[q].proc
               /\ inbox[adm'[q].proc] = <<>> /\ adm'[q].proc \notin killed
    <3>1. q # p /\ adm'[q] = adm[q] /\ adm[q].proc # k
      BY <1>1, <1>3, <1>4, <2>3 DEF ProcsInv
    <3> QED  BY <1>1, <1>5, <2>3, <3>1 DEF ProcsInv
  <2>4. \A q \in Providers : adm'[q].at = "updating" <=> adm'[q].proc # Null
    BY <1>1, <1>4 DEF ProcsInv
  <2>5. \A q \in Providers : handlers'[q] \notin killed
    BY <1>1, <1>3, <1>5 DEF ProcsInv
  <2> QED  BY <1>1, <1>2, <2>1, <2>2, <2>3, <2>4, <2>5 DEF ProcsInv, AtWork
<1>9. FinalizersInv'
  <2>1. ASSUME NEW a \in Attempts, AtWork(a), BackendOf[a] \notin overtaken'
        PROVE  handlers'[ProviderOf[BackendOf[a]]] = handlers[ProviderOf[BackendOf[a]]]
    <3>1. Connecting(BackendOf[a]) /\ BackendOf[a] \in Backends /\ ProviderOf[BackendOf[a]] \in Providers
      BY <2>1, AccountFacts DEF Connecting, AtWork
    <3> QED  BY <1>5, <2>1, <3>1
  <2>2. \A a \in Attempts : ProviderOf[BackendOf[a]] \in Providers
    BY AccountFacts
  <2> QED  BY <1>1, <1>2, <1>4, <1>5, <2>1, <2>2 DEF FinalizersInv, InTable, AtWork, Owns
<1>10. AccountRowsInv'
  BY <1>1, <1>2, <1>5 DEF AccountRowsInv, InTable, Owns
<1>11. RuntimesInv'
  <2> SUFFICES ASSUME NEW c \in Backends, handlers'[ProviderOf[c]] # Null,
                      WillRun(inbox[handlers'[ProviderOf[c]]], runtimes[handlers'[ProviderOf[c]]], c)
               PROVE  Expected(c)'
    BY <1>2 DEF RuntimesInv
  <2>1. ProviderOf[c] \in Providers
    BY AccountFacts
  <2>2. CASE handlers'[ProviderOf[c]] = handlers[ProviderOf[c]]
    <3>1. Expected(c)
      BY <1>1, <2>2 DEF RuntimesInv
    <3> QED  BY <1>2, <1>4, <1>5, <2>1, <3>1 DEF Expected, InTable
  <2>3. CASE handlers'[ProviderOf[c]] # handlers[ProviderOf[c]]
    <3>1. ProviderOf[c] = p /\ handlers'[p] = k /\ (c \in runtimes[k] => InTable(c) \/ c \in overtaken')
      BY <1>5, <2>1, <2>3
    <3>2. c \in runtimes[k]
      BY <1>3, <3>1, WillRunEmpty
    <3> QED  BY <1>2, <3>1, <3>2 DEF Expected, InTable
  <2> QED  BY <2>2, <2>3
<1> QED  BY <1>6, <1>7, <1>8, <1>9, <1>10, <1>11 DEF AccountsInv

(* The rows of a plugin go with it, and its removal answers for the        *)
(* runtimes.                                                               *)
LEMMA KeptByBeginRemove ==
  ASSUME AccountsInv, NEW p \in Providers, BeginRemove(p)
  PROVE  AccountsInv'
<1>1. AccountsTypeOK /\ PreferredIsConnected /\ ProcsInv /\ PluginsInv /\ FinalizersInv /\ AccountRowsInv /\ RuntimesInv
  BY DEF AccountsInv
<1>2. /\ app = "up" /\ adm[p].at = "idle" /\ plugins' = plugins \ {p} /\ DeleteBackends(Of(p))
      /\ adm' = [adm EXCEPT ![p] = [at |-> "removing", proc |-> Null]]
      /\ UNCHANGED <<app, handlers, runtimes, inbox, killed, fin, leaving, torn, overtaken>>
  BY DEF BeginRemove
<1>3. /\ rows' \in Seq(Backends) /\ DistinctRows(rows') /\ preferred' \in Backends \cup {Null}
      /\ PreferredIsConnected' /\ ToSet(rows') = ToSet(rows) \ Of(p) /\ unset' = unset \ Of(p)
  BY <1>1, <1>2, DeleteBackendsSound
<1>4. /\ adm' \in [Providers -> [at : {"idle", "updating", "removing"}, proc : Procs \cup {Null}]]
      /\ adm'[p].at = "removing" /\ adm'[p].proc = Null /\ \A q \in Providers : q # p => adm'[q] = adm[q]
  BY <1>1, <1>2 DEF AccountsTypeOK
<1>5. \A b \in Backends : b \in Of(p) <=> ProviderOf[b] = p
  BY DEF Of
<1>6. AccountsTypeOK'
  BY <1>1, <1>2, <1>3, <1>4 DEF AccountsTypeOK
<1>7. PluginsInv'
  BY <1>1, <1>2, <1>4 DEF PluginsInv
<1>8. ProcsInv'
  <2>1. adm[p].proc = Null
    BY <1>1, <1>2 DEF ProcsInv
  <2>2. \A q \in Providers : adm'[q].proc = adm[q].proc
    BY <1>4, <2>1
  <2>3. \A q \in Providers : adm'[q].at = "updating" <=> adm[q].at = "updating"
    BY <1>2, <1>4
  <2> QED  BY <1>1, <1>2, <2>2, <2>3 DEF ProcsInv, AtWork
<1>9. FinalizersInv'
  <2> SUFFICES ASSUME NEW a \in Attempts, AtWork(a), BackendOf[a] \notin overtaken
               PROVE  /\ fin[a].proc = handlers[ProviderOf[BackendOf[a]]]
                      /\ Owns(a, BackendOf[a]) =>
                           /\ InTable(BackendOf[a])' \/ adm'[ProviderOf[BackendOf[a]]].at = "removing"
                           /\ \A c \in Attempts : Owns(c, BackendOf[a]) => c = a
    BY <1>2 DEF FinalizersInv, AtWork, Owns
  <2>1. BackendOf[a] \in Backends /\ ProviderOf[BackendOf[a]] \in Providers
    BY AccountFacts
  <2>2. CASE ProviderOf[BackendOf[a]] = p
    BY <1>1, <1>4, <2>2 DEF FinalizersInv
  <2>3. CASE ProviderOf[BackendOf[a]] # p
    BY <1>1, <1>3, <1>4, <1>5, <2>1, <2>3 DEF FinalizersInv, InTable
  <2> QED  BY <2>2, <2>3
<1>10. AccountRowsInv'
  <2> SUFFICES ASSUME NEW c \in Backends, c \in ToSet(rows'), c \notin torn \cup overtaken
               PROVE  /\ c \in unset' => \E d \in Attempts : Owns(d, c)
                      /\ ProviderOf[c] \in Builtin \cup plugins'
    BY <1>2 DEF AccountRowsInv, InTable, Owns
  <2>1. c \in ToSet(rows) /\ ProviderOf[c] # p
    BY <1>3, <1>5
  <2> QED  BY <1>1, <1>2, <1>3, <2>1 DEF AccountRowsInv, InTable
<1>11. RuntimesInv'
  <2> SUFFICES ASSUME NEW c \in Backends, Expected(c) PROVE Expected(c)'
    BY <1>1, <1>2 DEF RuntimesInv
  <2>1. ProviderOf[c] \in Providers
    BY AccountFacts
  <2>2. CASE ProviderOf[c] = p
    BY <1>4, <2>2 DEF Expected
  <2>3. CASE ProviderOf[c] # p
    <3>1. InTable(c) => InTable(c)'
      BY <1>3, <1>5, <2>3 DEF InTable
    <3> QED  BY <1>2, <1>4, <2>1, <2>3, <3>1 DEF Expected
  <2> QED  BY <2>2, <2>3
<1> QED  BY <1>3, <1>6, <1>7, <1>8, <1>9, <1>10, <1>11 DEF AccountsInv

(* With the process of a plugin go its runtimes.                           *)
LEMMA KeptByEndRemove ==
  ASSUME AccountsInv, NEW p \in Providers, EndRemove(p)
  PROVE  AccountsInv'
<1>1. AccountsTypeOK /\ PreferredIsConnected /\ ProcsInv /\ PluginsInv /\ FinalizersInv /\ AccountRowsInv /\ RuntimesInv
  BY DEF AccountsInv
<1>2. /\ app = "up" /\ adm[p].at = "removing" /\ adm' = [adm EXCEPT ![p] = NobodyAtWork]
      /\ handlers' = [handlers EXCEPT ![p] = Null] /\ killed' = killed \cup ({handlers[p]} \ {Null})
      /\ overtaken' = overtaken \cup {b \in Of(p) : Connecting(b)}
      /\ UNCHANGED <<app, rows, unset, preferred, plugins, runtimes, inbox, fin, leaving, torn>>
  BY DEF EndRemove, accountTables
<1>3. /\ adm' \in [Providers -> [at : {"idle", "updating", "removing"}, proc : Procs \cup {Null}]]
      /\ adm'[p].at = "idle" /\ adm'[p].proc = Null /\ \A q \in Providers : q # p => adm'[q] = adm[q]
  BY <1>1, <1>2 DEF AccountsTypeOK, NobodyAtWork
<1>4. /\ handlers' \in [Providers -> Procs \cup {Null}] /\ handlers'[p] = Null
      /\ \A q \in Providers : q # p => handlers'[q] = handlers[q]
  BY <1>1, <1>2 DEF AccountsTypeOK
<1>5. overtaken \subseteq overtaken' /\ overtaken' \in SUBSET Backends /\ killed' \in SUBSET Procs
  BY <1>1, <1>2 DEF AccountsTypeOK, Of
<1>6. AccountsTypeOK'
  BY <1>1, <1>2, <1>3, <1>4, <1>5 DEF AccountsTypeOK
<1>7. PreferredIsConnected' /\ PluginsInv'
  <2>1. PreferredIsConnected'
    BY <1>1, <1>2 DEF PreferredIsConnected, InTable
  <2>2. PluginsInv'
    BY <1>1, <1>2, <1>3, <1>4 DEF PluginsInv
  <2> QED  BY <2>1, <2>2
<1>8. ProcsInv'
  <2>1. \A q \in Providers : adm'[q].proc = adm[q].proc /\ (adm'[q].at = "updating" <=> adm[q].at = "updating")
    BY <1>1, <1>2, <1>3 DEF ProcsInv
  <2>2. \A q, s \in Providers : handlers'[q] # Null /\ handlers'[q] = handlers'[s] => q = s
    BY <1>1, <1>4 DEF ProcsInv
  <2>3. ASSUME NEW q \in Providers, adm[q].proc # Null
        PROVE  (\A s \in Providers : handlers'[s] # adm[q].proc) /\ adm[q].proc \notin killed'
    BY <1>1, <1>2, <1>4, <2>3 DEF ProcsInv
  <2>4. ASSUME NEW q \in Providers PROVE handlers'[q] \notin killed'
    <3>1. CASE q = p
      BY <1>4, <1>5, <3>1, AccountFacts
    <3>2. CASE q # p
      BY <1>1, <1>2, <1>4, <3>2 DEF ProcsInv
    <3> QED  BY <3>1, <3>2
  <2> QED  BY <1>1, <1>2, <2>1, <2>2, <2>3, <2>4 DEF ProcsInv, AtWork
<1>9. FinalizersInv'
  <2>1. ASSUME NEW a \in Attempts, AtWork(a), BackendOf[a] \notin overtaken'
        PROVE  ProviderOf[BackendOf[a]] # p /\ ProviderOf[BackendOf[a]] \in Providers
    <3>1. Connecting(BackendOf[a]) /\ BackendOf[a] \in Backends /\ ProviderOf[BackendOf[a]] \in Providers
      BY <2>1, AccountFacts DEF Connecting, AtWork
    <3> QED  BY <1>2, <2>1, <3>1 DEF Of
  <2>2. ASSUME NEW a \in Attempts, AtWork(a), BackendOf[a] \notin overtaken'
        PROVE  /\ handlers'[ProviderOf[BackendOf[a]]] = handlers[ProviderOf[BackendOf[a]]]
               /\ adm'[ProviderOf[BackendOf[a]]] = adm[ProviderOf[BackendOf[a]]]
               /\ BackendOf[a] \notin overtaken
    BY <1>3, <1>4, <1>5, <2>1, <2>2
  <2> QED  BY <1>1, <1>2, <2>2 DEF FinalizersInv, InTable, AtWork, Owns
<1>10. AccountRowsInv'
  BY <1>1, <1>2, <1>5 DEF AccountRowsInv, InTable, Owns
<1>11. RuntimesInv'
  <2> SUFFICES ASSUME NEW c \in Backends, handlers'[ProviderOf[c]] # Null,
                      WillRun(inbox[handlers'[ProviderOf[c]]], runtimes[handlers'[ProviderOf[c]]], c)
               PROVE  Expected(c)'
    BY <1>2 DEF RuntimesInv
  <2>1. ProviderOf[c] \in Providers /\ ProviderOf[c] # p
    BY <1>4, AccountFacts
  <2>2. Expected(c)
    BY <1>1, <1>4, <2>1 DEF RuntimesInv
  <2> QED  BY <1>2, <1>3, <1>5, <2>1, <2>2 DEF Expected, InTable
<1> QED  BY <1>6, <1>7, <1>8, <1>9, <1>10, <1>11 DEF AccountsInv

(* The processes of a new program have the runtimes of the table.          *)
LEMMA KeptByStartProviders ==
  ASSUME AccountsInv, StartProviders
  PROVE  AccountsInv'
<1>1. AccountsTypeOK /\ PreferredIsConnected /\ ProcsInv /\ PluginsInv /\ FinalizersInv /\ AccountRowsInv /\ RuntimesInv
  BY DEF AccountsInv
<1>2. /\ app = "down" /\ app' = "up" /\ handlers' = Startup
      /\ runtimes' = [k \in Procs |-> {b \in Backends : Startup[ProviderOf[b]] = k /\ InTable(b)}]
      /\ inbox' = [k \in Procs |-> <<>>] /\ killed' = {}
      /\ UNCHANGED <<rows, unset, preferred, plugins, fin, leaving, adm, torn, overtaken>>
  BY DEF StartProviders, accountTables
<1>3. /\ handlers' \in [Providers -> Procs \cup {Null}]
      /\ \A p \in Providers : handlers'[p] = Null <=> p \notin Builtin \cup plugins
      /\ \A p, q \in Providers : handlers'[p] = handlers'[q] /\ handlers'[p] # Null => p = q
  <2> DEFINE Fits(h) == /\ \A p \in Providers : h[p] = Null <=> p \notin Builtin \cup plugins
                        /\ \A p, q \in Providers : h[p] = h[q] /\ h[p] # Null => p = q
             S == [Providers -> Procs \cup {Null}]
  <2>1. \E h \in S : Fits(h)
    <3>1. (Builtin \cup plugins) \cap Providers \in SUBSET Providers
      OBVIOUS
    <3>2. PICK h \in S :
                /\ \A p \in Providers : h[p] = Null <=> p \notin (Builtin \cup plugins) \cap Providers
                /\ \A p, q \in Providers : h[p] = h[q] /\ h[p] # Null => p = q
      BY <3>1, AccountsAssumption
    <3> QED  BY <3>2
  <2>2. handlers' = CHOOSE h \in S : Fits(h)
    BY <1>2 DEF Startup
  <2> HIDE DEF Fits, S
  <2>3. handlers' \in S /\ Fits(handlers')
    BY <2>1, <2>2
  <2> QED  BY <2>3 DEF Fits, S
<1>4. \A a \in Attempts : ~AtWork(a)
  BY <1>1, <1>2 DEF PluginsInv
<1>5. \A p \in Providers : adm[p].at = "idle" /\ adm[p].proc = Null
  BY <1>1, <1>2 DEF PluginsInv, ProcsInv
<1>6. runtimes' \in [Procs -> SUBSET Backends] /\ inbox' \in [Procs -> Seq(Requests)]
  BY <1>2
<1>7. AccountsTypeOK'
  BY <1>1, <1>2, <1>3, <1>6 DEF AccountsTypeOK
<1>8. PreferredIsConnected' /\ PluginsInv'
  BY <1>1, <1>2, <1>3, <1>5 DEF PreferredIsConnected, InTable, PluginsInv
<1>9. ProcsInv'
  BY <1>1, <1>2, <1>3, <1>5 DEF ProcsInv, AtWork
<1>10. FinalizersInv' /\ AccountRowsInv'
  BY <1>1, <1>2, <1>4 DEF FinalizersInv, AccountRowsInv, AtWork, Owns, InTable
<1>11. RuntimesInv'
  <2> SUFFICES ASSUME NEW c \in Backends, handlers'[ProviderOf[c]] # Null,
                      WillRun(inbox'[handlers'[ProviderOf[c]]], runtimes'[handlers'[ProviderOf[c]]], c)
               PROVE  Expected(c)'
    BY DEF RuntimesInv
  <2> DEFINE k == handlers'[ProviderOf[c]]
  <2>1. k \in Procs
    BY <1>3, AccountFacts
  <2>2. inbox'[k] = <<>> /\ \A b : b \in runtimes'[k] => InTable(b)
    BY <1>2, <2>1
  <2> HIDE DEF k
  <2>3. c \in runtimes'[k]
    BY <2>2, WillRunEmpty DEF k
  <2> QED  BY <1>2, <2>2, <2>3 DEF Expected, InTable
<1> QED  BY <1>7, <1>8, <1>9, <1>10, <1>11 DEF AccountsInv

(* With the program go the processes; the rows of calls that were cut are  *)
(* recorded.                                                               *)
LEMMA KeptByStopApp ==
  ASSUME AccountsInv, StopApp
  PROVE  AccountsInv'
<1>1. AccountsTypeOK /\ PreferredIsConnected /\ AccountRowsInv
  BY DEF AccountsInv
<1>2. /\ app' = "down" /\ torn' = torn \cup {b \in ToSet(rows) : UnderWay(b) \/ b \in overtaken}
      /\ handlers' = [p \in Providers |-> Null] /\ fin' = [a \in Attempts |-> NobodyAtWork]
      /\ leaving' = {} /\ adm' = [p \in Providers |-> NobodyAtWork] /\ overtaken' = {}
      /\ runtimes' = [k \in Procs |-> {}] /\ inbox' = [k \in Procs |-> <<>>] /\ killed' = {}
      /\ UNCHANGED <<rows, unset, preferred, plugins>>
  BY DEF StopApp, accountTables
<1>3. /\ \A a \in Attempts : fin'[a].at = "idle" /\ fin'[a].proc = Null
      /\ \A p \in Providers : adm'[p].at = "idle" /\ adm'[p].proc = Null /\ handlers'[p] = Null
  BY <1>2 DEF NobodyAtWork
<1>4. AccountsTypeOK'
  <2>1. ToSet(rows) \subseteq Backends
    BY <1>1 DEF AccountsTypeOK, ToSet
  <2>2. fin' \in [Attempts -> [at : FinSteps, proc : Procs \cup {Null}]]
    BY <1>2 DEF NobodyAtWork, FinSteps
  <2>3. adm' \in [Providers -> [at : {"idle", "updating", "removing"}, proc : Procs \cup {Null}]]
    BY <1>2 DEF NobodyAtWork
  <2>4. /\ handlers' \in [Providers -> Procs \cup {Null}] /\ runtimes' \in [Procs -> SUBSET Backends]
        /\ inbox' \in [Procs -> Seq(Requests)]
    BY <1>2
  <2>5. torn' \in SUBSET Backends
    BY <1>1, <1>2, <2>1 DEF AccountsTypeOK
  <2> QED  BY <1>1, <1>2, <2>2, <2>3, <2>4, <2>5 DEF AccountsTypeOK
<1>5. PreferredIsConnected'
  BY <1>1, <1>2 DEF PreferredIsConnected, InTable
<1>6. ProcsInv' /\ PluginsInv' /\ FinalizersInv' /\ RuntimesInv'
  <2>1. ProcsInv' /\ PluginsInv'
    BY <1>2, <1>3 DEF ProcsInv, PluginsInv, AtWork
  <2>2. FinalizersInv'
    BY <1>3 DEF FinalizersInv, AtWork
  <2>3. RuntimesInv'
    BY <1>3, AccountFacts DEF RuntimesInv
  <2> QED  BY <2>1, <2>2, <2>3
<1>7. AccountRowsInv'
  <2> SUFFICES ASSUME NEW c \in Backends, c \in ToSet(rows), c \notin torn'
               PROVE  c \notin unset /\ ProviderOf[c] \in Builtin \cup plugins
    BY <1>2 DEF AccountRowsInv, InTable
  <2>1. c \notin torn \cup overtaken /\ ~UnderWay(c)
    BY <1>2
  <2>2. ~\E a \in Attempts : Owns(a, c)
    BY <2>1 DEF Owns, UnderWay
  <2> QED  BY <1>1, <2>1, <2>2 DEF AccountRowsInv, InTable
<1> QED  BY <1>4, <1>5, <1>6, <1>7 DEF AccountsInv

-----------------------------------------------------------------------------
(* The tables of an earlier run.                                           *)
LEMMA AccountsStart ==
  ASSUME AccountsInit
  PROVE  AccountsInv
<1>1. PICK table \in Tables : AccountsRest("down", table)
  BY DEF AccountsInit
<1>2. table \in Seq(Backends) /\ DistinctRows(table)
  BY AccountsAssumption DEF DistinctRows
<1>3. /\ app = "down" /\ rows = table /\ unset = {} /\ plugins = Providers \ Builtin
      /\ preferred = (IF table = <<>> THEN Null ELSE Last(table))
      /\ handlers = [p \in Providers |-> Null]
      /\ runtimes = [k \in Procs |-> {}] /\ inbox = [k \in Procs |-> <<>>] /\ killed = {}
      /\ fin = [a \in Attempts |-> NobodyAtWork]
      /\ leaving = {} /\ adm = [p \in Providers |-> NobodyAtWork] /\ torn = {} /\ overtaken = {}
  BY <1>1 DEF AccountsRest
<1>4. table # <<>> => Last(table) \in Backends /\ Last(table) \in ToSet(table)
  BY <1>2 DEF Last, ToSet
<1>5. /\ \A a \in Attempts : fin[a].at = "idle" /\ fin[a].proc = Null
      /\ \A p \in Providers : adm[p].at = "idle" /\ adm[p].proc = Null /\ handlers[p] = Null
  BY <1>3 DEF NobodyAtWork
<1>6. AccountsTypeOK
  <2>1. fin \in [Attempts -> [at : FinSteps, proc : Procs \cup {Null}]]
    BY <1>3 DEF NobodyAtWork, FinSteps
  <2>2. adm \in [Providers -> [at : {"idle", "updating", "removing"}, proc : Procs \cup {Null}]]
    BY <1>3 DEF NobodyAtWork
  <2>3. /\ handlers \in [Providers -> Procs \cup {Null}] /\ runtimes \in [Procs -> SUBSET Backends]
        /\ inbox \in [Procs -> Seq(Requests)]
    BY <1>3
  <2> QED  BY <1>2, <1>3, <1>4, <2>1, <2>2, <2>3 DEF AccountsTypeOK
<1>7. PreferredIsConnected
  BY <1>2, <1>3, <1>4, AccountFacts DEF PreferredIsConnected, InTable
<1>8. ProcsInv /\ PluginsInv
  BY <1>3, <1>5 DEF ProcsInv, PluginsInv, AtWork
<1>9. FinalizersInv /\ RuntimesInv
  BY <1>5, AccountFacts DEF FinalizersInv, AtWork, RuntimesInv
<1>10. AccountRowsInv
  BY <1>3, AccountFacts DEF AccountRowsInv
<1> QED  BY <1>6, <1>7, <1>8, <1>9, <1>10 DEF AccountsInv

(* When everything has come to rest nobody is left to answer for a runtime *)
(* but its row.                                                            *)
LEMMA AccountsInvIsEnough ==
  ASSUME AccountsInv
  PROVE  AccountsAreWhole
<1>1. PreferredIsConnected /\ ProcsInv /\ AccountRowsInv /\ RuntimesInv
  BY DEF AccountsInv
<1>2. ASSUME Settled, NEW b \in Backends
      PROVE  /\ InTable(b) /\ b \notin torn \cup overtaken => b \notin unset /\ ProviderOf[b] \in Builtin \cup plugins
             /\ handlers[ProviderOf[b]] # Null /\ b \in runtimes[handlers[ProviderOf[b]]] =>
                    InTable(b) \/ b \in overtaken
  <2>1. /\ leaving = {} /\ \A a \in Attempts : fin[a].at \in {"idle", "over"}
        /\ \A p \in Providers : adm[p].at = "idle" /\ (handlers[p] # Null => inbox[handlers[p]] = <<>>)
    BY <1>2 DEF Settled
  <2>2. \A a \in Attempts : ~Owns(a, b)
    BY <2>1 DEF Owns
  <2>3. ASSUME handlers[ProviderOf[b]] # Null, b \in runtimes[handlers[ProviderOf[b]]]
        PROVE  InTable(b) \/ b \in overtaken
    <3>1. ProviderOf[b] \in Providers
      BY AccountFacts
    <3>2. inbox[handlers[ProviderOf[b]]] = <<>>
      BY <2>1, <2>3, <3>1
    <3>3. WillRun(inbox[handlers[ProviderOf[b]]], runtimes[handlers[ProviderOf[b]]], b)
      BY <2>3, <3>2, WillRunEmpty
    <3>4. Expected(b)
      BY <1>1, <2>3, <3>3 DEF RuntimesInv
    <3> QED  BY <2>1, <3>1, <3>4 DEF Expected
  <2> QED  BY <1>1, <2>2, <2>3 DEF AccountRowsInv
<1> QED  BY <1>1, <1>2 DEF AccountsAreWhole, AccountsSettle

(* An account is whole or it is not there, for any number of backends,     *)
(* plugins, processes and attempts: whatever order connecting,             *)
(* disconnecting, replacing or removing a plugin, late answers and the end *)
(* of the program come in (finalize, disconnect, remove_provider).         *)
THEOREM AccountsAreWholeAlways == AccountsSpec => []AccountsAreWhole
<1>1. AccountsInit => AccountsInv
  BY AccountsStart
<1>2. AccountsInv /\ [AccountsNext]_accountVars => AccountsInv'
  <2> SUFFICES ASSUME AccountsInv, [AccountsNext]_accountVars PROVE AccountsInv'
    OBVIOUS
  <2>1. CASE UNCHANGED accountVars
    <3>1. UNCHANGED <<app, rows, unset, preferred, plugins, handlers, runtimes, inbox, killed, fin,
                    leaving, adm, torn, overtaken>>
      BY <2>1 DEF accountVars, accountTables
    <3>2. AccountsTypeOK' /\ PreferredIsConnected'
      BY <3>1 DEF AccountsInv, AccountsTypeOK, PreferredIsConnected, InTable
    <3>3. ProcsInv' /\ PluginsInv'
      BY <3>1 DEF AccountsInv, ProcsInv, PluginsInv, AtWork
    <3>4. FinalizersInv' /\ AccountRowsInv'
      BY <3>1 DEF AccountsInv, FinalizersInv, AccountRowsInv, InTable, AtWork, Owns
    <3>5. RuntimesInv'
      BY <3>1 DEF AccountsInv, RuntimesInv, Expected, InTable
    <3> QED  BY <3>2, <3>3, <3>4, <3>5 DEF AccountsInv
  <2>2. ASSUME NEW a \in Attempts,
               \/ BeginFinalize(a) \/ AbortFinalize(a) \/ FlowStarts(a) \/ FlowEnds(a) \/ StoreAuth(a) \/ SendInit(a)
               \/ InitTimeout(a) \/ ListModels(a) \/ StoreModel(a) \/ CleanUp(a) \/ CleanUpRuntime(a)
        PROVE  AccountsInv'
    BY <2>2, KeptByQuietSteps, KeptByStoreAuth, KeptBySendInit, KeptByInitTimeout, KeptByCleanUp, KeptByCleanUpRuntime
  <2>3. ASSUME NEW b \in Backends, Disconnect(b) \/ DisconnectRuntime(b)
        PROVE  AccountsInv'
    BY <2>3, KeptByDisconnect, KeptByDisconnectRuntime
  <2>4. ASSUME NEW b \in Backends, NEW as_default \in BOOLEAN, SetPreferred(b, as_default)
        PROVE  AccountsInv'
    BY <2>4, KeptBySetPreferred
  <2>5. ASSUME NEW p \in Providers, NEW k \in Procs, AddProvider(p, k) \/ BeginUpdate(p, k)
        PROVE  AccountsInv'
    BY <2>5, KeptByAddProvider, KeptByBeginUpdate
  <2>6. ASSUME NEW p \in Providers, EndUpdate(p) \/ BeginRemove(p) \/ EndRemove(p)
        PROVE  AccountsInv'
    BY <2>6, KeptByEndUpdate, KeptByBeginRemove, KeptByEndRemove
  <2>7. ASSUME NEW k \in Procs, Serve(k)
        PROVE  AccountsInv'
    BY <2>7, KeptByServe
  <2>8. CASE StartProviders \/ StopApp
    BY <2>8, KeptByStartProviders, KeptByStopApp
  <2> QED  BY <2>1, <2>2, <2>3, <2>4, <2>5, <2>6, <2>7, <2>8 DEF AccountsNext
<1>3. AccountsInv => AccountsAreWhole
  BY AccountsInvIsEnough
<1> QED  BY <1>1, <1>2, <1>3, PTL DEF AccountsSpec

-----------------------------------------------------------------------------
(* ModelCatalog.  What is made entry by entry is made by a recursive       *)
(* function over the positions of a listing.                               *)

(* A set of naturals that is not empty has a least member.                 *)
LEMMA Least ==
  ASSUME NEW T \in SUBSET Nat, T # {}
  PROVE  \E x \in T : \A y \in T : x <= y
  <1> DEFINE R == OpToRel(<, Nat)
  <1>1. IsWellFoundedOn(R, Nat)
    BY NatLessThanWellFounded
  <1>2. R = {ss \in Nat \X Nat : ss[1] < ss[2]}
    BY DEF OpToRel
  <1> HIDE DEF R
  <1>3. PICK x \in T : \A y \in T : ~(<<y, x>> \in R)
    BY <1>1, WFMin
  <1>4. \A y \in T : ~(y < x)
    <2> SUFFICES ASSUME NEW y \in T, y < x PROVE FALSE
      OBVIOUS
    <2>1. <<y, x>> \in {ss \in Nat \X Nat : ss[1] < ss[2]}
      OBVIOUS
    <2> QED
      BY <2>1, <1>2, <1>3
  <1> QED
    BY <1>4

(* A set with a number that has the next of each below a bound has all.    *)
LEMMA UpFrom ==
  ASSUME NEW a \in Nat, NEW b \in Nat, NEW S, a \in S, \A n \in S \cap (a..b) : n < b => n + 1 \in S
  PROVE  a..b \subseteq S
  <1> SUFFICES ASSUME (a..b) \ S # {} PROVE FALSE
    OBVIOUS
  <1>1. PICK x \in (a..b) \ S : \A y \in (a..b) \ S : x <= y
    <2>1. (a..b) \ S \in SUBSET Nat
      OBVIOUS
    <2> QED
      BY <2>1, Least
  <1>2. x - 1 \in a..b /\ x - 1 < b /\ x - 1 \in S
    BY <1>1
  <1> QED
    BY <1>1, <1>2

(* A value that is made step by step exists, where the steps lead from one *)
(* level to the next.                                                      *)
Leads(step, L, S, a, b) ==
    /\ L \in [a..b -> SUBSET S] /\ step \in [(a + 1)..b -> [S -> S]]
    /\ \A i \in (a + 1)..b : \A t \in L[i - 1] : step[i][t] \in L[i]
Steps(f, step, a, b, start) == f[a] = start /\ \A i \in (a + 1)..b : f[i] = step[i][f[i - 1]]

LEMMA Climbs ==
  ASSUME NEW a \in Nat, NEW b \in Nat, a <= b, NEW S, NEW L, NEW start \in L[a], NEW step,
         Leads(step, L, S, a, b)
  PROVE  \E f \in [a..b -> S] : Steps(f, step, a, b, start)
  <1>0. /\ L \in [a..b -> SUBSET S] /\ step \in [(a + 1)..b -> [S -> S]]
        /\ \A i \in (a + 1)..b : \A t \in L[i - 1] : step[i][t] \in L[i]
    BY DEF Leads
  <1> DEFINE Made(m, f) == /\ f[a] = start
                           /\ \A i \in (a + 1)..m : f[i] = step[i][f[i - 1]]
                           /\ f[m] \in L[m]
             T == {m \in a..b : \E f \in [a..m -> S] : Made(m, f)}
  <1>1. a \in T
    <2> DEFINE g == [i \in a..a |-> start]
    <2>1. g \in [a..a -> S] /\ Made(a, g) /\ a \in a..b
      BY <1>0
    <2> HIDE DEF g
    <2> QED
      BY <2>1
  <1>2. ASSUME NEW m \in T \cap (a..b), m < b PROVE m + 1 \in T
    <2>1. PICK f \in [a..m -> S] : Made(m, f)
      BY <1>2
    <2> DEFINE next == step[m + 1][f[m]]
               g == [i \in a..(m + 1) |-> IF i = m + 1 THEN next ELSE f[i]]
    <2>2. m \in Nat /\ m + 1 \in (a + 1)..b /\ m \in a..m /\ m \in a..b /\ (m + 1) - 1 = m /\ m + 1 \in a..b
      BY <1>2
    <2>3. next \in L[m + 1] /\ next \in S
      <3>1. f[m] \in L[m]
        BY <2>1
      <3>2. next \in L[m + 1]
        BY <1>0, <2>2, <3>1
      <3> QED
        BY <1>0, <2>2, <3>2
    <2> HIDE DEF next
    <2>4. g \in [a..(m + 1) -> S]
      BY <2>2, <2>3
    <2>5. g[m + 1] = next /\ \A i \in a..m : g[i] = f[i]
      BY <2>2
    <2> HIDE DEF g
    <2>6. ASSUME NEW i \in (a + 1)..(m + 1) PROVE g[i] = step[i][g[i - 1]]
      <3>1. CASE i = m + 1
        BY <2>2, <2>5, <3>1 DEF next
      <3>2. CASE i # m + 1
        <4>1. i \in (a + 1)..m /\ i \in a..m /\ i - 1 \in a..m
          BY <2>2, <3>2
        <4> QED
          BY <2>1, <2>5, <4>1
      <3> QED
        BY <3>1, <3>2
    <2>7. g[a] = start
      BY <2>1, <2>2, <2>5
    <2>8. Made(m + 1, g)
      BY <2>3, <2>5, <2>6, <2>7
    <2> QED
      BY <2>2, <2>4, <2>8
  <1>3. b \in T
    <2> HIDE DEF T
    <2>1. a..b \subseteq T
      BY <1>1, <1>2, UpFrom
    <2> QED
      BY <2>1
  <1> QED
    BY <1>3 DEF Steps

(* A function that follows the steps stays on the levels they lead to.     *)
Follows(up, step, S, n, start) ==
    up[0] = start /\ \A i \in 1..n : up[i - 1] \in S => up[i] = step[i][up[i - 1]]

LEMMA Arrives ==
  ASSUME NEW n \in Nat, NEW S, NEW L, NEW start \in L[0], NEW step, Leads(step, L, S, 0, n),
         NEW up, Follows(up, step, S, n, start)
  PROVE  up[n] \in L[n]
  <1> DEFINE T == {i \in 0..n : up[i] \in L[i]}
  <1>0. /\ L \in [0..n -> SUBSET S] /\ step \in [(0 + 1)..n -> [S -> S]]
        /\ \A i \in (0 + 1)..n : \A t \in L[i - 1] : step[i][t] \in L[i]
    BY DEF Leads
  <1>1. 0 \in T
    BY DEF Follows
  <1>2. ASSUME NEW i \in T \cap (0..n), i < n PROVE i + 1 \in T
    <2>1. i \in Nat /\ i + 1 \in (0 + 1)..n /\ i + 1 \in 1..n /\ i + 1 \in 0..n /\ (i + 1) - 1 = i /\ i \in 0..n
      BY <1>2
    <2>2. up[i] \in L[i]
      BY <1>2
    <2>3. up[i] \in S
      BY <1>0, <2>1, <2>2
    <2>4. up[i + 1] = step[i + 1][up[i]]
      BY <2>1, <2>3 DEF Follows
    <2>5. step[i + 1][up[i]] \in L[i + 1]
      BY <1>0, <2>1, <2>2
    <2> QED
      BY <2>1, <2>4, <2>5
  <1>3. 0..n \subseteq T
    <2> HIDE DEF T
    <2>1. 0 \in Nat
      OBVIOUS
    <2> QED
      BY <1>1, <1>2, <2>1, UpFrom
  <1> QED
    BY <1>3
(* What is kept are entries that pass; none is kept only if none passes.   *)
KeptOf(s, T, S, i) == {q \in Seq(S \cap T) : (\E j \in 1..i : s[j] \in T) => q # <<>>}

LEMMA KeptMore ==
  ASSUME NEW S, NEW s \in Seq(S), NEW T, NEW i \in 1..Len(s), NEW q \in KeptOf(s, T, S, i - 1)
  PROVE  (IF s[i] \in T THEN Append(q, s[i]) ELSE q) \in KeptOf(s, T, S, i)
  <1>1. q \in Seq(S \cap T) /\ ((\E j \in 1..(i - 1) : s[j] \in T) => q # <<>>)
    BY DEF KeptOf
  <1>2. CASE s[i] \in T
    <2>1. s[i] \in S \cap T
      BY <1>2
    <2>2. Append(q, s[i]) \in Seq(S \cap T) /\ Len(Append(q, s[i])) = Len(q) + 1 /\ Len(q) \in Nat
      BY <1>1, <2>1
    <2>3. Append(q, s[i]) # <<>>
      BY <2>2
    <2> QED
      BY <1>2, <2>2, <2>3 DEF KeptOf
  <1>3. CASE s[i] \notin T
    <2>1. (\E j \in 1..i : s[j] \in T) => \E j \in 1..(i - 1) : s[j] \in T
      <3> SUFFICES ASSUME NEW j \in 1..i, s[j] \in T PROVE \E k \in 1..(i - 1) : s[k] \in T
        OBVIOUS
      <3>1. j # i /\ j \in 1..(i - 1)
        BY <1>3
      <3> QED
        BY <3>1
    <2> QED
      BY <1>1, <1>3, <2>1 DEF KeptOf
  <1> QED
    BY <1>2, <1>3

LEMMA OnlyFacts ==
  ASSUME NEW S, NEW s \in Seq(S), NEW T
  PROVE  /\ Only(s, T) \in Seq(S \cap T)
         /\ (\E j \in 1..Len(s) : s[j] \in T) => Only(s, T) # <<>>
  <1> DEFINE n == Len(s)
             body(f) == [i \in 0..n |-> IF i = 0 THEN <<>>
                                        ELSE IF s[i] \in T THEN Append(f[i - 1], s[i]) ELSE f[i - 1]]
             upTo == CHOOSE f : f = body(f)
             One(i, q) == IF s[i] \in T THEN Append(q, s[i]) ELSE q
             Q == Seq(S)
             L == [i \in 0..n |-> KeptOf(s, T, S, i)]
             step == [i \in (0 + 1)..n |-> [q \in Q |-> One(i, q)]]
  <1>1. Only(s, T) = upTo[n]
    BY DEF Only
  <1>2. n \in Nat /\ 0 \in Nat /\ 0 <= n
    OBVIOUS
  <1>3. <<>> \in KeptOf(s, T, S, 0)
    BY DEF KeptOf
  <1>4. ASSUME NEW i \in 1..n, NEW q \in KeptOf(s, T, S, i - 1)
        PROVE  One(i, q) \in KeptOf(s, T, S, i)
    BY KeptMore
  <1>5. \A i : KeptOf(s, T, S, i) \subseteq Q
    BY DEF KeptOf
  <1>6. \A i \in 1..n : \A q \in Q : One(i, q) \in Q
    OBVIOUS
  <1> HIDE DEF n, One, Q
  <1>7. L \in [0..n -> SUBSET Q] /\ L[0] = KeptOf(s, T, S, 0) /\ L[n] = KeptOf(s, T, S, n)
    BY <1>2, <1>5
  <1>8. step \in [(0 + 1)..n -> [Q -> Q]] /\ \A i \in 1..n : \A q \in Q : step[i][q] = One(i, q)
    BY <1>6
  <1>9. \A i \in (0 + 1)..n : \A t \in L[i - 1] : step[i][t] \in L[i]
    <2> SUFFICES ASSUME NEW i \in (0 + 1)..n, NEW t \in L[i - 1] PROVE step[i][t] \in L[i]
      OBVIOUS
    <2>1. i - 1 \in 0..n /\ i \in 0..n /\ i \in 1..n
      BY <1>2
    <2>2. t \in KeptOf(s, T, S, i - 1) /\ t \in Q
      BY <2>1, <1>5
    <2>3. step[i][t] = One(i, t)
      BY <1>8, <2>1, <2>2
    <2>4. L[i] = KeptOf(s, T, S, i)
      BY <2>1
    <2> QED
      BY <2>1, <2>2, <2>3, <2>4, <1>4
  <1> HIDE DEF L, step
  <1>10. <<>> \in L[0] /\ Leads(step, L, Q, 0, n)
    BY <1>3, <1>7, <1>8, <1>9 DEF Leads
  <1>11. PICK g \in [0..n -> Q] : g[0] = <<>> /\ \A i \in (0 + 1)..n : g[i] = step[i][g[i - 1]]
    <2>1. \E f \in [0..n -> Q] : Steps(f, step, 0, n, <<>>)
      BY <1>2, <1>10, Climbs
    <2> QED
      BY <2>1 DEF Steps
  <1>12. g = body(g)
    <2>1. ASSUME NEW i \in 0..n PROVE g[i] = body(g)[i]
      <3>1. CASE i = 0
        BY <1>11, <3>1
      <3>2. CASE i # 0
        <4>1. i \in 1..n /\ i \in (0 + 1)..n /\ i - 1 \in 0..n
          BY <1>2, <3>2
        <4>2. g[i] = step[i][g[i - 1]] /\ g[i - 1] \in Q
          BY <1>11, <4>1
        <4>3. g[i] = One(i, g[i - 1])
          BY <1>8, <4>1, <4>2
        <4> QED
          BY <3>2, <4>1, <4>3 DEF One
      <3> QED
        BY <3>1, <3>2
    <2>2. DOMAIN body(g) = 0..n /\ body(g) = [i \in DOMAIN body(g) |-> body(g)[i]]
      OBVIOUS
    <2> HIDE DEF body
    <2> QED
      BY <2>1, <2>2
  <1>13. upTo = body(upTo)
    <2> HIDE DEF body
    <2> QED
      BY <1>12
  <1> HIDE DEF upTo
  <1>14. Follows(upTo, step, Q, n, <<>>)
    <2>1. /\ body(upTo)[0] = <<>>
          /\ \A i \in 1..n : body(upTo)[i] = One(i, upTo[i - 1])
      BY <1>2 DEF One
    <2> HIDE DEF body
    <2> QED
      BY <1>8, <1>13, <2>1 DEF Follows
  <1> HIDE DEF body
  <1>15. upTo[n] \in L[n]
    BY <1>2, <1>10, <1>14, Arrives
  <1> QED
    BY <1>1, <1>7, <1>15 DEF n, KeptOf

LEMMA PlacedFacts ==
  ASSUME NEW S, NEW q \in Seq(S), NEW m \in S
  PROVE  Placed(q, m) \in Seq(S)
  <1> DEFINE after == {i \in DOMAIN q : Before(m, q[i])}
  <1>1. CASE after = {}
    <2>1. Placed(q, m) = Append(q, m)
      BY <1>1 DEF Placed
    <2> QED
      BY <2>1
  <1>2. CASE after # {}
    <2> DEFINE k == Min(after)
    <2>1. Placed(q, m) = InsertAt(q, k, m)
      BY <1>2 DEF Placed
    <2>2. after \subseteq 1..Len(q)
      OBVIOUS
    <2> HIDE DEF after
    <2>3. k \in 1..Len(q)
      <3>1. after \in SUBSET Nat
        BY <2>2
      <3>2. \E x \in after : \A y \in after : x <= y
        BY <1>2, <3>1, Least
      <3>3. k \in after
        BY <3>2 DEF Min
      <3> QED
        BY <2>2, <3>3
    <2> HIDE DEF k
    <2>4. k - 1 \in Nat /\ Len(q) \in Nat
      BY <2>3
    <2>5. SubSeq(q, 1, k - 1) \in Seq(S)
      BY <2>3, <2>4
    <2>6. SubSeq(q, k, Len(q)) \in Seq(S)
      BY <2>3, <2>4
    <2>7. <<m>> \in Seq(S)
      OBVIOUS
    <2>8. SubSeq(q, 1, k - 1) \o <<m>> \o SubSeq(q, k, Len(q)) \in Seq(S)
      BY <2>5, <2>6, <2>7
    <2> QED
      BY <2>1, <2>8 DEF InsertAt
  <1> QED
    BY <1>1, <1>2

LEMMA OrderedFacts ==
  ASSUME NEW S, NEW s \in Seq(S)
  PROVE  Ordered(s) \in Seq(S)
  <1> DEFINE n == Len(s)
             body(f) == [i \in 0..n |-> IF i = 0 THEN <<>> ELSE Placed(f[i - 1], s[i])]
             upTo == CHOOSE f : f = body(f)
             One(i, q) == Placed(q, s[i])
             Q == Seq(S)
             L == [i \in 0..n |-> Q]
             step == [i \in (0 + 1)..n |-> [q \in Q |-> One(i, q)]]
  <1>1. Ordered(s) = upTo[n]
    BY DEF Ordered
  <1>2. n \in Nat /\ 0 \in Nat /\ 0 <= n
    OBVIOUS
  <1>3. <<>> \in Q
    OBVIOUS
  <1>4. ASSUME NEW i \in 1..n, NEW q \in Q
        PROVE  One(i, q) \in Q
    <2>1. s[i] \in S
      OBVIOUS
    <2> QED
      BY <2>1, PlacedFacts
  <1>6. \A i \in 1..n : \A q \in Q : One(i, q) \in Q
    BY <1>4
  <1> HIDE DEF n, One, Q
  <1>7. L \in [0..n -> SUBSET Q] /\ L[0] = Q /\ L[n] = Q
    BY <1>2
  <1>8. step \in [(0 + 1)..n -> [Q -> Q]] /\ \A i \in 1..n : \A q \in Q : step[i][q] = One(i, q)
    BY <1>6
  <1>9. \A i \in (0 + 1)..n : \A t \in L[i - 1] : step[i][t] \in L[i]
    <2> SUFFICES ASSUME NEW i \in (0 + 1)..n, NEW t \in L[i - 1] PROVE step[i][t] \in L[i]
      OBVIOUS
    <2>1. i - 1 \in 0..n /\ i \in 0..n /\ i \in 1..n
      BY <1>2
    <2> QED
      BY <2>1, <1>4, <1>8
  <1> HIDE DEF L, step
  <1>10. <<>> \in L[0] /\ Leads(step, L, Q, 0, n)
    BY <1>3, <1>7, <1>8, <1>9 DEF Leads
  <1>11. PICK g \in [0..n -> Q] : g[0] = <<>> /\ \A i \in (0 + 1)..n : g[i] = step[i][g[i - 1]]
    <2>1. \E f \in [0..n -> Q] : Steps(f, step, 0, n, <<>>)
      BY <1>2, <1>10, Climbs
    <2> QED
      BY <2>1 DEF Steps
  <1>12. g = body(g)
    <2>1. ASSUME NEW i \in 0..n PROVE g[i] = body(g)[i]
      <3>1. CASE i = 0
        BY <1>11, <3>1
      <3>2. CASE i # 0
        <4>1. i \in 1..n /\ i \in (0 + 1)..n /\ i - 1 \in 0..n
          BY <1>2, <3>2
        <4>2. g[i] = step[i][g[i - 1]] /\ g[i - 1] \in Q
          BY <1>11, <4>1
        <4>3. g[i] = One(i, g[i - 1])
          BY <1>8, <4>1, <4>2
        <4> QED
          BY <3>2, <4>1, <4>3 DEF One
      <3> QED
        BY <3>1, <3>2
    <2>2. DOMAIN body(g) = 0..n /\ body(g) = [i \in DOMAIN body(g) |-> body(g)[i]]
      OBVIOUS
    <2> HIDE DEF body
    <2> QED
      BY <2>1, <2>2
  <1>13. upTo = body(upTo)
    <2> HIDE DEF body
    <2> QED
      BY <1>12
  <1> HIDE DEF upTo
  <1>14. Follows(upTo, step, Q, n, <<>>)
    <2>1. /\ body(upTo)[0] = <<>>
          /\ \A i \in 1..n : body(upTo)[i] = One(i, upTo[i - 1])
      BY <1>2 DEF One
    <2> HIDE DEF body
    <2> QED
      BY <1>8, <1>13, <2>1 DEF Follows
  <1> HIDE DEF body
  <1>15. upTo[n] \in L[n]
    BY <1>2, <1>10, <1>14, Arrives
  <1> QED
    BY <1>1, <1>7, <1>15 DEF n, Q

(* The best of the first profiles serves the model; it is regional if any  *)
(* of them is, and there is none only if none of them serves it.           *)
Better(slug, i, b) ==
    IF slug \notin profiles[i].serves THEN b ELSE IF b = 0 \/ profiles[b].global THEN i ELSE b
BestOf(slug, i) ==
    {b \in 0..i :
        /\ b # 0 => slug \in profiles[b].serves
        /\ \A j \in 1..i : slug \in profiles[j].serves => b # 0 /\ (profiles[b].global => profiles[j].global)}

LEMMA BetterFacts ==
  ASSUME profiles \in Seq(Profile), NEW slug, NEW i \in 1..Len(profiles), NEW b \in BestOf(slug, i - 1)
  PROVE  Better(slug, i, b) \in BestOf(slug, i)
  <1>1. /\ b \in 0..(i - 1) /\ b # 0 => slug \in profiles[b].serves
        /\ \A j \in 1..(i - 1) : slug \in profiles[j].serves => b # 0 /\ (profiles[b].global => profiles[j].global)
    BY DEF BestOf
  <1>2. \A j \in 1..Len(profiles) : profiles[j].global \in BOOLEAN
    <2>1. \A j \in 1..Len(profiles) : profiles[j] \in Profile
      OBVIOUS
    <2> QED
      BY <2>1 DEF Profile
  <1>3. i \in Nat /\ \A j \in 1..i : j = i \/ j \in 1..(i - 1)
    OBVIOUS
  <1>4. CASE slug \notin profiles[i].serves
    BY <1>1, <1>3, <1>4 DEF Better, BestOf
  <1>5. CASE slug \in profiles[i].serves /\ (b = 0 \/ profiles[b].global)
    <2>1. Better(slug, i, b) = i
      BY <1>5 DEF Better
    <2>2. \A j \in 1..i : slug \in profiles[j].serves => (profiles[i].global => profiles[j].global)
      BY <1>1, <1>3, <1>5
    <2> QED
      BY <1>3, <1>5, <2>1, <2>2 DEF BestOf
  <1>6. CASE slug \in profiles[i].serves /\ ~(b = 0 \/ profiles[b].global)
    BY <1>1, <1>3, <1>6 DEF Better, BestOf
  <1> QED
    BY <1>4, <1>5, <1>6

LEMMA ProfileFacts ==
  ASSUME profiles \in Seq(Profile), NEW slug
  PROVE  InferenceProfile(slug) \in BestOf(slug, Len(profiles))
  <1> DEFINE n == Len(profiles)
             body(f) == [i \in 0..n |-> IF i = 0 THEN 0
                                        ELSE IF slug \notin profiles[i].serves THEN f[i - 1]
                                        ELSE IF f[i - 1] = 0 \/ profiles[f[i - 1]].global THEN i ELSE f[i - 1]]
             upTo == CHOOSE f : f = body(f)
             One(i, q) == Better(slug, i, q)
             Q == 0..n
             L == [i \in 0..n |-> BestOf(slug, i)]
             step == [i \in (0 + 1)..n |-> [q \in Q |-> One(i, q)]]
  <1>1. InferenceProfile(slug) = upTo[n]
    BY DEF InferenceProfile
  <1>2. n \in Nat /\ 0 \in Nat /\ 0 <= n
    OBVIOUS
  <1>3. 0 \in BestOf(slug, 0)
    BY DEF BestOf
  <1>4. ASSUME NEW i \in 1..n, NEW q \in BestOf(slug, i - 1)
        PROVE  One(i, q) \in BestOf(slug, i)
    BY BetterFacts
  <1>5. \A i \in 0..n : BestOf(slug, i) \subseteq Q
    BY DEF BestOf
  <1>6. \A i \in 1..n : \A q \in Q : One(i, q) \in Q
    BY DEF Better
  <1> HIDE DEF n, One, Q
  <1>7. L \in [0..n -> SUBSET Q] /\ L[0] = BestOf(slug, 0) /\ L[n] = BestOf(slug, n)
    BY <1>2, <1>5
  <1>8. step \in [(0 + 1)..n -> [Q -> Q]] /\ \A i \in 1..n : \A q \in Q : step[i][q] = One(i, q)
    BY <1>6
  <1>9. \A i \in (0 + 1)..n : \A t \in L[i - 1] : step[i][t] \in L[i]
    <2> SUFFICES ASSUME NEW i \in (0 + 1)..n, NEW t \in L[i - 1] PROVE step[i][t] \in L[i]
      OBVIOUS
    <2>1. i - 1 \in 0..n /\ i \in 0..n /\ i \in 1..n
      BY <1>2
    <2>2. t \in BestOf(slug, i - 1) /\ t \in Q
      BY <2>1, <1>5
    <2>3. step[i][t] = One(i, t)
      BY <1>8, <2>1, <2>2
    <2>4. L[i] = BestOf(slug, i)
      BY <2>1
    <2> QED
      BY <2>1, <2>2, <2>3, <2>4, <1>4
  <1> HIDE DEF L, step
  <1>10. 0 \in L[0] /\ Leads(step, L, Q, 0, n)
    BY <1>3, <1>7, <1>8, <1>9 DEF Leads
  <1>11. PICK g \in [0..n -> Q] : g[0] = 0 /\ \A i \in (0 + 1)..n : g[i] = step[i][g[i - 1]]
    <2>1. \E f \in [0..n -> Q] : Steps(f, step, 0, n, 0)
      BY <1>2, <1>10, Climbs
    <2> QED
      BY <2>1 DEF Steps
  <1>12. g = body(g)
    <2>1. ASSUME NEW i \in 0..n PROVE g[i] = body(g)[i]
      <3>1. CASE i = 0
        BY <1>11, <3>1
      <3>2. CASE i # 0
        <4>1. i \in 1..n /\ i \in (0 + 1)..n /\ i - 1 \in 0..n
          BY <1>2, <3>2
        <4>2. g[i] = step[i][g[i - 1]] /\ g[i - 1] \in Q
          BY <1>11, <4>1
        <4>3. g[i] = One(i, g[i - 1])
          BY <1>8, <4>1, <4>2
        <4> QED
          BY <3>2, <4>1, <4>3 DEF One, Better
      <3> QED
        BY <3>1, <3>2
    <2>2. DOMAIN body(g) = 0..n /\ body(g) = [i \in DOMAIN body(g) |-> body(g)[i]]
      OBVIOUS
    <2> HIDE DEF body
    <2> QED
      BY <2>1, <2>2
  <1>13. upTo = body(upTo)
    <2> HIDE DEF body
    <2> QED
      BY <1>12
  <1> HIDE DEF upTo
  <1>14. Follows(upTo, step, Q, n, 0)
    <2>1. /\ body(upTo)[0] = 0
          /\ \A i \in 1..n : body(upTo)[i] = One(i, upTo[i - 1])
      BY <1>2 DEF One, Better
    <2> HIDE DEF body
    <2> QED
      BY <1>8, <1>13, <2>1 DEF Follows
  <1> HIDE DEF body
  <1>15. upTo[n] \in L[n]
    BY <1>2, <1>10, <1>14, Arrives
  <1> QED
    BY <1>1, <1>7, <1>15 DEF n

EntriesOf(family) ==
    CASE family = "OpenAI" -> ResponsesEntry
      [] family = "Anthropic" -> MessagesEntry
      [] family = "Bedrock" -> ConverseEntry

CatalogTypeOK ==
    /\ runtime \in [family : {"OpenAI", "Anthropic", "Bedrock"}, status : {"new", "Running", "Unhealthy"}, key : {"key", "blank"}]
    /\ listing \in Seq(EntriesOf(runtime.family))
    /\ profiles \in Seq(Profile)

CatalogInv == CatalogTypeOK /\ CatalogueIsUsable

(* Each plugin's list, whatever its service lists.                         *)
DefaultsAreEfforts(list) == \A i \in DOMAIN list : list[i].default \in list[i].efforts

LEMMA ResponsesList ==
  ASSUME NEW response \in Seq(ResponsesEntry)
  PROVE  DefaultsAreEfforts(ModelsFromResponse(response))
  <1> DEFINE T == {m \in ResponsesEntry : m.supported /\ m.visibility = "list" /\ m.image}
             kept == Only(response, T)
             U == {m \in ResponsesEntry : DefaultEffort(m) # <<>>}
             sorted == Only(Ordered(kept), U)
             list == [i \in DOMAIN sorted |-> Model(sorted[i].slug, DefaultEffort(sorted[i])[1], Range(sorted[i].efforts))]
  <1>1. kept \in Seq(ResponsesEntry)
    <2>1. kept \in Seq(ResponsesEntry \cap T) /\ ResponsesEntry \cap T \subseteq ResponsesEntry
      BY OnlyFacts
    <2> HIDE DEF kept, T
    <2> QED
      BY <2>1
  <1>2. sorted \in Seq(ResponsesEntry \cap U)
    <2> HIDE DEF kept, U
    <2>1. Ordered(kept) \in Seq(ResponsesEntry)
      BY <1>1, OrderedFacts
    <2> QED
      BY <2>1, OnlyFacts
  <1>3. ModelsFromResponse(response) = list
    BY DEF ModelsFromResponse
  <1> HIDE DEF sorted, kept, T
  <1>4. ASSUME NEW m \in ResponsesEntry, DefaultEffort(m) # <<>>
        PROVE  DefaultEffort(m)[1] \in Range(m.efforts)
    <2>1. /\ m.efforts \in {<<>>, <<"low">>, <<"high", "low">>}
          /\ m.default \in {<<>>, <<"low">>, <<"medium">>}
      BY DEF ResponsesEntry
    <2>2. CASE m.default # <<>> /\ Contains(m.efforts, m.default[1])
      <3>1. DefaultEffort(m) = m.default
        BY <2>2 DEF DefaultEffort
      <3>2. \E k \in 1..Len(m.efforts) : m.efforts[k] = m.default[1]
        BY <2>2 DEF Contains
      <3>3. DOMAIN m.efforts = 1..Len(m.efforts)
        BY <2>1
      <3> QED
        BY <3>1, <3>2, <3>3 DEF Range
    <2>3. CASE ~(m.default # <<>> /\ Contains(m.efforts, m.default[1]))
      <3>1. m.efforts # <<>> /\ DefaultEffort(m) = <<m.efforts[1]>>
        BY <1>4, <2>3 DEF DefaultEffort
      <3>2. 1 \in DOMAIN m.efforts
        BY <2>1, <3>1
      <3>3. DefaultEffort(m)[1] = m.efforts[1]
        BY <3>1
      <3> QED
        BY <3>2, <3>3 DEF Range
    <2> QED
      BY <2>2, <2>3
  <1>5. ASSUME NEW i \in DOMAIN list PROVE list[i].default \in list[i].efforts
    <2>1. i \in 1..Len(sorted) /\ sorted[i] \in ResponsesEntry \cap U
      BY <1>2
    <2>2. /\ list[i].default = DefaultEffort(sorted[i])[1]
          /\ list[i].efforts = Range(sorted[i].efforts)
      BY <1>5 DEF Model
    <2> QED
      BY <1>4, <2>1, <2>2
  <1> HIDE DEF list
  <1> QED
    BY <1>3, <1>5 DEF DefaultsAreEfforts

LEMMA MessagesList ==
  ASSUME NEW data \in Seq(MessagesEntry)
  PROVE  DefaultsAreEfforts(ParseModelResponse(data))
  <1> DEFINE T == {m \in MessagesEntry : m.effort /\ m.image /\ m.adaptive /\ m.efforts # {}}
             kept == Only(data, T)
             InOrder(m) == Only(EffortOrder, m.efforts)
             Chosen(m) == InOrder(m)[IF Len(InOrder(m)) > 1 THEN 2 ELSE 1]
             list == [i \in DOMAIN kept |-> Model(kept[i].slug, Chosen(kept[i]), kept[i].efforts)]
  <1>1. kept \in Seq(MessagesEntry \cap T)
    BY OnlyFacts
  <1>2. ParseModelResponse(data) = list
    BY DEF ParseModelResponse
  <1> HIDE DEF kept
  <1>3. ASSUME NEW m \in MessagesEntry \cap T PROVE Chosen(m) \in m.efforts
    <2>1. m.efforts \subseteq Efforts /\ m.efforts # {}
      BY <1>3 DEF MessagesEntry
    <2>2. EffortOrder \in Seq(Efforts) /\ \A e \in Efforts : \E j \in 1..Len(EffortOrder) : EffortOrder[j] = e
      BY DEF EffortOrder, Efforts
    <2>3. \E j \in 1..Len(EffortOrder) : EffortOrder[j] \in m.efforts
      <3>1. PICK e \in Efforts : e \in m.efforts
        BY <2>1
      <3>2. PICK j \in 1..Len(EffortOrder) : EffortOrder[j] = e
        BY <2>2
      <3> QED
        BY <3>1, <3>2
    <2>4. InOrder(m) \in Seq(Efforts \cap m.efforts) /\ InOrder(m) # <<>>
      BY <2>2, <2>3, OnlyFacts
    <2> HIDE DEF InOrder
    <2>5. Len(InOrder(m)) \in Nat /\ Len(InOrder(m)) # 0
      BY <2>4
    <2> QED
      BY <2>4, <2>5
  <1>4. ASSUME NEW i \in DOMAIN list PROVE list[i].default \in list[i].efforts
    <2>1. i \in 1..Len(kept) /\ kept[i] \in MessagesEntry \cap T
      BY <1>1
    <2> HIDE DEF Chosen, T
    <2>2. list[i].default = Chosen(kept[i]) /\ list[i].efforts = kept[i].efforts
      BY <1>4 DEF Model
    <2> QED
      BY <1>3, <2>1, <2>2
  <1> HIDE DEF list
  <1> QED
    BY <1>2, <1>4 DEF DefaultsAreEfforts

(* A model of Bedrock: its entry, and the profile it is asked for by.      *)
Served(m) ==
    \E entry \in ConverseEntry, profile \in Nat :
        /\ m = ToModel(entry, profile)
        /\ profile # 0 => profile \in BestOf(entry.slug, Len(profiles))

LEMMA ConverseList ==
  ASSUME profiles \in Seq(Profile), NEW summaries \in Seq(ConverseEntry)
  PROVE  \A i \in DOMAIN FetchConverseModels(summaries) : Served(FetchConverseModels(summaries)[i])
  <1> DEFINE usable == Usable(summaries)
             T == {m \in ConverseEntry : "demand" \in m.types}
             U == {m \in ConverseEntry : "demand" \notin m.types /\ InferenceProfile(m.slug) # 0}
             onDemand == Only(usable, T)
             inference == Only(usable, U)
             first == [i \in DOMAIN onDemand |-> ToModel(onDemand[i], 0)]
             second == [i \in DOMAIN inference |-> ToModel(inference[i], InferenceProfile(inference[i].slug))]
  <1>1. FetchConverseModels(summaries) = first \o second
    BY DEF FetchConverseModels
  <1>2. usable \in Seq(ConverseEntry)
    <2> DEFINE V == {m \in ConverseEntry : /\ m.active /\ m.types # {} /\ m.streaming /\ m.image /\ ~m.unsupported}
    <2>1. usable = Only(summaries, V)
      BY DEF Usable
    <2> HIDE DEF V
    <2>2. usable \in Seq(ConverseEntry \cap V) /\ ConverseEntry \cap V \subseteq ConverseEntry
      BY <2>1, OnlyFacts
    <2> HIDE DEF usable
    <2> QED
      BY <2>2
  <1> HIDE DEF usable
  <1>3. onDemand \in Seq(ConverseEntry \cap T) /\ inference \in Seq(ConverseEntry \cap U)
    <2> HIDE DEF T, U
    <2> QED
      BY <1>2, OnlyFacts
  <1> HIDE DEF onDemand, inference
  <1>4. DOMAIN onDemand = 1..Len(onDemand) /\ DOMAIN inference = 1..Len(inference)
    BY <1>3
  <1>5. /\ first \in Seq({ToModel(e, 0) : e \in ConverseEntry}) /\ Len(first) = Len(onDemand)
        /\ second \in Seq({ToModel(e, InferenceProfile(e.slug)) : e \in ConverseEntry \cap U}) /\ Len(second) = Len(inference)
    <2> HIDE DEF T, U
    <2>1. \A i \in 1..Len(onDemand) : onDemand[i] \in ConverseEntry
      BY <1>3
    <2>2. \A i \in 1..Len(inference) : inference[i] \in ConverseEntry \cap U
      BY <1>3
    <2>3. Len(onDemand) \in Nat /\ Len(inference) \in Nat
      BY <1>3
    <2>4. first \in Seq({ToModel(e, 0) : e \in ConverseEntry}) /\ Len(first) = Len(onDemand)
      BY <1>4, <2>1, <2>3
    <2>5. second \in Seq({ToModel(e, InferenceProfile(e.slug)) : e \in ConverseEntry \cap U}) /\ Len(second) = Len(inference)
      BY <1>4, <2>2, <2>3
    <2> QED
      BY <2>4, <2>5
  <1> HIDE DEF first, second
  <1>6. ASSUME NEW e \in ConverseEntry PROVE Served(ToModel(e, 0))
    BY DEF Served
  <1>7. ASSUME NEW e \in ConverseEntry \cap U PROVE Served(ToModel(e, InferenceProfile(e.slug)))
    <2>1. InferenceProfile(e.slug) \in BestOf(e.slug, Len(profiles))
      BY ProfileFacts
    <2>2. InferenceProfile(e.slug) \in Nat
      BY <2>1 DEF BestOf
    <2> QED
      BY <2>1, <2>2 DEF Served
  <1>8. ASSUME NEW i \in DOMAIN (first \o second) PROVE Served((first \o second)[i])
    <2>0. Len(first) \in Nat /\ Len(second) \in Nat /\ i \in 1..(Len(first) + Len(second))
      BY <1>5, <1>8
    <2>1. CASE i <= Len(first)
      <3>1. (first \o second)[i] = first[i] /\ i \in 1..Len(first)
        BY <1>5, <2>0, <2>1
      <3>2. first[i] \in {ToModel(e, 0) : e \in ConverseEntry}
        BY <1>5, <3>1
      <3> QED
        BY <1>6, <3>1, <3>2
    <2>2. CASE i > Len(first)
      <3>1. (first \o second)[i] = second[i - Len(first)] /\ i - Len(first) \in 1..Len(second)
        BY <1>5, <2>0, <2>2
      <3>2. second[i - Len(first)] \in {ToModel(e, InferenceProfile(e.slug)) : e \in ConverseEntry \cap U}
        BY <1>5, <3>1
      <3> QED
        BY <1>7, <3>1, <3>2
    <2> QED
      BY <2>0, <2>1, <2>2
  <1> QED
    BY <1>1, <1>8

LEMMA ServedIsUsable ==
  ASSUME profiles \in Seq(Profile), NEW m, Served(m)
  PROVE  /\ m.default \in m.efforts
         /\ \A e \in m.efforts :
              LET config == ReasoningConfig(m.class, e)
              IN  /\ m.class = "adaptive" => config = <<"adaptive", e>>
                  /\ m.class = "thinking" => config = <<"enabled">>
                  /\ m.class = "plain" => config = <<>>
         /\ m.profile # 0 =>
              /\ m.slug \in profiles[m.profile].serves
              /\ (\E p \in Range(profiles) : m.slug \in p.serves /\ ~p.global) =>
                     ~profiles[m.profile].global
  <1>1. PICK entry \in ConverseEntry, profile \in Nat :
            /\ m = ToModel(entry, profile)
            /\ profile # 0 => profile \in BestOf(entry.slug, Len(profiles))
    BY DEF Served
  <1>2. /\ m.slug = entry.slug /\ m.class = entry.class /\ m.profile = profile
        /\ m.default = IF entry.class = "adaptive" THEN "high" ELSE "default"
        /\ m.efforts = EffortsFor(entry.class)
    BY <1>1 DEF ToModel
  <1>3. entry.class \in {"adaptive", "thinking", "plain"}
    BY DEF ConverseEntry
  <1>4. m.efforts = IF m.class = "adaptive" THEN {"low", "medium", "high"} ELSE {"default"}
    BY <1>2 DEF EffortsFor, Efforts
  <1>5. m.default \in m.efforts
    BY <1>2, <1>4
  <1>6. ASSUME NEW e \in m.efforts
        PROVE  LET config == ReasoningConfig(m.class, e)
               IN  /\ m.class = "adaptive" => config = <<"adaptive", e>>
                   /\ m.class = "thinking" => config = <<"enabled">>
                   /\ m.class = "plain" => config = <<>>
    <2>1. CASE m.class = "adaptive"
      BY <1>4, <1>6, <2>1 DEF ReasoningConfig
    <2>2. CASE m.class # "adaptive"
      <3>1. e = "default"
        BY <1>4, <1>6, <2>2
      <3>2. ReasoningConfig(m.class, e) = IF m.class = "thinking" THEN <<"enabled">> ELSE <<>>
        BY <3>1 DEF ReasoningConfig
      <3> QED
        BY <2>2, <3>2
    <2> QED
      BY <2>1, <2>2
  <1>7. ASSUME m.profile # 0
        PROVE  /\ m.slug \in profiles[m.profile].serves
               /\ (\E p \in Range(profiles) : m.slug \in p.serves /\ ~p.global) =>
                     ~profiles[m.profile].global
    <2>1. /\ profile # 0 /\ profile \in 0..Len(profiles) /\ m.slug \in profiles[profile].serves
          /\ \A j \in 1..Len(profiles) : m.slug \in profiles[j].serves => (profiles[profile].global => profiles[j].global)
      BY <1>1, <1>2, <1>7 DEF BestOf
    <2>2. ASSUME NEW p \in Range(profiles), m.slug \in p.serves, ~p.global
          PROVE  ~profiles[profile].global
      <3>1. PICK j \in DOMAIN profiles : p = profiles[j]
        BY <2>2 DEF Range
      <3>2. j \in 1..Len(profiles)
        BY <3>1
      <3> QED
        BY <2>1, <2>2, <3>1, <3>2
    <2> QED
      BY <1>2, <2>1, <2>2
  <1> QED
    BY <1>5, <1>6, <1>7

(* The list is made when the runtime comes up; a runtime that is up, or    *)
(* that is not well, stays as it is.                                       *)
LEMMA CatalogInitOK == CatalogInit => CatalogInv
  <1> SUFFICES ASSUME NEW family \in {"OpenAI", "Anthropic", "Bedrock"}, CatalogRest(family)
               PROVE  CatalogInv
    BY DEF CatalogInit
  <1>1. runtime = [family |-> family, status |-> "new", key |-> "blank"] /\ listing = <<>> /\ profiles = <<>>
    BY DEF CatalogRest
  <1>2. CatalogTypeOK
    BY <1>1 DEF CatalogTypeOK
  <1> QED
    BY <1>1, <1>2 DEF CatalogInv, CatalogueIsUsable

LEMMA KeptByListEntry ==
  ASSUME CatalogInv, ListEntry
  PROVE  CatalogInv'
  <1>1. runtime.status = "new" /\ UNCHANGED <<runtime, profiles, models>>
    BY DEF ListEntry
  <1>2. PICK m \in EntriesOf(runtime.family) : listing' = Append(listing, m)
    BY DEF ListEntry, EntriesOf
  <1>3. listing' \in Seq(EntriesOf(runtime.family))
    BY <1>2 DEF CatalogInv, CatalogTypeOK
  <1>4. CatalogTypeOK'
    BY <1>1, <1>3 DEF CatalogInv, CatalogTypeOK, EntriesOf
  <1>5. CatalogueIsUsable'
    BY <1>1 DEF CatalogueIsUsable
  <1> QED
    BY <1>4, <1>5 DEF CatalogInv

LEMMA KeptByListProfile ==
  ASSUME CatalogInv, ListProfile
  PROVE  CatalogInv'
  <1>1. runtime.status = "new" /\ UNCHANGED <<runtime, listing, models>>
    BY DEF ListProfile
  <1>2. PICK p \in Profile : profiles' = Append(profiles, p)
    BY DEF ListProfile
  <1>3. profiles' \in Seq(Profile)
    BY <1>2 DEF CatalogInv, CatalogTypeOK
  <1>4. CatalogTypeOK'
    BY <1>1, <1>3 DEF CatalogInv, CatalogTypeOK, EntriesOf, Profile
  <1>5. CatalogueIsUsable'
    BY <1>1 DEF CatalogueIsUsable
  <1> QED
    BY <1>4, <1>5 DEF CatalogInv

LEMMA KeptByConnect ==
  ASSUME CatalogInv, Connect
  PROVE  CatalogInv'
  <1>1. UNCHANGED <<listing, profiles>>
    BY DEF Connect
  <1>2. PICK credential \in {"key", "blank", "refresh_token"}, accepted \in BOOLEAN, listed \in BOOLEAN :
           \/ runtime.family = "OpenAI" /\ OpenAINew(credential, accepted, listed)
           \/ runtime.family = "Anthropic" /\ AnthropicNew(credential, accepted)
           \/ runtime.family = "Bedrock" /\ BedrockNew(credential, accepted)
    BY DEF Connect
  <1>3. CASE runtime' = Unhealthy(runtime.family)
    <2>1. CatalogTypeOK'
      BY <1>1, <1>3 DEF CatalogInv, CatalogTypeOK, Unhealthy, EntriesOf
    <2>2. runtime'.status = "Unhealthy"
      BY <1>3 DEF Unhealthy
    <2> QED
      BY <2>1, <2>2 DEF CatalogInv, CatalogueIsUsable
  <1>4. ASSUME runtime' # Unhealthy(runtime.family)
        PROVE  /\ credential \in {"key", "blank"} /\ runtime' = RunningRuntime(runtime.family, credential)
               /\ runtime.family = "OpenAI" => models' = <<ModelsFromResponse(listing)>>
               /\ runtime.family = "Anthropic" => models' = <<ParseModelResponse(listing)>>
               /\ runtime.family = "Bedrock" => models' = <<FetchConverseModels(listing)>>
    BY <1>2, <1>4 DEF OpenAINew, AnthropicNew, BedrockNew
  <1>5. CASE runtime' # Unhealthy(runtime.family)
    <2>0. /\ runtime.family \in {"OpenAI", "Anthropic", "Bedrock"} /\ profiles \in Seq(Profile)
          /\ listing \in Seq(EntriesOf(runtime.family))
      BY DEF CatalogInv, CatalogTypeOK
    <2>1. /\ runtime'.family = runtime.family /\ profiles' = profiles
          /\ runtime' = [family |-> runtime.family, status |-> "Running", key |-> credential]
      BY <1>1, <1>4, <1>5 DEF RunningRuntime
    <2>2. CatalogTypeOK'
      BY <1>1, <1>4, <1>5, <2>0, <2>1 DEF CatalogTypeOK
    <2>3. CASE runtime.family # "Bedrock"
      <3>1. PICK list : models' = <<list>> /\ DefaultsAreEfforts(list)
        <4>1. CASE runtime.family = "OpenAI"
          BY <1>4, <1>5, <2>0, <4>1, ResponsesList DEF EntriesOf
        <4>2. CASE runtime.family = "Anthropic"
          BY <1>4, <1>5, <2>0, <4>2, MessagesList DEF EntriesOf
        <4> QED
          BY <2>0, <2>3, <4>1, <4>2
      <3>2. models' # <<>> /\ models'[1] = list
        BY <3>1
      <3>3. CatalogueIsUsable'
        BY <2>1, <2>3, <3>1, <3>2 DEF CatalogueIsUsable, DefaultsAreEfforts
      <3> QED
        BY <2>2, <3>3 DEF CatalogInv
    <2>4. CASE runtime.family = "Bedrock"
      <3> DEFINE list == FetchConverseModels(listing)
      <3>1. models' = <<list>> /\ \A i \in DOMAIN list : Served(list[i])
        BY <1>4, <1>5, <2>0, <2>4, ConverseList DEF EntriesOf
      <3> HIDE DEF list
      <3>2. models' # <<>> /\ models'[1] = list
        BY <3>1
      <3>3. CatalogueIsUsable'
        <4> SUFFICES ASSUME NEW i \in DOMAIN list
                     PROVE  LET m == list[i] IN
                            /\ m.default \in m.efforts
                            /\ \A e \in m.efforts :
                                 LET config == ReasoningConfig(m.class, e)
                                 IN  /\ m.class = "adaptive" => config = <<"adaptive", e>>
                                     /\ m.class = "thinking" => config = <<"enabled">>
                                     /\ m.class = "plain" => config = <<>>
                            /\ m.profile # 0 =>
                                 /\ m.slug \in profiles[m.profile].serves
                                 /\ (\E p \in Range(profiles) : m.slug \in p.serves /\ ~p.global) =>
                                        ~profiles[m.profile].global
          BY <2>1, <3>2 DEF CatalogueIsUsable
        <4>1. Served(list[i])
          BY <3>1
        <4> QED
          BY <2>0, <4>1, ServedIsUsable
      <3> QED
        BY <2>2, <3>3 DEF CatalogInv
    <2> QED
      BY <2>3, <2>4
  <1> QED
    BY <1>3, <1>5

(* A runtime that runs has a list, and each model on it can be used, for   *)
(* any listing and any profiles of the services.                           *)
THEOREM CatalogueIsUsableAlways == CatalogSpec => []CatalogueIsUsable
  <1>1. CatalogInit => CatalogInv
    BY CatalogInitOK
  <1>2. CatalogInv /\ [CatalogNext]_catalogVars => CatalogInv'
    <2> SUFFICES ASSUME CatalogInv, [CatalogNext]_catalogVars PROVE CatalogInv'
      OBVIOUS
    <2>1. CASE UNCHANGED catalogVars
      BY <2>1 DEF catalogVars, CatalogInv, CatalogTypeOK, CatalogueIsUsable, EntriesOf
    <2> QED
      BY <2>1, KeptByListEntry, KeptByListProfile, KeptByConnect DEF CatalogNext
  <1>3. CatalogInv => CatalogueIsUsable
    BY DEF CatalogInv
  <1> QED
    BY <1>1, <1>2, <1>3, PTL DEF CatalogSpec
=============================================================================
