---------------------------- MODULE HistoryProofs ----------------------------
(***************************************************************************)
(* Proofs about the stored history of a session and the scripts that       *)
(* repair it, for histories of any length, and about the tables that hold  *)
(* the histories of all sessions.                                          *)
(*                                                                         *)
(* The facts about positions and rows are inductions over data.  They rest *)
(* on the well-foundedness of the naturals in the form of WFMin, a theorem *)
(* about sets: a set of naturals that is not empty has a least member.     *)
(***************************************************************************)
EXTENDS HistoryRepair, Storage, FiniteSetTheorems, SequenceTheorems, WellFoundedInduction, TLAPS

-----------------------------------------------------------------------------
(* Induction.                                                              *)

(* A set of naturals that is not empty has a least member.                 *)
LEMMA Least ==
  ASSUME NEW T \in SUBSET Nat, T # {}
  PROVE  \E x \in T : \A y \in T : x <= y
  <1> DEFINE R == OpToRel(<, Nat)
  <1>1. IsWellFoundedOn(R, Nat)
    BY NatLessThanWellFounded
  <1>2. R = {ss \in Nat \X Nat : ss[1] < ss[2]}
    BY DEF OpToRel
  <1> HIDE DEF R
  <1>3. PICK x \in T : \A y \in T : ~(<<y, x>> \in R)
    BY <1>1, WFMin
  <1>4. \A y \in T : ~(y < x)
    <2> SUFFICES ASSUME NEW y \in T, y < x PROVE FALSE
      OBVIOUS
    <2>1. <<y, x>> \in {ss \in Nat \X Nat : ss[1] < ss[2]}
      OBVIOUS
    <2> QED
      BY <2>1, <1>2, <1>3
  <1> QED
    BY <1>4

(* A set with a number that has the next of each below a bound has all.    *)
LEMMA UpTo ==
  ASSUME NEW m \in Nat, NEW S, 0 \in S, \A n \in S \cap (0..m) : n < m => n + 1 \in S
  PROVE  0..m \subseteq S
  <1> SUFFICES ASSUME (0..m) \ S # {} PROVE FALSE
    OBVIOUS
  <1>1. PICK x \in (0..m) \ S : \A y \in (0..m) \ S : x <= y
    <2>1. (0..m) \ S \in SUBSET Nat
      OBVIOUS
    <2> QED
      BY <2>1, Least
  <1>2. x - 1 \in 0..m /\ x - 1 < m /\ x - 1 \in S
    BY <1>1
  <1> QED
    BY <1>1, <1>2

(* A set of positions that is not empty has a greatest member.             *)
LEMMA Greatest ==
  ASSUME NEW n \in Nat, NEW T \in SUBSET (1..n), T # {}
  PROVE  \E x \in T : \A y \in T : x >= y
  <1> DEFINE U == {k \in Nat : \A y \in T : k >= y}
  <1>1. n \in U
    OBVIOUS
  <1>2. PICK m \in U : \A k \in U : m <= k
    BY Least, <1>1
  <1>3. m \in T
    <2> SUFFICES ASSUME m \notin T PROVE FALSE
      OBVIOUS
    <2>1. PICK y \in T : TRUE
      OBVIOUS
    <2>2. m > 0
      BY <1>2, <2>1
    <2>3. m - 1 \in U
      BY <1>2, <2>2
    <2> QED
      BY <1>2, <2>3
  <1> QED
    BY <1>2, <1>3

-----------------------------------------------------------------------------
(* Positions.                                                              *)

Rows == [type : PayloadType, call : Nat, turn : Nat]

IsPrompt(h, i) == h[i].type = "user_prompt"

(* No prompt comes after i and up to j: the rows are of one turn.          *)
NoPromptIn(h, i, j) == \A k \in (i + 1)..j : ~IsPrompt(h, k)

(* TurnStart is the position of the last prompt.                           *)
LEMMA StartFacts ==
  ASSUME NEW h \in Seq(Rows)
  PROVE  /\ TurnStart(h) \in 0..Len(h)
         /\ TurnStart(h) # 0 => IsPrompt(h, TurnStart(h))
         /\ \A i \in 1..Len(h) : IsPrompt(h, i) => i <= TurnStart(h)
  <1> DEFINE I == {i \in 1..Len(h) : h[i].type = "user_prompt"}
  <1>1. TurnStart(h) = IF I # {} THEN CHOOSE x \in I : \A y \in I : x >= y ELSE 0
    BY DEF TurnStart, SelectLastInSeq, Max
  <1>2. CASE I = {}
    BY <1>1, <1>2 DEF IsPrompt
  <1>3. CASE I # {}
    <2>1. \E x \in I : \A y \in I : x >= y
      <3>1. I \in SUBSET (1..Len(h)) /\ Len(h) \in Nat
        OBVIOUS
      <3> HIDE DEF I
      <3> QED
        BY <3>1, <1>3, Greatest
    <2>2. TurnStart(h) \in I /\ \A y \in I : TurnStart(h) >= y
      BY <1>1, <1>3, <2>1
    <2> QED
      BY <2>2 DEF IsPrompt
  <1> QED
    BY <1>2, <1>3

(* LastItem is the position of the last row that is not reasoning.         *)
LEMMA ItemFacts ==
  ASSUME NEW h \in Seq(Rows)
  PROVE  /\ LastItem(h) \in 0..Len(h)
         /\ LastItem(h) # 0 => h[LastItem(h)].type # "reasoning"
         /\ \A i \in 1..Len(h) : h[i].type # "reasoning" => i <= LastItem(h)
  <1> DEFINE I == {i \in 1..Len(h) : h[i].type # "reasoning"}
  <1>1. LastItem(h) = IF I # {} THEN CHOOSE x \in I : \A y \in I : x >= y ELSE 0
    BY DEF LastItem, SelectLastInSeq, Max
  <1>2. CASE I = {}
    BY <1>1, <1>2
  <1>3. CASE I # {}
    <2>1. \E x \in I : \A y \in I : x >= y
      <3>1. I \in SUBSET (1..Len(h)) /\ Len(h) \in Nat
        OBVIOUS
      <3> HIDE DEF I
      <3> QED
        BY <3>1, <1>3, Greatest
    <2>2. LastItem(h) \in I /\ \A y \in I : LastItem(h) >= y
      BY <1>1, <1>3, <2>1
    <2> QED
      BY <2>2
  <1> QED
    BY <1>2, <1>3

(* What is up to TurnEnd is what no prompt separates from the row.         *)
LEMMA TurnEndFacts ==
  ASSUME NEW h \in Seq(Rows), NEW i \in 1..Len(h)
  PROVE  /\ TurnEnd(h, i) \in i..Len(h)
         /\ \A j \in Int : j \in (i + 1)..TurnEnd(h, i) <=> j \in (i + 1)..Len(h) /\ NoPromptIn(h, i, j)
  <1> DEFINE later == {j \in DOMAIN h : j > i /\ h[j].type = "user_prompt"}
  <1>0. DOMAIN h = 1..Len(h) /\ Len(h) \in Nat
    OBVIOUS
  <1>1. TurnEnd(h, i) = IF later = {} THEN Len(h) ELSE (CHOOSE j \in later : \A k \in later : j <= k) - 1
    BY DEF TurnEnd
  <1>2. CASE later = {}
    BY <1>0, <1>1, <1>2 DEF NoPromptIn, IsPrompt
  <1>3. CASE later # {}
    <2>1. \E j \in later : \A k \in later : j <= k
      <3>1. later \in SUBSET Nat
        BY <1>0
      <3> HIDE DEF later
      <3> QED
        BY <3>1, <1>3, Least
    <2>2. PICK e \in later : (\A k \in later : e <= k) /\ TurnEnd(h, i) = e - 1
      BY <1>1, <1>3, <2>1
    <2>3. e \in 1..Len(h) /\ e > i /\ IsPrompt(h, e)
      BY <1>0, <2>2 DEF IsPrompt
    <2>4. \A k \in (i + 1)..Len(h) : IsPrompt(h, k) => e <= k
      BY <1>0, <2>2 DEF IsPrompt
    <2> QED
      BY <1>0, <2>2, <2>3, <2>4 DEF NoPromptIn
  <1> QED
    BY <1>2, <1>3

-----------------------------------------------------------------------------
(* The calls that get a result.                                            *)

OpenCall(h, start, i) == i >= start /\ h[i].type = "tool_call" /\ h[i].call \notin Results(h)

(* What the recursion in Unanswered says of a function on 0..n.            *)
Collects(f, h, start, n) ==
    /\ f[0] = <<>>
    /\ \A i \in 1..n : f[i] = IF OpenCall(h, start, i) THEN Append(f[i - 1], h[i]) ELSE f[i - 1]

(* There is such a function.                                               *)
LEMMA CollectsExists ==
  ASSUME NEW h \in Seq(Rows), NEW start \in Nat
  PROVE  \E f \in [0..Len(h) -> Seq(Rows)] : Collects(f, h, start, Len(h))
  <1> DEFINE S == {n \in Nat : \E f \in [0..n -> Seq(Rows)] : Collects(f, h, start, n)}
  <1>1. 0 \in S
    <2> DEFINE f == [i \in 0..0 |-> <<>>]
    <2>1. f \in [0..0 -> Seq(Rows)] /\ Collects(f, h, start, 0)
      BY DEF Collects
    <2> QED
      BY <2>1
  <1>2. ASSUME NEW n \in S \cap (0..Len(h)), n < Len(h)
        PROVE  n + 1 \in S
    <2>1. PICK f \in [0..n -> Seq(Rows)] : Collects(f, h, start, n)
      BY <1>2
    <2> DEFINE next == IF OpenCall(h, start, n + 1) THEN Append(f[n], h[n + 1]) ELSE f[n]
               g == [i \in 0..(n + 1) |-> IF i <= n THEN f[i] ELSE next]
    <2>2. n \in Nat /\ n + 1 \in 1..Len(h) /\ h[n + 1] \in Rows /\ f[n] \in Seq(Rows)
      BY <1>2
    <2>3. next \in Seq(Rows)
      BY <2>2
    <2> HIDE DEF next
    <2>4. g \in [0..(n + 1) -> Seq(Rows)]
      BY <2>2, <2>3
    <2>5. g[n + 1] = next /\ \A i \in 0..n : g[i] = f[i]
      BY <2>2
    <2>6. next = IF OpenCall(h, start, n + 1) THEN Append(g[n], h[n + 1]) ELSE g[n]
      BY <2>2, <2>5 DEF next
    <2> HIDE DEF g
    <2>7. Collects(g, h, start, n + 1)
      <3>1. g[0] = <<>>
        <4>1. f[0] = <<>>
          BY <2>1 DEF Collects
        <4>2. g[0] = f[0]
          BY <2>2, <2>5
        <4> QED
          BY <4>1, <4>2
      <3>2. ASSUME NEW i \in 1..(n + 1)
            PROVE  g[i] = IF OpenCall(h, start, i) THEN Append(g[i - 1], h[i]) ELSE g[i - 1]
        <4>1. CASE i = n + 1
          <5>1. i - 1 = n
            BY <2>2, <4>1
          <5> QED
            BY <2>5, <2>6, <4>1, <5>1
        <4>2. CASE i # n + 1
          <5>1. i \in 1..n /\ i \in 0..n /\ i - 1 \in 0..n
            BY <2>2, <4>2
          <5> QED
            BY <2>1, <2>5, <5>1 DEF Collects
        <4> QED
          BY <4>1, <4>2
      <3> QED
        BY <3>1, <3>2 DEF Collects
    <2> QED
      BY <2>2, <2>4, <2>7
  <1>3. Len(h) \in S
    <2>1. Len(h) \in Nat /\ Len(h) \in 0..Len(h)
      OBVIOUS
    <2> HIDE DEF S
    <2> QED
      BY <1>1, <1>2, <2>1, UpTo
  <1> QED
    BY <1>3

(* Unanswered returns the open calls from `start` on, and only those.      *)
LEMMA UnansweredFacts ==
  ASSUME NEW h \in Seq(Rows), NEW start \in Nat
  PROVE  /\ Unanswered(h, start) \in Seq(Rows)
         /\ \A k \in 1..Len(Unanswered(h, start)) :
              \E i \in 1..Len(h) : OpenCall(h, start, i) /\ Unanswered(h, start)[k] = h[i]
         /\ start # 0 => \A i \in 1..Len(h) : OpenCall(h, start, i) =>
              \E k \in 1..Len(Unanswered(h, start)) : Unanswered(h, start)[k] = h[i]
  <1> DEFINE body(f) == [i \in 0..Len(h) |->
                           IF i = 0 THEN <<>>
                           ELSE IF OpenCall(h, start, i) THEN Append(f[i - 1], h[i]) ELSE f[i - 1]]
             upTo == CHOOSE f : f = body(f)
  <1>0. CASE start = 0
    BY <1>0 DEF Unanswered
  <1>1. CASE start # 0
    <2>1. Unanswered(h, start) = upTo[Len(h)]
      BY <1>1 DEF Unanswered, OpenCall
    <2>2. PICK f \in [0..Len(h) -> Seq(Rows)] : Collects(f, h, start, Len(h))
      BY CollectsExists
    <2>3. f = body(f)
      <3>1. \A i \in 0..Len(h) : f[i] = body(f)[i]
        <4> SUFFICES ASSUME NEW i \in 0..Len(h) PROVE f[i] = body(f)[i]
          OBVIOUS
        <4>1. CASE i = 0
          BY <2>2, <4>1 DEF Collects
        <4>2. CASE i # 0
          <5>1. i \in 1..Len(h)
            BY <4>2
          <5>2. f[i] = IF OpenCall(h, start, i) THEN Append(f[i - 1], h[i]) ELSE f[i - 1]
            BY <2>2, <5>1 DEF Collects
          <5> QED
            BY <4>2, <5>2
        <4> QED
          BY <4>1, <4>2
      <3> HIDE DEF body
      <3>2. DOMAIN body(f) = 0..Len(h) /\ body(f) = [i \in DOMAIN body(f) |-> body(f)[i]]
        BY DEF body
      <3> QED
        BY <3>1, <3>2
    <2>4. upTo = body(upTo)
      BY <2>3
    <2> HIDE DEF upTo
    <2>5. Collects(upTo, h, start, Len(h))
      <3>1. upTo[0] = <<>>
        BY <2>4
      <3>2. ASSUME NEW i \in 1..Len(h)
            PROVE  upTo[i] = IF OpenCall(h, start, i) THEN Append(upTo[i - 1], h[i]) ELSE upTo[i - 1]
        <4>1. i \in 0..Len(h) /\ i # 0
          OBVIOUS
        <4> QED
          BY <2>4, <4>1
      <3> QED
        BY <3>1, <3>2 DEF Collects
    <2> HIDE DEF body
    <2> DEFINE Good(i) ==
                 /\ upTo[i] \in Seq(Rows)
                 /\ \A k \in 1..Len(upTo[i]) : \E j \in 1..i : OpenCall(h, start, j) /\ upTo[i][k] = h[j]
                 /\ \A j \in 1..i : OpenCall(h, start, j) => \E k \in 1..Len(upTo[i]) : upTo[i][k] = h[j]
               S == {i \in 0..Len(h) : Good(i)}
    <2>6. 0 \in S
      <3>1. upTo[0] = <<>> /\ 1..Len(upTo[0]) = {} /\ 1..0 = {} /\ upTo[0] \in Seq(Rows)
        BY <2>5 DEF Collects
      <3> QED
        BY <3>1
    <2>7. ASSUME NEW n \in S \cap (0..Len(h)), n < Len(h)
          PROVE  n + 1 \in S
      <3>1. /\ n \in Nat /\ n + 1 \in 1..Len(h) /\ h[n + 1] \in Rows /\ (n + 1) - 1 = n
            /\ \A j \in 1..(n + 1) : j \in 1..n \/ j = n + 1
            /\ 1..n \subseteq 1..(n + 1)
        BY <2>7
      <3>2. Good(n)
        BY <2>7
      <3>3. upTo[n + 1] = IF OpenCall(h, start, n + 1) THEN Append(upTo[n], h[n + 1]) ELSE upTo[n]
        BY <2>5, <3>1 DEF Collects
      <3>4. CASE ~OpenCall(h, start, n + 1)
        <4>1. upTo[n + 1] = upTo[n]
          BY <3>3, <3>4
        <4>2. \A k \in 1..Len(upTo[n]) : \E j \in 1..(n + 1) : OpenCall(h, start, j) /\ upTo[n][k] = h[j]
          <5> TAKE k \in 1..Len(upTo[n])
          <5>1. PICK j \in 1..n : OpenCall(h, start, j) /\ upTo[n][k] = h[j]
            BY <3>2
          <5> QED
            BY <3>1, <5>1
        <4>3. \A j \in 1..(n + 1) : OpenCall(h, start, j) => \E k \in 1..Len(upTo[n]) : upTo[n][k] = h[j]
          BY <3>1, <3>2, <3>4
        <4>4. Good(n + 1)
          BY <3>2, <4>1, <4>2, <4>3, ZenonT(30)
        <4>5. n + 1 \in 0..Len(h)
          BY <3>1
        <4> QED
          BY <4>4, <4>5, Zenon
      <3>5. CASE OpenCall(h, start, n + 1)
        <4>1. /\ upTo[n + 1] \in Seq(Rows) /\ Len(upTo[n + 1]) = Len(upTo[n]) + 1
              /\ \A k \in 1..Len(upTo[n]) : upTo[n + 1][k] = upTo[n][k]
              /\ upTo[n + 1][Len(upTo[n]) + 1] = h[n + 1]
              /\ Len(upTo[n]) \in Nat
          BY <3>1, <3>2, <3>3, <3>5
        <4>2. \A k \in 1..Len(upTo[n + 1]) : k \in 1..Len(upTo[n]) \/ k = Len(upTo[n]) + 1
          BY <4>1
        <4>3. ASSUME NEW k \in 1..Len(upTo[n + 1])
              PROVE  \E j \in 1..(n + 1) : OpenCall(h, start, j) /\ upTo[n + 1][k] = h[j]
          <5>1. CASE k = Len(upTo[n]) + 1
            BY <3>1, <3>5, <4>1, <5>1
          <5>2. CASE k \in 1..Len(upTo[n])
            <6>1. PICK j \in 1..n : OpenCall(h, start, j) /\ upTo[n][k] = h[j]
              BY <3>2, <5>2
            <6> QED
              BY <3>1, <4>1, <5>2, <6>1
          <5> QED
            BY <4>2, <5>1, <5>2
        <4>4. ASSUME NEW j \in 1..(n + 1), OpenCall(h, start, j)
              PROVE  \E k \in 1..Len(upTo[n + 1]) : upTo[n + 1][k] = h[j]
          <5>1. CASE j = n + 1
            <6>1. Len(upTo[n]) + 1 \in 1..Len(upTo[n + 1])
              BY <4>1
            <6>2. upTo[n + 1][Len(upTo[n]) + 1] = h[j]
              BY <4>1, <5>1
            <6> QED
              BY <6>1, <6>2, Zenon
          <5>2. CASE j \in 1..n
            <6>1. PICK k \in 1..Len(upTo[n]) : upTo[n][k] = h[j]
              BY <3>2, <4>4, <5>2
            <6> QED
              BY <4>1, <6>1
          <5> QED
            BY <3>1, <5>1, <5>2
        <4>5. Good(n + 1)
          BY <4>1, <4>3, <4>4, Zenon
        <4>6. n + 1 \in 0..Len(h)
          BY <3>1
        <4> QED
          BY <4>5, <4>6, Zenon
      <3> QED
        BY <3>4, <3>5
    <2>8. Len(h) \in S
      <3>1. Len(h) \in Nat /\ Len(h) \in 0..Len(h)
        OBVIOUS
      <3> HIDE DEF S
      <3> QED
        BY <2>6, <2>7, <3>1, UpTo
    <2> QED
      BY <2>1, <2>8
  <1> QED
    BY <1>0, <1>1

-----------------------------------------------------------------------------
(* What the repair does to a history.                                      *)

(* How many rows the repair keeps: all but the trailing reasoning, and not *)
(* the prompt either when nothing else came after it.                      *)
Kept(h) ==
    IF TurnStart(h) = 0 THEN Len(h)
    ELSE IF LastItem(h) = TurnStart(h) THEN TurnStart(h) - 1 ELSE LastItem(h)

Stump(h) == SubSeq(h, 1, Kept(h))

Added(h) == LET u == Unanswered(Stump(h), TurnStart(h))
            IN  [k \in DOMAIN u |-> Row("tool_result", u[k].call, u[k].turn)]

(* The repair keeps whole turns and the items of the last one: what it     *)
(* drops is reasoning, and a prompt with nothing but reasoning after it.   *)
LEMMA KeptFacts ==
  ASSUME NEW h \in Seq(Rows)
  PROVE  /\ Kept(h) \in 0..Len(h)
         /\ TurnStart(h) \in 0..(Kept(h) + 1)
         /\ TurnStart(h) # 0 => LastItem(h) \in TurnStart(h)..Len(h)
         /\ TurnStart(h) # 0 /\ Kept(h) >= TurnStart(h) =>
              Kept(h) > TurnStart(h) /\ h[Kept(h)].type # "reasoning"
         /\ TurnStart(h) = 0 => Kept(h) = Len(h)
         /\ \A i \in (Kept(h) + 1)..Len(h) : h[i].type = "reasoning" \/ i = TurnStart(h)
  <1>1. Len(h) \in Nat /\ TurnStart(h) \in 0..Len(h) /\ LastItem(h) \in 0..Len(h)
    BY StartFacts, ItemFacts
  <1>2. CASE TurnStart(h) = 0
    BY <1>1, <1>2 DEF Kept
  <1>3. CASE TurnStart(h) # 0
    <2>1. h[TurnStart(h)].type # "reasoning"
      BY <1>3, StartFacts DEF IsPrompt
    <2>2. LastItem(h) >= TurnStart(h) /\ LastItem(h) # 0
      BY <1>1, <1>3, <2>1, ItemFacts
    <2>3. \A i \in (LastItem(h) + 1)..Len(h) : h[i].type = "reasoning"
      BY <1>1, ItemFacts
    <2>4. h[LastItem(h)].type # "reasoning"
      BY <2>2, ItemFacts
    <2> QED
      BY <1>1, <1>3, <2>2, <2>3, <2>4 DEF Kept
  <1> QED
    BY <1>2, <1>3

(* A stump is the rows that are kept.                                      *)
LEMMA StumpFacts ==
  ASSUME NEW h \in Seq(Rows)
  PROVE  /\ Stump(h) \in Seq(Rows) /\ Len(Stump(h)) = Kept(h)
         /\ \A i \in 1..Kept(h) : Stump(h)[i] = h[i]
  BY KeptFacts DEF Stump

(* Both scripts keep the same rows and add the same results.               *)
LEMMA RepairShape ==
  ASSUME NEW h \in Seq(Rows)
  PROVE  Cleanup(h) = Stump(h) \o Added(h) /\ Recover(h) = Stump(h) \o Added(h)
  <1> DEFINE a == DropTrailingReasoning(h)
  <1>0. Cleanup(h) = AnswerCalls(DropBarePrompt(a), TurnStart(h))
    <2>1. {AnswerCalls(kept, start) :
              kept \in {DropBarePrompt(DropTrailingReasoning(h))}, start \in {TurnStart(h)}}
            = {AnswerCalls(DropBarePrompt(a), TurnStart(h))}
      OBVIOUS
    <2> QED
      BY <2>1 DEF Cleanup
  <1>1. Len(h) \in Nat /\ TurnStart(h) \in 0..Len(h) /\ LastItem(h) \in 0..Len(h)
    BY StartFacts, ItemFacts
  <1>2. CASE TurnStart(h) = 0
    <2>1. a = h /\ DropBarePrompt(a) = h
      BY <1>2 DEF DropTrailingReasoning, DropBarePrompt
    <2>2. Stump(h) = h
      BY <1>1, <1>2 DEF Stump, Kept
    <2> QED
      BY <1>0, <1>2, <2>1, <2>2 DEF Recover, AnswerCalls, Added
  <1>3. CASE TurnStart(h) # 0
    <2>1. LastItem(h) \in TurnStart(h)..Len(h)
      BY <1>3, KeptFacts
    <2>2. a = SubSeq(h, 1, LastItem(h)) /\ a \in Seq(Rows) /\ Len(a) = LastItem(h)
      BY <1>1, <1>3 DEF DropTrailingReasoning
    <2>3. \A i \in 1..LastItem(h) : a[i] = h[i]
      BY <1>1, <2>2
    <2> HIDE DEF a
    <2>4. TurnStart(a) = TurnStart(h)
      <3>1. IsPrompt(a, TurnStart(h)) /\ TurnStart(h) \in 1..Len(a)
        BY <1>1, <1>3, <2>1, <2>2, <2>3, StartFacts DEF IsPrompt
      <3>2. TurnStart(h) <= TurnStart(a) /\ TurnStart(a) \in 0..Len(a)
        BY <2>2, <3>1, StartFacts
      <3>3. IsPrompt(a, TurnStart(a)) /\ TurnStart(a) \in 1..Len(h)
        <4>1. TurnStart(a) # 0 /\ TurnStart(a) \in 1..Len(h)
          BY <1>1, <1>3, <2>1, <2>2, <3>2
        <4> QED
          BY <2>2, <4>1, StartFacts
      <3>4. IsPrompt(h, TurnStart(a))
        BY <1>1, <2>2, <2>3, <3>2, <3>3 DEF IsPrompt
      <3>5. TurnStart(a) <= TurnStart(h)
        BY <3>3, <3>4, StartFacts
      <3> QED
        BY <1>1, <3>2, <3>5
    <2>5. DropBarePrompt(a) = Stump(h)
      <3>1. CASE LastItem(h) = TurnStart(h)
        <4>1. DropBarePrompt(a) = SubSeq(a, 1, Len(a) - 1)
          BY <1>3, <2>2, <2>4, <3>1 DEF DropBarePrompt
        <4>2. Stump(h) = SubSeq(h, 1, TurnStart(h) - 1)
          BY <1>3, <3>1 DEF Stump, Kept
        <4>3. SubSeq(a, 1, Len(a) - 1) = SubSeq(h, 1, TurnStart(h) - 1)
          BY <1>1, <1>3, <2>2, <2>3, <3>1
        <4> QED
          BY <4>1, <4>2, <4>3
      <3>2. CASE LastItem(h) # TurnStart(h)
        BY <1>3, <2>2, <2>4, <3>2 DEF DropBarePrompt, Stump, Kept
      <3> QED
        BY <3>1, <3>2
    <2>6. (IF TurnStart(h) # 0 /\ LastItem(h) = TurnStart(h) THEN SubSeq(a, 1, TurnStart(h) - 1) ELSE a) = Stump(h)
      <3>1. CASE LastItem(h) = TurnStart(h)
        <4>1. SubSeq(a, 1, TurnStart(h) - 1) = SubSeq(h, 1, TurnStart(h) - 1)
          BY <1>1, <1>3, <2>2, <2>3, <3>1
        <4> QED
          BY <1>3, <3>1, <4>1 DEF Stump, Kept
      <3>2. CASE LastItem(h) # TurnStart(h)
        BY <1>3, <2>2, <3>2 DEF Stump, Kept
      <3> QED
        BY <3>1, <3>2
    <2> QED
      BY <1>0, <2>5, <2>6 DEF Recover, AnswerCalls, Added, a
  <1> QED
    BY <1>2, <1>3

(* The rows that are added: a result, in the turn of its call, for every   *)
(* open call of the last turn and for nothing else.                        *)
LEMMA AddedFacts ==
  ASSUME NEW h \in Seq(Rows)
  PROVE  /\ Added(h) \in Seq(Rows)
         /\ \A k \in 1..Len(Added(h)) :
              /\ Added(h)[k].type = "tool_result"
              /\ \E m \in 1..Kept(h) :
                  /\ OpenCall(Stump(h), TurnStart(h), m) /\ m > TurnStart(h) /\ TurnStart(h) # 0
                  /\ Added(h)[k].call = h[m].call /\ Added(h)[k].turn = h[m].turn
         /\ TurnStart(h) # 0 => \A m \in 1..Kept(h) : OpenCall(Stump(h), TurnStart(h), m) =>
              \E k \in 1..Len(Added(h)) : Added(h)[k].call = h[m].call
  <1> DEFINE b == Stump(h)
             st == TurnStart(h)
             u == Unanswered(b, st)
  <1>1. b \in Seq(Rows) /\ st \in Nat /\ Len(b) = Kept(h) /\ \A i \in 1..Kept(h) : b[i] = h[i]
    BY StumpFacts, StartFacts
  <1> HIDE DEF b, st
  <1>2. /\ u \in Seq(Rows)
        /\ \A k \in 1..Len(u) : \E i \in 1..Len(b) : OpenCall(b, st, i) /\ u[k] = b[i]
        /\ st # 0 => \A i \in 1..Len(b) : OpenCall(b, st, i) => \E k \in 1..Len(u) : u[k] = b[i]
    BY <1>1, UnansweredFacts
  <1>3. st = 0 => u = <<>>
    BY DEF Unanswered
  <1>4. Added(h) = [k \in DOMAIN u |-> Row("tool_result", u[k].call, u[k].turn)]
    BY DEF Added, b, st
  <1> HIDE DEF u
  <1>5. DOMAIN u = 1..Len(u) /\ Len(u) \in Nat
    BY <1>2
  <1>6. \A k \in 1..Len(u) : u[k].call \in Nat /\ u[k].turn \in Nat
    <2>1. \A k \in 1..Len(u) : u[k] \in Rows
      BY <1>2, <1>5
    <2> QED
      BY <2>1 DEF Rows
  <1>7. Added(h) \in Seq(Rows) /\ Len(Added(h)) = Len(u)
    BY <1>4, <1>5, <1>6 DEF Row, Rows, PayloadType
  <1>8. \A k \in 1..Len(u) : /\ Added(h)[k].type = "tool_result"
                             /\ Added(h)[k].call = u[k].call /\ Added(h)[k].turn = u[k].turn
    BY <1>4, <1>5 DEF Row
  <1>9. \A m \in 1..Kept(h) : OpenCall(b, st, m) /\ st # 0 => m > st
    <2> SUFFICES ASSUME NEW m \in 1..Kept(h), OpenCall(b, st, m), st # 0, ~(m > st) PROVE FALSE
      OBVIOUS
    <2>1. m = st
      BY <1>1 DEF OpenCall
    <2>2. h[m].type = "user_prompt"
      BY <2>1, StartFacts DEF IsPrompt, st
    <2> QED
      BY <1>1, <2>2 DEF OpenCall
  <1>10. ASSUME NEW k \in 1..Len(u)
         PROVE  \E m \in 1..Kept(h) :
                  /\ OpenCall(b, st, m) /\ m > st /\ st # 0
                  /\ Added(h)[k].call = h[m].call /\ Added(h)[k].turn = h[m].turn
    <2>1. PICK m \in 1..Kept(h) : OpenCall(b, st, m) /\ u[k] = b[m]
      BY <1>1, <1>2
    <2>2. st # 0
      BY <1>3, <1>5
    <2>3. b[m] = h[m]
      BY <1>1
    <2> QED
      BY <1>8, <1>9, <2>1, <2>2, <2>3
  <1>11. ASSUME st # 0, NEW m \in 1..Kept(h), OpenCall(b, st, m)
         PROVE  \E k \in 1..Len(u) : Added(h)[k].call = h[m].call
    <2>1. PICK k \in 1..Len(u) : u[k] = b[m]
      BY <1>1, <1>2, <1>11
    <2> QED
      BY <1>1, <1>8, <2>1
  <1> QED
    BY <1>7, <1>8, <1>10, <1>11 DEF b, st

(* The repaired history row by row.                                        *)
LEMMA CleanupFacts ==
  ASSUME NEW h \in Seq(Rows)
  PROVE  /\ Cleanup(h) \in Seq(Rows) /\ Recover(h) = Cleanup(h)
         /\ Len(Cleanup(h)) = Kept(h) + Len(Added(h)) /\ Len(Added(h)) \in Nat
         /\ \A i \in 1..Kept(h) : Cleanup(h)[i] = h[i]
         /\ \A i \in (Kept(h) + 1)..Len(Cleanup(h)) :
              i - Kept(h) \in 1..Len(Added(h)) /\ Cleanup(h)[i] = Added(h)[i - Kept(h)]
         /\ \A k \in 1..Len(Added(h)) :
              Kept(h) + k \in (Kept(h) + 1)..Len(Cleanup(h)) /\ Cleanup(h)[Kept(h) + k] = Added(h)[k]
  <1>1. Kept(h) \in Nat /\ Stump(h) \in Seq(Rows) /\ Added(h) \in Seq(Rows)
    BY KeptFacts, StumpFacts, AddedFacts
  <1>2. Len(Stump(h)) = Kept(h) /\ \A i \in 1..Kept(h) : Stump(h)[i] = h[i]
    BY StumpFacts
  <1>3. Cleanup(h) = Stump(h) \o Added(h) /\ Recover(h) = Cleanup(h)
    BY RepairShape
  <1> DEFINE b == Stump(h)
             n == Added(h)
  <1>4. /\ b \o n \in Seq(Rows) /\ Len(b \o n) = Len(b) + Len(n)
        /\ \A i \in 1..Len(b) : (b \o n)[i] = b[i]
        /\ \A i \in (Len(b) + 1)..(Len(b) + Len(n)) : (b \o n)[i] = n[i - Len(b)]
    <2> HIDE DEF b, n
    <2> QED
      BY <1>1, ConcatProperties DEF b, n
  <1>5. Len(n) \in Nat
    BY <1>1
  <1> HIDE DEF b, n
  <1>6. Cleanup(h) \in Seq(Rows) /\ Len(Cleanup(h)) = Kept(h) + Len(n)
    BY <1>2, <1>3, <1>4 DEF b, n
  <1>7. \A i \in 1..Kept(h) : Cleanup(h)[i] = h[i]
    BY <1>2, <1>3, <1>4 DEF b, n
  <1>8. \A i \in (Kept(h) + 1)..Len(Cleanup(h)) : Cleanup(h)[i] = n[i - Kept(h)]
    BY <1>2, <1>3, <1>4, <1>6 DEF b, n
  <1>9. \A i \in (Kept(h) + 1)..Len(Cleanup(h)) : i - Kept(h) \in 1..Len(n)
    BY <1>1, <1>5, <1>6
  <1>10. \A k \in 1..Len(n) : Kept(h) + k \in (Kept(h) + 1)..Len(Cleanup(h)) /\ (Kept(h) + k) - Kept(h) = k
    BY <1>1, <1>5, <1>6
  <1> QED
    BY <1>3, <1>5, <1>6, <1>7, <1>8, <1>9, <1>10 DEF n

-----------------------------------------------------------------------------
(* Validity.                                                               *)

(* The call at i has its result, after it and in its own turn.             *)
Answered(h, i) ==
    \E j \in (i + 1)..Len(h) : NoPromptIn(h, i, j) /\ h[j].type = "tool_result" /\ h[j].call = h[i].call

(* A history begins with a prompt.                                         *)
Opened(h) == Len(h) > 0 => IsPrompt(h, 1)

(* A result comes after its call and in the call's turn.                   *)
OwnResults(h) ==
    \A i, j \in 1..Len(h) :
        h[i].type = "tool_call" /\ h[j].type = "tool_result" /\ h[i].call = h[j].call =>
            i < j /\ NoPromptIn(h, i, j)

(* A call without a result is one of the last turn.                        *)
OpenInLast(h) ==
    \A i \in 1..Len(h) : h[i].type = "tool_call" => Answered(h, i) \/ NoPromptIn(h, i, Len(h))

(* Rows that no prompt separates are of one turn.                          *)
NoMix(h) ==
    \A i, j \in 1..Len(h) : i <= j /\ NoPromptIn(h, i, j) => h[i].turn = h[j].turn

(* CallsAnswered, by positions.                                            *)
LEMMA CallsAnsweredAs ==
  ASSUME NEW h \in Seq(Rows)
  PROVE  CallsAnswered(h) <=> \A i \in 1..Len(h) : h[i].type = "tool_call" => Answered(h, i)
  <1>1. DOMAIN h = 1..Len(h) /\ Len(h) \in Nat
    OBVIOUS
  <1>2. \A i \in 1..Len(h) : \A j \in Int :
          j \in (i + 1)..TurnEnd(h, i) <=> j \in (i + 1)..Len(h) /\ NoPromptIn(h, i, j)
    BY TurnEndFacts
  <1>3. \A i \in 1..Len(h) :
          (\E j \in (i + 1)..TurnEnd(h, i) : h[j].type = "tool_result" /\ h[j].call = h[i].call) <=> Answered(h, i)
    <2> SUFFICES ASSUME NEW i \in 1..Len(h)
                 PROVE  (\E j \in (i + 1)..TurnEnd(h, i) : h[j].type = "tool_result" /\ h[j].call = h[i].call)
                        <=> Answered(h, i)
      OBVIOUS
    <2>1. TurnEnd(h, i) \in Int
      BY TurnEndFacts
    <2> QED
      BY <1>2, <2>1 DEF Answered
  <1> QED
    BY <1>1, <1>3 DEF CallsAnswered

(* ReasoningFollowed and PromptsAnswered, by positions.                    *)
LEMMA AcceptableAs ==
  ASSUME NEW h \in Seq(Rows)
  PROVE  /\ ReasoningFollowed(h) <=> \A i \in 1..Len(h) : h[i].type = "reasoning" =>
              \E j \in (i + 1)..Len(h) : NoPromptIn(h, i, j) /\ h[j].type # "reasoning"
         /\ PromptsAnswered(h) <=> \A i \in 1..Len(h) : IsPrompt(h, i) => i < Len(h) /\ ~IsPrompt(h, i + 1)
  <1>1. DOMAIN h = 1..Len(h) /\ Len(h) \in Nat
    OBVIOUS
  <1>2. \A i \in 1..Len(h) : /\ TurnEnd(h, i) \in Int
                             /\ \A j \in Int : j \in (i + 1)..TurnEnd(h, i) <=>
                                               j \in (i + 1)..Len(h) /\ NoPromptIn(h, i, j)
    BY TurnEndFacts
  <1>3. \A i \in 1..Len(h) :
          (\E j \in (i + 1)..TurnEnd(h, i) : h[j].type # "reasoning") <=>
          (\E j \in (i + 1)..Len(h) : NoPromptIn(h, i, j) /\ h[j].type # "reasoning")
    <2> SUFFICES ASSUME NEW i \in 1..Len(h)
                 PROVE  (\E j \in (i + 1)..TurnEnd(h, i) : h[j].type # "reasoning") <=>
                        (\E j \in (i + 1)..Len(h) : NoPromptIn(h, i, j) /\ h[j].type # "reasoning")
      OBVIOUS
    <2>1. \A j \in Int : j \in (i + 1)..TurnEnd(h, i) <=> j \in (i + 1)..Len(h) /\ NoPromptIn(h, i, j)
      BY <1>2
    <2>2. (i + 1)..TurnEnd(h, i) \subseteq Int /\ (i + 1)..Len(h) \subseteq Int
      BY <1>1, <1>2
    <2> QED
      BY <2>1, <2>2
  <1>4. \A i \in 1..Len(h) : TurnEnd(h, i) > i <=> i < Len(h) /\ ~IsPrompt(h, i + 1)
    <2> SUFFICES ASSUME NEW i \in 1..Len(h)
                 PROVE  TurnEnd(h, i) > i <=> i < Len(h) /\ ~IsPrompt(h, i + 1)
      OBVIOUS
    <2>1. TurnEnd(h, i) > i <=> i + 1 \in (i + 1)..TurnEnd(h, i)
      BY <1>2
    <2>2. i + 1 \in (i + 1)..TurnEnd(h, i) <=> i + 1 \in (i + 1)..Len(h) /\ NoPromptIn(h, i, i + 1)
      BY <1>2
    <2>3. NoPromptIn(h, i, i + 1) <=> ~IsPrompt(h, i + 1)
      BY DEF NoPromptIn
    <2> QED
      BY <1>1, <2>1, <2>2, <2>3
  <1> QED
    BY <1>1, <1>3, <1>4 DEF ReasoningFollowed, PromptsAnswered, IsPrompt

(* What the repair leaves of the prompts.                                  *)
LEMMA CleanupPrompts ==
  ASSUME NEW h \in Seq(Rows)
  PROVE  /\ \A i \in 1..Len(Cleanup(h)) : i > TurnStart(h) => ~IsPrompt(Cleanup(h), i)
         /\ \A i \in 1..Kept(h) : IsPrompt(Cleanup(h), i) <=> IsPrompt(h, i)
         /\ \A i \in 1..Len(Cleanup(h)) : i > Kept(h) =>
              /\ Cleanup(h)[i].type = "tool_result"
              /\ \E m \in 1..Kept(h) :
                  /\ OpenCall(Stump(h), TurnStart(h), m) /\ m > TurnStart(h) /\ TurnStart(h) # 0
                  /\ Cleanup(h)[i].call = h[m].call /\ Cleanup(h)[i].turn = h[m].turn
  <1>1. Kept(h) \in 0..Len(h) /\ Len(h) \in Nat /\ Len(Cleanup(h)) \in Nat /\ TurnStart(h) \in 0..Len(h)
    BY KeptFacts, CleanupFacts, StartFacts
  <1>2. \A i \in 1..Kept(h) : IsPrompt(Cleanup(h), i) <=> IsPrompt(h, i)
    BY CleanupFacts DEF IsPrompt
  <1>3. ASSUME NEW i \in 1..Len(Cleanup(h)), i > Kept(h)
        PROVE  /\ Cleanup(h)[i].type = "tool_result"
               /\ \E m \in 1..Kept(h) :
                  /\ OpenCall(Stump(h), TurnStart(h), m) /\ m > TurnStart(h) /\ TurnStart(h) # 0
                  /\ Cleanup(h)[i].call = h[m].call /\ Cleanup(h)[i].turn = h[m].turn
    <2>1. i \in (Kept(h) + 1)..Len(Cleanup(h))
      BY <1>1, <1>3
    <2>2. i - Kept(h) \in 1..Len(Added(h)) /\ Cleanup(h)[i] = Added(h)[i - Kept(h)]
      BY <2>1, CleanupFacts
    <2> DEFINE k == i - Kept(h)
    <2>3. k \in 1..Len(Added(h)) /\ Cleanup(h)[i] = Added(h)[k]
      BY <2>2
    <2> HIDE DEF k
    <2> QED
      BY <2>3, AddedFacts
  <1>4. \A i \in 1..Len(Cleanup(h)) : i > TurnStart(h) => ~IsPrompt(Cleanup(h), i)
    <2> SUFFICES ASSUME NEW i \in 1..Len(Cleanup(h)), i > TurnStart(h) PROVE ~IsPrompt(Cleanup(h), i)
      OBVIOUS
    <2>1. CASE i <= Kept(h)
      <3>1. i \in 1..Kept(h) /\ i \in 1..Len(h)
        BY <1>1, <2>1
      <3>2. ~IsPrompt(h, i)
        BY <1>1, <3>1, StartFacts
      <3> QED
        BY <1>2, <3>1, <3>2
    <2>2. CASE i > Kept(h)
      BY <1>3, <2>2 DEF IsPrompt
    <2> QED
      BY <1>1, <2>1, <2>2
  <1> QED
    BY <1>2, <1>3, <1>4

(* The positions of a history and of its repair, in one place.             *)
LEMMA CleanupRows ==
  ASSUME NEW h \in Seq(Rows)
  PROVE  /\ Cleanup(h) \in Seq(Rows) /\ Len(h) \in Nat /\ Len(Cleanup(h)) \in Nat
         /\ Kept(h) \in Nat /\ Kept(h) <= Len(h) /\ Kept(h) <= Len(Cleanup(h))
         /\ TurnStart(h) \in Nat /\ TurnStart(h) <= Len(h) /\ TurnStart(h) <= Kept(h) + 1
         /\ \A i \in 1..Kept(h) : Cleanup(h)[i] = h[i]
         /\ \A i \in 1..Len(h) : IsPrompt(h, i) => i <= TurnStart(h)
         /\ TurnStart(h) # 0 => IsPrompt(h, TurnStart(h))
  <1>1. Kept(h) \in 0..Len(h) /\ Len(h) \in Nat /\ TurnStart(h) \in 0..(Kept(h) + 1)
    BY KeptFacts
  <1>2. /\ Cleanup(h) \in Seq(Rows) /\ Len(Cleanup(h)) = Kept(h) + Len(Added(h)) /\ Len(Added(h)) \in Nat
        /\ \A i \in 1..Kept(h) : Cleanup(h)[i] = h[i]
    BY CleanupFacts
  <1>3. /\ TurnStart(h) \in 0..Len(h) /\ \A i \in 1..Len(h) : IsPrompt(h, i) => i <= TurnStart(h)
        /\ TurnStart(h) # 0 => IsPrompt(h, TurnStart(h))
    BY StartFacts
  <1> QED
    BY <1>1, <1>2, <1>3

(* The repair makes every call answered, and keeps results with their      *)
(* calls, when the turns before the last were in order.                    *)
LEMMA CleanupValid ==
  ASSUME NEW h \in Seq(Rows), Opened(h), OwnResults(h), OpenInLast(h)
  PROVE  CallsAnswered(Cleanup(h)) /\ OwnResults(Cleanup(h)) /\ Opened(Cleanup(h)) /\ OpenInLast(Cleanup(h))
  <1> DEFINE c == Cleanup(h)
             st == TurnStart(h)
             kp == Kept(h)
  <1>1. /\ c \in Seq(Rows) /\ kp \in Nat /\ kp <= Len(h) /\ Len(c) \in Nat /\ kp <= Len(c) /\ Len(h) \in Nat
        /\ \A i \in 1..kp : c[i] = h[i]
    BY CleanupRows
  <1>2. /\ st \in 0..Len(h) /\ st <= kp + 1 /\ (Len(h) > 0 => st # 0)
        /\ \A i \in 1..Len(h) : IsPrompt(h, i) => i <= st
        /\ st # 0 => IsPrompt(h, st)
    BY CleanupRows DEF Opened
  <1>3. /\ \A i \in 1..Len(c) : i > st => ~IsPrompt(c, i)
        /\ \A i \in 1..kp : IsPrompt(c, i) <=> IsPrompt(h, i)
        /\ \A i \in 1..Len(c) : i > kp => c[i].type = "tool_result"
    BY CleanupPrompts
  <1>4. \A i \in 1..Len(c) : i > kp =>
          \E m \in 1..kp : /\ OpenCall(Stump(h), st, m) /\ m > st /\ st # 0
                           /\ c[i].call = h[m].call
    BY CleanupPrompts
  <1>5. \A m \in 1..kp : st # 0 /\ OpenCall(Stump(h), st, m) =>
          \E i \in 1..Len(c) : i > kp /\ c[i].type = "tool_result" /\ c[i].call = h[m].call
    <2> SUFFICES ASSUME NEW m \in 1..kp, st # 0, OpenCall(Stump(h), st, m)
                 PROVE  \E i \in 1..Len(c) : i > kp /\ c[i].type = "tool_result" /\ c[i].call = h[m].call
      OBVIOUS
    <2>1. PICK k \in 1..Len(Added(h)) : Added(h)[k].call = h[m].call
      BY AddedFacts
    <2>2. kp + k \in (kp + 1)..Len(c) /\ c[kp + k] = Added(h)[k]
      BY CleanupFacts
    <2>3. kp + k \in 1..Len(c) /\ kp + k > kp
      BY <1>1, <2>2
    <2> QED
      BY <1>3, <2>1, <2>2, <2>3
  <1>6. \A m \in 1..kp : OpenCall(Stump(h), st, m) <=>
          /\ m >= st /\ h[m].type = "tool_call"
          /\ \A j \in 1..kp : h[j].type = "tool_result" => h[j].call # h[m].call
    BY StumpFacts, SMTT(30) DEF OpenCall, Results
  <1> HIDE DEF c, st, kp
  <1>7. \A i, j \in 1..kp : NoPromptIn(c, i, j) <=> NoPromptIn(h, i, j)
    BY <1>1, <1>3 DEF NoPromptIn
  <1>8. \A i, j \in 1..Len(c) : i >= st => NoPromptIn(c, i, j)
    BY <1>1, <1>2, <1>3 DEF NoPromptIn
  <1>9. \A i \in 1..kp : h[i].type = "tool_call" /\ i <= st =>
          \E j \in 1..kp : i < j /\ NoPromptIn(h, i, j) /\ h[j].type = "tool_result" /\ h[j].call = h[i].call
    <2> SUFFICES ASSUME NEW i \in 1..kp, h[i].type = "tool_call", i <= st
                 PROVE  \E j \in 1..kp : i < j /\ NoPromptIn(h, i, j) /\ h[j].type = "tool_result"
                                         /\ h[j].call = h[i].call
      OBVIOUS
    <2>1. st # 0 /\ i < st /\ i \in 1..Len(h)
      BY <1>1, <1>2 DEF IsPrompt
    <2>2. ~NoPromptIn(h, i, Len(h))
      BY <1>2, <2>1 DEF NoPromptIn
    <2>3. PICK j \in (i + 1)..Len(h) : NoPromptIn(h, i, j) /\ h[j].type = "tool_result" /\ h[j].call = h[i].call
      BY <2>1, <2>2 DEF OpenInLast, Answered
    <2>4. j < st
      BY <1>2, <2>1, <2>3 DEF NoPromptIn
    <2> QED
      BY <1>1, <1>2, <2>3, <2>4
  <1>10. ASSUME NEW i \in 1..Len(c), c[i].type = "tool_call"
         PROVE  Answered(c, i)
    <2>1. i \in 1..kp /\ h[i].type = "tool_call" /\ i \in 1..Len(h)
      BY <1>1, <1>3, <1>10
    <2>2. st # 0
      BY <1>1, <1>2, <2>1
    <2>3. CASE i <= st
      <3>1. PICK j \in 1..kp : i < j /\ NoPromptIn(h, i, j) /\ h[j].type = "tool_result" /\ h[j].call = h[i].call
        BY <1>9, <2>1, <2>3
      <3> QED
        BY <1>1, <1>7, <2>1, <3>1 DEF Answered
    <2>4. CASE i > st /\ \E j \in 1..kp : h[j].type = "tool_result" /\ h[j].call = h[i].call
      <3>1. PICK j \in 1..kp : h[j].type = "tool_result" /\ h[j].call = h[i].call
        BY <2>4
      <3>2. i < j /\ NoPromptIn(h, i, j)
        BY <1>1, <2>1, <3>1 DEF OwnResults
      <3> QED
        BY <1>1, <1>7, <2>1, <3>1, <3>2 DEF Answered
    <2>5. CASE i > st /\ \A j \in 1..kp : h[j].type = "tool_result" => h[j].call # h[i].call
      <3>1. OpenCall(Stump(h), st, i)
        BY <1>2, <1>6, <2>1, <2>5
      <3>2. PICK j \in 1..Len(c) : j > kp /\ c[j].type = "tool_result" /\ c[j].call = h[i].call
        BY <1>5, <2>1, <2>2, <3>1
      <3>3. NoPromptIn(c, i, j) /\ j \in (i + 1)..Len(c) /\ c[i] = h[i]
        BY <1>1, <1>2, <1>8, <2>1, <2>5, <3>2
      <3> QED
        BY <3>2, <3>3 DEF Answered
    <2> QED
      BY <1>1, <1>2, <2>1, <2>3, <2>4, <2>5
  <1>11. CallsAnswered(c)
    BY <1>1, <1>10, CallsAnsweredAs
  <1>12. OwnResults(c)
    <2> SUFFICES ASSUME NEW i \in 1..Len(c), NEW j \in 1..Len(c),
                        c[i].type = "tool_call", c[j].type = "tool_result", c[i].call = c[j].call
                 PROVE  i < j /\ NoPromptIn(c, i, j)
      BY DEF OwnResults
    <2>1. i \in 1..kp /\ h[i].type = "tool_call" /\ c[i] = h[i]
      BY <1>1, <1>3
    <2>2. CASE j \in 1..kp
      BY <1>1, <1>7, <2>1, <2>2 DEF OwnResults
    <2>3. CASE j > kp
      <3>1. PICK m \in 1..kp : OpenCall(Stump(h), st, m) /\ c[j].call = h[m].call
        BY <1>4, <2>3
      <3>2. \A k \in 1..kp : h[k].type = "tool_result" => h[k].call # h[i].call
        BY <1>6, <2>1, <3>1
      <3>3. ~(i <= st)
        BY <1>9, <2>1, <3>2
      <3> QED
        BY <1>1, <1>2, <1>8, <2>1, <2>3, <3>3
    <2> QED
      BY <1>1, <2>2, <2>3
  <1>13. Opened(c)
    <2> SUFFICES ASSUME Len(c) > 0 PROVE IsPrompt(c, 1)
      BY DEF Opened
    <2>1. kp > 0
      <3> SUFFICES ASSUME kp = 0 PROVE FALSE
        BY <1>1
      <3>1. Len(c) \in 1..Len(c) /\ Len(c) > kp
        BY <1>1
      <3> QED
        BY <1>4, <3>1
    <2>2. 1 \in 1..kp /\ Len(h) > 0
      BY <1>1, <2>1
    <2> QED
      BY <1>3, <2>2 DEF Opened
  <1>14. OpenInLast(c)
    BY <1>10 DEF OpenInLast
  <1> QED
    BY <1>11, <1>12, <1>13, <1>14 DEF c

(* The repair mixes no turns: a result that is added belongs to the turn   *)
(* of its call, which is the last.                                         *)
LEMMA CleanupNoMix ==
  ASSUME NEW h \in Seq(Rows), NoMix(h)
  PROVE  NoMix(Cleanup(h))
  <1> DEFINE c == Cleanup(h)
             st == TurnStart(h)
             kp == Kept(h)
  <1>1. /\ c \in Seq(Rows) /\ kp \in Nat /\ kp <= Len(h) /\ Len(c) \in Nat /\ kp <= Len(c) /\ Len(h) \in Nat
        /\ \A i \in 1..kp : c[i] = h[i]
        /\ st \in Nat /\ st <= kp + 1
        /\ \A i \in 1..Len(h) : IsPrompt(h, i) => i <= st
        /\ st # 0 => IsPrompt(h, st)
    BY CleanupRows
  <1>2. \A i \in 1..kp : IsPrompt(c, i) <=> IsPrompt(h, i)
    BY CleanupPrompts
  <1>3. \A i \in 1..Len(c) : i > kp => \E m \in 1..kp : m > st /\ st # 0 /\ c[i].turn = h[m].turn
    BY CleanupPrompts
  <1> HIDE DEF c, st, kp
  <1>4. \A m, n \in 1..kp : m >= st /\ n >= st => h[m].turn = h[n].turn
    <2>1. \A m, n \in 1..kp : m >= st => NoPromptIn(h, m, n)
      BY <1>1 DEF NoPromptIn
    <2>2. \A m, n \in 1..kp : m >= st /\ m <= n => h[m].turn = h[n].turn
      <3> SUFFICES ASSUME NEW m \in 1..kp, NEW n \in 1..kp, m >= st, m <= n PROVE h[m].turn = h[n].turn
        OBVIOUS
      <3>1. m \in 1..Len(h) /\ n \in 1..Len(h)
        BY <1>1
      <3>2. NoPromptIn(h, m, n)
        BY <2>1
      <3> QED
        BY <3>1, <3>2 DEF NoMix
    <2>3. \A m, n \in 1..kp : m <= n \/ n <= m
      BY <1>1
    <2> TAKE m, n \in 1..kp
    <2> HAVE m >= st /\ n >= st
    <2>4. CASE m <= n
      BY <2>2, <2>4
    <2>5. CASE n <= m
      BY <2>2, <2>5
    <2> QED
      BY <2>3, <2>4, <2>5
  <1> SUFFICES ASSUME NEW i \in 1..Len(c), NEW j \in 1..Len(c), i <= j, NoPromptIn(c, i, j)
               PROVE  c[i].turn = c[j].turn
    BY DEF NoMix, c
  <1>5. CASE j <= kp
    <2>1. NoPromptIn(h, i, j)
      BY <1>1, <1>2, <1>5 DEF NoPromptIn
    <2> QED
      BY <1>1, <1>5, <2>1 DEF NoMix
  <1>6. CASE j > kp /\ i <= kp
    <2>1. PICK m \in 1..kp : m > st /\ st # 0 /\ c[j].turn = h[m].turn
      BY <1>3, <1>6
    <2>2. st \in 1..kp /\ IsPrompt(c, st)
      BY <1>1, <1>2, <2>1
    <2>3. i >= st
      BY <1>1, <1>6, <2>2 DEF NoPromptIn
    <2> QED
      BY <1>1, <1>4, <1>6, <2>1, <2>3
  <1>7. CASE i > kp
    <2>1. j > kp
      BY <1>1, <1>7
    <2>2. PICK m \in 1..kp : m > st /\ c[i].turn = h[m].turn
      BY <1>3, <1>7
    <2>3. PICK n \in 1..kp : n > st /\ c[j].turn = h[n].turn
      BY <1>3, <2>1
    <2> QED
      BY <1>1, <1>4, <2>2, <2>3
  <1> QED
    BY <1>1, <1>5, <1>6, <1>7

(* The repair makes the last turn acceptable, and with it the whole when   *)
(* the turns before it are.                                                *)
LEMMA CleanupAcceptable ==
  ASSUME NEW h \in Seq(Rows), Opened(h), OwnResults(h), OpenInLast(h),
         Acceptable(SubSeq(h, 1, TurnStart(h) - 1))
  PROVE  Acceptable(Cleanup(h))
  <1> DEFINE c == Cleanup(h)
             st == TurnStart(h)
             kp == Kept(h)
             p == SubSeq(h, 1, st - 1)
  <1>1. /\ c \in Seq(Rows) /\ kp \in Nat /\ kp <= Len(h) /\ Len(c) \in Nat /\ kp <= Len(c) /\ Len(h) \in Nat
        /\ \A i \in 1..kp : c[i] = h[i]
        /\ st \in Nat /\ st <= Len(h) /\ st <= kp + 1
        /\ \A i \in 1..Len(h) : IsPrompt(h, i) => i <= st
        /\ st # 0 => IsPrompt(h, st)
    BY CleanupRows
  <1>2. /\ \A i \in 1..Len(c) : i > st => ~IsPrompt(c, i)
        /\ \A i \in 1..Len(c) : i > kp => c[i].type = "tool_result"
    BY CleanupPrompts
  <1>3. st # 0 /\ kp >= st => kp > st /\ h[kp].type # "reasoning"
    BY KeptFacts
  <1>4. Len(c) > kp => kp > st
    <2> SUFFICES ASSUME Len(c) > kp PROVE kp > st
      OBVIOUS
    <2>1. Len(c) \in 1..Len(c) /\ Len(c) > kp
      BY <1>1
    <2>2. PICK m \in 1..kp : m > st
      BY <2>1, CleanupPrompts
    <2> QED
      BY <1>1, <2>2
  <1>5. p \in Seq(Rows) /\ (st # 0 => Len(p) = st - 1) /\ (st = 0 => Len(p) = 0)
        /\ \A i \in 1..Len(p) : p[i] = h[i]
    <2> HIDE DEF st
    <2>1. CASE st = 0
      <3>1. p = <<>>
        BY <2>1
      <3> QED
        BY <2>1, <3>1
    <2>2. CASE st # 0
      BY <1>1, <2>2
    <2> QED
      BY <2>1, <2>2
  <1>6. st = 0 => Len(c) = 0
    BY <1>1, <1>4 DEF Opened
  <1>7. ReasoningFollowed(p) /\ PromptsAnswered(p)
    BY DEF Acceptable
  <1> HIDE DEF c, st, kp, p
  <1>8. \A i \in 1..Len(p) : i \in 1..kp /\ i \in 1..Len(c) /\ c[i] = p[i] /\ i < st
    BY <1>1, <1>5
  <1>9. \A i \in 1..Len(c) : i >= st \/ i \in 1..Len(p)
    BY <1>1, <1>5
  <1>10. CallsAnswered(c)
    BY CleanupValid DEF c
  <1>11. ReasoningFollowed(c)
    <2> SUFFICES ASSUME NEW i \in 1..Len(c), c[i].type = "reasoning"
                 PROVE  \E j \in (i + 1)..Len(c) : NoPromptIn(c, i, j) /\ c[j].type # "reasoning"
      BY <1>1, AcceptableAs
    <2>1. CASE i \in 1..Len(p)
      <3>1. PICK j \in (i + 1)..Len(p) : NoPromptIn(p, i, j) /\ p[j].type # "reasoning"
        BY <1>5, <1>7, <1>8, <2>1, AcceptableAs
      <3>2. j \in 1..Len(p) /\ j \in (i + 1)..Len(c)
        BY <1>1, <1>5, <1>8, <2>1, <3>1
      <3>3. NoPromptIn(c, i, j)
        BY <1>5, <1>8, <2>1, <3>1, <3>2 DEF NoPromptIn, IsPrompt
      <3> QED
        BY <1>8, <3>1, <3>2, <3>3
    <2>2. CASE i >= st
      <3>1. i <= kp /\ st # 0
        BY <1>1, <1>2, <1>6
      <3>2. kp > i /\ c[kp].type # "reasoning" /\ kp \in (i + 1)..Len(c)
        BY <1>1, <1>3, <2>2, <3>1
      <3>3. NoPromptIn(c, i, kp)
        BY <1>1, <1>2, <2>2 DEF NoPromptIn
      <3> QED
        BY <3>2, <3>3
    <2> QED
      BY <1>9, <2>1, <2>2
  <1>12. PromptsAnswered(c)
    <2> SUFFICES ASSUME NEW i \in 1..Len(c), IsPrompt(c, i)
                 PROVE  i < Len(c) /\ ~IsPrompt(c, i + 1)
      BY <1>1, AcceptableAs
    <2>1. CASE i \in 1..Len(p)
      <3>1. i < Len(p) /\ ~IsPrompt(p, i + 1)
        BY <1>5, <1>7, <1>8, <2>1, AcceptableAs DEF IsPrompt
      <3>2. i + 1 \in 1..Len(p)
        BY <1>5, <2>1, <3>1
      <3> QED
        BY <1>1, <1>5, <1>8, <2>1, <3>1, <3>2 DEF IsPrompt
    <2>2. CASE i >= st
      <3>1. i = st /\ st # 0
        BY <1>1, <1>2, <1>6, <2>2
      <3>2. st <= kp
        BY <1>1, <1>4, <3>1
      <3>3. kp > st
        BY <1>1, <1>3, <3>1, <3>2
      <3>4. i < Len(c) /\ i + 1 > st /\ i + 1 \in 1..Len(c)
        BY <1>1, <3>1, <3>3
      <3> QED
        BY <1>2, <3>4
    <2> QED
      BY <1>9, <2>1, <2>2
  <1> QED
    BY <1>10, <1>11, <1>12 DEF Acceptable, c

(* The repair leaves an acceptable history as it is.                       *)
LEMMA CleanupFixes ==
  ASSUME NEW c \in Seq(Rows), Opened(c), Acceptable(c)
  PROVE  Cleanup(c) = c
  <1>1. Len(c) \in Nat /\ TurnStart(c) \in 0..Len(c) /\ LastItem(c) \in 0..Len(c) /\ (Len(c) > 0 => TurnStart(c) # 0)
    BY StartFacts, ItemFacts DEF Opened
  <1>2. Len(c) > 0 => c[Len(c)].type # "reasoning" /\ ~IsPrompt(c, Len(c))
    BY <1>1, AcceptableAs DEF Acceptable
  <1>3. Kept(c) = Len(c)
    <2>1. CASE Len(c) = 0
      BY <1>1, <2>1 DEF Kept
    <2>2. CASE Len(c) > 0
      <3>1. LastItem(c) = Len(c)
        BY <1>1, <1>2, <2>2, ItemFacts
      <3>2. TurnStart(c) # Len(c)
        BY <1>1, <1>2, <2>2, StartFacts
      <3> QED
        BY <3>1, <3>2 DEF Kept
    <2> QED
      BY <1>1, <2>1, <2>2
  <1>4. Stump(c) = c
    BY <1>3 DEF Stump
  <1>5. Len(Added(c)) = 0
    <2> SUFFICES ASSUME Len(Added(c)) # 0 PROVE FALSE
      OBVIOUS
    <2>1. 1 \in 1..Len(Added(c))
      BY AddedFacts
    <2>2. PICK m \in 1..Len(c) : OpenCall(c, TurnStart(c), m)
      BY <1>3, <1>4, <2>1, AddedFacts
    <2>3. c[m].type = "tool_call" /\ c[m].call \notin Results(c)
      BY <2>2 DEF OpenCall
    <2>4. PICK j \in (m + 1)..Len(c) : c[j].type = "tool_result" /\ c[j].call = c[m].call
      BY <2>3, CallsAnsweredAs DEF Acceptable, Answered
    <2>5. j \in DOMAIN c
      BY <1>1, <2>4
    <2> QED
      BY <2>3, <2>4, <2>5 DEF Results
  <1>6. Added(c) = <<>>
    BY <1>5, AddedFacts
  <1>7. Cleanup(c) = Stump(c) \o Added(c)
    BY RepairShape
  <1> QED
    BY <1>4, <1>6, <1>7

(* The repair keeps what came before the last prompt and what the turn has *)
(* produced.                                                               *)
LEMMA CleanupKeeps ==
  ASSUME NEW h \in Seq(Rows)
  PROVE  LET c == Cleanup(h)
             start == TurnStart(h)
         IN  \/ start = 0 /\ c = h
             \/ start > 0 /\ IF LastItem(h) = start
                             THEN c = SubSeq(h, 1, start - 1)
                             ELSE SubSeq(c, 1, LastItem(h)) = SubSeq(h, 1, LastItem(h))
  <1>1. Len(h) \in Nat /\ TurnStart(h) \in 0..Len(h) /\ LastItem(h) \in 0..Len(h)
    BY StartFacts, ItemFacts
  <1>2. Cleanup(h) = Stump(h) \o Added(h)
    BY RepairShape
  <1>3. ASSUME TurnStart(h) = 0 \/ LastItem(h) = TurnStart(h)
        PROVE  Cleanup(h) = Stump(h)
    <2>1. Len(Added(h)) = 0
      <3> SUFFICES ASSUME Len(Added(h)) # 0 PROVE FALSE
        OBVIOUS
      <3>1. 1 \in 1..Len(Added(h))
        BY AddedFacts
      <3>2. PICK m \in 1..Kept(h) : m > TurnStart(h) /\ TurnStart(h) # 0
        BY <3>1, AddedFacts
      <3> QED
        BY <1>1, <1>3, <3>2 DEF Kept
    <2>2. Added(h) = <<>> /\ Stump(h) \in Seq(Rows)
      BY <2>1, AddedFacts, StumpFacts
    <2> QED
      BY <1>2, <2>2
  <1>4. CASE TurnStart(h) = 0
    <2>1. Stump(h) = h
      BY <1>1, <1>4 DEF Stump, Kept
    <2> QED
      BY <1>3, <1>4, <2>1
  <1>5. CASE TurnStart(h) # 0 /\ LastItem(h) = TurnStart(h)
    <2>1. Stump(h) = SubSeq(h, 1, TurnStart(h) - 1)
      BY <1>5 DEF Stump, Kept
    <2> QED
      BY <1>1, <1>3, <1>5, <2>1
  <1>6. CASE TurnStart(h) # 0 /\ LastItem(h) # TurnStart(h)
    <2>1. Kept(h) = LastItem(h)
      BY <1>6 DEF Kept
    <2>2. /\ Cleanup(h) \in Seq(Rows) /\ LastItem(h) <= Len(Cleanup(h)) /\ LastItem(h) <= Len(h)
          /\ \A i \in 1..LastItem(h) : Cleanup(h)[i] = h[i]
      BY <2>1, CleanupRows
    <2>3. SubSeq(Cleanup(h), 1, LastItem(h)) = SubSeq(h, 1, LastItem(h))
      BY <1>1, <2>2
    <2> QED
      BY <1>1, <1>6, <2>3
  <1> QED
    BY <1>4, <1>5, <1>6

-----------------------------------------------------------------------------
(* A row more.                                                             *)

WellFormed(h) == Opened(h) /\ OwnResults(h) /\ OpenInLast(h)

(* The rows of a history with one more.                                    *)
LEMMA AppendRows ==
  ASSUME NEW h \in Seq(Rows), NEW r \in Rows
  PROVE  /\ Append(h, r) \in Seq(Rows) /\ Len(h) \in Nat /\ Len(Append(h, r)) = Len(h) + 1
         /\ \A i \in 1..Len(h) : Append(h, r)[i] = h[i]
         /\ Append(h, r)[Len(h) + 1] = r
         /\ \A i \in Nat, j \in 0..Len(h) : NoPromptIn(Append(h, r), i, j) <=> NoPromptIn(h, i, j)
         /\ r.type # "user_prompt" => \A i \in Nat :
              NoPromptIn(Append(h, r), i, Len(h) + 1) <=> NoPromptIn(h, i, Len(h))
  <1>1. /\ Append(h, r) \in Seq(Rows) /\ Len(h) \in Nat /\ Len(Append(h, r)) = Len(h) + 1
        /\ \A i \in 1..Len(h) : Append(h, r)[i] = h[i]
        /\ Append(h, r)[Len(h) + 1] = r
    OBVIOUS
  <1> DEFINE g == Append(h, r)
  <1> HIDE DEF g
  <1>2. /\ Len(h) \in Nat /\ \A i \in 1..Len(h) : g[i] = h[i]
        /\ g[Len(h) + 1] = r
    BY <1>1 DEF g
  <1>3. \A i \in Nat, j \in 0..Len(h) : NoPromptIn(g, i, j) <=> NoPromptIn(h, i, j)
    BY <1>2 DEF NoPromptIn, IsPrompt
  <1>4. r.type # "user_prompt" => \A i \in Nat : NoPromptIn(g, i, Len(h) + 1) <=> NoPromptIn(h, i, Len(h))
    BY <1>2 DEF NoPromptIn, IsPrompt
  <1> QED
    BY <1>1, <1>3, <1>4 DEF g

(* A call that has its result keeps it.                                    *)
LEMMA AppendAnswered ==
  ASSUME NEW h \in Seq(Rows), NEW r \in Rows, NEW i \in 1..Len(h), Answered(h, i)
  PROVE  Answered(Append(h, r), i)
  <1> DEFINE g == Append(h, r)
  <1>1. /\ Len(h) \in Nat /\ Len(g) = Len(h) + 1 /\ \A k \in 1..Len(h) : g[k] = h[k]
        /\ \A m \in Nat, j \in 0..Len(h) : NoPromptIn(g, m, j) <=> NoPromptIn(h, m, j)
    BY AppendRows
  <1>2. PICK j \in (i + 1)..Len(h) : NoPromptIn(h, i, j) /\ h[j].type = "tool_result" /\ h[j].call = h[i].call
    BY DEF Answered
  <1> HIDE DEF g
  <1>3. j \in (i + 1)..Len(g) /\ j \in 1..Len(h) /\ NoPromptIn(g, i, j)
    BY <1>1, <1>2
  <1> QED
    BY <1>1, <1>2, <1>3 DEF Answered, g

(* A row that is added in order keeps the history in order: a prompt after *)
(* answered calls, a call with an id without results, a result in the turn *)
(* of its call.                                                            *)
LEMMA AppendWellFormed ==
  ASSUME NEW h \in Seq(Rows), NEW r \in Rows, WellFormed(h),
         Len(h) = 0 => r.type = "user_prompt",
         r.type = "user_prompt" => CallsAnswered(h),
         r.type = "tool_call" => \A j \in 1..Len(h) : h[j].type = "tool_result" => h[j].call # r.call,
         r.type = "tool_result" =>
           \A i \in 1..Len(h) : h[i].type = "tool_call" /\ h[i].call = r.call => NoPromptIn(h, i, Len(h))
  PROVE  WellFormed(Append(h, r))
  <1> DEFINE g == Append(h, r)
  <1>1. /\ g \in Seq(Rows) /\ Len(h) \in Nat /\ Len(g) = Len(h) + 1
        /\ \A i \in 1..Len(h) : g[i] = h[i]
        /\ g[Len(h) + 1] = r
        /\ \A i \in Nat, j \in 0..Len(h) : NoPromptIn(g, i, j) <=> NoPromptIn(h, i, j)
        /\ r.type # "user_prompt" => \A i \in Nat : NoPromptIn(g, i, Len(h) + 1) <=> NoPromptIn(h, i, Len(h))
    BY AppendRows
  <1>2. \A i \in 1..Len(h) : Answered(h, i) => Answered(g, i)
    BY AppendAnswered
  <1> HIDE DEF g
  <1>3. Opened(g)
    BY <1>1 DEF WellFormed, Opened, IsPrompt
  <1>4. OwnResults(g)
    <2> SUFFICES ASSUME NEW i \in 1..Len(g), NEW j \in 1..Len(g),
                        g[i].type = "tool_call", g[j].type = "tool_result", g[i].call = g[j].call
                 PROVE  i < j /\ NoPromptIn(g, i, j)
      BY DEF OwnResults
    <2>1. CASE i \in 1..Len(h) /\ j \in 1..Len(h)
      BY <1>1, <2>1 DEF WellFormed, OwnResults
    <2>2. CASE i \in 1..Len(h) /\ j = Len(h) + 1
      BY <1>1, <2>2
    <2>3. CASE i = Len(h) + 1
      BY <1>1, <2>3
    <2> QED
      BY <1>1, <2>1, <2>2, <2>3
  <1>5. OpenInLast(g)
    <2> SUFFICES ASSUME NEW i \in 1..Len(g), g[i].type = "tool_call", ~Answered(g, i)
                 PROVE  NoPromptIn(g, i, Len(g))
      BY DEF OpenInLast
    <2>1. CASE i = Len(h) + 1
      BY <1>1, <2>1 DEF NoPromptIn
    <2>2. CASE i \in 1..Len(h)
      <3>1. h[i].type = "tool_call" /\ ~Answered(h, i) /\ NoPromptIn(h, i, Len(h))
        BY <1>1, <1>2, <2>2 DEF WellFormed, OpenInLast
      <3>2. r.type # "user_prompt"
        BY <2>2, <3>1, CallsAnsweredAs
      <3> QED
        BY <1>1, <2>2, <3>1, <3>2
    <2> QED
      BY <1>1, <2>1, <2>2
  <1> QED
    BY <1>3, <1>4, <1>5 DEF WellFormed, g

(* A row of the last row's turn, or a prompt, mixes no turns.              *)
LEMMA AppendNoMix ==
  ASSUME NEW h \in Seq(Rows), NEW r \in Rows, NoMix(h),
         r.type = "user_prompt" \/ (Len(h) > 0 /\ r.turn = h[Len(h)].turn)
  PROVE  NoMix(Append(h, r))
  <1> DEFINE g == Append(h, r)
  <1>1. /\ g \in Seq(Rows) /\ Len(h) \in Nat /\ Len(g) = Len(h) + 1
        /\ \A i \in 1..Len(h) : g[i] = h[i]
        /\ g[Len(h) + 1] = r
        /\ \A i \in Nat, j \in 0..Len(h) : NoPromptIn(g, i, j) <=> NoPromptIn(h, i, j)
    BY AppendRows
  <1>2. r.type # "user_prompt" => \A i \in Nat : NoPromptIn(g, i, Len(h) + 1) <=> NoPromptIn(h, i, Len(h))
    BY AppendRows
  <1> HIDE DEF g
  <1> SUFFICES ASSUME NEW i \in 1..Len(g), NEW j \in 1..Len(g), i <= j, NoPromptIn(g, i, j)
               PROVE  g[i].turn = g[j].turn
    BY DEF NoMix, g
  <1>3. CASE j \in 1..Len(h)
    BY <1>1, <1>3 DEF NoMix
  <1>4. CASE i = j
    BY <1>4
  <1>5. CASE j = Len(h) + 1 /\ i \in 1..Len(h)
    <2>1. r.type # "user_prompt"
      BY <1>1, <1>5 DEF NoPromptIn, IsPrompt
    <2>2. NoPromptIn(h, i, Len(h))
      BY <1>1, <1>2, <1>5, <2>1
    <2> QED
      BY <1>1, <1>5, <2>1, <2>2 DEF NoMix
  <1> QED
    BY <1>1, <1>3, <1>4, <1>5

-----------------------------------------------------------------------------
(* HistoryRepair.                                                          *)

LeftInv == left \in Seq(Rows) /\ WellFormed(left)

(* A count of prompts is a number, and not 0 when there is one.            *)
LEMMA TurnFacts ==
  ASSUME left \in Seq(Rows)
  PROVE  Turn \in Nat /\ (Turn > 0 => Len(left) > 0)
  <1> DEFINE P == {i \in DOMAIN left : left[i].type = "user_prompt"}
  <1>1. IsFiniteSet(1..Len(left)) /\ DOMAIN left = 1..Len(left) /\ Len(left) \in Nat
    BY FS_Interval
  <1>2. IsFiniteSet(P)
    BY <1>1, FS_Subset
  <1>3. Turn \in Nat
    BY <1>2, FS_CardinalityType DEF Turn
  <1>4. Len(left) = 0 => P = {}
    BY <1>1
  <1>5. Len(left) = 0 => Turn = 0
    BY <1>4, FS_EmptySet DEF Turn
  <1> QED
    BY <1>1, <1>3, <1>5

(* Every row that a turn adds keeps the history in order.                  *)
LEMMA LeftStep ==
  ASSUME LeftInv, RepairNext
  PROVE  LeftInv'
  <1>1. left \in Seq(Rows) /\ WellFormed(left) /\ Turn \in Nat /\ Len(left) \in Nat /\ (Turn > 0 => Len(left) > 0)
    BY TurnFacts DEF LeftInv
  <1>2. ASSUME NEW type \in {"reasoning", "message"}, Turn > 0, left' = Append(left, Row(type, NoCall, Turn))
        PROVE  LeftInv'
    <2>1. Row(type, NoCall, Turn) \in Rows /\ Row(type, NoCall, Turn).type = type
      BY <1>1 DEF Row, Rows, PayloadType, NoCall
    <2> QED
      BY <1>1, <1>2, <2>1, AppendWellFormed, AppendRows DEF LeftInv
  <1>3. CASE WritePrompt
    <2> DEFINE r == Row("user_prompt", NoCall, Turn + 1)
    <2>1. r \in Rows /\ r.type = "user_prompt"
      BY <1>1 DEF Row, Rows, PayloadType, NoCall
    <2> QED
      BY <1>1, <1>3, <2>1, AppendWellFormed, AppendRows DEF LeftInv, WritePrompt
  <1>4. ASSUME NEW c \in CallIds, WriteToolCall(c)
        PROVE  LeftInv'
    <2> DEFINE r == Row("tool_call", c, Turn)
    <2>1. r \in Rows /\ r.type = "tool_call" /\ r.call = c
      BY <1>1, RepairAssumption DEF Row, Rows, PayloadType
    <2>2. \A j \in 1..Len(left) : left[j].call # c
      BY <1>1, <1>4 DEF WriteToolCall, Used
    <2>3. left' = Append(left, r) /\ Len(left) > 0
      BY <1>1, <1>4 DEF WriteToolCall
    <2> HIDE DEF r
    <2> QED
      BY <1>1, <2>1, <2>2, <2>3, AppendWellFormed, AppendRows DEF LeftInv
  <1>5. CASE WriteToolResult
    <2> DEFINE open == Unanswered(left, 1)
               r == Row("tool_result", Head(open).call, Turn)
    <2>1. open \in Seq(Rows) /\ open # <<>> /\ left' = Append(left, r)
      BY <1>1, <1>5, UnansweredFacts DEF WriteToolResult
    <2>2. 1 \in 1..Len(open) /\ Head(open) = open[1] /\ Head(open) \in Rows
      BY <2>1
    <2>3. PICK m \in 1..Len(left) : OpenCall(left, 1, m) /\ open[1] = left[m]
      BY <1>1, <2>2, UnansweredFacts
    <2> HIDE DEF open
    <2>4. r \in Rows /\ r.type = "tool_result" /\ r.call = left[m].call
      BY <1>1, <2>2, <2>3 DEF Row, Rows, PayloadType
    <2> HIDE DEF r
    <2>5. \A i \in 1..Len(left) : left[i].type = "tool_call" /\ left[i].call = r.call => NoPromptIn(left, i, Len(left))
      <3> SUFFICES ASSUME NEW i \in 1..Len(left), left[i].type = "tool_call", left[i].call = r.call
                   PROVE  NoPromptIn(left, i, Len(left))
        OBVIOUS
      <3>1. left[i].call \notin Results(left)
        BY <2>3, <2>4 DEF OpenCall
      <3>2. \A j \in (i + 1)..Len(left) : j \in DOMAIN left
        BY <1>1
      <3>3. ~Answered(left, i)
        BY <3>1, <3>2 DEF Answered, Results
      <3> QED
        BY <1>1, <3>3 DEF WellFormed, OpenInLast
    <2>6. Len(left) > 0
      BY <1>1, <2>3
    <2> QED
      BY <1>1, <2>1, <2>4, <2>5, <2>6, AppendWellFormed, AppendRows DEF LeftInv
  <1> QED
    BY <1>2, <1>3, <1>4, <1>5 DEF RepairNext, WriteReasoning, WriteMessage

(* Whatever turns leave behind, of any length and with any calls, the      *)
(* repair makes valid; it loses nothing it need not lose, does at startup  *)
(* what it does after a cancel, and may be repeated (cleanup_history.sql,  *)
(* cleanup_histories.sql).                                                 *)
THEOREM RepairIsSoundAlways == RepairSpec => []RepairIsSound
  <1>1. RepairInit => LeftInv
    BY DEF RepairInit, LeftInv, WellFormed, Opened, OwnResults, OpenInLast
  <1>2. LeftInv /\ [RepairNext]_repairVars => LeftInv'
    <2>1. LeftInv /\ UNCHANGED repairVars => LeftInv'
      BY DEF LeftInv, repairVars
    <2> QED
      BY <2>1, LeftStep
  <1>3. LeftInv => RepairIsSound
    <2> SUFFICES ASSUME LeftInv PROVE RepairIsSound
      OBVIOUS
    <2>1. left \in Seq(Rows) /\ Opened(left) /\ OwnResults(left) /\ OpenInLast(left)
      BY DEF LeftInv, WellFormed
    <2>2. CleanupRestoresValidity
      BY <2>1, CleanupValid, CleanupAcceptable DEF CleanupRestoresValidity
    <2>3. RecoverAgreesWithCleanup
      BY <2>1, CleanupFacts DEF RecoverAgreesWithCleanup
    <2>4. CleanupIsConservative
      BY <2>1, CleanupKeeps DEF CleanupIsConservative
    <2>5. CleanupIsIdempotent
      <3> SUFFICES ASSUME Acceptable(SubSeq(left, 1, TurnStart(left) - 1))
                   PROVE  Cleanup(Cleanup(left)) = Cleanup(left)
        BY DEF CleanupIsIdempotent
      <3>1. Acceptable(Cleanup(left)) /\ Cleanup(left) \in Seq(Rows) /\ Opened(Cleanup(left))
        BY <2>1, CleanupAcceptable, CleanupFacts, CleanupValid
      <3> QED
        BY <3>1, CleanupFixes
    <2> QED
      BY <2>2, <2>3, <2>4, <2>5 DEF RepairIsSound
  <1> QED
    BY <1>1, <1>2, <1>3, PTL DEF RepairSpec

-----------------------------------------------------------------------------
(* Recursions that append some of the elements of a sequence.              *)

(* What a recursion over 1..n says that appends e[i] for each i of P.      *)
Gathers(f, e, P, n) ==
    /\ f[0] = <<>>
    /\ \A i \in 1..n : f[i] = IF i \in P THEN Append(f[i - 1], e[i]) ELSE f[i - 1]

(* There is such a function.                                               *)
LEMMA GathersExists ==
  ASSUME NEW n \in Nat, NEW P, NEW X, NEW e, \A i \in P \cap (1..n) : e[i] \in X
  PROVE  \E f \in [0..n -> Seq(X)] : Gathers(f, e, P, n)
  <1> DEFINE S == {k \in 0..n : \E f \in [0..k -> Seq(X)] : Gathers(f, e, P, k)}
  <1>1. 0 \in S
    <2> DEFINE f == [i \in 0..0 |-> <<>>]
    <2>1. f \in [0..0 -> Seq(X)] /\ Gathers(f, e, P, 0)
      BY DEF Gathers
    <2> QED
      BY <2>1
  <1>2. ASSUME NEW k \in S \cap (0..n), k < n
        PROVE  k + 1 \in S
    <2>1. PICK f \in [0..k -> Seq(X)] : Gathers(f, e, P, k)
      BY <1>2
    <2> DEFINE next == IF k + 1 \in P THEN Append(f[k], e[k + 1]) ELSE f[k]
               g == [i \in 0..(k + 1) |-> IF i <= k THEN f[i] ELSE next]
    <2>2. k \in Nat /\ k + 1 \in 1..n /\ f[k] \in Seq(X) /\ k + 1 \in 0..n
      BY <1>2
    <2>3. next \in Seq(X)
      <3>1. k + 1 \in P => e[k + 1] \in X
        BY <2>2
      <3> QED
        BY <2>2, <3>1
    <2> HIDE DEF next
    <2>4. g \in [0..(k + 1) -> Seq(X)]
      BY <2>2, <2>3
    <2>5. g[k + 1] = next /\ \A i \in 0..k : g[i] = f[i]
      BY <2>2
    <2>6. next = IF k + 1 \in P THEN Append(g[k], e[k + 1]) ELSE g[k]
      BY <2>2, <2>5 DEF next
    <2> HIDE DEF g
    <2>7. Gathers(g, e, P, k + 1)
      <3>1. g[0] = <<>>
        <4>1. f[0] = <<>>
          BY <2>1 DEF Gathers
        <4>2. g[0] = f[0]
          BY <2>2, <2>5
        <4> QED
          BY <4>1, <4>2
      <3>2. ASSUME NEW i \in 1..(k + 1)
            PROVE  g[i] = IF i \in P THEN Append(g[i - 1], e[i]) ELSE g[i - 1]
        <4>1. CASE i = k + 1
          <5>1. i - 1 = k
            BY <2>2, <4>1
          <5> QED
            BY <2>5, <2>6, <4>1, <5>1
        <4>2. CASE i # k + 1
          <5>1. i \in 1..k /\ i \in 0..k /\ i - 1 \in 0..k
            BY <2>2, <4>2
          <5> QED
            BY <2>1, <2>5, <5>1 DEF Gathers
        <4> QED
          BY <4>1, <4>2
      <3> QED
        BY <3>1, <3>2 DEF Gathers
    <2>8. k + 1 \in 0..n
      BY <2>2
    <2> HIDE DEF g
    <2> QED
      BY <2>4, <2>7, <2>8
  <1>3. n \in S
    <2>1. n \in 0..n
      OBVIOUS
    <2> HIDE DEF S
    <2> QED
      BY <1>1, <1>2, <2>1, UpTo
  <1> QED
    BY <1>3

(* The recursion as TLA+ writes it: the function that is chosen gathers.   *)
Recursion(e, P, n) ==
    CHOOSE g : g = [i \in 0..n |->
                      IF i = 0 THEN <<>> ELSE IF i \in P THEN Append(g[i - 1], e[i]) ELSE g[i - 1]]

(* What the recursion defines is such a function.                          *)
LEMMA RecursionGathers ==
  ASSUME NEW n \in Nat, NEW P, NEW X, NEW e, \A i \in P \cap (1..n) : e[i] \in X
  PROVE  Gathers(Recursion(e, P, n), e, P, n)
  <1> DEFINE body(g) == [i \in 0..n |->
                      IF i = 0 THEN <<>> ELSE IF i \in P THEN Append(g[i - 1], e[i]) ELSE g[i - 1]]
             f == Recursion(e, P, n)
  <1>1. PICK g \in [0..n -> Seq(X)] : Gathers(g, e, P, n)
    BY GathersExists
  <1>2. \A i \in 0..n : i = 0 \/ i \in 1..n
    OBVIOUS
  <1>3. ASSUME NEW i \in 0..n PROVE g[i] = body(g)[i]
    <2>1. CASE i = 0
      BY <1>1, <2>1 DEF Gathers
    <2>2. CASE i # 0
      <3>1. i \in 1..n
        BY <1>2, <2>2
      <3>2. g[i] = IF i \in P THEN Append(g[i - 1], e[i]) ELSE g[i - 1]
        BY <1>1, <3>1 DEF Gathers
      <3> QED
        BY <2>2, <3>2
    <2> QED
      BY <2>1, <2>2
  <1>4. g = body(g)
    <2>1. DOMAIN body(g) = 0..n /\ body(g) = [i \in DOMAIN body(g) |-> body(g)[i]]
      OBVIOUS
    <2> HIDE DEF body
    <2> QED
      BY <1>3, <2>1
  <1>5. f = body(f)
    BY <1>4 DEF Recursion
  <1> HIDE DEF f
  <1>6. f[0] = <<>>
    <2>1. 0 \in 0..n
      OBVIOUS
    <2>2. body(f)[0] = <<>>
      BY <2>1
    <2> HIDE DEF body
    <2> QED
      BY <1>5, <2>2
  <1>7. ASSUME NEW i \in 1..n
        PROVE  f[i] = IF i \in P THEN Append(f[i - 1], e[i]) ELSE f[i - 1]
    <2>1. i \in 0..n /\ i # 0
      OBVIOUS
    <2>2. body(f)[i] = IF i \in P THEN Append(f[i - 1], e[i]) ELSE f[i - 1]
      BY <2>1
    <2> HIDE DEF body
    <2> QED
      BY <1>5, <2>2
  <1> QED
    BY <1>6, <1>7 DEF Gathers, f

(* m lists the members of P, which are numbers, in their order.            *)
Enumerates(m, P) ==
    /\ \A k \in 1..Len(m) : m[k] \in P
    /\ \A i \in P : \E k \in 1..Len(m) : m[k] = i
    /\ \A j, k \in 1..Len(m) : j < k => m[j] < m[k]

(* q is what e has at the places of m.                                     *)
Along(q, e, m) == Len(q) = Len(m) /\ \A k \in 1..Len(m) : q[k] = e[m[k]]

(* Both one longer.                                                        *)
LEMMA AlongAppend ==
  ASSUME NEW X, NEW e, NEW n \in Nat, NEW q \in Seq(X), NEW m \in Seq(1..n), Along(q, e, m),
         NEW i \in 1..n, e[i] \in X
  PROVE  Append(q, e[i]) \in Seq(X) /\ Along(Append(q, e[i]), e, Append(m, i))
  <1>1. /\ Append(q, e[i]) \in Seq(X) /\ Len(Append(q, e[i])) = Len(q) + 1
        /\ \A k \in 1..Len(q) : Append(q, e[i])[k] = q[k]
        /\ Append(q, e[i])[Len(q) + 1] = e[i]
    OBVIOUS
  <1>2. /\ Len(Append(m, i)) = Len(m) + 1 /\ Len(m) \in Nat
        /\ \A k \in 1..Len(m) : Append(m, i)[k] = m[k]
        /\ Append(m, i)[Len(m) + 1] = i
    OBVIOUS
  <1>3. \A k \in 1..(Len(m) + 1) : k \in 1..Len(m) \/ k = Len(m) + 1
    BY <1>2
  <1> QED
    BY <1>1, <1>2, <1>3 DEF Along

(* A place after the others comes last.                                    *)
LEMMA EnumeratesAppend ==
  ASSUME NEW n \in Nat, NEW i \in 0..n, i < n, NEW P, NEW m \in Seq(1..n), Enumerates(m, P \cap (1..i)),
         i + 1 \in P
  PROVE  Append(m, i + 1) \in Seq(1..n) /\ Enumerates(Append(m, i + 1), P \cap (1..(i + 1)))
  <1> DEFINE a == Append(m, i + 1)
             l == Len(m)
  <1>1. i \in Nat /\ i + 1 \in 1..n /\ i + 1 \in 1..(i + 1)
    OBVIOUS
  <1>2. /\ a \in Seq(1..n) /\ Len(a) = l + 1 /\ l \in Nat
        /\ \A k \in 1..l : a[k] = m[k]
        /\ a[l + 1] = i + 1
    BY <1>1
  <1> HIDE DEF a, l
  <1>3. \A k \in 1..Len(a) : k \in 1..l \/ k = l + 1
    BY <1>2
  <1>4. \A k \in 1..l : m[k] \in P \cap (1..i)
    BY DEF Enumerates, l
  <1>5. \A k \in 1..Len(a) : a[k] \in P \cap (1..(i + 1))
    <2> SUFFICES ASSUME NEW k \in 1..Len(a) PROVE a[k] \in P \cap (1..(i + 1))
      OBVIOUS
    <2>1. CASE k \in 1..l
      <3>1. a[k] = m[k] /\ m[k] \in P /\ m[k] \in 1..i
        BY <1>2, <1>4, <2>1
      <3>2. 1..i \subseteq 1..(i + 1)
        BY <1>1
      <3> QED
        BY <3>1, <3>2
    <2>2. CASE k = l + 1
      BY <1>1, <1>2, <2>2
    <2> QED
      BY <1>3, <2>1, <2>2
  <1>6. ASSUME NEW j \in P \cap (1..(i + 1))
        PROVE  \E k \in 1..Len(a) : a[k] = j
    <2>1. CASE j = i + 1
      <3>1. l + 1 \in 1..Len(a)
        BY <1>2
      <3> QED
        BY <1>2, <2>1, <3>1
    <2>2. CASE j \in P \cap (1..i)
      <3>1. PICK k \in 1..l : m[k] = j
        BY <2>2 DEF Enumerates, l
      <3>2. k \in 1..Len(a)
        BY <1>2
      <3> QED
        BY <1>2, <3>1, <3>2
    <2> QED
      BY <1>1, <2>1, <2>2
  <1>7. ASSUME NEW j \in 1..Len(a), NEW k \in 1..Len(a), j < k
        PROVE  a[j] < a[k]
    <2>1. j \in 1..l
      BY <1>2, <1>3, <1>7
    <2>2. CASE k = l + 1
      BY <1>1, <1>2, <1>4, <2>1, <2>2
    <2>3. CASE k \in 1..l
      <3>1. m[j] < m[k]
        BY <1>7, <2>1, <2>3 DEF Enumerates, l
      <3> QED
        BY <1>2, <2>1, <2>3, <3>1
    <2> QED
      BY <1>3, <2>2, <2>3
  <1>8. Enumerates(a, P \cap (1..(i + 1)))
    BY <1>5, <1>6, <1>7 DEF Enumerates
  <1> QED
    BY <1>2, <1>8 DEF a

EachIn(e, P, X) == \A i \in P : e[i] \in X

(* Two recursions over the same places give sequences of one length, with  *)
(* what each has at these places.                                          *)
LEMMA Gathered ==
  ASSUME NEW n \in Nat, NEW P \in SUBSET (1..n),
         NEW X, NEW e, EachIn(e, P, X), NEW f, Gathers(f, e, P, n),
         NEW Y, NEW d, EachIn(d, P, Y), NEW g, Gathers(g, d, P, n)
  PROVE  \E m \in Seq(1..n) : /\ Enumerates(m, P)
                              /\ f[n] \in Seq(X) /\ Along(f[n], e, m)
                              /\ g[n] \in Seq(Y) /\ Along(g[n], d, m)
  <1> DEFINE Good(i, m) == /\ Enumerates(m, P \cap (1..i))
                           /\ f[i] \in Seq(X) /\ Along(f[i], e, m)
                           /\ g[i] \in Seq(Y) /\ Along(g[i], d, m)
             S == {i \in 0..n : \E m \in Seq(1..n) : Good(i, m)}
  <1>1. 0 \in S
    <2>1. f[0] = <<>> /\ g[0] = <<>> /\ 1..0 = {} /\ Len(<<>>) = 0 /\ 0 \in 0..n
      BY DEF Gathers
    <2>2. <<>> \in Seq(1..n) /\ <<>> \in Seq(X) /\ <<>> \in Seq(Y)
      OBVIOUS
    <2>3. Enumerates(<<>>, P \cap (1..0))
      BY <2>1 DEF Enumerates
    <2>4. Along(<<>>, e, <<>>) /\ Along(<<>>, d, <<>>)
      BY <2>1 DEF Along
    <2>5. Good(0, <<>>)
      BY <2>1, <2>2, <2>3, <2>4
    <2> HIDE DEF Good
    <2> QED
      BY <2>1, <2>2, <2>5
  <1>2. ASSUME NEW i \in S \cap (0..n), i < n
        PROVE  i + 1 \in S
    <2>1. PICK m \in Seq(1..n) : Good(i, m)
      BY <1>2
    <2>2. i \in Nat /\ i + 1 \in 1..n /\ (i + 1) - 1 = i /\ i + 1 \in 0..n /\ i \in 0..n
      BY <1>2
    <2>3. /\ f[i + 1] = IF i + 1 \in P THEN Append(f[i], e[i + 1]) ELSE f[i]
          /\ g[i + 1] = IF i + 1 \in P THEN Append(g[i], d[i + 1]) ELSE g[i]
      BY <2>2 DEF Gathers
    <2>4. CASE i + 1 \notin P
      <3>1. P \cap (1..(i + 1)) = P \cap (1..i)
        BY <2>2, <2>4
      <3>2. Good(i + 1, m)
        BY <2>1, <2>3, <2>4, <3>1
      <3> HIDE DEF Good
      <3> QED
        BY <2>2, <3>2
    <2>5. CASE i + 1 \in P
      <3>1. /\ Append(f[i], e[i + 1]) \in Seq(X)
            /\ Along(Append(f[i], e[i + 1]), e, Append(m, i + 1))
        BY <2>1, <2>2, <2>5, AlongAppend DEF EachIn
      <3>2. /\ Append(g[i], d[i + 1]) \in Seq(Y)
            /\ Along(Append(g[i], d[i + 1]), d, Append(m, i + 1))
        BY <2>1, <2>2, <2>5, AlongAppend DEF EachIn
      <3>3. Append(m, i + 1) \in Seq(1..n) /\ Enumerates(Append(m, i + 1), P \cap (1..(i + 1)))
        BY <1>2, <2>1, <2>2, <2>5, EnumeratesAppend
      <3>4. Good(i + 1, Append(m, i + 1))
        BY <2>3, <2>5, <3>1, <3>2, <3>3
      <3> HIDE DEF Good
      <3> QED
        BY <2>2, <3>3, <3>4
    <2> QED
      BY <2>4, <2>5
  <1>3. n \in S
    <2>1. n \in 0..n
      OBVIOUS
    <2> HIDE DEF S
    <2> QED
      BY <1>1, <1>2, <2>1, UpTo
  <1>4. P \cap (1..n) = P
    OBVIOUS
  <1> QED
    BY <1>3, <1>4

-----------------------------------------------------------------------------
(* The rows of the tables (Storage), read in the order of their ids.       *)

HRows == [id : Nat \ {0}, session : StoredSessions, type : PayloadType, call : Nat]

(* Rows of the table history: ids are not used twice, and there is a       *)
(* largest one.                                                            *)
Table(rows) ==
    /\ rows \in SUBSET HRows
    /\ \A r, o \in rows : r.id = o.id => r = o
    /\ \E n \in Nat : \A r \in rows : r.id <= n

ById(q) == \A j, k \in 1..Len(q) : j < k => q[j].id < q[k].id
Members(q, rows) == \A r \in rows : \E k \in 1..Len(q) : q[k] = r

(* Rows that are deleted leave a table.                                    *)
LEMMA TableSubset ==
  ASSUME NEW rows, Table(rows), NEW some \in SUBSET rows
  PROVE  Table(some)
  BY DEF Table

(* The next id is larger than those in use.                                *)
LEMMA NextIdFacts ==
  ASSUME NEW rows, Table(rows)
  PROVE  NextId(rows) \in Nat \ {0} /\ \A r \in rows : r.id < NextId(rows)
  <1> DEFINE ids == {0} \cup {r.id : r \in rows}
  <1>1. PICK n \in Nat : \A r \in rows : r.id <= n
    BY DEF Table
  <1>2. \A r \in rows : r.id \in Nat \ {0}
    BY DEF Table, HRows
  <1>3. \E x \in ids : \A y \in ids : x >= y
    <2>1. CASE rows = {}
      <3>1. ids = {0}
        BY <2>1
      <3> QED
        BY <3>1
    <2>2. CASE rows # {}
      <3> DEFINE T == {r.id : r \in rows}
      <3>1. T # {} /\ T \in SUBSET (1..n)
        BY <1>1, <1>2, <2>2
      <3>2. ids = {0} \cup T
        OBVIOUS
      <3> HIDE DEF T, ids
      <3>3. PICK x \in T : \A y \in T : x >= y
        BY <1>1, <3>1, Greatest
      <3> QED
        BY <3>1, <3>2, <3>3
    <2> QED
      BY <2>1, <2>2
  <1>4. Max(ids) \in ids /\ \A y \in ids : Max(ids) >= y
    BY <1>3 DEF Max
  <1>5. NextId(rows) = Max(ids) + 1
    BY DEF NextId
  <1>6. ids \in SUBSET Nat /\ \A r \in rows : r.id \in ids
    BY <1>2
  <1> HIDE DEF ids
  <1>7. PICK x \in Nat : x = Max(ids) /\ \A y \in ids : x >= y
    BY <1>4, <1>6
  <1>8. \A r \in rows : r.id \in Nat /\ x >= r.id
    BY <1>6, <1>7
  <1>9. NextId(rows) = x + 1
    BY <1>5, <1>7
  <1> QED
    BY <1>7, <1>8, <1>9

(* A table is read in the order of its ids.                                *)
LEMMA InOrderFacts ==
  ASSUME NEW rows, Table(rows)
  PROVE  /\ InOrder(rows) \in Seq(HRows)
         /\ \A k \in 1..Len(InOrder(rows)) : InOrder(rows)[k] \in rows
         /\ Members(InOrder(rows), rows) /\ ById(InOrder(rows))
  <1> DEFINE last == NextId(rows) - 1
             At(n) == {r \in rows : r.id = n}
             P == {n \in 1..last : At(n) # {}}
             e == [n \in 1..last |-> CHOOSE r \in At(n) : TRUE]
             f == CHOOSE g : g = [i \in 0..last |->
                    IF i = 0 THEN <<>> ELSE IF At(i) # {} THEN Append(g[i - 1], CHOOSE r \in At(i) : TRUE) ELSE g[i - 1]]
  <1>1. last \in Nat /\ \A r \in rows : r.id \in 1..last
    <2>1. NextId(rows) \in Nat \ {0} /\ \A r \in rows : r.id < NextId(rows)
      BY NextIdFacts
    <2>2. \A r \in rows : r.id \in Nat \ {0}
      BY DEF Table, HRows
    <2> QED
      BY <2>1, <2>2
  <1>2. InOrder(rows) = f[last]
    BY DEF InOrder
  <1>3. \A i \in P : e[i] \in rows /\ e[i].id = i
    OBVIOUS
  <1>4. \A r \in rows : r.id \in P /\ e[r.id] = r
    <2> SUFFICES ASSUME NEW r \in rows PROVE r.id \in P /\ e[r.id] = r
      OBVIOUS
    <2>1. r.id \in P
      BY <1>1
    <2>2. e[r.id] \in rows /\ e[r.id].id = r.id
      BY <1>3, <2>1
    <2> HIDE DEF e, P
    <2> QED
      BY <2>1, <2>2 DEF Table
  <1>5. Gathers(f, e, P, last)
    <2> DEFINE body(g) == [i \in 0..last |->
                  IF i = 0 THEN <<>> ELSE IF At(i) # {} THEN Append(g[i - 1], CHOOSE r \in At(i) : TRUE) ELSE g[i - 1]]
               step(g) == [i \in 0..last |->
                  IF i = 0 THEN <<>> ELSE IF i \in P THEN Append(g[i - 1], e[i]) ELSE g[i - 1]]
    <2>1. ASSUME NEW g PROVE body(g) = step(g)
      <3>1. ASSUME NEW i \in 0..last PROVE body(g)[i] = step(g)[i]
        <4>1. CASE i = 0
          BY <4>1
        <4>2. CASE i # 0
          <5>1. i \in 1..last
            BY <1>1, <4>2
          <5> HIDE DEF last
          <5>2. i \in P <=> At(i) # {}
            BY <5>1
          <5>3. e[i] = CHOOSE r \in At(i) : TRUE
            BY <5>1
          <5>4. /\ body(g)[i] = IF At(i) # {} THEN Append(g[i - 1], CHOOSE r \in At(i) : TRUE) ELSE g[i - 1]
                /\ step(g)[i] = IF i \in P THEN Append(g[i - 1], e[i]) ELSE g[i - 1]
            BY <4>2
          <5> HIDE DEF At, P, e, body, step
          <5> QED
            BY <5>2, <5>3, <5>4
        <4> QED
          BY <4>1, <4>2
      <3>2. /\ DOMAIN body(g) = 0..last /\ body(g) = [i \in DOMAIN body(g) |-> body(g)[i]]
            /\ DOMAIN step(g) = 0..last /\ step(g) = [i \in DOMAIN step(g) |-> step(g)[i]]
        OBVIOUS
      <3> HIDE DEF body, step
      <3> QED
        BY <3>1, <3>2
    <2>2. f = CHOOSE g : g = body(g)
      OBVIOUS
    <2> HIDE DEF f, body, e, P, last
    <2>3. f = Recursion(e, P, last)
      BY <2>1, <2>2 DEF Recursion
    <2>4. \A i \in P \cap (1..last) : e[i] \in rows
      BY <1>3
    <2>5. Gathers(Recursion(e, P, last), e, P, last)
      BY <1>1, <2>4, RecursionGathers
    <2> QED
      BY <2>3, <2>5
  <1>6. P \in SUBSET (1..last)
    OBVIOUS
  <1> HIDE DEF last, P, e, f
  <1>13. EachIn(e, P, rows)
    BY <1>3 DEF EachIn
  <1>7. PICK m \in Seq(1..last) : Enumerates(m, P) /\ f[last] \in Seq(rows) /\ Along(f[last], e, m)
    BY <1>1, <1>13, <1>5, <1>6, Gathered
  <1> DEFINE q == f[last]
  <1>8. Len(q) = Len(m) /\ \A k \in 1..Len(m) : q[k] = e[m[k]] /\ m[k] \in P
    BY <1>7 DEF Along, Enumerates
  <1>9. q \in Seq(HRows)
    BY <1>7 DEF Table
  <1> HIDE DEF q
  <1>10. \A k \in 1..Len(q) : q[k] \in rows /\ q[k].id = m[k]
    BY <1>3, <1>8
  <1>11. Members(q, rows)
    <2> SUFFICES ASSUME NEW r \in rows PROVE \E k \in 1..Len(q) : q[k] = r
      BY DEF Members
    <2>1. PICK k \in 1..Len(m) : m[k] = r.id
      BY <1>4, <1>7 DEF Enumerates
    <2> QED
      BY <1>4, <1>8, <2>1
  <1>12. ById(q)
    BY <1>7, <1>8, <1>10 DEF ById, Enumerates
  <1> QED
    BY <1>2, <1>9, <1>10, <1>11, <1>12 DEF q

Within(p, q) == \A k \in 1..Len(p) : \E j \in 1..Len(q) : q[j] = p[k]

(* Two sequences of the same rows, each in the order of the ids, are one.  *)
LEMMA ByIdPrefix ==
  ASSUME NEW p \in Seq(HRows), NEW q \in Seq(HRows), ById(p), ById(q), Within(p, q), Within(q, p)
  PROVE  \A k \in 1..Len(p) : k \in 1..Len(q) /\ q[k] = p[k]
  <1> DEFINE Off == {k \in 1..Len(p) : ~(k \in 1..Len(q) /\ q[k] = p[k])}
  <1> SUFFICES ASSUME Off # {} PROVE FALSE
    OBVIOUS
  <1>1. Len(p) \in Nat /\ Len(q) \in Nat
    OBVIOUS
  <1>2. PICK k \in Off : \A i \in Off : k <= i
    <2>1. Off \in SUBSET Nat
      BY <1>1
    <2> HIDE DEF Off
    <2> QED
      BY <2>1, Least
  <1>3. k \in 1..Len(p) /\ \A i \in 1..(k - 1) : i \in 1..Len(q) /\ q[i] = p[i]
    <2>1. k \in 1..Len(p) /\ k \in Nat
      BY <1>1, <1>2
    <2>2. \A i \in 1..(k - 1) : i \in 1..Len(p) /\ ~(k <= i)
      BY <1>1, <2>1
    <2>3. \A i \in 1..(k - 1) : i \notin Off
      BY <1>2, <2>2
    <2> QED
      BY <2>1, <2>2, <2>3
  <1>9. ~(k \in 1..Len(q) /\ q[k] = p[k])
    BY <1>2
  <1> HIDE DEF Off
  <1>4. PICK j \in 1..Len(q) : q[j] = p[k]
    BY <1>3 DEF Within
  <1>5. /\ \A i \in 1..Len(p) : p[i].id \in Nat
        /\ \A i \in 1..Len(q) : q[i].id \in Nat
    <2>1. \A r \in HRows : r.id \in Nat
      BY DEF HRows
    <2>2. /\ \A i \in 1..Len(p) : p[i] \in HRows
          /\ \A i \in 1..Len(q) : q[i] \in HRows
      BY ElementOfSeq
    <2> HIDE DEF HRows
    <2> QED
      BY <2>1, <2>2, Zenon
  <1>6. ~(j < k)
    <2> SUFFICES ASSUME j < k PROVE FALSE
      OBVIOUS
    <2>1. j \in 1..(k - 1) /\ j \in 1..Len(p)
      BY <1>1, <1>3, <1>4
    <2>2. p[j].id < p[k].id
      BY <1>3, <2>1 DEF ById
    <2> QED
      BY <1>3, <1>4, <1>5, <2>1, <2>2
  <1>7. ~(k < j)
    <2> SUFFICES ASSUME k < j PROVE FALSE
      OBVIOUS
    <2>1. k \in 1..Len(q)
      BY <1>1, <1>3, <1>4
    <2>2. PICK i \in 1..Len(p) : p[i] = q[k]
      BY <2>1 DEF Within
    <2>3. q[k].id < q[j].id
      BY <1>4, <2>1 DEF ById
    <2>4. ~(k <= i)
      <3> SUFFICES ASSUME k <= i PROVE FALSE
        OBVIOUS
      <3>1. k = i \/ p[k].id < p[i].id
        BY <1>3, <2>2 DEF ById
      <3> QED
        BY <1>3, <1>4, <1>5, <2>1, <2>2, <2>3, <3>1
    <2>5. i \in 1..(k - 1) /\ i \in 1..Len(q)
      BY <1>1, <1>3, <2>2, <2>4
    <2>6. q[i].id < q[k].id
      BY <2>1, <2>4, <2>5 DEF ById
    <2> QED
      BY <1>3, <1>5, <2>1, <2>2, <2>5, <2>6
  <1>8. j = k
    BY <1>3, <1>4, <1>6, <1>7
  <1> QED
    BY <1>4, <1>8, <1>9

(* The rows in the order of their ids: there is one such sequence.         *)
LEMMA InOrderIs ==
  ASSUME NEW rows, Table(rows), NEW q \in Seq(HRows), ById(q), Members(q, rows),
         \A k \in 1..Len(q) : q[k] \in rows
  PROVE  InOrder(rows) = q
  <1> DEFINE p == InOrder(rows)
  <1>1. /\ p \in Seq(HRows) /\ ById(p) /\ Members(p, rows)
        /\ \A k \in 1..Len(p) : p[k] \in rows
    BY InOrderFacts
  <1> HIDE DEF p
  <1>2. Within(p, q)
    BY <1>1 DEF Members, Within
  <1>3. Within(q, p)
    BY <1>1 DEF Members, Within
  <1>4. \A k \in 1..Len(p) : k \in 1..Len(q) /\ q[k] = p[k]
    BY <1>1, <1>2, <1>3, ByIdPrefix
  <1>5. \A k \in 1..Len(q) : k \in 1..Len(p) /\ p[k] = q[k]
    BY <1>1, <1>2, <1>3, ByIdPrefix
  <1>6. Len(p) = Len(q)
    <2>1. Len(p) \in Nat /\ Len(q) \in Nat
      BY <1>1
    <2>2. Len(p) > 0 => Len(p) <= Len(q)
      BY <1>4, <2>1
    <2>3. Len(q) > 0 => Len(q) <= Len(p)
      BY <1>5, <2>1
    <2> QED
      BY <2>1, <2>2, <2>3
  <1>7. p = q
    BY <1>1, <1>4, <1>6, SeqEqual
  <1> QED
    BY <1>7 DEF p

-----------------------------------------------------------------------------
(* Histories that differ in what the repair does not look at.              *)
Alike(f, g) ==
    Len(f) = Len(g) /\ \A i \in 1..Len(f) : f[i].type = g[i].type /\ f[i].call = g[i].call

(* The latest prompt and item are at the same place.                       *)
LEMMA AlikeLasts ==
  ASSUME NEW S, NEW T, NEW f \in Seq(S), NEW g \in Seq(T), Alike(f, g)
  PROVE  TurnStart(f) = TurnStart(g) /\ LastItem(f) = LastItem(g)
  <1> DEFINE Starts(h) == {i \in 1..Len(h) : h[i].type = "user_prompt"}
             Items(h) == {i \in 1..Len(h) : h[i].type # "reasoning"}
  <1>1. Starts(f) = Starts(g) /\ Items(f) = Items(g)
    BY DEF Alike
  <1>2. \A h : /\ TurnStart(h) = IF Starts(h) # {} THEN Max(Starts(h)) ELSE 0
               /\ LastItem(h) = IF Items(h) # {} THEN Max(Items(h)) ELSE 0
    BY DEF TurnStart, LastItem, SelectLastInSeq
  <1> HIDE DEF Starts, Items
  <1> QED
    BY <1>1, <1>2

(* They are rows, or 0.                                                    *)
LEMMA LastsInRange ==
  ASSUME NEW S, NEW h \in Seq(S)
  PROVE  TurnStart(h) \in 0..Len(h) /\ LastItem(h) \in 0..Len(h)
  <1>1. ASSUME NEW I \in SUBSET (1..Len(h)), I # {}
        PROVE  Max(I) \in 1..Len(h)
    <2>1. \E x \in I : \A y \in I : x >= y
      <3>1. Len(h) \in Nat
        OBVIOUS
      <3> QED
        BY <1>1, <3>1, Greatest
    <2>2. Max(I) \in I
      BY <2>1 DEF Max
    <2> QED
      BY <2>2
  <1> DEFINE Starts == {i \in 1..Len(h) : h[i].type = "user_prompt"}
             Items == {i \in 1..Len(h) : h[i].type # "reasoning"}
  <1>2. /\ TurnStart(h) = IF Starts # {} THEN Max(Starts) ELSE 0
        /\ LastItem(h) = IF Items # {} THEN Max(Items) ELSE 0
    BY DEF TurnStart, LastItem, SelectLastInSeq
  <1>3. Starts \in SUBSET (1..Len(h)) /\ Items \in SUBSET (1..Len(h)) /\ Len(h) \in Nat
    OBVIOUS
  <1> HIDE DEF Starts, Items
  <1> QED
    BY <1>1, <1>2, <1>3

(* The first n elements.                                                   *)
LEMMA FrontFacts ==
  ASSUME NEW S, NEW h \in Seq(S), NEW n \in 0..Len(h)
  PROVE  /\ SubSeq(h, 1, n) \in Seq(S) /\ Len(SubSeq(h, 1, n)) = n
         /\ \A i \in 1..n : SubSeq(h, 1, n)[i] = h[i]
  OBVIOUS

(* The first m of the first n.                                             *)
LEMMA FrontOfFront ==
  ASSUME NEW S, NEW h \in Seq(S), NEW n \in 0..Len(h), NEW m \in 0..n
  PROVE  SubSeq(SubSeq(h, 1, n), 1, m) = SubSeq(h, 1, m)
  <1> DEFINE a == SubSeq(h, 1, n)
             b == SubSeq(a, 1, m)
             c == SubSeq(h, 1, m)
  <1>1. a \in Seq(S) /\ Len(a) = n /\ \A i \in 1..n : a[i] = h[i]
    BY FrontFacts
  <1>2. m \in 0..Len(a) /\ m \in 0..Len(h)
    BY <1>1
  <1>3. b \in Seq(S) /\ Len(b) = m /\ \A i \in 1..m : b[i] = a[i]
    BY <1>1, <1>2, FrontFacts
  <1>4. c \in Seq(S) /\ Len(c) = m /\ \A i \in 1..m : c[i] = h[i]
    BY <1>2, FrontFacts
  <1> HIDE DEF a, b, c
  <1>5. \A i \in 1..m : b[i] = c[i]
    BY <1>1, <1>3, <1>4
  <1>6. b = c
    BY <1>3, <1>4, <1>5, SeqEqual
  <1> QED
    BY <1>6 DEF a, b, c

(* Alike histories cut at the same row are alike.                          *)
LEMMA AlikeFront ==
  ASSUME NEW S, NEW T, NEW f \in Seq(S), NEW g \in Seq(T), Alike(f, g), NEW n \in 0..Len(f)
  PROVE  Alike(SubSeq(f, 1, n), SubSeq(g, 1, n))
  BY FrontFacts DEF Alike

(* Alike histories are cut at the same row.                                *)
LEMMA AlikeKept ==
  ASSUME NEW S, NEW T, NEW f \in Seq(S), NEW g \in Seq(T), Alike(f, g)
  PROVE  \E n \in 0..Len(f) :
            /\ DropBarePrompt(DropTrailingReasoning(f)) = SubSeq(f, 1, n)
            /\ DropBarePrompt(DropTrailingReasoning(g)) = SubSeq(g, 1, n)
  <1> DEFINE m == IF TurnStart(f) = 0 THEN Len(f) ELSE LastItem(f)
             a == SubSeq(f, 1, m)
             b == SubSeq(g, 1, m)
             n == IF TurnStart(a) # 0 /\ m = TurnStart(a) THEN m - 1 ELSE m
  <1>1. m \in 0..Len(f) /\ Len(f) = Len(g) /\ Len(f) \in Nat
    BY LastsInRange DEF Alike
  <1>2. TurnStart(f) = TurnStart(g) /\ LastItem(f) = LastItem(g)
    BY AlikeLasts
  <1>3. f = SubSeq(f, 1, Len(f)) /\ g = SubSeq(g, 1, Len(g))
    BY SubSeqFull
  <1>4. DropTrailingReasoning(f) = a /\ DropTrailingReasoning(g) = b
    BY <1>1, <1>2, <1>3 DEF DropTrailingReasoning
  <1>5. Alike(a, b) /\ a \in Seq(S) /\ b \in Seq(T) /\ Len(a) = m /\ Len(b) = m
    BY <1>1, AlikeFront, FrontFacts
  <1> HIDE DEF m
  <1>6. SubSeq(a, 1, m) = a /\ SubSeq(b, 1, m) = b
    BY <1>1, FrontOfFront
  <1> HIDE DEF a, b
  <1>7. TurnStart(a) = TurnStart(b) /\ TurnStart(a) \in 0..m
    BY <1>5, AlikeLasts, LastsInRange
  <1>8. n \in 0..m /\ n \in 0..Len(f)
    BY <1>1, <1>7
  <1>9. DropBarePrompt(a) = SubSeq(a, 1, n) /\ DropBarePrompt(b) = SubSeq(b, 1, n)
    BY <1>5, <1>6, <1>7 DEF DropBarePrompt
  <1> HIDE DEF n
  <1>10. SubSeq(a, 1, n) = SubSeq(f, 1, n) /\ SubSeq(b, 1, n) = SubSeq(g, 1, n)
    BY <1>1, <1>8, FrontOfFront DEF a, b
  <1> QED
    BY <1>4, <1>8, <1>9, <1>10

(* The calls without a result, at their places.                            *)
OpenRows(h, start) ==
    {i \in 1..Len(h) : i >= start /\ h[i].type = "tool_call" /\ h[i].call \notin Results(h)}

(* The calls without a result, as a recursion over their places.           *)
LEMMA UnansweredIs ==
  ASSUME NEW S, NEW h \in Seq(S), NEW start \in Nat, start # 0
  PROVE  Unanswered(h, start) = Recursion(h, OpenRows(h, start), Len(h))[Len(h)]
  <1> DEFINE open(i) == i >= start /\ h[i].type = "tool_call" /\ h[i].call \notin Results(h)
             P == OpenRows(h, start)
             body(g) == [i \in 0..Len(h) |->
                    IF i = 0 THEN <<>> ELSE IF open(i) THEN Append(g[i - 1], h[i]) ELSE g[i - 1]]
             step(g) == [i \in 0..Len(h) |->
                    IF i = 0 THEN <<>> ELSE IF i \in P THEN Append(g[i - 1], h[i]) ELSE g[i - 1]]
             f == CHOOSE g : g = body(g)
  <1>1. ASSUME NEW g PROVE body(g) = step(g)
    <2>1. ASSUME NEW i \in 0..Len(h) PROVE body(g)[i] = step(g)[i]
      <3>1. CASE i = 0
        BY <3>1
      <3>2. CASE i # 0
        <4>1. i \in 1..Len(h)
          BY <3>2
        <4>2. i \in P <=> open(i)
          BY <4>1 DEF OpenRows
        <4>3. /\ body(g)[i] = IF open(i) THEN Append(g[i - 1], h[i]) ELSE g[i - 1]
              /\ step(g)[i] = IF i \in P THEN Append(g[i - 1], h[i]) ELSE g[i - 1]
          BY <3>2
        <4> HIDE DEF open, P, body, step
        <4> QED
          BY <4>2, <4>3
      <3> QED
        BY <3>1, <3>2
    <2>2. /\ DOMAIN body(g) = 0..Len(h) /\ body(g) = [i \in DOMAIN body(g) |-> body(g)[i]]
          /\ DOMAIN step(g) = 0..Len(h) /\ step(g) = [i \in DOMAIN step(g) |-> step(g)[i]]
      OBVIOUS
    <2> HIDE DEF body, step
    <2> QED
      BY <2>1, <2>2
  <1>2. Unanswered(h, start) = f[Len(h)]
    BY DEF Unanswered
  <1> HIDE DEF body, P
  <1>3. f = Recursion(h, P, Len(h))
    BY <1>1 DEF Recursion
  <1> QED
    BY <1>2, <1>3 DEF P

(* In alike histories the same calls have no result.                       *)
LEMMA AlikeUnanswered ==
  ASSUME NEW S, NEW T, NEW f \in Seq(S), NEW g \in Seq(T), Alike(f, g), NEW start \in Nat
  PROVE  \E m \in Seq(1..Len(f)) :
            /\ \A j, k \in 1..Len(m) : j < k => m[j] < m[k]
            /\ Unanswered(f, start) \in Seq(S) /\ Along(Unanswered(f, start), f, m)
            /\ Unanswered(g, start) \in Seq(T) /\ Along(Unanswered(g, start), g, m)
  <1>0. Len(f) \in Nat /\ Len(g) = Len(f)
    BY DEF Alike
  <1>1. CASE start = 0
    <2>1. Unanswered(f, start) = <<>> /\ Unanswered(g, start) = <<>>
      BY <1>1 DEF Unanswered
    <2>2. <<>> \in Seq(1..Len(f)) /\ <<>> \in Seq(S) /\ <<>> \in Seq(T) /\ 1..Len(<<>>) = {}
      OBVIOUS
    <2>3. Along(<<>>, f, <<>>) /\ Along(<<>>, g, <<>>)
      BY <2>2 DEF Along
    <2> QED
      BY <2>1, <2>2, <2>3
  <1>2. CASE start # 0
    <2> DEFINE P == OpenRows(f, start)
               n == Len(f)
    <2>1. Results(f) = Results(g)
      <3>1. DOMAIN f = 1..n /\ DOMAIN g = 1..n
        BY <1>0
      <3>2. {j \in DOMAIN f : f[j].type = "tool_result"} = {j \in DOMAIN g : g[j].type = "tool_result"}
        BY <3>1 DEF Alike
      <3>3. \A i \in {j \in DOMAIN f : f[j].type = "tool_result"} : f[i].call = g[i].call
        BY <3>1 DEF Alike
      <3> QED
        BY <3>2, <3>3 DEF Results
    <2>2. P = OpenRows(g, start)
      BY <1>0, <2>1 DEF Alike, OpenRows
    <2>3. P \in SUBSET (1..n)
      BY DEF OpenRows
    <2>4. EachIn(f, P, S) /\ EachIn(g, P, T)
      BY <1>0, <2>3 DEF EachIn
    <2> HIDE DEF P
    <2>5. \A i \in P \cap (1..n) : f[i] \in S /\ g[i] \in T
      BY <2>4 DEF EachIn
    <2>6. Gathers(Recursion(f, P, n), f, P, n)
      BY <1>0, <2>5, RecursionGathers
    <2>7. Gathers(Recursion(g, P, n), g, P, n)
      BY <1>0, <2>5, RecursionGathers
    <2>8. /\ Unanswered(f, start) = Recursion(f, P, n)[n]
          /\ Unanswered(g, start) = Recursion(g, P, n)[n]
      BY <1>0, <1>2, <2>2, UnansweredIs DEF P
    <2>9. PICK m \in Seq(1..n) :
             /\ Enumerates(m, P)
             /\ Recursion(f, P, n)[n] \in Seq(S) /\ Along(Recursion(f, P, n)[n], f, m)
             /\ Recursion(g, P, n)[n] \in Seq(T) /\ Along(Recursion(g, P, n)[n], g, m)
      BY <1>0, <2>3, <2>4, <2>6, <2>7, Gathered
    <2> QED
      BY <2>8, <2>9 DEF Enumerates
  <1> QED
    BY <1>1, <1>2

-----------------------------------------------------------------------------
(* What the rows of a session show.                                        *)

Images == [ordinal : Nat, data : STRING]
Items == [type : PayloadType, call : Nat, images : SUBSET Images]

SessionRows(rows, s) == {r \in rows : r.session = s}
Pictures(att, r) ==
    IF r.type = "user_prompt"
    THEN {[ordinal |-> a.ordinal, data |-> a.data] : a \in {b \in att : b.history = r.id}}
    ELSE {}
ItemOf(att, r) == [type |-> r.type, call |-> r.call, images |-> Pictures(att, r)]

(* The rows of s, with their attachments, are the items w.                 *)
Reads(q, att, w) == Len(w) = Len(q) /\ \A k \in 1..Len(q) : w[k] = ItemOf(att, q[k])
Shows(rows, att, s, w) == Reads(InOrder(SessionRows(rows, s)), att, w)

(* The rows of a session are a table, and its history has them in order.   *)
LEMMA SessionFacts ==
  ASSUME NEW rows, Table(rows), NEW s
  PROVE  /\ Table(SessionRows(rows, s))
         /\ InOrder(SessionRows(rows, s)) \in Seq(HRows)
         /\ \A k \in 1..Len(InOrder(SessionRows(rows, s))) :
               /\ InOrder(SessionRows(rows, s))[k] \in rows
               /\ InOrder(SessionRows(rows, s))[k].session = s
         /\ Members(InOrder(SessionRows(rows, s)), SessionRows(rows, s))
         /\ ById(InOrder(SessionRows(rows, s)))
  <1> DEFINE some == SessionRows(rows, s)
  <1>1. some \in SUBSET rows /\ \A r \in some : r \in rows /\ r.session = s
    BY DEF SessionRows
  <1> HIDE DEF some
  <1>2. Table(some)
    BY <1>1, TableSubset
  <1>3. /\ InOrder(some) \in Seq(HRows) /\ Members(InOrder(some), some) /\ ById(InOrder(some))
        /\ \A k \in 1..Len(InOrder(some)) : InOrder(some)[k] \in some
    BY <1>2, InOrderFacts
  <1> QED
    BY <1>1, <1>2, <1>3 DEF some

(* The history that is read is what the rows show.                         *)
LEMMA ReadsIs ==
  ASSUME NEW q \in Seq(HRows), NEW att, NEW w \in Seq(Items)
  PROVE  [i \in DOMAIN q |-> ItemOf(att, q[i])] = w <=> Reads(q, att, w)
  <1>1. DOMAIN q = 1..Len(q) /\ DOMAIN w = 1..Len(w) /\ w = [i \in 1..Len(w) |-> w[i]]
    OBVIOUS
  <1>2. Len(q) \in Nat /\ Len(w) \in Nat
    OBVIOUS
  <1> DEFINE h == [i \in DOMAIN q |-> ItemOf(att, q[i])]
  <1>3. DOMAIN h = 1..Len(q) /\ \A i \in 1..Len(q) : h[i] = ItemOf(att, q[i])
    BY <1>1
  <1>4. ASSUME h = w PROVE Reads(q, att, w)
    <2>1. 1..Len(w) = 1..Len(q)
      BY <1>1, <1>3, <1>4
    <2>2. Len(w) = Len(q)
      BY <1>2, <2>1
    <2> HIDE DEF h
    <2> QED
      BY <1>3, <1>4, <2>2 DEF Reads
  <1>5. ASSUME Reads(q, att, w) PROVE h = w
    <2>1. DOMAIN h = DOMAIN w /\ \A i \in DOMAIN w : h[i] = w[i]
      BY <1>1, <1>3, <1>5 DEF Reads
    <2>2. h = [i \in DOMAIN h |-> h[i]] /\ w = [i \in DOMAIN w |-> w[i]]
      BY <1>1
    <2> HIDE DEF h
    <2> QED
      BY <2>1, <2>2
  <1> QED
    BY <1>4, <1>5

(* What a statement does not touch shows as before.                        *)
LEMMA ShowsStays ==
  ASSUME NEW rows, NEW new, NEW att, NEW left2, NEW s, NEW w,
         Table(rows), SessionRows(new, s) = SessionRows(rows, s),
         \A r \in SessionRows(rows, s) :
            {b \in left2 : b.history = r.id} = {b \in att : b.history = r.id},
         Shows(rows, att, s, w)
  PROVE  Shows(new, left2, s, w)
  <1> DEFINE q == InOrder(SessionRows(rows, s))
  <1>1. \A k \in 1..Len(q) : q[k] \in SessionRows(rows, s)
    <2>1. \A k \in 1..Len(q) : q[k] \in rows /\ q[k].session = s
      BY SessionFacts
    <2> HIDE DEF q
    <2> QED
      BY <2>1 DEF SessionRows
  <1>2. \A k \in 1..Len(q) : ItemOf(left2, q[k]) = ItemOf(att, q[k])
    <2> SUFFICES ASSUME NEW r \in SessionRows(rows, s) PROVE ItemOf(left2, r) = ItemOf(att, r)
      BY <1>1
    <2>1. Pictures(left2, r) = Pictures(att, r)
      BY DEF Pictures
    <2> QED
      BY <2>1 DEF ItemOf
  <1>3. Reads(q, att, w)
    BY DEF Shows
  <1> HIDE DEF q
  <1>4. Reads(q, left2, w)
    BY <1>2, <1>3 DEF Reads
  <1> QED
    BY <1>4 DEF Shows, q

(* A new row comes last.                                                   *)
LEMMA TableAdd ==
  ASSUME NEW rows, Table(rows), NEW row \in HRows, row.id = NextId(rows)
  PROVE  Table(rows \cup {row})
  <1>1. NextId(rows) \in Nat \ {0} /\ \A r \in rows : r.id < NextId(rows)
    BY NextIdFacts
  <1>2. \A r \in rows : r \in HRows /\ r.id \in Nat
    BY DEF Table, HRows
  <1>3. \A r, o \in rows \cup {row} : r.id = o.id => r = o
    BY <1>1, <1>2 DEF Table
  <1>4. \A r \in rows \cup {row} : r.id <= NextId(rows)
    BY <1>1, <1>2
  <1> HIDE DEF HRows
  <1> QED
    BY <1>1, <1>2, <1>3, <1>4 DEF Table

(* A session with a new row shows its item after the others.               *)
LEMMA ShowsInsert ==
  ASSUME NEW rows, Table(rows), NEW s, NEW row \in HRows, row.id = NextId(rows), row.session = s,
         NEW att, NEW att2, \A r \in rows : {b \in att2 : b.history = r.id} = {b \in att : b.history = r.id},
         NEW w \in Seq(Items), Shows(rows, att, s, w), ItemOf(att2, row) \in Items
  PROVE  Shows(rows \cup {row}, att2, s, Append(w, ItemOf(att2, row)))
  <1> DEFINE q == InOrder(SessionRows(rows, s))
             p == Append(q, row)
             some == SessionRows(rows \cup {row}, s)
  <1>1. Table(rows \cup {row})
    BY TableAdd
  <1>2. /\ q \in Seq(HRows) /\ Members(q, SessionRows(rows, s)) /\ ById(q)
        /\ \A k \in 1..Len(q) : q[k] \in rows /\ q[k].session = s
    BY SessionFacts
  <1>3. some = SessionRows(rows, s) \cup {row}
    BY DEF SessionRows
  <1>4. Table(some)
    BY <1>1, SessionFacts
  <1>5. \A k \in 1..Len(q) : ItemOf(att2, q[k]) = ItemOf(att, q[k])
    <2> SUFFICES ASSUME NEW r \in rows PROVE ItemOf(att2, r) = ItemOf(att, r)
      BY <1>2
    <2>1. Pictures(att2, r) = Pictures(att, r)
      BY DEF Pictures
    <2> QED
      BY <2>1 DEF ItemOf
  <1>6. Reads(q, att, w)
    BY DEF Shows
  <1>7. \A r \in rows : r.id < row.id /\ r.id \in Nat /\ row.id \in Nat
    BY NextIdFacts DEF Table, HRows
  <1> HIDE DEF q, some, HRows
  <1>8. /\ p \in Seq(HRows) /\ Len(p) = Len(q) + 1 /\ Len(q) \in Nat
        /\ \A k \in 1..Len(q) : p[k] = q[k]
        /\ p[Len(q) + 1] = row
    BY <1>2
  <1> HIDE DEF p
  <1>9. \A k \in 1..Len(p) : k \in 1..Len(q) \/ k = Len(q) + 1
    BY <1>8
  <1>10. \A k \in 1..Len(p) : p[k] \in some
    BY <1>2, <1>3, <1>8, <1>9 DEF SessionRows
  <1>11. Members(p, some)
    <2> SUFFICES ASSUME NEW r \in some PROVE \E k \in 1..Len(p) : p[k] = r
      BY DEF Members
    <2>1. CASE r = row
      BY <1>8, <2>1
    <2>2. CASE r \in SessionRows(rows, s)
      <3>1. PICK k \in 1..Len(q) : q[k] = r
        BY <1>2, <2>2 DEF Members
      <3>2. k \in 1..Len(p)
        BY <1>8
      <3> QED
        BY <1>8, <3>1, <3>2
    <2> QED
      BY <1>3, <2>1, <2>2
  <1>12. ById(p)
    <2> SUFFICES ASSUME NEW j \in 1..Len(p), NEW k \in 1..Len(p), j < k
                 PROVE  p[j].id < p[k].id
      BY DEF ById
    <2>1. j \in 1..Len(q)
      BY <1>8, <1>9
    <2>2. CASE k = Len(q) + 1
      BY <1>2, <1>7, <1>8, <2>1, <2>2
    <2>3. CASE k \in 1..Len(q)
      BY <1>2, <1>8, <2>1, <2>3 DEF ById
    <2> QED
      BY <1>9, <2>2, <2>3
  <1>13. InOrder(some) = p
    BY <1>4, <1>8, <1>10, <1>11, <1>12, InOrderIs
  <1>14. Reads(p, att2, Append(w, ItemOf(att2, row)))
    <2> DEFINE i == ItemOf(att2, row)
               v == Append(w, i)
    <2>0. i \in Items
      OBVIOUS
    <2> HIDE DEF i
    <2>1. /\ Len(v) = Len(w) + 1 /\ v[Len(w) + 1] = i
          /\ \A k \in 1..Len(w) : v[k] = w[k]
      BY <2>0
    <2>2. Len(w) = Len(q) /\ \A k \in 1..Len(q) : w[k] = ItemOf(att, q[k])
      BY <1>6 DEF Reads
    <2> HIDE DEF v
    <2>3. Len(v) = Len(p)
      BY <1>8, <2>1, <2>2
    <2>4. ASSUME NEW k \in 1..Len(p) PROVE v[k] = ItemOf(att2, p[k])
      <3>1. CASE k = Len(q) + 1
        BY <1>8, <2>1, <2>2, <3>1 DEF i
      <3>2. CASE k \in 1..Len(q)
        BY <1>5, <1>8, <2>1, <2>2, <3>2
      <3> QED
        BY <1>9, <3>1, <3>2
    <2>5. Reads(p, att2, v)
      BY <2>3, <2>4 DEF Reads
    <2> QED
      BY <2>5 DEF v, i
  <1> QED
    BY <1>13, <1>14 DEF Shows, some

-----------------------------------------------------------------------------
(* What a repair makes of the rows of several sessions at once.            *)

(* The rows of a session that a repair keeps, and the calls it answers.    *)
KeptOf(rows, s) == DropBarePrompt(DropTrailingReasoning(InOrder(SessionRows(rows, s))))
CallsOf(rows, s) == Unanswered(KeptOf(rows, s), TurnStart(InOrder(SessionRows(rows, s))))

(* What is left when the sessions ss are repaired, the calls of all of     *)
(* them, and the results they get.                                         *)
KeptIn(rows, ss) == {r \in rows : r.session \notin ss} \cup UNION {ToSet(KeptOf(rows, s)) : s \in ss}
CallsIn(rows, ss) == UNION {ToSet(CallsOf(rows, s)) : s \in ss}
ResultRow(rows, ss, i) ==
    [id |-> NextId(KeptIn(rows, ss)) + i - 1, session |-> InOrder(CallsIn(rows, ss))[i].session,
     type |-> "tool_result", call |-> InOrder(CallsIn(rows, ss))[i].call]
ResultsIn(rows, ss) == {ResultRow(rows, ss, i) : i \in DOMAIN InOrder(CallsIn(rows, ss))}
Mended(rows, ss) == KeptIn(rows, ss) \cup ResultsIn(rows, ss)

(* The rows that are kept and the calls are rows of the session, in order. *)
LEMMA KeptOfFacts ==
  ASSUME NEW rows, Table(rows), NEW s
  PROVE  /\ KeptOf(rows, s) \in Seq(HRows) /\ ById(KeptOf(rows, s))
         /\ \A k \in 1..Len(KeptOf(rows, s)) : KeptOf(rows, s)[k] \in rows /\ KeptOf(rows, s)[k].session = s
         /\ CallsOf(rows, s) \in Seq(HRows) /\ ById(CallsOf(rows, s))
         /\ \A k \in 1..Len(CallsOf(rows, s)) : CallsOf(rows, s)[k] \in rows /\ CallsOf(rows, s)[k].session = s
  <1> DEFINE q == InOrder(SessionRows(rows, s))
             kept == KeptOf(rows, s)
             calls == CallsOf(rows, s)
  <1>1. /\ q \in Seq(HRows) /\ ById(q)
        /\ \A k \in 1..Len(q) : q[k] \in rows /\ q[k].session = s
    BY SessionFacts
  <1>2. kept = DropBarePrompt(DropTrailingReasoning(q)) /\ calls = Unanswered(kept, TurnStart(q))
    BY DEF KeptOf, CallsOf
  <1> HIDE DEF q, kept, calls
  <1>3. Alike(q, q)
    BY DEF Alike
  <1>4. PICK n \in 0..Len(q) : kept = SubSeq(q, 1, n)
    BY <1>1, <1>2, <1>3, AlikeKept
  <1>5. kept \in Seq(HRows) /\ Len(kept) = n /\ \A k \in 1..n : kept[k] = q[k] /\ k \in 1..Len(q)
    BY <1>1, <1>4, FrontFacts
  <1>6. ById(kept) /\ \A k \in 1..Len(kept) : kept[k] \in rows /\ kept[k].session = s
    BY <1>1, <1>5 DEF ById
  <1>7. TurnStart(q) \in Nat
    BY <1>1, LastsInRange
  <1>8. Alike(kept, kept)
    BY DEF Alike
  <1>9. PICK m \in Seq(1..Len(kept)) :
            /\ \A j, k \in 1..Len(m) : j < k => m[j] < m[k]
            /\ calls \in Seq(HRows) /\ Along(calls, kept, m)
    BY <1>2, <1>5, <1>7, <1>8, AlikeUnanswered
  <1>10. Len(calls) = Len(m) /\ \A k \in 1..Len(m) : calls[k] = kept[m[k]] /\ m[k] \in 1..Len(kept)
    BY <1>9 DEF Along
  <1>11. \A k \in 1..Len(calls) : calls[k] \in rows /\ calls[k].session = s
    BY <1>6, <1>10
  <1>12. ById(calls)
    BY <1>6, <1>9, <1>10 DEF ById
  <1> QED
    BY <1>5, <1>6, <1>9, <1>11, <1>12 DEF kept, calls

(* The elements of a sequence.                                             *)
LEMMA ToSetFacts ==
  ASSUME NEW S, NEW q \in Seq(S), NEW r
  PROVE  r \in ToSet(q) <=> \E k \in 1..Len(q) : q[k] = r
  BY DEF ToSet

(* Of a repaired session only its kept rows are left; the others have all. *)
LEMMA KeptInFacts ==
  ASSUME NEW rows, Table(rows), NEW ss
  PROVE  /\ KeptIn(rows, ss) \in SUBSET rows /\ Table(KeptIn(rows, ss))
         /\ CallsIn(rows, ss) \in SUBSET rows /\ Table(CallsIn(rows, ss))
         /\ \A r \in CallsIn(rows, ss) : r.session \in ss
         /\ \A s \in ss, r \in KeptIn(rows, ss) : r.session = s => r \in ToSet(KeptOf(rows, s))
         /\ \A s \in ss, r \in CallsIn(rows, ss) : r.session = s => r \in ToSet(CallsOf(rows, s))
         /\ \A s : s \notin ss => SessionRows(KeptIn(rows, ss), s) = SessionRows(rows, s)
  <1>1. \A s, r : r \in ToSet(KeptOf(rows, s)) => r \in rows /\ r.session = s
    BY KeptOfFacts, ToSetFacts
  <1>2. \A s, r : r \in ToSet(CallsOf(rows, s)) => r \in rows /\ r.session = s
    BY KeptOfFacts, ToSetFacts
  <1>3. KeptIn(rows, ss) \in SUBSET rows
    BY <1>1 DEF KeptIn
  <1>4. CallsIn(rows, ss) \in SUBSET rows
    BY <1>2 DEF CallsIn
  <1>5. \A r \in CallsIn(rows, ss) : r.session \in ss
    BY <1>2 DEF CallsIn
  <1>6. \A s \in ss, r \in KeptIn(rows, ss) : r.session = s => r \in ToSet(KeptOf(rows, s))
    BY <1>1 DEF KeptIn
  <1>7. \A s \in ss, r \in CallsIn(rows, ss) : r.session = s => r \in ToSet(CallsOf(rows, s))
    BY <1>2 DEF CallsIn
  <1>8. \A s : s \notin ss => SessionRows(KeptIn(rows, ss), s) = SessionRows(rows, s)
    BY <1>3 DEF KeptIn, SessionRows
  <1> QED
    BY <1>3, <1>4, <1>5, <1>6, <1>7, <1>8, TableSubset

(* The results are new rows, after those that are kept, and in the order   *)
(* of their calls.                                                         *)
LEMMA ResultFacts ==
  ASSUME NEW rows, Table(rows), NEW ss
  PROVE  LET calls == InOrder(CallsIn(rows, ss))
             next == NextId(KeptIn(rows, ss))
         IN  /\ calls \in Seq(HRows) /\ next \in Nat \ {0} /\ \A r \in KeptIn(rows, ss) : r.id < next
             /\ \A i \in 1..Len(calls) : /\ ResultRow(rows, ss, i) \in HRows
                                         /\ ResultRow(rows, ss, i).id = next + i - 1
                                         /\ ResultRow(rows, ss, i).session = calls[i].session
                                         /\ ResultRow(rows, ss, i).type = "tool_result"
                                         /\ ResultRow(rows, ss, i).call = calls[i].call
                                         /\ calls[i].session \in ss
             /\ Table(Mended(rows, ss))
  <1> DEFINE calls == InOrder(CallsIn(rows, ss))
             next == NextId(KeptIn(rows, ss))
             row(i) == ResultRow(rows, ss, i)
  <1>1. calls \in Seq(HRows) /\ \A k \in 1..Len(calls) : calls[k] \in CallsIn(rows, ss)
    BY KeptInFacts, InOrderFacts
  <1>2. next \in Nat \ {0} /\ \A r \in KeptIn(rows, ss) : r.id < next
    BY KeptInFacts, NextIdFacts
  <1>3. DOMAIN calls = 1..Len(calls) /\ Len(calls) \in Nat
    BY <1>1
  <1>4. \A i \in 1..Len(calls) : calls[i] \in HRows /\ calls[i].session \in ss
    BY <1>1, KeptInFacts DEF Table
  <1>5. ASSUME NEW i \in 1..Len(calls)
        PROVE  /\ row(i) \in HRows /\ row(i).id = next + i - 1 /\ row(i).session = calls[i].session
               /\ row(i).type = "tool_result" /\ row(i).call = calls[i].call
    <2>1. row(i) = [id |-> next + i - 1, session |-> calls[i].session, type |-> "tool_result", call |-> calls[i].call]
      BY DEF ResultRow
    <2>2. calls[i].session \in StoredSessions /\ calls[i].call \in Nat
      BY <1>4 DEF HRows
    <2> HIDE DEF row, calls, next
    <2>3. next + i - 1 \in Nat \ {0}
      BY <1>2, <1>3
    <2> QED
      BY <2>1, <2>2, <2>3 DEF HRows, PayloadType
  <1>6. ResultsIn(rows, ss) = {row(i) : i \in 1..Len(calls)}
    BY <1>3 DEF ResultsIn
  <1>7. KeptIn(rows, ss) \in SUBSET HRows /\ \A r, o \in KeptIn(rows, ss) : r.id = o.id => r = o
    BY KeptInFacts DEF Table
  <1>8. \A r \in KeptIn(rows, ss) : r.id \in Nat
    BY <1>7 DEF HRows
  <1> HIDE DEF calls, next, row
  <1>9. Table(Mended(rows, ss))
    <2>1. Mended(rows, ss) \in SUBSET HRows
      BY <1>5, <1>6, <1>7 DEF Mended
    <2>2. ASSUME NEW r \in Mended(rows, ss), NEW o \in Mended(rows, ss), r.id = o.id
          PROVE  r = o
      <3>1. CASE r \in KeptIn(rows, ss) /\ o \in KeptIn(rows, ss)
        BY <1>7, <2>2, <3>1
      <3>2. ASSUME NEW i \in 1..Len(calls), NEW k \in KeptIn(rows, ss)
            PROVE  row(i).id # k.id
        BY <1>2, <1>5, <1>8, <1>3
      <3>3. ASSUME NEW i \in 1..Len(calls), NEW j \in 1..Len(calls), row(i).id = row(j).id
            PROVE  i = j
        BY <1>2, <1>5, <1>3, <3>3
      <3> QED
        BY <1>6, <2>2, <3>1, <3>2, <3>3 DEF Mended
    <2>3. ASSUME NEW r \in Mended(rows, ss)
          PROVE  r.id <= next + Len(calls)
      <3>1. CASE r \in KeptIn(rows, ss)
        BY <1>2, <1>3, <1>8, <3>1
      <3>2. ASSUME NEW i \in 1..Len(calls), r = row(i) PROVE r.id <= next + Len(calls)
        BY <1>2, <1>3, <1>5, <3>2
      <3> QED
        BY <1>6, <3>1, <3>2 DEF Mended
    <2>4. next + Len(calls) \in Nat
      BY <1>2, <1>3
    <2> QED
      BY <2>1, <2>2, <2>3, <2>4 DEF Table
  <1> QED
    BY <1>1, <1>2, <1>4, <1>5, <1>9 DEF calls, next, row

(* One sequence after another.                                             *)
LEMMA JoinFacts ==
  ASSUME NEW S, NEW f \in Seq(S), NEW g \in Seq(S)
  PROVE  /\ f \o g \in Seq(S) /\ Len(f \o g) = Len(f) + Len(g)
         /\ \A k \in 1..Len(f) : (f \o g)[k] = f[k]
         /\ \A k \in 1..Len(g) : (f \o g)[Len(f) + k] = g[k]
  OBVIOUS

(* The calls u of one of the sessions, at their places among all of them.  *)
Places(p, u, calls, s) ==
    /\ p \in [1..Len(u) -> 1..Len(calls)]
    /\ \A k \in 1..Len(u) : calls[p[k]] = u[k]
    /\ \A j, k \in 1..Len(u) : j < k => p[j] < p[k]
    /\ \A i \in 1..Len(calls) : calls[i].session = s => \E k \in 1..Len(u) : p[k] = i

(* Each call of the session has its place, in the same order.              *)
LEMMA PlacesOfCalls ==
  ASSUME NEW rows, Table(rows), NEW ss, NEW s \in ss
  PROVE  \E p : Places(p, CallsOf(rows, s), InOrder(CallsIn(rows, ss)), s)
  <1> DEFINE u == CallsOf(rows, s)
             calls == InOrder(CallsIn(rows, ss))
             p == [k \in 1..Len(u) |-> CHOOSE i \in 1..Len(calls) : calls[i] = u[k]]
  <1>1. /\ u \in Seq(HRows) /\ ById(u)
        /\ \A k \in 1..Len(u) : u[k] \in rows /\ u[k].session = s
    BY KeptOfFacts
  <1>2. calls \in Seq(HRows) /\ ById(calls) /\ Members(calls, CallsIn(rows, ss))
        /\ \A k \in 1..Len(calls) : calls[k] \in CallsIn(rows, ss)
    BY KeptInFacts, InOrderFacts
  <1>3. \A i \in 1..Len(calls) : calls[i].session = s => \E k \in 1..Len(u) : u[k] = calls[i]
    BY <1>1, <1>2, KeptInFacts, ToSetFacts
  <1>4. \A k \in 1..Len(u) : u[k] \in CallsIn(rows, ss)
    BY <1>1, ToSetFacts DEF CallsIn
  <1> HIDE DEF u, calls
  <1>5. \A k \in 1..Len(u) : \E i \in 1..Len(calls) : calls[i] = u[k]
    BY <1>2, <1>4 DEF Members
  <1>6. p \in [1..Len(u) -> 1..Len(calls)] /\ \A k \in 1..Len(u) : calls[p[k]] = u[k]
    BY <1>5
  <1> HIDE DEF p
  <1>7. Len(u) \in Nat /\ Len(calls) \in Nat
    BY <1>1, <1>2
  <1>8. /\ \A k \in 1..Len(u) : u[k].id \in Nat
        /\ \A k \in 1..Len(calls) : calls[k].id \in Nat
    <2>1. /\ \A k \in 1..Len(u) : u[k] \in HRows
          /\ \A k \in 1..Len(calls) : calls[k] \in HRows
      BY <1>1, <1>2, ElementOfSeq
    <2> QED
      BY <2>1 DEF HRows
  <1>9. ASSUME NEW i \in 1..Len(calls), NEW j \in 1..Len(calls)
        PROVE  i <= j => calls[i].id <= calls[j].id
    BY <1>2, <1>7, <1>8 DEF ById
  <1>10. ASSUME NEW j \in 1..Len(u), NEW k \in 1..Len(u), j < k
         PROVE  p[j] < p[k]
    <2>1. u[j].id < u[k].id
      BY <1>1, <1>10 DEF ById
    <2>2. p[j] \in 1..Len(calls) /\ p[k] \in 1..Len(calls)
      BY <1>6
    <2>3. calls[p[j]].id < calls[p[k]].id
      BY <1>6, <2>1
    <2> QED
      BY <1>7, <1>8, <1>9, <2>2, <2>3
  <1>11. ASSUME NEW i \in 1..Len(calls), calls[i].session = s
         PROVE  \E k \in 1..Len(u) : p[k] = i
    <2>1. PICK k \in 1..Len(u) : u[k] = calls[i]
      BY <1>3, <1>11
    <2>2. p[k] \in 1..Len(calls) /\ calls[p[k]].id = calls[i].id
      BY <1>6, <2>1
    <2>3. p[k] = i
      <3> DEFINE j == p[k]
      <3>1. j \in 1..Len(calls) /\ calls[j].id = calls[i].id /\ calls[i].id \in Nat
        BY <1>8, <2>2
      <3> HIDE DEF j
      <3>2. ~(j < i) /\ ~(i < j)
        BY <1>2, <3>1 DEF ById
      <3>3. j = i
        BY <1>7, <3>1, <3>2
      <3> QED
        BY <3>3 DEF j
    <2> QED
      BY <2>3
  <1>12. Places(p, u, calls, s)
    BY <1>6, <1>10, <1>11 DEF Places
  <1> QED
    BY <1>12 DEF u, calls

(* A repaired session has the rows that are kept, and a result for each of *)
(* its calls after them.                                                   *)
LEMMA MendedOf ==
  ASSUME NEW rows, Table(rows), NEW ss, NEW s \in ss
  PROVE  LET q == InOrder(SessionRows(Mended(rows, ss), s))
             kept == KeptOf(rows, s)
             u == CallsOf(rows, s)
         IN  /\ q \in Seq(HRows) /\ Len(q) = Len(kept) + Len(u)
             /\ \A k \in 1..Len(kept) : q[k] = kept[k]
             /\ \A k \in 1..Len(u) : q[Len(kept) + k].type = "tool_result" /\ q[Len(kept) + k].call = u[k].call
  <1> DEFINE kept == KeptOf(rows, s)
             u == CallsOf(rows, s)
             calls == InOrder(CallsIn(rows, ss))
             next == NextId(KeptIn(rows, ss))
             row(i) == ResultRow(rows, ss, i)
             some == SessionRows(Mended(rows, ss), s)
  <1>1. /\ kept \in Seq(HRows) /\ ById(kept) /\ u \in Seq(HRows)
        /\ \A k \in 1..Len(kept) : kept[k] \in rows /\ kept[k].session = s
        /\ \A k \in 1..Len(u) : u[k].session = s
    BY KeptOfFacts
  <1>2. PICK p : Places(p, u, calls, s)
    BY PlacesOfCalls
  <1>2a. /\ p \in [1..Len(u) -> 1..Len(calls)]
         /\ \A k \in 1..Len(u) : calls[p[k]] = u[k]
         /\ \A j, k \in 1..Len(u) : j < k => p[j] < p[k]
         /\ \A i \in 1..Len(calls) : calls[i].session = s => \E k \in 1..Len(u) : p[k] = i
    BY <1>2 DEF Places
  <1>3. /\ calls \in Seq(HRows) /\ next \in Nat \ {0} /\ \A r \in KeptIn(rows, ss) : r.id < next
        /\ \A i \in 1..Len(calls) : /\ row(i) \in HRows
                                    /\ row(i).id = next + i - 1
                                    /\ row(i).session = calls[i].session
                                    /\ row(i).type = "tool_result"
                                    /\ row(i).call = calls[i].call
        /\ Table(Mended(rows, ss))
    BY ResultFacts
  <1>4. \A k \in 1..Len(kept) : kept[k] \in KeptIn(rows, ss)
    BY <1>1, ToSetFacts DEF KeptIn
  <1>5. \A r \in some : \/ \E k \in 1..Len(kept) : kept[k] = r
                        \/ \E i \in 1..Len(calls) : r = row(i) /\ calls[i].session = s
    <2>1. ASSUME NEW r \in some, r \in KeptIn(rows, ss)
          PROVE  \E k \in 1..Len(kept) : kept[k] = r
      <3>1. r \in ToSet(kept)
        BY <2>1, KeptInFacts DEF SessionRows
      <3> QED
        BY <1>1, <3>1, ToSetFacts
    <2>2. ASSUME NEW r \in some, r \in ResultsIn(rows, ss)
          PROVE  \E i \in 1..Len(calls) : r = row(i) /\ calls[i].session = s
      <3>1. PICK i \in DOMAIN calls : r = row(i)
        BY <2>2 DEF ResultsIn
      <3>2. i \in 1..Len(calls)
        BY <1>3
      <3>3. r.session = s
        BY <2>2 DEF SessionRows
      <3> QED
        BY <1>3, <3>1, <3>2, <3>3
    <2> QED
      BY <2>1, <2>2 DEF Mended, SessionRows
  <1>6. /\ \A k \in 1..Len(kept) : kept[k] \in some
        /\ \A i \in 1..Len(calls) : calls[i].session = s => row(i) \in some
    <2>1. \A k \in 1..Len(kept) : kept[k] \in some
      BY <1>1, <1>4 DEF Mended, SessionRows
    <2>2. ASSUME NEW i \in 1..Len(calls), calls[i].session = s PROVE row(i) \in some
      <3>1. i \in DOMAIN calls
        BY <1>3
      <3>2. row(i) \in ResultsIn(rows, ss)
        BY <3>1 DEF ResultsIn
      <3>3. row(i).session = s
        BY <1>3, <2>2
      <3> QED
        BY <3>2, <3>3 DEF Mended, SessionRows
    <2> QED
      BY <2>1, <2>2
  <1>7. Table(some)
    <2>1. some \in SUBSET Mended(rows, ss)
      BY DEF SessionRows
    <2> QED
      BY <1>3, <2>1, TableSubset
  <1> HIDE DEF kept, u, calls, next, row, some
  <1> DEFINE n == Len(kept)
             a == [k \in 1..Len(u) |-> row(p[k])]
             q == kept \o a
  <1>8. /\ n \in Nat /\ Len(u) \in Nat /\ Len(calls) \in Nat
    BY <1>1, <1>3
  <1>9. ASSUME NEW k \in 1..Len(u)
        PROVE  /\ p[k] \in 1..Len(calls) /\ row(p[k]) \in HRows /\ row(p[k]).id = next + p[k] - 1
               /\ row(p[k]).type = "tool_result" /\ row(p[k]).call = u[k].call
               /\ row(p[k]) \in some
    BY <1>1, <1>2a, <1>3, <1>6
  <1>10. a \in Seq(HRows) /\ Len(a) = Len(u)
    BY <1>8, <1>9
  <1>12. \A k \in 1..Len(u) : a[k] = row(p[k])
    OBVIOUS
  <1> HIDE DEF a
  <1>11. /\ q \in Seq(HRows) /\ Len(q) = n + Len(u)
         /\ \A k \in 1..n : q[k] = kept[k]
         /\ \A k \in 1..Len(u) : q[n + k] = a[k]
    <2>1. n = Len(kept) /\ q = kept \o a
      OBVIOUS
    <2> HIDE DEF n, q
    <2> QED
      <3>1. kept \in Seq(HRows) /\ a \in Seq(HRows)
        BY <1>1, <1>10
      <3>2. /\ kept \o a \in Seq(HRows) /\ Len(kept \o a) = Len(kept) + Len(a)
            /\ \A k \in 1..Len(kept) : (kept \o a)[k] = kept[k]
            /\ \A k \in 1..Len(a) : (kept \o a)[Len(kept) + k] = a[k]
        BY <3>1, JoinFacts
      <3> QED
        BY <1>10, <2>1, <3>2
  <1> HIDE DEF n, q
  <1>13. ASSUME NEW k \in 1..Len(q), k \notin 1..n
         PROVE  \E j \in 1..Len(u) : k = n + j /\ q[k] = row(p[j])
    <2>1. k - n \in 1..Len(u) /\ k = n + (k - n)
      BY <1>8, <1>11, <1>13
    <2>2. q[n + (k - n)] = row(p[k - n])
      BY <1>11, <1>12, <2>1
    <2> QED
      BY <2>1, <2>2
  <1>14. \A k \in 1..Len(q) : q[k] \in some
    BY <1>6, <1>9, <1>11, <1>13 DEF n
  <1>15. Members(q, some)
    <2>1. ASSUME NEW k \in 1..n PROVE k \in 1..Len(q) /\ q[k] = kept[k]
      BY <1>8, <1>11, <2>1
    <2>2. ASSUME NEW j \in 1..Len(u) PROVE n + j \in 1..Len(q) /\ q[n + j] = row(p[j])
      BY <1>8, <1>11, <1>12
    <2>3. ASSUME NEW r \in some PROVE \E k \in 1..Len(q) : q[k] = r
      <3>1. CASE \E k \in 1..Len(kept) : kept[k] = r
        BY <2>1, <3>1 DEF n
      <3>2. CASE \E i \in 1..Len(calls) : r = row(i) /\ calls[i].session = s
        <4>1. PICK i \in 1..Len(calls) : r = row(i) /\ calls[i].session = s
          BY <3>2
        <4>2. PICK j \in 1..Len(u) : p[j] = i
          BY <1>2a, <4>1
        <4> QED
          BY <2>2, <4>1, <4>2
      <3> QED
        BY <1>5, <3>1, <3>2
    <2> QED
      BY <2>3 DEF Members
  <1>16. ById(q)
    <2>1. \A k \in 1..n : kept[k].id \in Nat /\ kept[k].id < next
      <3>1. \A k \in 1..n : kept[k] \in HRows
        BY <1>1, ElementOfSeq DEF n
      <3> QED
        BY <1>3, <1>4, <3>1 DEF HRows, n
    <2>2. ASSUME NEW j \in 1..Len(q), NEW k \in 1..Len(q), j < k
          PROVE  q[j].id < q[k].id
      <3>1. CASE k \in 1..n
        <4>1. j \in 1..n
          BY <1>8, <1>11, <2>2, <3>1
        <4> QED
          BY <1>1, <1>11, <2>2, <3>1, <4>1 DEF ById, n
      <3>2. CASE k \notin 1..n /\ j \in 1..n
        <4>1. PICK l \in 1..Len(u) : k = n + l /\ q[k] = row(p[l])
          BY <1>13, <3>2
        <4>2. q[k].id = next + p[l] - 1 /\ p[l] \in 1..Len(calls)
          BY <1>9, <4>1
        <4>3. q[j].id \in Nat /\ q[j].id < next
          BY <1>11, <2>1, <3>2
        <4> QED
          BY <1>3, <1>8, <4>2, <4>3
      <3>3. CASE k \notin 1..n /\ j \notin 1..n
        <4>1. PICK l \in 1..Len(u) : k = n + l /\ q[k] = row(p[l])
          BY <1>13, <3>3
        <4>2. PICK i \in 1..Len(u) : j = n + i /\ q[j] = row(p[i])
          BY <1>13, <3>3
        <4>3. i < l
          BY <1>8, <2>2, <4>1, <4>2
        <4>4. p[i] < p[l]
          BY <1>2a, <4>3
        <4>5. q[k].id = next + p[l] - 1 /\ q[j].id = next + p[i] - 1
          BY <1>9, <4>1, <4>2
        <4>6. p[i] \in 1..Len(calls) /\ p[l] \in 1..Len(calls)
          BY <1>9
        <4> QED
          BY <1>3, <1>8, <4>4, <4>5, <4>6
      <3> QED
        BY <3>1, <3>2, <3>3
    <2> QED
      BY <2>2 DEF ById
  <1>17. InOrder(some) = q
    BY <1>7, <1>11, <1>14, <1>15, <1>16, InOrderIs
  <1>18. \A k \in 1..Len(u) : q[n + k].type = "tool_result" /\ q[n + k].call = u[k].call
    BY <1>9, <1>11, <1>12
  <1> QED
    BY <1>11, <1>17, <1>18 DEF n, some, kept, u

(* What shows of a repaired session are its repaired items.                *)
LEMMA ShowsMended ==
  ASSUME NEW rows, Table(rows), NEW ss, NEW s \in ss, NEW att, NEW att2,
         \A r \in KeptIn(rows, ss) : {b \in att2 : b.history = r.id} = {b \in att : b.history = r.id},
         NEW w \in Seq(Items), Shows(rows, att, s, w)
  PROVE  Repaired(w) \in Seq(Items) /\ Shows(Mended(rows, ss), att2, s, Repaired(w))
  <1> DEFINE f == InOrder(SessionRows(rows, s))
             q == InOrder(SessionRows(Mended(rows, ss), s))
             kept == KeptOf(rows, s)
             u == CallsOf(rows, s)
             start == TurnStart(f)
  <1>1. /\ f \in Seq(HRows) /\ Reads(f, att, w)
    BY SessionFacts DEF Shows
  <1>2. /\ q \in Seq(HRows) /\ Len(q) = Len(kept) + Len(u)
        /\ \A k \in 1..Len(kept) : q[k] = kept[k]
        /\ \A k \in 1..Len(u) : q[Len(kept) + k].type = "tool_result" /\ q[Len(kept) + k].call = u[k].call
    BY MendedOf
  <1>3. kept \in Seq(HRows) /\ u \in Seq(HRows)
    BY KeptOfFacts
  <1>4. \A k \in 1..Len(kept) : kept[k] \in KeptIn(rows, ss)
    BY <1>3, ToSetFacts DEF KeptIn
  <1>5. kept = DropBarePrompt(DropTrailingReasoning(f)) /\ u = Unanswered(kept, start)
    BY DEF KeptOf, CallsOf
  <1> HIDE DEF f, q, kept, u, start
  <1>6. Alike(f, w) /\ start = TurnStart(w)
    <2>1. Alike(f, w)
      <3>1. \A r : ItemOf(att, r).type = r.type /\ ItemOf(att, r).call = r.call
        BY DEF ItemOf
      <3> QED
        BY <1>1, <3>1 DEF Alike, Reads
    <2> QED
      BY <1>1, <2>1, AlikeLasts DEF start
  <1>7. PICK n \in 0..Len(f) : /\ DropBarePrompt(DropTrailingReasoning(f)) = SubSeq(f, 1, n)
                               /\ DropBarePrompt(DropTrailingReasoning(w)) = SubSeq(w, 1, n)
    BY <1>1, <1>6, AlikeKept
  <1> DEFINE k1 == SubSeq(w, 1, n)
             v == Unanswered(k1, start)
             a == [i \in DOMAIN v |-> [type |-> "tool_result", call |-> v[i].call, images |-> {}]]
             z == Repaired(w)
  <1>8. z = k1 \o a
    BY <1>6, <1>7 DEF Repaired
  <1>9. Len(w) = Len(f)
    BY <1>6 DEF Alike
  <1>10. /\ kept = SubSeq(f, 1, n) /\ Len(kept) = n /\ \A i \in 1..n : kept[i] = f[i]
         /\ k1 \in Seq(Items) /\ Len(k1) = n /\ \A i \in 1..n : k1[i] = w[i]
    BY <1>1, <1>5, <1>7, <1>9, FrontFacts
  <1>11. Alike(kept, k1)
    BY <1>1, <1>6, <1>10, AlikeFront
  <1>12. start \in Nat
    BY <1>1, LastsInRange DEF start
  <1> HIDE DEF k1, v, a, z
  <1>13. PICK m \in Seq(1..Len(kept)) :
            /\ u \in Seq(HRows) /\ Along(u, kept, m)
            /\ v \in Seq(Items) /\ Along(v, k1, m)
    <2>1. \E m \in Seq(1..Len(kept)) :
              /\ \A j, k \in 1..Len(m) : j < k => m[j] < m[k]
              /\ Unanswered(kept, start) \in Seq(HRows) /\ Along(Unanswered(kept, start), kept, m)
              /\ Unanswered(k1, start) \in Seq(Items) /\ Along(Unanswered(k1, start), k1, m)
      BY <1>3, <1>10, <1>11, <1>12, AlikeUnanswered
    <2> QED
      BY <1>5, <2>1 DEF v
  <1>14. Len(v) = Len(u) /\ \A k \in 1..Len(u) : v[k].call = u[k].call
    <2>1. Len(v) = Len(m) /\ Len(u) = Len(m) /\ \A k \in 1..Len(m) : u[k] = kept[m[k]] /\ v[k] = k1[m[k]]
      BY <1>13 DEF Along
    <2>2. \A k \in 1..Len(m) : m[k] \in 1..Len(kept)
      BY <1>13, ElementOfSeq
    <2> QED
      BY <1>11, <2>1, <2>2 DEF Alike
  <1>15. a \in Seq(Items) /\ Len(a) = Len(u)
         /\ \A k \in 1..Len(u) : a[k] = [type |-> "tool_result", call |-> u[k].call, images |-> {}]
    <2>1. DOMAIN v = 1..Len(v) /\ Len(v) \in Nat
      BY <1>13
    <2>2. \A k \in 1..Len(v) : v[k].call \in Nat
      <3>1. \A k \in 1..Len(v) : v[k] \in Items
        BY <1>13, ElementOfSeq
      <3> QED
        BY <3>1 DEF Items
    <2>3. \A k \in 1..Len(v) : [type |-> "tool_result", call |-> v[k].call, images |-> {}] \in Items
      BY <2>2 DEF Items, PayloadType
    <2>4. a = [i \in 1..Len(v) |-> [type |-> "tool_result", call |-> v[i].call, images |-> {}]]
      BY <2>1 DEF a
    <2>5. a \in Seq(Items) /\ Len(a) = Len(v)
      BY <2>1, <2>3, <2>4
    <2> QED
      BY <1>14, <2>4, <2>5
  <1>16. /\ z \in Seq(Items) /\ Len(z) = n + Len(u)
         /\ \A k \in 1..n : z[k] = w[k]
         /\ \A k \in 1..Len(u) : z[n + k] = a[k]
    <2>1. k1 \in Seq(Items) /\ a \in Seq(Items)
      BY <1>10, <1>15
    <2>2. /\ k1 \o a \in Seq(Items) /\ Len(k1 \o a) = Len(k1) + Len(a)
          /\ \A k \in 1..Len(k1) : (k1 \o a)[k] = k1[k]
          /\ \A k \in 1..Len(a) : (k1 \o a)[Len(k1) + k] = a[k]
      BY <2>1, JoinFacts
    <2> QED
      BY <1>8, <1>10, <1>15, <2>2
  <1>17. ASSUME NEW k \in 1..n
         PROVE  z[k] = ItemOf(att2, q[k])
    <2>1. z[k] = ItemOf(att, f[k]) /\ f[k] = kept[k]
      BY <1>1, <1>7, <1>10, <1>16 DEF Reads
    <2>2. q[k] = kept[k] /\ kept[k] \in KeptIn(rows, ss)
      BY <1>2, <1>4, <1>10
    <2>3. {b \in att2 : b.history = kept[k].id} = {b \in att : b.history = kept[k].id}
      BY <2>2
    <2>4. ItemOf(att2, kept[k]) = ItemOf(att, kept[k])
      BY <2>3 DEF ItemOf, Pictures
    <2> QED
      BY <2>1, <2>2, <2>4
  <1>18. ASSUME NEW j \in 1..Len(u)
         PROVE  z[n + j] = ItemOf(att2, q[n + j])
    <2>1. q[n + j].type = "tool_result" /\ q[n + j].call = u[j].call
      BY <1>2, <1>10
    <2>2. ItemOf(att2, q[n + j]) = [type |-> "tool_result", call |-> u[j].call, images |-> {}]
      BY <2>1 DEF ItemOf, Pictures
    <2> QED
      BY <1>15, <1>16, <2>2
  <1>19. Reads(q, att2, z)
    <2>1. n \in Nat /\ Len(u) \in Nat /\ Len(q) = n + Len(u)
      BY <1>2, <1>3, <1>7, <1>10
    <2>2. ASSUME NEW k \in 1..Len(q) PROVE z[k] = ItemOf(att2, q[k])
      <3>1. CASE k \in 1..n
        BY <1>17, <3>1
      <3>2. CASE k \notin 1..n
        <4>1. k - n \in 1..Len(u) /\ k = n + (k - n)
          BY <2>1, <3>2
        <4> QED
          BY <1>18, <4>1
      <3> QED
        BY <3>1, <3>2
    <2> QED
      BY <1>16, <2>1, <2>2 DEF Reads
  <1> QED
    BY <1>16, <1>19 DEF Shows, q, z

-----------------------------------------------------------------------------
(* The tables: ids are not used twice, an attachment hangs on a row that   *)
(* is there, each session shows what was written and repaired, and the     *)
(* switches are those since the plugin was deleted.                        *)
StoreInv ==
    /\ Table(historyRows)
    /\ \A a \in attachmentRows : \E r \in historyRows : r.id = a.history
    /\ written \in [StoredSessions -> Seq(Items)]
    /\ \A s \in StoredSessions : Shows(historyRows, attachmentRows, s, written[s])
    /\ flagRows = switchedOff

(* A session without rows shows nothing.                                   *)
LEMMA NothingShown ==
  ASSUME NEW rows, Table(rows), NEW s, SessionRows(rows, s) = {}, NEW att
  PROVE  Shows(rows, att, s, <<>>)
  <1>1. /\ InOrder({}) \in Seq(HRows) /\ \A k \in 1..Len(InOrder({})) : InOrder({})[k] \in {}
    BY InOrderFacts, TableSubset
  <1>2. Len(InOrder({})) = 0
    BY <1>1
  <1> QED
    BY <1>2 DEF Shows, Reads

(* The tables are empty when the program is installed.                     *)
LEMMA StoreStart == StoreInit => StoreInv
  <1> SUFFICES ASSUME StoreInit PROVE StoreInv
    OBVIOUS
  <1>1. historyRows = {} /\ attachmentRows = {} /\ written = [s \in StoredSessions |-> <<>>]
        /\ flagRows = switchedOff
    BY DEF StoreInit, StoreRest
  <1>2. Table(historyRows)
    BY <1>1 DEF Table
  <1>3. ASSUME NEW s \in StoredSessions
        PROVE  Shows(historyRows, attachmentRows, s, written[s])
    <2>1. SessionRows(historyRows, s) = {} /\ written[s] = <<>>
      BY <1>1 DEF SessionRows
    <2> QED
      BY <1>2, <2>1, NothingShown
  <1>4. written \in [StoredSessions -> Seq(Items)]
    BY <1>1
  <1> QED
    BY <1>1, <1>2, <1>3, <1>4 DEF StoreInv

(* A row is added with the next id, which no attachment has.               *)
LEMMA InsertStep ==
  ASSUME StoreInv, NEW s \in StoredSessions, NEW item \in StoredItems, InsertHistory(s, item)
  PROVE  StoreInv'
  <1> DEFINE id == NextId(historyRows)
             row == [id |-> id, session |-> s, type |-> item.type, call |-> item.call]
             new == {[history |-> id, ordinal |-> image.ordinal, data |-> image.data] :
                         image \in ToSet(item.images)}
             shown == [type |-> item.type, call |-> item.call, images |-> ToSet(item.images)]
  <1>1. CASE UNCHANGED <<historyRows, attachmentRows, written>>
    BY <1>1 DEF InsertHistory, StoreInv, pluginVars
  <1>2. CASE /\ historyRows' = historyRows \cup {row}
             /\ attachmentRows' = attachmentRows \cup new
             /\ written' = [written EXCEPT ![s] = Append(@, shown)]
    <2>1. /\ item.type \in PayloadType /\ item.call \in Nat
          /\ item.images \in Seq([ordinal : Nat, data : STRING])
          /\ item.images # <<>> => item.type = "user_prompt"
      BY StorageAssumption
    <2>2. Table(historyRows) /\ id \in Nat \ {0} /\ \A r \in historyRows : r.id < id
      BY NextIdFacts DEF StoreInv
    <2>3. row \in HRows /\ row.id = id /\ row.session = s
      BY <2>1, <2>2 DEF HRows
    <2>4. ToSet(item.images) \in SUBSET Images
      <3>1. item.images \in Seq(Images)
        BY <2>1 DEF Images
      <3>2. \A i \in DOMAIN item.images : item.images[i] \in Images
        BY <3>1
      <3> QED
        BY <3>2 DEF ToSet
    <2>5. \A r \in historyRows : r.id \in Nat
      BY <2>2 DEF Table, HRows
    <2>6. \A r \in historyRows : {b \in attachmentRows' : b.history = r.id}
                                    = {b \in attachmentRows : b.history = r.id}
      BY <1>2, <2>2, <2>5
    <2>7. {b \in attachmentRows' : b.history = id} = new
      <3>1. \A b \in attachmentRows : b.history # id
        BY <2>2, <2>5 DEF StoreInv
      <3>2. \A b \in new : b.history = id
        OBVIOUS
      <3> HIDE DEF id, new
      <3> QED
        BY <1>2, <3>1, <3>2
    <2>8. Pictures(attachmentRows', row) = ToSet(item.images)
      <3>1. CASE item.type = "user_prompt"
        <4>1. {[ordinal |-> a.ordinal, data |-> a.data] : a \in new} = ToSet(item.images)
          <5> DEFINE of(i) == [history |-> id, ordinal |-> i.ordinal, data |-> i.data]
                     back(a) == [ordinal |-> a.ordinal, data |-> a.data]
                     pictures == ToSet(item.images)
          <5>1. \A i \in pictures : back(of(i)) = i
            BY <2>4 DEF Images
          <5>2. new = {of(i) : i \in pictures}
            OBVIOUS
          <5> HIDE DEF of, back, new, pictures
          <5>3. {back(a) : a \in new} = pictures
            BY <5>1, <5>2
          <5> QED
            BY <5>3 DEF back, pictures
        <4> QED
          BY <2>7, <3>1, <4>1 DEF Pictures
      <3>2. CASE item.type # "user_prompt"
        <4>1. item.images = <<>>
          BY <2>1, <3>2
        <4> QED
          BY <3>2, <4>1 DEF Pictures, ToSet
      <3> QED
        BY <3>1, <3>2
    <2>9. ItemOf(attachmentRows', row) = shown
      BY <2>8 DEF ItemOf
    <2>10. shown \in Items
      BY <2>1, <2>4 DEF Items
    <2> HIDE DEF id, row, new, shown
    <2>11. Table(historyRows')
      BY <1>2, <2>2, <2>3, TableAdd DEF id
    <2>12. /\ written \in [StoredSessions -> Seq(Items)]
           /\ \A x \in StoredSessions : Shows(historyRows, attachmentRows, x, written[x])
      BY DEF StoreInv
    <2>13. ASSUME NEW x \in StoredSessions
           PROVE  written'[x] \in Seq(Items) /\ Shows(historyRows', attachmentRows', x, written'[x])
      <3>1. CASE x = s
        <4>1. written'[x] = Append(written[s], shown)
          BY <1>2, <2>12, <3>1
        <4>2. written[s] \in Seq(Items) /\ Shows(historyRows, attachmentRows, s, written[s])
          BY <2>12
        <4>3. Shows(historyRows \cup {row}, attachmentRows', s, Append(written[s], shown))
          BY <2>2, <2>3, <2>6, <2>9, <2>10, <4>2, ShowsInsert DEF id
        <4> QED
          BY <1>2, <2>10, <3>1, <4>1, <4>2, <4>3
      <3>2. CASE x # s
        <4>1. written'[x] = written[x]
          BY <1>2, <2>12, <3>2
        <4>2. SessionRows(historyRows', x) = SessionRows(historyRows, x)
          BY <1>2, <2>3, <3>2 DEF SessionRows
        <4>3. \A r \in SessionRows(historyRows, x) : {b \in attachmentRows' : b.history = r.id}
                                = {b \in attachmentRows : b.history = r.id}
          BY <2>6 DEF SessionRows
        <4>4. Shows(historyRows, attachmentRows, x, written[x])
          BY <2>12
        <4>5. Shows(historyRows', attachmentRows', x, written[x])
          BY <2>2, <4>2, <4>3, <4>4, ShowsStays
        <4> QED
          BY <2>12, <4>1, <4>5
      <3> QED
        BY <3>1, <3>2
    <2>14. written' \in [StoredSessions -> Seq(Items)]
      <3>1. written' = [x \in StoredSessions |-> written'[x]]
        BY <1>2, <2>12
      <3> QED
        BY <2>13, <3>1
    <2>15. \A a \in attachmentRows' : \E r \in historyRows' : r.id = a.history
      <3>1. \A a \in new : a.history = row.id
        BY <2>3 DEF new
      <3> QED
        BY <1>2, <3>1 DEF StoreInv
    <2>16. flagRows' = switchedOff'
      BY DEF InsertHistory, StoreInv, pluginVars
    <2> QED
      BY <2>11, <2>13, <2>14, <2>15, <2>16 DEF StoreInv
  <1> QED
    BY <1>1, <1>2 DEF InsertHistory

(* The rows of the session go with their attachments.                      *)
LEMMA DeleteStep ==
  ASSUME StoreInv, NEW s \in StoredSessions, DeleteSession(s)
  PROVE  StoreInv'
  <1>1. /\ historyRows' = {r \in historyRows : r.session # s}
        /\ attachmentRows' = {a \in attachmentRows : \E r \in historyRows' : r.id = a.history}
        /\ written' = [written EXCEPT ![s] = <<>>]
        /\ flagRows' = flagRows /\ switchedOff' = switchedOff
    BY DEF DeleteSession, Cascade, pluginVars
  <1>2. /\ Table(historyRows) /\ written \in [StoredSessions -> Seq(Items)]
        /\ \A x \in StoredSessions : Shows(historyRows, attachmentRows, x, written[x])
        /\ flagRows = switchedOff
    BY DEF StoreInv
  <1>3. Table(historyRows')
    BY <1>1, <1>2, TableSubset
  <1>4. ASSUME NEW x \in StoredSessions
        PROVE  Shows(historyRows', attachmentRows', x, written'[x])
    <2>1. CASE x = s
      <3>1. SessionRows(historyRows', x) = {} /\ written'[x] = <<>>
        BY <1>1, <1>2, <2>1 DEF SessionRows
      <3> QED
        BY <1>3, <3>1, NothingShown
    <2>2. CASE x # s
      <3>1. SessionRows(historyRows', x) = SessionRows(historyRows, x) /\ written'[x] = written[x]
        BY <1>1, <1>2, <2>2 DEF SessionRows
      <3>2. \A r \in SessionRows(historyRows, x) : r \in historyRows'
        BY <1>1, <2>2 DEF SessionRows
      <3>3. \A r \in SessionRows(historyRows, x) : {b \in attachmentRows' : b.history = r.id}
                                  = {b \in attachmentRows : b.history = r.id}
        BY <1>1, <3>2
      <3>4. Shows(historyRows, attachmentRows, x, written[x])
        BY <1>2
      <3> QED
        BY <1>2, <3>1, <3>3, <3>4, ShowsStays
    <2> QED
      BY <2>1, <2>2
  <1>5. written' \in [StoredSessions -> Seq(Items)]
    BY <1>1, <1>2
  <1>6. \A a \in attachmentRows' : \E r \in historyRows' : r.id = a.history
    BY <1>1
  <1> QED
    BY <1>1, <1>2, <1>3, <1>4, <1>5, <1>6 DEF StoreInv

(* A repair leaves the other sessions as they are.                         *)
LEMMA RepairStep ==
  ASSUME StoreInv, NEW ss \in SUBSET StoredSessions, RepairSessions(ss),
         flagRows' = flagRows, switchedOff' = switchedOff
  PROVE  StoreInv'
  <1> DEFINE kept == KeptIn(historyRows, ss)
  <1>1. historyRows' = Mended(historyRows, ss) /\ attachmentRows' = Cascade(kept)
    <2>1. \A s \in ss : KeptRows(s) = KeptOf(historyRows, s) /\ ToAnswer(s) = CallsOf(historyRows, s)
      BY DEF KeptRows, KeptOf, ToAnswer, CallsOf, RowsOf, SessionRows
    <2>2. UNION {ToSet(KeptRows(s)) : s \in ss} = UNION {ToSet(KeptOf(historyRows, s)) : s \in ss}
      BY <2>1
    <2>3. UNION {ToSet(ToAnswer(s)) : s \in ss} = CallsIn(historyRows, ss)
      BY <2>1 DEF CallsIn
    <2>4. {r \in historyRows : r.session \notin ss} \cup UNION {ToSet(KeptRows(s)) : s \in ss} = kept
      BY <2>2 DEF KeptIn
    <2> QED
      BY <2>3, <2>4 DEF RepairSessions, Mended, ResultsIn, ResultRow
  <1>2. written' = [s \in StoredSessions |-> IF s \in ss THEN Repaired(written[s]) ELSE written[s]]
    BY DEF RepairSessions
  <1>3. /\ Table(historyRows) /\ written \in [StoredSessions -> Seq(Items)]
        /\ \A x \in StoredSessions : Shows(historyRows, attachmentRows, x, written[x])
        /\ flagRows = switchedOff
    BY DEF StoreInv
  <1>4. \A r \in kept : {b \in attachmentRows' : b.history = r.id} = {b \in attachmentRows : b.history = r.id}
    BY <1>1 DEF Cascade
  <1> HIDE DEF kept
  <1>5. Table(historyRows')
    BY <1>1, <1>3, ResultFacts
  <1>6. ASSUME NEW x \in StoredSessions
        PROVE  written'[x] \in Seq(Items) /\ Shows(historyRows', attachmentRows', x, written'[x])
    <2>1. written[x] \in Seq(Items) /\ Shows(historyRows, attachmentRows, x, written[x])
      BY <1>3
    <2>2. CASE x \in ss
      <3>1. /\ Repaired(written[x]) \in Seq(Items)
            /\ Shows(Mended(historyRows, ss), attachmentRows', x, Repaired(written[x]))
        BY <1>3, <1>4, <2>1, <2>2, ShowsMended DEF kept
      <3> QED
        BY <1>1, <1>2, <2>2, <3>1
    <2>3. CASE x \notin ss
      <3>1. SessionRows(historyRows', x) = SessionRows(historyRows, x)
        <4>1. SessionRows(kept, x) = SessionRows(historyRows, x)
          BY <1>3, <2>3, KeptInFacts DEF kept
        <4>2. \A r \in ResultsIn(historyRows, ss) : r.session # x
          <5>1. \A i \in 1..Len(InOrder(CallsIn(historyRows, ss))) :
                   ResultRow(historyRows, ss, i).session \in ss
            BY <1>3, ResultFacts
          <5>2. InOrder(CallsIn(historyRows, ss)) \in Seq(HRows)
            BY <1>3, ResultFacts
          <5>3. DOMAIN InOrder(CallsIn(historyRows, ss)) = 1..Len(InOrder(CallsIn(historyRows, ss)))
            BY <5>2
          <5> QED
            BY <2>3, <5>1, <5>3 DEF ResultsIn
        <4> QED
          BY <1>1, <4>1, <4>2 DEF Mended, SessionRows, kept
      <3>2. \A r \in SessionRows(historyRows, x) : r \in kept
        BY <2>3 DEF SessionRows, KeptIn, kept
      <3>3. \A r \in SessionRows(historyRows, x) : {b \in attachmentRows' : b.history = r.id}
                              = {b \in attachmentRows : b.history = r.id}
        BY <1>4, <3>2
      <3>4. Shows(historyRows', attachmentRows', x, written[x])
        BY <1>3, <2>1, <3>1, <3>3, ShowsStays
      <3> QED
        BY <1>2, <2>1, <2>3, <3>4
    <2> QED
      BY <2>2, <2>3
  <1>7. written' \in [StoredSessions -> Seq(Items)]
    <2>1. written' = [x \in StoredSessions |-> written'[x]]
      BY <1>2
    <2> QED
      BY <1>6, <2>1
  <1>8. \A a \in attachmentRows' : \E r \in historyRows' : r.id = a.history
    BY <1>1 DEF Cascade, Mended, kept
  <1> QED
    BY <1>3, <1>5, <1>6, <1>7, <1>8 DEF StoreInv

(* Every statement keeps the tables so.                                    *)
LEMMA StoreStep == StoreInv /\ [StoreNext]_storeVars => StoreInv'
  <1> SUFFICES ASSUME StoreInv, [StoreNext]_storeVars PROVE StoreInv'
    OBVIOUS
  <1>1. ASSUME NEW s \in StoredSessions, CreateNewSession(s) PROVE StoreInv'
    BY <1>1 DEF CreateNewSession, StoreInv, pluginVars
  <1>2. ASSUME NEW s \in StoredSessions, DeleteSession(s) PROVE StoreInv'
    BY <1>2, DeleteStep
  <1>3. ASSUME NEW s \in StoredSessions, CleanupSessionHistory(s) PROVE StoreInv'
    BY <1>3, RepairStep DEF CleanupSessionHistory, pluginVars
  <1>4. ASSUME NEW s \in StoredSessions, NEW item \in StoredItems, InsertHistory(s, item) PROVE StoreInv'
    BY <1>4, InsertStep
  <1>5. ASSUME RestoreSessions PROVE StoreInv'
    BY <1>5, RepairStep DEF RestoreSessions, pluginVars
  <1>6. ASSUME NEW p \in StoredPlugins, InsertPlugin(p) PROVE StoreInv'
    BY <1>6 DEF InsertPlugin, StoreInv, historyVars
  <1>7. ASSUME NEW p \in StoredPlugins, RemovePlugin(p) PROVE StoreInv'
    BY <1>7 DEF RemovePlugin, StoreInv, historyVars
  <1>8. ASSUME NEW p \in StoredPlugins, NEW off \in BOOLEAN, TogglePlugin(p, off) PROVE StoreInv'
    BY <1>8 DEF TogglePlugin, StoreInv, historyVars
  <1>9. ASSUME NEW p \in StoredPlugins, NEW c \in Capabilities, NEW off \in BOOLEAN,
               ToggleCapability(p, c, off)
        PROVE  StoreInv'
    BY <1>9 DEF ToggleCapability, StoreInv, historyVars
  <1>10. ASSUME UNCHANGED storeVars PROVE StoreInv'
    BY <1>10 DEF storeVars, StoreInv
  <1> QED
    BY <1>1, <1>2, <1>3, <1>4, <1>5, <1>6, <1>7, <1>8, <1>9, <1>10 DEF StoreNext

(* The calls of a session's rows of a type are those of its items.         *)
ItemCalls(w, t) == {i.call : i \in {j \in ToSet(w) : j.type = t}}
RowCalls(rows, t) == {r.call : r \in {o \in rows : o.type = t}}

LEMMA CallsShown ==
  ASSUME NEW rows, Table(rows), NEW s, NEW att, NEW w \in Seq(Items), Shows(rows, att, s, w), NEW t
  PROVE  ItemCalls(w, t) = RowCalls(SessionRows(rows, s), t)
  <1> DEFINE q == InOrder(SessionRows(rows, s))
  <1>1. /\ q \in Seq(HRows) /\ Members(q, SessionRows(rows, s))
        /\ \A k \in 1..Len(q) : q[k] \in SessionRows(rows, s)
    <2>1. /\ q \in Seq(HRows) /\ Members(q, SessionRows(rows, s))
          /\ \A k \in 1..Len(q) : q[k] \in rows /\ q[k].session = s
      BY SessionFacts
    <2> HIDE DEF q
    <2>2. \A r \in rows : r.session = s => r \in SessionRows(rows, s)
      BY DEF SessionRows
    <2> QED
      BY <2>1, <2>2
  <1>2. Len(w) = Len(q) /\ \A k \in 1..Len(q) : w[k].type = q[k].type /\ w[k].call = q[k].call
    <2>1. Reads(q, att, w)
      BY DEF Shows
    <2> HIDE DEF q
    <2>2. \A k \in 1..Len(q) : ItemOf(att, q[k]).type = q[k].type /\ ItemOf(att, q[k]).call = q[k].call
      BY DEF ItemOf
    <2> QED
      BY <2>1, <2>2 DEF Reads
  <1> HIDE DEF q
  <1>3. \A i : i \in ToSet(w) <=> \E k \in 1..Len(w) : w[k] = i
    BY ToSetFacts
  <1>4. ASSUME NEW i \in ToSet(w) PROVE \E o \in SessionRows(rows, s) : o.type = i.type /\ o.call = i.call
    BY <1>1, <1>2, <1>3
  <1>5. ASSUME NEW o \in SessionRows(rows, s) PROVE \E i \in ToSet(w) : o.type = i.type /\ o.call = i.call
    <2>1. PICK k \in 1..Len(q) : q[k] = o
      BY <1>1 DEF Members
    <2>2. w[k] \in ToSet(w)
      BY <1>2, <1>3, <2>1
    <2> QED
      BY <1>2, <2>1, <2>2
  <1> QED
    BY <1>4, <1>5 DEF ItemCalls, RowCalls

(* A restored call is finished when a result of it is in the table.        *)
Restored(shown, att, results) ==
    [i \in DOMAIN shown |->
        [type |-> shown[i].type, call |-> shown[i].call, images |-> Pictures(att, shown[i]),
         finished |-> shown[i].type = "tool_call" /\ shown[i].call \in results]]

(* The calls that show as finished are those with a result.                *)
LEMMA FinishedCalls ==
  ASSUME NEW some, Table(some), NEW att, NEW results
  PROVE  {r.call : r \in {e \in ToSet(Restored(InOrder(some), att, results)) : e.finished}}
           = results \cap {r.call : r \in {o \in some : o.type = "tool_call"}}
  <1> DEFINE q == InOrder(some)
             z == Restored(q, att, results)
  <1>1. /\ q \in Seq(HRows) /\ Members(q, some)
        /\ \A k \in 1..Len(q) : q[k] \in some
    BY InOrderFacts
  <1> DEFINE entry(k) ==
      [type |-> q[k].type, call |-> q[k].call, images |-> Pictures(att, q[k]),
       finished |-> q[k].type = "tool_call" /\ q[k].call \in results]
  <1> HIDE DEF q
  <1>2. z = [k \in 1..Len(q) |-> entry(k)]
    <2>1. DOMAIN q = 1..Len(q)
      BY <1>1
    <2> QED
      BY <2>1 DEF Restored
  <1>2a. \A k \in 1..Len(q) : entry(k).call = q[k].call
                             /\ (entry(k).finished <=> q[k].type = "tool_call" /\ q[k].call \in results)
    OBVIOUS
  <1> HIDE DEF z, entry
  <1>2b. ToSet(z) = {z[k] : k \in 1..Len(q)}
    <2>1. DOMAIN z = 1..Len(q)
      BY <1>2
    <2> QED
      BY <2>1 DEF ToSet
  <1>3. \A k \in 1..Len(q) : z[k].call = q[k].call
                             /\ (z[k].finished <=> q[k].type = "tool_call" /\ q[k].call \in results)
    BY <1>2, <1>2a
  <1>4. ASSUME NEW e \in ToSet(z), e.finished
        PROVE  e.call \in results /\ \E o \in some : o.type = "tool_call" /\ o.call = e.call
    BY <1>1, <1>2b, <1>3, <1>4
  <1>5. ASSUME NEW o \in some, o.type = "tool_call", o.call \in results
        PROVE  \E e \in ToSet(z) : e.finished /\ e.call = o.call
    <2>1. PICK k \in 1..Len(q) : q[k] = o
      BY <1>1 DEF Members
    <2> QED
      BY <1>2b, <1>3, <1>5, <2>1
  <1>6. {r.call : r \in {e \in ToSet(z) : e.finished}}
           = results \cap {r.call : r \in {o \in some : o.type = "tool_call"}}
    BY <1>4, <1>5
  <1> QED
    BY <1>6 DEF z, q

(* Tables of this kind read back as they were written.                     *)
LEMMA StoreAgrees == StoreInv => TablesAgree
  <1> SUFFICES ASSUME StoreInv PROVE TablesAgree
    OBVIOUS
  <1>1. /\ Table(historyRows) /\ written \in [StoredSessions -> Seq(Items)]
        /\ \A x \in StoredSessions : Shows(historyRows, attachmentRows, x, written[x])
        /\ flagRows = switchedOff
    BY DEF StoreInv
  <1>2. ASSUME NEW s \in StoredSessions
        PROVE  GetHistory(s) = written[s]
    <2> DEFINE q == InOrder(SessionRows(historyRows, s))
    <2>1. GetHistory(s) = [i \in DOMAIN q |-> ItemOf(attachmentRows, q[i])]
      BY DEF GetHistory, RowsOf, SessionRows, ItemOf, Content, Pictures
    <2>2. q \in Seq(HRows) /\ written[s] \in Seq(Items) /\ Reads(q, attachmentRows, written[s])
      BY <1>1, SessionFacts DEF Shows
    <2> HIDE DEF q
    <2> QED
      BY <2>1, <2>2, ReadsIs
  <1>3. ASSUME NEW s \in StoredSessions
        PROVE  LET answered == {i.call : i \in {j \in ToSet(written[s]) : j.type = "tool_result"}}
               IN  {r.call : r \in {e \in ToSet(RestoreHistory(s)) : e.finished}}
                     = answered \cap {i.call : i \in {j \in ToSet(written[s]) : j.type = "tool_call"}}
    <2> DEFINE w == written[s]
               rows == SessionRows(historyRows, s)
               some == {r \in historyRows : r.session = s /\ r.type # "tool_result"}
               results == {r.call : r \in {o \in rows : o.type = "tool_result"}}
    <2>1. RestoreHistory(s) = Restored(InOrder(some), attachmentRows, results)
      <3>1. {o \in historyRows : o.session = s /\ o.type = "tool_result"}
              = {o \in rows : o.type = "tool_result"}
        BY DEF SessionRows
      <3> QED
        BY <3>1 DEF RestoreHistory, Restored, Content, Pictures
    <2>2. Table(some)
      BY <1>1, TableSubset
    <2>3. {o \in some : o.type = "tool_call"} = {o \in rows : o.type = "tool_call"}
      BY DEF SessionRows
    <2>4. w \in Seq(Items) /\ Shows(historyRows, attachmentRows, s, w)
      BY <1>1
    <2> HIDE DEF w, some
    <2>5. /\ {i.call : i \in {j \in ToSet(w) : j.type = "tool_result"}} = results
          /\ {i.call : i \in {j \in ToSet(w) : j.type = "tool_call"}}
               = {r.call : r \in {o \in rows : o.type = "tool_call"}}
      <3>1. ASSUME NEW t
            PROVE  ItemCalls(w, t) = RowCalls(rows, t)
        BY <1>1, <2>4, CallsShown
      <3> QED
        BY <3>1 DEF ItemCalls, RowCalls
    <2> HIDE DEF rows, results
    <2>6. {r.call : r \in {e \in ToSet(RestoreHistory(s)) : e.finished}}
            = results \cap {r.call : r \in {o \in some : o.type = "tool_call"}}
      BY <2>1, <2>2, FinishedCalls
    <2> QED
      BY <2>3, <2>5, <2>6 DEF w
  <1>4. HistoryReadsBack
    BY <1>2, <1>3 DEF HistoryReadsBack
  <1>5. SwitchesDieWithThePlugin
    BY <1>1 DEF SwitchesDieWithThePlugin, ToolSchemas, Schemas, DisabledPlugins
  <1> QED
    BY <1>4, <1>5 DEF TablesAgree

(* The tables read back what was written: every session its items, in their *)
(* order and with their own images although ids are given out again, however *)
(* sessions are written, repaired and deleted; and a plugin offers what was *)
(* not switched off since one of its name was deleted (storage.rs,         *)
(* cleanup_history.sql, the foreign keys and the trigger of init_table.sql). *)
THEOREM TablesAgreeAlways == StoreSpec => []TablesAgree
  <1> QED
    BY StoreStart, StoreStep, StoreAgrees, PTL DEF StoreSpec
==============================================================================
