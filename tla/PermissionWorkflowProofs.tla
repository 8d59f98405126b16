---------------------- MODULE PermissionWorkflowProofs ----------------------
(***************************************************************************)
(* Proofs about the permission gate, for every set of sessions, calls and  *)
(* commands and every verdict of the parser and of the safety tables.      *)
(***************************************************************************)
EXTENDS PermissionWorkflow, WellFoundedInduction, TLAPS

-----------------------------------------------------------------------------
(* What classify returns.                                                  *)

(* decide on one atom: an error or a decision; an Allow comes from the     *)
(* safe-read table or from a stored rule.                                  *)
LEMMA DecideSound ==
  ASSUME NEW a \in Argvs, NEW R, NEW ok \in BOOLEAN
  PROVE  /\ Decide(a, R, ok) \in ArgvDecision \cup {"Err"}
         /\ Decide(a, R, ok) = "Allow" =>
              \/ SafetyOf[a] = "Allow"
              \/ SafetyOf[a] = "Unknown" /\ IsCommandAllowed(R, a)
         /\ Decide(a, R, ok) = "Unknown" => SafetyOf[a] = "Unknown"
         /\ SafetyOf[a] # "Unknown" => Decide(a, R, ok) = SafetyOf[a]
  <1>1. SafetyOf[a] \in ArgvDecision \cup {"Err"}
    BY ClassifyAssumption
  <1>2. CASE SafetyOf[a] # "Unknown"
    BY <1>1, <1>2 DEF Decide
  <1>3. CASE SafetyOf[a] = "Unknown" /\ ~ok
    BY <1>3 DEF Decide
  <1>4. CASE SafetyOf[a] = "Unknown" /\ ok /\ IsCommandAllowed(R, a)
    BY <1>4 DEF Decide, ArgvDecision
  <1>5. CASE SafetyOf[a] = "Unknown" /\ ok /\ ~IsCommandAllowed(R, a)
    BY <1>5 DEF Decide, ArgvDecision
  <1> QED BY <1>2, <1>3, <1>4, <1>5

(* The fold of the composite branch returns one of the decisions, and one  *)
(* that no other decision is stricter than.                                *)
LEMMA StrictestIsStrictest ==
  ASSUME NEW D, D \subseteq ArgvDecision, D # {}
  PROVE  /\ Strictest(D) \in D
         /\ \A e \in D : Severity(e) <= Severity(Strictest(D))
  <1>1. \E d \in D : \A e \in D : Severity(e) <= Severity(d)
    <2>1. CASE "NotExecutable" \in D
      BY <2>1 DEF ArgvDecision, Severity
    <2>2. CASE "NotExecutable" \notin D /\ "AskNoPersist" \in D
      BY <2>2 DEF ArgvDecision, Severity
    <2>3. CASE "NotExecutable" \notin D /\ "AskNoPersist" \notin D /\ "Unknown" \in D
      BY <2>3 DEF ArgvDecision, Severity
    <2>4. CASE D = {"Allow"}
      BY <2>4 DEF Severity
    <2> QED BY <2>1, <2>2, <2>3, <2>4 DEF ArgvDecision
  <1> QED BY <1>1 DEF Strictest

(* What parse_commands returns are argvs, and there is at least one.       *)
LEMMA AtomsAreArgvs ==
  ASSUME NEW cmd \in Commands, ParseOf[cmd].kind = "Some"
  PROVE  /\ ParseOf[cmd].atoms \in Seq(Argvs)
         /\ Len(ParseOf[cmd].atoms) \in Nat \ {0}
         /\ ParseOf[cmd].atoms[1] \in Argvs
         /\ Atoms(cmd) \subseteq Argvs
         /\ Atoms(cmd) # {}
  <1>1. ParseOf[cmd] \in ParseResult /\ Len(ParseOf[cmd].atoms) > 0
    BY ClassifyAssumption
  <1>2. ParseOf[cmd].atoms \in Seq(Argvs)
    BY <1>1 DEF ParseResult
  <1> DEFINE as == ParseOf[cmd].atoms
  <1>3. Len(as) \in Nat /\ Len(as) > 0 /\ as \in [1..Len(as) -> Argvs]
    BY <1>1, <1>2
  <1>4. 1 \in 1..Len(as)
    BY <1>3
  <1>5. Atoms(cmd) = {as[i] : i \in 1..Len(as)}
    BY DEF Atoms
  <1> HIDE DEF as
  <1>6. Atoms(cmd) \subseteq Argvs /\ as[1] \in Atoms(cmd)
    BY <1>3, <1>4, <1>5
  <1> QED BY <1>2, <1>3, <1>4, <1>6 DEF as

(* Everything the gate needs to know of a verdict.                         *)
VerdictFacts(cmd, R, v) ==
    /\ v \in Verdicts
    /\ v.decision # "NotExecutable" => ~IsForbidden(cmd)
    /\ v.type = "Composite" => ~IsSimple(cmd)
    /\ v.type = "Simple" => IsSimple(cmd)
    /\ v.type = "Simple" /\ v.decision = "Unknown" => IsOrdinary(cmd)
    /\ v.decision = "Allow" =>
         /\ ParseOf[cmd].kind = "Some"
         /\ JudgedArgvs(cmd) # {}
         /\ \A a \in JudgedArgvs(cmd) :
              \/ SafetyOf[a] = "Allow"
              \/ SafetyOf[a] = "Unknown" /\ IsCommandAllowed(R, a)

(* classify: an Allow verdict clears every judged part, a persistable one  *)
(* is an ordinary single command, and a forbidden command is never asked.  *)
LEMMA ClassifySound ==
  ASSUME NEW cmd \in Commands, NEW R, NEW ok \in BOOLEAN,
         Classify(cmd, R, ok) # ClassifyErr
  PROVE  VerdictFacts(cmd, R, Classify(cmd, R, ok))
  <1> DEFINE v == Classify(cmd, R, ok)
  <1>0. ParseOf[cmd] \in ParseResult /\ cmd \in Argvs
    BY ClassifyAssumption
  <1>1. CASE ParseOf[cmd].kind = "None"
    <2>1. v = ClassifyUnparsed(cmd)
      BY <1>1 DEF Classify
    <2>2. JudgedArgvs(cmd) = {cmd}
      BY <1>1 DEF JudgedArgvs
    <2> QED
      BY <1>0, <1>1, <2>1, <2>2, ClassifyAssumption
      DEF ClassifyUnparsed, Verdict, Verdicts, VerdictFacts, IsForbidden, IsMalformed,
          IsSimple, ArgvDecision, CommandType
  <1>2. CASE ParseOf[cmd].kind = "Some" /\ Len(ParseOf[cmd].atoms) = 1
    <2> DEFINE atom == ParseOf[cmd].atoms[1]
               strip == StripOf[atom]
    <2>1. atom \in Argvs /\ strip \in StripResult
      BY <1>2, AtomsAreArgvs, ClassifyAssumption
    <2>2. v = ClassifySimple(atom, R, ok)
      BY <1>2 DEF Classify
    <2>3. strip.kind # "Malformed"
      BY <2>2 DEF ClassifySimple, ClassifyErr
    <2>4. CASE strip.kind = "Unsure"
      <3>1. JudgedArgvs(cmd) = {}
        BY <1>2, <2>4 DEF JudgedArgvs
      <3>2. v = Verdict("Composite", "AskNoPersist")
        BY <2>2, <2>4 DEF ClassifySimple
      <3> QED
        BY <1>2, <2>4, <3>1, <3>2
        DEF Verdict, Verdicts, VerdictFacts, IsForbidden, IsMalformed, IsSimple,
            ArgvDecision, CommandType
    <2>5. CASE strip.kind = "Inner"
      <3>1. strip.argv \in Argvs
        BY <2>1, <2>5 DEF StripResult
      <3>2. JudgedArgvs(cmd) = {strip.argv}
        <4>1. strip = [kind |-> "Inner", argv |-> strip.argv]
          BY <2>1, <2>5 DEF StripResult
        <4>2. JudgedArgvs(cmd) = {a \in Argvs : strip = [kind |-> "Inner", argv |-> a]}
          BY <1>2 DEF JudgedArgvs
        <4> QED BY <3>1, <4>1, <4>2
      <3>3. v = Verdict("Simple", Decide(strip.argv, R, ok)) /\ Decide(strip.argv, R, ok) # "Err"
        BY <2>2, <2>5 DEF ClassifySimple
      <3> QED
        BY <1>2, <2>5, <3>1, <3>2, <3>3, DecideSound
        DEF Verdict, Verdicts, VerdictFacts, IsForbidden, IsMalformed, IsSimple,
            IsOrdinary, ArgvDecision, CommandType
    <2> QED BY <2>1, <2>3, <2>4, <2>5 DEF StripResult
  <1>3. CASE ParseOf[cmd].kind = "Some" /\ Len(ParseOf[cmd].atoms) # 1
    <2> DEFINE ds == {Decide(a, R, ok) : a \in Atoms(cmd)}
    <2>1. Atoms(cmd) \subseteq Argvs /\ Atoms(cmd) # {} /\ Len(ParseOf[cmd].atoms) > 1
      <3>1. Atoms(cmd) \subseteq Argvs /\ Atoms(cmd) # {} /\ Len(ParseOf[cmd].atoms) \in Nat \ {0}
        BY <1>3, AtomsAreArgvs
      <3>2. \A n \in Nat \ {0} : n # 1 => n > 1
        OBVIOUS
      <3>3. Len(ParseOf[cmd].atoms) > 1
        BY <1>3, <3>1, <3>2, Zenon
      <3> QED BY <3>1, <3>3
    <2>2. v = ClassifyComposite(Atoms(cmd), R, ok)
      BY <1>3 DEF Classify
    <2>3. "Err" \notin ds
      BY <2>2 DEF ClassifyComposite
    <2>4. ds \subseteq ArgvDecision /\ ds # {}
      BY <2>1, <2>3, DecideSound
    <2>5. /\ Strictest(ds) \in ds
          /\ \A e \in ds : Severity(e) <= Severity(Strictest(ds))
      BY <2>4, StrictestIsStrictest
    <2>6. v = Verdict("Composite", IF Strictest(ds) = "Unknown" THEN "AskNoPersist"
                                   ELSE Strictest(ds))
      BY <2>2, <2>3 DEF ClassifyComposite
    <2>7. JudgedArgvs(cmd) = Atoms(cmd)
      BY <1>3, <2>1 DEF JudgedArgvs
    <2>8. Strictest(ds) # "NotExecutable" => "NotExecutable" \notin ds
      BY <2>4, <2>5 DEF ArgvDecision, Severity
    <2>9. Strictest(ds) = "Allow" => ds = {"Allow"}
      BY <2>4, <2>5 DEF ArgvDecision, Severity
    <2>10. \A a \in Atoms(cmd) : SafetyOf[a] # "Err"
      BY <2>1, <2>3, DecideSound
    <2>11. Strictest(ds) # "NotExecutable" => ~IsForbidden(cmd)
      BY <1>3, <2>1, <2>7, <2>8, <2>10, DecideSound DEF IsForbidden, IsMalformed
    <2>12. Strictest(ds) = "Allow" => \A a \in Atoms(cmd) :
               \/ SafetyOf[a] = "Allow"
               \/ SafetyOf[a] = "Unknown" /\ IsCommandAllowed(R, a)
      BY <2>1, <2>9, DecideSound
    <2>13. ~IsSimple(cmd)
      BY <1>3 DEF IsSimple
    <2> QED
      BY <1>3, <2>1, <2>4, <2>5, <2>6, <2>7, <2>11, <2>12, <2>13
      DEF Verdict, Verdicts, VerdictFacts, ArgvDecision, CommandType
  <1>4. ParseOf[cmd].kind # "Err"
    BY DEF Classify, ClassifyErr
  <1> QED BY <1>0, <1>1, <1>2, <1>3, <1>4 DEF ParseResult

-----------------------------------------------------------------------------
(* The inductive invariant: what ties a call's request, its future, its    *)
(* task and the user's answers together.                                   *)

(* A request in the map agrees with the call, was judged in the current    *)
(* epoch of a known session, and has a deadline exactly when resolved.     *)
TrackedOK(c) ==
    Tracked(c) =>
        /\ future[c] \in {"pending"} \cup PermissionState
        /\ request[c].session = origin[c].session
        /\ request[c].command = origin[c].command
        /\ era[c] = epoch[origin[c].session]
        /\ sessionPermission[origin[c].session].known
        /\ request[c].evictAt = Never <=> future[c] = "pending"

(* Only commands that may run at all are left to the user, and the verdict *)
(* on which the options depend tells the truth about them.                 *)
PendingOK(c) ==
    future[c] = "pending" =>
        /\ Tracked(c)
        /\ ~IsForbidden(origin[c].command)
        /\ request[c].verdict.type = "Composite" => ~IsSimple(origin[c].command)
        /\ request[c].verdict.type = "Simple" /\ request[c].verdict.decision = "Unknown"
             => IsOrdinary(origin[c].command)

CallOK(c) ==
    /\ task[c] = "absent" => future[c] = "none" /\ c \notin inbox
    /\ c \in inbox => future[c] = "none" /\ origin[c] \in Origins
    /\ future[c] = "none" => request[c] = NoRequest
    /\ future[c] # "none" => origin[c] \in Origins
    /\ TrackedOK(c)
    /\ PendingOK(c)
    /\ future[c] = "Allow" => Grounded(c)
    /\ task[c] = "ran" => future[c] = "Allow"

(* An answer that took effect is the value of the future, for good.        *)
DecidedOK ==
    \A d \in decided : future[d.call] = IF d.kind = "Deny" THEN "Deny" ELSE "Allow"

OfferedOK ==
    \A o \in offered :
        /\ future[o.call] # "none"
        /\ o.choice.kind = "Allow" => IsOrdinary(origin[o.call].command)

StoredOK ==
    /\ \A e \in stored : future[e.call] = "Allow" /\ IsOrdinary(origin[e.call].command)
    /\ rules \subseteq StoredRules

(* The approvals a session holds were given in it, in its current epoch.   *)
GivenIn(s, d) ==
    d \in decided /\ origin[d.call].session = s /\ era[d.call] = epoch[s]
SessionOK(s) ==
    /\ sessionPermission[s].always =>
         \E d \in decided : GivenIn(s, d) /\ d.kind = "IgnorePermission"
    /\ \A line \in sessionPermission[s].allowlist :
         \E d \in decided : /\ GivenIn(s, d)
                            /\ d.kind = "AllowSession"
                            /\ Join(origin[d.call].command) = line

GateInv ==
    /\ TypeOK
    /\ \A c \in Calls : CallOK(c)
    /\ DecidedOK
    /\ OfferedOK
    /\ StoredOK
    /\ \A s \in Sessions : SessionOK(s)

-----------------------------------------------------------------------------
(* Facts the actions share.                                                *)

(* The options of a pending request are well-formed, and only an ordinary  *)
(* command is offered for future matching calls.                           *)
LEMMA OptionsSound ==
  ASSUME NEW cmd \in Commands, NEW v \in Verdicts,
         v.type = "Simple" /\ v.decision = "Unknown" => IsOrdinary(cmd)
  PROVE  /\ Options(cmd, v) \subseteq Choice
         /\ \A ch \in Options(cmd, v) : ch.kind = "Allow" => IsOrdinary(cmd)
  <1>1. CASE v.type = "Composite" \/ v.decision = "AskNoPersist"
    BY <1>1 DEF Options, UnsafeOptions, Choice
  <1>2. CASE ~(v.type = "Composite" \/ v.decision = "AskNoPersist") /\ v.decision = "Unknown"
    <2> DEFINE strip == StripOf[ParseOf[cmd].atoms[1]]
    <2>1. IsOrdinary(cmd)
      BY <1>2 DEF Verdicts, CommandType
    <2>2. strip \in StripResult /\ strip.kind = "Inner"
      BY <2>1, AtomsAreArgvs, ClassifyAssumption DEF IsOrdinary, IsSimple
    <2>3. strip.argv \in Argvs /\ strip = [kind |-> "Inner", argv |-> strip.argv]
      BY <2>2 DEF StripResult
    <2>4. strip.argv \in JudgedArgvs(cmd)
      BY <2>1, <2>3 DEF IsOrdinary, IsSimple, JudgedArgvs
    <2>5. SafetyOf[strip.argv] = "Unknown"
      BY <2>1, <2>4 DEF IsOrdinary
    <2>6. strip.argv \in Seq(Seq(Words)) /\ Len(strip.argv) > 0
      BY <2>3, <2>5, ClassifyAssumption
    <2>7. GlobOptions(strip.argv) \subseteq [kind : {"Allow"}, rule : Rule]
      <3> DEFINE argv == strip.argv
      <3>1. argv[1] \in Seq(Words) /\ (Len(argv) > 1 => argv[2] \in Seq(Words))
        BY <2>6
      <3>2. Len(argv) > 1 => argv[1] \o argv[2] \in Seq(Words)
        BY <3>1
      <3> DEFINE allow(words) == [kind |-> "Allow",
                                  rule |-> [prefix |-> words, glob |-> TRUE]]
      <3>3. \A w \in Seq(Words) : allow(w) \in [kind : {"Allow"}, rule : Rule]
        BY DEF Rule, Lines
      <3>4. \A o \in GlobOptions(argv) :
               o = allow(argv[1]) \/ (Len(argv) > 1 /\ o = allow(argv[1] \o argv[2]))
        BY DEF GlobOptions
      <3> HIDE DEF allow, argv
      <3> QED BY <3>1, <3>2, <3>3, <3>4 DEF argv
    <2>8. Options(cmd, v) = [kind : {"AllowOnce", "Deny"}] \cup GlobOptions(strip.argv)
      BY <1>2 DEF Options
    <2> QED BY <2>1, <2>7, <2>8 DEF Choice
  <1>3. CASE ~(v.type = "Composite" \/ v.decision = "AskNoPersist") /\ v.decision # "Unknown"
    BY <1>3 DEF Options
  <1> QED BY <1>1, <1>2, <1>3

(* The grounds of a call only grow.                                        *)
LEMMA GroundedStays ==
  ASSUME NEW c \in Calls, Grounded(c),
         decided \subseteq decided', stored \subseteq stored',
         origin'[c] = origin[c], era'[c] = era[c],
         \A d \in decided : origin'[d.call] = origin[d.call] /\ era'[d.call] = era[d.call]
  PROVE  Grounded(c)'
  <1>1. CASE UserAllowed(c)
    BY <1>1 DEF UserAllowed, Grounded
  <1>2. CASE IsCleared(origin[c].command)
    <2>1. StoredRules \subseteq StoredRules'
      BY DEF StoredRules
    <2>2. IsCleared(origin[c].command)'
      BY <1>2, <2>1 DEF IsCleared, IsCommandAllowed
    <2> QED BY <2>2 DEF Grounded
  <1>3. CASE HasSessionGrant(c)
    <2>1. HasSessionGrant(c)'
      BY <1>3 DEF HasSessionGrant
    <2> QED BY <2>1 DEF Grounded
  <1> QED BY <1>1, <1>2, <1>3 DEF Grounded


(* A step that leaves the futures, the requests and the history of a call  *)
(* alone keeps what is known of it.                                        *)
LEMMA CallFrame ==
  ASSUME NEW c \in Calls, CallOK(c),
         request'[c] = request[c], future'[c] = future[c], origin'[c] = origin[c],
         era'[c] = era[c],
         decided \subseteq decided', stored \subseteq stored',
         \A d \in decided : origin'[d.call] = origin[d.call] /\ era'[d.call] = era[d.call],
         c \in inbox' => c \in inbox,
         task'[c] = "absent" => task[c] = "absent",
         task'[c] = "ran" => task[c] = "ran" \/ future[c] = "Allow",
         Tracked(c) => /\ epoch'[origin[c].session] = epoch[origin[c].session]
                       /\ sessionPermission'[origin[c].session].known
  PROVE  CallOK(c)'
  <1>1. future[c] = "Allow" => Grounded(c)'
    BY GroundedStays DEF CallOK
  <1>2. TrackedOK(c)'
    BY DEF CallOK, TrackedOK, Tracked
  <1>3. PendingOK(c)'
    BY DEF CallOK, PendingOK, Tracked
  <1> QED BY <1>1, <1>2, <1>3 DEF CallOK

(* The steps of ToolController::exec and authorize, and the aborts of the  *)
(* turn manager, preserve the invariant.                                   *)
LEMMA TaskSteps ==
  ASSUME GateInv, NEW c \in Calls,
         RefuseUnauthorized(c) \/ WaitDecision(c) \/ Authorize(c) \/ Abort(c)
  PROVE  GateInv'
  <1>1. /\ UNCHANGED <<workflowVars, origin, history>>
        /\ \E p \in {"waiting", "refused", "aborted", "ran"} :
             /\ task' = [task EXCEPT ![c] = p]
             /\ p = "ran" => future[c] = "Allow"
    BY DEF RefuseUnauthorized, WaitDecision, Authorize, Abort
  <1>2. TypeOK'
    BY <1>1 DEF GateInv, TypeOK, workflowVars, history
  <1>3. ASSUME NEW b \in Calls PROVE CallOK(b)'
    <2>1. CallOK(b) /\ task \in [Calls -> {"absent", "sent", "streamed", "waiting",
                       "ran", "refused", "aborted"}]
      BY DEF GateInv, TypeOK
    <2>2. /\ task'[b] = "absent" => task[b] = "absent"
          /\ task'[b] = "ran" => task[b] = "ran" \/ future[b] = "Allow"
      BY <1>1, <2>1
    <2>3. Tracked(b) => sessionPermission[origin[b].session].known
      BY <2>1 DEF CallOK, TrackedOK
    <2> QED BY <1>1, <2>1, <2>2, <2>3, CallFrame DEF workflowVars, history
  <1>4. DecidedOK' /\ OfferedOK' /\ StoredOK' /\ \A s \in Sessions : SessionOK(s)'
    BY <1>1 DEF GateInv, DecidedOK, OfferedOK, StoredOK, StoredRules, SessionOK, GivenIn,
                workflowVars, history
  <1> QED BY <1>2, <1>3, <1>4 DEF GateInv

(* A tool call that appears in a provider's answer preserves the invariant. *)
LEMMA AppearsSteps ==
  ASSUME GateInv, NEW c \in Calls, NEW s \in Sessions, NEW cmd \in Commands,
         CallAppears(c, s, cmd) \/ UngatedCallAppears(c, s, cmd)
  PROVE  GateInv'
  <1>1. /\ task[c] = "absent"
        /\ origin' = [origin EXCEPT ![c] = [kind |-> "Call", session |-> s, command |-> cmd]]
        /\ inbox' \in {inbox, inbox \cup {c}}
        /\ \E p \in {"sent", "streamed"} : task' = [task EXCEPT ![c] = p]
        /\ UNCHANGED <<rules, sessionPermission, request, future, offered, now, history>>
    BY DEF CallAppears, UngatedCallAppears, workflowVars
  <1>2. /\ future[c] = "none" /\ c \notin inbox /\ request[c] = NoRequest
        /\ origin'[c] \in Origins
        /\ \A b \in Calls \ {c} : origin'[b] = origin[b]
    BY <1>1 DEF GateInv, TypeOK, CallOK, Origins
  <1>3. TypeOK'
    BY <1>1 DEF GateInv, TypeOK, history, Origins
  <1>4. \A d \in decided : d.call # c /\ origin'[d.call] = origin[d.call]
    BY <1>2 DEF GateInv, TypeOK, DecidedOK, Granting
  <1>5. ASSUME NEW b \in Calls PROVE CallOK(b)'
    <2>1. CASE b = c
      BY <1>1, <1>2, <2>1 DEF CallOK, TrackedOK, PendingOK, Tracked, TypeOK, GateInv
    <2>2. CASE b # c
      <3>1. CallOK(b) /\ task'[b] = task[b] /\ origin'[b] = origin[b]
        BY <1>1, <1>2, <2>2 DEF GateInv, TypeOK
      <3>2. Tracked(b) => sessionPermission[origin[b].session].known
        BY <3>1 DEF CallOK, TrackedOK
      <3>3. task[b] = "ran" => future[b] = "Allow"
        BY <3>1 DEF CallOK
      <3> QED BY <1>1, <1>4, <2>2, <3>1, <3>2, <3>3, CallFrame DEF history
    <2> QED BY <2>1, <2>2
  <1>6. DecidedOK'
    BY <1>1 DEF GateInv, DecidedOK, history
  <1>7. OfferedOK'
    BY <1>1, <1>2 DEF GateInv, TypeOK, OfferedOK
  <1>8. StoredOK'
    BY <1>1, <1>2 DEF GateInv, TypeOK, StoredOK, StoredRules, history
  <1>9. \A t \in Sessions : SessionOK(t)'
    BY <1>1, <1>4 DEF GateInv, SessionOK, GivenIn, history
  <1> QED BY <1>3, <1>5, <1>6, <1>7, <1>8, <1>9 DEF GateInv


(* The handler of InitPermissionWorkflow: whatever it completes the future *)
(* with, an Allow has its ground and a pending request may be answered.    *)
LEMMA InitStep ==
  ASSUME GateInv, NEW c \in Calls, NEW ok \in BOOLEAN, InitPermissionWorkflow(c, ok)
  PROVE  GateInv'
  <1> DEFINE s == origin[c].session
             cmd == origin[c].command
             v == Classify(cmd, rules, ok)
             state == PreResolve(v, SessionAllows(s, cmd))
             kept == IF v.kind = "Ok" THEN v ELSE Verdict("Composite", "NotExecutable")
  <1>1. /\ c \in inbox /\ future[c] = "none" /\ request[c] = NoRequest
        /\ origin[c] \in Origins /\ s \in Sessions /\ cmd \in Commands
    BY DEF InitPermissionWorkflow, GateInv, CallOK, Origins
  <1>2. /\ inbox' = inbox \ {c}
        /\ sessionPermission' = [sessionPermission EXCEPT ![s].known = TRUE]
        /\ request' = [request EXCEPT ![c] =
             [kind |-> "Request", session |-> s, command |-> cmd, verdict |-> kept,
              evictAt |-> IF state = "pending" THEN Never ELSE now + Ttl]]
        /\ future' = [future EXCEPT ![c] = state]
        /\ task' = [task EXCEPT ![c] = IF @ = "sent" THEN "streamed" ELSE @]
        /\ era' = [era EXCEPT ![c] = epoch[s]]
        /\ UNCHANGED <<rules, offered, now, origin, decided, stored, epoch>>
    BY DEF InitPermissionWorkflow
  <1>3. v = ClassifyErr \/ VerdictFacts(cmd, rules, v)
    BY <1>1, ClassifySound
  <1>4. /\ kept \in Verdicts
        /\ v = ClassifyErr => state = "Error"
        /\ v # ClassifyErr => kept = v /\ v \in Verdicts
    BY <1>3 DEF VerdictFacts, Verdicts, ClassifyErr, Verdict, CommandType, ArgvDecision,
                PreResolve
  <1>5. state \in {"pending"} \cup PermissionState
    BY DEF PreResolve, PermissionState
  <1> HIDE DEF v, state, kept
  <1>6. TypeOK'
    <2>1. now + Ttl \in Nat
      BY WorkflowAssumption DEF GateInv, TypeOK
    <2>2. request' \in [Calls -> Requests \cup {NoRequest}]
      BY <1>1, <1>2, <1>4, <2>1 DEF GateInv, TypeOK, Requests, Never
    <2>3. sessionPermission' \in [Sessions -> SessionEntry]
      BY <1>1, <1>2 DEF GateInv, TypeOK, SessionEntry
    <2>4. task' \in [Calls -> {"absent", "sent", "streamed", "waiting",
                       "ran", "refused", "aborted"}]
      BY <1>2 DEF GateInv, TypeOK
    <2> QED BY <1>1, <1>2, <1>5, <2>2, <2>3, <2>4 DEF GateInv, TypeOK
  <1>7. \A d \in decided : d.call # c /\ era'[d.call] = era[d.call]
    BY <1>1, <1>2 DEF GateInv, TypeOK, DecidedOK
  <1>8. \A t \in Sessions : /\ sessionPermission'[t].always = sessionPermission[t].always
                            /\ sessionPermission'[t].allowlist = sessionPermission[t].allowlist
                            /\ sessionPermission[t].known => sessionPermission'[t].known
    BY <1>1, <1>2 DEF GateInv, TypeOK, SessionEntry
  <1>9. state = "Allow" => Grounded(c)'
    <2> SUFFICES ASSUME state = "Allow" PROVE Grounded(c)'
      OBVIOUS
    <2>1. /\ v \in Verdicts /\ VerdictFacts(cmd, rules, v)
          /\ \/ v.decision = "Allow"
             \/ /\ v.decision # "NotExecutable" /\ v.type = "Composite"
                /\ SessionAllows(s, cmd)
      BY <1>3, <1>4 DEF PreResolve, state, Verdicts
    <2>2. ~IsForbidden(cmd)
      BY <2>1 DEF VerdictFacts
    <2>3. CASE v.decision = "Allow"
      <3>1. rules \subseteq StoredRules /\ StoredRules' = StoredRules
        BY <1>2 DEF GateInv, StoredOK, StoredRules
      <3>2. IsCleared(cmd)'
        BY <1>2, <2>1, <2>3, <3>1 DEF VerdictFacts, IsCleared, IsCommandAllowed
      <3> QED BY <1>2, <2>2, <3>2 DEF Grounded
    <2>4. CASE v.type = "Composite" /\ SessionAllows(s, cmd)
      <3>1. ~IsSimple(cmd)
        BY <2>1, <2>4 DEF VerdictFacts
      <3>2. era'[c] = epoch[s]
        BY <1>1, <1>2 DEF GateInv, TypeOK
      <3>3. PICK d \in decided :
              /\ GivenIn(s, d)
              /\ \/ d.kind = "IgnorePermission"
                 \/ d.kind = "AllowSession" /\ Join(origin[d.call].command) = Join(cmd)
        BY <1>1, <2>4 DEF GateInv, SessionOK, SessionAllows
      <3>4. /\ origin'[d.call].session = origin'[c].session
            /\ era'[d.call] = era'[c]
        BY <1>2, <1>7, <3>2, <3>3 DEF GivenIn
      <3>5. HasSessionGrant(c)'
        BY <1>2, <3>1, <3>3, <3>4 DEF HasSessionGrant
      <3> QED BY <1>2, <2>2, <3>5 DEF Grounded
    <2> QED BY <2>1, <2>3, <2>4
  <1>10. ASSUME NEW b \in Calls PROVE CallOK(b)'
    <2>1. CASE b = c
      <3>1. /\ request'[c] = [kind |-> "Request", session |-> s, command |-> cmd,
                  verdict |-> kept,
                  evictAt |-> IF state = "pending" THEN Never ELSE now + Ttl]
            /\ future'[c] = state /\ era'[c] = epoch[s] /\ c \notin inbox'
            /\ task'[c] = IF task[c] = "sent" THEN "streamed" ELSE task[c]
            /\ sessionPermission'[s].known
        BY <1>1, <1>2 DEF GateInv, TypeOK, SessionEntry
      <3>2. task[c] # "absent" /\ task[c] # "ran"
        BY <1>1 DEF GateInv, CallOK
      <3>3. now + Ttl # Never
        BY WorkflowAssumption DEF GateInv, TypeOK, Never
      <3>4. TrackedOK(c)'
        BY <1>2, <1>5, <3>1, <3>3 DEF TrackedOK, Tracked, NoRequest
      <3>5. PendingOK(c)'
        <4> SUFFICES ASSUME state = "pending" PROVE PendingOK(c)'
          BY <3>1 DEF PendingOK
        <4>1. /\ VerdictFacts(cmd, rules, v) /\ kept = v
              /\ v.decision # "NotExecutable"
          BY <1>3, <1>4 DEF PreResolve, state, Verdicts
        <4> QED BY <1>2, <3>1, <4>1 DEF PendingOK, VerdictFacts, Tracked, NoRequest
      <3>6. state # "none"
        BY <1>5 DEF PermissionState
      <3> QED BY <1>1, <1>2, <1>9, <2>1, <3>1, <3>2, <3>4, <3>5, <3>6 DEF CallOK
    <2>2. CASE b # c
      <3>1. /\ CallOK(b) /\ task'[b] = task[b] /\ request'[b] = request[b]
            /\ future'[b] = future[b] /\ era'[b] = era[b]
        BY <1>1, <1>2, <2>2 DEF GateInv, TypeOK
      <3>2. Tracked(b) => sessionPermission'[origin[b].session].known
        <4> SUFFICES ASSUME Tracked(b) PROVE sessionPermission'[origin[b].session].known
          OBVIOUS
        <4>1. origin[b].session \in Sessions
          BY <3>1 DEF CallOK, TrackedOK, PermissionState, Origins
        <4> QED BY <1>8, <3>1, <4>1 DEF CallOK, TrackedOK
      <3> QED BY <1>2, <1>7, <2>2, <3>1, <3>2, CallFrame
    <2> QED BY <2>1, <2>2
  <1>11. DecidedOK'
    BY <1>1, <1>2, <1>7 DEF GateInv, TypeOK, DecidedOK
  <1>12. OfferedOK'
    BY <1>1, <1>2, <1>5 DEF GateInv, TypeOK, OfferedOK, PermissionState
  <1>13. StoredOK'
    BY <1>1, <1>2 DEF GateInv, TypeOK, StoredOK, StoredRules
  <1>14. \A t \in Sessions : SessionOK(t)'
    BY <1>2, <1>7, <1>8 DEF GateInv, SessionOK, GivenIn
  <1> QED BY <1>6, <1>10, <1>11, <1>12, <1>13, <1>14 DEF GateInv


(* handle_check_decision, which hands out the options, preserves the       *)
(* invariant.                                                              *)
LEMMA CheckDecisionStep ==
  ASSUME GateInv, NEW c \in Calls, CheckDecision(c)
  PROVE  GateInv'
  <1>1. /\ CallOK(c) /\ Tracked(c) /\ future[c] = "pending"
        /\ UNCHANGED <<rules, sessionPermission, request, future, inbox, now, taskVars, history>>
    BY DEF CheckDecision, Pending, GateInv
  <1>2. /\ request[c] \in Requests /\ request[c].command = origin[c].command
        /\ request[c].verdict.type = "Simple" /\ request[c].verdict.decision = "Unknown"
             => IsOrdinary(request[c].command)
    BY <1>1 DEF GateInv, TypeOK, CallOK, TrackedOK, PendingOK, Tracked
  <1>3. /\ Options(request[c].command, request[c].verdict) \subseteq Choice
        /\ \A ch \in Options(request[c].command, request[c].verdict) :
             ch.kind = "Allow" => IsOrdinary(origin[c].command)
    BY <1>2, OptionsSound DEF Requests
  <1>4. offered' = offered \cup {[call |-> c, choice |-> ch] :
                                   ch \in Options(request[c].command, request[c].verdict)}
    BY DEF CheckDecision
  <1>5. TypeOK'
    BY <1>1, <1>3, <1>4 DEF GateInv, TypeOK, taskVars, history
  <1>6. ASSUME NEW b \in Calls PROVE CallOK(b)'
    <2>1. CallOK(b) /\ (Tracked(b) => sessionPermission[origin[b].session].known)
            /\ (task[b] = "ran" => future[b] = "Allow")
      BY DEF GateInv, CallOK, TrackedOK
    <2> QED BY <1>1, <2>1, CallFrame DEF taskVars, history
  <1>7. OfferedOK'
    BY <1>1, <1>3, <1>4 DEF GateInv, OfferedOK, taskVars
  <1>8. DecidedOK' /\ StoredOK' /\ \A s \in Sessions : SessionOK(s)'
    BY <1>1 DEF GateInv, DecidedOK, StoredOK, StoredRules, SessionOK, GivenIn, taskVars, history
  <1> QED BY <1>5, <1>6, <1>7, <1>8 DEF GateInv

(* An answer that takes effect.  kind is the answer, state what the future *)
(* is completed with; what the answer stores is given by the other         *)
(* variables, and must be justified by the answer itself.                  *)
LEMMA AnswerStep ==
  ASSUME GateInv, NEW c \in Calls, Pending(c),
         NEW kind \in Granting \cup {"Deny"}, NEW state,
         state = (IF kind = "Deny" THEN "Deny" ELSE "Allow"),
         Resolve(c, state), Decides(c, kind),
         UNCHANGED <<inbox, offered, now, taskVars, epoch, era>>,
         sessionPermission' \in [Sessions -> SessionEntry],
         \A s \in Sessions :
           /\ sessionPermission[s].known => sessionPermission'[s].known
           /\ sessionPermission'[s].always => \/ sessionPermission[s].always
                                              \/ s = origin[c].session /\ kind = "IgnorePermission"
           /\ \A line \in sessionPermission'[s].allowlist :
                \/ line \in sessionPermission[s].allowlist
                \/ /\ s = origin[c].session /\ kind = "AllowSession"
                   /\ line = Join(origin[c].command),
         rules' \subseteq Rule, stored \subseteq stored',
         stored' \subseteq [rule : Rule, call : Calls],
         rules' \subseteq {e.rule : e \in stored'},
         \A e \in stored' \ stored :
           e.call = c /\ state = "Allow" /\ IsOrdinary(origin[c].command)
  PROVE  GateInv'
  <1>1. /\ CallOK(c) /\ Tracked(c) /\ future[c] = "pending" /\ origin[c] \in Origins
        /\ request[c] \in Requests /\ ~IsForbidden(origin[c].command)
    BY DEF Pending, GateInv, CallOK, PendingOK, TypeOK, Tracked
  <1>2. /\ future' = [future EXCEPT ![c] = state]
        /\ request' = [request EXCEPT ![c].evictAt = now + Ttl]
        /\ decided' = decided \cup {[call |-> c, kind |-> kind]}
    BY DEF Resolve, Decides
  <1>3. now + Ttl \in Nat
    BY WorkflowAssumption DEF GateInv, TypeOK
  <1>4. TypeOK'
    <2>1. request' \in [Calls -> Requests \cup {NoRequest}]
      BY <1>1, <1>2, <1>3 DEF GateInv, TypeOK, Requests
    <2>2. future' \in [Calls -> {"none", "pending", "dropped"} \cup PermissionState]
      BY <1>2 DEF GateInv, TypeOK, PermissionState
    <2>3. decided' \subseteq [call : Calls, kind : Granting \cup {"Deny"}]
      BY <1>2 DEF GateInv, TypeOK
    <2> QED BY <2>1, <2>2, <2>3 DEF GateInv, TypeOK, taskVars
  <1>5. state = "Allow" => Grounded(c)'
    <2> SUFFICES ASSUME kind \in Granting PROVE Grounded(c)'
      OBVIOUS
    <2>1. UserAllowed(c)'
      BY <1>2 DEF UserAllowed
    <2> QED BY <1>1, <2>1 DEF Grounded, taskVars
  <1>6. ASSUME NEW b \in Calls PROVE CallOK(b)'
    <2>1. CASE b = c
      <3>1. /\ request'[c].session = request[c].session
            /\ request'[c].command = request[c].command
            /\ request'[c].evictAt = now + Ttl
            /\ request'[c] # NoRequest /\ future'[c] = state
        BY <1>1, <1>2, <1>3 DEF GateInv, TypeOK, Requests, NoRequest
      <3>2. now + Ttl # Never
        BY <1>3 DEF Never
      <3>3. state \in PermissionState /\ state # "pending" /\ state # "none"
        BY DEF PermissionState
      <3>4. origin[c].session \in Sessions
        BY <1>1 DEF Origins
      <3>5. TrackedOK(c)'
        BY <1>1, <3>1, <3>2, <3>3, <3>4 DEF TrackedOK, CallOK, Tracked, taskVars
      <3>6. task[c] # "ran" /\ task[c] # "absent" /\ c \notin inbox
        BY <1>1 DEF CallOK
      <3> QED BY <1>1, <1>5, <2>1, <3>1, <3>3, <3>5, <3>6 DEF CallOK, PendingOK, taskVars
    <2>2. CASE b # c
      <3>1. CallOK(b) /\ request'[b] = request[b] /\ future'[b] = future[b]
        BY <1>2, <2>2 DEF GateInv, TypeOK
      <3>2. Tracked(b) => sessionPermission'[origin[b].session].known
        BY <3>1 DEF CallOK, TrackedOK, PermissionState, Origins
      <3> QED BY <1>2, <3>1, <3>2, CallFrame DEF CallOK, taskVars
    <2> QED BY <2>1, <2>2
  <1>7. DecidedOK'
    BY <1>1, <1>2 DEF GateInv, TypeOK, DecidedOK
  <1>8. OfferedOK'
    BY <1>1, <1>2 DEF GateInv, TypeOK, OfferedOK, taskVars
  <1>9. StoredOK'
    BY <1>1, <1>2 DEF GateInv, TypeOK, StoredOK, StoredRules, taskVars
  <1>10. ASSUME NEW s \in Sessions PROVE SessionOK(s)'
    <2> DEFINE d0 == [call |-> c, kind |-> kind]
    <2>1. s = origin[c].session => GivenIn(s, d0)'
      BY <1>1, <1>2 DEF GivenIn, CallOK, TrackedOK, taskVars
    <2>2. \A d : GivenIn(s, d) => GivenIn(s, d)'
      BY <1>2 DEF GivenIn, taskVars
    <2>3. sessionPermission'[s].always =>
            \E d \in decided' : GivenIn(s, d)' /\ d.kind = "IgnorePermission"
      BY <1>2, <2>1, <2>2 DEF GateInv, SessionOK
    <2>4. ASSUME NEW line \in sessionPermission'[s].allowlist
          PROVE \E d \in decided' : /\ GivenIn(s, d)' /\ d.kind = "AllowSession"
                                    /\ Join(origin[d.call].command) = line
      BY <1>2, <2>1, <2>2, <2>4 DEF GateInv, SessionOK
    <2> QED BY <2>3, <2>4 DEF SessionOK, taskVars
  <1> QED BY <1>4, <1>6, <1>7, <1>8, <1>9, <1>10 DEF GateInv


(* Every answer handle_user_decision accepts preserves the invariant.      *)
LEMMA AnswerSteps ==
  ASSUME GateInv, NEW c \in Calls,
         \/ AllowOnce(c) \/ Deny(c) \/ AllowSession(c) \/ IgnorePermission(c)
         \/ \E o \in offered : o.choice.kind = "Allow" /\ Allow(c, o.choice.rule)
  PROVE  GateInv'
  <1>0. /\ sessionPermission \in [Sessions -> SessionEntry]
        /\ rules \subseteq Rule /\ stored \subseteq [rule : Rule, call : Calls]
        /\ rules \subseteq {e.rule : e \in stored}
    BY DEF GateInv, TypeOK, StoredOK, StoredRules
  <1>1. CASE AllowOnce(c)
    BY <1>0, <1>1, AnswerStep DEF AllowOnce, Answers, Granting
  <1>2. CASE Deny(c)
    BY <1>0, <1>2, AnswerStep DEF Deny, Answers, Granting
  <1>3. CASE \E o \in offered : o.choice.kind = "Allow" /\ Allow(c, o.choice.rule)
    <2>1. PICK o \in offered : o.choice.kind = "Allow" /\ Allow(c, o.choice.rule)
      BY <1>3
    <2> DEFINE rule == o.choice.rule
               mine == [call |-> c, choice |-> [kind |-> "Allow", rule |-> rule]]
    <2>2. mine \in offered /\ Pending(c)
      BY <2>1 DEF Allow, Answers
    <2>3. rule \in Rule /\ IsOrdinary(origin[c].command)
      <3>1. mine.choice \in Choice /\ mine.choice.kind = "Allow" /\ mine.call = c
        BY <2>2 DEF GateInv, TypeOK
      <3> QED BY <2>2, <3>1 DEF Choice, GateInv, OfferedOK
    <2>4. /\ rules' = AddPermission(rules, rule)
          /\ stored' = stored \cup {[rule |-> rule, call |-> c]}
      BY <2>1 DEF Allow
    <2>5. /\ rules' \subseteq Rule /\ stored \subseteq stored'
          /\ stored' \subseteq [rule : Rule, call : Calls]
          /\ rules' \subseteq {e.rule : e \in stored'}
      <3>1. rules' \subseteq rules \cup {rule}
        BY <2>4 DEF AddPermission
      <3>2. [rule |-> rule, call |-> c] \in stored'
        BY <2>4
      <3>3. stored' \subseteq [rule : Rule, call : Calls]
        BY <1>0, <2>3, <2>4
      <3>4. \A r \in rules' : \E e \in stored' : e.rule = r
        BY <1>0, <2>4, <3>1, <3>2
      <3> QED BY <1>0, <2>3, <2>4, <3>1, <3>3, <3>4
    <2>6. \A e \in stored' \ stored : e.call = c
      BY <2>4
    <2> QED BY <1>0, <2>1, <2>2, <2>3, <2>5, <2>6, AnswerStep DEF Allow, Granting
  <1>4. ASSUME NEW kind \in {"AllowSession", "IgnorePermission"}, NEW entry \in SessionEntry,
               ForSession(c, kind, entry), entry.known = sessionPermission[request[c].session].known,
               entry.always => sessionPermission[request[c].session].always \/ kind = "IgnorePermission",
               \A line \in entry.allowlist :
                  \/ line \in sessionPermission[request[c].session].allowlist
                  \/ kind = "AllowSession" /\ line = Join(request[c].command)
        PROVE  GateInv'
    <2>1. /\ Pending(c) /\ request[c].session = origin[c].session
          /\ request[c].command = origin[c].command
          /\ sessionPermission[request[c].session].known /\ request[c].session \in Sessions
      BY <1>4 DEF ForSession, Answers, Pending, GateInv, CallOK, TrackedOK, Origins
    <2>2. /\ Resolve(c, "Allow") /\ Decides(c, kind)
          /\ sessionPermission' = [sessionPermission EXCEPT ![request[c].session] = entry]
          /\ UNCHANGED <<rules, inbox, offered, now, taskVars, stored, epoch, era>>
      BY <1>0, <1>4, <2>1 DEF ForSession, Decides
    <2>3. /\ sessionPermission' \in [Sessions -> SessionEntry]
          /\ \A s \in Sessions : sessionPermission'[s] =
                IF s = request[c].session THEN entry ELSE sessionPermission[s]
      BY <1>0, <2>2
    <2>4. ASSUME NEW s \in Sessions
          PROVE /\ sessionPermission[s].known => sessionPermission'[s].known
                /\ sessionPermission'[s].always =>
                     \/ sessionPermission[s].always
                     \/ s = origin[c].session /\ kind = "IgnorePermission"
                /\ \A line \in sessionPermission'[s].allowlist :
                     \/ line \in sessionPermission[s].allowlist
                     \/ /\ s = origin[c].session /\ kind = "AllowSession"
                        /\ line = Join(origin[c].command)
      <3>1. CASE s = request[c].session
        BY <1>4, <2>1, <2>3, <3>1
      <3>2. CASE s # request[c].session
        BY <2>3, <3>2
      <3> QED BY <3>1, <3>2
    <2>5. /\ kind \in Granting \cup {"Deny"} /\ kind # "Deny"
          /\ rules' = rules /\ stored' = stored
      BY <2>2 DEF Granting
    <2> QED BY <1>0, <2>1, <2>2, <2>3, <2>4, <2>5, AnswerStep
  <1>5. ASSUME Pending(c)
        PROVE  /\ sessionPermission[request[c].session] \in SessionEntry
               /\ request[c].command \in Commands
    BY <1>0, <1>5 DEF GateInv, TypeOK, Pending, Tracked, Requests
  <1>6. CASE AllowSession(c)
    <2> DEFINE entry == [sessionPermission[request[c].session] EXCEPT
                           !.allowlist = @ \cup {Join(request[c].command)}]
    <2>1. ForSession(c, "AllowSession", entry)
      BY <1>6 DEF AllowSession
    <2>2. Pending(c)
      BY <2>1 DEF ForSession, Answers
    <2>3. /\ entry \in SessionEntry
          /\ entry.known = sessionPermission[request[c].session].known
          /\ entry.always = sessionPermission[request[c].session].always
          /\ entry.allowlist = sessionPermission[request[c].session].allowlist
                                 \cup {Join(request[c].command)}
      BY <1>5, <2>2 DEF SessionEntry
    <2> HIDE DEF entry
    <2> QED BY <1>4, <2>1, <2>3
  <1>7. CASE IgnorePermission(c)
    <2> DEFINE entry == [sessionPermission[request[c].session] EXCEPT !.always = TRUE]
    <2>1. ForSession(c, "IgnorePermission", entry)
      BY <1>7 DEF IgnorePermission
    <2>2. Pending(c)
      BY <2>1 DEF ForSession, Answers
    <2>3. /\ entry \in SessionEntry
          /\ entry.known = sessionPermission[request[c].session].known
          /\ entry.allowlist = sessionPermission[request[c].session].allowlist
      BY <1>5, <2>2 DEF SessionEntry
    <2> HIDE DEF entry
    <2> QED BY <1>4, <2>1, <2>3
  <1> QED BY <1>1, <1>2, <1>3, <1>6, <1>7

(* Requests that are dropped: a session may be forgotten with them.        *)
LEMMA DropStep ==
  ASSUME GateInv, NEW G \in SUBSET Calls, Drop(G),
         rules' \subseteq rules, inbox' \subseteq inbox, offered' \subseteq offered,
         now' = now, UNCHANGED <<origin, decided, stored, era>>,
         task' \in [Calls -> {"absent", "sent", "streamed", "waiting",
                              "ran", "refused", "aborted"}],
         \A b \in Calls : /\ task'[b] = "absent" => task[b] = "absent"
                          /\ task'[b] = "ran" => task[b] = "ran",
         epoch' \in [Sessions -> Nat], sessionPermission' \in [Sessions -> SessionEntry],
         \A s \in Sessions :
           \/ sessionPermission'[s] = Forgotten /\ RequestsOf(s) \subseteq G
           \/ sessionPermission'[s] = sessionPermission[s] /\ epoch'[s] = epoch[s]
  PROVE  GateInv'
  <1>1. \A b \in Calls :
          /\ request'[b] = IF b \in G THEN NoRequest ELSE request[b]
          /\ future'[b] = IF b \in G /\ future[b] = "pending" THEN "dropped" ELSE future[b]
    BY DEF Drop
  <1>2. TypeOK'
    <2>1. request' \in [Calls -> Requests \cup {NoRequest}]
      BY DEF Drop, GateInv, TypeOK
    <2>2. future' \in [Calls -> {"none", "pending", "dropped"} \cup PermissionState]
      BY DEF Drop, GateInv, TypeOK
    <2> QED BY <2>1, <2>2 DEF GateInv, TypeOK
  <1>3. ASSUME NEW b \in Calls PROVE CallOK(b)'
    <2>1. CallOK(b)
      BY DEF GateInv
    <2>2. CASE b \in G
      <3>1. future[b] = "Allow" => Grounded(b)'
        BY <2>1, GroundedStays DEF CallOK
      <3> QED BY <1>1, <2>1, <2>2, <3>1
              DEF CallOK, TrackedOK, PendingOK, Tracked
    <2>3. CASE b \notin G
      <3>1. request'[b] = request[b] /\ future'[b] = future[b]
        BY <1>1, <2>3
      <3>2. Tracked(b) => /\ origin[b].session \in Sessions
                          /\ b \in RequestsOf(origin[b].session)
                          /\ sessionPermission[origin[b].session].known
        BY <2>1 DEF CallOK, TrackedOK, PermissionState, Origins, RequestsOf
      <3>3. Tracked(b) => /\ sessionPermission'[origin[b].session].known
                          /\ epoch'[origin[b].session] = epoch[origin[b].session]
        BY <2>3, <3>2
      <3> QED BY <2>1, <3>1, <3>3, CallFrame DEF CallOK
    <2> QED BY <2>2, <2>3
  <1>4. DecidedOK'
    BY <1>1 DEF GateInv, TypeOK, DecidedOK
  <1>5. OfferedOK'
    BY <1>1 DEF GateInv, TypeOK, OfferedOK
  <1>6. StoredOK'
    BY <1>1 DEF GateInv, TypeOK, StoredOK, StoredRules
  <1>7. \A s \in Sessions : SessionOK(s)'
    BY DEF GateInv, SessionOK, GivenIn, Forgotten
  <1> QED BY <1>2, <1>3, <1>4, <1>5, <1>6, <1>7 DEF GateInv

(* Cancelling, removing, sweeping and restarting drop requests and         *)
(* preserve the invariant.                                                 *)
LEMMA DropSteps ==
  ASSUME GateInv,
         \/ \E s \in Sessions : ClearPendingPermission(s) \/ RemovePermission(s)
         \/ Sweep \/ Restart
  PROVE  GateInv'
  <1>0. /\ sessionPermission \in [Sessions -> SessionEntry] /\ epoch \in [Sessions -> Nat]
        /\ task \in [Calls -> {"absent", "sent", "streamed", "waiting",
                               "ran", "refused", "aborted"}]
        /\ Forgotten \in SessionEntry
    BY DEF GateInv, TypeOK, Forgotten, SessionEntry
  <1>1. ASSUME NEW s \in Sessions, ClearPendingPermission(s) PROVE GateInv'
    <2>1. RequestsOf(s) \in SUBSET Calls
      BY DEF RequestsOf
    <2> QED BY <1>0, <1>1, <2>1, DropStep DEF ClearPendingPermission, taskVars, history
  <1>2. ASSUME NEW s \in Sessions, RemovePermission(s) PROVE GateInv'
    <2>1. RequestsOf(s) \in SUBSET Calls
      BY DEF RequestsOf
    <2>2. /\ epoch' \in [Sessions -> Nat] /\ sessionPermission' \in [Sessions -> SessionEntry]
          /\ sessionPermission'[s] = Forgotten
          /\ \A t \in Sessions \ {s} : /\ sessionPermission'[t] = sessionPermission[t]
                                       /\ epoch'[t] = epoch[t]
      BY <1>0, <1>2 DEF RemovePermission
    <2> QED BY <1>0, <1>2, <2>1, <2>2, DropStep DEF RemovePermission, taskVars
  <1>3. CASE Sweep
    BY <1>0, <1>3, DropStep DEF Sweep, taskVars, history
  <1>4. CASE Restart
    <2>1. \A s \in Sessions : RequestsOf(s) \subseteq Calls
      BY DEF RequestsOf
    <2>2. /\ epoch' \in [Sessions -> Nat] /\ sessionPermission' \in [Sessions -> SessionEntry]
          /\ \A s \in Sessions : sessionPermission'[s] = Forgotten
      BY <1>0, <1>4 DEF Restart
    <2>3. /\ task' \in [Calls -> {"absent", "sent", "streamed", "waiting",
                                  "ran", "refused", "aborted"}]
          /\ \A b \in Calls : /\ task'[b] = "absent" => task[b] = "absent"
                              /\ task'[b] = "ran" => task[b] = "ran"
      BY <1>0, <1>4 DEF Restart
    <2> QED BY <1>4, <2>1, <2>2, <2>3, DropStep DEF Restart
  <1> QED BY <1>1, <1>2, <1>3, <1>4

(* Deleting a rule from settings, the clock and stuttering preserve the    *)
(* invariant.                                                              *)
LEMMA OtherSteps ==
  ASSUME GateInv, (\E rule \in rules : DeletePermission(rule)) \/ Tick \/ UNCHANGED vars
  PROVE  GateInv'
  <1>1. /\ rules' \subseteq rules /\ now' \in Nat
        /\ UNCHANGED <<sessionPermission, request, future, inbox, offered, taskVars, history>>
    BY DEF DeletePermission, Tick, vars, workflowVars, GateInv, TypeOK
  <1>2. TypeOK'
    BY <1>1 DEF GateInv, TypeOK, taskVars, history
  <1>3. ASSUME NEW b \in Calls PROVE CallOK(b)'
    <2>1. CallOK(b) /\ (Tracked(b) => sessionPermission[origin[b].session].known)
            /\ (task[b] = "ran" => future[b] = "Allow")
      BY DEF GateInv, CallOK, TrackedOK
    <2> QED BY <1>1, <2>1, CallFrame DEF taskVars, history
  <1>4. DecidedOK' /\ OfferedOK' /\ StoredOK' /\ \A s \in Sessions : SessionOK(s)'
    BY <1>1 DEF GateInv, DecidedOK, OfferedOK, StoredOK, StoredRules, SessionOK, GivenIn,
                taskVars, history
  <1> QED BY <1>2, <1>3, <1>4 DEF GateInv

-----------------------------------------------------------------------------
(* Rules and the lines they match: an induction over the tokens of a       *)
(* command, by the least number of them that is an exception (WFMin).      *)

(* A set of naturals with 0 and the next of each below m has all up to m.  *)
LEMMA Induction ==
  ASSUME NEW m \in Nat, NEW S, 0 \in S, \A n \in S \cap (0..m) : n < m => n + 1 \in S
  PROVE  0..m \subseteq S
  <1> SUFFICES ASSUME (0..m) \ S # {} PROVE FALSE
    OBVIOUS
  <1> DEFINE R == OpToRel(<, Nat)
  <1>1. IsWellFoundedOn(R, Nat)
    BY NatLessThanWellFounded
  <1>2. R = {ss \in Nat \X Nat : ss[1] < ss[2]}
    BY DEF OpToRel
  <1> HIDE DEF R
  <1>3. (0..m) \ S \in SUBSET Nat
    OBVIOUS
  <1>4. PICK x \in (0..m) \ S : \A y \in (0..m) \ S : ~(<<y, x>> \in R)
    BY <1>1, <1>3, WFMin
  <1>5. x \in Nat /\ x # 0 /\ x - 1 \in 0..m /\ x - 1 < m
    BY <1>4
  <1>6. x - 1 \in S
    <2> SUFFICES ASSUME x - 1 \notin S PROVE FALSE
      OBVIOUS
    <2>1. <<x - 1, x>> \in {ss \in Nat \X Nat : ss[1] < ss[2]}
      BY <1>5
    <2> QED
      BY <1>2, <1>4, <1>5, <2>1
  <1>7. (x - 1) + 1 = x
    BY <1>5
  <1> QED
    BY <1>4, <1>5, <1>6, <1>7

(* What the recursion of Join says of a function on 0..n.                  *)
Joins(f, argv, n) == f[0] = <<>> /\ \A i \in 1..n : f[i] = f[i - 1] \o argv[i]

(* There is such a function.                                               *)
LEMMA JoinsExists ==
  ASSUME NEW argv \in Seq(Seq(Words))
  PROVE  \E f \in [0..Len(argv) -> Seq(Words)] : Joins(f, argv, Len(argv))
  <1> DEFINE S == {n \in Nat : \E f \in [0..n -> Seq(Words)] : Joins(f, argv, n)}
  <1>1. 0 \in S
    <2> DEFINE f == [i \in 0..0 |-> <<>>]
    <2>1. f \in [0..0 -> Seq(Words)] /\ Joins(f, argv, 0)
      BY DEF Joins
    <2> QED BY <2>1
  <1>2. ASSUME NEW n \in S \cap (0..Len(argv)), n < Len(argv)
        PROVE  n + 1 \in S
    <2>1. PICK f \in [0..n -> Seq(Words)] : Joins(f, argv, n)
      BY <1>2
    <2> DEFINE next == f[n] \o argv[n + 1]
               g == [i \in 0..(n + 1) |-> IF i <= n THEN f[i] ELSE next]
    <2>2. n \in Nat /\ n + 1 \in 1..Len(argv) /\ argv[n + 1] \in Seq(Words) /\ f[n] \in Seq(Words)
      BY <1>2
    <2>3. next \in Seq(Words)
      BY <2>2
    <2> HIDE DEF next
    <2>4. g \in [0..(n + 1) -> Seq(Words)]
      BY <2>2, <2>3
    <2>5. g[n + 1] = next /\ \A i \in 0..n : g[i] = f[i]
      BY <2>2
    <2> HIDE DEF g
    <2>6. Joins(g, argv, n + 1)
      <3>1. g[0] = <<>>
        BY <2>1, <2>2, <2>5 DEF Joins
      <3>2. ASSUME NEW i \in 1..(n + 1)
            PROVE  g[i] = g[i - 1] \o argv[i]
        <4>1. CASE i = n + 1
          <5>1. i - 1 = n /\ n \in 0..n
            BY <2>2, <4>1
          <5> QED BY <2>5, <4>1, <5>1 DEF next
        <4>2. CASE i # n + 1
          <5>1. i \in 1..n /\ i \in 0..n /\ i - 1 \in 0..n
            BY <2>2, <4>2
          <5> QED BY <2>1, <2>5, <5>1 DEF Joins
        <4> QED BY <4>1, <4>2
      <3> QED BY <3>1, <3>2 DEF Joins
    <2> QED BY <2>2, <2>4, <2>6
  <1>3. Len(argv) \in S
    <2>1. Len(argv) \in Nat /\ Len(argv) \in 0..Len(argv)
      OBVIOUS
    <2> HIDE DEF S
    <2> QED BY <1>1, <1>2, <2>1, Induction
  <1> QED BY <1>3

(* A line begins with some words.                                          *)
Begins(words, line) == Len(words) <= Len(line) /\ \A i \in 1..Len(words) : line[i] = words[i]

(* A glob rule matches every line that begins with its prefix.             *)
LEMMA GlobMatches ==
  ASSUME NEW words \in Seq(Words), NEW line \in Seq(Words), Begins(words, line)
  PROVE  Matches([prefix |-> words, glob |-> TRUE], line)
  <1>1. CASE Len(words) = Len(line)
    <2>1. words = line
      BY <1>1 DEF Begins
    <2> QED BY <2>1 DEF Matches
  <1>2. CASE Len(words) # Len(line)
    <2>1. Len(words) < Len(line)
      BY <1>2 DEF Begins
    <2>2. SubSeq(line, 1, Len(words)) = words
      BY DEF Begins
    <2> QED BY <2>1, <2>2 DEF Matches
  <1> QED BY <1>1, <1>2

(* argv.join(" ") begins with the program, and with the program and its    *)
(* subcommand.                                                             *)
LEMMA JoinBegins ==
  ASSUME NEW argv \in Seq(Seq(Words)), NEW k \in 1..Len(argv)
  PROVE  \E f \in [0..Len(argv) -> Seq(Words)] :
             Joins(f, argv, Len(argv)) /\ Join(argv) \in Seq(Words) /\ Begins(f[k], Join(argv))
  <1> DEFINE body(f) == [n \in 0..Len(argv) |-> IF n = 0 THEN <<>> ELSE f[n - 1] \o argv[n]]
             upTo == CHOOSE f : f = body(f)
  <1>1. Join(argv) = upTo[Len(argv)]
    BY DEF Join
  <1>2. PICK f \in [0..Len(argv) -> Seq(Words)] : Joins(f, argv, Len(argv))
    BY JoinsExists
  <1>3. f = body(f)
    <2>1. \A i \in 0..Len(argv) : f[i] = body(f)[i]
      <3> SUFFICES ASSUME NEW i \in 0..Len(argv) PROVE f[i] = body(f)[i]
        OBVIOUS
      <3>1. CASE i = 0
        BY <1>2, <3>1 DEF Joins
      <3>2. CASE i # 0
        <4>1. i \in 1..Len(argv)
          BY <3>2
        <4>2. f[i] = f[i - 1] \o argv[i]
          BY <1>2, <4>1 DEF Joins
        <4> QED BY <3>2, <4>2
      <3> QED BY <3>1, <3>2
    <2> HIDE DEF body
    <2>2. DOMAIN body(f) = 0..Len(argv) /\ body(f) = [i \in DOMAIN body(f) |-> body(f)[i]]
      BY DEF body
    <2> QED BY <2>1, <2>2
  <1>4. upTo = body(upTo)
    BY <1>3
  <1> HIDE DEF upTo
  <1>5. Joins(upTo, argv, Len(argv)) /\ DOMAIN upTo = 0..Len(argv) /\ upTo = [i \in DOMAIN upTo |-> upTo[i]]
    <2>1. upTo[0] = <<>>
      BY <1>4
    <2>2. ASSUME NEW i \in 1..Len(argv)
          PROVE  upTo[i] = upTo[i - 1] \o argv[i]
      <3>1. i \in 0..Len(argv) /\ i # 0
        OBVIOUS
      <3> QED BY <1>4, <3>1
    <2> QED BY <1>4, <2>1, <2>2 DEF Joins
  <1> HIDE DEF body
  <1> DEFINE S == {i \in 0..Len(argv) : upTo[i] \in Seq(Words) /\ (i >= k => upTo[k] \in Seq(Words) /\ Begins(upTo[k], upTo[i]))}
  <1>6. 0 \in S
    <2>1. upTo[0] = <<>> /\ <<>> \in Seq(Words) /\ ~(0 >= k) /\ 0 \in 0..Len(argv)
      BY <1>5 DEF Joins
    <2> QED BY <2>1
  <1>7. ASSUME NEW n \in S \cap (0..Len(argv)), n < Len(argv)
        PROVE  n + 1 \in S
    <2>1. n + 1 \in 1..Len(argv) /\ (n + 1) - 1 = n /\ argv[n + 1] \in Seq(Words) /\ upTo[n] \in Seq(Words)
      BY <1>7
    <2>2. upTo[n + 1] = upTo[n] \o argv[n + 1]
      BY <1>5, <2>1 DEF Joins
    <2>3. upTo[n + 1] \in Seq(Words)
      BY <2>1, <2>2
    <2>4. n + 1 >= k => upTo[k] \in Seq(Words) /\ Begins(upTo[k], upTo[n + 1])
      <3>1. CASE n >= k
        <4>1. upTo[k] \in Seq(Words) /\ Begins(upTo[k], upTo[n])
          BY <1>7, <3>1
        <4>2. \A w \in Seq(Words), v \in Seq(Words) : \A u \in Seq(Words) : Begins(u, v) => Begins(u, v \o w)
          BY DEF Begins
        <4> QED BY <2>1, <2>2, <4>1, <4>2
      <3>2. CASE n + 1 = k
        BY <2>3, <3>2 DEF Begins
      <3> QED BY <3>1, <3>2
    <2> QED BY <2>1, <2>3, <2>4
  <1>8. 0..Len(argv) \subseteq S
    <2>1. Len(argv) \in Nat
      OBVIOUS
    <2> HIDE DEF S
    <2> QED BY <1>6, <1>7, <2>1, Induction
  <1>9. upTo \in [0..Len(argv) -> Seq(Words)]
    <2>1. \A i \in 0..Len(argv) : upTo[i] \in Seq(Words)
      BY <1>8
    <2> HIDE DEF S
    <2> QED BY <1>5, <2>1
  <1>10. upTo[Len(argv)] \in Seq(Words) /\ Begins(upTo[k], upTo[Len(argv)])
    <2>1. Len(argv) \in 0..Len(argv) /\ Len(argv) >= k
      OBVIOUS
    <2> QED BY <1>8, <2>1
  <1> QED BY <1>1, <1>5, <1>9, <1>10

(* The rules generate_decision_options builds match the command they are   *)
(* built for.                                                              *)
LEMMA GlobOptionsMatch ==
  ASSUME NEW argv \in Seq(Seq(Words)), Len(argv) > 0, NEW o \in GlobOptions(argv)
  PROVE  Matches(o.rule, Join(argv))
  <1> DEFINE allow(words) == [kind |-> "Allow", rule |-> [prefix |-> words, glob |-> TRUE]]
  <1>1. argv[1] \in Seq(Words) /\ 1 \in 1..Len(argv)
    OBVIOUS
  <1>2. o = allow(argv[1]) \/ (Len(argv) > 1 /\ o = allow(argv[1] \o argv[2]))
    BY DEF GlobOptions
  <1>3. CASE o = allow(argv[1])
    <2>1. PICK f \in [0..Len(argv) -> Seq(Words)] :
              Joins(f, argv, Len(argv)) /\ Join(argv) \in Seq(Words) /\ Begins(f[1], Join(argv))
      BY <1>1, JoinBegins
    <2>2. f[1] = <<>> \o argv[1]
      <3>1. f[1] = f[1 - 1] \o argv[1] /\ f[0] = <<>>
        BY <1>1, <2>1 DEF Joins
      <3>2. 1 - 1 = 0
        OBVIOUS
      <3> QED BY <3>1, <3>2
    <2>3. f[1] = argv[1]
      BY <1>1, <2>2
    <2> QED BY <1>1, <1>3, <2>1, <2>3, GlobMatches
  <1>4. CASE Len(argv) > 1 /\ o = allow(argv[1] \o argv[2])
    <2>1. 2 \in 1..Len(argv) /\ argv[2] \in Seq(Words)
      BY <1>4
    <2>2. PICK f \in [0..Len(argv) -> Seq(Words)] :
              Joins(f, argv, Len(argv)) /\ Join(argv) \in Seq(Words) /\ Begins(f[2], Join(argv))
      BY <2>1, JoinBegins
    <2>3. f[1] = <<>> \o argv[1] /\ f[2] = f[1] \o argv[2]
      <3>1. f[1] = f[1 - 1] \o argv[1] /\ f[2] = f[2 - 1] \o argv[2] /\ f[0] = <<>>
        BY <1>1, <2>1, <2>2 DEF Joins
      <3>2. 1 - 1 = 0 /\ 2 - 1 = 1
        OBVIOUS
      <3> QED BY <3>1, <3>2
    <2>4. f[2] = argv[1] \o argv[2] /\ f[2] \in Seq(Words)
      BY <1>1, <2>1, <2>3
    <2> QED BY <1>4, <2>2, <2>4, GlobMatches
  <1> QED BY <1>2, <1>3, <1>4

(* A rule matches every argv the command is judged by.                     *)
Covers(rule, cmd) == \A a \in JudgedArgvs(cmd) : Matches(rule, Join(a))

(* What is offered for future matching calls covers the call.              *)
LEMMA OptionsCover ==
  ASSUME NEW cmd \in Commands, NEW v \in Verdicts, NEW ch \in Options(cmd, v), ch.kind = "Allow",
         v.type = "Simple" /\ v.decision = "Unknown" => IsOrdinary(cmd)
  PROVE  Covers(ch.rule, cmd)
  <1> DEFINE strip == StripOf[ParseOf[cmd].atoms[1]]
  <1>1. v.type = "Simple" /\ v.decision = "Unknown" /\ ch \in GlobOptions(strip.argv)
    BY DEF Options, UnsafeOptions, Verdicts, CommandType
  <1>2. IsOrdinary(cmd) /\ strip \in StripResult /\ strip.kind = "Inner"
    BY <1>1, AtomsAreArgvs, ClassifyAssumption DEF IsOrdinary, IsSimple
  <1>3. strip.argv \in Argvs /\ strip = [kind |-> "Inner", argv |-> strip.argv]
    BY <1>2 DEF StripResult
  <1>4. JudgedArgvs(cmd) = {strip.argv}
    <2>1. JudgedArgvs(cmd) = {a \in Argvs : strip = [kind |-> "Inner", argv |-> a]}
      BY <1>2 DEF IsOrdinary, IsSimple, JudgedArgvs
    <2> QED BY <1>3, <2>1
  <1>5. strip.argv \in Seq(Seq(Words)) /\ Len(strip.argv) > 0
    BY <1>2, <1>3, <1>4, ClassifyAssumption DEF IsOrdinary
  <1>6. Matches(ch.rule, Join(strip.argv))
    BY <1>1, <1>5, GlobOptionsMatch
  <1> QED BY <1>4, <1>6 DEF Covers

(* What was offered and what was stored covers its call.                   *)
RulesInv ==
    /\ \A o \in offered : o.choice.kind = "Allow" => Covers(o.choice.rule, origin[o.call].command)
    /\ \A e \in stored : Covers(e.rule, origin[e.call].command)

(* A call keeps its command once its request was made.                     *)
LEMMA OriginStays ==
  ASSUME GateInv, [Next]_vars, NEW c \in Calls, future[c] # "none"
  PROVE  origin'[c] = origin[c]
  <1>1. task[c] # "absent"
    BY DEF GateInv, CallOK
  <1>2. ASSUME NEW b \in Calls, NEW s \in Sessions, NEW cmd \in Commands,
               CallAppears(b, s, cmd) \/ UngatedCallAppears(b, s, cmd)
        PROVE  origin'[c] = origin[c]
    BY <1>1, <1>2 DEF GateInv, TypeOK, CallAppears, UngatedCallAppears
  <1>3. ASSUME NEW b \in Calls, NEW dbOk \in BOOLEAN, InitPermissionWorkflow(b, dbOk)
        PROVE  origin' = origin
    BY <1>3 DEF InitPermissionWorkflow
  <1>4. ASSUME NEW b \in Calls, \/ RefuseUnauthorized(b) \/ WaitDecision(b) \/ Authorize(b) \/ Abort(b)
                                \/ CheckDecision(b)
        PROVE  origin' = origin
    BY <1>4 DEF RefuseUnauthorized, WaitDecision, Authorize, Abort, CheckDecision, taskVars
  <1>5. ASSUME NEW b \in Calls, \/ AllowOnce(b) \/ Deny(b) \/ AllowSession(b) \/ IgnorePermission(b)
                                \/ \E o \in offered : o.choice.kind = "Allow" /\ Allow(b, o.choice.rule)
        PROVE  origin' = origin
    BY <1>5 DEF AllowOnce, Deny, AllowSession, IgnorePermission, ForSession, Allow, taskVars
  <1>6. ASSUME \/ \E s \in Sessions : ClearPendingPermission(s) \/ RemovePermission(s)
               \/ \E rule \in rules : DeletePermission(rule)
               \/ Sweep \/ Restart \/ Tick \/ UNCHANGED vars
        PROVE  origin' = origin
    BY <1>6
    DEF ClearPendingPermission, RemovePermission, DeletePermission, Sweep, Restart, Tick, vars, taskVars
  <1> QED BY <1>2, <1>3, <1>4, <1>5, <1>6 DEF Next, CallNext

(* An offer comes from CheckDecision, a stored rule from an offer.         *)
LEMMA RulesStep ==
  ASSUME GateInv, RulesInv, [Next]_vars
  PROVE  RulesInv'
  <1>1. /\ \A o \in offered : o.call \in Calls /\ origin'[o.call] = origin[o.call]
        /\ \A e \in stored : e.call \in Calls /\ origin'[e.call] = origin[e.call]
    <2>1. \A o \in offered : o.call \in Calls /\ future[o.call] # "none"
      BY DEF GateInv, TypeOK, OfferedOK
    <2>2. \A e \in stored : e.call \in Calls /\ future[e.call] # "none"
      BY DEF GateInv, TypeOK, StoredOK
    <2> QED BY <2>1, <2>2, OriginStays
  <1>2. ASSUME offered' \subseteq offered, stored' \subseteq stored
        PROVE  RulesInv'
    BY <1>1, <1>2 DEF RulesInv
  <1>3. ASSUME NEW c \in Calls, CheckDecision(c)
        PROVE  RulesInv'
    <2>1. /\ Tracked(c) /\ future[c] = "pending" /\ stored' = stored /\ origin' = origin
          /\ offered' = offered \cup {[call |-> c, choice |-> ch] :
                                        ch \in Options(request[c].command, request[c].verdict)}
      BY <1>3 DEF CheckDecision, Pending, history, taskVars
    <2>2. /\ request[c] \in Requests /\ request[c].command = origin[c].command
          /\ request[c].verdict.type = "Simple" /\ request[c].verdict.decision = "Unknown"
               => IsOrdinary(request[c].command)
      BY <2>1 DEF GateInv, TypeOK, CallOK, TrackedOK, PendingOK, Tracked
    <2>3. request[c].command \in Commands /\ request[c].verdict \in Verdicts
      BY <2>2 DEF Requests
    <2>4. \A ch \in Options(request[c].command, request[c].verdict) :
              ch.kind = "Allow" => Covers(ch.rule, origin[c].command)
      BY <2>2, <2>3, OptionsCover
    <2> QED BY <2>1, <2>4 DEF RulesInv
  <1>4. ASSUME NEW c \in Calls, NEW o \in offered, o.choice.kind = "Allow", Allow(c, o.choice.rule)
        PROVE  RulesInv'
    <2> DEFINE rule == o.choice.rule
               mine == [call |-> c, choice |-> [kind |-> "Allow", rule |-> rule]]
    <2>1. /\ mine \in offered /\ offered' = offered
          /\ stored' = stored \cup {[rule |-> rule, call |-> c]}
      BY <1>4 DEF Allow, Answers
    <2>2. mine.call = c /\ mine.choice.kind = "Allow" /\ mine.choice.rule = rule
      OBVIOUS
    <2> HIDE DEF mine, rule
    <2>3. Covers(rule, origin[c].command) /\ origin'[c] = origin[c]
      BY <1>1, <2>1, <2>2 DEF RulesInv
    <2> QED BY <1>1, <2>1, <2>3 DEF RulesInv
  <1>5. ASSUME NEW c \in Calls, \E s \in Sessions, cmd \in Commands : \/ CallAppears(c, s, cmd)
                                                                       \/ UngatedCallAppears(c, s, cmd)
        PROVE  offered' \subseteq offered /\ stored' \subseteq stored
    BY <1>5 DEF CallAppears, UngatedCallAppears, workflowVars, history
  <1>6. ASSUME NEW c \in Calls, \/ RefuseUnauthorized(c) \/ WaitDecision(c) \/ Authorize(c) \/ Abort(c)
                                \/ \E dbOk \in BOOLEAN : InitPermissionWorkflow(c, dbOk)
        PROVE  offered' \subseteq offered /\ stored' \subseteq stored
    BY <1>6 DEF RefuseUnauthorized, WaitDecision, Authorize, Abort, InitPermissionWorkflow, workflowVars, history
  <1>7. ASSUME NEW c \in Calls, AllowOnce(c) \/ Deny(c) \/ AllowSession(c) \/ IgnorePermission(c)
        PROVE  offered' \subseteq offered /\ stored' \subseteq stored
    BY <1>7 DEF AllowOnce, Deny, AllowSession, IgnorePermission, ForSession
  <1>8. ASSUME \/ \E s \in Sessions : ClearPendingPermission(s) \/ RemovePermission(s)
               \/ \E rule \in rules : DeletePermission(rule)
               \/ Sweep \/ Restart \/ Tick \/ UNCHANGED vars
        PROVE  offered' \subseteq offered /\ stored' \subseteq stored
    BY <1>8
    DEF ClearPendingPermission, RemovePermission, DeletePermission, Sweep, Restart, Tick, vars, workflowVars,
        history
  <1> QED BY <1>2, <1>3, <1>4, <1>5, <1>6, <1>7, <1>8 DEF Next, CallNext

-----------------------------------------------------------------------------
(* The theorems.                                                           *)

(* GateInv holds in every reachable state of the permission workflow.      *)
THEOREM GateInvariance == Spec => []GateInv
  <1>1. Init => GateInv
    BY DEF Init, GateInv, TypeOK, CallOK, TrackedOK, PendingOK, Tracked, DecidedOK,
           OfferedOK, StoredOK, SessionOK, Forgotten, SessionEntry
  <1>2. GateInv /\ [Next]_vars => GateInv'
    <2> SUFFICES ASSUME GateInv, [Next]_vars PROVE GateInv'
      OBVIOUS
    <2>1. ASSUME NEW c \in Calls, CallNext(c) PROVE GateInv'
      BY <2>1, TaskSteps, AppearsSteps, InitStep, CheckDecisionStep, AnswerSteps DEF CallNext
    <2> QED BY <2>1, DropSteps, OtherSteps DEF Next
  <1> QED BY <1>1, <1>2, PTL DEF Spec

(* The state of the gate is well-formed: in particular every option handed *)
(* to a frontend and every stored rule is one the code can build.          *)
THEOREM TypeCorrect == Spec => []TypeOK
  <1>1. GateInv => TypeOK
    BY DEF GateInv
  <1> QED BY <1>1, GateInvariance, PTL

(* No tool runs without a ground for it.                                   *)
THEOREM RunsGrounded == Spec => []RunsAreGrounded
  <1>1. GateInv => RunsAreGrounded
    BY DEF GateInv, CallOK, RunsAreGrounded
  <1> QED BY <1>1, GateInvariance, PTL

(* No dangerous, composite or refused command ever creates a saved rule.   *)
THEOREM RulesOrdinary == Spec => []RulesComeFromOrdinaryCommands
  <1>1. GateInv => RulesComeFromOrdinaryCommands
    BY DEF GateInv, StoredOK, StoredRules, RulesComeFromOrdinaryCommands
  <1> QED BY <1>1, GateInvariance, PTL

(* A rule stored for future matching calls matches the call it was given   *)
(* for, for command lines of any length (generate_decision_options,        *)
(* match_permission.sql).                                                  *)
THEOREM RulesMatch == Spec => []RulesMatchTheirCommands
  <1>1. Init => RulesInv
    BY DEF Init, RulesInv
  <1>2. GateInv /\ RulesInv /\ [Next]_vars => RulesInv'
    BY RulesStep
  <1>3. RulesInv => RulesMatchTheirCommands
    BY DEF RulesInv, Covers, RulesMatchTheirCommands
  <1> QED BY <1>1, <1>2, <1>3, GateInvariance, PTL DEF Spec

(* No tool task blocks on a request that can no longer be resolved.        *)
THEOREM WaitersAnswerable == Spec => []WaitersAreAnswerable
  <1>1. GateInv => WaitersAreAnswerable
    BY DEF GateInv, CallOK, TrackedOK, PendingOK, WaitersAreAnswerable
  <1> QED BY <1>1, GateInvariance, PTL

(* A denied call does not run.                                             *)
THEOREM DenialFinal == Spec => []DenialIsFinal
  <1>1. GateInv => DenialIsFinal
    BY DEF GateInv, TypeOK, CallOK, DecidedOK, DenialIsFinal
  <1> QED BY <1>1, GateInvariance, PTL
=============================================================================
