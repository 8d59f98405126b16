------------------------- MODULE PermissionClassify -------------------------
(***************************************************************************)
(* The pure part of the permission gate: what PermissionController decides *)
(* about a command line (core/src/permission/mod.rs) and which answers     *)
(* the user is offered for it.                                             *)
(*                                                                         *)
(* A command is an argv: a sequence of tokens.  A token is a non-empty     *)
(* sequence of words, so that a token holding a space ("a b") is a token   *)
(* of two words and joining an argv with spaces is what it is in the code: *)
(* a flattening that forgets the token boundaries.                         *)
(*                                                                         *)
(* The shell parser and the tables of safe and dangerous programs are      *)
(* constants: ParseOf, StripOf and SafetyOf give their verdicts.           *)
(***************************************************************************)
EXTENDS Integers, Sequences, FiniteSets

CONSTANTS
    Words,      \* the words command lines are made of
    FlagWords,  \* the words that begin with '-'
    Argvs,      \* the argvs that occur (whole commands and parsed atoms)
    Commands,   \* the argvs a tool call can be gated on
    ParseOf,    \* parse_commands: Commands -> ParseResult
    StripOf,    \* strip_transparent_command: Argvs -> StripResult
    SafetyOf    \* safety_check: Argvs -> ArgvDecision or "Err"

ArgvDecision == {"Allow", "Unknown", "AskNoPersist", "NotExecutable"}
CommandType == {"Simple", "Composite"}
PermissionState == {"Allow", "Deny", "Error"}

\* parse_commands fails, gives up (None), or finds the atoms of the line.
ParseResult == [kind : {"Err", "None"}]
                 \cup [kind : {"Some"}, atoms : Seq(Argvs)]
\* The transparent wrapper is stripped, is malformed, or cannot be judged.
StripResult == [kind : {"Malformed", "Unsure"}]
                 \cup [kind : {"Inner"}, argv : Argvs]

ASSUME ClassifyAssumption ==
    /\ FlagWords \subseteq Words
    /\ Commands \subseteq Argvs
    /\ Argvs \subseteq Seq(Seq(Words))
    /\ ParseOf \in [Commands -> ParseResult]
    /\ StripOf \in [Argvs -> StripResult]
    /\ SafetyOf \in [Argvs -> ArgvDecision \cup {"Err"}]
    \* an empty list of atoms is already the error EmptyCommand
    /\ \A c \in Commands :
         ParseOf[c].kind = "Some" => Len(ParseOf[c].atoms) > 0
    \* safety_check rejects the empty argv, so what it judges has a program
    /\ \A a \in Argvs : SafetyOf[a] # "Err" => Len(a) > 0

-----------------------------------------------------------------------------
(* argv.join(" ").                                                         *)
Join(argv) ==
    LET upTo[n \in 0..Len(argv)] ==
          IF n = 0 THEN <<>> ELSE upTo[n - 1] \o argv[n]
    IN  upTo[Len(argv)]

Lines == Seq(Words)
Rule == [prefix : Lines, glob : BOOLEAN]

(* match_permission.sql: the line is the prefix, or a glob rule's prefix   *)
(* is followed by a space in it.                                           *)
Matches(rule, line) ==
    \/ rule.prefix = line
    \/ /\ rule.glob
       /\ Len(rule.prefix) < Len(line)
       /\ SubSeq(line, 1, Len(rule.prefix)) = rule.prefix

IsCommandAllowed(rules, argv) == \E r \in rules : Matches(r, Join(argv))

(* insert_permission.sql: prefix is the key, a conflict replaces the glob. *)
AddPermission(rules, rule) ==
    {r \in rules : r.prefix # rule.prefix} \cup {rule}

-----------------------------------------------------------------------------
(* PermissionController::decide on one atom.  Only an Unknown atom asks    *)
(* the database, which may fail.                                           *)
Decide(argv, rules, dbOk) ==
    IF SafetyOf[argv] # "Unknown" THEN SafetyOf[argv]
    ELSE IF ~dbOk THEN "Err"
    ELSE IF IsCommandAllowed(rules, argv) THEN "Allow"
    ELSE "Unknown"

Severity(d) == CASE d = "Allow" -> 0
                 [] d = "Unknown" -> 1
                 [] d = "AskNoPersist" -> 2
                 [] d = "NotExecutable" -> 3

\* Fault: the mildest decision of the atoms decides.
Mildest(decisions) ==
    CHOOSE d \in decisions : \A e \in decisions : Severity(d) <= Severity(e)

(* The fold of classify over the atoms of a composite.                     *)
Strictest(decisions) ==
    CHOOSE d \in decisions : \A e \in decisions : Severity(e) <= Severity(d)

Atoms(cmd) == LET as == ParseOf[cmd].atoms IN {as[i] : i \in 1..Len(as)}

(* A PermissionDecision, without parsed_commands: those are Atoms(cmd), or *)
(* StripOf of the only atom of a Simple command.  kind "Err" is an Err of  *)
(* classify.                                                               *)
Verdict(type, d) == [kind |-> "Ok", type |-> type, decision |-> d]
ClassifyErr == [kind |-> "Err"]
Verdicts == [kind : {"Ok"}, type : CommandType, decision : ArgvDecision]

ClassifyUnparsed(cmd) ==
    Verdict("Composite", IF SafetyOf[cmd] = "NotExecutable"
                         THEN "NotExecutable" ELSE "AskNoPersist")

\* Fault: the error of decide is taken for a decision.
ClassifySimpleNoError(atom, rules, dbOk) ==
    LET strip == StripOf[atom] IN
    CASE strip.kind = "Malformed" -> ClassifyErr
      [] strip.kind = "Unsure"    -> Verdict("Composite", "AskNoPersist")
      [] strip.kind = "Inner"     -> Verdict("Simple", Decide(strip.argv, rules, dbOk))

ClassifySimple(atom, rules, dbOk) ==
    LET strip == StripOf[atom] IN
    CASE strip.kind = "Malformed" -> ClassifyErr
      [] strip.kind = "Unsure"    -> Verdict("Composite", "AskNoPersist")
      [] strip.kind = "Inner"     ->
           LET d == Decide(strip.argv, rules, dbOk) IN
           IF d = "Err" THEN ClassifyErr ELSE Verdict("Simple", d)

ClassifyComposite(atoms, rules, dbOk) ==
    LET ds == {Decide(a, rules, dbOk) : a \in atoms} IN
    IF "Err" \in ds THEN ClassifyErr
    ELSE LET folded == Strictest(ds) IN
         Verdict("Composite",
                 IF folded = "Unknown" THEN "AskNoPersist" ELSE folded)

Classify(cmd, rules, dbOk) ==
    LET parsed == ParseOf[cmd] IN
    CASE parsed.kind = "Err"  -> ClassifyErr
      [] parsed.kind = "None" -> ClassifyUnparsed(cmd)
      [] parsed.kind = "Some" ->
           IF Len(parsed.atoms) = 1 THEN ClassifySimple(parsed.atoms[1], rules, dbOk)
           ELSE ClassifyComposite(Atoms(cmd), rules, dbOk)

-----------------------------------------------------------------------------
(* The options of handle_check_decision.  A UserDecision names its call;   *)
(* Allow also carries the rule it would store.                             *)
Choice == [kind : {"AllowOnce", "AllowSession", "IgnorePermission", "Deny"}]
            \cup [kind : {"Allow"}, rule : Rule]

UnsafeOptions == [kind : {"AllowOnce", "AllowSession", "IgnorePermission", "Deny"}]

\* Fault: the second token is taken without the program before it.
GlobOptionsSubcommandOnly(argv) ==
    {[kind |-> "Allow", rule |-> [prefix |-> argv[i], glob |-> TRUE]] :
        i \in {j \in 1..2 : j <= Len(argv)}}

(* generate_decision_options: the program, and the program with its        *)
(* subcommand unless that is a flag.                                       *)
GlobOptions(argv) ==
    LET allow(words) == [kind |-> "Allow",
                         rule |-> [prefix |-> words, glob |-> TRUE]]
        IsFlag(token) == Len(token) > 0 /\ token[1] \in FlagWords
    IN  {allow(argv[1])}
          \cup IF Len(argv) > 1 /\ ~IsFlag(argv[2])
               THEN {allow(argv[1] \o argv[2])} ELSE {}

\* Fault: every simple command is offered for future matching calls.
OptionsPersistDangerous(cmd, verdict) ==
    IF verdict.type = "Composite" THEN UnsafeOptions
    ELSE [kind : {"AllowOnce", "Deny"}]
           \cup GlobOptions(StripOf[ParseOf[cmd].atoms[1]].argv)

Options(cmd, verdict) ==
    IF verdict.type = "Composite" \/ verdict.decision = "AskNoPersist" THEN UnsafeOptions
    ELSE IF verdict.decision = "Unknown"
         THEN [kind : {"AllowOnce", "Deny"}]
                \cup GlobOptions(StripOf[ParseOf[cmd].atoms[1]].argv)
         ELSE {}
=============================================================================
