---------------------------- MODULE ShellSafety -----------------------------
(***************************************************************************)
(* What the permission gate takes from the shell parser and the tables of  *)
(* programs on Unix: parse_commands (core/src/permission/parser/unix.rs),  *)
(* strip_transparent_command (safety/unix/transparent.rs) and safety_check *)
(* (safety/unix/mod.rs).  PermissionClassify has them as the constants     *)
(* ParseOf, StripOf and SafetyOf.                                          *)
(*                                                                         *)
(* A command line is a sequence of words as tree-sitter-bash (external)    *)
(* would find them.  A word is an atom with the attributes the code looks  *)
(* at; a word in quotes is told from the word it stands for.               *)
(***************************************************************************)
EXTENDS Integers, Sequences, FiniteSets, TLC

CONSTANTS
    WordsAfter(_),  \* the words a line is continued with
    MaxWords,       \* bound: words of a line
    MaxDepth        \* MAX_DEPTH: wrapper layers

VARIABLES line,     \* the words of the script
          viaShell, \* it is the script of bash -c, not an argv joined with spaces
          reading   \* what the parser, the strip and the tables say of it
shellVars == <<line, viaShell, reading>>

-----------------------------------------------------------------------------
(* The attributes of words.                                                *)

\* arg.split_once('=') of a long option
Inline == "--signal=KILL" :> <<"--signal", "KILL">> @@ "--signal=x" :> <<"--signal", "x">>
            @@ "--unset=HOME" :> <<"--unset", "HOME">>
            @@ "--block-signal=INT" :> <<"--block-signal", "INT">>
            @@ "--adjustment=5" :> <<"--adjustment", "5">>
HasInline(w) == w \in DOMAIN Inline
FlagOf(w) == IF HasInline(w) THEN Inline[w][1] ELSE w

Plain == [timeout |-> {"-f", "--foreground", "-v"}, env |-> {"-", "-i", "-v"}, nice |-> {}]
Valued == [timeout |-> {"-s", "--signal", "-k"}, env |-> {"-u", "--unset"},
           nice |-> {"-n", "--adjustment"}]
UnsafeToStrip == {"-S", "-C", "-a"}
SignalLists == {"--default-signal", "--block-signal"}
PrintMode == {"-0", "--null"}

Signals == {"KILL", "INT", "9"}
Durations == {"5", "9"}
Adjustments == {"5", "9", "-5"}
ValidValue(flag, v) ==
    CASE flag \in {"-s", "--signal"} -> v \in Signals
      [] flag = "-k" -> v \in Durations
      [] flag \in {"-n", "--adjustment"} -> v \in Adjustments
      [] OTHER -> TRUE

Dashed(w) ==
    \/ w \in DOMAIN Inline \cup UnsafeToStrip \cup SignalLists \cup PrintMode
    \/ \E name \in DOMAIN Plain : w \in Plain[name] \cup Valued[name]
    \/ w \in {"--", "--help", "--bogus", "-5", "-R", "-1", "-o", "-exec", "-fprint",
              "--pre", "-z", "--gen-key", "-c"}

Quoted == "'-R'" :> "-R" @@ "'a b'" :> "a b"
WordText(w) == IF w \in DOMAIN Quoted THEN Quoted[w] ELSE w
\* Path::file_name
KeyOf(w) == IF w = "/bin/ls" THEN "ls" ELSE IF w = "./timeout" THEN "timeout" ELSE w

Operators == {"&&", ";", "|"}
Constructs == {"&", ">f", "$x"}   \* what the word-only grammar rejects

-----------------------------------------------------------------------------
(* parse_commands.                                                         *)
Malformed == [kind |-> "Malformed"]
Unsure == [kind |-> "Unsure"]

\* has_error: an operator that does not join two commands.  A script may end
\* in a semicolon.
SyntaxError(s) ==
    \E i \in DOMAIN s : s[i] \in Operators /\
      (i = 1 \/ s[i - 1] \in Operators \/ (i = Len(s) /\ s[i] # ";"))

\* The commands in source order.
SplitAtoms(s) ==
    LET upTo[i \in 0..Len(s)] ==
          IF i = 0 THEN <<<<>>>>
          ELSE LET done == upTo[i - 1] IN
               IF s[i] \in Operators THEN Append(done, <<>>)
               ELSE [done EXCEPT ![Len(done)] = Append(@, WordText(s[i]))]
    IN  upTo[Len(s)]

\* Fault: the empty command after a closing semicolon is kept.
ParseKeepsEmpty(s) ==
    IF s = <<>> THEN [kind |-> "Err"]
    ELSE IF SyntaxError(s) \/ \E i \in DOMAIN s : s[i] \in Constructs
         THEN [kind |-> "None"]
    ELSE [kind |-> "Some", atoms |-> SplitAtoms(s)]

\* A command's name must be a plain word; the other words may be quoted.
ParseCommands(s) ==
    LET atoms == SelectSeq(SplitAtoms(s), LAMBDA a : a # <<>>)
        starts == {i \in DOMAIN s : s[i] \notin Operators
                                      /\ (i = 1 \/ s[i - 1] \in Operators)}
    IN  IF s = <<>> THEN [kind |-> "Err"]
        ELSE IF \/ SyntaxError(s)
                \/ \E i \in DOMAIN s : s[i] \in Constructs
                \/ \E i \in starts : s[i] \in DOMAIN Quoted
             THEN [kind |-> "None"]
        ELSE [kind |-> "Some", atoms |-> atoms]

-----------------------------------------------------------------------------
(* strip_transparent_command.                                              *)

From(argv, i) == SubSeq(argv, i, Len(argv))
After(i, print) == [kind |-> "At", at |-> i, print |-> print]

\* The option loop of strip_timeout, strip_env and strip_nice: where the
\* operands begin, or why it cannot tell.
RECURSIVE Options(_, _, _, _)
Options(name, args, i, print) ==
    IF i > Len(args) \/ ~Dashed(args[i]) THEN After(i, print)
    ELSE IF args[i] = "--" THEN After(i + 1, print)
    ELSE
      LET w == args[i]
          flag == FlagOf(w)
          env == name = "env"
          value == IF HasInline(w) THEN Inline[w][2] ELSE args[i + 1]
      IN  CASE flag \in Plain[name] /\ ~HasInline(w) -> Options(name, args, i + 1, print)
            [] flag \in Valued[name] ->
                 IF ~HasInline(w) /\ i = Len(args) THEN Malformed
                 ELSE IF ~ValidValue(flag, value) THEN Malformed
                 ELSE Options(name, args, IF HasInline(w) THEN i + 1 ELSE i + 2, print)
            [] env /\ flag \in SignalLists -> Options(name, args, i + 1, print)
            [] env /\ flag \in UnsafeToStrip -> Unsure
            [] env /\ flag \in PrintMode /\ ~HasInline(w) -> Options(name, args, i + 1, TRUE)
            [] OTHER -> Unsure

Rest(argv) == [kind |-> "Rest", argv |-> argv]

\* Fault: the duration stays where the command is expected.
StripTimeoutKeepsDuration(args) ==
    LET o == Options("timeout", args, 1, FALSE) IN
    IF o.kind # "At" THEN o
    ELSE IF o.at > Len(args) \/ args[o.at] \notin Durations THEN Malformed
    ELSE Rest(From(args, o.at))

StripTimeout(args) ==
    LET o == Options("timeout", args, 1, FALSE) IN
    IF o.kind # "At" THEN o
    ELSE IF o.at > Len(args) \/ args[o.at] \notin Durations THEN Malformed
    ELSE Rest(From(args, o.at + 1))

StripEnv(args) ==
    LET o == Options("env", args, 1, FALSE) IN
    IF o.kind # "At" THEN o
    ELSE IF o.at > Len(args) THEN Rest(<<>>)
    ELSE IF o.print THEN Malformed
    ELSE IF args[o.at] \in {"A=b", "of=x"} THEN Unsure
    ELSE Rest(From(args, o.at))

StripNice(args) ==
    LET o == Options("nice", args, 1, FALSE) IN
    IF o.kind # "At" THEN o ELSE Rest(From(args, o.at))

StripNohup(args) ==
    IF args = <<>> \/ ~Dashed(args[1]) THEN Rest(args)
    ELSE IF args[1] = "--" THEN Rest(Tail(args))
    ELSE Unsure

Wrappers == {"timeout", "env", "nice", "nohup"}
StripOne(argv) ==
    CASE argv[1] = "timeout" -> StripTimeout(Tail(argv))
      [] argv[1] = "env" -> StripEnv(Tail(argv))
      [] argv[1] = "nice" -> StripNice(Tail(argv))
      [] argv[1] = "nohup" -> StripNohup(Tail(argv))

Inner(argv) == [kind |-> "Inner", argv |-> argv]

\* Only bare names are stripped, and a request for help is no wrapper.
RECURSIVE StripLayers(_, _)
StripLayers(argv, depth) ==
    IF argv = <<>> \/ argv[1] \notin Wrappers \/ (Len(argv) > 1 /\ argv[2] = "--help")
    THEN Inner(argv)
    ELSE LET one == StripOne(argv) IN
         IF one.kind # "Rest" THEN one
         ELSE IF one.argv = <<>>
              THEN IF argv[1] \in {"env", "nice"} THEN Inner(argv) ELSE Malformed
         ELSE IF Dashed(one.argv[1]) THEN Malformed
         ELSE IF depth + 1 > MaxDepth THEN Unsure
         ELSE StripLayers(one.argv, depth + 1)

StripTransparentCommand(argv) == StripLayers(argv, 0)

-----------------------------------------------------------------------------
(* safety_check.                                                           *)
HasAny(argv, set) == \E i \in DOMAIN argv : argv[i] \in set

UniqOperands(argv) ==
    LET n == Len(argv)
        count[i \in 2..(n + 2)] ==
          IF i > n THEN 0
          ELSE IF argv[i] = "--" THEN n - i
          ELSE IF Dashed(argv[i]) /\ argv[i] # "-"
               THEN count[IF argv[i] \in {"-f", "-s"} THEN i + 2 ELSE i + 1]
          ELSE 1 + count[i + 1]
    IN  count[2]

RipgrepCheck(argv) ==
    IF HasAny(argv, {"--pre"}) THEN "AskNoPersist"
    ELSE IF HasAny(argv, {"-z"}) THEN "Unknown" ELSE "Allow"

FindCheck(argv) ==
    IF HasAny(argv, {"-exec"}) THEN "AskNoPersist"
    ELSE IF HasAny(argv, {"-fprint"}) THEN "Unknown" ELSE "Allow"

SafetyCheck(argv) ==
    LET name == KeyOf(argv[1]) IN
    CASE argv = <<>> -> "Err"
      [] HasAny(argv, {"sudo"}) -> "NotExecutable"
      [] name \in {"su", "rm"} \/ (name = "gpg" /\ HasAny(argv, {"--gen-key"})) ->
           "NotExecutable"
      [] \/ name \in {"pkexec", "mkfs.ext4", "bash"}
         \/ name = "chmod" /\ HasAny(argv, {"-R"})
         \/ name = "kill" /\ HasAny(argv, {"-1"})
         \/ name = "dd" /\ HasAny(argv, {"of=x"}) -> "AskNoPersist"
      [] name \in {"ls", "echo", "tac"} -> "Allow"
      [] name = "date" /\ \A i \in 2..Len(argv) : argv[i] = "+%s" -> "Allow"
      [] name = "base64" -> IF HasAny(argv, {"-o"}) THEN "Unknown" ELSE "Allow"
      [] name = "uniq" -> IF UniqOperands(argv) >= 2 THEN "Unknown" ELSE "Allow"
      [] name = "find" -> FindCheck(argv)
      [] name = "rg" -> RipgrepCheck(argv)
      [] name = "sed" /\ Len(argv) \in 3..4 /\ argv[2] = "-n" /\ argv[3] = "1p" -> "Allow"
      [] OTHER -> "Unknown"

-----------------------------------------------------------------------------
(* extract_bash_command: the argv the tool call carries for a script.      *)
CommandOf(s, shell) == IF shell THEN <<"bash", "-c", "script">> ELSE s

(* What the gate asks about a line: the parse, and for the command and     *)
(* each of its atoms the strip and the verdict of the tables, the command  *)
(* under a wrapper included.                                               *)
Read(s, shell) ==
    LET parse == ParseCommands(s)
        atoms == IF parse.kind = "Some" THEN {parse.atoms[i] : i \in DOMAIN parse.atoms} ELSE {}
        outer == {CommandOf(s, shell)} \cup atoms
        strip == [a \in outer |-> StripTransparentCommand(a)]
        inner == {strip[a].argv : a \in {b \in outer : strip[b].kind = "Inner"}}
    IN  [parse |-> parse, atoms |-> atoms,
         strip |-> [a \in outer \cup inner |-> IF a \in outer THEN strip[a] ELSE Inner(a)],
         safety |-> [a \in outer \cup inner |-> SafetyCheck(a)]]

ShellRest == line = <<>> /\ viaShell = FALSE /\ reading = Read(<<>>, FALSE)
ShellInit == line = <<>> /\ viaShell \in BOOLEAN /\ reading = Read(<<>>, viaShell)
ShellNext ==
    /\ Len(line) < MaxWords
    /\ \E w \in WordsAfter(line) :
         line' = Append(line, w) /\ reading' = Read(Append(line, w), viaShell)
    /\ UNCHANGED viaShell
ShellSpec == ShellInit /\ [][ShellNext]_shellVars

-----------------------------------------------------------------------------
Command == CommandOf(line, viaShell)
Parsed == reading.parse
LineAtoms == reading.atoms

\* The gate over this parser and these tables.  Its argvs are made of tokens,
\* sequences of words.
Tokens(argv) == [i \in DOMAIN argv |-> <<argv[i]>>]
Untoken(t) == [i \in DOMAIN t |-> t[i][1]]
Mapped(r) == CASE r.kind = "Some" -> [r EXCEPT !.atoms = [i \in DOMAIN @ |-> Tokens(@[i])]]
               [] r.kind = "Inner" -> [r EXCEPT !.argv = Tokens(@)]
               [] OTHER -> r
Judged == DOMAIN reading.strip
JudgedWords == UNION {{a[i] : i \in DOMAIN a} : a \in Judged}
Gate == INSTANCE PermissionClassify WITH
    Words <- JudgedWords,
    FlagWords <- {w \in JudgedWords : Dashed(w)},
    Argvs <- {Tokens(a) : a \in Judged},
    Commands <- {Tokens(Command)},
    ParseOf <- (Tokens(Command) :> Mapped(Parsed)),
    StripOf <- [t \in {Tokens(a) : a \in Judged} |-> Mapped(reading.strip[Untoken(t)])],
    SafetyOf <- [t \in {Tokens(a) : a \in Judged} |-> reading.safety[Untoken(t)]]

(* The one property of the parser and the tables that every proof about    *)
(* the permission gate rests on: what parse_commands returns has atoms,    *)
(* each with a program for safety_check to look at.                        *)
AtomsHavePrograms ==
    /\ Parsed.kind = "Some" => Len(Parsed.atoms) > 0
    /\ \A a \in LineAtoms : a # <<>> /\ reading.safety[a] # "Err"

\* How the wrappers are used, by their manuals.
Layers == {<<"timeout", "5">>, <<"timeout", "-s", "KILL", "5">>,
           <<"timeout", "--signal=KILL", "-v", "--", "5">>,
           <<"env">>, <<"env", "-i", "-u", "-S">>, <<"env", "--unset=HOME", "--">>,
           <<"nice">>, <<"nice", "-n", "-5">>, <<"nice", "--adjustment=5">>,
           <<"nohup">>, <<"nohup", "--">>}

\* How many layers a strip without a limit takes off.
RECURSIVE Peels(_)
Peels(argv) ==
    IF argv = <<>> \/ argv[1] \notin Wrappers \/ (Len(argv) > 1 /\ argv[2] = "--help") THEN 0
    ELSE LET one == StripOne(argv) IN
         IF one.kind # "Rest" \/ one.argv = <<>> THEN 0
         ELSE IF Dashed(one.argv[1]) THEN 0
         ELSE 1 + Peels(one.argv)

(* A wrapper is transparent: in front of any command, well-formed or not,  *)
(* it changes nothing about what is judged, down to MAX_DEPTH layers; one  *)
(* layer more and the user is asked.                                       *)
WrappersAreTransparent ==
    \A a \in LineAtoms, layer \in Layers :
      (~Dashed(a[1]) /\ a[1] \notin {"A=b", "of=x"}) =>
        StripTransparentCommand(layer \o a)
          = (IF Peels(a) >= MaxDepth THEN Unsure ELSE reading.strip[a])

\* The gate's verdict with no rule stored.
VerdictOf(atom) == Gate!ClassifySimple(Tokens(atom), {}, TRUE)

(* A line that runs without a question is made of commands that would each *)
(* run without one: joining commands, or handing them to a shell, earns    *)
(* no approval that the parts do not have, and an unparsed line none.      *)
AutoRunsAreUniform ==
    LET v == Gate!Classify(Tokens(Command), {}, TRUE) IN
    (v.kind = "Ok" /\ v.decision = "Allow") =>
      /\ Parsed.kind = "Some"
      /\ \A a \in LineAtoms :
           VerdictOf(a).kind = "Ok" /\ VerdictOf(a).decision = "Allow"
=============================================================================
