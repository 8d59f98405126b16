--------------------------- MODULE MCConversation ---------------------------
(***************************************************************************)
(* What a conversation is made of, part by part: the turn and its history, *)
(* the repair of a history, the windows of a session, the stream of a      *)
(* provider and the conversation sent back to it, the list of models, and  *)
(* the safety of a command line.  A behaviour is one of the six; the       *)
(* others are off.                                                         *)
(***************************************************************************)
EXTENDS ChatTurn, HistoryRepair, SessionReplay, ProviderStream, ModelCatalog, ShellSafety

VARIABLE part       \* the part that runs

TwoSlots == 1..2

-----------------------------------------------------------------------------
(* The command lines: a program, then arguments that mean something to it. *)
Programs ==
    {"ls", "/bin/ls", "rm", "sudo", "chmod", "kill", "dd", "pkexec", "gpg", "bash", "date",
     "base64", "uniq", "find", "rg", "sed", "cargo", "timeout", "./timeout", "env", "nice",
     "nohup", "'a b'"}

ArgsOf == [p \in Programs |->
    CASE p = "timeout" -> {"5", "-s", "KILL", "--signal=x", "--", "--help", "ls", "rm", "-f", "-k", "--bogus"}
      [] p = "env" -> {"-i", "-u", "-S", "-0", "--block-signal=INT", "A=b", "ls", "timeout", "--"}
      [] p = "nice" -> {"-n", "-5", "5", "ls", "nohup", "nice"}
      [] p = "nohup" -> {"--", "-R", "ls", "nice", "nohup"}
      [] p = "chmod" -> {"-R", "'-R'"}
      [] p = "gpg" -> {"--gen-key"}
      [] p = "kill" -> {"-1"}
      [] p = "dd" -> {"of=x"}
      [] p = "date" -> {"+%s", "5"}
      [] p = "base64" -> {"-o"}
      [] p = "uniq" -> {"-f", "5", "--", "cargo"}
      [] p = "find" -> {"-exec", "-fprint", "rm"}
      [] p = "rg" -> {"--pre", "-z"}
      [] p = "sed" -> {"-n", "1p", "5"}
      [] OTHER -> {"-c", "$x", ">f"}]

\* The program of the command being typed.
Typing(s) ==
    LET starts == {i \in 1..Len(s) : i = 1 \/ s[i - 1] \in Operators}
    IN  s[CHOOSE i \in starts : \A j \in starts : j <= i]

MCWordsAfter(s) ==
    IF s = <<>> THEN Programs
    ELSE IF s[Len(s)] \in Operators THEN {"ls", "rm", "cargo", "timeout", ";"}
    ELSE Operators \cup {"&"} \cup (IF Typing(s) \in Programs THEN ArgsOf[Typing(s)] ELSE {})

-----------------------------------------------------------------------------
conversationVars == <<part, vars, repairVars, replayVars, streamVars, catalogVars, shellVars>>

ConversationInit ==
    /\ part \in {"turn", "repair", "windows", "stream", "catalog", "shell"}
    /\ Init /\ RepairInit
    /\ IF part = "windows" THEN ReplayInit ELSE ReplayRest("off")
    /\ IF part = "stream" THEN StreamInit ELSE StreamRest("off")
    /\ IF part = "catalog" THEN CatalogInit ELSE CatalogRest("off")
    /\ IF part = "shell" THEN ShellInit ELSE ShellRest

ConversationNext ==
    /\ UNCHANGED part
    /\ \/ part = "turn" /\ Next /\ UNCHANGED <<repairVars, replayVars, streamVars, catalogVars, shellVars>>
       \/ part = "repair" /\ RepairNext /\ UNCHANGED <<vars, replayVars, streamVars, catalogVars, shellVars>>
       \/ part = "windows" /\ ReplayNext /\ UNCHANGED <<vars, repairVars, streamVars, catalogVars, shellVars>>
       \/ part = "stream" /\ StreamNext /\ UNCHANGED <<vars, repairVars, replayVars, catalogVars, shellVars>>
       \/ part = "catalog" /\ CatalogNext /\ UNCHANGED <<vars, repairVars, replayVars, streamVars, shellVars>>
       \/ part = "shell" /\ ShellNext /\ UNCHANGED <<vars, repairVars, replayVars, streamVars, catalogVars>>

ConversationSpec == ConversationInit /\ [][ConversationNext]_conversationVars

-----------------------------------------------------------------------------
(* A chat has exactly one end, after everything else it says; what was     *)
(* shown while it streamed is what is stored of it; and a window opened at *)
(* any moment shows what one that stayed open shows (response_event_stream *)
(* of the plugins, SessionManager::add_event and restore_session).         *)
StreamsAreKept ==
    /\ part = "stream" => StreamEndsOnce /\ ShownIsStored
    /\ part = "windows" => WindowsAgree

(* A stored conversation goes back to each service the way that service    *)
(* wants it: its own items as it made them, those of the others without    *)
(* what they alone understand, every call with its result.                 *)
ReplayIsFaithful == part = "stream" => EchoIsExact /\ RequestsHold

(* The verdict on a command line: every atom has a program to judge, a     *)
(* wrapper does not change the verdict on what it wraps, and joining       *)
(* commands earns no approval that the parts do not have.                  *)
LinesAreJudged ==
    part = "shell" => AtomsHavePrograms /\ WrappersAreTransparent /\ AutoRunsAreUniform
=============================================================================
