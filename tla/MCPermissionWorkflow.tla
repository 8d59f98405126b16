------------------------ MODULE MCPermissionWorkflow ------------------------
(***************************************************************************)
(* Instances of PermissionWorkflow: a handful of command lines, one for    *)
(* each way a line can be judged.                                          *)
(***************************************************************************)
EXTENDS PermissionWorkflow, TLC

MCWords == {"bash", "-c", "ls", "cargo", "build", "chmod", "-R", "sudo", "env", "for"}
MCFlagWords == {"-c", "-R"}

ls == <<<<"ls">>>>                                  \* safe read
cargo == <<<<"cargo">>, <<"build">>>>               \* ordinary
chmod == <<<<"chmod">>, <<"-R">>>>                  \* dangerous
sudo == <<<<"sudo">>>>                              \* not executable
envCargo == <<<<"env">>, <<"cargo">>, <<"build">>>> \* wraps an ordinary one
envFlag == <<<<"env">>, <<"-R">>>>                  \* wrapper of unknown option
envNone == <<<<"env">>>>                            \* malformed wrapper
script(words) == <<<<"bash">>, <<"-c">>, words>>
lsCargo == script(<<"ls", "cargo", "build">>)       \* safe and ordinary atoms
lsChmod == script(<<"ls", "chmod", "-R">>)          \* a dangerous atom
lsSudo == script(<<"ls", "sudo">>)                  \* a refused atom
forLoop == script(<<"for">>)                        \* not parsed
empty == <<>>                                       \* malformed arguments

AllCommands == {ls, cargo, chmod, sudo, envCargo, envFlag, envNone,
                lsCargo, lsChmod, lsSudo, forLoop, empty}
AllArgvs == AllCommands
\* The lines on which approvals and classes interact, for the larger run.
CoreCommands == {cargo, chmod, lsCargo, lsSudo}

Some(atoms) == [kind |-> "Some", atoms |-> atoms]
ParseTable(cmd) ==
    CASE cmd = lsCargo -> Some(<<ls, cargo>>)
      [] cmd = lsChmod -> Some(<<ls, chmod>>)
      [] cmd = lsSudo -> Some(<<sudo, ls>>)
      [] cmd = forLoop -> [kind |-> "None"]
      [] cmd = empty -> [kind |-> "Err"]
      [] OTHER -> Some(<<cmd>>)
AllParseOf == [cmd \in AllCommands |-> ParseTable(cmd)]
CoreParseOf == [cmd \in CoreCommands |-> ParseTable(cmd)]

MCStripOf == [argv \in AllArgvs |->
    CASE argv = envCargo -> [kind |-> "Inner", argv |-> cargo]
      [] argv = envFlag -> [kind |-> "Unsure"]
      [] argv = envNone -> [kind |-> "Malformed"]
      [] OTHER -> [kind |-> "Inner", argv |-> argv]]

MCSafetyOf == [argv \in AllArgvs |->
    CASE argv = ls -> "Allow"
      [] argv = chmod -> "AskNoPersist"
      [] argv = sudo -> "NotExecutable"
      [] argv = empty -> "Err"
      [] OTHER -> "Unknown"]

Interchangeable == Permutations(Calls) \cup Permutations(Sessions)
=============================================================================
