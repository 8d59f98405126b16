--------------------------- MODULE MCControllers ---------------------------
(***************************************************************************)
(* The controllers behind the settings pages, what they cache and the      *)
(* tables they write, each on its own: provider accounts, the ways a login *)
(* ends, MCP servers, extensions, a cached list, and the storage of        *)
(* plugins and histories.  A behaviour is one of them; the others do not   *)
(* move.                                                                   *)
(***************************************************************************)
EXTENDS ProviderAccounts, ConnectFlow, McpController, ExtensionController, RefreshSlot,
        Storage, TLC

CONSTANTS
    a1, a2, b1, b2, b3, p, q,
    m1, boot, change, remove, again, k1,
    e1, e2, started, added, updated, removed

VARIABLE part       \* the part that runs

MCBackendOf == [a \in {a1, a2} |-> b1]
MCProviderOf == b1 :> p @@ b2 :> p @@ b3 :> q
MCTables == {<<>>, <<b1, b2, b3>>, <<b3, b2>>}

MCKind == boot :> "boot" @@ change :> "change" @@ remove :> "remove" @@ again :> "add"
MCServer == [t \in {boot, change, remove, again} |-> m1]

MCExtKind == started :> "start" @@ added :> "add" @@ updated :> "update" @@ removed :> "remove"
MCExtOf == started :> e1 @@ added :> e2 @@ updated :> e1 @@ removed :> e1

Item(type, id, images) == [type |-> type, call |-> id, images |-> images]
Image(ordinal, data) == [ordinal |-> ordinal, data |-> data]
MCStoredItems == {
    Item("user_prompt", 0, <<>>), Item("user_prompt", 0, <<Image(1, "x")>>),
    Item("user_prompt", 0, <<Image(1, "y"), Image(1, "x")>>),
    Item("reasoning", 0, <<>>), Item("tool_call", 1, <<>>), Item("tool_result", 1, <<>>)}

controllersVars == <<part, accountVars, flowVars, mcpVars, extVars, vars, storeVars>>

ControllersInit ==
    /\ part \in {"accounts", "login", "mcp", "extensions", "cache", "storage"}
    /\ IF part = "accounts" THEN AccountsInit ELSE AccountsRest("off", <<>>)
    /\ IF part = "login" THEN FlowInit ELSE FlowRest("off") /\ window = 0
    /\ IF part = "mcp" THEN McpInit ELSE McpRest("off")
    /\ IF part = "extensions" THEN ExtInit ELSE ExtRest("off")
    /\ Init
    /\ IF part = "storage" THEN StoreInit ELSE StoreRest(0)

ControllersNext ==
    /\ UNCHANGED part
    /\ \/ part = "accounts" /\ AccountsNext /\ UNCHANGED <<flowVars, mcpVars, extVars, vars, storeVars>>
       \/ part = "login" /\ FlowNext /\ UNCHANGED <<accountVars, mcpVars, extVars, vars, storeVars>>
       \/ part = "mcp" /\ McpNext /\ UNCHANGED <<accountVars, flowVars, extVars, vars, storeVars>>
       \/ part = "extensions" /\ ExtNext /\ UNCHANGED <<accountVars, flowVars, mcpVars, vars, storeVars>>
       \/ part = "cache" /\ Next /\ UNCHANGED <<accountVars, flowVars, mcpVars, extVars, storeVars>>
       \/ part = "storage" /\ StoreNext /\ UNCHANGED <<accountVars, flowVars, mcpVars, extVars, vars>>

ControllersSpec ==
    /\ ControllersInit /\ [][ControllersNext]_controllersVars
    /\ ExtFairness /\ Fairness

-----------------------------------------------------------------------------
(* A search that was sent to the extensions is answered by each of them or *)
(* given up, and a refresh that was begun ends (ExtensionController,       *)
(* RefreshSlot).                                                           *)
AnswersComeIn == SearchResolves /\ RefreshesEnd
=============================================================================
