------------------------------- MODULE MCGui -------------------------------
(***************************************************************************)
(* The state of the Linux front end, part by part: the launcher, its       *)
(* input, what its searches look through, the transcript of a chat and the *)
(* tree its markdown becomes, the decisions of a chat, the list of         *)
(* sessions, the results of a search, the footer with the picker of the    *)
(* model, and the pages of the settings window.  A behaviour is one of     *)
(* them; the others do not move.                                           *)
(***************************************************************************)
EXTENDS Overlay, Composer, InternalSearch, ChatView, MarkdownTree, DecisionList,
        SessionList, SearchList, ModelPicker, SettingsPages, TLC

CONSTANTS u1, u2, k1, k2, k3, e1, e2, e3, n1, n2, p1, p2, b1, b2, x1, x2, c1, c2, a1, a2, f1, f2, h1, h2, g1, g2, t1, t2, t3, t4

VARIABLE part       \* the part that runs

MCButtons == k1 :> <<"once", "ignore", "deny">> @@ k2 :> <<"once", "ignore">> @@ k3 :> <<>>
MCStored == <<e1, e2, e3>>
MCMatches == n1 :> {e1} @@ n2 :> {e2, e3}
MCClipboards == {<<"memory">>, <<"link">>, <<"image", "other">>}
MCPaths == {<<1>>, <<2>>, <<1, 1>>}
MCFileKinds == [score : {0}, depth : {1}, name : {1}] \cup [score : 1..2, depth : 1..2, name : 1..2]
MCReplies == {<<<<FALSE>>, <<>>, <<FALSE>>>>, <<<<FALSE, TRUE>>, <<>>, <<TRUE>>, <<FALSE, FALSE>>>>}
MCCatalogues ==
    {{[id |-> 1, maker |-> h1, efforts |-> {f1, f2}]},
     {[id |-> 1, maker |-> h1, efforts |-> {f1}], [id |-> 2, maker |-> h2, efforts |-> {f2}], [id |-> 3, maker |-> h2, efforts |-> {}]}}

chatVars == <<viewVars, treeVars>>
settingsVars == <<pageVars, servicesPageVars>>
listVars == <<sessionListVars, searchListVars, pickerVars>>
guiVars == <<part, overlayVars, composerVars, searchVars, chatVars, decisionVars,
             listVars, settingsVars>>

GuiInit ==
    /\ part \in {"overlay", "composer", "index", "rank", "apps", "clipboard", "view", "tree", "decisions",
                 "sessions", "results", "footer", "plugins", "services"}
    /\ IF part = "overlay" THEN OverlayInit ELSE OverlayRest("off")
    /\ IF part = "composer" THEN ComposerInit ELSE ComposerRest("off")
    /\ IF part = "index" THEN FilesInit ELSE FilesRest("off") /\ tree = EmptyTree
    /\ RankInit
    /\ CASE part = "apps" -> AppsInit [] part = "clipboard" -> ClipboardInit [] OTHER -> InternalRest("off")
    /\ IF part = "view" THEN ViewInit ELSE ViewRest("off")
    /\ IF part = "tree" THEN TreeInit ELSE TreeRest("off")
    /\ IF part = "decisions" THEN DecisionInit ELSE DecisionRest("off")
    /\ IF part = "sessions" THEN SessionListInit ELSE SessionListRest("off")
    /\ IF part = "results" THEN SearchListInit ELSE SearchListRest("off")
    /\ IF part = "footer" THEN PickerInit ELSE PickerRest("off")
    /\ IF part = "plugins" THEN PageInit ELSE PageRest("off")
    /\ IF part = "services" THEN ServicesPageInit ELSE ServicesPageRest("off")

GuiNext ==
    /\ UNCHANGED part
    /\ \/ /\ part = "overlay" /\ OverlayNext
          /\ UNCHANGED <<composerVars, searchVars, chatVars, decisionVars, listVars, settingsVars>>
       \/ /\ part = "composer" /\ ComposerNext
          /\ UNCHANGED <<overlayVars, searchVars, chatVars, decisionVars, listVars, settingsVars>>
       \/ /\ \/ part = "index" /\ FilesNext /\ UNCHANGED <<rankVars, internalVars>>
             \/ part = "rank" /\ RankNext /\ UNCHANGED <<fileVars, internalVars>>
             \/ part = "apps" /\ AppsNext /\ UNCHANGED <<fileVars, rankVars>>
             \/ part = "clipboard" /\ ClipboardNext /\ UNCHANGED <<fileVars, rankVars>>
          /\ UNCHANGED <<overlayVars, composerVars, chatVars, decisionVars, listVars, settingsVars>>
       \/ /\ \/ part = "view" /\ ViewNext /\ UNCHANGED treeVars
             \/ part = "tree" /\ TreeNext /\ UNCHANGED viewVars
          /\ UNCHANGED <<overlayVars, composerVars, searchVars, decisionVars, listVars, settingsVars>>
       \/ /\ part = "decisions" /\ DecisionNext
          /\ UNCHANGED <<overlayVars, composerVars, searchVars, chatVars, listVars, settingsVars>>
       \/ /\ \/ part = "sessions" /\ SessionListNext /\ UNCHANGED <<searchListVars, pickerVars>>
             \/ part = "results" /\ SearchListNext /\ UNCHANGED <<sessionListVars, pickerVars>>
             \/ part = "footer" /\ PickerNext /\ UNCHANGED <<sessionListVars, searchListVars>>
          /\ UNCHANGED <<overlayVars, composerVars, searchVars, chatVars, decisionVars, settingsVars>>
       \/ /\ \/ part = "plugins" /\ PageNext /\ UNCHANGED servicesPageVars
             \/ part = "services" /\ ServicesPageNext /\ UNCHANGED pageVars
          /\ UNCHANGED <<overlayVars, composerVars, searchVars, chatVars, decisionVars, listVars>>

GuiSpec == GuiInit /\ [][GuiNext]_guiVars

-----------------------------------------------------------------------------
(* Nothing of an answer is lost on its way to the screen: neither by the   *)
(* throttled rendering of the lines as they stream, nor in the tree that   *)
(* the markdown is rendered from (ChatView, Builder).                      *)
AnswersAreShown == TranscriptIsComplete /\ TreeKeepsTheText
=============================================================================
