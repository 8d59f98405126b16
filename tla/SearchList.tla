------------------------------ MODULE SearchList ------------------------------
(***************************************************************************)
(* The results of a search: SearchView (gui/linux/src/widgets/overlay/     *)
(* results/search), and the panel of a result's other actions.             *)
(*                                                                         *)
(* Sections arrive in any order while the user moves through the rows.     *)
(* Keys and clicks act on the widgets at once; panels, actions, queries    *)
(* and sections go through the queue of the launcher, whose loop handles   *)
(* everything that is queued before GTK sees the next event.               *)
(*                                                                         *)
(* With the other lists the user selects from, the decisions of a chat,    *)
(* the sessions and the footer, it makes the selections of the launcher.   *)
(***************************************************************************)
EXTENDS DecisionList, SessionList, ModelPicker, Naturals, Sequences, SequencesExt, FiniteSets, FiniteSetsExt

CONSTANTS
    Capabilities,       \* extension capabilities that search
    Replies,            \* what one finds: sequences of items, an item its actions, TRUE the primary ones
    MaxSectionItems,    \* MAX_SECTION_ITEMS
    MaxPresses,         \* bound: what the user does
    MaxWaiting,         \* bound: messages in the queue when a search adds one
    NoPanel

ASSUME SearchListAssumption ==
    /\ Replies \in SUBSET Seq(Seq(BOOLEAN))
    /\ MaxSectionItems \in Nat

VARIABLES
    results,    \* "off", "on"
    card,       \* SearchView and the queue
    looping,    \* whether the loop of the launcher has the thread
    typing,     \* whether the timer after an edit runs
    query,      \* Model.query_id
    searches,   \* the searches that run
    presses

searchListVars == <<results, card, looping, typing, query, searches, presses>>

NewView == [rows |-> <<>>, hidden |-> {}, selected |-> 0, panel |-> NoPanel, strays |-> 0, queue |-> <<>>]

SearchListRest(where) ==
    /\ results = where
    /\ card = NewView /\ looping = FALSE /\ typing = FALSE
    /\ query = 0 /\ searches = {} /\ presses = MaxPresses

SearchListInit == SearchListRest("on")

-----------------------------------------------------------------------------
(* The rows.                                                               *)

Usable(items) ==
    LET kept[i \in 0..Len(items)] ==
            IF i = 0 THEN <<>>
            ELSE IF items[i] = <<>> THEN kept[i - 1] ELSE Append(kept[i - 1], items[i])
    IN  kept[Len(items)]
ItemRow(of, item) == [kind |-> "Item", of |-> of, actions |-> item]
ItemRows(of, items) == [i \in DOMAIN items |-> ItemRow(of, items[i])]

(* The first action that says so, else the first.                          *)
PrimaryIndex(actions) ==
    IF \E i \in DOMAIN actions : actions[i] THEN Min({i \in DOMAIN actions : actions[i]}) ELSE 1

\* Fault: the rows beyond the first are hidden also where no row leads to them.
AppendSectionHidesAll(v, of, items) ==
    LET usable == Usable(items)
        head == Min({MaxSectionItems, Len(usable)})
        tail == SubSeq(usable, head + 1, Len(usable))
        more == IF Len(tail) < 2 THEN <<>> ELSE <<[kind |-> "ShowMore", of |-> of, tail |-> Len(tail)]>>
        start == Len(v.rows) + head + Len(more)
    IN  [v EXCEPT !.rows = @ \o ItemRows(of, SubSeq(usable, 1, head)) \o more \o ItemRows(of, tail),
                  !.hidden = @ \cup (start + 1)..(start + Len(tail))]

(* A section that is only a little too long is shown in full.              *)
AppendSection(v, of, items) ==
    LET usable == Usable(items)
        head == IF Len(usable) > MaxSectionItems + 1 THEN MaxSectionItems ELSE Len(usable)
        tail == SubSeq(usable, head + 1, Len(usable))
        more == IF tail = <<>> THEN <<>> ELSE <<[kind |-> "ShowMore", of |-> of, tail |-> Len(tail)]>>
        start == Len(v.rows) + head + Len(more)
    IN  [v EXCEPT !.rows = @ \o ItemRows(of, SubSeq(usable, 1, head)) \o more \o ItemRows(of, tail),
                  !.hidden = @ \cup (start + 1)..(start + Len(tail))]

AppendChatAction(v) == [v EXCEPT !.rows = Append(@, [kind |-> "Chat"])]

Queue(v, msg) == [v EXCEPT !.queue = Append(@, msg)]
IsActionPanelOpen(v) == v.panel # NoPanel /\ v.panel.open

(* popdown emits closed before it returns.                                 *)
ClosePanel(v) ==
    IF IsActionPanelOpen(v) THEN Queue([v EXCEPT !.panel.open = FALSE], [msg |-> "PanelClosed"]) ELSE v

(* A panel that is let go of while it is open stays on the screen.         *)
LetGo(v) == [v EXCEPT !.panel = NoPanel, !.strays = IF IsActionPanelOpen(v) THEN @ + 1 ELSE @]

\* Fault: the panel is dropped, not closed.
ClearViewOnly(v) == [LetGo(v) EXCEPT !.rows = <<>>, !.hidden = {}, !.selected = 0]

ClearResults(v) == [LetGo(ClosePanel(v)) EXCEPT !.rows = <<>>, !.hidden = {}, !.selected = 0]

OpenActionPanel(v) ==
    LET row == v.rows[v.selected]
    IN  IF IsActionPanelOpen(v) \/ v.selected = 0 THEN v
        ELSE IF row.kind # "Item" \/ (row.kind = "Item" /\ Len(row.actions) < 2) THEN v
        ELSE [v EXCEPT !.panel = [row |-> v.selected, of |-> row.of, actions |-> row.actions, at |-> 1, open |-> TRUE]]

-----------------------------------------------------------------------------
(* The loop of the launcher.                                               *)

LetSee(v) == card' = v /\ looping' = (v.queue # <<>>)
OnlySee(v) == LetSee(v) /\ UNCHANGED <<query, searches>>

(* A new text is a new query; the sections of the last are dropped.        *)
QueryChanged(v, content) ==
    /\ LetSee(ClearResults(v))
    /\ query' = query + 1
    /\ searches' = IF content THEN searches \cup {[query |-> query + 1, left |-> Capabilities, found |-> FALSE]} ELSE searches

QueryEventReceived(v, msg) ==
    OnlySee(IF msg.query = query THEN AppendSection(v, msg.of, msg.items) ELSE v)

QueryFinished(v, msg) ==
    OnlySee(CASE msg.query # query -> v
              [] msg.query = query /\ msg.found -> AppendChatAction(v)
              [] msg.query = query /\ ~msg.found -> ClearResults(v))

(* An action hides the launcher, Escape the content: a new query id, and   *)
(* nothing is shown.  The text is cleared, and the timer with it unless    *)
(* there was none.                                                         *)
Dismissed(v) ==
    /\ LetSee(ClearResults(v))
    /\ query' = query + 1 /\ UNCHANGED searches

HandleSearchMsg ==
    LET msg == Head(card.queue)
        v == [card EXCEPT !.queue = Tail(@)]
    IN  /\ results = "on" /\ card.queue # <<>>
        /\ \/ msg.msg = "QueryChanged" /\ QueryChanged(v, msg.content)
           \/ msg.msg = "QueryEvent" /\ QueryEventReceived(v, msg)
           \/ msg.msg = "QueryFinished" /\ QueryFinished(v, msg)
           \/ msg.msg \in {"ResultAction", "Exit"} /\ Dismissed(v)
           \/ msg.msg = "OpenPanel" /\ OnlySee(OpenActionPanel(v))
           \/ msg.msg = "PanelClosed" /\ OnlySee(LetGo(v))
           \/ msg.msg = "Prompt" /\ OnlySee(v)
        /\ typing' \in IF msg.msg \in {"ResultAction", "Exit"} THEN {typing, FALSE} ELSE {typing}
        /\ UNCHANGED <<results, presses>>

(* Searches run on the other runtime, and queue whenever they find.        *)
SearchReplies(t, of, items) ==
    /\ results = "on" /\ of \in t.left /\ Len(card.queue) < MaxWaiting
    /\ card' = Queue(card, [msg |-> "QueryEvent", query |-> t.query, of |-> of, items |-> items])
    /\ searches' = (searches \ {t}) \cup {[t EXCEPT !.left = @ \ {of}, !.found = @ \/ Usable(items) # <<>>]}
    /\ UNCHANGED <<results, looping, typing, query, presses>>

SearchFinishes(t) ==
    /\ results = "on" /\ Len(card.queue) < MaxWaiting
    /\ card' = Queue(card, [msg |-> "QueryFinished", query |-> t.query, found |-> t.found])
    /\ searches' = searches \ {t}
    /\ UNCHANGED <<results, looping, typing, query, presses>>

-----------------------------------------------------------------------------
(* The user.  While a panel is open it takes the keys.                     *)

Press(v) ==
    /\ results = "on" /\ ~looping /\ presses > 0 /\ presses' = presses - 1
    /\ card' = v
    /\ UNCHANGED <<results, looping, query, searches>>

OnList(v) == ~IsActionPanelOpen(card) /\ Press(v) /\ UNCHANGED typing
OnPanel(v) == IsActionPanelOpen(card) /\ Press(v) /\ UNCHANGED typing

TypeText == ~IsActionPanelOpen(card) /\ Press(card) /\ typing' = TRUE

(* A text that becomes empty is reported at once.                          *)
EraseText ==
    /\ ~IsActionPanelOpen(card) /\ Press(Queue(card, [msg |-> "QueryChanged", content |-> FALSE]))
    /\ typing' = FALSE

(* The timer runs out, whatever the user has done since; the text may be   *)
(* blank.                                                                  *)
TypingEnds ==
    /\ results = "on" /\ ~looping /\ typing
    /\ typing' = FALSE
    /\ \E content \in BOOLEAN : card' = Queue(card, [msg |-> "QueryChanged", content |-> content])
    /\ UNCHANGED <<results, looping, query, searches, presses>>

VisibleRows(v) == DOMAIN v.rows \ v.hidden

(* navigate: step_index stops at the ends; without a selection the first.  *)
NavigateResults(up) ==
    LET visible == VisibleRows(card)
        from == card.selected
        beyond == {i \in visible : IF up THEN i < from ELSE i > from}
        next == IF from \notin visible THEN Min(visible)
                ELSE IF beyond = {} THEN from
                ELSE IF up THEN Max(beyond) ELSE Min(beyond)
    IN  visible # {} /\ OnList([card EXCEPT !.selected = next])

\* Fault: the rows are shown, and the row that is no more stays selected.
ExpandOnly(v, i) == [v EXCEPT !.hidden = (@ \cup {i}) \ (i + 1)..(i + v.rows[i].tail)]

(* The row that shows more gives way to the rows it leads to.              *)
Expand(v, i) ==
    [v EXCEPT !.hidden = (@ \cup {i}) \ (i + 1)..(i + v.rows[i].tail), !.selected = i + 1]

(* connect_row_activated.                                                  *)
RowActivated(v, i) ==
    LET row == v.rows[i]
    IN  CASE row.kind = "Item" ->
                Queue(v, [msg |-> "ResultAction", of |-> row.of, action |-> PrimaryIndex(row.actions)])
          [] row.kind = "ShowMore" -> Expand(v, i)
          [] row.kind = "Chat" -> Queue(v, [msg |-> "Prompt"])

(* Enter: with no result at all the text is a prompt.                      *)
EnterKey ==
    OnList(IF card.selected # 0 THEN RowActivated(card, card.selected)
           ELSE IF card.rows = <<>> THEN Queue(card, [msg |-> "Prompt"])
           ELSE card)

(* A click selects the row and activates it.                               *)
ClickRow(i) == OnList(RowActivated([card EXCEPT !.selected = i], i))

ShowActionsKey == OnList(Queue(card, [msg |-> "OpenPanel"]))

(* The button that a row with several actions has.                         *)
MoreActions(i) ==
    /\ card.rows[i].kind = "Item" /\ Len(card.rows[i].actions) > 1
    /\ OnList(Queue([card EXCEPT !.selected = i], [msg |-> "OpenPanel"]))

ExitKey == OnList(Queue(card, [msg |-> "Exit"]))

(* The keys of the panel go round.                                         *)
PanelMoves(up) ==
    OnPanel([card EXCEPT !.panel.at = LET n == Len(card.panel.actions)
                                      IN  IF up THEN ((@ + n - 2) % n) + 1 ELSE (@ % n) + 1])

(* Enter, or a click on a button: the panel closes, then the action runs.  *)
PanelSubmits(k) ==
    OnPanel(Queue(ClosePanel(card), [msg |-> "ResultAction", of |-> card.panel.of, action |-> k]))

PanelDismissed == OnPanel(ClosePanel(card))

UserPresses ==
    \/ TypeText \/ EraseText \/ EnterKey \/ ShowActionsKey \/ ExitKey \/ PanelDismissed
    \/ \E up \in BOOLEAN : NavigateResults(up)
    \/ \E i \in VisibleRows(card) : ClickRow(i) \/ MoreActions(i)
    \/ \E up \in BOOLEAN : PanelMoves(up)
    \/ IsActionPanelOpen(card) /\ \E k \in DOMAIN card.panel.actions : PanelSubmits(k)

SearchListNext ==
    \/ HandleSearchMsg \/ TypingEnds \/ UserPresses
    \/ \E t \in searches : \/ SearchFinishes(t)
                           \/ \E of \in Capabilities, items \in Replies : SearchReplies(t, of, items)

-----------------------------------------------------------------------------
(* Enter acts on a row the user sees: what is selected is visible, however *)
(* the list was expanded, cleared or refilled since.                       *)
SelectedIsVisible == card.selected # 0 => card.selected \in VisibleRows(card)

(* No result is out of reach: a hidden row is still announced by a visible *)
(* row that shows more, of its own section.                                *)
HiddenIsAnnounced ==
    \A i \in card.hidden : card.rows[i].kind = "Item" =>
        \E j \in VisibleRows(card) :
            /\ card.rows[j].kind = "ShowMore"
            /\ i \in (j + 1)..(j + card.rows[j].tail)
            /\ card.rows[j].of = card.rows[i].of

(* The panel on the screen is the one that SearchView holds, and offers    *)
(* the actions of a row that is still there, with a timer, sections and a  *)
(* late ActionPanelClosed in between.                                      *)
PanelIsAnchored ==
    /\ card.strays = 0
    /\ IsActionPanelOpen(card) =>
        /\ card.panel.row \in VisibleRows(card)
        /\ card.rows[card.panel.row] = ItemRow(card.panel.of, card.panel.actions)
        /\ card.panel.at \in DOMAIN card.panel.actions
-----------------------------------------------------------------------------
(* The lists share nothing.                                                *)
selectionVars == <<decisionVars, sessionListVars, searchListVars, pickerVars>>

SelectionsInit == DecisionInit /\ SessionListInit /\ SearchListInit /\ PickerInit

SelectionsNext ==
    \/ DecisionNext /\ UNCHANGED <<sessionListVars, searchListVars, pickerVars>>
    \/ SessionListNext /\ UNCHANGED <<decisionVars, searchListVars, pickerVars>>
    \/ SearchListNext /\ UNCHANGED <<decisionVars, sessionListVars, pickerVars>>
    \/ PickerNext /\ UNCHANGED <<decisionVars, sessionListVars, searchListVars>>

SelectionsSpec == SelectionsInit /\ [][SelectionsNext]_selectionVars

(* What Enter acts on exists and is decided once: the decision of a chat   *)
(* (PendingDecisions), the row of the session list and the result of a     *)
(* search survive every reply, filter, delete and new section; no result   *)
(* is out of reach, and the panel of actions belongs to a row that is      *)
(* there (SearchView).  The picker of the footer has checked a row that    *)
(* can be picked, and shows what is stored when all is quiet               *)
(* (ModelPicker).                                                          *)
SelectionsAreLive ==
    /\ SelectionIsLive /\ SelectionIsListed /\ OneDecisionPerCall
    /\ SelectedIsVisible /\ HiddenIsAnnounced /\ PanelIsAnchored
    /\ CheckedIsOffered /\ PickerSettles
=============================================================================
