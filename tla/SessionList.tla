----------------------------- MODULE SessionList -----------------------------
(***************************************************************************)
(* The list of stored sessions: SessionsView (gui/linux/src/widgets/       *)
(* overlay/results/sessions/mod.rs).                                       *)
(*                                                                         *)
(* Listing, searching and deleting are tasks of the other runtime; each    *)
(* applies its result to the rows that the list has by then.               *)
(***************************************************************************)
EXTENDS Naturals, Sequences, SequencesExt, FiniteSets, FiniteSetsExt

CONSTANTS
    StoredSessions, \* the stored sessions, in the order of the list
    Needles,        \* texts of the filter
    Matches,        \* the sessions that the search finds for each
    MaxSteps,       \* bound: what the user does
    NoRow, NoNeedle

ASSUME SessionListAssumption ==
    /\ StoredSessions \in Seq(ToSet(StoredSessions))
    /\ Matches \in [Needles -> SUBSET ToSet(StoredSessions)]

VARIABLES
    list,       \* "off", "on"
    stored,     \* the sessions of the database, in the same order
    listed,     \* the rows
    hidden,     \* those that are not visible
    selected,
    needle,     \* the text of the entry
    work,       \* the tasks that have not been applied, in the order they were started
    steps

sessionListVars == <<list, stored, listed, hidden, selected, needle, work, steps>>

SessionListRest(where) ==
    /\ list = where
    /\ stored = StoredSessions /\ listed = <<>> /\ hidden = {} /\ selected = NoRow
    /\ needle = NoNeedle /\ work = <<>> /\ steps = MaxSteps

SessionListInit == SessionListRest("on")

UserStep == list = "on" /\ steps > 0 /\ steps' = steps - 1
StartTask(t) == work' = Append(work, t)

(* The positions that are visible.                                         *)
Visible(rows, h) == {i \in DOMAIN rows : rows[i] \notin h}

(* The first row of a session, looked up by its id, goes.                  *)
RowsFor(rows, s) == {i \in DOMAIN rows : rows[i] = s}
TakeOut(rows, s) == IF RowsFor(rows, s) = {} THEN rows ELSE RemoveAt(rows, Min(RowsFor(rows, s)))

-----------------------------------------------------------------------------
(* The view is opened: clear, then refresh.                                *)
OpenList ==
    /\ UserStep
    /\ selected' = NoRow /\ hidden' = {} /\ needle' = NoNeedle
    /\ StartTask([kind |-> "list"])
    /\ UNCHANGED <<list, stored, listed>>

Filter(n) ==
    /\ UserStep /\ needle # n
    /\ needle' = n /\ selected' = NoRow
    /\ IF n = NoNeedle THEN hidden' = {} /\ UNCHANGED work
       ELSE UNCHANGED hidden /\ StartTask([kind |-> "search", needle |-> n])
    /\ UNCHANGED <<list, stored, listed>>

(* navigate, from the selected row if it is visible; it stops at the ends. *)
NavigateRows(up) ==
    LET visible == Visible(listed, hidden)
        at == visible \cap RowsFor(listed, selected)
        from == Min(at)
        beyond == {i \in visible : IF up THEN i < from ELSE i > from}
        next == IF at = {} THEN Min(visible)
                ELSE IF beyond = {} THEN from
                ELSE IF up THEN Max(beyond) ELSE Min(beyond)
    IN  /\ UserStep /\ visible # {}
        /\ selected' = listed[next]
        /\ UNCHANGED <<list, stored, listed, hidden, needle, work>>

(* delete_selected, or the button of a row.                                *)
DeleteSession(s) ==
    /\ UserStep /\ \E i \in Visible(listed, hidden) : listed[i] = s
    /\ StartTask([kind |-> "delete", session |-> s])
    /\ UNCHANGED <<list, stored, listed, hidden, selected, needle>>

-----------------------------------------------------------------------------
(* The tasks on the database, and their results on the list.               *)

DropTask(i) == work' = RemoveAt(work, i)

(* The database answers; the result is applied later.                      *)
DatabaseAnswers(i) ==
    LET t == work[i]
    IN  /\ list = "on" /\ t.kind # "result"
        /\ stored' = IF t.kind = "delete" THEN TakeOut(stored, t.session) ELSE stored
        /\ work' = [work EXCEPT ![i] =
                      CASE t.kind = "list" -> [kind |-> "result", of |-> "list", rows |-> stored]
                        [] t.kind = "search" -> [kind |-> "result", of |-> "search", rows |-> Matches[t.needle]]
                        [] t.kind = "delete" -> [kind |-> "result", of |-> "delete", rows |-> t.session]]
        /\ UNCHANGED <<list, listed, hidden, selected, needle, steps>>

TaskFails(i) ==
    /\ list = "on" /\ work[i].kind # "result"
    /\ DropTask(i)
    /\ UNCHANGED <<list, stored, listed, hidden, selected, needle, steps>>

(* set_sessions: new rows, all visible, none selected.                     *)
SetSessions(i) ==
    /\ list = "on" /\ work[i].kind = "result" /\ work[i].of = "list"
    /\ listed' = work[i].rows /\ hidden' = {} /\ selected' = NoRow
    /\ DropTask(i)
    /\ UNCHANGED <<list, stored, needle, steps>>

ApplyFilter(i) ==
    /\ list = "on" /\ work[i].kind = "result" /\ work[i].of = "search"
    /\ hidden' = ToSet(listed) \ work[i].rows
    /\ DropTask(i)
    /\ UNCHANGED <<list, stored, listed, selected, needle, steps>>

(* The row that takes the place of the deleted one: the first visible at   *)
(* or after its position, else the last.                                   *)
Nearest(rows, h, pos) ==
    LET visible == Visible(rows, h)
        after == {i \in visible : i >= pos}
    IN  IF visible = {} THEN NoRow ELSE rows[IF after = {} THEN Max(visible) ELSE Min(after)]

\* Fault: the selection is not moved off the deleted row.
RemoveRowKeepsSelection(i) ==
    LET s == work[i].rows
    IN  /\ list = "on" /\ work[i].kind = "result" /\ work[i].of = "delete"
        /\ listed' = TakeOut(listed, s)
        /\ selected' = selected
        /\ hidden' = hidden \ {s}
        /\ DropTask(i)
        /\ UNCHANGED <<list, stored, needle, steps>>

(* The row is looked up by its id: the list may have been rebuilt.         *)
RemoveRow(i) ==
    LET s == work[i].rows
        at == RowsFor(listed, s)
        rest == TakeOut(listed, s)
    IN  /\ list = "on" /\ work[i].kind = "result" /\ work[i].of = "delete"
        /\ listed' = rest
        /\ selected' = IF at = {} \/ selected # s THEN selected
                       ELSE Nearest(rest, hidden, Min(at))
        /\ hidden' = hidden \ {s}
        /\ DropTask(i)
        /\ UNCHANGED <<list, stored, needle, steps>>

SessionListNext ==
    \/ OpenList
    \/ \E n \in Needles \cup {NoNeedle} : Filter(n)
    \/ \E up \in BOOLEAN : NavigateRows(up)
    \/ \E s \in ToSet(StoredSessions) : DeleteSession(s)
    \/ \E i \in DOMAIN work : DatabaseAnswers(i) \/ TaskFails(i) \/ SetSessions(i) \/ ApplyFilter(i) \/ RemoveRow(i)

-----------------------------------------------------------------------------
(* The selected row is a row of the list, whatever was rebuilt or deleted  *)
(* since; opening or deleting it means the session it shows.               *)
SelectionIsListed == selected # NoRow => selected \in ToSet(listed)
=============================================================================
