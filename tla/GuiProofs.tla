------------------------------ MODULE GuiProofs ------------------------------
(***************************************************************************)
(* Proofs about the launcher, the settings and the input of the Linux      *)
(* front end, for any sessions, plugins, backends and permissions, any     *)
(* number of inputs and queues of any length.                              *)
(*                                                                         *)
(* The launcher has one conversation and a number of tasks that know       *)
(* nothing of it; what keeps them apart is the number of the turn.  So the *)
(* invariant is about what bears the current number: Mine, the task, and   *)
(* Now, the messages that wait in the queue.                               *)
(*                                                                         *)
(*   - no task or message bears a number that is yet to come (Bounded), so *)
(*     a step that counts on leaves everything behind at once;             *)
(*   - there is one task at most, and what it queues is in the order the   *)
(*     handlers rely on: the session's id first, an end last (Orderly);    *)
(*   - Talk relates the two to the model and the widgets: the model is     *)
(*     busy exactly if there is a task or a message, the last of which     *)
(*     ends the turn; all speak of the session that the model has, or that *)
(*     a message at their head tells it.                                   *)
(*                                                                         *)
(* That the content comes back as it was left needs one thing more: what   *)
(* is visible when the launcher is hidden is to be restored (Resumes).     *)
(*                                                                         *)
(* The settings have no such number.  Each of their pages is an invariant  *)
(* over its own page, tasks and queue, and one lemma says what any message *)
(* does to it (HandleEffect, ReactEffect).                                 *)
(*                                                                         *)
(*   - Plugins: only a save or a finalize is ever aborted (FlowIsTracked), *)
(*     so what a locked dialog waits for (DialogOK) is lost only to a      *)
(*     message that unlocks it.  A switch is as it is stored unless        *)
(*     somebody is still to say so (SwitchOK); the user acts on an empty   *)
(*     queue, so no list comes between a switch and its task               *)
(*     (UserComesFirst).                                                   *)
(*   - Services: a dialog waits for its own backend (Awaited), for which   *)
(*     one task works, the one that is tracked (OneFlow).  A list that was *)
(*     read says what is connected, but for the row of a flow that may yet *)
(*     take it back (Halfway), unless another list is sure to follow       *)
(*     (ListsFollow).                                                      *)
(*                                                                         *)
(* The input is proved last, for any clipboards and any order in which     *)
(* pastes land: an image has one anchor, and the attachments are the       *)
(* images whose anchor is in the text (ComposerInv).                       *)
(***************************************************************************)
EXTENDS Overlay, SettingsPages, Composer, FiniteSetTheorems, SequenceTheorems, WellFoundedInduction, TLAPS

TurnMsgs == {"PreparationFailed", "PromptPrepared", "RequestStarted", "RenderEvent", "RestoreFailed"}

MaybeUuid == Uuids \cup {NoUuid}

PlainMsgs ==
    [msg : {"Toggle", "OpenSettings", "ResultAction", "ExitSearch", "PromptSubmit", "Interrupt",
            "ToggleSessions", "ContentClose"}]
    \cup [msg : {"QueryChanged"}, content : BOOLEAN]
    \cup [msg : {"QueryEvent"}, query : Nat]
    \cup [msg : {"QueryFinished"}, query : Nat, found : BOOLEAN]
    \cup [msg : {"Restore"}, session : Uuids]

CarryingMsgs ==
    [msg : {"PreparationFailed", "PromptPrepared", "RestoreFailed"}, turn : Nat]
    \cup [msg : {"RequestStarted"}, turn : Nat, session : MaybeUuid]
    \cup [msg : {"RenderEvent"}, turn : Nat, of : MaybeUuid, terminal : BOOLEAN]

Messages == PlainMsgs \cup CarryingMsgs

LauncherTasks ==
    [kind : {"search"}, query : Nat, found : BOOLEAN]
    \cup [kind : {"prepare"}, turn : Nat]
    \cup [kind : {"chat", "restore"}, turn : Nat, session : MaybeUuid, at : {"opening", "streaming", "spoke"}]

Widgets ==
    [page : {"Search", "Chat", "Session"}, content : BOOLEAN, restore : BOOLEAN, shown : BOOLEAN,
     footer : {"idle", "search", "chat", "session", "streaming"}, typed : BOOLEAN, debounce : BOOLEAN,
     rows : SUBSET Nat, chat : SUBSET MaybeUuid, open : BOOLEAN,
     queue : Seq(Messages), tasks : SUBSET LauncherTasks]

Models ==
    [mode : {"Search", "Chat", "Session"}, session : MaybeUuid, turn : Nat, running : BOOLEAN, query : Nat]

-----------------------------------------------------------------------------
(* What bears the number n.                                                *)

Current(x, n) == x.msg \in TurnMsgs /\ x.turn = n
Now(q, n) == {q[i] : i \in {j \in DOMAIN q : Current(q[j], n)}}
Mine(ts, n) == {t \in ts : t.kind # "search" /\ t.turn = n}

Final(x) == x.msg # "RequestStarted" /\ (x.msg = "RenderEvent" => x.terminal)

Bounded(q, ts, n) ==
    /\ \A i \in DOMAIN q : q[i].msg \in TurnMsgs => q[i].turn <= n
    /\ \A t \in ts : t.kind # "search" => t.turn <= n

Orderly(q, n) ==
    \A i, j \in DOMAIN q :
        i < j /\ Current(q[i], n) /\ Current(q[j], n) => ~Final(q[i]) /\ q[j].msg = "RenderEvent"

Alone(now, mine) ==
    /\ \A t, u \in mine : t = u
    /\ \A t \in mine, x \in now : t.kind # "prepare" /\ t.at # "opening" /\ ~Final(x)

Busy(m, now, mine) ==
    /\ m.running <=> (mine # {} \/ now # {})
    /\ mine = {} /\ now # {} => \E x \in now : Final(x)

SpeakOf(s, now, mine) ==
    /\ \A x \in now : x.msg = "RenderEvent" => x.of = s
    /\ \A t \in mine : t.kind # "prepare" => t.session = s

Sessions(m, now, mine) ==
    /\ \A x \in now : x.msg = "RequestStarted" => m.session \in {x.session, NoUuid} /\ SpeakOf(x.session, now, mine)
    /\ (\A x \in now : x.msg # "RequestStarted") => SpeakOf(m.session, now, mine)

View(m, now, mine, chat) ==
    /\ chat \subseteq {m.session, NoUuid}
    /\ \A t \in mine : t.kind = "restore" /\ t.at = "opening" => chat = {}
    /\ \A x \in now : x.msg = "RestoreFailed" => chat = {}

Stop(m, now, mine, footer) ==
    /\ footer = "streaming" => m.running /\ m.mode = "Chat"
    /\ \A t \in mine : t.kind = "prepare" => footer # "streaming"
    /\ \A x \in now : x.msg \in {"PromptPrepared", "PreparationFailed"} => footer # "streaming"

Talk(m, now, mine, chat, footer) ==
    /\ Alone(now, mine) /\ Busy(m, now, mine) /\ Sessions(m, now, mine)
    /\ View(m, now, mine, chat) /\ Stop(m, now, mine, footer)

Conversation(m, q, ts, chat, footer) ==
    /\ Bounded(q, ts, m.turn) /\ Orderly(q, m.turn)
    /\ Talk(m, Now(q, m.turn), Mine(ts, m.turn), chat, footer)

Resumes(v) ==
    /\ v.open = (IF v.shown THEN v.content ELSE v.restore)
    /\ ~v.shown /\ v.content => v.restore

Sound(m, v) ==
    /\ m \in Models /\ v \in Widgets
    /\ Conversation(m, v.queue, v.tasks, v.chat, v.footer)
    /\ Resumes(v)

LauncherInv == Sound(model, w) /\ taken \subseteq Uuids


-----------------------------------------------------------------------------
(* Queues.                                                                 *)

(* A message that is taken from the queue leaves the rest as it was.       *)
LEMMA TailOf ==
  ASSUME NEW q \in Seq(Messages), q # <<>>
  PROVE  /\ Head(q) \in Messages /\ Tail(q) \in Seq(Messages)
         /\ Head(q) = q[1] /\ 1 \in DOMAIN q
         /\ DOMAIN q \subseteq Nat
         /\ \A i \in DOMAIN Tail(q) : i \in Nat /\ i + 1 \in DOMAIN q /\ Tail(q)[i] = q[i + 1]
         /\ \A i \in DOMAIN q : i = 1 \/ (i - 1 \in DOMAIN Tail(q) /\ Tail(q)[i - 1] = q[i])
 OBVIOUS

(* A message that is added comes last.                                     *)
LEMMA AppendTo ==
  ASSUME NEW q \in Seq(Messages), NEW x \in Messages
  PROVE  /\ Append(q, x) \in Seq(Messages)
         /\ q \o <<x>> = Append(q, x) /\ q \o <<>> = q
         /\ DOMAIN q \subseteq DOMAIN Append(q, x)
         /\ \A i \in DOMAIN q : Append(q, x)[i] = q[i] /\ i < Len(q) + 1
         /\ Len(q) + 1 \in DOMAIN Append(q, x) /\ Append(q, x)[Len(q) + 1] = x
         /\ \A i \in DOMAIN Append(q, x) : i \in DOMAIN q \/ i = Len(q) + 1
         /\ DOMAIN Append(q, x) \subseteq Nat
 OBVIOUS

(* What a handler finds behind the message it took: the same messages of   *)
(* the turn but this one, and if it is of the turn, answers only and none  *)
(* if it ends the turn.                                                    *)
LEMMA Taking ==
  ASSUME NEW q \in Seq(Messages), q # <<>>, NEW ts, NEW n \in Nat,
         Bounded(q, ts, n), Orderly(q, n)
  PROVE  /\ Bounded(Tail(q), ts, n) /\ Orderly(Tail(q), n)
         /\ ~Current(Head(q), n) => Now(Tail(q), n) = Now(q, n)
         /\ Current(Head(q), n) =>
              /\ Now(q, n) = Now(Tail(q), n) \cup {Head(q)}
              /\ \A x \in Now(Tail(q), n) : x.msg = "RenderEvent" /\ ~Final(Head(q))
<1>1. Bounded(Tail(q), ts, n)
  BY TailOf DEF Bounded
<1>2. ASSUME NEW i \in DOMAIN Tail(q), NEW j \in DOMAIN Tail(q),
             i < j, Current(Tail(q)[i], n), Current(Tail(q)[j], n)
      PROVE  ~Final(Tail(q)[i]) /\ Tail(q)[j].msg = "RenderEvent"
  <2>1. /\ i + 1 \in DOMAIN q /\ j + 1 \in DOMAIN q /\ i + 1 < j + 1
        /\ Tail(q)[i] = q[i + 1] /\ Tail(q)[j] = q[j + 1]
    BY <1>2, TailOf
  <2> QED
    BY <1>2, <2>1 DEF Orderly
<1>3. Orderly(Tail(q), n)
  BY <1>2 DEF Orderly
<1>4. Now(Tail(q), n) \subseteq Now(q, n)
  BY TailOf DEF Now
<1>5. \A x \in Now(q, n) : x \in Now(Tail(q), n) \/ (x = Head(q) /\ Current(Head(q), n))
  <2>1. SUFFICES ASSUME NEW i \in DOMAIN q, Current(q[i], n)
                 PROVE  q[i] \in Now(Tail(q), n) \/ (q[i] = Head(q) /\ Current(Head(q), n))
    BY DEF Now
  <2>2. CASE i = 1
    BY <2>1, <2>2, TailOf
  <2>3. CASE i - 1 \in DOMAIN Tail(q) /\ Tail(q)[i - 1] = q[i]
    BY <2>1, <2>3 DEF Now
  <2> QED
    BY <2>2, <2>3, TailOf
<1>6. ASSUME Current(Head(q), n)
      PROVE  /\ Head(q) \in Now(q, n)
             /\ \A x \in Now(Tail(q), n) : x.msg = "RenderEvent" /\ ~Final(Head(q))
  <2>1. Head(q) \in Now(q, n)
    BY <1>6, TailOf DEF Now
  <2>2. ASSUME NEW x \in Now(Tail(q), n)
        PROVE  x.msg = "RenderEvent" /\ ~Final(Head(q))
    <3>1. PICK i \in DOMAIN Tail(q) : x = Tail(q)[i] /\ Current(Tail(q)[i], n)
      BY DEF Now
    <3>2. i + 1 \in DOMAIN q /\ x = q[i + 1] /\ 1 < i + 1 /\ 1 \in DOMAIN q /\ Head(q) = q[1]
      <4>1. i \in DOMAIN Tail(q) => i > 0
        OBVIOUS
      <4> QED
        BY <3>1, <4>1, TailOf
    <3> QED
      BY <1>6, <3>1, <3>2 DEF Orderly
  <2> QED
    BY <2>1, <2>2
<1> QED
  BY <1>1, <1>3, <1>4, <1>5, <1>6

(* What a task or a command queues for the current turn joins the messages *)
(* of the turn; the order holds if none of them has ended it.              *)
LEMMA Adding ==
  ASSUME NEW q \in Seq(Messages), NEW x \in Messages, NEW ts, NEW n \in Nat,
         Bounded(q, ts, n), Orderly(q, n),
         x.msg \in TurnMsgs => x.turn <= n,
         Current(x, n) => (\A y \in Now(q, n) : ~Final(y) /\ x.msg = "RenderEvent")
  PROVE  /\ Bounded(Append(q, x), ts, n) /\ Orderly(Append(q, x), n)
         /\ Current(x, n) => Now(Append(q, x), n) = Now(q, n) \cup {x}
         /\ ~Current(x, n) => Now(Append(q, x), n) = Now(q, n)
<1> DEFINE p == Append(q, x)
<1>1. /\ DOMAIN q \subseteq DOMAIN p
      /\ \A i \in DOMAIN q : p[i] = q[i] /\ i < Len(q) + 1
      /\ Len(q) + 1 \in DOMAIN p /\ p[Len(q) + 1] = x
      /\ \A i \in DOMAIN p : i \in DOMAIN q \/ i = Len(q) + 1
  BY AppendTo
<1>2. Len(q) \in Nat /\ DOMAIN p \subseteq Nat
  BY AppendTo
<1> HIDE DEF p
<1>3. Bounded(p, ts, n)
  BY <1>1 DEF Bounded
<1>4. ASSUME NEW i \in DOMAIN p, NEW j \in DOMAIN p, i < j, Current(p[i], n), Current(p[j], n)
      PROVE  ~Final(p[i]) /\ p[j].msg = "RenderEvent"
  <2>1. i \in DOMAIN q
    <3>1. SUFFICES ASSUME i = Len(q) + 1 PROVE FALSE
      BY <1>1
    <3>2. j <= Len(q) + 1
      BY <1>1, <1>2
    <3> QED
      BY <1>2, <1>4, <3>1, <3>2
  <2>2. p[i] = q[i]
    BY <1>1, <2>1
  <2>3. CASE j \in DOMAIN q
    BY <1>1, <1>4, <2>1, <2>2, <2>3 DEF Orderly
  <2>4. CASE j = Len(q) + 1
    <3>1. q[i] \in Now(q, n)
      BY <1>4, <2>1, <2>2 DEF Now
    <3> QED
      BY <1>1, <1>4, <2>2, <2>4, <3>1
  <2> QED
    BY <1>1, <2>3, <2>4
<1>5. Orderly(p, n)
  BY <1>4 DEF Orderly
<1>6. \A y \in Now(q, n) : y \in Now(p, n)
  BY <1>1 DEF Now
<1>7. \A y \in Now(p, n) : y \in Now(q, n) \/ (y = x /\ Current(x, n))
  BY <1>1 DEF Now
<1>8. Current(x, n) => x \in Now(p, n)
  BY <1>1 DEF Now
<1> QED
  BY <1>3, <1>5, <1>6, <1>7, <1>8 DEF p

(* Nothing bears the next number yet.                                      *)
LEMMA Fresh ==
  ASSUME NEW q \in Seq(Messages), NEW ts \in SUBSET LauncherTasks, NEW n \in Nat, Bounded(q, ts, n)
  PROVE  /\ Bounded(q, ts, n + 1) /\ Orderly(q, n + 1)
         /\ Now(q, n + 1) = {} /\ Mine(ts, n + 1) = {}
<1>1. \A i \in DOMAIN q : q[i] \in Messages
  OBVIOUS
<1>2. \A x \in Messages : x.msg \in TurnMsgs => x.turn \in Nat
  BY DEF Messages, CarryingMsgs, PlainMsgs, TurnMsgs
<1>3. \A t \in LauncherTasks : t.kind # "search" => t.turn \in Nat
  BY DEF LauncherTasks
<1>4. Bounded(q, ts, n + 1)
  BY <1>1, <1>2, <1>3 DEF Bounded
<1>5. \A i \in DOMAIN q : ~Current(q[i], n + 1)
  BY <1>1, <1>2 DEF Bounded, Current
<1>6. \A t \in ts : t.kind # "search" => t.turn # n + 1
  BY <1>3 DEF Bounded
<1> QED
  BY <1>4, <1>5, <1>6 DEF Orderly, Now, Mine

-----------------------------------------------------------------------------
(* Commands.                                                               *)

(* The commands of a message, at most five, are done one after the other.  *)
LEMMA DoAllIs ==
  ASSUME NEW v, NEW c, Len(c) \in 0..5
  PROVE  /\ Len(c) = 0 => DoAll(v, c) = v
         /\ Len(c) = 1 => DoAll(v, c) = Do(v, c[1])
         /\ Len(c) = 2 => DoAll(v, c) = Do(Do(v, c[1]), c[2])
         /\ Len(c) = 3 => DoAll(v, c) = Do(Do(Do(v, c[1]), c[2]), c[3])
         /\ Len(c) = 5 => DoAll(v, c) = Do(Do(Do(Do(Do(v, c[1]), c[2]), c[3]), c[4]), c[5])
<1> DEFINE n == Len(c)
           d1 == Do(v, c[1])
           d2 == Do(d1, c[2])
           d3 == Do(d2, c[3])
           d4 == Do(d3, c[4])
           d5 == Do(d4, c[5])
           body(f) == [i \in 0..n |-> IF i = 0 THEN v ELSE Do(f[i - 1], c[i])]
           after == CHOOSE f : f = body(f)
           g == [i \in 0..n |-> IF i = 0 THEN v ELSE IF i = 1 THEN d1 ELSE IF i = 2 THEN d2
                                ELSE IF i = 3 THEN d3 ELSE IF i = 4 THEN d4 ELSE d5]
<1>1. DoAll(v, c) = after[n]
  BY DEF DoAll
<1>2. n \in Nat /\ n <= 5
  <2>1. n \in 0..5
    OBVIOUS
  <2> HIDE DEF n
  <2> QED
    BY <2>1
<1> HIDE DEF n
<1>3. d1 = Do(v, c[1]) /\ d2 = Do(d1, c[2]) /\ d3 = Do(d2, c[3]) /\ d4 = Do(d3, c[4]) /\ d5 = Do(d4, c[5])
  OBVIOUS
<1> HIDE DEF d1, d2, d3, d4, d5
<1>4. \A i \in 0..n : g[i] = IF i = 0 THEN v ELSE Do(g[i - 1], c[i])
  <2>1. SUFFICES ASSUME NEW i \in 0..n PROVE g[i] = IF i = 0 THEN v ELSE Do(g[i - 1], c[i])
    OBVIOUS
  <2>2. i \in {0, 1, 2, 3, 4, 5}
    BY <1>2
  <2>3. CASE i = 0
    BY <1>2, <2>3
  <2>4. CASE i = 1
    BY <1>2, <1>3, <2>4
  <2>5. CASE i = 2
    BY <1>2, <1>3, <2>5
  <2>6. CASE i = 3
    BY <1>2, <1>3, <2>6
  <2>7. CASE i = 4
    BY <1>2, <1>3, <2>7
  <2>8. CASE i = 5
    BY <1>2, <1>3, <2>8
  <2> QED
    BY <2>2, <2>3, <2>4, <2>5, <2>6, <2>7, <2>8
<1>5. g = body(g)
  BY <1>4
<1> HIDE DEF g
<1>6. after = body(after)
  BY <1>5
<1> HIDE DEF after
<1>7. after[0] = v /\ \A i \in 1..n : after[i] = Do(after[i - 1], c[i])
  <2>1. \A i \in 0..n : after[i] = IF i = 0 THEN v ELSE Do(after[i - 1], c[i])
    BY <1>6
  <2> QED
    BY <1>2, <2>1
<1>8. n >= 1 => after[1] = d1
  BY <1>2, <1>3, <1>7
<1>9. n >= 2 => after[2] = d2
  BY <1>2, <1>3, <1>7, <1>8
<1>10. n >= 3 => after[3] = d3
  BY <1>2, <1>3, <1>7, <1>9
<1>11. n >= 4 => after[4] = d4
  BY <1>2, <1>3, <1>7, <1>10
<1>12. n >= 5 => after[5] = d5
  BY <1>2, <1>3, <1>7, <1>11
<1> QED
  BY <1>1, <1>7, <1>8, <1>9, <1>10, <1>12, SMTT(30) DEF n, d1, d2, d3, d4, d5

(* What is done to the widgets alone: neither the queue nor the tasks are  *)
(* touched, and the content stays as it was left.                          *)
Effect(v, u, chat, footer) ==
    /\ u \in Widgets /\ Resumes(u)
    /\ u.queue = v.queue /\ u.tasks = v.tasks
    /\ u.chat = chat /\ u.footer = footer

(* A change of the text changes nothing else.                              *)
LEMMA ClearInputIs ==
  ASSUME NEW v \in Widgets, Resumes(v)
  PROVE  Effect(v, ClearInput(v), v.chat, v.footer) /\ ClearInput(v).shown = v.shown
 BY DEF Widgets, Resumes, Effect, ClearInput

(* A page is shown at once, or by the next summon.                         *)
LEMMA ShowViewIs ==
  ASSUME NEW v \in Widgets, Resumes(v), NEW what \in {"Search", "Chat", "Session"},
         NEW footer \in {"idle", "search", "chat", "session", "streaming"}
  PROVE  Effect(v, ShowView(v, what, footer), v.chat, footer)
<1>1. CASE v.shown
  BY <1>1 DEF Widgets, Resumes, Effect, ShowView, ShowContent
<1>2. CASE ~v.shown
  BY <1>2 DEF Widgets, Resumes, Effect, ShowView, ShowContent
<1> QED
  BY <1>1, <1>2

(* Closing the content forgets it, also for the next summon.               *)
LEMMA CloseContentIs ==
  ASSUME NEW v \in Widgets
  PROVE  Effect(v, CloseContent(v), {}, "idle")
 BY DEF Widgets, Resumes, Effect, CloseContent

(* Hiding the launcher for good closes its content.                        *)
LEMMA HideIs ==
  ASSUME NEW v \in Widgets, Resumes(v)
  PROVE  Effect(v, Hide(v), {}, "idle")
<1>1. ClearInput(v) \in Widgets /\ ClearInput(v).queue = v.queue /\ ClearInput(v).tasks = v.tasks
  BY ClearInputIs DEF Effect
<1>2. ASSUME NEW u \in Widgets
      PROVE  Effect(u, [CloseContent(u) EXCEPT !.shown = FALSE], {}, "idle")
  BY DEF Widgets, Resumes, Effect, CloseContent
<1> QED
  BY <1>1, <1>2 DEF Hide, Effect

(* The hotkey and a click elsewhere hide the launcher for a while.         *)
LEMMA ConcealIs ==
  ASSUME NEW v \in Widgets, Resumes(v), v.shown
  PROVE  Effect(v, Conceal(v), v.chat, v.footer)
 BY DEF Widgets, Resumes, Effect, Conceal

(* A summon brings back what was left.                                     *)
LEMMA ShowIs ==
  ASSUME NEW v \in Widgets, Resumes(v), ~v.shown
  PROVE  Effect(v, Show(v), v.chat, v.footer)
 BY DEF Widgets, Resumes, Effect, Show

(* The groups of commands are disjoint.                                    *)
LEMMA DoIs ==
  ASSUME NEW v, NEW c
  PROVE  /\ c.cmd \in LauncherCmds => Do(v, c) = RunOnLauncher(v, c)
         /\ c.cmd \in SearchCmds => Do(v, c) = RunOnSearch(v, c)
         /\ c.cmd \in ChatCmds => Do(v, c) = RunOnChat(v, c)
         /\ c.cmd \in TaskCmds => Do(v, c) = RunAsTask(v, c)
         /\ c.cmd \notin LauncherCmds \cup SearchCmds \cup ChatCmds \cup TaskCmds => Do(v, c) = v
 BY DEF Do, LauncherCmds, SearchCmds, ChatCmds, TaskCmds

(* The commands that clear or show a part of the launcher.                 *)
LEMMA DoWidget ==
  ASSUME NEW v \in Widgets, Resumes(v), NEW c
  PROVE  /\ c.cmd \in {"ToggleLauncher", "ClearQuery", "ClearSearchResults", "OpenSettings",
                       "FilterSessions", "CancelChat"} => Effect(v, Do(v, c), v.chat, v.footer)
         /\ c.cmd \in {"HideOverlay", "HideContent", "ExitSearch"} => Effect(v, Do(v, c), {}, "idle")
         /\ c.cmd = "RenderSearchResult" /\ c.query \in Nat => Effect(v, Do(v, c), v.chat, "search")
         /\ c.cmd = "RenderChatAction" => Effect(v, Do(v, c), v.chat, "search")
         /\ c.cmd = "ShowChatView" => Effect(v, Do(v, c), v.chat, "chat")
         /\ c.cmd = "OpenSessions" => Effect(v, Do(v, c), v.chat, "session")
         /\ c.cmd = "RenderChatStart" => Effect(v, Do(v, c), v.chat, "streaming")
         /\ c.cmd = "RenderChatFinish" => Effect(v, Do(v, c), v.chat, "chat")
         /\ c.cmd = "RenderChatEvent" /\ c.of \in MaybeUuid => Effect(v, Do(v, c), v.chat \cup {c.of}, v.footer)
         /\ c.cmd = "ClearChatContent" => Effect(v, Do(v, c), {}, v.footer)
<1>1. Effect(v, v, v.chat, v.footer)
  BY DEF Effect
<1>2. ASSUME c.cmd = "ToggleLauncher" PROVE Effect(v, Do(v, c), v.chat, v.footer)
  <2>1. Do(v, c) = IF v.shown THEN Conceal(v) ELSE Show(v)
    BY <1>2, DoIs DEF RunOnLauncher, LauncherCmds
  <2> QED
    BY <2>1, ConcealIs, ShowIs
<1>3. ASSUME c.cmd = "ClearQuery" PROVE Effect(v, Do(v, c), v.chat, v.footer)
  BY <1>3, DoIs, ClearInputIs DEF RunOnLauncher, LauncherCmds
<1>4. ASSUME c.cmd = "ClearSearchResults" PROVE Effect(v, Do(v, c), v.chat, v.footer)
  <2>1. Do(v, c) = [v EXCEPT !.rows = {}]
    BY <1>4, DoIs DEF RunOnSearch, SearchCmds
  <2> QED
    BY <2>1 DEF Effect, Widgets, Resumes
<1>5. ASSUME c.cmd \in {"OpenSettings", "FilterSessions", "CancelChat"} PROVE Effect(v, Do(v, c), v.chat, v.footer)
  <2>1. Do(v, c) = v
    BY <1>5, DoIs DEF LauncherCmds, SearchCmds, ChatCmds, TaskCmds
  <2> QED
    BY <1>1, <2>1
<1>6. ASSUME c.cmd = "HideOverlay" PROVE Effect(v, Do(v, c), {}, "idle")
  BY <1>6, DoIs, HideIs DEF RunOnLauncher, LauncherCmds
<1>7. ASSUME c.cmd = "HideContent" PROVE Effect(v, Do(v, c), {}, "idle")
  BY <1>7, DoIs, CloseContentIs DEF RunOnLauncher, LauncherCmds
<1>8. ASSUME c.cmd = "ExitSearch" PROVE Effect(v, Do(v, c), {}, "idle")
  <2>1. Do(v, c) = IF v.typed THEN ClearInput(CloseContent(v)) ELSE Hide(v)
    BY <1>8, DoIs DEF RunOnLauncher, LauncherCmds
  <2>2. Effect(v, ClearInput(CloseContent(v)), {}, "idle")
    BY CloseContentIs, ClearInputIs DEF Effect
  <2> QED
    BY <2>1, <2>2, HideIs
<1>9. ASSUME c.cmd = "RenderSearchResult", c.query \in Nat PROVE Effect(v, Do(v, c), v.chat, "search")
  <2> DEFINE u == [v EXCEPT !.rows = @ \cup {c.query}]
  <2>1. Do(v, c) = ShowView(u, "Search", "search")
    <3>1. Do(v, c) = RunOnSearch(v, c)
      BY <1>9, DoIs DEF SearchCmds
    <3>2. RunOnSearch(v, c) = ShowView(u, "Search", "search")
      BY <1>9, Zenon DEF RunOnSearch
    <3> QED
      BY <3>1, <3>2
  <2>2. Effect(v, u, v.chat, v.footer)
    BY <1>9 DEF Effect, Widgets, Resumes
  <2> HIDE DEF u
  <2> QED
    BY <2>1, <2>2, ShowViewIs DEF Effect
<1>10. ASSUME c.cmd = "RenderChatAction" PROVE Effect(v, Do(v, c), v.chat, "search")
  <2> DEFINE u == [v EXCEPT !.rows = @ \cup {0}]
  <2>1. Do(v, c) = ShowView(u, "Search", "search")
    <3>1. Do(v, c) = RunOnSearch(v, c)
      BY <1>10, DoIs DEF SearchCmds
    <3>2. RunOnSearch(v, c) = ShowView(u, "Search", "search")
      BY <1>10, Zenon DEF RunOnSearch
    <3> QED
      BY <3>1, <3>2
  <2>2. Effect(v, u, v.chat, v.footer)
    BY DEF Effect, Widgets, Resumes
  <2> HIDE DEF u
  <2> QED
    BY <2>1, <2>2, ShowViewIs DEF Effect
<1>11. ASSUME c.cmd = "ShowChatView" PROVE Effect(v, Do(v, c), v.chat, "chat")
  BY <1>11, DoIs, ShowViewIs DEF RunOnChat, ChatCmds
<1>12. ASSUME c.cmd = "OpenSessions" PROVE Effect(v, Do(v, c), v.chat, "session")
  BY <1>12, DoIs, ShowViewIs DEF RunOnLauncher, LauncherCmds
<1>13. ASSUME c.cmd = "RenderChatStart" PROVE Effect(v, Do(v, c), v.chat, "streaming")
  <2>1. Do(v, c) = [v EXCEPT !.footer = "streaming"]
    BY <1>13, DoIs DEF RunOnChat, ChatCmds
  <2> QED
    BY <2>1 DEF Effect, Widgets, Resumes
<1>14. ASSUME c.cmd = "RenderChatFinish" PROVE Effect(v, Do(v, c), v.chat, "chat")
  <2>1. Do(v, c) = [v EXCEPT !.footer = "chat"]
    BY <1>14, DoIs DEF RunOnChat, ChatCmds
  <2> QED
    BY <2>1 DEF Effect, Widgets, Resumes
<1>15. ASSUME c.cmd = "RenderChatEvent", c.of \in MaybeUuid PROVE Effect(v, Do(v, c), v.chat \cup {c.of}, v.footer)
  <2>1. Do(v, c) = [v EXCEPT !.chat = @ \cup {c.of}]
    BY <1>15, DoIs DEF RunOnChat, ChatCmds
  <2> QED
    BY <1>15, <2>1 DEF Effect, Widgets, Resumes
<1>16. ASSUME c.cmd = "ClearChatContent" PROVE Effect(v, Do(v, c), {}, v.footer)
  <2>1. Do(v, c) = [v EXCEPT !.chat = {}]
    BY <1>16, DoIs DEF RunOnChat, ChatCmds
  <2> QED
    BY <2>1 DEF Effect, Widgets, Resumes
<1> QED
  BY <1>2, <1>3, <1>4, <1>5, <1>6, <1>7, <1>8, <1>9, <1>10, <1>11, <1>12, <1>13, <1>14, <1>15, <1>16

(* The commands that start a task.                                         *)
LEMMA DoSpawn ==
  ASSUME NEW v \in Widgets, Resumes(v), NEW t \in LauncherTasks
  PROVE  /\ Spawn(v, t) \in Widgets /\ Resumes(Spawn(v, t))
         /\ Spawn(v, t).queue = v.queue /\ Spawn(v, t).tasks = v.tasks \cup {t}
         /\ Spawn(v, t).chat = v.chat /\ Spawn(v, t).footer = v.footer
 BY DEF Spawn, Widgets, Resumes

(* A message that is queued changes only the queue.                        *)
LEMMA EnqueueIs ==
  ASSUME NEW v \in Widgets, Resumes(v), NEW x \in Messages
  PROVE  /\ Enqueue(v, x) \in Widgets /\ Resumes(Enqueue(v, x))
         /\ Enqueue(v, x).queue = Append(v.queue, x) /\ Enqueue(v, x).tasks = v.tasks
         /\ Enqueue(v, x).chat = v.chat /\ Enqueue(v, x).footer = v.footer
<1>1. v.queue \in Seq(Messages)
  BY DEF Widgets
<1>2. Append(v.queue, x) \in Seq(Messages)
  BY <1>1
<1> QED
  BY <1>2 DEF Enqueue, Widgets, Resumes

-----------------------------------------------------------------------------
(* What the steps do to the conversation.                                  *)

SameTurn(m, m2) ==
    m2.turn = m.turn /\ m2.session = m.session /\ (m2.running <=> m.running) /\ m2.mode = m.mode

(* A message that is not of the turn is dropped, or shows something else.  *)
LEMMA Ignored ==
  ASSUME NEW m \in Models, NEW q \in Seq(Messages), NEW ts \in SUBSET LauncherTasks, NEW chat, NEW footer,
         Conversation(m, q, ts, chat, footer), q # <<>>, ~Current(Head(q), m.turn),
         NEW m2 \in Models, SameTurn(m, m2),
         NEW ts2, ts2 = ts \/ (\E t : t.kind = "search" /\ ts2 = ts \cup {t}),
         NEW chat2, chat2 \in {chat, {}}, NEW footer2, footer2 \in {footer, "idle", "search"}
  PROVE  Conversation(m2, Tail(q), ts2, chat2, footer2)
<1> DEFINE n == m.turn
           now == Now(q, n)
           mine == Mine(ts, n)
<1>1. n \in Nat /\ m2.turn = n /\ m2.session = m.session /\ (m2.running <=> m.running) /\ m2.mode = m.mode
  BY DEF Models, SameTurn
<1>2. Bounded(q, ts, n) /\ Orderly(q, n) /\ Talk(m, now, mine, chat, footer)
  BY DEF Conversation
<1>3. Bounded(Tail(q), ts, n) /\ Orderly(Tail(q), n) /\ Now(Tail(q), n) = now
  BY <1>1, <1>2, Taking
<1>4. Bounded(Tail(q), ts2, n)
  BY <1>3 DEF Bounded
<1>5. Mine(ts2, n) = mine
  BY DEF mine, Mine
<1> HIDE DEF n, now, mine
<1>6. Talk(m2, now, mine, chat2, footer2)
  BY <1>1, <1>2 DEF Talk, Busy, Sessions, View, Stop
<1> QED
  BY <1>1, <1>3, <1>4, <1>5, <1>6 DEF Conversation

(* Whatever was under way, a new number leaves it behind.                  *)
LEMMA Abandoned ==
  ASSUME NEW m \in Models, NEW q \in Seq(Messages), NEW ts \in SUBSET LauncherTasks, NEW chat, NEW footer,
         Conversation(m, q, ts, chat, footer), q # <<>>,
         NEW m2 \in Models, m2.turn = m.turn + 1, ~m2.running,
         NEW chat2, chat2 \subseteq {m2.session, NoUuid},
         NEW footer2, footer2 # "streaming"
  PROVE  Conversation(m2, Tail(q), ts, chat2, footer2)
<1> DEFINE n == m.turn
<1>1. n \in Nat /\ m2.turn = n + 1
  BY DEF Models
<1>2. Bounded(Tail(q), ts, n) /\ Tail(q) \in Seq(Messages)
  BY <1>1, Taking, TailOf DEF Conversation
<1>3. /\ Bounded(Tail(q), ts, n + 1) /\ Orderly(Tail(q), n + 1)
      /\ Now(Tail(q), n + 1) = {} /\ Mine(ts, n + 1) = {}
  BY <1>1, <1>2, Fresh
<1>4. Talk(m2, {}, {}, chat2, footer2)
  BY DEF Talk, Alone, Busy, Sessions, SpeakOf, View, Stop
<1> QED
  BY <1>1, <1>3, <1>4 DEF Conversation

(* A prompt begins a turn with one task, which prepares it, or with the    *)
(* message that it was refused.                                            *)
LEMMA Prompted ==
  ASSUME NEW m \in Models, NEW q \in Seq(Messages), NEW ts \in SUBSET LauncherTasks, NEW chat, NEW footer,
         Conversation(m, q, ts, chat, footer), q # <<>>, ~m.running,
         NEW m2 \in Models, m2 = BeginTurn(m)
  PROVE  /\ Conversation(m2, Tail(q), ts \cup {[kind |-> "prepare", turn |-> m.turn + 1]}, chat, footer)
         /\ Conversation(m2, Append(Tail(q), [msg |-> "PreparationFailed", turn |-> m.turn + 1]), ts, chat, footer)
<1> DEFINE n == m.turn + 1
           t == [kind |-> "prepare", turn |-> n]
           x == [msg |-> "PreparationFailed", turn |-> n]
<1>1. m.turn \in Nat /\ n \in Nat /\ m2.turn = n /\ m2.session = m.session /\ m2.running
  BY DEF Models, BeginTurn
<1>2. Bounded(Tail(q), ts, m.turn) /\ Tail(q) \in Seq(Messages)
  BY <1>1, Taking, TailOf DEF Conversation
<1>3. Bounded(Tail(q), ts, n) /\ Orderly(Tail(q), n) /\ Now(Tail(q), n) = {} /\ Mine(ts, n) = {}
  BY <1>1, <1>2, Fresh
<1>4. footer # "streaming" /\ chat \subseteq {m.session, NoUuid}
  BY DEF Conversation, Talk, View, Stop
<1>5. /\ t.kind = "prepare" /\ t.turn = n
      /\ x.msg = "PreparationFailed" /\ x.turn = n /\ x \in Messages /\ x.msg \in TurnMsgs
  BY <1>1 DEF Messages, CarryingMsgs, TurnMsgs
<1> HIDE DEF n, t, x
<1>6. Conversation(m2, Tail(q), ts \cup {t}, chat, footer)
  <2>1. Bounded(Tail(q), ts \cup {t}, n)
    BY <1>1, <1>3, <1>5 DEF Bounded
  <2>2. Mine(ts \cup {t}, n) = {t}
    BY <1>3, <1>5 DEF Mine
  <2>3. Talk(m2, {}, {t}, chat, footer)
    BY <1>1, <1>4, <1>5 DEF Talk, Alone, Busy, Sessions, SpeakOf, View, Stop
  <2> QED
    BY <1>1, <1>3, <2>1, <2>2, <2>3 DEF Conversation
<1>7. Conversation(m2, Append(Tail(q), x), ts, chat, footer)
  <2>1. Current(x, n)
    BY <1>5 DEF Current
  <2>2. /\ Bounded(Append(Tail(q), x), ts, n) /\ Orderly(Append(Tail(q), x), n)
        /\ Now(Append(Tail(q), x), n) = {x}
    <3> DEFINE p == Tail(q)
    <3>1. /\ p \in Seq(Messages) /\ x \in Messages /\ n \in Nat
          /\ Bounded(p, ts, n) /\ Orderly(p, n) /\ Now(p, n) = {}
      BY <1>1, <1>2, <1>3, <1>5
    <3> HIDE DEF p
    <3>2. x.turn <= n /\ (\A y \in Now(p, n) : ~Final(y) /\ x.msg = "RenderEvent")
      BY <1>1, <1>5, <3>1
    <3>3. /\ Bounded(Append(p, x), ts, n) /\ Orderly(Append(p, x), n)
          /\ Now(Append(p, x), n) = Now(p, n) \cup {x}
      BY <2>1, <3>1, <3>2, Adding
    <3> QED
      BY <3>1, <3>3 DEF p
  <2>3. Talk(m2, {x}, {}, chat, footer)
    BY <1>1, <1>4, <1>5 DEF Talk, Alone, Busy, Sessions, SpeakOf, View, Stop, Final
  <2> QED
    BY <1>1, <1>3, <2>2, <2>3 DEF Conversation
<1> QED
  BY <1>6, <1>7 DEF n, t, x

(* A restored session begins a turn with the task that replays it, on an   *)
(* empty view.                                                             *)
LEMMA Restored ==
  ASSUME NEW m \in Models, NEW q \in Seq(Messages), NEW ts \in SUBSET LauncherTasks, NEW chat, NEW footer,
         Conversation(m, q, ts, chat, footer), q # <<>>,
         NEW m2 \in Models, m2.turn = m.turn + 1, m2.running, m2.mode = "Chat"
  PROVE  LET t == [kind |-> "restore", turn |-> m.turn + 1, session |-> m2.session, at |-> "opening"]
         IN  Conversation(m2, Tail(q), ts \cup {t}, {}, "streaming")
<1> DEFINE n == m.turn + 1
           t == [kind |-> "restore", turn |-> n, session |-> m2.session, at |-> "opening"]
<1>1. m.turn \in Nat /\ n \in Nat /\ m2.turn = n
  BY DEF Models
<1>2. Bounded(Tail(q), ts, m.turn) /\ Tail(q) \in Seq(Messages)
  BY <1>1, Taking, TailOf DEF Conversation
<1>3. Bounded(Tail(q), ts, n) /\ Orderly(Tail(q), n) /\ Now(Tail(q), n) = {} /\ Mine(ts, n) = {}
  BY <1>1, <1>2, Fresh
<1>4. t.kind = "restore" /\ t.turn = n /\ t.session = m2.session
  OBVIOUS
<1> HIDE DEF n, t
<1>5. Bounded(Tail(q), ts \cup {t}, n)
  BY <1>1, <1>3, <1>4 DEF Bounded
<1>6. Mine(ts \cup {t}, n) = {t}
  BY <1>3, <1>4 DEF Mine
<1>7. Talk(m2, {}, {t}, {}, "streaming")
  BY <1>1, <1>4 DEF Talk, Alone, Busy, Sessions, SpeakOf, View, Stop
<1> QED
  BY <1>1, <1>3, <1>5, <1>6, <1>7 DEF Conversation, n, t

(* What a handler may rely on when it takes a message of the turn.         *)
LEMMA Facing ==
  ASSUME NEW m \in Models, NEW q \in Seq(Messages), NEW ts \in SUBSET LauncherTasks, NEW chat, NEW footer,
         Conversation(m, q, ts, chat, footer), q # <<>>, Current(Head(q), m.turn)
  PROVE  /\ chat \subseteq {m.session, NoUuid}
         /\ Head(q).msg \in {"PromptPrepared", "PreparationFailed"} => footer # "streaming"
         /\ Head(q).msg = "RequestStarted" => m.session \in {Head(q).session, NoUuid}
         /\ Head(q).msg = "RenderEvent" => Head(q).of = m.session
         /\ Head(q).msg = "RestoreFailed" => chat = {}
         /\ Final(Head(q)) => Now(Tail(q), m.turn) = {} /\ Mine(ts, m.turn) = {}
<1> DEFINE n == m.turn
           now == Now(q, n)
           rest == Now(Tail(q), n)
           mine == Mine(ts, n)
           x == Head(q)
<1>1. n \in Nat
  BY DEF Models
<1>2. Bounded(q, ts, n) /\ Orderly(q, n) /\ Talk(m, now, mine, chat, footer)
  BY DEF Conversation
<1>3. now = rest \cup {x} /\ (\A y \in rest : y.msg = "RenderEvent" /\ ~Final(x))
  BY <1>1, <1>2, Taking
<1> HIDE DEF n, now, rest, mine, x
<1>4. chat \subseteq {m.session, NoUuid} /\ (x.msg = "RestoreFailed" => chat = {})
  BY <1>2, <1>3 DEF Talk, View
<1>5. x.msg \in {"PromptPrepared", "PreparationFailed"} => footer # "streaming"
  BY <1>2, <1>3 DEF Talk, Stop
<1>6. /\ x.msg = "RequestStarted" => m.session \in {x.session, NoUuid}
      /\ x.msg = "RenderEvent" => x.of = m.session
  BY <1>2, <1>3 DEF Talk, Sessions, SpeakOf
<1>7. Final(x) => rest = {} /\ mine = {}
  BY <1>2, <1>3 DEF Talk, Alone
<1> QED
  BY <1>4, <1>5, <1>6, <1>7 DEF n, now, rest, mine, x

(* The message that ends a turn leaves nothing of it.                      *)
LEMMA Ended ==
  ASSUME NEW m \in Models, NEW q \in Seq(Messages), NEW ts \in SUBSET LauncherTasks, NEW chat, NEW footer,
         Conversation(m, q, ts, chat, footer), q # <<>>, Current(Head(q), m.turn), Final(Head(q)),
         NEW m2 \in Models, m2.turn = m.turn, ~m2.running,
         NEW chat2, chat2 \subseteq {m2.session, NoUuid},
         NEW footer2, footer2 # "streaming"
  PROVE  Conversation(m2, Tail(q), ts, chat2, footer2)
<1> DEFINE n == m.turn
<1>1. n \in Nat /\ m2.turn = n
  BY DEF Models
<1>2. Bounded(Tail(q), ts, n) /\ Orderly(Tail(q), n)
  BY <1>1, Taking DEF Conversation
<1>3. Now(Tail(q), n) = {} /\ Mine(ts, n) = {}
  BY Facing
<1>4. Talk(m2, {}, {}, chat2, footer2)
  BY DEF Talk, Alone, Busy, Sessions, SpeakOf, View, Stop
<1> QED
  BY <1>1, <1>2, <1>3, <1>4 DEF Conversation

(* A prompt that is ready is sent: the turn goes on with the task of its   *)
(* answer.                                                                 *)
LEMMA Prepared ==
  ASSUME NEW m \in Models, NEW q \in Seq(Messages), NEW ts \in SUBSET LauncherTasks, NEW chat, NEW footer,
         Conversation(m, q, ts, chat, footer), q # <<>>, Current(Head(q), m.turn),
         Head(q).msg = "PromptPrepared",
         NEW m2 \in Models, m2 = [m EXCEPT !.mode = "Chat"]
  PROVE  LET t == [kind |-> "chat", turn |-> m.turn, session |-> m.session, at |-> "opening"]
         IN  Conversation(m2, Tail(q), ts \cup {t}, chat, "streaming")
<1> DEFINE n == m.turn
           t == [kind |-> "chat", turn |-> n, session |-> m.session, at |-> "opening"]
<1>1. n \in Nat /\ m2.turn = n /\ m2.session = m.session /\ m2.mode = "Chat"
  BY DEF Models
<1>2. Bounded(Tail(q), ts, n) /\ Orderly(Tail(q), n)
  BY <1>1, Taking DEF Conversation
<1>3. Now(Tail(q), n) = {} /\ Mine(ts, n) = {}
  BY Facing DEF Final
<1>4. chat \subseteq {m.session, NoUuid}
  BY Facing
<1>5. m2.running
  <2>1. Head(q) \in Now(q, n)
    BY TailOf DEF Now
  <2>2. m.running
    BY <2>1 DEF Conversation, Talk, Busy
  <2> QED
    BY <2>2 DEF Models
<1>6. t.kind = "chat" /\ t.turn = n /\ t.session = m.session
  OBVIOUS
<1> HIDE DEF n, t
<1>7. Bounded(Tail(q), ts \cup {t}, n)
  BY <1>1, <1>2, <1>6 DEF Bounded
<1>8. Mine(ts \cup {t}, n) = {t}
  BY <1>3, <1>6 DEF Mine
<1>9. Talk(m2, {}, {t}, chat, "streaming")
  BY <1>1, <1>4, <1>5, <1>6 DEF Talk, Alone, Busy, Sessions, SpeakOf, View, Stop
<1> QED
  BY <1>1, <1>2, <1>3, <1>7, <1>8, <1>9 DEF Conversation, n, t

(* The session's id, which comes before every event of its answer, is      *)
(* noted; everything behind it is of that session.                         *)
LEMMA Started ==
  ASSUME NEW m \in Models, NEW q \in Seq(Messages), NEW ts \in SUBSET LauncherTasks, NEW chat, NEW footer,
         Conversation(m, q, ts, chat, footer), q # <<>>, Current(Head(q), m.turn),
         Head(q).msg = "RequestStarted",
         NEW m2 \in Models, m2 = [m EXCEPT !.session = Head(q).session]
  PROVE  Conversation(m2, Tail(q), ts, chat, footer)
<1> DEFINE n == m.turn
           now == Now(q, n)
           rest == Now(Tail(q), n)
           mine == Mine(ts, n)
           x == Head(q)
<1>1. n \in Nat /\ m2.turn = n /\ m2.session = x.session /\ m2.running = m.running /\ m2.mode = m.mode
  BY DEF Models
<1>2. Bounded(q, ts, n) /\ Orderly(q, n) /\ Talk(m, now, mine, chat, footer)
  BY DEF Conversation
<1>3. now = rest \cup {x} /\ (\A y \in rest : y.msg = "RenderEvent" /\ ~Final(x))
  BY <1>1, <1>2, Taking
<1>4. Bounded(Tail(q), ts, n) /\ Orderly(Tail(q), n)
  BY <1>1, <1>2, Taking
<1>5. x.msg = "RequestStarted"
  OBVIOUS
<1> HIDE DEF n, now, rest, mine, x
<1>6. Alone(rest, mine)
  BY <1>2, <1>3 DEF Talk, Alone
<1>7. Busy(m2, rest, mine)
  <2>1. m.running /\ (mine = {} => \E y \in now : Final(y))
    BY <1>2, <1>3 DEF Talk, Busy
  <2>2. ~Final(x)
    BY <1>5 DEF Final
  <2>3. mine = {} => \E y \in rest : Final(y)
    BY <1>3, <2>1, <2>2
  <2> QED
    BY <1>1, <2>1, <2>3 DEF Busy
<1>8. Sessions(m2, rest, mine)
  BY <1>1, <1>2, <1>3, <1>5 DEF Talk, Sessions, SpeakOf
<1>9. View(m2, rest, mine, chat)
  BY <1>1, <1>2, <1>3, <1>5 DEF Talk, Sessions, View
<1>10. Stop(m2, rest, mine, footer)
  BY <1>1, <1>2, <1>3 DEF Talk, Stop
<1> QED
  BY <1>1, <1>4, <1>6, <1>7, <1>8, <1>9, <1>10 DEF Conversation, Talk, n, rest, mine

(* An event of the answer is shown; it is of the model's session.          *)
LEMMA Spoke ==
  ASSUME NEW m \in Models, NEW q \in Seq(Messages), NEW ts \in SUBSET LauncherTasks, NEW chat, NEW footer,
         Conversation(m, q, ts, chat, footer), q # <<>>, Current(Head(q), m.turn),
         Head(q).msg = "RenderEvent", ~Head(q).terminal
  PROVE  Conversation(m, Tail(q), ts, chat \cup {Head(q).of}, footer)
<1> DEFINE n == m.turn
           now == Now(q, n)
           rest == Now(Tail(q), n)
           mine == Mine(ts, n)
           x == Head(q)
<1>1. n \in Nat
  BY DEF Models
<1>2. Bounded(q, ts, n) /\ Orderly(q, n) /\ Talk(m, now, mine, chat, footer)
  BY DEF Conversation
<1>3. now = rest \cup {x} /\ (\A y \in rest : y.msg = "RenderEvent")
  BY <1>1, <1>2, Taking
<1>4. Bounded(Tail(q), ts, n) /\ Orderly(Tail(q), n)
  BY <1>1, <1>2, Taking
<1>5. x.msg = "RenderEvent" /\ ~Final(x) /\ x.of = m.session
  BY Facing DEF Final
<1> HIDE DEF n, now, rest, mine, x
<1>6. Alone(rest, mine)
  BY <1>2, <1>3 DEF Talk, Alone
<1>7. Busy(m, rest, mine)
  <2>1. m.running /\ (mine = {} => \E y \in now : Final(y))
    BY <1>2, <1>3 DEF Talk, Busy
  <2>2. mine = {} => \E y \in rest : Final(y)
    BY <1>3, <1>5, <2>1
  <2> QED
    BY <2>1, <2>2 DEF Busy
<1>8. Sessions(m, rest, mine)
  BY <1>2, <1>3, <1>5 DEF Talk, Sessions, SpeakOf
<1>9. View(m, rest, mine, chat \cup {x.of})
  <2>1. \A t \in mine : t.at # "opening" \/ t.kind = "prepare"
    BY <1>2, <1>3 DEF Talk, Alone
  <2> QED
    BY <1>2, <1>3, <1>5, <2>1 DEF Talk, View
<1>10. Stop(m, rest, mine, footer)
  BY <1>2, <1>3 DEF Talk, Stop
<1> QED
  BY <1>4, <1>6, <1>7, <1>8, <1>9, <1>10 DEF Conversation, Talk, n, rest, mine, x

(* A message that is of no turn joins the queue.                           *)
LEMMA Queued ==
  ASSUME NEW m \in Models, NEW q \in Seq(Messages), NEW ts, NEW chat, NEW footer,
         Conversation(m, q, ts, chat, footer), NEW x \in Messages, x.msg \notin TurnMsgs
  PROVE  Conversation(m, Append(q, x), ts, chat, footer)
<1>1. m.turn \in Nat /\ ~Current(x, m.turn)
  BY DEF Models, Current
<1>2. /\ Bounded(Append(q, x), ts, m.turn) /\ Orderly(Append(q, x), m.turn)
      /\ Now(Append(q, x), m.turn) = Now(q, m.turn)
  BY <1>1, Adding DEF Conversation
<1> QED
  BY <1>2 DEF Conversation

(* A task that is not of the turn, a search or one that was abandoned,     *)
(* goes on or ends and says so: nothing of the turn changes.               *)
LEMMA Elsewhere ==
  ASSUME NEW m \in Models, NEW q \in Seq(Messages), NEW ts \in SUBSET LauncherTasks, NEW chat, NEW footer,
         Conversation(m, q, ts, chat, footer),
         NEW t \in ts, t.kind = "search" \/ t.turn # m.turn,
         NEW next, \A u \in next : u.kind = t.kind /\ (t.kind # "search" => u.turn = t.turn),
         NEW x \in Messages, x.msg \in TurnMsgs => t.kind # "search" /\ x.turn = t.turn
  PROVE  /\ Conversation(m, q, (ts \ {t}) \cup next, chat, footer)
         /\ Conversation(m, Append(q, x), (ts \ {t}) \cup next, chat, footer)
<1> DEFINE n == m.turn
           ts2 == (ts \ {t}) \cup next
<1>1. n \in Nat
  BY DEF Models
<1>2. Bounded(q, ts, n) /\ Orderly(q, n) /\ Talk(m, Now(q, n), Mine(ts, n), chat, footer)
  BY DEF Conversation
<1>3. Mine(ts2, n) = Mine(ts, n)
  BY DEF Mine
<1>4. Bounded(q, ts2, n)
  BY <1>2 DEF Bounded
<1>5. ~Current(x, n) /\ (x.msg \in TurnMsgs => x.turn <= n)
  BY <1>2 DEF Bounded, Current
<1> HIDE DEF n, ts2
<1>6. /\ Bounded(Append(q, x), ts2, n) /\ Orderly(Append(q, x), n)
      /\ Now(Append(q, x), n) = Now(q, n)
  BY <1>1, <1>2, <1>4, <1>5, Adding
<1> QED
  BY <1>2, <1>3, <1>4, <1>6 DEF Conversation, n, ts2

(* The turn's task ends with a message that ends the turn, or goes on to   *)
(* send the prompt.                                                        *)
LEMMA TaskEnds ==
  ASSUME NEW m \in Models, NEW q \in Seq(Messages), NEW ts \in SUBSET LauncherTasks, NEW chat, NEW footer,
         Conversation(m, q, ts, chat, footer),
         NEW t \in ts, t.kind # "search", t.turn = m.turn,
         NEW x \in Messages, x.msg \in TurnMsgs, x.turn = m.turn, Final(x),
         \/ t.kind = "prepare" /\ x.msg \in {"PromptPrepared", "PreparationFailed"}
         \/ t.kind = "restore" /\ t.at = "opening" /\ x.msg = "RestoreFailed"
         \/ t.kind # "prepare" /\ x.msg = "RenderEvent" /\ x.of = t.session
  PROVE  Conversation(m, Append(q, x), ts \ {t}, chat, footer)
<1> DEFINE n == m.turn
           now == Now(q, n)
           mine == Mine(ts, n)
           ts2 == ts \ {t}
<1>1. n \in Nat
  BY DEF Models
<1>2. Bounded(q, ts, n) /\ Orderly(q, n) /\ Talk(m, now, mine, chat, footer)
  BY DEF Conversation
<1>3. t \in mine
  BY DEF Mine
<1>4. mine = {t} /\ Mine(ts2, n) = {}
  <2>1. \A u \in mine : u = t
    BY <1>2, <1>3 DEF Talk, Alone
  <2> QED
    BY <1>3, <2>1 DEF Mine
<1>5. \A y \in now : ~Final(y) /\ x.msg = "RenderEvent"
  BY <1>2, <1>3 DEF Talk, Alone
<1>6. Bounded(q, ts2, n)
  BY <1>2 DEF Bounded
<1>7. Current(x, n) /\ x.turn <= n
  BY <1>1 DEF Current
<1> HIDE DEF n, now, mine, ts2
<1>8. /\ Bounded(Append(q, x), ts2, n) /\ Orderly(Append(q, x), n)
      /\ Now(Append(q, x), n) = now \cup {x}
  BY <1>1, <1>2, <1>5, <1>6, <1>7, Adding DEF now
<1>9. Alone(now \cup {x}, {})
  BY DEF Alone
<1>10. Busy(m, now \cup {x}, {})
  BY <1>2, <1>3 DEF Talk, Busy
<1>11. Sessions(m, now \cup {x}, {})
  BY <1>2, <1>3, <1>5 DEF Talk, Sessions, SpeakOf
<1>12. View(m, now \cup {x}, {}, chat)
  BY <1>2, <1>3 DEF Talk, View
<1>13. Stop(m, now \cup {x}, {}, footer)
  BY <1>2, <1>3 DEF Talk, Stop
<1> QED
  BY <1>4, <1>8, <1>9, <1>10, <1>11, <1>12, <1>13 DEF Conversation, Talk, n, ts2

(* The turn's task goes on without a word.                                 *)
LEMMA TaskAdvances ==
  ASSUME NEW m \in Models, NEW q \in Seq(Messages), NEW ts \in SUBSET LauncherTasks, NEW chat, NEW footer,
         Conversation(m, q, ts, chat, footer),
         NEW t \in ts, t.kind = "restore", t.turn = m.turn,
         NEW u, u.kind = t.kind, u.turn = t.turn, u.session = t.session, u.at # "opening"
  PROVE  Conversation(m, q, (ts \ {t}) \cup {u}, chat, footer)
<1> DEFINE n == m.turn
           now == Now(q, n)
           mine == Mine(ts, n)
           ts2 == (ts \ {t}) \cup {u}
<1>1. Bounded(q, ts, n) /\ Orderly(q, n) /\ Talk(m, now, mine, chat, footer)
  BY DEF Conversation
<1>2. t \in mine
  BY DEF Mine
<1>3. mine = {t} /\ Mine(ts2, n) = {u}
  <2>1. \A s \in mine : s = t
    BY <1>1, <1>2 DEF Talk, Alone
  <2> QED
    BY <1>2, <2>1 DEF Mine
<1>4. Bounded(q, ts2, n)
  BY <1>1 DEF Bounded
<1> HIDE DEF n, now, mine, ts2
<1>5. Alone(now, {u})
  BY <1>1, <1>2 DEF Talk, Alone
<1>6. Busy(m, now, {u})
  BY <1>1, <1>2 DEF Talk, Busy
<1>7. Sessions(m, now, {u})
  BY <1>1, <1>2 DEF Talk, Sessions, SpeakOf
<1>8. View(m, now, {u}, chat)
  BY <1>1, <1>2 DEF Talk, View
<1>9. Stop(m, now, {u}, footer)
  BY <1>1, <1>2 DEF Talk, Stop
<1> QED
  BY <1>1, <1>3, <1>4, <1>5, <1>6, <1>7, <1>8, <1>9 DEF Conversation, Talk, n, now, ts2

(* The turn's task has a session, of its own or the one it was given, and  *)
(* says so, or it has an event.                                            *)
LEMMA TaskSpeaks ==
  ASSUME NEW m \in Models, NEW q \in Seq(Messages), NEW ts \in SUBSET LauncherTasks, NEW chat, NEW footer,
         Conversation(m, q, ts, chat, footer),
         NEW t \in ts, t.kind \in {"chat", "restore"}, t.turn = m.turn,
         NEW u, u.kind = t.kind, u.turn = t.turn, u.at # "opening",
         NEW x \in Messages, x.msg \in TurnMsgs, x.turn = m.turn,
         \/ /\ t.at = "opening" /\ x.msg = "RequestStarted"
            /\ u.session = x.session /\ t.session \in {x.session, NoUuid}
         \/ /\ t.at # "opening" /\ x.msg = "RenderEvent" /\ ~x.terminal
            /\ u.session = t.session /\ x.of = t.session
  PROVE  Conversation(m, Append(q, x), (ts \ {t}) \cup {u}, chat, footer)
<1> DEFINE n == m.turn
           now == Now(q, n)
           mine == Mine(ts, n)
           ts2 == (ts \ {t}) \cup {u}
<1>1. n \in Nat
  BY DEF Models
<1>2. Bounded(q, ts, n) /\ Orderly(q, n) /\ Talk(m, now, mine, chat, footer)
  BY DEF Conversation
<1>3. t \in mine
  BY DEF Mine
<1>4. mine = {t} /\ Mine(ts2, n) = {u}
  <2>1. \A s \in mine : s = t
    BY <1>2, <1>3 DEF Talk, Alone
  <2> QED
    BY <1>3, <2>1 DEF Mine
<1>5. \A y \in now : ~Final(y) /\ x.msg = "RenderEvent"
  BY <1>2, <1>3 DEF Talk, Alone
<1>6. Bounded(q, ts2, n)
  BY <1>2 DEF Bounded
<1>7. Current(x, n) /\ x.turn <= n /\ ~Final(x)
  BY <1>1 DEF Current, Final
<1> HIDE DEF n, now, mine, ts2
<1>8. /\ Bounded(Append(q, x), ts2, n) /\ Orderly(Append(q, x), n)
      /\ Now(Append(q, x), n) = now \cup {x}
  BY <1>1, <1>2, <1>5, <1>6, <1>7, Adding DEF now
<1>9. Alone(now \cup {x}, {u})
  BY <1>5, <1>7 DEF Alone
<1>10. Busy(m, now \cup {x}, {u})
  BY <1>2, <1>3 DEF Talk, Busy
<1>11. Sessions(m, now \cup {x}, {u})
  <2>1. CASE x.msg = "RequestStarted"
    <3>1. now = {}
      BY <1>5, <2>1
    <3>2. t.session = m.session
      BY <1>2, <1>3, <3>1 DEF Talk, Sessions, SpeakOf
    <3> QED
      BY <2>1, <3>1, <3>2 DEF Sessions, SpeakOf
  <2>2. CASE x.msg = "RenderEvent"
    BY <1>2, <1>3, <2>2 DEF Talk, Sessions, SpeakOf
  <2> QED
    BY <2>1, <2>2
<1>12. View(m, now \cup {x}, {u}, chat)
  BY <1>2, <1>3 DEF Talk, View
<1>13. Stop(m, now \cup {x}, {u}, footer)
  BY <1>2, <1>3 DEF Talk, Stop
<1> QED
  BY <1>4, <1>8, <1>9, <1>10, <1>11, <1>12, <1>13 DEF Conversation, Talk, n, ts2

-----------------------------------------------------------------------------
(* The handlers.                                                           *)

(* One to five commands, written out.                                      *)
LEMMA DoLists ==
  /\ \A v : DoAll(v, <<>>) = v
  /\ \A v, a : DoAll(v, <<a>>) = Do(v, a)
  /\ \A v, a, b : DoAll(v, <<a, b>>) = Do(Do(v, a), b)
  /\ \A v, a, b, c : DoAll(v, <<a, b, c>>) = Do(Do(Do(v, a), b), c)
  /\ \A v, a, b, c, d, e : DoAll(v, <<a, b, c, d, e>>) = Do(Do(Do(Do(Do(v, a), b), c), d), e)
<1>1. ASSUME NEW v PROVE DoAll(v, <<>>) = v
  <2>1. Len(<<>>) = 0
    OBVIOUS
  <2> QED
    BY <2>1, DoAllIs
<1>2. ASSUME NEW v, NEW a PROVE DoAll(v, <<a>>) = Do(v, a)
  <2> DEFINE l == <<a>>
  <2>1. Len(l) = 1 /\ l[1] = a
    OBVIOUS
  <2> HIDE DEF l
  <2>2. DoAll(v, l) = Do(v, l[1])
    BY <2>1, DoAllIs
  <2> QED
    BY <2>1, <2>2 DEF l
<1>3. ASSUME NEW v, NEW a, NEW b PROVE DoAll(v, <<a, b>>) = Do(Do(v, a), b)
  <2> DEFINE l == <<a, b>>
  <2>1. Len(l) = 2 /\ l[1] = a /\ l[2] = b
    OBVIOUS
  <2> HIDE DEF l
  <2>2. DoAll(v, l) = Do(Do(v, l[1]), l[2])
    BY <2>1, DoAllIs
  <2> QED
    BY <2>1, <2>2 DEF l
<1>4. ASSUME NEW v, NEW a, NEW b, NEW c PROVE DoAll(v, <<a, b, c>>) = Do(Do(Do(v, a), b), c)
  <2> DEFINE l == <<a, b, c>>
  <2>1. Len(l) = 3 /\ l[1] = a /\ l[2] = b /\ l[3] = c
    OBVIOUS
  <2> HIDE DEF l
  <2>2. DoAll(v, l) = Do(Do(Do(v, l[1]), l[2]), l[3])
    BY <2>1, DoAllIs
  <2> QED
    BY <2>1, <2>2 DEF l
<1>5. ASSUME NEW v, NEW a, NEW b, NEW c, NEW d, NEW e PROVE DoAll(v, <<a, b, c, d, e>>) = Do(Do(Do(Do(Do(v, a), b), c), d), e)
  <2> DEFINE l == <<a, b, c, d, e>>
  <2>1. Len(l) = 5 /\ l[1] = a /\ l[2] = b /\ l[3] = c /\ l[4] = d /\ l[5] = e
    OBVIOUS
  <2> HIDE DEF l
  <2>2. DoAll(v, l) = Do(Do(Do(Do(Do(v, l[1]), l[2]), l[3]), l[4]), l[5])
    BY <2>1, DoAllIs
  <2> QED
    BY <2>1, <2>2 DEF l
<1> QED
  BY <1>1, <1>2, <1>3, <1>4, <1>5

(* The groups of messages are disjoint.                                    *)
LEMMA UpdateIs ==
  ASSUME NEW m, NEW x
  PROVE  /\ x.msg \in LauncherMsgs => Update(m, x) = UpdateLauncher(m, x)
         /\ x.msg \in SearchMsgs => Update(m, x) = UpdateSearch(m, x)
         /\ x.msg \in SessionMsgs => Update(m, x) = UpdateSession(m, x)
         /\ x.msg = "ContentClose" => Update(m, x) = ExitToSearch(m)
         /\ x.msg \in {"PromptSubmit", "PreparationFailed", "PromptPrepared", "RequestStarted", "RenderEvent",
                       "Interrupt"} => Update(m, x) = UpdateChat(m, x)
 BY DEF Update, LauncherMsgs, SearchMsgs, SessionMsgs

(* A model with another number.                                            *)
LEMMA TurnIs ==
  ASSUME NEW m \in Models, NEW k \in Nat, NEW b \in BOOLEAN
  PROVE  LET m2 == [m EXCEPT !.turn = k, !.running = b]
         IN  /\ m2 \in Models /\ m2.turn = k /\ (m2.running <=> b)
             /\ m2.session = m.session /\ m2.mode = m.mode
 BY DEF Models

(* The models that a reset, a new turn and the end of one leave.           *)
LEMMA ModelsOf ==
  ASSUME NEW m \in Models
  PROVE  /\ BeginQuery(m) \in Models /\ SameTurn(m, BeginQuery(m))
         /\ BeginTurn(m) \in Models
         /\ EndTurn(m) \in Models /\ EndTurn(m).turn = m.turn /\ ~EndTurn(m).running
         /\ EndTurn(m).session = m.session
         /\ ResetModel(m) \in Models /\ ResetModel(m).turn = m.turn + 1 /\ ~ResetModel(m).running
         /\ ResetModel(m).session = NoUuid
<1>1. BeginQuery(m) \in Models /\ SameTurn(m, BeginQuery(m))
  BY DEF Models, BeginQuery, SameTurn
<1>2. BeginTurn(m) \in Models
  <2>1. m.turn + 1 \in Nat
    BY DEF Models
  <2> QED
    BY <2>1, TurnIs DEF BeginTurn
<1>3. /\ EndTurn(m) \in Models /\ EndTurn(m).turn = m.turn /\ ~EndTurn(m).running
      /\ EndTurn(m).session = m.session
  BY DEF Models, EndTurn
<1>4. /\ ResetModel(m) \in Models /\ ResetModel(m).turn = m.turn + 1 /\ ~ResetModel(m).running
      /\ ResetModel(m).session = NoUuid
  <2> DEFINE m1 == [m EXCEPT !.mode = "Search", !.session = NoUuid]
             m2 == ResetTurn(m1)
  <2>1. m1 \in Models /\ m1.turn = m.turn /\ m1.session = NoUuid
    BY DEF Models, MaybeUuid
  <2>2. ResetModel(m) = BeginQuery(m2)
    BY DEF ResetModel
  <2> HIDE DEF m1
  <2>3. m2 \in Models /\ m2.turn = m.turn + 1 /\ m2.session = NoUuid /\ ~m2.running
    <3> DEFINE k == m.turn + 1
    <3>1. k \in Nat
      BY DEF Models
    <3>2. m2 = [m1 EXCEPT !.turn = k, !.running = FALSE]
      BY <2>1 DEF ResetTurn
    <3> HIDE DEF k, m2
    <3>3. m2 \in Models /\ m2.turn = k /\ m2.session = NoUuid /\ ~m2.running
      BY <2>1, <3>1, <3>2 DEF Models
    <3> QED
      BY <3>3 DEF k
  <2> HIDE DEF m2
  <2> QED
    BY <2>2, <2>3 DEF Models, BeginQuery
<1> QED
  BY <1>1, <1>2, <1>3, <1>4

Taken(v) == [v EXCEPT !.queue = Tail(@)]

Handled(m, v) ==
    LET result == Update(m, Head(v.queue)) IN Sound(result.model, DoAll(Taken(v), result.commands))

(* What the loop starts a handler with.                                    *)
LEMMA TakenIs ==
  ASSUME NEW m, NEW v, Sound(m, v), v.queue # <<>>
  PROVE  /\ Taken(v) \in Widgets /\ Resumes(Taken(v))
         /\ Taken(v).queue = Tail(v.queue) /\ Taken(v).tasks = v.tasks
         /\ Taken(v).chat = v.chat /\ Taken(v).footer = v.footer
         /\ v.queue \in Seq(Messages) /\ Head(v.queue) \in Messages
         /\ v.tasks \in SUBSET LauncherTasks /\ m \in Models /\ m.turn \in Nat
<1>1. v.queue \in Seq(Messages) /\ v.tasks \in SUBSET LauncherTasks /\ m \in Models /\ m.turn \in Nat
  BY DEF Sound, Widgets, Models
<1>2. Head(v.queue) \in Messages /\ Tail(v.queue) \in Seq(Messages)
  BY <1>1, TailOf
<1>3. /\ Taken(v) \in Widgets /\ Resumes(Taken(v))
      /\ Taken(v).queue = Tail(v.queue) /\ Taken(v).tasks = v.tasks
      /\ Taken(v).chat = v.chat /\ Taken(v).footer = v.footer
  BY <1>2 DEF Sound, Taken, Widgets, Resumes
<1> QED
  BY <1>1, <1>2, <1>3

(* A handler changes the model and runs its commands.                      *)
LEMMA AnswerIs ==
  ASSUME NEW m, NEW v, NEW m2, NEW cs,
         Update(m, Head(v.queue)) = With(m2, cs), Sound(m2, DoAll(Taken(v), cs))
  PROVE  Handled(m, v)
 BY DEF Handled, With

(* If its commands are for the widgets, only what is shown changes.        *)
LEMMA ShownIs ==
  ASSUME NEW m, NEW v, Sound(m, v), v.queue # <<>>, NEW m2 \in Models, NEW chat2, NEW footer2,
         Conversation(m2, Tail(v.queue), v.tasks, chat2, footer2),
         NEW u, Effect(Taken(v), u, chat2, footer2)
  PROVE  Sound(m2, u)
 BY TakenIs DEF Sound, Effect

(* A message without a turn is not of the current one.                     *)
LEMMA Foreign ==
  ASSUME NEW m, NEW v, Sound(m, v), v.queue # <<>>, ~Current(Head(v.queue), m.turn),
         NEW m2 \in Models, SameTurn(m, m2),
         NEW chat2, chat2 \in {v.chat, {}}, NEW footer2, footer2 \in {v.footer, "idle", "search"},
         NEW u, Effect(Taken(v), u, chat2, footer2)
  PROVE  Sound(m2, u)
<1>1. Conversation(m2, Tail(v.queue), v.tasks, chat2, footer2)
  BY TakenIs, Ignored DEF Sound
<1> QED
  BY <1>1, ShownIs

(* A handler with nothing to do, for a message that is not of the turn.    *)
LEMMA Nothing ==
  ASSUME NEW m, NEW v, Sound(m, v), v.queue # <<>>, ~Current(Head(v.queue), m.turn),
         Update(m, Head(v.queue)) = With(m, <<>>)
  PROVE  Handled(m, v)
<1>1. Effect(Taken(v), Taken(v), v.chat, v.footer) /\ SameTurn(m, m) /\ m \in Models
  BY TakenIs DEF Effect, SameTurn
<1>2. Sound(m, DoAll(Taken(v), <<>>))
  BY <1>1, DoLists, Foreign
<1> QED
  BY <1>2, AnswerIs

(* A handler that resets the model and closes the content.                 *)
LEMMA Resetting ==
  ASSUME NEW m, NEW v, Sound(m, v), v.queue # <<>>,
         NEW cs, Update(m, Head(v.queue)) = With(ResetModel(m), cs),
         Effect(Taken(v), DoAll(Taken(v), cs), {}, "idle")
  PROVE  Handled(m, v)
<1>1. m \in Models /\ v.queue \in Seq(Messages) /\ v.tasks \in SUBSET LauncherTasks
  BY TakenIs
<1>2. ResetModel(m) \in Models /\ ResetModel(m).turn = m.turn + 1 /\ ~ResetModel(m).running
  BY <1>1, ModelsOf
<1>3. Conversation(ResetModel(m), Tail(v.queue), v.tasks, {}, "idle")
  BY <1>1, <1>2, Abandoned DEF Sound
<1> QED
  BY <1>2, <1>3, ShownIs, AnswerIs

(* The hotkey, the settings and an edit of the text.                       *)
LEMMA HandleLauncher ==
  ASSUME NEW m, NEW v, Sound(m, v), v.queue # <<>>, Head(v.queue).msg \in LauncherMsgs
  PROVE  Handled(m, v)
<1> DEFINE x == Head(v.queue)
           v0 == Taken(v)
<1>1. /\ v0 \in Widgets /\ Resumes(v0) /\ v0.queue = Tail(v.queue) /\ v0.tasks = v.tasks
      /\ v0.chat = v.chat /\ v0.footer = v.footer /\ m \in Models
  BY TakenIs
<1>2. Update(m, x) = UpdateLauncher(m, x)
  BY UpdateIs
<1>3. ~Current(x, m.turn) /\ SameTurn(m, m)
  BY DEF Current, TurnMsgs, LauncherMsgs, SameTurn
<1>4. x.msg \in LauncherMsgs
  OBVIOUS
<1> HIDE DEF x, v0
<1>5. ASSUME x.msg = "Toggle" PROVE Handled(m, v)
  <2> DEFINE c == Cmd("ToggleLauncher")
  <2>1. Update(m, x) = With(m, <<c>>)
    BY <1>2, <1>5 DEF UpdateLauncher
  <2>2. c.cmd = "ToggleLauncher"
    BY DEF Cmd
  <2> HIDE DEF c
  <2>3. Effect(v0, Do(v0, c), v.chat, v.footer)
    BY <1>1, <2>2, DoWidget
  <2>4. Sound(m, DoAll(v0, <<c>>))
    BY <1>1, <1>3, <2>3, DoLists, Foreign DEF x, v0
  <2> QED
    BY <2>1, <2>4, AnswerIs DEF x, v0
<1>6. ASSUME x.msg = "OpenSettings" PROVE Handled(m, v)
  <2> DEFINE c == Cmd("OpenSettings")
             d == Cmd("HideOverlay")
  <2>1. Update(m, x) = With(ResetModel(m), <<c, d>>)
    BY <1>2, <1>6 DEF UpdateLauncher
  <2>2. c.cmd = "OpenSettings" /\ d.cmd = "HideOverlay"
    BY DEF Cmd
  <2> HIDE DEF c, d
  <2>3. Effect(v0, Do(v0, c), v.chat, v.footer)
    BY <1>1, <2>2, DoWidget
  <2>4. Effect(v0, Do(Do(v0, c), d), {}, "idle")
    BY <2>2, <2>3, DoWidget DEF Effect
  <2>5. Effect(v0, DoAll(v0, <<c, d>>), {}, "idle")
    BY <2>4, DoLists
  <2> QED
    BY <2>1, <2>5, Resetting DEF x, v0
<1>7. ASSUME x.msg = "QueryChanged", m.mode = "Search" PROVE Handled(m, v)
  <2> DEFINE c == Cmd("ClearSearchResults")
             d == [cmd |-> "RunSearchQuery", query |-> m.query + 1]
             e == Cmd("HideContent")
             m2 == BeginQuery(m)
  <2>1. Update(m, x) = With(m2, <<c, IF x.content THEN d ELSE e>>)
    BY <1>2, <1>7 DEF UpdateLauncher
  <2>2. c.cmd = "ClearSearchResults" /\ d.cmd = "RunSearchQuery" /\ e.cmd = "HideContent"
    BY DEF Cmd
  <2>3. d.query \in Nat
    BY <1>1 DEF Models
  <2>4. m2 \in Models /\ SameTurn(m, m2)
    BY <1>1, ModelsOf
  <2> HIDE DEF c, d, e, m2
  <2> DEFINE v1 == Do(v0, c)
  <2>5. Effect(v0, v1, v.chat, v.footer)
    BY <1>1, <2>2, DoWidget
  <2> HIDE DEF v1
  <2>6. ASSUME x.content PROVE Sound(m2, DoAll(v0, <<c, d>>))
    <3> DEFINE t == [kind |-> "search", query |-> d.query, found |-> FALSE]
    <3>1. t \in LauncherTasks /\ t.kind = "search"
      BY <2>3 DEF LauncherTasks
    <3>2. Do(v1, d) = Spawn(v1, t)
      BY <2>2, DoIs DEF RunAsTask, TaskCmds
    <3> HIDE DEF t
    <3>3. /\ Spawn(v1, t) \in Widgets /\ Resumes(Spawn(v1, t))
          /\ Spawn(v1, t).queue = v1.queue /\ Spawn(v1, t).tasks = v1.tasks \cup {t}
          /\ Spawn(v1, t).chat = v1.chat /\ Spawn(v1, t).footer = v1.footer
      BY <2>5, <3>1, DoSpawn DEF Effect
    <3>4. Conversation(m2, Tail(v.queue), v.tasks \cup {t}, v.chat, v.footer)
      BY <1>3, <2>4, <3>1, TakenIs, Ignored DEF Sound, x
    <3>5. Sound(m2, Spawn(v1, t))
      BY <1>1, <2>4, <2>5, <3>3, <3>4 DEF Sound, Effect
    <3> QED
      BY <3>2, <3>5, DoLists DEF v1
  <2>7. ASSUME ~x.content PROVE Sound(m2, DoAll(v0, <<c, e>>))
    <3>1. Effect(v0, Do(v1, e), {}, "idle")
      BY <2>2, <2>5, DoWidget DEF Effect
    <3>2. Sound(m2, Do(v1, e))
      BY <1>3, <2>4, <3>1, Foreign DEF x, v0
    <3> QED
      BY <3>2, DoLists DEF v1
  <2>8. CASE x.content
    <3>1. Update(m, x) = With(m2, <<c, d>>)
      BY <2>1, <2>8
    <3> QED
      BY <2>6, <2>8, <3>1, AnswerIs DEF x, v0
  <2>9. CASE ~x.content
    <3>1. Update(m, x) = With(m2, <<c, e>>)
      BY <2>1, <2>9
    <3> QED
      BY <2>7, <2>9, <3>1, AnswerIs DEF x, v0
  <2> QED
    BY <2>8, <2>9
<1>8. ASSUME x.msg = "QueryChanged", m.mode = "Chat" PROVE Handled(m, v)
  <2>1. Update(m, x) = With(m, <<>>)
    BY <1>2, <1>8 DEF UpdateLauncher
  <2> QED
    BY <1>3, <2>1, Nothing DEF x
<1>9. ASSUME x.msg = "QueryChanged", m.mode = "Session" PROVE Handled(m, v)
  <2> DEFINE c == Cmd("FilterSessions")
  <2>1. Update(m, x) = With(m, <<c>>)
    BY <1>2, <1>9 DEF UpdateLauncher
  <2>2. c.cmd = "FilterSessions"
    BY DEF Cmd
  <2> HIDE DEF c
  <2>3. Effect(v0, Do(v0, c), v.chat, v.footer)
    BY <1>1, <2>2, DoWidget
  <2>4. Sound(m, DoAll(v0, <<c>>))
    BY <1>1, <1>3, <2>3, DoLists, Foreign DEF x, v0
  <2> QED
    BY <2>1, <2>4, AnswerIs DEF x, v0
<1>10. m.mode \in {"Search", "Chat", "Session"}
  BY <1>1 DEF Models
<1> QED
  BY <1>4, <1>5, <1>6, <1>7, <1>8, <1>9, <1>10 DEF LauncherMsgs

(* Escape and a second press of the sessions key go back to the search.    *)
LEMMA Exiting ==
  ASSUME NEW m, NEW v, Sound(m, v), v.queue # <<>>, Update(m, Head(v.queue)) = ExitToSearch(m)
  PROVE  Handled(m, v)
<1> DEFINE v0 == Taken(v)
           c == Cmd("ClearQuery")
           d == Cmd("HideContent")
<1>1. v0 \in Widgets /\ Resumes(v0)
  BY TakenIs
<1>2. Update(m, Head(v.queue)) = With(ResetModel(m), <<c, d>>)
  BY DEF ExitToSearch
<1>3. c.cmd = "ClearQuery" /\ d.cmd = "HideContent"
  BY DEF Cmd
<1> HIDE DEF v0, c, d
<1>4. Effect(v0, Do(v0, c), v0.chat, v0.footer)
  BY <1>1, <1>3, DoWidget
<1>5. Effect(v0, Do(Do(v0, c), d), {}, "idle")
  BY <1>3, <1>4, DoWidget DEF Effect
<1>6. Effect(v0, DoAll(v0, <<c, d>>), {}, "idle")
  BY <1>5, DoLists
<1> QED
  BY <1>2, <1>6, Resetting DEF v0

(* The results of a search, and what the user does with them.              *)
LEMMA HandleSearch ==
  ASSUME NEW m, NEW v, Sound(m, v), v.queue # <<>>, Head(v.queue).msg \in SearchMsgs
  PROVE  Handled(m, v)
<1> DEFINE x == Head(v.queue)
           v0 == Taken(v)
<1>1. /\ v0 \in Widgets /\ Resumes(v0) /\ v0.queue = Tail(v.queue) /\ v0.tasks = v.tasks
      /\ v0.chat = v.chat /\ v0.footer = v.footer /\ m \in Models
  BY TakenIs
<1>2. Update(m, x) = UpdateSearch(m, x)
  BY UpdateIs
<1>3. ~Current(x, m.turn) /\ SameTurn(m, m)
  BY DEF Current, TurnMsgs, SearchMsgs, SameTurn
<1>4. x.msg \in SearchMsgs /\ x \in Messages
  BY TakenIs
<1> HIDE DEF x, v0
<1>5. ASSUME x.msg = "QueryEvent" PROVE Handled(m, v)
  <2>1. CASE ~IsQuery(m, x)
    <3>1. Update(m, x) = With(m, <<>>)
      BY <1>2, <1>5, <2>1 DEF UpdateSearch
    <3> QED
      BY <1>3, <3>1, Nothing DEF x
  <2>2. CASE IsQuery(m, x)
    <3> DEFINE c == [cmd |-> "RenderSearchResult", query |-> x.query]
    <3>1. Update(m, x) = With(m, <<c>>)
      BY <1>2, <1>5, <2>2 DEF UpdateSearch
    <3>2. x.query \in Nat
      BY <1>4, <1>5 DEF Messages, PlainMsgs, CarryingMsgs
    <3>3. c.cmd = "RenderSearchResult" /\ c.query \in Nat
      BY <3>2
    <3> HIDE DEF c
    <3>4. Effect(v0, Do(v0, c), v.chat, "search")
      BY <1>1, <3>3, DoWidget
    <3>5. Sound(m, DoAll(v0, <<c>>))
      BY <1>1, <1>3, <3>4, DoLists, Foreign DEF x, v0
    <3> QED
      BY <3>1, <3>5, AnswerIs DEF x, v0
  <2> QED
    BY <2>1, <2>2
<1>6. ASSUME x.msg = "QueryFinished" PROVE Handled(m, v)
  <2>1. CASE ~IsQuery(m, x)
    <3>1. Update(m, x) = With(m, <<>>)
      BY <1>2, <1>6, <2>1 DEF UpdateSearch
    <3> QED
      BY <1>3, <3>1, Nothing DEF x
  <2>2. CASE IsQuery(m, x)
    <3> DEFINE c == Cmd("RenderChatAction")
               d == Cmd("HideContent")
    <3>1. Update(m, x) = With(m, <<c>>) \/ Update(m, x) = With(m, <<d>>)
      BY <1>2, <1>6, <2>2 DEF UpdateSearch
    <3>2. c.cmd = "RenderChatAction" /\ d.cmd = "HideContent"
      BY DEF Cmd
    <3> HIDE DEF c, d
    <3>3. Effect(v0, Do(v0, c), v.chat, "search") /\ Effect(v0, Do(v0, d), {}, "idle")
      BY <1>1, <3>2, DoWidget
    <3>4. Sound(m, DoAll(v0, <<c>>))
      BY <1>1, <1>3, <3>3, DoLists, Foreign DEF x, v0
    <3>5. Sound(m, DoAll(v0, <<d>>))
      BY <1>1, <1>3, <3>3, DoLists, Foreign DEF x, v0
    <3> QED
      BY <3>1, <3>4, <3>5, AnswerIs DEF x, v0
  <2> QED
    BY <2>1, <2>2
<1>7. ASSUME x.msg = "ResultAction" PROVE Handled(m, v)
  <2> DEFINE c == Cmd("HideOverlay")
  <2>1. Update(m, x) = With(ResetModel(m), <<c>>)
    BY <1>2, <1>7 DEF UpdateSearch
  <2>2. c.cmd = "HideOverlay"
    BY DEF Cmd
  <2> HIDE DEF c
  <2>3. Effect(v0, Do(v0, c), {}, "idle")
    BY <1>1, <2>2, DoWidget
  <2>4. Effect(v0, DoAll(v0, <<c>>), {}, "idle")
    BY <2>3, DoLists
  <2> QED
    BY <2>1, <2>4, Resetting DEF x, v0
<1>8. ASSUME x.msg = "ExitSearch" PROVE Handled(m, v)
  <2> DEFINE c == Cmd("ExitSearch")
  <2>1. Update(m, x) = With(ResetModel(m), <<c>>)
    BY <1>2, <1>8 DEF UpdateSearch
  <2>2. c.cmd = "ExitSearch"
    BY DEF Cmd
  <2> HIDE DEF c
  <2>3. Effect(v0, Do(v0, c), {}, "idle")
    BY <1>1, <2>2, DoWidget
  <2>4. Effect(v0, DoAll(v0, <<c>>), {}, "idle")
    BY <2>3, DoLists
  <2> QED
    BY <2>1, <2>4, Resetting DEF x, v0
<1> QED
  BY <1>4, <1>5, <1>6, <1>7, <1>8 DEF SearchMsgs

(* The messages of a turn.                                                 *)
LEMMA HandleChat ==
  ASSUME NEW m, NEW v, Sound(m, v), v.queue # <<>>,
         Head(v.queue).msg \in {"PromptSubmit", "PreparationFailed", "PromptPrepared", "RequestStarted",
                                "RenderEvent", "Interrupt"}
  PROVE  Handled(m, v)
<1> DEFINE x == Head(v.queue)
           v0 == Taken(v)
           n == m.turn
<1>1. /\ v0 \in Widgets /\ Resumes(v0) /\ v0.queue = Tail(v.queue) /\ v0.tasks = v.tasks
      /\ v0.chat = v.chat /\ v0.footer = v.footer /\ m \in Models /\ n \in Nat
      /\ v.queue \in Seq(Messages) /\ x \in Messages /\ v.tasks \in SUBSET LauncherTasks
  BY TakenIs
<1>2. Update(m, x) = UpdateChat(m, x)
  BY UpdateIs
<1>3. Conversation(m, v.queue, v.tasks, v.chat, v.footer)
  BY DEF Sound
<1>4. x.msg \in {"PromptSubmit", "PreparationFailed", "PromptPrepared", "RequestStarted", "RenderEvent", "Interrupt"}
  OBVIOUS
<1>5. IsCurrent(m, x) /\ x.msg \in TurnMsgs <=> Current(x, n)
  BY DEF IsCurrent, Current
<1>6. Effect(v0, v0, v.chat, v.footer)
  BY <1>1 DEF Effect
<1> HIDE DEF x, v0, n
<1>7. ASSUME x.msg = "PromptSubmit" PROVE Handled(m, v)
  <2>1. CASE m.running
    <3>1. Update(m, x) = With(m, <<>>)
      BY <1>2, <1>7, <2>1 DEF UpdateChat
    <3>2. ~Current(x, n)
      BY <1>7 DEF Current, TurnMsgs
    <3> QED
      BY <3>1, <3>2, Nothing DEF x, n
  <2>2. CASE ~m.running
    <3> DEFINE c == [cmd |-> "SubmitChatPrompt", turn |-> n + 1]
               m2 == BeginTurn(m)
               t == [kind |-> "prepare", turn |-> n + 1]
               y == [msg |-> "PreparationFailed", turn |-> n + 1]
               v1 == ClearInput(v0)
    <3>1. Update(m, x) = With(m2, <<c>>)
      BY <1>2, <1>7, <2>2 DEF UpdateChat, n
    <3>2. Do(v0, c) = SubmitChatPrompt(v0, n + 1)
      <4>1. c.cmd = "SubmitChatPrompt" /\ c.turn = n + 1
        OBVIOUS
      <4> HIDE DEF c
      <4>2. Do(v0, c) = SubmitChatPrompt(v0, c.turn)
        BY <4>1, DoIs DEF RunAsTask, TaskCmds
      <4> QED
        BY <4>1, <4>2
    <3>3. Do(v0, c) = Spawn(v1, t) \/ Do(v0, c) = Enqueue(v1, y)
      BY <3>2 DEF SubmitChatPrompt
    <3>4. m2 \in Models
      BY <1>1, ModelsOf
    <3>5. /\ Conversation(m2, Tail(v.queue), v.tasks \cup {t}, v.chat, v.footer)
          /\ Conversation(m2, Append(Tail(v.queue), y), v.tasks, v.chat, v.footer)
      BY <1>1, <1>3, <2>2, <3>4, Prompted DEF n
    <3>6. t \in LauncherTasks /\ y \in Messages
      BY <1>1 DEF LauncherTasks, Messages, CarryingMsgs
    <3>7. Effect(v0, v1, v.chat, v.footer)
      BY <1>1, ClearInputIs
    <3> HIDE DEF c, m2, t, y, v1
    <3>8. Sound(m2, Spawn(v1, t))
      BY <1>1, <3>4, <3>5, <3>6, <3>7, DoSpawn DEF Sound, Effect
    <3>9. Sound(m2, Enqueue(v1, y))
      <4> DEFINE u == Enqueue(v1, y)
      <4>1. v1 \in Widgets /\ Resumes(v1) /\ v1.queue = Tail(v.queue) /\ v1.tasks = v.tasks
        BY <1>1, <3>7 DEF Effect
      <4>2. /\ u \in Widgets /\ Resumes(u) /\ u.queue = Append(v1.queue, y) /\ u.tasks = v1.tasks
            /\ u.chat = v1.chat /\ u.footer = v1.footer
        BY <3>6, <4>1, EnqueueIs
      <4> HIDE DEF u
      <4>3. Conversation(m2, u.queue, u.tasks, u.chat, u.footer)
        BY <3>5, <3>7, <4>1, <4>2 DEF Effect
      <4> QED
        BY <3>4, <4>2, <4>3 DEF Sound, u
    <3>10. Sound(m2, DoAll(v0, <<c>>))
      BY <3>3, <3>8, <3>9, DoLists
    <3> QED
      BY <3>1, <3>10, AnswerIs DEF x, v0
  <2> QED
    BY <2>1, <2>2
<1>8. ASSUME x.msg = "PreparationFailed" PROVE Handled(m, v)
  <2>1. CASE ~IsCurrent(m, x)
    <3>1. Update(m, x) = With(m, <<>>)
      BY <1>2, <1>8, <2>1 DEF UpdateChat
    <3> QED
      BY <1>5, <2>1, <3>1, Nothing DEF x, n
  <2>2. CASE IsCurrent(m, x)
    <3>1. Update(m, x) = With(EndTurn(m), <<>>)
      BY <1>2, <1>8, <2>2 DEF UpdateChat
    <3>2. Current(x, n) /\ Final(x)
      BY <1>5, <1>8, <2>2 DEF TurnMsgs, Final
    <3>3. v.chat \subseteq {m.session, NoUuid} /\ v.footer # "streaming"
      <4>1. Current(Head(v.queue), m.turn) /\ Head(v.queue).msg \in {"PromptPrepared", "PreparationFailed"}
        BY <1>8, <3>2 DEF x, n
      <4>2. v.chat \subseteq {m.session, NoUuid}
        BY <1>1, <1>3, <4>1, Facing
      <4>3. v.footer # "streaming"
        <5> DEFINE q == v.queue
                   footer == v.footer
        <5>1. /\ q \in Seq(Messages) /\ q # <<>> /\ Conversation(m, q, v.tasks, v.chat, footer)
              /\ Current(Head(q), m.turn) /\ Head(q).msg \in {"PromptPrepared", "PreparationFailed"}
          BY <1>1, <1>3, <4>1
        <5> HIDE DEF q, footer
        <5>2. footer # "streaming"
          BY <1>1, <5>1, Facing
        <5> QED
          BY <5>2 DEF footer
      <4> QED
        BY <4>2, <4>3
    <3>4. /\ EndTurn(m) \in Models /\ EndTurn(m).turn = m.turn /\ ~EndTurn(m).running
          /\ EndTurn(m).session = m.session
      BY <1>1, ModelsOf
    <3>5. Conversation(EndTurn(m), Tail(v.queue), v.tasks, v.chat, v.footer)
      BY <1>1, <1>3, <3>2, <3>3, <3>4, Ended DEF x, n
    <3>6. Sound(EndTurn(m), DoAll(v0, <<>>))
      BY <1>6, <3>4, <3>5, ShownIs, DoLists DEF v0
    <3> QED
      BY <3>1, <3>6, AnswerIs DEF x, v0
  <2> QED
    BY <2>1, <2>2
<1>9. ASSUME x.msg = "PromptPrepared" PROVE Handled(m, v)
  <2>1. CASE ~IsCurrent(m, x)
    <3>1. Update(m, x) = With(m, <<>>)
      BY <1>2, <1>9, <2>1 DEF UpdateChat
    <3> QED
      BY <1>5, <2>1, <3>1, Nothing DEF x, n
  <2>2. CASE IsCurrent(m, x)
    <3> DEFINE a == Cmd("ShowChatView")
               b == Cmd("RenderChatStart")
               c == [cmd |-> "SendChat", turn |-> x.turn, session |-> m.session]
               m2 == [m EXCEPT !.mode = "Chat"]
               t == [kind |-> "chat", turn |-> n, session |-> m.session, at |-> "opening"]
               v1 == Do(Do(v0, a), b)
    <3>1. Update(m, x) = With(m2, <<a, b, c>>)
      BY <1>2, <1>9, <2>2 DEF UpdateChat
    <3>2. Current(x, n) /\ x.turn = n
      BY <1>5, <1>9, <2>2 DEF TurnMsgs, Current
    <3>3. m2 \in Models
      BY <1>1 DEF Models
    <3>4. t \in LauncherTasks
      BY <1>1 DEF LauncherTasks, Models
    <3>5. /\ a.cmd = "ShowChatView" /\ b.cmd = "RenderChatStart"
          /\ c.cmd = "SendChat" /\ c.turn = n /\ c.session = m.session
      BY <3>2 DEF Cmd
    <3>6. Conversation(m2, Tail(v.queue), v.tasks \cup {t}, v.chat, "streaming")
      BY <1>1, <1>3, <1>9, <3>2, <3>3, Prepared DEF x, n
    <3> HIDE DEF a, b, c, m2
    <3>7. Effect(v0, Do(v0, a), v.chat, "chat")
      BY <1>1, <3>5, DoWidget
    <3>8. Effect(v0, v1, v.chat, "streaming")
      BY <3>5, <3>7, DoWidget DEF Effect
    <3> HIDE DEF v1
    <3>9. Do(v1, c) = Spawn(v1, t)
      <4>1. Do(v1, c) = RunAsTask(v1, c)
        BY <3>5, DoIs DEF TaskCmds
      <4>2. RunAsTask(v1, c) = Spawn(v1, [kind |-> "chat", turn |-> c.turn, session |-> c.session, at |-> "opening"])
        BY <3>5, Zenon DEF RunAsTask
      <4> QED
        BY <3>5, <4>1, <4>2
    <3> HIDE DEF t
    <3>10. Sound(m2, Spawn(v1, t))
      BY <1>1, <3>3, <3>4, <3>6, <3>8, DoSpawn DEF Sound, Effect
    <3>11. Sound(m2, DoAll(v0, <<a, b, c>>))
      BY <3>9, <3>10, DoLists DEF v1
    <3> QED
      BY <3>1, <3>11, AnswerIs DEF x, v0
  <2> QED
    BY <2>1, <2>2
<1>10. ASSUME x.msg = "RequestStarted" PROVE Handled(m, v)
  <2>1. CASE ~IsCurrent(m, x)
    <3>1. Update(m, x) = With(m, <<>>)
      BY <1>2, <1>10, <2>1 DEF UpdateChat
    <3> QED
      BY <1>5, <2>1, <3>1, Nothing DEF x, n
  <2>2. CASE IsCurrent(m, x)
    <3> DEFINE m2 == [m EXCEPT !.session = x.session]
    <3>1. Update(m, x) = With(m2, <<>>)
      BY <1>2, <1>10, <2>2 DEF UpdateChat
    <3>2. Current(x, n)
      BY <1>5, <1>10, <2>2 DEF TurnMsgs
    <3>3. x.session \in MaybeUuid
      BY <1>1, <1>10 DEF Messages, PlainMsgs, CarryingMsgs
    <3>4. m2 \in Models
      BY <1>1, <3>3 DEF Models
    <3>5. Conversation(m2, Tail(v.queue), v.tasks, v.chat, v.footer)
      BY <1>1, <1>3, <1>10, <3>2, <3>4, Started DEF x, n
    <3> HIDE DEF m2
    <3>6. Sound(m2, DoAll(v0, <<>>))
      BY <1>6, <3>4, <3>5, ShownIs, DoLists DEF v0
    <3> QED
      BY <3>1, <3>6, AnswerIs DEF x, v0
  <2> QED
    BY <2>1, <2>2
<1>11. ASSUME x.msg = "RenderEvent" PROVE Handled(m, v)
  <2> DEFINE a == Cmd("RenderChatFinish")
             b == [cmd |-> "RenderChatEvent", of |-> x.of]
             shown == v.chat \cup {x.of}
  <2>1. CASE ~IsCurrent(m, x)
    <3>1. Update(m, x) = With(m, <<>>)
      BY <1>2, <1>11, <2>1 DEF UpdateChat
    <3> QED
      BY <1>5, <2>1, <3>1, Nothing DEF x, n
  <2>2. x.of \in MaybeUuid
    BY <1>1, <1>11 DEF Messages, PlainMsgs, CarryingMsgs
  <2>3. a.cmd = "RenderChatFinish" /\ b.cmd = "RenderChatEvent" /\ b.of = x.of
    BY DEF Cmd
  <2>4. ASSUME IsCurrent(m, x), x.terminal PROVE Handled(m, v)
    <3>1. Update(m, x) = With(EndTurn(m), <<a, b>>)
      BY <1>2, <1>11, <2>4 DEF UpdateChat
    <3> HIDE DEF a, b
    <3>2. Current(x, n) /\ Final(x)
      BY <1>5, <1>11, <2>4 DEF TurnMsgs, Final
    <3>3. shown \subseteq {m.session, NoUuid}
      BY <1>1, <1>3, <1>11, <3>2, Facing DEF x, n
    <3>4. /\ EndTurn(m) \in Models /\ EndTurn(m).turn = m.turn /\ ~EndTurn(m).running
          /\ EndTurn(m).session = m.session
      BY <1>1, ModelsOf
    <3> HIDE DEF shown
    <3>5. Conversation(EndTurn(m), Tail(v.queue), v.tasks, shown, "chat")
      BY <1>1, <1>3, <3>2, <3>3, <3>4, Ended DEF x, n
    <3>6. Effect(v0, Do(v0, a), v.chat, "chat")
      BY <1>1, <2>3, DoWidget
    <3>7. Effect(v0, Do(Do(v0, a), b), shown, "chat")
      BY <2>2, <2>3, <3>6, DoWidget DEF Effect, shown
    <3>8. Sound(EndTurn(m), Do(Do(v0, a), b))
      BY <3>4, <3>5, <3>7, ShownIs DEF v0
    <3>9. Sound(EndTurn(m), DoAll(v0, <<a, b>>))
      BY <3>8, DoLists
    <3> QED
      BY <3>1, <3>9, AnswerIs DEF x, v0
  <2>5. ASSUME IsCurrent(m, x), ~x.terminal PROVE Handled(m, v)
    <3>1. Update(m, x) = With(m, <<b>>)
      BY <1>2, <1>11, <2>5 DEF UpdateChat
    <3> HIDE DEF b
    <3>2. Current(x, n)
      BY <1>5, <1>11, <2>5 DEF TurnMsgs
    <3>3. Conversation(m, Tail(v.queue), v.tasks, shown, v.footer)
      BY <1>1, <1>3, <1>11, <2>5, <3>2, Spoke DEF x, n
    <3>4. Effect(v0, Do(v0, b), shown, v.footer)
      BY <1>1, <2>2, <2>3, DoWidget
    <3> HIDE DEF shown
    <3>5. Sound(m, Do(v0, b))
      BY <1>1, <3>3, <3>4, ShownIs DEF v0
    <3>6. Sound(m, DoAll(v0, <<b>>))
      BY <3>5, DoLists
    <3> QED
      BY <3>1, <3>6, AnswerIs DEF x, v0
  <2> QED
    BY <2>1, <2>4, <2>5
<1>12. ASSUME x.msg = "Interrupt" PROVE Handled(m, v)
  <2>1. ~Current(x, n)
    BY <1>12 DEF Current, TurnMsgs
  <2>2. CASE m.session = NoUuid
    <3>1. Update(m, x) = With(m, <<>>)
      BY <1>2, <1>12, <2>2 DEF UpdateChat
    <3> QED
      BY <2>1, <3>1, Nothing DEF x, n
  <2>3. CASE m.session # NoUuid
    <3> DEFINE c == [cmd |-> "CancelChat", session |-> m.session]
    <3>1. Update(m, x) = With(m, <<c>>)
      BY <1>2, <1>12, <2>3 DEF UpdateChat
    <3>2. c.cmd = "CancelChat"
      OBVIOUS
    <3> HIDE DEF c
    <3>3. Effect(v0, Do(v0, c), v.chat, v.footer)
      BY <1>1, <3>2, DoWidget
    <3>4. SameTurn(m, m)
      BY DEF SameTurn
    <3>5. Sound(m, DoAll(v0, <<c>>))
      BY <1>1, <2>1, <3>3, <3>4, DoLists, Foreign DEF x, v0, n
    <3> QED
      BY <3>1, <3>5, AnswerIs DEF x, v0
  <2> QED
    BY <2>2, <2>3
<1> QED
  BY <1>4, <1>7, <1>8, <1>9, <1>10, <1>11, <1>12

(* The list of sessions, and the restoring of one.                         *)
LEMMA HandleSession ==
  ASSUME NEW m, NEW v, Sound(m, v), v.queue # <<>>, Head(v.queue).msg \in SessionMsgs
  PROVE  Handled(m, v)
<1> DEFINE x == Head(v.queue)
           v0 == Taken(v)
           n == m.turn
<1>1. /\ v0 \in Widgets /\ Resumes(v0) /\ v0.queue = Tail(v.queue) /\ v0.tasks = v.tasks
      /\ v0.chat = v.chat /\ v0.footer = v.footer /\ m \in Models /\ n \in Nat
      /\ v.queue \in Seq(Messages) /\ x \in Messages /\ v.tasks \in SUBSET LauncherTasks
  BY TakenIs
<1>2. Update(m, x) = UpdateSession(m, x)
  BY UpdateIs
<1>3. Conversation(m, v.queue, v.tasks, v.chat, v.footer)
  BY DEF Sound
<1>4. x.msg \in SessionMsgs
  OBVIOUS
<1> HIDE DEF x, v0, n
<1>5. ASSUME x.msg = "ToggleSessions" PROVE Handled(m, v)
  <2> DEFINE m1 == ResetTurn(m)
             m2 == BeginQuery(m1)
             m3 == [m2 EXCEPT !.mode = "Session"]
             m4 == [m3 EXCEPT !.session = NoUuid]
             a == Cmd("ClearQuery")
             b == Cmd("ClearChatContent")
             c == Cmd("OpenSessions")
  <2>1. a.cmd = "ClearQuery" /\ b.cmd = "ClearChatContent" /\ c.cmd = "OpenSessions"
    BY DEF Cmd
  <2>2. m1 \in Models /\ m1.turn = n + 1 /\ ~m1.running /\ m1.session = m.session
    <3> DEFINE k == n + 1
    <3>1. k \in Nat
      BY <1>1
    <3>2. m1 = [m EXCEPT !.turn = k, !.running = FALSE]
      BY DEF ResetTurn, n
    <3> HIDE DEF k, m1
    <3>3. m1 \in Models /\ m1.turn = k /\ ~m1.running /\ m1.session = m.session
      BY <1>1, <3>1, <3>2 DEF Models
    <3> QED
      BY <3>3 DEF k
  <2> HIDE DEF m1
  <2>3. m2 \in Models /\ m2.turn = n + 1 /\ ~m2.running /\ m2.session = m.session
    BY <2>2, ModelsOf DEF SameTurn
  <2> HIDE DEF m2
  <2>4. m3 \in Models /\ m3.turn = n + 1 /\ ~m3.running /\ m3.session = m.session
    BY <2>3 DEF Models
  <2>5. CASE m.mode = "Session"
    <3>1. Update(m, x) = ExitToSearch(m)
      BY <1>2, <1>5, <2>5 DEF UpdateSession
    <3> QED
      BY <3>1, Exiting DEF x
  <2>6. CASE m.mode = "Chat"
    <3>1. Update(m, x) = With(m4, <<a, b, c>>)
      BY <1>2, <1>5, <2>6 DEF UpdateSession, m1, m2
    <3> HIDE DEF m3
    <3>2. m4 \in Models /\ m4.turn = n + 1 /\ ~m4.running
      BY <2>4 DEF Models, MaybeUuid
    <3> HIDE DEF m4, a, b, c
    <3>3. Conversation(m4, Tail(v.queue), v.tasks, {}, "session")
      BY <1>1, <1>3, <3>2, Abandoned DEF n
    <3>4. Effect(v0, Do(v0, a), v.chat, v.footer)
      BY <1>1, <2>1, DoWidget
    <3>5. Effect(v0, Do(Do(v0, a), b), {}, v.footer)
      BY <2>1, <3>4, DoWidget DEF Effect
    <3>6. Effect(v0, Do(Do(Do(v0, a), b), c), {}, "session")
      BY <2>1, <3>5, DoWidget DEF Effect
    <3>7. Sound(m4, Do(Do(Do(v0, a), b), c))
      BY <3>2, <3>3, <3>6, ShownIs DEF v0
    <3>8. Sound(m4, DoAll(v0, <<a, b, c>>))
      BY <3>7, DoLists
    <3> QED
      BY <3>1, <3>8, AnswerIs DEF x, v0
  <2>7. CASE m.mode \notin {"Session", "Chat"}
    <3>1. Update(m, x) = With(m3, <<a, c>>)
      BY <1>2, <1>5, <2>7 DEF UpdateSession, m1, m2
    <3> HIDE DEF m3, a, c
    <3>2. v.chat \subseteq {m3.session, NoUuid}
      BY <1>3, <2>4 DEF Conversation, Talk, View
    <3>3. Conversation(m3, Tail(v.queue), v.tasks, v.chat, "session")
      BY <1>1, <1>3, <2>4, <3>2, Abandoned DEF n
    <3>4. Effect(v0, Do(v0, a), v.chat, v.footer)
      BY <1>1, <2>1, DoWidget
    <3>5. Effect(v0, Do(Do(v0, a), c), v.chat, "session")
      BY <2>1, <3>4, DoWidget DEF Effect
    <3>6. Sound(m3, Do(Do(v0, a), c))
      BY <2>4, <3>3, <3>5, ShownIs DEF v0
    <3>7. Sound(m3, DoAll(v0, <<a, c>>))
      BY <3>6, DoLists
    <3> QED
      BY <3>1, <3>7, AnswerIs DEF x, v0
  <2> QED
    BY <2>5, <2>6, <2>7
<1>6. ASSUME x.msg = "Restore" PROVE Handled(m, v)
  <2>1. x.session \in Uuids
    BY <1>1, <1>6 DEF Messages, PlainMsgs, CarryingMsgs
  <2>2. CASE m.session = x.session
    <3>1. Update(m, x) = With(m, <<>>)
      BY <1>2, <1>6, <2>2 DEF UpdateSession
    <3>2. ~Current(x, n)
      BY <1>6 DEF Current, TurnMsgs
    <3> QED
      BY <3>1, <3>2, Nothing DEF x, n
  <2>3. CASE m.session # x.session
    <3> DEFINE m1 == BeginTurn(m)
               m2 == [m1 EXCEPT !.mode = "Chat", !.session = x.session]
               a == Cmd("ClearQuery")
               b == Cmd("ClearChatContent")
               c == Cmd("ShowChatView")
               d == Cmd("RenderChatStart")
               e == [cmd |-> "RestoreSession", turn |-> n + 1, session |-> x.session]
               t == [kind |-> "restore", turn |-> n + 1, session |-> x.session, at |-> "opening"]
               v1 == Do(v0, a)
               v2 == Do(v1, b)
               v3 == Do(v2, c)
               v4 == Do(v3, d)
    <3>1. Update(m, x) = With(m2, <<a, b, c, d, e>>)
      BY <1>2, <1>6, <2>3 DEF UpdateSession, n
    <3>2. m1 \in Models /\ m1.turn = n + 1 /\ m1.running
      <4> DEFINE k == n + 1
      <4>1. k \in Nat
        BY <1>1
      <4>2. m1 = [m EXCEPT !.turn = k, !.running = TRUE]
        BY DEF BeginTurn, n
      <4> HIDE DEF k, m1
      <4>3. m1 \in Models /\ m1.turn = k /\ m1.running
        BY <1>1, <4>1, <4>2 DEF Models
      <4> QED
        BY <4>3 DEF k
    <3> HIDE DEF m1
    <3>3. m2 \in Models /\ m2.turn = n + 1 /\ m2.running /\ m2.mode = "Chat" /\ m2.session = x.session
      BY <2>1, <3>2 DEF Models, MaybeUuid
    <3>4. /\ a.cmd = "ClearQuery" /\ b.cmd = "ClearChatContent" /\ c.cmd = "ShowChatView" /\ d.cmd = "RenderChatStart"
          /\ e.cmd = "RestoreSession" /\ e.turn = n + 1 /\ e.session = x.session
      BY DEF Cmd
    <3>5. t \in LauncherTasks
      BY <1>1, <2>1 DEF LauncherTasks, MaybeUuid
    <3> HIDE DEF a, b, c, d, e, m2
    <3>6. Conversation(m2, Tail(v.queue), v.tasks \cup {t}, {}, "streaming")
      BY <1>1, <1>3, <3>3, Restored DEF n
    <3>7. Effect(v0, v1, v.chat, v.footer)
      BY <1>1, <3>4, DoWidget
    <3>8. Effect(v0, v2, {}, v.footer)
      BY <3>4, <3>7, DoWidget DEF Effect
    <3>9. Effect(v0, v3, {}, "chat")
      BY <3>4, <3>8, DoWidget DEF Effect
    <3>10. Effect(v0, v4, {}, "streaming")
      BY <3>4, <3>9, DoWidget, ZenonT(30) DEF Effect
    <3>11. DoAll(v0, <<a, b, c, d, e>>) = Do(v4, e)
      BY DoLists
    <3> HIDE DEF v1, v2, v3, v4
    <3>12. Do(v4, e) = Spawn(v4, t)
      <4>1. Do(v4, e) = RunAsTask(v4, e)
        BY <3>4, DoIs DEF TaskCmds
      <4>2. RunAsTask(v4, e) = Spawn(v4, [kind |-> "restore", turn |-> e.turn, session |-> e.session, at |-> "opening"])
        BY <3>4, Zenon DEF RunAsTask
      <4> QED
        BY <3>4, <4>1, <4>2
    <3> HIDE DEF t
    <3>13. Sound(m2, Spawn(v4, t))
      BY <1>1, <3>3, <3>5, <3>6, <3>10, DoSpawn, ZenonT(30) DEF Sound, Effect
    <3> QED
      BY <3>1, <3>11, <3>12, <3>13, AnswerIs DEF x, v0
  <2> QED
    BY <2>2, <2>3
<1>7. ASSUME x.msg = "RestoreFailed" PROVE Handled(m, v)
  <2>1. CASE ~IsCurrent(m, x)
    <3>1. Update(m, x) = With(m, <<>>)
      BY <1>2, <1>7, <2>1 DEF UpdateSession
    <3>2. ~Current(x, n)
      BY <2>1 DEF IsCurrent, Current, n
    <3> QED
      BY <3>1, <3>2, Nothing DEF x, n
  <2>2. CASE IsCurrent(m, x)
    <3> DEFINE m1 == [m EXCEPT !.session = NoUuid]
               m2 == EndTurn(m1)
               c == Cmd("RenderChatFinish")
    <3>1. Update(m, x) = With(m2, <<c>>)
      BY <1>2, <1>7, <2>2 DEF UpdateSession
    <3>2. c.cmd = "RenderChatFinish"
      BY DEF Cmd
    <3>3. Current(x, n) /\ Final(x)
      BY <1>7, <2>2 DEF IsCurrent, Current, TurnMsgs, Final, n
    <3>4. v.chat = {}
      BY <1>1, <1>3, <1>7, <3>3, Facing DEF x, n
    <3>5. m1 \in Models /\ m1.turn = n
      BY <1>1 DEF Models, MaybeUuid, n
    <3> HIDE DEF m1, c
    <3>6. m2 \in Models /\ m2.turn = n /\ ~m2.running
      BY <3>5, ModelsOf
    <3> HIDE DEF m2
    <3>7. Conversation(m2, Tail(v.queue), v.tasks, v.chat, "chat")
      BY <1>1, <1>3, <3>3, <3>4, <3>6, Ended DEF x, n
    <3>8. Effect(v0, Do(v0, c), v.chat, "chat")
      BY <1>1, <3>2, DoWidget
    <3>9. Sound(m2, DoAll(v0, <<c>>))
      BY <3>6, <3>7, <3>8, ShownIs, DoLists DEF v0
    <3> QED
      BY <3>1, <3>9, AnswerIs DEF x, v0
  <2> QED
    BY <2>1, <2>2
<1> QED
  BY <1>4, <1>5, <1>6, <1>7 DEF SessionMsgs

(* Whatever message is at the head of the queue.                           *)
LEMMA HandleAny ==
  ASSUME NEW m, NEW v, Sound(m, v), v.queue # <<>>
  PROVE  Handled(m, v)
<1> DEFINE x == Head(v.queue)
<1>1. x \in Messages
  BY TakenIs
<1> HIDE DEF x
<1>2. \/ x.msg \in LauncherMsgs \/ x.msg \in SearchMsgs \/ x.msg \in SessionMsgs \/ x.msg = "ContentClose"
      \/ x.msg \in {"PromptSubmit", "PreparationFailed", "PromptPrepared", "RequestStarted", "RenderEvent", "Interrupt"}
  BY <1>1 DEF Messages, PlainMsgs, CarryingMsgs, LauncherMsgs, SearchMsgs, SessionMsgs
<1>3. CASE x.msg = "ContentClose"
  BY <1>3, UpdateIs, Exiting DEF x
<1> QED
  BY <1>2, <1>3, HandleLauncher, HandleSearch, HandleSession, HandleChat DEF x

-----------------------------------------------------------------------------
(* The other steps.                                                        *)

(* A step that changes nothing but the tasks and the queue.                *)
LEMMA StepIs ==
  ASSUME LauncherInv, NEW ts \in SUBSET LauncherTasks, NEW q \in Seq(Messages),
         w' = [w EXCEPT !.tasks = ts, !.queue = q], model' = model,
         Conversation(model, q, ts, w.chat, w.footer)
  PROVE  Sound(model, w)'
<1>1. w' \in Widgets
  BY DEF LauncherInv, Sound, Widgets
<1>2. Resumes(w')
  BY DEF LauncherInv, Sound, Widgets, Resumes
<1>3. w'.queue = q /\ w'.tasks = ts /\ w'.chat = w.chat /\ w'.footer = w.footer
  BY DEF LauncherInv, Sound, Widgets
<1> QED
  BY <1>1, <1>2, <1>3 DEF LauncherInv, Sound

(* The same, as the tasks do it.                                           *)
LEMMA TaskStep ==
  ASSUME LauncherInv, NEW t \in w.tasks, NEW next \in SUBSET LauncherTasks, NEW x \in Messages
  PROVE  /\ Step(t, next, <<x>>) /\ Conversation(model, Append(w.queue, x), (w.tasks \ {t}) \cup next, w.chat, w.footer)
              => Sound(model, w)'
         /\ Step(t, next, <<>>) /\ Conversation(model, w.queue, (w.tasks \ {t}) \cup next, w.chat, w.footer)
              => Sound(model, w)'
<1> DEFINE ts == (w.tasks \ {t}) \cup next
           q == w.queue
<1>1. q \in Seq(Messages) /\ w.tasks \in SUBSET LauncherTasks
  BY DEF LauncherInv, Sound, Widgets
<1>2. q \o <<x>> = Append(q, x) /\ q \o <<>> = q /\ Append(q, x) \in Seq(Messages) /\ ts \in SUBSET LauncherTasks
  BY <1>1, AppendTo
<1>3. ASSUME Step(t, next, <<x>>)
      PROVE  w' = [w EXCEPT !.tasks = ts, !.queue = Append(q, x)] /\ model' = model
  BY <1>2, <1>3 DEF Step
<1>4. ASSUME Step(t, next, <<>>)
      PROVE  w' = [w EXCEPT !.tasks = ts, !.queue = q] /\ model' = model
  BY <1>2, <1>4 DEF Step
<1> HIDE DEF ts, q
<1>5. ASSUME Step(t, next, <<x>>), Conversation(model, Append(q, x), ts, w.chat, w.footer)
      PROVE  Sound(model, w)'
  BY <1>2, <1>3, <1>5, StepIs
<1>6. ASSUME Step(t, next, <<>>), Conversation(model, q, ts, w.chat, w.footer)
      PROVE  Sound(model, w)'
  BY <1>1, <1>2, <1>4, <1>6, StepIs
<1> QED
  BY <1>5, <1>6 DEF ts, q

(* Tasks of searches, of turns gone by and of the turn.                    *)
LEMMA TasksGoOn ==
  ASSUME LauncherInv, NEW t \in w.tasks,
         \/ SearchFinds(t) \/ SearchEnds(t) \/ PreparationEnds(t) \/ ChatStarts(t)
         \/ RestoreStarts(t) \/ StreamSpeaks(t) \/ StreamEnds(t)
  PROVE  LauncherInv'
<1> DEFINE n == model.turn
           q == w.queue
           ts == w.tasks
<1>1. /\ model \in Models /\ n \in Nat /\ q \in Seq(Messages) /\ ts \in SUBSET LauncherTasks /\ t \in LauncherTasks
      /\ taken \subseteq Uuids /\ Conversation(model, q, ts, w.chat, w.footer)
  BY DEF LauncherInv, Sound, Widgets, Models
<1>2. t.kind \in {"search", "prepare", "chat", "restore"}
  BY <1>1 DEF LauncherTasks
<1>3. t.kind = "search" => t.query \in Nat /\ t.found \in BOOLEAN /\ [t EXCEPT !.found = TRUE] \in LauncherTasks
                           /\ [t EXCEPT !.found = TRUE].kind = "search"
  BY <1>1 DEF LauncherTasks
<1>4. t.kind # "search" => t.turn \in Nat
  BY <1>1 DEF LauncherTasks
<1>5. ASSUME t.kind \in {"chat", "restore"}
      PROVE  /\ t.session \in MaybeUuid /\ t.at \in {"opening", "streaming", "spoke"}
             /\ \A s \in MaybeUuid : \A a \in {"opening", "streaming", "spoke"} :
                  LET u == [t EXCEPT !.session = s, !.at = a]
                  IN  u \in LauncherTasks /\ u.kind = t.kind /\ u.turn = t.turn /\ u.session = s /\ u.at = a
             /\ \A a \in {"opening", "streaming", "spoke"} :
                  LET u == [t EXCEPT !.at = a]
                  IN  u \in LauncherTasks /\ u.kind = t.kind /\ u.turn = t.turn /\ u.session = t.session /\ u.at = a
  BY <1>1, <1>5 DEF LauncherTasks
<1>6. ASSUME SearchFinds(t) PROVE LauncherInv'
  <2> DEFINE u == [t EXCEPT !.found = TRUE]
             x == [msg |-> "QueryEvent", query |-> t.query]
  <2>1. t.kind = "search" /\ Step(t, {u}, <<x>>) /\ taken' = taken
    BY <1>6 DEF SearchFinds
  <2>2. u \in LauncherTasks /\ u.kind = "search"
    BY <1>3, <2>1
  <2>3. x \in Messages /\ x.msg \notin TurnMsgs
    BY <1>3, <2>1 DEF Messages, PlainMsgs, TurnMsgs
  <2> HIDE DEF u, x
  <2>4. Conversation(model, Append(q, x), (ts \ {t}) \cup {u}, w.chat, w.footer)
    BY <1>1, <2>1, <2>2, <2>3, Elsewhere
  <2> QED
    BY <1>1, <2>1, <2>2, <2>3, <2>4, TaskStep DEF LauncherInv
<1>7. ASSUME SearchEnds(t) PROVE LauncherInv'
  <2> DEFINE x == [msg |-> "QueryFinished", query |-> t.query, found |-> t.found]
  <2>1. t.kind = "search" /\ Step(t, {}, <<x>>) /\ taken' = taken
    BY <1>7 DEF SearchEnds
  <2>2. x \in Messages /\ x.msg \notin TurnMsgs
    BY <1>3, <2>1 DEF Messages, PlainMsgs, TurnMsgs
  <2> HIDE DEF x
  <2>3. Conversation(model, Append(q, x), (ts \ {t}) \cup {}, w.chat, w.footer)
    BY <1>1, <2>1, <2>2, Elsewhere
  <2> QED
    BY <1>1, <2>1, <2>2, <2>3, TaskStep DEF LauncherInv
<1>8. ASSUME PreparationEnds(t) PROVE LauncherInv'
  <2>1. PICK name \in {"PromptPrepared", "PreparationFailed"} : Step(t, {}, <<[msg |-> name, turn |-> t.turn]>>)
    BY <1>8 DEF PreparationEnds
  <2>2. t.kind = "prepare" /\ taken' = taken
    BY <1>8 DEF PreparationEnds
  <2> DEFINE x == [msg |-> name, turn |-> t.turn]
  <2>3. /\ x \in Messages /\ x.msg \in {"PromptPrepared", "PreparationFailed"} /\ x.msg \in TurnMsgs
        /\ x.turn = t.turn /\ Final(x)
    BY <1>4, <2>2 DEF Messages, CarryingMsgs, TurnMsgs, Final
  <2> HIDE DEF x
  <2>4. Conversation(model, Append(q, x), (ts \ {t}) \cup {}, w.chat, w.footer)
    <3>1. CASE t.turn = n
      BY <1>1, <2>2, <2>3, <3>1, TaskEnds
    <3>2. CASE t.turn # n
      BY <1>1, <2>2, <2>3, <3>2, Elsewhere
    <3> QED
      BY <3>1, <3>2
  <2> QED
    BY <1>1, <2>1, <2>2, <2>3, <2>4, TaskStep DEF LauncherInv, x
<1>9. ASSUME ChatStarts(t) PROVE LauncherInv'
  <2>1. t.kind = "chat" /\ t.at = "opening"
    BY <1>9 DEF ChatStarts
  <2>2. PICK s \in IF t.session # NoUuid THEN {t.session} ELSE (Uuids \ taken) \cup {NoUuid} :
              /\ taken' = taken \cup ({s} \ {NoUuid})
              /\ Step(t, {[t EXCEPT !.session = s, !.at = "streaming"]},
                      <<[msg |-> "RequestStarted", turn |-> t.turn, session |-> s]>>)
    BY <1>9 DEF ChatStarts
  <2> DEFINE u == [t EXCEPT !.session = s, !.at = "streaming"]
             x == [msg |-> "RequestStarted", turn |-> t.turn, session |-> s]
  <2>3. s \in MaybeUuid /\ t.session \in {s, NoUuid} /\ taken' \subseteq Uuids
    <3>1. t.session \in MaybeUuid
      BY <1>5, <2>1
    <3>2. s \in (IF t.session # NoUuid THEN {t.session} ELSE (Uuids \ taken) \cup {NoUuid})
      OBVIOUS
    <3>3. s \in MaybeUuid /\ t.session \in {s, NoUuid}
      BY <3>1, <3>2 DEF MaybeUuid
    <3>4. taken' = taken \cup ({s} \ {NoUuid})
      BY <2>2
    <3> QED
      BY <1>1, <3>3, <3>4 DEF MaybeUuid
  <2>4. u \in LauncherTasks /\ u.kind = t.kind /\ u.turn = t.turn /\ u.session = s /\ u.at = "streaming"
    BY <1>5, <2>1, <2>3
  <2>5. /\ x \in Messages /\ x.msg = "RequestStarted" /\ x.msg \in TurnMsgs
        /\ x.turn = t.turn /\ x.session = s
    BY <1>4, <2>1, <2>3 DEF Messages, CarryingMsgs, TurnMsgs
  <2> HIDE DEF u, x
  <2>6. Conversation(model, Append(q, x), (ts \ {t}) \cup {u}, w.chat, w.footer)
    <3>1. CASE t.turn = n
      BY <1>1, <2>1, <2>3, <2>4, <2>5, <3>1, TaskSpeaks
    <3>2. CASE t.turn # n
      BY <1>1, <2>1, <2>4, <2>5, <3>2, Elsewhere
    <3> QED
      BY <3>1, <3>2
  <2> QED
    BY <1>1, <2>2, <2>3, <2>4, <2>5, <2>6, TaskStep DEF LauncherInv, u, x
<1>10. ASSUME RestoreStarts(t) PROVE LauncherInv'
  <2> DEFINE u == [t EXCEPT !.at = "streaming"]
             x == [msg |-> "RestoreFailed", turn |-> t.turn]
  <2>1. t.kind = "restore" /\ t.at = "opening" /\ taken' = taken /\ (Step(t, {u}, <<>>) \/ Step(t, {}, <<x>>))
    BY <1>10 DEF RestoreStarts
  <2>2. u \in LauncherTasks /\ u.kind = t.kind /\ u.turn = t.turn /\ u.session = t.session /\ u.at = "streaming"
    BY <1>5, <2>1
  <2>3. x \in Messages /\ x.msg = "RestoreFailed" /\ x.msg \in TurnMsgs /\ x.turn = t.turn /\ Final(x)
    BY <1>4, <2>1 DEF Messages, CarryingMsgs, TurnMsgs, Final
  <2> HIDE DEF u, x
  <2>4. Conversation(model, q, (ts \ {t}) \cup {u}, w.chat, w.footer)
    <3>1. CASE t.turn = n
      BY <1>1, <2>1, <2>2, <3>1, TaskAdvances
    <3>2. CASE t.turn # n
      BY <1>1, <2>1, <2>2, <2>3, <3>2, Elsewhere
    <3> QED
      BY <3>1, <3>2
  <2>5. Conversation(model, Append(q, x), (ts \ {t}) \cup {}, w.chat, w.footer)
    <3>1. CASE t.turn = n
      BY <1>1, <2>1, <2>3, <3>1, TaskEnds
    <3>2. CASE t.turn # n
      BY <1>1, <2>1, <2>3, <3>2, Elsewhere
    <3> QED
      BY <3>1, <3>2
  <2>6. CASE Step(t, {u}, <<>>)
    BY <1>1, <2>1, <2>2, <2>3, <2>4, <2>6, TaskStep DEF LauncherInv
  <2>7. CASE Step(t, {}, <<x>>)
    BY <1>1, <2>1, <2>3, <2>5, <2>7, TaskStep DEF LauncherInv
  <2> QED
    BY <2>1, <2>6, <2>7
<1>11. ASSUME StreamSpeaks(t) PROVE LauncherInv'
  <2> DEFINE u == [t EXCEPT !.at = "spoke"]
             x == Rendered(t, FALSE)
  <2>1. t.kind \in {"chat", "restore"} /\ t.at = "streaming" /\ taken' = taken /\ Step(t, {u}, <<x>>)
    BY <1>11 DEF StreamSpeaks
  <2>2. u \in LauncherTasks /\ u.kind = t.kind /\ u.turn = t.turn /\ u.session = t.session /\ u.at = "spoke"
    BY <1>5, <2>1
  <2>3. /\ x \in Messages /\ x.msg = "RenderEvent" /\ x.msg \in TurnMsgs /\ x.turn = t.turn
        /\ x.of = t.session /\ ~x.terminal
    BY <1>4, <1>5, <2>1 DEF Rendered, Messages, CarryingMsgs, TurnMsgs
  <2> HIDE DEF u, x
  <2>4. Conversation(model, Append(q, x), (ts \ {t}) \cup {u}, w.chat, w.footer)
    <3>1. CASE t.turn = n
      BY <1>1, <2>1, <2>2, <2>3, <3>1, TaskSpeaks
    <3>2. CASE t.turn # n
      BY <1>1, <2>1, <2>2, <2>3, <3>2, Elsewhere
    <3> QED
      BY <3>1, <3>2
  <2> QED
    BY <1>1, <2>1, <2>2, <2>3, <2>4, TaskStep DEF LauncherInv
<1>12. ASSUME StreamEnds(t) PROVE LauncherInv'
  <2> DEFINE x == Rendered(t, TRUE)
  <2>1. t.kind \in {"chat", "restore"} /\ taken' = taken /\ Step(t, {}, <<x>>)
    BY <1>12 DEF StreamEnds
  <2>2. /\ x \in Messages /\ x.msg = "RenderEvent" /\ x.msg \in TurnMsgs /\ x.turn = t.turn
        /\ x.of = t.session /\ x.terminal
    BY <1>4, <1>5, <2>1 DEF Rendered, Messages, CarryingMsgs, TurnMsgs
  <2>3. Final(x)
    BY <2>2 DEF Final
  <2> HIDE DEF x
  <2>4. Conversation(model, Append(q, x), (ts \ {t}) \cup {}, w.chat, w.footer)
    <3>1. CASE t.turn = n
      BY <1>1, <2>1, <2>2, <2>3, <3>1, TaskEnds
    <3>2. CASE t.turn # n
      BY <1>1, <2>1, <2>2, <3>2, Elsewhere
    <3> QED
      BY <3>1, <3>2
  <2> QED
    BY <1>1, <2>1, <2>2, <2>4, TaskStep DEF LauncherInv
<1> QED
  BY <1>6, <1>7, <1>8, <1>9, <1>10, <1>11, <1>12

(* What the user does and the timer of the input: a message without a turn *)
(* is queued, or only the widgets change.                                  *)
LEMMA InputsGoOn ==
  ASSUME LauncherInv,
         \/ Type \/ Erase \/ DebounceFires \/ Hotkey \/ ClickAway \/ ClickSettings \/ ToggleSessions
         \/ SearchKey \/ ChatKey \/ SessionKey
  PROVE  LauncherInv'
<1>1. /\ model \in Models /\ w \in Widgets /\ Resumes(w) /\ w.queue \in Seq(Messages) /\ w.typed \in BOOLEAN
      /\ taken \subseteq Uuids /\ Conversation(model, w.queue, w.tasks, w.chat, w.footer)
  BY DEF LauncherInv, Sound, Widgets
<1>2. ASSUME NEW u, w' = u, Effect(w, u, w.chat, w.footer), model' = model, taken' = taken
      PROVE  LauncherInv'
  BY <1>1, <1>2 DEF LauncherInv, Sound, Effect
<1>3. ASSUME NEW u, Effect(w, u, w.chat, w.footer), NEW x \in Messages, x.msg \notin TurnMsgs,
             w' = Enqueue(u, x), model' = model, taken' = taken
      PROVE  LauncherInv'
  <2>1. Conversation(model, Append(w.queue, x), w.tasks, w.chat, w.footer)
    BY <1>1, <1>3, Queued
  <2>2. u \in Widgets /\ Resumes(u)
    BY <1>3 DEF Effect
  <2>3. /\ w' \in Widgets /\ Resumes(w') /\ w'.queue = Append(u.queue, x) /\ w'.tasks = u.tasks
        /\ w'.chat = u.chat /\ w'.footer = u.footer
    BY <1>3, <2>2, EnqueueIs
  <2>4. u.queue = w.queue /\ u.tasks = w.tasks /\ u.chat = w.chat /\ u.footer = w.footer
    BY <1>3 DEF Effect
  <2>5. Conversation(model, w'.queue, w'.tasks, w'.chat, w'.footer)
    BY <2>1, <2>3, <2>4
  <2> QED
    BY <1>1, <1>3, <2>3, <2>5 DEF LauncherInv, Sound
<1>4. Effect(w, w, w.chat, w.footer)
  BY <1>1 DEF Effect
<1>5. \A u : Input(u) => w' = u /\ model' = model /\ taken' = taken
  BY DEF Input
<1>6. \A name \in {"Toggle", "OpenSettings", "ResultAction", "ExitSearch", "PromptSubmit", "Interrupt",
                   "ToggleSessions", "ContentClose"} : [msg |-> name] \in Messages /\ [msg |-> name].msg \notin TurnMsgs
  BY DEF Messages, PlainMsgs, TurnMsgs
<1>7. ASSUME NEW name \in {"Toggle", "OpenSettings", "ResultAction", "ExitSearch", "PromptSubmit", "Interrupt",
                           "ToggleSessions", "ContentClose"}, Input(Enqueue(w, [msg |-> name]))
      PROVE  LauncherInv'
  <2> DEFINE x == [msg |-> name]
  <2>1. x \in Messages /\ x.msg \notin TurnMsgs /\ w' = Enqueue(w, x) /\ model' = model /\ taken' = taken
    BY <1>5, <1>6, <1>7
  <2> HIDE DEF x
  <2> QED
    BY <1>3, <1>4, <2>1
<1>8. ASSUME NEW b \in BOOLEAN
      PROVE  LET x == [msg |-> "QueryChanged", content |-> b] IN x \in Messages /\ x.msg \notin TurnMsgs
  BY DEF Messages, PlainMsgs, TurnMsgs
<1>9. CASE Type
  <2> DEFINE u == [w EXCEPT !.typed = TRUE, !.debounce = TRUE]
  <2>1. w' = u /\ model' = model /\ taken' = taken
    BY <1>5, <1>9 DEF Type
  <2>2. Effect(w, u, w.chat, w.footer)
    BY <1>1 DEF Effect, Widgets, Resumes
  <2> HIDE DEF u
  <2> QED
    BY <1>2, <2>1, <2>2
<1>10. CASE Erase
  <2> DEFINE u == [w EXCEPT !.typed = FALSE, !.debounce = FALSE]
             x == [msg |-> "QueryChanged", content |-> FALSE]
  <2>1. w' = Enqueue(u, x) /\ model' = model /\ taken' = taken
    BY <1>5, <1>10 DEF Erase
  <2>2. Effect(w, u, w.chat, w.footer)
    BY <1>1 DEF Effect, Widgets, Resumes
  <2>3. x \in Messages /\ x.msg \notin TurnMsgs
    BY <1>8
  <2> HIDE DEF u, x
  <2> QED
    BY <1>3, <2>1, <2>2, <2>3
<1>11. CASE DebounceFires
  <2> DEFINE u == [w EXCEPT !.debounce = FALSE]
             x == [msg |-> "QueryChanged", content |-> w.typed]
  <2>1. w' = Enqueue(u, x) /\ model' = model /\ taken' = taken
    BY <1>11 DEF DebounceFires
  <2>2. Effect(w, u, w.chat, w.footer)
    BY <1>1 DEF Effect, Widgets, Resumes
  <2>3. x \in Messages /\ x.msg \notin TurnMsgs
    BY <1>1, <1>8
  <2> HIDE DEF u, x
  <2> QED
    BY <1>3, <2>1, <2>2, <2>3
<1>12. CASE Hotkey
  BY <1>7, <1>12 DEF Hotkey
<1>13. CASE ClickAway
  <2>1. w.shown /\ w' = Conceal(w) /\ model' = model /\ taken' = taken
    BY <1>5, <1>13 DEF ClickAway
  <2>2. Effect(w, Conceal(w), w.chat, w.footer)
    BY <1>1, <2>1, ConcealIs
  <2> QED
    BY <1>2, <2>1, <2>2
<1>14. CASE ClickSettings
  BY <1>7, <1>14 DEF ClickSettings
<1>15. CASE ToggleSessions
  BY <1>7, <1>15 DEF ToggleSessions
<1>16. CASE SearchKey
  BY <1>7, <1>16 DEF SearchKey
<1>17. CASE ChatKey
  BY <1>7, <1>17 DEF ChatKey
<1>18. CASE SessionKey
  <2>1. CASE Input(Enqueue(w, [msg |-> "ContentClose"]))
    BY <1>7, <2>1
  <2>2. ASSUME NEW s \in taken, Input(Enqueue(w, [msg |-> "Restore", session |-> s]))
        PROVE  LauncherInv'
    <3> DEFINE x == [msg |-> "Restore", session |-> s]
    <3>1. x \in Messages /\ x.msg \notin TurnMsgs
      BY <1>1 DEF Messages, PlainMsgs, TurnMsgs
    <3>2. w' = Enqueue(w, x) /\ model' = model /\ taken' = taken
      BY <1>5, <2>2
    <3> HIDE DEF x
    <3> QED
      BY <1>3, <1>4, <3>1, <3>2
  <2> QED
    BY <1>18, <2>1, <2>2 DEF SessionKey
<1> QED
  BY <1>9, <1>10, <1>11, <1>12, <1>13, <1>14, <1>15, <1>16, <1>17, <1>18

(* The launcher starts sound.                                              *)
LEMMA LauncherInit == OverlayInit => LauncherInv
<1> SUFFICES ASSUME OverlayInit PROVE LauncherInv
  OBVIOUS
<1>1. model = NewModel /\ w = NewOverlay /\ taken = OldSessions
  BY DEF OverlayInit, OverlayRest
<1>2. model \in Models /\ w \in Widgets /\ Resumes(w) /\ taken \subseteq Uuids
  <2>1. model \in Models
    BY <1>1 DEF NewModel, Models, MaybeUuid
  <2>2. <<>> \in Seq(Messages)
    OBVIOUS
  <2>3. w \in Widgets
    BY <1>1, <2>2 DEF NewOverlay, Widgets
  <2>4. Resumes(w)
    BY <1>1 DEF NewOverlay, Resumes
  <2> QED
    BY <1>1, <2>1, <2>3, <2>4, OverlayAssumption
<1>3. /\ model.turn = 0 /\ model.session = NoUuid /\ ~model.running
      /\ w.queue = <<>> /\ w.tasks = {} /\ w.chat = {} /\ w.footer = "idle"
  BY <1>1 DEF NewModel, NewOverlay
<1>4. Now(<<>>, 0) = {} /\ Mine({}, 0) = {} /\ Bounded(<<>>, {}, 0) /\ Orderly(<<>>, 0)
  BY DEF Now, Mine, Bounded, Orderly
<1>5. Talk(model, {}, {}, {}, "idle")
  BY <1>3 DEF Talk, Alone, Busy, Sessions, SpeakOf, View, Stop
<1> QED
  BY <1>2, <1>3, <1>4, <1>5 DEF LauncherInv, Sound, Conversation

(* Every step keeps it so.                                                 *)
LEMMA LauncherNext == LauncherInv /\ [OverlayNext]_overlayVars => LauncherInv'
<1> SUFFICES ASSUME LauncherInv, [OverlayNext]_overlayVars PROVE LauncherInv'
  OBVIOUS
<1>1. CASE HandleMessage
  <2>1. Handled(model, w)
    BY <1>1, HandleAny DEF HandleMessage, LauncherInv
  <2>2. Sound(model', w') /\ taken' = taken
    BY <1>1, <2>1 DEF HandleMessage, Handled, Taken
  <2> QED
    BY <2>2 DEF LauncherInv
<1>2. ASSUME NEW t \in w.tasks,
             \/ SearchFinds(t) \/ SearchEnds(t) \/ PreparationEnds(t) \/ ChatStarts(t)
             \/ RestoreStarts(t) \/ StreamSpeaks(t) \/ StreamEnds(t)
      PROVE  LauncherInv'
  BY <1>2, TasksGoOn
<1>3. CASE \/ Type \/ Erase \/ DebounceFires \/ Hotkey \/ ClickAway \/ ClickSettings \/ ToggleSessions
           \/ SearchKey \/ ChatKey \/ SessionKey
  BY <1>3, InputsGoOn
<1>4. CASE UNCHANGED overlayVars
  BY <1>4 DEF overlayVars, LauncherInv, Sound
<1> QED
  BY <1>1, <1>2, <1>3, <1>4 DEF OverlayNext

(* A sound launcher keeps its chat.                                        *)
LEMMA SoundKeepsChat == LauncherInv => LauncherKeepsItsChat
<1> SUFFICES ASSUME LauncherInv PROVE LauncherKeepsItsChat
  OBVIOUS
<1> DEFINE n == model.turn
           now == Now(w.queue, n)
           mine == Mine(w.tasks, n)
<1>1. Talk(model, now, mine, w.chat, w.footer)
  BY DEF LauncherInv, Sound, Conversation
<1>2. OneSessionInView
  BY <1>1 DEF Talk, View, OneSessionInView
<1>3. ASSUME model.running PROVE Carried(n)
  <2>1. CASE mine # {}
    BY <2>1 DEF Mine, Carried
  <2>2. CASE mine = {}
    <3>1. PICK x \in now : Final(x)
      BY <1>1, <1>3, <2>2 DEF Talk, Busy
    <3>2. PICK i \in DOMAIN w.queue : x = w.queue[i] /\ Current(w.queue[i], n)
      BY <3>1 DEF Now
    <3> QED
      BY <3>1, <3>2 DEF Current, Final, TurnMsgs, Carried
  <2> QED
    BY <2>1, <2>2
<1>4. w.footer = "streaming" => model.running /\ model.mode = "Chat"
  BY <1>1 DEF Talk, Stop
<1>5. ContentResumes
  BY DEF LauncherInv, Sound, Resumes, ContentResumes
<1> QED
  BY <1>2, <1>3, <1>4, <1>5 DEF LauncherKeepsItsChat, BusyIsCarried

(* For any sessions, any number of inputs and queues of any length: the    *)
(* chat view shows one session, that of the model; while the model refuses *)
(* prompts there is a task or a message that ends the turn, and a stop     *)
(* button only then; and a summon brings back what was left, whatever      *)
(* happened while the launcher was hidden (Model::update, Overlay::run).   *)
THEOREM LauncherKeepsItsChatAlways == OverlaySpec => []LauncherKeepsItsChat
<1>1. OverlaySpec => []LauncherInv
  BY LauncherInit, LauncherNext, PTL DEF OverlaySpec
<1> QED
  BY <1>1, SoundKeepsChat, PTL

-----------------------------------------------------------------------------
(* SettingsPages: the plugins.                                             *)

PageWork == {"load", "toggle", "remove", "save", "update", "init", "finalize"}
Topics == Plugs \cup Kinds \cup {"all"}
PageResults == {"none", "plain", "failed", "oauth"}

PageTasks ==
    [id : Nat \ {0}, do : PageWork, about : Topics, on : BOOLEAN, result : PageResults, list : SUBSET Plugs]

PageMsgs ==
    [msg : {"Clicked", "Submitted"}, kind : Kinds, editing : BOOLEAN]
    \cup [msg : {"Cancelled", "PopupDismissed", "RemoveClicked"}]
    \cup [msg : {"ToggleSwitch"}, plug : Plugs, on : BOOLEAN]
    \cup [msg : PageWork, about : Topics, ok : BOOLEAN, result : PageResults, list : SUBSET Plugs]

Dialogs == [kind : Kinds, editing : BOOLEAN, locked : BOOLEAN] \cup {NoDialog}

PluginPages ==
    [dialog : Dialogs,
     popup : {"none", "open", "dismissed"}, flow : Nat, made : Nat,
     queue : Seq(PageMsgs), tasks : SUBSET PageTasks, shown : SUBSET Plugs]

(* Only a save or a finalize is ever aborted.                              *)
FlowIsTracked(v) ==
    /\ v.flow <= v.made
    /\ \A t \in v.tasks : t.id <= v.made /\ (t.id = v.flow => t.do \in {"save", "finalize"})

(* What a task may be and say.                                             *)
TasksFit(v) ==
    /\ \A t \in v.tasks : t.do = "finalize" => t.about = "mcp"
    /\ \A t \in v.tasks : t.do = "toggle" => t.about \in Plugs
    /\ \A t \in v.tasks : t.do # "init" => t.result # "oauth"
    /\ \A i \in DOMAIN v.queue : v.queue[i].msg = "finalize" => v.queue[i].about = "mcp"

(* The user acts when the queue is empty, so what comes from the user is   *)
(* its first message.                                                      *)
UserComesFirst(v) ==
    \A i \in DOMAIN v.queue :
        /\ v.queue[i].msg = "Submitted" => i = 1 /\ v.popup = "none"
        /\ v.queue[i].msg = "ToggleSwitch" => i = 1 /\ (v.queue[i].on <=> v.queue[i].plug \in v.shown)

BeingSwitched(v, p) == v.queue # <<>> /\ v.queue[1].msg = "ToggleSwitch" /\ v.queue[1].plug = p

Toggling(v, p) == {t \in v.tasks : t.do = "toggle" /\ t.about = p}

(* A switch that no two tasks met on.  While the list is being loaded it   *)
(* is not toggled, and the list says what is stored; a task that toggles   *)
(* it brings it to what is shown.  What is shown is stored, unless such a  *)
(* task or the list is under way, or a failure that will load it.          *)
SwitchOK(v, kept0, p) ==
    /\ Loads(v) => Toggling(v, p) = {}
    /\ \A t \in v.tasks : t.do = "load" /\ t.result = "plain" => (p \in t.list <=> p \in kept0)
    /\ \A i \in DOMAIN v.queue : v.queue[i].msg = "load" /\ v.queue[i].ok => (p \in v.queue[i].list <=> p \in kept0)
    /\ ~BeingSwitched(v, p) =>
        /\ \A t \in Toggling(v, p) : /\ t.on <=> p \in v.shown
                                     /\ t.result = "plain" => (t.on <=> p \in kept0)
        /\ \/ p \in v.shown <=> p \in kept0
           \/ Toggling(v, p) # {}
           \/ Loads(v)
           \/ \E i \in DOMAIN v.queue : v.queue[i].msg = "toggle" /\ ~v.queue[i].ok

(* A dialog that is locked and a popup that is open are waited for.        *)
Waits(v, what) ==
    \/ \E t \in v.tasks : t.do \in what
    \/ \E i \in DOMAIN v.queue : v.queue[i].msg \in what \cup {"Submitted", "PopupDismissed"}

DialogOK(v) ==
    /\ v.dialog.locked => Waits(v, Answers)
    /\ v.popup # "none" => Waits(v, {"finalize"})

PluginsOK(v, kept0, met) ==
    /\ v \in PluginPages /\ kept0 \subseteq Plugs
    /\ FlowIsTracked(v) /\ TasksFit(v) /\ UserComesFirst(v) /\ DialogOK(v)
    /\ \A p \in Plugs \ met : SwitchOK(v, kept0, p)

PluginsInv == PluginsOK(pg, saved, raced)

-----------------------------------------------------------------------------
(* SettingsPages: the services and the permissions.                        *)

ServiceWork == {"init", "finalize", "disconnect", "fetch", "cancel"}
ServiceResults == {"none", "stored", "device", "manual", "ok", "failed"}
MaybeOffer == Offers \cup {NoBackend}

ServiceTasks == [id : Nat \ {0}, do : ServiceWork, of : MaybeOffer, result : ServiceResults, list : SUBSET Offers]
ServiceMsgs ==
    [msg : {"ConnectClicked", "ConnectionSubmitted", "DialogClosed", "DisconnectConfirmed"}, of : MaybeOffer]
    \cup [msg : ServiceWork \ {"cancel"}, of : MaybeOffer, result : ServiceResults, list : SUBSET Offers]

ServicesPages ==
    [connecting : MaybeOffer, dialog : {"none", "loading", "challenge", "manual", "error", "success"},
     flow : Nat, made : Nat, queue : Seq(ServiceMsgs), tasks : SUBSET ServiceTasks, listed : SUBSET Offers]

(* A task has an id of its own; the one that is tracked is of a dialog,    *)
(* and everything that a dialog does is about a backend.                   *)
ServicesTyped(v) ==
    /\ v \in ServicesPages /\ v.flow <= v.made
    /\ v.dialog # "none" => v.connecting \in Offers
    /\ \A t \in v.tasks : /\ t.id <= v.made /\ (t.id = v.flow => t.do \in {"init", "finalize"})
                          /\ t.result = "stored" => t.do = "finalize"
                          /\ t.do \in {"init", "finalize"} => t.of \in Offers
    /\ \A t, u \in v.tasks : t.id = u.id => t = u
    /\ \A i \in DOMAIN v.queue :
        v.queue[i].msg \in {"ConnectClicked", "ConnectionSubmitted", "init", "finalize"} => v.queue[i].of \in Offers

Under(t) == t.do \in {"init", "finalize"} /\ t.result \in {"none", "stored"}

(* A dialog that waits has the answer of its own backend ahead.            *)
Awaited(v) ==
    v.dialog \in {"loading", "challenge"} =>
        \/ \E t \in v.tasks : t.do \in {"init", "finalize"} /\ t.of = v.connecting
        \/ \E i \in DOMAIN v.queue : /\ v.queue[i].msg \in {"init", "finalize", "ConnectionSubmitted"}
                                     /\ v.queue[i].of = v.connecting

(* Nobody works for a dialog but the task that is tracked for it.          *)
OneFlow(v) == \A t \in v.tasks : Under(t) => t.id = v.flow /\ t.of = v.connecting

(* What a list may say: what is connected but for a row that may yet be    *)
(* taken back, unless another list is sure to follow.                      *)
Halfway(v) == {t.of : t \in {x \in v.tasks : x.result = "stored"}}

WillFetch(v, what) ==
    \/ \E t \in v.tasks : t.do = what /\ t.result = "ok"
    \/ \E i \in DOMAIN v.queue : v.queue[i].msg = what /\ v.queue[i].result = "ok"

ListIs(v, list, now) == list = now \ Halfway(v) \/ WillFetch(v, "finalize")

ListsFollow(v, now) ==
    /\ \A t \in v.tasks : t.do = "fetch" /\ t.result = "ok" => ListIs(v, t.list, now)
    /\ \A i \in DOMAIN v.queue : v.queue[i].msg = "fetch" /\ v.queue[i].result = "ok" => ListIs(v, v.queue[i].list, now)
    /\ Fetching(v) \/ WillFetch(v, "disconnect") \/ ListIs(v, v.listed, now)

ServicesOK(v, now, slack) ==
    /\ ServicesTyped(v) /\ now \subseteq Offers
    /\ Awaited(v) /\ OneFlow(v)
    /\ ~slack => ListsFollow(v, now)

ServicesInv == ServicesOK(sp, linked, loose)

PermTasks == [do : {"delete", "load"}, of : GrantedPrefixes \cup {NoBackend}, list : SUBSET GrantedPrefixes]

PermissionsInv ==
    /\ perm \in [rows : SUBSET GrantedPrefixes, deleting : SUBSET GrantedPrefixes,
                 tasks : SUBSET PermTasks, late : BOOLEAN]
    /\ kept \subseteq GrantedPrefixes
    /\ \A p \in perm.deleting : \E t \in perm.tasks : t.do = "delete" /\ t.of = p
    /\ ~perm.late => perm.rows = kept /\ \A t \in perm.tasks : t.do = "load" => t.list = kept

-----------------------------------------------------------------------------
(* The plugins.                                                            *)

(* A task that is started.                                                 *)
LEMMA StartIs ==
  ASSUME NEW v \in PluginPages, FlowIsTracked(v),
         NEW what \in PageWork, NEW about \in Topics, NEW on \in BOOLEAN
  PROVE  LET n == StartWith(v, what, about, on)
             x == [id |-> v.made + 1, do |-> what, about |-> about, on |-> on, result |-> "none", list |-> {}]
         IN  /\ n \in PluginPages /\ x \in PageTasks /\ FlowIsTracked(n)
             /\ n.tasks = v.tasks \cup {x} /\ n.made = v.made + 1 /\ n.flow = v.flow
             /\ n.dialog = v.dialog /\ n.popup = v.popup /\ n.queue = v.queue /\ n.shown = v.shown
  <1> DEFINE k == v.made + 1
             x == [id |-> k, do |-> what, about |-> about, on |-> on, result |-> "none", list |-> {}]
             n == StartWith(v, what, about, on)
  <1>1. /\ k \in Nat \ {0} /\ v.made < k /\ v.flow \in Nat /\ v.made \in Nat /\ v.flow # k
        /\ v.tasks \in SUBSET PageTasks
    BY DEF PluginPages, FlowIsTracked
  <1>2. k = v.made + 1
    OBVIOUS
  <1> HIDE DEF k
  <1>3. x \in PageTasks
    BY <1>1 DEF PageTasks, PageResults
  <1>4. n = [v EXCEPT !.made = k, !.tasks = @ \cup {x}]
    BY <1>2 DEF StartWith
  <1>5. x.id = k /\ \A t \in v.tasks : t.id \in Nat
    BY <1>1 DEF PageTasks
  <1> HIDE DEF n, x
  <1>6. /\ n \in PluginPages /\ n.tasks = v.tasks \cup {x} /\ n.made = k /\ n.flow = v.flow
        /\ n.dialog = v.dialog /\ n.popup = v.popup /\ n.queue = v.queue /\ n.shown = v.shown
    BY <1>1, <1>3, <1>4 DEF PluginPages
  <1>7. FlowIsTracked(n)
    BY <1>1, <1>6, <1>5 DEF FlowIsTracked
  <1> QED
    BY <1>2, <1>3, <1>6, <1>7 DEF n, x

(* A task that is aborted is the one that is tracked.                      *)
LEMMA AbortIs ==
  ASSUME NEW v \in PluginPages, FlowIsTracked(v)
  PROVE  LET n == Abort(v, v.flow)
         IN  /\ n \in PluginPages /\ FlowIsTracked(n) /\ n.tasks \subseteq v.tasks
             /\ \A t \in v.tasks : t.do \notin {"save", "finalize"} => t \in n.tasks
             /\ n.made = v.made /\ n.flow = v.flow
             /\ n.dialog = v.dialog /\ n.popup = v.popup /\ n.queue = v.queue /\ n.shown = v.shown
  <1> DEFINE n == Abort(v, v.flow)
             rest == {t \in v.tasks : ~(t.id = v.flow /\ t.result = "none")}
  <1>1. n = [v EXCEPT !.tasks = rest]
    BY DEF Abort
  <1>2. rest \subseteq v.tasks /\ \A t \in v.tasks : t.do \notin {"save", "finalize"} => t \in rest
    BY DEF FlowIsTracked
  <1> HIDE DEF rest
  <1>3. /\ n \in PluginPages /\ n.tasks = rest /\ n.made = v.made /\ n.flow = v.flow
        /\ n.dialog = v.dialog /\ n.popup = v.popup /\ n.queue = v.queue /\ n.shown = v.shown
    BY <1>1, <1>2 DEF PluginPages
  <1> HIDE DEF n
  <1>4. FlowIsTracked(n)
    BY <1>2, <1>3 DEF FlowIsTracked
  <1> QED
    BY <1>2, <1>3, <1>4 DEF n

(* replace and abort, for a save or a finalize.                            *)
LEMMA TrackIs ==
  ASSUME NEW v \in PluginPages, FlowIsTracked(v),
         NEW what \in {"save", "finalize"}, NEW about \in Topics
  PROVE  LET n == Track(v, what, about)
         IN  /\ n \in PluginPages /\ FlowIsTracked(n)
             /\ \A t \in v.tasks : t.do \notin {"save", "finalize"} => t \in n.tasks
             /\ \A t \in n.tasks \ v.tasks : t.do = what /\ t.about = about /\ t.result = "none"
             /\ \E t \in n.tasks : t.do = what
             /\ n.dialog = v.dialog /\ n.popup = v.popup /\ n.queue = v.queue /\ n.shown = v.shown
  <1> DEFINE u == Abort(v, v.flow)
             s == StartWith(u, what, about, FALSE)
             n == Track(v, what, about)
             x == [id |-> u.made + 1, do |-> what, about |-> about, on |-> FALSE, result |-> "none", list |-> {}]
  <1>1. /\ u \in PluginPages /\ FlowIsTracked(u) /\ u.tasks \subseteq v.tasks
        /\ \A t \in v.tasks : t.do \notin {"save", "finalize"} => t \in u.tasks
        /\ u.dialog = v.dialog /\ u.popup = v.popup /\ u.queue = v.queue /\ u.shown = v.shown
    BY AbortIs
  <1>2. n = [s EXCEPT !.flow = s.made]
    BY DEF Track, Start
  <1> HIDE DEF u
  <1>3. what \in PageWork
    BY DEF PageWork
  <1>4. /\ s \in PluginPages /\ x \in PageTasks /\ FlowIsTracked(s)
        /\ s.tasks = u.tasks \cup {x} /\ s.made = u.made + 1
        /\ s.dialog = u.dialog /\ s.popup = u.popup /\ s.queue = u.queue /\ s.shown = u.shown
    BY <1>1, <1>3, StartIs, ZenonT(30)
  <1>5. x.id = u.made + 1 /\ x.do = what /\ x.about = about /\ x.result = "none"
    OBVIOUS
  <1> HIDE DEF s, x
  <1>6. /\ n \in PluginPages /\ n.flow = s.made /\ n.made = s.made /\ n.tasks = s.tasks
        /\ n.dialog = s.dialog /\ n.popup = s.popup /\ n.queue = s.queue /\ n.shown = s.shown
    BY <1>2, <1>4 DEF PluginPages
  <1> HIDE DEF n
  <1>7. u.made \in Nat /\ s.made \in Nat /\ \A t \in u.tasks : t.id \in Nat /\ t.id <= u.made
    BY <1>1, <1>4 DEF PluginPages, PageTasks, FlowIsTracked
  <1>8. FlowIsTracked(n)
    BY <1>4, <1>5, <1>6, <1>7 DEF FlowIsTracked
  <1>9. \A t \in n.tasks \ v.tasks : t = x
    BY <1>1, <1>4, <1>6
  <1> QED
    BY <1>1, <1>4, <1>5, <1>6, <1>8, <1>9 DEF n

(* The messages that leave no dialog locked.                               *)
Quit == {"Cancelled", "PopupDismissed", "save", "update", "finalize"}

(* What a message does to the page, whichever it is.                       *)
PageEffect(v, m, n) ==
    /\ n \in PluginPages /\ FlowIsTracked(n) /\ n.queue = v.queue
    /\ n.shown = IF m.msg = "load" /\ m.ok THEN m.list ELSE v.shown
    /\ \A t \in v.tasks : t \in n.tasks \/ (t.do \in {"save", "finalize"} /\ m.msg \in {"Submitted", "init", "PopupDismissed"})
    /\ \A t \in n.tasks \ v.tasks :
        /\ t.result = "none" /\ (t.do = "finalize" => t.about = "mcp")
        /\ t.do = "toggle" <=> m.msg = "ToggleSwitch"
        /\ t.do = "toggle" => t.about = m.plug /\ t.on = m.on
    /\ n.dialog.locked => v.dialog.locked /\ m.msg \notin Quit
    /\ m.msg \in {"Submitted", "init"} /\ n.dialog.locked => \E t \in n.tasks : t.do \in Answers
    /\ n.popup = v.popup \/ n.popup = "none" \/ (n.popup = "open" /\ m.msg = "init")
    /\ m.msg = "init" => n.tasks = v.tasks \/ \E t \in n.tasks : t.do = "finalize"
    /\ m.msg = "init" /\ n.popup # v.popup => \E t \in n.tasks : t.do = "finalize"
    /\ m.msg = "PopupDismissed" => n.popup = "none"
    /\ m.msg = "finalize" /\ m.about = "mcp" => n.popup = "none"
    /\ m.msg = "ToggleSwitch" => \E t \in n.tasks : t.do = "toggle" /\ t.about = m.plug
    /\ m.msg = "toggle" /\ ~m.ok => \E t \in n.tasks : t.do = "load"

(* The tasks that a dialog or a list starts and nobody tracks.             *)
LEMMA StartEffect ==
  ASSUME NEW v \in PluginPages, FlowIsTracked(v), NEW what \in PageWork \ {"toggle", "finalize"}, NEW about \in Topics
  PROVE  LET n == Start(v, what, about)
         IN  /\ n \in PluginPages /\ FlowIsTracked(n) /\ v.tasks \subseteq n.tasks
             /\ \A t \in n.tasks \ v.tasks : t.do = what /\ t.result = "none"
             /\ \E t \in n.tasks : t.do = what
             /\ n.dialog = v.dialog /\ n.popup = v.popup /\ n.queue = v.queue /\ n.shown = v.shown
  <1> DEFINE n == StartWith(v, what, about, FALSE)
             x == [id |-> v.made + 1, do |-> what, about |-> about, on |-> FALSE, result |-> "none", list |-> {}]
  <1>1. /\ n \in PluginPages /\ FlowIsTracked(n) /\ n.tasks = v.tasks \cup {x}
        /\ n.dialog = v.dialog /\ n.popup = v.popup /\ n.queue = v.queue /\ n.shown = v.shown
    BY StartIs
  <1>2. x.do = what /\ x.result = "none"
    OBVIOUS
  <1> HIDE DEF n, x
  <1> QED
    BY <1>1, <1>2 DEF Start, n

(* The dialog and the popup alone.                                         *)
LEMMA DialogMoves ==
  ASSUME NEW v \in PluginPages, FlowIsTracked(v)
  PROVE  /\ \A d \in Dialogs :
              LET n == [v EXCEPT !.dialog = d]
              IN  /\ n \in PluginPages /\ FlowIsTracked(n) /\ n.dialog = d /\ n.popup = v.popup
                  /\ n.queue = v.queue /\ n.tasks = v.tasks /\ n.shown = v.shown
         /\ \A p \in {"none", "open", "dismissed"} :
              LET n == [v EXCEPT !.popup = p]
              IN  /\ n \in PluginPages /\ FlowIsTracked(n) /\ n.dialog = v.dialog /\ n.popup = p
                  /\ n.queue = v.queue /\ n.tasks = v.tasks /\ n.shown = v.shown
         /\ LET n == Unlock(v)
            IN  /\ n \in PluginPages /\ FlowIsTracked(n) /\ ~n.dialog.locked /\ n.popup = v.popup
                /\ n.queue = v.queue /\ n.tasks = v.tasks /\ n.shown = v.shown
         /\ LET n == CloseDialog(v)
            IN  /\ n \in PluginPages /\ FlowIsTracked(n) /\ ~n.dialog.locked /\ n.popup = v.popup
                /\ n.queue = v.queue /\ n.tasks = v.tasks /\ n.shown = v.shown
         /\ LET n == ClosePopup(v)
            IN  /\ n \in PluginPages /\ FlowIsTracked(n) /\ n.dialog = v.dialog /\ n.popup = "none"
                /\ n.queue = v.queue /\ n.tasks = v.tasks /\ n.shown = v.shown
  <1>1. ASSUME NEW d \in Dialogs
        PROVE  LET n == [v EXCEPT !.dialog = d]
               IN  /\ n \in PluginPages /\ FlowIsTracked(n) /\ n.dialog = d /\ n.popup = v.popup
                   /\ n.queue = v.queue /\ n.tasks = v.tasks /\ n.shown = v.shown
    BY DEF PluginPages, FlowIsTracked
  <1>2. ASSUME NEW p \in {"none", "open", "dismissed"}
        PROVE  LET n == [v EXCEPT !.popup = p]
               IN  /\ n \in PluginPages /\ FlowIsTracked(n) /\ n.dialog = v.dialog /\ n.popup = p
                   /\ n.queue = v.queue /\ n.tasks = v.tasks /\ n.shown = v.shown
    BY DEF PluginPages, FlowIsTracked
  <1>3. NoDialog \in Dialogs /\ ~NoDialog.locked
    BY DEF NoDialog, Dialogs
  <1>4. CASE v.dialog = NoDialog
    BY <1>1, <1>2, <1>3, <1>4 DEF Unlock, CloseDialog, ClosePopup
  <1>5. CASE v.dialog # NoDialog
    <2> DEFINE d == [v.dialog EXCEPT !.locked = FALSE]
    <2>1. d \in Dialogs /\ ~d.locked
      BY <1>5 DEF PluginPages, Dialogs
    <2>2. Unlock(v) = [v EXCEPT !.dialog = d]
      BY <1>5 DEF Unlock
    <2> HIDE DEF d
    <2> QED
      BY <1>1, <1>2, <1>3, <2>1, <2>2 DEF CloseDialog, ClosePopup
  <1> QED
    BY <1>1, <1>2, <1>4, <1>5

(* The messages one by one.                                                *)
LEMMA HandleIs ==
  ASSUME NEW v, NEW m \in PageMsgs
  PROVE  /\ m.msg = "Clicked" => Handle(v, m) = [v EXCEPT !.dialog = [kind |-> m.kind, editing |-> m.editing, locked |-> FALSE]]
         /\ m.msg = "Cancelled" => Handle(v, m) = CloseDialog(v)
         /\ m.msg = "Submitted" => Handle(v, m) = Submitted(v, m)
         /\ m.msg = "init" => Handle(v, m) = InitFinished(v, m)
         /\ m.msg \in {"save", "update", "finalize"} => Handle(v, m) = SaveFinished(v, m)
         /\ m.msg = "PopupDismissed" => Handle(v, m) = PopupDismissed(v)
         /\ m.msg = "RemoveClicked" => Handle(v, m) = Start(v, "remove", "all")
         /\ m.msg = "remove" => Handle(v, m) = IF m.ok THEN Start(v, "load", "all") ELSE v
         /\ m.msg = "ToggleSwitch" => Handle(v, m) = StartWith(v, "toggle", m.plug, m.on)
         /\ m.msg = "toggle" => Handle(v, m) = ToggleFinished(v, m)
         /\ m.msg = "load" => Handle(v, m) = IF m.ok THEN [v EXCEPT !.shown = m.list] ELSE v
  BY DEF Handle

(* Whichever message the page takes.                                       *)
LEMMA HandleEffect ==
  ASSUME NEW v \in PluginPages, FlowIsTracked(v), NEW m \in PageMsgs
  PROVE  PageEffect(v, m, Handle(v, m))
  <1> DEFINE n == Handle(v, m)
  <1>1. /\ v.popup \in {"none", "open", "dismissed"} /\ v.tasks \subseteq PageTasks
    BY DEF PluginPages
  <1>11. "all" \in Topics /\ "mcp" \in Topics /\ (\A k \in Kinds : k \in Topics) /\ (\A k \in Plugs : k \in Topics)
    BY DEF Topics, Kinds
  <1>12. LET whats == PageWork \ {"toggle", "finalize"}
         IN  "load" \in whats /\ "remove" \in whats /\ "update" \in whats /\ "init" \in whats
    BY DEF PageWork
  <1>13. "toggle" \in PageWork /\ "save" \in {"save", "finalize"} /\ "finalize" \in {"save", "finalize"}
    BY DEF PageWork
  <1>2. CASE m.msg = "Clicked"
    <2>1. m.kind \in Kinds /\ m.editing \in BOOLEAN
      BY <1>2 DEF PageMsgs, PageWork
    <2> DEFINE d == [kind |-> m.kind, editing |-> m.editing, locked |-> FALSE]
    <2>2. d \in Dialogs /\ ~d.locked
      BY <2>1 DEF Dialogs
    <2>3. n = [v EXCEPT !.dialog = d]
      BY <1>2, HandleIs
    <2> HIDE DEF d, n
    <2>4. /\ n \in PluginPages /\ FlowIsTracked(n) /\ n.dialog = d /\ n.popup = v.popup
          /\ n.queue = v.queue /\ n.tasks = v.tasks /\ n.shown = v.shown
      BY <2>2, <2>3 DEF PluginPages, FlowIsTracked
    <2> QED
      BY <1>2, <2>2, <2>4 DEF PageEffect, n
  <1>3. CASE m.msg = "Cancelled"
    <2>1. n = CloseDialog(v)
      BY <1>3, HandleIs
    <2> HIDE DEF n
    <2>2. /\ n \in PluginPages /\ FlowIsTracked(n) /\ ~n.dialog.locked /\ n.popup = v.popup
          /\ n.queue = v.queue /\ n.tasks = v.tasks /\ n.shown = v.shown
      BY <2>1, DialogMoves
    <2> QED
      BY <1>3, <2>2 DEF PageEffect, n
  <1>4. CASE m.msg = "Submitted"
    <2>1. m.kind \in Kinds /\ m.editing \in BOOLEAN
      BY <1>4 DEF PageMsgs, PageWork
    <2>2. n = Submitted(v, m)
      BY <1>4, HandleIs
    <2>3. n = Start(v, "update", m.kind) \/ n = Start(v, "init", m.kind) \/ n = Track(v, "save", m.kind)
      BY <2>1, <2>2 DEF Submitted
    <2> HIDE DEF n
    <2>4. /\ n \in PluginPages /\ FlowIsTracked(n)
          /\ \A t \in v.tasks : t.do \notin {"save", "finalize"} => t \in n.tasks
          /\ \A t \in n.tasks \ v.tasks : t.do \in {"update", "init", "save"} /\ t.result = "none"
          /\ \E t \in n.tasks : t.do \in {"update", "init", "save"}
          /\ n.dialog = v.dialog /\ n.popup = v.popup /\ n.queue = v.queue /\ n.shown = v.shown
      <3>4. m.kind \in Topics
        BY <1>11, <2>1
      <3>1. CASE n = Start(v, "update", m.kind)
        BY <1>12, <3>4, <3>1, StartEffect
      <3>2. CASE n = Start(v, "init", m.kind)
        BY <1>12, <3>4, <3>2, StartEffect, SMTT(30)
      <3>3. CASE n = Track(v, "save", m.kind)
        BY <1>13, <3>4, <3>3, TrackIs
      <3> QED
        BY <2>3, <3>1, <3>2, <3>3
    <2> QED
      BY <1>4, <2>4 DEF PageEffect, n, Answers, Quit
  <1>5. CASE m.msg = "init"
    <2>1. n = InitFinished(v, m)
      BY <1>5, HandleIs
    <2>2. CASE m.result = "failed"
      <3>1. n = Unlock(v)
        BY <2>1, <2>2 DEF InitFinished
      <3> HIDE DEF n
      <3>2. /\ n \in PluginPages /\ FlowIsTracked(n) /\ ~n.dialog.locked /\ n.popup = v.popup
            /\ n.queue = v.queue /\ n.tasks = v.tasks /\ n.shown = v.shown
        BY <3>1, DialogMoves
      <3> QED
        BY <1>5, <3>2 DEF PageEffect, n
    <2>3. CASE m.result # "failed"
      <3> DEFINE p == IF m.result = "oauth" THEN "open" ELSE v.popup
                 u == [v EXCEPT !.popup = p]
      <3>1. n = Track(u, "finalize", "mcp")
        BY <2>1, <2>3 DEF InitFinished
      <3>2. p \in {"none", "open", "dismissed"} /\ (p = "open" \/ p = v.popup)
        BY <1>1
      <3> HIDE DEF n, p
      <3>3. /\ u \in PluginPages /\ FlowIsTracked(u) /\ u.dialog = v.dialog /\ u.popup = p
            /\ u.queue = v.queue /\ u.tasks = v.tasks /\ u.shown = v.shown
        BY <3>2 DEF PluginPages, FlowIsTracked
      <3> HIDE DEF u
      <3> DEFINE out == Track(u, "finalize", "mcp")
      <3>4. /\ out \in PluginPages /\ FlowIsTracked(out)
            /\ \A t \in u.tasks : t.do \notin {"save", "finalize"} => t \in out.tasks
            /\ \A t \in out.tasks \ u.tasks : t.do = "finalize" /\ t.about = "mcp" /\ t.result = "none"
            /\ \E t \in out.tasks : t.do = "finalize"
            /\ out.dialog = u.dialog /\ out.popup = u.popup /\ out.queue = u.queue /\ out.shown = u.shown
        <4>1. "mcp" \in Topics
          BY <1>11
        <4> QED
          BY <3>3, <4>1, TrackIs
      <3>5. n = out
        BY <3>1
      <3> HIDE DEF out
      <3> QED
        BY <1>5, <3>2, <3>3, <3>4, <3>5 DEF PageEffect, n, Answers, Quit
    <2> QED
      BY <2>2, <2>3
  <1>6. CASE m.msg \in {"save", "update", "finalize"}
    <2> DEFINE u == IF m.about = "mcp" THEN ClosePopup(v) ELSE v
    <2>1. n = IF m.ok THEN Start(CloseDialog(u), "load", "all") ELSE Unlock(u)
      BY <1>6, HandleIs DEF SaveFinished
    <2> HIDE DEF n
    <2>2. /\ u \in PluginPages /\ FlowIsTracked(u)
          /\ u.popup = v.popup \/ u.popup = "none"
          /\ m.about = "mcp" => u.popup = "none"
          /\ u.queue = v.queue /\ u.tasks = v.tasks /\ u.shown = v.shown
      BY DialogMoves
    <2> HIDE DEF u
    <2>3. /\ n \in PluginPages /\ FlowIsTracked(n) /\ v.tasks \subseteq n.tasks
          /\ \A t \in n.tasks \ v.tasks : t.do = "load" /\ t.result = "none"
          /\ ~n.dialog.locked /\ n.popup = u.popup /\ n.queue = v.queue /\ n.shown = v.shown
      <3>1. CASE m.ok
        <4> DEFINE out == CloseDialog(u)
        <4>1. n = Start(out, "load", "all")
          BY <2>1, <3>1
        <4>2. /\ out \in PluginPages /\ FlowIsTracked(out) /\ ~out.dialog.locked /\ out.popup = u.popup
              /\ out.queue = u.queue /\ out.tasks = u.tasks /\ out.shown = u.shown
          BY <2>2, DialogMoves
        <4> HIDE DEF out
        <4> DEFINE x == Start(out, "load", "all")
        <4>3. /\ x \in PluginPages /\ FlowIsTracked(x) /\ out.tasks \subseteq x.tasks
              /\ \A t \in x.tasks \ out.tasks : t.do = "load" /\ t.result = "none"
              /\ x.dialog = out.dialog /\ x.popup = out.popup /\ x.queue = out.queue /\ x.shown = out.shown
          BY <1>11, <1>12, <4>2, StartEffect
        <4> HIDE DEF x
        <4>4. n = x
          BY <4>1 DEF x
        <4> QED
          BY <2>2, <4>2, <4>3, <4>4
      <3>2. CASE ~m.ok
        <4> DEFINE out == Unlock(u)
        <4>1. n = out
          BY <2>1, <3>2
        <4>2. /\ out \in PluginPages /\ FlowIsTracked(out) /\ ~out.dialog.locked /\ out.popup = u.popup
              /\ out.queue = u.queue /\ out.tasks = u.tasks /\ out.shown = u.shown
          BY <2>2, DialogMoves
        <4> HIDE DEF out
        <4> QED
          BY <2>2, <4>1, <4>2
      <3> QED
        BY <3>1, <3>2
    <2> QED
      BY <1>6, <2>2, <2>3 DEF PageEffect, n
  <1>7. CASE m.msg = "PopupDismissed"
    <2> DEFINE u == ClosePopup(v)
               out == Abort(u, u.flow)
               x == [out EXCEPT !.flow = 0]
    <2>1. u.flow = v.flow
      BY DEF ClosePopup, PluginPages
    <2>2. n = Unlock(x)
      BY <1>7, <2>1, HandleIs DEF PopupDismissed
    <2> HIDE DEF n
    <2>3. /\ u \in PluginPages /\ FlowIsTracked(u) /\ u.dialog = v.dialog /\ u.popup = "none"
          /\ u.queue = v.queue /\ u.tasks = v.tasks /\ u.shown = v.shown
      BY DialogMoves
    <2> HIDE DEF u
    <2>4. /\ out \in PluginPages /\ FlowIsTracked(out) /\ out.tasks \subseteq u.tasks
          /\ \A t \in u.tasks : t.do \notin {"save", "finalize"} => t \in out.tasks
          /\ out.popup = u.popup /\ out.queue = u.queue /\ out.shown = u.shown
      BY <2>3, AbortIs
    <2> HIDE DEF out
    <2>5. /\ x \in PluginPages /\ x.flow = 0 /\ x.made = out.made /\ x.tasks = out.tasks
          /\ x.popup = out.popup /\ x.queue = out.queue /\ x.shown = out.shown
      BY <2>4 DEF PluginPages
    <2> HIDE DEF x
    <2>6. FlowIsTracked(x)
      BY <2>4, <2>5 DEF PluginPages, PageTasks, FlowIsTracked
    <2>7. /\ n \in PluginPages /\ FlowIsTracked(n) /\ ~n.dialog.locked /\ n.popup = x.popup
          /\ n.queue = x.queue /\ n.tasks = x.tasks /\ n.shown = x.shown
      BY <2>2, <2>5, <2>6, DialogMoves
    <2> QED
      BY <1>7, <2>3, <2>4, <2>5, <2>7 DEF PageEffect, n
  <1>8. CASE m.msg = "ToggleSwitch"
    <2>1. m.plug \in Plugs /\ m.on \in BOOLEAN
      BY <1>8 DEF PageMsgs, PageWork
    <2> DEFINE p == m.plug
               on == m.on
               x == [id |-> v.made + 1, do |-> "toggle", about |-> p, on |-> on, result |-> "none", list |-> {}]
               out == StartWith(v, "toggle", p, on)
    <2>2. n = out
      BY <1>8, HandleIs
    <2>3. p \in Topics /\ on \in BOOLEAN
      BY <1>11, <2>1
    <2> HIDE DEF p, on
    <2> HIDE DEF n
    <2>6. /\ out \in PluginPages /\ FlowIsTracked(out) /\ out.tasks = v.tasks \cup {x}
          /\ out.dialog = v.dialog /\ out.popup = v.popup /\ out.queue = v.queue /\ out.shown = v.shown
      <3>1. CASE on = TRUE
        <4> DEFINE z == StartWith(v, "toggle", p, TRUE)
                   y == [id |-> v.made + 1, do |-> "toggle", about |-> p, on |-> TRUE, result |-> "none", list |-> {}]
        <4>1. /\ z \in PluginPages /\ FlowIsTracked(z) /\ z.tasks = v.tasks \cup {y}
              /\ z.dialog = v.dialog /\ z.popup = v.popup /\ z.queue = v.queue /\ z.shown = v.shown
          BY <1>13, <2>3, StartIs
        <4>2. z = out /\ y = x
          BY <3>1
        <4> HIDE DEF x, out, y, z
        <4> QED
          BY <4>1, <4>2
      <3>2. CASE on = FALSE
        <4> DEFINE z == StartWith(v, "toggle", p, FALSE)
                   y == [id |-> v.made + 1, do |-> "toggle", about |-> p, on |-> FALSE, result |-> "none", list |-> {}]
        <4>1. /\ z \in PluginPages /\ FlowIsTracked(z) /\ z.tasks = v.tasks \cup {y}
              /\ z.dialog = v.dialog /\ z.popup = v.popup /\ z.queue = v.queue /\ z.shown = v.shown
          BY <1>13, <2>3, StartIs
        <4>2. z = out /\ y = x
          BY <3>2
        <4> HIDE DEF x, out, y, z
        <4> QED
          BY <4>1, <4>2
      <3> QED
        BY <2>3, <3>1, <3>2
    <2> HIDE DEF out
    <2>4. /\ n \in PluginPages /\ FlowIsTracked(n) /\ n.tasks = v.tasks \cup {x}
          /\ n.dialog = v.dialog /\ n.popup = v.popup /\ n.queue = v.queue /\ n.shown = v.shown
      BY <2>2, <2>6
    <2>5. x.do = "toggle" /\ x.about = m.plug /\ x.on = m.on /\ x.result = "none"
      BY DEF p, on
    <2> HIDE DEF x
    <2> QED
      BY <1>8, <2>4, <2>5 DEF PageEffect, n, Quit
  <1>9. CASE m.msg \in {"RemoveClicked", "remove", "toggle"}
    <2>1. \/ n = Start(v, "remove", "all") /\ m.msg # "toggle"
          \/ n = Start(v, "load", "all")
          \/ n = v /\ (m.msg = "toggle" => m.ok)
      BY <1>9, HandleIs DEF ToggleFinished
    <2> HIDE DEF n
    <2>2. /\ n \in PluginPages /\ FlowIsTracked(n) /\ v.tasks \subseteq n.tasks
          /\ \A t \in n.tasks \ v.tasks : t.do \in {"remove", "load"} /\ t.result = "none"
          /\ m.msg = "toggle" /\ ~m.ok => \E t \in n.tasks : t.do = "load"
          /\ n.dialog = v.dialog /\ n.popup = v.popup /\ n.queue = v.queue /\ n.shown = v.shown
      <3>1. CASE n = Start(v, "remove", "all") /\ m.msg # "toggle"
        BY <1>11, <1>12, <3>1, StartEffect
      <3>2. CASE n = Start(v, "load", "all")
        BY <1>11, <1>12, <3>2, StartEffect
      <3>3. CASE n = v /\ (m.msg = "toggle" => m.ok)
        BY <3>3
      <3> QED
        BY <2>1, <3>1, <3>2, <3>3
    <2> QED
      BY <1>9, <2>2 DEF PageEffect, n, Quit
  <1>10. CASE m.msg = "load"
    <2>1. m.list \subseteq Plugs
      BY <1>10 DEF PageMsgs, PageWork
    <2>2. n = IF m.ok THEN [v EXCEPT !.shown = m.list] ELSE v
      BY <1>10, HandleIs
    <2> HIDE DEF n
    <2>3. /\ n \in PluginPages /\ n.flow = v.flow /\ n.made = v.made /\ n.tasks = v.tasks
          /\ n.dialog = v.dialog /\ n.popup = v.popup /\ n.queue = v.queue
          /\ n.shown = IF m.ok THEN m.list ELSE v.shown
      BY <2>1, <2>2 DEF PluginPages
    <2>4. FlowIsTracked(n)
      BY <2>3 DEF FlowIsTracked
    <2> QED
      BY <1>10, <2>3, <2>4 DEF PageEffect, n, Quit
  <1> QED
    BY <1>2, <1>3, <1>4, <1>5, <1>6, <1>7, <1>8, <1>9, <1>10 DEF PageMsgs, PageWork

(* The first message of a queue is taken.                                  *)
LEMMA QueueTail ==
  ASSUME NEW S, NEW q \in Seq(S), q # <<>>
  PROVE  /\ Head(q) \in S /\ Tail(q) \in Seq(S) /\ Head(q) = q[1] /\ 1 \in DOMAIN q
         /\ \A i \in DOMAIN Tail(q) : \E j \in DOMAIN q : j # 1 /\ Tail(q)[i] = q[j]
         /\ \A j \in DOMAIN q : j = 1 \/ \E i \in DOMAIN Tail(q) : Tail(q)[i] = q[j]
  <1>1. /\ Head(q) \in S /\ Tail(q) \in Seq(S) /\ Head(q) = q[1] /\ 1 \in DOMAIN q
        /\ \A i \in DOMAIN Tail(q) : i + 1 \in DOMAIN q /\ i + 1 # 1 /\ Tail(q)[i] = q[i + 1]
        /\ \A j \in DOMAIN q : j = 1 \/ (j - 1 \in DOMAIN Tail(q) /\ Tail(q)[j - 1] = q[j])
    OBVIOUS
  <1> QED
    BY <1>1

(* A message is queued.                                                    *)
LEMMA QueueAppend ==
  ASSUME NEW S, NEW q \in Seq(S), NEW x \in S
  PROVE  /\ Append(q, x) \in Seq(S) /\ Append(q, x) # <<>>
         /\ \A i \in DOMAIN q : i \in DOMAIN Append(q, x) /\ Append(q, x)[i] = q[i]
         /\ \E i \in DOMAIN Append(q, x) : Append(q, x)[i] = x
         /\ \A i \in DOMAIN Append(q, x) : (i \in DOMAIN q /\ Append(q, x)[i] = q[i]) \/ Append(q, x)[i] = x
         /\ Append(q, x)[1] = IF q = <<>> THEN x ELSE q[1]
         /\ q = <<>> => \A i \in DOMAIN Append(q, x) : i = 1
  <1>1. /\ Append(q, x) \in Seq(S) /\ Append(q, x) # <<>>
        /\ \A i \in DOMAIN q : i \in DOMAIN Append(q, x) /\ Append(q, x)[i] = q[i]
        /\ Len(q) + 1 \in DOMAIN Append(q, x) /\ Append(q, x)[Len(q) + 1] = x
        /\ \A i \in DOMAIN Append(q, x) : (i \in DOMAIN q /\ Append(q, x)[i] = q[i]) \/ i = Len(q) + 1
        /\ Append(q, x)[1] = IF q = <<>> THEN x ELSE q[1]
        /\ q = <<>> => \A i \in DOMAIN Append(q, x) : i = 1
    OBVIOUS
  <1> QED
    BY <1>1

(* A message is taken.                                                     *)
LEMMA PageHandles ==
  ASSUME NEW u, NEW s, NEW r, PluginsOK(u, s, r), u.queue # <<>>, NEW more,
         LET m == Head(u.queue)
             n == Handle([u EXCEPT !.queue = Tail(@)], m)
         IN  more = r \cup (IF m.msg = "load" /\ ~m.ok THEN Plugs ELSE {})
                      \cup (IF \E t \in n.tasks \ u.tasks : t.do = "load" THEN Toggles(u) ELSE {})
                      \cup (IF m.msg = "ToggleSwitch" /\ (Loads(u) \/ m.plug \in Toggles(u))
                            THEN {m.plug} ELSE {})
  PROVE  PluginsOK(Handle([u EXCEPT !.queue = Tail(@)], Head(u.queue)), s, more)
  <1> DEFINE m == Head(u.queue)
             v == [u EXCEPT !.queue = Tail(@)]
             n == Handle(v, m)
  <1>1. u \in PluginPages /\ FlowIsTracked(u)
    BY DEF PluginsOK
  <1>2. /\ m \in PageMsgs /\ Tail(u.queue) \in Seq(PageMsgs) /\ m = u.queue[1] /\ 1 \in DOMAIN u.queue
        /\ \A i \in DOMAIN Tail(u.queue) : \E j \in DOMAIN u.queue : j # 1 /\ Tail(u.queue)[i] = u.queue[j]
        /\ \A j \in DOMAIN u.queue : j = 1 \/ \E i \in DOMAIN Tail(u.queue) : Tail(u.queue)[i] = u.queue[j]
    <2>1. u.queue \in Seq(PageMsgs)
      BY <1>1 DEF PluginPages
    <2> QED
      BY <2>1, QueueTail
  <1>3. /\ v \in PluginPages /\ v.queue = Tail(u.queue) /\ v.tasks = u.tasks /\ v.shown = u.shown
        /\ v.dialog = u.dialog /\ v.popup = u.popup /\ v.flow = u.flow /\ v.made = u.made
    BY <1>1, <1>2 DEF PluginPages
  <1>4. more = r \cup (IF m.msg = "load" /\ ~m.ok THEN Plugs ELSE {})
                 \cup (IF \E t \in n.tasks \ u.tasks : t.do = "load" THEN Toggles(u) ELSE {})
                 \cup (IF m.msg = "ToggleSwitch" /\ (Loads(u) \/ m.plug \in Toggles(u))
                       THEN {m.plug} ELSE {})
    OBVIOUS
  <1> HIDE DEF m, v
  <1>5. FlowIsTracked(v)
    BY <1>1, <1>3 DEF FlowIsTracked
  <1>6. PageEffect(v, m, n)
    BY <1>2, <1>3, <1>5, HandleEffect
  <1> HIDE DEF n
  <1>7. /\ \A i \in DOMAIN n.queue : \E j \in DOMAIN u.queue : j # 1 /\ n.queue[i] = u.queue[j]
        /\ \A j \in DOMAIN u.queue : u.queue[j] = m \/ \E i \in DOMAIN n.queue : n.queue[i] = u.queue[j]
    <2>1. n.queue = Tail(u.queue)
      BY <1>3, <1>6 DEF PageEffect
    <2> DEFINE q == Tail(u.queue)
    <2>2. /\ \A i \in DOMAIN q : \E j \in DOMAIN u.queue : j # 1 /\ q[i] = u.queue[j]
          /\ \A j \in DOMAIN u.queue : u.queue[j] = m \/ \E i \in DOMAIN q : q[i] = u.queue[j]
      BY <1>2
    <2> HIDE DEF q
    <2>3. n.queue = q
      BY <2>1 DEF q
    <2> QED
      BY <2>2, <2>3
  <1>8. \A t \in n.tasks \ u.tasks :
          /\ t.result = "none" /\ (t.do = "finalize" => t.about = "mcp")
          /\ t.do = "toggle" <=> m.msg = "ToggleSwitch"
          /\ t.do = "toggle" => t.about = m.plug /\ t.on = m.on
    BY <1>3, <1>6 DEF PageEffect
  <1>9. \A t \in u.tasks : t \in n.tasks \/ (t.do \in {"save", "finalize"} /\ m.msg \in {"Submitted", "init", "PopupDismissed"})
    BY <1>3, <1>6 DEF PageEffect
  <1>10. \A i \in DOMAIN n.queue : n.queue[i].msg \notin {"Submitted", "ToggleSwitch"}
    BY <1>7 DEF PluginsOK, UserComesFirst
  <1>11. TasksFit(n)
    <2>1. m.msg = "ToggleSwitch" => m.plug \in Plugs
      BY <1>2 DEF PageMsgs, PageWork
    <2> QED
      BY <1>7, <1>8, <2>1 DEF PluginsOK, TasksFit
  <1>12. UserComesFirst(n)
    BY <1>10 DEF UserComesFirst
  <1>13. DialogOK(n)
    <2>1. ASSUME n.dialog.locked PROVE Waits(n, Answers)
      <3>1. u.dialog.locked /\ m.msg \notin Quit
        BY <1>3, <1>6, <2>1 DEF PageEffect
      <3>2. CASE m.msg \in {"Submitted", "init"}
        BY <1>6, <2>1, <3>2 DEF PageEffect, Waits
      <3>3. CASE m.msg \notin {"Submitted", "init"}
        <4>1. \A t \in u.tasks : t \in n.tasks
          BY <1>9, <3>1, <3>3 DEF Quit
        <4>2. m.msg \notin Answers \cup {"Submitted", "PopupDismissed"}
          BY <3>1, <3>3 DEF Quit, Answers
        <4>3. Waits(u, Answers)
          BY <3>1 DEF PluginsOK, DialogOK
        <4> QED
          BY <1>7, <4>1, <4>2, <4>3 DEF Waits
      <3> QED
        BY <3>2, <3>3
    <2>2. ASSUME n.popup # "none" PROVE Waits(n, {"finalize"})
      <3>1. CASE n.popup # u.popup
        BY <1>3, <1>6, <2>2, <3>1 DEF PageEffect, Waits
      <3>2. CASE n.popup = u.popup
        <4>1. Waits(u, {"finalize"})
          BY <2>2, <3>2 DEF PluginsOK, DialogOK
        <4>2. m.msg # "Submitted" /\ (m.msg = "finalize" => m.about = "mcp")
          BY <1>2, <2>2, <3>2 DEF PluginsOK, UserComesFirst, TasksFit
        <4>3. m.msg \notin {"PopupDismissed", "finalize"}
          BY <1>6, <2>2, <4>2 DEF PageEffect
        <4>4. (\A t \in u.tasks : t \in n.tasks) \/ \E t \in n.tasks : t.do = "finalize"
          BY <1>3, <1>6, <1>9, <4>2, <4>3 DEF PageEffect
        <4> QED
          BY <1>7, <4>1, <4>2, <4>3, <4>4 DEF Waits
      <3> QED
        BY <3>1, <3>2
    <2> QED
      BY <2>1, <2>2 DEF DialogOK
  <1>14. ASSUME NEW p \in Plugs \ more PROVE SwitchOK(n, s, p)
    <2>1. /\ p \notin r /\ SwitchOK(u, s, p)
          /\ ~(m.msg = "load" /\ ~m.ok)
          /\ (\E t \in n.tasks \ u.tasks : t.do = "load") => p \notin Toggles(u)
          /\ m.msg = "ToggleSwitch" /\ m.plug = p => ~Loads(u) /\ p \notin Toggles(u)
      BY <1>4, <1>14 DEF PluginsOK
    <2>2. \A t \in Toggling(u, p) : p \in Toggles(u)
      BY DEF Toggling, Toggles
    <2>3. Loads(n) => Loads(u) \/ \E t \in n.tasks \ u.tasks : t.do = "load"
      BY <1>7 DEF Loads
    <2>4. Loads(n) => Toggling(n, p) = {}
      <3> SUFFICES ASSUME Loads(n), NEW t \in Toggling(n, p) PROVE FALSE
        OBVIOUS
      <3>1. CASE t \in u.tasks
        <4>1. t \in Toggling(u, p)
          BY <3>1 DEF Toggling
        <4> QED
          BY <2>1, <2>2, <2>3, <4>1 DEF SwitchOK
      <3>2. CASE t \notin u.tasks
        <4>1. m.msg = "ToggleSwitch" /\ m.plug = p
          BY <1>8, <3>2 DEF Toggling
        <4> QED
          BY <1>8, <2>1, <2>3, <4>1
      <3> QED
        BY <3>1, <3>2
    <2>5. \A t \in n.tasks : t.do = "load" /\ t.result = "plain" => (p \in t.list <=> p \in s)
      BY <1>8, <2>1 DEF SwitchOK
    <2>6. \A i \in DOMAIN n.queue : n.queue[i].msg = "load" /\ n.queue[i].ok => (p \in n.queue[i].list <=> p \in s)
      BY <1>7, <2>1 DEF SwitchOK
    <2>7. \/ n.shown = u.shown
          \/ m.msg = "load" /\ m.ok /\ n.shown = m.list /\ Loads(u) /\ (p \in m.list <=> p \in s)
      <3>1. n.shown = IF m.msg = "load" /\ m.ok THEN m.list ELSE u.shown
        BY <1>3, <1>6 DEF PageEffect
      <3>2. m.msg = "load" => Loads(u)
        BY <1>2 DEF Loads
      <3>3. m.msg = "load" /\ m.ok => (p \in m.list <=> p \in s)
        BY <1>2, <2>1 DEF SwitchOK
      <3> QED
        BY <3>1, <3>2, <3>3
    <2>8. ASSUME NEW t \in Toggling(n, p)
          PROVE  (t.on <=> p \in n.shown) /\ (t.result = "plain" => (t.on <=> p \in s))
      <3>1. CASE t \in u.tasks
        <4>1. t \in Toggling(u, p)
          BY <3>1 DEF Toggling
        <4>2. ~BeingSwitched(u, p)
          BY <1>2, <2>1, <2>2, <4>1 DEF BeingSwitched
        <4>3. n.shown = u.shown
          BY <2>1, <2>7, <4>1 DEF SwitchOK
        <4> QED
          BY <2>1, <4>1, <4>2, <4>3 DEF SwitchOK
      <3>2. CASE t \notin u.tasks
        <4>1. m.msg = "ToggleSwitch" /\ m.plug = p /\ t.on = m.on /\ t.result = "none"
          BY <1>8, <3>2 DEF Toggling
        <4>2. m.on <=> p \in u.shown
          BY <1>2, <4>1 DEF PluginsOK, UserComesFirst
        <4> QED
          BY <2>7, <4>1, <4>2
      <3> QED
        BY <3>1, <3>2
    <2>9. \/ p \in n.shown <=> p \in s
          \/ Toggling(n, p) # {}
          \/ Loads(n)
          \/ \E i \in DOMAIN n.queue : n.queue[i].msg = "toggle" /\ ~n.queue[i].ok
      <3>1. CASE BeingSwitched(u, p)
        <4>1. m.msg = "ToggleSwitch" /\ m.plug = p
          BY <1>2, <3>1 DEF BeingSwitched
        <4>2. \E t \in n.tasks : t.do = "toggle" /\ t.about = m.plug
          BY <1>6, <4>1 DEF PageEffect
        <4> QED
          BY <4>1, <4>2 DEF Toggling
      <3>2. CASE ~BeingSwitched(u, p)
        <4>1. \/ p \in u.shown <=> p \in s
              \/ Toggling(u, p) # {}
              \/ Loads(u)
              \/ \E i \in DOMAIN u.queue : u.queue[i].msg = "toggle" /\ ~u.queue[i].ok
          BY <2>1, <3>2 DEF SwitchOK
        <4>2. CASE p \in u.shown <=> p \in s
          BY <2>7, <4>2
        <4>3. CASE Toggling(u, p) # {}
          BY <1>9, <4>3 DEF Toggling
        <4>4. CASE Loads(u)
          <5>1. CASE \E t \in u.tasks : t.do = "load"
            BY <1>9, <5>1 DEF Loads
          <5>2. CASE \E i \in DOMAIN u.queue : u.queue[i].msg = "load"
            <6>1. m.msg = "load" \/ Loads(n)
              BY <1>7, <5>2 DEF Loads
            <6>2. m.msg = "load" => (p \in n.shown <=> p \in s)
              <7>1. m.msg = "load" => m.ok /\ (p \in m.list <=> p \in s)
                BY <1>2, <2>1 DEF SwitchOK
              <7>2. n.shown = IF m.msg = "load" /\ m.ok THEN m.list ELSE u.shown
                BY <1>3, <1>6 DEF PageEffect
              <7> QED
                BY <7>1, <7>2
            <6> QED
              BY <6>1, <6>2
          <5> QED
            BY <4>4, <5>1, <5>2 DEF Loads
        <4>5. CASE \E i \in DOMAIN u.queue : u.queue[i].msg = "toggle" /\ ~u.queue[i].ok
          <5>1. CASE m.msg = "toggle" /\ ~m.ok
            BY <1>6, <5>1 DEF PageEffect, Loads
          <5>2. CASE ~(m.msg = "toggle" /\ ~m.ok)
            BY <1>7, <4>5, <5>2
          <5> QED
            BY <5>1, <5>2
        <4> QED
          BY <4>1, <4>2, <4>3, <4>4, <4>5
      <3> QED
        BY <3>1, <3>2
    <2> QED
      BY <2>4, <2>5, <2>6, <2>8, <2>9 DEF SwitchOK
  <1>15. n \in PluginPages /\ FlowIsTracked(n)
    BY <1>6 DEF PageEffect
  <1> QED
    BY <1>11, <1>12, <1>13, <1>14, <1>15 DEF PluginsOK, n, v, m

(* A task has done its work.                                               *)
LEMMA PageTaskEnds ==
  ASSUME NEW u, NEW s, NEW r, PluginsOK(u, s, r),
         NEW t \in u.tasks, t.result = "none",
         NEW result \in {"plain", "failed", "oauth"}, result = "oauth" => t.do = "init",
         NEW s2, s2 = IF t.do = "toggle" /\ result = "plain"
                      THEN IF t.on THEN s \cup {t.about} ELSE s \ {t.about}
                      ELSE s,
         s2 \subseteq Plugs
  PROVE  PluginsOK([u EXCEPT !.tasks = (@ \ {t}) \cup {[t EXCEPT !.result = result,
                                                                  !.list = IF t.do = "load" THEN s ELSE {}]}], s2, r)
  <1> DEFINE list == IF t.do = "load" THEN s ELSE {}
             t2 == [t EXCEPT !.result = result, !.list = list]
             n == [u EXCEPT !.tasks = (@ \ {t}) \cup {t2}]
  <1>1. u \in PluginPages /\ FlowIsTracked(u) /\ s \subseteq Plugs
    BY DEF PluginsOK
  <1>2. t \in PageTasks /\ list \in SUBSET Plugs
    BY <1>1 DEF PluginPages
  <1>3. t.do = "load" => list = s
    OBVIOUS
  <1> HIDE DEF list
  <1>4. /\ t2 \in PageTasks /\ t2.id = t.id /\ t2.do = t.do /\ t2.about = t.about /\ t2.on = t.on
        /\ t2.result = result /\ t2.list = list
    BY <1>2 DEF PageTasks, PageResults
  <1> HIDE DEF t2
  <1>5. /\ n \in PluginPages /\ n.tasks = (u.tasks \ {t}) \cup {t2} /\ n.queue = u.queue /\ n.shown = u.shown
        /\ n.dialog = u.dialog /\ n.popup = u.popup /\ n.flow = u.flow /\ n.made = u.made
    BY <1>1, <1>4 DEF PluginPages
  <1> HIDE DEF n
  <1>6. FlowIsTracked(n)
    BY <1>1, <1>4, <1>5 DEF FlowIsTracked
  <1>7. TasksFit(n)
    BY <1>4, <1>5 DEF PluginsOK, TasksFit
  <1>8. UserComesFirst(n)
    BY <1>5 DEF PluginsOK, UserComesFirst
  <1>9. DialogOK(n)
    BY <1>4, <1>5 DEF PluginsOK, DialogOK, Waits
  <1>10. ASSUME NEW p \in Plugs \ r PROVE SwitchOK(n, s2, p)
    <2>1. SwitchOK(u, s, p)
      BY <1>10 DEF PluginsOK
    <2>2. Loads(n) <=> Loads(u)
      BY <1>4, <1>5 DEF Loads
    <2>3. BeingSwitched(n, p) <=> BeingSwitched(u, p)
      BY <1>5 DEF BeingSwitched
    <2>4. \A x \in Toggling(n, p) : x \in Toggling(u, p) \/ (x = t2 /\ t \in Toggling(u, p))
      BY <1>4, <1>5 DEF Toggling
    <2>5. Toggling(u, p) # {} => Toggling(n, p) # {}
      BY <1>4, <1>5 DEF Toggling
    <2>6. Loads(n) => Toggling(n, p) = {}
      BY <2>1, <2>2, <2>4 DEF SwitchOK
    <2>7. (p \in s2 <=> p \in s) \/ (t \in Toggling(u, p) /\ (p \in s2 <=> t.on))
      BY DEF Toggling
    <2>8. Loads(u) => (p \in s2 <=> p \in s)
      BY <2>1, <2>7 DEF SwitchOK
    <2>9. \A x \in n.tasks : x.do = "load" /\ x.result = "plain" => (p \in x.list <=> p \in s2)
      <3> SUFFICES ASSUME NEW x \in n.tasks, x.do = "load", x.result = "plain"
                   PROVE  p \in x.list <=> p \in s2
        OBVIOUS
      <3>1. x \in u.tasks \/ x = t2
        BY <1>5
      <3>2. CASE x \in u.tasks
        <4>1. Loads(u)
          BY <3>2 DEF Loads
        <4> QED
          BY <2>1, <2>8, <3>2, <4>1 DEF SwitchOK
      <3>3. CASE x = t2
        BY <1>3, <1>4, <3>3
      <3> QED
        BY <3>1, <3>2, <3>3
    <2>10. \A i \in DOMAIN n.queue : n.queue[i].msg = "load" /\ n.queue[i].ok => (p \in n.queue[i].list <=> p \in s2)
      <3> SUFFICES ASSUME NEW i \in DOMAIN n.queue, n.queue[i].msg = "load", n.queue[i].ok
                   PROVE  p \in n.queue[i].list <=> p \in s2
        OBVIOUS
      <3>1. Loads(u)
        BY <1>5 DEF Loads
      <3> QED
        BY <1>5, <2>1, <2>8, <3>1 DEF SwitchOK
    <2>11. ASSUME ~BeingSwitched(n, p)
           PROVE  /\ \A x \in Toggling(n, p) : /\ x.on <=> p \in n.shown
                                               /\ x.result = "plain" => (x.on <=> p \in s2)
                  /\ \/ p \in n.shown <=> p \in s2
                     \/ Toggling(n, p) # {}
                     \/ Loads(n)
                     \/ \E i \in DOMAIN n.queue : n.queue[i].msg = "toggle" /\ ~n.queue[i].ok
      <3>1. /\ \A x \in Toggling(u, p) : /\ x.on <=> p \in u.shown
                                         /\ x.result = "plain" => (x.on <=> p \in s)
            /\ \/ p \in u.shown <=> p \in s
               \/ Toggling(u, p) # {}
               \/ Loads(u)
               \/ \E i \in DOMAIN u.queue : u.queue[i].msg = "toggle" /\ ~u.queue[i].ok
        BY <2>1, <2>3, <2>11 DEF SwitchOK
      <3>2. ASSUME NEW x \in Toggling(n, p)
            PROVE  (x.on <=> p \in n.shown) /\ (x.result = "plain" => (x.on <=> p \in s2))
        <4>1. x.on <=> p \in u.shown
          BY <1>4, <2>4, <3>1
        <4>2. CASE x = t2 /\ t \in Toggling(u, p)
          <5>1. t.do = "toggle" /\ t.about = p
            BY <4>2 DEF Toggling
          <5>2. result = "plain" => (p \in s2 <=> t.on)
            BY <5>1
          <5> QED
            BY <1>4, <1>5, <4>1, <4>2, <5>2
        <4>3. CASE x \in Toggling(u, p)
          BY <1>5, <2>7, <3>1, <4>3
        <4> QED
          BY <2>4, <4>2, <4>3
      <3>3. \/ p \in n.shown <=> p \in s2
            \/ Toggling(n, p) # {}
            \/ Loads(n)
            \/ \E i \in DOMAIN n.queue : n.queue[i].msg = "toggle" /\ ~n.queue[i].ok
        <4>1. CASE t \in Toggling(u, p)
          BY <2>5, <4>1
        <4>2. CASE t \notin Toggling(u, p)
          BY <1>5, <2>2, <2>5, <2>7, <3>1, <4>2
        <4> QED
          BY <4>1, <4>2
      <3> QED
        BY <3>2, <3>3
    <2> QED
      BY <2>6, <2>9, <2>10, <2>11 DEF SwitchOK
  <1> QED
    BY <1>1, <1>5, <1>6, <1>7, <1>8, <1>9, <1>10 DEF PluginsOK, n, t2, list

(* A task reports.                                                         *)
LEMMA PageTaskReports ==
  ASSUME NEW u, NEW s, NEW r, PluginsOK(u, s, r), NEW t \in u.tasks, t.result # "none"
  PROVE  PluginsOK(Told([u EXCEPT !.tasks = @ \ {t}],
                        [msg |-> t.do, about |-> t.about, ok |-> t.result # "failed",
                         result |-> t.result, list |-> t.list]), s, r)
  <1> DEFINE m == [msg |-> t.do, about |-> t.about, ok |-> t.result # "failed",
                   result |-> t.result, list |-> t.list]
             out == [u EXCEPT !.tasks = @ \ {t}]
             n == Told(out, m)
  <1>1. u \in PluginPages /\ FlowIsTracked(u) /\ s \subseteq Plugs
    BY DEF PluginsOK
  <1>2. t \in PageTasks /\ u.queue \in Seq(PageMsgs)
    BY <1>1 DEF PluginPages
  <1>3. m \in PageMsgs
    <2>1. m \in [msg : PageWork, about : Topics, ok : BOOLEAN, result : PageResults, list : SUBSET Plugs]
      BY <1>2 DEF PageTasks
    <2> QED
      BY <2>1 DEF PageMsgs
  <1>4. /\ m.msg = t.do /\ m.about = t.about /\ (m.ok <=> t.result # "failed") /\ m.list = t.list
        /\ m.msg \in PageWork
    BY <1>2 DEF PageTasks
  <1> HIDE DEF m
  <1> DEFINE q == Append(u.queue, m)
  <1>5. /\ q \in Seq(PageMsgs) /\ q # <<>>
        /\ \A i \in DOMAIN u.queue : i \in DOMAIN q /\ q[i] = u.queue[i]
        /\ \E i \in DOMAIN q : q[i] = m
        /\ \A i \in DOMAIN q : (i \in DOMAIN u.queue /\ q[i] = u.queue[i]) \/ q[i] = m
        /\ q[1] = IF u.queue = <<>> THEN m ELSE u.queue[1]
    BY <1>2, <1>3, QueueAppend
  <1>6. n = [u EXCEPT !.tasks = @ \ {t}, !.queue = q]
    BY <1>1 DEF Told, PluginPages
  <1> HIDE DEF q, n
  <1>7. /\ n \in PluginPages /\ n.tasks = u.tasks \ {t} /\ n.queue = q /\ n.shown = u.shown
        /\ n.dialog = u.dialog /\ n.popup = u.popup /\ n.flow = u.flow /\ n.made = u.made
    BY <1>1, <1>5, <1>6 DEF PluginPages
  <1>8. FlowIsTracked(n)
    BY <1>1, <1>7 DEF FlowIsTracked
  <1>9. TasksFit(n)
    BY <1>4, <1>5, <1>7 DEF PluginsOK, TasksFit
  <1>10. UserComesFirst(n)
    BY <1>4, <1>5, <1>7 DEF PluginsOK, UserComesFirst, PageWork
  <1>11. DialogOK(n)
    BY <1>4, <1>5, <1>7 DEF PluginsOK, DialogOK, Waits
  <1>12. ASSUME NEW p \in Plugs \ r PROVE SwitchOK(n, s, p)
    <2>1. SwitchOK(u, s, p)
      BY <1>12 DEF PluginsOK
    <2>2. Loads(n) <=> Loads(u)
      BY <1>4, <1>5, <1>7 DEF Loads
    <2>3. BeingSwitched(n, p) <=> BeingSwitched(u, p)
      BY <1>4, <1>5, <1>7 DEF BeingSwitched, PageWork
    <2>4. Toggling(n, p) = Toggling(u, p) \ {t}
      BY <1>7 DEF Toggling
    <2>5. t.do \in {"load", "toggle"} => t.result \in {"plain", "failed"}
      BY <1>2 DEF PluginsOK, TasksFit, PageTasks, PageResults
    <2>6. \A x \in n.tasks : x.do = "load" /\ x.result = "plain" => (p \in x.list <=> p \in s)
      BY <1>7, <2>1 DEF SwitchOK
    <2>7. t.do = "load" /\ t.result # "failed" => (p \in m.list <=> p \in s)
      BY <1>4, <2>1, <2>5 DEF SwitchOK
    <2>8. \A i \in DOMAIN n.queue : n.queue[i].msg = "load" /\ n.queue[i].ok => (p \in n.queue[i].list <=> p \in s)
      BY <1>4, <1>5, <1>7, <2>1, <2>7 DEF SwitchOK
    <2>9. ASSUME ~BeingSwitched(n, p)
          PROVE  /\ \A x \in Toggling(n, p) : /\ x.on <=> p \in n.shown
                                              /\ x.result = "plain" => (x.on <=> p \in s)
                 /\ \/ p \in n.shown <=> p \in s
                    \/ Toggling(n, p) # {}
                    \/ Loads(n)
                    \/ \E i \in DOMAIN n.queue : n.queue[i].msg = "toggle" /\ ~n.queue[i].ok
      <3>1. /\ \A x \in Toggling(u, p) : /\ x.on <=> p \in u.shown
                                         /\ x.result = "plain" => (x.on <=> p \in s)
            /\ \/ p \in u.shown <=> p \in s
               \/ Toggling(u, p) # {}
               \/ Loads(u)
               \/ \E i \in DOMAIN u.queue : u.queue[i].msg = "toggle" /\ ~u.queue[i].ok
        BY <2>1, <2>3, <2>9 DEF SwitchOK
      <3>2. t \in Toggling(u, p) => \/ p \in n.shown <=> p \in s
                                    \/ \E i \in DOMAIN n.queue : n.queue[i].msg = "toggle" /\ ~n.queue[i].ok
        BY <1>4, <1>5, <1>7, <2>5, <3>1 DEF Toggling
      <3>3. (\E i \in DOMAIN u.queue : u.queue[i].msg = "toggle" /\ ~u.queue[i].ok)
              => \E i \in DOMAIN n.queue : n.queue[i].msg = "toggle" /\ ~n.queue[i].ok
        BY <1>5, <1>7
      <3> QED
        BY <1>7, <2>2, <2>4, <3>1, <3>2, <3>3
    <2> QED
      BY <2>1, <2>2, <2>4, <2>6, <2>8, <2>9 DEF SwitchOK
  <1> QED
    BY <1>1, <1>7, <1>8, <1>9, <1>10, <1>11, <1>12 DEF PluginsOK, n, m

(* The user acts on an empty queue.                                        *)
LEMMA PageClicked ==
  ASSUME NEW u, NEW s, NEW r, PluginsOK(u, s, r), u.queue = <<>>,
         NEW out \in PluginPages, out.flow = u.flow, out.made = u.made, out.tasks = u.tasks, out.queue = <<>>,
         NEW m \in PageMsgs, m.msg \notin PageWork,
         m.msg = "Submitted" => out.popup = "none",
         m.msg = "ToggleSwitch" => (m.on <=> m.plug \in out.shown),
         out.dialog.locked => u.dialog.locked \/ m.msg = "Submitted",
         out.popup # "none" => u.popup # "none",
         \A p \in Plugs : (p \in out.shown <=> p \in u.shown) \/ (m.msg = "ToggleSwitch" /\ m.plug = p)
  PROVE  PluginsOK(Told(out, m), s, r)
  <1> DEFINE q == Append(out.queue, m)
             n == Told(out, m)
  <1>1. u \in PluginPages /\ FlowIsTracked(u) /\ s \subseteq Plugs
    BY DEF PluginsOK
  <1>2. q \in Seq(PageMsgs) /\ q # <<>> /\ 1 \in DOMAIN q /\ q[1] = m /\ \A i \in DOMAIN q : i = 1
    <2>1. out.queue \in Seq(PageMsgs)
      BY DEF PluginPages
    <2> QED
      BY <2>1
  <1> HIDE DEF q
  <1>3. n = [out EXCEPT !.queue = q]
    BY DEF Told, q
  <1>4. /\ n \in PluginPages /\ n.tasks = u.tasks /\ n.queue = q /\ n.shown = out.shown
        /\ n.dialog = out.dialog /\ n.popup = out.popup /\ n.flow = u.flow /\ n.made = u.made
    BY <1>2, <1>3 DEF PluginPages
  <1> HIDE DEF n
  <1>5. FlowIsTracked(n)
    BY <1>1, <1>4 DEF FlowIsTracked
  <1>6. DOMAIN u.queue = {}
    OBVIOUS
  <1>7. TasksFit(n)
    BY <1>2, <1>4 DEF PluginsOK, TasksFit, PageWork
  <1>8. UserComesFirst(n)
    BY <1>2, <1>4 DEF UserComesFirst
  <1>9. DialogOK(n)
    <2>1. n.dialog.locked => Waits(n, Answers)
      <3>1. m.msg = "Submitted" => Waits(n, Answers)
        BY <1>2, <1>4 DEF Waits
      <3>2. u.dialog.locked => Waits(n, Answers)
        BY <1>4, <1>6 DEF PluginsOK, DialogOK, Waits
      <3> QED
        BY <1>4, <3>1, <3>2
    <2>2. n.popup # "none" => Waits(n, {"finalize"})
      BY <1>4, <1>6 DEF PluginsOK, DialogOK, Waits
    <2> QED
      BY <2>1, <2>2 DEF DialogOK
  <1>10. ASSUME NEW p \in Plugs \ r PROVE SwitchOK(n, s, p)
    <2>1. SwitchOK(u, s, p) /\ ~BeingSwitched(u, p)
      BY <1>10 DEF PluginsOK, BeingSwitched
    <2>2. (Loads(n) <=> Loads(u)) /\ Toggling(n, p) = Toggling(u, p)
      BY <1>2, <1>4, <1>6 DEF Loads, Toggling, PageWork
    <2>3. BeingSwitched(n, p) \/ (p \in n.shown <=> p \in u.shown)
      BY <1>2, <1>4, <1>10 DEF BeingSwitched
    <2>4. \A i \in DOMAIN n.queue : n.queue[i].msg # "load"
      BY <1>2, <1>4 DEF PageWork
    <2> QED
      BY <1>4, <1>6, <2>1, <2>2, <2>3, <2>4 DEF SwitchOK
  <1> QED
    BY <1>1, <1>4, <1>5, <1>7, <1>8, <1>9, <1>10 DEF PluginsOK, n

(* The list is loaded again.                                               *)
LEMMA PageRefreshed ==
  ASSUME NEW u, NEW s, NEW r, PluginsOK(u, s, r), u.queue = <<>>
  PROVE  PluginsOK(Start(u, "load", "all"), s, r \cup Toggles(u))
  <1> DEFINE n == Start(u, "load", "all")
  <1>1. u \in PluginPages /\ FlowIsTracked(u) /\ s \subseteq Plugs
    BY DEF PluginsOK
  <1>2. "load" \in PageWork \ {"toggle", "finalize"} /\ "all" \in Topics
    BY DEF PageWork, Topics
  <1>3. /\ n \in PluginPages /\ FlowIsTracked(n) /\ u.tasks \subseteq n.tasks
        /\ \A t \in n.tasks \ u.tasks : t.do = "load" /\ t.result = "none"
        /\ \E t \in n.tasks : t.do = "load"
        /\ n.dialog = u.dialog /\ n.popup = u.popup /\ n.queue = u.queue /\ n.shown = u.shown
    BY <1>1, <1>2, StartEffect
  <1> HIDE DEF n
  <1>4. DOMAIN u.queue = {}
    OBVIOUS
  <1>5. TasksFit(n) /\ UserComesFirst(n) /\ DialogOK(n)
    BY <1>3, <1>4 DEF PluginsOK, TasksFit, UserComesFirst, DialogOK, Waits
  <1>6. ASSUME NEW p \in Plugs \ (r \cup Toggles(u)) PROVE SwitchOK(n, s, p)
    <2>1. SwitchOK(u, s, p) /\ Toggling(u, p) = {}
      BY <1>6 DEF PluginsOK, Toggles, Toggling
    <2>2. Toggling(n, p) = {} /\ Loads(n)
      BY <1>3, <2>1 DEF Toggling, Loads
    <2> QED
      BY <1>3, <1>4, <2>1, <2>2 DEF SwitchOK
  <1> QED
    BY <1>1, <1>3, <1>5, <1>6 DEF PluginsOK, n

(* The page as it is opened.                                               *)
LEMMA PluginsInit == PageInit => PluginsInv
  <1> SUFFICES ASSUME PageInit PROVE PluginsInv
    OBVIOUS
  <1> DEFINE d == [kind |-> "none", editing |-> FALSE, locked |-> FALSE]
  <1>1. /\ pg = [dialog |-> d, popup |-> "none", flow |-> 0, made |-> 0,
                 queue |-> <<>>, tasks |-> {}, shown |-> Plugs]
        /\ saved = Plugs /\ raced = {}
    BY DEF PageInit, PageRest, NoDialog
  <1>2. d \in Dialogs /\ ~d.locked
    BY DEF Dialogs, NoDialog
  <1> HIDE DEF d
  <1>3. pg \in PluginPages /\ FlowIsTracked(pg) /\ DOMAIN pg.queue = {} /\ pg.tasks = {}
    BY <1>1, <1>2 DEF PluginPages, FlowIsTracked
  <1>4. ~pg.dialog.locked /\ pg.popup = "none" /\ pg.shown = Plugs
    BY <1>1, <1>2
  <1>5. TasksFit(pg) /\ UserComesFirst(pg) /\ DialogOK(pg)
    BY <1>3, <1>4 DEF TasksFit, UserComesFirst, DialogOK
  <1>6. ASSUME NEW p \in Plugs PROVE SwitchOK(pg, saved, p)
    BY <1>1, <1>3, <1>4 DEF SwitchOK, Toggling, Loads
  <1> QED
    BY <1>1, <1>3, <1>5, <1>6 DEF PluginsInv, PluginsOK

(* The page goes on.                                                       *)
LEMMA PluginsNext == PluginsInv /\ [PageNext]_pageVars => PluginsInv'
  <1> SUFFICES ASSUME PluginsInv, [PageNext]_pageVars PROVE PluginsInv'
    OBVIOUS
  <1>1. PluginsOK(pg, saved, raced) /\ pg \in PluginPages /\ saved \subseteq Plugs
    BY DEF PluginsInv, PluginsOK
  <1>2. /\ pg.dialog \in Dialogs
        /\ pg.popup \in {"none", "open", "dismissed"}
        /\ ~NoDialog.locked
    BY <1>1 DEF PluginPages, NoDialog
  <1>3. CASE HandlePage
    <2> DEFINE m == Head(pg.queue)
               n == Handle([pg EXCEPT !.queue = Tail(@)], m)
               more == raced \cup (IF m.msg = "load" /\ ~m.ok THEN Plugs ELSE {})
                             \cup (IF \E t \in n.tasks \ pg.tasks : t.do = "load" THEN Toggles(pg) ELSE {})
                             \cup (IF m.msg = "ToggleSwitch" /\ (Loads(pg) \/ m.plug \in Toggles(pg))
                                   THEN {m.plug} ELSE {})
    <2>1. pg.queue # <<>> /\ pg' = n /\ raced' = more /\ saved' = saved
      BY <1>3 DEF HandlePage
    <2>2. PluginsOK(n, saved, more)
      BY <1>1, <2>1, PageHandles
    <2> HIDE DEF n, more
    <2> QED
      BY <2>1, <2>2 DEF PluginsInv
  <1>4. ASSUME NEW t \in pg.tasks, TaskReports(t) PROVE PluginsInv'
    <2> DEFINE n == Told([pg EXCEPT !.tasks = @ \ {t}],
                         [msg |-> t.do, about |-> t.about, ok |-> t.result # "failed",
                          result |-> t.result, list |-> t.list])
    <2>1. t.result # "none" /\ pg' = n /\ raced' = raced /\ saved' = saved
      BY <1>4 DEF TaskReports
    <2>2. PluginsOK(n, saved, raced)
      BY <1>1, <2>1, PageTaskReports
    <2> HIDE DEF n
    <2> QED
      BY <2>1, <2>2 DEF PluginsInv
  <1>5. ASSUME NEW t \in pg.tasks, NEW result \in {"plain", "failed", "oauth"}, result = "oauth" => t.do = "init",
               t.result = "none", Ends(t, result), raced' = raced,
               saved' = IF t.do = "toggle" /\ result = "plain"
                        THEN IF t.on THEN saved \cup {t.about} ELSE saved \ {t.about}
                        ELSE saved
        PROVE  PluginsInv'
    <2> DEFINE n == [pg EXCEPT !.tasks = (@ \ {t}) \cup {[t EXCEPT !.result = result,
                                                                   !.list = IF t.do = "load" THEN saved ELSE {}]}]
    <2>1. pg' = n
      BY <1>5 DEF Ends
    <2>2. t.do = "toggle" => t.about \in Plugs
      BY <1>1, <1>5 DEF PluginsOK, TasksFit
    <2>3. saved' \subseteq Plugs
      BY <1>1, <1>5, <2>2
    <2>4. PluginsOK(n, saved', raced)
      BY <1>1, <1>5, <2>3, PageTaskEnds
    <2> HIDE DEF n
    <2> QED
      BY <1>5, <2>1, <2>4 DEF PluginsInv
  <1>6. ASSUME NEW t \in pg.tasks, NeedsAuthorization(t) PROVE PluginsInv'
    BY <1>5, <1>6 DEF NeedsAuthorization
  <1>7. ASSUME NEW t \in pg.tasks, NEW ok \in BOOLEAN, TaskWorks(t, ok) PROVE PluginsInv'
    <2>1. CASE ok
      <3>1. /\ t.result = "none" /\ Ends(t, "plain") /\ raced' = raced
            /\ saved' = IF t.do = "toggle" /\ "plain" = "plain"
                        THEN IF t.on THEN saved \cup {t.about} ELSE saved \ {t.about}
                        ELSE saved
        BY <1>7, <2>1 DEF TaskWorks
      <3> QED
        BY <1>5, <3>1
    <2>2. CASE ~ok
      <3>1. t.result = "none" /\ Ends(t, "failed") /\ raced' = raced /\ saved' = saved
        BY <1>7, <2>2 DEF TaskWorks
      <3> QED
        BY <1>5, <3>1
    <2> QED
      BY <2>1, <2>2
  <1>8. ASSUME NEW kind \in Kinds, NEW editing \in BOOLEAN, OpenDialog(kind, editing) PROVE PluginsInv'
    <2> DEFINE m == [msg |-> "Clicked", kind |-> kind, editing |-> editing]
    <2>1. m \in PageMsgs /\ m.msg = "Clicked" /\ m.msg \notin PageWork
      BY DEF PageMsgs, PageWork
    <2>2. pg.queue = <<>> /\ pg' = Told(pg, m) /\ saved' = saved /\ raced' = raced
      BY <1>8 DEF OpenDialog, Click, MayClick
    <2> HIDE DEF m
    <2>3. PluginsOK(Told(pg, m), saved, raced)
      BY <1>1, <2>1, <2>2, PageClicked
    <2> QED
      BY <2>2, <2>3 DEF PluginsInv
  <1>9. CASE Submit
    <2> DEFINE d == [pg.dialog EXCEPT !.locked = TRUE]
               v == [pg EXCEPT !.dialog = d]
               m == [msg |-> "Submitted", kind |-> pg.dialog.kind, editing |-> pg.dialog.editing]
    <2>1. pg.queue = <<>> /\ pg' = Told(v, m) /\ saved' = saved /\ raced' = raced /\ pg.popup = "none" /\ pg.dialog # NoDialog
      BY <1>9 DEF Submit, Click, MayClick
    <2>2. m \in PageMsgs /\ m.msg = "Submitted" /\ m.msg \notin PageWork
      BY <1>2, <2>1 DEF Dialogs, PageMsgs, PageWork
    <2>3. d \in Dialogs
      BY <1>2, <2>1 DEF Dialogs
    <2> HIDE DEF d, m
    <2>4. /\ v \in PluginPages /\ v.flow = pg.flow /\ v.made = pg.made /\ v.tasks = pg.tasks
          /\ v.queue = pg.queue /\ v.popup = pg.popup /\ v.shown = pg.shown
      BY <1>1, <2>3 DEF PluginPages
    <2> HIDE DEF v
    <2>5. PluginsOK(Told(v, m), saved, raced)
      BY <1>1, <2>1, <2>2, <2>4, PageClicked
    <2> QED
      BY <2>1, <2>5 DEF PluginsInv
  <1>10. CASE CancelDialog
    <2> DEFINE m == [msg |-> "Cancelled"]
    <2>1. m \in PageMsgs /\ m.msg = "Cancelled" /\ m.msg \notin PageWork
      BY DEF PageMsgs, PageWork
    <2>2. pg.queue = <<>> /\ pg' = Told(pg, m) /\ saved' = saved /\ raced' = raced
      BY <1>10 DEF CancelDialog, Click, MayClick
    <2> HIDE DEF m
    <2>3. PluginsOK(Told(pg, m), saved, raced)
      BY <1>1, <2>1, <2>2, PageClicked
    <2> QED
      BY <2>2, <2>3 DEF PluginsInv
  <1>11. CASE DismissPopup
    <2> DEFINE v == [pg EXCEPT !.popup = "dismissed"]
               m == [msg |-> "PopupDismissed"]
    <2>1. m \in PageMsgs /\ m.msg = "PopupDismissed" /\ m.msg \notin PageWork
      BY DEF PageMsgs, PageWork
    <2>2. pg.queue = <<>> /\ pg' = Told(v, m) /\ saved' = saved /\ raced' = raced /\ pg.popup = "open"
      BY <1>11 DEF DismissPopup, Click, MayClick
    <2>3. /\ v \in PluginPages /\ v.flow = pg.flow /\ v.made = pg.made /\ v.tasks = pg.tasks
          /\ v.queue = pg.queue /\ v.dialog = pg.dialog /\ v.shown = pg.shown
      BY <1>1 DEF PluginPages
    <2> HIDE DEF v, m
    <2>4. PluginsOK(Told(v, m), saved, raced)
      BY <1>1, <2>1, <2>2, <2>3, PageClicked
    <2> QED
      BY <2>2, <2>4 DEF PluginsInv
  <1>12. CASE RemovePlugin
    <2> DEFINE m == [msg |-> "RemoveClicked"]
    <2>1. m \in PageMsgs /\ m.msg = "RemoveClicked" /\ m.msg \notin PageWork
      BY DEF PageMsgs, PageWork
    <2>2. pg.queue = <<>> /\ pg' = Told(pg, m) /\ saved' = saved /\ raced' = raced
      BY <1>12 DEF RemovePlugin, Click, MayClick
    <2> HIDE DEF m
    <2>3. PluginsOK(Told(pg, m), saved, raced)
      BY <1>1, <2>1, <2>2, PageClicked
    <2> QED
      BY <2>2, <2>3 DEF PluginsInv
  <1>13. ASSUME NEW p \in Plugs, Toggle(p) PROVE PluginsInv'
    <2> DEFINE on == p \notin pg.shown
               shown == IF p \in pg.shown THEN pg.shown \ {p} ELSE pg.shown \cup {p}
               v == [pg EXCEPT !.shown = shown]
               m == [msg |-> "ToggleSwitch", plug |-> p, on |-> on]
    <2>1. /\ m \in PageMsgs /\ m.msg = "ToggleSwitch" /\ m.msg \notin PageWork /\ m.plug = p
          /\ m.on <=> p \notin pg.shown
      BY DEF PageMsgs, PageWork
    <2>2. pg.queue = <<>> /\ pg' = Told(v, m) /\ saved' = saved /\ raced' = raced
      BY <1>13 DEF Toggle, Click, MayClick
    <2>3. /\ shown \subseteq Plugs /\ (p \in shown <=> p \notin pg.shown)
          /\ \A x \in Plugs : (x \in shown <=> x \in pg.shown) \/ x = p
      BY <1>1 DEF PluginPages
    <2> HIDE DEF shown, m
    <2>4. /\ v \in PluginPages /\ v.flow = pg.flow /\ v.made = pg.made /\ v.tasks = pg.tasks
          /\ v.queue = pg.queue /\ v.dialog = pg.dialog /\ v.popup = pg.popup /\ v.shown = shown
      BY <1>1, <2>3 DEF PluginPages
    <2> HIDE DEF v
    <2>5. PluginsOK(Told(v, m), saved, raced)
      BY <1>1, <2>1, <2>2, <2>3, <2>4, PageClicked
    <2> QED
      BY <2>2, <2>5 DEF PluginsInv
  <1>14. CASE Refresh
    <2>1. pg.queue = <<>> /\ pg' = Start(pg, "load", "all") /\ saved' = saved /\ raced' = raced \cup Toggles(pg)
      BY <1>14 DEF Refresh, MayClick
    <2>2. PluginsOK(Start(pg, "load", "all"), saved, raced \cup Toggles(pg))
      BY <1>1, <2>1, PageRefreshed
    <2> QED
      BY <2>1, <2>2 DEF PluginsInv
  <1>15. CASE UNCHANGED pageVars
    BY <1>15 DEF pageVars, PluginsInv
  <1> QED
    BY <1>3, <1>4, <1>6, <1>7, <1>8, <1>9, <1>10, <1>11, <1>12, <1>13, <1>14, <1>15 DEF PageNext

(* The invariant says what SettingsSettle promises of the plugins.         *)
LEMMA PluginsSettle == PluginsInv => DialogIsAnswered /\ SwitchesAgree
  <1> SUFFICES ASSUME PluginsInv PROVE DialogIsAnswered /\ SwitchesAgree
    OBVIOUS
  <1>1. DialogIsAnswered
    BY DEF PluginsInv, PluginsOK, DialogOK, Waits, DialogIsAnswered, UnderWay
  <1>2. ASSUME pg.queue = <<>>, pg.tasks = {}, NEW p \in Plugs \ raced PROVE p \in pg.shown <=> p \in saved
    <2>1. SwitchOK(pg, saved, p) /\ ~BeingSwitched(pg, p) /\ Toggling(pg, p) = {} /\ DOMAIN pg.queue = {}
      BY <1>2 DEF PluginsInv, PluginsOK, BeingSwitched, Toggling
    <2>2. ~Loads(pg)
      BY <1>2, <2>1 DEF Loads
    <2> QED
      BY <2>1, <2>2 DEF SwitchOK
  <1> QED
    BY <1>1, <1>2 DEF SwitchesAgree

-----------------------------------------------------------------------------
(* The services.                                                           *)

(* A task that is started.                                                 *)
LEMMA LaunchIs ==
  ASSUME NEW v, ServicesTyped(v), NEW what \in ServiceWork, NEW b \in MaybeOffer,
         what \in {"init", "finalize"} => b \in Offers
  PROVE  LET n == Launch(v, what, b)
             x == [id |-> v.made + 1, do |-> what, of |-> b, result |-> "none", list |-> {}]
         IN  /\ ServicesTyped(n) /\ n.tasks = v.tasks \cup {x} /\ n.made = v.made + 1 /\ n.flow = v.flow
             /\ n.connecting = v.connecting /\ n.dialog = v.dialog /\ n.queue = v.queue /\ n.listed = v.listed
  <1> DEFINE k == v.made + 1
             x == [id |-> k, do |-> what, of |-> b, result |-> "none", list |-> {}]
             n == Launch(v, what, b)
  <1>1. /\ k \in Nat \ {0} /\ v.made < k /\ v.flow \in Nat /\ v.made \in Nat /\ v.flow # k
        /\ v \in ServicesPages /\ v.tasks \in SUBSET ServiceTasks
    BY DEF ServicesPages, ServicesTyped
  <1>2. k = v.made + 1
    OBVIOUS
  <1> HIDE DEF k
  <1>3. x \in ServiceTasks
    BY <1>1 DEF ServiceTasks, ServiceResults
  <1>4. n = [v EXCEPT !.made = k, !.tasks = @ \cup {x}]
    BY <1>2 DEF Launch
  <1>5. x.id = k /\ x.do = what /\ x.of = b /\ x.result = "none" /\ \A t \in v.tasks : t.id \in Nat
    BY <1>1 DEF ServiceTasks
  <1> HIDE DEF n, x
  <1>6. /\ n \in ServicesPages /\ n.tasks = v.tasks \cup {x} /\ n.made = k /\ n.flow = v.flow
        /\ n.connecting = v.connecting /\ n.dialog = v.dialog /\ n.queue = v.queue /\ n.listed = v.listed
    BY <1>1, <1>3, <1>4 DEF ServicesPages
  <1>7. \A t \in v.tasks : t.id <= v.made /\ t.id # k
    BY <1>1, <1>5 DEF ServicesTyped
  <1>8. \A t \in n.tasks : /\ t.id <= n.made /\ (t.id = n.flow => t.do \in {"init", "finalize"})
                           /\ t.result = "stored" => t.do = "finalize"
                           /\ t.do \in {"init", "finalize"} => t.of \in Offers
    BY <1>1, <1>5, <1>6 DEF ServicesTyped
  <1>9. \A t, u \in n.tasks : t.id = u.id => t = u
    BY <1>5, <1>6, <1>7 DEF ServicesTyped
  <1>10. ServicesTyped(n)
    BY <1>1, <1>6, <1>8, <1>9 DEF ServicesTyped
  <1> QED
    BY <1>2, <1>6, <1>10 DEF n, x

(* The task of the dialog is aborted, if it is not past its last await.    *)
LEMMA DropIs ==
  ASSUME NEW v, ServicesTyped(v)
  PROVE  LET n == Drop(v, v.flow)
         IN  /\ ServicesTyped(n) /\ n.tasks \subseteq v.tasks
             /\ \A t \in v.tasks : t \in n.tasks <=> ~(t.id = v.flow /\ t.result \in {"none", "stored"})
             /\ n.made = v.made /\ n.flow = v.flow
             /\ n.connecting = v.connecting /\ n.dialog = v.dialog /\ n.queue = v.queue /\ n.listed = v.listed
  <1> DEFINE n == Drop(v, v.flow)
             rest == {t \in v.tasks : ~(t.id = v.flow /\ t.result \in {"none", "stored"})}
  <1>1. n = [v EXCEPT !.tasks = rest]
    BY DEF Drop
  <1>2. /\ rest \subseteq v.tasks
        /\ \A t \in v.tasks : t \in rest <=> ~(t.id = v.flow /\ t.result \in {"none", "stored"})
    OBVIOUS
  <1> HIDE DEF rest
  <1>3. /\ n \in ServicesPages /\ n.tasks = rest /\ n.made = v.made /\ n.flow = v.flow
        /\ n.connecting = v.connecting /\ n.dialog = v.dialog /\ n.queue = v.queue /\ n.listed = v.listed
    BY <1>1, <1>2 DEF ServicesTyped, ServicesPages
  <1> HIDE DEF n
  <1>4. ServicesTyped(n)
    BY <1>2, <1>3 DEF ServicesTyped
  <1> QED
    BY <1>2, <1>3, <1>4 DEF n

(* The dialog alone.                                                       *)
LEMMA ShowInIs ==
  ASSUME NEW v, ServicesTyped(v), NEW what \in {"none", "loading", "challenge", "manual", "error", "success"}
  PROVE  LET n == ShowIn(v, what)
         IN  /\ ServicesTyped(n) /\ (n.dialog = "none" \/ n.dialog = what)
             /\ n.tasks = v.tasks /\ n.made = v.made /\ n.flow = v.flow
             /\ n.connecting = v.connecting /\ n.queue = v.queue /\ n.listed = v.listed
  <1> DEFINE n == ShowIn(v, what)
  <1>1. CASE v.dialog = "none"
    BY <1>1 DEF ShowIn
  <1>2. CASE v.dialog # "none"
    <2>1. n = [v EXCEPT !.dialog = what]
      BY <1>2 DEF ShowIn
    <2> HIDE DEF n
    <2>2. /\ n \in ServicesPages /\ n.dialog = what
          /\ n.tasks = v.tasks /\ n.made = v.made /\ n.flow = v.flow
          /\ n.connecting = v.connecting /\ n.queue = v.queue /\ n.listed = v.listed
      BY <2>1 DEF ServicesTyped, ServicesPages
    <2>3. ServicesTyped(n)
      BY <1>2, <2>2 DEF ServicesTyped
    <2> QED
      BY <2>2, <2>3 DEF n
  <1> QED
    BY <1>1, <1>2

(* replace and abort: what was under way is dropped, whatever it was.      *)
LEMMA TrackFlowIs ==
  ASSUME NEW v, ServicesTyped(v), NEW what \in {"init", "finalize"}, NEW b \in Offers, v.connecting = b,
         \A t \in v.tasks : Under(t) => t.id = v.flow
  PROVE  LET n == TrackFlow(v, what, b)
         IN  /\ ServicesTyped(n) /\ OneFlow(n)
             /\ \A t \in v.tasks : t \in n.tasks \/ (t.id = v.flow /\ t.result \in {"none", "stored"})
             /\ \A t \in n.tasks \ v.tasks : t.result = "none" /\ t.do = what /\ ~(t.id <= v.made)
             /\ \E t \in n.tasks : t.do = what /\ t.of = b
             /\ n.connecting = v.connecting /\ n.dialog = v.dialog /\ n.queue = v.queue /\ n.listed = v.listed
  <1> DEFINE u == Drop(v, v.flow)
             s == Launch(u, what, b)
             n == TrackFlow(v, what, b)
             x == [id |-> u.made + 1, do |-> what, of |-> b, result |-> "none", list |-> {}]
  <1>1. /\ ServicesTyped(u) /\ u.tasks \subseteq v.tasks
        /\ \A t \in v.tasks : t \in u.tasks <=> ~(t.id = v.flow /\ t.result \in {"none", "stored"})
        /\ u.made = v.made
        /\ u.connecting = v.connecting /\ u.dialog = v.dialog /\ u.queue = v.queue /\ u.listed = v.listed
    BY DropIs
  <1>2. n = [s EXCEPT !.flow = s.made]
    BY DEF TrackFlow
  <1> HIDE DEF u
  <1>3. what \in ServiceWork /\ b \in MaybeOffer
    BY DEF ServiceWork, MaybeOffer
  <1>4. /\ ServicesTyped(s) /\ s.tasks = u.tasks \cup {x} /\ s.made = u.made + 1
        /\ s.connecting = u.connecting /\ s.dialog = u.dialog /\ s.queue = u.queue /\ s.listed = u.listed
    BY <1>1, <1>3, LaunchIs
  <1>5. x.id = u.made + 1 /\ x.do = what /\ x.of = b /\ x.result = "none"
    OBVIOUS
  <1> HIDE DEF s, x
  <1>6. /\ n \in ServicesPages /\ n.flow = s.made /\ n.made = s.made /\ n.tasks = s.tasks
        /\ n.connecting = s.connecting /\ n.dialog = s.dialog /\ n.queue = s.queue /\ n.listed = s.listed
    BY <1>2, <1>4 DEF ServicesTyped, ServicesPages
  <1> HIDE DEF n
  <1>7. u.made \in Nat /\ s.made \in Nat /\ x.id \in Nat /\ \A t \in u.tasks : t.id \in Nat /\ t.id <= u.made
    BY <1>1, <1>4, <1>5 DEF ServicesTyped, ServicesPages, ServiceTasks
  <1>8. \A t \in n.tasks : t.id = n.flow => t = x
    BY <1>4, <1>5, <1>6, <1>7
  <1>9. ServicesTyped(n)
    BY <1>4, <1>5, <1>6, <1>7, <1>8 DEF ServicesTyped
  <1>10. \A t \in n.tasks : Under(t) => t = x
    BY <1>1, <1>4, <1>6 DEF Under
  <1>11. OneFlow(n)
    BY <1>1, <1>4, <1>5, <1>6, <1>10 DEF OneFlow
  <1>12. \A t \in n.tasks \ v.tasks : t = x
    BY <1>1, <1>4, <1>6
  <1>13. ~(x.id <= v.made)
    BY <1>1, <1>5, <1>7
  <1> QED
    BY <1>1, <1>4, <1>5, <1>6, <1>9, <1>11, <1>12, <1>13 DEF n

(* The messages one by one.                                                *)
LEMMA ReactIs ==
  ASSUME NEW v, NEW m \in ServiceMsgs
  PROVE  /\ m.msg = "ConnectClicked" => React(v, m) = ConnectClicked(v, m)
         /\ m.msg = "init" => React(v, m) = InitFinishedFor(v, m)
         /\ m.msg = "ConnectionSubmitted" => React(v, m) = ConnectionSubmitted(v, m)
         /\ m.msg = "finalize" => React(v, m) = FinalizeFinished(v, m)
         /\ m.msg = "DialogClosed" => React(v, m) = DialogClosed(v, m)
         /\ m.msg = "DisconnectConfirmed" => React(v, m) = Launch(v, "disconnect", m.of)
         /\ m.msg = "disconnect" => React(v, m) = IF m.result = "ok" THEN Launch(v, "fetch", NoBackend) ELSE v
         /\ m.msg = "fetch" => React(v, m) = IF m.result = "ok" THEN [v EXCEPT !.listed = m.list] ELSE v
  BY DEF React

AnswerMsgs == {"init", "finalize", "ConnectionSubmitted"}
Changes == {"finalize", "disconnect"}

(* What a message does to the page, whichever it is.                       *)
Reaction(v, m, n) ==
    /\ ServicesTyped(n) /\ OneFlow(n) /\ n.queue = v.queue
    /\ n.listed = IF m.msg = "fetch" /\ m.result = "ok" THEN m.list ELSE v.listed
    /\ \A t \in v.tasks : t \in n.tasks \/ (t.id = v.flow /\ t.result \in {"none", "stored"})
    /\ \A t \in n.tasks \ v.tasks :
        /\ t.result = "none" /\ ~(t.id <= v.made)
        /\ t.do = "fetch" => m.msg \in Changes /\ m.result = "ok"
    /\ m.msg \in Changes /\ m.result = "ok" => \E t \in n.tasks : t.do = "fetch"
    /\ n.dialog \in {"loading", "challenge"} =>
        \/ \E t \in n.tasks : t.do \in {"init", "finalize"} /\ t.of = n.connecting
        \/ /\ n.dialog = v.dialog /\ n.connecting = v.connecting /\ v.tasks \subseteq n.tasks
           /\ m.msg \in AnswerMsgs => m.of # v.connecting

(* Nothing but the dialog moves.                                           *)
LEMMA ReactShows ==
  ASSUME NEW v, ServicesTyped(v), OneFlow(v), NEW m, m.msg \in {"init", "finalize"}, m.result # "ok" \/ m.msg = "init",
         NEW n, ServicesTyped(n), n.dialog \notin {"loading", "challenge"},
         n.tasks = v.tasks, n.made = v.made, n.flow = v.flow,
         n.connecting = v.connecting, n.queue = v.queue, n.listed = v.listed
  PROVE  Reaction(v, m, n)
  BY DEF Reaction, OneFlow, Changes

(* Nothing moves.                                                          *)
LEMMA ReactIgnores ==
  ASSUME NEW v, ServicesTyped(v), OneFlow(v), NEW m,
         m.msg \in Changes \cup {"fetch"} => m.result # "ok",
         m.msg \in AnswerMsgs => m.of # v.connecting
  PROVE  Reaction(v, m, v)
  BY DEF Reaction, Changes

(* A list is asked for, or a row is taken off: the flow is as it was.      *)
Launched(v, what, n) ==
    /\ ServicesTyped(n) /\ OneFlow(n) /\ v.tasks \subseteq n.tasks
    /\ \A t \in n.tasks \ v.tasks : t.result = "none" /\ t.do = what /\ ~(t.id <= v.made)
    /\ \E t \in n.tasks : t.do = what
    /\ n.connecting = v.connecting /\ n.dialog = v.dialog /\ n.queue = v.queue /\ n.listed = v.listed

(* What is launched beside the flow.                                       *)
LEMMA ReactLaunches ==
  ASSUME NEW v, ServicesTyped(v), OneFlow(v), NEW what \in {"fetch", "disconnect", "cancel"}, NEW b \in MaybeOffer
  PROVE  Launched(v, what, Launch(v, what, b))
  <1> DEFINE n == Launch(v, what, b)
             x == [id |-> v.made + 1, do |-> what, of |-> b, result |-> "none", list |-> {}]
  <1>1. what \in ServiceWork /\ ~(what \in {"init", "finalize"})
    BY DEF ServiceWork
  <1>2. /\ ServicesTyped(n) /\ n.tasks = v.tasks \cup {x} /\ n.made = v.made + 1 /\ n.flow = v.flow
        /\ n.connecting = v.connecting /\ n.dialog = v.dialog /\ n.queue = v.queue /\ n.listed = v.listed
    BY <1>1, LaunchIs
  <1>3. x.id = v.made + 1 /\ x.do = what /\ x.result = "none" /\ v.made \in Nat
    BY DEF ServicesTyped, ServicesPages
  <1> HIDE DEF n, x
  <1>4. OneFlow(n)
    BY <1>1, <1>2, <1>3 DEF OneFlow, Under
  <1>5. ~(x.id <= v.made)
    BY <1>3
  <1> QED
    BY <1>2, <1>3, <1>4, <1>5 DEF n, Launched

(* Whichever message the page takes.                                       *)
LEMMA ReactEffect ==
  ASSUME NEW v, ServicesTyped(v), OneFlow(v), NEW m \in ServiceMsgs,
         m.msg \in {"ConnectClicked", "ConnectionSubmitted", "init", "finalize"} => m.of \in Offers
  PROVE  Reaction(v, m, React(v, m))
  <1> DEFINE n == React(v, m)
  <1>1. /\ v \in ServicesPages /\ NoBackend \in MaybeOffer /\ Offers \subseteq MaybeOffer
        /\ \A t \in v.tasks : Under(t) => t.id = v.flow
    BY DEF ServicesTyped, MaybeOffer, OneFlow
  <1>2. CASE m.msg = "ConnectClicked"
    <2>1. n = ConnectClicked(v, m) /\ m.of \in Offers
      BY <1>2, ReactIs
    <2>2. CASE v.connecting # NoBackend
      <3>1. n = v
        BY <2>1, <2>2 DEF ConnectClicked
      <3>2. Reaction(v, m, v)
        BY <1>2, ReactIgnores DEF Changes, AnswerMsgs
      <3> QED
        BY <3>1, <3>2
    <2>3. CASE v.connecting = NoBackend
      <3> DEFINE b == m.of
                 u == [v EXCEPT !.connecting = b, !.dialog = "loading"]
                 out == TrackFlow(u, "init", b)
      <3>1. n = out
        BY <2>1, <2>3 DEF ConnectClicked
      <3>2. b \in Offers
        BY <2>1
      <3> HIDE DEF n, b
      <3>3. /\ u \in ServicesPages /\ u.connecting = b /\ u.dialog = "loading" /\ u.tasks = v.tasks
            /\ u.made = v.made /\ u.flow = v.flow /\ u.queue = v.queue /\ u.listed = v.listed
        BY <1>1, <3>2 DEF ServicesPages, MaybeOffer
      <3> HIDE DEF u
      <3>4. ServicesTyped(u) /\ \A t \in u.tasks : Under(t) => t.id = u.flow
        BY <1>1, <3>2, <3>3 DEF ServicesTyped
      <3>5. /\ ServicesTyped(out) /\ OneFlow(out)
            /\ \A t \in u.tasks : t \in out.tasks \/ (t.id = u.flow /\ t.result \in {"none", "stored"})
            /\ \A t \in out.tasks \ u.tasks : t.result = "none" /\ t.do = "init" /\ ~(t.id <= u.made)
            /\ \E t \in out.tasks : t.do = "init" /\ t.of = b
            /\ out.connecting = u.connecting /\ out.dialog = u.dialog /\ out.queue = u.queue /\ out.listed = u.listed
        BY <3>2, <3>3, <3>4, TrackFlowIs
      <3> HIDE DEF out
      <3>6. Reaction(v, m, out)
        BY <1>2, <3>3, <3>5 DEF Reaction, Changes
      <3> QED
        BY <3>1, <3>6 DEF n
    <2> QED
      BY <2>2, <2>3
  <1>3. CASE m.msg \in {"init", "ConnectionSubmitted"}
    <2>1. m.of \in Offers
      BY <1>3
    <2>2. CASE v.connecting # m.of
      <3>1. n = v
        BY <1>3, <2>2, ReactIs DEF InitFinishedFor, ConnectionSubmitted
      <3>2. Reaction(v, m, v)
        BY <1>3, <2>2, ReactIgnores DEF Changes, AnswerMsgs
      <3> QED
        BY <3>1, <3>2
    <2>3. CASE v.connecting = m.of
      <3>1. \/ n = ShowIn(v, "manual") /\ m.msg = "init"
            \/ n = ShowIn(v, "error") /\ m.msg = "init"
            \/ \E what \in {"challenge", "loading"} : n = TrackFlow(ShowIn(v, what), "finalize", m.of)
        BY <1>3, <2>3, ReactIs DEF InitFinishedFor, ConnectionSubmitted
      <3> HIDE DEF n
      <3>2. ASSUME NEW what \in {"manual", "error"}, n = ShowIn(v, what), m.msg = "init"
            PROVE  Reaction(v, m, n)
        <4> DEFINE out == ShowIn(v, what)
        <4>1. /\ ServicesTyped(out) /\ (out.dialog = "none" \/ out.dialog = what)
              /\ out.tasks = v.tasks /\ out.made = v.made /\ out.flow = v.flow
              /\ out.connecting = v.connecting /\ out.queue = v.queue /\ out.listed = v.listed
          BY ShowInIs
        <4> HIDE DEF out
        <4>2. Reaction(v, m, out)
          BY <3>2, <4>1, ReactShows
        <4> QED
          BY <3>2, <4>2 DEF out
      <3>3. ASSUME NEW what \in {"challenge", "loading"}, n = TrackFlow(ShowIn(v, what), "finalize", m.of)
            PROVE  Reaction(v, m, n)
        <4> DEFINE b == m.of
                   u == ShowIn(v, what)
                   out == TrackFlow(u, "finalize", b)
        <4>1. /\ ServicesTyped(u)
              /\ u.tasks = v.tasks /\ u.made = v.made /\ u.flow = v.flow
              /\ u.connecting = v.connecting /\ u.queue = v.queue /\ u.listed = v.listed
          BY ShowInIs
        <4>2. b \in Offers /\ u.connecting = b
          BY <2>1, <2>3, <4>1
        <4>3. n = out
          BY <3>3
        <4> HIDE DEF u, b
        <4>4. \A t \in u.tasks : Under(t) => t.id = u.flow
          BY <1>1, <4>1
        <4>5. /\ ServicesTyped(out) /\ OneFlow(out)
              /\ \A t \in u.tasks : t \in out.tasks \/ (t.id = u.flow /\ t.result \in {"none", "stored"})
              /\ \A t \in out.tasks \ u.tasks : t.result = "none" /\ t.do = "finalize" /\ ~(t.id <= u.made)
              /\ \E t \in out.tasks : t.do = "finalize" /\ t.of = b
              /\ out.connecting = u.connecting /\ out.dialog = u.dialog /\ out.queue = u.queue /\ out.listed = u.listed
          BY <4>1, <4>2, <4>4, TrackFlowIs
        <4> HIDE DEF out
        <4>6. Reaction(v, m, out)
          BY <1>3, <4>1, <4>2, <4>5 DEF Reaction, Changes
        <4> QED
          BY <4>3, <4>6
      <3> QED
        BY <3>1, <3>2, <3>3 DEF n
    <2> QED
      BY <2>2, <2>3
  <1>4. CASE m.msg = "finalize"
    <2>1. n = FinalizeFinished(v, m)
      BY <1>4, ReactIs
    <2>2. CASE m.result = "ok"
      <3> DEFINE u == IF v.connecting = m.of THEN ShowIn(v, "success") ELSE v
                 out == Launch(u, "fetch", NoBackend)
      <3>1. n = out
        BY <2>1, <2>2 DEF FinalizeFinished
      <3>2. /\ ServicesTyped(u)
            /\ u.dialog \in {"none", "success"} \/ (u.dialog = v.dialog /\ v.connecting # m.of)
            /\ u.tasks = v.tasks /\ u.made = v.made /\ u.flow = v.flow
            /\ u.connecting = v.connecting /\ u.queue = v.queue /\ u.listed = v.listed
        <4> DEFINE z == ShowIn(v, "success")
        <4>1. /\ ServicesTyped(z) /\ (z.dialog = "none" \/ z.dialog = "success")
              /\ z.tasks = v.tasks /\ z.made = v.made /\ z.flow = v.flow
              /\ z.connecting = v.connecting /\ z.queue = v.queue /\ z.listed = v.listed
          BY ShowInIs
        <4>2. CASE v.connecting = m.of
          <5>1. u = z
            BY <4>2
          <5> HIDE DEF u, z
          <5> QED
            BY <4>1, <5>1
        <4>3. CASE v.connecting # m.of
          <5>1. u = v
            BY <4>3
          <5> HIDE DEF u
          <5> QED
            BY <4>3, <5>1
        <4> QED
          BY <4>2, <4>3
      <3> HIDE DEF u, n
      <3>3. OneFlow(u)
        BY <3>2 DEF OneFlow
      <3>4. /\ ServicesTyped(out) /\ OneFlow(out) /\ u.tasks \subseteq out.tasks
            /\ \A t \in out.tasks \ u.tasks : t.result = "none" /\ t.do = "fetch" /\ ~(t.id <= u.made)
            /\ \E t \in out.tasks : t.do = "fetch"
            /\ out.connecting = u.connecting /\ out.dialog = u.dialog /\ out.queue = u.queue /\ out.listed = u.listed
        <4>1. NoBackend \in MaybeOffer /\ ServicesTyped(u)
          BY <3>2 DEF MaybeOffer
        <4>2. Launched(u, "fetch", out)
          BY <3>3, <4>1, ReactLaunches
        <4> QED
          BY <4>2 DEF Launched
      <3> HIDE DEF out
      <3>5. Reaction(v, m, out)
        BY <1>4, <2>2, <3>2, <3>4 DEF Reaction, Changes
      <3> QED
        BY <3>1, <3>5 DEF n
    <2>3. CASE m.result # "ok" /\ v.connecting = m.of
      <3> DEFINE out == ShowIn(v, "error")
      <3>1. n = out
        BY <2>1, <2>3 DEF FinalizeFinished
      <3>2. /\ ServicesTyped(out) /\ (out.dialog = "none" \/ out.dialog = "error")
            /\ out.tasks = v.tasks /\ out.made = v.made /\ out.flow = v.flow
            /\ out.connecting = v.connecting /\ out.queue = v.queue /\ out.listed = v.listed
        BY ShowInIs
      <3> HIDE DEF out, n
      <3>3. Reaction(v, m, out)
        BY <1>4, <2>3, <3>2, ReactShows
      <3> QED
        BY <3>1, <3>3 DEF n
    <2>4. CASE m.result # "ok" /\ v.connecting # m.of
      <3>1. n = v
        BY <2>1, <2>4 DEF FinalizeFinished
      <3>2. Reaction(v, m, v)
        BY <1>4, <2>4, ReactIgnores
      <3> QED
        BY <3>1, <3>2
    <2> QED
      BY <2>2, <2>3, <2>4
  <1>5. CASE m.msg = "DialogClosed"
    <2> DEFINE b == m.of
               u == [v EXCEPT !.connecting = NoBackend, !.dialog = "none"]
               d == Drop(u, v.flow)
               out == Launch(d, "cancel", b)
               x == [out EXCEPT !.flow = 0]
    <2>1. /\ u \in ServicesPages /\ u.connecting = NoBackend /\ u.dialog = "none" /\ u.tasks = v.tasks
          /\ u.made = v.made /\ u.flow = v.flow /\ u.queue = v.queue /\ u.listed = v.listed
      BY <1>1 DEF ServicesPages, MaybeOffer
    <2>2. n = IF v.flow = 0 THEN u ELSE x
      BY <1>5, <2>1, ReactIs DEF DialogClosed
    <2>3. b \in MaybeOffer
      BY <1>5 DEF ServiceMsgs, ServiceWork
    <2> HIDE DEF u, n, b
    <2>4. ServicesTyped(u) /\ \A t \in u.tasks : t.id # 0
      BY <2>1 DEF ServicesTyped, ServicesPages, ServiceTasks
    <2>5. /\ ServicesTyped(d) /\ d.tasks \subseteq u.tasks
          /\ \A t \in u.tasks : t \in d.tasks <=> ~(t.id = u.flow /\ t.result \in {"none", "stored"})
          /\ d.made = u.made
          /\ d.connecting = u.connecting /\ d.dialog = u.dialog /\ d.queue = u.queue /\ d.listed = u.listed
      <3>1. d = Drop(u, u.flow)
        BY <2>1
      <3> HIDE DEF d
      <3> DEFINE y == Drop(u, u.flow)
      <3>2. /\ ServicesTyped(y) /\ y.tasks \subseteq u.tasks
            /\ \A t \in u.tasks : t \in y.tasks <=> ~(t.id = u.flow /\ t.result \in {"none", "stored"})
            /\ y.made = u.made
            /\ y.connecting = u.connecting /\ y.dialog = u.dialog /\ y.queue = u.queue /\ y.listed = u.listed
        BY <2>4, DropIs
      <3> HIDE DEF y
      <3>3. d = y
        BY <3>1 DEF y
      <3> QED
        BY <3>2, <3>3
    <2> HIDE DEF d
    <2>6. \A t \in d.tasks : ~Under(t)
      BY <1>1, <2>1, <2>5 DEF Under
    <2>7. OneFlow(d)
      BY <2>6 DEF OneFlow
    <2>8. /\ ServicesTyped(out) /\ OneFlow(out) /\ d.tasks \subseteq out.tasks
          /\ \A t \in out.tasks \ d.tasks : t.result = "none" /\ t.do = "cancel" /\ ~(t.id <= d.made)
          /\ out.connecting = d.connecting /\ out.dialog = d.dialog /\ out.queue = d.queue /\ out.listed = d.listed
      <3>1. ServicesTyped(d)
        BY <2>5
      <3> QED
        <4>1. Launched(d, "cancel", out)
          BY <2>3, <2>7, <3>1, ReactLaunches
        <4> QED
          BY <4>1 DEF Launched
    <2> HIDE DEF out
    <2>9. /\ x \in ServicesPages /\ x.flow = 0 /\ x.made = out.made /\ x.tasks = out.tasks
          /\ x.connecting = out.connecting /\ x.dialog = out.dialog /\ x.queue = out.queue /\ x.listed = out.listed
      BY <2>8 DEF ServicesTyped, ServicesPages
    <2> HIDE DEF x
    <2>10. ServicesTyped(x)
      <3>1. \A t \in x.tasks : t.id # 0
        BY <2>8, <2>9 DEF ServicesTyped, ServicesPages, ServiceTasks
      <3> QED
        BY <2>8, <2>9, <3>1 DEF ServicesTyped, ServicesPages
    <2>11. \A t \in x.tasks : ~Under(t)
      BY <2>6, <2>8, <2>9 DEF Under
    <2>12. Reaction(v, m, x)
      BY <1>5, <2>1, <2>5, <2>8, <2>9, <2>10, <2>11 DEF Reaction, Changes, OneFlow
    <2>13. v.flow = 0 => OneFlow(u)
      BY <1>1, <2>1, <2>4 DEF OneFlow
    <2>14. v.flow = 0 => Reaction(v, m, u)
      BY <1>5, <2>1, <2>4, <2>13 DEF Reaction, Changes
    <2> QED
      BY <2>2, <2>12, <2>14 DEF n
  <1>6. CASE m.msg = "DisconnectConfirmed"
    <2> DEFINE b == m.of
               out == Launch(v, "disconnect", b)
    <2>1. n = out
      BY <1>6, ReactIs
    <2>2. b \in MaybeOffer
      BY <1>6 DEF ServiceMsgs, ServiceWork
    <2> HIDE DEF b, n
    <2>3. /\ ServicesTyped(out) /\ OneFlow(out) /\ v.tasks \subseteq out.tasks
          /\ \A t \in out.tasks \ v.tasks : t.result = "none" /\ t.do = "disconnect" /\ ~(t.id <= v.made)
          /\ out.connecting = v.connecting /\ out.dialog = v.dialog /\ out.queue = v.queue /\ out.listed = v.listed
      <3>1. Launched(v, "disconnect", out)
        BY <2>2, ReactLaunches
      <3> QED
        BY <3>1 DEF Launched
    <2> HIDE DEF out
    <2>4. Reaction(v, m, out)
      BY <1>6, <2>3 DEF Reaction, Changes, AnswerMsgs
    <2> QED
      BY <2>1, <2>4 DEF n
  <1>9. CASE m.msg = "disconnect" /\ m.result = "ok"
    <2> DEFINE out == Launch(v, "fetch", NoBackend)
    <2>1. n = out
      BY <1>9, ReactIs
    <2> HIDE DEF n
    <2>3. /\ ServicesTyped(out) /\ OneFlow(out) /\ v.tasks \subseteq out.tasks
          /\ \A t \in out.tasks \ v.tasks : t.result = "none" /\ t.do = "fetch" /\ ~(t.id <= v.made)
          /\ \E t \in out.tasks : t.do = "fetch"
          /\ out.connecting = v.connecting /\ out.dialog = v.dialog /\ out.queue = v.queue /\ out.listed = v.listed
      <3>1. NoBackend \in MaybeOffer
        BY DEF MaybeOffer
      <3>2. Launched(v, "fetch", out)
        BY <3>1, ReactLaunches
      <3> QED
        BY <3>2 DEF Launched
    <2> HIDE DEF out
    <2>4. Reaction(v, m, out)
      BY <1>9, <2>3 DEF Reaction, Changes, AnswerMsgs
    <2> QED
      BY <2>1, <2>4 DEF n
  <1>7. CASE m.msg = "fetch" /\ m.result = "ok"
    <2>1. m.list \subseteq Offers
      BY <1>7 DEF ServiceMsgs, ServiceWork
    <2>2. n = [v EXCEPT !.listed = m.list]
      BY <1>7, ReactIs
    <2> HIDE DEF n
    <2>3. /\ n \in ServicesPages /\ n.tasks = v.tasks /\ n.made = v.made /\ n.flow = v.flow
          /\ n.connecting = v.connecting /\ n.dialog = v.dialog /\ n.queue = v.queue /\ n.listed = m.list
      BY <1>1, <2>1, <2>2 DEF ServicesPages
    <2>4. ServicesTyped(n) /\ OneFlow(n)
      BY <2>3 DEF ServicesTyped, OneFlow
    <2> QED
      BY <1>7, <2>3, <2>4 DEF Reaction, Changes, AnswerMsgs, n
  <1>8. CASE m.msg \in {"disconnect", "fetch"} /\ m.result # "ok"
    <2>1. n = v
      BY <1>8, ReactIs
    <2>2. Reaction(v, m, v)
      BY <1>8, ReactIgnores DEF AnswerMsgs
    <2> QED
      BY <2>1, <2>2
  <1> QED
    BY <1>2, <1>3, <1>4, <1>5, <1>6, <1>7, <1>8, <1>9 DEF ServiceMsgs, ServiceWork

Reacted(u) == React([u EXCEPT !.queue = Tail(@)], Head(u.queue))
Crosses(u) ==
    LET m == Head(u.queue)
    IN  \/ Cut(u, Reacted(u)) \/ (m.msg = "fetch" /\ m.result # "ok")
        \/ (m.msg \in {"finalize", "disconnect"} /\ Fetching(u))

(* A message is taken.                                                     *)
LEMMA ServiceReacts ==
  ASSUME NEW u, NEW now, NEW slack, ServicesOK(u, now, slack), u.queue # <<>>, NEW slack2,
         ~slack2 => ~slack /\ ~Crosses(u)
  PROVE  ServicesOK(Reacted(u), now, slack2)
  <1> DEFINE m == Head(u.queue)
             v == [u EXCEPT !.queue = Tail(@)]
             n == React(v, m)
  <1>1. ServicesTyped(u) /\ u \in ServicesPages /\ OneFlow(u) /\ now \subseteq Offers
    BY DEF ServicesOK, ServicesTyped
  <1>2. /\ m \in ServiceMsgs /\ Tail(u.queue) \in Seq(ServiceMsgs) /\ m = u.queue[1] /\ 1 \in DOMAIN u.queue
        /\ \A i \in DOMAIN Tail(u.queue) : \E j \in DOMAIN u.queue : j # 1 /\ Tail(u.queue)[i] = u.queue[j]
        /\ \A j \in DOMAIN u.queue : j = 1 \/ \E i \in DOMAIN Tail(u.queue) : Tail(u.queue)[i] = u.queue[j]
    <2>1. u.queue \in Seq(ServiceMsgs)
      BY <1>1 DEF ServicesPages
    <2> QED
      BY <2>1, QueueTail
  <1>3. /\ v \in ServicesPages /\ v.queue = Tail(u.queue) /\ v.tasks = u.tasks /\ v.listed = u.listed
        /\ v.dialog = u.dialog /\ v.connecting = u.connecting /\ v.flow = u.flow /\ v.made = u.made
    BY <1>1, <1>2 DEF ServicesPages
  <1>4. ~slack2 => /\ ~slack /\ ~Cut(u, n) /\ ~(m.msg = "fetch" /\ m.result # "ok")
                   /\ ~(m.msg \in Changes /\ Fetching(u))
    BY DEF Changes, Crosses, Reacted
  <1> DEFINE q == Tail(u.queue)
  <1>5. /\ \A i \in DOMAIN q : \E j \in DOMAIN u.queue : q[i] = u.queue[j]
        /\ \A j \in DOMAIN u.queue : u.queue[j] = m \/ \E i \in DOMAIN q : q[i] = u.queue[j]
    BY <1>2
  <1>6. v.queue = q
    BY <1>3
  <1> HIDE DEF m, v, q
  <1>7. ServicesTyped(v) /\ OneFlow(v)
    BY <1>1, <1>3, <1>5, <1>6 DEF ServicesTyped, OneFlow
  <1>8. m.msg \in {"ConnectClicked", "ConnectionSubmitted", "init", "finalize"} => m.of \in Offers
    BY <1>1, <1>2 DEF ServicesTyped
  <1>9. Reaction(v, m, n)
    BY <1>2, <1>7, <1>8, ReactEffect
  <1> HIDE DEF n
  <1>10. n.queue = q
    BY <1>6, <1>9 DEF Reaction
  <1>11. /\ \A i \in DOMAIN n.queue : \E j \in DOMAIN u.queue : n.queue[i] = u.queue[j]
         /\ \A j \in DOMAIN u.queue : u.queue[j] = m \/ \E i \in DOMAIN n.queue : n.queue[i] = u.queue[j]
    BY <1>5, <1>10
  <1>12. /\ \A t \in u.tasks : t \in n.tasks \/ (t.id = u.flow /\ t.result \in {"none", "stored"})
         /\ \A t \in n.tasks \ u.tasks : /\ t.result = "none" /\ ~(t.id <= u.made)
                                         /\ t.do = "fetch" => m.msg \in Changes /\ m.result = "ok"
    BY <1>3, <1>9 DEF Reaction
  <1>13. Awaited(n)
    <2> SUFFICES ASSUME n.dialog \in {"loading", "challenge"}
                 PROVE  \/ \E t \in n.tasks : t.do \in {"init", "finalize"} /\ t.of = n.connecting
                        \/ \E i \in DOMAIN n.queue : n.queue[i].msg \in AnswerMsgs /\ n.queue[i].of = n.connecting
      BY DEF Awaited, AnswerMsgs
    <2>1. CASE \E t \in n.tasks : t.do \in {"init", "finalize"} /\ t.of = n.connecting
      BY <2>1
    <2>2. CASE /\ n.dialog = u.dialog /\ n.connecting = u.connecting /\ u.tasks \subseteq n.tasks
               /\ m.msg \in AnswerMsgs => m.of # u.connecting
      <3>1. \/ \E t \in u.tasks : t.do \in {"init", "finalize"} /\ t.of = u.connecting
            \/ \E i \in DOMAIN u.queue : u.queue[i].msg \in AnswerMsgs /\ u.queue[i].of = u.connecting
        BY <2>2 DEF ServicesOK, Awaited, AnswerMsgs
      <3> QED
        BY <1>11, <2>2, <3>1
    <2> QED
      BY <1>3, <1>9, <2>1, <2>2 DEF Reaction
  <1>14. ASSUME ~slack2 PROVE ListsFollow(n, now)
    <2>1. /\ ListsFollow(u, now) /\ ~Cut(u, n) /\ ~(m.msg = "fetch" /\ m.result # "ok")
          /\ ~(m.msg \in Changes /\ Fetching(u))
      BY <1>4, <1>14 DEF ServicesOK
    <2>2. Halfway(n) = Halfway(u)
      <3>1. \A t \in n.tasks : t.result = "stored" => t \in u.tasks
        BY <1>12
      <3>2. ASSUME NEW t \in u.tasks, t.result = "stored" PROVE t \in n.tasks
        <4>1. PICK x \in n.tasks : x.id = t.id
          BY <2>1, <3>2 DEF Cut
        <4>2. x \in u.tasks
          BY <1>1, <1>12, <4>1 DEF ServicesTyped
        <4> QED
          BY <1>1, <4>1, <4>2 DEF ServicesTyped
      <3> QED
        BY <3>1, <3>2 DEF Halfway
    <2>3. ASSUME NEW what, ~(m.msg = what /\ m.result = "ok")
          PROVE  WillFetch(n, what) <=> WillFetch(u, what)
      <3>1. \A t \in u.tasks : t.result = "ok" => t \in n.tasks
        BY <1>12
      <3>2. \A t \in n.tasks : t.result = "ok" => t \in u.tasks
        BY <1>12
      <3> QED
        BY <1>11, <2>3, <3>1, <3>2 DEF WillFetch
    <2>4. \A t \in u.tasks : t.do = "fetch" => t \in n.tasks
      BY <1>1, <1>12 DEF ServicesTyped
    <2>5. CASE m.msg \in Changes /\ m.result = "ok"
      <3>1. ~Fetching(u)
        BY <2>1, <2>5
      <3>2. \A t \in n.tasks : t.do = "fetch" => t.result = "none"
        BY <1>12, <3>1 DEF Fetching
      <3>3. \A i \in DOMAIN n.queue : n.queue[i].msg # "fetch"
        BY <1>11, <3>1 DEF Fetching
      <3>4. Fetching(n)
        BY <1>9, <2>5 DEF Reaction, Fetching
      <3> QED
        BY <3>2, <3>3, <3>4 DEF ListsFollow
    <2>6. CASE ~(m.msg \in Changes /\ m.result = "ok")
      <3>1. /\ WillFetch(n, "finalize") <=> WillFetch(u, "finalize")
            /\ WillFetch(n, "disconnect") <=> WillFetch(u, "disconnect")
        <4>1. ~(m.msg = "finalize" /\ m.result = "ok") /\ ~(m.msg = "disconnect" /\ m.result = "ok")
          BY <2>6 DEF Changes
        <4> QED
          BY <2>3, <4>1
      <3>2. \A list : ListIs(n, list, now) <=> ListIs(u, list, now)
        BY <2>2, <3>1 DEF ListIs
      <3>3. \A t \in n.tasks : t.do = "fetch" => t \in u.tasks
        BY <1>12, <2>6
      <3>4. \A t \in n.tasks : t.do = "fetch" /\ t.result = "ok" => ListIs(n, t.list, now)
        BY <2>1, <3>2, <3>3 DEF ListsFollow
      <3>5. \A i \in DOMAIN n.queue : n.queue[i].msg = "fetch" /\ n.queue[i].result = "ok" => ListIs(n, n.queue[i].list, now)
        BY <1>11, <2>1, <3>2 DEF ListsFollow
      <3>6. n.listed = IF m.msg = "fetch" /\ m.result = "ok" THEN m.list ELSE u.listed
        BY <1>3, <1>9 DEF Reaction
      <3>7. CASE m.msg = "fetch"
        <4>1. n.listed = m.list /\ m.result = "ok"
          BY <2>1, <3>6, <3>7
        <4>2. ListIs(u, m.list, now)
          BY <1>2, <2>1, <3>7, <4>1 DEF ListsFollow
        <4>3. ListIs(n, n.listed, now)
          BY <3>2, <4>1, <4>2
        <4> QED
          BY <3>4, <3>5, <4>3 DEF ListsFollow
      <3>8. CASE m.msg # "fetch"
        <4>1. n.listed = u.listed
          BY <3>6, <3>8
        <4>2. Fetching(u) => Fetching(n)
          BY <1>11, <2>4, <3>8 DEF Fetching
        <4>3. ListIs(u, u.listed, now) => ListIs(n, n.listed, now)
          BY <3>2, <4>1
        <4> QED
          BY <2>1, <3>1, <3>4, <3>5, <4>2, <4>3 DEF ListsFollow
      <3> QED
        BY <3>7, <3>8
    <2> QED
      BY <2>5, <2>6
  <1>15. ServicesTyped(n) /\ OneFlow(n)
    BY <1>9 DEF Reaction
  <1> QED
    BY <1>1, <1>13, <1>14, <1>15 DEF ServicesOK, n, v, m, Reacted

Moved(t, result, now) == [t EXCEPT !.result = result, !.list = IF t.do = "fetch" THEN now ELSE {}]
Moving(u, t, result, now) == [u EXCEPT !.tasks = (@ \ {t}) \cup {Moved(t, result, now)}]

(* A task goes on: what it answers and what it has stored.                 *)
LEMMA ServiceTaskMoves ==
  ASSUME NEW u, ServicesTyped(u), Awaited(u), OneFlow(u), NEW now \in SUBSET Offers,
         NEW t \in u.tasks, t.result \in {"none", "stored"},
         NEW result \in ServiceResults, result = "stored" => t.do = "finalize", result # "none"
  PROVE  LET x == Moved(t, result, now)
             n == Moving(u, t, result, now)
         IN  /\ ServicesTyped(n) /\ Awaited(n) /\ OneFlow(n)
             /\ n.tasks = (u.tasks \ {t}) \cup {x} /\ n.queue = u.queue /\ n.listed = u.listed
             /\ x.do = t.do /\ x.of = t.of /\ x.result = result /\ (t.do = "fetch" => x.list = now)
  <1> DEFINE list == IF t.do = "fetch" THEN now ELSE {}
             x == [t EXCEPT !.result = result, !.list = list]
             n == [u EXCEPT !.tasks = (@ \ {t}) \cup {x}]
  <1>1. u \in ServicesPages /\ t \in ServiceTasks
    BY DEF ServicesTyped, ServicesPages
  <1>2. list \in SUBSET Offers /\ (t.do = "fetch" => list = now)
    OBVIOUS
  <1> HIDE DEF list
  <1>3. /\ x \in ServiceTasks /\ x.id = t.id /\ x.do = t.do /\ x.of = t.of /\ x.result = result /\ x.list = list
    BY <1>1, <1>2 DEF ServiceTasks
  <1> HIDE DEF x
  <1>4. /\ n \in ServicesPages /\ n.tasks = (u.tasks \ {t}) \cup {x} /\ n.queue = u.queue /\ n.listed = u.listed
        /\ n.dialog = u.dialog /\ n.connecting = u.connecting /\ n.flow = u.flow /\ n.made = u.made
    BY <1>1, <1>3 DEF ServicesPages
  <1> HIDE DEF n
  <1>5. \A y \in n.tasks : /\ y.id <= n.made /\ (y.id = n.flow => y.do \in {"init", "finalize"})
                           /\ y.result = "stored" => y.do = "finalize"
                           /\ y.do \in {"init", "finalize"} => y.of \in Offers
    BY <1>3, <1>4 DEF ServicesTyped
  <1>6. \A y, z \in n.tasks : y.id = z.id => y = z
    BY <1>3, <1>4 DEF ServicesTyped
  <1>7. ServicesTyped(n)
    BY <1>4, <1>5, <1>6 DEF ServicesTyped
  <1>8. Awaited(n)
    BY <1>3, <1>4 DEF Awaited
  <1>9. OneFlow(n)
    BY <1>3, <1>4 DEF OneFlow, Under
  <1> QED
    BY <1>2, <1>3, <1>4, <1>7, <1>8, <1>9 DEF n, x, list, Moved, Moving

(* finalize has stored the row: the list is not behind, it leaves the row  *)
(* out until it is kept.                                                   *)
LEMMA ServiceTaskStores ==
  ASSUME NEW u, NEW now, NEW slack, ServicesOK(u, now, slack),
         NEW t \in u.tasks, t.do = "finalize", t.result = "none", t.of \notin now
  PROVE  ServicesOK(Moving(u, t, "stored", now), now \cup {t.of}, slack)
  <1> DEFINE x == Moved(t, "stored", now)
             n == Moving(u, t, "stored", now)
  <1>1. ServicesTyped(u) /\ Awaited(u) /\ OneFlow(u) /\ now \in SUBSET Offers /\ t.of \in Offers
    BY DEF ServicesOK, ServicesTyped
  <1>2. "stored" \in ServiceResults
    BY DEF ServiceResults
  <1>3. /\ ServicesTyped(n) /\ Awaited(n) /\ OneFlow(n)
        /\ n.tasks = (u.tasks \ {t}) \cup {x} /\ n.queue = u.queue /\ n.listed = u.listed
        /\ x.do = t.do /\ x.of = t.of /\ x.result = "stored"
    <2>1. \A result \in ServiceResults : result = "stored" =>
            LET y == Moved(t, result, now)
                z == Moving(u, t, result, now)
            IN  /\ ServicesTyped(z) /\ Awaited(z) /\ OneFlow(z)
                /\ z.tasks = (u.tasks \ {t}) \cup {y} /\ z.queue = u.queue /\ z.listed = u.listed
                /\ y.do = t.do /\ y.of = t.of /\ y.result = result
      BY <1>1, ServiceTaskMoves
    <2> QED
      BY <1>2, <2>1
  <1> HIDE DEF n, x
  <1>4. Halfway(n) = Halfway(u) \cup {t.of}
    BY <1>3 DEF Halfway
  <1>5. \A what : WillFetch(n, what) <=> WillFetch(u, what)
    BY <1>3 DEF WillFetch
  <1>6. (now \cup {t.of}) \ Halfway(n) = now \ Halfway(u)
    BY <1>4
  <1>7. \A list : ListIs(n, list, now \cup {t.of}) <=> ListIs(u, list, now)
    BY <1>5, <1>6 DEF ListIs
  <1>8. Fetching(n) <=> Fetching(u)
    BY <1>3 DEF Fetching
  <1>9. ListsFollow(u, now) => ListsFollow(n, now \cup {t.of})
    BY <1>3, <1>5, <1>7, <1>8 DEF ListsFollow
  <1> QED
    BY <1>1, <1>3, <1>9 DEF ServicesOK, n, x

(* A task has an answer.                                                   *)
LEMMA ServiceTaskFinishes ==
  ASSUME NEW u, NEW now, NEW slack, ServicesOK(u, now, slack),
         NEW t \in u.tasks, NEW result \in {"device", "manual", "ok", "failed"}, t.result \in {"none", "stored"},
         NEW now2, NEW slack2,
         t.do = "finalize" /\ t.result = "none" => result = "failed" /\ now2 = now,
         t.result = "stored" => now2 = IF result = "ok" THEN now ELSE now \ {t.of},
         t.do = "disconnect" => now2 = IF result = "ok" THEN now \ {t.of} ELSE now,
         t.do \notin {"finalize", "disconnect"} => now2 = now,
         ~slack2 => /\ ~slack /\ ~(now2 # now /\ Fetching(u))
                    /\ ~(t.do = "fetch" /\ \E y \in u.tasks : y.result = "stored"),
         t.do = "disconnect" => result \in {"ok", "failed"}
  PROVE  ServicesOK(Moving(u, t, result, now), now2, slack2)
  <1> DEFINE x == Moved(t, result, now)
             n == Moving(u, t, result, now)
  <1>1. ServicesTyped(u) /\ Awaited(u) /\ OneFlow(u) /\ now \in SUBSET Offers
    BY DEF ServicesOK
  <1>2. result \in ServiceResults /\ result \notin {"none", "stored"}
    BY DEF ServiceResults
  <1>3. /\ ServicesTyped(n) /\ Awaited(n) /\ OneFlow(n)
        /\ n.tasks = (u.tasks \ {t}) \cup {x} /\ n.queue = u.queue /\ n.listed = u.listed
        /\ x.do = t.do /\ x.of = t.of /\ x.result = result /\ (t.do = "fetch" => x.list = now)
    BY <1>1, <1>2, ServiceTaskMoves
  <1> HIDE DEF n, x
  <1>4. t.result = "stored" => t.do = "finalize"
    BY <1>1 DEF ServicesTyped
  <1>5. now2 \subseteq Offers
    BY <1>1, <1>4
  <1>6. \A y, z \in u.tasks : y.result = "stored" /\ z.result = "stored" => y = z
    <2>1. \A y \in u.tasks : y.result = "stored" => y.id = u.flow
      BY <1>1 DEF OneFlow, Under, ServicesTyped
    <2> QED
      BY <1>1, <2>1 DEF ServicesTyped
  <1>7. Fetching(n) <=> Fetching(u)
    BY <1>3 DEF Fetching
  <1>8. ASSUME ~slack2 PROVE ListsFollow(n, now2)
    <2>1. /\ ListsFollow(u, now) /\ ~(now2 # now /\ Fetching(u))
          /\ ~(t.do = "fetch" /\ \E y \in u.tasks : y.result = "stored")
      BY <1>8 DEF ServicesOK
    <2>2. ASSUME NEW what PROVE WillFetch(u, what) => WillFetch(n, what)
      BY <1>3 DEF WillFetch
    <2>3. \A y \in n.tasks : y.do = "fetch" /\ y.result = "ok" => (y \in u.tasks /\ ListIs(u, y.list, now)) \/ (y = x /\ t.do = "fetch")
      BY <1>3, <2>1 DEF ListsFollow
    <2>4. \A i \in DOMAIN n.queue : n.queue[i].msg = "fetch" /\ n.queue[i].result = "ok" => ListIs(u, n.queue[i].list, now)
      BY <1>3, <2>1 DEF ListsFollow
    <2>5. ASSUME \A list : ListIs(u, list, now) => ListIs(n, list, now2),
                 t.do = "fetch" => ListIs(n, now, now2)
          PROVE  ListsFollow(n, now2)
      <3>1. \A y \in n.tasks : y.do = "fetch" /\ y.result = "ok" => ListIs(n, y.list, now2)
        BY <1>3, <2>3, <2>5
      <3>2. \A i \in DOMAIN n.queue : n.queue[i].msg = "fetch" /\ n.queue[i].result = "ok" => ListIs(n, n.queue[i].list, now2)
        BY <2>4, <2>5
      <3>3. Fetching(n) \/ WillFetch(n, "disconnect") \/ ListIs(n, n.listed, now2)
        BY <1>3, <1>7, <2>1, <2>2, <2>5 DEF ListsFollow
      <3> QED
        BY <3>1, <3>2, <3>3 DEF ListsFollow
    <2>6. CASE t.result = "stored" /\ result = "ok"
      <3>1. WillFetch(n, "finalize") /\ t.do = "finalize"
        BY <1>3, <1>4, <2>6 DEF WillFetch
      <3> QED
        BY <2>5, <3>1 DEF ListIs
    <2>7. CASE t.result = "stored" /\ result # "ok"
      <3>1. Halfway(u) = {t.of}
        BY <1>6, <2>7 DEF Halfway
      <3>2. Halfway(n) = {}
        BY <1>2, <1>3, <1>6, <2>7 DEF Halfway
      <3>3. now2 = now \ {t.of} /\ t.do = "finalize"
        BY <1>4, <2>7
      <3>4. now2 \ Halfway(n) = now \ Halfway(u)
        BY <3>1, <3>2, <3>3
      <3> QED
        BY <2>2, <2>5, <3>3, <3>4 DEF ListIs
    <2>8. CASE t.result = "none" /\ now2 = now
      <3>1. Halfway(n) = Halfway(u)
        BY <1>2, <1>3, <2>8 DEF Halfway
      <3>2. t.do = "fetch" => Halfway(n) = {}
        BY <2>1, <3>1 DEF Halfway
      <3>3. t.do = "fetch" => now \ Halfway(n) = now
        BY <3>2
      <3>4. \A list : ListIs(u, list, now) => ListIs(n, list, now2)
        BY <2>2, <2>8, <3>1 DEF ListIs
      <3>5. t.do = "fetch" => ListIs(n, now, now2)
        BY <2>8, <3>3 DEF ListIs
      <3> QED
        BY <2>5, <3>4, <3>5
    <2>9. CASE t.result = "none" /\ now2 # now
      <3>1. t.do = "disconnect" /\ result = "ok" /\ ~Fetching(u)
        BY <2>1, <2>9
      <3>2. WillFetch(n, "disconnect")
        BY <1>3, <3>1 DEF WillFetch
      <3> QED
        BY <1>7, <3>1, <3>2 DEF ListsFollow, Fetching
    <2> QED
      BY <2>6, <2>7, <2>8, <2>9
  <1> QED
    BY <1>3, <1>5, <1>8 DEF ServicesOK, n, x

(* A task leaves: its answer waits in the queue, or is that of a cancel,   *)
(* which nobody asks for.                                                  *)
LEMMA ServiceTaskPosts ==
  ASSUME NEW u, NEW now, NEW slack, ServicesOK(u, now, slack),
         NEW t \in u.tasks, t.result \notin {"none", "stored"}
  PROVE  LET rest == [u EXCEPT !.tasks = @ \ {t}]
         IN  ServicesOK(IF t.do = "cancel" THEN rest
                        ELSE Post(rest, [msg |-> t.do, of |-> t.of, result |-> t.result, list |-> t.list]), now, slack)
  <1> DEFINE m == [msg |-> t.do, of |-> t.of, result |-> t.result, list |-> t.list]
             rest == [u EXCEPT !.tasks = @ \ {t}]
             n == IF t.do = "cancel" THEN rest ELSE Post(rest, m)
             q == IF t.do = "cancel" THEN u.queue ELSE Append(u.queue, m)
  <1>1. ServicesTyped(u) /\ Awaited(u) /\ OneFlow(u) /\ now \subseteq Offers /\ u \in ServicesPages
    BY DEF ServicesOK, ServicesTyped
  <1>2. t \in ServiceTasks /\ u.queue \in Seq(ServiceMsgs)
    BY <1>1 DEF ServicesPages
  <1>3. n = [u EXCEPT !.tasks = @ \ {t}, !.queue = q]
    BY <1>1 DEF Post, ServicesPages
  <1>4. /\ m.msg = t.do /\ m.of = t.of /\ m.result = t.result /\ m.list = t.list
        /\ t.do # "cancel" => m \in ServiceMsgs
    <2>1. t.do # "cancel" => m \in [msg : ServiceWork \ {"cancel"}, of : MaybeOffer, result : ServiceResults, list : SUBSET Offers]
      BY <1>2 DEF ServiceTasks
    <2> QED
      BY <2>1 DEF ServiceMsgs
  <1> HIDE DEF m, n
  <1>5. /\ q \in Seq(ServiceMsgs)
        /\ \A i \in DOMAIN u.queue : i \in DOMAIN q /\ q[i] = u.queue[i]
        /\ t.do # "cancel" => \E i \in DOMAIN q : q[i] = m
        /\ \A i \in DOMAIN q : (i \in DOMAIN u.queue /\ q[i] = u.queue[i]) \/ (q[i] = m /\ t.do # "cancel")
    <2>1. CASE t.do = "cancel"
      BY <1>2, <2>1
    <2>2. CASE t.do # "cancel"
      <3> DEFINE z == Append(u.queue, m)
      <3>1. /\ z \in Seq(ServiceMsgs)
            /\ \A i \in DOMAIN u.queue : i \in DOMAIN z /\ z[i] = u.queue[i]
            /\ \E i \in DOMAIN z : z[i] = m
            /\ \A i \in DOMAIN z : (i \in DOMAIN u.queue /\ z[i] = u.queue[i]) \/ z[i] = m
        BY <1>2, <1>4, <2>2, QueueAppend
      <3>2. q = z
        BY <2>2
      <3> HIDE DEF q, z
      <3> QED
        BY <2>2, <3>1, <3>2
    <2> QED
      BY <2>1, <2>2
  <1> HIDE DEF q
  <1>6. /\ n \in ServicesPages /\ n.tasks = u.tasks \ {t} /\ n.queue = q /\ n.listed = u.listed
        /\ n.dialog = u.dialog /\ n.connecting = u.connecting /\ n.flow = u.flow /\ n.made = u.made
    BY <1>1, <1>3, <1>5 DEF ServicesPages
  <1>7. \A i \in DOMAIN n.queue :
          n.queue[i].msg \in {"ConnectClicked", "ConnectionSubmitted", "init", "finalize"} => n.queue[i].of \in Offers
    <2>1. t.do \in {"init", "finalize"} => t.of \in Offers
      BY <1>1 DEF ServicesTyped
    <2>2. t.do \notin {"ConnectClicked", "ConnectionSubmitted"}
      BY <1>2 DEF ServiceTasks, ServiceWork
    <2> QED
      BY <1>1, <1>4, <1>5, <1>6, <2>1, <2>2 DEF ServicesTyped
  <1>8. ServicesTyped(n)
    BY <1>1, <1>6, <1>7 DEF ServicesTyped
  <1>9. Awaited(n)
    BY <1>1, <1>4, <1>5, <1>6 DEF Awaited
  <1>10. OneFlow(n)
    BY <1>1, <1>6 DEF OneFlow
  <1>11. Halfway(n) = Halfway(u)
    BY <1>6 DEF Halfway
  <1>12. ASSUME NEW what, what # "cancel" PROVE WillFetch(u, what) => WillFetch(n, what)
    BY <1>4, <1>5, <1>6, <1>12 DEF WillFetch
  <1>13. Fetching(u) => Fetching(n)
    BY <1>4, <1>5, <1>6 DEF Fetching
  <1>14. \A list : ListIs(u, list, now) => ListIs(n, list, now)
    BY <1>11, <1>12 DEF ListIs
  <1>15. ASSUME ListsFollow(u, now) PROVE ListsFollow(n, now)
    <2>1. \A y \in n.tasks : y.do = "fetch" /\ y.result = "ok" => ListIs(n, y.list, now)
      BY <1>6, <1>14, <1>15 DEF ListsFollow
    <2>2. \A i \in DOMAIN n.queue : n.queue[i].msg = "fetch" /\ n.queue[i].result = "ok" => ListIs(n, n.queue[i].list, now)
      BY <1>4, <1>5, <1>6, <1>14, <1>15 DEF ListsFollow
    <2>3. Fetching(n) \/ WillFetch(n, "disconnect") \/ ListIs(n, n.listed, now)
      BY <1>6, <1>12, <1>13, <1>14, <1>15 DEF ListsFollow
    <2> QED
      BY <2>1, <2>2, <2>3 DEF ListsFollow
  <1> QED
    BY <1>1, <1>8, <1>9, <1>10, <1>15 DEF ServicesOK, n, m

(* The user acts on an empty queue.                                        *)
LEMMA ServiceClicked ==
  ASSUME NEW u, NEW now, NEW slack, ServicesOK(u, now, slack), u.queue = <<>>,
         NEW d \in {u.dialog, "none"}, d \notin {"loading", "challenge"},
         NEW m, m \in [msg : {"ConnectClicked", "ConnectionSubmitted", "DialogClosed", "DisconnectConfirmed"}, of : MaybeOffer],
         m.msg \in {"ConnectClicked", "ConnectionSubmitted"} => m.of \in Offers
  PROVE  ServicesOK(Post([u EXCEPT !.dialog = d], m), now, slack)
  <1> DEFINE q == Append(u.queue, m)
             n == Post([u EXCEPT !.dialog = d], m)
  <1>1. ServicesTyped(u) /\ OneFlow(u) /\ now \subseteq Offers /\ u \in ServicesPages
    BY DEF ServicesOK, ServicesTyped
  <1>2. n = [u EXCEPT !.dialog = d, !.queue = q]
    BY <1>1 DEF Post, ServicesPages
  <1>3. m \in ServiceMsgs /\ m.msg \notin {"init", "finalize", "fetch", "disconnect"}
    BY DEF ServiceMsgs
  <1>4. q \in Seq(ServiceMsgs) /\ (\A i \in DOMAIN q : q[i] = m) /\ DOMAIN u.queue = {}
    <2>1. u.queue \in Seq(ServiceMsgs)
      BY <1>1 DEF ServicesPages
    <2> QED
      BY <1>3, <2>1
  <1> HIDE DEF q, n
  <1>5. /\ n \in ServicesPages /\ n.tasks = u.tasks /\ n.queue = q /\ n.listed = u.listed
        /\ n.dialog = d /\ n.connecting = u.connecting /\ n.flow = u.flow /\ n.made = u.made
    BY <1>1, <1>2, <1>4 DEF ServicesPages
  <1>6. ServicesTyped(n)
    BY <1>1, <1>3, <1>4, <1>5 DEF ServicesTyped
  <1>7. Awaited(n) /\ OneFlow(n)
    BY <1>1, <1>5 DEF Awaited, OneFlow
  <1>8. Halfway(n) = Halfway(u)
    BY <1>5 DEF Halfway
  <1>9. /\ WillFetch(n, "finalize") <=> WillFetch(u, "finalize")
        /\ WillFetch(n, "disconnect") <=> WillFetch(u, "disconnect")
    BY <1>3, <1>4, <1>5 DEF WillFetch
  <1>10. Fetching(n) <=> Fetching(u)
    BY <1>3, <1>4, <1>5 DEF Fetching
  <1>11. \A list : ListIs(u, list, now) => ListIs(n, list, now)
    BY <1>8, <1>9 DEF ListIs
  <1>12. ListsFollow(u, now) => ListsFollow(n, now)
    BY <1>3, <1>4, <1>5, <1>9, <1>10, <1>11 DEF ListsFollow
  <1> QED
    BY <1>1, <1>6, <1>7, <1>12 DEF ServicesOK, n

(* The page as it is opened.                                               *)
LEMMA ServicesInit == ServicesPageInit => ServicesInv
  <1> SUFFICES ASSUME ServicesPageInit PROVE ServicesInv
    OBVIOUS
  <1>1. /\ sp = [connecting |-> NoBackend, dialog |-> "none",
                 flow |-> 0, made |-> 0, queue |-> <<>>, tasks |-> {}, listed |-> {}]
        /\ linked = {}
    BY DEF ServicesPageInit, ServicesPageRest
  <1>2. sp \in ServicesPages /\ DOMAIN sp.queue = {} /\ sp.tasks = {} /\ sp.dialog = "none" /\ sp.listed = {} /\ sp.flow <= sp.made
    BY <1>1 DEF ServicesPages, MaybeOffer
  <1>3. ServicesTyped(sp) /\ Awaited(sp) /\ OneFlow(sp)
    BY <1>2 DEF ServicesTyped, Awaited, OneFlow
  <1>4. ListsFollow(sp, linked)
    BY <1>1, <1>2 DEF ListsFollow, ListIs, Halfway
  <1> QED
    BY <1>1, <1>3, <1>4 DEF ServicesInv, ServicesOK

(* The page goes on.                                                       *)
LEMMA ServicesNext == ServicesInv /\ [ServicesPageNext]_servicesPageVars => ServicesInv'
  <1> SUFFICES ASSUME ServicesInv, [ServicesPageNext]_servicesPageVars PROVE ServicesInv'
    OBVIOUS
  <1>1. ServicesOK(sp, linked, loose) /\ sp \in ServicesPages /\ ServicesTyped(sp)
    BY DEF ServicesInv, ServicesOK, ServicesTyped
  <1>2. CASE ReactOnPage
    <2>1. sp.queue # <<>> /\ sp' = Reacted(sp) /\ linked' = linked /\ (~loose' => ~loose /\ ~Crosses(sp))
      BY <1>2 DEF ReactOnPage, Reacted, Crosses
    <2>2. ServicesOK(Reacted(sp), linked, loose')
      BY <1>1, <2>1, ServiceReacts
    <2> QED
      BY <2>1, <2>2 DEF ServicesInv
  <1>3. ASSUME NEW t \in sp.tasks, TaskStores(t) PROVE ServicesInv'
    <2>1. /\ t.do = "finalize" /\ t.result = "none" /\ t.of \notin linked
          /\ sp' = Moving(sp, t, "stored", linked) /\ linked' = linked \cup {t.of} /\ loose' = loose
      BY <1>3 DEF TaskStores, Finish, Moving, Moved
    <2>2. ServicesOK(Moving(sp, t, "stored", linked), linked \cup {t.of}, loose)
      BY <1>1, <2>1, ServiceTaskStores
    <2> QED
      BY <2>1, <2>2 DEF ServicesInv
  <1>4. ASSUME NEW t \in sp.tasks, TaskPosts(t) PROVE ServicesInv'
    <2> DEFINE rest == [sp EXCEPT !.tasks = @ \ {t}]
               n == IF t.do = "cancel" THEN rest
                    ELSE Post(rest, [msg |-> t.do, of |-> t.of, result |-> t.result, list |-> t.list])
    <2>1. t.result \notin {"none", "stored"} /\ sp' = n /\ linked' = linked /\ loose' = loose
      BY <1>4 DEF TaskPosts
    <2>2. ServicesOK(n, linked, loose)
      BY <1>1, <2>1, ServiceTaskPosts
    <2> HIDE DEF n
    <2> QED
      BY <2>1, <2>2 DEF ServicesInv
  <1>5. ASSUME NEW t \in sp.tasks, NEW result \in {"device", "manual", "ok", "failed"}, TaskFinishes(t, result)
        PROVE  ServicesInv'
    <2>1. sp' = Moving(sp, t, result, linked) /\ result \in Results(t.do)
      BY <1>5 DEF TaskFinishes, Finish, Moving, Moved
    <2>2. ~loose' => /\ ~loose /\ ~(linked' # linked /\ Fetching(sp))
                     /\ ~(t.do = "fetch" /\ \E y \in sp.tasks : y.result = "stored")
      BY <1>5 DEF TaskFinishes
    <2>3. t.result = "stored" => t.do = "finalize"
      BY <1>1 DEF ServicesTyped
    <2>4. /\ t.result \in {"none", "stored"}
          /\ t.do = "finalize" /\ t.result = "none" => result = "failed" /\ linked' = linked
          /\ t.result = "stored" => linked' = IF result = "ok" THEN linked ELSE linked \ {t.of}
          /\ t.do = "disconnect" => linked' = IF result = "ok" THEN linked \ {t.of} ELSE linked
          /\ t.do \notin {"finalize", "disconnect"} => linked' = linked
      <3>1. CASE t.do = "finalize"
        BY <1>5, <3>1 DEF TaskFinishes
      <3>2. CASE t.do = "disconnect"
        BY <1>5, <2>3, <3>2 DEF TaskFinishes
      <3>3. CASE t.do \notin {"finalize", "disconnect"}
        BY <1>5, <2>3, <3>3 DEF TaskFinishes
      <3> QED
        BY <3>1, <3>2, <3>3
    <2>5. t.do = "disconnect" => result \in {"ok", "failed"}
      BY <2>1 DEF Results
    <2>6. ServicesOK(Moving(sp, t, result, linked), linked', loose')
      BY <1>1, <2>2, <2>4, <2>5, ServiceTaskFinishes
    <2> QED
      BY <2>1, <2>6 DEF ServicesInv
  <1>6. ASSUME NEW d \in {sp.dialog, "none"}, d \notin {"loading", "challenge"}, NEW what, NEW b \in MaybeOffer,
               what \in {"ConnectClicked", "ConnectionSubmitted", "DialogClosed", "DisconnectConfirmed"},
               what \in {"ConnectClicked", "ConnectionSubmitted"} => b \in Offers,
               ActOn(Post([sp EXCEPT !.dialog = d], [msg |-> what, of |-> b]))
        PROVE  ServicesInv'
    <2> DEFINE m == [msg |-> what, of |-> b]
               n == Post([sp EXCEPT !.dialog = d], m)
    <2>1. sp.queue = <<>> /\ sp' = n /\ linked' = linked /\ loose' = loose
      BY <1>6 DEF ActOn, Act
    <2>2. /\ m \in [msg : {"ConnectClicked", "ConnectionSubmitted", "DialogClosed", "DisconnectConfirmed"}, of : MaybeOffer]
          /\ m.msg \in {"ConnectClicked", "ConnectionSubmitted"} => m.of \in Offers
      BY <1>6
    <2> HIDE DEF m
    <2>3. ServicesOK(n, linked, loose)
      BY <1>1, <1>6, <2>1, <2>2, ServiceClicked
    <2> HIDE DEF n
    <2> QED
      BY <2>1, <2>3 DEF ServicesInv
  <1>7. [sp EXCEPT !.dialog = sp.dialog] = sp
    BY <1>1 DEF ServicesPages
  <1>8. Offers \subseteq MaybeOffer /\ sp.connecting \in MaybeOffer /\ (sp.dialog # "none" => sp.connecting \in Offers)
    BY <1>1 DEF ServicesPages, ServicesTyped, MaybeOffer
  <1>9. ASSUME NEW b \in Offers, ClickConnect(b) PROVE ServicesInv'
    <2>1. sp.dialog = "none" /\ ActOn(Post([sp EXCEPT !.dialog = sp.dialog], [msg |-> "ConnectClicked", of |-> b]))
      BY <1>7, <1>9 DEF ClickConnect
    <2> QED
      BY <1>6, <1>8, <2>1
  <1>10. ASSUME NEW b \in Offers, Confirm(b) PROVE ServicesInv'
    <2>1. sp.dialog = "none" /\ ActOn(Post([sp EXCEPT !.dialog = sp.dialog], [msg |-> "DisconnectConfirmed", of |-> b]))
      BY <1>7, <1>10 DEF Confirm
    <2> QED
      BY <1>6, <1>8, <2>1
  <1>11. CASE SubmitKey
    <2>1. sp.dialog = "manual" /\ ActOn(Post([sp EXCEPT !.dialog = sp.dialog], [msg |-> "ConnectionSubmitted", of |-> sp.connecting]))
      BY <1>7, <1>11 DEF SubmitKey
    <2> QED
      BY <1>6, <1>8, <2>1
  <1>12. CASE CloseConnection
    <2>1. ActOn(Post([sp EXCEPT !.dialog = "none"], [msg |-> "DialogClosed", of |-> sp.connecting]))
      BY <1>12 DEF CloseConnection
    <2> QED
      BY <1>6, <1>8, <2>1
  <1>13. CASE UNCHANGED <<sp, linked, loose>>
    BY <1>13 DEF ServicesInv
  <1>14. ASSUME NEW p \in GrantedPrefixes, DeletePermission(p) PROVE ServicesInv'
    BY <1>13, <1>14 DEF DeletePermission
  <1>15. ASSUME NEW t \in perm.tasks, PermissionsLoaded(t) PROVE ServicesInv'
    BY <1>13, <1>15 DEF PermissionsLoaded
  <1>16. ASSUME NEW t \in perm.tasks, NEW ok \in BOOLEAN, DeleteFinished(t, ok) PROVE ServicesInv'
    BY <1>13, <1>16 DEF DeleteFinished
  <1>17. CASE LoadPermissions
    BY <1>13, <1>17 DEF LoadPermissions
  <1>18. CASE UNCHANGED servicesPageVars
    BY <1>13, <1>18 DEF servicesPageVars
  <1> QED
    BY <1>2, <1>3, <1>4, <1>5, <1>9, <1>10, <1>11, <1>12, <1>14, <1>15, <1>16, <1>17, <1>18 DEF ServicesPageNext

(* The invariant says what SettingsSettle promises of the services.        *)
LEMMA ServicesSettle ==
  ServicesInv => ConnectionIsAnswered /\ (sp.queue = <<>> /\ sp.tasks = {} /\ ~loose => sp.listed = linked)
  <1> SUFFICES ASSUME ServicesInv
               PROVE  ConnectionIsAnswered /\ (sp.queue = <<>> /\ sp.tasks = {} /\ ~loose => sp.listed = linked)
    OBVIOUS
  <1>1. ConnectionIsAnswered
    BY DEF ServicesInv, ServicesOK, Awaited, OneFlow, Under, ConnectionIsAnswered
  <1>2. ASSUME sp.queue = <<>>, sp.tasks = {}, ~loose PROVE sp.listed = linked
    <2>1. DOMAIN sp.queue = {} /\ Halfway(sp) = {}
      BY <1>2 DEF Halfway
    <2>2. ListsFollow(sp, linked) /\ ~Fetching(sp) /\ ~WillFetch(sp, "disconnect") /\ ~WillFetch(sp, "finalize")
      BY <1>2, <2>1 DEF ServicesInv, ServicesOK, Fetching, WillFetch
    <2>3. sp.listed = linked \ Halfway(sp)
      BY <2>2 DEF ListsFollow, ListIs
    <2> QED
      BY <2>1, <2>3
  <1> QED
    BY <1>1, <1>2

-----------------------------------------------------------------------------
(* The permissions, and all the settings.                                  *)

(* The page goes on: a delete under way is for each row that is being      *)
(* deleted, and unless a delete crossed it, a list that is read is the one *)
(* that is stored.                                                         *)
LEMMA PermissionsNext ==
  PermissionsInv /\ [ServicesPageNext]_servicesPageVars => PermissionsInv'
  <1> SUFFICES ASSUME PermissionsInv, [ServicesPageNext]_servicesPageVars PROVE PermissionsInv'
    OBVIOUS
  <1>1. ASSUME NEW p \in GrantedPrefixes, DeletePermission(p) PROVE PermissionsInv'
    <2> DEFINE x == [do |-> "delete", of |-> p, list |-> {}]
    <2>1. x \in PermTasks /\ x.do = "delete" /\ x.of = p
      BY DEF PermTasks
    <2>2. /\ kept' = kept
          /\ perm' = [perm EXCEPT !.deleting = @ \cup {p}, !.tasks = @ \cup {x}]
      BY <1>1 DEF DeletePermission
    <2> HIDE DEF x
    <2>3. /\ perm'.rows = perm.rows /\ perm'.deleting = perm.deleting \cup {p}
          /\ perm'.tasks = perm.tasks \cup {x} /\ perm'.late = perm.late
          /\ perm' \in [rows : SUBSET GrantedPrefixes, deleting : SUBSET GrantedPrefixes,
                        tasks : SUBSET PermTasks, late : BOOLEAN]
      BY <2>1, <2>2 DEF PermissionsInv
    <2> QED
      BY <2>1, <2>2, <2>3 DEF PermissionsInv
  <1>2. ASSUME NEW t \in perm.tasks, PermissionsLoaded(t) PROVE PermissionsInv'
    <2>1. /\ kept' = kept /\ t.do = "load" /\ t.list \subseteq GrantedPrefixes
          /\ perm' = [perm EXCEPT !.tasks = @ \ {t}, !.rows = t.list, !.deleting = @ \cap t.list]
      BY <1>2 DEF PermissionsLoaded, PermissionsInv, PermTasks
    <2>2. /\ perm'.rows = t.list /\ perm'.deleting = perm.deleting \cap t.list
          /\ perm'.tasks = perm.tasks \ {t} /\ perm'.late = perm.late
          /\ perm' \in [rows : SUBSET GrantedPrefixes, deleting : SUBSET GrantedPrefixes,
                        tasks : SUBSET PermTasks, late : BOOLEAN]
      BY <2>1 DEF PermissionsInv
    <2> QED
      BY <2>1, <2>2 DEF PermissionsInv
  <1>3. ASSUME NEW t \in perm.tasks, NEW ok \in BOOLEAN, DeleteFinished(t, ok) PROVE PermissionsInv'
    <2> DEFINE rows == IF ok THEN perm.rows \ {t.of} ELSE perm.rows
               late == perm.late \/ (\E o \in perm.tasks : o.do = "load")
    <2>1. /\ kept' = (IF ok THEN kept \ {t.of} ELSE kept) /\ t.do = "delete"
          /\ perm' = [perm EXCEPT !.tasks = @ \ {t}, !.deleting = @ \ {t.of}, !.rows = rows, !.late = late]
      BY <1>3 DEF DeleteFinished
    <2>2. rows \in SUBSET GrantedPrefixes /\ late \in BOOLEAN
      BY DEF PermissionsInv
    <2>3. /\ late <=> perm.late \/ (\E o \in perm.tasks : o.do = "load")
          /\ rows = IF ok THEN perm.rows \ {t.of} ELSE perm.rows
      OBVIOUS
    <2> HIDE DEF rows, late
    <2>4. /\ perm'.rows = rows /\ perm'.deleting = perm.deleting \ {t.of}
          /\ perm'.tasks = perm.tasks \ {t} /\ perm'.late = late
          /\ perm' \in [rows : SUBSET GrantedPrefixes, deleting : SUBSET GrantedPrefixes,
                        tasks : SUBSET PermTasks, late : BOOLEAN]
      BY <2>1, <2>2 DEF PermissionsInv
    <2> QED
      BY <2>1, <2>3, <2>4 DEF PermissionsInv
  <1>4. CASE LoadPermissions
    <2> DEFINE x == [do |-> "load", of |-> NoBackend, list |-> kept]
    <2>1. x \in PermTasks /\ x.do = "load" /\ x.list = kept
      BY DEF PermTasks, PermissionsInv
    <2>2. kept' = kept /\ perm' = [perm EXCEPT !.tasks = @ \cup {x}]
      BY <1>4 DEF LoadPermissions
    <2> HIDE DEF x
    <2>3. /\ perm'.rows = perm.rows /\ perm'.deleting = perm.deleting
          /\ perm'.tasks = perm.tasks \cup {x} /\ perm'.late = perm.late
          /\ perm' \in [rows : SUBSET GrantedPrefixes, deleting : SUBSET GrantedPrefixes,
                        tasks : SUBSET PermTasks, late : BOOLEAN]
      BY <2>1, <2>2 DEF PermissionsInv
    <2> QED
      BY <2>1, <2>2, <2>3 DEF PermissionsInv
  <1>5. CASE UNCHANGED <<perm, kept>>
    BY <1>5 DEF PermissionsInv
  <1>6. ASSUME NEW t \in sp.tasks, TaskStores(t) \/ TaskPosts(t) PROVE PermissionsInv'
    BY <1>5, <1>6 DEF TaskStores, TaskPosts
  <1>7. ASSUME NEW t \in sp.tasks, NEW r \in {"device", "manual", "ok", "failed"}, TaskFinishes(t, r) PROVE PermissionsInv'
    BY <1>5, <1>7 DEF TaskFinishes
  <1>8. ASSUME NEW b \in Offers, ClickConnect(b) \/ Confirm(b) PROVE PermissionsInv'
    BY <1>5, <1>8 DEF ClickConnect, Confirm, ActOn
  <1>9. CASE ReactOnPage \/ SubmitKey \/ CloseConnection \/ UNCHANGED servicesPageVars
    BY <1>5, <1>9 DEF ReactOnPage, SubmitKey, CloseConnection, ActOn, servicesPageVars
  <1> QED
    BY <1>1, <1>2, <1>3, <1>4, <1>6, <1>7, <1>8, <1>9 DEF ServicesPageNext

(* Nobody is locked in by a dialog of the settings, and when all is quiet  *)
(* they show what is stored, for any plugins, backends and permissions and *)
(* any number of inputs (PluginsPage::run, ServicesPage::run).             *)
THEOREM SettingsSettleAlways == SettingsSpec => []SettingsSettle
  <1> DEFINE Inv == PluginsInv /\ ServicesInv /\ PermissionsInv
  <1>1. SettingsInit => Inv
    <2>1. ServicesPageInit => PermissionsInv
      BY DEF ServicesPageInit, ServicesPageRest, PermissionsInv
    <2> QED
      BY <2>1, PluginsInit, ServicesInit DEF SettingsInit
  <1>2. Inv /\ [SettingsNext]_<<pageVars, servicesPageVars>> => Inv'
    <2>1. [SettingsNext]_<<pageVars, servicesPageVars>> =>
            [PageNext]_pageVars /\ [ServicesPageNext]_servicesPageVars
      BY DEF SettingsNext
    <2> QED
      BY <2>1, PluginsNext, ServicesNext, PermissionsNext
  <1>3. Inv => SettingsSettle
    <2>1. PermissionsInv => (perm.tasks = {} => perm.deleting = {} /\ (~perm.late => perm.rows = kept))
      BY DEF PermissionsInv
    <2> QED
      BY <2>1, PluginsSettle, ServicesSettle DEF SettingsSettle, PagesAgree
  <1> QED
    BY <1>1, <1>2, <1>3, PTL DEF SettingsSpec

-----------------------------------------------------------------------------
(* The input: values that are made step by step.                           *)

(* A set of naturals that is not empty has a least member.                 *)
LEMMA Least ==
  ASSUME NEW T \in SUBSET Nat, T # {}
  PROVE  \E x \in T : \A y \in T : x <= y
  <1> DEFINE R == OpToRel(<, Nat)
  <1>1. IsWellFoundedOn(R, Nat)
    BY NatLessThanWellFounded
  <1>2. R = {ss \in Nat \X Nat : ss[1] < ss[2]}
    BY DEF OpToRel
  <1> HIDE DEF R
  <1>3. PICK x \in T : \A y \in T : ~(<<y, x>> \in R)
    BY <1>1, WFMin
  <1>4. \A y \in T : ~(y < x)
    <2> SUFFICES ASSUME NEW y \in T, y < x PROVE FALSE
      OBVIOUS
    <2>1. <<y, x>> \in {ss \in Nat \X Nat : ss[1] < ss[2]}
      OBVIOUS
    <2> QED
      BY <2>1, <1>2, <1>3
  <1> QED
    BY <1>4


(* A set with a number that has the next of each below a bound has all.    *)
LEMMA UpFrom ==
  ASSUME NEW a \in Nat, NEW b \in Nat, NEW S, a \in S, \A n \in S \cap (a..b) : n < b => n + 1 \in S
  PROVE  a..b \subseteq S
  <1> SUFFICES ASSUME (a..b) \ S # {} PROVE FALSE
    OBVIOUS
  <1>1. PICK x \in (a..b) \ S : \A y \in (a..b) \ S : x <= y
    <2>1. (a..b) \ S \in SUBSET Nat
      OBVIOUS
    <2> QED
      BY <2>1, Least
  <1>2. x - 1 \in a..b /\ x - 1 < b /\ x - 1 \in S
    BY <1>1
  <1> QED
    BY <1>1, <1>2

(* A value that is made step by step exists, where the steps lead from one *)
(* level to the next.                                                      *)
Leads(step, L, S, a, b) ==
    /\ L \in [a..b -> SUBSET S] /\ step \in [(a + 1)..b -> [S -> S]]
    /\ \A i \in (a + 1)..b : \A t \in L[i - 1] : step[i][t] \in L[i]
Steps(f, step, a, b, start) == f[a] = start /\ \A i \in (a + 1)..b : f[i] = step[i][f[i - 1]]

LEMMA Climbs ==
  ASSUME NEW a \in Nat, NEW b \in Nat, a <= b, NEW S, NEW L, NEW start \in L[a], NEW step,
         Leads(step, L, S, a, b)
  PROVE  \E f \in [a..b -> S] : Steps(f, step, a, b, start)
  <1>0. /\ L \in [a..b -> SUBSET S] /\ step \in [(a + 1)..b -> [S -> S]]
        /\ \A i \in (a + 1)..b : \A t \in L[i - 1] : step[i][t] \in L[i]
    BY DEF Leads
  <1> DEFINE Made(m, f) == /\ f[a] = start
                           /\ \A i \in (a + 1)..m : f[i] = step[i][f[i - 1]]
                           /\ f[m] \in L[m]
             T == {m \in a..b : \E f \in [a..m -> S] : Made(m, f)}
  <1>1. a \in T
    <2> DEFINE g == [i \in a..a |-> start]
    <2>1. g \in [a..a -> S] /\ Made(a, g) /\ a \in a..b
      BY <1>0
    <2> HIDE DEF g
    <2> QED
      BY <2>1
  <1>2. ASSUME NEW m \in T \cap (a..b), m < b PROVE m + 1 \in T
    <2>1. PICK f \in [a..m -> S] : Made(m, f)
      BY <1>2
    <2> DEFINE next == step[m + 1][f[m]]
               g == [i \in a..(m + 1) |-> IF i = m + 1 THEN next ELSE f[i]]
    <2>2. m \in Nat /\ m + 1 \in (a + 1)..b /\ m \in a..m /\ m \in a..b /\ (m + 1) - 1 = m /\ m + 1 \in a..b
      BY <1>2
    <2>3. next \in L[m + 1] /\ next \in S
      <3>1. f[m] \in L[m]
        BY <2>1
      <3>2. next \in L[m + 1]
        BY <1>0, <2>2, <3>1
      <3> QED
        BY <1>0, <2>2, <3>2
    <2> HIDE DEF next
    <2>4. g \in [a..(m + 1) -> S]
      BY <2>2, <2>3
    <2>5. g[m + 1] = next /\ \A i \in a..m : g[i] = f[i]
      BY <2>2
    <2> HIDE DEF g
    <2>6. ASSUME NEW i \in (a + 1)..(m + 1) PROVE g[i] = step[i][g[i - 1]]
      <3>1. CASE i = m + 1
        BY <2>2, <2>5, <3>1 DEF next
      <3>2. CASE i # m + 1
        <4>1. i \in (a + 1)..m /\ i \in a..m /\ i - 1 \in a..m
          BY <2>2, <3>2
        <4> QED
          BY <2>1, <2>5, <4>1
      <3> QED
        BY <3>1, <3>2
    <2>7. g[a] = start
      BY <2>1, <2>2, <2>5
    <2>8. Made(m + 1, g)
      BY <2>3, <2>5, <2>6, <2>7
    <2> QED
      BY <2>2, <2>4, <2>8
  <1>3. b \in T
    <2> HIDE DEF T
    <2>1. a..b \subseteq T
      BY <1>1, <1>2, UpFrom
    <2> QED
      BY <2>1
  <1> QED
    BY <1>3 DEF Steps

-----------------------------------------------------------------------------
(* Composer: the sequences a prompt is made of.                            *)

(* A sequence is a function on its positions.                              *)
LEMMA FromPositions ==
  ASSUME NEW S, NEW n \in Nat, NEW s \in [1..n -> S]
  PROVE  s \in Seq(S) /\ Len(s) = n
  OBVIOUS

(* A sequence that is appended to after another.                           *)
LEMMA JoinAppend ==
  ASSUME NEW S, NEW a \in Seq(S), NEW b \in Seq(S), NEW x \in S
  PROVE  a \o Append(b, x) = Append(a \o b, x)
  <1>1. Append(b, x) = b \o <<x>> /\ <<x>> \in Seq(S)
    BY AppendIsConcat
  <1>2. a \o b \in Seq(S) /\ Append(a \o b, x) = (a \o b) \o <<x>>
    BY ConcatProperties, AppendIsConcat
  <1>3. a \o (b \o <<x>>) = (a \o b) \o <<x>>
    BY <1>1, ConcatAssociative
  <1> QED
    BY <1>1, <1>2, <1>3

(* What of a sequence is in a set.                                         *)
LEMMA SiftedIs ==
  ASSUME NEW S, NEW s \in Seq(S), NEW from \in Nat \ {0}, NEW T
  PROVE  \A i \in 0..Len(s) :
            /\ Sifted(s, from, i, T) \in Seq(S)
            /\ i < from => Sifted(s, from, i, T) = <<>>
            /\ i >= from => /\ s[i] \in T => Sifted(s, from, i, T) = Append(Sifted(s, from, i - 1, T), s[i])
                            /\ s[i] \notin T => Sifted(s, from, i, T) = Sifted(s, from, i - 1, T)
  <1> DEFINE n == Len(s)
             Q == Seq(S)
             body(f) == [i \in 0..n |-> IF i < from THEN <<>> ELSE IF s[i] \in T THEN Append(f[i - 1], s[i]) ELSE f[i - 1]]
             upTo == CHOOSE f : f = body(f)
             One(i, q) == IF i < from THEN <<>> ELSE IF s[i] \in T THEN Append(q, s[i]) ELSE q
             L == [i \in 0..n |-> Q]
             step == [i \in (0 + 1)..n |-> [q \in Q |-> One(i, q)]]
  <1>1. \A i : Sifted(s, from, i, T) = upTo[i]
    BY DEF Sifted
  <1>2. n \in Nat /\ 0 \in Nat /\ 0 <= n /\ 0 < from
    OBVIOUS
  <1>3. \A i \in 1..n : s[i] \in S
    OBVIOUS
  <1>4. ASSUME NEW i \in 1..n, NEW q \in Q PROVE One(i, q) \in Q
    <2>1. s[i] \in S
      BY <1>3
    <2>2. Append(q, s[i]) \in Q /\ <<>> \in Q
      BY <2>1
    <2> QED
      BY <2>2
  <1>5. <<>> \in Q
    OBVIOUS
  <1> HIDE DEF n, One, Q
  <1>6. L \in [0..n -> SUBSET Q] /\ L[0] = Q
    BY <1>2
  <1>7. step \in [(0 + 1)..n -> [Q -> Q]] /\ \A i \in 1..n : \A q \in Q : step[i][q] = One(i, q)
    BY <1>4
  <1>8. \A i \in (0 + 1)..n : \A t \in L[i - 1] : step[i][t] \in L[i]
    <2> SUFFICES ASSUME NEW i \in (0 + 1)..n, NEW t \in L[i - 1] PROVE step[i][t] \in L[i]
      OBVIOUS
    <2>1. i - 1 \in 0..n /\ i \in 0..n /\ i \in 1..n
      BY <1>2
    <2>2. t \in Q /\ L[i] = Q
      BY <2>1
    <2> QED
      BY <1>4, <1>7, <2>1, <2>2
  <1> HIDE DEF L, step
  <1>9. PICK g \in [0..n -> Q] : g[0] = <<>> /\ \A i \in (0 + 1)..n : g[i] = step[i][g[i - 1]]
    <2>1. <<>> \in L[0] /\ Leads(step, L, Q, 0, n)
      BY <1>2, <1>5, <1>6, <1>7, <1>8 DEF Leads
    <2>2. \E f \in [0..n -> Q] : Steps(f, step, 0, n, <<>>)
      BY <1>2, <2>1, Climbs
    <2> QED
      BY <2>2 DEF Steps
  <1>10. g = body(g)
    <2>1. ASSUME NEW i \in 0..n PROVE g[i] = body(g)[i]
      <3>1. CASE i = 0
        BY <1>2, <1>9, <3>1
      <3>2. CASE i # 0
        <4>1. i \in 1..n /\ i \in (0 + 1)..n /\ i - 1 \in 0..n
          BY <1>2, <3>2
        <4>2. g[i] = step[i][g[i - 1]] /\ g[i - 1] \in Q
          BY <1>9, <4>1
        <4>3. g[i] = One(i, g[i - 1])
          BY <1>7, <4>1, <4>2
        <4> QED
          BY <4>3 DEF One
      <3> QED
        BY <3>1, <3>2
    <2>2. DOMAIN body(g) = 0..n /\ body(g) = [i \in DOMAIN body(g) |-> body(g)[i]]
      OBVIOUS
    <2> HIDE DEF body
    <2> QED
      BY <2>1, <2>2
  <1>11. upTo = body(upTo)
    <2> HIDE DEF body
    <2> QED
      BY <1>10
  <1> HIDE DEF upTo
  <1>12. /\ upTo[0] = <<>>
         /\ \A i \in 1..n : upTo[i] = One(i, upTo[i - 1])
    <2>1. body(upTo)[0] = <<>> /\ \A i \in 1..n : body(upTo)[i] = One(i, upTo[i - 1])
      BY <1>2 DEF One
    <2> HIDE DEF body
    <2> QED
      BY <1>11, <2>1
  <1> HIDE DEF body
  <1> DEFINE A == {i \in 0..n : upTo[i] \in Q}
  <1>13. 0..n \subseteq A
    <2>1. 0 \in A
      BY <1>2, <1>5, <1>12
    <2>2. ASSUME NEW i \in A \cap (0..n), i < n PROVE i + 1 \in A
      <3>1. i + 1 \in 1..n /\ i + 1 \in 0..n /\ (i + 1) - 1 = i
        BY <1>2, <2>2
      <3>2. upTo[i + 1] = One(i + 1, upTo[i]) /\ upTo[i] \in Q
        BY <1>12, <2>2, <3>1
      <3> QED
        BY <1>4, <3>1, <3>2
    <2> HIDE DEF A
    <2> QED
      BY <1>2, <2>1, <2>2, UpFrom
  <1> SUFFICES ASSUME NEW i \in 0..n
               PROVE  /\ upTo[i] \in Q
                      /\ i < from => upTo[i] = <<>>
                      /\ i >= from => /\ s[i] \in T => upTo[i] = Append(upTo[i - 1], s[i])
                                      /\ s[i] \notin T => upTo[i] = upTo[i - 1]
    BY <1>1 DEF n, Q
  <1>14. upTo[i] \in Q
    BY <1>13
  <1>15. CASE i = 0
    BY <1>2, <1>12, <1>14, <1>15
  <1>16. CASE i # 0
    <2>1. i \in 1..n
      BY <1>2, <1>16
    <2> DEFINE q == upTo[i - 1]
    <2>2. upTo[i] = IF i < from THEN <<>> ELSE IF s[i] \in T THEN Append(q, s[i]) ELSE q
      BY <1>12, <2>1 DEF One
    <2>3. i \in Nat /\ from \in Nat
      BY <1>2, <2>1
    <2> HIDE DEF q
    <2>4. /\ i < from => upTo[i] = <<>>
          /\ i >= from => /\ s[i] \in T => upTo[i] = Append(q, s[i])
                          /\ s[i] \notin T => upTo[i] = q
      BY <2>2, <2>3
    <2> QED
      BY <1>14, <2>4 DEF q
  <1> QED
    BY <1>15, <1>16

(* It keeps what is in the set.                                            *)
LEMMA SiftedSet ==
  ASSUME NEW S, NEW s \in Seq(S), NEW T
  PROVE  AllSifted(s, T) \in Seq(S) /\ ToSet(AllSifted(s, T)) = ToSet(s) \cap T
  <1> DEFINE n == Len(s)
             z(i) == Sifted(s, 1, i, T)
             seen(i) == {s[j] : j \in 1..i} \cap T
             A == {i \in 0..n : \A x : (\E k \in 1..Len(z(i)) : z(i)[k] = x) <=> x \in seen(i)}
  <1>1. n \in Nat /\ \A j \in 1..n : s[j] \in S
    OBVIOUS
  <1>2. \A i \in 0..n : /\ z(i) \in Seq(S)
                        /\ i < 1 => z(i) = <<>>
                        /\ i >= 1 => /\ s[i] \in T => z(i) = Append(z(i - 1), s[i])
                                     /\ s[i] \notin T => z(i) = z(i - 1)
    BY SiftedIs
  <1> HIDE DEF z, n
  <1>3. 0 \in A
    <2>1. z(0) = <<>> /\ seen(0) = {}
      BY <1>1, <1>2
    <2> QED
      BY <1>1, <2>1
  <1>4. ASSUME NEW i \in A \cap (0..n), i < n PROVE i + 1 \in A
    <2>1. i + 1 \in 0..n /\ i + 1 >= 1 /\ (i + 1) - 1 = i /\ i \in Nat /\ z(i) \in Seq(S) /\ s[i + 1] \in S
      BY <1>1, <1>2, <1>4
    <2>2. \A x : (\E k \in 1..Len(z(i)) : z(i)[k] = x) <=> x \in seen(i)
      BY <1>4
    <2>3. \A x : x \in seen(i + 1) <=> x \in seen(i) \/ (x = s[i + 1] /\ x \in T)
      <3>1. 1..(i + 1) = (1..i) \cup {i + 1}
        BY <2>1
      <3> QED
        BY <3>1
    <2> HIDE DEF seen
    <2>4. CASE s[i + 1] \in T
      <3>1. z(i + 1) = Append(z(i), s[i + 1])
        BY <1>2, <2>1, <2>4
      <3>2. /\ Len(Append(z(i), s[i + 1])) = Len(z(i)) + 1 /\ Len(z(i)) \in Nat
            /\ \A k \in 1..Len(z(i)) : Append(z(i), s[i + 1])[k] = z(i)[k]
            /\ Append(z(i), s[i + 1])[Len(z(i)) + 1] = s[i + 1]
        BY <2>1
      <3>3. \A x : (\E k \in 1..Len(z(i + 1)) : z(i + 1)[k] = x) <=> (\E k \in 1..Len(z(i)) : z(i)[k] = x) \/ x = s[i + 1]
        <4>1. 1..(Len(z(i)) + 1) = 1..Len(z(i)) \cup {Len(z(i)) + 1}
          BY <3>2
        <4> QED
          BY <3>1, <3>2, <4>1
      <3> QED
        BY <2>1, <2>2, <2>3, <2>4, <3>3
    <2>5. CASE s[i + 1] \notin T
      <3>1. z(i + 1) = z(i)
        BY <1>2, <2>1, <2>5
      <3> QED
        BY <2>1, <2>2, <2>3, <2>5, <3>1
    <2> QED
      BY <2>4, <2>5
  <1>5. n \in A
    <2> HIDE DEF A
    <2>1. 0..n \subseteq A
      BY <1>1, <1>3, <1>4, UpFrom
    <2> QED
      BY <1>1, <2>1
  <1>6. AllSifted(s, T) = z(n)
    BY DEF AllSifted, z, n
  <1>7. z(n) \in Seq(S) /\ \A x : (\E k \in 1..Len(z(n)) : z(n)[k] = x) <=> x \in seen(n)
    BY <1>1, <1>2, <1>5
  <1>8. seen(n) = ToSet(s) \cap T
    BY DEF ToSet, n
  <1>9. \A x : x \in ToSet(z(n)) <=> \E k \in 1..Len(z(n)) : z(n)[k] = x
    BY <1>7 DEF ToSet
  <1> HIDE DEF seen
  <1> QED
    BY <1>6, <1>7, <1>8, <1>9

(* A stretch that has the same members follows the beginning.              *)
LEMMA SiftedJoins ==
  ASSUME NEW S, NEW s \in Seq(S), NEW T, NEW U, NEW i \in 0..Len(s), NEW j \in i..Len(s),
         \A k \in (i + 1)..j : s[k] \in T <=> s[k] \in U
  PROVE  Sifted(s, 1, i, T) \o Sifted(s, i + 1, j, U) = Sifted(s, 1, j, T)
  <1> DEFINE n == Len(s)
             a == Sifted(s, 1, i, T)
             z(k) == Sifted(s, 1, k, T)
             v(k) == Sifted(s, i + 1, k, U)
             A == {k \in i..j : a \o v(k) = z(k)}
  <1>1. n \in Nat /\ i \in Nat /\ j \in Nat /\ i <= j /\ j <= n /\ \A k \in 1..n : s[k] \in S
    OBVIOUS
  <1>2. \A k \in 0..n : /\ z(k) \in Seq(S)
                        /\ k >= 1 => /\ s[k] \in T => z(k) = Append(z(k - 1), s[k])
                                     /\ s[k] \notin T => z(k) = z(k - 1)
    <2>1. 1 \in Nat \ {0}
      OBVIOUS
    <2>2. \A k \in 0..n : /\ z(k) \in Seq(S)
                          /\ k < 1 => z(k) = <<>>
                          /\ k >= 1 => /\ s[k] \in T => z(k) = Append(z(k - 1), s[k])
                                       /\ s[k] \notin T => z(k) = z(k - 1)
      BY <2>1, SiftedIs
    <2> HIDE DEF z, n
    <2> QED
      BY <2>2
  <1>3. \A k \in 0..n : /\ v(k) \in Seq(S)
                        /\ k < i + 1 => v(k) = <<>>
                        /\ k >= i + 1 => /\ s[k] \in U => v(k) = Append(v(k - 1), s[k])
                                         /\ s[k] \notin U => v(k) = v(k - 1)
    <2>1. i + 1 \in Nat \ {0}
      BY <1>1
    <2> QED
      BY <2>1, SiftedIs
  <1>4. a = z(i) /\ a \in Seq(S)
    BY <1>1, <1>2
  <1> HIDE DEF z, v, n, a
  <1>5. i \in A
    <2>1. v(i) = <<>> /\ i \in i..j
      BY <1>1, <1>3
    <2>2. a \o <<>> = a
      BY <1>4
    <2> QED
      BY <1>4, <2>1, <2>2
  <1>6. ASSUME NEW k \in A \cap (i..j), k < j PROVE k + 1 \in A
    <2>1. /\ k \in Nat /\ k + 1 \in 0..n /\ k + 1 >= i + 1 /\ k + 1 >= 1 /\ (k + 1) - 1 = k /\ k + 1 \in (i + 1)..j
          /\ k + 1 \in i..j /\ k \in 0..n /\ k + 1 \in 1..n
      BY <1>1, <1>6
    <2>2. a \o v(k) = z(k) /\ v(k) \in Seq(S) /\ z(k) \in Seq(S) /\ s[k + 1] \in S
      BY <1>1, <1>2, <1>3, <1>6, <2>1
    <2>3. CASE s[k + 1] \in T
      <3>1. v(k + 1) = Append(v(k), s[k + 1]) /\ z(k + 1) = Append(z(k), s[k + 1])
        BY <1>2, <1>3, <2>1, <2>3
      <3>2. a \o Append(v(k), s[k + 1]) = Append(a \o v(k), s[k + 1])
        <4>1. a \in Seq(S) /\ v(k) \in Seq(S) /\ s[k + 1] \in S
          BY <1>4, <2>2
        <4>2. \A p \in Seq(S), q \in Seq(S), x \in S : p \o Append(q, x) = Append(p \o q, x)
          BY JoinAppend
        <4> HIDE DEF A
        <4> QED
          BY <4>1, <4>2, Zenon
      <3> QED
        BY <2>1, <2>2, <3>1, <3>2
    <2>4. CASE s[k + 1] \notin T
      <3>1. v(k + 1) = v(k) /\ z(k + 1) = z(k)
        BY <1>2, <1>3, <2>1, <2>4
      <3> QED
        BY <2>1, <2>2, <3>1
    <2> QED
      BY <2>3, <2>4
  <1>7. j \in A
    <2> HIDE DEF A
    <2>1. i..j \subseteq A
      BY <1>1, <1>5, <1>6, UpFrom
    <2> QED
      BY <1>1, <2>1
  <1> QED
    BY <1>7 DEF a, v, z

(* The numbers up to n that are in a set, in their order.                  *)
LEMMA InOrder ==
  ASSUME NEW n \in Nat, NEW P, NEW at, at = AllSifted([i \in 1..n |-> i], P)
  PROVE  /\ at \in Seq(1..n)
         /\ ToSet(at) = (1..n) \cap P
         /\ \A k, m \in 1..Len(at) : k < m => at[k] < at[m]
  <1> DEFINE S == 1..n
             s == [i \in 1..n |-> i]
             z(i) == Sifted(s, 1, i, P)
             Rises(q, i) == (\A k \in 1..Len(q) : q[k] <= i) /\ \A k, m \in 1..Len(q) : k < m => q[k] < q[m]
             A == {i \in 0..n : Rises(z(i), i)}
  <1>1. s \in Seq(S) /\ Len(s) = n /\ \A i \in 1..n : s[i] = i
    OBVIOUS
  <1> HIDE DEF s, S
  <1>2. /\ at = AllSifted(s, P)
        /\ at = z(n)
    BY <1>1 DEF s, AllSifted
  <1>3. at \in Seq(S) /\ ToSet(at) = ToSet(s) \cap P
    <2>1. \A T : AllSifted(s, T) \in Seq(S) /\ ToSet(AllSifted(s, T)) = ToSet(s) \cap T
      BY <1>1, SiftedSet
    <2> QED
      BY <1>2, <2>1
  <1>4. ToSet(s) = 1..n
    BY <1>1 DEF ToSet
  <1>5. \A i \in 0..n : /\ z(i) \in Seq(S)
                        /\ i < 1 => z(i) = <<>>
                        /\ i >= 1 => /\ i \in P => z(i) = Append(z(i - 1), i)
                                     /\ i \notin P => z(i) = z(i - 1)
    <2>1. 1 \in Nat \ {0}
      OBVIOUS
    <2>2. \A i \in 0..n : /\ z(i) \in Seq(S)
                          /\ i < 1 => z(i) = <<>>
                          /\ i >= 1 => /\ s[i] \in P => z(i) = Append(z(i - 1), s[i])
                                       /\ s[i] \notin P => z(i) = z(i - 1)
      BY <1>1, <2>1, SiftedIs
    <2> HIDE DEF z
    <2> SUFFICES ASSUME NEW i \in 0..n
                 PROVE  /\ z(i) \in Seq(S)
                        /\ i < 1 => z(i) = <<>>
                        /\ i >= 1 => /\ i \in P => z(i) = Append(z(i - 1), i)
                                     /\ i \notin P => z(i) = z(i - 1)
      OBVIOUS
    <2>3. i >= 1 => s[i] = i
      BY <1>1
    <2> QED
      BY <2>2, <2>3
  <1> HIDE DEF z
  <1>6. 0 \in A
    BY <1>5
  <1>7. ASSUME NEW i \in A \cap (0..n), i < n PROVE i + 1 \in A
    <2>1. i \in Nat /\ i + 1 \in 0..n /\ i + 1 >= 1 /\ (i + 1) - 1 = i
      BY <1>7
    <2>2. z(i) \in Seq(S) /\ Rises(z(i), i) /\ \A k \in 1..Len(z(i)) : z(i)[k] \in Nat
      <3>1. z(i) \in Seq(S) /\ Rises(z(i), i)
        BY <1>5, <1>7
      <3>2. \A k \in 1..Len(z(i)) : z(i)[k] \in S
        BY <3>1
      <3> QED
        BY <3>1, <3>2 DEF S
    <2>3. CASE i + 1 \in P
      <3> DEFINE q == z(i)
                 r == Append(q, i + 1)
      <3>1. z(i + 1) = r
        BY <1>5, <2>1, <2>3
      <3>2. /\ Len(q) \in Nat /\ Len(r) = Len(q) + 1 /\ r[Len(q) + 1] = i + 1
            /\ \A k \in 1..Len(q) : r[k] = q[k]
        BY <2>2
      <3>3. Rises(q, i) /\ \A k \in 1..Len(q) : q[k] \in Nat
        BY <2>2
      <3> HIDE DEF q, r
      <3>4. Rises(r, i + 1)
        <4>1. \A k \in 1..Len(r) : k \in 1..Len(q) \/ k = Len(q) + 1
          BY <3>2
        <4>2. \A k \in 1..Len(q) : r[k] \in Nat /\ r[k] <= i
          BY <3>2, <3>3
        <4>3. \A k \in 1..Len(r) : r[k] <= i + 1
          BY <2>1, <3>2, <4>1, <4>2
        <4>4. ASSUME NEW k \in 1..Len(r), NEW m \in 1..Len(r), k < m PROVE r[k] < r[m]
          <5>1. k \in 1..Len(q)
            BY <3>2, <4>1, <4>4
          <5>2. CASE m \in 1..Len(q)
            BY <3>2, <3>3, <4>4, <5>1, <5>2
          <5>3. CASE m = Len(q) + 1
            BY <2>1, <3>2, <4>2, <5>1, <5>3
          <5> QED
            BY <4>1, <5>2, <5>3
        <4> QED
          BY <4>3, <4>4
      <3> QED
        BY <2>1, <3>1, <3>4
    <2>4. CASE i + 1 \notin P
      <3>1. z(i + 1) = z(i)
        BY <1>5, <2>1, <2>4
      <3>2. \A k \in 1..Len(z(i)) : z(i)[k] <= i + 1
        BY <2>1, <2>2
      <3> QED
        BY <2>1, <2>2, <3>1, <3>2
    <2> QED
      BY <2>3, <2>4
  <1>8. n \in A
    <2> HIDE DEF A
    <2>1. 0..n \subseteq A
      BY <1>6, <1>7, UpFrom
    <2> QED
      BY <2>1
  <1> QED
    BY <1>2, <1>3, <1>4, <1>8 DEF S

(* The ends of a set of positions.                                         *)
LEMMA EndsMet ==
  ASSUME NEW n \in Nat, NEW T \in SUBSET (1..n), T # {}
  PROVE  Min(T) \in T /\ Max(T) \in T /\ Min(T) <= Max(T)
  <1>1. \E x \in T : \A y \in T : x <= y
    <2>1. T \in SUBSET Nat
      OBVIOUS
    <2> QED
      BY <2>1, Least
  <1>2. Min(T) \in T /\ \A y \in T : Min(T) <= y
    BY <1>1 DEF Min
  <1> DEFINE U == {n - x : x \in T}
  <1>3. U \in SUBSET Nat /\ U # {}
    <2>1. \A x \in T : n - x \in Nat
      OBVIOUS
    <2> QED
      BY <2>1
  <1>4. PICK u \in U : \A v \in U : u <= v
    <2> HIDE DEF U
    <2> QED
      BY <1>3, Least
  <1>5. PICK x \in T : u = n - x
    OBVIOUS
  <1>6. ASSUME NEW y \in T PROVE x >= y
    <2>1. n - y \in U /\ x \in Nat /\ y \in Nat
      OBVIOUS
    <2> HIDE DEF U
    <2> QED
      BY <1>4, <1>5, <2>1
  <1>7. Max(T) \in T
    BY <1>6 DEF Max
  <1> QED
    BY <1>2, <1>7

(* A sequence, shown element by element.                                   *)
ShownBy(f, t) == [i \in 1..Len(t) |-> f[t[i]]]

LEMMA ShownJoins ==
  ASSUME NEW A, NEW f \in [A -> A], NEW t \in Seq(A), NEW u \in Seq(A)
  PROVE  ShownBy(f, t \o u) = ShownBy(f, t) \o ShownBy(f, u)
  <1>1. ASSUME NEW z \in Seq(A)
        PROVE  ShownBy(f, z) \in Seq(A) /\ Len(ShownBy(f, z)) = Len(z) /\ \A i \in 1..Len(z) : ShownBy(f, z)[i] = f[z[i]]
    <2> DEFINE s == ShownBy(f, z)
               n == Len(z)
    <2>1. s = [i \in 1..n |-> f[z[i]]] /\ n \in Nat
      BY DEF ShownBy
    <2>2. \A i \in 1..n : f[z[i]] \in A
      OBVIOUS
    <2> HIDE DEF s, n
    <2>3. s \in [1..n -> A] /\ \A i \in 1..n : s[i] = f[z[i]]
      BY <2>1, <2>2
    <2>4. s \in Seq(A) /\ Len(s) = n
      BY <2>1, <2>3, FromPositions
    <2> QED
      BY <2>3, <2>4 DEF s, n
  <1>2. /\ t \o u \in Seq(A) /\ Len(t \o u) = Len(t) + Len(u)
        /\ \A i \in 1..(Len(t) + Len(u)) : (t \o u)[i] = IF i <= Len(t) THEN t[i] ELSE u[i - Len(t)]
    BY ConcatProperties
  <1> DEFINE p == ShownBy(f, t)
             q == ShownBy(f, u)
             r == ShownBy(f, t \o u)
  <1>3. p \in Seq(A) /\ Len(p) = Len(t) /\ \A i \in 1..Len(t) : p[i] = f[t[i]]
    BY <1>1
  <1>4. q \in Seq(A) /\ Len(q) = Len(u) /\ \A i \in 1..Len(u) : q[i] = f[u[i]]
    BY <1>1
  <1>5. r \in Seq(A) /\ Len(r) = Len(t) + Len(u) /\ \A i \in 1..(Len(t) + Len(u)) : r[i] = f[(t \o u)[i]]
    BY <1>1, <1>2
  <1> HIDE DEF p, q, r
  <1>6. /\ p \o q \in Seq(A) /\ Len(p \o q) = Len(t) + Len(u)
        /\ \A i \in 1..(Len(t) + Len(u)) : (p \o q)[i] = IF i <= Len(t) THEN p[i] ELSE q[i - Len(t)]
    <2>1. p \in Seq(A) /\ q \in Seq(A)
      BY <1>3, <1>4
    <2>2. /\ p \o q \in Seq(A) /\ Len(p \o q) = Len(p) + Len(q)
          /\ \A i \in 1..(Len(p) + Len(q)) : (p \o q)[i] = IF i <= Len(p) THEN p[i] ELSE q[i - Len(p)]
      BY <2>1, ConcatProperties
    <2> QED
      BY <1>3, <1>4, <2>2
  <1>7. ASSUME NEW i \in 1..(Len(t) + Len(u)) PROVE r[i] = (p \o q)[i]
    <2>0. Len(t) \in Nat /\ Len(u) \in Nat
      OBVIOUS
    <2>1. CASE i <= Len(t)
      <3>1. i \in 1..Len(t)
        BY <2>0, <2>1
      <3> QED
        BY <1>2, <1>3, <1>5, <1>6, <2>1, <3>1
    <2>2. CASE ~(i <= Len(t))
      <3>1. i - Len(t) \in 1..Len(u)
        BY <2>0, <2>2
      <3>2. r[i] = f[u[i - Len(t)]]
        BY <1>2, <1>5, <2>2
      <3>3. (p \o q)[i] = q[i - Len(t)]
        BY <1>6, <2>2
      <3> QED
        BY <1>4, <3>1, <3>2, <3>3
    <2> QED
      BY <2>1, <2>2
  <1>8. r = p \o q
    BY <1>5, <1>6, <1>7, SeqEqual
  <1> QED
    BY <1>3, <1>8 DEF p, q, r

(* A text is trimmed as well after it is shown as before, where nothing    *)
(* but a space is shown as one.                                            *)
LEMMA TrimShows ==
  ASSUME NEW A, NEW f \in [A -> A], NEW t \in Seq(A), \A e \in A : f[e] = Space <=> e = Space
  PROVE  Trim(t) \in Seq(A) /\ ShownBy(f, Trim(t)) = Trim(ShownBy(f, t))
  <1> USE DEF ShownBy
  <1> DEFINE u == ShownBy(f, t)
             n == Len(t)
             T == {i \in 1..n : t[i] # Space}
  <1>1. n \in Nat /\ DOMAIN t = 1..n /\ DOMAIN u = 1..n /\ \A i \in 1..n : t[i] \in A /\ u[i] = f[t[i]]
    OBVIOUS
  <1>2. u \in Seq(A) /\ Len(u) = n
    <2>1. \A i \in 1..n : u[i] \in A
      BY <1>1
    <2>2. u = [i \in 1..n |-> u[i]]
      BY <1>1
    <2> HIDE DEF n
    <2> QED
      <3>1. u \in [1..n -> A]
        BY <2>1, <2>2
      <3> HIDE DEF u
      <3> QED
        BY <1>1, <3>1, FromPositions
  <1>3. T = {i \in 1..n : u[i] # Space}
    BY <1>1
  <1>4. /\ Trim(t) = IF T = {} THEN <<>> ELSE SubSeq(t, Min(T), Max(T))
        /\ Trim(u) = IF T = {} THEN <<>> ELSE SubSeq(u, Min(T), Max(T))
    BY <1>1, <1>3 DEF Trim
  <1> HIDE DEF n
  <1>5. CASE T = {}
    BY <1>4, <1>5
  <1>6. CASE T # {}
    <2> DEFINE a == Min(T)
               b == Max(T)
               p == SubSeq(t, a, b)
               q == SubSeq(u, a, b)
    <2>1. a \in 1..n /\ b \in 1..n /\ a <= b
      <3>1. T \in SUBSET (1..n)
        OBVIOUS
      <3> HIDE DEF T
      <3> QED
        BY <1>1, <1>6, <3>1, EndsMet
    <2>2. Trim(t) = p /\ Trim(u) = q
      BY <1>4, <1>6
    <2> HIDE DEF a, b, T
    <2>3. a \in Int /\ b \in Int /\ (\A i \in a..b : t[i] \in A /\ u[i] \in A)
      <3>1. \A i \in a..b : i \in 1..n
        BY <1>1, <2>1
      <3>2. \A i \in 1..n : f[t[i]] \in A
        BY <1>1
      <3> QED
        BY <1>1, <2>1, <3>1, <3>2
    <2>4. p \in Seq(A) /\ Len(p) = b - a + 1 /\ \A i \in 1..(b - a + 1) : p[i] = t[a + i - 1]
      <3>1. /\ p \in Seq(A) /\ Len(p) = IF a <= b THEN b - a + 1 ELSE 0
            /\ \A i \in 1..(b - a + 1) : p[i] = t[a + i - 1]
        <4>1. a \in Int /\ b \in Int /\ \A i \in a..b : t[i] \in A
          BY <2>3
        <4> QED
          BY <4>1, SubSeqProperties
      <3> QED
        BY <2>1, <3>1
    <2>5. q \in Seq(A) /\ Len(q) = b - a + 1 /\ \A i \in 1..(b - a + 1) : q[i] = u[a + i - 1]
      <3>1. /\ q \in Seq(A) /\ Len(q) = IF a <= b THEN b - a + 1 ELSE 0
            /\ \A i \in 1..(b - a + 1) : q[i] = u[a + i - 1]
        BY <2>3, SubSeqProperties
      <3> QED
        BY <2>1, <3>1
    <2> HIDE DEF p, q
    <2>6. \A i \in 1..(b - a + 1) : f[p[i]] = q[i]
      <3>1. \A i \in 1..(b - a + 1) : a + i - 1 \in 1..n
        BY <1>1, <2>1
      <3> QED
        BY <1>1, <2>4, <2>5, <3>1
    <2>7. q = [i \in 1..(b - a + 1) |-> q[i]]
      BY <2>5
    <2> QED
      BY <2>2, <2>4, <2>6, <2>7
  <1> QED
    BY <1>5, <1>6

(* Composer: the invariant of the input.                                   *)
Elements == {Word, Space, Object} \cup {Anchor(m) : m \in Nat \ {0}}

(* An image has one anchor.                                                *)
AnchoredOnce(b) == \A i, j \in DOMAIN b : b[i].kind = "anchor" /\ b[i] = b[j] => i = j

ComposerInv ==
    /\ buffer \in Seq(Elements) /\ AnchoredOnce(buffer)
    /\ attachments \in Seq(Nat) /\ ToSet(attachments) = Alive(buffer)
    /\ images \in Nat /\ Alive(buffer) \subseteq 1..images
    /\ reads \in Seq(Clipboards)
    /\ ~suppress
    /\ SearchesFollowTyping

LEMMA ElementIs ==
  /\ \A e \in Elements : /\ e.kind = "anchor" => e.image \in Nat \ {0} /\ e = Anchor(e.image)
                         /\ e.kind # "anchor" => e \in {Word, Space, Object}
  /\ \A m : Anchor(m).kind = "anchor" /\ Anchor(m).image = m
  /\ \A m : Placeholder(m).kind = "placeholder" /\ Placeholder(m).image = m
  /\ Word.kind = "word" /\ Space.kind = "space" /\ Object.kind = "object"
  <1>1. /\ \A m : Anchor(m).kind = "anchor" /\ Anchor(m).image = m
        /\ \A m : Placeholder(m).kind = "placeholder" /\ Placeholder(m).image = m
        /\ Word.kind = "word" /\ Space.kind = "space" /\ Object.kind = "object"
    BY DEF Anchor, Placeholder, Word, Space, Object
  <1>2. ASSUME NEW e \in Elements
        PROVE  /\ e.kind = "anchor" => e.image \in Nat \ {0} /\ e = Anchor(e.image)
               /\ e.kind # "anchor" => e \in {Word, Space, Object}
    <2>1. CASE e \in {Word, Space, Object}
      BY <1>1, <2>1
    <2>2. CASE e \in {Anchor(m) : m \in Nat \ {0}}
      <3>1. PICK m \in Nat \ {0} : e = Anchor(m)
        BY <2>2
      <3> QED
        BY <1>1, <3>1
    <2> QED
      BY <2>1, <2>2 DEF Elements
  <1> QED
    BY <1>1, <1>2

(* The anchors of the images that are attached are all of the buffer's, in *)
(* the order of the text.                                                  *)
LEMMA AnchoredIs ==
  ASSUME ComposerInv
  PROVE  /\ Anchored \in Seq(1..Len(buffer))
         /\ ToSet(Anchored) = {j \in 1..Len(buffer) : buffer[j].kind = "anchor"}
         /\ \A k, m \in 1..Len(Anchored) : k < m => Anchored[k] < Anchored[m]
  <1> DEFINE n == Len(buffer)
             P == {Position(m) : m \in ToSet(attachments)}
             at == Anchored
  <1>1. n \in Nat /\ DOMAIN buffer = 1..n /\ \A j \in 1..n : buffer[j] \in Elements
    BY DEF ComposerInv
  <1>2. ASSUME NEW j \in 1..n, buffer[j].kind = "anchor"
        PROVE  buffer[j].image \in ToSet(attachments) /\ Position(buffer[j].image) = j
    <2>1. buffer[j].image \in Alive(buffer)
      BY <1>1, <1>2 DEF Alive
    <2>2. buffer[j] = Anchor(buffer[j].image)
      BY <1>1, <1>2, ElementIs
    <2>3. \A i \in DOMAIN buffer : buffer[i] = Anchor(buffer[j].image) => i = j
      BY <1>1, <1>2, <2>2 DEF ComposerInv, AnchoredOnce
    <2>4. Position(buffer[j].image) \in DOMAIN buffer /\ buffer[Position(buffer[j].image)] = Anchor(buffer[j].image)
      BY <1>1, <2>2 DEF Position
    <2> QED
      BY <2>1, <2>3, <2>4 DEF ComposerInv
  <1>3. ASSUME NEW m \in ToSet(attachments) PROVE Position(m) \in 1..n /\ buffer[Position(m)].kind = "anchor"
    <2>1. m \in Alive(buffer)
      BY DEF ComposerInv
    <2>2. PICK j \in 1..n : buffer[j].kind = "anchor" /\ buffer[j].image = m
      BY <1>1, <2>1 DEF Alive
    <2> QED
      BY <1>2, <2>2
  <1>4. (1..n) \cap P = {j \in 1..n : buffer[j].kind = "anchor"}
    BY <1>2, <1>3
  <1>5. at = AllSifted([i \in 1..n |-> i], P)
    BY DEF Anchored
  <1> HIDE DEF n, P, at
  <1>6. /\ at \in Seq(1..n)
        /\ ToSet(at) = (1..n) \cap P
        /\ \A k, m \in 1..Len(at) : k < m => at[k] < at[m]
    BY <1>1, <1>5, InOrder
  <1> QED
    BY <1>4, <1>6 DEF n, at

(* Between the anchors there is only text.                                 *)
Before(k) == IF k = 0 THEN 0 ELSE Anchored[k]

LEMMA Gaps ==
  ASSUME ComposerInv
  PROVE  /\ \A k \in 0..Len(Anchored) : Before(k) \in 0..Len(buffer)
         /\ \A k \in 1..Len(Anchored) :
               /\ Anchored[k] \in 1..Len(buffer) /\ buffer[Anchored[k]].kind = "anchor" /\ Before(k - 1) < Anchored[k]
               /\ \A j \in (Before(k - 1) + 1)..(Anchored[k] - 1) : buffer[j].kind # "anchor"
         /\ \A j \in (Before(Len(Anchored)) + 1)..Len(buffer) : buffer[j].kind # "anchor"
  <1> DEFINE n == Len(buffer)
             at == Anchored
             m == Len(at)
             Kind(j) == buffer[j].kind = "anchor"
  <1>1. n \in Nat
    BY DEF ComposerInv
  <1>2. /\ at \in Seq(1..n)
        /\ ToSet(at) = {j \in 1..n : Kind(j)}
        /\ \A k, l \in 1..m : k < l => at[k] < at[l]
    BY AnchoredIs
  <1> HIDE DEF n, at, Kind
  <1>3. m \in Nat /\ \A k \in 1..m : at[k] \in 1..n /\ Kind(at[k])
    <2>1. \A k \in 1..m : at[k] \in ToSet(at)
      BY <1>2 DEF ToSet
    <2> QED
      BY <1>2, <2>1
  <1>4. \A j \in 1..n : Kind(j) => \E l \in 1..m : at[l] = j
    <2>1. \A j \in ToSet(at) : \E l \in 1..m : at[l] = j
      BY <1>2 DEF ToSet
    <2> QED
      BY <1>2, <2>1
  <1> DEFINE before(k) == IF k = 0 THEN 0 ELSE at[k]
  <1> HIDE DEF m
  <1>5. \A k \in 0..m : before(k) \in 0..n
    BY <1>1, <1>3
  <1>6. ASSUME NEW k \in 1..m
        PROVE  /\ at[k] \in 1..n /\ Kind(at[k]) /\ before(k - 1) < at[k]
               /\ \A j \in (before(k - 1) + 1)..(at[k] - 1) : ~Kind(j)
    <2>1. at[k] \in 1..n /\ Kind(at[k])
      BY <1>3
    <2>2. before(k - 1) < at[k]
      <3>1. CASE k = 1
        BY <2>1, <3>1
      <3>2. CASE k # 1
        <4>1. k - 1 \in 1..m /\ k - 1 < k
          BY <1>3, <3>2
        <4> QED
          BY <1>2, <4>1
      <3> QED
        BY <3>1, <3>2
    <2>3. ASSUME NEW j \in (before(k - 1) + 1)..(at[k] - 1), Kind(j) PROVE FALSE
      <3>1. k - 1 \in 0..m /\ before(k - 1) \in 0..n
        BY <1>3, <1>5
      <3>2. j \in 1..n /\ before(k - 1) < j /\ j < at[k]
        BY <1>1, <2>1, <3>1
      <3>3. PICK l \in 1..m : at[l] = j
        BY <1>4, <2>3, <3>2
      <3>4. ~(k <= l)
        <4>1. k < l => at[k] < at[l]
          BY <1>2, <3>3
        <4> QED
          BY <1>3, <2>1, <3>2, <3>3, <4>1
      <3>5. l \in Nat /\ k \in Nat /\ l >= 1
        BY <1>3
      <3>6. k - 1 # 0 /\ k - 1 \in 1..m /\ l <= k - 1
        BY <1>3, <3>4, <3>5
      <3>7. before(k - 1) = at[k - 1]
        BY <3>6
      <3>8. l < k - 1 => at[l] < at[k - 1]
        BY <1>2, <3>3, <3>6
      <3>9. at[l] <= at[k - 1]
        <4>1. CASE l = k - 1
          BY <1>3, <3>6, <4>1
        <4>2. CASE l < k - 1
          BY <1>3, <3>6, <3>8, <4>2
        <4> QED
          BY <3>5, <3>6, <4>1, <4>2
      <3> QED
        BY <1>3, <3>2, <3>3, <3>6, <3>7, <3>9
    <2> QED
      BY <2>1, <2>2, <2>3
  <1>7. ASSUME NEW j \in (before(m) + 1)..n, Kind(j) PROVE FALSE
    <2>1. m \in 0..m /\ before(m) \in 0..n
      BY <1>3, <1>5
    <2>2. j \in 1..n /\ before(m) < j
      BY <1>1, <2>1
    <2>3. PICK l \in 1..m : at[l] = j
      BY <1>4, <1>7, <2>2
    <2>4. m \in 1..m /\ before(m) = at[m] /\ (l = m \/ l < m)
      BY <1>3, <2>3
    <2>5. l < m => at[l] < at[m]
      BY <1>2, <2>3, <2>4
    <2> QED
      BY <1>3, <2>2, <2>3, <2>4, <2>5
  <1>8. \A k : before(k) = Before(k)
    BY DEF Before, at
  <1> HIDE DEF before
  <1> QED
    BY <1>5, <1>6, <1>7, <1>8 DEF n, at, m, Kind

(* query(): what it makes, anchor by anchor.                               *)
Pieces == Elements \cup {Placeholder(m) : m \in Nat}

LEMMA QueryIs ==
  ASSUME ComposerInv
  PROVE  \E upTo \in [0..Len(Anchored) -> Seq(Pieces)] :
            /\ upTo[0] = <<>>
            /\ \A k \in 1..Len(Anchored) :
                  upTo[k] = upTo[k - 1] \o Sifted(buffer, Before(k - 1) + 1, Anchored[k] - 1, {Word, Space})
                                        \o <<Placeholder(k)>>
            /\ Query.text = Trim(upTo[Len(Anchored)]
                                    \o Sifted(buffer, Before(Len(Anchored)) + 1, Len(buffer), {Word, Space}))
            /\ Query.images = [k \in 1..Len(Anchored) |-> buffer[Anchored[k]].image]
  <1> DEFINE at == Anchored
             m == Len(at)
             said(from, to) == Sifted(buffer, from, to, {Word, Space})
             cursor(k) == IF k = 0 THEN 1 ELSE at[k] + 1
             part(k) == said(cursor(k - 1), at[k] - 1)
             body(f) == [k \in 0..m |-> IF k = 0 THEN <<>> ELSE f[k - 1] \o part(k) \o <<Placeholder(k)>>]
             made == CHOOSE f : f = body(f)
             Q == Seq(Pieces)
             One(k, q) == q \o part(k) \o <<Placeholder(k)>>
             L == [k \in 0..m |-> Q]
             step == [k \in (0 + 1)..m |-> [q \in Q |-> One(k, q)]]
  <1>1. /\ Query.text = Trim(made[m] \o said(cursor(m), Len(buffer)))
        /\ Query.images = [k \in DOMAIN at |-> buffer[at[k]].image]
    BY DEF Query
  <1>2. /\ \A k \in 0..m : Before(k) \in 0..Len(buffer) /\ cursor(k) = Before(k) + 1
        /\ \A k \in 1..m : at[k] \in 1..Len(buffer) /\ Before(k - 1) < at[k]
        /\ m \in Nat /\ DOMAIN at = 1..m
    <2>1. \A k \in 0..m : Before(k) \in 0..Len(buffer)
      BY Gaps
    <2>2. \A k \in 1..m : at[k] \in 1..Len(buffer) /\ Before(k - 1) < at[k]
      BY Gaps
    <2>3. m \in Nat /\ DOMAIN at = 1..m
      BY AnchoredIs
    <2>4. \A k \in 0..m : cursor(k) = Before(k) + 1
      BY DEF Before
    <2> QED
      BY <2>1, <2>2, <2>3, <2>4
  <1> HIDE DEF at, cursor, said, m
  <1>3. \A k \in 1..m : k \in Nat /\ k - 1 \in 0..m /\ k \in 0..m
    BY <1>2
  <1>4. \A k \in 1..m : part(k) = Sifted(buffer, Before(k - 1) + 1, at[k] - 1, {Word, Space}) /\ part(k) \in Q
    <2> SUFFICES ASSUME NEW k \in 1..m
                 PROVE  part(k) = Sifted(buffer, Before(k - 1) + 1, at[k] - 1, {Word, Space}) /\ part(k) \in Q
      OBVIOUS
    <2>1. part(k) = Sifted(buffer, Before(k - 1) + 1, at[k] - 1, {Word, Space})
      BY <1>2, <1>3 DEF said
    <2>2. buffer \in Seq(Elements) /\ Before(k - 1) + 1 \in Nat \ {0} /\ at[k] - 1 \in 0..Len(buffer)
      <3>1. Before(k - 1) \in 0..Len(buffer) /\ at[k] \in 1..Len(buffer)
        BY <1>2, <1>3
      <3>2. buffer \in Seq(Elements) /\ Len(buffer) \in Nat
        BY DEF ComposerInv
      <3> QED
        BY <3>1, <3>2
    <2>3. Sifted(buffer, Before(k - 1) + 1, at[k] - 1, {Word, Space}) \in Seq(Elements)
      BY <2>2, SiftedIs
    <2>4. Seq(Elements) \subseteq Seq(Pieces)
      BY SeqMonotonic DEF Pieces
    <2> HIDE DEF part
    <2> QED
      BY <2>1, <2>3, <2>4
  <1> HIDE DEF part
  <1>5. ASSUME NEW k \in 1..m, NEW q \in Q PROVE One(k, q) \in Q
    <2>1. <<Placeholder(k)>> \in Q
      <3>1. Placeholder(k) \in Pieces
        BY <1>3 DEF Pieces
      <3> QED
        BY <3>1
    <2>2. q \o part(k) \in Q
      BY <1>4, ConcatProperties
    <2>3. (q \o part(k)) \o <<Placeholder(k)>> \in Q
      BY <2>1, <2>2, ConcatProperties
    <2> QED
      BY <2>3
  <1>6. <<>> \in Q
    OBVIOUS
  <1> HIDE DEF One, Q
  <1>7. L \in [0..m -> SUBSET Q] /\ L[0] = Q
    BY <1>2
  <1>8. step \in [(0 + 1)..m -> [Q -> Q]] /\ \A k \in 1..m : \A q \in Q : step[k][q] = One(k, q)
    BY <1>5
  <1>9. \A k \in (0 + 1)..m : \A t \in L[k - 1] : step[k][t] \in L[k]
    <2> SUFFICES ASSUME NEW k \in (0 + 1)..m, NEW t \in L[k - 1] PROVE step[k][t] \in L[k]
      OBVIOUS
    <2>1. k - 1 \in 0..m /\ k \in 0..m /\ k \in 1..m
      BY <1>2
    <2>2. t \in Q /\ L[k] = Q
      BY <2>1
    <2> QED
      BY <1>5, <1>8, <2>1, <2>2
  <1> HIDE DEF L, step
  <1>10. PICK g \in [0..m -> Q] : g[0] = <<>> /\ \A k \in (0 + 1)..m : g[k] = step[k][g[k - 1]]
    <2>1. <<>> \in L[0] /\ Leads(step, L, Q, 0, m)
      BY <1>6, <1>7, <1>8, <1>9 DEF Leads
    <2>2. \E f \in [0..m -> Q] : Steps(f, step, 0, m, <<>>)
      BY <1>2, <2>1, Climbs
    <2> QED
      BY <2>2 DEF Steps
  <1>11. \A k \in 1..m : g[k] = One(k, g[k - 1])
    <2> SUFFICES ASSUME NEW k \in 1..m PROVE g[k] = One(k, g[k - 1])
      OBVIOUS
    <2>1. k \in (0 + 1)..m /\ g[k - 1] \in Q
      BY <1>3, <1>10
    <2> QED
      BY <1>8, <1>10, <2>1
  <1>12. g = body(g)
    <2>1. ASSUME NEW k \in 0..m PROVE g[k] = body(g)[k]
      <3>1. CASE k = 0
        BY <1>10, <3>1
      <3>2. CASE k # 0
        <4>1. k \in 1..m
          BY <1>2, <3>2
        <4> QED
          BY <1>11, <3>2, <4>1 DEF One
      <3> QED
        BY <3>1, <3>2
    <2>2. DOMAIN body(g) = 0..m /\ body(g) = [k \in DOMAIN body(g) |-> body(g)[k]]
      OBVIOUS
    <2> HIDE DEF body
    <2> QED
      BY <2>1, <2>2
  <1>13. made = body(made)
    <2> HIDE DEF body
    <2> QED
      BY <1>12
  <1> HIDE DEF made
  <1>14. made[0] = <<>> /\ \A k \in 1..m : made[k] = One(k, made[k - 1])
    <2>1. body(made)[0] = <<>> /\ \A k \in 1..m : body(made)[k] = One(k, made[k - 1])
      <3>1. 0 \in 0..m
        BY <1>2
      <3>2. body(made)[0] = <<>>
        BY <3>1
      <3>3. ASSUME NEW k \in 1..m PROVE body(made)[k] = One(k, made[k - 1])
        <4>1. k \in 0..m /\ k # 0
          BY <1>3
        <4> QED
          BY <4>1 DEF One
      <3> QED
        BY <3>2, <3>3
    <2> HIDE DEF body
    <2> QED
      BY <1>13, <2>1
  <1>15. DOMAIN made = 0..m /\ made = [k \in 0..m |-> made[k]]
    <2>1. DOMAIN body(made) = 0..m /\ body(made) = [k \in 0..m |-> body(made)[k]]
      OBVIOUS
    <2> HIDE DEF body
    <2> QED
      BY <1>13, <2>1
  <1> HIDE DEF body
  <1> DEFINE A == {k \in 0..m : made[k] \in Q}
  <1>16. 0..m \subseteq A
    <2>1. 0 \in A
      BY <1>2, <1>6, <1>14
    <2>2. ASSUME NEW k \in A \cap (0..m), k < m PROVE k + 1 \in A
      <3>1. k + 1 \in 1..m /\ k + 1 \in 0..m /\ (k + 1) - 1 = k
        BY <1>2, <2>2
      <3>2. made[k + 1] = One(k + 1, made[k]) /\ made[k] \in Q
        BY <1>14, <2>2, <3>1
      <3> QED
        BY <1>5, <3>1, <3>2
    <2> HIDE DEF A
    <2> QED
      BY <1>2, <2>1, <2>2, UpFrom
  <1>17. made \in [0..m -> Q]
    BY <1>15, <1>16
  <1>18. \A k \in 1..m :
            made[k] = made[k - 1] \o Sifted(buffer, Before(k - 1) + 1, at[k] - 1, {Word, Space}) \o <<Placeholder(k)>>
    BY <1>4, <1>14 DEF One
  <1>19. Query.text = Trim(made[m] \o Sifted(buffer, Before(m) + 1, Len(buffer), {Word, Space}))
    <2>1. cursor(m) = Before(m) + 1
      BY <1>2
    <2> QED
      BY <1>1, <2>1 DEF said
  <1>20. Query.images = [k \in 1..m |-> buffer[at[k]].image]
    BY <1>1, <1>2
  <1> QED
    BY <1>14, <1>17, <1>18, <1>19, <1>20 DEF at, m, Q

(* What was shown as composed is shown as composed.                        *)
LEMMA PromptShown == ComposerInv => PromptIsShownAsComposed
  <1> SUFFICES ASSUME ComposerInv PROVE PromptIsShownAsComposed
    OBVIOUS
  <1> DEFINE n == Len(buffer)
             at == Anchored
             m == Len(at)
             Plain == {Word, Space}
             T == ToSet(buffer) \ {Object}
             z(i) == Sifted(buffer, 1, i, T)
             said(k) == Sifted(buffer, Before(k - 1) + 1, at[k] - 1, Plain)
             last == Sifted(buffer, Before(m) + 1, n, Plain)
             pictures == [k \in 1..m |-> buffer[at[k]].image]
             Is(e) == e.kind = "placeholder" /\ e.image \in DOMAIN pictures
             f == [e \in Pieces |-> IF Is(e) THEN Anchor(pictures[e.image]) ELSE e]
  <1>1. PICK upTo \in [0..m -> Seq(Pieces)] :
            /\ upTo[0] = <<>>
            /\ \A k \in 1..m : upTo[k] = upTo[k - 1] \o said(k) \o <<Placeholder(k)>>
            /\ Query.text = Trim(upTo[m] \o last)
            /\ Query.images = pictures
    BY QueryIs
  <1>2. /\ n \in Nat /\ buffer \in Seq(Elements)
        /\ \A j \in 1..n : buffer[j] \in Elements /\ (buffer[j] # Object <=> buffer[j] \in T)
    BY DEF ComposerInv, ToSet
  <1>3. /\ \A k \in 0..m : Before(k) \in 0..n
        /\ \A k \in 1..m : at[k] \in 1..n /\ buffer[at[k]].kind = "anchor" /\ Before(k - 1) < at[k]
        /\ \A k \in 1..m : \A j \in (Before(k - 1) + 1)..(at[k] - 1) : buffer[j].kind # "anchor"
        /\ \A j \in (Before(m) + 1)..n : buffer[j].kind # "anchor"
    BY Gaps
  <1>4. m \in Nat /\ \A k \in 1..m : k - 1 \in 0..m /\ k \in 0..m /\ k \in Nat
    BY AnchoredIs
  <1>5. /\ pictures \in [1..m -> Nat \ {0}] /\ \A k \in 1..m : Anchor(pictures[k]) = buffer[at[k]]
    BY <1>2, <1>3, ElementIs
  <1>6. \A j \in 1..n : buffer[j].kind # "anchor" => (buffer[j] \in T <=> buffer[j] \in Plain)
    BY <1>2, ElementIs
  <1>7. /\ f \in [Pieces -> Pieces]
        /\ \A e \in Elements : f[e] = e
        /\ \A k \in 1..m : f[Placeholder(k)] = buffer[at[k]]
        /\ \A e \in Pieces : f[e] = Space <=> e = Space
        /\ Elements \subseteq Pieces /\ \A k \in 1..m : Placeholder(k) \in Pieces
    <2> HIDE DEF pictures, n, m, at
    <2>1. DOMAIN pictures = 1..m
      BY <1>5
    <2>2. Elements \subseteq Pieces /\ \A k \in 1..m : Placeholder(k) \in Pieces
      BY <1>4 DEF Pieces
    <2>3. \A k \in Nat \ {0} : Anchor(k) \in Pieces
      BY DEF Pieces, Elements
    <2>4. \A e \in Elements : ~Is(e)
      BY ElementIs
    <2>5. ASSUME NEW e \in Pieces, Is(e)
          PROVE  Anchor(pictures[e.image]) \in Pieces /\ e # Space /\ Anchor(pictures[e.image]) # Space
      <3>1. pictures[e.image] \in Nat \ {0}
        BY <1>5, <2>1, <2>5
      <3> QED
        BY <2>3, <2>5, <3>1, ElementIs
    <2>6. \A k \in 1..m : Is(Placeholder(k)) /\ Anchor(pictures[Placeholder(k).image]) = buffer[at[k]]
      BY <1>5, <2>1, ElementIs
    <2> HIDE DEF Is
    <2>7. f \in [Pieces -> Pieces]
      BY <2>5
    <2>8. \A e \in Elements : f[e] = e
      BY <2>2, <2>4
    <2>9. \A k \in 1..m : f[Placeholder(k)] = buffer[at[k]]
      BY <2>2, <2>6
    <2>10. \A e \in Pieces : f[e] = Space <=> e = Space
      BY <2>5
    <2> QED
      BY <2>2, <2>7, <2>8, <2>9, <2>10
  <1>8. \A q \in Seq(Elements) : q \in Seq(Pieces) /\ ShownBy(f, q) = q
    <2> SUFFICES ASSUME NEW q \in Seq(Elements) PROVE q \in Seq(Pieces) /\ ShownBy(f, q) = q
      OBVIOUS
    <2>1. q \in Seq(Pieces)
      BY <1>7, SeqMonotonic
    <2>2. \A i \in 1..Len(q) : q[i] \in Elements
      OBVIOUS
    <2>3. q = [i \in 1..Len(q) |-> q[i]]
      OBVIOUS
    <2> HIDE DEF f
    <2>4. \A i \in 1..Len(q) : f[q[i]] = q[i]
      BY <1>7, <2>2
    <2> QED
      BY <2>1, <2>3, <2>4 DEF ShownBy
  <1>19. \A i \in 0..n : /\ z(i) \in Seq(Elements) /\ z(0) = <<>>
                         /\ i >= 1 => (buffer[i] \in T => z(i) = Append(z(i - 1), buffer[i]))
    <2>1. 1 \in Nat \ {0} /\ 0 \in 0..n /\ buffer \in Seq(Elements)
      BY <1>2
    <2> HIDE DEF T
    <2>2. \A i \in 0..n : /\ z(i) \in Seq(Elements)
                          /\ i < 1 => z(i) = <<>>
                          /\ i >= 1 => /\ buffer[i] \in T => z(i) = Append(z(i - 1), buffer[i])
                                       /\ buffer[i] \notin T => z(i) = z(i - 1)
      BY <2>1, SiftedIs
    <2> HIDE DEF z, n
    <2> QED
      BY <2>1, <2>2
  <1>9. \A k \in 1..m : /\ said(k) \in Seq(Elements)
                        /\ z(Before(k - 1)) \o said(k) = z(at[k] - 1)
                        /\ z(at[k]) = Append(z(at[k] - 1), buffer[at[k]])
    <2> SUFFICES ASSUME NEW k \in 1..m
                 PROVE  /\ said(k) \in Seq(Elements)
                        /\ z(Before(k - 1)) \o said(k) = z(at[k] - 1)
                        /\ z(at[k]) = Append(z(at[k] - 1), buffer[at[k]])
      OBVIOUS
    <2> DEFINE i == Before(k - 1)
               j == at[k] - 1
    <2>1. i \in 0..n /\ j \in i..n /\ j \in 0..n /\ i + 1 \in Nat \ {0} /\ at[k] \in 1..n
      BY <1>2, <1>3, <1>4
    <2>2. \A l \in (i + 1)..j : buffer[l] \in T <=> buffer[l] \in Plain
      <3>1. \A l \in (i + 1)..j : l \in 1..n
        BY <2>1
      <3> QED
        BY <1>3, <1>6, <3>1
    <2>3. z(at[k]) = Append(z(at[k] - 1), buffer[at[k]])
      <3>1. buffer[at[k]] \in T /\ at[k] >= 1 /\ 1 \in Nat \ {0} /\ at[k] \in 0..n
        BY <1>2, <1>3, <2>1, ElementIs
      <3>2. \A l \in 0..n : l >= 1 => (buffer[l] \in T => z(l) = Append(z(l - 1), buffer[l]))
        BY <1>19
      <3> HIDE DEF z, T, n, at
      <3> QED
        BY <3>1, <3>2
    <2> HIDE DEF i, j, n, T, Plain, at
    <2>4. Sifted(buffer, i + 1, j, Plain) \in Seq(Elements)
      BY <1>2, <2>1, SiftedIs DEF n
    <2>5. Sifted(buffer, 1, i, T) \o Sifted(buffer, i + 1, j, Plain) = Sifted(buffer, 1, j, T)
      BY <1>2, <2>1, <2>2, SiftedJoins DEF n
    <2> QED
      BY <2>3, <2>4, <2>5 DEF i, j
  <1>10. /\ last \in Seq(Elements)
         /\ z(Before(m)) \o last = z(n)
    <2> DEFINE i == Before(m)
    <2>1. i \in 0..n /\ n \in i..n /\ n \in 0..n /\ i + 1 \in Nat \ {0}
      BY <1>2, <1>3, <1>4
    <2>2. \A l \in (i + 1)..n : buffer[l] \in T <=> buffer[l] \in Plain
      <3>1. \A l \in (i + 1)..n : l \in 1..n
        BY <2>1
      <3> QED
        BY <1>3, <1>6, <3>1
    <2> HIDE DEF i, n, T, Plain, at
    <2>4. Sifted(buffer, i + 1, n, Plain) \in Seq(Elements)
      BY <1>2, <2>1, SiftedIs DEF n
    <2>5. Sifted(buffer, 1, i, T) \o Sifted(buffer, i + 1, n, Plain) = Sifted(buffer, 1, n, T)
      BY <1>2, <2>1, <2>2, SiftedJoins DEF n
    <2> QED
      BY <2>4, <2>5 DEF i
  <1> HIDE DEF z, said, last, f, pictures, n, at, m, T, Plain
  <1>17. \A p, q \in Seq(Pieces) : ShownBy(f, p \o q) = ShownBy(f, p) \o ShownBy(f, q)
    <2>1. f \in [Pieces -> Pieces]
      BY <1>7
    <2>2. ASSUME NEW p \in Seq(Pieces), NEW q \in Seq(Pieces)
          PROVE  ShownBy(f, p \o q) = ShownBy(f, p) \o ShownBy(f, q)
      BY <2>1, ShownJoins, Zenon
    <2> QED
      BY <2>2
  <1>18. \A p \in Seq(Pieces) : Trim(p) \in Seq(Pieces) /\ ShownBy(f, Trim(p)) = Trim(ShownBy(f, p))
    <2>1. f \in [Pieces -> Pieces] /\ \A e \in Pieces : f[e] = Space <=> e = Space
      BY <1>7
    <2> QED
      BY <2>1, TrimShows, Zenon
  <1> DEFINE A == {k \in 0..m : ShownBy(f, upTo[k]) = z(Before(k))}
  <1>12. 0..m \subseteq A
    <2>1. 0 \in A
      <3>1. Before(0) = 0 /\ upTo[0] = <<>> /\ <<>> \in Seq(Elements) /\ 0 \in 0..n
        BY <1>1, <1>2 DEF Before
      <3> QED
        BY <1>4, <1>8, <1>19, <3>1
    <2>2. ASSUME NEW k \in A \cap (0..m), k < m PROVE k + 1 \in A
      <3> DEFINE l == k + 1
                 q == upTo[k]
      <3>1. l \in 1..m /\ l \in 0..m /\ l - 1 = k /\ k \in 0..m
        BY <1>4, <2>2
      <3>2. q \in Seq(Pieces) /\ ShownBy(f, q) = z(Before(k)) /\ upTo[l] = q \o said(l) \o <<Placeholder(l)>>
        BY <1>1, <2>2, <3>1
      <3>3. said(l) \in Seq(Elements) /\ said(l) \in Seq(Pieces) /\ ShownBy(f, said(l)) = said(l)
        BY <1>8, <1>9, <3>1
      <3>4. /\ z(Before(k)) \o said(l) = z(at[l] - 1)
            /\ z(at[l]) = Append(z(at[l] - 1), buffer[at[l]])
            /\ at[l] \in 1..n
        BY <1>3, <1>9, <3>1
      <3>5. Before(l) = at[l]
        BY <1>4, <3>1 DEF Before, at
      <3>6. /\ <<Placeholder(l)>> \in Seq(Pieces)
            /\ ShownBy(f, <<Placeholder(l)>>) = <<buffer[at[l]]>>
        <4>1. Placeholder(l) \in Pieces /\ f[Placeholder(l)] = buffer[at[l]]
          BY <1>7, <3>1
        <4>2. ShownBy(f, <<Placeholder(l)>>) = [i \in 1..1 |-> f[<<Placeholder(l)>>[i]]]
          BY DEF ShownBy
        <4>3. \A i \in 1..1 : f[<<Placeholder(l)>>[i]] = buffer[at[l]]
          BY <4>1
        <4> QED
          BY <4>1, <4>2, <4>3
      <3> HIDE DEF l, q
      <3>7. q \o said(l) \in Seq(Pieces) /\ ShownBy(f, q \o said(l)) = z(at[l] - 1)
        <4>1. q \o said(l) \in Seq(Pieces)
          BY <3>2, <3>3, ConcatProperties
        <4>2. ShownBy(f, q \o said(l)) = ShownBy(f, q) \o ShownBy(f, said(l))
          BY <1>17, <3>2, <3>3
        <4> QED
          BY <3>2, <3>3, <3>4, <4>1, <4>2
      <3>8. ShownBy(f, (q \o said(l)) \o <<Placeholder(l)>>) = z(at[l] - 1) \o <<buffer[at[l]]>>
        <4>1. ShownBy(f, (q \o said(l)) \o <<Placeholder(l)>>) = ShownBy(f, q \o said(l)) \o ShownBy(f, <<Placeholder(l)>>)
          BY <1>17, <3>6, <3>7
        <4> QED
          BY <3>6, <3>7, <4>1
      <3>9. z(at[l] - 1) \o <<buffer[at[l]]>> = z(at[l])
        <4>1. at[l] - 1 \in 0..n /\ buffer[at[l]] \in Elements
          BY <1>2, <3>4
        <4>2. z(at[l] - 1) \in Seq(Elements)
          BY <1>19, <4>1
        <4>3. Append(z(at[l] - 1), buffer[at[l]]) = z(at[l] - 1) \o <<buffer[at[l]]>>
          BY <4>1, <4>2, AppendIsConcat
        <4> QED
          BY <3>4, <4>3
      <3>10. ShownBy(f, upTo[l]) = z(Before(l))
        BY <3>2, <3>5, <3>8, <3>9
      <3> QED
        BY <3>1, <3>10 DEF l
    <2> HIDE DEF A
    <2> QED
      BY <1>4, <2>1, <2>2, UpFrom
  <1> DEFINE t == upTo[m] \o last
  <1>13. t \in Seq(Pieces) /\ ShownBy(f, t) = z(n)
    <2>1. m \in A /\ m \in 0..m
      BY <1>4, <1>12
    <2>2. upTo[m] \in Seq(Pieces) /\ ShownBy(f, upTo[m]) = z(Before(m))
      BY <1>1, <2>1
    <2>3. last \in Seq(Pieces) /\ ShownBy(f, last) = last
      BY <1>8, <1>10
    <2>4. t \in Seq(Pieces)
      BY <2>2, <2>3, ConcatProperties
    <2>5. ShownBy(f, t) = ShownBy(f, upTo[m]) \o ShownBy(f, last)
      BY <1>17, <2>2, <2>3
    <2> QED
      BY <1>10, <2>2, <2>3, <2>4, <2>5
  <1> HIDE DEF t, A
  <1>14. Trim(t) \in Seq(Pieces) /\ ShownBy(f, Trim(t)) = Trim(z(n))
    BY <1>13, <1>18
  <1>15. Segments(Query) = ShownBy(f, Trim(t))
    <2> DEFINE x == Trim(t)
    <2>1. Query.text = x /\ Query.images = pictures
      BY <1>1 DEF t
    <2>2. Segments(Query) = [i \in DOMAIN x |-> IF Is(x[i]) THEN Anchor(pictures[x[i].image]) ELSE x[i]]
      BY <2>1 DEF Segments
    <2>3. x \in Seq(Pieces) /\ DOMAIN x = 1..Len(x)
      BY <1>14
    <2> HIDE DEF x, Is
    <2>4. \A i \in 1..Len(x) : f[x[i]] = IF Is(x[i]) THEN Anchor(pictures[x[i].image]) ELSE x[i]
      <3>1. \A i \in 1..Len(x) : x[i] \in Pieces
        BY <2>3
      <3> QED
        BY <3>1 DEF f
    <2> QED
      BY <2>2, <2>3, <2>4 DEF ShownBy, x
  <1>16. Trim(z(n)) = Trim(AllSifted(buffer, ToSet(buffer) \ {Object}))
    BY DEF AllSifted, z, n, T
  <1> QED
    BY <1>14, <1>15, <1>16 DEF PromptIsShownAsComposed, ComposerInv

(* The images of a text, and of the parts it is made of.                   *)
LEMMA AliveIs == \A b, x : x \in Alive(b) <=> \E i \in DOMAIN b : b[i].kind = "anchor" /\ b[i].image = x
  BY DEF Alive

LEMMA Joins ==
  ASSUME NEW b \in Seq(Elements), NEW c \in Seq(Elements), AnchoredOnce(b), AnchoredOnce(c), Alive(b) \cap Alive(c) = {}
  PROVE  b \o c \in Seq(Elements) /\ AnchoredOnce(b \o c) /\ Alive(b \o c) = Alive(b) \cup Alive(c)
  <1> DEFINE d == b \o c
  <1>1. /\ d \in Seq(Elements) /\ Len(d) = Len(b) + Len(c)
        /\ \A i \in 1..(Len(b) + Len(c)) : d[i] = IF i <= Len(b) THEN b[i] ELSE c[i - Len(b)]
    BY ConcatProperties
  <1>2. /\ Len(b) \in Nat /\ Len(c) \in Nat /\ DOMAIN b = 1..Len(b) /\ DOMAIN c = 1..Len(c)
    OBVIOUS
  <1> HIDE DEF d
  <1>3. DOMAIN d = 1..(Len(b) + Len(c))
    BY <1>1
  <1>4. \A i \in 1..Len(b) : i \in DOMAIN d /\ d[i] = b[i]
    BY <1>1, <1>2, <1>3
  <1>5. ASSUME NEW i \in 1..Len(c) PROVE i + Len(b) \in DOMAIN d /\ d[i + Len(b)] = c[i]
    <2>1. i + Len(b) \in 1..(Len(b) + Len(c)) /\ ~(i + Len(b) <= Len(b)) /\ (i + Len(b)) - Len(b) = i
      BY <1>2
    <2> QED
      BY <1>1, <1>3, <2>1
  <1>6. \A i \in DOMAIN d : i \in 1..Len(b) \/ (i - Len(b) \in 1..Len(c) /\ i > Len(b))
    BY <1>2, <1>3
  <1>7. \A i \in DOMAIN d : i - Len(b) \in 1..Len(c) /\ i > Len(b) => d[i] = c[i - Len(b)]
    BY <1>1, <1>2, <1>3
  <1>8. Alive(d) = Alive(b) \cup Alive(c)
    <2>1. ASSUME NEW x \in Alive(d) PROVE x \in Alive(b) \cup Alive(c)
      <3>1. PICK i \in DOMAIN d : d[i].kind = "anchor" /\ d[i].image = x
        BY <2>1, AliveIs
      <3>2. CASE i \in 1..Len(b)
        BY <1>2, <1>4, <3>1, <3>2, AliveIs
      <3>3. CASE i - Len(b) \in 1..Len(c) /\ i > Len(b)
        BY <1>2, <1>7, <3>1, <3>3, AliveIs
      <3> QED
        BY <1>6, <3>2, <3>3
    <2>2. ASSUME NEW x \in Alive(b) PROVE x \in Alive(d)
      <3>1. PICK i \in DOMAIN b : b[i].kind = "anchor" /\ b[i].image = x
        BY <2>2, AliveIs
      <3> QED
        BY <1>2, <1>4, <3>1, AliveIs
    <2>3. ASSUME NEW x \in Alive(c) PROVE x \in Alive(d)
      <3>1. PICK i \in DOMAIN c : c[i].kind = "anchor" /\ c[i].image = x
        BY <2>3, AliveIs
      <3>2. i + Len(b) \in DOMAIN d /\ d[i + Len(b)] = c[i]
        BY <1>2, <1>5, <3>1
      <3> QED
        BY <3>1, <3>2, AliveIs
    <2> QED
      BY <2>1, <2>2, <2>3
  <1>9. \A i \in 1..Len(b), j \in 1..Len(c) : ~(b[i].kind = "anchor" /\ b[i] = c[j])
    <2> SUFFICES ASSUME NEW i \in 1..Len(b), NEW j \in 1..Len(c), b[i].kind = "anchor", b[i] = c[j] PROVE FALSE
      OBVIOUS
    <2>1. b[i].image \in Alive(b)
      BY <1>2, AliveIs
    <2>2. b[i].image \in Alive(c)
      BY <1>2, AliveIs
    <2> QED
      BY <2>1, <2>2
  <1>10. AnchoredOnce(d)
    <2> SUFFICES ASSUME NEW i \in DOMAIN d, NEW j \in DOMAIN d, d[i].kind = "anchor", d[i] = d[j] PROVE i = j
      BY DEF AnchoredOnce
    <2>1. CASE i \in 1..Len(b) /\ j \in 1..Len(b)
      <3>1. b[i].kind = "anchor" /\ b[i] = b[j]
        BY <1>4, <2>1
      <3> QED
        BY <1>2, <2>1, <3>1 DEF AnchoredOnce
    <2>2. CASE i \in 1..Len(b) /\ (j - Len(b) \in 1..Len(c) /\ j > Len(b))
      BY <1>4, <1>7, <1>9, <2>2
    <2>3. CASE (i - Len(b) \in 1..Len(c) /\ i > Len(b)) /\ j \in 1..Len(b)
      BY <1>4, <1>7, <1>9, <2>3
    <2>4. CASE (i - Len(b) \in 1..Len(c) /\ i > Len(b)) /\ (j - Len(b) \in 1..Len(c) /\ j > Len(b))
      <3>1. c[i - Len(b)].kind = "anchor" /\ c[i - Len(b)] = c[j - Len(b)]
        BY <1>7, <2>4
      <3>2. i - Len(b) = j - Len(b)
        BY <1>2, <2>4, <3>1 DEF AnchoredOnce
      <3>3. i \in Int /\ j \in Int
        BY <1>3
      <3> QED
        BY <1>2, <3>2, <3>3
    <2> QED
      BY <1>6, <2>1, <2>2, <2>3, <2>4
  <1> QED
    BY <1>1, <1>8, <1>10 DEF d

LEMMA Parts ==
  ASSUME NEW b \in Seq(Elements), AnchoredOnce(b), NEW from \in 1..(Len(b) + 1), NEW to \in 0..Len(b)
  PROVE  LET p == SubSeq(b, from, to)
         IN  /\ p \in Seq(Elements) /\ AnchoredOnce(p) /\ Alive(p) \subseteq Alive(b)
             /\ \A x \in Alive(p) : \E i \in from..to : b[i].kind = "anchor" /\ b[i].image = x
  <1> DEFINE p == SubSeq(b, from, to)
  <1>1. /\ Len(b) \in Nat /\ DOMAIN b = 1..Len(b) /\ from \in Int /\ to \in Int
        /\ \A i \in from..to : i \in DOMAIN b /\ b[i] \in Elements
    OBVIOUS
  <1>2. /\ p \in Seq(Elements)
        /\ Len(p) = IF from <= to THEN to - from + 1 ELSE 0
        /\ \A i \in 1..(to - from + 1) : p[i] = b[from + i - 1]
    <2>1. from \in Int /\ to \in Int /\ \A i \in from..to : b[i] \in Elements
      BY <1>1
    <2> QED
      BY <2>1, SubSeqProperties
  <1> HIDE DEF p
  <1>3. \A i \in DOMAIN p : i \in Int /\ from + i - 1 \in from..to /\ p[i] = b[from + i - 1]
    BY <1>1, <1>2
  <1>4. \A x \in Alive(p) : \E i \in from..to : b[i].kind = "anchor" /\ b[i].image = x
    <2> SUFFICES ASSUME NEW x \in Alive(p) PROVE \E i \in from..to : b[i].kind = "anchor" /\ b[i].image = x
      OBVIOUS
    <2>1. PICK i \in DOMAIN p : p[i].kind = "anchor" /\ p[i].image = x
      BY AliveIs
    <2>2. from + i - 1 \in from..to /\ p[i] = b[from + i - 1]
      BY <1>3
    <2> QED
      BY <2>1, <2>2
  <1>5. Alive(p) \subseteq Alive(b)
    BY <1>1, <1>4, AliveIs
  <1>6. AnchoredOnce(p)
    <2> SUFFICES ASSUME NEW i \in DOMAIN p, NEW j \in DOMAIN p, p[i].kind = "anchor", p[i] = p[j] PROVE i = j
      BY DEF AnchoredOnce
    <2>1. from + i - 1 = from + j - 1
      BY <1>1, <1>3 DEF AnchoredOnce
    <2> QED
      BY <1>1, <1>3, <2>1
  <1> QED
    BY <1>2, <1>4, <1>5, <1>6 DEF p

LEMMA Splices ==
  ASSUME NEW b \in Seq(Elements), AnchoredOnce(b), NEW es \in Seq(Elements), AnchoredOnce(es), Alive(b) \cap Alive(es) = {},
         NEW from \in 0..Len(b), NEW to \in from..Len(b), NEW c, c = Spliced(b, from, to, es)
  PROVE  c \in Seq(Elements) /\ AnchoredOnce(c) /\ Alive(c) \subseteq Alive(b) \cup Alive(es)
  <1> DEFINE p == SubSeq(b, 1, from)
             q == SubSeq(b, to + 1, Len(b))
  <1>1. /\ 1 \in 1..(Len(b) + 1) /\ from \in 0..Len(b) /\ to + 1 \in 1..(Len(b) + 1) /\ Len(b) \in 0..Len(b)
        /\ DOMAIN b = 1..Len(b) /\ Len(b) \in Nat
    OBVIOUS
  <1>2. /\ p \in Seq(Elements) /\ AnchoredOnce(p) /\ Alive(p) \subseteq Alive(b)
        /\ \A x \in Alive(p) : \E i \in 1..from : b[i].kind = "anchor" /\ b[i].image = x
    BY <1>1, Parts
  <1>3. /\ q \in Seq(Elements) /\ AnchoredOnce(q) /\ Alive(q) \subseteq Alive(b)
        /\ \A x \in Alive(q) : \E i \in (to + 1)..Len(b) : b[i].kind = "anchor" /\ b[i].image = x
    BY <1>1, Parts
  <1>4. c = (p \o es) \o q
    BY DEF Spliced
  <1> HIDE DEF p, q
  <1>5. Alive(p) \cap Alive(q) = {}
    <2> SUFFICES ASSUME NEW x \in Alive(p), x \in Alive(q) PROVE FALSE
      OBVIOUS
    <2>1. PICK i \in 1..from : b[i].kind = "anchor" /\ b[i].image = x
      BY <1>2
    <2>2. PICK j \in (to + 1)..Len(b) : b[j].kind = "anchor" /\ b[j].image = x
      BY <1>3
    <2>3. i \in DOMAIN b /\ j \in DOMAIN b /\ i # j
      BY <1>1
    <2>4. b[i] = b[j]
      <3>1. b[i] \in Elements /\ b[j] \in Elements
        BY <1>1, <2>3
      <3> QED
        BY <2>1, <2>2, <3>1, ElementIs
    <2> QED
      BY <2>1, <2>3, <2>4 DEF AnchoredOnce
  <1>6. p \o es \in Seq(Elements) /\ AnchoredOnce(p \o es) /\ Alive(p \o es) = Alive(p) \cup Alive(es)
    <2>1. Alive(p) \cap Alive(es) = {}
      BY <1>2
    <2> QED
      BY <1>2, <2>1, Joins
  <1>7. /\ (p \o es) \o q \in Seq(Elements) /\ AnchoredOnce((p \o es) \o q)
        /\ Alive((p \o es) \o q) = Alive(p \o es) \cup Alive(q)
    <2>1. Alive(p \o es) \cap Alive(q) = {}
      BY <1>3, <1>5, <1>6
    <2> QED
      BY <1>3, <1>6, <2>1, Joins
  <1> QED
    BY <1>2, <1>3, <1>4, <1>6, <1>7

(* What a paste inserts has the anchors of the images it has created.      *)
Inserted(es) ==
    /\ es \in Seq(Elements) /\ AnchoredOnce(es)
    /\ Cardinality(Alive(es)) \in Nat /\ Alive(es) = (images + 1)..(images + Cardinality(Alive(es)))

LEMMA NoAnchor ==
  /\ <<>> \in Seq(Elements) /\ AnchoredOnce(<<>>) /\ Alive(<<>>) = {}
  /\ \A e \in Elements : <<e>> \in Seq(Elements) /\ AnchoredOnce(<<e>>)
  /\ \A e \in Elements : e.kind # "anchor" => Alive(<<e>>) = {}
  /\ \A m \in Nat \ {0} : Anchor(m) \in Elements /\ Alive(<<Anchor(m)>>) = {m}
  /\ {Word, Space, Object} \subseteq Elements
  <1>1. <<>> \in Seq(Elements) /\ AnchoredOnce(<<>>) /\ Alive(<<>>) = {}
    BY DEF AnchoredOnce, Alive
  <1>2. \A e \in Elements : <<e>> \in Seq(Elements) /\ AnchoredOnce(<<e>>)
    BY DEF AnchoredOnce
  <1>3. \A e : DOMAIN <<e>> = {1} /\ <<e>>[1] = e
    OBVIOUS
  <1>4. \A e, x : x \in Alive(<<e>>) <=> e.kind = "anchor" /\ e.image = x
    BY <1>3, AliveIs
  <1>5. \A m \in Nat \ {0} : Anchor(m) \in Elements
    BY DEF Elements
  <1>6. \A m : Anchor(m).kind = "anchor" /\ Anchor(m).image = m
    BY ElementIs
  <1>7. \A m : Alive(<<Anchor(m)>>) = {m}
    BY <1>4, <1>6
  <1>8. \A e \in Elements : e.kind # "anchor" => Alive(<<e>>) = {}
    BY <1>4
  <1> QED
    BY <1>1, <1>2, <1>5, <1>7, <1>8 DEF Elements

(* Files, one by one.                                                      *)
LEMMA LoadedIs ==
  ASSUME images \in Nat, NEW c \in Seq({"memory", "image", "link", "other"}), NEW fails
  PROVE  LET es == Loaded(c, fails)
         IN  es \in Seq(Elements) /\ AnchoredOnce(es) /\ \E m \in Nat : Alive(es) = (images + 1)..(images + m)
  <1> DEFINE n == Len(c)
             Q == Seq(Elements)
             loads(i) == {j \in 1..i : Readable(c, j, fails)}
             insert(i) == IF Readable(c, i, fails) THEN Anchor(images + Cardinality(loads(i))) ELSE Word
             body(f) == [i \in 0..n |-> IF i = 0 THEN <<>> ELSE f[i - 1] \o <<insert(i), Space>>]
             made == CHOOSE f : f = body(f)
             One(i, q) == q \o <<insert(i), Space>>
             L == [i \in 0..n |-> Q]
             step == [i \in (0 + 1)..n |-> [q \in Q |-> One(i, q)]]
  <1>1. Loaded(c, fails) = made[n] /\ n \in Nat
    BY DEF Loaded
  <1>2. \A i \in Nat : IsFiniteSet(loads(i)) /\ Cardinality(loads(i)) \in Nat
    <2> SUFFICES ASSUME NEW i \in Nat PROVE IsFiniteSet(loads(i)) /\ Cardinality(loads(i)) \in Nat
      OBVIOUS
    <2>1. IsFiniteSet(1..i)
      BY FS_Interval
    <2>2. loads(i) \subseteq 1..i
      OBVIOUS
    <2> HIDE DEF loads
    <2> QED
      BY <2>1, <2>2, FS_Subset, FS_CardinalityType
  <1>3. /\ Cardinality(loads(0)) = 0
        /\ \A i \in Nat \ {0} : /\ Readable(c, i, fails) => Cardinality(loads(i)) = Cardinality(loads(i - 1)) + 1
                                /\ ~Readable(c, i, fails) => loads(i) = loads(i - 1)
    <2>1. loads(0) = {}
      OBVIOUS
    <2>2. Cardinality(loads(0)) = 0
      BY <2>1, FS_EmptySet
    <2>3. ASSUME NEW i \in Nat \ {0}, Readable(c, i, fails) PROVE Cardinality(loads(i)) = Cardinality(loads(i - 1)) + 1
      <3>1. loads(i) = loads(i - 1) \cup {i} /\ i \notin loads(i - 1) /\ i - 1 \in Nat
        BY <2>3
      <3> HIDE DEF loads
      <3> QED
        BY <1>2, <3>1, FS_AddElement
    <2>4. ASSUME NEW i \in Nat \ {0}, ~Readable(c, i, fails) PROVE loads(i) = loads(i - 1)
      <3>1. \A j : j \in 1..i <=> j \in 1..(i - 1) \/ j = i
        BY <2>4
      <3> QED
        BY <2>4, <3>1
    <2> QED
      BY <2>2, <2>3, <2>4
  <1> HIDE DEF loads
  <1>4. ASSUME NEW i \in 1..n PROVE insert(i) \in Elements
    <2>1. i \in Nat /\ i - 1 \in Nat /\ i \in Nat \ {0}
      BY <1>1
    <2>2. CASE Readable(c, i, fails)
      <3>1. Cardinality(loads(i)) = Cardinality(loads(i - 1)) + 1 /\ Cardinality(loads(i - 1)) \in Nat
        BY <1>2, <1>3, <2>1, <2>2
      <3>2. images + Cardinality(loads(i)) \in Nat \ {0}
        BY <3>1
      <3> QED
        BY <2>2, <3>2, NoAnchor
    <2>3. CASE ~Readable(c, i, fails)
      BY <2>3, NoAnchor
    <2> QED
      BY <2>2, <2>3
  <1>5. ASSUME NEW i \in 1..n, NEW q \in Q PROVE One(i, q) \in Q
    <2>1. <<insert(i), Space>> \in Q
      BY <1>4, NoAnchor
    <2> HIDE DEF insert
    <2> QED
      BY <2>1, ConcatProperties
  <1>6. <<>> \in Q
    OBVIOUS
  <1> HIDE DEF One, Q, insert, n
  <1>7. L \in [0..n -> SUBSET Q] /\ L[0] = Q
    BY <1>1
  <1>8. step \in [(0 + 1)..n -> [Q -> Q]] /\ \A i \in 1..n : \A q \in Q : step[i][q] = One(i, q)
    BY <1>5
  <1>9. \A i \in (0 + 1)..n : \A t \in L[i - 1] : step[i][t] \in L[i]
    <2> SUFFICES ASSUME NEW i \in (0 + 1)..n, NEW t \in L[i - 1] PROVE step[i][t] \in L[i]
      OBVIOUS
    <2>1. i - 1 \in 0..n /\ i \in 0..n /\ i \in 1..n
      BY <1>1
    <2>2. t \in Q /\ L[i] = Q
      BY <2>1
    <2> QED
      BY <1>5, <1>8, <2>1, <2>2
  <1> HIDE DEF L, step
  <1>10. PICK g \in [0..n -> Q] : g[0] = <<>> /\ \A i \in (0 + 1)..n : g[i] = step[i][g[i - 1]]
    <2>1. <<>> \in L[0] /\ Leads(step, L, Q, 0, n)
      BY <1>6, <1>7, <1>8, <1>9 DEF Leads
    <2>2. \E f \in [0..n -> Q] : Steps(f, step, 0, n, <<>>)
      BY <1>1, <2>1, Climbs
    <2> QED
      BY <2>2 DEF Steps
  <1>11. \A i \in 1..n : g[i] = One(i, g[i - 1])
    <2> SUFFICES ASSUME NEW i \in 1..n PROVE g[i] = One(i, g[i - 1])
      OBVIOUS
    <2>1. i \in (0 + 1)..n /\ i - 1 \in 0..n
      BY <1>1
    <2>2. g[i - 1] \in Q
      BY <1>10, <2>1
    <2> QED
      BY <1>8, <1>10, <2>1, <2>2
  <1>12. g = body(g)
    <2>1. ASSUME NEW i \in 0..n PROVE g[i] = body(g)[i]
      <3>1. CASE i = 0
        BY <1>10, <3>1
      <3>2. CASE i # 0
        <4>1. i \in 1..n
          BY <1>1, <3>2
        <4> QED
          BY <1>11, <3>2, <4>1 DEF One
      <3> QED
        BY <3>1, <3>2
    <2>2. DOMAIN body(g) = 0..n /\ body(g) = [i \in DOMAIN body(g) |-> body(g)[i]]
      OBVIOUS
    <2> HIDE DEF body
    <2> QED
      BY <2>1, <2>2
  <1>13. made = body(made)
    <2> HIDE DEF body
    <2> QED
      BY <1>12
  <1> HIDE DEF made
  <1>14. made[0] = <<>> /\ \A i \in 1..n : made[i] = One(i, made[i - 1])
    <2>1. body(made)[0] = <<>>
      BY <1>1
    <2>2. ASSUME NEW i \in 1..n PROVE body(made)[i] = One(i, made[i - 1])
      <3>1. i \in 0..n /\ i # 0
        BY <1>1
      <3> QED
        BY <3>1 DEF One
    <2> HIDE DEF body
    <2> QED
      BY <1>13, <2>1, <2>2
  <1> HIDE DEF body
  <1> DEFINE Whole(i, q) == q \in Q /\ AnchoredOnce(q) /\ Alive(q) = (images + 1)..(images + Cardinality(loads(i)))
             A == {i \in 0..n : Whole(i, made[i])}
  <1>15. 0 \in A
    <2>1. (images + 1)..(images + 0) = {}
      OBVIOUS
    <2>2. made[0] = <<>> /\ Cardinality(loads(0)) = 0 /\ 0 \in 0..n
      BY <1>1, <1>3, <1>14
    <2>3. <<>> \in Q /\ AnchoredOnce(<<>>) /\ Alive(<<>>) = (images + 1)..(images + 0)
      BY <1>6, <2>1, NoAnchor
    <2> QED
      BY <2>2, <2>3
  <1>16. ASSUME NEW k \in A \cap (0..n), k < n PROVE k + 1 \in A
    <2> DEFINE i == k + 1
               q == made[k]
               e == insert(i)
               x == Cardinality(loads(k))
    <2>1. i \in 1..n /\ i \in 0..n /\ i - 1 = k /\ i \in Nat \ {0} /\ k \in Nat
      BY <1>1, <1>16
    <2>2. q \in Seq(Elements) /\ AnchoredOnce(q) /\ Alive(q) = (images + 1)..(images + x) /\ x \in Nat
      BY <1>2, <1>16, <2>1 DEF Q
    <2>3. e \in Elements /\ Space \in Elements
      BY <1>4, <2>1, NoAnchor
    <2>4. made[i] = q \o <<e, Space>>
      BY <1>14, <2>1 DEF One
    <2>5. /\ Readable(c, i, fails) => Cardinality(loads(i)) = x + 1 /\ e = Anchor(images + (x + 1))
          /\ ~Readable(c, i, fails) => Cardinality(loads(i)) = x /\ e = Word
      BY <1>3, <2>1 DEF insert
    <2> HIDE DEF i, q, e, x
    <2>6. <<e, Space>> = <<e>> \o <<Space>>
      OBVIOUS
    <2>7. /\ <<e>> \in Seq(Elements) /\ AnchoredOnce(<<e>>)
          /\ <<Space>> \in Seq(Elements) /\ AnchoredOnce(<<Space>>) /\ Alive(<<Space>>) = {}
      <3>1. Space.kind # "anchor"
        BY ElementIs
      <3> QED
        BY <2>3, <3>1, NoAnchor
    <2>8. <<e, Space>> \in Seq(Elements) /\ AnchoredOnce(<<e, Space>>) /\ Alive(<<e, Space>>) = Alive(<<e>>)
      <3>1. Alive(<<e>>) \cap Alive(<<Space>>) = {}
        BY <2>7
      <3>2. LET d == <<e>> \o <<Space>> IN d \in Seq(Elements) /\ AnchoredOnce(d) /\ Alive(d) = Alive(<<e>>) \cup Alive(<<Space>>)
        BY <2>7, <3>1, Joins
      <3> QED
        BY <2>6, <2>7, <3>2
    <2>9. Alive(<<e>>) = (images + (x + 1))..(images + Cardinality(loads(i)))
      <3>1. CASE Readable(c, i, fails)
        <4>1. images + (x + 1) \in Nat \ {0}
          BY <2>2
        <4>2. Alive(<<e>>) = {images + (x + 1)}
          BY <2>5, <3>1, <4>1, NoAnchor
        <4> QED
          BY <2>2, <2>5, <3>1, <4>2
      <3>2. CASE ~Readable(c, i, fails)
        <4>1. Word.kind # "anchor" /\ Word \in Elements
          BY ElementIs, NoAnchor
        <4>2. Alive(<<e>>) = {}
          BY <2>5, <3>2, <4>1, NoAnchor
        <4>3. (images + (x + 1))..(images + x) = {}
          BY <2>2
        <4> QED
          BY <2>5, <3>2, <4>2, <4>3
      <3> QED
        BY <3>1, <3>2
    <2>10. Cardinality(loads(i)) = x \/ Cardinality(loads(i)) = x + 1
      BY <2>5
    <2>11. Alive(q) \cap Alive(<<e, Space>>) = {}
      BY <2>2, <2>8, <2>9, <2>10
    <2>12. LET d == q \o <<e, Space>> IN d \in Seq(Elements) /\ AnchoredOnce(d) /\ Alive(d) = Alive(q) \cup Alive(<<e, Space>>)
      BY <2>2, <2>8, <2>11, Joins
    <2>13. Alive(q) \cup Alive(<<e, Space>>) = (images + 1)..(images + Cardinality(loads(i)))
      BY <2>2, <2>8, <2>9, <2>10
    <2>14. Whole(i, made[i])
      BY <2>4, <2>12, <2>13 DEF Q
    <2> HIDE DEF Whole
    <2> QED
      BY <2>1, <2>14 DEF i
  <1>17. n \in A
    <2> HIDE DEF A
    <2>1. 0..n \subseteq A
      BY <1>1, <1>15, <1>16, UpFrom
    <2> QED
      BY <1>1, <2>1
  <1>18. Whole(n, made[n]) /\ Cardinality(loads(n)) \in Nat
    BY <1>1, <1>2, <1>17
  <1> QED
    BY <1>1, <1>18 DEF Q

LEMMA PastedIs ==
  ASSUME images \in Nat, NEW c \in Clipboards, NEW fails
  PROVE  Inserted(Pasted(c, fails))
  <1> DEFINE es == Pasted(c, fails)
  <1>1. c \in Seq({"memory", "image", "link", "other"})
    BY ComposerAssumption
  <1>2. Word.kind # "anchor" /\ Word \in Elements /\ Space.kind # "anchor" /\ Space \in Elements
    BY ElementIs, NoAnchor
  <1>3. es \in Seq(Elements) /\ AnchoredOnce(es) /\ \E m \in Nat : Alive(es) = (images + 1)..(images + m)
    <2>1. (images + 1)..(images + 0) = {} /\ (images + 1)..(images + 1) = {images + 1} /\ images + 1 \in Nat \ {0}
      OBVIOUS
    <2>2. CASE c = <<"memory">> /\ fails = {}
      <3> DEFINE a == Anchor(images + 1)
      <3>1. a \in Elements /\ <<a>> \in Seq(Elements) /\ AnchoredOnce(<<a>>) /\ Alive(<<a>>) = {images + 1}
        BY <2>1, NoAnchor
      <3>2. <<Space>> \in Seq(Elements) /\ AnchoredOnce(<<Space>>) /\ Alive(<<Space>>) = {}
        BY <1>2, NoAnchor
      <3>3. es = <<a>> \o <<Space>>
        BY <2>2 DEF Pasted, InMemory
      <3> HIDE DEF a, es
      <3>4. Alive(<<a>>) \cap Alive(<<Space>>) = {}
        BY <3>2
      <3>5. es \in Seq(Elements) /\ AnchoredOnce(es) /\ Alive(es) = Alive(<<a>>) \cup Alive(<<Space>>)
        BY <3>1, <3>2, <3>3, <3>4, Joins
      <3>6. Alive(es) = (images + 1)..(images + 1)
        BY <2>1, <3>1, <3>2, <3>5
      <3> QED
        BY <3>5, <3>6
    <2>3. CASE c = <<"memory">> /\ fails # {}
      <3>1. es = <<>>
        BY <2>3 DEF Pasted, InMemory
      <3>2. Alive(es) = (images + 1)..(images + 0)
        BY <2>1, <3>1, NoAnchor
      <3> QED
        BY <3>1, <3>2, NoAnchor
    <2>4. CASE c # <<"memory">> /\ \A i \in DOMAIN c : c[i] = "link"
      <3>1. es = <<Word>>
        BY <2>4 DEF Pasted
      <3>2. es \in Seq(Elements) /\ AnchoredOnce(es) /\ Alive(es) = {}
        BY <1>2, <3>1, NoAnchor
      <3>3. Alive(es) = (images + 1)..(images + 0)
        BY <2>1, <3>2
      <3> QED
        BY <3>2, <3>3
    <2>5. CASE c # <<"memory">> /\ ~(\A i \in DOMAIN c : c[i] = "link")
      <3>1. es = Loaded(c, fails)
        BY <2>5 DEF Pasted
      <3> HIDE DEF es
      <3> QED
        BY <1>1, <3>1, LoadedIs
    <2> QED
      BY <2>2, <2>3, <2>4, <2>5
  <1> HIDE DEF es
  <1>4. PICK m \in Nat : Alive(es) = (images + 1)..(images + m)
    BY <1>3
  <1>5. Cardinality(Alive(es)) = m
    <2>1. Cardinality((images + 1)..(images + m)) = IF images + 1 > images + m THEN 0 ELSE (images + m) - (images + 1) + 1
      <3>1. images + 1 \in Int /\ images + m \in Int
        OBVIOUS
      <3> QED
        BY <3>1, FS_Interval
    <2> QED
      BY <1>4, <2>1
  <1> QED
    BY <1>3, <1>4, <1>5 DEF Inserted, es

LEMMA NothingTyped == TextOf(<<>>) = <<>>
  <1>1. \A T : \A s \in Seq(Elements) : \A i \in 0..Len(s) : i < 1 => Sifted(s, 1, i, T) = <<>>
    <2> SUFFICES ASSUME NEW T, NEW s \in Seq(Elements)
                 PROVE  \A i \in 0..Len(s) : i < 1 => Sifted(s, 1, i, T) = <<>>
      OBVIOUS
    <2>1. 1 \in Nat \ {0}
      OBVIOUS
    <2> QED
      BY <2>1, SiftedIs
  <1>2. <<>> \in Seq(Elements) /\ Len(<<>>) = 0 /\ 0 \in 0..Len(<<>>)
    OBVIOUS
  <1>3. ASSUME NEW T PROVE Sifted(<<>>, 1, 0, T) = <<>>
    <2>1. \A i \in 0..Len(<<>>) : i < 1 => Sifted(<<>>, 1, i, T) = <<>>
      BY <1>1, <1>2
    <2> QED
      BY <1>2, <2>1
  <1> QED
    BY <1>2, <1>3 DEF TextOf, AllSifted

(* A change of the user.                                                   *)
LEMMA ChangeKeeps ==
  ASSUME ~suppress, NEW b \in Seq(Elements), AnchoredOnce(b), NEW a \in Seq(Nat), Alive(b) \subseteq ToSet(a), Changed(b, a)
  PROVE  /\ buffer' \in Seq(Elements) /\ AnchoredOnce(buffer')
         /\ attachments' \in Seq(Nat) /\ ToSet(attachments') = Alive(buffer') /\ Alive(buffer') = Alive(b)
         /\ ~suppress'
         /\ SearchesFollowTyping'
  <1>1. /\ buffer' = b /\ attachments' = AllSifted(a, Alive(b)) /\ suppress' = FALSE /\ cleared' = FALSE
        /\ timer' = (b # <<>>) /\ searched' = IF b = <<>> THEN <<>> ELSE searched
    BY DEF Changed
  <1>2. attachments' \in Seq(Nat) /\ ToSet(attachments') = ToSet(a) \cap Alive(b)
    <2>1. \A T : AllSifted(a, T) \in Seq(Nat) /\ ToSet(AllSifted(a, T)) = ToSet(a) \cap T
      BY SiftedSet
    <2> QED
      BY <1>1, <2>1
  <1>3. (composerPc = "on" /\ ~timer /\ ~cleared => searched = TextOf(buffer))'
    BY <1>1, NothingTyped
  <1> QED
    BY <1>1, <1>2, <1>3 DEF SearchesFollowTyping

LEMMA ComposerStarts == ComposerInit => ComposerInv
  <1> SUFFICES ASSUME ComposerInit PROVE ComposerInv
    OBVIOUS
  <1>1. buffer = <<>> /\ attachments = <<>> /\ reads = <<>> /\ suppress = FALSE /\ searched = <<>> /\ images = 0
    BY DEF ComposerInit, ComposerRest
  <1>2. ToSet(<<>>) = {}
    BY DEF ToSet
  <1>3. TextOf(<<>>) = <<>>
    BY NothingTyped
  <1>4. SearchesFollowTyping
    BY <1>1, <1>3 DEF SearchesFollowTyping
  <1>5. <<>> \in Seq(Nat) /\ <<>> \in Seq(Clipboards)
    OBVIOUS
  <1> QED
    BY <1>1, <1>2, <1>4, <1>5, NoAnchor DEF ComposerInv

LEMMA ComposerSteps == ComposerInv /\ [ComposerNext]_composerVars => ComposerInv'
  <1> SUFFICES ASSUME ComposerInv, [ComposerNext]_composerVars PROVE ComposerInv'
    OBVIOUS
  <1>1. /\ buffer \in Seq(Elements) /\ AnchoredOnce(buffer)
        /\ attachments \in Seq(Nat) /\ ToSet(attachments) = Alive(buffer)
        /\ images \in Nat /\ Alive(buffer) \subseteq 1..images
        /\ reads \in Seq(Clipboards)
        /\ ~suppress
        /\ SearchesFollowTyping
    BY DEF ComposerInv
  <1>2. {Word, Space, Object} \subseteq Elements /\ Len(buffer) \in Nat
    BY <1>1, NoAnchor
  <1>3. ASSUME NEW i \in 0..Len(buffer), NEW e \in {Word, Space, Object}, UNCHANGED <<reads, images>>,
               Changed(Spliced(buffer, i, i, <<e>>), attachments)
        PROVE  ComposerInv'
    <2> DEFINE es == <<e>>
               c == Spliced(buffer, i, i, es)
    <2>1. es \in Seq(Elements) /\ AnchoredOnce(es) /\ Alive(es) = {}
      <3>1. e \in Elements /\ e.kind # "anchor"
        BY <1>2, ElementIs
      <3> QED
        BY <3>1, NoAnchor
    <2>2. i \in i..Len(buffer) /\ Alive(buffer) \cap Alive(es) = {}
      BY <2>1
    <2>4. Changed(c, attachments)
      BY <1>3
    <2> HIDE DEF es
    <2>3. c \in Seq(Elements) /\ AnchoredOnce(c) /\ Alive(c) \subseteq Alive(buffer) \cup Alive(es)
      BY <1>1, <2>1, <2>2, Splices
    <2> HIDE DEF c
    <2>5. Alive(c) \subseteq ToSet(attachments)
      BY <1>1, <2>1, <2>3
    <2>6. /\ buffer' \in Seq(Elements) /\ AnchoredOnce(buffer')
          /\ attachments' \in Seq(Nat) /\ ToSet(attachments') = Alive(buffer') /\ Alive(buffer') = Alive(c)
          /\ ~suppress'
          /\ SearchesFollowTyping'
      BY <1>1, <2>3, <2>4, <2>5, ChangeKeeps
    <2>7. images' = images /\ reads' = reads
      BY <1>3
    <2>8. Alive(buffer') \subseteq 1..images'
      BY <1>1, <2>1, <2>3, <2>6, <2>7
    <2> QED
      BY <1>1, <2>6, <2>7, <2>8 DEF ComposerInv
  <1>4. CASE DebounceEnds
    <2>1. /\ searched' = TextOf(buffer)
          /\ UNCHANGED <<composerPc, buffer, attachments, reads, suppress, images, edits, cleared>>
      BY <1>4 DEF DebounceEnds
    <2>2. SearchesFollowTyping'
      BY <2>1 DEF SearchesFollowTyping
    <2> QED
      BY <1>1, <2>1, <2>2 DEF ComposerInv
  <1>5. CASE Clear
    <2>1. /\ attachments' = <<>> /\ buffer' = <<>>
          /\ buffer = <<>> => UNCHANGED <<timer, suppress, cleared>>
          /\ buffer # <<>> => timer' = FALSE /\ suppress' = FALSE /\ cleared' = TRUE
          /\ UNCHANGED <<composerPc, reads, searched, images>>
      BY <1>5 DEF Clear
    <2>2. ToSet(<<>>) = {} /\ <<>> \in Seq(Nat)
      BY DEF ToSet
    <2>3. SearchesFollowTyping'
      BY <1>1, <2>1 DEF SearchesFollowTyping
    <2>4. ~suppress'
      BY <1>1, <2>1
    <2> QED
      BY <1>1, <2>1, <2>2, <2>3, <2>4, NoAnchor DEF ComposerInv
  <1>6. ASSUME NEW i \in 0..Len(buffer), UndoErase(i) PROVE ComposerInv'
    BY <1>3, <1>6 DEF UndoErase
  <1>7. ASSUME NEW i \in 0..Len(buffer), NEW e \in {Word, Space}, TypeAt(i, e) PROVE ComposerInv'
    BY <1>3, <1>7 DEF TypeAt
  <1>8. ASSUME NEW i \in 1..Len(buffer), EraseAt(i) PROVE ComposerInv'
    <2> DEFINE es == <<>>
               h == i - 1
               c == Spliced(buffer, h, i, es)
    <2>1. h \in 0..Len(buffer) /\ i \in h..Len(buffer)
      BY <1>2
    <2>2. es \in Seq(Elements) /\ AnchoredOnce(es) /\ Alive(es) = {} /\ Alive(buffer) \cap Alive(es) = {}
      BY NoAnchor
    <2>4. Changed(c, attachments) /\ images' = images /\ reads' = reads
      BY <1>8 DEF EraseAt
    <2> HIDE DEF es, h
    <2>3. c \in Seq(Elements) /\ AnchoredOnce(c) /\ Alive(c) \subseteq Alive(buffer) \cup Alive(es)
      BY <1>1, <2>1, <2>2, Splices
    <2> HIDE DEF c
    <2>5. Alive(c) \subseteq ToSet(attachments)
      BY <1>1, <2>2, <2>3
    <2>6. /\ buffer' \in Seq(Elements) /\ AnchoredOnce(buffer')
          /\ attachments' \in Seq(Nat) /\ ToSet(attachments') = Alive(buffer') /\ Alive(buffer') = Alive(c)
          /\ ~suppress'
          /\ SearchesFollowTyping'
      BY <1>1, <2>3, <2>4, <2>5, ChangeKeeps
    <2>7. Alive(buffer') \subseteq 1..images'
      BY <1>1, <2>2, <2>3, <2>4, <2>6
    <2> QED
      BY <1>1, <2>4, <2>6, <2>7 DEF ComposerInv
  <1>9. ASSUME NEW c \in Clipboards, BeginPaste(c) PROVE ComposerInv'
    <2>1. /\ reads' = Append(reads, c)
          /\ UNCHANGED <<composerPc, buffer, attachments, suppress, timer, searched, images, cleared>>
      BY <1>9 DEF BeginPaste
    <2>2. reads' \in Seq(Clipboards)
      BY <1>1, <2>1
    <2>3. SearchesFollowTyping'
      BY <1>1, <2>1 DEF SearchesFollowTyping
    <2> QED
      BY <1>1, <2>1, <2>2, <2>3 DEF ComposerInv
  <1>10. ASSUME NEW k \in DOMAIN reads PROVE reads[k] \in Clipboards /\ RemoveAt(reads, k) \in Seq(Clipboards)
    <2>1. k \in 1..Len(reads) /\ Len(reads) \in Nat
      BY <1>1
    <2>2. SubSeq(reads, 1, k - 1) \in Seq(Clipboards)
      <3>1. 1 \in Int /\ k - 1 \in Int /\ \A i \in 1..(k - 1) : reads[i] \in Clipboards
        BY <1>1, <2>1
      <3> QED
        BY <3>1, SubSeqProperties
    <2>3. SubSeq(reads, k + 1, Len(reads)) \in Seq(Clipboards)
      <3>1. k + 1 \in Int /\ Len(reads) \in Int /\ \A i \in (k + 1)..Len(reads) : reads[i] \in Clipboards
        BY <1>1, <2>1
      <3> QED
        BY <3>1, SubSeqProperties
    <2>4. SubSeq(reads, 1, k - 1) \o SubSeq(reads, k + 1, Len(reads)) \in Seq(Clipboards)
      BY <2>2, <2>3, ConcatProperties
    <2> QED
      BY <1>1, <2>4 DEF RemoveAt
  <1>11. ASSUME NEW k \in DOMAIN reads, NEW from \in 0..Len(buffer), NEW to \in 0..Len(buffer),
                NEW fails \in SUBSET DOMAIN reads[k], from <= to, PasteLands(k, from, to, fails)
         PROVE  ComposerInv'
    <2> DEFINE es == Pasted(reads[k], fails)
               new == Cardinality(Alive(es))
               c == Spliced(buffer, from, to, es)
               more == [i \in 1..new |-> images + i]
               a == attachments \o more
    <2>1. /\ Changed(c, a)
          /\ images' = images + new
          /\ reads' = RemoveAt(reads, k)
      BY <1>11 DEF PasteLands
    <2>2. Inserted(es)
      <3>1. reads[k] \in Clipboards
        BY <1>10
      <3> QED
        BY <1>1, <3>1, PastedIs
    <2> HIDE DEF es
    <2>3. es \in Seq(Elements) /\ AnchoredOnce(es) /\ new \in Nat /\ Alive(es) = (images + 1)..(images + new)
      BY <2>2 DEF Inserted
    <2> HIDE DEF new
    <2>4. Alive(buffer) \cap Alive(es) = {}
      BY <1>1, <2>3
    <2>5. c \in Seq(Elements) /\ AnchoredOnce(c) /\ Alive(c) \subseteq Alive(buffer) \cup Alive(es)
      <3>1. to \in from..Len(buffer)
        BY <1>11
      <3> QED
        BY <1>1, <2>3, <2>4, <3>1, Splices
    <2>6. more \in Seq(Nat) /\ Len(more) = new /\ \A i \in 1..new : more[i] = images + i
      <3>1. \A i \in 1..new : images + i \in Nat
        BY <1>1, <2>3
      <3> QED
        BY <2>3, <3>1
    <2> HIDE DEF more, c
    <2>7. a \in Seq(Nat) /\ ToSet(attachments) \subseteq ToSet(a) /\ Alive(es) \subseteq ToSet(a)
      <3>1. /\ a \in Seq(Nat) /\ Len(a) = Len(attachments) + Len(more)
            /\ \A i \in 1..(Len(attachments) + Len(more)) :
                  a[i] = IF i <= Len(attachments) THEN attachments[i] ELSE more[i - Len(attachments)]
        <4>1. attachments \in Seq(Nat) /\ more \in Seq(Nat)
          BY <1>1, <2>6
        <4> QED
          BY <4>1, ConcatProperties
      <3>2. Len(attachments) \in Nat
        BY <1>1
      <3> HIDE DEF a
      <3>6. \A j \in 1..Len(a) : a[j] \in ToSet(a)
        <4>1. DOMAIN a = 1..Len(a)
          BY <3>1
        <4> QED
          BY <4>1 DEF ToSet
      <3>3. ASSUME NEW i \in 1..Len(attachments) PROVE attachments[i] \in ToSet(a)
        <4>1. i \in 1..Len(a) /\ a[i] = attachments[i]
          BY <2>3, <2>6, <3>1, <3>2
        <4> QED
          BY <3>6, <4>1
      <3>4. ASSUME NEW x \in Alive(es) PROVE x \in ToSet(a)
        <4> DEFINE i == x - images
        <4>1. i \in 1..new /\ images + i = x
          BY <1>1, <2>3
        <4> HIDE DEF i
        <4>2. /\ Len(attachments) + i \in 1..Len(a)
              /\ ~(Len(attachments) + i <= Len(attachments)) /\ (Len(attachments) + i) - Len(attachments) = i
          <5>1. Len(a) = Len(attachments) + new /\ i \in Nat /\ 1 <= i /\ i <= new
            BY <2>3, <2>6, <3>1, <4>1
          <5> QED
            BY <2>3, <3>2, <5>1
        <4>3. a[Len(attachments) + i] = x
          BY <2>6, <3>1, <4>1, <4>2
        <4> QED
          BY <3>6, <4>2, <4>3
      <3>5. ToSet(attachments) \subseteq ToSet(a)
        BY <1>1, <3>3 DEF ToSet
      <3> QED
        BY <3>1, <3>4, <3>5
    <2> HIDE DEF a
    <2>8. Alive(c) \subseteq ToSet(a)
      BY <1>1, <2>5, <2>7
    <2>9. /\ buffer' \in Seq(Elements) /\ AnchoredOnce(buffer')
          /\ attachments' \in Seq(Nat) /\ ToSet(attachments') = Alive(buffer') /\ Alive(buffer') = Alive(c)
          /\ ~suppress'
          /\ SearchesFollowTyping'
      BY <1>1, <2>1, <2>5, <2>7, <2>8, ChangeKeeps
    <2>10. images' \in Nat /\ Alive(buffer') \subseteq 1..images'
      <3>1. \A x \in Alive(buffer) \cup Alive(es) : x \in 1..(images + new)
        BY <1>1, <2>3
      <3> QED
        BY <1>1, <2>1, <2>3, <2>5, <2>9, <3>1
    <2>11. reads' \in Seq(Clipboards)
      BY <1>10, <2>1
    <2> QED
      BY <2>9, <2>10, <2>11 DEF ComposerInv
  <1>12. ASSUME NEW k \in DOMAIN reads, PasteFails(k) PROVE ComposerInv'
    <2>1. /\ reads' = RemoveAt(reads, k)
          /\ UNCHANGED <<composerPc, buffer, attachments, suppress, timer, searched, images, edits, cleared>>
      BY <1>12 DEF PasteFails
    <2>2. SearchesFollowTyping'
      BY <1>1, <2>1 DEF SearchesFollowTyping
    <2> QED
      BY <1>1, <1>10, <2>1, <2>2 DEF ComposerInv
  <1>13. CASE UNCHANGED composerVars
    <2>1. UNCHANGED <<composerPc, buffer, attachments, reads, suppress, timer, searched, images, edits, cleared>>
      BY <1>13 DEF composerVars
    <2>2. SearchesFollowTyping'
      BY <1>1, <2>1 DEF SearchesFollowTyping
    <2> QED
      BY <1>1, <2>1, <2>2 DEF ComposerInv
  <1> QED
    BY <1>4, <1>5, <1>6, <1>7, <1>8, <1>9, <1>11, <1>12, <1>13 DEF ComposerNext

(* A prompt is shown as it was composed, whatever is pasted, in whatever   *)
(* order the pastes land, and the search is for what is typed (InputView). *)
THEOREM InputIsFaithfulAlways == ComposerSpec => []InputIsFaithful
  <1>1. ComposerInv => InputIsFaithful
    BY PromptShown DEF InputIsFaithful, ComposerInv
  <1> QED
    BY <1>1, ComposerStarts, ComposerSteps, PTL DEF ComposerSpec
==============================================================================
