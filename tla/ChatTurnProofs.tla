--------------------------- MODULE ChatTurnProofs ---------------------------
(***************************************************************************)
(* Proofs about a chat session, for any number of turns, steps, items,     *)
(* cancels, reopenings, removals, crashes and broken streams.              *)
(*                                                                         *)
(* The types and the event stream (NoSilentClose) need nothing of the      *)
(* user.  The rest holds for a user who is Patient: a prompt is typed when *)
(* the last request has settled, and while it is being accepted nothing is *)
(* cancelled or removed.  ChatStaleDone.cfg shows what goes wrong for one  *)
(* who is not.                                                             *)
(***************************************************************************)
EXTENDS ChatTurn, HistoryProofs

-----------------------------------------------------------------------------
(* Types.                                                                  *)

TaskRecord == [phase : Phase, turn : Nat, step : Nat, items : Nat, calls : Seq(Nat), dying : BOOLEAN]
Message == [type : {"Start", "ToolCall", "Cancel", "Drop", "Done"}, turn : Nat, step : Nat, calls : Seq(Nat)]
TurnRecord == [state : {"None", "Running", "Cancelled", "Done"}, task : Slots \cup {0}]
SessionRecord == [present : BOOLEAN, terminal : {"Running", "Done", "Error", "Cancel"}, sub : {"none", "held", "ready"}]
ChatRecord == [pc : {"idle", "ensured", "subscribed", "started", "accepted", "failed"}, isNew : BOOLEAN]

WithCalls(x) == x.phase \in {"sendCalls", "tools", "results"} => x.calls # <<>>

QueueTypes == turnQ \in Seq(Message) /\ \A i \in 1..Len(turnQ) : turnQ[i].type = "ToolCall" => turnQ[i].calls # <<>>
MapTypes == turnMap \in TurnRecord /\ (turnMap.state = "Running" <=> turnMap.task # 0)
TaskTypes == tasks \in [Slots -> TaskRecord] /\ \A t \in Slots : WithCalls(tasks[t])
SessionTypes ==
    /\ session \in SessionRecord /\ history \in Seq(Rows)
    /\ rx \in {"none", "live", "Done", "Error", "Cancel", "closed"}
ClientTypes ==
    /\ chat \in ChatRecord /\ cancel \in {"idle", "sent", "yes"}
    /\ restore \in {"idle", "subscribed"} /\ remove \in {"idle", "sent", "dropped"}
SpentTypes == spent \in [{"turns", "calls", "cancels", "restores", "removes", "crashes", "breaks"} -> Nat]

(* TypeOK, and a message that announces a tool step carries its calls.     *)
Types == QueueTypes /\ MapTypes /\ TaskTypes /\ SessionTypes /\ ClientTypes /\ SpentTypes

(* The parts of Types are those of TypeOK.                                 *)
LEMMA TypesImply == Types => TypeOK
  BY DEF Types, TypeOK, QueueTypes, MapTypes, TaskTypes, SessionTypes, ClientTypes, SpentTypes,
         TaskRecord, Message, TurnRecord, SessionRecord, ChatRecord, WithCalls, Rows

(* Facts about a task that goes on.                                        *)
LEMMA GoesFacts ==
  ASSUME TaskTypes, NEW t \in Slots, NEW x \in TaskRecord, WithCalls(x), Goes(t, x)
  PROVE  TaskTypes' /\ tasks' = [tasks EXCEPT ![t] = IF tasks[t].dying THEN Idle ELSE x]
  <1>1. Idle \in TaskRecord /\ WithCalls(Idle)
    BY DEF Idle, TaskRecord, WithCalls, Phase
  <1>2. tasks' = [tasks EXCEPT ![t] = IF tasks[t].dying THEN Idle ELSE x]
    BY DEF Goes, TaskTypes
  <1> QED
    BY <1>1, <1>2 DEF TaskTypes

(* The same for a change of phase.                                         *)
LEMMA ToFacts ==
  ASSUME TaskTypes, NEW t \in Slots, NEW phase \in Phase,
         phase \in {"sendCalls", "tools", "results"} => tasks[t].calls # <<>>, To(t, phase)
  PROVE  /\ [tasks[t] EXCEPT !.phase = phase] \in TaskRecord /\ TaskTypes'
         /\ tasks' = [tasks EXCEPT ![t] = IF tasks[t].dying THEN Idle ELSE [tasks[t] EXCEPT !.phase = phase]]
  <1> DEFINE x == [tasks[t] EXCEPT !.phase = phase]
  <1>1. x \in TaskRecord /\ x.phase = phase /\ x.calls = tasks[t].calls
    BY DEF TaskTypes, TaskRecord
  <1>2. WithCalls(x)
    BY <1>1 DEF WithCalls
  <1>3. Goes(t, x)
    BY DEF To
  <1> HIDE DEF x
  <1>4. TaskTypes' /\ tasks' = [tasks EXCEPT ![t] = IF tasks[t].dying THEN Idle ELSE x]
    BY <1>1, <1>2, <1>3, GoesFacts
  <1> QED
    BY <1>1, <1>4 DEF x

(* A spawned task.                                                         *)
LEMMA SpawnFacts ==
  ASSUME TaskTypes, NEW t \in Slots, NEW x \in TaskRecord, WithCalls(x), Spawn(t, x)
  PROVE  TaskTypes' /\ MapTypes'
  BY ChatTurnAssumption DEF Spawn, TaskTypes, MapTypes, TurnRecord

(* The steps of the session manager.                                       *)
LEMMA SessionTypesKept ==
  ASSUME SessionTypes
  PROVE  /\ \A type \in PayloadType, call, turn \in Nat : AddItem(type, call, turn) => SessionTypes'
         /\ \A turn \in Nat : AddPrompt(turn) => SessionTypes'
         /\ AddDone => SessionTypes'
         /\ AddErr => SessionTypes'
         /\ CancelEvent => SessionTypes'
         /\ \A gate \in {"held", "ready"} : Subscribe(gate) => SessionTypes'
         /\ \A r \in {"Error", Closed} : RemoveSession(r) => SessionTypes'
         /\ UNCHANGED sessionVars => SessionTypes'
  <1>1. ASSUME NEW type \in PayloadType, NEW call \in Nat, NEW turn \in Nat
        PROVE  Append(history, Row(type, call, turn)) \in Seq(Rows)
    BY DEF SessionTypes, Row, Rows
  <1>2. Cleanup(history) \in Seq(Rows)
    BY CleanupRows DEF SessionTypes
  <1>3. \A e \in {"Done", "Error", "Cancel"} :
          Published(e).sub \in {"none", "held", "ready"} /\ Published(e).rx \in {"none", "live", "Done", "Error", "Cancel", "closed"}
    BY DEF Published, SessionTypes, SessionRecord
  <1>4. ASSUME NEW e \in {"Error", "Cancel"}, Repair([session EXCEPT !.terminal = e, !.sub = Published(e).sub], Published(e).rx)
        PROVE  SessionTypes'
    BY <1>2, <1>3, <1>4 DEF Repair, SessionTypes, SessionRecord, NoSession
  <1>5. ASSUME NEW type \in PayloadType, NEW call \in Nat, NEW turn \in Nat, AddItem(type, call, turn)
        PROVE  SessionTypes'
    BY <1>1, <1>5 DEF AddItem, SessionTypes
  <1>6. ASSUME NEW turn \in Nat, AddPrompt(turn)
        PROVE  SessionTypes'
    BY <1>1, <1>6 DEF AddPrompt, SessionTypes, SessionRecord, PayloadType, NoCall
  <1>7. AddDone => SessionTypes'
    BY <1>3 DEF AddDone, SessionTypes, SessionRecord
  <1>8. AddErr => SessionTypes'
    BY <1>4 DEF AddErr, sessionVars, SessionTypes
  <1>9. CancelEvent => SessionTypes'
    BY <1>4 DEF CancelEvent, sessionVars, SessionTypes
  <1>10. \A gate \in {"held", "ready"} : Subscribe(gate) => SessionTypes'
    BY DEF Subscribe, SessionTypes, SessionRecord
  <1>11. \A r \in {"Error", Closed} : RemoveSession(r) => SessionTypes'
    BY DEF RemoveSession, SessionTypes, SessionRecord, NoSession, Closed
  <1>12. UNCHANGED sessionVars => SessionTypes'
    BY DEF sessionVars, SessionTypes
  <1> QED
    BY <1>5, <1>6, <1>7, <1>8, <1>9, <1>10, <1>11, <1>12

(* The mailbox after a message was added or taken.                         *)
LEMMA QueueFacts ==
  ASSUME QueueTypes
  PROVE  /\ Len(turnQ) \in Nat
         /\ \A m \in Message : turnQ' = Append(turnQ, m) =>
              /\ turnQ' \in Seq(Message) /\ Len(turnQ') = Len(turnQ) + 1 /\ turnQ'[Len(turnQ) + 1] = m
              /\ \A i \in 1..Len(turnQ) : turnQ'[i] = turnQ[i]
         /\ turnQ # <<>> => Head(turnQ) = turnQ[1] /\ turnQ[1] \in Message /\ 1 \in 1..Len(turnQ)
         /\ turnQ # <<>> /\ turnQ' = Tail(turnQ) =>
              /\ turnQ' \in Seq(Message) /\ Len(turnQ') = Len(turnQ) - 1
              /\ \A i \in 1..Len(turnQ') : turnQ'[i] = turnQ[i + 1] /\ i + 1 \in 1..Len(turnQ)
  <1>1. turnQ \in Seq(Message) /\ Len(turnQ) \in Nat
    BY DEF QueueTypes
  <1>2. ASSUME NEW m \in Message, turnQ' = Append(turnQ, m)
        PROVE  /\ turnQ' \in Seq(Message) /\ Len(turnQ') = Len(turnQ) + 1 /\ turnQ'[Len(turnQ) + 1] = m
               /\ \A i \in 1..Len(turnQ) : turnQ'[i] = turnQ[i]
    BY <1>1, <1>2
  <1>3. turnQ # <<>> => Head(turnQ) = turnQ[1] /\ turnQ[1] \in Message /\ 1 \in 1..Len(turnQ)
    BY <1>1
  <1>4. ASSUME turnQ # <<>>, turnQ' = Tail(turnQ)
        PROVE  /\ turnQ' \in Seq(Message) /\ Len(turnQ') = Len(turnQ) - 1
               /\ \A i \in 1..Len(turnQ') : turnQ'[i] = turnQ[i + 1] /\ i + 1 \in 1..Len(turnQ)
    BY <1>1, <1>4
  <1> QED
    BY <1>1, <1>2, <1>3, <1>4

(* A message without calls, or one with its calls, keeps the mailbox.      *)
LEMMA QueueTypesKept ==
  ASSUME QueueTypes
  PROVE  /\ \A m \in Message : turnQ' = Append(turnQ, m) /\ (m.type = "ToolCall" => m.calls # <<>>) => QueueTypes'
         /\ turnQ # <<>> /\ turnQ' = Tail(turnQ) => QueueTypes'
         /\ UNCHANGED turnQ => QueueTypes'
  <1>1. ASSUME NEW m \in Message, turnQ' = Append(turnQ, m), m.type = "ToolCall" => m.calls # <<>>
        PROVE  QueueTypes'
    <2>1. /\ Len(turnQ) \in Nat /\ turnQ' \in Seq(Message) /\ Len(turnQ') = Len(turnQ) + 1 /\ turnQ'[Len(turnQ) + 1] = m
          /\ \A i \in 1..Len(turnQ) : turnQ'[i] = turnQ[i]
      BY <1>1, QueueFacts
    <2> SUFFICES ASSUME NEW i \in 1..Len(turnQ'), turnQ'[i].type = "ToolCall" PROVE turnQ'[i].calls # <<>>
      BY <2>1 DEF QueueTypes
    <2>2. i \in 1..Len(turnQ) \/ i = Len(turnQ) + 1
      BY <2>1
    <2> QED
      BY <2>1, <2>2, <1>1 DEF QueueTypes
  <1>2. turnQ # <<>> /\ turnQ' = Tail(turnQ) => QueueTypes'
    <2> SUFFICES ASSUME turnQ # <<>>, turnQ' = Tail(turnQ) PROVE QueueTypes'
      OBVIOUS
    <2>1. /\ turnQ' \in Seq(Message)
          /\ \A i \in 1..Len(turnQ') : turnQ'[i] = turnQ[i + 1] /\ i + 1 \in 1..Len(turnQ)
      BY QueueFacts
    <2> SUFFICES ASSUME NEW i \in 1..Len(turnQ'), turnQ'[i].type = "ToolCall" PROVE turnQ'[i].calls # <<>>
      BY <2>1 DEF QueueTypes
    <2> QED
      BY <2>1 DEF QueueTypes
  <1>3. UNCHANGED turnQ => QueueTypes'
    BY DEF QueueTypes
  <1> QED
    BY <1>1, <1>2, <1>3

(* Each step of a task keeps the types.                                    *)
LEMMA TaskStepTypes ==
  ASSUME Types, NEW t \in Slots, TaskStep(t)
  PROVE  Types'
  <1> USE DEF Types
  <1>0. /\ tasks[t] \in TaskRecord /\ WithCalls(tasks[t]) /\ tasks[t].calls \in Seq(Nat) /\ tasks[t].turn \in Nat
        /\ tasks[t].phase \in Phase /\ tasks[t].step \in Nat /\ tasks[t].items \in Nat
    BY DEF TaskTypes, TaskRecord
  <1>1. UNCHANGED turnVars => QueueTypes' /\ MapTypes'
    BY DEF turnVars, QueueTypes, MapTypes
  <1>2. UNCHANGED clientVars => ClientTypes'
    BY DEF clientVars, ClientTypes
  <1>3. UNCHANGED spent => SpentTypes'
    BY DEF SpentTypes
  <1>4. \A pc \in {"accepted", "failed"} : Reply(pc) \/ UNCHANGED chat => chat' \in ChatRecord
    BY DEF Reply, ClientTypes, ChatRecord
  <1>5. ASSUME NEW phase \in {"prompted", "request", "stream", "sendDone", "sendCalls", "results"}, To(t, phase),
               phase \in {"sendCalls", "tools", "results"} => tasks[t].calls # <<>>
        PROVE  TaskTypes'
    BY <1>5, ToFacts DEF Phase
  <1>6. ASSUME Prepare(t) PROVE Types'
    <2>1. TaskTypes' /\ SessionTypes' /\ chat' \in ChatRecord
      BY <1>0, <1>4, <1>5, <1>6, SessionTypesKept DEF Prepare
    <2> QED
      BY <1>1, <1>3, <1>6, <2>1 DEF Prepare, ClientTypes
  <1>7. ASSUME Accept(t) PROVE Types'
    <2>1. TaskTypes' /\ SessionTypes' /\ chat' \in ChatRecord
      BY <1>4, <1>5, <1>7, SessionTypesKept DEF Accept
    <2> QED
      BY <1>1, <1>3, <1>7, <2>1 DEF Accept, ClientTypes
  <1>8. ASSUME Request(t) PROVE Types'
    <2>1. TaskTypes' /\ SessionTypes'
      BY <1>5, <1>8, SessionTypesKept DEF Request
    <2> QED
      BY <1>1, <1>2, <1>3, <1>8, <2>1 DEF Request
  <1>9. ASSUME NEW type \in {"reasoning", "message"}, Item(t, type) PROVE Types'
    <2> DEFINE x == [tasks[t] EXCEPT !.items = @ + 1]
    <2>1. x \in TaskRecord /\ WithCalls(x)
      BY <1>0 DEF TaskRecord, WithCalls
    <2>2. Goes(t, x) /\ AddItem(type, NoCall, tasks[t].turn)
      BY <1>9 DEF Item
    <2> HIDE DEF x
    <2>3. TaskTypes'
      BY <2>1, <2>2, GoesFacts
    <2>4. SessionTypes'
      BY <2>2, <1>0, SessionTypesKept DEF PayloadType, NoCall
    <2> QED
      BY <1>1, <1>2, <1>3, <1>9, <2>3, <2>4 DEF Item
  <1>10. ASSUME ToolCallItem(t) PROVE Types'
    <2> DEFINE call == spent.calls + 1
               more == Append(tasks[t].calls, call)
               x == [tasks[t] EXCEPT !.items = @ + 1, !.calls = more]
    <2>0. call \in Nat
      BY DEF SpentTypes
    <2>1. x \in TaskRecord /\ WithCalls(x)
      <3>1. more \in Seq(Nat) /\ more # <<>>
        BY <1>0, <2>0, SMTT(30)
      <3> HIDE DEF more
      <3>2. x \in TaskRecord
        <4>1. tasks[t].items + 1 \in Nat
          BY <1>0
        <4>2. ASSUME NEW r \in TaskRecord, NEW n \in Nat, NEW s \in Seq(Nat)
              PROVE  [r EXCEPT !.items = n, !.calls = s] \in TaskRecord
          BY DEF TaskRecord
        <4> QED
          BY <1>0, <3>1, <4>1, <4>2
      <3>3. x.calls = more
        BY <1>0 DEF TaskRecord
      <3> QED
        BY <3>1, <3>2, <3>3 DEF WithCalls
    <2>2. Goes(t, x) /\ AddItem("tool_call", call, tasks[t].turn) /\ spent' = [spent EXCEPT !.calls = call]
      BY <1>10 DEF ToolCallItem
    <2> HIDE DEF x, call
    <2>3. TaskTypes'
      BY <2>1, <2>2, GoesFacts
    <2>4. SessionTypes'
      BY <2>0, <2>2, <1>0, SessionTypesKept DEF PayloadType
    <2>5. SpentTypes'
      BY <2>0, <2>2 DEF SpentTypes
    <2> QED
      BY <1>1, <1>2, <1>10, <2>3, <2>4, <2>5 DEF ToolCallItem
  <1>11. AfterStream(t) \in {"sendDone", "sendCalls"} /\ (AfterStream(t) = "sendCalls" => tasks[t].calls # <<>>)
    BY DEF AfterStream
  <1>12. ASSUME StreamDone(t) PROVE Types'
    <2>1. TaskTypes' /\ SessionTypes'
      BY <1>5, <1>11, <1>12, SessionTypesKept DEF StreamDone
    <2> QED
      BY <1>1, <1>2, <1>3, <1>12, <2>1 DEF StreamDone
  <1>13. ASSUME StreamError(t) PROVE Types'
    <2> DEFINE x == [tasks[t] EXCEPT !.phase = "sendDone", !.calls = <<>>]
    <2>1. x \in TaskRecord /\ WithCalls(x)
      <3>1. <<>> \in Seq(Nat)
        OBVIOUS
      <3> QED
        BY <1>0, <3>1 DEF TaskRecord, WithCalls, Phase
    <2>2. Goes(t, x) /\ AddErr
      BY <1>13 DEF StreamError
    <2> HIDE DEF x
    <2>3. TaskTypes' /\ SessionTypes'
      BY <2>1, <2>2, GoesFacts, SessionTypesKept
    <2> QED
      BY <1>1, <1>2, <1>3, <1>13, <2>3 DEF StreamError
  <1>14. ASSUME StreamStops(t) PROVE Types'
    <2>1. TaskTypes' /\ SessionTypes'
      BY <1>5, <1>11, <1>14, SessionTypesKept DEF StreamStops
    <2>2. SpentTypes'
      BY <1>14 DEF StreamStops, SpendEvent, Spend, SpentTypes
    <2> QED
      BY <1>1, <1>2, <1>14, <2>1, <2>2 DEF StreamStops
  <1>15. ASSUME Send(t) PROVE Types'
    <2> DEFINE m == IF tasks[t].phase = "sendCalls"
                    THEN Msg("ToolCall", tasks[t].turn, tasks[t].step + 1, tasks[t].calls)
                    ELSE Note("Done")
    <2>1. m \in Message /\ (m.type = "ToolCall" => m.calls # <<>>)
      <3>1. <<>> \in Seq(Nat)
        OBVIOUS
      <3> QED
        BY <1>0, <3>1 DEF Msg, Note, Message, WithCalls
    <2>2. turnQ' = Append(turnQ, m) /\ tasks' = [tasks EXCEPT ![t] = Idle]
      BY <1>15 DEF Send
    <2> HIDE DEF m
    <2>3. QueueTypes'
      BY <2>1, <2>2, QueueTypesKept
    <2>4. TaskTypes' /\ SessionTypes' /\ MapTypes'
      <3>1. Idle \in TaskRecord /\ WithCalls(Idle)
        BY DEF Idle, TaskRecord, WithCalls, Phase
      <3> QED
        BY <3>1, <2>2, <1>15, SessionTypesKept DEF Send, TaskTypes, MapTypes
    <2> QED
      BY <1>2, <1>3, <1>15, <2>3, <2>4 DEF Send
  <1>16. ASSUME RunTools(t) PROVE Types'
    <2>1. TaskTypes' /\ SessionTypes'
      BY <1>0, <1>5, <1>16, SessionTypesKept DEF RunTools, WithCalls
    <2> QED
      BY <1>1, <1>2, <1>3, <1>16, <2>1 DEF RunTools
  <1>17. ASSUME AddResult(t) PROVE Types'
    <2> DEFINE rest == Tail(tasks[t].calls)
               x == [tasks[t] EXCEPT !.calls = rest, !.phase = IF rest = <<>> THEN "request" ELSE @]
    <2>0. tasks[t].calls # <<>>
      BY <1>0, <1>17 DEF AddResult, WithCalls
    <2>1. rest \in Seq(Nat) /\ Head(tasks[t].calls) \in Nat
      BY <1>0, <2>0
    <2>2. Goes(t, x) /\ AddItem("tool_result", Head(tasks[t].calls), tasks[t].turn)
      BY <1>17 DEF AddResult
    <2> HIDE DEF rest
    <2>3. x \in TaskRecord /\ WithCalls(x)
      BY <1>0, <2>1 DEF TaskRecord, WithCalls, Phase
    <2> HIDE DEF x
    <2>4. TaskTypes' /\ SessionTypes'
      BY <1>0, <2>1, <2>2, <2>3, GoesFacts, SessionTypesKept DEF PayloadType
    <2> QED
      BY <1>1, <1>2, <1>3, <1>17, <2>4 DEF AddResult
  <1>18. ASSUME Reap(t) PROVE Types'
    <2>1. TaskTypes' /\ SessionTypes' /\ chat' \in ChatRecord
      <3>1. Idle \in TaskRecord /\ WithCalls(Idle)
        BY DEF Idle, TaskRecord, WithCalls, Phase
      <3> QED
        BY <1>4, <3>1, <1>18, SessionTypesKept DEF Reap, TaskTypes
    <2> QED
      BY <1>1, <1>3, <1>18, <2>1 DEF Reap, ClientTypes
  <1> HIDE DEF Types
  <1> QED
    BY <1>6, <1>7, <1>8, <1>9, <1>10, <1>12, <1>13, <1>14, <1>15, <1>16, <1>17, <1>18 DEF TaskStep

(* Each step of the turn manager keeps the types.                          *)
LEMMA ManagerTypes ==
  ASSUME Types, TurnManager
  PROVE  Types'
  <1> USE DEF Types
  <1>0. <<>> \in Seq(Nat) /\ 0 \notin Slots
    BY ChatTurnAssumption
  <1>1. UNCHANGED sessionVars => SessionTypes'
    BY SessionTypesKept
  <1>2. UNCHANGED clientVars => ClientTypes'
    BY DEF clientVars, ClientTypes
  <1>3. UNCHANGED spent => SpentTypes'
    BY DEF SpentTypes
  <1>4. ASSUME NEW type, Receives(type)
        PROVE  QueueTypes' /\ Head(turnQ) \in Message /\ Head(turnQ).type = type /\
               (type = "ToolCall" => Head(turnQ).calls # <<>>)
    <2>1. turnQ # <<>> /\ turnQ' = Tail(turnQ) /\ Head(turnQ).type = type
      BY <1>4 DEF Receives
    <2>2. Head(turnQ) = turnQ[1] /\ turnQ[1] \in Message /\ 1 \in 1..Len(turnQ)
      BY <2>1, QueueFacts
    <2> QED
      BY <2>1, <2>2, QueueTypesKept DEF QueueTypes
  <1>5. Abort => TaskTypes'
    <2> SUFFICES ASSUME Abort PROVE TaskTypes'
      OBVIOUS
    <2>1. CASE turnMap.state = "Running" /\ tasks[turnMap.task].phase # "idle"
      <3> DEFINE k == turnMap.task
      <3>1. k \in Slots /\ tasks[k] \in TaskRecord /\ tasks' = [tasks EXCEPT ![k].dying = TRUE]
        BY <2>1 DEF Abort, MapTypes, TaskTypes, TurnRecord
      <3> HIDE DEF k
      <3> QED
        BY <3>1 DEF TaskTypes, TaskRecord, WithCalls
    <2>2. CASE ~(turnMap.state = "Running" /\ tasks[turnMap.task].phase # "idle")
      BY <2>2 DEF Abort, TaskTypes
    <2> QED
      BY <2>1, <2>2
  <1>6. ASSUME HandleStart PROVE Types'
    <2> DEFINE x == Task("prepare", Head(turnQ).turn, 0, <<>>)
    <2>1. QueueTypes' /\ Head(turnQ).turn \in Nat
      BY <1>4, <1>6 DEF HandleStart, Message
    <2>2. x \in TaskRecord /\ WithCalls(x)
      BY <1>0, <2>1 DEF Task, Idle, TaskRecord, WithCalls, Phase
    <2>3. \E t \in Slots : Spawn(t, x)
      BY <1>6 DEF HandleStart
    <2> HIDE DEF x
    <2>4. TaskTypes' /\ MapTypes'
      BY <2>2, <2>3, SpawnFacts
    <2> QED
      BY <1>1, <1>2, <1>3, <1>6, <2>1, <2>4 DEF HandleStart
  <1>7. ASSUME HandleToolCall PROVE Types'
    <2> DEFINE x == Task("tools", Head(turnQ).turn, Head(turnQ).step, Head(turnQ).calls)
    <2>1. QueueTypes' /\ Head(turnQ) \in Message /\ Head(turnQ).calls # <<>>
      BY <1>4, <1>7 DEF HandleToolCall
    <2>2. x \in TaskRecord /\ WithCalls(x)
      BY <2>1 DEF Task, Idle, TaskRecord, WithCalls, Phase, Message
    <2>3. (\E t \in Slots : Spawn(t, x)) \/ UNCHANGED <<turnMap, tasks>>
      BY <1>7 DEF HandleToolCall
    <2> HIDE DEF x
    <2>4. TaskTypes' /\ MapTypes'
      BY <2>2, <2>3, SpawnFacts DEF TaskTypes, MapTypes
    <2> QED
      BY <1>1, <1>2, <1>3, <1>7, <2>1, <2>4 DEF HandleToolCall
  <1>8. ASSUME HandleCancel PROVE Types'
    <2>1. QueueTypes' /\ TaskTypes'
      BY <1>4, <1>5, <1>8 DEF HandleCancel
    <2>2. MapTypes' /\ ClientTypes'
      BY <1>8 DEF HandleCancel, MapTypes, TurnRecord, NoTurn, ClientTypes
    <2> QED
      BY <1>1, <1>3, <1>8, <2>1, <2>2 DEF HandleCancel
  <1>9. ASSUME HandleDrop PROVE Types'
    <2>1. QueueTypes' /\ TaskTypes'
      BY <1>4, <1>5, <1>9 DEF HandleDrop
    <2>2. MapTypes' /\ ClientTypes'
      BY <1>9 DEF HandleDrop, MapTypes, TurnRecord, NoTurn, ClientTypes
    <2> QED
      BY <1>1, <1>3, <1>9, <2>1, <2>2 DEF HandleDrop
  <1>10. ASSUME HandleDone PROVE Types'
    <2>1. QueueTypes' /\ TaskTypes'
      BY <1>4, <1>10 DEF HandleDone, TaskTypes
    <2>2. MapTypes'
      BY <1>10 DEF HandleDone, MapTypes, TurnRecord, NoTurn
    <2> QED
      BY <1>1, <1>2, <1>3, <1>10, <2>1, <2>2 DEF HandleDone
  <1> HIDE DEF Types
  <1> QED
    BY <1>6, <1>7, <1>8, <1>9, <1>10 DEF TurnManager

(* Each step of the front end, and a restart, keep the types.              *)
LEMMA FrontEndTypes ==
  ASSUME Types, FrontEnd \/ Restart
  PROVE  Types'
  <1> USE DEF Types
  <1>0. <<>> \in Seq(Nat)
    OBVIOUS
  <1>1. UNCHANGED turnVars => QueueTypes' /\ MapTypes'
    BY DEF turnVars, QueueTypes, MapTypes
  <1>2. UNCHANGED tasks => TaskTypes'
    BY DEF TaskTypes
  <1>3. UNCHANGED spent => SpentTypes'
    BY DEF SpentTypes
  <1>4. UNCHANGED turnMap => MapTypes'
    BY DEF MapTypes
  <1>5. \A b \in {"turns", "cancels", "restores", "removes", "crashes"} : \A l : Spend(b, l) \/ SpendEvent(b, l) => SpentTypes'
    BY DEF Spend, SpendEvent, SpentTypes
  <1>6. \A type \in {"Cancel", "Drop"} : turnQ' = Append(turnQ, Note(type)) => QueueTypes'
    <2> SUFFICES ASSUME NEW type \in {"Cancel", "Drop"}, turnQ' = Append(turnQ, Note(type)) PROVE QueueTypes'
      OBVIOUS
    <2>1. Note(type) \in Message /\ Note(type).type # "ToolCall"
      BY <1>0 DEF Note, Msg, Message
    <2> QED
      BY <2>1, QueueTypesKept
  <1>7. ASSUME ChatEnsure PROVE Types'
    <2>1. SessionTypes' /\ ClientTypes' /\ SpentTypes'
      BY <1>5, <1>7 DEF ChatEnsure, SessionTypes, SessionRecord, NewSession, ClientTypes, ChatRecord
    <2> QED
      BY <1>1, <1>2, <1>7, <2>1 DEF ChatEnsure
  <1>8. ASSUME ChatSubscribe PROVE Types'
    <2>1. SessionTypes'
      BY <1>8, SessionTypesKept DEF ChatSubscribe
    <2>2. ClientTypes'
      BY <1>8 DEF ChatSubscribe, ClientTypes, ChatRecord
    <2> QED
      BY <1>1, <1>2, <1>3, <1>8, <2>1, <2>2 DEF ChatSubscribe
  <1>9. ASSUME ChatStart PROVE Types'
    <2>1. SessionTypes'
      BY <1>9, SessionTypesKept DEF ChatStart
    <2>2. ClientTypes'
      BY <1>9 DEF ChatStart, ClientTypes, ChatRecord
    <2> DEFINE m == Msg("Start", spent.turns, 0, <<>>)
    <2>3. m \in Message /\ m.type = "Start" /\ turnQ' = Append(turnQ, m)
      BY <1>0, <1>9 DEF Msg, Message, SpentTypes, ChatStart
    <2> HIDE DEF m
    <2>4. QueueTypes'
      BY <2>3, QueueTypesKept
    <2> QED
      BY <1>2, <1>3, <1>4, <1>9, <2>1, <2>2, <2>4 DEF ChatStart
  <1>10. ASSUME ChatReturn PROVE Types'
    <2>1. SessionTypes'
      <3>1. CASE UNCHANGED sessionVars \/ RemoveSession("Error")
        BY <3>1, SessionTypesKept
      <3>2. CASE rx' = "Error" /\ UNCHANGED <<session, history>>
        BY <3>2 DEF SessionTypes
      <3> QED
        BY <1>10, <3>1, <3>2 DEF ChatReturn
    <2>2. ClientTypes'
      BY <1>10 DEF ChatReturn, ClientTypes, ChatRecord, NoChat
    <2> QED
      BY <1>1, <1>2, <1>3, <1>10, <2>1, <2>2 DEF ChatReturn
  <1>11. ASSUME CancelSend PROVE Types'
    <2>1. SessionTypes' /\ QueueTypes' /\ SpentTypes'
      BY <1>5, <1>6, <1>11, SessionTypesKept DEF CancelSend
    <2>2. ClientTypes'
      BY <1>11 DEF CancelSend, ClientTypes
    <2> QED
      BY <1>2, <1>4, <1>11, <2>1, <2>2 DEF CancelSend
  <1>12. ASSUME CancelReturn PROVE Types'
    <2>1. SessionTypes'
      BY <1>12, SessionTypesKept DEF CancelReturn
    <2>2. ClientTypes'
      BY <1>12 DEF CancelReturn, ClientTypes
    <2> QED
      BY <1>1, <1>2, <1>3, <1>12, <2>1, <2>2 DEF CancelReturn
  <1>13. ASSUME RestoreSubscribe PROVE Types'
    <2>1. SessionTypes' /\ SpentTypes'
      BY <1>5, <1>13, SessionTypesKept DEF RestoreSubscribe
    <2>2. ClientTypes'
      BY <1>13 DEF RestoreSubscribe, ClientTypes
    <2> QED
      BY <1>1, <1>2, <1>13, <2>1, <2>2 DEF RestoreSubscribe
  <1>14. ASSUME RestoreReturn PROVE Types'
    <2>1. SessionTypes' /\ ClientTypes'
      BY <1>14 DEF RestoreReturn, SessionTypes, SessionRecord, ClientTypes
    <2> QED
      BY <1>1, <1>2, <1>3, <1>14, <2>1 DEF RestoreReturn
  <1>15. ASSUME RemoveSend PROVE Types'
    <2>1. SessionTypes' /\ QueueTypes' /\ SpentTypes'
      BY <1>5, <1>6, <1>15, SessionTypesKept DEF RemoveSend
    <2>2. ClientTypes'
      BY <1>15 DEF RemoveSend, ClientTypes
    <2> QED
      BY <1>2, <1>4, <1>15, <2>1, <2>2 DEF RemoveSend
  <1>16. ASSUME RemoveReturn PROVE Types'
    <2>1. SessionTypes'
      BY <1>16, SessionTypesKept DEF RemoveReturn
    <2>2. ClientTypes'
      BY <1>16 DEF RemoveReturn, ClientTypes
    <2> QED
      BY <1>1, <1>2, <1>3, <1>16, <2>1, <2>2 DEF RemoveReturn
  <1>17. ASSUME Restart PROVE Types'
    <2>1. SpentTypes'
      BY <1>5, <1>17 DEF Restart
    <2>2. SessionTypes'
      <3>1. Recover(history) \in Seq(Rows)
        BY CleanupFacts DEF SessionTypes
      <3> QED
        BY <1>17, <3>1 DEF Restart, SessionTypes, SessionRecord, NewSession, NoSession
    <2>3. QueueTypes' /\ MapTypes' /\ ClientTypes'
      BY <1>17 DEF Restart, QueueTypes, MapTypes, TurnRecord, NoTurn, ClientTypes, ChatRecord, NoChat
    <2>4. TaskTypes'
      BY <1>0, <1>17 DEF Restart, TaskTypes, TaskRecord, Idle, Phase, WithCalls
    <2> QED
      BY <2>1, <2>2, <2>3, <2>4
  <1> HIDE DEF Types
  <1> QED
    BY <1>7, <1>8, <1>9, <1>10, <1>11, <1>12, <1>13, <1>14, <1>15, <1>16, <1>17 DEF FrontEnd

(* Every step keeps the types.                                             *)
LEMMA TypesStep ==
  ASSUME Types, [Next]_vars
  PROVE  Types'
  <1>1. CASE UNCHANGED vars
    BY <1>1 DEF vars, Types, QueueTypes, MapTypes, TaskTypes, SessionTypes, ClientTypes, SpentTypes
  <1>2. CASE Next
    BY <1>2, TaskStepTypes, ManagerTypes, FrontEndTypes DEF Next
  <1> QED
    BY <1>1, <1>2

(* The initial values have their types.                                    *)
LEMMA TypesInit == Init => Types
  <1> SUFFICES ASSUME Init PROVE Types
    OBVIOUS
  <1>0. <<>> \in Seq(Nat)
    OBVIOUS
  <1>1. QueueTypes /\ MapTypes /\ ClientTypes /\ SpentTypes
    BY DEF Init, QueueTypes, MapTypes, TurnRecord, NoTurn, ClientTypes, ChatRecord, NoChat, SpentTypes
  <1>2. SessionTypes
    BY DEF Init, SessionTypes, SessionRecord, NoSession
  <1>3. TaskTypes
    BY <1>0 DEF Init, TaskTypes, TaskRecord, Idle, Phase, WithCalls
  <1> QED
    BY <1>1, <1>2, <1>3 DEF Types

(* Whatever the user does, the variables have their types, a handle is     *)
(* kept for a running turn only and a tool step has calls.                 *)
THEOREM TypesAlways == Spec => []TypeOK
  <1>1. Types /\ [Next]_vars => Types'
    BY TypesStep
  <1> QED
    BY <1>1, TypesInit, TypesImply, PTL DEF Spec

-----------------------------------------------------------------------------
(* The event stream of the front end.                                      *)

(* An open stream has its sender: ready, or held back while the window is  *)
(* being reopened.  One that closed without an event did so under such a   *)
(* window, whose session is gone, or the user removed the session.         *)
StreamKept ==
    /\ rx = "live" => session.present /\ (session.sub = "ready" \/ (session.sub = "held" /\ restore = "subscribed"))
    /\ rx = "closed" => spent.removes > 0 \/ (restore = "subscribed" /\ ~session.present)

InQueue(type) == \E i \in 1..Len(turnQ) : turnQ[i].type = type

StreamInv ==
    /\ Types /\ StreamKept
    /\ remove # "idle" \/ InQueue("Drop") => spent.removes > 0
    /\ chat.pc # "idle" => restore = "idle"

(* The session manager's steps keep the stream.                            *)
LEMMA StreamKeptBySession ==
  ASSUME Types, StreamKept, UNCHANGED <<restore, spent>>
  PROVE  /\ \A type, call, turn : AddItem(type, call, turn) => StreamKept'
         /\ \A turn : session.present /\ AddPrompt(turn) => StreamKept'
         /\ AddDone => StreamKept'
         /\ AddErr => StreamKept'
         /\ CancelEvent => StreamKept'
         /\ UNCHANGED sessionVars => StreamKept'
  <1>0. session \in SessionRecord
    BY DEF Types, SessionTypes
  <1>1. ASSUME NEW type, NEW call, NEW turn, AddItem(type, call, turn) PROVE StreamKept'
    BY <1>1 DEF AddItem, StreamKept
  <1>2. ASSUME NEW turn, session.present, AddPrompt(turn) PROVE StreamKept'
    BY <1>0, <1>2 DEF AddPrompt, StreamKept, SessionRecord
  <1>3. AddDone => StreamKept'
    BY <1>0 DEF AddDone, Published, StreamKept, SessionRecord, Running
  <1>4. ASSUME NEW e \in {"Error", "Cancel"}, Running,
               Repair([session EXCEPT !.terminal = e, !.sub = Published(e).sub], Published(e).rx)
        PROVE  StreamKept'
    BY <1>0, <1>4 DEF Repair, Published, StreamKept, SessionRecord, Running, NoSession
  <1>5. UNCHANGED sessionVars => StreamKept'
    BY DEF sessionVars, StreamKept
  <1>6. AddErr => StreamKept'
    BY <1>4, <1>5 DEF AddErr
  <1>7. CancelEvent => StreamKept'
    BY <1>4, <1>5 DEF CancelEvent
  <1> QED
    BY <1>1, <1>2, <1>3, <1>5, <1>6, <1>7

(* What is in the mailbox after a step was in it or was sent.              *)
LEMMA InQueueFacts ==
  ASSUME QueueTypes, NEW type
  PROVE  /\ UNCHANGED turnQ => (InQueue(type)' <=> InQueue(type))
         /\ turnQ # <<>> /\ turnQ' = Tail(turnQ) => (InQueue(type)' => InQueue(type))
         /\ \A m \in Message : turnQ' = Append(turnQ, m) => (InQueue(type)' <=> InQueue(type) \/ m.type = type)
  <1>1. UNCHANGED turnQ => (InQueue(type)' <=> InQueue(type))
    BY DEF InQueue
  <1>2. turnQ # <<>> /\ turnQ' = Tail(turnQ) => (InQueue(type)' => InQueue(type))
    BY QueueFacts DEF InQueue
  <1>3. ASSUME NEW m \in Message, turnQ' = Append(turnQ, m)
        PROVE  InQueue(type)' <=> InQueue(type) \/ m.type = type
    <2> DEFINE n == Len(turnQ)
    <2>1. /\ n \in Nat /\ Len(turnQ') = n + 1 /\ turnQ'[n + 1] = m
          /\ \A i \in 1..n : turnQ'[i] = turnQ[i]
      BY <1>3, QueueFacts
    <2>2. 1..(n + 1) = 1..n \cup {n + 1}
      BY <2>1
    <2> QED
      BY <2>1, <2>2 DEF InQueue
  <1> QED
    BY <1>1, <1>2, <1>3

(* A task only replies to the chat, and writes through the session manager.*)
LEMMA StreamTask ==
  ASSUME StreamInv, NEW t \in Slots, TaskStep(t)
  PROVE  StreamKept' /\ (remove' # "idle" \/ InQueue("Drop")' => spent'.removes > 0) /\ (chat'.pc # "idle" => restore' = "idle")
  <1>0. Types /\ StreamKept
    BY DEF StreamInv
  <1>1. UNCHANGED <<restore, remove>> /\ spent'.removes = spent.removes
    BY <1>0 DEF TaskStep, Prepare, Accept, Request, Item, ToolCallItem, StreamDone, StreamError, StreamStops, Send,
          RunTools, AddResult, Reap, clientVars, SpendEvent, Spend, Types, SpentTypes
  <1>2. chat'.pc # "idle" => chat.pc # "idle"
    <2>1. \A pc \in {"accepted", "failed"} : Reply(pc) \/ UNCHANGED chat => (chat'.pc # "idle" => chat.pc # "idle")
      BY DEF Reply
    <2>2. Reply("accepted") \/ Reply("failed") \/ UNCHANGED chat
      BY DEF TaskStep, Prepare, Accept, Request, Item, ToolCallItem, StreamDone, StreamError, StreamStops, Send,
             RunTools, AddResult, Reap, clientVars
    <2> QED
      BY <2>1, <2>2
  <1>3. StreamKept'
    <2>1. ASSUME UNCHANGED sessionVars PROVE StreamKept'
      BY <1>1, <2>1 DEF sessionVars, StreamInv, StreamKept
    <2>2. CASE Prepare(t) \/ Accept(t) \/ Request(t) \/ Send(t) \/ RunTools(t) \/ Reap(t) \/ StreamError(t) \/ StreamDone(t)
      BY <1>0, <2>1, <2>2, StreamKeptBySession
         DEF Prepare, Accept, Request, Send, RunTools, Reap, StreamError, StreamDone, clientVars
    <2>3. CASE Item(t, "reasoning") \/ Item(t, "message") \/ AddResult(t)
      BY <1>0, <2>3, StreamKeptBySession DEF Item, AddResult, clientVars
    <2>4. CASE ToolCallItem(t)
      BY <1>1, <2>4, <1>0 DEF ToolCallItem, AddItem, StreamKept
    <2>5. CASE StreamStops(t)
      BY <2>1, <2>5 DEF StreamStops
    <2> QED
      BY <2>2, <2>3, <2>4, <2>5 DEF TaskStep
  <1>4. InQueue("Drop")' => InQueue("Drop")
    <2>1. ASSUME UNCHANGED turnQ PROVE InQueue("Drop")' => InQueue("Drop")
      BY <2>1 DEF InQueue
    <2>2. CASE Send(t)
      <3> DEFINE m == IF tasks[t].phase = "sendCalls"
                      THEN Msg("ToolCall", tasks[t].turn, tasks[t].step + 1, tasks[t].calls)
                      ELSE Note("Done")
      <3>1. tasks[t] \in TaskRecord /\ <<>> \in Seq(Nat)
        BY <1>0 DEF Types, TaskTypes
      <3>2. m \in Message /\ m.type # "Drop"
        BY <3>1 DEF Msg, Note, Message, TaskRecord
      <3>3. turnQ' = Append(turnQ, m)
        BY <2>2 DEF Send
      <3> HIDE DEF m
      <3> QED
        BY <1>0, <3>2, <3>3, InQueueFacts DEF Types
    <2> QED
      BY <2>1, <2>2 DEF TaskStep, Prepare, Accept, Request, Item, ToolCallItem, StreamDone, StreamError, StreamStops,
             RunTools, AddResult, Reap, turnVars
  <1> QED
    BY <1>1, <1>2, <1>3, <1>4 DEF StreamInv

(* The front end's own requests keep the stream.                           *)
LEMMA StreamFrontEnd ==
  ASSUME StreamInv, FrontEnd \/ Restart
  PROVE  StreamKept' /\ (remove' # "idle" \/ InQueue("Drop")' => spent'.removes > 0) /\ (chat'.pc # "idle" => restore' = "idle")
  <1>0. /\ Types /\ StreamKept /\ session \in SessionRecord /\ chat \in ChatRecord /\ SpentTypes
        /\ remove # "idle" \/ InQueue("Drop") => spent.removes > 0
        /\ chat.pc # "idle" => restore = "idle"
    BY DEF StreamInv, Types, SessionTypes, ClientTypes
  <1>D. /\ UNCHANGED turnVars => (InQueue("Drop")' => InQueue("Drop"))
        /\ turnQ' = Append(turnQ, Note("Cancel")) => (InQueue("Drop")' => InQueue("Drop"))
        /\ ChatStart => (InQueue("Drop")' => InQueue("Drop"))
    <2>1. UNCHANGED turnVars => (InQueue("Drop")' => InQueue("Drop"))
      BY DEF InQueue, turnVars
    <2>2. <<>> \in Seq(Nat) /\ spent.turns \in Nat
      BY <1>0 DEF SpentTypes
    <2>3. Note("Cancel") \in Message /\ Note("Cancel").type # "Drop"
      BY <2>2 DEF Note, Msg, Message
    <2>4. Msg("Start", spent.turns, 0, <<>>) \in Message /\ Msg("Start", spent.turns, 0, <<>>).type # "Drop"
      BY <2>2 DEF Msg, Message
    <2> QED
      BY <1>0, <2>1, <2>3, <2>4, InQueueFacts DEF Types, ChatStart
  <1>1. CASE ChatEnsure
    BY <1>0, <1>D, <1>1 DEF ChatEnsure, Spend, StreamKept, SpentTypes, NewSession
  <1>2. CASE ChatSubscribe
    BY <1>0, <1>D, <1>2 DEF ChatSubscribe, Subscribe, StreamKept, SessionRecord, ChatRecord, sessionVars
  <1>3. CASE ChatStart
    BY <1>0, <1>D, <1>3 DEF ChatStart, StreamKept, ChatRecord, sessionVars
  <1>4. CASE ChatReturn
    BY <1>0, <1>D, <1>4 DEF ChatReturn, RemoveSession, StreamKept, NoChat, sessionVars
  <1>5. CASE CancelSend
    BY <1>0, <1>D, <1>5 DEF CancelSend, SpendEvent, Spend, SpentTypes, StreamKept, sessionVars
  <1>6. CASE CancelReturn
    BY <1>0, <1>D, <1>6, StreamKeptBySession DEF CancelReturn
  <1>7. CASE RestoreSubscribe
    BY <1>0, <1>D, <1>7 DEF RestoreSubscribe, SpendEvent, Spend, SpentTypes, Subscribe, StreamKept, SessionRecord
  <1>8. CASE RestoreReturn
    BY <1>0, <1>D, <1>8 DEF RestoreReturn, StreamKept, SessionRecord
  <1>9. CASE RemoveSend
    BY <1>0, <1>D, <1>9 DEF RemoveSend, SpendEvent, Spend, SpentTypes, StreamKept, sessionVars
  <1>10. CASE RemoveReturn
    BY <1>0, <1>D, <1>10 DEF RemoveReturn, RemoveSession, Closed, StreamKept
  <1>11. CASE Restart
    BY <1>11 DEF Restart, StreamKept, NoChat, InQueue
  <1> QED
    BY <1>1, <1>2, <1>3, <1>4, <1>5, <1>6, <1>7, <1>8, <1>9, <1>10, <1>11 DEF FrontEnd

(* A stream that was handed to the front end does not close without a      *)
(* terminal event unless the user removed the session, whoever prompts,    *)
(* cancels or reopens while a request is on its way.                       *)
THEOREM NoSilentCloseAlways == Spec => []NoSilentClose
  <1>1. Init => StreamInv
    BY TypesInit DEF Init, StreamInv, StreamKept, NoChat, InQueue
  <1>2. StreamInv /\ [Next]_vars => StreamInv'
    <2> SUFFICES ASSUME StreamInv, [Next]_vars PROVE StreamInv'
      OBVIOUS
    <2>0. Types'
      BY TypesStep DEF StreamInv
    <2>1. CASE UNCHANGED vars
      BY <2>0, <2>1 DEF vars, StreamInv, StreamKept, InQueue
    <2>2. CASE \E t \in Slots : TaskStep(t)
      BY <2>0, <2>2, StreamTask DEF StreamInv
    <2>3. CASE FrontEnd \/ Restart
      BY <2>0, <2>3, StreamFrontEnd DEF StreamInv
    <2>4. CASE TurnManager
      <3>1. UNCHANGED <<session, rx, restore, spent, chat>>
        BY <2>4 DEF TurnManager, HandleStart, HandleToolCall, HandleCancel, HandleDrop, HandleDone,
                    sessionVars, clientVars
      <3>2. turnQ # <<>> /\ turnQ' = Tail(turnQ) /\ (remove' = remove \/ Head(turnQ).type = "Drop")
        BY <2>4 DEF TurnManager, HandleStart, HandleToolCall, HandleCancel, HandleDrop, HandleDone,
                    Receives, clientVars
      <3>3. InQueue(Head(turnQ).type) /\ (InQueue("Drop")' => InQueue("Drop"))
        BY <3>2, QueueFacts, InQueueFacts DEF StreamInv, Types, InQueue
      <3> QED
        BY <2>0, <3>1, <3>2, <3>3 DEF StreamInv, StreamKept
    <2> QED
      BY <2>1, <2>2, <2>3, <2>4 DEF Next
  <1>3. StreamInv => NoSilentClose
    BY DEF StreamInv, StreamKept, NoSilentClose
  <1> QED
    BY <1>1, <1>2, <1>3, PTL DEF Spec

-----------------------------------------------------------------------------
(* The turn manager, its mailbox and the tasks, for a patient user.        *)

Busy(t) == tasks[t].phase # "idle"
At(i, type) == turnQ[i].type = type
Ends(i) == turnQ[i].type \in {"ToolCall", "Done"}

(* A cancel or a removal has taken hold and will store its end.            *)
Doomed == cancel = "yes" \/ remove = "dropped"

(* The mailbox holds at most one message of each kind: one end of a step,  *)
(* one cancel, one removal and, last, one prompt.                          *)
Mailbox ==
    /\ \A i, j \in 1..Len(turnQ) : Ends(i) /\ Ends(j) => i = j
    /\ \A i, j \in 1..Len(turnQ) : At(i, "Cancel") /\ At(j, "Cancel") => i = j
    /\ \A i, j \in 1..Len(turnQ) : At(i, "Drop") /\ At(j, "Drop") => i = j
    /\ \A i \in 1..Len(turnQ) : At(i, "Start") => i = Len(turnQ)

(* Who sent a message still waits for it; a chat that is being accepted    *)
(* has no cancel and no removal beside it.                                 *)
Requests ==
    /\ InQueue("Cancel") => cancel = "sent"
    /\ InQueue("Drop") => remove = "sent"
    /\ InQueue("Start") => chat.pc = "started"
    /\ chat.pc # "idle" => cancel = "idle" /\ remove = "idle"
    /\ Doomed => turnMap.state # "Running"

(* One task at a time; the turn manager has its handle as long as it was   *)
(* not aborted; when a step's end is in the mailbox its task is gone.      *)
Workers ==
    /\ \A t, u \in Slots : Busy(t) /\ Busy(u) => t = u
    /\ \A t \in Slots : Live(t) => turnMap.state = "Running" /\ turnMap.task = t
    /\ \A t \in Slots : tasks[t].dying => Busy(t) /\ turnMap.state # "Running"
    /\ \A t \in Slots : tasks[t].phase \in {"prepare", "prompted"} => chat.pc = "started" /\ ~tasks[t].dying
    /\ \A t \in Slots : tasks[t].phase \in {"prepare", "prompted", "request", "sendDone"} => tasks[t].calls = <<>>
    /\ InQueue("ToolCall") \/ InQueue("Done") => \A t \in Slots : ~Busy(t)

(* A prompt on its way finds no turn.                                      *)
Starting ==
    /\ chat.pc \in {"ensured", "subscribed"} => ~InQueue("Start")
    /\ chat.pc \in {"ensured", "subscribed"} \/ InQueue("Start") =>
          turnMap.state # "Running" /\ \A t \in Slots : ~Busy(t)

Control == Types /\ Mailbox /\ Requests /\ Workers /\ Starting

(* A task that goes on, or is gone, leaves the control as it is.           *)
LEMMA TaskMoves ==
  ASSUME Control, NEW t \in Slots, NEW x \in TaskRecord, Busy(t),
         tasks' = [tasks EXCEPT ![t] = x], UNCHANGED <<turnQ, turnMap, cancel, remove>>,
         \/ x = Idle
         \/ /\ x.phase # "idle" /\ ~tasks[t].dying /\ ~x.dying
            /\ x.phase \in {"prepare", "prompted", "request", "sendDone"} => x.calls = <<>>
            /\ x.phase \in {"prepare", "prompted"} => tasks[t].phase = "prepare" /\ chat' = chat,
         chat' = chat \/ (tasks[t].phase \in {"prepare", "prompted"} /\ chat'.pc \in {"accepted", "failed"})
  PROVE  Mailbox' /\ Requests' /\ Workers' /\ Starting'
  <1>0. /\ tasks \in [Slots -> TaskRecord] /\ tasks'[t] = x /\ \A u \in Slots : u # t => tasks'[u] = tasks[u]
        /\ \A type : InQueue(type)' = InQueue(type)
    BY DEF Control, Types, TaskTypes, InQueue
  <1>1. \A u \in Slots : Busy(u) => u = t
    BY DEF Control, Workers
  <1>2. ~InQueue("Start") /\ ~InQueue("ToolCall") /\ ~InQueue("Done") /\ chat.pc \notin {"ensured", "subscribed"}
    BY DEF Control, Workers, Starting
  <1>3. Mailbox'
    BY DEF Control, Mailbox, Ends, At
  <1>4. Requests' /\ Starting'
    <2>1. chat'.pc \notin {"ensured", "subscribed"} /\ (chat'.pc # "idle" => chat.pc # "idle")
      BY <1>2 DEF Control, Workers
    <2>2. UNCHANGED <<cancel, remove, turnMap>> /\ (Doomed' <=> Doomed)
      BY DEF Doomed
    <2> QED
      BY <1>0, <1>2, <2>1, <2>2 DEF Control, Requests, Starting
  <1>5. Workers'
    <2>1. \A u \in Slots : u # t => ~Busy(u) /\ ~Busy(u)' /\ ~tasks'[u].dying
      BY <1>0, <1>1 DEF Busy, Control, Workers
    <2>2. Idle.phase = "idle" /\ Idle.dying = FALSE
      BY DEF Idle
    <2>3. /\ Live(t)' => Live(t)
          /\ tasks'[t].dying => FALSE
          /\ tasks'[t].phase \in {"prepare", "prompted"} => chat'.pc = "started"
          /\ tasks'[t].phase \in {"prepare", "prompted", "request", "sendDone"} => tasks'[t].calls = <<>>
      BY <1>0, <2>2 DEF Live, Busy, Control, Workers
    <2>4. \A u \in Slots : u # t => ~Live(u)'
      BY <2>1 DEF Live, Busy
    <2> QED
      BY <1>0, <1>2, <2>1, <2>3, <2>4 DEF Control, Workers, Busy
  <1> QED
    BY <1>3, <1>4, <1>5

(* Each step of a task keeps the control.                                  *)
LEMMA ControlTask ==
  ASSUME Control, NEW t \in Slots, TaskStep(t)
  PROVE  Mailbox' /\ Requests' /\ Workers' /\ Starting'
  <1> DEFINE r == tasks[t]
             Goal == Mailbox' /\ Requests' /\ Workers' /\ Starting'
  <1>0. /\ Types /\ TaskTypes /\ QueueTypes /\ r \in TaskRecord /\ WithCalls(r) /\ Idle \in TaskRecord /\ Idle.phase = "idle"
        /\ r.phase \in Phase /\ r.calls \in Seq(Nat) /\ r.dying \in BOOLEAN /\ r.items \in Nat /\ r.turn \in Nat /\ r.step \in Nat
        /\ r.dying => Busy(t) /\ r.phase \notin {"prepare", "prompted"}
        /\ r.phase \in {"prepare", "prompted", "request", "sendDone"} => r.calls = <<>>
        /\ <<>> \in Seq(Nat)
    BY DEF Control, Workers, Types, TaskTypes, TaskRecord, Idle, Phase
  <1>1. ASSUME NEW phase \in Phase \ {"idle", "prepare"}, To(t, phase), Busy(t),
               phase \in {"sendCalls", "tools", "results"} => r.calls # <<>>,
               phase \in {"request", "sendDone"} => r.calls = <<>>,
               phase = "prompted" => r.phase = "prepare" /\ chat' = chat,
               UNCHANGED <<turnQ, turnMap, cancel, remove>>,
               chat' = chat \/ (r.phase \in {"prepare", "prompted"} /\ chat'.pc \in {"accepted", "failed"})
        PROVE  Goal
    <2> DEFINE y == [r EXCEPT !.phase = phase]
               x == IF r.dying THEN Idle ELSE y
    <2>1. y \in TaskRecord /\ tasks' = [tasks EXCEPT ![t] = x]
      BY <1>0, <1>1, ToFacts
    <2>2. y.phase = phase /\ y.calls = r.calls /\ y.dying = r.dying
      BY <1>0 DEF TaskRecord
    <2> HIDE DEF y
    <2>3. /\ x \in TaskRecord
          /\ \/ x = Idle
             \/ /\ x.phase # "idle" /\ ~r.dying /\ ~x.dying
                /\ x.phase \in {"prepare", "prompted", "request", "sendDone"} => x.calls = <<>>
                /\ x.phase \in {"prepare", "prompted"} => r.phase = "prepare" /\ chat' = chat
      BY <1>0, <1>1, <2>1, <2>2
    <2> HIDE DEF x
    <2> QED
      BY <1>1, <2>1, <2>3, TaskMoves
  <1>2. ASSUME NEW x \in TaskRecord, WithCalls(x), Goes(t, x), x.phase \notin {"idle", "prepare", "prompted"}, Busy(t),
               x.dying = r.dying, x.phase \in {"request", "sendDone"} => x.calls = <<>>,
               UNCHANGED <<turnQ, turnMap, cancel, remove, chat>>
        PROVE  Goal
    <2> DEFINE y == IF r.dying THEN Idle ELSE x
    <2>1. tasks' = [tasks EXCEPT ![t] = y]
      BY <1>0, <1>2, GoesFacts
    <2>2. /\ y \in TaskRecord
          /\ \/ y = Idle
             \/ /\ y.phase # "idle" /\ ~r.dying /\ ~y.dying
                /\ y.phase \in {"prepare", "prompted", "request", "sendDone"} => y.calls = <<>>
                /\ y.phase \in {"prepare", "prompted"} => r.phase = "prepare" /\ chat' = chat
      BY <1>0, <1>2
    <2> HIDE DEF y
    <2> QED
      BY <1>2, <2>1, <2>2, TaskMoves
  <1>3. \A pc \in {"accepted", "failed"} : Reply(pc) => chat' = chat \/ chat'.pc = pc
    BY DEF Reply, Control, Types, ClientTypes, ChatRecord
  <1>4. CASE Prepare(t)
    <2>1. CASE To(t, "prompted") /\ (IF r.dying THEN Reply("failed") ELSE UNCHANGED chat)
      BY <1>0, <1>1, <1>4, <2>1 DEF Prepare, Busy, Phase, turnVars
    <2>2. CASE To(t, "sendDone") /\ Reply("failed")
      BY <1>0, <1>1, <1>3, <1>4, <2>2 DEF Prepare, Busy, Phase, turnVars
    <2> QED
      BY <1>4, <2>1, <2>2 DEF Prepare
  <1>5. CASE Accept(t)
    BY <1>0, <1>1, <1>3, <1>5 DEF Accept, Busy, Phase, turnVars
  <1>6. CASE Request(t)
    BY <1>0, <1>1, <1>6 DEF Request, Busy, Phase, turnVars, clientVars
  <1>7. ASSUME NEW type, Item(t, type) PROVE Goal
    <2> DEFINE x == [r EXCEPT !.items = @ + 1]
    <2>1. x \in TaskRecord /\ x.phase = r.phase /\ x.calls = r.calls /\ x.dying = r.dying
      <3>1. ASSUME NEW y \in TaskRecord, NEW n \in Nat
            PROVE  /\ [y EXCEPT !.items = n] \in TaskRecord
                   /\ [y EXCEPT !.items = n].phase = y.phase
                   /\ [y EXCEPT !.items = n].calls = y.calls
                   /\ [y EXCEPT !.items = n].dying = y.dying
        BY DEF TaskRecord
      <3>2. r.items + 1 \in Nat
        BY <1>0
      <3> QED
        BY <1>0, <3>1, <3>2
    <2>2. Goes(t, x) /\ r.phase = "stream" /\ UNCHANGED <<turnQ, turnMap, cancel, remove, chat>>
      BY <1>7 DEF Item, turnVars, clientVars
    <2> HIDE DEF x
    <2> QED
      BY <1>0, <1>2, <2>1, <2>2 DEF WithCalls, Busy
  <1>8. CASE ToolCallItem(t)
    <2> DEFINE more == Append(r.calls, spent.calls + 1)
               x == [r EXCEPT !.items = @ + 1, !.calls = more]
    <2>0. more \in Seq(Nat) /\ r.items + 1 \in Nat
      BY <1>0, SMTT(30) DEF Types, SpentTypes
    <2>1. Goes(t, x) /\ r.phase = "stream" /\ UNCHANGED <<turnQ, turnMap, cancel, remove, chat>>
      BY <1>8 DEF ToolCallItem, turnVars, clientVars
    <2> HIDE DEF more
    <2>2. x \in TaskRecord /\ x.phase = r.phase /\ x.dying = r.dying
      <3>1. ASSUME NEW y \in TaskRecord, NEW n \in Nat, NEW s \in Seq(Nat)
            PROVE  /\ [y EXCEPT !.items = n, !.calls = s] \in TaskRecord
                   /\ [y EXCEPT !.items = n, !.calls = s].phase = y.phase
                   /\ [y EXCEPT !.items = n, !.calls = s].dying = y.dying
        BY DEF TaskRecord
      <3> DEFINE n == r.items + 1
      <3>2. r \in TaskRecord /\ n \in Nat /\ x = [r EXCEPT !.items = n, !.calls = more]
        BY <1>0, <2>0
      <3> HIDE DEF n, x, r
      <3> QED
        BY <2>0, <3>1, <3>2, ZenonT(30)
    <2> HIDE DEF x
    <2> QED
      BY <1>0, <1>2, <2>1, <2>2 DEF WithCalls, Busy
  <1>9. AfterStream(t) \in Phase \ {"idle", "prepare"} /\ (AfterStream(t) = "sendCalls" => r.calls # <<>>)
        /\ (AfterStream(t) = "sendDone" => r.calls = <<>>) /\ AfterStream(t) \in {"sendCalls", "sendDone"}
    BY DEF AfterStream, Phase
  <1>10. CASE StreamDone(t)
    BY <1>0, <1>1, <1>9, <1>10 DEF StreamDone, Busy, turnVars, clientVars
  <1>11. CASE StreamError(t)
    <2> DEFINE x == [r EXCEPT !.phase = "sendDone", !.calls = <<>>]
    <2>1. x \in TaskRecord /\ x.phase = "sendDone" /\ x.calls = <<>> /\ x.dying = r.dying
      BY <1>0 DEF TaskRecord, Phase
    <2>2. Goes(t, x) /\ r.phase = "stream" /\ UNCHANGED <<turnQ, turnMap, cancel, remove, chat>>
      BY <1>11 DEF StreamError, turnVars, clientVars
    <2> HIDE DEF x
    <2> QED
      BY <1>0, <1>2, <2>1, <2>2 DEF WithCalls, Busy
  <1>12. CASE StreamStops(t)
    BY <1>0, <1>1, <1>9, <1>12 DEF StreamStops, Busy, turnVars, clientVars
  <1>13. CASE RunTools(t)
    BY <1>0, <1>1, <1>13 DEF RunTools, Busy, Phase, WithCalls, turnVars, clientVars
  <1>14. CASE AddResult(t)
    <2> DEFINE rest == Tail(r.calls)
               phase == IF rest = <<>> THEN "request" ELSE r.phase
               x == [r EXCEPT !.calls = rest, !.phase = phase]
    <2>0. rest \in Seq(Nat) /\ r.phase = "results"
      BY <1>0, <1>14 DEF AddResult, WithCalls
    <2>1. Goes(t, x) /\ UNCHANGED <<turnQ, turnMap, cancel, remove, chat>>
      BY <1>14 DEF AddResult, turnVars, clientVars
    <2>2. phase \in {"request", "results"} /\ (phase = "results" => rest # <<>>) /\ (phase = "request" => rest = <<>>)
      BY <2>0
    <2> HIDE DEF rest, phase
    <2>3. x \in TaskRecord /\ x.phase = phase /\ x.calls = rest /\ x.dying = r.dying
      BY <1>0, <2>0, <2>2 DEF TaskRecord, Phase
    <2> HIDE DEF x
    <2> QED
      BY <1>0, <1>2, <2>0, <2>1, <2>2, <2>3 DEF WithCalls, Busy
  <1>15. CASE Reap(t)
    <2>1. tasks' = [tasks EXCEPT ![t] = Idle] /\ Busy(t) /\ UNCHANGED <<turnQ, turnMap, cancel, remove, chat>>
      BY <1>0, <1>15 DEF Reap, turnVars
    <2> QED
      BY <1>0, <2>1, TaskMoves
  <1>16. CASE Send(t)
    <2> DEFINE m == IF r.phase = "sendCalls" THEN Msg("ToolCall", r.turn, r.step + 1, r.calls) ELSE Note("Done")
               n == Len(turnQ)
    <2>1. /\ m \in Message /\ m.type \in {"ToolCall", "Done"} /\ Busy(t) /\ turnQ' = Append(turnQ, m)
          /\ tasks' = [tasks EXCEPT ![t] = Idle] /\ UNCHANGED <<turnMap, chat, cancel, remove>>
      BY <1>0, <1>16 DEF Send, Msg, Note, Message, Busy, clientVars
    <2> HIDE DEF m
    <2>2. /\ n \in Nat /\ Len(turnQ') = n + 1 /\ turnQ'[n + 1] = m
          /\ \A i \in 1..n : turnQ'[i] = turnQ[i]
      BY <1>0, <2>1, QueueFacts
    <2>3. 1..(n + 1) = 1..n \cup {n + 1}
      BY <2>2
    <2>4. ~InQueue("Start") /\ ~InQueue("ToolCall") /\ ~InQueue("Done") /\ chat.pc \notin {"ensured", "subscribed"}
      BY <2>1 DEF Control, Workers, Starting
    <2>5. Mailbox'
      <3>1. \A i \in 1..n : ~Ends(i) /\ ~At(i, "Start")
        BY <2>4 DEF InQueue, Ends, At
      <3> QED
        BY <2>1, <2>2, <2>3, <3>1 DEF Control, Mailbox, Ends, At
    <2>6. \A type \in {"Start", "Cancel", "Drop"} : InQueue(type)' <=> InQueue(type)
      BY <1>0, <2>1, InQueueFacts
    <2>7. Requests' /\ Starting'
      BY <2>1, <2>4, <2>6 DEF Control, Requests, Starting, Doomed
    <2>8. \A u \in Slots : tasks'[u].phase = "idle" /\ ~tasks'[u].dying /\ ~Live(u)'
      <3>1. \A u \in Slots : u # t => tasks[u].phase = "idle" /\ ~tasks[u].dying
        BY <2>1 DEF Control, Workers, Busy
      <3> QED
        BY <2>1, <3>1, <1>0 DEF TaskTypes, Live, Idle
    <2>9. Workers'
      BY <2>8 DEF Workers, Busy
    <2> QED
      BY <2>5, <2>7, <2>9
  <1> QED
    BY <1>4, <1>5, <1>6, <1>7, <1>8, <1>10, <1>11, <1>12, <1>13, <1>14, <1>15, <1>16 DEF TaskStep

(* What is left in the mailbox when a message was taken from it.           *)
LEMMA TakenFacts ==
  ASSUME QueueTypes, Mailbox, NEW type, Receives(type)
  PROVE  /\ Mailbox' /\ InQueue(type)
         /\ \A other : InQueue(other)' => InQueue(other)
         /\ type \in {"Cancel", "Drop"} => ~InQueue(type)'
         /\ type \in {"ToolCall", "Done"} => ~InQueue("ToolCall")' /\ ~InQueue("Done")'
         /\ type = "Start" => \A other : ~InQueue(other)'
  <1> DEFINE n == Len(turnQ)
  <1>1. turnQ # <<>> /\ turnQ' = Tail(turnQ) /\ Head(turnQ).type = type
    BY DEF Receives
  <1>2. /\ n \in Nat /\ Head(turnQ) = turnQ[1] /\ 1 \in 1..n /\ Len(turnQ') = n - 1
        /\ \A i \in 1..(n - 1) : turnQ'[i] = turnQ[i + 1] /\ i + 1 \in 1..n /\ i + 1 # 1
    <2>1. /\ n \in Nat /\ Head(turnQ) = turnQ[1] /\ 1 \in 1..n /\ Len(turnQ') = n - 1
          /\ \A i \in 1..Len(turnQ') : turnQ'[i] = turnQ[i + 1] /\ i + 1 \in 1..n
      BY <1>1, QueueFacts
    <2>2. \A i \in 1..(n - 1) : i + 1 # 1
      BY <2>1
    <2> QED
      BY <2>1, <2>2
  <1>3. \A i, j \in 1..(n - 1) : i + 1 = j + 1 => i = j
    BY <1>2
  <1>4. \A i \in 1..(n - 1) : i + 1 = n => i = n - 1
    BY <1>2
  <1>5. Mailbox'
    <2> SUFFICES ASSUME NEW i \in 1..(n - 1), NEW j \in 1..(n - 1)
                 PROVE  /\ Ends(i)' /\ Ends(j)' => i = j
                        /\ At(i, "Cancel")' /\ At(j, "Cancel")' => i = j
                        /\ At(i, "Drop")' /\ At(j, "Drop")' => i = j
                        /\ At(i, "Start")' => i = n - 1
      BY <1>2 DEF Mailbox
    <2>1. turnQ'[i] = turnQ[i + 1] /\ turnQ'[j] = turnQ[j + 1] /\ i + 1 \in 1..n /\ j + 1 \in 1..n
      BY <1>2
    <2>2. /\ Ends(i + 1) /\ Ends(j + 1) => i + 1 = j + 1
          /\ At(i + 1, "Cancel") /\ At(j + 1, "Cancel") => i + 1 = j + 1
          /\ At(i + 1, "Drop") /\ At(j + 1, "Drop") => i + 1 = j + 1
          /\ At(i + 1, "Start") => i + 1 = n
      BY <2>1 DEF Mailbox
    <2> QED
      BY <1>3, <1>4, <2>1, <2>2 DEF Ends, At
  <1>6. InQueue(type)
    BY <1>1, <1>2 DEF InQueue
  <1>7. \A other : InQueue(other)' => \E k \in 1..n : k # 1 /\ turnQ[k].type = other
    BY <1>2 DEF InQueue
  <1>8. turnQ[1].type = type
    BY <1>1, <1>2
  <1>9. type \in {"Cancel", "Drop"} => ~InQueue(type)'
    BY <1>2, <1>7, <1>8 DEF Mailbox, At
  <1>10. type \in {"ToolCall", "Done"} => ~InQueue("ToolCall")' /\ ~InQueue("Done")'
    BY <1>2, <1>7, <1>8 DEF Mailbox, Ends
  <1>11. type = "Start" => \A other : ~InQueue(other)'
    <2> SUFFICES ASSUME type = "Start", NEW other, InQueue(other)' PROVE FALSE
      OBVIOUS
    <2>1. n = 1
      BY <1>2, <1>8 DEF Mailbox, At
    <2>2. PICK k \in 1..n : k # 1
      BY <1>7
    <2> QED
      BY <1>2, <2>1, <2>2
  <1> QED
    BY <1>5, <1>6, <1>7, <1>9, <1>10, <1>11 DEF InQueue

(* The task the turn manager stops.                                        *)
LEMMA AbortFacts ==
  ASSUME Control, Abort
  PROVE  /\ \A t \in Slots : tasks'[t].phase = tasks[t].phase /\ tasks'[t].calls = tasks[t].calls /\ tasks'[t].turn = tasks[t].turn
         /\ \A t \in Slots : tasks'[t].dying <=> Busy(t)
  <1>0. /\ tasks \in [Slots -> TaskRecord] /\ turnMap \in TurnRecord /\ (turnMap.state = "Running" <=> turnMap.task # 0)
        /\ \A t \in Slots : Live(t) => turnMap.state = "Running" /\ turnMap.task = t
        /\ \A t \in Slots : tasks[t].dying => Busy(t) /\ turnMap.state # "Running"
    BY DEF Control, Types, TaskTypes, MapTypes, Workers
  <1>1. CASE turnMap.state = "Running" /\ tasks[turnMap.task].phase # "idle"
    <2> DEFINE k == turnMap.task
    <2>1. k \in Slots /\ tasks' = [tasks EXCEPT ![k].dying = TRUE] /\ Busy(k)
      BY <1>0, <1>1 DEF Abort, TurnRecord, Busy
    <2>2. \A t \in Slots : t # k => ~Busy(t) /\ ~tasks[t].dying
      BY <1>0, <1>1 DEF Live, Busy
    <2> HIDE DEF k
    <2> QED
      BY <1>0, <2>1, <2>2 DEF TaskRecord, Busy
  <1>2. CASE ~(turnMap.state = "Running" /\ tasks[turnMap.task].phase # "idle")
    BY <1>0, <1>2 DEF Abort, Live, Busy
  <1> QED
    BY <1>1, <1>2

(* Each step of the turn manager keeps the control.                        *)
LEMMA ControlManager ==
  ASSUME Control, TurnManager
  PROVE  Mailbox' /\ Requests' /\ Workers' /\ Starting'
  <1> DEFINE Goal == Mailbox' /\ Requests' /\ Workers' /\ Starting'
  <1>0. QueueTypes /\ Mailbox /\ tasks \in [Slots -> TaskRecord]
    BY DEF Control, Types, TaskTypes
  <1>1. ASSUME NEW t \in Slots, NEW x, Spawn(t, x), x.phase \in {"prepare", "tools"}, ~x.dying, \A u \in Slots : ~Busy(u)
        PROVE  /\ tasks'[t] = x /\ turnMap'.state = "Running" /\ turnMap'.task = t
               /\ \A u \in Slots : u # t => tasks'[u].phase = "idle" /\ ~tasks'[u].dying
    BY <1>0, <1>1 DEF Spawn, Busy, Control, Workers
  <1>2. CASE HandleStart
    <2> DEFINE x == Task("prepare", Head(turnQ).turn, 0, <<>>)
    <2>1. /\ Mailbox' /\ (\A other : ~InQueue(other)') /\ chat.pc = "started" /\ UNCHANGED <<chat, cancel, remove>>
          /\ turnMap.state # "Running" /\ (\A u \in Slots : ~Busy(u)) /\ cancel = "idle" /\ remove = "idle"
      BY <1>0, <1>2, TakenFacts DEF HandleStart, Control, Requests, Starting, clientVars
    <2>2. PICK t \in Slots : Spawn(t, x)
      BY <1>2 DEF HandleStart
    <2>3. x.phase = "prepare" /\ x.calls = <<>> /\ ~x.dying
      BY DEF Task, Idle
    <2> HIDE DEF x
    <2>4. /\ tasks'[t] = x /\ turnMap'.state = "Running" /\ turnMap'.task = t
          /\ \A u \in Slots : u # t => tasks'[u].phase = "idle" /\ ~tasks'[u].dying
      BY <1>1, <2>1, <2>2, <2>3
    <2>5. Requests' /\ Starting'
      BY <2>1 DEF Requests, Starting, Doomed
    <2>6. Workers'
      BY <2>1, <2>3, <2>4 DEF Workers, Live, Busy
    <2> QED
      BY <2>1, <2>5, <2>6
  <1>3. CASE HandleToolCall
    <2> DEFINE x == Task("tools", Head(turnQ).turn, Head(turnQ).step, Head(turnQ).calls)
    <2>1. /\ Mailbox' /\ (\A other : InQueue(other)' => InQueue(other)) /\ UNCHANGED <<chat, cancel, remove>>
          /\ (\A u \in Slots : ~Busy(u)) /\ ~InQueue("ToolCall")' /\ ~InQueue("Done")'
      BY <1>0, <1>3, TakenFacts DEF HandleToolCall, Control, Workers, clientVars
    <2>2. CASE turnMap.state # "Running"
      <3>1. UNCHANGED <<turnMap, tasks>>
        BY <1>3, <2>2 DEF HandleToolCall
      <3>2. Requests' /\ Starting'
        BY <2>1, <3>1 DEF Control, Requests, Starting, Doomed, Busy
      <3>3. Workers'
        BY <2>1, <3>1 DEF Control, Workers, Live, Busy
      <3> QED
        BY <2>1, <3>2, <3>3
    <2>3. CASE turnMap.state = "Running"
      <3>1. PICK t \in Slots : Spawn(t, x)
        BY <1>3, <2>3 DEF HandleToolCall
      <3>2. x.phase = "tools" /\ ~x.dying
        BY DEF Task, Idle
      <3> HIDE DEF x
      <3>3. /\ tasks'[t] = x /\ turnMap'.state = "Running" /\ turnMap'.task = t
            /\ \A u \in Slots : u # t => tasks'[u].phase = "idle" /\ ~tasks'[u].dying
        BY <1>1, <2>1, <3>1, <3>2
      <3>4. Requests' /\ Starting'
        BY <2>1, <2>3 DEF Control, Requests, Starting, Doomed
      <3>5. Workers'
        BY <2>1, <3>2, <3>3 DEF Workers, Live, Busy
      <3> QED
        BY <2>1, <3>4, <3>5
    <2> QED
      BY <2>2, <2>3
  <1>4. ASSUME Abort, turnMap'.state # "Running", \A other : InQueue(other)' => InQueue(other), UNCHANGED chat,
               \A t \in Slots : tasks[t].phase \notin {"prepare", "prompted"}
        PROVE  Workers' /\ Starting'
    <2>1. /\ \A t \in Slots : tasks'[t].phase = tasks[t].phase /\ tasks'[t].calls = tasks[t].calls
          /\ \A t \in Slots : tasks'[t].dying <=> Busy(t)
      BY <1>4, AbortFacts
    <2> QED
      BY <1>4, <2>1 DEF Control, Workers, Starting, Live, Busy
  <1>5. CASE HandleCancel
    <2>1. /\ Mailbox' /\ (\A other : InQueue(other)' => InQueue(other)) /\ ~InQueue("Cancel")' /\ cancel = "sent" /\ chat.pc = "idle"
      BY <1>0, <1>5, TakenFacts DEF HandleCancel, Control, Requests
    <2>2. Abort /\ turnMap'.state # "Running" /\ UNCHANGED <<chat, remove>> /\ cancel' \in {"yes", "idle"}
      BY <1>5 DEF HandleCancel, NoTurn
    <2>3. Workers' /\ Starting'
      BY <1>4, <2>1, <2>2 DEF Control, Workers
    <2>4. Requests'
      BY <2>1, <2>2 DEF Control, Requests, Doomed
    <2> QED
      BY <2>1, <2>3, <2>4
  <1>6. CASE HandleDrop
    <2>1. /\ Mailbox' /\ (\A other : InQueue(other)' => InQueue(other)) /\ ~InQueue("Drop")' /\ remove = "sent" /\ chat.pc = "idle"
      BY <1>0, <1>6, TakenFacts DEF HandleDrop, Control, Requests
    <2>2. Abort /\ turnMap'.state # "Running" /\ UNCHANGED <<chat, cancel>> /\ remove' = "dropped"
      BY <1>6 DEF HandleDrop, NoTurn
    <2>3. Workers' /\ Starting'
      BY <1>4, <2>1, <2>2 DEF Control, Workers
    <2>4. Requests'
      BY <2>1, <2>2 DEF Control, Requests, Doomed
    <2> QED
      BY <2>1, <2>3, <2>4
  <1>7. CASE HandleDone
    <2>1. /\ Mailbox' /\ (\A other : InQueue(other)' => InQueue(other)) /\ UNCHANGED <<chat, cancel, remove, tasks>>
          /\ (\A u \in Slots : ~Busy(u)) /\ turnMap'.state # "Running"
      BY <1>0, <1>7, TakenFacts DEF HandleDone, Control, Workers, clientVars, NoTurn
    <2>2. Requests' /\ Starting'
      BY <2>1 DEF Control, Requests, Starting, Doomed, Busy
    <2>3. Workers'
      BY <2>1 DEF Control, Workers, Live, Busy
    <2> QED
      BY <2>1, <2>2, <2>3
  <1> QED
    BY <1>2, <1>3, <1>5, <1>6, <1>7 DEF TurnManager

(* A message added to the mailbox that is not like one that is there.      *)
LEMMA SentFacts ==
  ASSUME QueueTypes, Mailbox, NEW m \in Message, turnQ' = Append(turnQ, m), m.type \in {"Start", "Cancel", "Drop"},
         ~InQueue(m.type), ~InQueue("Start")
  PROVE  Mailbox' /\ \A type : InQueue(type)' <=> InQueue(type) \/ m.type = type
  <1> DEFINE n == Len(turnQ)
  <1>1. /\ n \in Nat /\ Len(turnQ') = n + 1 /\ turnQ'[n + 1] = m
        /\ \A i \in 1..n : turnQ'[i] = turnQ[i]
    BY QueueFacts
  <1>2. 1..(n + 1) = 1..n \cup {n + 1}
    BY <1>1
  <1>3. \A i \in 1..n : turnQ[i].type # m.type /\ turnQ[i].type # "Start"
    BY DEF InQueue
  <1>4. Mailbox'
    BY <1>1, <1>2, <1>3 DEF Mailbox, Ends, At
  <1> QED
    BY <1>4, InQueueFacts

(* Each request of a patient front end, and a restart, keep the control.   *)
LEMMA ControlFrontEnd ==
  ASSUME Patient, Control, FrontEnd \/ Restart
  PROVE  Mailbox' /\ Requests' /\ Workers' /\ Starting'
  <1> DEFINE Goal == Mailbox' /\ Requests' /\ Workers' /\ Starting'
  <1>0. /\ QueueTypes /\ Mailbox /\ Requests /\ Workers /\ Starting /\ chat \in ChatRecord /\ spent.turns \in Nat /\ <<>> \in Seq(Nat)
        /\ cancel \in {"idle", "sent", "yes"} /\ remove \in {"idle", "sent", "dropped"}
    BY DEF Control, Types, ClientTypes, SpentTypes
  <1>1. ASSUME UNCHANGED <<turnQ, turnMap, tasks>>
        PROVE  /\ Mailbox' /\ \A type : InQueue(type)' <=> InQueue(type)
               /\ \A t \in Slots : (Busy(t)' <=> Busy(t)) /\ (Live(t)' <=> Live(t)) /\ tasks'[t] = tasks[t]
    BY <1>0, <1>1 DEF Mailbox, Ends, At, InQueue, Busy, Live
  <1>2. CASE ChatEnsure
    <2>1. /\ UNCHANGED <<turnQ, turnMap, tasks, cancel, remove>> /\ chat'.pc = "ensured" /\ chat.pc = "idle"
          /\ cancel = "idle" /\ remove = "idle" /\ turnMap.state # "Running" /\ \A t \in Slots : ~tasks[t].dying
      BY <1>2 DEF ChatEnsure, Settled, turnVars
    <2>2. \A t \in Slots : ~Busy(t)
      BY <1>0, <2>1 DEF Workers, Live, Busy
    <2>3. ~InQueue("Start")
      BY <1>0, <2>1 DEF Requests
    <2>4. Requests' /\ Starting'
      BY <1>0, <1>1, <2>1, <2>2, <2>3 DEF Requests, Starting, Doomed
    <2>5. Workers'
      BY <1>0, <1>1, <2>1, <2>2 DEF Workers, Live, Busy
    <2> QED
      BY <1>1, <2>1, <2>4, <2>5
  <1>3. CASE ChatSubscribe
    <2>1. UNCHANGED <<turnQ, turnMap, tasks, cancel, remove>> /\ chat'.pc \in {"subscribed", "failed"} /\ chat.pc = "ensured"
      BY <1>0, <1>3 DEF ChatSubscribe, turnVars, ChatRecord
    <2>2. (\A t \in Slots : ~Busy(t)) /\ ~InQueue("Start") /\ turnMap.state # "Running" /\ cancel = "idle" /\ remove = "idle"
      BY <1>0, <2>1 DEF Starting, Requests
    <2>3. Requests' /\ Starting'
      BY <1>0, <1>1, <2>1, <2>2 DEF Requests, Starting, Doomed
    <2>4. Workers'
      BY <1>0, <1>1, <2>1, <2>2 DEF Workers, Live, Busy
    <2> QED
      BY <1>1, <2>1, <2>3, <2>4
  <1>4. CASE ChatStart
    <2> DEFINE m == Msg("Start", spent.turns, 0, <<>>)
    <2>1. /\ UNCHANGED <<turnMap, tasks, cancel, remove>> /\ chat'.pc = "started" /\ chat.pc = "subscribed"
          /\ turnQ' = Append(turnQ, m) /\ m \in Message /\ m.type = "Start"
      BY <1>0, <1>4 DEF ChatStart, ChatRecord, Msg, Message
    <2> HIDE DEF m
    <2>2. (\A t \in Slots : ~Busy(t)) /\ ~InQueue("Start") /\ turnMap.state # "Running" /\ cancel = "idle" /\ remove = "idle"
      BY <1>0, <2>1 DEF Starting, Requests
    <2>3. Mailbox' /\ \A type : InQueue(type)' <=> InQueue(type) \/ type = "Start"
      BY <1>0, <2>1, <2>2, SentFacts
    <2>4. \A t \in Slots : ~Busy(t)' /\ tasks'[t] = tasks[t] /\ ~tasks[t].dying
      BY <1>0, <2>1, <2>2 DEF Busy, Workers
    <2>5. Requests' /\ Starting'
      BY <1>0, <2>1, <2>2, <2>3, <2>4 DEF Requests, Starting, Doomed
    <2>6. Workers'
      BY <1>0, <2>1, <2>3, <2>4 DEF Workers, Live, Busy
    <2> QED
      BY <2>3, <2>5, <2>6
  <1>5. CASE ChatReturn
    <2>1. UNCHANGED <<turnQ, turnMap, tasks, cancel, remove>> /\ chat'.pc = "idle" /\ chat.pc \in {"accepted", "failed"}
      BY <1>5 DEF ChatReturn, turnVars, NoChat
    <2>2. ~InQueue("Start") /\ \A t \in Slots : tasks[t].phase \notin {"prepare", "prompted"}
      BY <1>0, <2>1 DEF Requests, Workers
    <2>3. Requests' /\ Starting'
      BY <1>0, <1>1, <2>1, <2>2 DEF Requests, Starting, Doomed
    <2>4. Workers'
      BY <1>0, <1>1, <2>1, <2>2 DEF Workers
    <2> QED
      BY <1>1, <2>1, <2>3, <2>4
  <1>6. CASE CancelSend
    <2>1. /\ UNCHANGED <<turnMap, tasks, chat, remove>> /\ chat.pc = "idle" /\ cancel = "idle" /\ cancel' = "sent"
          /\ turnQ' = Append(turnQ, Note("Cancel")) /\ Note("Cancel") \in Message /\ Note("Cancel").type = "Cancel"
      BY <1>0, <1>6 DEF CancelSend, Note, Msg, Message
    <2>2. ~InQueue("Start") /\ ~InQueue("Cancel")
      BY <1>0, <2>1 DEF Requests
    <2>3. Mailbox' /\ \A type : InQueue(type)' <=> InQueue(type) \/ type = "Cancel"
      BY <1>0, <2>1, <2>2, SentFacts
    <2>4. Requests' /\ Starting'
      BY <1>0, <2>1, <2>2, <2>3 DEF Requests, Starting, Doomed
    <2>5. Workers'
      BY <1>0, <2>1, <2>3 DEF Workers, Live, Busy
    <2> QED
      BY <2>3, <2>4, <2>5
  <1>7. CASE RemoveSend
    <2>1. /\ UNCHANGED <<turnMap, tasks, chat, cancel>> /\ chat.pc = "idle" /\ remove = "idle" /\ remove' = "sent"
          /\ turnQ' = Append(turnQ, Note("Drop")) /\ Note("Drop") \in Message /\ Note("Drop").type = "Drop"
      BY <1>0, <1>7 DEF RemoveSend, Note, Msg, Message
    <2>2. ~InQueue("Start") /\ ~InQueue("Drop")
      BY <1>0, <2>1 DEF Requests
    <2>3. Mailbox' /\ \A type : InQueue(type)' <=> InQueue(type) \/ type = "Drop"
      BY <1>0, <2>1, <2>2, SentFacts
    <2>4. Requests' /\ Starting'
      BY <1>0, <2>1, <2>2, <2>3 DEF Requests, Starting, Doomed
    <2>5. Workers'
      BY <1>0, <2>1, <2>3 DEF Workers, Live, Busy
    <2> QED
      BY <2>3, <2>4, <2>5
  <1>8. CASE CancelReturn \/ RemoveReturn
    <2>1. /\ UNCHANGED <<turnQ, turnMap, tasks, chat>>
          /\ cancel' = cancel \/ (cancel = "yes" /\ cancel' = "idle")
          /\ remove' = remove \/ (remove = "dropped" /\ remove' = "idle")
      BY <1>8 DEF CancelReturn, RemoveReturn, turnVars
    <2>2. Requests' /\ Starting'
      BY <1>0, <1>1, <2>1 DEF Requests, Starting, Doomed
    <2>3. Workers'
      BY <1>0, <1>1, <2>1 DEF Workers
    <2> QED
      BY <1>1, <2>1, <2>2, <2>3
  <1>9. CASE RestoreSubscribe \/ RestoreReturn
    <2>1. UNCHANGED <<turnQ, turnMap, tasks, chat, cancel, remove>>
      BY <1>9 DEF RestoreSubscribe, RestoreReturn, turnVars
    <2>2. Requests' /\ Starting'
      BY <1>0, <1>1, <2>1 DEF Requests, Starting, Doomed
    <2>3. Workers'
      BY <1>0, <1>1, <2>1 DEF Workers
    <2> QED
      BY <1>1, <2>1, <2>2, <2>3
  <1>10. CASE Restart
    <2>1. /\ turnQ' = <<>> /\ turnMap'.state = "None" /\ chat'.pc = "idle" /\ cancel' = "idle" /\ remove' = "idle"
          /\ \A t \in Slots : tasks'[t].phase = "idle" /\ ~tasks'[t].dying
      BY <1>10 DEF Restart, NoTurn, NoChat, Idle
    <2>2. Mailbox' /\ \A type : ~InQueue(type)'
      BY <2>1 DEF Mailbox, InQueue
    <2> QED
      BY <2>1, <2>2 DEF Requests, Starting, Workers, Doomed, Live, Busy
  <1> QED
    BY <1>2, <1>3, <1>4, <1>5, <1>6, <1>7, <1>8, <1>9, <1>10 DEF FrontEnd

(* Every step keeps the control.                                           *)
LEMMA ControlStep ==
  ASSUME Patient, Control, [Next]_vars
  PROVE  Control'
  <1>0. Types'
    BY TypesStep DEF Control
  <1>1. CASE UNCHANGED vars
    <2>1. Mailbox' /\ \A type : InQueue(type)' <=> InQueue(type)
      BY <1>1 DEF vars, Control, Mailbox, Ends, At, InQueue
    <2> QED
      BY <1>0, <1>1, <2>1 DEF vars, Control, Requests, Workers, Starting, Doomed, Live, Busy
  <1>2. CASE Next
    BY <1>0, <1>2, ControlTask, ControlManager, ControlFrontEnd DEF Next, Control
  <1> QED
    BY <1>1, <1>2

(* Nothing is under way at first.                                          *)
LEMMA ControlInit == Init => Control
  <1> SUFFICES ASSUME Init PROVE Control
    OBVIOUS
  <1>1. /\ turnQ = <<>> /\ turnMap.state = "None" /\ chat.pc = "idle" /\ cancel = "idle" /\ remove = "idle"
        /\ \A t \in Slots : tasks[t].phase = "idle" /\ ~tasks[t].dying
    BY DEF Init, NoTurn, NoChat, Idle
  <1>2. Mailbox /\ \A type : ~InQueue(type)
    BY <1>1 DEF Mailbox, InQueue
  <1> QED
    BY <1>1, <1>2, TypesInit DEF Control, Requests, Starting, Workers, Doomed, Live, Busy

-----------------------------------------------------------------------------
(* Somebody ends every turn.                                               *)

(* A task that was aborted while its turn runs leaves the turn to whoever  *)
(* aborted it.                                                             *)
DyingIsDoomed == \A t \in Slots : tasks[t].dying /\ Running => Doomed

Tended ==
    \/ \E t \in Slots : Live(t) /\ tasks[t].phase \notin {"prepare", "sendDone"}
    \/ turnMap.state = "Running" /\ InQueue("ToolCall")
    \/ Doomed

WorkInv == Control /\ DyingIsDoomed /\ (Running /\ spent.breaks = 0 => Tended)

(* What the steps of the session manager do to the state of the session.   *)
LEMMA RunningFacts ==
  ASSUME session \in SessionRecord
  PROVE  /\ \A type, call, turn : AddItem(type, call, turn) => (Running' <=> Running)
         /\ AddDone => ~Running'
         /\ AddErr => ~Running'
         /\ CancelEvent => ~Running'
         /\ \A gate : Subscribe(gate) => (Running' <=> Running)
         /\ \A r : RemoveSession(r) => ~Running'
         /\ UNCHANGED sessionVars => (Running' <=> Running)
  <1>1. \A type, call, turn : AddItem(type, call, turn) => (Running' <=> Running)
    BY DEF AddItem, Running
  <1>2. AddDone => ~Running'
    BY DEF AddDone, Running, SessionRecord
  <1>3. ASSUME NEW e \in {"Error", "Cancel"}, NEW r, Repair([session EXCEPT !.terminal = e, !.sub = Published(e).sub], r)
        PROVE  ~Running'
    BY <1>3 DEF Repair, Running, SessionRecord, NoSession
  <1>4. UNCHANGED sessionVars => (Running' <=> Running)
    BY DEF sessionVars, Running
  <1>5. AddErr => ~Running'
    BY <1>3, <1>4 DEF AddErr
  <1>6. CancelEvent => ~Running'
    BY <1>3, <1>4 DEF CancelEvent
  <1>7. \A gate : Subscribe(gate) => (Running' <=> Running)
    BY DEF Subscribe, Running, SessionRecord
  <1>8. \A r : RemoveSession(r) => ~Running'
    BY DEF RemoveSession, Running, NoSession
  <1> QED
    BY <1>1, <1>2, <1>4, <1>5, <1>6, <1>7, <1>8

(* Where a busy task is after it went on; the others are idle.             *)
LEMMA MoveFacts ==
  ASSUME Control, NEW t \in Slots, NEW x \in TaskRecord, WithCalls(x), Goes(t, x), Busy(t), x.dying = tasks[t].dying
  PROVE  /\ tasks'[t] = IF tasks[t].dying THEN Idle ELSE x
         /\ ~tasks'[t].dying /\ tasks[t].dying \in BOOLEAN
         /\ \A u \in Slots : u # t => tasks'[u] = tasks[u] /\ tasks[u].phase = "idle" /\ ~tasks[u].dying
  <1>1. TaskTypes /\ tasks' = [tasks EXCEPT ![t] = IF tasks[t].dying THEN Idle ELSE x]
    BY GoesFacts DEF Control, Types
  <1>2. \A u \in Slots : u # t => tasks[u].phase = "idle" /\ ~tasks[u].dying
    BY DEF Control, Workers, Busy
  <1> QED
    BY <1>1, <1>2 DEF TaskTypes, TaskRecord, Idle

(* Each step of a task leaves a running turn tended.                       *)
LEMMA WorkTask ==
  ASSUME WorkInv, NEW t \in Slots, TaskStep(t)
  PROVE  DyingIsDoomed' /\ (Running' /\ spent'.breaks = 0 => Tended')
  <1> DEFINE r == tasks[t]
             Goal == DyingIsDoomed' /\ (Running' /\ spent'.breaks = 0 => Tended')
  <1>0. /\ Control /\ Types /\ TaskTypes /\ QueueTypes /\ r \in TaskRecord /\ WithCalls(r) /\ session \in SessionRecord
        /\ r.phase \in Phase /\ r.calls \in Seq(Nat) /\ r.dying \in BOOLEAN /\ r.items \in Nat /\ r.turn \in Nat /\ r.step \in Nat
        /\ r.dying => Busy(t) /\ r.phase \notin {"prepare", "prompted"}
        /\ <<>> \in Seq(Nat)
    BY SMTT(30) DEF WorkInv, Control, Workers, Types, TaskTypes, TaskRecord, SessionTypes
  <1>1. ASSUME NEW x \in TaskRecord, WithCalls(x), Goes(t, x), Busy(t), x.dying = r.dying,
               UNCHANGED <<cancel, remove>>,
               Running' => Running \/ ~r.dying,
               Running' /\ spent'.breaks = 0 => x.phase \notin {"idle", "prepare", "sendDone"}
        PROVE  Goal
    <2>1. /\ tasks'[t] = IF r.dying THEN Idle ELSE x
          /\ ~tasks'[t].dying /\ r.dying \in BOOLEAN
          /\ \A u \in Slots : u # t => tasks'[u] = tasks[u] /\ tasks[u].phase = "idle" /\ ~tasks[u].dying
      BY <1>0, <1>1, MoveFacts
    <2>2. DyingIsDoomed'
      BY <2>1 DEF DyingIsDoomed
    <2>3. CASE r.dying
      <3>1. Running' => Doomed'
        BY <1>1, <2>3 DEF WorkInv, DyingIsDoomed, Doomed
      <3> QED
        BY <2>2, <3>1 DEF Tended
    <2>4. CASE ~r.dying
      BY <1>1, <2>1, <2>2, <2>4 DEF Tended, Live
    <2> QED
      BY <2>3, <2>4
  <1>2. ASSUME NEW phase \in Phase \ {"idle", "prepare"}, To(t, phase), Busy(t),
               phase \in {"sendCalls", "tools", "results"} => r.calls # <<>>,
               UNCHANGED <<cancel, remove>>,
               Running' => Running \/ ~r.dying,
               Running' /\ spent'.breaks = 0 => phase # "sendDone"
        PROVE  Goal
    <2> DEFINE x == [r EXCEPT !.phase = phase]
    <2>1. Goes(t, x)
      BY <1>2 DEF To
    <2>2. x \in TaskRecord /\ x.phase = phase /\ x.calls = r.calls /\ x.dying = r.dying
      BY <1>0 DEF TaskRecord
    <2> HIDE DEF x
    <2> QED
      BY <1>1, <1>2, <2>1, <2>2 DEF WithCalls
  <1>3. /\ \A type, call, turn : AddItem(type, call, turn) => (Running' <=> Running)
        /\ AddDone => ~Running'
        /\ AddErr => ~Running'
        /\ UNCHANGED sessionVars => (Running' <=> Running)
    BY <1>0, RunningFacts
  <1>4. CASE Prepare(t)
    <2>1. /\ r.phase = "prepare" /\ Busy(t) /\ ~r.dying /\ cancel = "idle" /\ remove = "idle" /\ ~InQueue("ToolCall")
          /\ \A u \in Slots : u # t => ~Busy(u)
      BY <1>0, <1>4 DEF Prepare, Busy, Control, Workers, Requests
    <2>2. Running => spent.breaks # 0
      BY <2>1 DEF WorkInv, Tended, Live, Busy, Doomed
    <2>3. CASE To(t, "prompted")
      BY <1>2, <1>4, <2>1, <2>3 DEF Prepare, Phase
    <2>4. CASE To(t, "sendDone") /\ UNCHANGED sessionVars
      BY <1>2, <1>3, <1>4, <2>1, <2>2, <2>4 DEF Prepare, Phase
    <2> QED
      BY <1>4, <2>3, <2>4 DEF Prepare
  <1>5. CASE Accept(t)
    BY <1>2, <1>3, <1>5 DEF Accept, Busy, Phase
  <1>6. CASE Request(t)
    BY <1>2, <1>3, <1>6 DEF Request, Busy, Phase, clientVars
  <1>7. ASSUME NEW type, Item(t, type) PROVE Goal
    <2> DEFINE x == [r EXCEPT !.items = @ + 1]
    <2>1. x \in TaskRecord /\ x.phase = r.phase /\ x.calls = r.calls /\ x.dying = r.dying
      <3>1. ASSUME NEW y \in TaskRecord, NEW n \in Nat
            PROVE  /\ [y EXCEPT !.items = n] \in TaskRecord
                   /\ [y EXCEPT !.items = n].phase = y.phase
                   /\ [y EXCEPT !.items = n].calls = y.calls
                   /\ [y EXCEPT !.items = n].dying = y.dying
        BY DEF TaskRecord
      <3>2. r.items + 1 \in Nat
        BY <1>0
      <3> QED
        BY <1>0, <3>1, <3>2
    <2>2. Goes(t, x) /\ r.phase = "stream" /\ UNCHANGED <<cancel, remove>> /\ (Running' <=> Running)
      BY <1>3, <1>7 DEF Item, clientVars
    <2> HIDE DEF x
    <2> QED
      BY <1>1, <2>1, <2>2 DEF WithCalls, Busy
  <1>8. CASE ToolCallItem(t)
    <2> DEFINE more == Append(r.calls, spent.calls + 1)
               x == [r EXCEPT !.items = @ + 1, !.calls = more]
    <2>0. more \in Seq(Nat) /\ r.items + 1 \in Nat
      BY <1>0, SMTT(30) DEF Types, SpentTypes
    <2>1. Goes(t, x) /\ r.phase = "stream" /\ UNCHANGED <<cancel, remove>> /\ (Running' <=> Running)
      BY <1>3, <1>8 DEF ToolCallItem, clientVars
    <2> HIDE DEF more
    <2>2. x \in TaskRecord /\ x.phase = r.phase /\ x.dying = r.dying
      <3>1. ASSUME NEW y \in TaskRecord, NEW n \in Nat, NEW s \in Seq(Nat)
            PROVE  /\ [y EXCEPT !.items = n, !.calls = s] \in TaskRecord
                   /\ [y EXCEPT !.items = n, !.calls = s].phase = y.phase
                   /\ [y EXCEPT !.items = n, !.calls = s].dying = y.dying
        BY DEF TaskRecord
      <3> DEFINE n == r.items + 1
      <3>2. r \in TaskRecord /\ n \in Nat /\ x = [r EXCEPT !.items = n, !.calls = more]
        BY <1>0, <2>0
      <3> HIDE DEF n, x, r
      <3> QED
        BY <2>0, <3>1, <3>2, ZenonT(30)
    <2> HIDE DEF x
    <2> QED
      BY <1>1, <2>1, <2>2 DEF WithCalls, Busy
  <1>9. /\ AfterStream(t) \in Phase \ {"idle", "prepare"} /\ AfterStream(t) \in {"sendCalls", "sendDone"}
        /\ AfterStream(t) = "sendCalls" <=> r.calls # <<>>
    BY DEF AfterStream, Phase
  <1>10. CASE StreamDone(t)
    BY <1>2, <1>3, <1>9, <1>10 DEF StreamDone, Busy, clientVars
  <1>11. CASE StreamError(t)
    <2> DEFINE x == [r EXCEPT !.phase = "sendDone", !.calls = <<>>]
    <2>1. x \in TaskRecord /\ x.phase = "sendDone" /\ x.calls = <<>> /\ x.dying = r.dying
      BY <1>0 DEF TaskRecord, Phase
    <2>2. Goes(t, x) /\ r.phase = "stream" /\ UNCHANGED <<cancel, remove>> /\ ~Running'
      BY <1>3, <1>11 DEF StreamError, clientVars
    <2> HIDE DEF x
    <2> QED
      BY <1>1, <2>1, <2>2 DEF WithCalls, Busy
  <1>12. CASE StreamStops(t)
    <2>1. spent'.breaks # 0
      BY <1>0, <1>12 DEF StreamStops, SpendEvent, Spend, Types, SpentTypes
    <2> QED
      BY <1>2, <1>3, <1>9, <1>12, <2>1 DEF StreamStops, Busy, clientVars
  <1>13. CASE RunTools(t)
    BY <1>0, <1>2, <1>3, <1>13 DEF RunTools, Busy, Phase, WithCalls, clientVars
  <1>14. CASE AddResult(t)
    <2> DEFINE rest == Tail(r.calls)
               phase == IF rest = <<>> THEN "request" ELSE r.phase
               x == [r EXCEPT !.calls = rest, !.phase = phase]
    <2>0. rest \in Seq(Nat) /\ r.phase = "results"
      BY <1>0, <1>14 DEF AddResult, WithCalls
    <2>1. Goes(t, x) /\ UNCHANGED <<cancel, remove>> /\ (Running' <=> Running)
      BY <1>3, <1>14 DEF AddResult, clientVars
    <2>2. phase \in {"request", "results"} /\ (phase = "results" => rest # <<>>)
      BY <2>0
    <2> HIDE DEF rest, phase
    <2>3. x \in TaskRecord /\ x.phase = phase /\ x.calls = rest /\ x.dying = r.dying
      BY <1>0, <2>0, <2>2 DEF TaskRecord, Phase
    <2> HIDE DEF x
    <2> QED
      BY <1>1, <2>0, <2>1, <2>2, <2>3 DEF WithCalls, Busy
  <1>15. CASE Reap(t) \/ Send(t)
    <2>1. tasks' = [tasks EXCEPT ![t] = Idle] /\ Busy(t) /\ UNCHANGED <<turnMap, cancel, remove, spent>> /\ (Running' <=> Running)
      BY <1>0, <1>3, <1>15 DEF Reap, Send, Busy, turnVars, clientVars
    <2>2. \A u \in Slots : tasks'[u].phase = "idle" /\ ~tasks'[u].dying
      <3>1. \A u \in Slots : u # t => tasks[u].phase = "idle" /\ ~tasks[u].dying
        BY <1>0, <2>1 DEF Control, Workers, Busy
      <3> QED
        BY <2>1, <3>1, <1>0 DEF TaskTypes, Idle
    <2>3. DyingIsDoomed'
      BY <2>2 DEF DyingIsDoomed
    <2>4. CASE r.dying
      BY <2>1, <2>3, <2>4 DEF WorkInv, DyingIsDoomed, Doomed, Tended
    <2>5. CASE ~r.dying /\ r.phase = "sendCalls"
      <3> DEFINE m == Msg("ToolCall", r.turn, r.step + 1, r.calls)
      <3>1. m \in Message /\ m.type = "ToolCall" /\ turnQ' = Append(turnQ, m)
        BY <1>0, <1>15, <2>5 DEF Send, Reap, Msg, Message
      <3> HIDE DEF m
      <3>2. InQueue("ToolCall")'
        BY <1>0, <3>1, InQueueFacts
      <3>3. turnMap'.state = "Running"
        BY <1>0, <2>1, <2>5 DEF Control, Workers, Live, Busy
      <3> QED
        BY <2>3, <3>2, <3>3 DEF Tended
    <2>6. CASE ~r.dying /\ r.phase = "sendDone"
      <3>1. ~InQueue("ToolCall") /\ \A u \in Slots : u # t => ~Busy(u)
        BY <1>0, <2>1 DEF Control, Workers
      <3>2. Running /\ spent.breaks = 0 => Doomed
        BY <2>6, <3>1 DEF WorkInv, Tended, Live, Busy
      <3> QED
        BY <2>1, <2>3, <3>2 DEF Tended, Doomed
    <2> QED
      BY <1>15, <2>4, <2>5, <2>6 DEF Reap, Send
  <1> QED
    BY <1>4, <1>5, <1>6, <1>7, <1>8, <1>10, <1>11, <1>12, <1>13, <1>14, <1>15 DEF TaskStep

(* Each step of the turn manager leaves a running turn tended.             *)
LEMMA WorkManager ==
  ASSUME WorkInv, TurnManager
  PROVE  DyingIsDoomed' /\ (Running' /\ spent'.breaks = 0 => Tended')
  <1> DEFINE Goal == DyingIsDoomed' /\ (Running' /\ spent'.breaks = 0 => Tended')
  <1>0. Control /\ QueueTypes /\ Mailbox /\ tasks \in [Slots -> TaskRecord] /\ session \in SessionRecord
    BY DEF WorkInv, Control, Types, TaskTypes, SessionTypes
  <1>1. (Running' <=> Running) /\ UNCHANGED spent
    BY <1>0, RunningFacts DEF TurnManager, HandleStart, HandleToolCall, HandleCancel, HandleDrop, HandleDone
  <1>2. CASE HandleStart
    <2>1. /\ ~InQueue("ToolCall")' /\ UNCHANGED <<cancel, remove>> /\ turnMap.state # "Running"
          /\ (\A u \in Slots : ~Busy(u)) /\ cancel = "idle" /\ remove = "idle"
      BY <1>0, <1>2, TakenFacts DEF HandleStart, Control, Requests, Starting, clientVars
    <2>2. ~(Running /\ spent.breaks = 0)
      BY <2>1 DEF WorkInv, Tended, Live, Busy, Doomed
    <2>3. \A u \in Slots : ~tasks'[u].dying
      <3>1. PICK t \in Slots : Spawn(t, Task("prepare", Head(turnQ).turn, 0, <<>>))
        BY <1>2 DEF HandleStart
      <3>2. \A u \in Slots : ~tasks[u].dying
        BY <1>0, <2>1 DEF Control, Workers
      <3> QED
        BY <1>0, <3>1, <3>2 DEF Spawn, Task, Idle
    <2> QED
      BY <1>1, <2>2, <2>3 DEF DyingIsDoomed
  <1>3. CASE HandleToolCall
    <2>1. (\A u \in Slots : ~Busy(u)) /\ UNCHANGED <<cancel, remove>>
      BY <1>0, <1>3, TakenFacts DEF HandleToolCall, Control, Workers, clientVars
    <2>2. CASE turnMap.state # "Running"
      <3>1. Running /\ spent.breaks = 0 => Doomed
        BY <2>1, <2>2 DEF WorkInv, Tended, Live, Busy
      <3>2. UNCHANGED tasks
        BY <1>3, <2>2 DEF HandleToolCall
      <3> QED
        BY <1>1, <2>1, <3>1, <3>2 DEF WorkInv, DyingIsDoomed, Tended, Doomed
    <2>3. CASE turnMap.state = "Running"
      <3> DEFINE x == Task("tools", Head(turnQ).turn, Head(turnQ).step, Head(turnQ).calls)
      <3>1. PICK t \in Slots : Spawn(t, x)
        BY <1>3, <2>3 DEF HandleToolCall
      <3>2. x.phase = "tools" /\ ~x.dying
        BY DEF Task, Idle
      <3> HIDE DEF x
      <3>3. tasks'[t] = x /\ \A u \in Slots : ~tasks'[u].dying
        BY <1>0, <2>1, <3>1, <3>2 DEF Spawn, Control, Workers
      <3> QED
        BY <3>2, <3>3 DEF DyingIsDoomed, Tended, Live
    <2> QED
      BY <2>2, <2>3
  <1>4. CASE HandleCancel
    <2>1. cancel = "sent" /\ UNCHANGED remove
      BY <1>0, <1>4, TakenFacts DEF HandleCancel, Control, Requests
    <2>2. CASE turnMap.state = "Running"
      BY <1>4, <2>2 DEF HandleCancel, Doomed, Tended, DyingIsDoomed
    <2>3. CASE turnMap.state # "Running"
      <3>1. UNCHANGED tasks
        BY <1>4, <2>3 DEF HandleCancel, Abort
      <3>2. Running /\ spent.breaks = 0 => remove = "dropped"
        BY <1>0, <2>1, <2>3 DEF WorkInv, Tended, Doomed, Control, Workers
      <3>3. \A t \in Slots : tasks[t].dying /\ Running => remove = "dropped"
        BY <2>1 DEF WorkInv, DyingIsDoomed, Doomed
      <3> QED
        BY <1>1, <2>1, <3>1, <3>2, <3>3 DEF DyingIsDoomed, Tended, Doomed
    <2> QED
      BY <2>2, <2>3
  <1>5. CASE HandleDrop
    BY <1>5 DEF HandleDrop, DyingIsDoomed, Tended, Doomed
  <1>6. CASE HandleDone
    <2>1. (\A u \in Slots : ~Busy(u)) /\ UNCHANGED <<cancel, remove, tasks>> /\ ~InQueue("ToolCall")
      <3>1. (\A u \in Slots : ~Busy(u)) /\ UNCHANGED <<cancel, remove, tasks>> /\ InQueue("Done")
        BY <1>0, <1>6, TakenFacts DEF HandleDone, Control, Workers, clientVars
      <3>2. ~InQueue("ToolCall")
        <4>1. 1 \in 1..Len(turnQ) /\ turnQ[1].type = "Done" /\ ~InQueue("ToolCall")'
          BY <1>0, <1>6, QueueFacts, TakenFacts DEF HandleDone, Receives
        <4> QED
          BY <1>0, <4>1 DEF Mailbox, Ends, InQueue
      <3> QED
        BY <3>1, <3>2
    <2>2. Running /\ spent.breaks = 0 => Doomed
      BY <2>1 DEF WorkInv, Tended, Live, Busy
    <2> QED
      BY <1>1, <2>1, <2>2 DEF WorkInv, DyingIsDoomed, Tended, Doomed
  <1> QED
    BY <1>2, <1>3, <1>4, <1>5, <1>6 DEF TurnManager

(* Each request of the front end, and a restart, leave a running turn      *)
(* tended.                                                                 *)
LEMMA WorkFrontEnd ==
  ASSUME WorkInv, FrontEnd \/ Restart
  PROVE  DyingIsDoomed' /\ (Running' /\ spent'.breaks = 0 => Tended')
  <1> DEFINE Goal == DyingIsDoomed' /\ (Running' /\ spent'.breaks = 0 => Tended')
  <1>0. Control /\ QueueTypes /\ session \in SessionRecord /\ SpentTypes /\ spent.turns \in Nat /\ <<>> \in Seq(Nat)
    BY DEF WorkInv, Control, Types, SessionTypes, SpentTypes
  <1>1. ASSUME ~Running' PROVE Goal
    BY <1>1 DEF DyingIsDoomed
  <1>2. ASSUME Running' <=> Running, UNCHANGED <<turnMap, tasks>>, spent'.breaks = spent.breaks, Doomed => Doomed',
               InQueue("ToolCall") => InQueue("ToolCall")'
        PROVE  Goal
    BY <1>2 DEF WorkInv, DyingIsDoomed, Tended, Live
  <1>3. UNCHANGED turnQ => (InQueue("ToolCall") => InQueue("ToolCall")')
    BY DEF InQueue
  <1>4. /\ \A type \in {"Cancel", "Drop"} : turnQ' = Append(turnQ, Note(type)) => (InQueue("ToolCall") => InQueue("ToolCall")')
        /\ ChatStart => (InQueue("ToolCall") => InQueue("ToolCall")')
    <2>1. \A type \in {"Cancel", "Drop"} : Note(type) \in Message
      BY <1>0 DEF Note, Msg, Message
    <2>2. Msg("Start", spent.turns, 0, <<>>) \in Message
      BY <1>0 DEF Msg, Message
    <2> QED
      BY <1>0, <2>1, <2>2, InQueueFacts DEF ChatStart
  <1>5. \A b \in {"turns", "cancels", "restores", "removes"} : \A l : Spend(b, l) \/ SpendEvent(b, l) => spent'.breaks = spent.breaks
    BY <1>0 DEF Spend, SpendEvent, SpentTypes
  <1>6. CASE ChatEnsure
    <2>1. Running' <=> Running
      BY <1>6 DEF ChatEnsure, Running, NewSession
    <2> QED
      BY <1>2, <1>3, <1>5, <1>6, <2>1 DEF ChatEnsure, turnVars, Doomed
  <1>7. CASE ChatSubscribe
    <2>1. Running' <=> Running
      BY <1>0, <1>7, RunningFacts DEF ChatSubscribe
    <2> QED
      BY <1>2, <1>3, <1>7, <2>1 DEF ChatSubscribe, turnVars, Doomed
  <1>8. CASE ChatStart
    <2>1. Running' <=> Running
      BY <1>0, <1>8, RunningFacts DEF ChatStart
    <2> QED
      BY <1>2, <1>4, <1>8, <2>1 DEF ChatStart, Doomed
  <1>9. CASE ChatReturn
    <2>1. ~Running' \/ (Running' <=> Running)
      BY <1>0, <1>9, RunningFacts DEF ChatReturn, Running
    <2> QED
      BY <1>1, <1>2, <1>3, <1>9, <2>1 DEF ChatReturn, turnVars, Doomed
  <1>10. CASE CancelSend
    <2>1. Running' <=> Running
      BY <1>0, <1>10, RunningFacts DEF CancelSend
    <2> QED
      BY <1>2, <1>4, <1>5, <1>10, <2>1 DEF CancelSend, Doomed
  <1>11. CASE RemoveSend
    <2>1. Running' <=> Running
      BY <1>0, <1>11, RunningFacts DEF RemoveSend
    <2> QED
      BY <1>2, <1>4, <1>5, <1>11, <2>1 DEF RemoveSend, Doomed
  <1>12. CASE CancelReturn \/ RemoveReturn
    BY <1>0, <1>1, <1>12, RunningFacts DEF CancelReturn, RemoveReturn
  <1>13. CASE RestoreSubscribe
    <2>1. Running' <=> Running
      BY <1>0, <1>13, RunningFacts DEF RestoreSubscribe
    <2> QED
      BY <1>2, <1>3, <1>5, <1>13, <2>1 DEF RestoreSubscribe, turnVars, Doomed
  <1>14. CASE RestoreReturn
    <2>1. Running' <=> Running
      BY <1>0, <1>14 DEF RestoreReturn, Running, SessionRecord
    <2> QED
      BY <1>2, <1>3, <1>14, <2>1 DEF RestoreReturn, turnVars, Doomed
  <1>15. CASE Restart
    <2>1. ~Running'
      BY <1>15 DEF Restart, Running, NoSession, NewSession
    <2> QED
      BY <1>1, <2>1
  <1> QED
    BY <1>6, <1>7, <1>8, <1>9, <1>10, <1>11, <1>12, <1>13, <1>14, <1>15 DEF FrontEnd

(* Every step leaves a running turn tended.                                *)
LEMMA WorkStep ==
  ASSUME Patient, WorkInv, [Next]_vars
  PROVE  WorkInv'
  <1>0. Control'
    BY ControlStep DEF WorkInv
  <1>1. CASE UNCHANGED vars
    BY <1>0, <1>1 DEF vars, WorkInv, DyingIsDoomed, Tended, Doomed, Live, Running, InQueue
  <1>2. CASE Next
    BY <1>0, <1>2, WorkTask, WorkManager, WorkFrontEnd DEF Next, WorkInv
  <1> QED
    BY <1>1, <1>2

(* Nobody runs at first.                                                   *)
LEMMA WorkInit == Init => WorkInv
  BY ControlInit DEF Init, WorkInv, DyingIsDoomed, Running, NoSession

(* For a patient user, a running session has somebody at work on it, only  *)
(* one, and the turn manager holds its handle.                             *)
THEOREM WorkersAreTrackedAlways ==
  ASSUME Patient
  PROVE  Spec => []WorkersAreTracked
  <1>1. WorkInv /\ [Next]_vars => WorkInv'
    BY WorkStep
  <1>2. WorkInv => WorkersAreTracked
    <2> SUFFICES ASSUME WorkInv PROVE WorkersAreTracked
      OBVIOUS
    <2>0. Types /\ QueueTypes /\ turnMap \in TurnRecord /\ DOMAIN turnQ = 1..Len(turnQ)
      BY DEF WorkInv, Control, Types, QueueTypes, MapTypes
    <2>1. TypeOK
      BY <2>0, TypesImply
    <2>2. RunningHasWorker
      BY <2>0 DEF WorkInv, Tended, RunningHasWorker, InQueue, Doomed
    <2>3. OneTrackedWorker
      <3>1. \A t \in Slots : turnMap.state = "Running" /\ turnMap.task = t => turnMap = [state |-> "Running", task |-> t]
        BY <2>0 DEF TurnRecord
      <3> QED
        BY <3>1 DEF WorkInv, Control, Workers, OneTrackedWorker
    <2> QED
      BY <2>1, <2>2, <2>3 DEF WorkersAreTracked
  <1> QED
    BY <1>1, <1>2, WorkInit, PTL DEF Spec

-----------------------------------------------------------------------------
(* What is stored.                                                         *)

In(c, calls) == \E k \in 1..Len(calls) : calls[k] = c

(* The history is open for a step of the turn with these calls to answer:  *)
(* its last row is of the turn, calls without a result are among them, and *)
(* they are stored, in the last turn.                                      *)
Serves(h, turn, calls) ==
    /\ Len(h) > 0 /\ h[Len(h)].turn = turn
    /\ \A i \in 1..Len(h) : h[i].type = "tool_call" => Answered(h, i) \/ In(h[i].call, calls)
    /\ \A i \in 1..Len(h) : h[i].type = "tool_call" /\ In(h[i].call, calls) => NoPromptIn(h, i, Len(h))
    /\ \A c : In(c, calls) => \E i \in 1..Len(h) : h[i].type = "tool_call" /\ h[i].call = c

(* A step without calls to answer finds them all answered.                 *)
LEMMA ServesNone ==
  ASSUME NEW h \in Seq(Rows), NEW turn, Serves(h, turn, <<>>)
  PROVE  CallsAnswered(h)
  BY CallsAnsweredAs DEF Serves, In

(* A prompt opens the history.                                             *)
LEMMA ServesPrompt ==
  ASSUME NEW h \in Seq(Rows), NEW turn \in Nat, CallsAnswered(h)
  PROVE  Serves(Append(h, Row("user_prompt", NoCall, turn)), turn, <<>>)
  <1> DEFINE r == Row("user_prompt", NoCall, turn)
             g == Append(h, r)
  <1>1. r \in Rows /\ r.type = "user_prompt" /\ r.turn = turn
    BY DEF Row, Rows, PayloadType, NoCall
  <1> HIDE DEF r
  <1>2. /\ Len(h) \in Nat /\ Len(g) = Len(h) + 1 /\ (\A i \in 1..Len(h) : g[i] = h[i]) /\ g[Len(h) + 1] = r
        /\ \A i \in 1..Len(h) : Answered(h, i) => Answered(g, i)
    BY <1>1, AppendRows, AppendAnswered
  <1> HIDE DEF g
  <1>3. \A i \in 1..Len(h) : h[i].type = "tool_call" => Answered(h, i)
    BY CallsAnsweredAs
  <1>4. 1..Len(g) = 1..Len(h) \cup {Len(h) + 1}
    BY <1>2
  <1> QED
    BY <1>1, <1>2, <1>3, <1>4 DEF Serves, In, g, r

(* A row of the turn that is neither a call nor a result.                  *)
LEMMA ServesItem ==
  ASSUME NEW h \in Seq(Rows), NEW turn \in Nat, NEW calls \in Seq(Nat), Serves(h, turn, calls),
         NEW type \in {"reasoning", "message"}
  PROVE  Serves(Append(h, Row(type, NoCall, turn)), turn, calls)
  <1> DEFINE r == Row(type, NoCall, turn)
             g == Append(h, r)
  <1>1. r \in Rows /\ r.type \notin {"user_prompt", "tool_call"} /\ r.turn = turn
    BY DEF Row, Rows, PayloadType, NoCall
  <1> HIDE DEF r
  <1>2. /\ Len(h) \in Nat /\ Len(g) = Len(h) + 1 /\ (\A i \in 1..Len(h) : g[i] = h[i]) /\ g[Len(h) + 1] = r
        /\ \A i \in 1..Len(h) : Answered(h, i) => Answered(g, i)
        /\ \A i \in Nat : NoPromptIn(g, i, Len(h) + 1) <=> NoPromptIn(h, i, Len(h))
    BY <1>1, AppendRows, AppendAnswered
  <1> HIDE DEF g
  <1>3. 1..Len(g) = 1..Len(h) \cup {Len(h) + 1} /\ 1..Len(h) \subseteq Nat
    BY <1>2
  <1> QED
    BY <1>1, <1>2, <1>3 DEF Serves, g, r

(* A call joins the calls to answer.                                       *)
LEMMA ServesCall ==
  ASSUME NEW h \in Seq(Rows), NEW turn \in Nat, NEW calls \in Seq(Nat), Serves(h, turn, calls), NEW c \in Nat,
         \A i \in 1..Len(h) : h[i].call # c
  PROVE  Serves(Append(h, Row("tool_call", c, turn)), turn, Append(calls, c))
  <1> DEFINE r == Row("tool_call", c, turn)
             g == Append(h, r)
             more == Append(calls, c)
  <1>1. r \in Rows /\ r.type = "tool_call" /\ r.turn = turn /\ r.call = c
    BY DEF Row, Rows, PayloadType
  <1> HIDE DEF r
  <1>2. /\ Len(h) \in Nat /\ Len(g) = Len(h) + 1 /\ (\A i \in 1..Len(h) : g[i] = h[i]) /\ g[Len(h) + 1] = r
        /\ \A i \in 1..Len(h) : Answered(h, i) => Answered(g, i)
        /\ \A i \in Nat : NoPromptIn(g, i, Len(h) + 1) <=> NoPromptIn(h, i, Len(h))
    BY <1>1, AppendRows, AppendAnswered
  <1>3. \A d : In(d, more) <=> In(d, calls) \/ d = c
    <2>1. Len(calls) \in Nat /\ Len(more) = Len(calls) + 1 /\ more[Len(calls) + 1] = c /\ \A k \in 1..Len(calls) : more[k] = calls[k]
      OBVIOUS
    <2>2. 1..Len(more) = 1..Len(calls) \cup {Len(calls) + 1}
      BY <2>1
    <2> QED
      BY <2>1, <2>2 DEF In
  <1> HIDE DEF g, more
  <1>4. 1..Len(g) = 1..Len(h) \cup {Len(h) + 1} /\ 1..Len(h) \subseteq Nat
    BY <1>2
  <1>5. NoPromptIn(g, Len(h) + 1, Len(h) + 1)
    BY <1>2 DEF NoPromptIn
  <1>6. \A i \in 1..Len(g) : g[i].type = "tool_call" => Answered(g, i) \/ In(g[i].call, more)
    BY <1>1, <1>2, <1>3, <1>4 DEF Serves
  <1>7. \A i \in 1..Len(g) : g[i].type = "tool_call" /\ In(g[i].call, more) => NoPromptIn(g, i, Len(g))
    BY <1>1, <1>2, <1>3, <1>4, <1>5 DEF Serves
  <1>8. \A d : In(d, more) => \E i \in 1..Len(g) : g[i].type = "tool_call" /\ g[i].call = d
    <2>1. Len(h) + 1 \in 1..Len(g) /\ g[Len(h) + 1].type = "tool_call" /\ g[Len(h) + 1].call = c
      BY <1>1, <1>2, <1>4
    <2>2. \A d : In(d, calls) => \E i \in 1..Len(h) : g[i].type = "tool_call" /\ g[i].call = d
      BY <1>2 DEF Serves
    <2> QED
      BY <1>3, <1>4, <2>1, <2>2
  <1> QED
    BY <1>1, <1>2, <1>6, <1>7, <1>8 DEF Serves, g, r, more

(* A result takes its call off the calls to answer.                        *)
LEMMA ServesResult ==
  ASSUME NEW h \in Seq(Rows), NEW turn \in Nat, NEW calls \in Seq(Nat), calls # <<>>, Serves(h, turn, calls)
  PROVE  Serves(Append(h, Row("tool_result", Head(calls), turn)), turn, Tail(calls))
  <1> DEFINE c == Head(calls)
             r == Row("tool_result", c, turn)
             g == Append(h, r)
             rest == Tail(calls)
  <1>0. c \in Nat
    OBVIOUS
  <1>1. \A d : In(d, calls) <=> In(d, rest) \/ d = c
    <2>1. Len(calls) \in Nat /\ calls[1] = c /\ Len(rest) = Len(calls) - 1 /\ Len(calls) > 0 /\ \A k \in 1..Len(rest) : rest[k] = calls[k + 1]
      OBVIOUS
    <2> HIDE DEF c, rest
    <2>2. \A d : In(d, rest) => In(d, calls)
      <3> SUFFICES ASSUME NEW d, NEW k \in 1..Len(rest), rest[k] = d PROVE In(d, calls)
        BY DEF In
      <3>1. k + 1 \in 1..Len(calls) /\ calls[k + 1] = d
        BY <2>1
      <3> QED
        BY <3>1 DEF In
    <2>3. \A d : In(d, calls) => In(d, rest) \/ d = c
      <3> SUFFICES ASSUME NEW d, NEW k \in 1..Len(calls), calls[k] = d, d # c PROVE In(d, rest)
        BY DEF In
      <3>1. k - 1 \in 1..Len(rest) /\ (k - 1) + 1 = k
        BY <2>1
      <3>2. rest[k - 1] = d
        BY <2>1, <3>1
      <3> QED
        BY <3>1, <3>2 DEF In
    <2>4. In(c, calls)
      BY <2>1 DEF In
    <2> QED
      BY <2>2, <2>3, <2>4
  <1> HIDE DEF c, rest
  <1>2. r \in Rows /\ r.type \notin {"user_prompt", "tool_call"} /\ r.type = "tool_result" /\ r.turn = turn /\ r.call = c
    BY <1>0 DEF Row, Rows, PayloadType
  <1> HIDE DEF r
  <1>3. /\ Len(h) \in Nat /\ Len(g) = Len(h) + 1 /\ (\A i \in 1..Len(h) : g[i] = h[i]) /\ g[Len(h) + 1] = r
        /\ \A i \in 1..Len(h) : Answered(h, i) => Answered(g, i)
        /\ \A i \in Nat : NoPromptIn(g, i, Len(h) + 1) <=> NoPromptIn(h, i, Len(h))
    BY <1>2, AppendRows, AppendAnswered
  <1> HIDE DEF g
  <1>4. 1..Len(g) = 1..Len(h) \cup {Len(h) + 1} /\ 1..Len(h) \subseteq Nat
    BY <1>3
  <1>5. ASSUME NEW i \in 1..Len(h), h[i].type = "tool_call", h[i].call = c PROVE Answered(g, i)
    <2>1. NoPromptIn(h, i, Len(h))
      BY <1>1, <1>5 DEF Serves
    <2>2. NoPromptIn(g, i, Len(h) + 1) /\ Len(h) + 1 \in (i + 1)..Len(g)
      BY <1>3, <1>4, <2>1
    <2> QED
      BY <1>2, <1>3, <1>5, <2>2 DEF Answered
  <1>6. \A i \in 1..Len(g) : g[i].type = "tool_call" => Answered(g, i) \/ In(g[i].call, rest)
    BY <1>1, <1>2, <1>3, <1>4, <1>5 DEF Serves
  <1>7. \A i \in 1..Len(g) : g[i].type = "tool_call" /\ In(g[i].call, rest) => NoPromptIn(g, i, Len(g))
    BY <1>1, <1>2, <1>3, <1>4 DEF Serves
  <1>8. \A d : In(d, rest) => \E i \in 1..Len(g) : g[i].type = "tool_call" /\ g[i].call = d
    BY <1>1, <1>3, <1>4 DEF Serves
  <1> QED
    BY <1>2, <1>3, <1>6, <1>7, <1>8 DEF Serves, g, r, c, rest

Writing(t) == tasks[t].phase \notin {"idle", "prepare", "sendDone"}

(* Results follow their calls, turns do not mix and call ids are fresh.    *)
Stored ==
    /\ WellFormed(history) /\ NoMix(history)
    /\ \A i \in 1..Len(history) : history[i].call <= spent.calls

(* A session at rest has its calls answered, one that runs has a prompt.   *)
Rests ==
    /\ ~session.present => history = <<>>
    /\ Running => history # <<>>
    /\ ~Running => CallsAnswered(history)

(* While the session runs, the step at work or the tool step in the        *)
(* mailbox answers what is open; without either everything is answered or  *)
(* a cancel or removal repairs it.                                         *)
Served ==
    Running =>
        /\ \A t \in Slots : Writing(t) => Serves(history, tasks[t].turn, tasks[t].calls)
        /\ \A i \in 1..Len(turnQ) : At(i, "ToolCall") /\ turnMap.state = "Running" =>
              Serves(history, turnQ[i].turn, turnQ[i].calls)
        /\ \/ Doomed \/ CallsAnswered(history)
           \/ \E t \in Slots : Writing(t)
           \/ turnMap.state = "Running" /\ InQueue("ToolCall")

HistoryInv == WorkInv /\ Stored /\ Rests /\ Served

(* A history that nobody writes to any more.                               *)
LEMMA RestingHistory ==
  ASSUME WellFormed(history'), NoMix(history'), \A i \in 1..Len(history') : history'[i].call <= spent'.calls,
         CallsAnswered(history'), ~session'.present => history' = <<>>, ~Running'
  PROVE  Stored' /\ Rests' /\ Served'
  BY DEF Stored, Rests, Served

(* The repaired history is sound.                                          *)
LEMMA RepairedHistory ==
  ASSUME HistoryInv
  PROVE  /\ WellFormed(Cleanup(history)) /\ NoMix(Cleanup(history)) /\ CallsAnswered(Cleanup(history))
         /\ \A i \in 1..Len(Cleanup(history)) : Cleanup(history)[i].call <= spent.calls
         /\ Recover(history) = Cleanup(history)
  <1>0. history \in Seq(Rows) /\ WellFormed(history) /\ NoMix(history) /\ \A i \in 1..Len(history) : history[i].call <= spent.calls
    BY DEF HistoryInv, WorkInv, Control, Types, SessionTypes, Stored
  <1>1. WellFormed(Cleanup(history)) /\ CallsAnswered(Cleanup(history))
    BY <1>0, CleanupValid DEF WellFormed
  <1>2. NoMix(Cleanup(history))
    BY <1>0, CleanupNoMix
  <1>3. Recover(history) = Cleanup(history)
    BY <1>0, CleanupFacts
  <1>4. ASSUME NEW i \in 1..Len(Cleanup(history)) PROVE Cleanup(history)[i].call <= spent.calls
    <2>1. Kept(history) \in Nat /\ Kept(history) <= Len(history) /\ Len(history) \in Nat /\ Len(Cleanup(history)) \in Nat
          /\ \A k \in 1..Kept(history) : Cleanup(history)[k] = history[k]
      BY <1>0, CleanupRows
    <2>2. CASE i <= Kept(history)
      <3>1. i \in 1..Kept(history) /\ i \in 1..Len(history)
        BY <2>1, <2>2
      <3> QED
        BY <1>0, <2>1, <3>1
    <2>3. CASE i > Kept(history)
      <3>1. PICK m \in 1..Kept(history) : Cleanup(history)[i].call = history[m].call
        BY <1>0, <2>3, CleanupPrompts
      <3>2. m \in 1..Len(history)
        BY <2>1
      <3> QED
        BY <1>0, <3>1, <3>2
    <2> QED
      BY <2>1, <2>2, <2>3
  <1> QED
    BY <1>1, <1>2, <1>3, <1>4

(* An error or a cancel leaves a sound history at rest.                    *)
LEMMA RepairRests ==
  ASSUME HistoryInv, AddErr \/ CancelEvent, spent'.calls = spent.calls
  PROVE  Stored' /\ Rests' /\ Served'
  <1>0. /\ session \in SessionRecord /\ history \in Seq(Rows) /\ Stored /\ Rests
    BY DEF HistoryInv, WorkInv, Control, Types, SessionTypes
  <1>1. ~Running'
    BY <1>0, RunningFacts
  <1>2. CASE ~Running
    <2>1. UNCHANGED sessionVars
      BY <1>2 DEF AddErr, CancelEvent
    <2> QED
      BY <1>0, <1>1, <1>2, <2>1, RestingHistory DEF Stored, Rests, sessionVars
  <1>3. CASE Running
    <2>1. history' = Cleanup(history) /\ (~session'.present => history' = <<>>)
      BY <1>0, <1>3 DEF AddErr, CancelEvent, Repair, Running, SessionRecord
    <2> QED
      BY <1>1, <2>1, RepairedHistory, RestingHistory
  <1> QED
    BY <1>2, <1>3

(* A session without a history is at rest.                                 *)
LEMMA EmptyRests ==
  ASSUME history' = <<>>, ~Running'
  PROVE  Stored' /\ Rests' /\ Served'
  <1>1. WellFormed(<<>>) /\ NoMix(<<>>) /\ CallsAnswered(<<>>)
    <2>1. <<>> \in Seq(Rows) /\ Len(<<>>) = 0 /\ 1..0 = {}
      OBVIOUS
    <2>2. CallsAnswered(<<>>)
      BY <2>1, CallsAnsweredAs
    <2> QED
      BY <2>1, <2>2 DEF WellFormed, Opened, OwnResults, OpenInLast, NoMix
  <1> QED
    BY <1>1, RestingHistory

(* A step that leaves the session and its history alone.                   *)
LEMMA UntouchedHistory ==
  ASSUME HistoryInv, UNCHANGED history, Running' <=> Running, ~session'.present => ~session.present,
         spent'.calls = spent.calls
  PROVE  Stored' /\ Rests'
  BY DEF HistoryInv, Stored, Rests

(* A row that the step at work adds keeps the history sound.               *)
LEMMA ItemStored ==
  ASSUME HistoryInv, NEW type \in PayloadType \ {"user_prompt"}, NEW call \in Nat, NEW turn \in Nat, NEW calls \in Seq(Nat),
         AddItem(type, call, turn), spent'.calls \in Nat, spent.calls <= spent'.calls,
         type # "tool_result" => call <= spent'.calls,
         Running => Serves(history, turn, calls),
         type = "tool_call" => \A i \in 1..Len(history) : history[i].call # call,
         type = "tool_result" => In(call, calls)
  PROVE  /\ Stored' /\ Rests' /\ (Running' <=> Running)
         /\ Running => history' = Append(history, Row(type, call, turn))
  <1> DEFINE r == Row(type, call, turn)
  <1>0. /\ session \in SessionRecord /\ history \in Seq(Rows) /\ Stored /\ Rests /\ spent.calls \in Nat
        /\ \A i \in 1..Len(history) : history[i].call \in Nat
    <2>1. /\ session \in SessionRecord /\ history \in Seq(Rows) /\ Stored /\ Rests /\ spent.calls \in Nat
      BY DEF HistoryInv, WorkInv, Control, Types, SessionTypes, SpentTypes
    <2>2. \A i \in 1..Len(history) : history[i] \in Rows
      BY <2>1
    <2> QED
      BY <2>1, <2>2 DEF Rows
  <1>1. (Running' <=> Running) /\ UNCHANGED session
    BY <1>0, RunningFacts DEF AddItem
  <1>2. CASE ~Running
    <2>1. UNCHANGED history
      BY <1>2 DEF AddItem
    <2>2. \A i \in 1..Len(history) : history[i].call <= spent'.calls
      BY <1>0 DEF Stored
    <2> QED
      BY <1>0, <1>1, <1>2, <2>1, <2>2 DEF Stored, Rests
  <1>3. CASE Running
    <2>1. r \in Rows /\ r.type = type /\ r.call = call /\ r.turn = turn /\ history' = Append(history, r)
      BY <1>3 DEF AddItem, Row, Rows
    <2>2. Len(history) > 0 /\ history[Len(history)].turn = turn
      BY <1>3 DEF Serves
    <2> HIDE DEF r
    <2>3. WellFormed(history')
      <3>1. type = "tool_result" =>
              \A i \in 1..Len(history) : history[i].type = "tool_call" /\ history[i].call = r.call => NoPromptIn(history, i, Len(history))
        BY <1>3, <2>1 DEF Serves
      <3>2. WellFormed(history) /\ (Len(history) = 0 => r.type = "user_prompt") /\ r.type # "user_prompt"
        BY <1>0, <2>1, <2>2 DEF Stored
      <3>3. r.type = "tool_call" => \A j \in 1..Len(history) : history[j].type = "tool_result" => history[j].call # r.call
        BY <2>1
      <3>4. WellFormed(Append(history, r))
        BY <1>0, <2>1, <3>1, <3>2, <3>3, AppendWellFormed
      <3> QED
        BY <2>1, <3>4
    <2>4. NoMix(history')
      BY <1>0, <2>1, <2>2, AppendNoMix DEF Stored
    <2>5. \A i \in 1..Len(history') : history'[i].call <= spent'.calls
      <3>1. /\ Len(history) \in Nat /\ Len(history') = Len(history) + 1 /\ history'[Len(history) + 1] = r
            /\ \A i \in 1..Len(history) : history'[i] = history[i]
        BY <1>0, <2>1, AppendRows
      <3>2. 1..Len(history') = 1..Len(history) \cup {Len(history) + 1}
        BY <3>1
      <3>3. \A i \in 1..Len(history) : history[i].call <= spent'.calls
        BY <1>0 DEF Stored
      <3>4. r.call <= spent'.calls
        BY <1>3, <2>1, <3>3 DEF Serves
      <3> QED
        BY <3>1, <3>2, <3>3, <3>4
    <2>6. history' # <<>> /\ session.present
      BY <1>0, <1>3, <2>1 DEF Running
    <2> QED
      BY <1>1, <1>3, <2>1, <2>3, <2>4, <2>5, <2>6 DEF Stored, Rests, r
  <1> QED
    BY <1>2, <1>3

(* A step that goes on serves the history it leaves; an aborted one leaves *)
(* it to whoever aborted it.                                               *)
LEMMA ServedMove ==
  ASSUME WorkInv, NEW t \in Slots, NEW x \in TaskRecord, WithCalls(x), Goes(t, x), Busy(t), x.dying = tasks[t].dying,
         x.phase \notin {"idle", "prepare"}, UNCHANGED <<turnQ, turnMap, cancel, remove>>,
         Running' /\ tasks[t].dying => Running,
         Running' /\ ~tasks[t].dying =>
           IF x.phase = "sendDone" THEN CallsAnswered(history') ELSE Serves(history', x.turn, x.calls)
  PROVE  Served'
  <1>1. /\ tasks'[t] = IF tasks[t].dying THEN Idle ELSE x
        /\ tasks[t].dying \in BOOLEAN
        /\ \A u \in Slots : u # t => tasks'[u] = tasks[u] /\ tasks[u].phase = "idle"
    BY MoveFacts DEF WorkInv
  <1>2. ~InQueue("ToolCall")
    BY DEF WorkInv, Control, Workers
  <1>3. \A i \in 1..Len(turnQ') : ~At(i, "ToolCall")'
    BY <1>2 DEF InQueue, At
  <1>4. CASE tasks[t].dying
    <2>1. \A u \in Slots : ~Writing(u)'
      BY <1>1, <1>4 DEF Writing, Idle
    <2>2. Running' => Doomed'
      BY <1>4 DEF WorkInv, DyingIsDoomed, Doomed
    <2> QED
      BY <1>3, <2>1, <2>2 DEF Served
  <1>5. CASE ~tasks[t].dying
    <2>1. tasks'[t] = x /\ (x.phase # "sendDone" <=> Writing(t)') /\ \A u \in Slots : u # t => ~Writing(u)'
      BY <1>1, <1>5 DEF Writing
    <2> QED
      BY <1>3, <1>5, <2>1 DEF Served
  <1> QED
    BY <1>1, <1>4, <1>5

(* Each step of a task keeps the history.                                  *)
LEMMA HistoryTask ==
  ASSUME HistoryInv, NEW t \in Slots, TaskStep(t)
  PROVE  Stored' /\ Rests' /\ Served'
  <1> DEFINE r == tasks[t]
             Goal == Stored' /\ Rests' /\ Served'
  <1>0. /\ WorkInv /\ Control /\ Types /\ TaskTypes /\ QueueTypes /\ r \in TaskRecord /\ WithCalls(r) /\ session \in SessionRecord
        /\ r.phase \in Phase /\ r.calls \in Seq(Nat) /\ r.dying \in BOOLEAN /\ r.items \in Nat /\ r.turn \in Nat /\ r.step \in Nat
        /\ r.dying => Busy(t) /\ r.phase \notin {"prepare", "prompted"}
        /\ r.phase \in {"prepare", "prompted", "request", "sendDone"} => r.calls = <<>>
        /\ <<>> \in Seq(Nat) /\ history \in Seq(Rows) /\ spent.calls \in Nat /\ Stored /\ Rests /\ Served
    <2>1. /\ WorkInv /\ Control /\ Types /\ TaskTypes /\ QueueTypes /\ r \in TaskRecord /\ WithCalls(r) /\ session \in SessionRecord
          /\ history \in Seq(Rows) /\ spent.calls \in Nat /\ Stored /\ Rests /\ Served
      BY DEF HistoryInv, WorkInv, Control, Types, TaskTypes, SessionTypes, SpentTypes
    <2>2. /\ r.dying => Busy(t) /\ r.phase \notin {"prepare", "prompted"}
          /\ r.phase \in {"prepare", "prompted", "request", "sendDone"} => r.calls = <<>>
      BY <2>1 DEF Control, Workers
    <2>3. <<>> \in Seq(Nat)
      OBVIOUS
    <2> QED
      BY <2>1, <2>2, <2>3 DEF TaskRecord
  <1>1. Running /\ r.phase \notin {"idle", "prepare", "sendDone"} => Serves(history, r.turn, r.calls)
    BY <1>0 DEF Served, Writing
  <1>2. ASSUME NEW phase \in Phase \ {"idle", "prepare"}, To(t, phase), Busy(t),
               phase \in {"sendCalls", "tools", "results"} => r.calls # <<>>,
               UNCHANGED <<turnQ, turnMap, cancel, remove>>,
               Running' /\ r.dying => Running,
               Running' /\ ~r.dying =>
                 IF phase = "sendDone" THEN CallsAnswered(history') ELSE Serves(history', r.turn, r.calls)
        PROVE  Served'
    <2> DEFINE x == [r EXCEPT !.phase = phase]
    <2>1. Goes(t, x)
      BY <1>2 DEF To
    <2>2. x \in TaskRecord /\ x.phase = phase /\ x.calls = r.calls /\ x.dying = r.dying /\ x.turn = r.turn
      BY <1>0 DEF TaskRecord
    <2> HIDE DEF x
    <2>3. WithCalls(x)
      BY <1>2, <2>2 DEF WithCalls
    <2> QED
      BY <1>0, <1>2, <2>1, <2>2, <2>3, ServedMove
  <1>3. UNCHANGED sessionVars =>
          UNCHANGED history /\ (Running' <=> Running) /\ session'.present = session.present
    BY DEF sessionVars, Running
  <1>4. ASSUME UNCHANGED sessionVars, spent'.calls = spent.calls PROVE Stored' /\ Rests'
    BY <1>3, <1>4, UntouchedHistory
  <1>5. CASE Prepare(t)
    <2>0. r.phase = "prepare" /\ Busy(t) /\ ~r.dying /\ r.calls = <<>> /\ UNCHANGED <<turnQ, turnMap, cancel, remove, spent>>
      BY <1>0, <1>5 DEF Prepare, Busy, turnVars
    <2>1. CallsAnswered(history)
      <3>1. CASE ~Running
        BY <1>0, <3>1 DEF Rests
      <3>2. CASE Running
        <4>1. cancel = "idle" /\ remove = "idle" /\ ~InQueue("ToolCall") /\ \A u \in Slots : u # t => ~Busy(u)
          BY <1>0, <2>0 DEF Control, Workers, Requests
        <4> QED
          BY <1>0, <2>0, <3>2, <4>1 DEF Served, Writing, Busy, Doomed
      <3> QED
        BY <3>1, <3>2
    <2>2. CASE session.present /\ AddPrompt(r.turn) /\ To(t, "prompted")
      <3> DEFINE p == Row("user_prompt", NoCall, r.turn)
      <3>1. p \in Rows /\ p.type = "user_prompt" /\ p.call = 0 /\ history' = Append(history, p)
        BY <1>0, <2>2 DEF AddPrompt, Row, Rows, PayloadType, NoCall
      <3>2. Serves(history', r.turn, <<>>)
        BY <1>0, <2>1, <2>2, ServesPrompt DEF AddPrompt
      <3>3. Running' /\ session'.present
        BY <1>0, <2>2 DEF AddPrompt, Running, SessionRecord
      <3> HIDE DEF p
      <3>4. WellFormed(history') /\ NoMix(history')
        <4>1. WellFormed(history) /\ NoMix(history)
          BY <1>0 DEF Stored
        <4>2. /\ history \in Seq(Rows) /\ p \in Rows /\ p.type = "user_prompt"
              /\ (p.type = "user_prompt" \/ (Len(history) > 0 /\ p.turn = history[Len(history)].turn))
          BY <1>0, <3>1
        <4>3. NoMix(Append(history, p))
          BY <4>1, <4>2, AppendNoMix
        <4>4. WellFormed(Append(history, p))
          BY <2>1, <4>1, <4>2, AppendWellFormed
        <4> QED
          BY <3>1, <4>3, <4>4
      <3>5. \A i \in 1..Len(history') : history'[i].call <= spent'.calls
        <4>1. /\ Len(history) \in Nat /\ Len(history') = Len(history) + 1 /\ history'[Len(history) + 1] = p
              /\ \A i \in 1..Len(history) : history'[i] = history[i]
          BY <1>0, <3>1, AppendRows
        <4>2. 1..Len(history') = 1..Len(history) \cup {Len(history) + 1}
          BY <4>1
        <4> QED
          BY <1>0, <2>0, <3>1, <4>1, <4>2 DEF Stored
      <3>6. history' # <<>>
        BY <1>0, <3>1
      <3>7. Served'
        BY <1>2, <2>0, <2>2, <3>2 DEF Phase
      <3> QED
        BY <3>3, <3>4, <3>5, <3>6, <3>7 DEF Stored, Rests
    <2>3. CASE To(t, "sendDone") /\ UNCHANGED sessionVars
      <3>1. Stored' /\ Rests'
        BY <1>4, <2>0, <2>3
      <3>2. Served'
        BY <1>2, <1>3, <2>0, <2>1, <2>3 DEF Phase
      <3> QED
        BY <3>1, <3>2
    <2> QED
      BY <1>5, <2>2, <2>3 DEF Prepare
  <1>6. CASE Accept(t)
    <2>1. UNCHANGED <<turnQ, turnMap, cancel, remove, spent>> /\ UNCHANGED sessionVars /\ r.phase = "prompted" /\ To(t, "request")
      BY <1>6 DEF Accept, turnVars
    <2>2. Served'
      BY <1>1, <1>2, <1>3, <2>1 DEF Busy, Phase
    <2> QED
      BY <1>4, <2>1, <2>2
  <1>7. CASE Request(t)
    <2>1. UNCHANGED <<turnQ, turnMap, cancel, remove, spent>> /\ r.phase = "request"
      BY <1>7 DEF Request, turnVars, clientVars
    <2>2. CASE To(t, "stream") /\ UNCHANGED sessionVars
      <3>1. Served'
        BY <1>1, <1>2, <1>3, <2>1, <2>2 DEF Busy, Phase
      <3> QED
        BY <1>4, <2>1, <2>2, <3>1
    <2>3. CASE AddErr
      BY <2>1, <2>3, RepairRests
    <2> QED
      BY <1>7, <2>2, <2>3 DEF Request
  <1>8. ASSUME NEW type \in {"reasoning", "message"}, Item(t, type) PROVE Goal
    <2> DEFINE x == [r EXCEPT !.items = @ + 1]
    <2>1. /\ x \in TaskRecord /\ x.phase = r.phase /\ x.calls = r.calls /\ x.dying = r.dying /\ x.turn = r.turn
      <3>1. ASSUME NEW y \in TaskRecord, NEW n \in Nat
            PROVE  /\ [y EXCEPT !.items = n] \in TaskRecord
                   /\ [y EXCEPT !.items = n].phase = y.phase
                   /\ [y EXCEPT !.items = n].calls = y.calls
                   /\ [y EXCEPT !.items = n].turn = y.turn
                   /\ [y EXCEPT !.items = n].dying = y.dying
        BY DEF TaskRecord
      <3>2. r.items + 1 \in Nat
        BY <1>0
      <3> QED
        BY <1>0, <3>1, <3>2
    <2>2. /\ Goes(t, x) /\ r.phase = "stream" /\ AddItem(type, NoCall, r.turn)
          /\ UNCHANGED <<turnQ, turnMap, cancel, remove, spent>>
      BY <1>8 DEF Item, turnVars, clientVars
    <2> HIDE DEF x
    <2>3. /\ Stored' /\ Rests' /\ (Running' <=> Running)
          /\ Running => history' = Append(history, Row(type, NoCall, r.turn))
      <3>1. NoCall \in Nat /\ NoCall <= spent'.calls /\ spent'.calls \in Nat /\ spent.calls <= spent'.calls
        BY <1>0, <2>2 DEF NoCall
      <3>2. type \in PayloadType \ {"user_prompt"} /\ type \notin {"tool_call", "tool_result"}
        BY DEF PayloadType
      <3> QED
        BY <1>0, <1>1, <2>2, <3>1, <3>2, ItemStored
    <2>4. Running' => Serves(history', x.turn, x.calls)
      BY <1>0, <1>1, <2>1, <2>2, <2>3, ServesItem
    <2>5. Served'
      BY <1>0, <2>1, <2>2, <2>3, <2>4, ServedMove DEF Busy, WithCalls
    <2> QED
      BY <2>3, <2>5
  <1>9. CASE ToolCallItem(t)
    <2> DEFINE c == spent.calls + 1
               more == Append(r.calls, c)
               x == [r EXCEPT !.items = @ + 1, !.calls = more]
    <2>0. c \in Nat /\ more \in Seq(Nat) /\ r.items + 1 \in Nat /\ spent.calls <= c
      BY <1>0
    <2>1. /\ Goes(t, x) /\ r.phase = "stream" /\ AddItem("tool_call", c, r.turn) /\ spent' = [spent EXCEPT !.calls = c]
          /\ UNCHANGED <<turnQ, turnMap, cancel, remove>>
      BY <1>9 DEF ToolCallItem, turnVars, clientVars
    <2>2. \A i \in 1..Len(history) : history[i].call # c
      BY <1>0 DEF Stored
    <2>3. spent'.calls = c
      BY <1>0, <2>1 DEF Types, SpentTypes
    <2>4. Running => Serves(Append(history, Row("tool_call", c, r.turn)), r.turn, more)
      <3> HIDE DEF c
      <3> QED
        BY <1>0, <1>1, <2>0, <2>1, <2>2, ServesCall
    <2> HIDE DEF more, c
    <2>5. x \in TaskRecord /\ x.phase = r.phase /\ x.dying = r.dying /\ x.calls = more /\ x.turn = r.turn
      <3>1. ASSUME NEW y \in TaskRecord, NEW n \in Nat, NEW s \in Seq(Nat)
            PROVE  /\ [y EXCEPT !.items = n, !.calls = s] \in TaskRecord
                   /\ [y EXCEPT !.items = n, !.calls = s].phase = y.phase
                   /\ [y EXCEPT !.items = n, !.calls = s].calls = s
                   /\ [y EXCEPT !.items = n, !.calls = s].turn = y.turn
                   /\ [y EXCEPT !.items = n, !.calls = s].dying = y.dying
        BY DEF TaskRecord
      <3> DEFINE n == r.items + 1
      <3>2. n \in Nat /\ x = [r EXCEPT !.items = n, !.calls = more]
        BY <1>0
      <3>3. r \in TaskRecord /\ more \in Seq(Nat)
        BY <1>0, <2>0
      <3> HIDE DEF n, x, r
      <3> QED
        BY <3>1, <3>2, <3>3, ZenonT(30)
    <2> HIDE DEF x
    <2>6. /\ Stored' /\ Rests' /\ (Running' <=> Running)
          /\ Running => history' = Append(history, Row("tool_call", c, r.turn))
      <3>1. "tool_call" \in PayloadType \ {"user_prompt"} /\ c <= spent'.calls
        BY <2>0, <2>3 DEF PayloadType
      <3> QED
        BY <1>0, <1>1, <2>0, <2>1, <2>2, <2>3, <3>1, ItemStored
    <2>7. Served'
      BY <1>0, <2>1, <2>4, <2>5, <2>6, ServedMove DEF Busy, WithCalls
    <2> QED
      BY <2>6, <2>7
  <1>10. /\ AfterStream(t) \in Phase \ {"idle", "prepare"} /\ AfterStream(t) \in {"sendCalls", "sendDone"}
         /\ AfterStream(t) = "sendCalls" <=> r.calls # <<>>
    BY DEF AfterStream, Phase
  <1>11. Running /\ r.phase \notin {"idle", "prepare", "sendDone"} /\ r.calls = <<>> => CallsAnswered(history)
    BY <1>0, <1>1, ServesNone
  <1>12. ASSUME r.phase = "stream", To(t, AfterStream(t)), UNCHANGED sessionVars, UNCHANGED <<turnQ, turnMap, cancel, remove>>,
                spent'.calls = spent.calls
         PROVE  Goal
    <2>1. Served'
      BY <1>1, <1>2, <1>3, <1>10, <1>11, <1>12 DEF Busy
    <2> QED
      BY <1>4, <1>12, <2>1
  <1>13. CASE StreamDone(t)
    <2>1. /\ UNCHANGED <<turnQ, turnMap, cancel, remove, spent>> /\ r.phase = "stream" /\ To(t, AfterStream(t))
          /\ IF r.calls = <<>> THEN AddDone ELSE UNCHANGED sessionVars
      BY <1>13 DEF StreamDone, turnVars, clientVars
    <2>2. CASE r.calls # <<>>
      BY <1>12, <2>1, <2>2
    <2>3. CASE r.calls = <<>>
      <3>1. AddDone /\ UNCHANGED history /\ ~Running' /\ (~session'.present => ~session.present)
        BY <1>0, <2>1, <2>3, RunningFacts DEF AddDone, SessionRecord
      <3>2. CallsAnswered(history)
        BY <1>0, <1>11, <2>1, <2>3 DEF Rests
      <3> QED
        BY <1>0, <2>1, <3>1, <3>2, RestingHistory DEF Stored, Rests
    <2> QED
      BY <2>2, <2>3
  <1>14. CASE StreamError(t)
    BY <1>14, RepairRests DEF StreamError
  <1>15. CASE StreamStops(t)
    <2>1. spent'.calls = spent.calls
      BY <1>0, <1>15 DEF StreamStops, SpendEvent, Spend, Types, SpentTypes
    <2> QED
      BY <1>12, <1>15, <2>1 DEF StreamStops, turnVars, clientVars
  <1>16. CASE RunTools(t)
    <2>1. UNCHANGED <<turnQ, turnMap, cancel, remove, spent>> /\ UNCHANGED sessionVars /\ r.phase = "tools" /\ To(t, "results")
      BY <1>16 DEF RunTools, turnVars, clientVars
    <2>2. Served'
      BY <1>0, <1>1, <1>2, <1>3, <2>1 DEF Busy, Phase, WithCalls
    <2> QED
      BY <1>4, <2>1, <2>2
  <1>17. CASE AddResult(t)
    <2> DEFINE rest == Tail(r.calls)
               c == Head(r.calls)
               phase == IF rest = <<>> THEN "request" ELSE r.phase
               x == [r EXCEPT !.calls = rest, !.phase = phase]
    <2>0. r.phase = "results" /\ r.calls # <<>>
      BY <1>0, <1>17 DEF AddResult, WithCalls
    <2>1. /\ Goes(t, x) /\ AddItem("tool_result", c, r.turn) /\ UNCHANGED <<turnQ, turnMap, cancel, remove, spent>>
      BY <1>17 DEF AddResult, turnVars, clientVars
    <2>2. rest \in Seq(Nat) /\ c \in Nat /\ In(c, r.calls)
      BY <1>0, <2>0 DEF In
    <2>3. phase \in {"request", "results"} /\ (phase = "results" => rest # <<>>)
      BY <2>0
    <2>4. Running => Serves(Append(history, Row("tool_result", c, r.turn)), r.turn, rest)
      BY <1>0, <1>1, <2>0, ServesResult
    <2> HIDE DEF rest, phase, c
    <2>5. x \in TaskRecord /\ x.phase = phase /\ x.calls = rest /\ x.dying = r.dying /\ x.turn = r.turn
      BY <1>0, <2>2, <2>3 DEF TaskRecord, Phase
    <2> HIDE DEF x
    <2>6. /\ Stored' /\ Rests' /\ (Running' <=> Running)
          /\ Running => history' = Append(history, Row("tool_result", c, r.turn))
      <3>1. "tool_result" \in PayloadType \ {"user_prompt"} /\ spent'.calls \in Nat /\ spent.calls <= spent'.calls
        BY <1>0, <2>1 DEF PayloadType
      <3>2. Running => Serves(history, r.turn, r.calls)
        BY <1>1, <2>0
      <3> QED
        BY <1>0, <2>1, <2>2, <3>1, <3>2, ItemStored
    <2>7. Served'
      BY <1>0, <2>0, <2>1, <2>3, <2>4, <2>5, <2>6, ServedMove DEF Busy, WithCalls
    <2> QED
      BY <2>6, <2>7
  <1>18. CASE Reap(t) \/ Send(t)
    <2>1. /\ tasks' = [tasks EXCEPT ![t] = Idle] /\ Busy(t) /\ UNCHANGED <<turnMap, cancel, remove, spent>> /\ UNCHANGED sessionVars
      BY <1>0, <1>18 DEF Reap, Send, Busy, turnVars, clientVars
    <2>2. \A u \in Slots : ~Writing(u)'
      <3>1. \A u \in Slots : u # t => tasks[u].phase = "idle"
        BY <1>0, <2>1 DEF Control, Workers, Busy
      <3> QED
        BY <2>1, <3>1, <1>0 DEF TaskTypes, Idle, Writing
    <2>3. ~InQueue("ToolCall") /\ \A i \in 1..Len(turnQ) : ~At(i, "ToolCall")
      BY <1>0, <2>1 DEF Control, Workers, InQueue, At
    <2>4. CASE Reap(t) \/ r.dying
      <3>1. Running' => Doomed'
        BY <1>0, <1>3, <2>1, <2>4 DEF Reap, WorkInv, DyingIsDoomed, Doomed
      <3>2. turnMap'.state # "Running"
        BY <1>0, <2>1, <2>4 DEF Reap, Control, Workers
      <3>3. Served'
        BY <2>2, <3>1, <3>2 DEF Served
      <3> QED
        BY <1>4, <2>1, <3>3
    <2>5. CASE ~r.dying /\ Send(t)
      <3> DEFINE m == IF r.phase = "sendCalls" THEN Msg("ToolCall", r.turn, r.step + 1, r.calls) ELSE Note("Done")
                 n == Len(turnQ)
      <3>1. /\ m \in Message /\ turnQ' = Append(turnQ, m) /\ r.phase \in {"sendCalls", "sendDone"}
            /\ m.type = "ToolCall" => r.phase = "sendCalls" /\ m.turn = r.turn /\ m.calls = r.calls
            /\ r.phase = "sendCalls" => m.type = "ToolCall"
        BY <1>0, <2>5 DEF Send, Msg, Note, Message
      <3> HIDE DEF m
      <3>2. /\ n \in Nat /\ Len(turnQ') = n + 1 /\ turnQ'[n + 1] = m
            /\ \A i \in 1..n : turnQ'[i] = turnQ[i]
        BY <1>0, <3>1, QueueFacts
      <3>3. 1..(n + 1) = 1..n \cup {n + 1}
        BY <3>2
      <3>4. Running => \A i \in 1..Len(turnQ') : At(i, "ToolCall")' => Serves(history, turnQ'[i].turn, turnQ'[i].calls)
        BY <1>1, <2>3, <3>1, <3>2, <3>3 DEF At
      <3>5. r.phase = "sendCalls" => InQueue("ToolCall")' /\ turnMap.state = "Running"
        <4>1. r.phase = "sendCalls" => InQueue("ToolCall")'
          BY <1>0, <3>1, InQueueFacts
        <4> QED
          BY <1>0, <2>1, <2>5, <4>1 DEF Control, Workers, Live, Busy
      <3>6. r.phase = "sendDone" /\ Running => Doomed \/ CallsAnswered(history)
        <4>1. \A u \in Slots : u # t => ~Busy(u)
          BY <1>0, <2>1 DEF Control, Workers
        <4> QED
          BY <1>0, <2>3, <4>1 DEF Served, Writing, Busy
      <3>7. Served'
        BY <1>3, <2>1, <2>2, <3>1, <3>4, <3>5, <3>6 DEF Served, Doomed
      <3> QED
        BY <1>4, <2>1, <3>7
    <2> QED
      BY <1>0, <1>18, <2>4, <2>5
  <1> QED
    BY <1>5, <1>6, <1>7, <1>8, <1>9, <1>13, <1>14, <1>15, <1>16, <1>17, <1>18 DEF TaskStep

(* Each step of the turn manager keeps the history.                        *)
LEMMA HistoryManager ==
  ASSUME HistoryInv, TurnManager
  PROVE  Stored' /\ Rests' /\ Served'
  <1>0. /\ WorkInv /\ Control /\ QueueTypes /\ Mailbox /\ Served /\ tasks \in [Slots -> TaskRecord] /\ session \in SessionRecord
    BY DEF HistoryInv, WorkInv, Control, Types, TaskTypes, SessionTypes
  <1>1. UNCHANGED <<session, history, rx, spent>> /\ (Running' <=> Running)
    BY DEF TurnManager, HandleStart, HandleToolCall, HandleCancel, HandleDrop, HandleDone, sessionVars, Running
  <1>2. Stored' /\ Rests'
    BY <1>1, UntouchedHistory
  <1>3. \A i : ~InQueue("ToolCall")' => (i \in 1..Len(turnQ') => ~At(i, "ToolCall")')
    BY DEF InQueue, At
  <1>4. (\A u \in Slots : ~Busy(u)) => \A u \in Slots : ~Writing(u)
    BY DEF Busy, Writing
  <1>5. CASE HandleStart
    <2>1. /\ ~InQueue("ToolCall")' /\ UNCHANGED <<cancel, remove>> /\ turnMap.state # "Running"
          /\ (\A u \in Slots : ~Busy(u)) /\ cancel = "idle" /\ remove = "idle"
      BY <1>0, <1>5, TakenFacts DEF HandleStart, Control, Requests, Starting, clientVars
    <2>2. Running => CallsAnswered(history)
      BY <1>0, <1>4, <2>1 DEF Served, Doomed
    <2>3. \A u \in Slots : ~Writing(u)'
      <3>1. PICK t \in Slots : Spawn(t, Task("prepare", Head(turnQ).turn, 0, <<>>))
        BY <1>5 DEF HandleStart
      <3> QED
        BY <1>0, <2>1, <3>1 DEF Spawn, Task, Idle, Writing, Busy
    <2> QED
      BY <1>1, <1>2, <1>3, <2>1, <2>2, <2>3 DEF Served
  <1>6. CASE HandleToolCall
    <2>1. (\A u \in Slots : ~Busy(u)) /\ UNCHANGED <<cancel, remove>> /\ ~InQueue("ToolCall")'
      BY <1>0, <1>6, TakenFacts DEF HandleToolCall, Control, Workers, clientVars
    <2>2. CASE turnMap.state # "Running"
      <3>1. Running => Doomed \/ CallsAnswered(history)
        BY <1>0, <1>4, <2>1, <2>2 DEF Served
      <3>2. UNCHANGED tasks
        BY <1>6, <2>2 DEF HandleToolCall
      <3>3. \A u \in Slots : ~Writing(u)'
        BY <1>4, <2>1, <3>2 DEF Writing
      <3> QED
        BY <1>1, <1>2, <1>3, <2>1, <3>1, <3>3 DEF Served, Doomed
    <2>3. CASE turnMap.state = "Running"
      <3> DEFINE x == Task("tools", Head(turnQ).turn, Head(turnQ).step, Head(turnQ).calls)
      <3>1. PICK t \in Slots : Spawn(t, x)
        BY <1>6, <2>3 DEF HandleToolCall
      <3>2. x.phase = "tools" /\ x.turn = Head(turnQ).turn /\ x.calls = Head(turnQ).calls
        BY DEF Task, Idle
      <3> HIDE DEF x
      <3>3. 1 \in 1..Len(turnQ) /\ Head(turnQ) = turnQ[1] /\ At(1, "ToolCall")
        BY <1>0, <1>6, QueueFacts DEF HandleToolCall, Receives, At
      <3>4. Running => Serves(history, x.turn, x.calls)
        BY <1>0, <2>3, <3>2, <3>3 DEF Served
      <3>5. tasks'[t] = x /\ Writing(t)' /\ \A u \in Slots : u # t => ~Writing(u)'
        BY <1>0, <2>1, <3>1, <3>2 DEF Spawn, Writing, Busy
      <3> QED
        BY <1>1, <1>2, <1>3, <2>1, <3>4, <3>5 DEF Served
    <2> QED
      BY <2>2, <2>3
  <1>7. ASSUME Abort, turnMap'.state # "Running", Doomed' PROVE Served'
    <2>1. \A t \in Slots : tasks'[t].phase = tasks[t].phase /\ tasks'[t].calls = tasks[t].calls /\ tasks'[t].turn = tasks[t].turn
      BY <1>0, <1>7, AbortFacts
    <2> QED
      BY <1>0, <1>1, <1>7, <2>1 DEF Served, Writing
  <1>8. CASE HandleCancel
    <2>1. cancel = "sent" /\ UNCHANGED remove /\ Abort
      BY <1>0, <1>8, TakenFacts DEF HandleCancel, Control, Requests
    <2>2. CASE turnMap.state = "Running"
      BY <1>2, <1>7, <1>8, <2>1, <2>2 DEF HandleCancel, Doomed, NoTurn
    <2>3. CASE turnMap.state # "Running"
      <3>1. UNCHANGED <<tasks, turnMap>>
        BY <1>8, <2>3 DEF HandleCancel, Abort
      <3>2. Doomed => Doomed'
        BY <2>1 DEF Doomed
      <3> QED
        BY <1>0, <1>1, <1>2, <2>3, <3>1, <3>2 DEF Served, Writing
    <2> QED
      BY <2>2, <2>3
  <1>9. CASE HandleDrop
    BY <1>2, <1>7, <1>9 DEF HandleDrop, Doomed, NoTurn
  <1>10. CASE HandleDone
    <2>1. (\A u \in Slots : ~Busy(u)) /\ UNCHANGED <<cancel, remove, tasks>> /\ ~InQueue("ToolCall")' /\ turnMap'.state # "Running"
      BY <1>0, <1>10, TakenFacts DEF HandleDone, Control, Workers, clientVars, NoTurn
    <2>2. ~InQueue("ToolCall")
      <3>1. 1 \in 1..Len(turnQ) /\ turnQ[1].type = "Done"
        BY <1>0, <1>10, QueueFacts DEF HandleDone, Receives
      <3> QED
        BY <1>0, <3>1 DEF Mailbox, Ends, InQueue
    <2>3. Running => Doomed \/ CallsAnswered(history)
      BY <1>0, <1>4, <2>1, <2>2 DEF Served
    <2>4. \A u \in Slots : ~Writing(u)'
      BY <1>4, <2>1 DEF Writing
    <2> QED
      BY <1>1, <1>2, <1>3, <2>1, <2>3, <2>4 DEF Served, Doomed
  <1> QED
    BY <1>5, <1>6, <1>8, <1>9, <1>10 DEF TurnManager

(* A message of the front end is not a tool step.                          *)
LEMMA ServedKept ==
  ASSUME HistoryInv, UNCHANGED <<history, tasks, turnMap>>, Running' <=> Running, Doomed => Doomed',
         \/ UNCHANGED turnQ
         \/ \E m \in Message : m.type # "ToolCall" /\ turnQ' = Append(turnQ, m)
  PROVE  Served'
  <1>0. Served /\ QueueTypes
    BY DEF HistoryInv, WorkInv, Control, Types
  <1>1. /\ InQueue("ToolCall") => InQueue("ToolCall")'
        /\ \A i \in 1..Len(turnQ') : At(i, "ToolCall")' => i \in 1..Len(turnQ) /\ At(i, "ToolCall") /\ turnQ'[i] = turnQ[i]
    <2>1. CASE UNCHANGED turnQ
      BY <2>1 DEF InQueue, At
    <2>2. ASSUME NEW m \in Message, m.type # "ToolCall", turnQ' = Append(turnQ, m)
          PROVE  /\ InQueue("ToolCall") => InQueue("ToolCall")'
                 /\ \A i \in 1..Len(turnQ') : At(i, "ToolCall")' => i \in 1..Len(turnQ) /\ At(i, "ToolCall") /\ turnQ'[i] = turnQ[i]
      <3> DEFINE n == Len(turnQ)
      <3>1. /\ n \in Nat /\ Len(turnQ') = n + 1 /\ turnQ'[n + 1] = m
            /\ \A i \in 1..n : turnQ'[i] = turnQ[i]
        BY <1>0, <2>2, QueueFacts
      <3>2. 1..(n + 1) = 1..n \cup {n + 1}
        BY <3>1
      <3>3. \A i \in 1..Len(turnQ') : At(i, "ToolCall")' => i \in 1..n /\ At(i, "ToolCall") /\ turnQ'[i] = turnQ[i]
        BY <2>2, <3>1, <3>2 DEF At
      <3> QED
        BY <1>0, <2>2, <3>3, InQueueFacts
    <2> QED
      BY <2>1, <2>2
  <1> QED
    BY <1>0, <1>1 DEF Served, Writing

(* Each request of the front end, and a restart, keep the history.         *)
LEMMA HistoryFrontEnd ==
  ASSUME HistoryInv, FrontEnd \/ Restart
  PROVE  Stored' /\ Rests' /\ Served'
  <1> DEFINE Goal == Stored' /\ Rests' /\ Served'
  <1>0. /\ session \in SessionRecord /\ SpentTypes /\ spent.turns \in Nat /\ <<>> \in Seq(Nat) /\ Rests /\ Stored /\ Served
    BY DEF HistoryInv, WorkInv, Control, Types, SessionTypes, SpentTypes
  <1>1. ASSUME UNCHANGED <<history, tasks, turnMap>>, Running' <=> Running, ~session'.present => ~session.present,
               spent'.calls = spent.calls, Doomed => Doomed',
               \/ UNCHANGED turnQ
               \/ \E m \in Message : m.type # "ToolCall" /\ turnQ' = Append(turnQ, m)
        PROVE  Goal
    BY <1>1, ServedKept, UntouchedHistory
  <1>2. \A b \in {"turns", "cancels", "restores", "removes", "crashes"} : \A l : Spend(b, l) \/ SpendEvent(b, l) => spent'.calls = spent.calls
    BY <1>0 DEF Spend, SpendEvent, SpentTypes
  <1>3. \A gate : Subscribe(gate) => UNCHANGED history /\ (Running' <=> Running) /\ session'.present = session.present
    BY <1>0 DEF Subscribe, Running, SessionRecord
  <1>4. UNCHANGED sessionVars => UNCHANGED history /\ (Running' <=> Running) /\ session'.present = session.present
    BY DEF sessionVars, Running
  <1>5. CASE ChatEnsure
    <2>1. (Running' <=> Running) /\ session'.present /\ UNCHANGED history
      BY <1>5 DEF ChatEnsure, Running, NewSession
    <2> QED
      BY <1>1, <1>2, <1>5, <2>1 DEF ChatEnsure, turnVars, Doomed
  <1>6. CASE ChatSubscribe
    <2>1. UNCHANGED history /\ (Running' <=> Running) /\ session'.present = session.present
      BY <1>3, <1>4, <1>6 DEF ChatSubscribe
    <2> QED
      BY <1>1, <1>6, <2>1 DEF ChatSubscribe, turnVars, Doomed
  <1>7. CASE ChatStart
    <2>1. Msg("Start", spent.turns, 0, <<>>) \in Message /\ Msg("Start", spent.turns, 0, <<>>).type # "ToolCall"
      BY <1>0 DEF Msg, Message
    <2> QED
      BY <1>1, <1>4, <1>7, <2>1 DEF ChatStart, Doomed
  <1>8. CASE ChatReturn
    <2>1. CASE RemoveSession("Error")
      <3>1. history' = <<>> /\ ~Running'
        BY <1>0, <2>1, RunningFacts DEF RemoveSession
      <3> QED
        BY <3>1, EmptyRests
    <2>2. CASE UNCHANGED <<session, history>>
      <3>1. (Running' <=> Running) /\ session'.present = session.present
        BY <2>2 DEF Running
      <3> QED
        BY <1>1, <1>8, <2>2, <3>1 DEF ChatReturn, turnVars, Doomed
    <2> QED
      BY <1>8, <2>1, <2>2 DEF ChatReturn, sessionVars
  <1>9. \A type \in {"Cancel", "Drop"} : Note(type) \in Message /\ Note(type).type # "ToolCall"
    BY <1>0 DEF Note, Msg, Message
  <1>10. CASE CancelSend
    <2>1. spent'.calls = spent.calls
      BY <1>2, <1>10 DEF CancelSend
    <2> QED
      BY <1>1, <1>4, <1>9, <1>10, <2>1 DEF CancelSend, Doomed
  <1>11. CASE RemoveSend
    <2>1. spent'.calls = spent.calls
      BY <1>2, <1>11 DEF RemoveSend
    <2> QED
      BY <1>1, <1>4, <1>9, <1>11, <2>1 DEF RemoveSend, Doomed
  <1>12. CASE CancelReturn
    BY <1>12, RepairRests DEF CancelReturn
  <1>13. CASE RemoveReturn
    <2>1. history' = <<>> /\ ~Running'
      BY <1>0, <1>13, RunningFacts DEF RemoveReturn, RemoveSession
    <2> QED
      BY <2>1, EmptyRests
  <1>14. CASE RestoreSubscribe
    <2>1. UNCHANGED history /\ (Running' <=> Running) /\ session'.present = session.present /\ spent'.calls = spent.calls
      BY <1>2, <1>3, <1>14 DEF RestoreSubscribe
    <2> QED
      BY <1>1, <1>14, <2>1 DEF RestoreSubscribe, turnVars, Doomed
  <1>15. CASE RestoreReturn
    <2>1. UNCHANGED history /\ (Running' <=> Running) /\ session'.present = session.present
      BY <1>0, <1>15 DEF RestoreReturn, Running, SessionRecord
    <2> QED
      BY <1>1, <1>15, <2>1 DEF RestoreReturn, turnVars, Doomed
  <1>16. CASE Restart
    <2>1. ~Running' /\ (~session'.present => history' = <<>>) /\ history' = Recover(history)
      BY <1>16 DEF Restart, Running, NoSession, NewSession
    <2>2. spent'.calls = spent.calls
      BY <1>2, <1>16 DEF Restart
    <2> QED
      BY <2>1, <2>2, RepairedHistory, RestingHistory
  <1> QED
    BY <1>5, <1>6, <1>7, <1>8, <1>10, <1>11, <1>12, <1>13, <1>14, <1>15, <1>16 DEF FrontEnd

(* Every step keeps the history.                                           *)
LEMMA HistoryStep ==
  ASSUME Patient, HistoryInv, [Next]_vars
  PROVE  HistoryInv'
  <1>0. WorkInv'
    BY WorkStep DEF HistoryInv
  <1>1. CASE UNCHANGED vars
    <2>1. Stored' /\ Rests'
      BY <1>1, UntouchedHistory DEF vars, Running
    <2>2. Served'
      BY <1>1, ServedKept DEF vars, Running, Doomed
    <2> QED
      BY <1>0, <2>1, <2>2 DEF HistoryInv
  <1>2. CASE Next
    BY <1>0, <1>2, HistoryTask, HistoryManager, HistoryFrontEnd DEF Next, HistoryInv
  <1> QED
    BY <1>1, <1>2

(* There is no history at first.                                           *)
LEMMA HistoryInit == Init => HistoryInv
  <1> SUFFICES ASSUME Init PROVE HistoryInv
    OBVIOUS
  <1>1. history = <<>> /\ ~Running
    BY DEF Init, Running, NoSession
  <1>2. Stored /\ Rests /\ Served
    <2>1. <<>> \in Seq(Rows) /\ Len(<<>>) = 0 /\ 1..0 = {}
      OBVIOUS
    <2>2. CallsAnswered(<<>>)
      BY <2>1, CallsAnsweredAs
    <2> QED
      BY <1>1, <2>1, <2>2 DEF Stored, Rests, Served, WellFormed, Opened, OwnResults, OpenInLast, NoMix
  <1> QED
    BY <1>2, WorkInit DEF HistoryInv

(* For a patient user, what is stored can be sent: at rest, and whenever a *)
(* step builds its request, every call has its result, however the turns   *)
(* before ended and wherever the program stopped.                          *)
THEOREM HistoryStaysValidAlways ==
  ASSUME Patient
  PROVE  Spec => []HistoryStaysValid
  <1>1. HistoryInv /\ [Next]_vars => HistoryInv'
    BY HistoryStep
  <1>2. HistoryInv => HistoryStaysValid
    <2> SUFFICES ASSUME HistoryInv PROVE HistoryStaysValid
      OBVIOUS
    <2>1. RestIsValid
      BY DEF HistoryInv, Rests, RestIsValid
    <2>2. ASSUME NEW t \in Slots, Live(t), tasks[t].phase = "request", Running
          PROVE  CallsAnswered(history)
      <3>1. tasks[t].calls = <<>> /\ history \in Seq(Rows)
        BY <2>2 DEF HistoryInv, WorkInv, Control, Types, SessionTypes, Workers
      <3>2. Serves(history, tasks[t].turn, <<>>)
        BY <2>2, <3>1 DEF HistoryInv, Served, Writing
      <3> QED
        BY <3>1, <3>2, ServesNone
    <2> QED
      BY <2>1, <2>2 DEF HistoryStaysValid, RequestsAreComplete
  <1> QED
    BY <1>1, <1>2, HistoryInit, PTL DEF Spec

(* For a patient user, nothing of an earlier turn is stored late: between  *)
(* two prompts there are only rows of the turn the first of them opened.   *)
THEOREM TurnsDoNotMixAlways ==
  ASSUME Patient
  PROVE  Spec => []TurnsDoNotMix
  <1>1. HistoryInv /\ [Next]_vars => HistoryInv'
    BY HistoryStep
  <1>2. HistoryInv => TurnsDoNotMix
    <2> SUFFICES ASSUME HistoryInv, NEW i \in 2..Len(history), history[i].type # "user_prompt"
                 PROVE  history[i].turn = history[i - 1].turn
      BY DEF TurnsDoNotMix
    <2> DEFINE j == i - 1
    <2>1. Len(history) \in Nat /\ j \in 1..Len(history) /\ i \in 1..Len(history) /\ j <= i /\ (j + 1)..i = {i}
      BY DEF HistoryInv, WorkInv, Control, Types, SessionTypes
    <2> HIDE DEF j
    <2>2. NoPromptIn(history, j, i)
      BY <2>1 DEF NoPromptIn, IsPrompt
    <2>3. NoMix(history)
      BY DEF HistoryInv, Stored
    <2>4. history[j].turn = history[i].turn
      BY <2>1, <2>2, <2>3 DEF NoMix
    <2> QED
      BY <2>4 DEF j
  <1> QED
    BY <1>1, <1>2, HistoryInit, PTL DEF Spec
=============================================================================
