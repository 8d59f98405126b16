--------------------------- MODULE ProviderStream ---------------------------
(***************************************************************************)
(* A conversation with the services behind the provider plugins.  A chat   *)
(* reads the frames of one response and turns them into chat events;       *)
(* output items become rows of the session, and the rows become the next   *)
(* request, to the same backend or another.                                *)
(*                                                                         *)
(* The decoder keeps `block`, the placeholder of the block being streamed  *)
(* (Anthropic, Bedrock), and `seen`, reasoning_summary_delta_seen          *)
(* (OpenAI).  The service is external: it sends well-formed responses,     *)
(* stops anywhere, and may send a frame out of place.  `wire` is the block *)
(* it is sending as it will stand when it is complete.                     *)
(***************************************************************************)
EXTENDS ConversationCodec

CONSTANTS
    StreamBackends,  \* backends the session switches between
    MaxPieces,       \* bound: pieces the services stream
    MaxStreamRows    \* bound: rows of the session

VARIABLES
    streaming, \* the backend that is streaming, or "idle", or "stopped" after an error
    block,     \* placeholder: <<>> or <<the block>>
    seen,      \* reasoning_summary_delta_seen
    wire,      \* the service's block: <<>> or <<the block>>
    pieces,    \* pieces streamed so far; each is a number of its own
    sent,      \* events of the chat
    rows       \* the session: [item, backend, wire], wire being history

streamVars == <<streaming, block, seen, wire, pieces, sent, rows>>

Chatting == streaming \notin {"off", "idle", "stopped"}

(* chat_response::Payload.                                                 *)
TextDelta(text) == [event |-> "TextDelta", text |-> text]
ReasoningDelta(text) == [event |-> "ReasoningDelta", text |-> text]
OutputItem(item) == [event |-> "OutputItem", item |-> item]
DoneEvent == [event |-> "Done"]
ErrorEvent == [event |-> "Error"]

(* What the decoder does with a frame: the events it sends, and the state  *)
(* it goes on with.  Done and Error end the loop.                          *)
Go(b, s, events) == [block |-> b, seen |-> s, events |-> events]
Skip == Go(block, seen, <<>>)
Fail == Go(block, seen, <<ErrorEvent>>)

-----------------------------------------------------------------------------
(* OpenAI: response_event_stream.                                          *)

ResponsesText(f) == Go(block, seen, <<TextDelta(f.text)>>)

\* Fault: the text at the end of a part is sent in any case.
ResponsesReasoningTwice(f) ==
    IF f.event = "reasoning_summary_part.added" THEN Go(block, FALSE, <<ReasoningDelta(<<>>)>>)
    ELSE Go(block, TRUE, <<ReasoningDelta(f.text)>>)

(* A part is announced by an empty delta.  Its whole text comes again at   *)
(* its end, which counts only if there was no delta.                       *)
ResponsesReasoning(f) ==
    CASE f.event = "reasoning_summary_part.added" -> Go(block, FALSE, <<ReasoningDelta(<<>>)>>)
      [] f.event = "reasoning_summary_text.delta" -> Go(block, TRUE, <<ReasoningDelta(f.text)>>)
      [] f.event = "reasoning_summary_text.done" ->
            IF seen THEN Skip ELSE Go(block, TRUE, <<ReasoningDelta(f.text)>>)

ResponsesItem(f) == Go(block, seen, <<OutputItem(CodexDecodeOutputItem(f.item))>>)

OnResponses(f) ==
    CASE f.event = "output_text.delta" -> ResponsesText(f)
      [] f.event \in {"reasoning_summary_part.added", "reasoning_summary_text.delta",
                      "reasoning_summary_text.done"} -> ResponsesReasoning(f)
      [] f.event = "output_item.done" -> ResponsesItem(f)
      [] f.event = "end" -> Go(block, seen, <<DoneEvent>>)
      [] f.event = "unknown" -> Skip
      [] f.event = "fault" -> Fail

-----------------------------------------------------------------------------
(* Anthropic: response_event_stream.  A supported block is kept as the     *)
(* object under construction; an unsupported one as [type |-> "ignored"].  *)

Ignored == [type |-> "ignored"]

ParseContentStart(content) ==
    IF content.type \notin SupportedResponseTypes THEN Ignored
    ELSE IF content.type = "text" THEN content @@ [citations |-> <<>>] ELSE content

AppendDeltaField(acc, field, text) == [acc EXCEPT ![field] = @ \o text]

\* Fault: each piece replaces the one before.
MergePartialJsonReplacing(acc, text) == [acc EXCEPT !.input = [string |-> TRUE, text |-> text]]

(* The empty object the block starts with gives way to the text.           *)
MergePartialJson(acc, text) ==
    [acc EXCEPT !.input = [string |-> TRUE, text |-> IF @.string THEN @.text \o text ELSE text]]

(* The field a delta goes to.                                              *)
Target(delta) == CASE delta = "text_delta" -> "text"
                   [] delta = "thinking_delta" -> "thinking"
                   [] delta = "signature_delta" -> "signature"
                   [] delta = "citations_delta" -> "citations"
                   [] delta = "input_json_delta" -> "input"

ParseContentDelta(f) ==
    IF block = <<>> THEN Fail
    ELSE IF block[1] = Ignored THEN Skip
    ELSE IF f.delta = "unknown" THEN Skip
    ELSE IF Target(f.delta) \notin DOMAIN block[1] THEN Fail
    ELSE IF f.delta = "input_json_delta" THEN Go(<<MergePartialJson(block[1], f.text)>>, seen, <<>>)
    ELSE Go(<<AppendDeltaField(block[1], Target(f.delta), f.text)>>, seen,
            CASE f.delta = "text_delta" -> <<TextDelta(f.text)>>
              [] f.delta = "thinking_delta" -> <<ReasoningDelta(f.text)>>
              [] OTHER -> <<>>)

FinalizeBlockContent ==
    IF block = <<>> THEN Fail
    ELSE IF block[1] = Ignored THEN Go(<<>>, seen, <<>>)
    ELSE Go(<<>>, seen, <<OutputItem(ClaudeDecodeOutputItem(block[1]))>>)

OnMessages(f) ==
    CASE f.event = "start" -> IF block # <<>> THEN Fail ELSE Go(<<ParseContentStart(f.block)>>, seen, <<>>)
      [] f.event = "delta" -> ParseContentDelta(f)
      [] f.event = "stop" -> FinalizeBlockContent
      [] f.event = "end" -> Go(block, seen, <<DoneEvent>>)
      [] f.event = "unknown" -> Skip
      [] f.event = "fault" -> Fail

-----------------------------------------------------------------------------
(* Bedrock: the loop of chat and on_stream_event.  Only the blocks of      *)
(* tools are announced; the others begin with their first delta.           *)

ParseBlockStart(f) ==
    IF block # <<>> THEN Fail
    ELSE IF f.block.type # "tool_use" THEN Skip
    ELSE Go(<<[type |-> "tool_use", id |-> f.block.id, name |-> f.block.name, input |-> <<>>]>>, seen, <<>>)

NewReasoning == [type |-> "reasoning", text |-> <<>>, signature |-> <<>>, redacted |-> <<>>]

ParseBlockDelta(f) ==
    LET OrNew(new) == IF block = <<>> THEN new ELSE block[1]
        Add(b, field) == <<[b EXCEPT ![field] = @ \o f.text]>>
    IN  CASE f.delta = "text_delta" ->
               LET b == OrNew([type |-> "text", text |-> <<>>])
               IN  IF b.type # "text" THEN Fail ELSE Go(Add(b, "text"), seen, <<TextDelta(f.text)>>)
          [] f.delta \in {"thinking_delta", "signature_delta", "redacted_delta"} ->
               LET b == OrNew(NewReasoning)
               IN  IF b.type # "reasoning" THEN Fail
                   ELSE IF f.delta = "thinking_delta" THEN Go(Add(b, "text"), seen, <<ReasoningDelta(f.text)>>)
                   ELSE Go(Add(b, IF f.delta = "signature_delta" THEN "signature" ELSE "redacted"), seen, <<>>)
          [] f.delta = "input_json_delta" ->
               IF block = <<>> \/ block[1].type # "tool_use" THEN Fail ELSE Go(Add(block[1], "input"), seen, <<>>)
          [] OTHER -> Skip

FinalizeBlock(b) ==
    LET Part(text) == <<[content |-> text, meta |-> NoFields]>>
    IN  CASE b.type = "text" -> Message(Part(b.text), NoFields)
          [] b.type = "reasoning" /\ b.redacted # <<>> -> Unknown([redacted |-> b.redacted])
          [] b.type = "reasoning" /\ b.redacted = <<>> ->
                Reasoning(Part(b.text), IF b.signature = <<>> THEN NoFields ELSE [signature |-> b.signature])
          [] b.type = "tool_use" -> ToolCall(b.id, b.name, b.input, NoFields)

OnStreamEvent(f) ==
    CASE f.event = "start" -> ParseBlockStart(f)
      [] f.event = "delta" -> ParseBlockDelta(f)
      [] f.event = "stop" -> Go(<<>>, seen, [i \in DOMAIN block |-> OutputItem(FinalizeBlock(block[i]))])
      [] f.event = "end" -> Go(block, seen, <<DoneEvent>>)
      [] f.event = "unknown" -> Skip
      [] f.event = "fault" -> Fail
-----------------------------------------------------------------------------
(* The session.                                                            *)

StreamRow(item, w) == [item |-> item, backend |-> streaming, wire |-> w]

CallsOf(rs) == {rs[i].item.call : i \in {j \in DOMAIN rs : rs[j].item.item = "ToolCall"}}
ResultsOf(rs) == {rs[i].item.call : i \in {j \in DOMAIN rs : rs[j].item.item = "ToolResult"}}
Unresolved == CallsOf(rows) \ ResultsOf(rows)

StreamRest(where) ==
    /\ streaming = where /\ block = <<>> /\ seen = FALSE /\ wire = <<>> /\ pieces = 0
    /\ sent = <<>> /\ rows = <<>>

StreamInit == StreamRest("idle")

(* A request is sent: the decoder of the response starts afresh.           *)
Chat(b) ==
    /\ streaming = "idle" /\ rows # <<>> /\ Unresolved = {} /\ Len(rows) < MaxStreamRows
    /\ Last(rows).item.item \in {"UserPrompt", "ToolResult"}
    /\ streaming' = b /\ block' = <<>> /\ seen' = FALSE /\ sent' = <<>> /\ wire' = <<>>
    /\ UNCHANGED <<pieces, rows>>

SendPrompt(images) ==
    /\ streaming = "idle" /\ Unresolved = {} /\ Len(rows) < MaxStreamRows
    /\ rows # <<>> => Last(rows).item.item \notin {"UserPrompt", "ToolResult"}
    /\ rows' = Append(rows, StreamRow(UserPrompt(<<Braces>>, images), <<>>))
    /\ UNCHANGED <<streaming, block, seen, wire, pieces, sent>>

(* The results of the calls are stored in the order of the calls; the call *)
(* ids grow.                                                               *)
StoreResult ==
    /\ streaming = "idle" /\ Unresolved # {}
    /\ rows' = Append(rows, StreamRow(ToolResult(CHOOSE c \in Unresolved : \A d \in Unresolved : c <= d, <<Braces>>), <<>>))
    /\ UNCHANGED <<streaming, block, seen, wire, pieces, sent>>

\* Fault: an error is sent and the stream is read on.
ReceiveOn(f, w) ==
    LET r == CASE Provider(streaming) = "OpenAI" -> OnResponses(f)
               [] Provider(streaming) = "Anthropic" -> OnMessages(f)
               [] Provider(streaming) = "Bedrock" -> OnStreamEvent(f)
        ends == {r.events[i].event : i \in DOMAIN r.events} \cap {"Done"}
        items == SelectSeq(r.events, LAMBDA e : e.event = "OutputItem")
    IN  /\ block' = r.block /\ seen' = r.seen /\ sent' = sent \o r.events
        /\ rows' = rows \o [i \in DOMAIN items |-> StreamRow(items[i].item, w)]
        /\ streaming' = IF ends = {} THEN streaming ELSE "idle"

(* The loop: one frame is read, and the events it gives are sent.          *)
Receive(f, w) ==
    LET r == CASE Provider(streaming) = "OpenAI" -> OnResponses(f)
               [] Provider(streaming) = "Anthropic" -> OnMessages(f)
               [] Provider(streaming) = "Bedrock" -> OnStreamEvent(f)
        ends == {r.events[i].event : i \in DOMAIN r.events} \cap {"Done", "Error"}
        items == SelectSeq(r.events, LAMBDA e : e.event = "OutputItem")
    IN  /\ block' = r.block /\ seen' = r.seen /\ sent' = sent \o r.events
        /\ rows' = rows \o [i \in DOMAIN items |-> StreamRow(items[i].item, w)]
        /\ streaming' = IF ends = {} THEN streaming ELSE IF "Done" \in ends THEN "idle" ELSE "stopped"

Frame(event) == [event |-> event]
Piece == pieces + 1
Opaque == [by |-> streaming, n |-> Piece]     \* what only the service that made it understands

-----------------------------------------------------------------------------
(* The service: external.  `wire` is <<[block, part]>>, part being the     *)
(* state of a reasoning summary's last part.                               *)

Sends(f, w) == Receive(f, <<>>) /\ wire' = w
More == Chatting /\ pieces < MaxPieces /\ pieces' = Piece
Room == Chatting /\ wire = <<>> /\ Len(rows) < MaxStreamRows

ResponsesBlocks ==
    { [type |-> "message", id |-> Opaque, role |-> "assistant",
       content |-> <<[type |-> "output_text", text |-> <<>>, annotations |-> Opaque]>>],
      [type |-> "message", id |-> Opaque, role |-> "assistant",
       content |-> <<[type |-> "refusal", refusal |-> <<Piece>>]>>],
      [type |-> "reasoning", id |-> Opaque, summary |-> <<>>, encrypted_content |-> Opaque],
      [type |-> "function_call", id |-> Opaque, call_id |-> Piece, name |-> "tool", arguments |-> <<Piece>>],
      [type |-> "web_search_call", id |-> Opaque, action |-> <<Piece>>],
      [type |-> "web_search_call", id |-> Opaque],
      [type |-> "image_generation_call", id |-> Opaque, result |-> Opaque] }

MessagesBlocks ==
    { [type |-> "text", text |-> <<>>],
      [type |-> "thinking", thinking |-> <<>>, signature |-> <<>>],
      [type |-> "tool_use", id |-> Piece, name |-> "tool", input |-> Object(EmptyObject)],
      [type |-> "server_tool_use", id |-> Opaque, name |-> "web_search", input |-> Object(EmptyObject)],
      [type |-> "redacted_thinking", data |-> Opaque],
      [type |-> "web_search_tool_result", tool_use_id |-> Opaque, content |-> Opaque],
      [type |-> "mcp_tool_use", id |-> Opaque] }

ConverseBlocks ==
    { [type |-> "text", text |-> <<>>],
      [type |-> "reasoning", text |-> <<>>, signature |-> <<>>],
      [type |-> "redacted", redacted |-> <<>>],
      [type |-> "tool_use", id |-> Piece, name |-> "tool", input |-> <<>>],
      [type |-> "image"] }

(* A block begins.  Responses announces it by a frame that is skipped, and *)
(* Converse only announces tools and what the code does not know.          *)
BeginBlock ==
    /\ Room /\ More
    /\ \E b \in CASE Provider(streaming) = "OpenAI" -> ResponsesBlocks
                  [] Provider(streaming) = "Anthropic" -> MessagesBlocks
                  [] Provider(streaming) = "Bedrock" -> ConverseBlocks :
         Sends(IF \/ Provider(streaming) = "OpenAI"
                  \/ Provider(streaming) = "Bedrock" /\ b.type \notin {"tool_use", "image"}
               THEN Frame("unknown") ELSE [event |-> "start", block |-> b],
               <<[block |-> b, part |-> "closed"]>>)

Delta(delta, text) == [event |-> "delta", delta |-> delta, text |-> text]

(* The text of the block, as the service has it when `text` is added.      *)
Grown(field, text) == <<[wire[1] EXCEPT !.block[field] = @ \o text]>>

Citations(b) == IF "citations" \in DOMAIN b THEN b.citations ELSE <<>>

GrowText ==
    /\ More /\ wire # <<>>
    /\ LET b == wire[1].block IN
       \/ /\ b.type = "message" /\ "text" \in DOMAIN b.content[1]
          /\ Sends([event |-> "output_text.delta", text |-> <<Piece>>],
                   <<[wire[1] EXCEPT !.block.content[1].text = @ \o <<Piece>>]>>)
       \/ b.type = "text" /\ Sends(Delta("text_delta", <<Piece>>), Grown("text", <<Piece>>))
       \/ b.type = "thinking" /\ b.signature = <<>>
          /\ Sends(Delta("thinking_delta", <<Piece>>), Grown("thinking", <<Piece>>))
       \/ b.type = "thinking" /\ Sends(Delta("signature_delta", <<Piece>>), Grown("signature", <<Piece>>))
       \/ b.type = "reasoning" /\ Provider(streaming) = "Bedrock" /\ b.signature = <<>>
          /\ Sends(Delta("thinking_delta", <<Piece>>), Grown("text", <<Piece>>))
       \/ b.type = "reasoning" /\ Provider(streaming) = "Bedrock" /\ b.text # <<>>
          /\ Sends(Delta("signature_delta", <<Piece>>), Grown("signature", <<Piece>>))
       \/ b.type = "redacted" /\ Sends(Delta("redacted_delta", <<Piece>>), Grown("redacted", <<Piece>>))
       \/ b.type = "text" /\ Provider(streaming) = "Anthropic"
          /\ Sends(Delta("citations_delta", <<Piece>>),
                   <<[wire[1] EXCEPT !.block = [citations |-> Citations(@) \o <<Piece>>] @@ @]>>)

(* The input of a tool; a service may cut it short, or send none at all.   *)
GrowInput ==
    /\ More /\ wire # <<>> /\ wire[1].block.type \in {"tool_use", "server_tool_use"}
    /\ \E text \in {<<Piece>>, <<Broken>>, <<>>} :
         LET b == wire[1].block IN
         Sends(Delta("input_json_delta", text),
               IF Provider(streaming) = "Bedrock" THEN Grown("input", text)
               ELSE <<[wire[1] EXCEPT !.block.input =
                         [string |-> TRUE, text |-> IF @.string THEN @.text \o text ELSE text]]>>)

(* The parts of an OpenAI reasoning summary.                               *)
Summarize ==
    /\ Chatting /\ wire # <<>> /\ wire[1].block.type = "reasoning" /\ Provider(streaming) = "OpenAI"
    /\ LET w == wire[1]
           n == Len(w.block.summary)
           Longer(text) == [w.block.summary EXCEPT ![n].text = @ \o text]
       IN  \/ /\ w.part = "closed" /\ n < 2 /\ UNCHANGED pieces
              /\ Sends(Frame("reasoning_summary_part.added"),
                       <<[w EXCEPT !.block.summary = Append(@, [type |-> "summary_text", text |-> <<>>]),
                                   !.part = "open"]>>)
           \/ /\ w.part \in {"open", "streamed"} /\ More
              /\ Sends([event |-> "reasoning_summary_text.delta", text |-> <<Piece>>],
                       <<[w EXCEPT !.block.summary = Longer(<<Piece>>), !.part = "streamed"]>>)
           \/ /\ w.part = "streamed" /\ UNCHANGED pieces
              /\ Sends([event |-> "reasoning_summary_text.done", text |-> w.block.summary[n].text],
                       <<[w EXCEPT !.part = "closed"]>>)
           \/ /\ w.part = "open" /\ More
              /\ Sends([event |-> "reasoning_summary_text.done", text |-> <<Piece>>],
                       <<[w EXCEPT !.block.summary = Longer(<<Piece>>), !.part = "closed"]>>)

(* The block as the service will want it back.                             *)
Complete(b) ==
    CASE b.type = "text" /\ Provider(streaming) = "Anthropic" -> b @@ [citations |-> <<>>]
      [] b.type \in {"tool_use", "server_tool_use"} /\ Provider(streaming) = "Anthropic" ->
            [b EXCEPT !.input = Object(ParseObject(@.text))]
      [] b.type = "tool_use" /\ Provider(streaming) = "Bedrock" -> [b EXCEPT !.input = ParseObject(@)]
      [] b.type = "reasoning" /\ Provider(streaming) = "Bedrock" /\ b.signature = <<>> ->
            [type |-> "reasoning", text |-> b.text]
      [] OTHER -> b

EndBlock ==
    /\ Chatting /\ wire # <<>> /\ wire[1].part = "closed" /\ wire' = <<>> /\ UNCHANGED pieces
    /\ LET b == wire[1].block IN
       /\ Provider(streaming) = "Bedrock" => b.type \in {"tool_use", "image"} \/ block # <<>>
       /\ Receive(IF Provider(streaming) = "OpenAI" THEN [event |-> "output_item.done", item |-> b] ELSE Frame("stop"),
                  <<Complete(b)>>)

EndResponse ==
    /\ Chatting /\ wire = <<>> /\ rows # <<>> /\ UNCHANGED pieces
    /\ Sends(Frame("end"), <<>>)

(* The connection is lost, is silent for too long, brings what cannot be   *)
(* decoded, or the service reports an error.                               *)
Break == Chatting /\ UNCHANGED pieces /\ Sends(Frame("fault"), wire)

(* A frame out of place, which the decoder refuses.                        *)
Stray ==
    /\ Chatting /\ Provider(streaming) # "OpenAI" /\ UNCHANGED pieces
    /\ \/ /\ block # <<>> /\ \E b \in MessagesBlocks \cup ConverseBlocks : Sends([event |-> "start", block |-> b], wire)
       \/ /\ wire = <<>> /\ block = <<>>
          /\ \E f \in {Delta("input_json_delta", <<Piece>>), Delta("unknown", <<>>), Frame("stop")} :
               Sends(f, wire)
       \/ /\ block # <<>> /\ block[1].type = "tool_use" /\ Sends(Delta("text_delta", <<Piece>>), wire)

StreamNext ==
    \/ \E b \in StreamBackends : Chat(b)
    \/ \E images \in {<<>>, <<Braces>>} : SendPrompt(images)
    \/ StoreResult
    \/ BeginBlock \/ GrowText \/ GrowInput \/ Summarize \/ EndBlock \/ EndResponse \/ Break \/ Stray

StreamSpec == StreamInit /\ [][StreamNext]_streamVars
-----------------------------------------------------------------------------
(* However a response goes, its chat ends with exactly one Done or Error,  *)
(* and sends nothing after it: the session manager ends the turn at the    *)
(* first and would take what follows for the next turn's.                  *)
StreamEndsOnce ==
    LET Terminal(e) == e.event \in {"Done", "Error"} IN
    /\ \A i \in DOMAIN sent : Terminal(sent[i]) => i = Len(sent)
    /\ sent # <<>> /\ streaming # "off" => (Chatting <=> ~Terminal(Last(sent)))

(* What the user was shown while an item was streamed is what the session  *)
(* keeps of it: every piece once and in order, although the text may come  *)
(* in deltas, at the end of a part, or both.  (A refusal is not shown.)    *)
ShownIsStored ==
    \A i \in {j \in DOMAIN sent : sent[j].event = "OutputItem"} :
        LET item == sent[i].item
            Since == SelectLastInSubSeq(sent, 1, i - 1, LAMBDA e : e.event = "OutputItem")
            Shown(event) == Text([k \in 1..(i - 1 - Since) |->
                [content |-> IF sent[Since + k].event = event THEN sent[Since + k].text ELSE <<>>]])
            Kept(kind) == IF item.item # kind THEN <<>> ELSE Text(SelectSeq(item.parts, LAMBDA part :
                "type" \in DOMAIN part.meta => part.meta.type # "refusal"))
        IN  Shown("TextDelta") = Kept("Message") /\ Shown("ReasoningDelta") = Kept("Reasoning")

(* A service gets back what it made exactly as it made it, reasoning,      *)
(* signatures and hosted searches included; only a tool input that is not  *)
(* JSON becomes {}.                                                        *)
EchoIsExact ==
    \A i \in {j \in DOMAIN rows : rows[j].wire # <<>>} :
        LET row == rows[i]
            p == Provider(row.backend)
            Param(b) == [role |-> "assistant", content |-> <<b>>]
        IN  CASE p = "OpenAI" -> EncodeConversationItem(p, row.item, TRUE) = row.wire
              [] p = "Anthropic" -> EncodeConversationItem(p, row.item, TRUE) = <<Param(row.wire[1])>>
              [] p = "Bedrock" -> ContentBlock(row.item, TRUE) = <<Param(row.wire[1])>>

(* Whichever backend the next request goes to: it holds every prompt and   *)
(* message; each call is followed by its result before anyone speaks       *)
(* again; nothing that only another service understands is in it; and the  *)
(* list of tools is not empty ("Converse rejects an empty tool list").     *)
Count(messages, Test(_)) == Len(SelectSeq(messages, Test))
Signatures(p) ==
    {rows[i].wire[1].signature : i \in {j \in DOMAIN rows :
        Provider(rows[j].backend) = p /\ rows[j].wire # <<>> /\ "signature" \in DOMAIN rows[j].wire[1]}}
Ids(m, kind, field) ==
    {m.content[k][field] : k \in {j \in DOMAIN m.content : m.content[j].type = kind}}

CallsMeetResults(messages) ==
    \A i \in DOMAIN messages :
        LET asked == Ids(messages[i], "tool_use", "id")
        IN  asked # {} => i < Len(messages) /\ Ids(messages[i + 1], "tool_result", "tool_use_id") = asked

RequestsHold ==
    streaming = "idle" /\ rows # <<>> /\ Unresolved = {} => \A b \in StreamBackends :
        LET p == Provider(b)
            Spoken == SelectSeq(rows, LAMBDA r : r.item.item \in {"UserPrompt", "Message"})
            Texts(r) == IF r.item.item = "UserPrompt" THEN r.item.prompt ELSE Text(r.item.parts)
        IN  /\ \A tools \in {<<>>, <<[name |-> "tool", json |-> FALSE]>>} :
                 \A list \in Range(RequestTools(p, tools)) : list # <<>>
            /\ IF p = "OpenAI"
               THEN LET req == Tail(CodexMessages(b, rows))
                        Outputs(k) == {req[j].call_id : j \in {n \in k..Len(req) : req[n].type = "function_call_output"}}
                    IN  /\ Count(req, LAMBDA e : e.type = "message") = Len(Spoken)
                        /\ \A i \in DOMAIN req : req[i].type = "function_call" => req[i].call_id \in Outputs(i + 1)
                        /\ \A i \in DOMAIN req : \A f \in DOMAIN req[i] \cap {"id", "encrypted_content", "result"} :
                             req[i][f].by = b
               ELSE LET req == IF p = "Anthropic" THEN FoldRoles(ClaudeMessages(rows)) ELSE ConverseMessages(rows)
                        said == FlattenSeq([i \in DOMAIN req |-> SelectSeq(req[i].content, LAMBDA c : c.type = "text")])
                    IN  /\ [i \in DOMAIN said |-> said[i].text] = [i \in DOMAIN Spoken |-> Texts(Spoken[i])]
                        /\ req[1].role = "user"
                        /\ CallsMeetResults(req)
                        /\ \A i \in DOMAIN req : \A k \in DOMAIN req[i].content :
                             "signature" \in DOMAIN req[i].content[k] => req[i].content[k].signature \in Signatures(p)
=============================================================================
