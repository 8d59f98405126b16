------------------------- MODULE ConversationCodec --------------------------
(***************************************************************************)
(* The codecs of the provider plugins: how the items of a session are      *)
(* written into a request, and how the blocks a service sends become       *)
(* items.  OpenAI's Responses, Anthropic's Messages and Bedrock's Converse *)
(* each have their own.                                                    *)
(*                                                                         *)
(* A JSON object is a function of its field names, here a record.  A text  *)
(* is a sequence of pieces, the chunks it was streamed in.  Options are    *)
(* sequences of at most one element.                                       *)
(***************************************************************************)
EXTENDS Integers, SequencesExt

Provider(b) ==
    CASE b \in {"codex", "openai_api"} -> "OpenAI"
      [] b \in {"claude_code", "anthropic_api"} -> "Anthropic"
      [] b = "bedrock_api" -> "Bedrock"
      [] OTHER -> ""                      \* the user's own rows

Braces == 0      \* the piece that is the text "{}"
Broken == -1     \* a piece that makes JSON malformed

EmptyObject == <<Braces>>
ParseObject(text) == IF text = <<>> \/ Broken \in Range(text) THEN EmptyObject ELSE text

NoFields == [x \in {} |-> x]
Text(parts) == FlattenSeq([i \in DOMAIN parts |-> parts[i].content])

(* provider_meta: every field but the normalized ones; provider_meta_to_map *)
(* puts them back, for the provider they came from.                        *)
ProviderMeta(item, normalizedFields) == Restrict(item, DOMAIN item \ normalizedFields)
ProviderMetaToMap(meta, include) == IF include THEN meta ELSE NoFields

(* ConversationItem.                                                       *)
UserPrompt(prompt, images) == [item |-> "UserPrompt", prompt |-> prompt, images |-> images]
Message(parts, meta) == [item |-> "Message", parts |-> parts, meta |-> meta]
Reasoning(parts, meta) == [item |-> "Reasoning", parts |-> parts, meta |-> meta]
ToolCall(call, name, arguments, meta) ==
    [item |-> "ToolCall", call |-> call, name |-> name, arguments |-> arguments, meta |-> meta]
ToolResult(call, output) == [item |-> "ToolResult", call |-> call, output |-> output]
HostedTool(function, content, meta) ==
    [item |-> "HostedTool", function |-> function, content |-> content, meta |-> meta]
Unknown(meta) == [item |-> "Unknown", meta |-> meta]

-----------------------------------------------------------------------------
(* CodexCodec: openai.                                                     *)

InputText(text) == [type |-> "input_text", text |-> text]
UserMessage(content) == [type |-> "message", role |-> "user", content |-> content]

CodexEnvContext == UserMessage(<<InputText(<<>>)>>)

CodexUserPrompt(p) ==
    UserMessage(<<InputText(p.prompt)>> \o
                [i \in DOMAIN p.images |-> [type |-> "input_image", image_url |-> p.images[i]]])

CodexContent(part, same) ==
    LET content == ProviderMetaToMap(part.meta, same) @@ [type |-> "output_text"]
    IN  IF content.type = "refusal" THEN [refusal |-> part.content] @@ content
                                    ELSE [text |-> part.content] @@ content

CodexMessage(m, same) ==
    [type |-> "message", content |-> [i \in DOMAIN m.parts |-> CodexContent(m.parts[i], same)]]
    @@ ProviderMetaToMap(m.meta, same) @@ [role |-> "assistant"]

CodexReasoning(r, same) ==
    IF ~same THEN <<>>
    ELSE << [type |-> "reasoning",
             summary |-> [i \in DOMAIN r.parts |->
                            [text |-> r.parts[i].content] @@ r.parts[i].meta @@ [type |-> "summary_text"]]]
            @@ r.meta >>

\* Fault: the fields of the service that made the call go to every other.
CodexToolCallWithMeta(c, same) ==
    [type |-> "function_call", call_id |-> c.call, name |-> c.name, arguments |-> c.arguments] @@ c.meta

CodexToolCall(c, same) ==
    [type |-> "function_call", call_id |-> c.call, name |-> c.name, arguments |-> c.arguments]
    @@ ProviderMetaToMap(c.meta, same)

CodexToolCallResult(r) ==
    [type |-> "function_call_output", call_id |-> r.call, output |-> r.output]

CodexHostedTool(h, same) ==
    LET field == IF h.function = "web_search_call" THEN "action" ELSE "content"
    IN  IF ~same THEN <<>>
        ELSE << [type |-> h.function] @@ [f \in IF h.content = <<>> THEN {} ELSE {field} |-> Head(h.content)]
                @@ h.meta >>

CodexDecodeMessage(item) ==
    Message([i \in DOMAIN item.content |->
               LET part == item.content[i]
               IN  [content |-> IF "text" \in DOMAIN part THEN part.text ELSE part.refusal,
                    meta |-> ProviderMeta(part, {"text", "refusal"})]],
            ProviderMeta(item, {"type", "content"}))

CodexDecodeReasoning(item) ==
    Reasoning([i \in DOMAIN item.summary |->
                 [content |-> item.summary[i].text, meta |-> ProviderMeta(item.summary[i], {"text"})]],
              ProviderMeta(item, {"type", "summary"}))

CodexDecodeFunctionCall(item) ==
    ToolCall(item.call_id, item.name, item.arguments,
             ProviderMeta(item, {"type", "call_id", "name", "arguments"}))

CodexDecodeWebSearchCall(item) ==
    HostedTool("web_search_call", IF "action" \in DOMAIN item THEN <<item.action>> ELSE <<>>,
               ProviderMeta(item, {"type", "action"}))

CodexDecodeHostedTool(item) == HostedTool(item.type, <<>>, ProviderMeta(item, {"type"}))

CodexDecodeOutputItem(item) ==
    CASE item.type = "message" -> CodexDecodeMessage(item)
      [] item.type = "reasoning" -> CodexDecodeReasoning(item)
      [] item.type = "function_call" -> CodexDecodeFunctionCall(item)
      [] item.type = "web_search_call" -> CodexDecodeWebSearchCall(item)
      [] OTHER -> CodexDecodeHostedTool(item)

-----------------------------------------------------------------------------
(* ClaudeCodec: anthropic.  The input of a tool is a JSON object, or while *)
(* it is streamed the string of what has arrived: [string, text].          *)

SupportedResponseTypes ==
    {"text", "thinking", "tool_use", "server_tool_use", "redacted_thinking", "web_search_tool_result"}

Object(text) == [string |-> FALSE, text |-> text]
MessageParam(role, content) == [role |-> role, content |-> <<content>>]

ClaudeUserPrompt(p) ==
    [role |-> "user",
     content |-> [i \in DOMAIN p.images |-> [type |-> "image", source |-> p.images[i]]]
                 \o <<[type |-> "text", text |-> p.prompt]>>]

ClaudeMessage(m, same) ==
    MessageParam("assistant", [type |-> "text", text |-> Text(m.parts)] @@ ProviderMetaToMap(m.meta, same))

\* Fault: the signature is left out.
ClaudeReasoningUnsigned(r, same) ==
    IF ~same THEN <<>>
    ELSE << MessageParam("assistant", [thinking |-> Text(r.parts), type |-> "thinking"]) >>

ClaudeReasoning(r, same) ==
    IF ~same THEN <<>>
    ELSE << MessageParam("assistant",
              [thinking |-> Text(r.parts)] @@ r.meta @@ [type |-> "thinking"]) >>

ClaudeToolCall(c, same) ==
    MessageParam("assistant",
      [type |-> "tool_use", id |-> c.call, name |-> c.name, input |-> Object(ParseObject(c.arguments))]
      @@ ProviderMetaToMap(c.meta, same))

ClaudeToolCallResult(r) ==
    MessageParam("user", [type |-> "tool_result", tool_use_id |-> r.call, content |-> <<r.output>>])

ClaudeHostedTool(h, same) ==
    IF ~same THEN <<>>
    ELSE << MessageParam("assistant",
              [type |-> "server_tool_use", name |-> h.function]
              @@ [f \in IF h.content = <<>> THEN {} ELSE {"input"} |-> Object(ParseObject(Head(h.content)))]
              @@ h.meta) >>

ClaudeUnknown(u, same) == IF ~same THEN <<>> ELSE << MessageParam("assistant", u.meta) >>

ClaudeDecodeMessage(data) ==
    Message(<<[content |-> data.text, meta |-> NoFields]>>, ProviderMeta(data, {"type", "text"}))

ClaudeDecodeReasoning(data) ==
    Reasoning(<<[content |-> data.thinking, meta |-> NoFields]>>, ProviderMeta(data, {"type", "thinking"}))

(* decode_input_arguments: a string as it is, an object as its text.       *)
DecodeInputArguments(item) == item.input.text

ClaudeDecodeFunctionCall(item) ==
    ToolCall(item.id, item.name, DecodeInputArguments(item),
             ProviderMeta(item, {"type", "id", "name", "input"}))

ClaudeDecodeHostedTool(item) ==
    HostedTool(item.name, <<DecodeInputArguments(item)>>, ProviderMeta(item, {"type", "name", "input"}))

ClaudeDecodeOutputItem(data) ==
    CASE data.type = "text" -> ClaudeDecodeMessage(data)
      [] data.type = "thinking" -> ClaudeDecodeReasoning(data)
      [] data.type \in {"redacted_thinking", "web_search_tool_result"} -> Unknown(ProviderMeta(data, {}))
      [] data.type = "tool_use" -> ClaudeDecodeFunctionCall(data)
      [] data.type = "server_tool_use" -> ClaudeDecodeHostedTool(data)

-----------------------------------------------------------------------------
(* ProviderEncoder::encode_conversation_item, for the two codecs that      *)
(* implement it, and build_request_body.                                   *)

EncodeConversationItem(p, i, same) ==
    LET Codec(openai, anthropic) == IF p = "OpenAI" THEN openai ELSE anthropic
    IN  CASE i.item = "UserPrompt" -> <<Codec(CodexUserPrompt(i), ClaudeUserPrompt(i))>>
          [] i.item = "Message" -> <<Codec(CodexMessage(i, same), ClaudeMessage(i, same))>>
          [] i.item = "Reasoning" -> Codec(CodexReasoning(i, same), ClaudeReasoning(i, same))
          [] i.item = "ToolCall" -> <<Codec(CodexToolCall(i, same), ClaudeToolCall(i, same))>>
          [] i.item = "ToolResult" -> <<Codec(CodexToolCallResult(i), ClaudeToolCallResult(i))>>
          [] i.item = "HostedTool" -> Codec(CodexHostedTool(i, same), ClaudeHostedTool(i, same))
          [] i.item = "Unknown" -> Codec(<<>>, ClaudeUnknown(i, same))

(* A row of the session: the item and the backend that made it.            *)
CodexMessages(b, rows) ==
    <<CodexEnvContext>> \o FlattenSeq([i \in DOMAIN rows |->
        EncodeConversationItem("OpenAI", rows[i].item, rows[i].backend = b)])

ClaudeMessages(rows) ==
    FlattenSeq([i \in DOMAIN rows |->
        EncodeConversationItem("Anthropic", rows[i].item, Provider(rows[i].backend) = "Anthropic")])

(* The tools of a request.  A schema that is not JSON takes its tool with  *)
(* it; the services' own search comes last, and Converse gets no list      *)
(* rather than an empty one.                                               *)
RequestTools(p, tools) ==
    LET kept == SelectSeq(tools, LAMBDA t : t.json)
    IN  CASE p \in {"OpenAI", "Anthropic"} -> <<Append(kept, [name |-> "web_search", json |-> TRUE])>>
          [] p = "Bedrock" -> IF kept = <<>> THEN <<>> ELSE <<kept>>

-----------------------------------------------------------------------------
(* Bedrock's codec folds the items of one role into one message.           *)

UserPromptBlocks(p) ==
    [i \in DOMAIN p.images |-> [type |-> "image", source |-> p.images[i]]]
    \o <<[type |-> "text", text |-> p.prompt]>>

ContentBlock(i, same) ==
    LET Assistant(block) == <<[role |-> "assistant", content |-> <<block>>]>>
    IN  CASE i.item = "UserPrompt" -> <<[role |-> "user", content |-> UserPromptBlocks(i)]>>
          [] i.item = "Message" -> Assistant([type |-> "text", text |-> Text(i.parts)])
          [] i.item = "Reasoning" /\ same ->
                Assistant([type |-> "reasoning", text |-> Text(i.parts)]
                          @@ Restrict(i.meta, DOMAIN i.meta \cap {"signature"}))
          [] i.item = "Unknown" /\ same /\ "redacted" \in DOMAIN i.meta ->
                Assistant([type |-> "redacted"] @@ Restrict(i.meta, {"redacted"}))
          [] i.item = "ToolCall" ->
                Assistant([type |-> "tool_use", id |-> i.call, name |-> i.name,
                           input |-> ParseObject(i.arguments)])
          [] i.item = "ToolResult" ->
                <<[role |-> "user",
                   content |-> <<[type |-> "tool_result", tool_use_id |-> i.call, content |-> <<i.output>>]>>]>>
          [] OTHER -> <<>>

FoldRoles(messages) ==
    FoldLeft(LAMBDA folded, m :
               IF folded # <<>> /\ Last(folded).role = m.role
               THEN Append(Front(folded), [m EXCEPT !.content = Last(folded).content \o @])
               ELSE Append(folded, m),
             <<>>, messages)

\* Fault: an item that is left out takes the next one with it.
ConverseMessagesSkipping(rows) ==
    FoldRoles(FlattenSeq([i \in DOMAIN rows |->
        IF i > 1 /\ ContentBlock(rows[i - 1].item, Provider(rows[i - 1].backend) = "Bedrock") = <<>> THEN <<>>
        ELSE ContentBlock(rows[i].item, Provider(rows[i].backend) = "Bedrock")]))

ConverseMessages(rows) ==
    FoldRoles(FlattenSeq([i \in DOMAIN rows |->
        ContentBlock(rows[i].item, Provider(rows[i].backend) = "Bedrock")]))
=============================================================================
