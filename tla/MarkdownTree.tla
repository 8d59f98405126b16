---------------------------- MODULE MarkdownTree ----------------------------
(***************************************************************************)
(* The tree an answer is rendered from: Builder, fed by the events of the  *)
(* Markdown parser.  A block is a kind and its children; text is numbered  *)
(* in the order it comes, so that a tree can be read back.  Headings and   *)
(* table cells are built like paragraphs, tables and rows like quotes, the *)
(* other inline tags like strong.                                          *)
(***************************************************************************)
EXTENDS Integers, SequencesExt, FiniteSetsExt

CONSTANTS
    MaxParsed,     \* bound: events of the parser
    MaxNesting     \* bound: tags open at once

VARIABLES
    treePc,      \* "off", "parsing", "finished"
    open,        \* external: the tags the parser has open
    stack,       \* Builder::stack, the innermost block last
    out,         \* Builder::out
    texts,       \* texts so far
    parsedEvents \* events so far

treeVars == <<treePc, open, stack, out, texts, parsedEvents>>

TreeRest(where) ==
    treePc = where /\ open = <<>> /\ stack = <<>> /\ out = <<>> /\ texts = 0 /\ parsedEvents = 0

TreeInit == TreeRest("parsing")

Block(kind, children) == [kind |-> kind, children |-> children]
Containers == {"quote", "list", "task_list", "item", "task_item", "paragraph", "strong"}
Inline == {"text", "strong", "inline_code", "break"}
Ignored == {"image"}      \* tags that start and end have no arm for
-----------------------------------------------------------------------------
(* target().push(block): onto the innermost open block, or the root.       *)
AttachTo(s, block) == [s EXCEPT ![Len(s)].children = Append(@, block)]
Attach(s, o, block) ==
    IF s = <<>> THEN stack' = s /\ out' = Append(o, block)
    ELSE stack' = AttachTo(s, block) /\ out' = o

(* Text merges into a text before it; code takes it itself.                *)
Merged(children, n) ==
    IF children # <<>> /\ Last(children).kind = "text"
    THEN [children EXCEPT ![Len(children)].children = Append(@, n)]
    ELSE Append(children, Block("text", <<n>>))

PushText(n) ==
    IF stack = <<>> THEN out' = Merged(out, n) /\ UNCHANGED stack
    ELSE /\ stack' = [stack EXCEPT ![Len(stack)].children =
                        IF Last(stack).kind = "code" THEN Append(@, n) ELSE Merged(@, n)]
         /\ UNCHANGED out

\* Fault: a run at the end of the item is forgotten.
WrapInlineRunsBeforeBlocks(children) ==
    LET starts == {i \in DOMAIN children :
                    children[i].kind \in Inline /\ (i = 1 \/ children[i - 1].kind \notin Inline)}
        run(i) == SubSeq(children, i, Min({j \in i..Len(children) :
                    j = Len(children) \/ children[j + 1].kind \notin Inline}))
        closed(i) == i + Len(run(i)) <= Len(children)
        part(i) == IF i \in starts /\ closed(i) THEN <<Block("paragraph", run(i))>>
                   ELSE IF children[i].kind \in Inline THEN <<>> ELSE <<children[i]>>
    IN  FlattenSeq([i \in DOMAIN children |-> part(i)])

(* wrap_inline_runs: consecutive inline nodes become a paragraph.          *)
WrapInlineRuns(children) ==
    LET starts == {i \in DOMAIN children :
                    children[i].kind \in Inline /\ (i = 1 \/ children[i - 1].kind \notin Inline)}
        run(i) == SubSeq(children, i, Min({j \in i..Len(children) :
                    j = Len(children) \/ children[j + 1].kind \notin Inline}))
        part(i) == IF i \in starts THEN <<Block("paragraph", run(i))>>
                   ELSE IF children[i].kind \in Inline THEN <<>> ELSE <<children[i]>>
    IN  FlattenSeq([i \in DOMAIN children |-> part(i)])

FinalizeList(list) ==
    IF \E item \in ToSet(list.children) : item.kind = "task_item"
    THEN Block("task_list", list.children) ELSE list

(* pop, close_item and pop_list, by the tag that ends.                     *)
ClosedBlock(block) ==
    IF block.kind \in {"item", "task_item"} THEN Block(block.kind, WrapInlineRuns(block.children))
    ELSE IF block.kind = "list" THEN FinalizeList(block) ELSE block
-----------------------------------------------------------------------------
(* What the parser may open where (external).                              *)
Context == IF open = <<>> THEN "root" ELSE Last(open)
Opens ==
    IF Context \in {"root", "quote", "item"}
    THEN {"paragraph", "quote", "list", "code"} \cup (IF Context = "item" THEN {"strong"} ELSE {})
    ELSE IF Context = "list" THEN {"item"}
    ELSE IF Context \in {"paragraph", "strong"} THEN {"strong", "image"} ELSE {}

NextEvent == treePc = "parsing" /\ parsedEvents < MaxParsed /\ parsedEvents' = parsedEvents + 1

StartTag(tag) ==
    /\ NextEvent /\ tag \in Opens /\ Len(open) < MaxNesting
    /\ open' = Append(open, tag)
    /\ stack' = IF tag \in Ignored THEN stack ELSE Append(stack, Block(tag, <<>>))
    /\ UNCHANGED <<treePc, out, texts>>

EndTag ==
    /\ NextEvent /\ open # <<>>
    /\ open' = Front(open)
    /\ IF Last(open) \in Ignored THEN UNCHANGED <<stack, out>>
       ELSE Attach(Front(stack), out, ClosedBlock(Last(stack)))
    /\ UNCHANGED <<treePc, texts>>

TextEvent ==
    /\ NextEvent /\ Context \in {"paragraph", "strong", "image", "item", "code"}
    /\ texts' = texts + 1 /\ PushText(texts + 1)
    /\ UNCHANGED <<treePc, open>>

(* Leaves of one's own: inline code is text, too; a break or a rule holds  *)
(* none.                                                                   *)
InlineCode ==
    /\ NextEvent /\ Context \in {"paragraph", "strong", "item"}
    /\ texts' = texts + 1 /\ Attach(stack, out, Block("inline_code", <<texts + 1>>))
    /\ UNCHANGED <<treePc, open>>

Break ==
    /\ NextEvent /\ Context \in {"paragraph", "strong", "item"}
    /\ Attach(stack, out, Block("break", <<>>))
    /\ UNCHANGED <<treePc, open, texts>>

Rule ==
    /\ NextEvent /\ Context \in {"root", "quote", "item"}
    /\ Attach(stack, out, Block("rule", <<>>))
    /\ UNCHANGED <<treePc, open, texts>>

TaskListMarker ==
    /\ NextEvent /\ Context = "item" /\ Last(stack).children = <<>>
    /\ stack' = [stack EXCEPT ![Len(stack)].kind = "task_item"]
    /\ UNCHANGED <<treePc, open, out, texts>>

(* The parser closes every tag before it ends; Builder::finish has nothing *)
(* left to unwind.                                                         *)
FinishTree ==
    /\ treePc = "parsing" /\ open = <<>> /\ treePc' = "finished"
    /\ UNCHANGED <<open, stack, out, texts, parsedEvents>>
-----------------------------------------------------------------------------
TreeNext ==
    \/ \E tag \in {"paragraph", "quote", "list", "item", "code", "strong", "image"} : StartTag(tag)
    \/ EndTag \/ TextEvent \/ InlineCode \/ Break \/ Rule \/ TaskListMarker
    \/ FinishTree

TreeSpec == TreeInit /\ [][TreeNext]_treeVars
-----------------------------------------------------------------------------
RECURSIVE TextsOf(_), WellFormed(_)

TextsOf(block) ==
    IF block.kind \in Containers
    THEN FlattenSeq([i \in DOMAIN block.children |-> TextsOf(block.children[i])])
    ELSE block.children

(* A list holds items, an item blocks only, and a list of tasks a task.    *)
WellFormed(block) ==
    /\ block.kind \in {"list", "task_list"} =>
          \A c \in ToSet(block.children) : c.kind \in {"item", "task_item"}
    /\ block.kind = "list" => \A c \in ToSet(block.children) : c.kind = "item"
    /\ block.kind \in {"item", "task_item"} =>
          \A c \in ToSet(block.children) : c.kind \notin Inline
    /\ block.kind \in Containers => \A c \in ToSet(block.children) : WellFormed(c)

(* The tree says what the answer said: the text of all blocks, closed and  *)
(* open, is the text received, in order, however tags nest and whatever    *)
(* tags are ignored; closed blocks have the shape the renderer counts on;  *)
(* and only blocks that hold children are open when one is attached.       *)
TreeKeepsTheText ==
    /\ FlattenSeq([i \in DOMAIN (out \o stack) |-> TextsOf((out \o stack)[i])])
         = [n \in 1..texts |-> n]
    /\ \A block \in ToSet(out) : WellFormed(block)
    /\ \A i \in 1..(Len(stack) - 1) : stack[i].kind \in Containers
    /\ treePc = "finished" => stack = <<>>
=============================================================================
