------------------------------ MODULE ChatView ------------------------------
(***************************************************************************)
(* The transcript of a chat in the Linux front end (ChatView): sections    *)
(* for prompts, reasoning, answers and tool calls, opened and completed as *)
(* render events arrive.  An answer is Markdown that grows; it is rendered *)
(* again at most every RENDER_TIME_BUFFER, and a rendering rebuilds only   *)
(* the blocks after the first one that changed.                            *)
(*                                                                         *)
(* Text comes in lines of five kinds; blank lines separate blocks.         *)
(***************************************************************************)
EXTENDS Integers, SequencesExt, FiniteSetsExt

CONSTANTS
    Lines,          \* the kinds of line that occur
    MaxLines,       \* bound: lines received
    MaxSections     \* bound: sections

ASSUME LinesAssumption ==
    Lines \subseteq {"text", "cells", "delimiter", "markdown", "fence", "blank"}

VARIABLES
    viewPc,       \* "off", "idle", "turn"
    sections,     \* Seq of [kind, source, shown, pending]
    openSection,      \* prev_section: the index of the open section, 0 for none
    received      \* lines received

viewVars == <<viewPc, sections, openSection, received>>

ViewRest(where) ==
    viewPc = where /\ sections = <<>> /\ openSection = 0 /\ received = 0

ViewInit == ViewRest("idle")
-----------------------------------------------------------------------------
(* unwrap_markdown_table_fences.  Any line of backticks ends a fence.      *)
FenceEnds(src, i) == {j \in (i + 1)..Len(src) : src[j] \in {"fence", "markdown"}}

HasMarkdownTable(inner) ==
    \E k \in 1..(Len(inner) - 1) : inner[k] \in {"cells", "delimiter"} /\ inner[k + 1] = "delimiter"

Unwrap(src) ==
    LET after(i) == IF FenceEnds(src, i) = {} THEN Len(src) + 1 ELSE Min(FenceEnds(src, i)) + 1
        inner(i) == SubSeq(src, i + 1, Min(FenceEnds(src, i)) - 1)
        rest[i \in 1..(Len(src) + 1)] ==
            IF i > Len(src) THEN <<>>
            ELSE IF src[i] # "markdown" THEN <<src[i]>> \o rest[i + 1]
            ELSE IF FenceEnds(src, i) # {} /\ HasMarkdownTable(inner(i))
                 THEN inner(i) \o rest[after(i)]
                 ELSE SubSeq(src, i, after(i) - 1) \o rest[after(i)]
    IN  rest[1]

(* The Markdown parser: fenced code up to a bare fence, tables of cells    *)
(* with a delimiter, and paragraphs.                                       *)
Blocks(lines) ==
    LET closes(i) == {j \in (i + 1)..Len(lines) : lines[j] = "fence"}
        codeEnd(i) == IF closes(i) = {} THEN Len(lines) + 1 ELSE Min(closes(i))
        stops(i) == {j \in i..Len(lines) : lines[j] \in {"blank", "fence", "markdown"}}
        textEnd(i) == IF stops(i) = {} THEN Len(lines) ELSE Min(stops(i)) - 1
        block(kind, i, j) == [kind |-> kind, lines |-> SubSeq(lines, i, j)]
        kind(i) == IF HasMarkdownTable(SubSeq(lines, i, Min({i + 1, textEnd(i)})))
                   THEN "table" ELSE "paragraph"
        rest[i \in 1..(Len(lines) + 1)] ==
            IF i > Len(lines) THEN <<>>
            ELSE IF lines[i] = "blank" THEN rest[i + 1]
            ELSE IF lines[i] \in {"fence", "markdown"}
                 THEN <<block("code", i + 1, codeEnd(i) - 1)>>
                        \o rest[Min({codeEnd(i) + 1, Len(lines) + 1})]
                 ELSE <<block(kind(i), i, textEnd(i))>> \o rest[textEnd(i) + 1]
    IN  rest[1]

ParseBlocks(source) == Blocks(Unwrap(source))

\* Fault: what was shown is taken to be final, and only new blocks are added.
ApplyNew(shown, next) ==
    shown \o (IF Len(next) > Len(shown) THEN SubSeq(next, Len(shown) + 1, Len(next)) ELSE <<>>)

(* MarkdownView::apply: the common prefix stays, the rest is built anew.   *)
Apply(shown, next) ==
    LET same == {k \in 0..Min({Len(shown), Len(next)}) : \A i \in 1..k : shown[i] = next[i]}
        keep == Max(same)
    IN  SubSeq(shown, 1, keep) \o SubSeq(next, keep + 1, Len(next))
-----------------------------------------------------------------------------
RenderNow(s) ==
    [s EXCEPT !.shown = Apply(@, ParseBlocks(s.source)), !.pending = FALSE]

(* AssistantSection::complete; the other sections have nothing to do.      *)
Completed(s) == IF s.pending THEN RenderNow(s) ELSE s

(* The transcript with the open section completed.                         *)
AllCompleted == [i \in DOMAIN sections |-> IF i = openSection THEN Completed(sections[i]) ELSE sections[i]]

Section(kind) == [kind |-> kind, source |-> <<>>, shown |-> <<>>, pending |-> FALSE]
SectionRoom(n) == Len(sections) + n <= MaxSections

AppendUserPrompt ==
    /\ viewPc = "idle" /\ SectionRoom(1)
    /\ sections' = Append(AllCompleted, Section("prompt"))
    /\ openSection' = Len(sections) + 1 /\ viewPc' = "turn"
    /\ UNCHANGED received

\* Fault: the section before a tool call is not completed.
OpenToolCall ==
    /\ viewPc = "turn" /\ SectionRoom(1)
    /\ sections' = Append(sections, Section("tool_call"))
    /\ openSection' = Len(sections) + 1
    /\ UNCHANGED <<viewPc, received>>

ShowToolCall ==
    /\ viewPc = "turn" /\ SectionRoom(1)
    /\ sections' = Append(AllCompleted, Section("tool_call"))
    /\ openSection' = Len(sections) + 1
    /\ UNCHANGED <<viewPc, received>>

(* AssistantSection::append: the rendering is due or put off.              *)
Grow(s, line, due) ==
    LET grown == [s EXCEPT !.source = Append(@, line)]
    IN  IF due THEN RenderNow(grown) ELSE [grown EXCEPT !.pending = TRUE]

(* A new section was never rendered, so its first text may be due or not.  *)
AppendText(line, due) ==
    /\ viewPc = "turn" /\ received < MaxLines
    /\ \/ /\ openSection # 0 /\ sections[openSection].kind = "assistant"
          /\ sections' = [sections EXCEPT ![openSection] = Grow(@, line, due)]
          /\ UNCHANGED openSection
       \/ /\ openSection = 0 \/ sections[openSection].kind # "assistant"
          /\ SectionRoom(1)
          /\ sections' = Append(AllCompleted, Grow(Section("assistant"), line, due))
          /\ openSection' = Len(sections) + 1
    /\ received' = received + 1
    /\ UNCHANGED viewPc

(* Reasoning is plain text and shown at once.                              *)
Think(s, line) == [s EXCEPT !.source = Append(@, line), !.shown = Append(@, line)]

AppendReasoning(line) ==
    /\ viewPc = "turn" /\ received < MaxLines
    /\ \/ /\ openSection # 0 /\ sections[openSection].kind = "reasoning"
          /\ sections' = [sections EXCEPT ![openSection] = Think(@, line)]
          /\ UNCHANGED openSection
       \/ /\ openSection = 0 \/ sections[openSection].kind # "reasoning"
          /\ SectionRoom(1)
          /\ sections' = Append(AllCompleted, Think(Section("reasoning"), line))
          /\ openSection' = Len(sections) + 1
    /\ received' = received + 1
    /\ UNCHANGED viewPc

(* finish, fail and cancel complete the turn alike; they differ in the     *)
(* status line and in what becomes of pending decisions (DecisionList).    *)
CompleteTurn ==
    /\ viewPc = "turn"
    /\ sections' = AllCompleted /\ openSection' = 0 /\ viewPc' = "idle"
    /\ UNCHANGED received

ClearView ==
    /\ viewPc # "off" /\ sections # <<>>
    /\ sections' = <<>> /\ openSection' = 0 /\ viewPc' = "idle"
    /\ UNCHANGED received
-----------------------------------------------------------------------------
ViewNext ==
    \/ AppendUserPrompt
    \/ ShowToolCall
    \/ \E line \in Lines, due \in BOOLEAN : AppendText(line, due)
    \/ AppendReasoning("text")
    \/ CompleteTurn
    \/ ClearView

ViewSpec == ViewInit /\ [][ViewNext]_viewVars
-----------------------------------------------------------------------------
(* The transcript loses nothing to the throttle: only the open section of  *)
(* a running turn may lag behind, and every other one shows exactly the    *)
(* blocks of all its text, although a closing fence turns blocks that were *)
(* already shown into others.                                              *)
TranscriptIsComplete ==
    \A i \in DOMAIN sections :
        LET s == sections[i]
        IN  /\ s.pending => i = openSection /\ viewPc = "turn"
            /\ s.kind = "assistant" /\ ~s.pending => s.shown = ParseBlocks(s.source)
            /\ s.kind = "reasoning" => s.shown = s.source
=============================================================================
