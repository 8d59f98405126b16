------------------------------ MODULE Composer ------------------------------
(***************************************************************************)
(* The input of the Linux launcher (InputView), where text and pasted      *)
(* images are composed into a prompt, and the section of the chat that     *)
(* shows the prompt again.                                                 *)
(*                                                                         *)
(* The buffer is a sequence of elements: a word, a space, the anchor of an *)
(* image, or the object character that undoing the deletion of an image    *)
(* leaves.  Images are read in tasks, and land wherever the selection is   *)
(* when they are done.  Text typed in the form of a placeholder is left    *)
(* out.                                                                    *)
(***************************************************************************)
EXTENDS Integers, Sequences, SequencesExt, FiniteSets, FiniteSetsExt

CONSTANTS
    Clipboards,    \* what may be pasted or dropped: an image in memory, <<"memory">>, or
                   \* files, a sequence of "image", "link", "other"
    MaxEdits,      \* bound: steps of the user
    MaxReads       \* bound: pastes being read

ASSUME ComposerAssumption == Clipboards \subseteq Seq({"memory", "image", "link", "other"})

VARIABLES
    composerPc,    \* "off", "on"
    buffer,        \* Seq of [kind, image]
    attachments,   \* Seq of images: those whose anchor is known
    reads,         \* the pastes being read, in no order
    suppress,      \* the next change is not the user's
    timer,         \* the search debounce is running
    searched,      \* the text of the last QueryChanged
    images,        \* images created so far
    edits,         \* steps left
    cleared        \* ghost: cleared by the program since the last change of the user

composerVars == <<composerPc, buffer, attachments, reads, suppress, timer, searched, images,
                  edits, cleared>>

Word == [kind |-> "word", image |-> 0]
Space == [kind |-> "space", image |-> 0]
Object == [kind |-> "object", image |-> 0]
Anchor(n) == [kind |-> "anchor", image |-> n]

ComposerRest(where) ==
    /\ composerPc = where
    /\ buffer = <<>> /\ attachments = <<>> /\ reads = <<>>
    /\ suppress = FALSE /\ timer = FALSE /\ searched = <<>>
    /\ images = 0 /\ edits = MaxEdits /\ cleared = FALSE

ComposerInit == ComposerRest("on")
-----------------------------------------------------------------------------
(* What of s, between two positions, is in T.                              *)
Sifted(s, from, to, T) ==
    LET upTo[i \in 0..Len(s)] ==
            IF i < from THEN <<>> ELSE IF s[i] \in T THEN Append(upTo[i - 1], s[i]) ELSE upTo[i - 1]
    IN  upTo[to]
AllSifted(s, T) == Sifted(s, 1, Len(s), T)

(* buffer.text() leaves anchors out.                                       *)
TextOf(b) == AllSifted(b, {Word, Space, Object})
Alive(b) == {b[i].image : i \in {j \in DOMAIN b : b[j].kind = "anchor"}}

(* The handler of the buffer's "changed" signal, for a change of the user  *)
(* to the text b with the attachments a.                                   *)
Changed(b, a) ==
    /\ buffer' = b
    /\ attachments' = AllSifted(a, Alive(b))
    /\ suppress' = FALSE /\ cleared' = FALSE
    /\ IF suppress THEN UNCHANGED <<timer, searched>>
       ELSE timer' = (b # <<>>) /\ searched' = IF b = <<>> THEN <<>> ELSE searched

DebounceEnds ==
    /\ timer /\ timer' = FALSE /\ searched' = TextOf(buffer)
    /\ UNCHANGED <<composerPc, buffer, attachments, reads, suppress, images, edits, cleared>>

Edit == composerPc = "on" /\ edits > 0 /\ edits' = edits - 1

(* b with the elements after `from` up to `to` replaced by es.             *)
Spliced(b, from, to, es) == SubSeq(b, 1, from) \o es \o SubSeq(b, to + 1, Len(b))

TypeAt(i, e) ==
    /\ Edit /\ Changed(Spliced(buffer, i, i, <<e>>), attachments)
    /\ UNCHANGED <<composerPc, reads, images>>

EraseAt(i) ==
    /\ Edit /\ Changed(Spliced(buffer, i - 1, i, <<>>), attachments)
    /\ UNCHANGED <<composerPc, reads, images>>

(* Undoing the deletion of an image brings its character back, not the     *)
(* anchor.                                                                 *)
UndoErase(i) ==
    /\ Edit /\ Cardinality(Alive(buffer)) < images
    /\ Changed(Spliced(buffer, i, i, <<Object>>), attachments)
    /\ UNCHANGED <<composerPc, reads, images>>

BeginPaste(c) ==
    /\ Edit /\ Len(reads) < MaxReads
    /\ reads' = Append(reads, c)
    /\ UNCHANGED <<composerPc, buffer, attachments, suppress, timer, searched, images, cleared>>

(* load_image: an image file that can be read, is not too large and can be *)
(* decoded.                                                                *)
Readable(c, i, fails) == c[i] = "image" /\ i \notin fails

(* What files insert: an image that loads is an anchor, one that does not, *)
(* and any other file, is its path; each is followed by a space.           *)
Loaded(c, fails) ==
    LET loads(i) == {j \in 1..i : Readable(c, j, fails)}
        insert(i) == IF Readable(c, i, fails) THEN Anchor(images + Cardinality(loads(i))) ELSE Word
        upTo[i \in 0..Len(c)] == IF i = 0 THEN <<>> ELSE upTo[i - 1] \o <<insert(i), Space>>
    IN  upTo[Len(c)]

(* read_in_memory_image has nothing to fall back to: a failure inserts     *)
(* nothing and leaves the selection.                                       *)
InMemory(fails) == IF fails = {} THEN <<Anchor(images + 1), Space>> ELSE <<>>

(* A list of links is pasted as text.                                      *)
Pasted(c, fails) ==
    IF c = <<"memory">> THEN InMemory(fails)
    ELSE IF \A i \in DOMAIN c : c[i] = "link" THEN <<Word>>
    ELSE Loaded(c, fails)

(* insert_files and handle_clipboard_images after their awaits: the        *)
(* selection from..to is replaced in one user action.                      *)
PasteLands(k, from, to, fails) ==
    LET es == Pasted(reads[k], fails)
        new == Cardinality(Alive(es))
    IN  /\ es # <<>>
        /\ Changed(Spliced(buffer, from, to, es), attachments \o [i \in 1..new |-> images + i])
        /\ images' = images + new
        /\ reads' = RemoveAt(reads, k)
        /\ UNCHANGED <<composerPc, edits>>

PasteFails(k) ==
    /\ Pasted(reads[k], DOMAIN reads[k]) = <<>>
    /\ reads' = RemoveAt(reads, k)
    /\ UNCHANGED <<composerPc, buffer, attachments, suppress, timer, searched, images, edits, cleared>>

\* Fault: the flag is set before the early return.
ClearAlways ==
    /\ Edit /\ attachments' = <<>> /\ buffer' = <<>> /\ timer' = FALSE
    /\ suppress' = (buffer = <<>>) /\ cleared' = TRUE
    /\ UNCHANGED <<composerPc, reads, searched, images>>

(* clear, and the "changed" its set_text emits; nothing is emitted for an  *)
(* empty buffer.                                                           *)
Clear ==
    /\ Edit /\ attachments' = <<>> /\ buffer' = <<>>
    /\ IF buffer = <<>> THEN UNCHANGED <<timer, suppress, cleared>>
       ELSE timer' = FALSE /\ suppress' = FALSE /\ cleared' = TRUE
    /\ UNCHANGED <<composerPc, reads, searched, images>>
-----------------------------------------------------------------------------
Position(n) == CHOOSE i \in DOMAIN buffer : buffer[i] = Anchor(n)

\* Fault: the images are numbered in the order they were pasted.
AnchoredAsPasted == [k \in DOMAIN attachments |-> Position(attachments[k])]

Anchored == AllSifted([i \in 1..Len(buffer) |-> i], {Position(n) : n \in ToSet(attachments)})

Trim(text) ==
    LET said == {i \in DOMAIN text : text[i] # Space}
    IN  IF said = {} THEN <<>> ELSE SubSeq(text, Min(said), Max(said))

(* query(): the text between the anchors, a numbered placeholder for each, *)
(* and the images in that order.                                           *)
Placeholder(k) == [kind |-> "placeholder", image |-> k]

Query ==
    LET at == Anchored
        said(from, to) == Sifted(buffer, from, to, {Word, Space})
        cursor(k) == IF k = 0 THEN 1 ELSE at[k] + 1
        upTo[k \in 0..Len(at)] ==
            IF k = 0 THEN <<>>
            ELSE upTo[k - 1] \o said(cursor(k - 1), at[k] - 1) \o <<Placeholder(k)>>
    IN  [text |-> Trim(upTo[Len(at)] \o said(cursor(Len(at)), Len(buffer))),
         images |-> [k \in DOMAIN at |-> buffer[at[k]].image]]

(* The section of the prompt: each placeholder with an image shows it.     *)
Segments(prompt) ==
    [i \in DOMAIN prompt.text |->
        IF /\ prompt.text[i].kind = "placeholder"
           /\ prompt.text[i].image \in DOMAIN prompt.images
        THEN Anchor(prompt.images[prompt.text[i].image]) ELSE prompt.text[i]]
-----------------------------------------------------------------------------
ComposerNext ==
    \/ DebounceEnds
    \/ Clear
    \/ \E i \in 0..Len(buffer) : UndoErase(i) \/ \E e \in {Word, Space} : TypeAt(i, e)
    \/ \E i \in 1..Len(buffer) : EraseAt(i)
    \/ \E c \in Clipboards : BeginPaste(c)
    \/ \E k \in DOMAIN reads, from, to \in 0..Len(buffer) :
          \E fails \in SUBSET DOMAIN reads[k] : from <= to /\ PasteLands(k, from, to, fails)
    \/ \E k \in DOMAIN reads : PasteFails(k)

ComposerSpec == ComposerInit /\ [][ComposerNext]_composerVars
-----------------------------------------------------------------------------
(* The chat shows the prompt as it was composed: every image that is in    *)
(* the buffer is sent and comes back at its place in the text, under a     *)
(* number no other image of the prompt has, and nothing that was erased,   *)
(* cleared or undone comes with it.                                        *)
PromptIsShownAsComposed ==
    /\ Alive(buffer) = ToSet(attachments)
    /\ Segments(Query) = Trim(AllSifted(buffer, ToSet(buffer) \ {Object}))

(* When the debounce is not running the search is for what the user sees,  *)
(* unless the launcher cleared the input itself.                           *)
SearchesFollowTyping ==
    composerPc = "on" /\ ~timer /\ ~cleared => searched = TextOf(buffer)

(* A prompt is shown as it was composed, with the images that were pasted  *)
(* into it, and the search follows what is typed (InputView).              *)
InputIsFaithful == PromptIsShownAsComposed /\ SearchesFollowTyping
=============================================================================
