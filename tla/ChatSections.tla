---------------------------- MODULE ChatSections ----------------------------
(***************************************************************************)
(* How chat_envelope.py cuts the text of an assistant into sections: lines *)
(* like "Tests: passed" become headings, the text is split at headings or, *)
(* without any, at its first paragraph, and the sections are normalized:   *)
(* known titles get one name each, sections of one title are joined, and   *)
(* the lines of a verification are rewritten.                              *)
(*                                                                         *)
(* A line is a record; what it says is the position it had in the text,    *)
(* and whether all of it is left.  List marks, spaces and the full stops   *)
(* that are put at the end of lines are wording, and left out.             *)
(***************************************************************************)
EXTENDS Integers, Sequences, FiniteSets, SequencesExt

CONSTANT MaxTextLines      \* bound: lines of a text

\* A few of the labels, and a title that is none of them.
CanonicalTitle == [tests |-> "Verification", checks |-> "Verification", notes |-> "Notes", other |-> "other"]
\* _SECTION_LABEL_TITLES
Canonical(title) == IF title \in DOMAIN CanonicalTitle THEN CanonicalTitle[title] ELSE title

\* check names a command, how it ended, and why, like "`pytest` failed because
\* the fixture is gone"; note is a remark that does not belong to the
\* verification; inline is a sentence with a label after it in the same line;
\* body is the text after a label.
TextLines == [kind : {"text", "check", "note", "blank", "fence"}]
             \cup [kind : {"label"}, title : {"tests"}, body : {"", "text", "check"}]
             \cup [kind : {"inline"}, title : {"notes"}, body : {"text"}]
             \cup [kind : {"head"}, title : {"checks", "other"}]

VARIABLES
    chatText,    \* the lines of a message
    sections     \* its sections

chatVars == <<chatText, sections>>

---------------------------------------------------------------------------
(* The algorithm, on items that know the line they come from.              *)

Item(line, i, n) == [line |-> line, at |-> i, part |-> n, whole |-> TRUE]
Numbered(lines) == [i \in DOMAIN lines |-> Item(lines[i], i, 1)]
Before(item) == Item([kind |-> "text"], item.at, 1)
Heading(item) == Item([kind |-> "head", title |-> Canonical(item.line.title)], item.at, 1)
After(item) == IF item.line.body = "" THEN <<>> ELSE <<Item([kind |-> item.line.body], item.at, 2)>>

InFence(items, i) == Cardinality({j \in 1 .. (i - 1) : items[j].line.kind = "fence"}) % 2 = 1

PromotedFenceBug(items) ==
    FlattenSeq([i \in DOMAIN items |->
        LET item == items[i] IN
        CASE item.line.kind = "label" -> <<Heading(item)>> \o After(item)
          [] item.line.kind = "inline" -> <<Before(item), Heading(item)>> \o After(item)
          [] OTHER -> <<item>>])
\* _promote_inline_section_labels: not within a code fence
Promoted(items) ==
    FlattenSeq([i \in DOMAIN items |->
        LET item == items[i] IN
        CASE item.line.kind = "label" /\ ~InFence(items, i) -> <<Heading(item)>> \o After(item)
          [] item.line.kind = "inline" /\ ~InFence(items, i) -> <<Before(item), Heading(item)>> \o After(item)
          [] OTHER -> <<item>>])

Heads(items) == {i \in DOMAIN items : items[i].line.kind = "head"}
Content(items) == SelectSeq(items, LAMBDA x : x.line.kind # "blank")
Section(title, items) == IF Content(items) = <<>> THEN <<>> ELSE <<[title |-> title, items |-> items]>>

\* The text before the first heading gets the title leading; each heading, in
\* a fence or not, begins a section; sections without text go.
SplitAtHeads(items, leading) ==
    LET heads == SetToSortSeq(Heads(items), <)
        end(k) == IF k < Len(heads) THEN heads[k + 1] - 1 ELSE Len(items)
    IN Section(leading, SubSeq(items, 1, heads[1] - 1))
       \o FlattenSeq([k \in DOMAIN heads |-> Section(items[heads[k]].line.title, SubSeq(items, heads[k] + 1, end(k)))])

\* _plain_sections_from_text: with two paragraphs or more the first one is
\* what was done
PlainSections(items) ==
    LET starts == {i \in DOMAIN items : items[i].line.kind # "blank" /\ \E j \in 1 .. (i - 1) :
                                            items[j].line.kind # "blank" /\ items[i - 1].line.kind = "blank"}
    IN IF starts = {} THEN Section("Result", items)
       ELSE LET second == CHOOSE i \in starts : \A j \in starts : i <= j
            IN Section("What I Did", SubSeq(items, 1, second - 1)) \o Section("Result", SubSeq(items, second, Len(items)))

\* split_sections_from_text
SplitSections(items) ==
    LET promoted == Promoted(items)
        split == IF Heads(promoted) = {} THEN <<>> ELSE SplitAtHeads(promoted, "Result")
    IN IF split # <<>> THEN split
       ELSE PlainSections(promoted)

\* _expand_embedded_section_labels
Expanded(section) ==
    LET promoted == Promoted(section.items)
    IN IF Heads(promoted) = {} THEN <<[section EXCEPT !.items = promoted]>> ELSE SplitAtHeads(promoted, section.title)

\* _append_chat_section: joined to the section of this title
AppendSection(all, section) ==
    IF section.items = <<>> THEN all
    ELSE IF \E i \in DOMAIN all : all[i].title = section.title
    THEN LET i == CHOOSE j \in DOMAIN all : all[j].title = section.title
         IN [all EXCEPT ![i].items = @ \o section.items]
    ELSE Append(all, section)

IsNote(item) == item.line.kind = "note"
\* _normalize_verification_line: of a line that names a command and how it
\* ended this is left, and a detail after a colon at its end; no reason
WithoutReason(item) == [item EXCEPT !.whole = item.line.kind # "check"]
\* the sections that one section becomes: remarks leave the verification
Normal(section) ==
    LET title == Canonical(section.title)
        items == Content(section.items)
    IN IF title = "Verification"
       THEN LET checks == SelectSeq(items, LAMBDA x : ~IsNote(x))
            IN <<[title |-> title, items |-> [i \in DOMAIN checks |-> WithoutReason(checks[i])]],
                 [title |-> "Notes", items |-> SelectSeq(items, IsNote)]>>
       ELSE <<[title |-> title, items |-> items]>>

\* _normalize_chat_sections
Normalized(all) ==
    LET expanded == FlattenSeq([i \in DOMAIN all |-> Expanded(all[i])])
    IN FoldLeft(AppendSection, <<>>, FlattenSeq([i \in DOMAIN expanded |-> Normal(expanded[i])]))

---------------------------------------------------------------------------
ChatInit == chatText = <<>> /\ sections = <<>>

\* coerce_assistant_text_to_envelope, as far as it is about sections, for a
\* text with one more line
Coerce ==
    /\ Len(chatText) < MaxTextLines
    /\ \E line \in TextLines : chatText' = Append(chatText, line)
    /\ sections' = Normalized(SplitSections(Numbered(chatText')))

ChatNext == Coerce
ChatSpec == ChatInit /\ [][ChatNext]_chatVars

---------------------------------------------------------------------------
(* Properties.                                                             *)

Fenced(i) == InFence(Numbered(chatText), i)
\* What the passes do not expect: a heading in a code block, or an empty line
\* in one, splits the block.
FencesAreWhole == \A i \in DOMAIN chatText : Fenced(i) => chatText[i].kind \notin {"head", "blank"}

Titled(i) == chatText[i].kind \in {"label", "inline", "head"} /\ ~Fenced(i)
LastTitle(i) == {j \in 1 .. i : Titled(j) /\ \A k \in (j + 1) .. i : ~Titled(k)}

\* The pieces of text, each with the position of the title that it stands
\* under, 0 for none.
Pieces ==
    {<<i, 1, IF LastTitle(i - 1) = {} THEN 0 ELSE CHOOSE j \in LastTitle(i - 1) : TRUE>> :
        i \in {j \in DOMAIN chatText : chatText[j].kind \in {"text", "check", "note", "fence", "inline"} \/ (chatText[j].kind = "label" /\ Fenced(j))}}
    \cup {<<i, 2, i>> : i \in {j \in DOMAIN chatText : Titled(j) /\ chatText[j].kind # "head" /\ chatText[j].body # ""}}

TitleOf(piece) ==
    LET title == Canonical(chatText[piece[3]].title)
    IN IF title = "Verification" /\ piece[2] = 1 /\ chatText[piece[1]].kind = "note" THEN "Notes" ELSE title

Holds(section, piece) ==
    \E k \in DOMAIN section.items : section.items[k].at = piece[1] /\ section.items[k].part = piece[2]

\* It is a check that stands under a heading for checks: its reason is dropped.
LosesReason(piece) ==
    LET line == chatText[piece[1]]
    IN /\ (IF piece[2] = 2 THEN line.body ELSE line.kind) = "check"
       /\ piece[3] # 0 /\ TitleOf(piece) = "Verification"

\* Nothing an assistant says is lost or moved, but the reason in a line under a
\* heading for checks that names a command and how it ended: each piece of its
\* text is in one section, that of the title it stands under, at one place
\* there, in the order of the text, and whole, however labels, headings and
\* code blocks follow one another; titles are not repeated.
TextStaysUnderItsTitle ==
    LET pieces == Pieces IN
    chatText # <<>> /\ FencesAreWhole =>
        /\ \A piece \in pieces : Cardinality({s \in DOMAIN sections : Holds(sections[s], piece)}) = 1
        /\ \A piece \in pieces, s \in DOMAIN sections :
             Holds(sections[s], piece) => IF piece[3] = 0 THEN sections[s].title \in {"What I Did", "Result"}
                                          ELSE sections[s].title = TitleOf(piece)
        /\ \A piece \in pieces, s \in DOMAIN sections : \A item \in Range(sections[s].items) :
             item.at = piece[1] /\ item.part = piece[2] => (item.whole <=> ~ LosesReason(piece))
        /\ \A s \in DOMAIN sections, k, l \in 1 .. MaxTextLines * 2 :
             k < l /\ l <= Len(sections[s].items) =>
                 LET a == sections[s].items[k] b == sections[s].items[l]
                 IN a.at < b.at \/ (a.at = b.at /\ a.part < b.part)
        /\ \A s, t \in DOMAIN sections : sections[s].title = sections[t].title => s = t

=============================================================================
