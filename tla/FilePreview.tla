---------------------------- MODULE FilePreview ----------------------------
(***************************************************************************)
(* WorkspaceService.inspect_file: a phone pages through a text file that   *)
(* an agent may be writing, replacing or removing.  A request looks at the *)
(* file three times: its size, the bytes of a page, the bytes to search.   *)
(*                                                                         *)
(* A file is a sequence of bytes; "h" and "t" together are one character.  *)
(* Each character stands for a line of its own, and "ht" is the one that   *)
(* matches what is searched for.                                           *)
(***************************************************************************)
EXTENDS Selection

CONSTANTS
    MaxFileBytes,      \* bound: bytes of a file
    PageSizes,         \* bound: the sizes that the phone asks for
    MaxPageBytes,      \* MAX_TEXT_PREVIEW_BYTES
    MaxSearchBytes,    \* MAX_TEXT_SEARCH_BYTES
    MaxMatches         \* MAX_TEXT_SEARCH_MATCHES

ASSUME PreviewAssumption == {MaxPageBytes, MaxSearchBytes, MaxMatches} \cup PageSizes \subseteq Nat

VARIABLES
    there,        \* the file exists
    bytes,        \* what is in it
    rewritten,    \* it did more than grow since the phone began to read
    asked,        \* the request that is being answered
    offset,       \* where the phone goes on: text_preview_next_offset
    pages,        \* the pages that it got
    read,         \* where the last one ends
    torn,         \* one of them ended within a character
    told,         \* it was told that there is no more
    answer        \* of the last answer, the matching lines that its page shows
                  \* and those that were counted

previewVars == <<there, bytes, rewritten, asked, offset, pages, read, torn, told, answer>>

NotAsked == [step |-> "none"]
NoAnswer == [shown |-> 0, query |-> FALSE, count |-> 0]

PreviewInit ==
    /\ there = TRUE /\ bytes = <<>> /\ rewritten = FALSE
    /\ asked = NotAsked
    /\ offset = 0 /\ pages = <<>> /\ read = 0 /\ torn = FALSE /\ told = FALSE
    /\ answer = NoAnswer

---------------------------------------------------------------------------
(* The file.                                                               *)

AgentAppends ==
    /\ there
    /\ \E written \in {<<"a">>, <<"h", "t">>} :
         Len(bytes) + Len(written) <= MaxFileBytes /\ bytes' = bytes \o written
    /\ UNCHANGED <<there, rewritten, asked, offset, pages, read, torn, told, answer>>

AgentRewrites ==
    /\ there /\ ~rewritten /\ bytes # <<>>
    /\ bytes' = <<>> /\ rewritten' = TRUE
    /\ UNCHANGED <<there, asked, offset, pages, read, torn, told, answer>>

AgentRemoves ==
    /\ there
    /\ there' = FALSE
    /\ UNCHANGED <<bytes, rewritten, asked, offset, pages, read, torn, told, answer>>

---------------------------------------------------------------------------
(* A request.                                                              *)

Smaller(a, b) == IF a < b THEN a ELSE b
Slice(data, from, length) == SubSeq(data, from + 1, Smaller(from + length, Len(data)))

\* What bytes become: the characters of UTF-8, or other characters altogether
\* when a character is cut at either end.
Whole(data) == data = <<>> \/ (data[1] # "t" /\ data[Len(data)] # "h")
Characters(data) == Only(data, {"a", "h"})
Decoded(data) == IF Whole(data) THEN Characters(data) ELSE <<"other">>

\* The size is looked at first.
Inspect ==
    /\ asked = NotAsked /\ ~told /\ there
    /\ \E limit \in PageSizes, query \in BOOLEAN :
         asked' = [step |-> "page", limit |-> Smaller(limit, MaxPageBytes), query |-> query, size |-> Len(bytes)]
    /\ UNCHANGED <<there, bytes, rewritten, offset, pages, read, torn, told, answer>>

HasMoreGrownBug(data, limit, size, end) == size > end
\* A byte more than the page was there, or the size said so.
HasMore(data, limit, size, end) == Len(data) > limit \/ size > end

\* _text_preview: nothing is read for a page of no bytes; a file that is gone
\* by now is answered 403
ReadPage ==
    /\ asked.step = "page"
    /\ IF asked.limit = 0
       THEN asked' = [step |-> "search", query |-> asked.query, size |-> asked.size, limit |-> 0,
                      page |-> <<>>, more |-> asked.size > offset]
       ELSE IF ~there THEN asked' = NotAsked
       ELSE LET data == Slice(bytes, offset, asked.limit + 1)
                page == Slice(data, 0, asked.limit)
            IN asked' = [step |-> "search", query |-> asked.query, size |-> asked.size, limit |-> asked.limit,
                         page |-> page, more |-> HasMore(data, asked.limit, asked.size, offset + Len(page))]
    /\ UNCHANGED <<there, bytes, rewritten, offset, pages, read, torn, told, answer>>

Matching(lines) == Len(Only(lines, {"h"}))
NextOffsetBug(end) == end + 1
NextOffset(end) == end
\* _text_search, and the answer: all matching lines are counted, though only
\* the first MaxMatches are listed.  A file that is gone by now fails the
\* request, whose page the phone does not get.
SearchAndAnswer ==
    /\ asked.step = "search"
    /\ asked' = NotAsked
    /\ IF asked.query /\ ~there THEN UNCHANGED <<offset, pages, read, torn, told, answer>>
       ELSE LET lines == IF asked.query THEN Decoded(Slice(bytes, 0, MaxSearchBytes)) ELSE <<>>
                end == offset + Len(asked.page)
            IN /\ answer' = [shown |-> Matching(Decoded(asked.page)), query |-> asked.query, count |-> Matching(lines)]
               /\ pages' = pages \o Decoded(asked.page)
               /\ read' = end /\ torn' = (torn \/ ~Whole(asked.page))
               /\ told' = (~asked.more)
               /\ offset' = IF asked.more /\ asked.limit > 0 THEN NextOffset(end) ELSE offset
    /\ UNCHANGED <<there, bytes, rewritten>>

PreviewNext == AgentAppends \/ AgentRewrites \/ AgentRemoves \/ Inspect \/ ReadPage \/ SearchAndAnswer
PreviewSpec == PreviewInit /\ [][PreviewNext]_previewVars

---------------------------------------------------------------------------
(* Properties.                                                             *)

\* A phone that follows the next offsets through a file that only grows, by
\* pages of any sizes that cut no character, has at each moment the beginning
\* of the file, nothing twice and nothing left out.
PagesJoinUp ==
    ~rewritten /\ ~torn => pages = Characters(SubSeq(bytes, 1, read))

\* A page that says that there is no more ends where the file ends as it is
\* read, and not only where it ended when its size was looked at.
ToldWhenRead ==
    [][asked.step = "page" /\ asked'.step = "search" /\ ~rewritten /\ asked.limit > 0 /\ ~asked'.more =>
        offset + Len(asked'.page) >= Len(bytes)]_previewVars

\* A page that says that there is more is not empty, so that the next offset
\* is ahead, unless the file was rewritten: a phone that follows the offsets
\* cannot go in circles.
OffsetsAdvance ==
    [][asked.step = "page" /\ asked'.step = "search" /\ ~rewritten /\ asked'.limit > 0 /\ asked'.more =>
        asked'.page # <<>>]_previewVars

\* The search of a request finds each matching line that the page of the same
\* request shows, though it reads the file again, when neither the page nor
\* the part that is searched cuts a character.
SearchFindsWhatIsShown ==
    ~rewritten /\ ~torn /\ answer.query /\ Len(bytes) <= MaxSearchBytes =>
        answer.shown <= answer.count

\* What the phone has of a file is what is in it, and what its search counts.
PreviewIsFaithful == PagesJoinUp /\ SearchFindsWhatIsShown

\* What it is told of the rest is so as the page is read.
MoreIsHonest == ToldWhenRead /\ OffsetsAdvance

=============================================================================
