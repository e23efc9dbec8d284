----------------------------- MODULE EventPages -----------------------------
(***************************************************************************)
(* GET /v1/runs/{run_id}/events-page: RunState.event_page, which pages the *)
(* events in memory, or RunRecordStore.event_page, which pages the rows,   *)
(* when memory does not hold the run.  A client scrolls through the log of *)
(* one run while it grows and while the backend restarts.                  *)
(*                                                                         *)
(* An event is its seq.  A row has the seq column and the event's own seq; *)
(* the rows are found by the column, the cursors are the event's.  The     *)
(* store is asked for runs that memory does not hold, to which nothing is  *)
(* appended, so that its two reads of the rows are one step.               *)
(***************************************************************************)
EXTENDS Selection

CONSTANTS
    Limits,        \* page sizes a client asks for
    MaxEvents      \* bound: events of the run

ASSUME PageLimitAssumption == Limits \subseteq Nat \ {0}
ASSUME EventAssumption == MaxEvents \in Nat

VARIABLES
    inMemory,      \* RunState._runs holds the run
    events,        \* its events there
    rows,          \* its rows of run_events
    window,        \* the events the client shows, <<>> before its first page
    edges          \* what it has been told: more events before, after

pageVars == <<inMemory, events, rows, window, edges>>

---------------------------------------------------------------------------
(* Pages.                                                                  *)

Least(a, b) == IF a < b THEN a ELSE b
Oldest(s, n) == SubSeq(s, 1, Least(n, Len(s)))
Newest(s, n) == SubSeq(s, Len(s) - Least(n, Len(s)) + 1, Len(s))

\* A request is for the end of the log, for what comes before a seq or for
\* what comes after one.
PageRequests == {[kind |-> "end", seq |-> 0]} \cup [kind : {"before", "after"}, seq : 0 .. MaxEvents]

PageOfBug(shown, first, last) ==
    [events |-> shown,
     has_more_before |-> shown # <<>> /\ shown[1] > first,
     has_more_after |-> shown # <<>> /\ shown[Len(shown)] <= last]

\* shown: the events of the page; first and last: the ends of the log
PageOf(shown, first, last) ==
    [events |-> shown,
     has_more_before |-> shown # <<>> /\ shown[1] > first,
     has_more_after |-> shown # <<>> /\ shown[Len(shown)] < last]

Cut(s, kind, n) == IF kind = "after" THEN Oldest(s, n) ELSE Newest(s, n)

Wanted(req, seq) == CASE req.kind = "end" -> TRUE
                      [] req.kind = "before" -> seq < req.seq
                      [] req.kind = "after" -> seq > req.seq

\* _build_event_page
MemoryPage(all, req, limit) ==
    LET shown == Cut(Picked(all, {i \in DOMAIN all : Wanted(req, all[i])}), req.kind, limit)
    IN PageOf(shown, IF all = <<>> THEN 0 ELSE all[1], IF all = <<>> THEN 0 ELSE all[Len(all)])

FoundRows(all, req) == Picked(all, {i \in DOMAIN all : Wanted(req, all[i].row)})

StoredPageBug(all, req, limit) ==
    LET found == Cut(FoundRows(all, req), req.kind, limit + 1)
    IN PageOf([i \in 1 .. Len(found) |-> found[i].seq],
              IF all = <<>> THEN 0 ELSE all[1].row, IF all = <<>> THEN 0 ELSE all[Len(all)].row)

\* RunRecordStore.event_page.  The row beyond the page is fetched and dropped.
StoredPage(all, req, limit) ==
    LET found == Cut(FoundRows(all, req), req.kind, limit + 1)
        shown == Cut(found, req.kind, limit)
    IN PageOf([i \in 1 .. Len(shown) |-> shown[i].seq],
              IF all = <<>> THEN 0 ELSE all[1].row, IF all = <<>> THEN 0 ELSE all[Len(all)].row)

\* RunState.event_page
Page(req, limit) == IF inMemory THEN MemoryPage(events, req, limit)
                                ELSE StoredPage(rows, req, limit)

---------------------------------------------------------------------------
(* The run and its client.                                                 *)

NextSeqIn(s) == IF s = <<>> THEN 0 ELSE s[Len(s)] + 1
NextRow == IF rows = <<>> THEN 0 ELSE rows[Len(rows)].row + 1

PagesInit ==
    /\ inMemory = TRUE
    /\ events = <<>>
    /\ rows = <<>>
    /\ window = <<>>
    /\ edges = [before |-> TRUE, after |-> TRUE]

\* append_event, memory and row in one critical section.
AppendEvent ==
    LET seq == NextSeqIn(events)
    IN /\ inMemory /\ Len(events) < MaxEvents
       /\ events' = Append(events, seq)
       /\ rows' = Append(rows, [row |-> NextRow, seq |-> seq])
       /\ UNCHANGED <<inMemory, window, edges>>

\* The backend starts anew; a later get_run loads the run.
Restart == /\ inMemory
           /\ inMemory' = FALSE
           /\ events' = <<>>
           /\ UNCHANGED <<rows, window, edges>>

Load == /\ ~inMemory
        /\ inMemory' = TRUE
        /\ events' = [i \in 1 .. Len(rows) |-> rows[i].seq]
        /\ UNCHANGED <<rows, window, edges>>

\* The client opens the run at the end of its log ..
OpenRun ==
    \E limit \in Limits :
        LET page == Page([kind |-> "end", seq |-> 0], limit)
        IN /\ window' = page.events
           /\ edges' = [before |-> page.has_more_before, after |-> page.has_more_after]
           /\ UNCHANGED <<inMemory, events, rows>>

\* .. scrolls back while there is more ..
FetchOlder ==
    \E limit \in Limits :
        LET page == Page([kind |-> "before", seq |-> window[1]], limit)
        IN /\ window # <<>> /\ edges.before
           /\ window' = page.events \o window
           /\ edges' = [edges EXCEPT !.before = page.has_more_before]
           /\ UNCHANGED <<inMemory, events, rows>>

\* .. and asks for what is new.  An empty page has no more after it.
FetchNewer ==
    \E limit \in Limits :
        LET page == Page([kind |-> "after", seq |-> window[Len(window)]], limit)
        IN /\ window # <<>>
           /\ window' = window \o page.events
           /\ edges' = [edges EXCEPT !.after = page.has_more_after]
           /\ UNCHANGED <<inMemory, events, rows>>

PagesNext == AppendEvent \/ Restart \/ Load \/ OpenRun \/ FetchOlder \/ FetchNewer
PagesSpec == PagesInit /\ [][PagesNext]_pageVars

PageTypeOK ==
    /\ inMemory \in BOOLEAN
    /\ events \in Seq(Nat)
    /\ rows \in Seq([row : Nat, seq : Nat])
    /\ window \in Seq(Nat)
    /\ edges \in [before : BOOLEAN, after : BOOLEAN]

---------------------------------------------------------------------------
Logged == [i \in 1 .. Len(rows) |-> rows[i].seq]

\* Memory and database answer every request alike, so a client does not
\* notice a restart between two pages.
PagesAgree ==
    inMemory => \A req \in PageRequests, limit \in Limits :
                    MemoryPage(events, req, limit) = StoredPage(rows, req, limit)

\* What the client shows is an interval of the log: pages of any size, in
\* any order, fetched while events arrive, neither overlap nor leave a gap.
WindowIsAnInterval ==
    window # <<>> => window = SubSeq(Logged, window[1] + 1, window[1] + Len(window))

\* A client is told that something comes before what it shows, also after
\* other pages and a restart, exactly if it has not the beginning of the log.
ToldTheBeginning == window # <<>> => edges.before = (window[1] > 0)

\* A client that asks for the newest events is told that there are more
\* exactly if it has not got the end of the log.
ToldTheEnd ==
    [][OpenRun \/ FetchNewer => (edges'.after <=> Len(rows) > 0 /\ window'[Len(window')] < Len(rows) - 1)]_pageVars

\* A client that scrolls sees the log, wherever its pages come from.
PagesFit == PagesAgree /\ WindowIsAnInterval

\* It knows at both ends whether there is more.
EdgesAreTold == []ToldTheBeginning /\ ToldTheEnd

=============================================================================
