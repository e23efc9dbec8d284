----------------------------- MODULE EventStream -----------------------------
(***************************************************************************)
(* GET /v1/runs/{run_id}/events: RunState.event_stream, a generator that a *)
(* client of the run reads beside everything else that happens to the run. *)
(* The client of a run remembers the number of the last event it has got   *)
(* and asks for what comes after it when it connects again.                *)
(***************************************************************************)
EXTENDS RunLifecycle, Selection

VARIABLES
    conn,          \* the generator that serves the client of a run
    received       \* the events the client has got, over all its connections

streamVars == <<conn, received>>
streamedVars == <<vars, streamVars>>

\* at: "off" (no connection), "poll" (about to read), "send" (yielding batch)
\* or "over" (ended by the backend); cursor: cursor_seq; status: as last read
Conn == [at : {"off", "poll", "send", "over"}, cursor : Int, batch : Seq(Event),
         status : Statuses]
NoConn == [at |-> "off", cursor |-> -1, batch |-> <<>>, status |-> "running"]

LastSeq(es) == IF es = <<>> THEN -1 ELSE es[Len(es)].seq

InitStream == /\ conn = [r \in Runs |-> NoConn]
              /\ received = [r \in Runs |-> <<>>]

Connect(r) ==
    /\ up = "up" /\ Known(mem[r]) /\ conn[r].at = "off"
    /\ conn' = [conn EXCEPT ![r] = [NoConn EXCEPT !.at = "poll", !.cursor = LastSeq(received[r])]]
    /\ UNCHANGED <<vars, received>>

CanReadBug(r) == TRUE
CanRead(r) == LockFree

Pending(r) == Picked(events[r], {i \in DOMAIN events[r] : events[r][i].seq > conn[r].cursor})

EndsEarlyBug(r) == Terminal(mem[r])
EndsBug(r) == Pending(r) = <<>> /\ mem[r].status \in {"completed", "failed"}
Ends(r) == Pending(r) = <<>> /\ Terminal(mem[r])

\* Events and status are read together, under the lock.  With nothing new
\* the generator sleeps and reads again, or ends if the run has.
ReadEvents(r) ==
    /\ conn[r].at = "poll"
    /\ CanRead(r)
    /\ Pending(r) # <<>> \/ Ends(r)
    /\ conn' = [conn EXCEPT ![r].at = IF Ends(r) THEN "over" ELSE "send",
                            ![r].batch = Pending(r),
                            ![r].status = mem[r].status]
    /\ UNCHANGED <<vars, received>>

YieldEvent(r) ==
    LET e == Head(conn[r].batch)
        rest == Tail(conn[r].batch)
    IN /\ conn[r].at = "send"
       /\ conn' = [conn EXCEPT ![r].at = IF rest = <<>> THEN "poll" ELSE "send",
                               ![r].cursor = e.seq,
                               ![r].batch = rest]
       /\ received' = [received EXCEPT ![r] = Append(@, e)]
       /\ UNCHANGED vars

\* The client goes away, or the network between: the rest of the batch is lost.
Disconnect(r) ==
    /\ conn[r].at \in {"poll", "send"}
    /\ conn' = [conn EXCEPT ![r] = NoConn]
    /\ UNCHANGED <<vars, received>>

\* Whatever else the backend does; its connections die with it.
BackendStep ==
    /\ Next
    /\ conn' = IF up' = "down" THEN [r \in Runs |-> NoConn] ELSE conn
    /\ UNCHANGED received

StreamedInit == Init /\ InitStream
StreamedNext ==
    \/ BackendStep
    \/ \E r \in Runs : Connect(r) \/ ReadEvents(r) \/ YieldEvent(r) \/ Disconnect(r)

StreamedSpec == StreamedInit /\ [][StreamedNext]_streamedVars

---------------------------------------------------------------------------

\* A client gets every stored event of a run once and in order, through any
\* number of connections, and keeps nothing the database has not: the lock
\* that append_event holds until the event is stored keeps it from readers.
Log == INSTANCE EventLog WITH log <- rowEvents, read <- received
StreamsTheLog == Log!Spec

\* For text runs, since audio runs may be finished twice (CancelledStaysCancelled).
\* A stream that ends has given its client the whole log, also of what comes
\* later.  Not so for a blocked run, which its worker finishes a second
\* time, and a run rejected at submission, whose event is appended last.
EndedStreamIsComplete ==
    \A r \in TextRuns : conn[r].at = "over" /\ conn[r].status \notin {"blocked", "rejected"}
        => received[r] = events[r]

\* A client whose stream ends knows how the run ended.
EndedStreamToldTheEnd ==
    \A r \in TextRuns : conn[r].at = "over" /\ conn[r].status # "rejected"
        => HasEvent(received[r], Announces(conn[r].status))

\* What a client has when its stream ends.
EndedStreamIsWhole == EndedStreamIsComplete /\ EndedStreamToldTheEnd

\* The generator is scheduled and its client reads.
StreamFairness ==
    /\ \A r \in Runs : WF_streamedVars(ReadEvents(r)) /\ WF_streamedVars(YieldEvent(r))
    /\ \A p \in Procs : WF_streamedVars(PerformStep(p) /\ UNCHANGED streamVars)
FairStreamedSpec == StreamedSpec /\ StreamFairness

\* The stream of a run that is over ends, if nobody hangs up.
StreamEnds ==
    \A r \in Runs : conn[r].at \in {"poll", "send"} /\ Terminal(mem[r])
        ~> conn[r].at \in {"over", "off"}

=============================================================================
