-------------------------- MODULE StorageInvariant --------------------------
(* What is known of the writes that threads have still to make, with any    *)
(* number of database faults and crashes: who is inside the lock, what he   *)
(* will write there, and that an end is in the log before the status that   *)
(* says so.  TLC checks StorageInv, ContractProofs proves it.               *)
EXTENDS RunInvariant

---------------------------------------------------------------------------
(* The lock.                                                               *)

\* Calls that do not stand in the middle of another call.
PlainCalls == {"append", "meta", "status"}

\* Script s begins with the steps w of one call and has whole calls after it.
Shape(s, w) ==
    /\ Len(w) <= Len(s)
    /\ \A i \in 1 .. Len(w) : s[i].do = w[i]
    /\ \A i \in Len(w) + 1 .. Len(s) : s[i].do \in PlainCalls

\* What may be left of store_run, and of the calls that write under the lock.
StoreWrites == {<<"put", "copy", "upsert", "copy", "session">>,
                <<"copy", "upsert", "copy", "session">>,
                <<"upsert", "copy", "session">>, <<"copy", "session">>, <<"session">>}
LockedWrites == {<<"append_row">>, <<"upsert", "session">>, <<"update_row", "session">>,
                 <<"session">>}

\* The thread inside the lock is in the middle of a call; of the others only
\* the handler that stores its run is.
ScriptInTurn(p) ==
    IF p \in holder THEN \E w \in LockedWrites : Shape(todo[p], w)
    ELSE \/ Shape(todo[p], <<>>)
         \/ p[1] = "handler" /\ \E w \in StoreWrites : Shape(todo[p], w)

---------------------------------------------------------------------------
(* What is written.                                                        *)

WritesRecord(p) == Next0(p, "upsert") \/ Next0(p, "update_row") \/ Next0(p, "session")

\* Inside the lock a thread writes what memory holds.
WritesMemory(p) == p \in holder /\ WritesRecord(p) => copy[p] = mem[RunOf(p)]

\* The row that store_run inserts outside the lock is the first of its run,
\* and it is not further than memory.
Inserts(p) == p \notin holder /\ \E i \in 1 .. Len(todo[p]) : todo[p][i].do = "upsert"
InsertsFirst(p) == Inserts(p) => ~Known(row[RunOf(p)])
InsertsRecent(p) ==
    p \notin holder /\ Next0(p, "upsert") =>
        Known(copy[p]) /\ (Terminal(copy[p]) => Terminal(mem[RunOf(p)]))

\* No row says that a run is over while memory says it is not.
RowNotAhead(r) == Known(mem[r]) /\ Terminal(row[r]) => Terminal(mem[r])

---------------------------------------------------------------------------
(* What is announced.                                                      *)

\* Event type e is in the log of the run, in the table and in memory.
Told(r, e) == HasEvent(rowEvents[r], e) /\ (Known(mem[r]) => HasEvent(events[r], e))

\* A record that says the run is over is one that was announced, or that of
\* a text run which was rejected when it was submitted.
RejectedAtOnce(r, rec) == r \in TextRuns /\ rec.status = "rejected"
Justified(r, rec) == Terminal(rec) => Told(r, Announces(rec.status)) \/ RejectedAtOnce(r, rec)

WritesJustified(p) ==
    /\ WritesRecord(p) => Justified(RunOf(p), copy[p])
    /\ Next0(p, "update_row") => /\ Terminal(copy[p])
                                 /\ Told(RunOf(p), Announces(copy[p].status))

\* Only the handler of an audio run updates its metadata, only text runs are
\* stored as rejected, and a script that stores a run does not end it.
MetaIsAudio(p) ==
    /\ \A i \in 1 .. Len(todo[p]) :
          todo[p][i].do = "meta" => p[1] = "handler" /\ RunOf(p) \in AudioRuns
    /\ p \in holder /\ Next0(p, "upsert") => p[1] = "handler" /\ RunOf(p) \in AudioRuns
    /\ Next0(p, "put") =>
         /\ Head0(p).rec.status = "rejected" => RunOf(p) \in TextRuns
         /\ \A i \in 1 .. Len(todo[p]) : todo[p][i].do # "status"

\* Event type e is in the log before p makes its i-th call, unless p dies or
\* a write raises: then p does not make that call.
Promised(p, e, i) ==
    \/ Told(RunOf(p), e)
    \/ Next0(p, "append_row") /\ StoredEvent(RunOf(p)).type = e
    \/ \E j \in 1 .. i - 1 : todo[p][j].do = "append" /\ todo[p][j].event = e

EndsAreTold(p) ==
    \A i \in 1 .. Len(todo[p]) :
        todo[p][i].do = "status" => Promised(p, Announces(todo[p][i].rec.status), i)

\* Where a worker is while its agent runs and until it has been finalized.
Monitoring == {"register", "loop", "poll", "pollStatus", "unblock", "flush", "unblock2", "stop",
               "outcome", "decide"}

\* The finalizer of a blocked run sets the status only: the event came before.
BlockedIsTold(r) ==
    outcome[r].blocked /\ pc[Worker(r)] \in Monitoring =>
        Promised(Worker(r), "run.blocked", Len(todo[Worker(r)]) + 1)

---------------------------------------------------------------------------

\* Where only the handler of an audio run can be.
AudioPlaces == {"upload", "check1", "transcribe", "check2", "checkFailed", "submit"}
AudioOnly == \A r \in Runs : pc[Handler(r)] \in AudioPlaces => r \in AudioRuns

ThreadOK(p) == /\ ScriptInTurn(p)
               /\ WritesMemory(p) /\ InsertsFirst(p) /\ InsertsRecent(p)
               /\ WritesJustified(p) /\ MetaIsAudio(p) /\ EndsAreTold(p)

RecordOK(r) == /\ RowNotAhead(r)
               /\ Justified(r, mem[r]) /\ Justified(r, row[r])
               /\ BlockedIsTold(r)

StorageInv == /\ Inv
              /\ \A p, q \in holder : p = q
              /\ AudioOnly
              /\ \A p \in Procs : ThreadOK(p)
              /\ \A r \in Runs : RecordOK(r)

=============================================================================
