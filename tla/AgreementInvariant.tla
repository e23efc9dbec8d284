-------------------------- MODULE AgreementInvariant --------------------------
(* What is known of memory and database as long as no database write has    *)
(* raised: whose turn it is to bring a run to its end, and which write that *)
(* is still to come explains a difference (OwnerInv, AgreementInv); and,    *)
(* whatever writes raise, how a text run may still end (EndInv).  TLC checks *)
(* them together as SystemInv, AgreementProofs proves them.                 *)
EXTENDS StorageInvariant

---------------------------------------------------------------------------
(* Who works for a run.                                                    *)

\* Without a database error only workers raise.
OnlyWorkersRaise == \A p \in Procs : pc[p] \in {"raised", "caught"} => p[1] = "worker"

\* Runs are reconciled before anybody serves, and never afterwards.
BootFirst ==
    /\ \A p \in Procs : IF p[1] = "boot" THEN todo[p] # <<>> => up = "booting"
                        ELSE Idle(p) \/ up = "up"
    /\ up # "up" => crashes > 0
    /\ up = "up" => \A r \in Runs : Live(row[r]) => Known(mem[r])

\* The worker starts when the request that created the run is over.
HandlerBefore(r) == Idle(Worker(r)) \/ AtBranch(Handler(r), "done")

\* Only an audio run is ever being transcribed, and only until its metadata
\* is updated or its status set.
Transcribing(rec) == Live(rec) /\ rec.summary = "Transcribing audio"
TextRecords(r) ==
    r \in TextRuns => /\ ~Transcribing(mem[r]) /\ ~Transcribing(row[r])
                      /\ \A p \in Procs : RunOf(p) = r =>
                            /\ ~Transcribing(copy[p])
                            /\ Next0(p, "put") => ~Transcribing(Head0(p).rec)
AudioRecord(r) ==
    pc[Handler(r)] \in AudioPlaces =>
        /\ Live(mem[r]) => Transcribing(mem[r])
        /\ Next0(Handler(r), "put") => Transcribing(Head0(Handler(r)).rec)
        /\ \A i \in 1 .. Len(todo[Handler(r)]) : todo[Handler(r)][i].do # "meta"

\* A cancel request writes to audio runs only, and nothing but the cancel.
CancelledRecord == Record("cancelled", "outcome")
CancelOnly(r) ==
    LET p == Canceller(r) IN
    /\ pc[p] \in {"idle", "dispatch", "mark", "done"}
    /\ pc[p] = "mark" \/ todo[p] # <<>> => r \in AudioRuns
    /\ \A i \in 1 .. Len(todo[p]) : todo[p][i].do = "status" => todo[p][i].rec = CancelledRecord

\* Where a thread is that will choose the run's end, or hand it on.
HandlerDecides == AudioPlaces \cup {"mark", "launch"}
WorkerDecides == Monitoring \cup {"begin", "exec", "shellStatus", "shellFlag", "fetch", "spawn",
                                  "respawn", "raised"}
EndsIt(p) == \E i \in 1 .. Len(todo[p]) : todo[p][i].do = "status"

\* A handler that stores a run as running does not leave it at that.
StoreLeadsOn(r) ==
    Next0(Handler(r), "put") /\ Live(Head0(Handler(r)).rec) => pc[Handler(r)] \in HandlerDecides

Owned(r) ==
    Live(mem[r]) =>
        \/ pc[Handler(r)] \in HandlerDecides \/ EndsIt(Handler(r))
        \/ pc[Worker(r)] \in WorkerDecides \/ EndsIt(Worker(r))
        \/ EndsIt(Boot(r))
        \/ /\ r \in AudioRuns /\ mem[r].summary = "Transcribing audio"
           /\ AtBranch(Handler(r), "done") /\ Idle(Worker(r))

\* A calendar worker never raises; an agent process has a worker that waits for
\* it, unless a message that could not be read made the worker leave it.
CalendarPlaces(r) == executor[r] = "calendar" => pc[Worker(r)] \in {"idle", "begin", "fetch", "done"}
AgentPlaces(r) ==
    proc[r] = "alive" => \/ pc[Worker(r)] \in Monitoring \ {"outcome", "decide"}
                         \/ pc[Worker(r)] \in {"raised", "caught", "done"} /\ outcome[r].unread

RunInHands(r) ==
    /\ HandlerBefore(r) /\ TextRecords(r) /\ AudioRecord(r) /\ CancelOnly(r)
    /\ StoreLeadsOn(r) /\ Owned(r) /\ CalendarPlaces(r) /\ AgentPlaces(r)

OwnerInv ==
    /\ OnlyWorkersRaise /\ BootFirst
    /\ \A r \in Runs : RunInHands(r)

---------------------------------------------------------------------------
(* What differs, and until when.                                           *)

\* rec is what a client finds of an audio run that it cancelled while the
\* run was being stored.
CancelledEarly(r, rec) == r \in AudioRuns /\ mem[r].status = "cancelled" /\ Live(rec)
SaysWhatMemorySays(r, rec) == rec = mem[r] \/ CancelledEarly(r, rec)

HasAhead(p, do) == \E i \in 1 .. Len(todo[p]) : todo[p][i].do = do

\* A record that store_run writes outside the lock was read from memory, and
\* only a cancel has been faster.
StoreIsRecent(p) ==
    p \notin holder =>
        /\ HasAhead(p, "session") /\ ~Next0(p, "put") /\ RunOf(p) \in AudioRuns =>
              Live(mem[RunOf(p)]) \/ mem[RunOf(p)] = CancelledRecord
        /\ Next0(p, "upsert") \/ Next0(p, "session") => SaysWhatMemorySays(RunOf(p), copy[p])

\* A row that does not say what memory says is about to be written.
RowAgrees(r) ==
    Known(mem[r]) =>
        \/ SaysWhatMemorySays(r, row[r])
        \/ \E p \in Procs : RunOf(p) = r /\ (Inserts(p) \/ Next0(p, "upsert") \/ Next0(p, "update_row"))
RowExists(r) == Known(mem[r]) /\ ~Known(row[r]) => \E p \in Procs : RunOf(p) = r /\ Inserts(p)

\* The same of the session, which keeps its latest run through a crash.
SessionAgrees ==
    crashes = 0 =>
        \A s \in Sessions : \A l \in latest[s] :
            /\ SessionOf[l.run] = s /\ Known(mem[l.run])
            /\ \/ SaysWhatMemorySays(l.run, l.rec)
               \/ \E p \in Procs : RunOf(p) = l.run /\ HasAhead(p, "session")

\* The event logs differ by the event that is being inserted.
Numbered(es) == \A i \in 1 .. Len(es) : es[i].seq = i - 1
OwnLog(r) == r \in TextRuns \/ crashes = 0
InsertsEvent(r) == \E p \in holder : RunOf(p) = r /\ Next0(p, "append_row")
LogsAgree(r) ==
    OwnLog(r) =>
        /\ Numbered(rowEvents[r])
        /\ Known(mem[r]) =>
              /\ Numbered(events[r])
              /\ events[r] = IF InsertsEvent(r) THEN Append(rowEvents[r], StoredEvent(r))
                             ELSE rowEvents[r]
        /\ Next0(Handler(r), "put") => rowEvents[r] = <<>>
NoLogBefore == crashes = 0 => \A r \in Runs : Known(mem[r]) \/ rowEvents[r] = <<>>

AgreementInv ==
    /\ \A p \in Procs : StoreIsRecent(p)
    /\ \A r \in Runs : RowAgrees(r) /\ RowExists(r) /\ LogsAgree(r)
    /\ SessionAgrees /\ NoLogBefore

\* The two invariants, until the first write that raises.
OwnedUntilFault == faults = 0 => OwnerInv
AgreedUntilFault == faults = 0 => AgreementInv

---------------------------------------------------------------------------
(* How a text run ends, with any number of faults and deaths.              *)

\* Reconciliation is over when anybody else begins.
BootAlone == \A p \in Procs : IF p[1] = "boot" THEN todo[p] # <<>> => up = "booting"
                              ELSE Idle(p) \/ up = "up"

\* A script sets a status with its last call only, and one of S.
EndsWith(s, S) ==
    \A i \in 1 .. Len(s) : s[i].do = "status" => i = Len(s) /\ s[i].rec.status \in S

\* The statuses that may follow on that of a record: any on that of a run that
\* is not over, and a blocked run may be finished again.
MayFollow(rec) == IF ~Terminal(rec) THEN TerminalStatuses
                  ELSE IF rec.status = "blocked" THEN {"blocked", "cancelled"} ELSE {}

\* Where a worker is whose run is not over, and where only a request for the
\* user's help may have ended it.
OpenPlaces == {"begin", "exec", "shellStatus", "shellFlag", "fetch", "spawn", "respawn", "register",
               "loop", "poll", "pollStatus", "unblock"}
ClosingPlaces == {"flush", "unblock2", "stop", "outcome", "decide"}
Help(r) == IF outcome[r].blocked THEN {"blocked"} ELSE {}

TextWorker(r) ==
    /\ pc[Worker(r)] \in OpenPlaces => EndsWith(todo[Worker(r)], {}) /\ ~Terminal(mem[r])
    /\ pc[Worker(r)] \in ClosingPlaces => /\ EndsWith(todo[Worker(r)], Help(r))
                                          /\ Terminal(mem[r]) => mem[r].status \in Help(r)

\* The request that creates a text run opens it before it launches the worker.
TextHandler(r) ==
    LET h == Handler(r) IN
    /\ pc[h] \in {"idle", "launch", "done", "raised"}
    /\ pc[h] = "launch" => /\ EndsWith(todo[h], {}) /\ ~Terminal(mem[r])
                           /\ Next0(h, "put") => Live(Head0(h).rec)
    /\ Next0(h, "upsert") => copy[h] = mem[r]

\* A cancel request leaves a text run to its worker.
TextCanceller(r) == todo[Canceller(r)] = <<>> /\ pc[Canceller(r)] \in {"idle", "dispatch", "done"}

\* An end in the database is that of memory, but for a blocked run whose
\* cancel has not been written.
EndFollows(old, new) == new = old \/ (old = "blocked" /\ new = "cancelled")
RowEndFollows(r) == Terminal(row[r]) /\ Known(mem[r]) => EndFollows(row[r].status, mem[r].status)

TextInHands(r) ==
    /\ HandlerBefore(r) /\ TextRecords(r)
    /\ TextWorker(r) /\ TextHandler(r) /\ TextCanceller(r) /\ RowEndFollows(r)
    /\ \A p \in Procs : RunOf(p) = r => EndsWith(todo[p], MayFollow(mem[r]))

EndInv == BootAlone /\ \A r \in TextRuns : TextInHands(r)

---------------------------------------------------------------------------
\* All that is known of the life of runs: who writes what in whose turn, what
\* was announced (run_state.py:88, 280) and how a text run may still end,
\* always; who ends a run and which write explains a difference between memory
\* and database, until the first write that raises.
SystemInv == StorageInv /\ EndInv /\ OwnedUntilFault /\ AgreedUntilFault

=============================================================================
