------------------------------ MODULE RunState ------------------------------
(***************************************************************************)
(* backend/app/run_state.py (class RunState) over backend/app/storage: the *)
(* runs the backend holds in memory, the cancel marks, the SQLite rows     *)
(* behind them and the one lock that RunState methods take.                *)
(*                                                                         *)
(* A thread is a process <<role, run>>.  What a thread still has to ask    *)
(* of RunState is its script, todo[p]: the calls of one straight-line      *)
(* stretch of Python, in program order.  The actions of this module        *)
(* perform the head of a script; the modules that extend this one decide,  *)
(* at a thread's branch points (pc[p]), which script comes next.           *)
(*                                                                         *)
(* A call that writes memory and then the database is several steps, so a  *)
(* crash, a failing database write or another thread can come between.     *)
(***************************************************************************)
EXTENDS Naturals, Sequences, FiniteSets

CONSTANTS
    Runs,          \* run ids
    Sessions,      \* session ids
    SessionOf,     \* the session a run belongs to
    MaxFaults      \* bound: database writes that may raise

ASSUME SessionAssumption == SessionOf \in [Runs -> Sessions]
ASSUME FaultAssumption == MaxFaults \in Nat

VARIABLES
    up,            \* "down", "booting" (module import) or "up" (serving)
    mem,           \* RunState._runs, without the events
    events,        \* RunRecord.events of the runs in memory
    cancelled,     \* RunState._cancelled
    row,           \* table runs
    rowEvents,     \* table run_events, in the order of its seq column
    latest,        \* latest_run_* columns of session_context, {} if unset
    holder,        \* the thread inside _runs_lock, {} if it is free
    todo,          \* the calls a thread still has to make
    copy,          \* field values a thread has read for its next write
    pc,            \* where a thread is when its script has run out
    faults         \* database writes that have raised so far

memVars == <<mem, events, cancelled>>
dbVars == <<row, rowEvents, latest>>
stateVars == <<up, mem, events, cancelled, row, rowEvents, latest, holder,
               todo, copy, pc, faults>>

---------------------------------------------------------------------------
(* Data.                                                                   *)
(*                                                                         *)
(* An operator whose name ends in Bug is a wrong version of the one that   *)
(* follows it; the specification does not use it.  TLC is run with it in   *)
(* place of the right one to see that a property notices.                  *)

Roles == {"handler", "worker", "cancel", "boot"}
Procs == Roles \X Runs
RunOf(p) == p[2]

TerminalStatuses == {"completed", "failed", "rejected", "blocked", "cancelled"}
Statuses == TerminalStatuses \cup {"running"}
Summaries == {"none", "Transcribing audio", "Run started", "outcome"}

\* A run record without its events; "absent" is a run nobody has stored.
RunRec == [status : Statuses \cup {"absent"}, summary : Summaries, pending : BOOLEAN]
Absent == [status |-> "absent", summary |-> "none", pending |-> FALSE]
Record(st, sum) == [status |-> st, summary |-> sum, pending |-> FALSE]

EventTypes == {"activity", "action.started", "action.completed", "output", "chat",
               "run.completed", "run.failed", "run.cancelled", "run.blocked"}
Event == [seq : Nat, type : EventTypes]

Labels == {"idle", "launch", "upload", "check1", "transcribe", "check2", "checkFailed",
           "mark", "submit", "dispatch", "begin", "exec", "shellStatus", "shellFlag",
           "fetch", "spawn", "register", "loop", "poll", "pollStatus", "unblock",
           "flush", "unblock2", "stop", "outcome", "decide", "respawn", "sync",
           "raised", "caught", "done"}

\* The calls of a script, and the database writes they turn into.
Calls == {"put", "copy", "status", "meta", "append"}
Writes == {"upsert", "update_row", "session", "append_row"}
Op == [do : Calls \cup Writes, event : EventTypes, rec : RunRec]

Call(do) == [do |-> do, event |-> "activity", rec |-> Absent]
Emit(t) == [do |-> "append", event |-> t, rec |-> Absent]
Meta(sum) == [do |-> "meta", event |-> "activity", rec |-> Record("running", sum)]
SetStatus(st) == [do |-> "status", event |-> "activity", rec |-> Record(st, "outcome")]
SetBlocked == [do |-> "status", event |-> "activity",
               rec |-> [status |-> "blocked", summary |-> "outcome", pending |-> TRUE]]
Store(rec) == <<[do |-> "put", event |-> "activity", rec |-> rec],
                Call("copy"), Call("upsert"), Call("copy"), Call("session")>>

\* What update_run_start_metadata and set_run_status write to the database.
MetaWritesBug == <<Call("session")>>
MetaWrites == <<Call("upsert"), Call("session")>>
StatusWrites == <<Call("update_row"), Call("session")>>

Known(rec) == rec.status # "absent"
Terminal(rec) == rec.status \in TerminalStatuses
Live(rec) == rec.status = "running"

\* The status an event announces to the clients of a run.
Announces(st) ==
    CASE st = "completed" -> "run.completed"
      [] st = "cancelled" -> "run.cancelled"
      [] st = "blocked" -> "run.blocked"
      [] OTHER -> "run.failed"

---------------------------------------------------------------------------
(* Threads.                                                                *)

Head0(p) == todo[p][1]
Next0(p, do) == todo[p] # <<>> /\ Head0(p).do = do
LockFree == holder = {}
AtBranch(p, l) == todo[p] = <<>> /\ pc[p] = l

\* p leaves branch point pc[p]: it will make the calls of s, then be at l.
Continue(p, s, l) == /\ todo' = [todo EXCEPT ![p] = s]
                     /\ pc' = [pc EXCEPT ![p] = l]

StateTypeOK ==
    /\ up \in {"down", "booting", "up"}
    /\ mem \in [Runs -> RunRec]
    /\ events \in [Runs -> Seq(Event)]
    /\ cancelled \subseteq Runs
    /\ row \in [Runs -> RunRec]
    /\ rowEvents \in [Runs -> Seq(Event)]
    /\ latest \in [Sessions -> SUBSET [run : Runs, rec : RunRec]]
    /\ holder \subseteq Procs
    /\ todo \in [Procs -> Seq(Op)]
    /\ copy \in [Procs -> RunRec]
    /\ pc \in [Procs -> Labels]
    /\ faults \in Nat

Init0 ==
    /\ up = "up"
    /\ mem = [r \in Runs |-> Absent]
    /\ events = [r \in Runs |-> <<>>]
    /\ cancelled = {}
    /\ row = [r \in Runs |-> Absent]
    /\ rowEvents = [r \in Runs |-> <<>>]
    /\ latest = [s \in Sessions |-> {}]
    /\ holder = {}
    /\ todo = [p \in Procs |-> <<>>]
    /\ copy = [p \in Procs |-> Absent]
    /\ pc = [p \in Procs |-> "idle"]
    /\ faults = 0

\* Every call below finds its run in memory (the "run is None" returns of the
\* code are never taken by the threads that make these calls).

\* store_run, first half: the record enters memory under the lock.  The
\* upsert of its row, the update of the session and the initial events
\* follow without the lock, each from the fields the record has by then.
PutRun(p) ==
    /\ Next0(p, "put")
    /\ LockFree
    /\ mem' = [mem EXCEPT ![RunOf(p)] = Head0(p).rec]
    /\ events' = [events EXCEPT ![RunOf(p)] = <<>>]
    /\ todo' = [todo EXCEPT ![p] = Tail(@)]
    /\ UNCHANGED <<up, cancelled, dbVars, holder, copy, pc, faults>>

ReadRecord(p) ==
    /\ Next0(p, "copy")
    /\ copy' = [copy EXCEPT ![p] = mem[RunOf(p)]]
    /\ todo' = [todo EXCEPT ![p] = Tail(@)]
    /\ UNCHANGED <<up, memVars, dbVars, holder, pc, faults>>

MetaRecordBug(r, sum) == Record("running", sum)
MetaRecord(r, sum) == [mem[r] EXCEPT !.summary = sum]

\* update_run_start_metadata: the new summary, then the whole record and
\* the session row, all under the lock.  No look at status or cancel mark.
UpdateMeta(p) ==
    LET r == RunOf(p)
        new == MetaRecord(r, Head0(p).rec.summary)
    IN /\ Next0(p, "meta")
       /\ LockFree
       /\ mem' = [mem EXCEPT ![r] = new]
       /\ copy' = [copy EXCEPT ![p] = new]
       /\ holder' = {p}
       /\ todo' = [todo EXCEPT ![p] = MetaWrites \o Tail(@)]
       /\ UNCHANGED <<up, events, cancelled, dbVars, pc, faults>>

StatusInMemory(r, new) == [mem EXCEPT ![r] = new]
DropsMarkBug(new) == new.status = "cancelled"
DropsMark(new) == Terminal(new)

\* set_run_status: no status is refused, a terminal one included.  A blocked
\* run keeps its unblock request when the caller passes none; a terminal
\* status drops the cancel mark.  Then run row and session row.
SetRunStatus(p) ==
    LET r == RunOf(p)
        rec == Head0(p).rec
        keep == rec.status = "blocked" /\ ~rec.pending /\ mem[r].pending
        new == [rec EXCEPT !.pending = rec.pending \/ keep]
    IN /\ Next0(p, "status")
       /\ LockFree
       /\ mem' = StatusInMemory(r, new)
       /\ cancelled' = IF DropsMark(new) THEN cancelled \ {r} ELSE cancelled
       /\ copy' = [copy EXCEPT ![p] = new]
       /\ holder' = {p}
       /\ todo' = [todo EXCEPT ![p] = StatusWrites \o Tail(@)]
       /\ UNCHANGED <<up, events, dbVars, pc, faults>>

NextSeqBug(es) == IF es = <<>> THEN 0 ELSE es[Len(es)].seq

\* seq is one more than that of the last event in memory.
NextSeq(es) == IF es = <<>> THEN 0 ELSE es[Len(es)].seq + 1

\* append_event
AppendEvent(p) ==
    LET r == RunOf(p)
        new == [seq |-> NextSeq(events[r]), type |-> Head0(p).event]
    IN /\ Next0(p, "append")
       /\ LockFree
       /\ events' = [events EXCEPT ![r] = Append(@, new)]
       /\ holder' = {p}
       /\ todo' = [todo EXCEPT ![p] = <<Call("append_row")>> \o Tail(@)]
       /\ UNCHANGED <<up, mem, cancelled, dbVars, copy, pc, faults>>

---------------------------------------------------------------------------
(* The database writes, each a transaction of its own.                     *)

Release(p) == holder' = holder \ {p}
WriteDone(p) == /\ todo' = [todo EXCEPT ![p] = Tail(@)]
                /\ UNCHANGED <<up, memVars, copy, pc, faults>>

\* INSERT .. ON CONFLICT DO UPDATE of the whole run row.
UpsertRow(p) ==
    /\ Next0(p, "upsert")
    /\ row' = [row EXCEPT ![RunOf(p)] = copy[p]]
    /\ WriteDone(p)
    /\ UNCHANGED <<rowEvents, latest, holder>>

\* UPDATE runs .. WHERE run_id = ?, which changes nothing without a row.
UpdateRow(p) ==
    /\ Next0(p, "update_row")
    /\ row' = IF Known(row[RunOf(p)]) THEN [row EXCEPT ![RunOf(p)] = copy[p]] ELSE row
    /\ WriteDone(p)
    /\ UNCHANGED <<rowEvents, latest, holder>>

SessionRecordBug(p) == [run |-> IF latest[SessionOf[RunOf(p)]] = {} THEN RunOf(p)
                                   ELSE (CHOOSE l \in latest[SessionOf[RunOf(p)]] : TRUE).run,
                        rec |-> copy[p]]
SessionRecord(p) == [run |-> RunOf(p), rec |-> copy[p]]

UpdateSession(p) ==
    /\ Next0(p, "session")
    /\ latest' = [latest EXCEPT ![SessionOf[RunOf(p)]] = {SessionRecord(p)}]
    /\ Release(p)
    /\ WriteDone(p)
    /\ UNCHANGED <<row, rowEvents>>

\* The seq column counts the rows; event_json carries the event of memory,
\* its seq included, and that is what is read back.
StoredEvent(r) == events[r][Len(events[r])]

AppendRow(p) ==
    /\ Next0(p, "append_row")
    /\ rowEvents' = [rowEvents EXCEPT ![RunOf(p)] = Append(@, StoredEvent(RunOf(p)))]
    /\ Release(p)
    /\ WriteDone(p)
    /\ UNCHANGED <<row, latest>>

\* A database write raises (disk full, "database is locked"): the lock is
\* released, what memory already shows stays, the rest of the script is lost.
\* A thread that raises while it records an earlier exception just ends.
DatabaseFault(p) ==
    /\ faults < MaxFaults
    /\ \E do \in Writes : Next0(p, do)
    /\ faults' = faults + 1
    /\ Release(p)
    /\ Continue(p, <<>>, IF pc[p] = "caught" THEN "done" ELSE "raised")
    /\ UNCHANGED <<up, memVars, dbVars, copy>>

Perform(p) ==
    \/ PutRun(p) \/ ReadRecord(p) \/ UpdateMeta(p) \/ SetRunStatus(p)
    \/ AppendEvent(p) \/ UpsertRow(p) \/ UpdateRow(p) \/ UpdateSession(p) \/ AppendRow(p)
    \/ DatabaseFault(p)

---------------------------------------------------------------------------
(* Calls that are a step of their own.                                     *)

\* get_run: a run only the database knows is loaded into memory.
GetRun(r) ==
    /\ up = "up"
    /\ LockFree
    /\ ~Known(mem[r])
    /\ Known(row[r])
    /\ mem' = [mem EXCEPT ![r] = row[r]]
    /\ events' = [events EXCEPT ![r] = rowEvents[r]]
    /\ UNCHANGED <<up, cancelled, dbVars, holder, todo, copy, pc, faults>>

RequestCancelUnknownBug(p) ==
    /\ LockFree
    /\ ~Terminal(mem[RunOf(p)])
    /\ cancelled' = cancelled \cup {RunOf(p)}
    /\ Continue(p, <<>>, "dispatch")
    /\ UNCHANGED <<up, mem, events, dbVars, holder, copy, faults>>

\* request_cancel: refused for a run that is unknown or terminal (404, 409),
\* else the mark is set.
RequestCancel(p) ==
    /\ LockFree
    /\ Live(mem[RunOf(p)])
    /\ cancelled' = cancelled \cup {RunOf(p)}
    /\ Continue(p, <<>>, "dispatch")
    /\ UNCHANGED <<up, mem, events, dbVars, holder, copy, faults>>

\* The backend process dies: memory, threads and the lock are gone.
LoseMemory ==
    /\ mem' = [r \in Runs |-> Absent]
    /\ events' = [r \in Runs |-> <<>>]
    /\ cancelled' = {}
    /\ holder' = {}
    /\ todo' = [p \in Procs |-> <<>>]
    /\ copy' = [p \in Procs |-> Absent]
    /\ pc' = [p \in Procs |-> "idle"]
    /\ up' = "down"

InterruptedBug(r) == Live(row[r]) /\ ~Known(mem[r]) /\ rowEvents[r] # <<>>

\* A run that load_all finds and reconciliation has not seen yet.
Interrupted(r) == Live(row[r]) /\ ~Known(mem[r])

\* reconcile_interrupted_runs, one run of load_all whose status is not
\* terminal: into memory, two events, status failed.
ReconcileRun(r) ==
    LET p == <<"boot", r>>
    IN /\ up = "booting"
       /\ \A q \in Procs : todo[q] = <<>>
       /\ Interrupted(r)
       /\ mem' = [mem EXCEPT ![r] = row[r]]
       /\ events' = [events EXCEPT ![r] = rowEvents[r]]
       /\ Continue(p, <<Emit("activity"), Emit("run.failed"), SetStatus("failed")>>, "done")
       /\ UNCHANGED <<up, cancelled, dbVars, holder, copy, faults>>

=============================================================================
