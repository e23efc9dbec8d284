------------------------------ MODULE RunProofs ------------------------------
(***************************************************************************)
(* What holds of RunLifecycle for every set of runs and every bound.       *)
(* First the facts about its scripts: which calls they hold, and that a    *)
(* step that is not a call of RunState only chooses a script and a place.  *)
(***************************************************************************)
EXTENDS RunInvariant, SequenceTheorems, TLAPS

---------------------------------------------------------------------------
(* Scripts.                                                                *)

LEMMA RecordTypes ==
    /\ Absent \in RunRec
    /\ \A st \in Statuses, sum \in Summaries : Record(st, sum) \in RunRec
  BY DEF RunRec, Absent, Record, Statuses, Summaries

LEMMA SafeOps ==
    /\ \A t \in EventTypes : Emit(t) \in SafeOp
    /\ \A sum \in Summaries : Meta(sum) \in SafeOp
    /\ \A st \in TerminalStatuses : SetStatus(st) \in SafeOp
    /\ SetBlocked \in SafeOp
    /\ \A do \in {"copy", "upsert", "update_row", "session"} : Call(do) \in SafeOp
  BY DEF SafeOp, Op, Emit, Meta, SetStatus, SetBlocked, Call, RunRec, Absent, Record, Statuses,
         Summaries, Terminal, TerminalStatuses, EventTypes, Calls, Writes

LEMMA SafeCalls ==
    /\ Emit("activity") \in SafeOp /\ Emit("action.started") \in SafeOp
    /\ Emit("action.completed") \in SafeOp /\ Emit("output") \in SafeOp
    /\ Emit("chat") \in SafeOp /\ Emit("run.completed") \in SafeOp
    /\ Emit("run.failed") \in SafeOp /\ Emit("run.cancelled") \in SafeOp
    /\ Emit("run.blocked") \in SafeOp
    /\ SetStatus("completed") \in SafeOp /\ SetStatus("failed") \in SafeOp
    /\ SetStatus("rejected") \in SafeOp /\ SetStatus("cancelled") \in SafeOp
    /\ SetStatus("blocked") \in SafeOp /\ SetBlocked \in SafeOp
    /\ Meta("outcome") \in SafeOp /\ Meta("Run started") \in SafeOp
  BY SafeOps DEF EventTypes, TerminalStatuses, Summaries

LEMMA Tuples ==
  ASSUME NEW S
  PROVE  /\ <<>> \in Seq(S)
         /\ \A a \in S : <<a>> \in Seq(S)
         /\ \A a, b \in S : <<a, b>> \in Seq(S)
         /\ \A a, b, c \in S : <<a, b, c>> \in Seq(S)
         /\ \A a, b, c, d \in S : <<a, b, c, d>> \in Seq(S)
         /\ \A a, b, c, d, e \in S : <<a, b, c, d, e>> \in Seq(S)
  OBVIOUS

LEMMA Scripts ==
    /\ <<>> \in Seq(SafeOp)
    /\ FailedScript \in Seq(SafeOp)
    /\ LaunchFailedScript \in Seq(SafeOp)
    /\ CancelledScript \in Seq(SafeOp)
    /\ MetaWrites \in Seq(SafeOp)
    /\ StatusWrites \in Seq(SafeOp)
  BY SafeOps DEF FailedScript, LaunchFailedScript, CancelledScript, MetaWrites, StatusWrites,
                 EventTypes, TerminalStatuses, Writes

LEMMA Cons ==
  ASSUME NEW S, NEW o \in S, NEW u \in Seq(S)
  PROVE  /\ <<o>> \o u \in Seq(S)
         /\ <<o>> \o u # <<>>
         /\ (<<o>> \o u)[1] = o
         /\ Tail(<<o>> \o u) = u
  <1> DEFINE s == <<o>> \o u
  <1>1. <<o>> \in Seq(S) /\ Len(<<o>>) = 1 /\ <<o>>[1] = o
    BY Tuples
  <1>2. /\ s \in Seq(S)
        /\ Len(s) = 1 + Len(u)
        /\ \A i \in 1 .. 1 + Len(u) : s[i] = IF i <= 1 THEN <<o>>[i] ELSE u[i - 1]
    BY <1>1, ConcatProperties
  <1>3. Len(u) \in Nat
    BY LenProperties
  <1>4. s # <<>> /\ s[1] = o
    BY <1>1, <1>2, <1>3, EmptySeq
  <1>5. /\ Tail(s) \in Seq(S)
        /\ Len(Tail(s)) = Len(u)
        /\ \A i \in 1 .. Len(u) : Tail(s)[i] = s[i + 1]
    BY <1>2, <1>3, <1>4, HeadTailProperties
  <1>6. \A i \in 1 .. Len(u) : Tail(s)[i] = u[i]
    BY <1>2, <1>3, <1>5
  <1>7. Tail(s) = u
    BY <1>5, <1>6, SeqEqual
  <1> QED
    BY <1>2, <1>4, <1>7

LEMMA SafeIsOp == Seq(SafeOp) \subseteq Seq(Op)
  BY SeqMonotonic DEF SafeOp

\* The calls of store_run: the record first, then nothing but safe calls.
LEMMA StoreScript ==
  ASSUME NEW rec \in RunRec
  PROVE  /\ Store(rec) \o <<>> = Store(rec)
         /\ \A t \in Seq(SafeOp) :
              /\ Store(rec) \o t \in Seq(Op)
              /\ Store(rec) \o t # <<>>
              /\ (Store(rec) \o t)[1].do = "put"
              /\ (Store(rec) \o t)[1].rec = rec
              /\ Tail(Store(rec) \o t) \in Seq(SafeOp)
  <1> DEFINE o == [do |-> "put", event |-> "activity", rec |-> rec]
             s == <<Call("copy"), Call("upsert"), Call("copy"), Call("session")>>
  <1>1. /\ o \in Op
        /\ s \in Seq(SafeOp)
    BY SafeOps, Tuples DEF Op, Calls, EventTypes, Writes
  <1>2. /\ Store(rec) = <<o>> \o s
        /\ Store(rec) \in Seq(Op)
    BY <1>1, SafeOps DEF Store, SafeOp, Writes
  <1>3. Store(rec) \o <<>> = Store(rec)
    BY <1>2, ConcatEmptySeq
  <1>4. ASSUME NEW t \in Seq(SafeOp)
        PROVE  /\ Store(rec) \o t \in Seq(Op)
               /\ Store(rec) \o t # <<>>
               /\ (Store(rec) \o t)[1] = o
               /\ Tail(Store(rec) \o t) \in Seq(SafeOp)
    <2>1. s \in Seq(Op) /\ t \in Seq(Op) /\ <<o>> \in Seq(Op) /\ s \o t \in Seq(SafeOp)
      BY <1>1, SafeIsOp, Tuples, ConcatProperties
    <2>2. Store(rec) \o t = <<o>> \o (s \o t)
      BY <1>2, <2>1, ConcatAssociative
    <2>3. s \o t \in Seq(Op)
      BY <2>1, SafeIsOp
    <2>4. /\ <<o>> \o (s \o t) \in Seq(Op)
          /\ <<o>> \o (s \o t) # <<>>
          /\ (<<o>> \o (s \o t))[1] = o
          /\ Tail(<<o>> \o (s \o t)) = s \o t
      BY <1>1, <2>3, Cons
    <2> QED BY <2>1, <2>2, <2>4
  <1> QED
    BY <1>3, <1>4

\* A thread at a branch point, or a request to cancel a run that is live,
\* chooses its next calls and place.
Busy(p) == todo[p] = <<>> /\ pc[p] # "idle"
Branches == \E p \in Procs, s \in Seq(SafeOp), l \in Labels :
               /\ Continue(p, s, l)
               /\ Busy(p) \/ Live(mem[RunOf(p)])

LEMMA ProcTypes ==
  ASSUME NEW r \in Runs
  PROVE  Handler(r) \in Procs /\ Worker(r) \in Procs /\ Canceller(r) \in Procs /\ Boot(r) \in Procs
  BY DEF Handler, Worker, Canceller, Boot, Procs, Roles

LEMMA FinalizeBranches ==
  ASSUME NEW r \in Runs, Finalize(r), Busy(Worker(r))
  PROVE  Branches
  <1>1. /\ \A a \in EventTypes : <<Emit(a)>> \in Seq(SafeOp)
        /\ \A a, b \in EventTypes : <<Emit(a), Emit(b)>> \in Seq(SafeOp)
        /\ \A st \in TerminalStatuses : <<SetStatus(st)>> \in Seq(SafeOp)
        /\ \A a \in EventTypes, st \in TerminalStatuses : <<Emit(a), SetStatus(st)>> \in Seq(SafeOp)
        /\ \A a, b \in EventTypes, st \in TerminalStatuses :
              <<Emit(a), Emit(b), SetStatus(st)>> \in Seq(SafeOp)
    BY SafeOps
  <1>2. \A s, t \in Seq(SafeOp) : s \o t \in Seq(SafeOp)
    BY ConcatProperties
  <1>3. "sync" \in Labels
    BY DEF Labels
  <1> QED
    BY <1>1, <1>2, <1>3, ProcTypes DEF Finalize, Steps, Branch, UserCancelled, Branches, EventTypes,
       TerminalStatuses

\* A step of a handler that begins to store a new run.
Stores == \E r \in Runs, st \in {"running", "rejected"}, sum \in Summaries,
             t \in Seq(SafeOp), l \in Labels :
             /\ Continue(Handler(r), Store(Record(st, sum)) \o t, l)
             /\ Idle(Handler(r)) /\ Unknown(r)

LEMMA SubmissionBranches ==
  ASSUME NEW r \in Runs, Submission(r)
  PROVE  Branches \/ Stores \/ Launch(r)
  <1> DEFINE h == Handler(r)
             c == Canceller(r)
  <1>1. \A p \in {h, c}, s \in Seq(SafeOp), l \in Labels :
           Continue(p, s, l) /\ (Busy(p) \/ Live(mem[r])) => Branches
    BY ProcTypes DEF Branches, RunOf, Handler, Canceller
  <1>2. \A st \in {"running", "rejected"}, sum \in Summaries, t \in Seq(SafeOp), l \in Labels :
           Continue(h, Store(Record(st, sum)) \o t, l) /\ AtBranch(h, "idle") /\ Unknown(r) => Stores
    BY DEF Stores, AtBranch, Idle
  <1>3. CASE RejectText(r)
    <2>1. <<Emit("run.failed")>> \in Seq(SafeOp)
      BY SafeCalls, Tuples
    <2> QED BY <1>2, <1>3, <2>1 DEF RejectText, Labels, Summaries
  <1>4. CASE AcceptText(r)
    <2>1. Continue(h, Store(Record("running", "Run started")) \o <<>>, "launch")
      <3>1. Record("running", "Run started") \in RunRec
        BY RecordTypes DEF Statuses, Summaries
      <3> QED BY <1>4, <3>1, StoreScript DEF AcceptText
    <2>2. <<>> \in Seq(SafeOp) /\ "launch" \in Labels /\ "Run started" \in Summaries
      BY Tuples DEF Labels, Summaries
    <2> QED BY <1>2, <1>4, <2>1, <2>2 DEF AcceptText
  <1>5. CASE CreateTranscribingRun(r)
    <2>1. <<Emit("activity")>> \in Seq(SafeOp)
      BY SafeCalls, Tuples
    <2> QED BY <1>2, <1>5, <2>1 DEF CreateTranscribingRun, Labels, Summaries
  <1>6. CASE LaunchFails(r) \/ UploadTooLarge(r)
    BY <1>1, <1>6, Scripts DEF AtBranch, Busy, LaunchFails, UploadTooLarge, Labels
  <1>7. CASE ReadUpload(r) \/ Transcribe(r) \/ PrepareFails(r)
    BY <1>1, <1>7, Tuples DEF AtBranch, Busy, ReadUpload, Transcribe, PrepareFails, Labels
  <1>8. CASE CheckCancelled(r)
    BY <1>1, <1>8, Scripts DEF AtBranch, Busy, CheckCancelled, Labels
  <1>9. CASE RejectPrecreated(r)
    <2>1. <<Meta("outcome"), Emit("run.failed"), SetStatus("rejected")>> \in Seq(SafeOp)
      BY SafeCalls, Tuples
    <2> QED BY <1>1, <1>9, <2>1 DEF AtBranch, Busy, RejectPrecreated, Labels
  <1>10. CASE AcceptPrecreated(r)
    <2>1. <<Emit("activity"), Meta("Run started")>> \in Seq(SafeOp)
      BY SafeCalls, Tuples
    <2> QED BY <1>1, <1>10, <2>1 DEF AtBranch, Busy, AcceptPrecreated, Labels
  <1>11. CASE MarkCancelled(Handler(r)) \/ MarkCancelled(Canceller(r))
    BY <1>1, <1>11, Scripts DEF AtBranch, Busy, MarkCancelled, Labels
  <1>12. CASE CancelRun(r) \/ DispatchToAudio(r)
    BY <1>1, <1>12, Tuples DEF AtBranch, Busy, CancelRun, RequestCancel,
       DispatchToAudio, RunOf, Canceller, Labels
  <1>13. CASE RequestRaises(Handler(r)) \/ RequestRaises(Canceller(r))
    BY <1>1, <1>13, Tuples DEF AtBranch, Busy, RequestRaises, Labels
  <1> QED
    BY <1>3, <1>4, <1>5, <1>6, <1>7, <1>8, <1>9, <1>10, <1>11, <1>12, <1>13 DEF Submission

\* Every worker step starts at a branch point.
LEMMA WorkerBusy ==
  ASSUME NEW r \in Runs, WorkerStep(r)
  PROVE  Busy(Worker(r))
  <1>1. AgentStep(r) => Busy(Worker(r))
    BY DEF AgentStep, AgentBegin, MissingBinary, SpawnRaises, Spawn, Register, TakeLine, NoLine,
       PollCancelled, PollStatus, PollTimeout, Unblock, Flush, StopProcess, LateCancel,
       RetryWithoutResume, Finalize, SyncMemory, Begins, At, AtBranch, Busy
  <1> QED
    BY <1>1 DEF WorkerStep, CalendarBegin, CalendarFetch, ShellBegin, ShellSucceeds, ShellFails,
       ShellStopped, ShellResult, ShellRaises, ShellStatus, ShellFlag, RecordException, Begins, At,
       AtBranch, Busy

LEMMA WorkerBranches ==
  ASSUME NEW r \in Runs, WorkerStep(r)
  PROVE  Branches
  <1>1. \A s \in Seq(SafeOp), l \in Labels : Continue(Worker(r), s, l) => Branches
    BY ProcTypes, WorkerBusy DEF Branches
  <1>2. /\ <<>> \in Seq(SafeOp)
        /\ <<Emit("output")>> \in Seq(SafeOp)
        /\ <<Emit("chat")>> \in Seq(SafeOp)
        /\ <<Emit("activity")>> \in Seq(SafeOp)
    BY SafeCalls, Tuples
  <1>3. CASE CalendarBegin(r)
    <2>1. <<Emit("activity"), Emit("action.started"), Emit("activity"), Emit("chat")>> \in Seq(SafeOp)
      BY SafeCalls, Tuples
    <2> QED BY <1>1, <1>3, <2>1 DEF CalendarBegin, Steps, Branch, Labels
  <1>4. CASE CalendarFetch(r)
    <2>1. /\ <<Emit("activity"), Emit("chat"), Emit("action.completed"), Emit("run.completed"),
               SetStatus("completed")>> \in Seq(SafeOp)
          /\ <<Emit("activity"), Emit("output"), Emit("action.completed"), Emit("run.failed"),
               SetStatus("failed")>> \in Seq(SafeOp)
      BY SafeCalls, Tuples
    <2> QED BY <1>1, <1>4, <2>1 DEF CalendarFetch, Steps, Branch, Labels
  <1>5. CASE ShellBegin(r)
    <2>1. /\ <<Emit("activity"), Emit("chat"), Emit("run.failed"), SetStatus("rejected")>>
                \in Seq(SafeOp)
          /\ <<Emit("activity"), Emit("action.started"), Emit("activity")>> \in Seq(SafeOp)
      BY SafeCalls, Tuples
    <2> QED BY <1>1, <1>5, <2>1 DEF ShellBegin, Steps, Branch, Labels
  <1>6. CASE ShellSucceeds(r) \/ ShellFails(r) \/ ShellStopped(r)
    <2>1. \E out \in Maybe(<<Emit("output")>>) : Branch(r, out, "shellStatus")
      BY <1>6 DEF ShellSucceeds, ShellFails, ShellStopped, ShellResult
    <2> QED BY <1>1, <1>2, <2>1 DEF Maybe, Branch, Labels
  <1>7. CASE ShellRaises(r) \/ ShellStatus(r)
    BY <1>1, <1>2, <1>7 DEF ShellRaises, ShellStatus, Steps, Branch, Labels
  <1>8. CASE ShellFlag(r)
    <2>1. /\ UserCancelled \in Seq(SafeOp)
          /\ <<Emit("chat"), Emit("action.completed"), Emit("activity"), Emit("run.completed"),
               SetStatus("completed")>> \in Seq(SafeOp)
          /\ <<Emit("chat"), Emit("action.completed"), Emit("activity"), Emit("run.failed"),
               SetStatus("failed")>> \in Seq(SafeOp)
      BY SafeCalls, Tuples DEF UserCancelled
    <2> QED BY <1>1, <1>8, <2>1 DEF ShellFlag, Steps, Branch, Labels
  <1>9. CASE AgentBegin(r)
    <2>1. /\ <<Emit("activity"), Emit("action.started")>> \o <<>> \in Seq(SafeOp)
          /\ <<Emit("activity"), Emit("action.started")>> \o <<Emit("chat")>> \in Seq(SafeOp)
      BY SafeCalls, Tuples, ConcatProperties
    <2> QED BY <1>1, <1>2, <1>9, <2>1 DEF AgentBegin, Maybe, Steps, Branch, Labels
  <1>10. CASE MissingBinary(r)
    <2>1. <<Emit("chat"), Emit("output"), Emit("action.completed"), Emit("run.failed"),
            SetStatus("failed")>> \in Seq(SafeOp)
      BY SafeCalls, Tuples
    <2> QED BY <1>1, <1>10, <2>1 DEF MissingBinary, Steps, Branch, Labels
  <1>11. CASE SpawnRaises(r) \/ Spawn(r) \/ Register(r) \/ NoLine(r)
    BY <1>1, <1>2, <1>11 DEF SpawnRaises, Spawn, Register, NoLine, Steps, Branch, Labels
  <1>12. CASE TakeLine(r)
    BY <1>1, <1>2, <1>12 DEF TakeLine, Unreadable, Maybe, Branch, Labels
  <1>13. CASE PollCancelled(r) \/ PollStatus(r) \/ PollTimeout(r)
    BY <1>1, <1>2, <1>13 DEF PollCancelled, PollStatus, PollTimeout, Branch, Labels
  <1>14. CASE Unblock(r)
    <2>1. <<Emit("activity"), Emit("run.blocked"), SetBlocked>> \in Seq(SafeOp)
      BY SafeCalls, Tuples
    <2> QED BY <1>1, <1>2, <1>14, <2>1 DEF Unblock, Branch, Labels
  <1>15. CASE Flush(r)
    BY <1>1, <1>2, <1>15 DEF Flush, Unreadable, Steps, Branch, Labels
  <1>16. CASE StopProcess(r) \/ LateCancel(r) \/ SyncMemory(r)
    BY <1>1, <1>2, <1>16 DEF StopProcess, LateCancel, SyncMemory, Steps, Branch, Labels
  <1>17. CASE RetryWithoutResume(r)
    <2>1. <<Emit("output"), Emit("action.completed"), Emit("activity"), Emit("output"),
            Emit("action.started")>> \in Seq(SafeOp)
      BY SafeCalls, Tuples
    <2> QED BY <1>1, <1>17, <2>1 DEF RetryWithoutResume, Branch, Labels
  <1>18. CASE Finalize(r)
    BY <1>18, FinalizeBranches, WorkerBusy
  <1>19. CASE RecordException(r)
    <2>1. <<Emit("activity"), Emit("output"), Emit("run.failed"), SetStatus("failed")>>
             \in Seq(SafeOp)
      BY SafeCalls, Tuples
    <2> QED BY <1>1, <1>2, <1>19, <2>1 DEF RecordException, Branch, Labels
  <1> QED
    BY <1>3, <1>4, <1>5, <1>6, <1>7, <1>8, <1>9, <1>10, <1>11, <1>12, <1>13, <1>14, <1>15, <1>16,
       <1>17, <1>18, <1>19 DEF WorkerStep, AgentStep

LEMMA TerminateBranches ==
  ASSUME NEW r \in Runs, TerminateActive(r)
  PROVE  Branches
  BY Tuples, ProcTypes DEF TerminateActive, Branches, AtBranch, Busy, Labels

---------------------------------------------------------------------------
(* Threads: every step leaves well-formed scripts and places behind.       *)

ThreadsOK == /\ todo \in [Procs -> Seq(Op)]
             /\ pc \in [Procs -> Labels]
             /\ ScriptsOK

\* A script of safe calls neither stores a run nor inserts an event.
LEMMA SafeScript ==
  ASSUME NEW p \in Procs, todo[p] \in Seq(SafeOp)
  PROVE  ~Opens(p) /\ ~Appending(p)
  <1> SUFFICES ASSUME todo[p] # <<>>
               PROVE  Head0(p).do # "put" /\ Head0(p).do # "append_row"
    BY DEF Opens, Appending
  <1>1. Head0(p) \in SafeOp
    BY EmptySeq, ElementOfSeq DEF Head0
  <1> QED
    BY <1>1 DEF SafeOp

LEMMA Advance ==
  ASSUME ThreadsOK, NEW p \in Procs, NEW s \in Seq(SafeOp),
         todo' = [todo EXCEPT ![p] = s], pc' \in [Procs -> Labels]
  PROVE  ThreadsOK'
  <1>1. todo' \in [Procs -> Seq(Op)]
    BY SafeIsOp DEF ThreadsOK
  <1>2. \A q \in Procs : todo'[q] = IF q = p THEN s ELSE todo[q]
    BY DEF ThreadsOK
  <1>3. ScriptsOK'
    BY <1>2 DEF ThreadsOK, ScriptsOK, Opens, Appending, Head0
  <1> QED
    BY <1>1, <1>3 DEF ThreadsOK

LEMMA BranchKeepsThreads ==
  ASSUME ThreadsOK, Branches PROVE ThreadsOK'
  <1>1. PICK p \in Procs, s \in Seq(SafeOp), l \in Labels : Continue(p, s, l)
    BY DEF Branches
  <1>2. todo' = [todo EXCEPT ![p] = s] /\ pc' \in [Procs -> Labels]
    BY <1>1 DEF Continue, ThreadsOK
  <1> QED
    BY <1>2, Advance

\* What a handler that begins to store a run is then about to do.
LEMMA StoreOpens ==
  ASSUME ThreadsOK, NEW r \in Runs, NEW st \in {"running", "rejected"}, NEW sum \in Summaries,
         NEW t \in Seq(SafeOp), NEW l \in Labels,
         Continue(Handler(r), Store(Record(st, sum)) \o t, l)
  PROVE  ThreadsOK' /\ Opens(Handler(r))'
  <1> DEFINE p == Handler(r)
             s == Store(Record(st, sum)) \o t
  <1>1. p \in Procs /\ p[1] = "handler"
    BY ProcTypes DEF Handler
  <1>2. Record(st, sum) \in RunRec /\ Record(st, sum).status = st
    BY RecordTypes DEF Statuses, TerminalStatuses, Record
  <1>3. /\ s \in Seq(Op) /\ s # <<>> /\ s[1].do = "put" /\ s[1].rec.status = st
        /\ Tail(s) \in Seq(SafeOp)
    BY <1>2, StoreScript
  <1>4. /\ todo' \in [Procs -> Seq(Op)]
        /\ pc' \in [Procs -> Labels]
        /\ \A q \in Procs : todo'[q] = IF q = p THEN s ELSE todo[q]
    BY <1>1, <1>3 DEF Continue, ThreadsOK
  <1>5. Opens(p)'
    BY <1>1, <1>3, <1>4 DEF Opens, Head0
  <1>6. ScriptsOK'
    BY <1>1, <1>4, <1>5 DEF ThreadsOK, ScriptsOK, Opens, Appending, Head0
  <1> QED
    BY <1>4, <1>5, <1>6 DEF ThreadsOK

\* The call a thread makes next, and what is left after it.
LEMMA NextCall ==
  ASSUME ThreadsOK, NEW p \in Procs, todo[p] # <<>>
  PROVE  /\ Head0(p) \in Op
         /\ Tail(todo[p]) \in Seq(SafeOp)
         /\ Head0(p).do = "put" => Opens(p)
         /\ Head0(p).do = "append_row" => Appending(p)
         /\ Head0(p).do = "status" => Terminal(Head0(p).rec)
  <1>1. todo[p] \in Seq(Op) /\ Head0(p) \in Op
    BY EmptySeq, ElementOfSeq DEF ThreadsOK, Head0
  <1>2. CASE todo[p] \in Seq(SafeOp)
    <2>1. Head0(p) \in SafeOp /\ Tail(todo[p]) \in Seq(SafeOp)
      BY <1>2, EmptySeq, ElementOfSeq, HeadTailProperties DEF Head0
    <2> QED BY <1>1, <2>1 DEF SafeOp
  <1>3. CASE Opens(p) \/ Appending(p)
    BY <1>1, <1>3 DEF Opens, Appending
  <1> QED
    BY <1>2, <1>3 DEF ThreadsOK, ScriptsOK

\* A call of RunState leaves safe calls, or the row of the event it appended.
LEMMA PerformScripts ==
  ASSUME ThreadsOK, NEW p \in Procs, Perform(p)
  PROVE  /\ ThreadsOK'
         /\ todo[p] # <<>>
         /\ todo'[p] \in Seq(SafeOp) \/ Appending(p)'
         /\ Appending(p)' => AppendEvent(p)
         /\ \A q \in Procs \ {p} : todo'[q] = todo[q] /\ pc'[q] = pc[q]
  <1> DEFINE rest == Tail(todo[p])
             row0 == Call("append_row")
  <1>1. todo[p] # <<>> /\ rest \in Seq(SafeOp)
    <2>1. todo[p] # <<>>
      BY DEF Perform, PutRun, ReadRecord, UpdateMeta, SetRunStatus, AppendEvent, UpsertRow,
         UpdateRow, UpdateSession, AppendRow, WriteDone, DatabaseFault, Next0
    <2> QED BY <2>1, NextCall
  <1>2. \A q \in Procs \ {p} : todo'[q] = todo[q] /\ pc'[q] = pc[q]
    BY DEF Perform, PutRun, ReadRecord, UpdateMeta, SetRunStatus, AppendEvent, UpsertRow,
       UpdateRow, UpdateSession, AppendRow, WriteDone, DatabaseFault, Continue, ThreadsOK
  <1>3. CASE AppendEvent(p)
    <2>1. row0 \in Op /\ row0.do = "append_row"
      BY RecordTypes DEF Call, Op, Writes, Calls, EventTypes
    <2>2. /\ <<row0>> \o rest \in Seq(Op)
          /\ <<row0>> \o rest # <<>>
          /\ (<<row0>> \o rest)[1] = row0
          /\ Tail(<<row0>> \o rest) = rest
      BY <1>1, <2>1, SafeIsOp, Cons
    <2>3. /\ todo' = [todo EXCEPT ![p] = <<row0>> \o rest]
          /\ pc' = pc
      BY <1>3 DEF AppendEvent
    <2>4. /\ todo' \in [Procs -> Seq(Op)]
          /\ todo'[p] = <<row0>> \o rest
      BY <2>2, <2>3 DEF ThreadsOK
    <2>5. Appending(p)'
      BY <1>1, <2>1, <2>2, <2>4 DEF Appending, Head0
    <2>6. ScriptsOK'
      BY <1>2, <2>5 DEF ThreadsOK, ScriptsOK, Opens, Appending, Head0
    <2> QED BY <1>1, <1>2, <1>3, <2>3, <2>4, <2>5, <2>6 DEF ThreadsOK
  <1>4. CASE ~AppendEvent(p)
    <2>1. /\ MetaWrites \o rest \in Seq(SafeOp)
          /\ StatusWrites \o rest \in Seq(SafeOp)
          /\ <<>> \in Seq(SafeOp)
      BY <1>1, Scripts, Tuples, ConcatProperties
    <2>2. /\ pc' \in [Procs -> Labels]
          /\ \/ todo' = [todo EXCEPT ![p] = rest]
             \/ todo' = [todo EXCEPT ![p] = MetaWrites \o rest]
             \/ todo' = [todo EXCEPT ![p] = StatusWrites \o rest]
             \/ todo' = [todo EXCEPT ![p] = <<>>]
      BY <1>4 DEF Perform, PutRun, ReadRecord, UpdateMeta, SetRunStatus, UpsertRow,
         UpdateRow, UpdateSession, AppendRow, WriteDone, DatabaseFault, Continue, ThreadsOK, Labels
    <2>3. PICK s \in Seq(SafeOp) : todo' = [todo EXCEPT ![p] = s]
      BY <1>1, <2>1, <2>2
    <2>4. todo'[p] = s
      BY <2>3 DEF ThreadsOK
    <2>5. ~Appending(p)'
      <3>1. todo'[p] # <<>> => todo'[p][1] \in SafeOp
        BY <2>4, EmptySeq, ElementOfSeq
      <3> QED BY <3>1 DEF Appending, Head0, SafeOp
    <2> QED BY <1>1, <1>2, <2>2, <2>3, <2>4, <2>5, Advance
  <1> QED
    BY <1>3, <1>4

---------------------------------------------------------------------------
(* Types.                                                                  *)

LEMMA InvThreads == Inv => ThreadsOK
  BY DEF Inv, TypeOK, StateTypeOK, ThreadsOK

LEMMA PerformTypes ==
  ASSUME Inv, NEW p \in Procs, Perform(p)
  PROVE  StateTypeOK'
  <1> DEFINE r == RunOf(p)
  <1>1. ThreadsOK'
    BY InvThreads, PerformScripts
  <1>2. StateTypeOK /\ r \in Runs /\ SessionOf[r] \in Sessions
    BY SessionAssumption DEF Inv, TypeOK, Procs, RunOf
  <1>3. todo[p] # <<>> /\ Head0(p) \in Op
    BY InvThreads, PerformScripts, NextCall
  <1>4. CASE PutRun(p)
    <2>1. Head0(p).rec \in RunRec
      BY <1>3 DEF Op
    <2>2. <<>> \in Seq(Event)
      BY Tuples
    <2> QED BY <1>1, <1>2, <1>4, <2>1, <2>2 DEF PutRun, StateTypeOK, ThreadsOK, dbVars
  <1>5. CASE ReadRecord(p)
    BY <1>1, <1>2, <1>5 DEF ReadRecord, StateTypeOK, ThreadsOK, dbVars, memVars
  <1>6. CASE UpdateMeta(p)
    <2> DEFINE new == MetaRecord(r, Head0(p).rec.summary)
    <2>1. mem[r] \in RunRec /\ Head0(p).rec.summary \in Summaries
      BY <1>2, <1>3 DEF StateTypeOK, Op, RunRec
    <2>2. new \in RunRec
      BY <2>1 DEF MetaRecord, RunRec
    <2>3. /\ mem' = [mem EXCEPT ![r] = new]
          /\ copy' = [copy EXCEPT ![p] = new]
          /\ holder' = {p}
          /\ UNCHANGED <<up, events, cancelled, dbVars, faults>>
      BY <1>6 DEF UpdateMeta
    <2> HIDE DEF new
    <2> QED BY <1>1, <1>2, <2>2, <2>3 DEF StateTypeOK, ThreadsOK, dbVars
  <1>7. CASE SetRunStatus(p)
    <2> DEFINE rec == Head0(p).rec
               keep == rec.status = "blocked" /\ ~rec.pending /\ mem[r].pending
               new == [rec EXCEPT !.pending = rec.pending \/ keep]
    <2>1. new \in RunRec
      BY <1>2, <1>3 DEF StateTypeOK, Op, RunRec
    <2>2. /\ mem' = [mem EXCEPT ![r] = new]
          /\ copy' = [copy EXCEPT ![p] = new]
          /\ holder' = {p}
          /\ cancelled' \subseteq cancelled
          /\ UNCHANGED <<up, events, dbVars, faults>>
      BY <1>7 DEF SetRunStatus, StatusInMemory
    <2> HIDE DEF new
    <2> QED BY <1>1, <1>2, <2>1, <2>2 DEF StateTypeOK, ThreadsOK, dbVars
  <1>8. CASE AppendEvent(p)
    <2> DEFINE new == [seq |-> NextSeq(events[r]), type |-> Head0(p).event]
    <2>1. events[r] \in Seq(Event)
      BY <1>2 DEF StateTypeOK
    <2>2. NextSeq(events[r]) \in Nat
      <3>1. events[r] # <<>> => events[r][Len(events[r])] \in Event
        BY <2>1, EmptySeq, ElementOfSeq, LenProperties
      <3>2. events[r] # <<>> => events[r][Len(events[r])].seq + 1 \in Nat
        BY <3>1 DEF Event
      <3> QED BY <3>2 DEF NextSeq
    <2>3. Head0(p).event \in EventTypes
      BY <1>3 DEF Op
    <2>4. new \in Event
      BY <2>2, <2>3 DEF Event
    <2>5. events' = [events EXCEPT ![r] = Append(@, new)]
      BY <1>8 DEF AppendEvent
    <2> HIDE DEF new
    <2>6. Append(events[r], new) \in Seq(Event)
      BY <2>1, <2>4
    <2> QED BY <1>1, <1>2, <1>8, <2>5, <2>6 DEF AppendEvent, StateTypeOK, ThreadsOK, dbVars
  <1>9. CASE UpsertRow(p) \/ UpdateRow(p)
    BY <1>1, <1>2, <1>9 DEF UpsertRow, UpdateRow, WriteDone, StateTypeOK, ThreadsOK, memVars
  <1>10. CASE UpdateSession(p)
    <2>1. SessionRecord(p) \in [run : Runs, rec : RunRec]
      BY <1>2 DEF SessionRecord, StateTypeOK
    <2>2. holder' \subseteq Procs
      BY <1>2, <1>10 DEF UpdateSession, Release, StateTypeOK
    <2> QED BY <1>1, <1>2, <1>10, <2>1, <2>2 DEF UpdateSession, WriteDone, StateTypeOK, ThreadsOK,
               memVars
  <1>11. CASE AppendRow(p)
    <2>1. holder' \subseteq Procs
      BY <1>2, <1>11 DEF AppendRow, Release, StateTypeOK
    <2>2. events[r] \in Seq(Event) /\ events[r] # <<>>
      <3>1. Appending(p)
        BY <1>3, <1>11, InvThreads, NextCall DEF AppendRow, Next0
      <3> QED BY <1>2, <3>1 DEF Inv, AppendsEvent, StateTypeOK
    <2>3. StoredEvent(r) \in Event
      BY <2>2, EmptySeq, ElementOfSeq, LenProperties DEF StoredEvent
    <2>4. Append(rowEvents[r], StoredEvent(r)) \in Seq(Event)
      BY <1>2, <2>3 DEF StateTypeOK
    <2> QED BY <1>1, <1>2, <1>11, <2>1, <2>4 DEF AppendRow, WriteDone, StateTypeOK, ThreadsOK,
               memVars
  <1>12. CASE DatabaseFault(p)
    <2>1. holder' \subseteq Procs /\ faults' \in Nat
      BY <1>2, <1>12 DEF DatabaseFault, Release, StateTypeOK
    <2> QED BY <1>1, <1>2, <1>12, <2>1 DEF DatabaseFault, StateTypeOK, ThreadsOK, memVars, dbVars
  <1> QED
    BY <1>4, <1>5, <1>6, <1>7, <1>8, <1>9, <1>10, <1>11, <1>12 DEF Perform

---------------------------------------------------------------------------
(* Who works for a run.                                                    *)

Quiet == QuietUntilStored /\ OpensNew /\ AppendsEvent

\* A step of one thread of a run that memory holds, and goes on holding.
LEMMA OwnStep ==
  ASSUME Inv, NEW p \in Procs,
         \A q \in Procs \ {p} : todo'[q] = todo[q],
         \A q \in Procs : RunOf(q) # RunOf(p) => pc'[q] = pc[q],
         \A r \in Runs \ {RunOf(p)} : mem'[r] = mem[r] /\ row'[r] = row[r] /\ events'[r] = events[r],
         Known(mem[RunOf(p)]), Known(mem'[RunOf(p)]),
         events[RunOf(p)] # <<>> => events'[RunOf(p)] # <<>>,
         ~Opens(p)',
         Appending(p)' => events'[RunOf(p)] # <<>>
  PROVE  Quiet'
  <1> USE DEF Inv
  <1> SUFFICES ASSUME NEW q \in Procs
               PROVE  /\ ~Known(mem'[RunOf(q)]) => Idle(q)' \/ Opens(q)'
                      /\ Opens(q)' => Unknown(RunOf(q))'
                      /\ Appending(q)' => events'[RunOf(q)] # <<>>
    BY DEF Quiet, QuietUntilStored, OpensNew, AppendsEvent, RunOf
  <1>1. RunOf(q) \in Runs
    BY DEF RunOf, Procs
  <1>2. CASE q = p
    BY <1>2
  <1>3. CASE q # p
    <2>1. (Opens(q)' <=> Opens(q)) /\ (Appending(q)' <=> Appending(q))
      BY <1>3 DEF Opens, Appending, Head0
    <2>2. CASE RunOf(q) = RunOf(p)
      <3>1. ~Opens(q)
        BY <2>2 DEF OpensNew, Unknown
      <3> QED BY <2>1, <2>2, <3>1 DEF AppendsEvent
    <2>3. CASE RunOf(q) # RunOf(p)
      BY <1>1, <1>3, <2>1, <2>3 DEF QuietUntilStored, OpensNew, AppendsEvent, Unknown, Idle
    <2> QED BY <2>2, <2>3
  <1> QED
    BY <1>2, <1>3

\* A thread that is busy, and not about to store, has its run in memory.
LEMMA BusyKnown ==
  ASSUME Inv, NEW p \in Procs, ~Idle(p), ~Opens(p)
  PROVE  Known(mem[RunOf(p)])
  BY DEF Inv, QuietUntilStored

LEMMA PutQuiet ==
  ASSUME Inv, NEW p \in Procs, PutRun(p)
  PROVE  Quiet'
  <1> DEFINE r == RunOf(p)
  <1>1. /\ todo[p] # <<>>
        /\ todo'[p] \in Seq(SafeOp) \/ Appending(p)'
        /\ Appending(p)' => AppendEvent(p)
        /\ \A q \in Procs \ {p} : todo'[q] = todo[q] /\ pc'[q] = pc[q]
    BY InvThreads, PerformScripts DEF Perform
  <1>2. Opens(p) /\ Unknown(r)
    BY <1>1, InvThreads, NextCall DEF PutRun, Next0, Inv, OpensNew
  <1>3. ~Appending(p)' /\ ~Opens(p)'
    <2>1. todo'[p] \in Seq(SafeOp)
      BY <1>1 DEF PutRun, AppendEvent, Next0
    <2>2. todo'[p] # <<>> => todo'[p][1] \in SafeOp
      BY <2>1, EmptySeq, ElementOfSeq
    <2> QED BY <2>2 DEF Opens, Appending, Head0, SafeOp
  <1>4. /\ r \in Runs
        /\ Known(mem'[r])
        /\ \A q \in Runs \ {r} : mem'[q] = mem[q] /\ events'[q] = events[q]
        /\ row' = row
    BY <1>2 DEF PutRun, Inv, TypeOK, StateTypeOK, RunOf, Procs, dbVars, Opens, Known
  <1> SUFFICES ASSUME NEW q \in Procs
               PROVE  /\ ~Known(mem'[RunOf(q)]) => Idle(q)' \/ Opens(q)'
                      /\ Opens(q)' => Unknown(RunOf(q))'
                      /\ Appending(q)' => events'[RunOf(q)] # <<>>
    BY DEF Quiet, QuietUntilStored, OpensNew, AppendsEvent, RunOf
  <1>5. CASE q = p
    BY <1>3, <1>4, <1>5
  <1>6. CASE q # p
    <2>1. /\ Opens(q)' <=> Opens(q)
          /\ Appending(q)' <=> Appending(q)
          /\ Idle(q)' <=> Idle(q)
      BY <1>1, <1>6 DEF Opens, Appending, Head0, Idle
    <2>2. CASE RunOf(q) = r
      <3>1. ~Opens(q)
        BY <1>2, <1>6, <2>2 DEF Opens, RunOf, Procs
      <3>2. Idle(q)
        BY <1>2, <2>2, <3>1 DEF Inv, QuietUntilStored, Unknown
      <3> QED BY <1>4, <2>1, <2>2, <3>1, <3>2 DEF Idle, Appending
    <2>3. CASE RunOf(q) # r
      <3>1. RunOf(q) \in Runs
        BY DEF RunOf, Procs
      <3> QED BY <1>4, <2>1, <2>3, <3>1 DEF Inv, QuietUntilStored, OpensNew, AppendsEvent, Unknown
    <2> QED BY <2>2, <2>3
  <1> QED
    BY <1>5, <1>6

LEMMA PerformQuiet ==
  ASSUME Inv, NEW p \in Procs, Perform(p)
  PROVE  Quiet' /\ CancelMarksLive'
  <1> DEFINE r == RunOf(p)
  <1>1. /\ todo[p] # <<>> /\ Head0(p) \in Op
        /\ todo'[p] \in Seq(SafeOp) \/ Appending(p)'
        /\ Appending(p)' => AppendEvent(p)
        /\ \A q \in Procs \ {p} : todo'[q] = todo[q] /\ pc'[q] = pc[q]
        /\ Head0(p).do = "status" => Terminal(Head0(p).rec)
    BY InvThreads, PerformScripts, NextCall
  <1>2. r \in Runs /\ StateTypeOK /\ CancelMarksLive
    BY DEF RunOf, Procs, Inv, TypeOK
  <1>3. CASE PutRun(p)
    <2>1. ~Known(mem[r])
      BY <1>1, <1>3, InvThreads, NextCall DEF PutRun, Next0, Inv, OpensNew, Unknown
    <2>2. r \notin cancelled
      BY <1>2, <2>1 DEF CancelMarksLive, Live, Known
    <2>3. CancelMarksLive'
      BY <1>2, <1>3, <2>2 DEF PutRun, CancelMarksLive, StateTypeOK
    <2> QED BY <1>3, <2>3, PutQuiet
  <1>4. CASE ~PutRun(p)
    <2>1. Head0(p).do # "put"
      BY <1>4 DEF Perform, PutRun, ReadRecord, UpdateMeta, SetRunStatus, AppendEvent, UpsertRow,
         UpdateRow, UpdateSession, AppendRow, DatabaseFault, Next0, Writes
    <2>2. Known(mem[r])
      BY <1>1, <2>1, BusyKnown DEF Idle, Opens
    <2>3. ~Opens(p)'
      <3>1. CASE Appending(p)'
        BY <3>1 DEF Appending, Opens
      <3>2. CASE todo'[p] \in Seq(SafeOp)
        <4>1. todo'[p] # <<>> => todo'[p][1] \in SafeOp
          BY <3>2, EmptySeq, ElementOfSeq
        <4> QED BY <4>1 DEF Opens, Head0, SafeOp
      <3> QED BY <1>1, <3>1, <3>2
    <2>4. \/ mem' = mem /\ cancelled' = cancelled
          \/ UpdateMeta(p)
          \/ SetRunStatus(p)
      BY <1>4 DEF Perform, ReadRecord, AppendEvent, UpsertRow, UpdateRow, UpdateSession, AppendRow,
         WriteDone, DatabaseFault, memVars
    <2>5. /\ Known(mem'[r])
          /\ \A q \in Runs \ {r} : mem'[q] = mem[q]
          /\ CancelMarksLive'
      <3>1. CASE mem' = mem /\ cancelled' = cancelled
        BY <1>2, <2>2, <3>1 DEF CancelMarksLive
      <3>2. CASE UpdateMeta(p)
        <4> DEFINE new == MetaRecord(r, Head0(p).rec.summary)
        <4>0. mem' = [mem EXCEPT ![r] = new]
          BY <3>2 DEF UpdateMeta
        <4>1. new.status = mem[r].status
          BY <1>2 DEF MetaRecord, StateTypeOK, RunRec
        <4> HIDE DEF new
        <4>2. cancelled' = cancelled /\ cancelled \subseteq Runs
          BY <1>2, <3>2 DEF UpdateMeta, StateTypeOK
        <4>3. \A q \in Runs : mem'[q].status = mem[q].status
          BY <1>2, <4>0, <4>1 DEF StateTypeOK
        <4> QED BY <1>2, <2>2, <4>0, <4>2, <4>3 DEF CancelMarksLive, Live, Known, StateTypeOK
      <3>3. CASE SetRunStatus(p)
        <4>1. Terminal(Head0(p).rec) /\ Head0(p).rec \in RunRec
          BY <1>1, <3>3 DEF SetRunStatus, Next0, Op
        <4>2. PICK new : /\ mem' = [mem EXCEPT ![r] = new]
                         /\ new.status = Head0(p).rec.status
                         /\ cancelled' = IF DropsMark(new) THEN cancelled \ {r} ELSE cancelled
          BY <3>3, <4>1 DEF SetRunStatus, StatusInMemory, RunRec
        <4>3. Terminal(new) /\ Known(new)
          BY <4>1, <4>2 DEF Terminal, Known, TerminalStatuses
        <4>4. cancelled' = cancelled \ {r}
          BY <4>2, <4>3 DEF DropsMark
        <4> QED BY <1>2, <4>2, <4>3, <4>4 DEF CancelMarksLive, StateTypeOK
      <3> QED BY <2>4, <3>1, <3>2, <3>3
    <2>6. \A q \in Runs \ {r} : row'[q] = row[q] /\ events'[q] = events[q]
      BY <1>2, <1>4 DEF Perform, ReadRecord, UpdateMeta, SetRunStatus, AppendEvent, UpsertRow,
         UpdateRow, UpdateSession, AppendRow, WriteDone, DatabaseFault, memVars, dbVars, StateTypeOK
    <2>7. IF AppendEvent(p) THEN events'[r] # <<>> ELSE events' = events
      <3>1. CASE AppendEvent(p)
        <4>1. PICK new : events' = [events EXCEPT ![r] = Append(@, new)]
          BY <3>1 DEF AppendEvent
        <4>2. events[r] \in Seq(Event) /\ events'[r] = Append(events[r], new)
          BY <1>2, <4>1 DEF StateTypeOK
        <4>3. Append(events[r], new) # <<>>
          BY <4>2
        <4> QED BY <3>1, <4>2, <4>3
      <3>2. CASE ~AppendEvent(p)
        BY <1>4, <3>2 DEF Perform, ReadRecord, UpdateMeta, SetRunStatus, UpsertRow, UpdateRow,
           UpdateSession, AppendRow, WriteDone, DatabaseFault, memVars
      <3> QED BY <3>1, <3>2
    <2>8. \A q \in Procs : RunOf(q) # r => pc'[q] = pc[q]
      BY <1>1
    <2>9. Quiet'
      BY <1>1, <2>2, <2>3, <2>5, <2>6, <2>7, <2>8, OwnStep
    <2> QED BY <2>5, <2>9
  <1> QED
    BY <1>3, <1>4

---------------------------------------------------------------------------
(* The other steps.                                                        *)

LEMMA BranchQuiet ==
  ASSUME Inv, Branches, mem' = mem, events' = events, row' = row
  PROVE  Quiet'
  <1>1. PICK p \in Procs, s \in Seq(SafeOp), l \in Labels :
           /\ Continue(p, s, l)
           /\ Busy(p) \/ Live(mem[RunOf(p)])
    BY DEF Branches
  <1>2. /\ todo'[p] = s
        /\ \A q \in Procs \ {p} : todo'[q] = todo[q] /\ pc'[q] = pc[q]
    BY <1>1, InvThreads DEF Continue, ThreadsOK
  <1>3. Known(mem[RunOf(p)])
    BY <1>1, BusyKnown DEF Busy, Idle, Opens, Live, Known
  <1>4. ~Opens(p)' /\ ~Appending(p)'
    <2>1. todo'[p] # <<>> => todo'[p][1] \in SafeOp
      BY <1>2, EmptySeq, ElementOfSeq
    <2> QED BY <2>1 DEF Opens, Appending, Head0, SafeOp
  <1>5. \A q \in Procs : RunOf(q) # RunOf(p) => pc'[q] = pc[q]
    BY <1>2
  <1> QED
    BY <1>2, <1>3, <1>4, <1>5, OwnStep

LEMMA StoreQuiet ==
  ASSUME Inv, Stores, mem' = mem, events' = events, row' = row
  PROVE  Quiet'
  <1>1. PICK r \in Runs, st \in {"running", "rejected"}, sum \in Summaries, t \in Seq(SafeOp),
             l \in Labels :
           /\ Continue(Handler(r), Store(Record(st, sum)) \o t, l)
           /\ Idle(Handler(r)) /\ Unknown(r)
    BY DEF Stores
  <1> DEFINE p == Handler(r)
  <1>2. /\ Opens(p)' /\ RunOf(p) = r
        /\ \A q \in Procs \ {p} : todo'[q] = todo[q] /\ pc'[q] = pc[q]
    BY <1>1, InvThreads, StoreOpens DEF Continue, ThreadsOK, RunOf, Handler
  <1>3. ~Appending(p)'
    BY <1>2 DEF Opens, Appending
  <1> SUFFICES ASSUME NEW q \in Procs
               PROVE  /\ ~Known(mem'[RunOf(q)]) => Idle(q)' \/ Opens(q)'
                      /\ Opens(q)' => Unknown(RunOf(q))'
                      /\ Appending(q)' => events'[RunOf(q)] # <<>>
    BY DEF Quiet, QuietUntilStored, OpensNew, AppendsEvent, RunOf
  <1>4. CASE q = p
    BY <1>1, <1>2, <1>3, <1>4 DEF Unknown
  <1>5. CASE q # p
    <2>1. /\ Opens(q)' <=> Opens(q)
          /\ Appending(q)' <=> Appending(q)
          /\ Idle(q)' <=> Idle(q)
      BY <1>2, <1>5 DEF Opens, Appending, Head0, Idle
    <2> QED BY <2>1 DEF Inv, QuietUntilStored, OpensNew, AppendsEvent, Unknown
  <1> QED
    BY <1>4, <1>5

LEMMA LaunchQuiet ==
  ASSUME Inv, NEW r \in Runs, Launch(r)
  PROVE  ThreadsOK' /\ Quiet'
  <1> DEFINE p == Handler(r)
  <1>1. p \in Procs /\ Worker(r) \in Procs /\ RunOf(p) = r /\ RunOf(Worker(r)) = r
    BY ProcTypes DEF RunOf, Handler, Worker
  <1>2. /\ todo' = todo /\ mem' = mem /\ events' = events /\ row' = row
        /\ todo[p] = <<>> /\ pc[p] = "launch"
    BY DEF Launch, OnlyThreads, AtBranch, memVars, dbVars
  <1>3. /\ pc' \in [Procs -> Labels]
        /\ \A q \in Procs : RunOf(q) # RunOf(p) => pc'[q] = pc[q]
    BY <1>1, InvThreads DEF Launch, ThreadsOK, Labels
  <1>4. ThreadsOK'
    BY <1>2, <1>3, InvThreads DEF ThreadsOK, ScriptsOK, Opens, Appending, Head0
  <1>5. Known(mem[RunOf(p)])
    BY <1>1, <1>2, BusyKnown DEF Idle, Opens
  <1>6. ~Opens(p)' /\ ~Appending(p)'
    BY <1>2 DEF Opens, Appending
  <1>7. Quiet'
    BY <1>1, <1>2, <1>3, <1>5, <1>6, OwnStep
  <1> QED
    BY <1>4, <1>7

\* Loading a run from the database: nobody works for it, nobody stores it.
LEMMA LoadQuiet ==
  ASSUME Inv, NEW r \in Runs, GetRun(r)
  PROVE  ThreadsOK' /\ Quiet' /\ CancelMarksLive'
  <1>1. /\ todo' = todo /\ pc' = pc /\ row' = row /\ cancelled' = cancelled
        /\ ~Known(mem[r]) /\ Known(row[r])
        /\ mem' = [mem EXCEPT ![r] = row[r]]
        /\ events' = [events EXCEPT ![r] = rowEvents[r]]
    BY DEF GetRun, dbVars
  <1>2. ThreadsOK'
    BY <1>1, InvThreads DEF ThreadsOK, ScriptsOK, Opens, Appending, Head0
  <1>3. CancelMarksLive'
    <2>1. r \notin cancelled
      BY <1>1 DEF Inv, CancelMarksLive, Live, Known
    <2> QED BY <1>1, <2>1 DEF Inv, CancelMarksLive, TypeOK, StateTypeOK
  <1>4. Quiet'
    <2> SUFFICES ASSUME NEW q \in Procs
                 PROVE  /\ ~Known(mem'[RunOf(q)]) => Idle(q)' \/ Opens(q)'
                        /\ Opens(q)' => Unknown(RunOf(q))'
                        /\ Appending(q)' => events'[RunOf(q)] # <<>>
      BY DEF Quiet, QuietUntilStored, OpensNew, AppendsEvent, RunOf
    <2>1. /\ Opens(q)' <=> Opens(q)
          /\ Appending(q)' <=> Appending(q)
          /\ Idle(q)' <=> Idle(q)
      BY <1>1 DEF Opens, Appending, Head0, Idle
    <2>2. CASE RunOf(q) = r
      <3>1. Idle(q) /\ ~Opens(q)
        BY <1>1, <2>2 DEF Inv, QuietUntilStored, OpensNew, Unknown
      <3> QED BY <2>1, <3>1 DEF Idle, Appending
    <2>3. CASE RunOf(q) # r
      <3>1. mem'[RunOf(q)] = mem[RunOf(q)] /\ events'[RunOf(q)] = events[RunOf(q)]
        BY <1>1, <2>3 DEF Inv, TypeOK, StateTypeOK, RunOf, Procs
      <3> QED BY <1>1, <2>1, <3>1 DEF Inv, QuietUntilStored, OpensNew, AppendsEvent, Unknown
    <2> QED BY <2>2, <2>3
  <1> QED
    BY <1>2, <1>3, <1>4

\* Reconciliation: no thread has a call to make, so none is storing.
LEMMA ReconcileQuiet ==
  ASSUME Inv, NEW r \in Runs, ReconcileRun(r)
  PROVE  ThreadsOK' /\ Quiet' /\ CancelMarksLive'
  <1> DEFINE p == Boot(r)
             s == <<Emit("activity"), Emit("run.failed"), SetStatus("failed")>>
  <1>1. /\ p \in Procs /\ RunOf(p) = r
        /\ s \in Seq(SafeOp) /\ "done" \in Labels
    BY ProcTypes, SafeCalls, Tuples DEF RunOf, Boot, Labels
  <1>2. /\ \A q \in Procs : todo[q] = <<>>
        /\ Continue(p, s, "done")
        /\ row' = row /\ cancelled' = cancelled
        /\ Live(row[r]) /\ ~Known(mem[r])
        /\ mem' = [mem EXCEPT ![r] = row[r]]
        /\ events' = [events EXCEPT ![r] = rowEvents[r]]
    BY DEF ReconcileRun, Interrupted, dbVars, Boot
  <1>3. /\ todo' = [todo EXCEPT ![p] = s]
        /\ pc' \in [Procs -> Labels]
        /\ \A q \in Procs \ {p} : todo'[q] = todo[q] /\ pc'[q] = pc[q]
    BY <1>1, <1>2, InvThreads DEF Continue, ThreadsOK
  <1>4. ThreadsOK'
    BY <1>1, <1>3, InvThreads, Advance
  <1>5. CancelMarksLive'
    <2>1. r \notin cancelled
      BY <1>2 DEF Inv, CancelMarksLive, Live, Known
    <2> QED BY <1>2, <2>1 DEF Inv, CancelMarksLive, TypeOK, StateTypeOK
  <1>6. Quiet'
    <2> SUFFICES ASSUME NEW q \in Procs
                 PROVE  /\ ~Known(mem'[RunOf(q)]) => Idle(q)' \/ Opens(q)'
                        /\ ~Opens(q)'
                        /\ ~Appending(q)'
      BY DEF Quiet, QuietUntilStored, OpensNew, AppendsEvent, RunOf
    <2>1. RunOf(q) \in Runs /\ mem \in [Runs -> RunRec]
      BY DEF Inv, TypeOK, StateTypeOK, RunOf, Procs
    <2>2. CASE q = p
      <3>1. todo'[p][1] \in SafeOp
        BY <1>1, <1>3, InvThreads, SafeCalls DEF ThreadsOK
      <3>2. Known(mem'[r])
        BY <1>1, <1>2, <2>1, <2>2 DEF Live, Known
      <3> QED BY <1>1, <2>2, <3>1, <3>2 DEF Opens, Appending, Head0, SafeOp
    <2>3. CASE q # p
      <3>1. todo'[q] = <<>> /\ pc'[q] = pc[q]
        BY <1>2, <1>3, <2>3
      <3>2. ~Known(mem'[RunOf(q)]) => ~Known(mem[RunOf(q)])
        BY <1>2, <2>1 DEF Live, Known
      <3>3. ~Opens(q)
        BY <1>2 DEF Opens
      <3> QED BY <3>1, <3>2, <3>3 DEF Inv, QuietUntilStored, Idle, Opens, Appending
    <2> QED BY <2>2, <2>3
  <1> QED
    BY <1>4, <1>5, <1>6

LEMMA DieQuiet ==
  ASSUME Inv, Die, crashes' \in Nat
  PROVE  TypeOK' /\ ScriptsOK' /\ Quiet' /\ CancelMarksLive'
  <1>1. Absent \in RunRec /\ <<>> \in Seq(Event) /\ <<>> \in Seq(Op) /\ <<>> \in Seq(SafeOp)
    BY RecordTypes, Tuples
  <1>2. StateTypeOK'
    BY <1>1 DEF Die, LoseMemory, Inv, TypeOK, StateTypeOK, dbVars, Labels
  <1>3. SubmissionTypeOK' /\ WorkersTypeOK'
    BY DEF Die, Inv, TypeOK, SubmissionTypeOK, WorkersTypeOK, Outcome, NoOutcome
  <1>4. \A q \in Procs : todo'[q] = <<>> /\ pc'[q] = "idle"
    BY DEF Die, LoseMemory
  <1>5. cancelled' = {}
    BY DEF Die, LoseMemory
  <1> QED
    BY <1>1, <1>2, <1>3, <1>4, <1>5 DEF TypeOK, ScriptsOK, Quiet, QuietUntilStored, OpensNew,
       AppendsEvent, CancelMarksLive, Idle, Opens, Appending

LEMMA SubmissionTypes ==
  ASSUME Inv, NEW r \in Runs, Submission(r)
  PROVE  /\ SubmissionTypeOK'
         /\ cancelled' \subseteq Runs
         /\ CancelMarksLive'
         /\ UNCHANGED <<up, mem, events, dbVars, holder, copy, faults>>
  <1>1. SubmissionTypeOK /\ cancelled \subseteq Runs /\ CancelMarksLive
    BY DEF Inv, TypeOK, StateTypeOK
  <1>2. CASE AcceptText(r) \/ AcceptPrecreated(r)
    BY <1>1, <1>2, ExecutorAssumption DEF AcceptText, AcceptPrecreated, OnlyThreads, memVars,
       SubmissionTypeOK, CancelMarksLive
  <1>3. CASE CancelRun(r)
    <2>1. cancelled' = cancelled \cup {r} /\ Live(mem[r])
      BY <1>3 DEF CancelRun, RequestCancel, RunOf, Canceller
    <2>2. UNCHANGED <<up, mem, events, dbVars, holder, copy, faults>>
      BY <1>3 DEF CancelRun, RequestCancel
    <2>3. SubmissionTypeOK'
      BY <1>1, <1>3 DEF CancelRun, SubmissionTypeOK
    <2> QED BY <1>1, <2>1, <2>2, <2>3 DEF CancelMarksLive, Live
  <1>4. CASE UNCHANGED submitVars /\ OnlyThreads
    BY <1>1, <1>4 DEF SubmissionTypeOK, submitVars, OnlyThreads, memVars, CancelMarksLive
  <1> QED
    BY <1>2, <1>3, <1>4 DEF Submission, RejectText, Launch, LaunchFails, CreateTranscribingRun,
       ReadUpload, UploadTooLarge, CheckCancelled, Transcribe, PrepareFails, RejectPrecreated,
       MarkCancelled, DispatchToAudio, RequestRaises

LEMMA WorkerTypes ==
  ASSUME Inv, NEW r \in Runs, WorkerStep(r) \/ TerminateActive(r)
  PROVE  WorkersTypeOK' /\ UNCHANGED submitVars /\ OnlyThreads
  <1>1. WorkersTypeOK
    BY DEF Inv, TypeOK
  <1>2. CASE UNCHANGED workerVars /\ UNCHANGED submitVars /\ OnlyThreads
    BY <1>1, <1>2 DEF WorkersTypeOK, workerVars
  <1>3. CASE ShellSucceeds(r) \/ ShellFails(r) \/ ShellStopped(r)
    <2>1. PICK res \in Outcome : ShellResult(r, res)
      BY <1>3 DEF ShellSucceeds, ShellFails, ShellStopped, Outcome, NoOutcome
    <2> QED BY <1>1, <2>1 DEF ShellResult, Branch, WorkersTypeOK
  <1>4. CASE Spawn(r) \/ Register(r) \/ StopProcess(r) \/ RetryWithoutResume(r)
    <2>1. UNCHANGED submitVars /\ OnlyThreads
      BY <1>4 DEF Spawn, Register, StopProcess, RetryWithoutResume, Branch
    <2>2. CASE Spawn(r)
      BY <1>1, <2>1, <2>2 DEF Spawn, WorkersTypeOK, Outcome, NoOutcome
    <2>3. CASE Register(r) \/ RetryWithoutResume(r)
      BY <1>1, <2>1, <2>3 DEF Register, RetryWithoutResume, WorkersTypeOK
    <2>4. CASE StopProcess(r)
      BY <1>1, <2>1, <2>4 DEF StopProcess, AfterStop, WorkersTypeOK
    <2> QED BY <1>4, <2>2, <2>3, <2>4
  <1>5. CASE TakeLine(r) \/ Flush(r)
    <2>1. /\ UNCHANGED <<submitVars, proc, registered, retried>> /\ OnlyThreads
          /\ lines' = lines \/ lines' = [lines EXCEPT ![r] = @ + 1]
      BY <1>5 DEF TakeLine, Flush, Unreadable, Steps, Branch, workerVars
    <2>2. outcome' = outcome \/ outcome' = [outcome EXCEPT ![r].unread = TRUE]
      BY <1>5 DEF TakeLine, Flush, Unreadable, Steps, workerVars
    <2>3. [outcome[r] EXCEPT !.unread = TRUE] \in Outcome
      BY <1>1 DEF WorkersTypeOK, Outcome
    <2>4. outcome' \in [Runs -> Outcome]
      BY <1>1, <2>2, <2>3 DEF WorkersTypeOK
    <2> QED BY <1>1, <2>1, <2>4 DEF WorkersTypeOK
  <1>6. CASE PollCancelled(r) \/ PollTimeout(r) \/ Unblock(r)
    <2>1. UNCHANGED <<submitVars, proc, registered, lines, retried>> /\ OnlyThreads
      BY <1>6 DEF PollCancelled, PollTimeout, Unblock, Branch
    <2>2. \/ outcome' = outcome
          \/ outcome' = [outcome EXCEPT ![r].cancelled = TRUE]
          \/ outcome' = [outcome EXCEPT ![r].timed_out = TRUE]
          \/ outcome' = [outcome EXCEPT ![r].blocked = TRUE]
      BY <1>6 DEF PollCancelled, PollTimeout, Unblock
    <2>3. outcome[r] \in Outcome
      BY <1>1 DEF WorkersTypeOK
    <2>4. /\ [outcome[r] EXCEPT !.cancelled = TRUE] \in Outcome
          /\ [outcome[r] EXCEPT !.timed_out = TRUE] \in Outcome
          /\ [outcome[r] EXCEPT !.blocked = TRUE] \in Outcome
      BY <2>3 DEF Outcome
    <2>5. outcome' \in [Runs -> Outcome]
      BY <1>1, <2>2, <2>4 DEF WorkersTypeOK
    <2> QED BY <1>1, <2>1, <2>5 DEF WorkersTypeOK
  <1>7. CASE PollStatus(r)
    BY <1>1, <1>7, ZenonT(60) DEF PollStatus, Branch, WorkersTypeOK, Outcome
  <1>8. CASE LateCancel(r)
    <2>1. UNCHANGED <<submitVars, proc, lines, retried>> /\ OnlyThreads
      BY <1>8 DEF LateCancel, Branch
    <2>2. registered' \subseteq registered
      BY <1>8 DEF LateCancel
    <2>3. PICK exit \in BOOLEAN :
             outcome' = [outcome EXCEPT ![r].cancelled = @ \/ SeesLateCancel(r), ![r].failed = exit]
      BY <1>8 DEF LateCancel
    <2>4. SeesLateCancel(r) \in BOOLEAN /\ outcome[r] \in Outcome
      BY <1>1 DEF SeesLateCancel, WorkersTypeOK
    <2>5. outcome' \in [Runs -> Outcome]
      BY <1>1, <2>3, <2>4 DEF WorkersTypeOK, Outcome
    <2> QED BY <1>1, <2>1, <2>2, <2>5 DEF WorkersTypeOK
  <1>9. CASE RecordException(r)
    BY <1>1, <1>9 DEF RecordException, Branch, WorkersTypeOK
  <1>10. CASE TerminateActive(r)
    BY <1>1, <1>10 DEF TerminateActive, WorkersTypeOK
  <1> QED
    BY <1>2, <1>3, <1>4, <1>5, <1>6, <1>7, <1>8, <1>9, <1>10 DEF WorkerStep, AgentStep,
       CalendarBegin, CalendarFetch, ShellBegin, ShellRaises, ShellStatus, ShellFlag, AgentBegin,
       MissingBinary, SpawnRaises, NoLine, Finalize, SyncMemory, Steps, Branch

---------------------------------------------------------------------------
(* The invariant.                                                          *)

LEMMA InitInv == Init => Inv
  <1> SUFFICES ASSUME Init PROVE Inv
    OBVIOUS
  <1>1. Absent \in RunRec /\ <<>> \in Seq(Event) /\ <<>> \in Seq(Op) /\ <<>> \in Seq(SafeOp)
    BY RecordTypes, Tuples
  <1>2. StateTypeOK
    BY <1>1 DEF Init, Init0, StateTypeOK, Labels
  <1>3. SubmissionTypeOK /\ WorkersTypeOK
    BY DEF Init, InitSubmission, InitWorkers, SubmissionTypeOK, WorkersTypeOK, Outcome, NoOutcome
  <1>4. /\ \A q \in Procs : todo[q] = <<>> /\ pc[q] = "idle"
        /\ cancelled = {}
    BY DEF Init, Init0
  <1> QED
    BY <1>1, <1>2, <1>3, <1>4 DEF Init, Inv, TypeOK, ScriptsOK, QuietUntilStored, OpensNew,
       AppendsEvent, CancelMarksLive, Idle, Opens, Appending

\* A step that changes nothing but scripts and places keeps Inv when it
\* leaves them in order.
LEMMA ThreadStep ==
  ASSUME Inv, ThreadsOK', Quiet', CancelMarksLive', SubmissionTypeOK', WorkersTypeOK',
         crashes' = crashes, cancelled' \subseteq Runs,
         UNCHANGED <<up, mem, events, dbVars, holder, copy, faults>>
  PROVE  Inv'
  <1>1. StateTypeOK'
    BY DEF Inv, TypeOK, StateTypeOK, ThreadsOK, dbVars
  <1> QED
    BY <1>1 DEF Inv, TypeOK, ThreadsOK, Quiet

LEMMA NextInv == Inv /\ [Next]_vars => Inv'
  <1> SUFFICES ASSUME Inv, [Next]_vars PROVE Inv'
    OBVIOUS
  <1>1. CASE UNCHANGED vars
    BY <1>1 DEF vars, allVars, stateVars, submitVars, workerVars, Inv, TypeOK, StateTypeOK,
       SubmissionTypeOK, WorkersTypeOK, ScriptsOK, QuietUntilStored, OpensNew, AppendsEvent,
       CancelMarksLive, Idle, Opens, Appending, Unknown, Head0
  <1>2. ASSUME NEW p \in Procs, PerformStep(p) PROVE Inv'
    <2>1. Perform(p) /\ UNCHANGED <<submitVars, workerVars, crashes>>
      BY <1>2 DEF PerformStep
    <2>2. StateTypeOK' /\ ThreadsOK' /\ Quiet' /\ CancelMarksLive'
      BY <2>1, PerformTypes, InvThreads, PerformScripts, PerformQuiet
    <2>3. SubmissionTypeOK' /\ WorkersTypeOK'
      BY <2>1 DEF Inv, TypeOK, SubmissionTypeOK, WorkersTypeOK, submitVars, workerVars
    <2> QED BY <2>1, <2>2, <2>3 DEF Inv, TypeOK, ThreadsOK, Quiet
  <1>3. ASSUME NEW r \in Runs, Submit(r) PROVE Inv'
    <2>1. Submission(r) /\ UNCHANGED <<workerVars, crashes>>
      BY <1>3 DEF Submit
    <2>2. /\ SubmissionTypeOK' /\ cancelled' \subseteq Runs /\ CancelMarksLive'
          /\ UNCHANGED <<up, mem, events, dbVars, holder, copy, faults>>
      BY <2>1, SubmissionTypes
    <2>3. mem' = mem /\ events' = events /\ row' = row
      BY <2>2 DEF dbVars
    <2>4. ThreadsOK' /\ Quiet'
      <3>1. CASE Branches
        BY <2>3, <3>1, InvThreads, BranchKeepsThreads, BranchQuiet
      <3>2. CASE Stores
        <4>1. ThreadsOK'
          BY <3>2, InvThreads, StoreOpens DEF Stores
        <4> QED BY <2>3, <3>2, <4>1, StoreQuiet
      <3>3. CASE Launch(r)
        BY <3>3, LaunchQuiet
      <3> QED BY <2>1, <3>1, <3>2, <3>3, SubmissionBranches
    <2>5. WorkersTypeOK'
      BY <2>1 DEF Inv, TypeOK, WorkersTypeOK, workerVars
    <2> QED BY <2>1, <2>2, <2>4, <2>5, ThreadStep
  <1>4. ASSUME NEW r \in Runs, Work(r) \/ Terminate(r) PROVE Inv'
    <2>1. (WorkerStep(r) \/ TerminateActive(r)) /\ crashes' = crashes
      BY <1>4 DEF Work, Terminate
    <2>2. WorkersTypeOK' /\ UNCHANGED submitVars /\ OnlyThreads
      BY <2>1, WorkerTypes
    <2>3. /\ mem' = mem /\ events' = events /\ row' = row /\ cancelled' = cancelled
          /\ UNCHANGED <<up, mem, events, dbVars, holder, copy, faults>>
      BY <2>2 DEF OnlyThreads, memVars, dbVars
    <2>4. ThreadsOK' /\ Quiet'
      BY <2>1, <2>3, InvThreads, WorkerBranches, TerminateBranches, BranchKeepsThreads, BranchQuiet
    <2>5. SubmissionTypeOK' /\ CancelMarksLive' /\ cancelled' \subseteq Runs
      BY <2>2, <2>3 DEF Inv, TypeOK, StateTypeOK, SubmissionTypeOK, submitVars, CancelMarksLive
    <2> QED BY <2>1, <2>2, <2>3, <2>4, <2>5, ThreadStep
  <1>5. ASSUME NEW r \in Runs, Exit(r) PROVE Inv'
    <2>1. /\ proc' \in [Runs -> {"none", "alive", "exited"}]
          /\ UNCHANGED <<stateVars, submitVars, registered, lines, outcome, retried, crashes>>
      BY <1>5 DEF Exit, ProcessExits, Inv, TypeOK, WorkersTypeOK
    <2> QED BY <2>1 DEF stateVars, submitVars, Inv, TypeOK, StateTypeOK, SubmissionTypeOK,
               WorkersTypeOK, ScriptsOK, QuietUntilStored, OpensNew, AppendsEvent,
               CancelMarksLive, Idle, Opens, Appending, Unknown, Head0
  <1>6. ASSUME NEW r \in Runs, Load(r) \/ Reconcile(r) PROVE Inv'
    <2>1. /\ GetRun(r) \/ ReconcileRun(r)
          /\ UNCHANGED <<submitVars, workerVars, crashes>>
      BY <1>6 DEF Load, Reconcile
    <2>2. ThreadsOK' /\ Quiet' /\ CancelMarksLive'
      BY <2>1, LoadQuiet, ReconcileQuiet
    <2>3. StateTypeOK'
      BY <2>1, <2>2 DEF GetRun, ReconcileRun, Inv, TypeOK, StateTypeOK, ThreadsOK, dbVars
    <2>4. SubmissionTypeOK' /\ WorkersTypeOK'
      BY <2>1 DEF Inv, TypeOK, SubmissionTypeOK, WorkersTypeOK, submitVars, workerVars
    <2> QED BY <2>1, <2>2, <2>3, <2>4 DEF Inv, TypeOK, ThreadsOK, Quiet
  <1>7. CASE Crash \/ \E r \in Runs : BootRaises(r)
    <2>1. Die /\ crashes' \in Nat
      BY <1>7 DEF Crash, BootRaises, Inv, TypeOK
    <2> QED BY <2>1, DieQuiet DEF Inv, Quiet
  <1>8. CASE Restart \/ Serve
    <2>1. /\ up' \in {"down", "booting", "up"}
          /\ UNCHANGED <<memVars, dbVars, holder, todo, copy, pc, faults, submitVars, workerVars,
                         crashes>>
      BY <1>8 DEF Restart, Serve
    <2> QED BY <2>1 DEF memVars, dbVars, submitVars, workerVars, Inv, TypeOK, StateTypeOK,
               SubmissionTypeOK, WorkersTypeOK, ScriptsOK, QuietUntilStored, OpensNew,
               AppendsEvent, CancelMarksLive, Idle, Opens, Appending, Unknown, Head0
  <1> QED
    BY <1>1, <1>2, <1>3, <1>4, <1>5, <1>6, <1>7, <1>8 DEF Next

---------------------------------------------------------------------------
(* Theorems.                                                               *)

\* The whole invariant, whatever the runs, the faults and the crashes: a
\* thread works only for a run that memory holds or that it is about to
\* store as a new one.
THEOREM Invariant == Spec => []Inv
  BY InitInv, NextInv, PTL DEF Spec

\* Every variable keeps its type: an event that is inserted exists, a place
\* that a script leads to is one of the code's.
THEOREM TypeCorrect == Spec => []TypeOK
  <1>1. Inv => TypeOK
    BY DEF Inv
  <1> QED
    BY <1>1, Invariant, PTL

\* RunState._cancelled holds only runs that are in memory and not terminal:
\* no mark outlives its run, is inherited by a run stored under the same id
\* or survives the restart of the backend.
THEOREM CancelMarks == Spec => []CancelMarksLive
  <1>1. Inv => CancelMarksLive
    BY DEF Inv
  <1> QED
    BY <1>1, Invariant, PTL

=============================================================================
