---------------------------- MODULE StreamProofs ----------------------------
(* Proofs about what clients read of a run: the log of a run that is over is *)
(* closed, a client follows the log event by event, and knows the end.      *)
EXTENDS StreamInvariant, AgreementProofs, SelectionProofs

---------------------------------------------------------------------------
(* The log of a run that is over.                                          *)

\* A worker whose run is over has nothing more to say.
LEMMA WorkerFallsSilent ==
  ASSUME StorageInv, NEW r \in TextRuns, TextInHands(r), Finished(mem[r]), WorkerStep(r)
  PROVE  todo'[Worker(r)] = <<>>
  <1> DEFINE w == Worker(r)
  <1>1. /\ w \in Procs /\ ThreadsOK /\ Terminal(mem[r]) /\ mem[r].status # "blocked"
        /\ TextWorker(r)
    BY RolesOf, InvFacts, KindAssumption DEF Finished, Terminal, TerminalStatuses, TextInHands
  <1>2. pc[w] \notin OpenPlaces /\ pc[w] \notin ClosingPlaces
    BY <1>1 DEF TextWorker, Help
  <1>3. SyncMemory(r) \/ RecordException(r)
    BY <1>2 DEF WorkerStep, AgentStep, CalendarBegin, CalendarFetch, ShellBegin, ShellSucceeds,
       ShellFails, ShellStopped, ShellResult, ShellRaises, ShellStatus, ShellFlag, AgentBegin,
       MissingBinary, SpawnRaises, Spawn, Register, TakeLine, NoLine, PollCancelled, PollStatus,
       PollTimeout, Unblock, Flush, StopProcess, LateCancel, RetryWithoutResume, Finalize, Begins,
       At, AtBranch, OpenPlaces, ClosingPlaces
  <1>4. \E l : Continue(w, <<>>, l)
    BY <1>1, <1>3 DEF SyncMemory, RecordException, NothingToRecord, Steps, Branch
  <1> QED
    BY <1>1, <1>4 DEF Continue, ThreadsOK

\* Nor have the requests for it.
LEMMA RequestsFallSilent ==
  ASSUME StorageInv, NEW r \in TextRuns, TextInHands(r), Finished(mem[r]),
         Submission(r) \/ TerminateActive(r)
  PROVE  \A p \in Procs : todo'[p] = todo[p] \/ todo'[p] = <<>>
  <1>1. /\ ThreadsOK /\ Terminal(mem[r]) /\ Known(mem[r]) /\ TextHandler(r)
    BY InvFacts DEF Finished, Terminal, TerminalStatuses, Known, TextInHands
  <1>2. ~RejectText(r) /\ ~AcceptText(r) /\ ~LaunchFails(r)
    BY <1>1 DEF RejectText, AcceptText, LaunchFails, Unknown, AtBranch, TextHandler
  <1>3. \/ RequestRaises(Handler(r)) \/ Launch(r) \/ CancelRun(r) \/ TerminateActive(r)
    BY <1>2, TextSubmission
  <1>4. todo' = todo \/ \E p : \E l : Continue(p, <<>>, l)
    BY <1>3 DEF RequestRaises, Launch, CancelRun, RequestCancel, TerminateActive
  <1> QED
    BY <1>1, <1>4 DEF Continue, ThreadsOK

\* A call that ends the run is the last of its script; of a run that is over
\* nobody makes a call that says something.
LEMMA CallsFallSilent ==
  ASSUME StorageInv, EndInv, FinalInv, NEW p \in Procs, PerformStep(p), ~DatabaseFault(p),
         RunOf(p) \in TextRuns
  PROVE  SaysNoMore(RunOf(p))'
  <1> DEFINE r == RunOf(p)
  <1>1. /\ Perform(p) /\ r \in Runs /\ r \notin AudioRuns /\ ThreadsOK /\ StateTypeOK /\ Inv
        /\ TextInHands(r) /\ BootAlone /\ ThreadOK(p)
    BY InvFacts, KindAssumption DEF PerformStep, EndInv
  <1>2. todo[p] # <<>> /\ \A q \in Procs \ {p} : todo'[q] = todo[q]
    BY CallFrame
  <1>3. \A q \in Procs \ {p} : RunOf(q) = r => ~Says(q)'
    <2>1. \A q \in Procs \ {p} : RunOf(q) = r => todo'[q] = <<>>
      BY <1>1, <1>2, TextAlone
    <2> QED BY <2>1 DEF Says
  <1>4. SUFFICES ASSUME Finished(mem'[r]) PROVE ~Says(p)'
    BY <1>3 DEF SaysNoMore
  <1>5. CASE SetRunStatus(p)
    <2>1. EndsWith(todo[p], MayFollow(mem[r])) /\ todo[p][1].do = "status"
      BY <1>1, <1>5 DEF TextInHands, SetRunStatus, Next0, Head0
    <2>2. Len(todo[p]) \in Nat \ {0} /\ Writing(p, 1)
          /\ todo'[p][1].do = "update_row" /\ todo'[p][2].do = "session"
      BY <1>1, <1>5, ScriptAfter
    <2>3. Len(todo[p]) = 1
      <3>1. 1 \in 1 .. Len(todo[p])
        BY <2>2
      <3> QED BY <2>1, <3>1 DEF EndsWith
    <2>4. Len(todo'[p]) = 2
      BY <2>2, <2>3 DEF Writing
    <2> QED BY <2>2, <2>4 DEF Says
  <1>6. ~PutRun(p)
    <2>1. PutRun(p) => Head0(p).rec.status \in {"running", "rejected"} /\ mem'[r] = Head0(p).rec
      <3>1. PutRun(p) => Opens(p)
        BY <1>1, CallerKnown
      <3>2. PutRun(p) => mem'[r] = Head0(p).rec
        BY <1>1 DEF PutRun, StateTypeOK
      <3> QED BY <3>1, <3>2 DEF Opens
    <2> QED BY <1>4, <2>1 DEF Finished
  <1>7. CASE ~SetRunStatus(p)
    <2>1. ~UpdateMeta(p) /\ mem' = mem
      BY <1>1, <1>6, <1>7, CallRecords
    <2>2. ~Says(p)
      BY <1>1, <1>4, <2>1 DEF FinalInv, SaysNoMore
    <2>3. Len(todo[p]) \in Nat \ {0}
      BY <1>1, ScriptAfter
    <2>4. ~AppendEvent(p)
      <3>1. 1 \in 1 .. Len(todo[p])
        BY <2>3
      <3> QED BY <2>2, <3>1 DEF AppendEvent, Next0, Head0, Says
    <2>5. Writing(p, -1)
      BY <1>1, <1>7, <2>1, <2>4, ScriptAfter
    <2>6. Len(todo'[p]) = Len(todo[p]) - 1 /\ \A i \in 2 .. Len(todo[p]) : todo'[p][i - 1] = todo[p][i]
      BY <2>3, <2>5 DEF Writing
    <2>7. ASSUME NEW i \in 1 .. Len(todo'[p]) PROVE todo'[p][i].do \notin {"append", "append_row"}
      <3>1. i + 1 \in 2 .. Len(todo[p]) /\ i + 1 \in 1 .. Len(todo[p]) /\ (i + 1) - 1 = i
        BY <2>3, <2>6
      <3>2. todo'[p][i] = todo[p][i + 1]
        BY <2>6, <3>1
      <3> QED BY <2>2, <3>1, <3>2 DEF Says
    <2> QED BY <2>7 DEF Says
  <1> QED
    BY <1>5, <1>7

\* The log of a run that is over is closed in memory, from one step to the next.
LEMMA NextFinal ==
  ASSUME StorageInv, EndInv, FinalInv, [Next]_vars
  PROVE  FinalInv'
  <1> SUFFICES ASSUME NEW r \in TextRuns PROVE SaysNoMore(r)'
    BY DEF FinalInv
  <1>1. /\ r \in Runs /\ ThreadsOK /\ StateTypeOK /\ Inv /\ TextInHands(r) /\ SaysNoMore(r)
    BY InvFacts, KindAssumption DEF EndInv, FinalInv
  <1>2. ASSUME mem'[r] = mem[r],
               \A q \in Procs : RunOf(q) = r => \/ todo'[q] = todo[q] \/ todo'[q] = <<>>
                                                \/ ~Finished(mem[r])
        PROVE  SaysNoMore(r)'
    BY <1>1, <1>2 DEF SaysNoMore, Says
  <1>3. ASSUME NEW p \in Procs, PerformStep(p) PROVE SaysNoMore(r)'
    <2>1. CASE DatabaseFault(p)
      <3>1. mem' = mem /\ \A q \in Procs : todo'[q] = todo[q] \/ todo'[q] = <<>>
        BY <1>1, <2>1 DEF DatabaseFault, Continue, ThreadsOK, memVars
      <3> QED BY <1>2, <3>1
    <2>2. CASE ~DatabaseFault(p) /\ RunOf(p) = r
      BY <1>3, <2>2, CallsFallSilent
    <2>3. CASE ~DatabaseFault(p) /\ RunOf(p) # r
      <3>1. mem'[r] = mem[r] /\ \A q \in Procs : RunOf(q) = r => todo'[q] = todo[q]
        BY <1>1, <1>3, <2>3, CallFrame
      <3> QED BY <1>2, <3>1
    <2> QED BY <2>1, <2>2, <2>3
  <1>4. ASSUME NEW x \in Runs, Work(x) PROVE SaysNoMore(r)'
    <2>1. /\ mem' = mem /\ \E s, l : Continue(Worker(x), s, l)
          /\ RunOf(Worker(x)) = x /\ WorkerStep(x)
      BY <1>1, <1>4, WorkerTypes, WorkerChoice, RolesOf DEF Work, WorkerChooses, OnlyThreads, memVars
    <2>2. \A q \in Procs : q # Worker(x) => todo'[q] = todo[q]
      BY <1>1, <2>1 DEF Continue, ThreadsOK
    <2>3. x = r /\ Finished(mem[r]) => todo'[Worker(x)] = <<>>
      BY <1>1, <2>1, WorkerFallsSilent
    <2> QED BY <1>2, <2>1, <2>2, <2>3
  <1>5. ASSUME NEW x \in Runs, Submit(x) \/ Terminate(x) PROVE SaysNoMore(r)'
    <2>1. /\ mem' = mem /\ (Submission(x) \/ TerminateActive(x))
      BY <1>1, <1>5, SubmissionTypes DEF Submit, Terminate, TerminateActive, OnlyThreads, memVars
    <2>2. CASE x = r
      <3>1. Finished(mem[r]) => \A q \in Procs : todo'[q] = todo[q] \/ todo'[q] = <<>>
        BY <1>1, <2>1, <2>2, RequestsFallSilent
      <3> QED BY <1>2, <2>1, <3>1
    <2>3. CASE x # r
      <3>1. \A q \in Procs : RunOf(q) = r => todo'[q] = todo[q]
        <4>1. CASE Submit(x) /\ Launch(x)
          BY <4>1 DEF Launch
        <4>2. CASE ~(Submit(x) /\ Launch(x))
          <5>1. \E p \in {Handler(x), Canceller(x)} : Moves(p)
            BY <1>5, <4>2, RequestMoves DEF EndInv
          <5> QED BY <1>1, <2>3, <5>1, RolesOf DEF Moves
        <4> QED BY <4>1, <4>2
      <3> QED BY <1>2, <2>1, <3>1
    <2> QED BY <2>2, <2>3
  <1>6. ASSUME NEW x \in Runs, Load(x) PROVE SaysNoMore(r)'
    <2>1. todo' = todo /\ (x # r => mem'[r] = mem[r]) /\ ~Known(mem[x]) /\ Known(row[x])
      BY <1>1, <1>6 DEF Load, GetRun, StateTypeOK
    <2>2. CASE x = r
      <3>1. \A q \in Procs : RunOf(q) = r => todo'[q] = <<>>
        BY <1>1, <2>1, <2>2 DEF Inv, QuietUntilStored, OpensNew, Unknown, Idle
      <3> QED BY <3>1 DEF SaysNoMore, Says
    <2> QED BY <1>2, <2>1, <2>2
  <1>7. ASSUME NEW x \in Runs, Reconcile(x) PROVE SaysNoMore(r)'
    <2>1. /\ mem' = [mem EXCEPT ![x] = row[x]] /\ Live(row[x])
          /\ \A q \in Procs : RunOf(q) # x => todo'[q] = todo[q]
      BY <1>1, <1>7 DEF Reconcile, ReconcileRun, Interrupted, Continue, ThreadsOK, RunOf
    <2>2. CASE x = r
      BY <1>1, <2>1, <2>2 DEF SaysNoMore, Finished, Live, StateTypeOK
    <2>3. CASE x # r
      <3>1. mem'[r] = mem[r]
        BY <1>1, <2>1, <2>3 DEF StateTypeOK
      <3> QED BY <1>2, <2>1, <2>3, <3>1
    <2> QED BY <2>2, <2>3
  <1>8. Die => SaysNoMore(r)'
    <2>1. Die => mem'[r].status = "absent"
      BY <1>1 DEF Die, LoseMemory, Absent
    <2> QED BY <2>1 DEF SaysNoMore, Finished
  <1>9. UNCHANGED <<mem, todo>> => SaysNoMore(r)'
    BY <1>1 DEF SaysNoMore, Says
  <1>10. ASSUME NEW x \in Runs, Exit(x) \/ BootRaises(x) PROVE SaysNoMore(r)'
    BY <1>8, <1>9, <1>10 DEF Exit, ProcessExits, stateVars, BootRaises
  <1>11. Crash \/ Restart \/ Serve \/ UNCHANGED vars => SaysNoMore(r)'
    BY <1>8, <1>9 DEF Crash, Restart, Serve, memVars, vars, allVars, stateVars
  <1> QED
    BY <1>3, <1>4, <1>5, <1>6, <1>7, <1>10, <1>11 DEF Next

\* No row is inserted for a run that is over.
LEMMA RowsFinal ==
  ASSUME StorageInv, EndInv, FinalInv, Next, NEW r \in TextRuns, Finished(row[r])
  PROVE  rowEvents'[r] = rowEvents[r]
  <1>1. /\ r \in Runs /\ StateTypeOK /\ Inv /\ RowEndFollows(r) /\ SaysNoMore(r)
        /\ Terminal(row[r]) /\ row[r].status # "blocked"
    BY InvFacts, KindAssumption DEF EndInv, FinalInv, TextInHands, Finished, Terminal, TerminalStatuses
  <1>2. ASSUME NEW p \in Procs, AppendRow(p), RunOf(p) = r PROVE FALSE
    <2>1. Known(mem[r])
      BY <1>1, <1>2, CallerKnown DEF Perform, PutRun, AppendRow, Next0
    <2>2. Finished(mem[r])
      BY <1>1, <2>1 DEF RowEndFollows, EndFollows, Finished
    <2>3. todo[p] # <<>> /\ todo[p] \in Seq(Op) /\ todo[p][1].do = "append_row"
      BY <1>1, <1>2 DEF AppendRow, Next0, Head0, StateTypeOK
    <2>4. 1 \in 1 .. Len(todo[p])
      BY <2>3
    <2> QED BY <1>1, <1>2, <2>2, <2>3, <2>4 DEF SaysNoMore, Says
  <1>3. ASSUME NEW p \in Procs, AppendRow(p), RunOf(p) # r PROVE rowEvents'[r] = rowEvents[r]
    BY <1>1, <1>3 DEF AppendRow, StateTypeOK
  <1> QED
    BY <1>2, <1>3, DatabaseSteps

\* The inductive facts of the backend, which hold whoever reads.
LEMMA BackendInvariant == Spec => [](StorageInv /\ EndInv /\ FinalInv /\ AgreedUntilFault)
  <1>1. Init => FinalInv
    BY KindAssumption DEF Init, Init0, FinalInv, SaysNoMore, Finished, Absent
  <1>2. StorageInv /\ EndInv /\ FinalInv /\ [Next]_vars => FinalInv'
    BY NextFinal
  <1> QED
    BY <1>1, <1>2, SystemIsUnderstood, PTL DEF Spec, SystemInv

\* The log of a run that is over never grows: what a client has read after the
\* status is all there is, with any number of writes that raise and deaths.
\* (The net of _run_worker looks at the status before it appends; the finalizer
\* and the failed launch set the status with their last call.)
THEOREM FinishedLogsAreClosed == Spec => FinishedLogIsFinal
  <1>1. StorageInv /\ EndInv /\ FinalInv /\ [Next]_vars =>
          [\A r \in TextRuns : Finished(row[r]) => rowEvents'[r] = rowEvents[r]]_vars
    BY RowsFinal
  <1> QED
    BY <1>1, BackendInvariant, PTL DEF Spec, FinishedLogIsFinal

\* A text run that is over keeps its status, but for a blocked one that a
\* cancel replaces, and its log is closed.  (set_run_status, _run_worker)
THEOREM FinishedRunsStay == Spec => OverIsOver
  BY EndsStay, FinishedLogsAreClosed DEF OverIsOver

---------------------------------------------------------------------------
(* What the backend does to a run that clients follow.                     *)

\* A run that is in memory stays there until the backend dies.
LEMMA StaysKnown ==
  ASSUME StorageInv, Next, NEW r \in Runs, Known(mem[r])
  PROVE  Known(mem'[r]) \/ up' = "down"
  <1>1. Inv /\ StateTypeOK
    BY InvFacts
  <1>2. ASSUME NEW p \in Procs, PerformStep(p) PROVE Known(mem'[r])
    <2>1. CASE DatabaseFault(p)
      BY <2>1 DEF DatabaseFault, memVars
    <2>2. CASE ~DatabaseFault(p)
      BY <1>2, <2>2, CallFrame, CallRecords DEF PerformStep
    <2> QED BY <2>1, <2>2
  <1>3. ASSUME NEW x \in Runs, Submit(x) \/ Work(x) \/ Terminate(x) PROVE mem' = mem
    BY <1>1, <1>3, SubmissionTypes, WorkerTypes DEF Submit, Work, Terminate, OnlyThreads, memVars
  <1>4. ASSUME NEW x \in Runs, Load(x) \/ Reconcile(x) PROVE mem'[r] = mem[r]
    BY <1>1, <1>4 DEF Load, GetRun, Reconcile, ReconcileRun, Interrupted, StateTypeOK
  <1>5. ASSUME NEW x \in Runs, Exit(x) \/ BootRaises(x) PROVE mem' = mem \/ up' = "down"
    BY <1>5 DEF Exit, ProcessExits, stateVars, BootRaises, Die, LoseMemory
  <1>6. Crash \/ Restart \/ Serve => mem' = mem \/ up' = "down"
    BY DEF Crash, Die, LoseMemory, Restart, Serve, memVars
  <1> QED
    BY <1>2, <1>3, <1>4, <1>5, <1>6 DEF Next

\* A run that is over stays as it is until the backend dies.
LEMMA StaysFinished ==
  ASSUME StorageInv, EndInv, FinalInv, Next, NEW r \in TextRuns, Finished(mem[r])
  PROVE  (Finished(mem'[r]) /\ events'[r] = events[r]) \/ up' = "down"
  <1>1. /\ r \in Runs /\ Inv /\ StateTypeOK /\ ThreadsOK /\ Known(mem[r])
        /\ r \notin AudioRuns /\ SaysNoMore(r) /\ TextInHands(r)
    BY InvFacts, KindAssumption DEF EndInv, FinalInv, Finished, Known
  <1>2. ASSUME NEW p \in Procs, PerformStep(p) PROVE mem'[r] = mem[r] /\ events'[r] = events[r]
    <2>1. CASE DatabaseFault(p)
      BY <2>1 DEF DatabaseFault, memVars
    <2>2. CASE RunOf(p) # r
      BY <1>1, <1>2, <2>2, CallEffect DEF PerformStep
    <2>3. CASE RunOf(p) = r /\ ~DatabaseFault(p)
      <3>1. Perform(p) /\ ~Says(p) /\ EndsWith(todo[p], {})
        BY <1>1, <1>2, <2>3 DEF PerformStep, SaysNoMore, TextInHands, MayFollow, Finished, Terminal,
           TerminalStatuses
      <3>2. 1 \in 1 .. Len(todo[p])
        BY <1>1, <2>3, <3>1, ScriptAfter
      <3>3. ~SetRunStatus(p) /\ ~AppendEvent(p)
        BY <3>1, <3>2 DEF SetRunStatus, AppendEvent, Next0, Head0, Says, EndsWith
      <3>4. ~PutRun(p)
        BY <1>1, <2>3, <3>1, CallerKnown DEF Unknown
      <3> QED BY <1>1, <2>3, <3>1, <3>3, <3>4, CallRecords, CallEffect
    <2> QED BY <2>1, <2>2, <2>3
  <1>3. ASSUME NEW x \in Runs, Submit(x) \/ Work(x) \/ Terminate(x) PROVE mem' = mem /\ events' = events
    BY <1>1, <1>3, SubmissionTypes, WorkerTypes DEF Submit, Work, Terminate, OnlyThreads, memVars
  <1>4. ASSUME NEW x \in Runs, Load(x) \/ Reconcile(x) PROVE mem'[r] = mem[r] /\ events'[r] = events[r]
    BY <1>1, <1>4 DEF Load, GetRun, Reconcile, ReconcileRun, Interrupted, StateTypeOK
  <1>5. ASSUME NEW x \in Runs, Exit(x) \/ BootRaises(x) PROVE (mem' = mem /\ events' = events) \/ up' = "down"
    BY <1>5 DEF Exit, ProcessExits, stateVars, BootRaises, Die, LoseMemory
  <1>6. Crash \/ Restart \/ Serve => (mem' = mem /\ events' = events) \/ up' = "down"
    BY DEF Crash, Die, LoseMemory, Restart, Serve, memVars
  <1> QED
    BY <1>2, <1>3, <1>4, <1>5, <1>6 DEF Next

\* Deaths are never taken back.
LEMMA CrashesCount ==
  ASSUME Inv, Next, crashes' = 0
  PROVE  crashes = 0
  <1>1. crashes \in Nat
    BY DEF Inv, TypeOK
  <1>2. ASSUME NEW p \in Procs, PerformStep(p) PROVE crashes' = crashes
    BY <1>2 DEF PerformStep
  <1>3. ASSUME NEW r \in Runs,
               Submit(r) \/ Work(r) \/ Exit(r) \/ Terminate(r) \/ Load(r) \/ Reconcile(r) \/ BootRaises(r)
        PROVE  crashes' = crashes
    BY <1>3 DEF Submit, Work, Exit, Terminate, Load, Reconcile, BootRaises
  <1>4. Restart \/ Serve => crashes' = crashes
    BY DEF Restart, Serve
  <1>5. Crash => crashes' = crashes + 1
    BY DEF Crash
  <1> QED
    BY <1>1, <1>2, <1>3, <1>4, <1>5 DEF Next

\* The stored log of a run grows at its end, by the event that is next.
LEMMA LogStep ==
  ASSUME StorageInv, AgreementInv, Next, NEW r \in Runs, OwnLog(r)
  PROVE  \/ rowEvents'[r] = rowEvents[r]
         \/ \E t \in EventTypes :
              /\ rowEvents'[r] = Append(rowEvents[r], [seq |-> Len(rowEvents[r]), type |-> t])
              /\ rowEvents' = [rowEvents EXCEPT ![r] = rowEvents'[r]]
  <1>1. /\ StateTypeOK /\ Inv /\ ThreadsOK /\ LogsAgree(r) /\ rowEvents[r] \in Seq(Event)
        /\ events[r] \in Seq(Event)
    BY InvFacts DEF AgreementInv
  <1>2. ASSUME NEW p \in Procs, AppendRow(p), RunOf(p) = r
        PROVE  \E t \in EventTypes :
                  /\ rowEvents'[r] = Append(rowEvents[r], [seq |-> Len(rowEvents[r]), type |-> t])
                  /\ rowEvents' = [rowEvents EXCEPT ![r] = rowEvents'[r]]
    <2> DEFINE e == StoredEvent(r)
    <2>1. Known(mem[r]) /\ Next0(p, "append_row") /\ ThreadOK(p)
      BY <1>1, <1>2, CallerKnown, InvFacts DEF Perform, PutRun, AppendRow, Next0
    <2>2. p \in holder
      <3>1. ASSUME p \notin holder PROVE FALSE
        BY <1>1, <1>2, <2>1, <3>1, StepShape DEF ThreadOK, AppendRow
      <3> QED BY <3>1
    <2>3. Numbered(events[r]) /\ events[r] = Append(rowEvents[r], e)
      BY <1>1, <1>2, <2>1, <2>2 DEF LogsAgree, InsertsEvent
    <2>4. Len(rowEvents[r]) \in Nat /\ events[r] # <<>>
      <3>1. Appending(p)
        BY <1>1, <2>1, NextCall DEF Next0
      <3> QED BY <1>1, <1>2, <3>1 DEF Inv, AppendsEvent
    <2>5. Len(events[r]) \in 1 .. Len(events[r]) /\ e \in Event
      BY <1>1, <2>4 DEF StoredEvent
    <2> HIDE DEF e
    <2>6. Len(events[r]) = Len(rowEvents[r]) + 1
      BY <1>1, <2>3, <2>5
    <2>7. e.seq = Len(rowEvents[r])
      BY <2>3, <2>4, <2>5, <2>6 DEF Numbered, e, StoredEvent
    <2>8. e = [seq |-> Len(rowEvents[r]), type |-> e.type] /\ e.type \in EventTypes
      BY <2>5, <2>7 DEF Event
    <2>9. rowEvents' = [rowEvents EXCEPT ![r] = Append(rowEvents[r], e)]
      BY <1>2 DEF AppendRow, e
    <2> QED BY <1>1, <2>8, <2>9 DEF StateTypeOK
  <1>3. ASSUME NEW p \in Procs, AppendRow(p), RunOf(p) # r PROVE rowEvents'[r] = rowEvents[r]
    BY <1>1, <1>3 DEF AppendRow, StateTypeOK
  <1> QED
    BY <1>2, <1>3, DatabaseSteps

---------------------------------------------------------------------------
(* Parts of a log.                                                         *)

\* The first events of a log are those it had before it grew.
LEMMA OldPart ==
  ASSUME NEW S, NEW s \in Seq(S), NEW e \in S, NEW a \in Nat \ {0}, NEW b \in Nat, b <= Len(s)
  PROVE  /\ Len(Append(s, e)) = Len(s) + 1
         /\ SubSeq(Append(s, e), a, b) = SubSeq(s, a, b)
  OBVIOUS

\* The event that follows the first n.
LEMMA OneMore ==
  ASSUME NEW S, NEW s \in Seq(S), NEW n \in Nat, n < Len(s)
  PROVE  Append(SubSeq(s, 1, n), s[n + 1]) = SubSeq(s, 1, n + 1)
  <1> DEFINE t == SubSeq(s, 1, n)
             u == SubSeq(s, 1, n + 1)
  <1>1. /\ t \in Seq(S) /\ Len(t) = n /\ \A i \in 1 .. n : t[i] = s[i]
        /\ u \in Seq(S) /\ Len(u) = n + 1 /\ \A i \in 1 .. n + 1 : u[i] = s[i]
        /\ s[n + 1] \in S
    OBVIOUS
  <1> HIDE DEF t, u
  <1>2. /\ Append(t, s[n + 1]) \in Seq(S) /\ Len(Append(t, s[n + 1])) = n + 1
        /\ \A i \in 1 .. n : Append(t, s[n + 1])[i] = t[i]
        /\ Append(t, s[n + 1])[n + 1] = s[n + 1]
    BY <1>1
  <1>3. Append(t, s[n + 1]) = u
    BY <1>1, <1>2, SameParts
  <1> QED BY <1>3 DEF t, u

\* The first of a list, and the others.
LEMMA HeadTailOf ==
  ASSUME NEW S, NEW t \in Seq(S), t # <<>>
  PROVE  /\ Head(t) = t[1] /\ Tail(t) \in Seq(S) /\ Len(Tail(t)) = Len(t) - 1
         /\ \A i \in 1 .. Len(t) - 1 : Tail(t)[i] = t[i + 1]
  OBVIOUS

\* The first event of a part, and the others.
LEMMA FirstAndRest ==
  ASSUME NEW S, NEW s \in Seq(S), NEW n \in Nat, NEW m \in Nat \ {0}, n + m <= Len(s),
         NEW t \in Seq(S), Len(t) = m, \A i \in 1 .. m : t[i] = s[n + i]
  PROVE  /\ Head(t) = s[n + 1] /\ s[n + 1] \in S
         /\ Tail(t) = SubSeq(s, n + 2, n + m)
         /\ Tail(t) \in Seq(S) /\ Len(Tail(t)) = m - 1
  <1> DEFINE a == n + 2
             b == n + m
             u == SubSeq(s, a, b)
             v == Tail(t)
  <1>1. /\ a \in Nat \ {0} /\ b \in Nat /\ b <= Len(s) /\ a <= b + 1 /\ b - a + 1 = m - 1
        /\ \A i \in 1 .. m - 1 : a + i - 1 = n + (i + 1) /\ i + 1 \in 1 .. m
    OBVIOUS
  <1> HIDE DEF a, b
  <1>2. u \in Seq(S) /\ Len(u) = b - a + 1 /\ \A i \in 1 .. (b - a + 1) : u[i] = s[a + i - 1]
    BY <1>1, PartOf
  <1>3. t # <<>> /\ 1 \in 1 .. m /\ n + 1 \in 1 .. Len(s)
    OBVIOUS
  <1>4. /\ Head(t) = t[1] /\ v \in Seq(S) /\ Len(v) = Len(t) - 1
        /\ \A i \in 1 .. Len(t) - 1 : v[i] = t[i + 1]
    BY <1>3, HeadTailOf
  <1> HIDE DEF u, v
  <1>5. ASSUME NEW i \in 1 .. m - 1 PROVE v[i] = u[i]
    <2>1. i \in 1 .. (b - a + 1) /\ i \in 1 .. Len(t) - 1
      BY <1>1
    <2>2. v[i] = t[i + 1] /\ u[i] = s[a + i - 1]
      BY <1>2, <1>4, <2>1
    <2>3. t[i + 1] = s[n + (i + 1)] /\ a + i - 1 = n + (i + 1)
      BY <1>1
    <2> QED BY <2>2, <2>3, Zenon
  <1>6. v = u
    <2>1. Len(v) = m - 1 /\ Len(u) = m - 1
      BY <1>1, <1>2, <1>4
    <2>2. \A i \in 1 .. Len(v) : v[i] = u[i]
      BY <1>5, <2>1
    <2> QED BY <1>2, <1>4, <2>1, <2>2, SameParts
  <1>7. t[1] = s[n + 1] /\ s[n + 1] \in S
    BY <1>3
  <1> QED BY <1>4, <1>6, <1>7 DEF u, v, a, b

\* Event numbers are places.
LEMMA PendingPart ==
  ASSUME NEW r \in Runs, NEW n \in Nat, events[r] \in Seq(Event), Numbered(events[r]),
         n <= Len(events[r]), conn[r].cursor = n - 1
  PROVE  Pending(r) = SubSeq(events[r], n + 1, Len(events[r]))
  <1> DEFINE es == events[r]
             m == Len(es)
  <1>1. es \in Seq(Event) /\ m \in Nat /\ \A i \in 1 .. m : es[i].seq = i - 1
    BY LenProperties DEF Numbered
  <1>2. {i \in DOMAIN es : es[i].seq > n - 1} = (n + 1) .. m
    <2>1. DOMAIN es = 1 .. m
      BY <1>1
    <2> HIDE DEF es, m
    <2>2. \A i \in 1 .. m : es[i].seq > n - 1 <=> i >= n + 1
      BY <1>1
    <2> QED BY <1>1, <2>1, <2>2
  <1>3. Picked(es, (n + 1) .. m) = SubSeq(es, n + 1, m)
    <2>1. n + 1 \in Nat \ {0} /\ m <= Len(es)
      BY <1>1
    <2> HIDE DEF es, m
    <2> DEFINE a == n + 1
    <2>2. a \in Nat \ {0}
      BY <2>1
    <2> HIDE DEF a
    <2>3. Picked(es, a .. m) = SubSeq(es, a, m)
      BY <1>1, <2>1, <2>2, PickedInterval
    <2> QED BY <2>3 DEF a
  <1> QED
    BY <1>2, <1>3 DEF Pending

---------------------------------------------------------------------------
(* Clients.                                                                *)

\* What the proofs about one client use of the backend.
LEMMA ClientFacts ==
  ASSUME StorageInv, AgreedUntilFault, StreamInv, faults = 0, NEW r \in Runs, OwnLog(r)
  PROVE  /\ conn[r] \in Conn /\ conn[r].batch \in Seq(Event) /\ conn[r].cursor \in Int
         /\ events[r] \in Seq(Event) /\ rowEvents[r] \in Seq(Event) /\ received[r] \in Seq(Event)
         /\ Len(received[r]) \in Nat /\ Len(rowEvents[r]) \in Nat /\ Len(conn[r].batch) \in Nat
         /\ Follows(r) /\ Numbered(rowEvents[r])
         /\ LockFree /\ Known(mem[r]) => events[r] = rowEvents[r]
  <1>1. /\ Follows(r) /\ LogsAgree(r) /\ events[r] \in Seq(Event) /\ rowEvents[r] \in Seq(Event)
    BY InvFacts DEF StreamInv, ClientOK, AgreedUntilFault, AgreementInv
  <1>2. conn[r] \in Conn /\ received[r] \in Seq(Event)
    BY <1>1 DEF Follows
  <1>3. conn[r].batch \in Seq(Event) /\ conn[r].cursor \in Int
    BY <1>2 DEF Conn
  <1>4. LockFree => ~InsertsEvent(r)
    BY DEF LockFree, InsertsEvent
  <1> QED
    BY <1>1, <1>2, <1>3, <1>4, LenProperties DEF LogsAgree

\* Whatever the backend does, a client has the first events of the log, and
\* who has them all has them all.
LEMMA BackendKeeps ==
  ASSUME StorageInv, EndInv, FinalInv, AgreedUntilFault, StreamInv, BackendStep
  PROVE  StreamInv'
  <1>1. /\ Next /\ received' = received /\ conn' = [r \in Runs |-> conn'[r]]
        /\ \A r \in Runs : conn'[r] = conn[r] \/ conn'[r] = NoConn
        /\ \A r \in Runs : up' = "down" => conn'[r] = NoConn
    BY DEF BackendStep, StreamInv
  <1>2. NoConn \in Conn /\ NoConn.at = "off"
    <2>1. <<>> \in Seq(Event) /\ -1 \in Int
      OBVIOUS
    <2> QED BY <2>1 DEF NoConn, Conn, Statuses
  <1>3. ASSUME faults' = 0 PROVE faults = 0 /\ AgreementInv
    BY <1>1, <1>3, FaultsCount, InvFacts DEF AgreedUntilFault
  <1>4. ASSUME faults' = 0, NEW r \in Runs, OwnLog(r)' PROVE Follows(r)'
    <2> DEFINE n == Len(received[r])
               s == rowEvents[r]
               m == Len(conn[r].batch)
    <2>1. OwnLog(r)
      BY <1>1, <1>4, CrashesCount, InvFacts DEF OwnLog
    <2>2. /\ s \in Seq(Event) /\ n \in Nat /\ Len(s) \in Nat /\ Follows(r) /\ m \in Nat
      BY <1>3, <1>4, <2>1, ClientFacts
    <2>3. \/ rowEvents'[r] = s
          \/ \E e \in Event : rowEvents'[r] = Append(s, e)
      <3>1. \A t \in EventTypes : [seq |-> Len(s), type |-> t] \in Event
        BY <2>2 DEF Event
      <3> QED BY <1>1, <1>3, <1>4, <2>1, <3>1, LogStep
    <2>4. /\ conn[r] \in Conn /\ received[r] \in Seq(Event)
          /\ conn[r].at # "off" => Known(mem[r])
          /\ n <= Len(s) /\ received[r] = SubSeq(s, 1, n)
          /\ conn[r].at \in {"poll", "send"} => conn[r].cursor = n - 1
          /\ conn[r].at = "send" => /\ conn[r].batch # <<>> /\ n + m <= Len(s)
                                    /\ conn[r].batch = SubSeq(s, n + 1, n + m)
      BY <2>2 DEF Follows
    <2> HIDE DEF n, s, m
    <2>5. /\ Len(rowEvents'[r]) >= Len(s) /\ Len(rowEvents'[r]) \in Nat
          /\ \A a \in Nat \ {0}, b \in Nat : b <= Len(s) => SubSeq(rowEvents'[r], a, b) = SubSeq(s, a, b)
      <3>1. \A e \in Event, a \in Nat \ {0}, b \in Nat : b <= Len(s) =>
               Len(Append(s, e)) = Len(s) + 1 /\ SubSeq(Append(s, e), a, b) = SubSeq(s, a, b)
        BY <2>2, OldPart
      <3>2. 1 \in Nat \ {0} /\ 0 \in Nat /\ 0 <= Len(s)
        BY <2>2
      <3> QED BY <2>2, <2>3, <3>1, <3>2
    <2>6. n <= Len(rowEvents'[r]) /\ received[r] = SubSeq(rowEvents'[r], 1, n)
      <3>1. 1 \in Nat \ {0} /\ n \in Nat /\ n <= Len(s)
        BY <2>2, <2>4
      <3>2. SubSeq(rowEvents'[r], 1, n) = SubSeq(s, 1, n)
        BY <2>5, <3>1
      <3>3. n <= Len(rowEvents'[r])
        BY <2>2, <2>5, <3>1
      <3> QED BY <2>4, <3>2, <3>3
    <2>7. conn[r].at = "send" =>
             n + m <= Len(rowEvents'[r]) /\ conn[r].batch = SubSeq(rowEvents'[r], n + 1, n + m)
      <3>1. n + 1 \in Nat \ {0} /\ n + m \in Nat
        BY <2>2
      <3>2. n + m <= Len(s) => n + m <= Len(rowEvents'[r])
        BY <2>2, <2>5
      <3> QED BY <2>4, <2>5, <3>1, <3>2
    <2>8. conn'[r].at # "off" => conn'[r] = conn[r] /\ Known(mem'[r])
      BY <1>1, <1>2, <2>4, StaysKnown
    <2>9. conn'[r] \in Conn /\ received'[r] = received[r]
      BY <1>1, <1>2, <2>4
    <2> QED BY <2>4, <2>6, <2>7, <2>8, <2>9 DEF Follows, n, m
  <1>5. ASSUME faults' = 0, NEW r \in Runs, r \in TextRuns PROVE Informed(r)'
    <2>1. Informed(r)
      BY <1>3, <1>5 DEF StreamInv, ClientOK
    <2>2. SUFFICES ASSUME conn'[r].at = "over"
                   PROVE  /\ conn'[r].status # "rejected" =>
                               HasEvent(received'[r], Announces(conn'[r].status))
                          /\ conn'[r].status \notin {"blocked", "rejected"} =>
                               Finished(mem'[r]) /\ received'[r] = events'[r]
      BY DEF Informed
    <2>3. conn'[r] = conn[r] /\ up' # "down"
      BY <1>1, <1>2, <1>5, <2>2
    <2> QED BY <1>1, <1>5, <2>1, <2>2, <2>3, StaysFinished DEF Informed
  <1> QED
    BY <1>1, <1>4, <1>5 DEF StreamInv, ClientOK

\* A client is nobody else's business.
LEMMA OthersKeep ==
  ASSUME StreamInv, UNCHANGED vars, NEW r \in Runs,
         conn' = [conn EXCEPT ![r] = conn'[r]], received' = [received EXCEPT ![r] = received'[r]],
         faults = 0 => ClientOK(r)'
  PROVE  StreamInv'
  <1>1. /\ conn' = [x \in Runs |-> conn'[x]] /\ received' = [x \in Runs |-> received'[x]]
        /\ \A x \in Runs \ {r} : conn'[x] = conn[x] /\ received'[x] = received[x]
    BY DEF StreamInv
  <1>2. /\ mem' = mem /\ events' = events /\ rowEvents' = rowEvents /\ crashes' = crashes
        /\ faults' = faults
    BY DEF vars, allVars, stateVars
  <1>3. ASSUME faults = 0, NEW x \in Runs \ {r} PROVE ClientOK(x)'
    <2>1. ClientOK(x)
      BY <1>3 DEF StreamInv
    <2> QED BY <1>1, <1>2, <1>3, <2>1 DEF ClientOK, OwnLog, Follows, Informed
  <1> QED
    BY <1>1, <1>2, <1>3 DEF StreamInv

\* A client that connects asks for what it has not got.
LEMMA ConnectKeeps ==
  ASSUME StorageInv, AgreedUntilFault, StreamInv, NEW r \in Runs, Connect(r)
  PROVE  StreamInv'
  <1>1. /\ UNCHANGED vars /\ received' = received /\ Known(mem[r])
        /\ conn' = [conn EXCEPT ![r] = [NoConn EXCEPT !.at = "poll", !.cursor = LastSeq(received[r])]]
    BY DEF Connect
  <1>2. /\ mem' = mem /\ events' = events /\ rowEvents' = rowEvents /\ crashes' = crashes
    BY <1>1 DEF vars, allVars, stateVars
  <1>3. conn'[r] = [at |-> "poll", cursor |-> LastSeq(received[r]), batch |-> <<>>, status |-> "running"]
    BY <1>1 DEF StreamInv, NoConn
  <1>4. ASSUME faults = 0, OwnLog(r) PROVE Follows(r)'
    <2> DEFINE n == Len(received[r])
               s == rowEvents[r]
    <2>1. /\ s \in Seq(Event) /\ received[r] \in Seq(Event) /\ n \in Nat /\ Follows(r)
          /\ Numbered(s)
      BY <1>4, ClientFacts
    <2>2. n <= Len(s) /\ received[r] = SubSeq(s, 1, n)
      BY <2>1 DEF Follows
    <2>3. received[r] = <<>> <=> n = 0
      BY <2>1
    <2>4. n # 0 => received[r][n].seq = n - 1
      <3>1. n # 0 => n \in 1 .. n /\ n \in 1 .. Len(s)
        BY <2>1, <2>2
      <3>2. n # 0 => received[r][n] = s[n]
        BY <2>1, <2>2, <3>1
      <3> QED BY <2>1, <3>1, <3>2 DEF Numbered
    <2>5. LastSeq(received[r]) = n - 1
      BY <2>1, <2>3, <2>4 DEF LastSeq
    <2>6. conn'[r] \in Conn
      <3>1. <<>> \in Seq(Event) /\ n - 1 \in Int
        BY <2>1
      <3> QED BY <1>3, <2>5, <3>1 DEF Conn, Statuses
    <2> HIDE DEF n, s
    <2>7. /\ n <= Len(s) /\ received[r] = SubSeq(s, 1, n) /\ conn'[r].cursor = n - 1
          /\ conn'[r].at = "poll" /\ received'[r] \in Seq(Event) /\ Known(mem'[r])
      BY <1>1, <1>2, <1>3, <2>1, <2>2, <2>5
    <2> QED BY <1>1, <1>2, <2>6, <2>7 DEF Follows, n, s
  <1>5. Informed(r)'
    BY <1>3 DEF Informed
  <1>6. faults = 0 => ClientOK(r)'
    BY <1>2, <1>4, <1>5 DEF ClientOK, OwnLog
  <1> QED
    BY <1>1, <1>6, OthersKeep DEF StreamInv

\* A client that is gone has what it has.
LEMMA DisconnectKeeps ==
  ASSUME StorageInv, AgreedUntilFault, StreamInv, NEW r \in Runs, Disconnect(r)
  PROVE  StreamInv'
  <1>1. /\ UNCHANGED vars /\ received' = received /\ conn' = [conn EXCEPT ![r] = NoConn]
    BY DEF Disconnect
  <1>2. /\ mem' = mem /\ rowEvents' = rowEvents /\ crashes' = crashes /\ conn'[r] = NoConn
    BY <1>1 DEF vars, allVars, stateVars, StreamInv
  <1>3. NoConn \in Conn /\ NoConn.at = "off"
    <2>1. <<>> \in Seq(Event) /\ -1 \in Int
      OBVIOUS
    <2> QED BY <2>1 DEF NoConn, Conn, Statuses
  <1>4. faults = 0 => ClientOK(r)'
    BY <1>1, <1>2, <1>3, ClientFacts DEF ClientOK, OwnLog, Follows, Informed, StreamInv
  <1> QED
    BY <1>1, <1>4, OthersKeep DEF StreamInv

\* What a client is sent is what it has not got; what ends its stream is the
\* end of the run, and was announced.
LEMMA ReadKeeps ==
  ASSUME StorageInv, AgreedUntilFault, StreamInv, FinalStatusIsAnnounced,
         NEW r \in Runs, ReadEvents(r)
  PROVE  StreamInv'
  <1>1. /\ UNCHANGED vars /\ received' = received /\ conn[r].at = "poll" /\ LockFree
        /\ Pending(r) # <<>> \/ Ends(r)
        /\ conn' = [conn EXCEPT ![r].at = IF Ends(r) THEN "over" ELSE "send",
                                ![r].batch = Pending(r), ![r].status = mem[r].status]
    BY DEF ReadEvents, CanRead
  <1>2. /\ mem' = mem /\ events' = events /\ rowEvents' = rowEvents /\ crashes' = crashes
    BY <1>1 DEF vars, allVars, stateVars
  <1>3. ASSUME faults = 0, OwnLog(r) PROVE Follows(r)' /\ (r \in TextRuns => Informed(r)')
    <2> DEFINE n == Len(received[r])
               s == rowEvents[r]
               m == Len(Pending(r))
    <2>1. /\ s \in Seq(Event) /\ received[r] \in Seq(Event) /\ n \in Nat /\ Len(s) \in Nat
          /\ conn[r] \in Conn /\ Numbered(s) /\ Follows(r)
          /\ Known(mem[r]) => events[r] = s
      BY <1>1, <1>3, ClientFacts
    <2>2. /\ Known(mem[r]) /\ n <= Len(s) /\ received[r] = SubSeq(s, 1, n)
          /\ conn[r].cursor = n - 1
      BY <1>1, <2>1 DEF Follows
    <2>3. Pending(r) = SubSeq(s, n + 1, Len(s)) /\ events[r] = s
      BY <2>1, <2>2, PendingPart
    <2> HIDE DEF n, s
    <2>4. Pending(r) \in Seq(Event) /\ m \in Nat /\ n + m = Len(s)
      <3> DEFINE a == n + 1
                 b == Len(s)
      <3>1. a \in Nat \ {0} /\ b \in Nat /\ b <= Len(s) /\ a <= b + 1 /\ b - a + 1 = b - n
        BY <2>1, <2>2
      <3>2. Pending(r) = SubSeq(s, a, b)
        BY <2>3
      <3> HIDE DEF a, b
      <3>3. Pending(r) \in Seq(Event) /\ Len(Pending(r)) = b - a + 1
        BY <2>1, <3>1, <3>2, PartOf
      <3>4. b = Len(s)
        BY DEF b
      <3> QED BY <2>1, <2>2, <3>1, <3>3, <3>4
    <2> HIDE DEF m
    <2>5. /\ conn'[r].at = (IF Ends(r) THEN "over" ELSE "send") /\ conn'[r].cursor = conn[r].cursor
          /\ conn'[r].batch = Pending(r) /\ conn'[r].status = mem[r].status /\ conn'[r] \in Conn
      <3>1. mem[r].status \in Statuses
        <4>1. mem[r] \in RunRec
          BY InvFacts DEF StateTypeOK
        <4> QED BY <2>2, <4>1 DEF RunRec, Known
      <3>2. conn'[r] = [conn[r] EXCEPT !.at = IF Ends(r) THEN "over" ELSE "send",
                                       !.batch = Pending(r), !.status = mem[r].status]
        BY <1>1 DEF StreamInv
      <3> QED BY <2>1, <2>4, <3>1, <3>2 DEF Conn
    <2>6. Follows(r)'
      <3>1. received'[r] = received[r] /\ received'[r] \in Seq(Event) /\ Known(mem'[r])
        BY <1>1, <1>2, <2>1, <2>2
      <3>2. conn'[r].at = "send" => Pending(r) # <<>>
        BY <1>1, <2>5
      <3>3. n + m <= Len(s) /\ Pending(r) = SubSeq(s, n + 1, n + m)
        <4>1. n + m <= Len(s)
          BY <2>1, <2>4
        <4>2. Pending(r) = SubSeq(s, n + 1, n + m)
          BY <2>3, <2>4, Zenon
        <4> QED BY <4>1, <4>2
      <3>4. conn'[r].cursor = n - 1
        BY <2>2, <2>5
      <3> QED BY <1>2, <2>2, <2>5, <3>1, <3>2, <3>3, <3>4 DEF Follows, n, s, m
    <2>7. ASSUME r \in TextRuns, Ends(r)
          PROVE  /\ mem[r].status # "rejected" => HasEvent(received[r], Announces(mem[r].status))
                 /\ mem[r].status \notin {"blocked", "rejected"} => Finished(mem[r])
                 /\ received[r] = events[r]
      <3>1. Pending(r) = <<>> /\ Terminal(mem[r])
        BY <2>7 DEF Ends
      <3>2. n = Len(s)
        BY <2>1, <2>4, <3>1 DEF m
      <3>3. SubSeq(s, 1, Len(s)) = s
        BY <2>1
      <3>4. received[r] = events[r]
        BY <2>2, <2>3, <3>2, <3>3
      <3> QED BY <3>1, <3>4 DEF FinalStatusIsAnnounced, Finished, Terminal, TerminalStatuses
    <2>8. r \in TextRuns => Informed(r)'
      BY <1>1, <1>2, <2>5, <2>7 DEF Informed
    <2> QED BY <2>6, <2>8
  <1>4. faults = 0 => ClientOK(r)'
    <2>1. r \in TextRuns => OwnLog(r)
      BY DEF OwnLog
    <2> QED BY <1>2, <1>3, <2>1 DEF ClientOK, OwnLog
  <1>5. conn' = [conn EXCEPT ![r] = conn'[r]] /\ received' = [received EXCEPT ![r] = received'[r]]
    BY <1>1 DEF StreamInv
  <1> QED
    BY <1>1, <1>4, <1>5, OthersKeep

\* A client gets the event that follows those it has.
LEMMA YieldKeeps ==
  ASSUME StorageInv, AgreedUntilFault, StreamInv, NEW r \in Runs, YieldEvent(r)
  PROVE  /\ StreamInv'
         /\ faults = 0 /\ OwnLog(r) =>
               /\ Len(received[r]) < Len(rowEvents[r])
               /\ received' = [received EXCEPT ![r] = Append(@, rowEvents[r][Len(@) + 1])]
  <1> DEFINE e == Head(conn[r].batch)
             rest == Tail(conn[r].batch)
  <1>1. /\ UNCHANGED vars /\ conn[r].at = "send"
        /\ conn' = [conn EXCEPT ![r].at = IF rest = <<>> THEN "poll" ELSE "send",
                                ![r].cursor = e.seq, ![r].batch = rest]
        /\ received' = [received EXCEPT ![r] = Append(@, e)]
    BY DEF YieldEvent
  <1>2. /\ mem' = mem /\ events' = events /\ rowEvents' = rowEvents /\ crashes' = crashes
    BY <1>1 DEF vars, allVars, stateVars
  <1>3. ASSUME faults = 0, OwnLog(r)
        PROVE  /\ Follows(r)' /\ conn'[r].at # "over"
               /\ Len(received[r]) < Len(rowEvents[r]) /\ e = rowEvents[r][Len(received[r]) + 1]
    <2> DEFINE n == Len(received[r])
               s == rowEvents[r]
               m == Len(conn[r].batch)
    <2>1. /\ s \in Seq(Event) /\ received[r] \in Seq(Event) /\ n \in Nat /\ Len(s) \in Nat
          /\ conn[r] \in Conn /\ conn[r].batch \in Seq(Event) /\ m \in Nat
          /\ Numbered(s) /\ Follows(r)
      BY <1>3, ClientFacts
    <2>2. /\ Known(mem[r]) /\ received[r] = SubSeq(s, 1, n)
          /\ conn[r].batch # <<>> /\ n + m <= Len(s) /\ conn[r].batch = SubSeq(s, n + 1, n + m)
      BY <1>1, <2>1 DEF Follows
    <2>3. m \in Nat \ {0}
      BY <2>1, <2>2
    <2>4. rest \in Seq(Event)
      BY <2>1, <2>2
    <2> HIDE DEF n, s, m
    <2>5. /\ e = s[n + 1] /\ s[n + 1] \in Event /\ rest = SubSeq(s, n + 2, n + m)
          /\ Len(rest) = m - 1
      <3>1. s \in Seq(Event) /\ n \in Nat /\ m \in Nat \ {0} /\ n + m <= Len(s)
        BY <2>1, <2>2, <2>3
      <3>2. conn[r].batch = SubSeq(s, n + 1, n + m)
        BY <2>2
      <3> DEFINE t == conn[r].batch
      <3> HIDE DEF t
      <3>3. t \in Seq(Event) /\ Len(t) = m /\ \A i \in 1 .. m : t[i] = s[n + i]
        <4>1. /\ Len(SubSeq(s, n + 1, n + m)) = m
              /\ \A i \in 1 .. m : SubSeq(s, n + 1, n + m)[i] = s[n + i]
          BY <3>1
        <4> QED BY <2>1, <3>2, <4>1 DEF t
      <3>4. /\ Head(t) = s[n + 1] /\ s[n + 1] \in Event
            /\ Tail(t) = SubSeq(s, n + 2, n + m)
            /\ Tail(t) \in Seq(Event) /\ Len(Tail(t)) = m - 1
        BY <3>1, <3>3, FirstAndRest, SMTT(60)
      <3> QED BY <3>4 DEF t
    <2>6. n < Len(s) /\ n + 1 \in 1 .. Len(s) /\ e.seq = n
      <3> DEFINE last == Len(s)
      <3>1. n \in Nat /\ m \in Nat \ {0} /\ last \in Nat /\ n + m <= last
        BY <2>1, <2>2, <2>3
      <3> HIDE DEF last
      <3>2. n < last /\ n + 1 \in 1 .. last /\ (n + 1) - 1 = n
        BY <3>1
      <3> QED BY <2>1, <2>5, <3>2 DEF Numbered, last
    <2>7. Append(received[r], e) = SubSeq(s, 1, n + 1)
      BY <2>1, <2>2, <2>5, <2>6, OneMore
    <2> HIDE DEF e, rest
    <2>8. /\ conn'[r].at = (IF rest = <<>> THEN "poll" ELSE "send") /\ conn'[r].cursor = e.seq
          /\ conn'[r].batch = rest /\ conn'[r] \in Conn
      <3>1. e.seq \in Int
        BY <2>1, <2>6
      <3>2. conn'[r] = [conn[r] EXCEPT !.at = IF rest = <<>> THEN "poll" ELSE "send",
                                       !.cursor = e.seq, !.batch = rest]
        BY <1>1 DEF StreamInv
      <3> QED BY <2>1, <2>4, <3>1, <3>2 DEF Conn
    <2>9. received'[r] = Append(received[r], e) /\ received'[r] \in Seq(Event)
          /\ Len(received'[r]) = n + 1
      <3>1. received'[r] = Append(received[r], e)
        BY <1>1 DEF StreamInv
      <3>2. e \in Event
        BY <2>5
      <3> QED BY <2>1, <3>1, <3>2 DEF n
    <2>10. Follows(r)'
      <3>1. /\ n + 1 <= Len(s) /\ received'[r] = SubSeq(s, 1, n + 1)
            /\ conn'[r].cursor = (n + 1) - 1
        BY <2>1, <2>6, <2>7, <2>8, <2>9
      <3>2. conn'[r].at = "send" => rest # <<>>
        BY <2>8
      <3>3. (n + 1) + Len(rest) <= Len(s) /\ rest = SubSeq(s, (n + 1) + 1, (n + 1) + Len(rest))
        <4>1. n + 2 = (n + 1) + 1 /\ n + m = (n + 1) + Len(rest)
          BY <2>1, <2>3, <2>5
        <4> QED BY <2>2, <2>5, <4>1
      <3>4. rowEvents'[r] = s
        BY <1>2 DEF s
      <3> QED BY <1>2, <2>2, <2>8, <2>9, <3>1, <3>2, <3>3, <3>4 DEF Follows
    <2> QED BY <2>5, <2>6, <2>8, <2>10 DEF n, s
  <1>4. faults = 0 => ClientOK(r)'
    <2>1. r \in TextRuns => OwnLog(r)
      BY DEF OwnLog
    <2> QED BY <1>2, <1>3, <2>1 DEF ClientOK, OwnLog, Informed
  <1> HIDE DEF e, rest
  <1>5. StreamInv'
    <2>1. conn' = [conn EXCEPT ![r] = conn'[r]] /\ received' = [received EXCEPT ![r] = received'[r]]
      BY <1>1 DEF StreamInv
    <2> QED BY <1>1, <1>4, <2>1, OthersKeep
  <1> QED
    BY <1>1, <1>3, <1>5


---------------------------------------------------------------------------
(* What the stream promises.                                               *)

\* Readers change nothing of the backend.
LEMMA StreamsOnlyRead == StreamedSpec => Spec
  <1>1. StreamedInit => Init
    BY DEF StreamedInit
  <1>2. [StreamedNext]_streamedVars => [Next]_vars
    BY DEF StreamedNext, streamedVars, BackendStep, Connect, ReadEvents, YieldEvent, Disconnect
  <1> QED
    BY <1>1, <1>2, PTL DEF StreamedSpec, Spec

\* Until the first write that raises, a client has the first events of the
\* log of its run, asks for those that follow, and when its stream ends the
\* run has ended as it says.
THEOREM ClientsFollow == StreamedSpec => []StreamInv
  <1>1. StreamedInit => StreamInv
    <2> SUFFICES ASSUME Init, InitStream PROVE StreamInv
      BY DEF StreamedInit
    <2>1. /\ conn = [r \in Runs |-> NoConn] /\ received = [r \in Runs |-> <<>>]
          /\ rowEvents = [r \in Runs |-> <<>>]
      BY DEF InitStream, Init, Init0
    <2>2. NoConn \in Conn /\ NoConn.at = "off"
      <3>1. <<>> \in Seq(Event) /\ -1 \in Int
        OBVIOUS
      <3> QED BY <3>1 DEF NoConn, Conn, Statuses
    <2>3. <<>> \in Seq(Event) /\ Len(<<>>) = 0 /\ SubSeq(<<>>, 1, 0) = <<>>
      OBVIOUS
    <2>4. ASSUME NEW r \in Runs PROVE ClientOK(r)
      <3>1. conn[r] = NoConn /\ received[r] = <<>> /\ rowEvents[r] = <<>>
        BY <2>1
      <3> QED BY <2>2, <2>3, <3>1 DEF ClientOK, Follows, Informed
    <2> QED BY <2>1, <2>4 DEF StreamInv
  <1>2. StorageInv /\ EndInv /\ FinalInv /\ AgreedUntilFault /\ FinalStatusIsAnnounced
        /\ StreamInv /\ [StreamedNext]_streamedVars => StreamInv'
    <2> SUFFICES ASSUME StorageInv, EndInv, FinalInv, AgreedUntilFault, FinalStatusIsAnnounced,
                        StreamInv, [StreamedNext]_streamedVars
                 PROVE  StreamInv'
      OBVIOUS
    <2>1. CASE UNCHANGED streamedVars
      <3>1. /\ conn' = conn /\ received' = received /\ mem' = mem /\ events' = events
            /\ rowEvents' = rowEvents /\ crashes' = crashes /\ faults' = faults
        BY <2>1 DEF streamedVars, streamVars, vars, allVars, stateVars
      <3> QED BY <3>1 DEF StreamInv, ClientOK, OwnLog, Follows, Informed
    <2>2. ASSUME NEW r \in Runs, Connect(r) \/ ReadEvents(r) \/ YieldEvent(r) \/ Disconnect(r)
          PROVE  StreamInv'
      BY <2>2, ConnectKeeps, ReadKeeps, YieldKeeps, DisconnectKeeps
    <2> QED BY <2>1, <2>2, BackendKeeps DEF StreamedNext
  <1> QED
    BY <1>1, <1>2, StreamsOnlyRead, BackendInvariant, EndsAreAnnounced, PTL DEF StreamedSpec

\* A client whose stream ends has the whole log and knows how the run ended,
\* whatever connections and backends died on the way, as long as no write to
\* the database raised.
THEOREM EndedStreamsAreWhole == StreamedSpec => [](faults = 0 => EndedStreamIsWhole)
  <1>1. StreamInv => (faults = 0 => EndedStreamIsWhole)
    <2> SUFFICES ASSUME StreamInv, faults = 0, NEW r \in TextRuns, conn[r].at = "over"
                 PROVE  /\ conn[r].status \notin {"blocked", "rejected"} => received[r] = events[r]
                        /\ conn[r].status # "rejected" =>
                              HasEvent(received[r], Announces(conn[r].status))
      BY DEF EndedStreamIsWhole, EndedStreamIsComplete, EndedStreamToldTheEnd
    <2>1. Informed(r)
      BY KindAssumption DEF StreamInv, ClientOK
    <2> QED BY <2>1 DEF Informed
  <1> QED
    BY <1>1, ClientsFollow, PTL

\* No write raises and no death is forgotten where none can happen.
LEMMA NothingElseHappens ==
  ASSUME Inv, [Next]_vars
  PROVE  /\ MaxFaults = 0 /\ faults = 0 => faults' = 0
         /\ MaxCrashes = 0 /\ crashes = 0 => crashes' = 0
  <1>1. UNCHANGED vars => faults' = faults /\ crashes' = crashes
    BY DEF vars, allVars, stateVars
  <1>2. ASSUME NEW p \in Procs, PerformStep(p)
        PROVE  crashes' = crashes /\ (MaxFaults = 0 /\ faults = 0 => faults' = 0)
    BY <1>2 DEF PerformStep, Perform, PutRun, ReadRecord, UpdateMeta, SetRunStatus, AppendEvent,
       UpsertRow, UpdateRow, UpdateSession, AppendRow, WriteDone, DatabaseFault
  <1>3. ASSUME NEW r \in Runs, Submit(r) \/ Work(r) \/ Exit(r) \/ Terminate(r)
        PROVE  faults' = faults /\ crashes' = crashes
    <2>1. CASE Submit(r)
      BY <2>1, SubmissionTypes DEF Submit
    <2>2. CASE Work(r) \/ Terminate(r)
      BY <2>2, WorkerTypes DEF Work, Terminate, OnlyThreads
    <2>3. CASE Exit(r)
      BY <2>3 DEF Exit, ProcessExits, stateVars
    <2> QED BY <1>3, <2>1, <2>2, <2>3
  <1>4. ASSUME NEW r \in Runs, Load(r) \/ Reconcile(r) \/ BootRaises(r)
        PROVE  faults' = faults /\ crashes' = crashes
    BY <1>4 DEF Load, GetRun, Reconcile, ReconcileRun, BootRaises, Die
  <1>5. Restart \/ Serve => faults' = faults /\ crashes' = crashes
    BY DEF Restart, Serve
  <1>6. Crash => faults' = faults /\ ~(MaxCrashes = 0 /\ crashes = 0)
    BY DEF Crash, Die
  <1> QED
    BY <1>1, <1>2, <1>3, <1>4, <1>5, <1>6 DEF Next

\* The log grows at its end, one event at a time and one log at a time.
LEMMA OneLogGrows ==
  ASSUME StorageInv, AgreementInv, Next, \A r \in Runs : OwnLog(r)
  PROVE  \/ rowEvents' = rowEvents
         \/ \E r \in Runs : \E t \in EventTypes :
               rowEvents' = [rowEvents EXCEPT
                               ![r] = Append(rowEvents[r], [seq |-> Len(rowEvents[r]), type |-> t])]
  <1>1. /\ rowEvents = [r \in Runs |-> rowEvents[r]] /\ rowEvents' = [r \in Runs |-> rowEvents'[r]]
    <2>1. rowEvents = [r \in Runs |-> rowEvents[r]]
      BY InvFacts DEF StateTypeOK
    <2>2. rowEvents' = rowEvents \/ \E p \in Procs : AppendRow(p)
      BY DatabaseSteps
    <2> QED BY <2>1, <2>2 DEF AppendRow
  <1>2. (\A r \in Runs : rowEvents'[r] = rowEvents[r]) => rowEvents' = rowEvents
    BY <1>1
  <1>3. ASSUME NEW r \in Runs, rowEvents'[r] # rowEvents[r]
        PROVE  \E t \in EventTypes :
                  rowEvents' = [rowEvents EXCEPT
                                  ![r] = Append(rowEvents[r], [seq |-> Len(rowEvents[r]), type |-> t])]
    BY <1>3, LogStep
  <1>4. CASE \A r \in Runs : rowEvents'[r] = rowEvents[r]
    BY <1>2, <1>4
  <1>5. CASE ~\A r \in Runs : rowEvents'[r] = rowEvents[r]
    <2>1. PICK r \in Runs : rowEvents'[r] # rowEvents[r]
      BY <1>5
    <2> QED BY <1>3, <2>1
  <1> QED
    BY <1>4, <1>5

\* Through any number of connections and deaths of the backend, the client of
\* a run gets each event of its stored log once and in order.  (Where no write
\* raises; and where an audio run's id, which the client chooses, is not used
\* again for another run after a death.)
THEOREM LogIsStreamed ==
    MaxFaults = 0 /\ (AudioRuns = {} \/ MaxCrashes = 0) => (StreamedSpec => StreamsTheLog)
  <1> SUFFICES ASSUME MaxFaults = 0, AudioRuns = {} \/ MaxCrashes = 0
               PROVE  StreamedSpec => StreamsTheLog
    OBVIOUS
  <1> DEFINE Calm == faults = 0 /\ (MaxCrashes = 0 => crashes = 0)
  <1>1. StreamedInit => Calm /\ Log!Init
    BY DEF StreamedInit, InitStream, Init, Init0, Log!Init
  <1>2. StorageInv /\ Calm /\ [StreamedNext]_streamedVars => Calm'
    <2>1. [StreamedNext]_streamedVars => [Next]_vars
      BY DEF StreamedNext, streamedVars, BackendStep, Connect, ReadEvents, YieldEvent, Disconnect
    <2> QED BY <2>1, InvFacts, NothingElseHappens
  <1>3. StorageInv /\ AgreedUntilFault /\ StreamInv /\ Calm /\ [StreamedNext]_streamedVars
          => [Log!Next]_(Log!logVars)
    <2> SUFFICES ASSUME StorageInv, AgreedUntilFault, StreamInv, Calm, [StreamedNext]_streamedVars
                 PROVE  [Log!Next]_(Log!logVars)
      OBVIOUS
    <2>1. faults = 0 /\ AgreementInv /\ \A r \in Runs : OwnLog(r)
      <3>1. \A r \in Runs : r \in TextRuns \/ r \in AudioRuns
        BY KindAssumption
      <3>2. AudioRuns = {} => \A r \in Runs : r \in TextRuns
        BY <3>1
      <3>3. AudioRuns = {} \/ MaxCrashes = 0
        OBVIOUS
      <3> QED BY <3>2, <3>3 DEF AgreedUntilFault, OwnLog
    <2>2. CASE BackendStep
      <3>1. Next /\ received' = received
        BY <2>2 DEF BackendStep
      <3>2. \/ rowEvents' = rowEvents
            \/ \E r \in Runs : \E t \in EventTypes :
                  rowEvents' = [rowEvents EXCEPT
                                  ![r] = Append(rowEvents[r], [seq |-> Len(rowEvents[r]), type |-> t])]
        BY <2>1, <3>1, OneLogGrows
      <3>3. CASE rowEvents' = rowEvents
        BY <3>1, <3>3 DEF Log!logVars
      <3>4. ASSUME NEW r \in Runs, NEW t \in EventTypes,
                   rowEvents' = [rowEvents EXCEPT
                                   ![r] = Append(rowEvents[r], [seq |-> Len(rowEvents[r]), type |-> t])]
            PROVE  Log!Write(r)
        BY <3>1, <3>4 DEF Log!Write
      <3>5. (\E r \in Runs : Log!Write(r)) => Log!Next
        BY DEF Log!Next
      <3> QED BY <3>2, <3>3, <3>4, <3>5
    <2>3. ASSUME NEW r \in Runs, YieldEvent(r) PROVE Log!Read(r)
      <3>1. rowEvents' = rowEvents
        BY <2>3 DEF YieldEvent, vars, allVars, stateVars
      <3> QED BY <2>1, <2>3, <3>1, YieldKeeps DEF Log!Read
    <2>4. ASSUME NEW r \in Runs, Connect(r) \/ ReadEvents(r) \/ Disconnect(r)
          PROVE  UNCHANGED Log!logVars
      BY <2>4 DEF Connect, ReadEvents, Disconnect, vars, allVars, stateVars, Log!logVars
    <2>5. UNCHANGED streamedVars => UNCHANGED Log!logVars
      BY DEF streamedVars, streamVars, vars, allVars, stateVars, Log!logVars
    <2> QED BY <2>2, <2>3, <2>4, <2>5 DEF StreamedNext, Log!Next
  <1> HIDE DEF Calm
  <1> QED
    BY <1>1, <1>2, <1>3, StreamsOnlyRead, BackendInvariant, ClientsFollow, PTL
       DEF StreamedSpec, StreamsTheLog, Log!Spec


=============================================================================
