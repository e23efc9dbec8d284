---------------------------- MODULE AgreementProofs ----------------------------
(* Until the first database write that raises: every run that is not over   *)
(* has a thread that will end it, no agent process is left behind, and      *)
(* memory, rows, event log and session agree whenever nobody is writing.    *)
(* OwnerInv comes first, AgreementInv is proved from it.  And whatever      *)
(* writes raise: the end of a text run stays in its row (EndInv).           *)
EXTENDS ContractProofs, AgreementInvariant

---------------------------------------------------------------------------
(* One run at a time.                                                      *)

\* A thread is one of the four of its run.
LEMMA ProcOf ==
  ASSUME NEW q \in Procs
  PROVE  /\ RunOf(q) \in Runs
         /\ q \in {Handler(RunOf(q)), Worker(RunOf(q)), Canceller(RunOf(q)), Boot(RunOf(q))}
         /\ q[1] = "boot" <=> q = Boot(RunOf(q))
         /\ q[1] = "worker" <=> q = Worker(RunOf(q))
         /\ q[1] = "handler" <=> q = Handler(RunOf(q))
  <1>1. PICK role \in Roles, r \in Runs : q = <<role, r>>
    BY DEF Procs
  <1> QED
    BY <1>1 DEF Roles, RunOf, Handler, Worker, Canceller, Boot

\* The four threads of a run, and that they differ.
LEMMA RolesOf ==
  ASSUME NEW r \in Runs
  PROVE  /\ Handler(r) \in Procs /\ Worker(r) \in Procs /\ Canceller(r) \in Procs /\ Boot(r) \in Procs
         /\ RunOf(Handler(r)) = r /\ RunOf(Worker(r)) = r /\ RunOf(Canceller(r)) = r
         /\ RunOf(Boot(r)) = r
         /\ Handler(r) # Worker(r) /\ Handler(r) # Canceller(r) /\ Handler(r) # Boot(r)
         /\ Worker(r) # Canceller(r) /\ Worker(r) # Boot(r) /\ Canceller(r) # Boot(r)
         /\ Handler(r)[1] = "handler" /\ Worker(r)[1] = "worker" /\ Canceller(r)[1] = "cancel"
         /\ Boot(r)[1] = "boot"
  BY ProcTypes DEF RunOf, Handler, Worker, Canceller, Boot

\* A step that touches nothing of run r.
Untouched(r) ==
    /\ \A q \in Procs : RunOf(q) = r => /\ todo'[q] = todo[q] /\ pc'[q] = pc[q]
                                        /\ copy'[q] = copy[q]
    /\ mem'[r] = mem[r] /\ row'[r] = row[r]
    /\ executor'[r] = executor[r] /\ proc'[r] = proc[r] /\ outcome'[r] = outcome[r]

\* A step that leaves a run and its threads alone leaves it in its hands.
LEMMA UntouchedRun ==
  ASSUME NEW r \in Runs, Untouched(r), RunInHands(r)
  PROVE  RunInHands(r)'
  <1>1. /\ todo'[Handler(r)] = todo[Handler(r)] /\ pc'[Handler(r)] = pc[Handler(r)]
        /\ todo'[Worker(r)] = todo[Worker(r)] /\ pc'[Worker(r)] = pc[Worker(r)]
        /\ todo'[Canceller(r)] = todo[Canceller(r)] /\ pc'[Canceller(r)] = pc[Canceller(r)]
        /\ todo'[Boot(r)] = todo[Boot(r)]
    BY RolesOf DEF Untouched
  <1>2. HandlerBefore(r)' /\ AudioRecord(r)' /\ CancelOnly(r)' /\ StoreLeadsOn(r)'
    BY <1>1 DEF Untouched, RunInHands, HandlerBefore, AudioRecord, CancelOnly, StoreLeadsOn, Idle,
       AtBranch, Next0, Head0
  <1>3. TextRecords(r)'
    BY DEF Untouched, RunInHands, TextRecords, Next0, Head0
  <1>4. Owned(r)' /\ CalendarPlaces(r)' /\ AgentPlaces(r)'
    BY <1>1 DEF Untouched, RunInHands, Owned, EndsIt, AtBranch, Idle, CalendarPlaces, AgentPlaces
  <1> QED
    BY <1>2, <1>3, <1>4 DEF RunInHands

---------------------------------------------------------------------------
(* Steps that choose a script.                                             *)

\* p chooses what it does next, the other threads stay where they are.
Moves(p) == /\ UNCHANGED <<mem, row, copy>>
            /\ \A q \in Procs \ {p} : todo'[q] = todo[q] /\ pc'[q] = pc[q]

\* A thread that moves leaves the runs of others in their hands.
LEMMA OtherMoves ==
  ASSUME NEW r \in Runs, NEW p \in Procs, Moves(p), RunOf(p) # r, RunInHands(r),
         executor'[r] = executor[r], proc'[r] = proc[r], outcome'[r] = outcome[r]
  PROVE  RunInHands(r)'
  <1>1. Untouched(r)
    BY DEF Moves, Untouched
  <1> QED
    BY <1>1, UntouchedRun

\* The handler moves: what is left to show is about its own script and place.
LEMMA HandlerMoves ==
  ASSUME NEW r \in Runs, RunInHands(r), Moves(Handler(r)), Idle(Worker(r)), proc'[r] = proc[r],
         AudioRecord(r)', StoreLeadsOn(r)',
         r \in TextRuns /\ Next0(Handler(r), "put")' => ~Transcribing(todo'[Handler(r)][1].rec),
         Live(mem[r]) => \/ pc'[Handler(r)] \in HandlerDecides \/ EndsIt(Handler(r))'
                         \/ /\ r \in AudioRuns /\ mem[r].summary = "Transcribing audio"
                            /\ AtBranch(Handler(r), "done")'
  PROVE  RunInHands(r)'
  <1> DEFINE h == Handler(r)
  <1>1. \A q \in Procs \ {h} : todo'[q] = todo[q] /\ pc'[q] = pc[q]
    BY DEF Moves
  <1>2. /\ todo'[Worker(r)] = todo[Worker(r)] /\ pc'[Worker(r)] = pc[Worker(r)]
        /\ todo'[Canceller(r)] = todo[Canceller(r)] /\ pc'[Canceller(r)] = pc[Canceller(r)]
    BY <1>1, RolesOf
  <1>3. HandlerBefore(r)' /\ CalendarPlaces(r)' /\ AgentPlaces(r)' /\ CancelOnly(r)'
    BY <1>2 DEF RunInHands, HandlerBefore, CalendarPlaces, AgentPlaces, Monitoring, CancelOnly, Idle
  <1>4. TextRecords(r)'
    BY <1>1 DEF RunInHands, TextRecords, Moves, Next0, Head0
  <1>5. Owned(r)'
    BY <1>2 DEF Moves, Owned, Idle
  <1> QED
    BY <1>3, <1>4, <1>5 DEF RunInHands

\* The same when a cancel request moves; it may stop the agent.
LEMMA CancellerMoves ==
  ASSUME NEW r \in Runs, RunInHands(r), Moves(Canceller(r)), CancelOnly(r)',
         executor'[r] = executor[r], pc[Worker(r)] = pc'[Worker(r)],
         proc'[r] \in {proc[r], "exited"}, outcome'[r] = outcome[r],
         ~Next0(Canceller(r), "put")'
  PROVE  RunInHands(r)'
  <1> DEFINE c == Canceller(r)
  <1>1. \A q \in Procs \ {c} : todo'[q] = todo[q] /\ pc'[q] = pc[q]
    BY DEF Moves
  <1>2. /\ todo'[Worker(r)] = todo[Worker(r)] /\ pc'[Worker(r)] = pc[Worker(r)]
        /\ todo'[Handler(r)] = todo[Handler(r)] /\ pc'[Handler(r)] = pc[Handler(r)]
        /\ todo'[Boot(r)] = todo[Boot(r)]
    BY <1>1, RolesOf
  <1>3. HandlerBefore(r)' /\ CalendarPlaces(r)' /\ AgentPlaces(r)' /\ StoreLeadsOn(r)'
    BY <1>2 DEF RunInHands, HandlerBefore, CalendarPlaces, AgentPlaces, StoreLeadsOn, Idle, AtBranch,
       Next0, Head0
  <1>4. TextRecords(r)' /\ AudioRecord(r)'
    BY <1>1, <1>2 DEF RunInHands, TextRecords, AudioRecord, Moves, Next0, Head0
  <1>5. Owned(r)'
    BY <1>2 DEF RunInHands, Moves, Owned, EndsIt, AtBranch, Idle
  <1> QED
    BY <1>3, <1>4, <1>5 DEF RunInHands

\* The same when the worker moves.
LEMMA WorkerMoves ==
  ASSUME OwnerInv, NEW r \in Runs, Moves(Worker(r)), ~Idle(Worker(r)), executor'[r] = executor[r],
         todo[Worker(r)] = <<>>, ~Next0(Worker(r), "put")',
         CalendarPlaces(r)', AgentPlaces(r)',
         Live(mem[r]) /\ pc[Worker(r)] \in WorkerDecides =>
            pc'[Worker(r)] \in WorkerDecides \/ EndsIt(Worker(r))'
  PROVE  RunInHands(r)'
  <1> DEFINE w == Worker(r)
  <1>1. \A q \in Procs \ {w} : todo'[q] = todo[q] /\ pc'[q] = pc[q]
    BY DEF Moves
  <1>2. /\ todo'[Canceller(r)] = todo[Canceller(r)] /\ pc'[Canceller(r)] = pc[Canceller(r)]
        /\ todo'[Handler(r)] = todo[Handler(r)] /\ pc'[Handler(r)] = pc[Handler(r)]
        /\ todo'[Boot(r)] = todo[Boot(r)]
    BY <1>1, RolesOf
  <1>3. RunInHands(r) /\ AtBranch(Handler(r), "done")
    BY DEF OwnerInv, RunInHands, HandlerBefore
  <1>4. HandlerBefore(r)' /\ CancelOnly(r)' /\ StoreLeadsOn(r)'
    BY <1>2, <1>3 DEF RunInHands, HandlerBefore, CancelOnly, StoreLeadsOn, Idle, AtBranch, Next0, Head0
  <1>5. TextRecords(r)' /\ AudioRecord(r)'
    BY <1>1, <1>2, <1>3 DEF RunInHands, TextRecords, AudioRecord, Moves, Next0, Head0
  <1>6. ~EndsIt(w)
    BY DEF EndsIt
  <1>7. Owned(r)'
    BY <1>2, <1>3, <1>6 DEF RunInHands, Moves, Owned, EndsIt, AtBranch
  <1> QED
    BY <1>3, <1>4, <1>5, <1>7 DEF RunInHands

\* A move while requests are served raises only in a worker.
LEMMA MovesServing ==
  ASSUME OwnerInv, NEW p \in Procs, Moves(p), up' = up, crashes' = crashes,
         p[1] # "boot", up = "up", p[1] = "worker" \/ pc'[p] \notin {"raised", "caught"}
  PROVE  OnlyWorkersRaise' /\ BootFirst'
  <1>1. OnlyWorkersRaise'
    BY DEF OwnerInv, OnlyWorkersRaise, Moves
  <1>2. BootFirst'
    BY DEF OwnerInv, BootFirst, Moves, Idle
  <1> QED
    BY <1>1, <1>2

\* The scripts of handlers that set a status.
LEMMA EndingScripts ==
  /\ \E i \in 1 .. Len(FailedScript) : FailedScript[i].do = "status"
  /\ \E i \in 1 .. Len(LaunchFailedScript) : LaunchFailedScript[i].do = "status"
  /\ \E i \in 1 .. Len(CancelledScript) : CancelledScript[i].do = "status"
  /\ FailedScript[1].do = "append" /\ LaunchFailedScript[1].do = "append"
  /\ CancelledScript[1].do = "append"
  /\ \A i \in 1 .. Len(CancelledScript) :
        CancelledScript[i].do = "status" => CancelledScript[i].rec = CancelledRecord
  BY DEF FailedScript, LaunchFailedScript, CancelledScript, Emit, SetStatus, CancelledRecord

\* What a handler owes its run when it chooses.
Handed(r) ==
    /\ AudioRecord(r)' /\ StoreLeadsOn(r)'
    /\ r \in TextRuns /\ Next0(Handler(r), "put")' => ~Transcribing(todo'[Handler(r)][1].rec)
    /\ Live(mem[r]) => \/ pc'[Handler(r)] \in HandlerDecides \/ EndsIt(Handler(r))'
                       \/ /\ r \in AudioRuns /\ mem[r].summary = "Transcribing audio"
                          /\ AtBranch(Handler(r), "done")'

\* A request that begins to store a run goes on to a place where it decides.
LEMMA NewRunHanded ==
  ASSUME StorageInv, NEW r \in Runs, RejectText(r) \/ AcceptText(r) \/ CreateTranscribingRun(r)
  PROVE  Handed(r) /\ pc'[Handler(r)] \notin {"raised", "caught"}
  <1> DEFINE h == Handler(r)
  <1>1. /\ Handler(r) \in Procs /\ ThreadsOK /\ ~Live(mem[r]) /\ ~Live(mem'[r])
        /\ TextRuns \cap AudioRuns = {}
    <2>1. UNCHANGED mem /\ Unknown(r)
      BY DEF RejectText, AcceptText, CreateTranscribingRun, OnlyThreads, memVars
    <2> QED BY <2>1, RolesOf, InvFacts, KindAssumption DEF Unknown, Known, Live
  <1>2. PICK rec \in RunRec, t \in {<<>>, <<Emit("run.failed")>>, <<Emit("activity")>>},
             l \in {"done", "launch", "upload"} :
           /\ Continue(h, Store(rec) \o t, l)
           /\ \/ rec = Record("rejected", "outcome") /\ l = "done" /\ r \in TextRuns
              \/ rec = Record("running", "Run started") /\ l = "launch" /\ r \in TextRuns
              \/ rec = Record("running", "Transcribing audio") /\ l = "upload" /\ r \in AudioRuns
    <2>1. /\ Record("rejected", "outcome") \in RunRec
          /\ Record("running", "Run started") \in RunRec
          /\ Record("running", "Transcribing audio") \in RunRec
      BY RecordTypes DEF Statuses, TerminalStatuses, Summaries
    <2>2. Store(Record("running", "Run started")) \o <<>> = Store(Record("running", "Run started"))
      BY <2>1, StoreScript
    <2>3. CASE RejectText(r)
      BY <2>1, <2>3 DEF RejectText
    <2>4. CASE AcceptText(r)
      <3>1. Continue(h, Store(Record("running", "Run started")) \o <<>>, "launch") /\ r \in TextRuns
        BY <2>2, <2>4 DEF AcceptText
      <3> QED BY <2>1, <3>1
    <2>5. CASE CreateTranscribingRun(r)
      BY <2>1, <2>5 DEF CreateTranscribingRun
    <2> QED BY <2>3, <2>4, <2>5
  <1>3. todo'[h] = Store(rec) \o t /\ pc'[h] = l
    BY <1>1, <1>2 DEF Continue, ThreadsOK
  <1>4. /\ todo'[h][1].rec = rec
        /\ \A i \in 1 .. Len(todo'[h]) : todo'[h][i].do \notin {"meta", "status"}
    <2> DEFINE s == Store(rec) \o t
    <2>1. s[1].rec = rec /\ \A i \in 1 .. Len(s) : s[i].do \notin {"meta", "status"}
      BY <1>2, StoreCalls
    <2> HIDE DEF s
    <2>2. todo'[h] = s
      BY <1>3 DEF s
    <2> QED BY <2>1, <2>2
  <1>5. /\ Live(rec) => l \in {"launch", "upload"}
        /\ l = "upload" => Transcribing(rec)
        /\ Transcribing(rec) => l = "upload" /\ r \in AudioRuns
    <2>1. CASE rec = Record("rejected", "outcome") /\ l = "done"
      BY <2>1 DEF Live, Transcribing, Record
    <2>2. CASE rec = Record("running", "Run started") /\ l = "launch"
      BY <2>2 DEF Live, Transcribing, Record
    <2>3. CASE rec = Record("running", "Transcribing audio") /\ l = "upload" /\ r \in AudioRuns
      BY <2>3 DEF Live, Transcribing, Record
    <2> QED BY <1>2, <2>1, <2>2, <2>3
  <1> QED
    BY <1>1, <1>2, <1>3, <1>4, <1>5 DEF Handed, AudioRecord, StoreLeadsOn, Next0, Head0, AudioPlaces,
       HandlerDecides

\* A handler that goes on still decides, ends the run, or leaves it, as an audio
\* request may, in transcription.
LEMMA HandlerHanded ==
  ASSUME StorageInv, OwnerInv, NEW r \in Runs,
         \/ LaunchFails(r) \/ ReadUpload(r) \/ UploadTooLarge(r) \/ Transcribe(r)
         \/ CheckCancelled(r) \/ PrepareFails(r) \/ RejectPrecreated(r) \/ AcceptPrecreated(r)
         \/ MarkCancelled(Handler(r))
  PROVE  Handed(r) /\ pc'[Handler(r)] \notin {"raised", "caught"}
  <1> DEFINE h == Handler(r)
  <1>1. /\ h \in Procs /\ ThreadsOK /\ RunOf(h) = r
        /\ pc[h] \in AudioPlaces => r \in AudioRuns
        /\ AudioRecord(r)
    BY RolesOf, InvFacts DEF StorageInv, AudioOnly, OwnerInv, RunInHands
  <1>2. mem' = mem
    BY DEF LaunchFails, ReadUpload, UploadTooLarge, Transcribe, CheckCancelled, PrepareFails,
       RejectPrecreated, AcceptPrecreated, MarkCancelled, OnlyThreads, memVars
  <1>3. ASSUME NEW s, NEW l, Continue(h, s, l), s = <<>> \/ s[1].do # "put",
               l \notin {"raised", "caught"},
               l \in AudioPlaces => pc[h] \in AudioPlaces /\ s = <<>>,
               Live(mem[r]) => \/ l \in HandlerDecides \/ \E i \in 1 .. Len(s) : s[i].do = "status"
                               \/ pc[h] = "submit" /\ l = "done" /\ s = <<>>
        PROVE  Handed(r) /\ pc'[h] \notin {"raised", "caught"}
    <2>1. todo'[h] = s /\ pc'[h] = l
      BY <1>1, <1>3 DEF Continue, ThreadsOK
    <2>2. ~Next0(h, "put")'
      BY <1>3, <2>1 DEF Next0, Head0
    <2>3. AudioRecord(r)'
      BY <1>1, <1>2, <1>3, <2>1, <2>2 DEF AudioRecord
    <2>4. StoreLeadsOn(r)'
      BY <2>2 DEF StoreLeadsOn
    <2>5. Live(mem[r]) /\ pc[h] = "submit" => r \in AudioRuns /\ mem[r].summary = "Transcribing audio"
      BY <1>1 DEF AudioRecord, Transcribing, AudioPlaces
    <2> QED BY <1>3, <2>1, <2>2, <2>3, <2>4, <2>5 DEF Handed, EndsIt, AtBranch
  <1>4. CASE LaunchFails(r)
    BY <1>3, <1>4, EndingScripts DEF LaunchFails, AudioPlaces
  <1>5. CASE ReadUpload(r) \/ Transcribe(r)
    BY <1>3, <1>5 DEF ReadUpload, Transcribe, AtBranch, AudioPlaces, HandlerDecides
  <1>6. CASE UploadTooLarge(r)
    BY <1>3, <1>6, EndingScripts DEF UploadTooLarge, AudioPlaces
  <1>7. CASE CheckCancelled(r)
    BY <1>3, <1>7, EndingScripts DEF CheckCancelled, AtBranch, AudioPlaces, HandlerDecides
  <1>8. CASE PrepareFails(r)
    BY <1>3, <1>8 DEF PrepareFails, AtBranch, AudioPlaces
  <1>9. CASE RejectPrecreated(r)
    <2> PICK s : s = <<Meta("outcome"), Emit("run.failed"), SetStatus("rejected")>>
      OBVIOUS
    <2>1. s[1].do # "put" /\ \E i \in 1 .. Len(s) : s[i].do = "status"
      BY DEF Meta, Emit, SetStatus
    <2> QED BY <1>3, <1>9, <2>1 DEF RejectPrecreated, AudioPlaces
  <1>10. CASE AcceptPrecreated(r)
    <2> PICK s : s = <<Emit("activity"), Meta("Run started")>>
      OBVIOUS
    <2>1. s[1].do # "put"
      BY DEF Emit
    <2>2. Continue(h, s, "launch")
      BY <1>10 DEF AcceptPrecreated
    <2>3. "launch" \in HandlerDecides \ AudioPlaces /\ "launch" \notin {"raised", "caught"}
      BY DEF AudioPlaces, HandlerDecides
    <2> QED BY <1>3, <2>1, <2>2, <2>3
  <1>11. CASE MarkCancelled(h)
    <2>1. mem[r].status = "cancelled" => ~Live(mem[r])
      BY DEF Live
    <2> QED BY <1>1, <1>3, <1>11, <2>1, EndingScripts DEF MarkCancelled, AudioPlaces
  <1> QED
    BY <1>4, <1>5, <1>6, <1>7, <1>8, <1>9, <1>10, <1>11

\* The worker takes the run over from the request.
LEMMA LaunchOwner ==
  ASSUME StorageInv, OwnerInv, NEW r \in Runs, Submit(r), Launch(r)
  PROVE  OwnerInv'
  <1> DEFINE h == Handler(r)
             w == Worker(r)
  <1>1. /\ h \in Procs /\ w \in Procs /\ h # w /\ ThreadsOK
        /\ w[1] = "worker" /\ h[1] = "handler"
        /\ todo[h] = <<>> /\ pc[h] = "launch" /\ todo' = todo
        /\ pc' = [pc EXCEPT ![h] = "done", ![w] = "begin"]
        /\ UNCHANGED <<mem, row, copy, up, executor, proc, outcome, crashes>>
    BY RolesOf, InvFacts DEF Launch, Submit, OnlyThreads, AtBranch, memVars, dbVars, submitVars,
       workerVars
  <1>2. /\ pc'[h] = "done" /\ pc'[w] = "begin"
        /\ \A q \in Procs : q # h /\ q # w => pc'[q] = pc[q]
    BY <1>1 DEF ThreadsOK
  <1>3. up = "up" /\ Idle(w)
    BY <1>1 DEF OwnerInv, BootFirst, RunInHands, HandlerBefore, AtBranch, Idle
  <1>4. OnlyWorkersRaise' /\ BootFirst'
    BY <1>1, <1>2, <1>3 DEF OwnerInv, OnlyWorkersRaise, BootFirst, Idle
  <1>5. ASSUME NEW x \in Runs, x # r PROVE RunInHands(x)'
    <2>1. \A q \in Procs : RunOf(q) = x => q # h /\ q # w
      BY <1>5, RolesOf
    <2>2. Untouched(x)
      BY <1>1, <1>2, <2>1 DEF Untouched
    <2> QED BY <2>2, UntouchedRun DEF OwnerInv
  <1>6. RunInHands(r)'
    <2>1. RunInHands(r)
      BY DEF OwnerInv
    <2>2. HandlerBefore(r)' /\ AudioRecord(r)' /\ CalendarPlaces(r)' /\ StoreLeadsOn(r)'
      BY <1>1, <1>2 DEF HandlerBefore, AudioRecord, AudioPlaces, CalendarPlaces, StoreLeadsOn, Next0,
         AtBranch
    <2>3. AgentPlaces(r)'
      BY <1>1, <1>3, <2>1 DEF RunInHands, AgentPlaces, Monitoring, Idle
    <2>4. CancelOnly(r)'
      BY <1>1, <1>2, <2>1, RolesOf DEF RunInHands, CancelOnly
    <2>5. TextRecords(r)'
      BY <1>1, <2>1 DEF RunInHands, TextRecords, Next0, Head0
    <2>6. Owned(r)'
      BY <1>2 DEF Owned, WorkerDecides
    <2> QED BY <2>2, <2>3, <2>4, <2>5, <2>6 DEF RunInHands
  <1> QED
    BY <1>4, <1>5, <1>6 DEF OwnerInv

\* Every step of a handler but the launch keeps the owner.
LEMMA HandlerOwner ==
  ASSUME StorageInv, OwnerInv, NEW r \in Runs, Submit(r),
         \/ RejectText(r) \/ AcceptText(r) \/ CreateTranscribingRun(r)
         \/ LaunchFails(r) \/ ReadUpload(r) \/ UploadTooLarge(r) \/ Transcribe(r)
         \/ CheckCancelled(r) \/ PrepareFails(r) \/ RejectPrecreated(r) \/ AcceptPrecreated(r)
         \/ MarkCancelled(Handler(r))
  PROVE  OwnerInv'
  <1> DEFINE h == Handler(r)
  <1>1. /\ h \in Procs /\ ThreadsOK /\ RunOf(h) = r /\ h[1] = "handler"
        /\ executor \in [Runs -> Executors \cup {"none"}]
    BY RolesOf, InvFacts DEF Inv, TypeOK, SubmissionTypeOK
  <1>2. Handed(r) /\ pc'[h] \notin {"raised", "caught"}
    BY NewRunHanded, HandlerHanded
  <1>3. /\ Moves(h) /\ up' = up
        /\ \A x \in Runs \ {r} : executor'[x] = executor[x]
    BY <1>1 DEF RejectText, AcceptText, CreateTranscribingRun, LaunchFails, ReadUpload,
       UploadTooLarge, Transcribe, CheckCancelled, PrepareFails, RejectPrecreated,
       AcceptPrecreated, MarkCancelled, OnlyThreads, memVars, dbVars, submitVars, Moves, Continue,
       ThreadsOK
  <1>4. proc' = proc /\ outcome' = outcome /\ crashes' = crashes
    BY DEF Submit, workerVars
  <1>5. pc[h] # "done" /\ (up = "up" \/ ~Idle(h))
    BY DEF RejectText, AcceptText, CreateTranscribingRun, LaunchFails, ReadUpload,
       UploadTooLarge, Transcribe, CheckCancelled, PrepareFails, RejectPrecreated,
       AcceptPrecreated, MarkCancelled, AtBranch, Idle
  <1>6. Idle(Worker(r)) /\ up = "up"
    BY <1>1, <1>5 DEF OwnerInv, RunInHands, HandlerBefore, AtBranch, BootFirst
  <1>7. OnlyWorkersRaise' /\ BootFirst'
    BY <1>1, <1>2, <1>3, <1>4, <1>6, MovesServing
  <1>8. RunInHands(r)'
    BY <1>2, <1>3, <1>4, <1>6, HandlerMoves DEF Handed, OwnerInv
  <1>9. \A x \in Runs \ {r} : RunInHands(x)'
    BY <1>1, <1>3, <1>4, OtherMoves DEF OwnerInv
  <1> QED
    BY <1>7, <1>8, <1>9 DEF OwnerInv

\* A cancel request takes no run from its owner.
LEMMA CancellerOwner ==
  ASSUME StorageInv, OwnerInv, NEW r \in Runs,
         \/ Submit(r) /\ (MarkCancelled(Canceller(r)) \/ CancelRun(r) \/ DispatchToAudio(r))
         \/ Terminate(r)
  PROVE  OwnerInv'
  <1> DEFINE c == Canceller(r)
  <1>1. /\ c \in Procs /\ ThreadsOK /\ RunOf(c) = r /\ c[1] = "cancel"
        /\ Worker(r) \in Procs /\ Worker(r) # c
        /\ RunInHands(r) /\ r \in TextRuns \cup AudioRuns
        /\ proc \in [Runs -> {"none", "alive", "exited"}]
    BY RolesOf, InvFacts, KindAssumption DEF OwnerInv, Inv, TypeOK, WorkersTypeOK
  <1>2. /\ Moves(c) /\ up' = up /\ crashes' = crashes /\ executor' = executor
        /\ outcome' = outcome /\ proc'[r] \in {proc[r], "exited"} /\ \A x \in Runs \ {r} : proc'[x] = proc[x]
    BY <1>1 DEF Submit, Terminate, TerminateActive, MarkCancelled, CancelRun, RequestCancel,
       DispatchToAudio, OnlyThreads, memVars, dbVars, submitVars, workerVars, Moves, Continue,
       ThreadsOK
  <1>3. up = "up"
    <2>1. up = "up" \/ ~Idle(c)
      BY DEF Terminate, TerminateActive, MarkCancelled, CancelRun, DispatchToAudio, AtBranch, Idle
    <2> QED BY <1>1, <2>1 DEF OwnerInv, BootFirst
  <1>4. /\ CancelOnly(r)' /\ ~Next0(c, "put")'
        /\ pc'[c] \notin {"raised", "caught"}
    <2>1. CASE MarkCancelled(c)
      <3>1. pc[c] = "mark" /\ r \in AudioRuns
        BY <1>1, <2>1 DEF MarkCancelled, AtBranch, RunInHands, CancelOnly
      <3>2. pc'[c] = "done" /\ (todo'[c] = <<>> \/ todo'[c] = CancelledScript)
        BY <1>1, <2>1 DEF MarkCancelled, Continue, ThreadsOK
      <3>3. \A i \in 1 .. Len(todo'[c]) : todo'[c][i].do = "status" => todo'[c][i].rec = CancelledRecord
        BY <3>2, EndingScripts
      <3>4. CancelOnly(r)'
        BY <3>1, <3>2, <3>3 DEF CancelOnly
      <3> QED BY <3>2, <3>4, EndingScripts DEF Next0, Head0
    <2>2. CASE CancelRun(r) \/ Terminate(r)
      <3>1. todo'[c] = <<>> /\ pc'[c] \in {"dispatch", "done"}
        BY <1>1, <2>2 DEF CancelRun, RequestCancel, Terminate, TerminateActive, Continue, ThreadsOK
      <3> QED BY <3>1 DEF CancelOnly, Next0
    <2>3. CASE DispatchToAudio(r)
      <3>1. todo'[c] = <<>> /\ pc'[c] = "mark"
        BY <1>1, <2>3 DEF DispatchToAudio, Continue, ThreadsOK
      <3>2. r \in AudioRuns
        BY <1>1, <2>3 DEF DispatchToAudio, IsAudioTranscribing, RunInHands, TextRecords, Transcribing
      <3> QED BY <3>1, <3>2 DEF CancelOnly, Next0
    <2> QED BY <2>1, <2>2, <2>3
  <1>5. OnlyWorkersRaise' /\ BootFirst'
    BY <1>1, <1>2, <1>3, <1>4, MovesServing
  <1>6. RunInHands(r)'
    <2>1. pc[Worker(r)] = pc'[Worker(r)]
      BY <1>1, <1>2 DEF Moves
    <2> QED BY <1>1, <1>2, <1>4, <2>1, CancellerMoves
  <1>7. \A x \in Runs \ {r} : RunInHands(x)'
    BY <1>1, <1>2, OtherMoves DEF OwnerInv
  <1> QED
    BY <1>5, <1>6, <1>7 DEF OwnerInv

\* Every step of a request keeps the owner.
LEMMA SubmitOwner ==
  ASSUME StorageInv, OwnerInv, NEW r \in Runs, Submit(r)
  PROVE  OwnerInv'
  <1>1. ~RequestRaises(Handler(r)) /\ ~RequestRaises(Canceller(r))
    BY RolesOf DEF RequestRaises, AtBranch, OwnerInv, OnlyWorkersRaise
  <1> QED
    BY <1>1, LaunchOwner, HandlerOwner, CancellerOwner DEF Submit, Submission

---------------------------------------------------------------------------
(* Workers.                                                                *)

HasStatus(s) == \E i \in 1 .. Len(s) : s[i].do = "status"

\* A script that ends with a status sets one, by the number of its calls.
LEMMA StatusScripts ==
  ASSUME NEW o, o.do = "status"
  PROVE  /\ HasStatus(<<o>>)
         /\ \A a : HasStatus(<<a, o>>)
         /\ \A a, b : HasStatus(<<a, b, o>>)
         /\ \A a, b, c : HasStatus(<<a, b, c, o>>)
         /\ \A a, b, c, d : HasStatus(<<a, b, c, d, o>>)
  <1>1. HasStatus(<<o>>)
    BY DEF HasStatus
  <1>2. \A a : HasStatus(<<a, o>>)
    BY DEF HasStatus
  <1>3. \A a, b : HasStatus(<<a, b, o>>)
    BY DEF HasStatus
  <1>4. \A a, b, c : HasStatus(<<a, b, c, o>>)
    BY DEF HasStatus
  <1>5. \A a, b, c, d : HasStatus(<<a, b, c, d, o>>)
    BY DEF HasStatus
  <1> QED
    BY <1>1, <1>2, <1>3, <1>4, <1>5

\* So does a script that ends with such a one.
LEMMA StatusJoin ==
  ASSUME NEW s \in Seq(Op), NEW t \in Seq(Op), HasStatus(t)
  PROVE  HasStatus(s \o t)
  <1>1. Len(s) \in Nat /\ Len(t) \in Nat
    BY LenProperties
  <1>2. /\ Len(s \o t) = Len(s) + Len(t)
        /\ \A i \in 1 .. Len(s) + Len(t) : (s \o t)[i] = IF i <= Len(s) THEN s[i] ELSE t[i - Len(s)]
    BY ConcatProperties
  <1>3. PICK i \in 1 .. Len(t) : t[i].do = "status"
    BY DEF HasStatus
  <1>4. /\ i + Len(s) \in 1 .. Len(s) + Len(t)
        /\ ~(i + Len(s) <= Len(s)) /\ (i + Len(s)) - Len(s) = i
    BY <1>1
  <1>5. (s \o t)[i + Len(s)] = t[i]
    BY <1>2, <1>4
  <1> QED
    BY <1>2, <1>3, <1>4, <1>5 DEF HasStatus

\* What a worker does whenever it leaves a place: it goes on to one where it
\* will choose again, or it is about to set a status, or it need not.
LEMMA WorkerGoesOn ==
  ASSUME ThreadsOK, NEW r \in Runs, WorkerStep(r)
  PROVE  \/ pc'[Worker(r)] \in WorkerDecides
         \/ HasStatus(todo'[Worker(r)])
         \/ pc[Worker(r)] \notin WorkerDecides
         \/ ~Live(mem[r])
         \/ pc[Worker(r)] = "raised" /\ executor[r] = "calendar"
  <1> DEFINE w == Worker(r)
  <1>1. /\ w \in Procs
        /\ \A s, l : Continue(w, s, l) => todo'[w] = s /\ pc'[w] = l
    BY RolesOf DEF Continue, ThreadsOK
  <1>2. \A st : SetStatus(st).do = "status"
    BY DEF SetStatus
  <1>3. CASE CalendarFetch(r)
    <2>1. \E a, b, c, d, st : todo'[w] = <<a, b, c, d, SetStatus(st)>>
      BY <1>1, <1>3 DEF CalendarFetch, Steps, Branch
    <2> QED BY <1>2, <2>1, StatusScripts
  <1>4. CASE ShellBegin(r)
    <2>1. \/ \E a, b, c, st : todo'[w] = <<a, b, c, SetStatus(st)>>
          \/ pc'[w] = "exec"
      BY <1>1, <1>4 DEF ShellBegin, Steps, Branch
    <2> QED BY <1>2, <2>1, StatusScripts DEF WorkerDecides
  <1>5. CASE ShellFlag(r)
    <2>1. \/ \E a, st : todo'[w] = <<a, SetStatus(st)>>
          \/ \E a, b, c, d, st : todo'[w] = <<a, b, c, d, SetStatus(st)>>
      BY <1>1, <1>5 DEF ShellFlag, Steps, Branch, UserCancelled
    <2> QED BY <1>2, <2>1, StatusScripts
  <1>6. CASE MissingBinary(r)
    <2>1. \E a, b, c, d, st : todo'[w] = <<a, b, c, d, SetStatus(st)>>
      BY <1>1, <1>6 DEF MissingBinary, Steps, Branch
    <2> QED BY <1>2, <2>1, StatusScripts
  <1>7. CASE RecordException(r)
    <2>1. \/ \E a, b, c, st : todo'[w] = <<a, b, c, SetStatus(st)>>
          \/ pc[w] = "raised" /\ executor[r] = "calendar"
          \/ ~Live(mem[r])
      BY <1>1, <1>7 DEF RecordException, NothingToRecord, Branch, At, AtBranch, Terminal,
         TerminalStatuses, Live
    <2> QED BY <1>2, <2>1, StatusScripts
  <1>8. CASE Finalize(r)
    <2> DEFINE done1 == <<Emit("action.completed")>>
               done2 == <<Emit("activity"), Emit("action.completed")>>
               ends == {<<Emit("run.cancelled"), SetStatus("cancelled")>>,
                        <<SetStatus("blocked")>>,
                        <<Emit("run.failed"), SetStatus("failed")>>,
                        <<Emit("chat"), Emit("run.failed"), SetStatus("failed")>>,
                        <<Emit("run.completed"), SetStatus("completed")>>}
    <2>1. \E t \in ends : todo'[w] = t \/ todo'[w] = done1 \o t \/ todo'[w] = done2 \o t
      BY <1>1, <1>8 DEF Finalize, Steps, Branch, UserCancelled
    <2>2. \A t \in ends : t \in Seq(Op) /\ HasStatus(t)
      <3>1. \A t \in ends : t \in Seq(Op)
        BY SafeCalls, SafeIsOp, Tuples
      <3> QED BY <1>2, <3>1, StatusScripts
    <2>3. done1 \in Seq(Op) /\ done2 \in Seq(Op)
      BY SafeCalls, SafeIsOp, Tuples
    <2> HIDE DEF ends, done1, done2
    <2> QED BY <2>1, <2>2, <2>3, StatusJoin
  <1>9. CASE ShellStatus(r)
    BY <1>1, <1>9 DEF ShellStatus, Steps, Branch, Live, WorkerDecides
  <1>10. CASE SyncMemory(r)
    BY <1>10 DEF SyncMemory, At, AtBranch, WorkerDecides, Monitoring
  <1>11. CASE CalendarBegin(r) \/ ShellSucceeds(r) \/ ShellFails(r) \/ ShellStopped(r) \/ ShellRaises(r)
    BY <1>1, <1>11 DEF CalendarBegin, ShellSucceeds, ShellFails, ShellStopped, ShellResult, ShellRaises,
       Steps, Branch, WorkerDecides
  <1>12. CASE \/ AgentBegin(r) \/ SpawnRaises(r) \/ Spawn(r) \/ Register(r) \/ TakeLine(r) \/ NoLine(r)
              \/ PollCancelled(r) \/ PollStatus(r) \/ PollTimeout(r) \/ Unblock(r)
              \/ Flush(r) \/ StopProcess(r) \/ LateCancel(r) \/ RetryWithoutResume(r)
    BY <1>1, <1>12 DEF AgentBegin, SpawnRaises, Spawn, Register, TakeLine, NoLine, PollCancelled,
       PollStatus, PollTimeout, Unblock, Flush, Unreadable, StopProcess, LateCancel,
       RetryWithoutResume, Steps, Branch, WorkerDecides, Monitoring
  <1> QED
    BY <1>3, <1>4, <1>5, <1>6, <1>7, <1>8, <1>9, <1>10, <1>11, <1>12 DEF WorkerStep, AgentStep

\* A calendar worker keeps to its places; while an agent process may run, its
\* worker waits for it, or could not read it and is on the way out.
LEMMA WorkerStays ==
  ASSUME StorageInv, NEW r \in Runs, RunInHands(r), WorkerStep(r), executor' = executor
  PROVE  CalendarPlaces(r)' /\ AgentPlaces(r)'
  <1> DEFINE w == Worker(r)
             waits == Monitoring \ {"outcome", "decide"}
             left == {"raised", "caught", "done"}
  <1>1. /\ w \in Procs /\ ThreadsOK /\ proc \in [Runs -> {"none", "alive", "exited"}]
        /\ outcome \in [Runs -> Outcome]
        /\ CalendarPlaces(r) /\ AgentPlaces(r)
        /\ \A s, l : Continue(w, s, l) => pc'[w] = l
    BY RolesOf, InvFacts DEF Inv, TypeOK, WorkersTypeOK, RunInHands, Continue, ThreadsOK
  <1>2. CalendarPlaces(r)'
    <2>1. CASE executor[r] # "calendar"
      BY <2>1 DEF CalendarPlaces
    <2>2. CASE CalendarBegin(r) \/ CalendarFetch(r)
      BY <1>1, <2>2 DEF CalendarBegin, CalendarFetch, Steps, Branch, CalendarPlaces
    <2>3. CASE executor[r] = "calendar" /\ ~CalendarBegin(r) /\ ~CalendarFetch(r)
      <3>1. pc[w] \in {"idle", "begin", "fetch", "done"}
        BY <1>1, <2>3 DEF CalendarPlaces
      <3>2. ~AgentStep(r)
        BY <2>3, <3>1 DEF AgentStep, AgentBegin, MissingBinary, SpawnRaises, Spawn, Register, TakeLine,
           NoLine, PollCancelled, PollStatus, PollTimeout, Unblock, Flush, StopProcess, LateCancel,
           RetryWithoutResume, Finalize, SyncMemory, Begins, At, AtBranch
      <3> QED BY <2>3, <3>1, <3>2 DEF WorkerStep, ShellBegin, ShellSucceeds, ShellFails, ShellStopped,
                 ShellResult, ShellRaises, ShellStatus, ShellFlag, RecordException, Begins, At, AtBranch
    <2> QED BY <2>1, <2>2, <2>3
  <1>3. AgentPlaces(r)'
    <2>1. CASE proc' = proc /\ pc[w] \notin waits \cup left
      BY <1>1, <2>1 DEF AgentPlaces
    <2>2. CASE Spawn(r)
      BY <1>1, <2>2 DEF Spawn, Branch, AgentPlaces, Monitoring
    <2>3. CASE StopProcess(r)
      BY <1>1, <2>3 DEF StopProcess, AfterStop, AgentPlaces
    <2>4. CASE \/ Register(r) \/ TakeLine(r) \/ NoLine(r) \/ PollCancelled(r) \/ PollStatus(r)
               \/ PollTimeout(r) \/ Unblock(r) \/ Flush(r)
      <3>1. pc'[w] \in waits \/ \E log : Unreadable(r, log)
        BY <1>1, <2>4 DEF Register, TakeLine, NoLine, PollCancelled, PollStatus, PollTimeout, Unblock,
           Flush, Steps, Branch, Monitoring
      <3>2. (\E log : Unreadable(r, log)) => pc'[w] = "raised" /\ outcome'[r].unread
        BY <1>1 DEF Unreadable, Branch, Outcome
      <3> QED BY <3>1, <3>2 DEF AgentPlaces
    <2>5. CASE \/ AgentBegin(r) \/ MissingBinary(r) \/ SpawnRaises(r) \/ LateCancel(r)
               \/ RetryWithoutResume(r) \/ Finalize(r) \/ SyncMemory(r)
      BY <2>1, <2>5 DEF AgentBegin, MissingBinary, SpawnRaises, LateCancel, RetryWithoutResume, Finalize,
         SyncMemory, Steps, workerVars, Begins, At, AtBranch, Monitoring
    <2>6. CASE RecordException(r)
      <3>1. pc'[w] \in left /\ pc[w] = "raised" /\ proc' = proc /\ outcome' = outcome
        BY <1>1, <2>6 DEF RecordException, Branch, At, AtBranch
      <3> QED BY <1>1, <3>1 DEF AgentPlaces, Monitoring
    <2>7. CASE WorkerStep(r) /\ ~AgentStep(r) /\ ~RecordException(r)
      BY <2>1, <2>7 DEF WorkerStep, CalendarBegin, CalendarFetch, ShellBegin, ShellSucceeds, ShellFails,
         ShellStopped, ShellResult, ShellRaises, ShellStatus, ShellFlag, Steps,
         workerVars, Begins, At, AtBranch, Monitoring
    <2> QED BY <2>2, <2>3, <2>4, <2>5, <2>6, <2>7 DEF AgentStep
  <1> QED
    BY <1>2, <1>3

\* Every step of a worker keeps the owner: itself, until its script ends the run.
LEMMA WorkOwner ==
  ASSUME StorageInv, OwnerInv, NEW r \in Runs, Work(r)
  PROVE  OwnerInv'
  <1> DEFINE w == Worker(r)
  <1>1. /\ w \in Procs /\ Inv /\ ThreadsOK /\ RunOf(w) = r /\ w[1] = "worker"
        /\ RunInHands(r) /\ WorkerStep(r) /\ Busy(w)
        /\ proc \in [Runs -> {"none", "alive", "exited"}] /\ outcome \in [Runs -> Outcome]
    BY RolesOf, InvFacts, WorkerBusy DEF OwnerInv, Work, Inv, TypeOK, WorkersTypeOK
  <1>2. PICK s, l : Continue(w, s, l) /\ Harmless(w, s)
    BY <1>1, WorkerChoice DEF WorkerChooses
  <1>3. /\ UNCHANGED <<mem, row, copy, up, crashes, executor>>
        /\ todo'[w] = s /\ pc'[w] = l
        /\ \A q \in Procs \ {w} : todo'[q] = todo[q] /\ pc'[q] = pc[q]
    BY <1>1, <1>2, WorkerTypes DEF Work, OnlyThreads, memVars, dbVars, submitVars, Continue, ThreadsOK
  <1>4. Moves(w)
    BY <1>3 DEF Moves
  <1>5. \A x \in Runs \ {r} : proc'[x] = proc[x] /\ outcome'[x] = outcome[x]
    BY <1>1 DEF WorkerStep, AgentStep, AgentBegin, MissingBinary, SpawnRaises, Spawn, Register, TakeLine,
       NoLine, PollCancelled, PollStatus, PollTimeout, Unblock, Flush, Unreadable, StopProcess, LateCancel,
       RetryWithoutResume, Finalize, SyncMemory, CalendarBegin, CalendarFetch, ShellBegin,
       ShellSucceeds, ShellFails, ShellStopped, ShellResult, ShellRaises, ShellStatus, ShellFlag,
       RecordException, Steps, workerVars
  <1>6. ~Next0(w, "put")'
    <2>1. s # <<>> => 1 \in 1 .. Len(s)
      <3>1. ThreadsOK'
        <4>1. Branches
          BY <1>1, WorkerBranches
        <4> QED BY <1>1, <4>1, BranchKeepsThreads
      <3>2. s \in Seq(Op)
        BY <1>1, <1>3, <3>1 DEF ThreadsOK
      <3> QED BY <3>2, EmptySeq
    <2> QED BY <1>2, <1>3, <2>1 DEF Harmless, PlainCalls, Next0, Head0
  <1>7. up = "up" /\ todo[w] = <<>> /\ ~Idle(w)
    BY <1>1 DEF Busy, Idle, OwnerInv, BootFirst
  <1>8. OnlyWorkersRaise' /\ BootFirst'
    BY <1>1, <1>3, <1>4, <1>7, MovesServing
  <1>9. RunInHands(r)'
    <2>1. CalendarPlaces(r)' /\ AgentPlaces(r)'
      BY <1>1, <1>3, WorkerStays
    <2>2. ~(pc[w] = "raised" /\ executor[r] = "calendar")
      BY <1>1 DEF RunInHands, CalendarPlaces
    <2>3. Live(mem[r]) /\ pc[w] \in WorkerDecides => pc'[w] \in WorkerDecides \/ EndsIt(w)'
      BY <1>1, <2>2, WorkerGoesOn DEF EndsIt, HasStatus
    <2> QED BY <1>3, <1>4, <1>6, <1>7, <2>1, <2>3, WorkerMoves
  <1>10. \A x \in Runs \ {r} : RunInHands(x)'
    BY <1>1, <1>3, <1>4, <1>5, OtherMoves DEF OwnerInv
  <1> QED
    BY <1>8, <1>9, <1>10 DEF OwnerInv

---------------------------------------------------------------------------
(* Calls.                                                                  *)

\* What a call leaves in memory, in the caller's copy and in the row.
LEMMA CallRecords ==
  ASSUME StorageInv, NEW p \in Procs, Perform(p), ~DatabaseFault(p)
  PROVE  LET r == RunOf(p) IN
         /\ \/ PutRun(p) /\ p = Handler(r) /\ mem'[r] = Head0(p).rec
            \/ UpdateMeta(p) /\ p = Handler(r) /\ r \in AudioRuns /\ mem'[r].status = mem[r].status
            \/ SetRunStatus(p) /\ Terminal(mem'[r]) /\ ~Live(mem'[r])
            \/ ~PutRun(p) /\ ~UpdateMeta(p) /\ ~SetRunStatus(p) /\ mem' = mem
         /\ Known(mem'[r])
         /\ copy'[p] \in {copy[p], mem[r], mem'[r]}
         /\ row'[r] \in {row[r], copy[p]}
  <1> DEFINE r == RunOf(p)
  <1>1. /\ r \in Runs /\ Inv /\ ThreadsOK /\ ThreadOK(p) /\ StateTypeOK
        /\ mem[r] \in RunRec /\ row[r] \in RunRec
        /\ p[1] = "handler" <=> p = Handler(r)
    BY InvFacts, ProcOf
  <1>2. CASE PutRun(p)
    <2>1. Opens(p) /\ Head0(p).rec.status \in {"running", "rejected"}
      BY <1>1, <1>2, CallerKnown DEF Opens
    <2>2. mem'[r] = Head0(p).rec /\ copy' = copy /\ row' = row
      BY <1>1, <1>2 DEF PutRun, StateTypeOK, dbVars
    <2> QED BY <1>1, <1>2, <2>1, <2>2 DEF Opens, Known
  <1>3. CASE UpdateMeta(p)
    <2>1. 1 \in 1 .. Len(todo[p]) /\ todo[p][1].do = "meta"
      <3>1. todo[p] # <<>> /\ todo[p] \in Seq(Op) /\ Head0(p).do = "meta"
        BY <1>1, <1>3 DEF UpdateMeta, Next0, ThreadsOK
      <3> QED BY <3>1, EmptySeq DEF Head0
    <2>2. p = Handler(r) /\ r \in AudioRuns
      BY <1>1, <2>1 DEF ThreadOK, MetaIsAudio
    <2>3. /\ mem'[r] = MetaRecord(r, Head0(p).rec.summary) /\ row' = row
          /\ copy'[p] = MetaRecord(r, Head0(p).rec.summary)
      BY <1>1, <1>3 DEF UpdateMeta, StateTypeOK, dbVars
    <2>4. mem'[r].status = mem[r].status
      BY <1>1, <2>3 DEF MetaRecord, RunRec
    <2>5. Known(mem[r])
      BY <1>1, <1>3, CallerKnown DEF UpdateMeta, PutRun, Next0
    <2> QED BY <1>3, <2>2, <2>3, <2>4, <2>5 DEF Known
  <1>4. CASE SetRunStatus(p)
    <2>1. Terminal(mem'[r])
      BY <1>1, <1>4, NewRecord
    <2>2. copy'[p] = mem'[r] /\ row' = row
      BY <1>1, <1>4 DEF SetRunStatus, StatusInMemory, StateTypeOK, dbVars
    <2> QED BY <1>4, <2>1, <2>2 DEF Terminal, TerminalStatuses, Known, Live
  <1>5. CASE ~PutRun(p) /\ ~UpdateMeta(p) /\ ~SetRunStatus(p)
    <2>1. mem' = mem /\ Known(mem[r])
      BY <1>1, <1>5, CallEffect, CallerKnown
    <2>2. copy'[p] \in {copy[p], mem[r]}
      BY <1>1, <1>5 DEF Perform, ReadRecord, AppendEvent, UpsertRow, UpdateRow, UpdateSession, AppendRow,
         WriteDone, StateTypeOK
    <2>3. row'[r] \in {row[r], copy[p]}
      BY <1>1, <1>5 DEF Perform, ReadRecord, AppendEvent, UpsertRow, UpdateRow, UpdateSession, AppendRow,
         StateTypeOK, dbVars
    <2> QED BY <1>5, <2>1, <2>2, <2>3
  <1> QED
    BY <1>2, <1>3, <1>4, <1>5

\* A call that is still to come is not the first of its script, unless it is
\* the one that is made.
LEMMA StillToCome ==
  ASSUME ThreadsOK, NEW p \in Procs, Perform(p), ~DatabaseFault(p),
         NEW do, HasAhead(p, do), ~Next0(p, do)
  PROVE  HasAhead(p, do)'
  <1>1. todo[p] \in Seq(Op) /\ Len(todo[p]) \in Nat \ {0} /\ todo[p] # <<>>
    BY ScriptAfter
  <1>2. PICK k \in {-1, 0, 1} : Writing(p, k)
    BY RestOfScript
  <1>3. PICK i \in 1 .. Len(todo[p]) : todo[p][i].do = do
    BY DEF HasAhead
  <1>4. i \in 2 .. Len(todo[p])
    BY <1>1, <1>3 DEF Next0, Head0
  <1>5. i + k \in 1 .. Len(todo'[p]) /\ todo'[p][i + k] = todo[p][i]
    BY <1>1, <1>2, <1>4 DEF Writing
  <1> QED
    BY <1>3, <1>5 DEF HasAhead

\* A thread that made a call is not about to store a run.
LEMMA StoredNow ==
  ASSUME ThreadsOK, NEW p \in Procs, Perform(p)
  PROVE  ~Next0(p, "put")'
  <1>1. todo'[p] \in Seq(SafeOp) \/ Appending(p)'
    BY PerformScripts
  <1>2. CASE todo'[p] \in Seq(SafeOp)
    <2>1. todo'[p] # <<>> => todo'[p][1] \in SafeOp
      BY <1>2, EmptySeq
    <2> QED BY <2>1 DEF SafeOp, Next0, Head0
  <1> QED
    BY <1>1, <1>2 DEF Appending, Next0, Head0

\* A call moves only its caller's script and its run's records.
LEMMA CallFrame ==
  ASSUME StorageInv, NEW p \in Procs, PerformStep(p), ~DatabaseFault(p)
  PROVE  /\ pc' = pc /\ up' = up /\ executor' = executor /\ proc' = proc /\ crashes' = crashes
         /\ faults' = faults /\ outcome' = outcome
         /\ \A q \in Procs \ {p} : todo'[q] = todo[q] /\ copy'[q] = copy[q]
         /\ \A x \in Runs \ {RunOf(p)} : mem'[x] = mem[x] /\ row'[x] = row[x]
         /\ todo[p] # <<>>
  <1>1. Perform(p) /\ ThreadsOK /\ StateTypeOK
    BY InvFacts DEF PerformStep
  <1>2. pc' = pc /\ up' = up /\ faults' = faults
    BY <1>1 DEF Perform, PutRun, ReadRecord, UpdateMeta, SetRunStatus, AppendEvent, UpsertRow, UpdateRow,
       UpdateSession, AppendRow, WriteDone
  <1>3. executor' = executor /\ proc' = proc /\ crashes' = crashes /\ outcome' = outcome
    BY DEF PerformStep, submitVars, workerVars
  <1> QED
    BY <1>1, <1>2, <1>3, PerformScripts, CallEffect

\* Every call keeps the owner: it ends the run, or the thread has more to do.
LEMMA PerformOwner ==
  ASSUME StorageInv, OwnerInv, NEW p \in Procs, PerformStep(p), ~DatabaseFault(p)
  PROVE  OwnerInv'
  <1> DEFINE r == RunOf(p)
             h == Handler(r)
             w == Worker(r)
             c == Canceller(r)
             b == Boot(r)
  <1>1. /\ Perform(p) /\ r \in Runs /\ ThreadsOK /\ ThreadOK(p) /\ RunInHands(r)
        /\ h \in Procs /\ w \in Procs /\ c \in Procs /\ b \in Procs
        /\ h # w /\ h # c /\ h # b /\ RunOf(h) = r
        /\ TextRuns \cap AudioRuns = {}
    BY InvFacts, RolesOf, KindAssumption DEF PerformStep, OwnerInv
  <1>2. /\ pc' = pc /\ up' = up /\ executor' = executor /\ proc' = proc /\ crashes' = crashes
        /\ outcome' = outcome
        /\ \A q \in Procs \ {p} : todo'[q] = todo[q] /\ copy'[q] = copy[q]
        /\ \A x \in Runs \ {r} : mem'[x] = mem[x] /\ row'[x] = row[x]
        /\ todo[p] # <<>>
    BY CallFrame
  <1>3. /\ \/ PutRun(p) /\ p = h /\ mem'[r] = Head0(p).rec
           \/ UpdateMeta(p) /\ p = h /\ r \in AudioRuns /\ mem'[r].status = mem[r].status
           \/ SetRunStatus(p) /\ Terminal(mem'[r]) /\ ~Live(mem'[r])
           \/ ~PutRun(p) /\ ~UpdateMeta(p) /\ ~SetRunStatus(p) /\ mem' = mem
        /\ Known(mem'[r])
        /\ copy'[p] \in {copy[p], mem[r], mem'[r]}
        /\ row'[r] \in {row[r], copy[p]}
    BY <1>1, CallRecords
  <1>4. ~Next0(p, "put")'
    BY <1>1, StoredNow
  <1>5. PICK k \in {-1, 0, 1} : \A i \in 1 .. Len(todo'[p]) :
             \/ todo'[p][i].do \in Writes
             \/ i - k \in 2 .. Len(todo[p]) /\ todo'[p][i] = todo[p][i - k]
    BY <1>1, RestOfScript
  <1>6. OnlyWorkersRaise'
    BY <1>2 DEF OwnerInv, OnlyWorkersRaise
  <1>7. BootFirst'
    <2>1. \A q \in Procs : IF q[1] = "boot" THEN todo'[q] # <<>> => up' = "booting"
                           ELSE Idle(q)' \/ up' = "up"
      BY <1>1, <1>2 DEF OwnerInv, BootFirst, Idle
    <2>2. up' = "up" => \A x \in Runs : Live(row'[x]) => Known(mem'[x])
      BY <1>1, <1>2, <1>3 DEF OwnerInv, BootFirst
    <2> QED BY <1>2, <2>1, <2>2 DEF OwnerInv, BootFirst
  <1>8. \A x \in Runs \ {r} : RunInHands(x)'
    <2>1. \A x \in Runs \ {r} : Untouched(x)
      BY <1>1, <1>2 DEF Untouched
    <2> QED BY <2>1, UntouchedRun DEF OwnerInv
  <1>9. HandlerBefore(r)' /\ CalendarPlaces(r)' /\ AgentPlaces(r)'
    BY <1>1, <1>2 DEF RunInHands, HandlerBefore, CalendarPlaces, AgentPlaces, Idle, AtBranch
  <1>10. StoreLeadsOn(r)'
    BY <1>1, <1>2, <1>4 DEF RunInHands, StoreLeadsOn, Next0, Head0
  <1>11. TextRecords(r)'
    <2>1. SUFFICES ASSUME r \in TextRuns PROVE TextRecords(r)'
      BY DEF TextRecords
    <2>2. ~Transcribing(mem[r]) /\ ~Transcribing(row[r]) /\ ~Transcribing(copy[p])
      BY <1>1, <2>1 DEF RunInHands, TextRecords
    <2>3. ~Transcribing(mem'[r])
      <3>1. PutRun(p) => ~Transcribing(Head0(p).rec)
        BY <1>1, <2>1 DEF RunInHands, TextRecords, PutRun
      <3> QED BY <1>1, <1>3, <2>1, <2>2, <3>1 DEF Transcribing
    <2>4. ~Transcribing(row'[r]) /\ ~Transcribing(copy'[p])
      BY <1>3, <2>2, <2>3
    <2>5. \A q \in Procs \ {p} : RunOf(q) = r => /\ ~Transcribing(copy'[q])
                                                 /\ Next0(q, "put")' => ~Transcribing(todo'[q][1].rec)
      BY <1>1, <1>2, <2>1 DEF RunInHands, TextRecords, Next0, Head0
    <2> QED BY <1>4, <2>3, <2>4, <2>5 DEF TextRecords, Head0
  <1>12. AudioRecord(r)'
    <2>1. SUFFICES ASSUME pc[h] \in AudioPlaces PROVE AudioRecord(r)'
      BY <1>2 DEF AudioRecord
    <2>2. /\ Live(mem[r]) => Transcribing(mem[r])
          /\ Next0(h, "put") => Transcribing(Head0(h).rec)
          /\ \A i \in 1 .. Len(todo[h]) : todo[h][i].do # "meta"
      BY <1>1, <2>1 DEF RunInHands, AudioRecord
    <2>3. ~UpdateMeta(p)
      <3>1. p = h => todo[p] \in Seq(Op) /\ todo[p] # <<>> /\ 1 \in 1 .. Len(todo[p])
        BY <1>1, <1>2, EmptySeq DEF ThreadsOK
      <3>2. ~(p = h /\ UpdateMeta(p))
        BY <2>2, <3>1 DEF UpdateMeta, Next0, Head0
      <3>3. UpdateMeta(p) => p = h
        BY <1>3 DEF UpdateMeta, PutRun, SetRunStatus, Next0
      <3> QED BY <3>2, <3>3
    <2>4. Live(mem'[r]) => Transcribing(mem'[r])
      BY <1>3, <2>2, <2>3 DEF PutRun
    <2>5. Next0(h, "put")' => Transcribing(todo'[h][1].rec)
      BY <1>1, <1>2, <1>4, <2>2 DEF Next0, Head0
    <2>6. \A i \in 1 .. Len(todo'[h]) : todo'[h][i].do # "meta"
      <3>1. CASE p = h
        <4>1. ASSUME NEW i \in 1 .. Len(todo'[h]) PROVE todo'[h][i].do # "meta"
          <5>1. \/ todo'[h][i].do \in Writes
                \/ i - k \in 2 .. Len(todo[h]) /\ todo'[h][i] = todo[h][i - k]
            BY <1>5, <3>1, <4>1
          <5>2. \A j \in 2 .. Len(todo[h]) : j \in 1 .. Len(todo[h])
            OBVIOUS
          <5> QED BY <2>2, <5>1, <5>2 DEF Writes
        <4> QED BY <4>1
      <3> QED BY <1>1, <1>2, <2>2, <3>1
    <2> QED BY <2>4, <2>5, <2>6 DEF AudioRecord, Head0
  <1>13. CancelOnly(r)'
    <2>1. /\ pc[c] \in {"idle", "dispatch", "mark", "done"}
          /\ pc[c] = "mark" \/ todo[c] # <<>> => r \in AudioRuns
          /\ \A i \in 1 .. Len(todo[c]) : todo[c][i].do = "status" => todo[c][i].rec = CancelledRecord
      BY <1>1 DEF RunInHands, CancelOnly
    <2>2. pc'[c] = "mark" \/ todo'[c] # <<>> => r \in AudioRuns
      BY <1>1, <1>2, <2>1
    <2>3. \A i \in 1 .. Len(todo'[c]) : todo'[c][i].do = "status" => todo'[c][i].rec = CancelledRecord
      <3>1. CASE p = c
        <4>1. ASSUME NEW i \in 1 .. Len(todo'[c]), todo'[c][i].do = "status"
              PROVE  todo'[c][i].rec = CancelledRecord
          <5>1. \/ todo'[c][i].do \in Writes
                \/ i - k \in 2 .. Len(todo[c]) /\ todo'[c][i] = todo[c][i - k]
            BY <1>5, <3>1, <4>1
          <5>2. \A j \in 2 .. Len(todo[c]) : j \in 1 .. Len(todo[c])
            OBVIOUS
          <5>3. "status" \notin Writes
            BY DEF Writes
          <5> QED BY <2>1, <4>1, <5>1, <5>2, <5>3
        <4> QED BY <4>1
      <3> QED BY <1>1, <1>2, <2>1, <3>1
    <2> QED BY <1>2, <2>1, <2>2, <2>3 DEF CancelOnly
  <1>14. Owned(r)'
    <2>1. SUFFICES ASSUME Live(mem'[r]) PROVE Owned(r)'
      BY DEF Owned
    <2>2. CASE PutRun(p)
      <3>1. p = h /\ Next0(h, "put") /\ Live(Head0(h).rec)
        BY <1>3, <2>1, <2>2 DEF PutRun, UpdateMeta, SetRunStatus, Next0
      <3>2. pc[h] \in HandlerDecides
        BY <1>1, <3>1 DEF RunInHands, StoreLeadsOn
      <3> QED BY <1>2, <3>2 DEF Owned
    <2>3. CASE ~PutRun(p)
      <3>1. /\ Live(mem[r]) /\ ~SetRunStatus(p)
            /\ (UpdateMeta(p) /\ p = h) \/ mem' = mem
        BY <1>3, <2>1, <2>3 DEF Live, UpdateMeta, SetRunStatus, Next0
      <3>2. ~Next0(p, "status")
        BY <1>1, <3>1 DEF Perform, PutRun, ReadRecord, UpdateMeta, AppendEvent, UpsertRow,
           UpdateRow, UpdateSession, AppendRow, Next0
      <3>3. \A q \in Procs : EndsIt(q) => EndsIt(q)'
        <4>1. EndsIt(p) => EndsIt(p)'
          BY <1>1, <3>2, StillToCome DEF EndsIt, HasAhead
        <4> QED BY <1>2, <4>1 DEF EndsIt
      <3>4. AtBranch(h, "done") /\ Idle(w) => AtBranch(h, "done")' /\ Idle(w)' /\ mem' = mem
        BY <1>1, <1>2, <3>1 DEF AtBranch, Idle
      <3> QED BY <1>1, <1>2, <3>1, <3>3, <3>4 DEF RunInHands, Owned
    <2> QED BY <2>2, <2>3
  <1> QED
    BY <1>6, <1>7, <1>8, <1>9, <1>10, <1>11, <1>12, <1>13, <1>14 DEF OwnerInv, RunInHands

---------------------------------------------------------------------------
(* The other steps.                                                        *)

\* An agent process that exits by itself.
LEMMA ExitOwner ==
  ASSUME StorageInv, OwnerInv, NEW r \in Runs, Exit(r)
  PROVE  OwnerInv'
  <1>1. /\ proc \in [Runs -> {"none", "alive", "exited"}]
        /\ \A x \in Runs : proc'[x] = "alive" => proc[x] = "alive"
        /\ todo' = todo /\ pc' = pc /\ copy' = copy /\ mem' = mem /\ row' = row /\ up' = up
        /\ executor' = executor /\ crashes' = crashes /\ outcome' = outcome
    <2>1. proc \in [Runs -> {"none", "alive", "exited"}]
      BY InvFacts DEF Inv, TypeOK, WorkersTypeOK
    <2> QED BY <2>1 DEF Exit, ProcessExits, stateVars, submitVars
  <1>2. OnlyWorkersRaise' /\ BootFirst'
    BY <1>1 DEF OwnerInv, OnlyWorkersRaise, BootFirst, Idle
  <1>3. \A x \in Runs : /\ HandlerBefore(x)' /\ TextRecords(x)' /\ AudioRecord(x)' /\ CancelOnly(x)'
                        /\ StoreLeadsOn(x)' /\ CalendarPlaces(x)' /\ AgentPlaces(x)'
    BY <1>1 DEF OwnerInv, RunInHands, HandlerBefore, TextRecords, AudioRecord, CancelOnly, StoreLeadsOn,
       CalendarPlaces, AgentPlaces, Idle, AtBranch, Next0, Head0
  <1>4. \A x \in Runs : Owned(x)'
    BY <1>1 DEF OwnerInv, RunInHands, Owned, EndsIt, AtBranch, Idle
  <1> QED
    BY <1>2, <1>3, <1>4 DEF OwnerInv, RunInHands

\* get_run serves a run that the database alone knows: it is over.
LEMMA LoadOwner ==
  ASSUME StorageInv, OwnerInv, NEW r \in Runs, Load(r)
  PROVE  OwnerInv'
  <1>1. /\ todo' = todo /\ pc' = pc /\ copy' = copy /\ row' = row /\ up' = up /\ up = "up"
        /\ executor' = executor /\ proc' = proc /\ outcome' = outcome /\ crashes' = crashes
        /\ ~Known(mem[r]) /\ Known(row[r]) /\ mem'[r] = row[r]
        /\ \A x \in Runs \ {r} : mem'[x] = mem[x]
    BY InvFacts DEF Load, GetRun, dbVars, submitVars, workerVars, StateTypeOK
  <1>2. ~Live(row[r])
    BY <1>1 DEF OwnerInv, BootFirst
  <1>3. OnlyWorkersRaise' /\ BootFirst'
    BY <1>1 DEF OwnerInv, OnlyWorkersRaise, BootFirst, Idle
  <1>4. \A x \in Runs : /\ HandlerBefore(x)' /\ CancelOnly(x)'
                        /\ StoreLeadsOn(x)' /\ CalendarPlaces(x)' /\ AgentPlaces(x)'
    BY <1>1 DEF OwnerInv, RunInHands, HandlerBefore, CancelOnly, StoreLeadsOn,
       CalendarPlaces, AgentPlaces, Idle, AtBranch, Next0, Head0
  <1>5. \A x \in Runs : TextRecords(x)' /\ AudioRecord(x)'
    BY <1>1, <1>2 DEF OwnerInv, RunInHands, TextRecords, AudioRecord, Transcribing, Next0, Head0
  <1>6. \A x \in Runs : Owned(x)'
    BY <1>1, <1>2 DEF OwnerInv, RunInHands, Owned, EndsIt, AtBranch, Idle
  <1> QED
    BY <1>3, <1>4, <1>5, <1>6 DEF OwnerInv, RunInHands

\* Reconciliation takes an interrupted run and will end it.
LEMMA ReconcileOwner ==
  ASSUME StorageInv, OwnerInv, NEW r \in Runs, Reconcile(r)
  PROVE  OwnerInv'
  <1> DEFINE b == Boot(r)
             s == <<Emit("activity"), Emit("run.failed"), SetStatus("failed")>>
  <1>1. /\ b \in Procs /\ ThreadsOK /\ StateTypeOK /\ b[1] = "boot" /\ RunOf(b) = r
        /\ b # Handler(r) /\ b # Worker(r) /\ b # Canceller(r)
        /\ Handler(r) \in Procs /\ Worker(r) \in Procs /\ Canceller(r) \in Procs
        /\ Handler(r)[1] # "boot"
    BY InvFacts, RolesOf
  <1>2. /\ copy' = copy /\ row' = row /\ up' = up /\ up = "booting"
        /\ executor' = executor /\ proc' = proc /\ outcome' = outcome /\ crashes' = crashes
        /\ mem'[r] = row[r] /\ \A x \in Runs \ {r} : mem'[x] = mem[x]
        /\ todo'[b] = s /\ pc'[b] = "done"
        /\ \A q \in Procs \ {b} : todo'[q] = todo[q] /\ pc'[q] = pc[q]
    BY <1>1 DEF Reconcile, ReconcileRun, Boot, Continue, dbVars, submitVars, workerVars, StateTypeOK,
       ThreadsOK
  <1>3. \A q \in Procs : q[1] # "boot" => Idle(q)
    BY <1>2 DEF OwnerInv, BootFirst
  <1>4. s[1].do # "put" /\ \E i \in 1 .. Len(s) : s[i].do = "status"
    BY DEF Emit, SetStatus
  <1> HIDE DEF s
  <1>5. OnlyWorkersRaise'
    BY <1>2 DEF OwnerInv, OnlyWorkersRaise
  <1>6. BootFirst'
    BY <1>1, <1>2, <1>3 DEF OwnerInv, BootFirst, Idle
  <1>7. \A x \in Runs \ {r} : RunInHands(x)'
    <2>1. \A x \in Runs \ {r} : Untouched(x)
      BY <1>1, <1>2 DEF Untouched
    <2> QED BY <2>1, UntouchedRun DEF OwnerInv
  <1>8. RunInHands(r)'
    <2>1. /\ HandlerBefore(r)' /\ CancelOnly(r)' /\ StoreLeadsOn(r)' /\ CalendarPlaces(r)'
          /\ AgentPlaces(r)'
      BY <1>1, <1>2 DEF OwnerInv, RunInHands, HandlerBefore, CancelOnly, StoreLeadsOn,
         CalendarPlaces, AgentPlaces, Idle, AtBranch, Next0, Head0
    <2>2. AudioRecord(r)'
      BY <1>1, <1>2, <1>3 DEF AudioRecord, AudioPlaces, Idle
    <2>3. TextRecords(r)'
      BY <1>1, <1>2, <1>4 DEF OwnerInv, RunInHands, TextRecords, Next0, Head0
    <2>4. Owned(r)'
      BY <1>2, <1>4 DEF Owned, EndsIt
    <2> QED BY <2>1, <2>2, <2>3, <2>4 DEF RunInHands
  <1> QED
    BY <1>5, <1>6, <1>7, <1>8 DEF OwnerInv

\* After the death of the backend nobody is anywhere.
LEMMA CrashOwner ==
  ASSUME StorageInv, OwnerInv, Crash
  PROVE  OwnerInv'
  <1>1. /\ \A q \in Procs : todo'[q] = <<>> /\ pc'[q] = "idle" /\ copy'[q] = Absent
        /\ \A x \in Runs : mem'[x] = Absent /\ executor'[x] = "none" /\ proc'[x] = "none"
        /\ row' = row /\ up' = "down" /\ crashes' > 0
    <2>1. crashes \in Nat
      BY InvFacts DEF Inv, TypeOK
    <2> QED BY <2>1 DEF Crash, Die, LoseMemory, dbVars
  <1>2. OnlyWorkersRaise' /\ BootFirst'
    BY <1>1 DEF OnlyWorkersRaise, BootFirst, Idle
  <1>3. ~Live(Absent)
    BY DEF Live, Absent
  <1>4. ASSUME NEW x \in Runs PROVE RunInHands(x)'
    <2>1. /\ Handler(x) \in Procs /\ Worker(x) \in Procs /\ Canceller(x) \in Procs
      BY RolesOf
    <2>2. HandlerBefore(x)' /\ AudioRecord(x)' /\ CancelOnly(x)' /\ CalendarPlaces(x)' /\ AgentPlaces(x)'
      BY <1>1, <2>1 DEF HandlerBefore, AudioRecord, CancelOnly, CalendarPlaces, AgentPlaces, Idle,
         AudioPlaces
    <2>3. TextRecords(x)' /\ Owned(x)' /\ StoreLeadsOn(x)'
      BY <1>1, <1>3, <2>1 DEF OwnerInv, RunInHands, TextRecords, Transcribing, Owned, StoreLeadsOn, Next0
    <2> QED BY <2>2, <2>3 DEF RunInHands
  <1> QED
    BY <1>2, <1>4 DEF OwnerInv

\* Nobody works while the backend starts, and it serves when no run is left
\* to reconcile.
LEMMA StartOwner ==
  ASSUME OwnerInv, Restart \/ Serve
  PROVE  OwnerInv'
  <1>1. /\ todo' = todo /\ pc' = pc /\ copy' = copy /\ mem' = mem /\ row' = row
        /\ executor' = executor /\ proc' = proc /\ outcome' = outcome /\ crashes' = crashes
        /\ up # "up"
        /\ \/ up' = "booting"
           \/ up' = "up" /\ (\A p \in Procs : todo[p] = <<>>) /\ \A r \in Runs : ~Interrupted(r)
    BY DEF Restart, Serve, memVars, dbVars, submitVars, workerVars
  <1>2. OnlyWorkersRaise' /\ BootFirst'
    BY <1>1 DEF OwnerInv, OnlyWorkersRaise, BootFirst, Idle, Interrupted
  <1>3. \A x \in Runs : /\ HandlerBefore(x)' /\ TextRecords(x)' /\ AudioRecord(x)' /\ CancelOnly(x)'
                        /\ StoreLeadsOn(x)' /\ CalendarPlaces(x)' /\ AgentPlaces(x)'
    BY <1>1 DEF OwnerInv, RunInHands, HandlerBefore, TextRecords, AudioRecord, CancelOnly, StoreLeadsOn,
       CalendarPlaces, AgentPlaces, Idle, AtBranch, Next0, Head0
  <1>4. \A x \in Runs : Owned(x)'
    BY <1>1 DEF OwnerInv, RunInHands, Owned, EndsIt, AtBranch, Idle
  <1> QED
    BY <1>2, <1>3, <1>4 DEF OwnerInv, RunInHands

\* Initially no run is live.
LEMMA InitOwner == Init => OwnerInv
  <1> SUFFICES ASSUME Init PROVE OwnerInv
    OBVIOUS
  <1>1. /\ \A q \in Procs : todo[q] = <<>> /\ pc[q] = "idle" /\ copy[q] = Absent
        /\ \A x \in Runs : mem[x] = Absent /\ row[x] = Absent /\ executor[x] = "none" /\ proc[x] = "none"
        /\ up = "up"
    BY DEF Init, Init0, InitSubmission, InitWorkers
  <1>2. ~Live(Absent)
    BY DEF Live, Absent
  <1>3. OnlyWorkersRaise /\ BootFirst
    BY <1>1, <1>2 DEF OnlyWorkersRaise, BootFirst, Idle
  <1>4. ASSUME NEW x \in Runs PROVE RunInHands(x)
    <2>1. /\ Handler(x) \in Procs /\ Worker(x) \in Procs /\ Canceller(x) \in Procs
      BY RolesOf
    <2>2. HandlerBefore(x) /\ AudioRecord(x) /\ CancelOnly(x) /\ CalendarPlaces(x) /\ AgentPlaces(x)
      BY <1>1, <2>1 DEF HandlerBefore, AudioRecord, CancelOnly, CalendarPlaces, AgentPlaces, Idle,
         AudioPlaces
    <2>3. TextRecords(x) /\ Owned(x) /\ StoreLeadsOn(x)
      BY <1>1, <1>2, <2>1 DEF TextRecords, Transcribing, Owned, StoreLeadsOn, Next0
    <2> QED BY <2>2, <2>3 DEF RunInHands
  <1> QED
    BY <1>3, <1>4 DEF OwnerInv

\* Every step but a database fault.
LEMMA NextOwner ==
  ASSUME StorageInv, OwnerInv, Next, faults = 0, faults' = 0
  PROVE  OwnerInv'
  <1>1. ASSUME NEW p \in Procs, PerformStep(p) PROVE ~DatabaseFault(p)
    BY <1>1 DEF DatabaseFault
  <1>2. ASSUME NEW r \in Runs PROVE ~BootRaises(r)
    BY RolesOf DEF BootRaises, AtBranch, OwnerInv, OnlyWorkersRaise
  <1> QED
    BY <1>1, <1>2, PerformOwner, SubmitOwner, WorkOwner, ExitOwner, CancellerOwner, LoadOwner,
       ReconcileOwner, CrashOwner, StartOwner DEF Next

\* Faults are never taken back.
LEMMA FaultsCount ==
  ASSUME Inv, [Next]_vars, faults' = 0
  PROVE  faults = 0
  <1>1. faults \in Nat
    BY DEF Inv, TypeOK, StateTypeOK
  <1>2. CASE UNCHANGED vars
    BY <1>2 DEF vars, allVars, stateVars
  <1>3. CASE Next
    <2>1. ASSUME NEW p \in Procs, Perform(p) PROVE faults' \in {faults, faults + 1}
      BY <2>1 DEF Perform, PutRun, ReadRecord, UpdateMeta, SetRunStatus, AppendEvent, UpsertRow, UpdateRow,
         UpdateSession, AppendRow, WriteDone, DatabaseFault
    <2>2. ASSUME NEW r \in Runs, Submit(r) \/ Work(r) \/ Exit(r) \/ Terminate(r) PROVE faults' = faults
      <3>1. CASE Submit(r)
        BY <3>1, SubmissionTypes DEF Submit
      <3>2. CASE Work(r) \/ Terminate(r)
        BY <3>2, WorkerTypes DEF Work, Terminate, OnlyThreads
      <3>3. CASE Exit(r)
        BY <3>3 DEF Exit, ProcessExits, stateVars
      <3> QED BY <2>2, <3>1, <3>2, <3>3
    <2>3. ASSUME NEW r \in Runs, Load(r) \/ Reconcile(r) \/ BootRaises(r) PROVE faults' = faults
      BY <2>3 DEF Load, GetRun, Reconcile, ReconcileRun, BootRaises, Die
    <2>4. ASSUME Crash \/ Restart \/ Serve PROVE faults' = faults
      BY <2>4 DEF Crash, Die, Restart, Serve
    <2> QED BY <1>1, <1>3, <2>1, <2>2, <2>3, <2>4 DEF Next, PerformStep
  <1> QED
    BY <1>2, <1>3

\* A stutter keeps the owner.
LEMMA StutterOwner ==
  ASSUME OwnerInv, UNCHANGED vars
  PROVE  OwnerInv'
  <1>1. /\ todo' = todo /\ pc' = pc /\ copy' = copy /\ mem' = mem /\ row' = row /\ up' = up
        /\ executor' = executor /\ proc' = proc /\ outcome' = outcome /\ crashes' = crashes
    BY DEF vars, allVars, stateVars, submitVars, workerVars
  <1>2. OnlyWorkersRaise' /\ BootFirst'
    BY <1>1 DEF OwnerInv, OnlyWorkersRaise, BootFirst, Idle
  <1>3. \A x \in Runs : Untouched(x)
    BY <1>1 DEF Untouched
  <1> QED
    BY <1>2, <1>3, UntouchedRun DEF OwnerInv

\* OwnerInv is inductive until the first fault.
LEMMA NextOwned == StorageInv /\ OwnedUntilFault /\ [Next]_vars => OwnedUntilFault'
  <1> SUFFICES ASSUME StorageInv, OwnedUntilFault, [Next]_vars, faults' = 0
               PROVE  OwnerInv'
    BY DEF OwnedUntilFault
  <1>1. faults = 0 /\ OwnerInv
    BY InvFacts, FaultsCount DEF OwnedUntilFault
  <1> QED
    BY <1>1, NextOwner, StutterOwner

\* OwnerInv is inductive together with StorageInv, as long as no write has
\* raised.
THEOREM OwnedRuns == Spec => []OwnedUntilFault
  <1>1. Init => OwnedUntilFault
    BY InitOwner DEF OwnedUntilFault
  <1> QED
    BY <1>1, NextOwned, WritesInTurn, PTL DEF Spec

\* A running run always has a thread that will choose its end or has chosen
\* it, but for the audio run whose second _prepare raised.  (Every return of
\* the handler, the worker's net in _run_worker, the reconciliation.)
THEOREM RunsHaveOwners == Spec => [](faults = 0 => RunningHasOwner)
  <1>1. StorageInv /\ OwnedUntilFault => (faults = 0 => RunningHasOwner)
    <2> SUFFICES ASSUME StorageInv, OwnerInv, NEW r \in Runs, Live(mem[r])
                 PROVE  \/ \E p \in Procs : RunOf(p) = r /\ ~Over(p)
                        \/ /\ r \in AudioRuns /\ mem[r].summary = "Transcribing audio"
                           /\ pc[Handler(r)] = "done"
      BY DEF OwnedUntilFault, RunningHasOwner
    <2>1. /\ Handler(r) \in Procs /\ Worker(r) \in Procs /\ Boot(r) \in Procs
          /\ RunOf(Handler(r)) = r /\ RunOf(Worker(r)) = r /\ RunOf(Boot(r)) = r
      BY RolesOf
    <2>2. \A p \in Procs : EndsIt(p) => ~Over(p)
      BY DEF EndsIt, Over
    <2>3. \A p \in Procs : pc[p] \in HandlerDecides \cup WorkerDecides => ~Over(p)
      BY DEF Over, HandlerDecides, WorkerDecides, AudioPlaces, Monitoring
    <2> QED BY <2>1, <2>2, <2>3 DEF OwnerInv, RunInHands, Owned, AtBranch
  <1> QED
    BY <1>1, WritesInTurn, OwnedRuns, PTL

\* A worker ends while its agent process runs only when a message of the agent
\* could not be read, and then the run is over, for good.  (monitor; the finally
\* of agent_run_service.py:309 and the net of execution_service.py:364)
THEOREM AgentsHaveWorkers == Spec => [](faults = 0 => NoAgentLeftBehind)
  <1>1. StorageInv /\ OwnedUntilFault => (faults = 0 => NoAgentLeftBehind)
    <2> SUFFICES ASSUME StorageInv, OwnerInv, NEW r \in Runs, Over(Worker(r)), proc[r] = "alive"
                 PROVE  outcome[r].unread /\ Terminal(mem[r])
      BY DEF OwnedUntilFault, NoAgentLeftBehind
    <2> DEFINE w == Worker(r)
    <2>1. /\ w \in Procs /\ w[1] = "worker" /\ RunOf(w) = r /\ Inv
          /\ Boot(r) \in Procs /\ Boot(r)[1] = "boot" /\ mem[r] \in RunRec /\ RunInHands(r)
      BY RolesOf, InvFacts DEF OwnerInv
    <2>2. /\ pc[w] \in {"raised", "caught", "done"} /\ outcome[r].unread
          /\ todo[w] = <<>> /\ pc[w] \notin WorkerDecides
      BY <2>1 DEF RunInHands, AgentPlaces, Over, Monitoring, WorkerDecides
    <2>3. ~Idle(w) /\ AtBranch(Handler(r), "done") /\ ~EndsIt(w)
      BY <2>1, <2>2 DEF RunInHands, HandlerBefore, Idle, EndsIt
    <2>4. ~EndsIt(Boot(r))
      BY <2>1, <2>3 DEF OwnerInv, BootFirst, EndsIt
    <2>5. ~Live(mem[r])
      BY <2>1, <2>2, <2>3, <2>4 DEF RunInHands, Owned, AtBranch, EndsIt, HandlerDecides, AudioPlaces
    <2>6. Known(mem[r])
      BY <2>1, <2>3 DEF Inv, QuietUntilStored, Opens
    <2> QED BY <2>1, <2>2, <2>5, <2>6 DEF Known, Live, Terminal, RunRec, Statuses
  <1> QED
    BY <1>1, WritesInTurn, OwnedRuns, PTL

---------------------------------------------------------------------------
(* Memory and database.  What a thread still has to write.                 *)

\* What a shape says of the writes that are left.
Holds(s, do) == \E i \in 1 .. Len(s) : s[i].do = do
Begins0(s, do) == s # <<>> /\ s[1].do = do

\* What is still to come of a call, by the shape of the script.
LEMMA ShapeSays ==
  ASSUME NEW s \in Seq(Op)
  PROVE  /\ Shape(s, <<>>) => ~Holds(s, "upsert") /\ ~Holds(s, "session")
         /\ Shape(s, <<"append_row">>) => ~Holds(s, "upsert") /\ ~Holds(s, "session")
         /\ Shape(s, <<"session">>) => Holds(s, "session") /\ ~Holds(s, "upsert")
         /\ Shape(s, <<"copy", "session">>) =>
              Holds(s, "session") /\ ~Holds(s, "upsert") /\ Begins0(s, "copy")
         /\ Shape(s, <<"upsert", "copy", "session">>) => Holds(s, "session") /\ Begins0(s, "upsert")
         /\ Shape(s, <<"copy", "upsert", "copy", "session">>) =>
              Holds(s, "session") /\ Holds(s, "upsert") /\ Begins0(s, "copy")
         /\ Shape(s, <<"put", "copy", "upsert", "copy", "session">>) =>
              Holds(s, "session") /\ Holds(s, "upsert") /\ Begins0(s, "put")
         /\ Shape(s, <<"upsert", "session">>) => Holds(s, "session") /\ Begins0(s, "upsert")
         /\ Shape(s, <<"update_row", "session">>) =>
              Holds(s, "session") /\ ~Holds(s, "upsert") /\ Begins0(s, "update_row")
  <1>1. Len(s) \in Nat /\ Len(<<>>) = 0
    BY LenProperties
  <1>2. Shape(s, <<>>) => ~Holds(s, "upsert") /\ ~Holds(s, "session")
    BY <1>1 DEF Shape, PlainCalls, Holds
  <1>3. Shape(s, <<"append_row">>) => ~Holds(s, "upsert") /\ ~Holds(s, "session")
    BY <1>1 DEF Shape, PlainCalls, Holds
  <1>4. Shape(s, <<"session">>) => Holds(s, "session") /\ ~Holds(s, "upsert")
    BY <1>1 DEF Shape, PlainCalls, Holds
  <1>5. Shape(s, <<"copy", "session">>) => Holds(s, "session") /\ ~Holds(s, "upsert") /\ Begins0(s, "copy")
    BY <1>1 DEF Shape, PlainCalls, Holds, Begins0
  <1>6. Shape(s, <<"upsert", "copy", "session">>) => Holds(s, "session") /\ Begins0(s, "upsert")
    BY <1>1 DEF Shape, Holds, Begins0
  <1>7. Shape(s, <<"copy", "upsert", "copy", "session">>) =>
           Holds(s, "session") /\ Holds(s, "upsert") /\ Begins0(s, "copy")
    BY <1>1 DEF Shape, Holds, Begins0
  <1>8. Shape(s, <<"put", "copy", "upsert", "copy", "session">>) =>
           Holds(s, "session") /\ Holds(s, "upsert") /\ Begins0(s, "put")
    BY <1>1 DEF Shape, Holds, Begins0
  <1>9. Shape(s, <<"upsert", "session">>) => Holds(s, "session") /\ Begins0(s, "upsert")
    BY <1>1 DEF Shape, Holds, Begins0
  <1>10. Shape(s, <<"update_row", "session">>) =>
            Holds(s, "session") /\ ~Holds(s, "upsert") /\ Begins0(s, "update_row")
    BY <1>1 DEF Shape, PlainCalls, Holds, Begins0
  <1> QED
    BY <1>2, <1>3, <1>4, <1>5, <1>6, <1>7, <1>8, <1>9, <1>10

\* The place of its script at which a thread stores a run outside the lock.
LEMMA StorePlaces ==
  ASSUME StorageInv, NEW q \in Procs, q \notin holder
  PROVE  /\ Inserts(q) \/ HasAhead(q, "session") => q = Handler(RunOf(q)) /\ todo[q] # <<>>
         /\ Next0(q, "upsert") => Inserts(q) /\ HasAhead(q, "session")
         /\ Next0(q, "session") => HasAhead(q, "session") /\ ~Inserts(q)
         /\ Inserts(q) => HasAhead(q, "session")
         /\ Inserts(q) => Next0(q, "put") \/ Next0(q, "copy") \/ Next0(q, "upsert")
  <1>1. ThreadsOK /\ ScriptInTurn(q) /\ (q[1] = "handler" => q = Handler(RunOf(q)))
    BY InvFacts, ProcOf DEF ThreadOK
  <1>2. todo[q] \in Seq(Op)
    BY <1>1 DEF ThreadsOK
  <1>3. /\ \A do : Next0(q, do) <=> Begins0(todo[q], do)
        /\ \A do : HasAhead(q, do) <=> Holds(todo[q], do)
        /\ Inserts(q) <=> Holds(todo[q], "upsert")
        /\ \A do : Begins0(todo[q], do) => Holds(todo[q], do)
        /\ \A do : Holds(todo[q], do) => todo[q] # <<>>
    BY <1>2, EmptySeq DEF Next0, Head0, HasAhead, Inserts, Holds, Begins0
  <1>4. CASE Shape(todo[q], <<>>)
    BY <1>2, <1>3, <1>4, ShapeSays
  <1>5. CASE q[1] = "handler" /\ \E s \in StoreWrites : Shape(todo[q], s)
    <2>1. PICK s \in StoreWrites : Shape(todo[q], s)
      BY <1>5
    <2>2. q = Handler(RunOf(q))
      BY <1>1, <1>5
    <2>3. \A a, b : Begins0(todo[q], a) /\ Begins0(todo[q], b) => a = b
      BY DEF Begins0
    <2>4. CASE s = <<"session">>
      BY <1>2, <1>3, <2>1, <2>2, <2>4, ShapeSays
    <2>5. CASE s = <<"copy", "session">>
      BY <1>2, <1>3, <2>1, <2>2, <2>3, <2>5, ShapeSays
    <2>6. CASE s = <<"upsert", "copy", "session">>
      BY <1>2, <1>3, <2>1, <2>2, <2>3, <2>6, ShapeSays
    <2>7. CASE s = <<"copy", "upsert", "copy", "session">>
      BY <1>2, <1>3, <2>1, <2>2, <2>3, <2>7, ShapeSays
    <2>8. CASE s = <<"put", "copy", "upsert", "copy", "session">>
      BY <1>2, <1>3, <2>1, <2>2, <2>3, <2>8, ShapeSays
    <2> QED BY <2>1, <2>4, <2>5, <2>6, <2>7, <2>8 DEF StoreWrites
  <1> QED
    BY <1>1, <1>4, <1>5 DEF ScriptInTurn

\* While an audio run is being stored outside the lock, only cancel requests
\* of the same run make calls; a text run has nobody else.
LEMMA StoredAlone ==
  ASSUME StorageInv, OwnerInv, NEW p \in Procs, NEW q \in Procs \ {p}, RunOf(p) = RunOf(q),
         todo[p] # <<>>, q \notin holder, HasAhead(q, "session")
  PROVE  /\ q = Handler(RunOf(q)) /\ p = Canceller(RunOf(q)) /\ RunOf(q) \in AudioRuns
  <1> DEFINE r == RunOf(q)
  <1>1. /\ r \in Runs /\ q = Handler(r) /\ todo[q] # <<>>
        /\ p \in {Handler(r), Worker(r), Canceller(r), Boot(r)}
    BY StorePlaces, ProcOf
  <1>2. /\ q[1] # "boot" /\ Boot(r)[1] = "boot" /\ HandlerBefore(r) /\ CancelOnly(r)
    BY <1>1, RolesOf DEF OwnerInv, RunInHands
  <1>3. Idle(Worker(r)) /\ up = "up"
    BY <1>1, <1>2 DEF HandlerBefore, AtBranch, OwnerInv, BootFirst, Idle
  <1>4. p # Worker(r) /\ p # Boot(r)
    BY <1>2, <1>3 DEF Idle, OwnerInv, BootFirst
  <1> QED
    BY <1>1, <1>2, <1>4 DEF CancelOnly

\* A cancel request leaves a record as it is or cancels it.
LEMMA CancelEffect ==
  ASSUME StorageInv, OwnerInv, NEW p \in Procs, Perform(p), ~DatabaseFault(p),
         p = Canceller(RunOf(p))
  PROVE  mem'[RunOf(p)] \in {mem[RunOf(p)], CancelledRecord}
  <1> DEFINE r == RunOf(p)
  <1>1. /\ r \in Runs /\ ThreadsOK /\ StateTypeOK /\ Handler(r) # p /\ RunInHands(r)
        /\ todo[p] \in Seq(Op)
    BY InvFacts, RolesOf DEF OwnerInv, ThreadsOK
  <1>2. \/ SetRunStatus(p) \/ mem' = mem
    BY <1>1, CallRecords
  <1>3. CASE SetRunStatus(p)
    <2>1. todo[p] # <<>> /\ todo[p][1].do = "status"
      BY <1>3 DEF SetRunStatus, Next0, Head0
    <2>2. 1 \in 1 .. Len(todo[p])
      BY <1>1, <2>1, EmptySeq
    <2>3. Head0(p).rec = CancelledRecord
      BY <1>1, <2>1, <2>2 DEF RunInHands, CancelOnly, Head0
    <2>4. CancelledRecord = [status |-> "cancelled", summary |-> "outcome", pending |-> FALSE]
      BY DEF CancelledRecord, Record
    <2>5. /\ CancelledRecord.status = "cancelled" /\ CancelledRecord.pending = FALSE
          /\ [CancelledRecord EXCEPT !.pending = FALSE] = CancelledRecord
      <3>1. CancelledRecord \in RunRec
        BY RecordTypes DEF CancelledRecord, Statuses, TerminalStatuses, Summaries
      <3>2. CancelledRecord.status = "cancelled" /\ CancelledRecord.pending = FALSE
        BY <2>4
      <3>3. \A x \in RunRec : x.pending = FALSE => [x EXCEPT !.pending = FALSE] = x
        BY DEF RunRec
      <3> QED BY <3>1, <3>2, <3>3
    <2>6. mem'[r] = CancelledRecord
      <3>1. mem'[r] = [CancelledRecord EXCEPT !.pending =
                         CancelledRecord.pending
                         \/ (CancelledRecord.status = "blocked" /\ ~CancelledRecord.pending /\ mem[r].pending)]
        BY <1>1, <1>3, <2>3 DEF SetRunStatus, StatusInMemory, StateTypeOK
      <3>2. (CancelledRecord.pending
              \/ (CancelledRecord.status = "blocked" /\ ~CancelledRecord.pending /\ mem[r].pending)) = FALSE
        BY <2>5
      <3> QED BY <2>5, <3>1, <3>2
    <2> QED BY <2>6
  <1> QED
    BY <1>2, <1>3

\* Where calls leave the threads that write.
LEMMA WritersAfter ==
  ASSUME StorageInv, NEW p \in Procs, PerformStep(p), ~DatabaseFault(p)
  PROVE  /\ \A q \in Procs \ {p} : q \in holder' <=> q \in holder
         /\ PutRun(p) => Inserts(p)' /\ HasAhead(p, "session")'
         /\ Inserts(p) => PutRun(p) \/ ReadRecord(p) \/ UpsertRow(p)
         /\ ReadRecord(p) /\ Inserts(p) => Inserts(p)'
         /\ UpdateMeta(p) \/ SetRunStatus(p) =>
              HasAhead(p, "session")' /\ (Next0(p, "upsert")' \/ Next0(p, "update_row")')
         /\ ~UpdateSession(p) /\ HasAhead(p, "session") => HasAhead(p, "session")'
         /\ UpdateSession(p) => p \notin holder' /\ ~HasAhead(p, "session")'
         /\ p \notin holder' /\ ~PutRun(p) /\ HasAhead(p, "session")' =>
              p \notin holder /\ HasAhead(p, "session") /\ (ReadRecord(p) \/ UpsertRow(p))
         /\ p \notin holder' /\ (Next0(p, "upsert")' \/ Next0(p, "session")') => ReadRecord(p)

  <1> DEFINE s == todo[p]
             t == todo'[p]
  <1>1. /\ Perform(p) /\ ThreadsOK /\ ThreadsOK' /\ ScriptInTurn(p)
        /\ s \in Seq(Op) /\ t \in Seq(Op)
    <2>1. Perform(p) /\ ThreadsOK /\ ScriptInTurn(p)
      BY InvFacts DEF PerformStep, ThreadOK
    <2>2. ThreadsOK'
      BY <2>1, PerformScripts
    <2> QED BY <2>1, <2>2 DEF ThreadsOK
  <1>2. /\ \A do : Next0(p, do) <=> Begins0(s, do)
        /\ \A do : HasAhead(p, do) <=> Holds(s, do)
        /\ Inserts(p) <=> p \notin holder /\ Holds(s, "upsert")
    BY DEF Next0, Head0, HasAhead, Inserts, Holds, Begins0
  <1>3. /\ HasAhead(p, "session")' <=> Holds(t, "session")
        /\ Inserts(p)' <=> p \notin holder' /\ Holds(t, "upsert")
        /\ Next0(p, "upsert")' <=> Begins0(t, "upsert")
        /\ Next0(p, "session")' <=> Begins0(t, "session")
        /\ Next0(p, "update_row")' <=> Begins0(t, "update_row")
    BY DEF Next0, Head0, HasAhead, Inserts, Holds, Begins0
  <1>4. /\ \A do : Begins0(t, do) => Holds(t, do)
        /\ \A a, b : Begins0(t, a) /\ Begins0(t, b) => a = b
        /\ \A a, b : Begins0(s, a) /\ Begins0(s, b) => a = b
    BY <1>1, EmptySeq DEF Begins0, Holds
  <1> HIDE DEF s, t
  <1>5. \A q \in Procs \ {p} : q \in holder' <=> q \in holder
    BY <1>1, InvFacts, CallEffect
  <1>6. CASE PutRun(p)
    <2>1. p \notin holder /\ holder' = holder
      BY <1>1, <1>6, StepShape DEF PutRun
    <2>2. Shape(t, <<"copy", "upsert", "copy", "session">>)
      BY <1>1, <1>6, ShapeAfter DEF t
    <2>3. ~SetRunStatus(p) /\ ~UpdateMeta(p) /\ ~ReadRecord(p) /\ ~UpdateSession(p)
      BY <1>6 DEF PutRun, SetRunStatus, UpdateMeta, ReadRecord, UpdateSession, Next0
    <2> QED BY <1>1, <1>2, <1>3, <1>4, <1>5, <1>6, <2>1, <2>2, <2>3, ShapeSays
  <1>7. CASE ReadRecord(p)
    <2>1. p \notin holder /\ holder' = holder
      BY <1>1, <1>7, StepShape DEF ReadRecord
    <2>2. /\ Shape(s, <<"copy", "upsert", "copy", "session">>) \/ Shape(s, <<"copy", "session">>)
          /\ Shape(t, <<"upsert", "copy", "session">>) \/ Shape(t, <<"session">>)
      BY <1>1, <1>7, StepShape, ShapeAfter DEF ReadRecord, s, t
    <2>3. ~SetRunStatus(p) /\ ~UpdateMeta(p) /\ ~PutRun(p) /\ ~UpdateSession(p)
      BY <1>7 DEF PutRun, SetRunStatus, UpdateMeta, ReadRecord, UpdateSession, Next0
    <2>4. HasAhead(p, "upsert") => HasAhead(p, "upsert")'
      BY <1>1, <1>7, StillToCome DEF ReadRecord, Next0
    <2>5. Inserts(p) => Inserts(p)'
      BY <2>1, <2>4 DEF Inserts, HasAhead
    <2> QED BY <1>1, <1>2, <1>3, <1>5, <1>7, <2>1, <2>2, <2>3, <2>5, ShapeSays
  <1>8. CASE UpdateMeta(p)
    <2>1. p \notin holder /\ holder' = {p} /\ Shape(s, <<>>)
      BY <1>1, <1>8, StepShape DEF UpdateMeta, PlainCalls, s
    <2>2. Shape(t, <<"upsert", "session">>)
      BY <1>1, <1>8, ShapeAfter DEF t
    <2>3. ~ReadRecord(p) /\ ~PutRun(p) /\ ~UpdateSession(p)
      BY <1>8 DEF PutRun, UpdateMeta, ReadRecord, UpdateSession, Next0
    <2> QED BY <1>1, <1>2, <1>3, <1>5, <1>8, <2>1, <2>2, <2>3, ShapeSays
  <1>9. CASE SetRunStatus(p)
    <2>1. p \notin holder /\ holder' = {p} /\ Shape(s, <<>>)
      BY <1>1, <1>9, StepShape DEF SetRunStatus, PlainCalls, s
    <2>2. Shape(t, <<"update_row", "session">>)
      BY <1>1, <1>9, ShapeAfter DEF t
    <2>3. ~ReadRecord(p) /\ ~PutRun(p) /\ ~UpdateSession(p)
      BY <1>9 DEF PutRun, SetRunStatus, ReadRecord, UpdateSession, Next0
    <2> QED BY <1>1, <1>2, <1>3, <1>5, <1>9, <2>1, <2>2, <2>3, ShapeSays
  <1>10. CASE AppendEvent(p)
    <2>1. p \notin holder /\ holder' = {p} /\ Shape(s, <<>>)
      BY <1>1, <1>10, StepShape DEF AppendEvent, PlainCalls, s
    <2>2. ~ReadRecord(p) /\ ~PutRun(p) /\ ~UpdateSession(p) /\ ~SetRunStatus(p) /\ ~UpdateMeta(p)
      BY <1>10 DEF PutRun, AppendEvent, ReadRecord, UpdateSession, SetRunStatus, UpdateMeta, Next0
    <2> QED BY <1>1, <1>2, <1>3, <1>5, <1>10, <2>1, <2>2, ShapeSays
  <1>11. CASE UpsertRow(p)
    <2>1. /\ holder' = holder
          /\ IF p \in holder THEN Shape(t, <<"session">>) ELSE Shape(t, <<"copy", "session">>)
          /\ p \notin holder => Shape(s, <<"upsert", "copy", "session">>)
      BY <1>1, <1>11, StepShape, ShapeAfter DEF UpsertRow, s, t
    <2>2. ~ReadRecord(p) /\ ~PutRun(p) /\ ~UpdateSession(p) /\ ~SetRunStatus(p) /\ ~UpdateMeta(p)
      BY <1>11 DEF PutRun, UpsertRow, ReadRecord, UpdateSession, SetRunStatus, UpdateMeta, Next0
    <2> QED BY <1>1, <1>2, <1>3, <1>4, <1>5, <1>11, <2>1, <2>2, ShapeSays
  <1>12. CASE UpdateRow(p)
    <2>1. p \in holder /\ holder' = holder /\ Shape(t, <<"session">>)
      BY <1>1, <1>12, StepShape, ShapeAfter DEF UpdateRow, t
    <2>2. ~ReadRecord(p) /\ ~PutRun(p) /\ ~UpdateSession(p) /\ ~SetRunStatus(p) /\ ~UpdateMeta(p)
      BY <1>12 DEF PutRun, UpdateRow, ReadRecord, UpdateSession, SetRunStatus, UpdateMeta, Next0
    <2> QED BY <1>1, <1>2, <1>3, <1>5, <1>12, <2>1, <2>2, ShapeSays
  <1>13. CASE UpdateSession(p)
    <2>1. p \notin holder' /\ Shape(s, <<"session">>) /\ Shape(t, <<>>)
      BY <1>1, <1>13, StepShape, ShapeAfter DEF UpdateSession, Release, s, t
    <2>2. ~ReadRecord(p) /\ ~PutRun(p) /\ ~SetRunStatus(p) /\ ~UpdateMeta(p)
      BY <1>13 DEF PutRun, ReadRecord, UpdateSession, SetRunStatus, UpdateMeta, Next0
    <2> QED BY <1>1, <1>2, <1>3, <1>4, <1>5, <1>13, <2>1, <2>2, ShapeSays
  <1>14. CASE AppendRow(p)
    <2>1. p \in holder /\ p \notin holder' /\ Shape(s, <<"append_row">>) /\ Shape(t, <<>>)
      BY <1>1, <1>14, StepShape, ShapeAfter DEF AppendRow, Release, s, t
    <2>2. ~ReadRecord(p) /\ ~PutRun(p) /\ ~UpdateSession(p) /\ ~SetRunStatus(p) /\ ~UpdateMeta(p)
      BY <1>14 DEF PutRun, AppendRow, ReadRecord, UpdateSession, SetRunStatus, UpdateMeta, Next0
    <2> QED BY <1>1, <1>2, <1>3, <1>4, <1>5, <1>14, <2>1, <2>2, ShapeSays
  <1> QED
    BY <1>1, <1>6, <1>7, <1>8, <1>9, <1>10, <1>11, <1>12, <1>13, <1>14 DEF Perform

\* What is about to be stored stays recent.
LEMMA RecentCalls ==
  ASSUME StorageInv, OwnerInv, \A q \in Procs : StoreIsRecent(q),
         NEW p \in Procs, PerformStep(p), ~DatabaseFault(p), NEW q \in Procs
  PROVE  StoreIsRecent(q)'
  <1> DEFINE r == RunOf(p)
  <1> SUFFICES ASSUME q \notin holder' PROVE StoreIsRecent(q)'
    BY DEF StoreIsRecent
  <1>1. /\ Perform(p) /\ r \in Runs /\ ThreadsOK /\ StateTypeOK /\ ThreadOK(p) /\ Inv
        /\ TextRuns \cap AudioRuns = {} /\ todo[p] # <<>>
    BY InvFacts, KindAssumption, CallFrame DEF PerformStep
  <1>2. CASE q = p
    <2>1. HasAhead(p, "session")' /\ ~Next0(p, "put")' /\ r \in AudioRuns =>
             Live(mem'[r]) \/ mem'[r] = CancelledRecord
      <3>1. CASE PutRun(p)
        <4>1. mem'[r] = Head0(p).rec /\ Next0(p, "put")
          BY <1>1, <3>1 DEF PutRun, StateTypeOK
        <4>2. Head0(p).rec.status \in {"running", "rejected"}
          BY <1>1, <3>1, CallerKnown DEF Opens
        <4>3. r \in AudioRuns => Head0(p).rec.status # "rejected"
          BY <1>1, <4>1 DEF ThreadOK, MetaIsAudio
        <4> QED BY <4>1, <4>2, <4>3 DEF Live
      <3>2. CASE ~PutRun(p) /\ HasAhead(p, "session")'
        <4>1. p \notin holder /\ HasAhead(p, "session") /\ (ReadRecord(p) \/ UpsertRow(p))
          BY <1>2, <3>2, WritersAfter
        <4>2. ~Next0(p, "put") /\ mem' = mem
          BY <4>1 DEF ReadRecord, UpsertRow, WriteDone, memVars, Next0
        <4> QED BY <4>1, <4>2 DEF StoreIsRecent
      <3> QED BY <3>1, <3>2
    <2>2. Next0(p, "upsert")' \/ Next0(p, "session")' => SaysWhatMemorySays(r, copy[p])'
      <3>1. SUFFICES ASSUME ReadRecord(p) PROVE SaysWhatMemorySays(r, copy[p])'
        BY <1>2, WritersAfter
      <3>2. copy'[p] = mem'[r]
        BY <1>1, <3>1 DEF ReadRecord, memVars, StateTypeOK
      <3> QED BY <3>2 DEF SaysWhatMemorySays
    <2> QED BY <1>2, <2>1, <2>2 DEF StoreIsRecent
  <1>3. CASE q # p
    <2>1. todo'[q] = todo[q] /\ copy'[q] = copy[q] /\ q \notin holder
      BY <1>3, CallFrame, WritersAfter
    <2>2. CASE RunOf(q) # r
      <3>1. mem'[RunOf(q)] = mem[RunOf(q)]
        BY <2>2, CallFrame, ProcOf
      <3> QED BY <2>1, <3>1 DEF StoreIsRecent, HasAhead, Next0, Head0, SaysWhatMemorySays, CancelledEarly
    <2>3. CASE ~HasAhead(q, "session")
      BY <2>1, <2>3, StorePlaces DEF StoreIsRecent, HasAhead, Next0, Head0
    <2>4. CASE RunOf(q) = r /\ HasAhead(q, "session")
      <3>1. r \in AudioRuns /\ mem'[r] \in {mem[r], CancelledRecord}
        BY <1>1, <1>3, <2>1, <2>4, StoredAlone, CancelEffect
      <3>2. CancelledRecord.status = "cancelled"
        BY DEF CancelledRecord, Record
      <3>3. CASE Next0(q, "put")
        BY <2>1, <3>3 DEF StoreIsRecent, Next0, Head0
      <3>4. CASE ~Next0(q, "put")
        <4>1. Live(mem[r]) \/ mem[r] = CancelledRecord
          BY <2>1, <2>4, <3>1, <3>4 DEF StoreIsRecent
        <4>2. Live(mem'[r]) \/ mem'[r] = CancelledRecord
          BY <3>1, <4>1
        <4>3. Next0(q, "upsert") \/ Next0(q, "session") => SaysWhatMemorySays(r, copy[q])'
          BY <2>1, <2>4, <3>1, <3>2, <4>1
             DEF StoreIsRecent, SaysWhatMemorySays, CancelledEarly, Live
        <4> QED BY <2>1, <2>4, <4>2, <4>3 DEF StoreIsRecent, Next0, Head0
      <3> QED BY <3>3, <3>4
    <2> QED BY <2>2, <2>3, <2>4
  <1> QED
    BY <1>2, <1>3

\* The row is behind memory only while its next write is to come.
LEMMA RowAgreesCalls ==
  ASSUME StorageInv, \A q \in Procs : StoreIsRecent(q),
         NEW p \in Procs, PerformStep(p), ~DatabaseFault(p),
         NEW x \in Runs, RowAgrees(x), RowExists(x)
  PROVE  RowAgrees(x)' /\ RowExists(x)'
  <1> DEFINE r == RunOf(p)
             Pending0(q) == Inserts(q) \/ Next0(q, "upsert") \/ Next0(q, "update_row")
  <1>1. /\ Perform(p) /\ r \in Runs /\ ThreadsOK /\ StateTypeOK /\ ThreadOK(p) /\ Inv
    BY InvFacts DEF PerformStep
  <1>2. \A q \in Procs \ {p} : /\ Inserts(q)' <=> Inserts(q)
                               /\ Next0(q, "upsert")' <=> Next0(q, "upsert")
                               /\ Next0(q, "update_row")' <=> Next0(q, "update_row")
    BY CallFrame, WritersAfter DEF Inserts, Next0, Head0
  <1>3. CASE x # r
    <2>1. mem'[x] = mem[x] /\ row'[x] = row[x]
      BY <1>3, CallFrame
    <2>2. \A q \in Procs : RunOf(q) = x => q \in Procs \ {p}
      BY <1>3
    <2> QED BY <1>2, <2>1, <2>2 DEF RowAgrees, RowExists, SaysWhatMemorySays, CancelledEarly
  <1>4. CASE x = r
    <2>1. CASE PutRun(p)
      <3>1. Inserts(p)'
        BY <2>1, WritersAfter
      <3> QED BY <1>4, <3>1 DEF RowAgrees, RowExists
    <2>2. CASE UpdateMeta(p) \/ SetRunStatus(p)
      <3>1. Next0(p, "upsert")' \/ Next0(p, "update_row")'
        BY <2>2, WritersAfter
      <3>2. row' = row /\ Known(mem[r]) /\ ~Inserts(p)
        <4>1. ~PutRun(p) /\ ~ReadRecord(p) /\ ~UpsertRow(p) /\ row' = row
          BY <2>2 DEF UpdateMeta, SetRunStatus, PutRun, ReadRecord, UpsertRow, dbVars, Next0
        <4> QED BY <1>1, <4>1, CallerKnown, WritersAfter
      <3> QED BY <1>2, <1>4, <3>1, <3>2 DEF RowAgrees, RowExists
    <2>3. CASE UpsertRow(p)
      <3>1. /\ Next0(p, "upsert") /\ row'[r] = copy[p] /\ mem' = mem
        BY <1>1, <2>3 DEF UpsertRow, WriteDone, memVars, StateTypeOK
      <3>2. SaysWhatMemorySays(r, copy[p])
        BY <1>1, <3>1 DEF StoreIsRecent, ThreadOK, WritesMemory, WritesRecord, SaysWhatMemorySays
      <3>3. Known(mem[r])
        BY <1>1, <2>3, CallerKnown DEF PutRun, UpsertRow, Next0
      <3>4. Known(copy[p])
        BY <3>2, <3>3 DEF SaysWhatMemorySays, CancelledEarly, Known, Live
      <3> QED BY <1>4, <3>1, <3>2, <3>4 DEF RowAgrees, RowExists, SaysWhatMemorySays, CancelledEarly
    <2>4. CASE UpdateRow(p)
      <3>1. /\ Next0(p, "update_row") /\ mem' = mem /\ p \in holder
            /\ row'[r] = IF Known(row[r]) THEN copy[p] ELSE row[r]
        BY <1>1, <2>4, StepShape DEF UpdateRow, WriteDone, memVars, StateTypeOK, ThreadOK
      <3>2. copy[p] = mem[r]
        BY <1>1, <3>1 DEF ThreadOK, WritesMemory, WritesRecord
      <3>3. CASE Known(row[r])
        BY <1>4, <3>1, <3>2, <3>3 DEF RowAgrees, RowExists, SaysWhatMemorySays
      <3>4. CASE ~Known(row[r])
        <4>1. ~Inserts(p)
          BY <3>1 DEF Inserts
        <4> QED BY <1>2, <1>4, <3>1, <3>4, <4>1 DEF RowAgrees, RowExists
      <3> QED BY <3>3, <3>4
    <2>5. CASE ReadRecord(p)
      <3>1. mem' = mem /\ row' = row /\ Next0(p, "copy")
        BY <2>5 DEF ReadRecord, memVars, dbVars
      <3>2. Pending0(p) => Inserts(p)'
        BY <2>5, <3>1, WritersAfter DEF Next0
      <3> QED BY <1>2, <1>4, <3>1, <3>2 DEF RowAgrees, RowExists, SaysWhatMemorySays, CancelledEarly
    <2>6. CASE AppendEvent(p) \/ UpdateSession(p) \/ AppendRow(p)
      <3>1. mem' = mem /\ row' = row
        BY <2>6 DEF AppendEvent, UpdateSession, AppendRow, WriteDone, memVars, dbVars
      <3>2. ~Pending0(p)
        BY <2>6, WritersAfter DEF AppendEvent, UpdateSession, AppendRow, PutRun, ReadRecord, UpsertRow, Next0
      <3> QED BY <1>2, <1>4, <3>1, <3>2 DEF RowAgrees, RowExists, SaysWhatMemorySays, CancelledEarly
    <2> QED BY <1>1, <2>1, <2>2, <2>3, <2>4, <2>5, <2>6 DEF Perform
  <1> QED
    BY <1>3, <1>4

\* Events are numbered from 0, and the next one gets the next number.
LEMMA NumberedLog ==
  ASSUME NEW es \in Seq(Event), Numbered(es), NEW t \in EventTypes
  PROVE  LET e == [seq |-> NextSeq(es), type |-> t] IN
         /\ e \in Event
         /\ Numbered(Append(es, e))
         /\ Append(es, e)[Len(Append(es, e))] = e
  <1> DEFINE n == NextSeq(es)
             e == [seq |-> n, type |-> t]
  <1>1. Len(es) \in Nat
    BY LenProperties
  <1>2. n = Len(es)
    <2>1. CASE es = <<>>
      BY <2>1 DEF NextSeq
    <2>2. CASE es # <<>>
      <3>1. Len(es) \in 1 .. Len(es)
        BY <1>1, <2>2, EmptySeq
      <3>2. es[Len(es)].seq = Len(es) - 1
        BY <3>1 DEF Numbered
      <3> QED BY <1>1, <2>2, <3>2 DEF NextSeq
    <2> QED BY <2>1, <2>2
  <1> HIDE DEF n
  <1>3. e \in Event /\ e.seq = Len(es)
    BY <1>1, <1>2 DEF Event
  <1> HIDE DEF e
  <1>4. /\ Len(Append(es, e)) = Len(es) + 1
        /\ \A i \in 1 .. Len(es) : Append(es, e)[i] = es[i]
        /\ Append(es, e)[Len(es) + 1] = e
    BY <1>3, AppendProperties
  <1>5. Numbered(Append(es, e))
    <2>1. ASSUME NEW i \in 1 .. Len(es) + 1 PROVE Append(es, e)[i].seq = i - 1
      <3>1. CASE i = Len(es) + 1
        BY <1>1, <1>3, <1>4, <3>1
      <3>2. CASE i \in 1 .. Len(es)
        BY <1>4, <3>2 DEF Numbered
      <3> QED BY <1>1, <2>1, <3>1, <3>2
    <2> QED BY <1>4, <2>1 DEF Numbered
  <1>6. Append(es, e)[Len(Append(es, e))] = e
    BY <1>4
  <1> QED
    BY <1>3, <1>5, <1>6 DEF e, n

\* Memory's log is one event ahead exactly while that event is inserted.
LEMMA LogCalls ==
  ASSUME StorageInv, NEW p \in Procs, PerformStep(p), ~DatabaseFault(p),
         NEW x \in Runs, LogsAgree(x)
  PROVE  LogsAgree(x)'
  <1> DEFINE r == RunOf(p)
  <1>1. /\ Perform(p) /\ r \in Runs /\ ThreadsOK /\ ThreadsOK' /\ StateTypeOK /\ ScriptInTurn(p) /\ Inv
        /\ \A a, b \in holder : a = b
        /\ \A y \in Runs : events[y] \in Seq(Event) /\ rowEvents[y] \in Seq(Event)
        /\ holder \subseteq Procs
    <2>1. Perform(p) /\ ThreadsOK
      BY InvFacts DEF PerformStep
    <2> QED BY <2>1, InvFacts, PerformScripts DEF ThreadOK, StateTypeOK
  <1>2. SUFFICES ASSUME OwnLog(x) PROVE LogsAgree(x)'
    BY CallFrame DEF LogsAgree, OwnLog
  <1>3. /\ Numbered(rowEvents[x])
        /\ Known(mem[x]) => /\ Numbered(events[x])
                            /\ events[x] = IF InsertsEvent(x) THEN Append(rowEvents[x], StoredEvent(x))
                                           ELSE rowEvents[x]
        /\ Next0(Handler(x), "put") => rowEvents[x] = <<>>
    BY <1>2 DEF LogsAgree
  <1>4. /\ Handler(x) \in Procs /\ RunOf(Handler(x)) = x
        /\ Next0(Handler(x), "put")' => Handler(x) # p /\ Next0(Handler(x), "put")
    BY <1>1, RolesOf, StoredNow, CallFrame DEF Next0, Head0
  <1>5. CASE PutRun(p) /\ x = r
    <2>1. p = Handler(r) /\ Next0(p, "put")
      BY <1>1, <1>5, StepShape, ProcOf DEF PutRun
    <2>2. rowEvents[r] = <<>> /\ rowEvents' = rowEvents /\ events'[r] = <<>>
      BY <1>1, <1>3, <1>5, <2>1 DEF PutRun, dbVars, StateTypeOK
    <2>3. ~InsertsEvent(x)'
      BY <1>5 DEF PutRun, LockFree, InsertsEvent
    <2>4. ~Next0(Handler(x), "put")'
      BY <1>4, <1>5, <2>1
    <2> QED BY <1>3, <1>5, <2>2, <2>3, <2>4 DEF LogsAgree
  <1>6. CASE AppendEvent(p) /\ x = r
    <2> DEFINE new == [seq |-> NextSeq(events[r]), type |-> Head0(p).event]
    <2>1. /\ holder = {} /\ holder' = {p} /\ rowEvents' = rowEvents /\ mem' = mem
          /\ events'[r] = Append(events[r], new)
      BY <1>1, <1>6 DEF AppendEvent, LockFree, dbVars, StateTypeOK
    <2>2. Known(mem[r])
      BY <1>1, <1>6, CallerKnown DEF AppendEvent, PutRun, Next0
    <2>3. events[r] = rowEvents[r] /\ Numbered(events[r])
      BY <1>3, <1>6, <2>1, <2>2 DEF InsertsEvent
    <2>4. Head0(p).event \in EventTypes
      <3>1. Head0(p) \in Op
        BY <1>1, <1>6, NextCall DEF AppendEvent, Next0
      <3> QED BY <3>1 DEF Op
    <2>5. Numbered(events'[r]) /\ events'[r] = Append(rowEvents[r], events'[r][Len(events'[r])])
      BY <1>1, <2>1, <2>3, <2>4, NumberedLog
    <2>6. InsertsEvent(x)'
      <3>1. Next0(p, "append_row")'
        <4>1. Shape(todo'[p], <<"append_row">>) /\ todo'[p] \in Seq(Op)
          BY <1>1, <1>6, ShapeAfter DEF ThreadsOK
        <4>2. Len(todo'[p]) >= 1 /\ todo'[p][1].do = "append_row"
          BY <4>1 DEF Shape
        <4> QED BY <4>1, <4>2 DEF Next0, Head0
      <3> QED BY <1>6, <2>1, <3>1 DEF InsertsEvent
    <2> QED BY <1>3, <1>4, <1>6, <2>1, <2>5, <2>6 DEF LogsAgree, StoredEvent
  <1>7. CASE AppendRow(p) /\ x = r
    <2>1. /\ p \in holder /\ holder' = {} /\ Next0(p, "append_row") /\ mem' = mem /\ events' = events
          /\ rowEvents'[r] = Append(rowEvents[r], StoredEvent(r))
      BY <1>1, <1>7, StepShape DEF AppendRow, Release, WriteDone, memVars, StateTypeOK
    <2>2. Known(mem[r])
      BY <1>1, <1>7, CallerKnown DEF AppendRow, PutRun, Next0
    <2>3. InsertsEvent(x) /\ ~InsertsEvent(x)'
      BY <1>7, <2>1 DEF InsertsEvent
    <2>4. events[r] = Append(rowEvents[r], StoredEvent(r)) /\ Numbered(events[r])
      BY <1>3, <1>7, <2>2, <2>3
    <2>5. ~Next0(Handler(x), "put")'
      <3>1. SUFFICES ASSUME Next0(Handler(x), "put") PROVE FALSE
        BY <1>4
      <3>2. Opens(Handler(x))
        BY <1>1, <1>4, <3>1, NextCall DEF Next0
      <3> QED BY <1>1, <1>4, <1>7, <2>2, <3>2 DEF Inv, OpensNew, Unknown
    <2> QED BY <1>7, <2>1, <2>3, <2>4, <2>5 DEF LogsAgree
  <1>8. CASE x # r \/ (~PutRun(p) /\ ~AppendEvent(p) /\ ~AppendRow(p))
    <2>1. /\ events'[x] = events[x] /\ rowEvents'[x] = rowEvents[x]
          /\ Known(mem'[x]) => Known(mem[x])
      <3>1. CASE x # r
        BY <1>1, <3>1, CallEffect
      <3>2. CASE ~PutRun(p) /\ ~AppendEvent(p) /\ ~AppendRow(p) /\ x = r
        BY <1>1, <3>2, CallEffect, CallerKnown
      <3> QED BY <1>8, <3>1, <3>2
    <2>2. InsertsEvent(x)' <=> InsertsEvent(x)
      <3>1. \A q \in Procs \ {p} : /\ q \in holder' <=> q \in holder
                                   /\ Next0(q, "append_row")' <=> Next0(q, "append_row")
        BY CallFrame, WritersAfter DEF Next0, Head0
      <3>2. r = x => ~Next0(p, "append_row") /\ ~Next0(p, "append_row")'
        <4>1. SUFFICES ASSUME ~PutRun(p), ~AppendEvent(p), ~AppendRow(p)
                       PROVE ~Next0(p, "append_row") /\ ~Next0(p, "append_row")'
          BY <1>8
        <4>2. ~Next0(p, "append_row")
          BY <1>1, <4>1 DEF Perform, ReadRecord, UpdateMeta, SetRunStatus, UpsertRow, UpdateRow,
             UpdateSession, Next0
        <4>3. ~Appending(p)'
          BY <1>1, <4>1, PerformScripts
        <4>4. todo'[p] \in Seq(SafeOp)
          BY <1>1, <4>3, PerformScripts
        <4>5. todo'[p] # <<>> => todo'[p][1] \in SafeOp
          BY <4>4, EmptySeq
        <4> QED BY <4>2, <4>5 DEF Next0, Head0, SafeOp
      <3>3. holder \subseteq Procs /\ holder' \subseteq Procs
        BY <1>1, CallEffect
      <3> QED BY <3>1, <3>2, <3>3 DEF InsertsEvent
    <2> QED BY <1>3, <1>4, <2>1, <2>2 DEF LogsAgree, StoredEvent
  <1> QED
    BY <1>5, <1>6, <1>7, <1>8

\* What the session shows is the latest write of its latest run.
LEMMA SessionCalls ==
  ASSUME StorageInv, \A q \in Procs : StoreIsRecent(q), SessionAgrees,
         NEW p \in Procs, PerformStep(p), ~DatabaseFault(p)
  PROVE  SessionAgrees'
  <1> DEFINE r == RunOf(p)
  <1>1. /\ Perform(p) /\ r \in Runs /\ ThreadsOK /\ StateTypeOK /\ ThreadOK(p) /\ Inv
    BY InvFacts DEF PerformStep
  <1>2. SUFFICES ASSUME crashes = 0, NEW s \in Sessions, NEW l \in latest'[s]
                 PROVE  /\ SessionOf[l.run] = s /\ Known(mem'[l.run])
                        /\ \/ SaysWhatMemorySays(l.run, l.rec)'
                           \/ \E q \in Procs : RunOf(q) = l.run /\ HasAhead(q, "session")'
    BY CallFrame DEF SessionAgrees
  <1>3. CASE UpdateSession(p) /\ s = SessionOf[r]
    <2>1. l = [run |-> r, rec |-> copy[p]] /\ mem' = mem /\ Next0(p, "session")
      BY <1>1, <1>2, <1>3 DEF UpdateSession, SessionRecord, WriteDone, memVars, StateTypeOK
    <2>2. SaysWhatMemorySays(r, copy[p])
      BY <1>1, <2>1 DEF StoreIsRecent, ThreadOK, WritesMemory, WritesRecord, SaysWhatMemorySays
    <2>3. Known(mem[r])
      BY <1>1, <1>3, CallerKnown DEF UpdateSession, PutRun, Next0
    <2> QED BY <1>3, <2>1, <2>2, <2>3 DEF SaysWhatMemorySays, CancelledEarly
  <1>4. CASE ~(UpdateSession(p) /\ s = SessionOf[r])
    <2>1. l \in latest[s]
      <3>1. CASE UpdateSession(p)
        BY <1>1, <1>2, <1>4, <3>1 DEF UpdateSession, StateTypeOK
      <3>2. CASE ~UpdateSession(p)
        BY <1>1, <1>2, <3>2 DEF Perform, PutRun, ReadRecord, UpdateMeta, SetRunStatus, AppendEvent, UpsertRow,
           UpdateRow, AppendRow, dbVars, DatabaseFault
      <3> QED BY <3>1, <3>2
    <2>2. /\ SessionOf[l.run] = s /\ Known(mem[l.run]) /\ l.run \in Runs
          /\ \/ SaysWhatMemorySays(l.run, l.rec)
             \/ \E q \in Procs : RunOf(q) = l.run /\ HasAhead(q, "session")
      BY <1>1, <1>2, <2>1 DEF SessionAgrees, StateTypeOK
    <2>3. \A q \in Procs \ {p} : HasAhead(q, "session")' <=> HasAhead(q, "session")
      BY CallFrame DEF HasAhead
    <2>4. CASE l.run # r
      <3>1. mem'[l.run] = mem[l.run]
        BY <2>2, <2>4, CallFrame
      <3> QED BY <2>2, <2>3, <2>4, <3>1 DEF SaysWhatMemorySays, CancelledEarly
    <2>5. CASE l.run = r
      <3>1. ~UpdateSession(p) /\ Known(mem'[r])
        BY <1>1, <1>4, <2>2, <2>5, CallRecords
      <3>2. CASE PutRun(p) \/ UpdateMeta(p) \/ SetRunStatus(p)
        BY <2>2, <2>5, <3>1, <3>2, WritersAfter
      <3>3. CASE ~PutRun(p) /\ ~UpdateMeta(p) /\ ~SetRunStatus(p)
        <4>1. mem' = mem /\ (HasAhead(p, "session") => HasAhead(p, "session")')
          BY <1>1, <3>1, <3>3, WritersAfter, CallRecords
        <4> QED BY <2>2, <2>3, <2>5, <3>1, <4>1 DEF SaysWhatMemorySays, CancelledEarly
      <3> QED BY <3>2, <3>3
    <2> QED BY <2>4, <2>5
  <1> QED
    BY <1>3, <1>4

\* All of it.
LEMMA PerformAgreement ==
  ASSUME StorageInv, OwnerInv, AgreementInv, NEW p \in Procs, PerformStep(p), ~DatabaseFault(p)
  PROVE  AgreementInv'
  <1>1. NoLogBefore'
    <2>1. /\ Perform(p) /\ RunOf(p) \in Runs /\ Inv /\ StateTypeOK /\ Known(mem'[RunOf(p)])
      BY InvFacts, CallRecords DEF PerformStep
    <2>2. \A x \in Runs \ {RunOf(p)} : mem'[x] = mem[x] /\ rowEvents'[x] = rowEvents[x]
      BY <2>1, CallEffect
    <2> QED BY <2>1, <2>2, CallFrame DEF AgreementInv, NoLogBefore
  <1> QED
    BY <1>1, RecentCalls, RowAgreesCalls, LogCalls, SessionCalls DEF AgreementInv

---------------------------------------------------------------------------
(* Memory and database.  The other steps.                                  *)

\* A step that touches neither store nor script changes no agreement.
LEMMA QuietAgreement ==
  ASSUME AgreementInv, UNCHANGED <<mem, events, row, rowEvents, latest, holder, copy, todo, crashes>>
  PROVE  AgreementInv'
  <1>1. \A p \in Procs : StoreIsRecent(p)'
    BY DEF AgreementInv, StoreIsRecent, HasAhead, Next0, Head0, SaysWhatMemorySays, CancelledEarly
  <1>2. \A r \in Runs : RowAgrees(r)' /\ RowExists(r)'
    BY DEF AgreementInv, RowAgrees, RowExists, Inserts, Next0, Head0, SaysWhatMemorySays, CancelledEarly
  <1>3. \A r \in Runs : LogsAgree(r)'
    BY DEF AgreementInv, LogsAgree, OwnLog, InsertsEvent, StoredEvent, Next0, Head0
  <1>4. SessionAgrees' /\ NoLogBefore'
    BY DEF AgreementInv, SessionAgrees, NoLogBefore, HasAhead, SaysWhatMemorySays, CancelledEarly
  <1> QED
    BY <1>1, <1>2, <1>3, <1>4 DEF AgreementInv

\* A thread that had nothing to do chooses a script in whose first call no
\* write stands.
LEMMA ChoiceAgreement ==
  ASSUME AgreementInv, holder \subseteq Procs, NEW p \in Procs, todo[p] = <<>>,
         UNCHANGED <<mem, events, row, rowEvents, latest, holder, copy, crashes>>,
         \A q \in Procs \ {p} : todo'[q] = todo[q],
         \A do \in Writes : ~Next0(p, do)',
         HasAhead(p, "session")' => Next0(p, "put")',
         OwnLog(RunOf(p)) /\ Next0(p, "put")' => rowEvents[RunOf(p)] = <<>>
  PROVE  AgreementInv'
  <1>1. /\ \A do : ~Next0(p, do) /\ ~HasAhead(p, do)
        /\ ~Inserts(p)
    BY DEF Next0, HasAhead, Inserts
  <1>2. \A q \in Procs \ {p} : /\ \A do : Next0(q, do)' <=> Next0(q, do)
                               /\ \A do : HasAhead(q, do)' <=> HasAhead(q, do)
                               /\ Inserts(q)' <=> Inserts(q)
    BY DEF Next0, Head0, HasAhead, Inserts
  <1>3. ~Next0(p, "upsert")' /\ ~Next0(p, "update_row")' /\ ~Next0(p, "session")' /\ ~Next0(p, "append_row")'
    BY DEF Writes
  <1>4. \A q \in Procs : StoreIsRecent(q)'
    BY <1>2, <1>3 DEF AgreementInv, StoreIsRecent, SaysWhatMemorySays, CancelledEarly
  <1>5. \A r \in Runs : RowAgrees(r)' /\ RowExists(r)'
    BY <1>1, <1>2 DEF AgreementInv, RowAgrees, RowExists, SaysWhatMemorySays, CancelledEarly
  <1>6. ASSUME NEW r \in Runs PROVE LogsAgree(r)'
    <2>1. InsertsEvent(r)' <=> InsertsEvent(r)
      BY <1>1, <1>2, <1>3 DEF InsertsEvent
    <2>2. Handler(r) \in Procs /\ RunOf(Handler(r)) = r
      BY RolesOf
    <2>3. OwnLog(r) /\ Next0(Handler(r), "put")' => rowEvents[r] = <<>>
      BY <1>2, <2>2 DEF AgreementInv, LogsAgree
    <2> QED BY <2>1, <2>3 DEF AgreementInv, LogsAgree, OwnLog, StoredEvent
  <1>7. SessionAgrees' /\ NoLogBefore'
    BY <1>1, <1>2 DEF AgreementInv, SessionAgrees, NoLogBefore, SaysWhatMemorySays, CancelledEarly
  <1> QED
    BY <1>4, <1>5, <1>6, <1>7 DEF AgreementInv

\* A script of plain calls is such a one.
LEMMA PlainAgreement ==
  ASSUME StorageInv, AgreementInv, ThreadsOK', NEW p \in Procs, Chooses(p),
         UNCHANGED <<mem, events, row, rowEvents, latest, holder, copy, crashes>>
  PROVE  AgreementInv'
  <1>1. ThreadsOK /\ holder \subseteq Procs
    BY InvFacts DEF StateTypeOK
  <1>2. PICK s, l : Continue(p, s, l) /\ todo[p] = <<>> /\ Harmless(p, s)
    BY DEF Chooses
  <1>3. todo'[p] = s /\ (\A q \in Procs \ {p} : todo'[q] = todo[q]) /\ s \in Seq(Op)
    BY <1>1, <1>2 DEF Continue, ThreadsOK
  <1>4. \A do : Next0(p, do)' => do \in PlainCalls
    <2>1. s # <<>> => 1 \in 1 .. Len(s)
      BY <1>3, EmptySeq
    <2> QED BY <1>2, <1>3, <2>1 DEF Harmless, Next0, Head0
  <1>5. ~HasAhead(p, "session")'
    BY <1>2, <1>3 DEF Harmless, HasAhead, PlainCalls
  <1>6. PlainCalls \cap Writes = {} /\ "put" \notin PlainCalls
    BY DEF PlainCalls, Writes
  <1> QED
    BY <1>1, <1>2, <1>3, <1>4, <1>5, <1>6, ChoiceAgreement

\* Requests choose calls; none of them writes yet.
LEMMA SubmitAgreement ==
  ASSUME StorageInv, OwnerInv, AgreementInv, NEW r \in Runs, Submit(r)
  PROVE  AgreementInv'
  <1>1. /\ Submission(r) /\ AudioOnly /\ Inv /\ ThreadsOK /\ holder \subseteq Procs
        /\ Handler(r) \in Procs /\ Canceller(r) \in Procs /\ RunOf(Handler(r)) = r
    BY InvFacts, RolesOf DEF Submit, StorageInv, StateTypeOK
  <1>2. UNCHANGED <<mem, events, row, rowEvents, latest, holder, copy, crashes>>
    BY <1>1, SubmissionTypes DEF Submit, dbVars
  <1>3. CASE Launch(r)
    BY <1>2, <1>3, QuietAgreement DEF Launch
  <1>4. CASE StoresNew(r)
    <2> DEFINE h == Handler(r)
    <2>1. PICK st \in {"running", "rejected"}, sum \in Summaries,
               t \in {<<>>, <<Emit("run.failed")>>, <<Emit("activity")>>}, l \in Labels :
             Continue(h, Store(Record(st, sum)) \o t, l) /\ Idle(h) /\ Unknown(r)
      BY <1>4 DEF StoresNew
    <2> DEFINE s == Store(Record(st, sum)) \o t
    <2>2. s # <<>> /\ s[1].do = "put"
      <3>1. Record(st, sum) \in RunRec
        BY <2>1, RecordTypes DEF Statuses, TerminalStatuses
      <3> QED BY <2>1, <3>1, StoreCalls
    <2>3. todo'[h] = s /\ (\A q \in Procs \ {h} : todo'[q] = todo[q]) /\ todo[h] = <<>>
      BY <1>1, <2>1 DEF Continue, ThreadsOK, Idle
    <2> HIDE DEF s
    <2>4. Next0(h, "put")' /\ \A do \in Writes : ~Next0(h, do)'
      BY <2>2, <2>3 DEF Next0, Head0, Writes
    <2>5. pc[h] = "idle"
      BY <2>1 DEF Idle
    <2>6. OwnLog(r) => rowEvents[r] = <<>>
      <3>1. CASE RejectText(r) \/ AcceptText(r)
        BY <3>1 DEF RejectText, AcceptText
      <3>2. CASE CreateTranscribingRun(r)
        BY <2>1, <3>2, KindAssumption
           DEF CreateTranscribingRun, OwnLog, AgreementInv, NoLogBefore, Unknown
      <3>3. RejectText(r) \/ AcceptText(r) \/ CreateTranscribingRun(r)
        <4>1. h # Canceller(r)
          BY RolesOf
        <4>2. ~CancelRun(r) /\ ~DispatchToAudio(r) /\ ~MarkCancelled(Canceller(r)) /\ ~RequestRaises(Canceller(r))
          <5>1. \A q, x, y : Continue(q, x, y) /\ q # h => todo'[h] = todo[h]
            BY <1>1 DEF Continue, ThreadsOK
          <5>2. todo'[h] # todo[h]
            BY <2>2, <2>3
          <5> QED BY <4>1, <5>1, <5>2 DEF CancelRun, RequestCancel, DispatchToAudio, MarkCancelled,
                     RequestRaises
        <4> QED BY <1>1, <2>2, <2>3, <2>5, <4>2 DEF Submission, Launch, LaunchFails, ReadUpload,
               UploadTooLarge, CheckCancelled, Transcribe, PrepareFails, RejectPrecreated,
               AcceptPrecreated, MarkCancelled, RequestRaises, AtBranch
      <3> QED BY <3>1, <3>2, <3>3
    <2> QED BY <1>1, <1>2, <2>3, <2>4, <2>6, ChoiceAgreement
  <1>5. CASE Chooses(Handler(r)) \/ Chooses(Canceller(r))
    <2>1. CASE Launch(r) \/ StoresNew(r)
      BY <1>3, <1>4, <2>1
    <2>2. CASE ~Launch(r) /\ ~StoresNew(r)
      <3>1. ThreadsOK'
        <4>1. CASE Branches
          BY <1>1, <4>1, BranchKeepsThreads
        <4>2. CASE Stores
          BY <1>1, <4>2, StoreOpens DEF Stores
        <4> QED BY <1>1, <2>2, <4>1, <4>2, SubmissionBranches
      <3> QED BY <1>1, <1>2, <1>5, <3>1, PlainAgreement
    <2> QED BY <2>1, <2>2
  <1> QED
    BY <1>1, <1>3, <1>4, <1>5, SubmissionChooses

\* So do workers, and a cancel that stops an agent.
LEMMA WorkAgreement ==
  ASSUME StorageInv, AgreementInv, NEW r \in Runs, Work(r) \/ Terminate(r)
  PROVE  AgreementInv'
  <1>1. /\ WorkerStep(r) \/ TerminateActive(r)
        /\ Inv /\ ThreadsOK /\ Worker(r) \in Procs /\ Canceller(r) \in Procs
    BY InvFacts, RolesOf DEF Work, Terminate
  <1>2. UNCHANGED <<mem, events, row, rowEvents, latest, holder, copy, crashes>>
    BY <1>1, WorkerTypes DEF Work, Terminate, OnlyThreads, memVars, dbVars
  <1>3. ThreadsOK'
    BY <1>1, WorkerBranches, TerminateBranches, BranchKeepsThreads
  <1>4. Chooses(Worker(r)) \/ Chooses(Canceller(r))
    <2>1. CASE WorkerStep(r)
      BY <2>1, WorkerChoice, WorkerBusy DEF WorkerChooses, Chooses, Busy
    <2>2. CASE TerminateActive(r)
      BY <2>2, HarmlessScripts DEF TerminateActive, Chooses, AtBranch
    <2> QED BY <1>1, <2>1, <2>2
  <1> QED
    BY <1>1, <1>2, <1>3, <1>4, PlainAgreement

\* A run of the database enters memory as it is, nobody works for it yet.
LEMMA LoadAgreement ==
  ASSUME StorageInv, AgreementInv, NEW r \in Runs, ~Known(mem[r]), Known(row[r]),
         mem' = [mem EXCEPT ![r] = row[r]], events' = [events EXCEPT ![r] = rowEvents[r]],
         UNCHANGED <<row, rowEvents, latest, holder, copy, crashes>>,
         \A q \in Procs : RunOf(q) # r => todo'[q] = todo[q],
         \A q \in Procs, do \in Writes \cup {"put"} :
            RunOf(q) = r => ~Next0(q, do)' /\ ~HasAhead(q, do)'
  PROVE  AgreementInv'
  <1>1. /\ Inv /\ ThreadsOK /\ StateTypeOK /\ holder \subseteq Procs
        /\ \A x \in Runs : mem'[x] = (IF x = r THEN row[r] ELSE mem[x])
        /\ \A x \in Runs : events'[x] = (IF x = r THEN rowEvents[r] ELSE events[x])
    BY InvFacts DEF StateTypeOK
  <1>2. \A q \in Procs : RunOf(q) = r => todo[q] = <<>>
    BY <1>1 DEF Inv, QuietUntilStored, OpensNew, Unknown, Idle
  <1>3. \A q \in Procs : RunOf(q) # r => /\ \A do : Next0(q, do)' <=> Next0(q, do)
                                         /\ \A do : HasAhead(q, do)' <=> HasAhead(q, do)
                                         /\ Inserts(q)' <=> Inserts(q)
    BY DEF Next0, Head0, HasAhead, Inserts
  <1>4. \A q \in Procs : RunOf(q) = r =>
           /\ ~Next0(q, "upsert")' /\ ~Next0(q, "session")' /\ ~Next0(q, "append_row")' /\ ~Next0(q, "put")'
           /\ ~HasAhead(q, "session")'
    BY DEF Writes
  <1>5. ASSUME NEW q \in Procs PROVE StoreIsRecent(q)'
    <2>1. CASE RunOf(q) = r
      BY <1>4, <2>1 DEF StoreIsRecent
    <2>2. CASE RunOf(q) # r
      <3>1. RunOf(q) \in Runs
        BY ProcOf
      <3>2. mem'[RunOf(q)] = mem[RunOf(q)]
        BY <1>1, <2>2, <3>1
      <3> QED BY <1>3, <2>2, <3>2 DEF AgreementInv, StoreIsRecent, SaysWhatMemorySays, CancelledEarly
    <2> QED BY <2>1, <2>2
  <1>6. ASSUME NEW x \in Runs PROVE RowAgrees(x)' /\ RowExists(x)'
    <2>1. CASE x = r
      BY <1>1, <2>1 DEF RowAgrees, RowExists, SaysWhatMemorySays
    <2>2. CASE x # r
      <3>1. mem'[x] = mem[x]
        BY <1>1, <2>2
      <3> QED BY <1>3, <2>2, <3>1 DEF AgreementInv, RowAgrees, RowExists, SaysWhatMemorySays, CancelledEarly
    <2> QED BY <2>1, <2>2
  <1>7. ASSUME NEW x \in Runs PROVE LogsAgree(x)'
    <2>1. Handler(x) \in Procs /\ RunOf(Handler(x)) = x
      BY RolesOf
    <2>2. CASE x = r
      <3>1. ~InsertsEvent(r)' /\ ~Next0(Handler(r), "put")'
        BY <1>1, <1>4, <2>1, <2>2 DEF InsertsEvent
      <3>2. events'[r] = rowEvents'[r]
        BY <1>1
      <3> QED BY <2>2, <3>1, <3>2 DEF AgreementInv, LogsAgree, OwnLog
    <2>3. CASE x # r
      <3>1. InsertsEvent(x)' <=> InsertsEvent(x)
        BY <1>1, <1>3, <2>3 DEF InsertsEvent
      <3>2. mem'[x] = mem[x] /\ events'[x] = events[x]
        BY <1>1, <2>3
      <3>3. Next0(Handler(x), "put")' <=> Next0(Handler(x), "put")
        BY <1>3, <2>1, <2>3
      <3> QED BY <3>1, <3>2, <3>3 DEF AgreementInv, LogsAgree, OwnLog, StoredEvent
    <2> QED BY <2>2, <2>3
  <1>8. SessionAgrees'
    <2>1. SUFFICES ASSUME crashes = 0, NEW s \in Sessions, NEW l \in latest[s]
                   PROVE  /\ SessionOf[l.run] = s /\ Known(mem'[l.run])
                          /\ \/ SaysWhatMemorySays(l.run, l.rec)'
                             \/ \E q \in Procs : RunOf(q) = l.run /\ HasAhead(q, "session")'
      BY DEF SessionAgrees
    <2>2. /\ SessionOf[l.run] = s /\ Known(mem[l.run]) /\ l.run \in Runs
          /\ \/ SaysWhatMemorySays(l.run, l.rec)
             \/ \E q \in Procs : RunOf(q) = l.run /\ HasAhead(q, "session")
      BY <1>1, <2>1 DEF AgreementInv, SessionAgrees, StateTypeOK
    <2>3. l.run # r /\ mem'[l.run] = mem[l.run]
      BY <1>1, <2>2
    <2> QED BY <1>3, <2>2, <2>3 DEF SaysWhatMemorySays, CancelledEarly
  <1>9. NoLogBefore'
    BY <1>1 DEF AgreementInv, NoLogBefore
  <1> QED
    BY <1>5, <1>6, <1>7, <1>8, <1>9 DEF AgreementInv

\* Reconciliation loads the run as it is stored, and its end is still to come.
LEMMA ReconcileAgreement ==
  ASSUME StorageInv, OwnerInv, AgreementInv, NEW r \in Runs, Reconcile(r)
  PROVE  AgreementInv'
  <1> DEFINE b == Boot(r)
             s == <<Emit("activity"), Emit("run.failed"), SetStatus("failed")>>
  <1>1. ThreadsOK /\ b \in Procs /\ RunOf(b) = r
    BY InvFacts, RolesOf
  <1>2. /\ todo'[b] = s /\ \A q \in Procs \ {b} : todo'[q] = todo[q]
        /\ \A q \in Procs : todo[q] = <<>>
        /\ mem' = [mem EXCEPT ![r] = row[r]] /\ events' = [events EXCEPT ![r] = rowEvents[r]]
        /\ UNCHANGED <<row, rowEvents, latest, holder, copy, crashes>>
        /\ ~Known(mem[r]) /\ Live(row[r])
    BY <1>1 DEF Reconcile, ReconcileRun, Boot, Continue, Interrupted, dbVars, ThreadsOK
  <1>3. \A do \in Writes \cup {"put"} : s[1].do # do /\ \A i \in 1 .. Len(s) : s[i].do # do
    BY DEF Emit, SetStatus, Writes
  <1> HIDE DEF s
  <1>4. \A q \in Procs, do \in Writes \cup {"put"} : RunOf(q) = r => ~Next0(q, do)' /\ ~HasAhead(q, do)'
    <2>1. \A do \in Writes \cup {"put"} : ~Next0(b, do)' /\ ~HasAhead(b, do)'
      BY <1>2, <1>3 DEF Next0, Head0, HasAhead
    <2>2. \A q \in Procs \ {b} : \A do : ~Next0(q, do)' /\ ~HasAhead(q, do)'
      BY <1>2 DEF Next0, HasAhead
    <2> QED BY <2>1, <2>2
  <1>5. \A q \in Procs : RunOf(q) # r => todo'[q] = todo[q]
    BY <1>1, <1>2
  <1>6. Known(row[r])
    BY <1>2 DEF Known, Live
  <1> QED
    BY <1>2, <1>4, <1>5, <1>6, LoadAgreement

\* A run that is loaded is as it is stored.
LEMMA GetRunAgreement ==
  ASSUME StorageInv, AgreementInv, NEW r \in Runs, Load(r)
  PROVE  AgreementInv'
  <1>1. /\ ~Known(mem[r]) /\ Known(row[r]) /\ todo' = todo
        /\ mem' = [mem EXCEPT ![r] = row[r]] /\ events' = [events EXCEPT ![r] = rowEvents[r]]
        /\ UNCHANGED <<row, rowEvents, latest, holder, copy, crashes>>
    BY DEF Load, GetRun, dbVars
  <1>2. \A q \in Procs : RunOf(q) = r => todo[q] = <<>>
    BY <1>1, InvFacts DEF Inv, QuietUntilStored, OpensNew, Unknown, Idle
  <1>3. \A q \in Procs, do \in Writes \cup {"put"} : RunOf(q) = r => ~Next0(q, do)' /\ ~HasAhead(q, do)'
    BY <1>1, <1>2 DEF Next0, HasAhead
  <1> QED
    BY <1>1, <1>3, LoadAgreement

\* Death leaves the rows, and the event logs of text runs, as they were.
LEMMA CrashAgreement ==
  ASSUME StorageInv, AgreementInv, Crash
  PROVE  AgreementInv'
  <1>1. /\ \A q \in Procs : todo'[q] = <<>>
        /\ \A x \in Runs : mem'[x] = Absent
        /\ rowEvents' = rowEvents /\ crashes' # 0 /\ holder' = {}
    <2>1. crashes \in Nat
      BY InvFacts DEF Inv, TypeOK
    <2> QED BY <2>1 DEF Crash, Die, LoseMemory, dbVars
  <1>2. ~Known(Absent)
    BY DEF Known, Absent
  <1>3. \A q \in Procs : StoreIsRecent(q)'
    BY <1>1 DEF StoreIsRecent, HasAhead, Next0
  <1>4. \A x \in Runs : RowAgrees(x)' /\ RowExists(x)'
    BY <1>1, <1>2 DEF RowAgrees, RowExists
  <1>5. ASSUME NEW x \in Runs PROVE LogsAgree(x)'
    <2>1. ~Next0(Handler(x), "put")' /\ ~Known(mem'[x])
      BY <1>1, <1>2, RolesOf DEF Next0
    <2>2. OwnLog(x)' => OwnLog(x)
      BY <1>1 DEF OwnLog
    <2> QED BY <1>1, <2>1, <2>2 DEF AgreementInv, LogsAgree
  <1>6. SessionAgrees' /\ NoLogBefore'
    BY <1>1 DEF SessionAgrees, NoLogBefore
  <1> QED
    BY <1>3, <1>4, <1>5, <1>6 DEF AgreementInv

\* Initially there is nothing to disagree about.
LEMMA InitAgreement == Init => AgreementInv
  <1> SUFFICES ASSUME Init PROVE AgreementInv
    OBVIOUS
  <1>1. /\ \A q \in Procs : todo[q] = <<>>
        /\ \A x \in Runs : mem[x] = Absent /\ rowEvents[x] = <<>>
        /\ \A s \in Sessions : latest[s] = {}
    BY DEF Init, Init0
  <1>2. ~Known(Absent) /\ Numbered(<<>>)
    BY DEF Known, Absent, Numbered
  <1>3. \A q \in Procs : StoreIsRecent(q)
    BY <1>1 DEF StoreIsRecent, HasAhead, Next0
  <1>4. \A x \in Runs : RowAgrees(x) /\ RowExists(x) /\ LogsAgree(x)
    BY <1>1, <1>2 DEF RowAgrees, RowExists, LogsAgree
  <1>5. SessionAgrees /\ NoLogBefore
    BY <1>1 DEF SessionAgrees, NoLogBefore
  <1> QED
    BY <1>3, <1>4, <1>5 DEF AgreementInv

\* Every step but a database fault.
LEMMA NextAgreement ==
  ASSUME StorageInv, OwnerInv, AgreementInv, Next, faults = 0, faults' = 0
  PROVE  AgreementInv'
  <1>1. ASSUME NEW p \in Procs, PerformStep(p) PROVE ~DatabaseFault(p)
    BY <1>1 DEF DatabaseFault
  <1>2. ASSUME NEW r \in Runs PROVE ~BootRaises(r)
    BY RolesOf DEF BootRaises, AtBranch, OwnerInv, OnlyWorkersRaise
  <1>3. ASSUME (\E r \in Runs : Exit(r)) \/ Restart \/ Serve PROVE AgreementInv'
    BY <1>3, QuietAgreement DEF Exit, ProcessExits, stateVars, Restart, Serve, memVars, dbVars
  <1> QED
    BY <1>1, <1>2, <1>3, PerformAgreement, SubmitAgreement, WorkAgreement, GetRunAgreement,
       ReconcileAgreement, CrashAgreement DEF Next

\* AgreementInv is inductive until the first fault.
LEMMA NextAgreed ==
  StorageInv /\ OwnedUntilFault /\ AgreedUntilFault /\ [Next]_vars => AgreedUntilFault'
  <1> SUFFICES ASSUME StorageInv, OwnedUntilFault, AgreedUntilFault, [Next]_vars, faults' = 0
               PROVE  AgreementInv'
    BY DEF AgreedUntilFault
  <1>1. faults = 0 /\ OwnerInv /\ AgreementInv
    BY InvFacts, FaultsCount DEF OwnedUntilFault, AgreedUntilFault
  <1>2. CASE UNCHANGED vars
    BY <1>1, <1>2, QuietAgreement DEF vars, allVars, stateVars
  <1> QED
    BY <1>1, <1>2, NextAgreement

\* AgreementInv is inductive together with StorageInv and OwnerInv, as long
\* as no write has raised.
THEOREM AgreedStores == Spec => []AgreedUntilFault
  <1>1. Init => AgreedUntilFault
    BY InitAgreement DEF AgreedUntilFault
  <1> QED
    BY <1>1, NextAgreed, WritesInTurn, OwnedRuns, PTL DEF Spec

\* Whenever nobody writes, the run row is the record in memory, unless the
\* audio run was cancelled while store_run was inserting its row.
THEOREM RowsFollowMemory == Spec => [](faults = 0 => DatabaseFollowsMemory)
  <1>1. StorageInv /\ AgreedUntilFault => (faults = 0 => DatabaseFollowsMemory)
    <2> SUFFICES ASSUME StorageInv, AgreementInv, NEW r \in Runs, Settled(r)
                 PROVE  SaysWhatMemorySays(r, row[r])
      BY DEF AgreedUntilFault, DatabaseFollowsMemory, SaysWhatMemorySays, CancelledEarly
    <2>1. holder = {} /\ Known(mem[r]) /\ ~Storing(r)
      BY DEF Settled
    <2>2. ASSUME NEW p \in Procs, RunOf(p) = r PROVE ~Inserts(p) /\ ~Next0(p, "upsert") /\ ~Next0(p, "update_row")
      <3>1. ~Inserts(p)
        BY <2>1, <2>2 DEF Storing, Inserts
      <3>2. ~Next0(p, "upsert")
        BY <2>1, <3>1, StorePlaces
      <3>3. ~Next0(p, "update_row")
        BY <2>1, InvFacts, StepShape DEF ThreadOK
      <3> QED BY <3>1, <3>2, <3>3
    <2> QED BY <2>1, <2>2 DEF AgreementInv, RowAgrees
  <1> QED
    BY <1>1, WritesInTurn, AgreedStores, PTL

\* The log that memory numbers and the log of the table are one, without a
\* gap or a duplicate, in whatever order threads append.  (append_event)
THEOREM LogsAreOne == Spec => [](faults = 0 => EventLogsAgree)
  <1>1. AgreedUntilFault => (faults = 0 => EventLogsAgree)
    <2> SUFFICES ASSUME AgreementInv, NEW r \in Runs, Known(mem[r]), r \in TextRuns \/ crashes = 0
                 PROVE  /\ \A i \in 1 .. Len(events[r]) : events[r][i].seq = i - 1
                        /\ holder = {} => rowEvents[r] = events[r]
      BY DEF AgreedUntilFault, EventLogsAgree
    <2> QED BY DEF AgreementInv, LogsAgree, OwnLog, Numbered, InsertsEvent
  <1> QED
    BY <1>1, AgreedStores, PTL

\* Before the first crash the session shows its latest run as it is, with
\* the same exception as the row.
THEOREM SessionsShowRuns == Spec => [](faults = 0 /\ crashes = 0 => SessionShowsItsRun)
  <1>1. StorageInv /\ AgreedUntilFault => (faults = 0 /\ crashes = 0 => SessionShowsItsRun)
    <2> SUFFICES ASSUME StorageInv, AgreementInv, crashes = 0,
                        NEW s \in Sessions, NEW l \in latest[s], Settled(l.run)
                 PROVE  SaysWhatMemorySays(l.run, l.rec)
      BY DEF AgreedUntilFault, SessionShowsItsRun, SaysWhatMemorySays, CancelledEarly
    <2>1. holder = {} /\ ~Storing(l.run)
      BY DEF Settled
    <2>2. \A q \in Procs : RunOf(q) = l.run => ~HasAhead(q, "session")
      BY <2>1 DEF Storing, HasAhead
    <2> QED BY <2>2 DEF AgreementInv, SessionAgrees
  <1> QED
    BY <1>1, WritesInTurn, AgreedStores, PTL

---------------------------------------------------------------------------
(* How a text run ends, whatever writes raise.                             *)

\* A step that leaves a run, its threads and what its agent returned alone.
Rests(r) ==
    /\ \A q \in Procs : RunOf(q) = r => /\ todo'[q] = todo[q] /\ pc'[q] = pc[q]
                                        /\ copy'[q] = copy[q]
    /\ mem'[r] = mem[r] /\ row'[r] = row[r] /\ outcome'[r] = outcome[r]

\* What is known of a run's end stays while its threads and records do.
LEMMA RestingRun ==
  ASSUME NEW r \in Runs, Rests(r), TextInHands(r)
  PROVE  TextInHands(r)'
  <1>1. /\ todo'[Handler(r)] = todo[Handler(r)] /\ pc'[Handler(r)] = pc[Handler(r)]
        /\ copy'[Handler(r)] = copy[Handler(r)]
        /\ todo'[Worker(r)] = todo[Worker(r)] /\ pc'[Worker(r)] = pc[Worker(r)]
        /\ todo'[Canceller(r)] = todo[Canceller(r)] /\ pc'[Canceller(r)] = pc[Canceller(r)]
    BY RolesOf DEF Rests
  <1>2. HandlerBefore(r)' /\ TextCanceller(r)' /\ TextHandler(r)'
    BY <1>1 DEF Rests, TextInHands, HandlerBefore, TextCanceller, TextHandler, Idle, AtBranch, Next0,
       Head0
  <1>3. TextRecords(r)' /\ RowEndFollows(r)'
    BY DEF Rests, TextInHands, TextRecords, RowEndFollows, Next0, Head0
  <1>4. TextWorker(r)'
    BY <1>1 DEF Rests, TextInHands, TextWorker, Help
  <1>5. \A q \in Procs : RunOf(q) = r => EndsWith(todo'[q], MayFollow(mem'[r]))
    BY DEF Rests, TextInHands
  <1> QED
    BY <1>2, <1>3, <1>4, <1>5 DEF TextInHands

\* Only the threads of r and what its agent returned change.
OwnMove(p) == /\ Moves(p)
              /\ \A x \in Runs \ {RunOf(p)} : outcome'[x] = outcome[x]

\* A step of one run's thread leaves the ends of the other runs alone.
LEMMA OthersRest ==
  ASSUME EndInv, NEW p \in Procs, OwnMove(p), NEW x \in TextRuns, x # RunOf(p)
  PROVE  TextInHands(x)'
  <1>1. x \in Runs
    BY KindAssumption
  <1>2. Rests(x)
    BY <1>1 DEF OwnMove, Moves, Rests
  <1> QED
    BY <1>1, <1>2, RestingRun DEF EndInv

\* The handler of a text run moves.
LEMMA TextHandlerMoves ==
  ASSUME NEW r \in Runs, TextInHands(r), Moves(Handler(r)), Idle(Worker(r)),
         outcome'[r] = outcome[r], TextHandler(r)',
         Next0(Handler(r), "put")' => ~Transcribing(todo'[Handler(r)][1].rec),
         EndsWith(todo'[Handler(r)], MayFollow(mem[r]))
  PROVE  TextInHands(r)'
  <1> DEFINE h == Handler(r)
  <1>1. \A q \in Procs \ {h} : todo'[q] = todo[q] /\ pc'[q] = pc[q]
    BY DEF Moves
  <1>2. /\ todo'[Worker(r)] = todo[Worker(r)] /\ pc'[Worker(r)] = pc[Worker(r)]
        /\ todo'[Canceller(r)] = todo[Canceller(r)] /\ pc'[Canceller(r)] = pc[Canceller(r)]
    BY <1>1, RolesOf
  <1>3. HandlerBefore(r)' /\ TextCanceller(r)'
    BY <1>2 DEF TextInHands, HandlerBefore, TextCanceller, Idle
  <1>4. TextRecords(r)' /\ RowEndFollows(r)'
    BY <1>1 DEF TextInHands, TextRecords, RowEndFollows, Moves, Next0, Head0
  <1>5. TextWorker(r)'
    BY <1>2 DEF TextInHands, TextWorker, Help, Moves
  <1>6. \A q \in Procs : RunOf(q) = r => EndsWith(todo'[q], MayFollow(mem'[r]))
    BY <1>1 DEF TextInHands, Moves
  <1> QED
    BY <1>3, <1>4, <1>5, <1>6 DEF TextInHands

\* A cancel request moves.
LEMMA TextCancellerMoves ==
  ASSUME NEW r \in Runs, TextInHands(r), Moves(Canceller(r)),
         outcome'[r] = outcome[r], TextCanceller(r)'
  PROVE  TextInHands(r)'
  <1> DEFINE c == Canceller(r)
  <1>1. \A q \in Procs \ {c} : todo'[q] = todo[q] /\ pc'[q] = pc[q]
    BY DEF Moves
  <1>2. /\ todo'[Worker(r)] = todo[Worker(r)] /\ pc'[Worker(r)] = pc[Worker(r)]
        /\ todo'[Handler(r)] = todo[Handler(r)] /\ pc'[Handler(r)] = pc[Handler(r)]
        /\ todo'[c] = <<>>
    BY <1>1, RolesOf DEF TextCanceller
  <1>3. HandlerBefore(r)' /\ TextHandler(r)'
    BY <1>2 DEF TextInHands, HandlerBefore, TextHandler, Idle, AtBranch, Next0, Head0, Moves
  <1>4. TextRecords(r)' /\ RowEndFollows(r)'
    BY <1>1, <1>2 DEF TextInHands, TextRecords, RowEndFollows, Moves, Next0, Head0
  <1>5. TextWorker(r)'
    BY <1>2 DEF TextInHands, TextWorker, Help, Moves
  <1>6. \A q \in Procs : RunOf(q) = r => EndsWith(todo'[q], MayFollow(mem'[r]))
    BY <1>1, <1>2 DEF TextInHands, Moves, EndsWith
  <1> QED
    BY <1>3, <1>4, <1>5, <1>6 DEF TextInHands

\* The worker of a text run moves.
LEMMA TextWorkerMoves ==
  ASSUME NEW r \in Runs, TextInHands(r), Moves(Worker(r)), ~Idle(Worker(r)),
         ~Next0(Worker(r), "put")', TextWorker(r)',
         EndsWith(todo'[Worker(r)], MayFollow(mem[r]))
  PROVE  TextInHands(r)'
  <1> DEFINE w == Worker(r)
  <1>1. \A q \in Procs \ {w} : todo'[q] = todo[q] /\ pc'[q] = pc[q]
    BY DEF Moves
  <1>2. /\ todo'[Canceller(r)] = todo[Canceller(r)] /\ pc'[Canceller(r)] = pc[Canceller(r)]
        /\ todo'[Handler(r)] = todo[Handler(r)] /\ pc'[Handler(r)] = pc[Handler(r)]
    BY <1>1, RolesOf
  <1>3. HandlerBefore(r)' /\ TextHandler(r)' /\ TextCanceller(r)'
    BY <1>2 DEF TextInHands, HandlerBefore, TextHandler, TextCanceller, AtBranch, Next0, Head0, Moves
  <1>4. TextRecords(r)' /\ RowEndFollows(r)'
    BY <1>1 DEF TextInHands, TextRecords, RowEndFollows, Moves, Next0, Head0
  <1>5. \A q \in Procs : RunOf(q) = r => EndsWith(todo'[q], MayFollow(mem'[r]))
    BY <1>1 DEF TextInHands, Moves
  <1> QED
    BY <1>3, <1>4, <1>5 DEF TextInHands

\* A move while requests are served keeps reconciliation out.
LEMMA MovesAlone ==
  ASSUME BootAlone, NEW p \in Procs, Moves(p), up' = up, p[1] # "boot", up = "up"
  PROVE  BootAlone'
  BY DEF BootAlone, Moves, Idle

\* Scripts by the number of their calls: only the last sets a status, if any.
LEMMA EndScripts ==
  ASSUME NEW S, NEW o, o.do = "status" => o.rec.status \in S
  PROVE  /\ EndsWith(<<>>, S)
         /\ EndsWith(<<o>>, S)
         /\ \A a : EndsWith(<<Emit(a), o>>, S)
         /\ \A a, b : EndsWith(<<Emit(a), Emit(b), o>>, S)
         /\ \A a, b, c : EndsWith(<<Emit(a), Emit(b), Emit(c), o>>, S)
         /\ \A a, b, c, d : EndsWith(<<Emit(a), Emit(b), Emit(c), Emit(d), o>>, S)
  <1>1. \A a : Emit(a).do # "status"
    BY DEF Emit
  <1>2. EndsWith(<<>>, S) /\ EndsWith(<<o>>, S)
    BY DEF EndsWith
  <1>3. \A a : EndsWith(<<Emit(a), o>>, S)
    BY <1>1 DEF EndsWith
  <1>4. \A a, b : EndsWith(<<Emit(a), Emit(b), o>>, S)
    BY <1>1 DEF EndsWith
  <1>5. \A a, b, c : EndsWith(<<Emit(a), Emit(b), Emit(c), o>>, S)
    BY <1>1 DEF EndsWith
  <1>6. \A a, b, c, d : EndsWith(<<Emit(a), Emit(b), Emit(c), Emit(d), o>>, S)
    BY <1>1 DEF EndsWith
  <1> QED
    BY <1>2, <1>3, <1>4, <1>5, <1>6

\* A script that ends so, after calls that set no status.
LEMMA EndsJoin ==
  ASSUME NEW s \in Seq(Op), NEW t \in Seq(Op), NEW S, EndsWith(s, {}), EndsWith(t, S)
  PROVE  EndsWith(s \o t, S)
  <1>1. Len(s) \in Nat /\ Len(t) \in Nat
    BY LenProperties
  <1>2. /\ Len(s \o t) = Len(s) + Len(t)
        /\ \A i \in 1 .. Len(s) + Len(t) : (s \o t)[i] = IF i <= Len(s) THEN s[i] ELSE t[i - Len(s)]
    BY ConcatProperties
  <1>3. \A i \in 1 .. Len(s) : s[i].do # "status"
    BY DEF EndsWith
  <1>4. \A i \in 1 .. Len(s) + Len(t) : i \in 1 .. Len(s) \/ (~(i <= Len(s)) /\ i - Len(s) \in 1 .. Len(t))
    BY <1>1
  <1>5. \A i \in 1 .. Len(t) : t[i].do = "status" => i = Len(t) /\ t[i].rec.status \in S
    BY DEF EndsWith
  <1>6. ASSUME NEW i \in 1 .. Len(s) + Len(t), (s \o t)[i].do = "status"
        PROVE  i = Len(s) + Len(t) /\ (s \o t)[i].rec.status \in S
    <2>1. i \notin 1 .. Len(s)
      BY <1>1, <1>2, <1>3, <1>6
    <2>2. i - Len(s) \in 1 .. Len(t) /\ (s \o t)[i] = t[i - Len(s)]
      BY <1>2, <1>4, <2>1
    <2>3. i - Len(s) = Len(t) /\ (s \o t)[i].rec.status \in S
      BY <1>5, <1>6, <2>2
    <2> QED BY <1>1, <2>3
  <1> QED
    BY <1>2, <1>6 DEF EndsWith

\* What a worker of a text run chooses fits what is known of the run's end.
Fits(r, s, l) ==
    /\ EndsWith(s, MayFollow(mem[r]))
    /\ l \in OpenPlaces => EndsWith(s, {}) /\ ~Terminal(mem[r])
    /\ l \in ClosingPlaces => EndsWith(s, Help(r)') /\ (Terminal(mem[r]) => mem[r].status \in Help(r)')
WorkerFits(r) == \E s, l : Continue(Worker(r), s, l) /\ Fits(r, s, l)

\* Every step of a worker of a text run fits what is known of the run's end.
LEMMA TextWorkerFits ==
  ASSUME StorageInv, NEW r \in Runs, WorkerStep(r), TextWorker(r)
  PROVE  WorkerFits(r)
  <1> DEFINE w == Worker(r)
             Outside(l) == l \notin OpenPlaces /\ l \notin ClosingPlaces
             ends == TerminalStatuses
  <1>1. /\ todo[w] = <<>> /\ outcome \in [Runs -> Outcome]
        /\ pc[w] \in OpenPlaces => ~Terminal(mem[r])
        /\ pc[w] \in ClosingPlaces => (Terminal(mem[r]) => mem[r].status \in Help(r))
    BY WorkerBusy, InvFacts DEF Busy, Inv, TypeOK, WorkersTypeOK, TextWorker
  <1>2. /\ \A s, S : EndsWith(s, {}) => EndsWith(s, S)
        /\ ~Terminal(mem[r]) => MayFollow(mem[r]) = ends
        /\ \A l \in OpenPlaces : l \notin ClosingPlaces
    BY DEF EndsWith, MayFollow, OpenPlaces, ClosingPlaces
  <1>3. \A s, l : Continue(w, s, l) /\ EndsWith(s, {}) /\ Outside(l) => WorkerFits(r)
    BY <1>2 DEF WorkerFits, Fits
  <1>4. ASSUME ~Terminal(mem[r]), NEW s, NEW l, Continue(w, s, l),
               EndsWith(s, {}) \/ (Outside(l) /\ EndsWith(s, ends))
        PROVE  WorkerFits(r)
    BY <1>2, <1>4 DEF WorkerFits, Fits
  <1>5. ASSUME pc[w] \in ClosingPlaces, outcome'[r].blocked = outcome[r].blocked,
               NEW s, NEW l, Continue(w, s, l), EndsWith(s, {}), l \in ClosingPlaces
        PROVE  WorkerFits(r)
    BY <1>1, <1>2, <1>5 DEF WorkerFits, Fits, Help
  <1>6. /\ \A st \in ends : SetStatus(st).do = "status" /\ SetStatus(st).rec.status = st
        /\ \A a : Emit(a).do # "status"
        /\ {"completed", "failed", "rejected", "cancelled", "blocked"} \subseteq ends
    BY DEF SetStatus, Record, Emit, TerminalStatuses
  <1>7. /\ \A S : EndsWith(<<>>, S)
        /\ \A a : EndsWith(<<Emit(a)>>, {})
        /\ \A a, b : EndsWith(<<Emit(a), Emit(b)>>, {})
        /\ \A a, b, c : EndsWith(<<Emit(a), Emit(b), Emit(c)>>, {})
        /\ \A a, b, c, d : EndsWith(<<Emit(a), Emit(b), Emit(c), Emit(d)>>, {})
        /\ \A a, b, c, d, f : EndsWith(<<Emit(a), Emit(b), Emit(c), Emit(d), Emit(f)>>, {})
    BY <1>6, EndScripts
  <1>8. /\ \A a : \A st \in ends : EndsWith(<<Emit(a), SetStatus(st)>>, ends)
        /\ \A a, b, c : \A st \in ends : EndsWith(<<Emit(a), Emit(b), Emit(c), SetStatus(st)>>, ends)
        /\ \A a, b, c, d : \A st \in ends :
             EndsWith(<<Emit(a), Emit(b), Emit(c), Emit(d), SetStatus(st)>>, ends)
    BY <1>6, EndScripts
  <1> HIDE DEF ends
  <1>9. CASE CalendarBegin(r) \/ CalendarFetch(r)
    <2>1. pc[w] \in OpenPlaces
      BY <1>9 DEF CalendarBegin, CalendarFetch, Begins, At, AtBranch, OpenPlaces
    <2>2. Outside("done")
      BY DEF OpenPlaces, ClosingPlaces
    <2> QED BY <1>1, <1>4, <1>6, <1>7, <1>8, <1>9, <2>1, <2>2 DEF CalendarBegin, CalendarFetch, Steps,
               Branch
  <1>10. CASE ShellBegin(r)
    <2>1. pc[w] \in OpenPlaces /\ Outside("done")
      BY <1>10 DEF ShellBegin, Begins, At, AtBranch, OpenPlaces, ClosingPlaces
    <2> QED BY <1>1, <1>4, <1>6, <1>7, <1>8, <1>10, <2>1 DEF ShellBegin, Steps, Branch
  <1>11. CASE ShellSucceeds(r) \/ ShellFails(r) \/ ShellStopped(r)
    <2>1. PICK s \in {<<>>, <<Emit("output")>>} : Continue(w, s, "shellStatus")
      BY <1>11 DEF ShellSucceeds, ShellFails, ShellStopped, ShellResult, Branch, Maybe
    <2>2. pc[w] \in OpenPlaces
      BY <1>11 DEF ShellSucceeds, ShellFails, ShellStopped, ShellResult, At, AtBranch, OpenPlaces
    <2> QED BY <1>1, <1>4, <1>7, <2>1, <2>2
  <1>12. CASE ShellRaises(r) \/ SpawnRaises(r) \/ SyncMemory(r)
    <2>1. \E l \in {"done", "raised"} : Continue(w, <<>>, l)
      BY <1>12 DEF ShellRaises, SpawnRaises, SyncMemory, Steps, Branch
    <2>2. Outside("done") /\ Outside("raised")
      BY DEF OpenPlaces, ClosingPlaces
    <2> QED BY <1>3, <1>7, <2>1, <2>2
  <1>13. CASE ShellStatus(r) \/ ShellFlag(r)
    <2>1. pc[w] \in OpenPlaces /\ Outside("done")
      BY <1>13 DEF ShellStatus, ShellFlag, At, AtBranch, OpenPlaces, ClosingPlaces
    <2>2. CASE ShellStatus(r)
      BY <1>1, <1>4, <1>7, <2>1, <2>2 DEF ShellStatus, Steps, Branch
    <2>3. CASE ShellFlag(r)
      <3>1. \E s : Continue(w, s, "done") /\ EndsWith(s, ends)
        BY <1>6, <1>8, <2>3 DEF ShellFlag, Steps, Branch, UserCancelled
      <3> QED BY <1>1, <1>4, <2>1, <3>1
    <2> QED BY <1>13, <2>2, <2>3
  <1>14. CASE AgentBegin(r)
    <2>1. pc[w] \in OpenPlaces /\ Outside("raised")
      BY <1>14 DEF AgentBegin, Begins, At, AtBranch, OpenPlaces, ClosingPlaces
    <2> DEFINE s == <<Emit("activity"), Emit("action.started")>>
    <2>2. \A t \in {<<>>, <<Emit("chat")>>} : EndsWith(s \o t, {})
      <3>1. s \in Seq(Op) /\ \A t \in {<<>>, <<Emit("chat")>>} : t \in Seq(Op)
        BY SafeCalls, SafeIsOp, Tuples
      <3>2. EndsWith(s, {}) /\ \A t \in {<<>>, <<Emit("chat")>>} : EndsWith(t, {})
        BY <1>7
      <3> HIDE DEF s
      <3> QED BY <3>1, <3>2, EndsJoin
    <2>3. \/ \E t \in {<<>>, <<Emit("chat")>>} : Continue(w, s \o t, "spawn")
          \/ Continue(w, <<>>, "raised")
      BY <1>14 DEF AgentBegin, Steps, Branch, Maybe
    <2> QED BY <1>1, <1>4, <1>7, <2>1, <2>2, <2>3
  <1>15. CASE MissingBinary(r)
    <2>1. pc[w] \in OpenPlaces /\ Outside("sync")
      BY <1>15 DEF MissingBinary, At, AtBranch, OpenPlaces, ClosingPlaces
    <2> QED BY <1>1, <1>4, <1>6, <1>8, <1>15, <2>1 DEF MissingBinary, Steps, Branch
  <1>16. CASE Spawn(r) \/ Register(r) \/ TakeLine(r) \/ NoLine(r) \/ PollCancelled(r) \/ PollStatus(r)
              \/ PollTimeout(r)
    <2>1. pc[w] \in OpenPlaces
      BY <1>16 DEF Spawn, Register, TakeLine, NoLine, PollCancelled, PollStatus, PollTimeout, At,
         AtBranch, OpenPlaces
    <2>2. \E l : \/ Continue(w, <<>>, l)
                 \/ \E a : Continue(w, <<Emit(a)>>, l)
      BY <1>16 DEF Spawn, Register, TakeLine, NoLine, PollCancelled, PollStatus, PollTimeout, Unreadable,
         Maybe, Steps, Branch
    <2> QED BY <1>1, <1>4, <1>7, <2>1, <2>2
  <1>17. CASE Unblock(r)
    <2> DEFINE s == <<Emit("activity"), Emit("run.blocked"), SetBlocked>>
    <2>1. SetBlocked.do = "status" /\ SetBlocked.rec.status = "blocked"
      BY DEF SetBlocked
    <2>2. EndsWith(s, {"blocked"}) /\ EndsWith(s, ends)
      BY <1>6, <2>1, EndScripts
    <2>3. PICK l \in {"flush", "stop"} :
             \/ mem[r].status = "blocked" /\ Continue(w, <<>>, l)
             \/ mem[r].status # "blocked" /\ Continue(w, s, l)
      BY <1>17 DEF Unblock, Branch
    <2> HIDE DEF s
    <2>4. Help(r)' = {"blocked"}
      BY <1>1, <1>17 DEF Unblock, Help, Outcome
    <2>5. l \in ClosingPlaces /\ l \notin OpenPlaces
      BY <2>3 DEF ClosingPlaces, OpenPlaces
    <2>6. pc[w] \in OpenPlaces \/ pc[w] \in ClosingPlaces
      BY <1>17 DEF Unblock, At, AtBranch, ClosingPlaces, OpenPlaces
    <2>7. Terminal(mem[r]) => mem[r].status = "blocked"
      BY <1>1, <2>6 DEF Help
    <2>8. mem[r].status # "blocked" => EndsWith(s, MayFollow(mem[r]))
      BY <1>2, <2>2, <2>7
    <2> QED BY <1>7, <2>2, <2>3, <2>4, <2>5, <2>7, <2>8 DEF WorkerFits, Fits
  <1>18. CASE Flush(r) \/ StopProcess(r) \/ LateCancel(r)
    <2>1. pc[w] \in ClosingPlaces
      BY <1>18 DEF Flush, StopProcess, LateCancel, At, AtBranch, ClosingPlaces
    <2>2. outcome'[r].blocked = outcome[r].blocked
      BY <1>1, <1>18 DEF Flush, Unreadable, StopProcess, LateCancel, Steps, workerVars, Outcome
    <2>3. \/ \E l \in ClosingPlaces : \/ Continue(w, <<>>, l)
                                      \/ Continue(w, <<Emit("chat")>>, l)
          \/ Continue(w, <<>>, "raised")
      BY <1>18 DEF Flush, Unreadable, StopProcess, LateCancel, Steps, Branch, ClosingPlaces
    <2>4. Outside("raised")
      BY DEF OpenPlaces, ClosingPlaces
    <2> QED BY <1>3, <1>5, <1>7, <2>1, <2>2, <2>3, <2>4
  <1>19. CASE RetryWithoutResume(r)
    <2>1. pc[w] \in ClosingPlaces /\ ~outcome[r].blocked
      BY <1>1, <1>19 DEF RetryWithoutResume, At, AtBranch, ClosingPlaces, NoOutcome
    <2>2. ~Terminal(mem[r])
      BY <1>1, <2>1 DEF Help
    <2> QED BY <1>4, <1>7, <1>19, <2>2 DEF RetryWithoutResume, Branch
  <1>20. CASE Finalize(r)
    <2> DEFINE done1 == <<Emit("action.completed")>>
               done2 == <<Emit("activity"), Emit("action.completed")>>
               cancelEnd == <<Emit("run.cancelled"), SetStatus("cancelled")>>
               blockedEnd == <<SetStatus("blocked")>>
               others == {<<Emit("run.failed"), SetStatus("failed")>>,
                          <<Emit("chat"), Emit("run.failed"), SetStatus("failed")>>,
                          <<Emit("run.completed"), SetStatus("completed")>>}
    <2>1. \/ /\ outcome[r].blocked
             /\ \/ Continue(w, cancelEnd, "sync")
                \/ Continue(w, done1 \o blockedEnd, "sync")
          \/ /\ ~outcome[r].blocked
             /\ \/ Continue(w, done1 \o cancelEnd, "sync")
                \/ \E t \in others : Continue(w, done2 \o t, "sync")
      BY <1>20 DEF Finalize, Steps, Branch, UserCancelled
    <2>2. /\ EndsWith(cancelEnd, {"cancelled"}) /\ EndsWith(blockedEnd, {"blocked"})
          /\ EndsWith(cancelEnd, ends) /\ EndsWith(done1, {}) /\ EndsWith(done2, {})
          /\ \A t \in others : EndsWith(t, ends)
      <3>1. EndsWith(cancelEnd, {"cancelled"}) /\ EndsWith(blockedEnd, {"blocked"})
        BY <1>6, EndScripts
      <3>2. EndsWith(<<Emit("chat"), Emit("run.failed"), SetStatus("failed")>>, ends)
        BY <1>6, EndScripts
      <3>3. \A t \in others : EndsWith(t, ends)
        BY <1>6, <1>8, <3>2
      <3> QED BY <1>6, <1>7, <1>8, <3>1, <3>3
    <2>3. /\ done1 \in Seq(Op) /\ done2 \in Seq(Op) /\ cancelEnd \in Seq(Op)
          /\ blockedEnd \in Seq(Op) /\ \A t \in others : t \in Seq(Op)
      BY SafeCalls, SafeIsOp, Tuples
    <2> HIDE DEF done1, done2, cancelEnd, blockedEnd, others
    <2>4. /\ EndsWith(done1 \o blockedEnd, {"blocked"}) /\ EndsWith(done1 \o cancelEnd, ends)
          /\ \A t \in others : EndsWith(done2 \o t, ends)
      BY <2>2, <2>3, EndsJoin
    <2>5. Outside("sync") /\ pc[w] \in ClosingPlaces
      BY <1>20 DEF Finalize, At, AtBranch, OpenPlaces, ClosingPlaces
    <2>6. CASE ~outcome[r].blocked
      <3>1. ~Terminal(mem[r])
        BY <1>1, <2>5, <2>6 DEF Help
      <3> QED BY <1>4, <2>1, <2>4, <2>5, <2>6, <3>1
    <2>7. CASE outcome[r].blocked
      <3>1. {"blocked", "cancelled"} \subseteq MayFollow(mem[r])
        BY <1>1, <1>6, <2>5, <2>7 DEF Help, MayFollow, ends
      <3>2. \A s : EndsWith(s, {"blocked"}) \/ EndsWith(s, {"cancelled"}) => EndsWith(s, MayFollow(mem[r]))
        BY <3>1 DEF EndsWith
      <3> QED BY <2>1, <2>2, <2>4, <2>5, <2>7, <3>2 DEF WorkerFits, Fits
    <2> QED BY <2>6, <2>7
  <1>21. CASE RecordException(r)
    <2>1. Outside("done") /\ Outside("caught")
      BY DEF OpenPlaces, ClosingPlaces
    <2>2. \/ Continue(w, <<>>, "done")
          \/ /\ ~Terminal(mem[r])
             /\ Continue(w, <<Emit("activity"), Emit("output"), Emit("run.failed"), SetStatus("failed")>>,
                         "caught")
      BY <1>21 DEF RecordException, NothingToRecord, Branch
    <2> QED BY <1>3, <1>4, <1>6, <1>7, <1>8, <2>1, <2>2
  <1> QED
    BY <1>9, <1>10, <1>11, <1>12, <1>13, <1>14, <1>15, <1>16, <1>17, <1>18, <1>19, <1>20, <1>21
       DEF WorkerStep, AgentStep

\* A step of a worker keeps EndInv.
LEMMA WorkEnds ==
  ASSUME StorageInv, EndInv, NEW r \in Runs, Work(r)
  PROVE  EndInv'
  <1> DEFINE w == Worker(r)
  <1>1. /\ w \in Procs /\ Inv /\ ThreadsOK /\ RunOf(w) = r /\ w[1] = "worker"
        /\ WorkerStep(r) /\ Busy(w)
        /\ outcome \in [Runs -> Outcome]
    BY RolesOf, InvFacts, WorkerBusy DEF Work, Inv, TypeOK, WorkersTypeOK
  <1>2. PICK s, l : Continue(w, s, l) /\ Harmless(w, s)
    BY <1>1, WorkerChoice DEF WorkerChooses
  <1>3. /\ UNCHANGED <<mem, row, copy, up>>
        /\ todo'[w] = s /\ pc'[w] = l
        /\ \A q \in Procs \ {w} : todo'[q] = todo[q] /\ pc'[q] = pc[q]
    BY <1>1, <1>2, WorkerTypes DEF OnlyThreads, memVars, dbVars, Continue, ThreadsOK
  <1>4. OwnMove(w)
    <2>1. \A x \in Runs \ {r} : outcome'[x] = outcome[x]
      BY <1>1 DEF WorkerStep, AgentStep, CalendarBegin, CalendarFetch, ShellBegin, ShellSucceeds,
         ShellFails, ShellStopped, ShellResult, ShellRaises, ShellStatus, ShellFlag, AgentBegin,
         MissingBinary, SpawnRaises, Spawn, Register, TakeLine, NoLine, PollCancelled, PollStatus,
         PollTimeout, Unblock, Flush, Unreadable, StopProcess, LateCancel, RetryWithoutResume,
         Finalize, SyncMemory, RecordException, Steps, workerVars
    <2> QED BY <1>1, <1>3, <2>1 DEF OwnMove, Moves
  <1>5. ~Idle(w) /\ todo[w] = <<>>
    BY <1>1 DEF Busy, Idle
  <1>6. BootAlone'
    <2>1. up = "up"
      BY <1>1, <1>5 DEF EndInv, BootAlone
    <2> QED BY <1>1, <1>3, <1>4, <2>1, MovesAlone DEF EndInv, OwnMove
  <1>7. r \in TextRuns => TextInHands(r)'
    <2> SUFFICES ASSUME r \in TextRuns PROVE TextInHands(r)'
      OBVIOUS
    <2>1. TextInHands(r)
      BY DEF EndInv
    <2>2. PICK t, k : Continue(w, t, k) /\ Fits(r, t, k)
      BY <1>1, <2>1, TextWorkerFits DEF WorkerFits, TextInHands
    <2>3. todo'[w] = t /\ pc'[w] = k
      BY <1>1, <2>2 DEF Continue, ThreadsOK
    <2>4. TextWorker(r)' /\ EndsWith(todo'[w], MayFollow(mem[r]))
      BY <1>3, <2>2, <2>3 DEF TextWorker, Fits
    <2>5. ~Next0(w, "put")'
      <3>1. ThreadsOK'
        BY <1>1, WorkerBranches, BranchKeepsThreads
      <3>2. s \in Seq(Op)
        BY <1>1, <1>3, <3>1 DEF ThreadsOK
      <3> QED BY <1>2, <1>3, <3>2, EmptySeq DEF Harmless, PlainCalls, Next0, Head0
    <2> QED BY <1>4, <1>5, <2>1, <2>4, <2>5, TextWorkerMoves DEF OwnMove
  <1>8. \A x \in TextRuns : x # r => TextInHands(x)'
    BY <1>1, <1>4, OthersRest
  <1> QED
    BY <1>6, <1>7, <1>8 DEF EndInv

\* The handler of a text run stores it, or fails to launch its worker, or
\* answers 500.
LEMMA TextHandlerStep ==
  ASSUME StorageInv, NEW r \in TextRuns, TextInHands(r),
         \/ RejectText(r) \/ AcceptText(r) \/ LaunchFails(r) \/ RequestRaises(Handler(r))
  PROVE  /\ TextHandler(r)' /\ EndsWith(todo'[Handler(r)], MayFollow(mem[r]))
         /\ Next0(Handler(r), "put")' => ~Transcribing(todo'[Handler(r)][1].rec)
  <1> DEFINE h == Handler(r)
  <1>1. /\ r \in Runs /\ h \in Procs /\ ThreadsOK
        /\ todo[h] = <<>> /\ TextHandler(r) /\ mem' = mem
    BY RolesOf, InvFacts, KindAssumption DEF TextInHands, RejectText, AcceptText, LaunchFails,
       RequestRaises, AtBranch, OnlyThreads, memVars
  <1>2. CASE RejectText(r) \/ AcceptText(r)
    <2>1. PICK rec \in RunRec, t \in {<<>>, <<Emit("run.failed")>>, <<Emit("activity")>>},
               l \in {"done", "launch"} :
             /\ Continue(h, Store(rec) \o t, l)
             /\ l = "launch" => Live(rec)
             /\ ~Transcribing(rec)
      <3>1. /\ Record("rejected", "outcome") \in RunRec
            /\ Record("running", "Run started") \in RunRec
            /\ ~Transcribing(Record("rejected", "outcome"))
            /\ ~Transcribing(Record("running", "Run started")) /\ Live(Record("running", "Run started"))
        <4>1. /\ Record("rejected", "outcome") \in RunRec
              /\ Record("running", "Run started") \in RunRec
          BY RecordTypes DEF Statuses, TerminalStatuses, Summaries
        <4> QED BY <4>1 DEF Record, Transcribing, Live
      <3>2. Store(Record("running", "Run started")) \o <<>> = Store(Record("running", "Run started"))
        BY <3>1, StoreScript
      <3>3. CASE RejectText(r)
        BY <3>1, <3>3 DEF RejectText
      <3>4. CASE AcceptText(r)
        <4>1. Continue(h, Store(Record("running", "Run started")) \o <<>>, "launch")
          BY <3>2, <3>4 DEF AcceptText
        <4> QED BY <3>1, <4>1
      <3> QED BY <1>2, <3>3, <3>4
    <2>2. todo'[h] = Store(rec) \o t /\ pc'[h] = l
      BY <1>1, <2>1 DEF Continue, ThreadsOK
    <2>3. /\ todo'[h] # <<>> /\ todo'[h][1].do = "put" /\ todo'[h][1].rec = rec
          /\ \A i \in 1 .. Len(todo'[h]) : todo'[h][i].do # "status"
      <3> DEFINE s == Store(rec) \o t
      <3>1. s # <<>> /\ s[1].do = "put"
        BY StoreCalls
      <3>2. s[1].rec = rec /\ \A i \in 1 .. Len(s) : s[i].do \notin {"meta", "status"}
        BY StoreCalls
      <3> HIDE DEF s
      <3>3. todo'[h] = s
        BY <2>2 DEF s
      <3> QED BY <3>1, <3>2, <3>3
    <2>4. \A S : EndsWith(todo'[h], S)
      BY <2>3 DEF EndsWith
    <2>5. ~Terminal(mem[r])
      BY <1>2 DEF RejectText, AcceptText, Unknown, Known, Terminal, TerminalStatuses
    <2>6. TextHandler(r)'
      BY <1>1, <2>1, <2>2, <2>3, <2>4, <2>5 DEF TextHandler, Next0, Head0
    <2> QED BY <2>1, <2>2, <2>3, <2>4, <2>6
  <1>3. CASE LaunchFails(r)
    <2>1. todo'[h] = LaunchFailedScript /\ pc'[h] = "done"
      BY <1>1, <1>3 DEF LaunchFails, Continue, ThreadsOK
    <2>2. MayFollow(mem[r]) = TerminalStatuses
      BY <1>1, <1>3 DEF LaunchFails, AtBranch, TextHandler, MayFollow
    <2>3. EndsWith(LaunchFailedScript, TerminalStatuses)
      <3>1. SetStatus("failed").rec.status \in TerminalStatuses
        BY DEF SetStatus, Record, TerminalStatuses
      <3> QED BY <3>1, EndScripts DEF LaunchFailedScript
    <2>4. LaunchFailedScript[1].do = "append"
      BY EndingScripts
    <2>5. TextHandler(r)'
      BY <2>1, <2>4 DEF TextHandler, Next0, Head0
    <2> QED BY <2>1, <2>2, <2>3, <2>4, <2>5 DEF Next0, Head0
  <1>4. CASE RequestRaises(h)
    <2>1. todo'[h] = <<>> /\ pc'[h] = "done"
      BY <1>1, <1>4 DEF RequestRaises, Continue, ThreadsOK
    <2> QED BY <2>1 DEF TextHandler, Next0, EndsWith
  <1> QED
    BY <1>2, <1>3, <1>4

\* A text run is launched while it is not over.
LEMMA TextLaunch ==
  ASSUME StorageInv, NEW r \in TextRuns, TextInHands(r), Launch(r), outcome' = outcome
  PROVE  TextInHands(r)'
  <1> DEFINE h == Handler(r)
             w == Worker(r)
  <1>1. /\ r \in Runs /\ h \in Procs /\ w \in Procs /\ h # w /\ ThreadsOK
        /\ Canceller(r) \in Procs /\ Canceller(r) # h /\ Canceller(r) # w
        /\ todo[h] = <<>> /\ pc[h] = "launch" /\ todo' = todo
        /\ pc' = [pc EXCEPT ![h] = "done", ![w] = "begin"]
        /\ UNCHANGED <<mem, row, copy>>
    BY RolesOf, InvFacts, KindAssumption DEF Launch, OnlyThreads, AtBranch, memVars, dbVars
  <1>2. /\ pc'[h] = "done" /\ pc'[w] = "begin" /\ pc'[Canceller(r)] = pc[Canceller(r)]
    BY <1>1 DEF ThreadsOK
  <1>3. Idle(w) /\ ~Terminal(mem[r])
    BY <1>1 DEF TextInHands, HandlerBefore, AtBranch, TextHandler
  <1>4. HandlerBefore(r)' /\ TextHandler(r)' /\ TextCanceller(r)' /\ RowEndFollows(r)'
    BY <1>1, <1>2 DEF TextInHands, HandlerBefore, TextHandler, TextCanceller, RowEndFollows, AtBranch, Next0
  <1>5. TextRecords(r)'
    BY <1>1 DEF TextInHands, TextRecords, Next0, Head0
  <1>6. TextWorker(r)'
    BY <1>1, <1>2, <1>3 DEF TextWorker, ClosingPlaces, Idle, EndsWith
  <1>7. \A q \in Procs : RunOf(q) = r => EndsWith(todo'[q], MayFollow(mem'[r]))
    BY <1>1 DEF TextInHands
  <1> QED
    BY <1>4, <1>5, <1>6, <1>7 DEF TextInHands

\* What a request may do for a text run.
LEMMA TextSubmission ==
  ASSUME StorageInv, NEW r \in TextRuns, TextInHands(r), Submission(r)
  PROVE  \/ RejectText(r) \/ AcceptText(r) \/ LaunchFails(r) \/ RequestRaises(Handler(r))
         \/ Launch(r) \/ CancelRun(r)
  <1>1. /\ r \notin AudioRuns /\ pc[Handler(r)] \notin AudioPlaces \cup {"mark"}
        /\ pc[Canceller(r)] \notin {"mark", "raised"} /\ ~IsAudioTranscribing(r)
    BY KindAssumption DEF TextInHands, TextHandler, TextCanceller, TextRecords, Transcribing,
       IsAudioTranscribing, AudioPlaces
  <1> QED
    BY <1>1 DEF Submission, CreateTranscribingRun, ReadUpload, UploadTooLarge, CheckCancelled,
       Transcribe, PrepareFails, RejectPrecreated, AcceptPrecreated, MarkCancelled, DispatchToAudio,
       RequestRaises, AtBranch, AudioPlaces

\* A request moves one of its threads, or launches.
LEMMA RequestMoves ==
  ASSUME StorageInv, BootAlone, NEW r \in Runs, (Submit(r) /\ ~Launch(r)) \/ Terminate(r)
  PROVE  /\ \E p \in {Handler(r), Canceller(r)} : Moves(p)
         /\ outcome' = outcome /\ up' = up /\ up = "up"
  <1> DEFINE h == Handler(r)
             c == Canceller(r)
  <1>1. /\ h \in Procs /\ c \in Procs /\ ThreadsOK /\ Inv /\ h[1] # "boot" /\ c[1] # "boot"
    BY RolesOf, InvFacts
  <1>2. UNCHANGED <<mem, row, copy, up, outcome>>
    BY <1>1, SubmissionTypes, WorkerTypes DEF Submit, Terminate, TerminateActive, OnlyThreads, memVars,
       dbVars, workerVars
  <1>3. \E p \in {h, c} : \E s, l : Continue(p, s, l) /\ (pc[p] # "idle" \/ up = "up")
    BY DEF Submit, Submission, RejectText, AcceptText, LaunchFails, CreateTranscribingRun, ReadUpload,
       UploadTooLarge, CheckCancelled, Transcribe, PrepareFails, RejectPrecreated, AcceptPrecreated,
       MarkCancelled, CancelRun, RequestCancel, DispatchToAudio, RequestRaises, Terminate,
       TerminateActive, AtBranch
  <1>4. PICK p \in {h, c} : \E s, l : Continue(p, s, l) /\ (pc[p] # "idle" \/ up = "up")
    BY <1>3
  <1>5. Moves(p)
    BY <1>1, <1>2, <1>4 DEF Moves, Continue, ThreadsOK
  <1>6. up = "up"
    BY <1>1, <1>4 DEF BootAlone, Idle
  <1> QED
    BY <1>2, <1>4, <1>5, <1>6

\* A step of the request that creates a run, or of one that cancels it, keeps EndInv.
LEMMA SubmitEnds ==
  ASSUME StorageInv, EndInv, NEW r \in Runs, Submit(r) \/ Terminate(r)
  PROVE  EndInv'
  <1> DEFINE h == Handler(r)
             w == Worker(r)
             c == Canceller(r)
  <1>1. /\ h \in Procs /\ w \in Procs /\ c \in Procs /\ ThreadsOK /\ BootAlone
        /\ h # w /\ h # c /\ RunOf(h) = r /\ RunOf(c) = r /\ RunOf(w) = r
        /\ h[1] # "boot" /\ w[1] # "boot" /\ c[1] # "boot"
    BY RolesOf, InvFacts DEF EndInv
  <1>2. CASE Submit(r) /\ Launch(r)
    <2>1. /\ todo' = todo /\ pc' = [pc EXCEPT ![h] = "done", ![w] = "begin"]
          /\ UNCHANGED <<mem, row, copy, up, outcome>> /\ ~Idle(h)
      BY <1>2 DEF Submit, Launch, OnlyThreads, memVars, dbVars, workerVars, AtBranch, Idle
    <2>2. \A q \in Procs : RunOf(q) # r => pc'[q] = pc[q]
      BY <1>1, <2>1 DEF ThreadsOK
    <2>3. \A q \in Procs : q # h /\ q # w => pc'[q] = pc[q]
      BY <1>1, <2>1 DEF ThreadsOK
    <2>4. BootAlone'
      BY <1>1, <2>1, <2>3 DEF BootAlone, Idle
    <2>5. ASSUME NEW x \in TextRuns PROVE TextInHands(x)'
      <3>1. x \in Runs /\ TextInHands(x)
        BY KindAssumption DEF EndInv
      <3>2. x # r => Rests(x)
        BY <2>1, <2>2 DEF Rests
      <3> QED BY <1>2, <2>1, <3>1, <3>2, RestingRun, TextLaunch
    <2> QED BY <2>4, <2>5 DEF EndInv
  <1>3. CASE ~(Submit(r) /\ Launch(r))
    <2>1. PICK p \in {h, c} : Moves(p)
      BY <1>1, <1>3, RequestMoves
    <2>2. outcome' = outcome /\ up' = up /\ up = "up"
      BY <1>1, <1>3, RequestMoves
    <2>3. BootAlone'
      BY <1>1, <2>1, <2>2, MovesAlone
    <2>4. \A x \in TextRuns : x # r => TextInHands(x)'
      BY <1>1, <2>1, <2>2, OthersRest DEF OwnMove
    <2>5. r \in TextRuns => TextInHands(r)'
      <3> SUFFICES ASSUME r \in TextRuns PROVE TextInHands(r)'
        OBVIOUS
      <3>1. TextInHands(r)
        BY DEF EndInv
      <3>2. \/ RejectText(r) \/ AcceptText(r) \/ LaunchFails(r) \/ RequestRaises(h)
            \/ CancelRun(r) \/ TerminateActive(r)
        BY <1>3, <3>1, TextSubmission DEF Submit, Terminate
      <3>3. CASE RejectText(r) \/ AcceptText(r) \/ LaunchFails(r) \/ RequestRaises(h)
        <4>1. TextHandler(r)' /\ EndsWith(todo'[h], MayFollow(mem[r]))
              /\ (Next0(h, "put")' => ~Transcribing(todo'[h][1].rec))
          BY <3>1, <3>3, TextHandlerStep
        <4>2. Moves(h) /\ pc[h] # "done"
          BY <1>1, <3>3 DEF RejectText, AcceptText, LaunchFails, RequestRaises, OnlyThreads, memVars,
             dbVars, Moves, Continue, ThreadsOK, AtBranch
        <4>3. Idle(w)
          BY <3>1, <4>2 DEF TextInHands, HandlerBefore, AtBranch
        <4> QED BY <2>2, <3>1, <4>1, <4>2, <4>3, TextHandlerMoves
      <3>4. CASE CancelRun(r) \/ TerminateActive(r)
        <4>1. Moves(c) /\ todo'[c] = <<>> /\ pc'[c] \in {"dispatch", "done"}
          BY <1>1, <3>4 DEF CancelRun, RequestCancel, TerminateActive, OnlyThreads, memVars,
             dbVars, Moves, Continue, ThreadsOK
        <4> QED BY <2>2, <3>1, <4>1, TextCancellerMoves DEF TextCanceller
      <3> QED BY <3>2, <3>3, <3>4
    <2> QED BY <2>3, <2>4, <2>5 DEF EndInv
  <1> QED
    BY <1>2, <1>3

---------------------------------------------------------------------------
(* Calls of the threads of a text run.                                     *)

\* What is left of a script ends as the script did.
LEMMA EndsAfter ==
  ASSUME ThreadsOK, NEW p \in Procs, Perform(p), ~DatabaseFault(p), NEW S, EndsWith(todo[p], S)
  PROVE  EndsWith(todo'[p], S)
  <1>1. PICK k \in {-1, 0, 1} :
           /\ Writing(p, k)
           /\ \A i \in 1 .. Len(todo'[p]) :
                \/ todo'[p][i].do \in Writes
                \/ i - k \in 2 .. Len(todo[p]) /\ todo'[p][i] = todo[p][i - k]
    BY RestOfScript
  <1>2. /\ Len(todo[p]) \in Nat \ {0} /\ Len(todo'[p]) = Len(todo[p]) + k
        /\ "status" \notin Writes
    BY <1>1, ScriptAfter DEF Writing, Writes
  <1>3. ASSUME NEW i \in 1 .. Len(todo'[p]), todo'[p][i].do = "status"
        PROVE  i = Len(todo'[p]) /\ todo'[p][i].rec.status \in S
    <2>1. i - k \in 2 .. Len(todo[p]) /\ todo'[p][i] = todo[p][i - k]
      BY <1>1, <1>2, <1>3
    <2>2. i - k \in 1 .. Len(todo[p])
      BY <1>2, <2>1
    <2>3. i - k = Len(todo[p]) /\ todo[p][i - k].rec.status \in S
      BY <1>3, <2>1, <2>2 DEF EndsWith
    <2> QED BY <1>2, <2>1, <2>3
  <1> QED
    BY <1>3 DEF EndsWith

\* A status that is set is one of those the script may set, and the last.
LEMMA StatusEffect ==
  ASSUME StorageInv, NEW p \in Procs, SetRunStatus(p), NEW S, EndsWith(todo[p], S)
  PROVE  /\ mem'[RunOf(p)].status \in S
         /\ row' = row
         /\ \A T : EndsWith(todo'[p], T)
  <1> DEFINE r == RunOf(p)
  <1>1. /\ ThreadsOK /\ StateTypeOK /\ r \in Runs /\ Perform(p) /\ ~DatabaseFault(p)
        /\ todo[p] # <<>> /\ todo[p][1].do = "status" /\ row' = row
    BY InvFacts DEF Perform, SetRunStatus, DatabaseFault, Next0, Head0, Writes, dbVars
  <1>2. Len(todo[p]) \in Nat \ {0} /\ Head0(p) \in Op
    BY <1>1, ScriptAfter, NextCall
  <1>3. 1 = Len(todo[p]) /\ Head0(p).rec.status \in S
    <2>1. 1 \in 1 .. Len(todo[p])
      BY <1>2
    <2> QED BY <1>1, <2>1 DEF EndsWith, Head0
  <1>4. mem'[r].status = Head0(p).rec.status
    <2>1. Head0(p).rec \in RunRec
      BY <1>2 DEF Op
    <2>2. PICK b : mem'[r] = [Head0(p).rec EXCEPT !.pending = b]
      BY <1>1 DEF SetRunStatus, StatusInMemory, StateTypeOK
    <2> QED BY <2>1, <2>2 DEF RunRec
  <1>5. PICK k \in {-1, 0, 1} : \A i \in 1 .. Len(todo'[p]) :
             \/ todo'[p][i].do \in Writes
             \/ i - k \in 2 .. Len(todo[p]) /\ todo'[p][i] = todo[p][i - k]
    BY <1>1, RestOfScript
  <1>6. \A i \in 1 .. Len(todo'[p]) : todo'[p][i].do # "status"
    <2>1. \A j : j \notin 2 .. 1
      OBVIOUS
    <2> QED BY <1>3, <1>5, <2>1 DEF Writes
  <1> QED
    BY <1>1, <1>3, <1>4, <1>6 DEF EndsWith

\* While a thread of a text run makes a call, the others have none to make.
LEMMA TextAlone ==
  ASSUME StorageInv, BootAlone, NEW p \in Procs, todo[p] # <<>>, RunOf(p) \in TextRuns,
         TextInHands(RunOf(p))
  PROVE  LET r == RunOf(p) IN
         /\ p \in {Handler(r), Worker(r), Boot(r)}
         /\ \A q \in Procs \ {p} : RunOf(q) = r => todo[q] = <<>>
         /\ p = Worker(r) => AtBranch(Handler(r), "done")
         /\ p # Worker(r) => Idle(Worker(r))
         /\ p = Boot(r) => Idle(Handler(r))
  <1> DEFINE r == RunOf(p)
             h == Handler(r)
             w == Worker(r)
             c == Canceller(r)
             b == Boot(r)
  <1>1. /\ r \in Runs /\ p \in {h, w, c, b}
        /\ h \in Procs /\ w \in Procs /\ c \in Procs /\ b \in Procs
        /\ h[1] # "boot" /\ w[1] # "boot" /\ c[1] # "boot" /\ b[1] = "boot"
        /\ h # w /\ h # b /\ w # b
    BY ProcOf, RolesOf
  <1>2. todo[c] = <<>> /\ HandlerBefore(r)
    BY DEF TextInHands, TextCanceller
  <1>3. \A q \in Procs : RunOf(q) = r => q \in {h, w, c, b}
    BY ProcOf
  <1>4. CASE p = h
    <2>1. up = "up" /\ todo[b] = <<>>
      BY <1>1, <1>4 DEF BootAlone, Idle
    <2>2. Idle(w)
      BY <1>2, <1>4 DEF HandlerBefore, AtBranch
    <2> QED BY <1>1, <1>2, <1>3, <1>4, <2>1, <2>2 DEF Idle
  <1>5. CASE p = w
    <2>1. up = "up" /\ todo[b] = <<>>
      BY <1>1, <1>5 DEF BootAlone, Idle
    <2>2. AtBranch(h, "done")
      BY <1>2, <1>5 DEF HandlerBefore, Idle
    <2> QED BY <1>1, <1>2, <1>3, <1>5, <2>1, <2>2 DEF AtBranch
  <1>6. CASE p = b
    <2>1. up = "booting"
      BY <1>1, <1>6 DEF BootAlone
    <2>2. Idle(w) /\ Idle(h)
      BY <1>1, <2>1 DEF BootAlone
    <2> QED BY <1>1, <1>2, <1>3, <1>6, <2>2 DEF Idle
  <1> QED
    BY <1>1, <1>2, <1>4, <1>5, <1>6

\* Every call of a text run's thread keeps it so: memory gets an end that may
\* follow, the row gets what memory says.
LEMMA CallEnds ==
  ASSUME StorageInv, StorageInv', EndInv, NEW p \in Procs, PerformStep(p), ~DatabaseFault(p),
         RunOf(p) \in TextRuns
  PROVE  TextInHands(RunOf(p))'
  <1> DEFINE r == RunOf(p)
             h == Handler(r)
             w == Worker(r)
             c == Canceller(r)
             b == Boot(r)
  <1>1. /\ Perform(p) /\ r \in Runs /\ r \notin AudioRuns /\ ThreadsOK /\ StateTypeOK
        /\ ThreadOK(p) /\ ThreadOK(p)' /\ RecordOK(r) /\ TextInHands(r) /\ BootAlone
        /\ h \in Procs /\ w \in Procs /\ c \in Procs /\ b \in Procs
        /\ h # w /\ h # c /\ h # b /\ w # c /\ RunOf(h) = r /\ RunOf(c) = r /\ RunOf(w) = r
    <2>1. StorageInv' => ThreadOK(p)'
      BY DEF StorageInv
    <2> QED BY <2>1, InvFacts, RolesOf, KindAssumption DEF PerformStep, EndInv
  <1>2. /\ pc' = pc /\ up' = up /\ outcome' = outcome
        /\ \A q \in Procs \ {p} : todo'[q] = todo[q] /\ copy'[q] = copy[q]
        /\ todo[p] # <<>>
    BY CallFrame
  <1>3. /\ p \in {h, w, b}
        /\ \A q \in Procs \ {p} : RunOf(q) = r => todo[q] = <<>>
        /\ p = w => AtBranch(h, "done")
        /\ p # w => Idle(w)
        /\ p = b => Idle(h)
    BY <1>1, <1>2, TextAlone
  <1>4. /\ \/ PutRun(p) /\ p = h /\ mem'[r] = Head0(p).rec
           \/ SetRunStatus(p)
           \/ ~PutRun(p) /\ ~UpdateMeta(p) /\ ~SetRunStatus(p) /\ mem' = mem
        /\ Known(mem'[r])
        /\ copy'[p] \in {copy[p], mem[r], mem'[r]}
        /\ row'[r] \in {row[r], copy[p]}
    BY <1>1, CallRecords
  <1>5. ~Next0(p, "put")'
    BY <1>1, StoredNow
  <1>6. /\ \A S : EndsWith(todo[p], S) => EndsWith(todo'[p], S)
        /\ EndsWith(todo[p], MayFollow(mem[r]))
        /\ \A S : EndsWith(todo[p], {}) => EndsWith(todo'[p], S)
    <2>1. \A S : EndsWith(todo[p], S) => EndsWith(todo'[p], S)
      BY <1>1, EndsAfter
    <2>2. \A S, s : EndsWith(s, {}) => EndsWith(s, S)
      BY DEF EndsWith
    <2> QED BY <1>1, <2>1, <2>2 DEF TextInHands
  <1>7. /\ SetRunStatus(p) => /\ \A S : EndsWith(todo[p], S) => mem'[r].status \in S
                              /\ row' = row /\ \A S : EndsWith(todo'[p], S)
        /\ PutRun(p) => EndsWith(todo[p], {}) /\ ~Terminal(row[r]) /\ row' = row /\ Next0(p, "put")
    <2>1. SetRunStatus(p) => \A S : EndsWith(todo[p], S) =>
             mem'[r].status \in S /\ row' = row /\ \A T : EndsWith(todo'[p], T)
      BY StatusEffect
    <2>2. PutRun(p) => EndsWith(todo[p], {})
      BY <1>1 DEF PutRun, ThreadOK, MetaIsAudio, EndsWith
    <2>3. PutRun(p) => ~Terminal(row[r])
      BY <1>1, InvFacts, CallerKnown DEF Unknown, Known, Terminal, TerminalStatuses
    <2>4. PutRun(p) => row' = row /\ Next0(p, "put")
      BY DEF PutRun, dbVars
    <2> QED BY <1>6, <2>1, <2>2, <2>3, <2>4
  <1>8. Terminal(mem'[r]) => SetRunStatus(p) \/ PutRun(p) \/ Terminal(mem[r])
    BY <1>4
  <1>9. HandlerBefore(r)' /\ TextCanceller(r)'
    BY <1>1, <1>2, <1>3 DEF TextInHands, HandlerBefore, TextCanceller, Idle, AtBranch
  <1>10. TextRecords(r)'
    <2>1. ~Transcribing(mem[r]) /\ ~Transcribing(row[r]) /\ ~Transcribing(copy[p])
      BY <1>1 DEF TextInHands, TextRecords
    <2>2. ~Transcribing(mem'[r])
      <3>1. PutRun(p) => ~Transcribing(Head0(p).rec)
        BY <1>1, <1>7 DEF TextInHands, TextRecords
      <3>2. SetRunStatus(p) => ~Live(mem'[r])
        BY <1>1, CallRecords DEF SetRunStatus, PutRun, UpdateMeta, Next0
      <3> QED BY <1>4, <2>1, <3>1, <3>2 DEF Transcribing
    <2>3. ~Transcribing(row'[r]) /\ ~Transcribing(copy'[p])
      BY <1>4, <2>1, <2>2
    <2>4. \A q \in Procs \ {p} : RunOf(q) = r => ~Transcribing(copy'[q]) /\ ~Next0(q, "put")'
      BY <1>1, <1>2, <1>3 DEF TextInHands, TextRecords, Next0
    <2> QED BY <1>5, <2>2, <2>3, <2>4 DEF TextRecords
  <1>11. TextWorker(r)'
    <2>1. TextWorker(r) /\ (pc[w] \in OpenPlaces \cup ClosingPlaces => p = w)
      BY <1>1, <1>3 DEF TextInHands, Idle, OpenPlaces, ClosingPlaces
    <2>2. ASSUME pc[w] \in OpenPlaces PROVE EndsWith(todo'[w], {}) /\ ~Terminal(mem'[r])
      <3>1. EndsWith(todo[p], {}) /\ ~Terminal(mem[r]) /\ p = w
        BY <2>1, <2>2 DEF TextWorker
      <3>2. ~SetRunStatus(p) /\ ~PutRun(p)
        BY <1>1, <1>4, <1>7, <3>1 DEF PutRun, SetRunStatus, Next0
      <3> QED BY <1>6, <1>8, <3>1, <3>2
    <2>3. ASSUME pc[w] \in ClosingPlaces
          PROVE  /\ EndsWith(todo'[w], Help(r))
                 /\ Terminal(mem'[r]) => mem'[r].status \in Help(r)
      <3>1. /\ EndsWith(todo[p], Help(r)) /\ p = w
            /\ Terminal(mem[r]) => mem[r].status \in Help(r)
        BY <2>1, <2>3 DEF TextWorker
      <3>2. ~PutRun(p)
        BY <1>1, <1>4, <3>1 DEF PutRun, SetRunStatus, Next0
      <3> QED BY <1>4, <1>6, <1>7, <3>1, <3>2
    <2>4. Help(r)' = Help(r)
      BY <1>2 DEF Help
    <2> QED BY <1>2, <2>2, <2>3, <2>4 DEF TextWorker
  <1>12. TextHandler(r)'
    <2>1. TextHandler(r)
      BY <1>1 DEF TextInHands
    <2>2. ASSUME pc[h] = "launch"
          PROVE  EndsWith(todo'[h], {}) /\ ~Terminal(mem'[r]) /\ ~Next0(h, "put")'
      <3>1. p = h
        BY <1>3, <2>2 DEF AtBranch, Idle
      <3>2. /\ EndsWith(todo[p], {}) /\ ~Terminal(mem[r])
            /\ Next0(p, "put") => Live(Head0(p).rec)
        BY <2>1, <2>2, <3>1 DEF TextHandler
      <3>3. ~SetRunStatus(p)
        BY <1>7, <3>2
      <3>4. PutRun(p) => ~Terminal(mem'[r])
        BY <1>4, <1>7, <3>2, <3>3 DEF Live, Terminal, TerminalStatuses
      <3> QED BY <1>5, <1>6, <1>8, <3>1, <3>2, <3>3, <3>4
    <2>3. ASSUME Next0(h, "upsert")' PROVE copy'[h] = mem'[r]
      <3>1. p = h
        BY <1>1, <1>2, <1>3, <2>3 DEF Next0
      <3>2. p \notin holder'
        BY <1>1, <2>3, <3>1 DEF ThreadOK, MetaIsAudio
      <3>3. ReadRecord(p)
        BY <2>3, <3>1, <3>2, WritersAfter
      <3> QED BY <1>1, <3>1, <3>3 DEF ReadRecord, memVars, StateTypeOK
    <2> QED BY <1>2, <2>1, <2>2, <2>3 DEF TextHandler
  <1>13. RowEndFollows(r)'
    <2> SUFFICES ASSUME Terminal(row'[r]) PROVE EndFollows(row'[r].status, mem'[r].status)
      BY DEF RowEndFollows
    <2>1. CASE UpsertRow(p) \/ UpdateRow(p)
      <3>1. copy[p] = mem[r]
        <4>1. CASE p \in holder
          BY <1>1, <2>1, <4>1 DEF ThreadOK, WritesMemory, WritesRecord, UpsertRow, UpdateRow
        <4>2. CASE p \notin holder
          <5>1. Next0(p, "upsert") /\ p[1] = "handler"
            BY <1>1, <2>1, <4>2, StepShape DEF ThreadOK, UpsertRow, UpdateRow
          <5>2. p = h
            BY <5>1, ProcOf
          <5> QED BY <1>1, <5>1, <5>2 DEF TextInHands, TextHandler
        <4> QED BY <4>1, <4>2
      <3>2. mem' = mem /\ Known(mem[r])
        BY <1>4, <2>1 DEF UpsertRow, UpdateRow, PutRun, SetRunStatus, Next0
      <3>3. row'[r] = mem[r] \/ row'[r] = row[r]
        BY <1>4, <3>1
      <3> QED BY <1>1, <3>2, <3>3 DEF TextInHands, RowEndFollows, EndFollows
    <2>2. CASE SetRunStatus(p)
      <3>1. row' = row /\ mem'[r].status \in MayFollow(mem[r]) /\ Terminal(row[r])
        BY <1>6, <1>7, <2>2
      <3>2. Known(mem[r])
        BY <1>1, <2>2, InvFacts, CallerKnown DEF SetRunStatus, PutRun, Next0
      <3>3. Terminal(mem[r]) /\ EndFollows(row[r].status, mem[r].status)
        BY <1>1, <3>1, <3>2 DEF RecordOK, RowNotAhead, TextInHands, RowEndFollows
      <3>4. mem[r].status = "blocked" /\ mem'[r].status \in {"blocked", "cancelled"}
        BY <3>1, <3>3 DEF MayFollow
      <3> QED BY <3>1, <3>3, <3>4 DEF EndFollows
    <2>3. CASE ~UpsertRow(p) /\ ~UpdateRow(p) /\ ~SetRunStatus(p)
      <3>1. row' = row /\ ~PutRun(p)
        BY <1>1, <1>7, <2>3, CallEffect
      <3>2. mem' = mem
        BY <1>4, <2>3, <3>1
      <3>3. Known(mem[r])
        BY <1>4, <3>2
      <3> QED BY <1>1, <3>1, <3>2, <3>3 DEF TextInHands, RowEndFollows
    <2> QED BY <2>1, <2>2, <2>3
  <1>14. \A q \in Procs : RunOf(q) = r => EndsWith(todo'[q], MayFollow(mem'[r]))
    <2>1. \A q \in Procs \ {p} : RunOf(q) = r => EndsWith(todo'[q], MayFollow(mem'[r]))
      BY <1>2, <1>3 DEF EndsWith
    <2>2. EndsWith(todo'[p], MayFollow(mem'[r]))
      BY <1>4, <1>6, <1>7
    <2> QED BY <2>1, <2>2
  <1> QED
    BY <1>9, <1>10, <1>11, <1>12, <1>13, <1>14 DEF TextInHands

\* A call of a script that does not raise keeps EndInv.
LEMMA PerformEnds ==
  ASSUME StorageInv, StorageInv', EndInv, NEW p \in Procs, PerformStep(p), ~DatabaseFault(p)
  PROVE  EndInv'
  <1>1. /\ pc' = pc /\ up' = up /\ outcome' = outcome
        /\ \A q \in Procs \ {p} : todo'[q] = todo[q] /\ copy'[q] = copy[q]
        /\ \A x \in Runs \ {RunOf(p)} : mem'[x] = mem[x] /\ row'[x] = row[x]
        /\ todo[p] # <<>>
    BY CallFrame
  <1>2. BootAlone'
    BY <1>1 DEF EndInv, BootAlone, Idle
  <1>3. ASSUME NEW x \in TextRuns PROVE TextInHands(x)'
    <2>1. x \in Runs /\ TextInHands(x)
      BY KindAssumption DEF EndInv
    <2>2. CASE x = RunOf(p)
      BY <2>2, CallEnds
    <2>3. CASE x # RunOf(p)
      <3>1. Rests(x)
        BY <1>1, <2>1, <2>3 DEF Rests
      <3> QED BY <2>1, <3>1, RestingRun
    <2> QED BY <2>2, <2>3
  <1> QED
    BY <1>2, <1>3 DEF EndInv

\* A boot thread moves.
LEMMA TextBootMoves ==
  ASSUME NEW r \in Runs, TextInHands(r), Moves(Boot(r)), outcome'[r] = outcome[r],
         todo'[Boot(r)] = <<>>
  PROVE  TextInHands(r)'
  <1> DEFINE b == Boot(r)
  <1>1. \A q \in Procs \ {b} : todo'[q] = todo[q] /\ pc'[q] = pc[q]
    BY DEF Moves
  <1>2. /\ todo'[Worker(r)] = todo[Worker(r)] /\ pc'[Worker(r)] = pc[Worker(r)]
        /\ todo'[Handler(r)] = todo[Handler(r)] /\ pc'[Handler(r)] = pc[Handler(r)]
        /\ todo'[Canceller(r)] = todo[Canceller(r)] /\ pc'[Canceller(r)] = pc[Canceller(r)]
    BY <1>1, RolesOf
  <1>3. HandlerBefore(r)' /\ TextHandler(r)' /\ TextCanceller(r)'
    BY <1>2 DEF TextInHands, HandlerBefore, TextHandler, TextCanceller, Idle, AtBranch, Next0, Head0,
       Moves
  <1>4. TextRecords(r)' /\ RowEndFollows(r)'
    BY <1>1 DEF TextInHands, TextRecords, RowEndFollows, Moves, Next0, Head0
  <1>5. TextWorker(r)'
    BY <1>2 DEF TextInHands, TextWorker, Help, Moves
  <1>6. \A q \in Procs : RunOf(q) = r => EndsWith(todo'[q], MayFollow(mem'[r]))
    BY <1>1 DEF TextInHands, Moves, EndsWith
  <1> QED
    BY <1>3, <1>4, <1>5, <1>6 DEF TextInHands

\* A thread whose write raises leaves its run as it is.
LEMMA FaultEnds ==
  ASSUME StorageInv, EndInv, NEW p \in Procs, PerformStep(p), DatabaseFault(p)
  PROVE  EndInv'
  <1> DEFINE r == RunOf(p)
  <1>1. /\ ThreadsOK /\ r \in Runs /\ BootAlone /\ todo[p] # <<>>
        /\ p[1] = "boot" <=> p = Boot(r)
    BY InvFacts, ProcOf DEF EndInv, DatabaseFault, Next0
  <1>2. /\ todo'[p] = <<>> /\ pc'[p] \in {"done", "raised"}
        /\ \A q \in Procs \ {p} : todo'[q] = todo[q] /\ pc'[q] = pc[q]
        /\ UNCHANGED <<mem, row, copy, up, outcome>>
    BY <1>1 DEF PerformStep, DatabaseFault, Continue, ThreadsOK, memVars, dbVars, workerVars
  <1>3. Moves(p) /\ OwnMove(p)
    BY <1>2 DEF Moves, OwnMove
  <1>4. BootAlone'
    BY <1>1, <1>2 DEF BootAlone, Idle
  <1>5. \A x \in TextRuns : x # r => TextInHands(x)'
    BY <1>3, OthersRest
  <1>6. r \in TextRuns => TextInHands(r)'
    <2> SUFFICES ASSUME r \in TextRuns PROVE TextInHands(r)'
      OBVIOUS
    <2>1. TextInHands(r)
      BY DEF EndInv
    <2>2. /\ p \in {Handler(r), Worker(r), Boot(r)}
          /\ p # Worker(r) => Idle(Worker(r))
      BY <1>1, <2>1, TextAlone
    <2>3. /\ EndsWith(todo'[p], MayFollow(mem[r])) /\ ~Next0(p, "put")' /\ ~Idle(p)
          /\ pc'[p] \notin OpenPlaces /\ pc'[p] \notin ClosingPlaces
      BY <1>1, <1>2 DEF EndsWith, Next0, Idle, OpenPlaces, ClosingPlaces
    <2>4. CASE p = Handler(r)
      <3>1. TextHandler(r)' /\ Idle(Worker(r))
        BY <1>1, <1>2, <2>2, <2>4, RolesOf DEF TextHandler, Next0
      <3> QED BY <1>1, <1>2, <1>3, <2>1, <2>3, <2>4, <3>1, TextHandlerMoves
    <2>5. CASE p = Worker(r)
      <3>1. TextWorker(r)'
        BY <2>3, <2>5 DEF TextWorker
      <3> QED BY <1>1, <1>3, <2>1, <2>3, <2>5, <3>1, TextWorkerMoves
    <2>6. CASE p = Boot(r)
      BY <1>1, <1>2, <1>3, <2>1, <2>6, TextBootMoves
    <2> QED BY <2>2, <2>4, <2>5, <2>6
  <1> QED
    BY <1>4, <1>5, <1>6 DEF EndInv

\* Nobody works for a run.
LEMMA NobodyEnds ==
  ASSUME NEW r \in Runs, \A q \in Procs : RunOf(q) = r => Idle(q)',
         \A q \in Procs : RunOf(q) = r => ~Transcribing(copy'[q]),
         ~Transcribing(mem'[r]), ~Transcribing(row'[r]), RowEndFollows(r)'
  PROVE  TextInHands(r)'
  <1>1. /\ Idle(Handler(r))' /\ Idle(Worker(r))' /\ Idle(Canceller(r))'
    BY RolesOf
  <1>2. HandlerBefore(r)' /\ TextHandler(r)' /\ TextCanceller(r)' /\ TextWorker(r)'
    BY <1>1 DEF HandlerBefore, TextHandler, TextCanceller, TextWorker, Idle, Next0, OpenPlaces,
       ClosingPlaces
  <1>3. TextRecords(r)' /\ \A q \in Procs : RunOf(q) = r => EndsWith(todo'[q], MayFollow(mem'[r]))
    BY DEF TextRecords, Idle, Next0, EndsWith
  <1> QED
    BY <1>2, <1>3 DEF TextInHands

\* get_run finds a run that nobody works for.
LEMMA LoadEnds ==
  ASSUME StorageInv, EndInv, NEW r \in Runs, Load(r)
  PROVE  EndInv'
  <1>1. /\ todo' = todo /\ pc' = pc /\ copy' = copy /\ row' = row /\ up' = up /\ outcome' = outcome
        /\ ~Known(mem[r]) /\ Known(row[r]) /\ mem'[r] = row[r]
        /\ \A x \in Runs \ {r} : mem'[x] = mem[x]
        /\ Inv
    BY InvFacts DEF Load, GetRun, dbVars, submitVars, workerVars, StateTypeOK
  <1>2. BootAlone'
    BY <1>1 DEF EndInv, BootAlone, Idle
  <1>3. ASSUME NEW x \in TextRuns PROVE TextInHands(x)'
    <2>1. x \in Runs /\ TextInHands(x)
      BY KindAssumption DEF EndInv
    <2>2. CASE x # r
      <3>1. Rests(x)
        BY <1>1, <2>1, <2>2 DEF Rests
      <3> QED BY <2>1, <3>1, RestingRun
    <2>3. CASE x = r
      <3>1. \A q \in Procs : RunOf(q) = x => Idle(q)
        BY <1>1, <2>3 DEF Inv, QuietUntilStored, OpensNew, Unknown
      <3>2. \A q \in Procs : RunOf(q) = x => Idle(q)' /\ ~Transcribing(copy'[q])
        BY <1>1, <2>1, <3>1 DEF TextInHands, TextRecords, Idle
      <3>3. ~Transcribing(mem'[x]) /\ ~Transcribing(row'[x])
        BY <1>1, <2>1, <2>3 DEF TextInHands, TextRecords
      <3>4. RowEndFollows(x)'
        BY <1>1, <2>3 DEF RowEndFollows, EndFollows
      <3> QED BY <2>1, <3>2, <3>3, <3>4, NobodyEnds
    <2> QED BY <2>2, <2>3
  <1> QED
    BY <1>2, <1>3 DEF EndInv

\* Reconciliation closes a run that is not over.
LEMMA ReconcileEnds ==
  ASSUME StorageInv, EndInv, NEW r \in Runs, Reconcile(r)
  PROVE  EndInv'
  <1> DEFINE b == Boot(r)
             s == <<Emit("activity"), Emit("run.failed"), SetStatus("failed")>>
  <1>1. /\ b \in Procs /\ ThreadsOK /\ StateTypeOK /\ b[1] = "boot" /\ RunOf(b) = r
        /\ \A q \in Procs : q[1] = "boot" /\ RunOf(q) = r => q = b
    BY InvFacts, RolesOf, ProcOf
  <1>2. /\ copy' = copy /\ row' = row /\ up' = up /\ up = "booting" /\ outcome' = outcome
        /\ mem'[r] = row[r] /\ \A x \in Runs \ {r} : mem'[x] = mem[x]
        /\ todo'[b] = s /\ Live(row[r])
        /\ \A q \in Procs \ {b} : todo'[q] = todo[q] /\ pc'[q] = pc[q]
    BY <1>1 DEF Reconcile, ReconcileRun, Interrupted, Boot, Continue, dbVars, workerVars, StateTypeOK,
       ThreadsOK
  <1>3. \A q \in Procs : q[1] # "boot" => Idle(q)
    BY <1>2 DEF EndInv, BootAlone
  <1>4. s[1].do # "put" /\ EndsWith(s, TerminalStatuses)
    <2>1. SetStatus("failed").rec.status \in TerminalStatuses
      BY DEF SetStatus, Record, TerminalStatuses
    <2>2. EndsWith(s, TerminalStatuses)
      BY <2>1, EndScripts
    <2> QED BY <2>2 DEF Emit
  <1> HIDE DEF s
  <1>5. BootAlone'
    BY <1>1, <1>2, <1>3 DEF EndInv, BootAlone, Idle
  <1>6. ASSUME NEW x \in TextRuns PROVE TextInHands(x)'
    <2>1. x \in Runs /\ TextInHands(x)
      BY KindAssumption DEF EndInv
    <2>2. CASE x # r
      <3>1. Rests(x)
        BY <1>1, <1>2, <2>1, <2>2 DEF Rests
      <3> QED BY <2>1, <3>1, RestingRun
    <2>3. CASE x = r
      <3>1. /\ Idle(Handler(r))' /\ Idle(Worker(r))' /\ Idle(Canceller(r))'
        BY <1>1, <1>2, <1>3, RolesOf DEF Idle
      <3>2. HandlerBefore(r)' /\ TextHandler(r)' /\ TextCanceller(r)' /\ TextWorker(r)'
        BY <3>1 DEF HandlerBefore, TextHandler, TextCanceller, TextWorker, Idle, Next0, OpenPlaces,
           ClosingPlaces
      <3>3. TextRecords(r)' /\ RowEndFollows(r)'
        BY <1>1, <1>2, <1>3, <1>4, <2>1, <2>3 DEF TextInHands, TextRecords, RowEndFollows, EndFollows,
           Next0, Head0, Idle
      <3>4. MayFollow(mem'[r]) = TerminalStatuses
        BY <1>2 DEF MayFollow, Live, Terminal, TerminalStatuses
      <3>5. \A q \in Procs : RunOf(q) = r => EndsWith(todo'[q], MayFollow(mem'[r]))
        BY <1>1, <1>2, <1>3, <1>4, <3>4 DEF Idle, EndsWith
      <3> QED BY <2>3, <3>2, <3>3, <3>5 DEF TextInHands
    <2> QED BY <2>2, <2>3
  <1> QED
    BY <1>5, <1>6 DEF EndInv

\* The death of the backend leaves the rows, and nobody to contradict them.
LEMMA DieEnds ==
  ASSUME EndInv, Die
  PROVE  EndInv'
  <1>1. /\ \A q \in Procs : todo'[q] = <<>> /\ pc'[q] = "idle" /\ copy'[q] = Absent
        /\ \A x \in Runs : mem'[x] = Absent
        /\ row' = row
    BY DEF Die, LoseMemory, dbVars
  <1>2. ~Known(Absent) /\ ~Transcribing(Absent)
    BY DEF Known, Absent, Transcribing
  <1>3. BootAlone'
    BY <1>1 DEF BootAlone, Idle
  <1>4. ASSUME NEW x \in TextRuns PROVE TextInHands(x)'
    <2>1. x \in Runs /\ TextRecords(x)
      BY KindAssumption DEF EndInv, TextInHands
    <2>2. ~Transcribing(row'[x]) /\ RowEndFollows(x)'
      BY <1>1, <1>2, <2>1 DEF TextRecords, RowEndFollows
    <2> QED BY <1>1, <1>2, <2>1, <2>2, NobodyEnds DEF Idle
  <1> QED
    BY <1>3, <1>4 DEF EndInv

\* Steps that leave runs and threads alone.
LEMMA QuietEnds ==
  ASSUME EndInv, UNCHANGED <<mem, row, copy, todo, pc, outcome>>,
         up' = up \/ (up # "up" /\ \A q \in Procs : todo[q] = <<>>)
  PROVE  EndInv'
  <1>1. BootAlone'
    BY DEF EndInv, BootAlone, Idle
  <1>2. ASSUME NEW x \in TextRuns PROVE TextInHands(x)'
    <2>1. x \in Runs /\ TextInHands(x) /\ Rests(x)
      BY KindAssumption DEF EndInv, Rests
    <2> QED BY <2>1, RestingRun
  <1> QED
    BY <1>1, <1>2 DEF EndInv

\* EndInv holds at the beginning.
LEMMA InitEnds == Init => EndInv
  <1> SUFFICES ASSUME Init PROVE EndInv
    OBVIOUS
  <1>1. /\ \A q \in Procs : todo[q] = <<>> /\ pc[q] = "idle" /\ copy[q] = Absent
        /\ \A x \in Runs : mem[x] = Absent /\ row[x] = Absent
    BY DEF Init, Init0
  <1>2. ~Known(Absent) /\ ~Transcribing(Absent)
    BY DEF Known, Absent, Transcribing
  <1>3. ASSUME NEW x \in TextRuns PROVE TextInHands(x)
    <2>1. x \in Runs /\ Handler(x) \in Procs /\ Worker(x) \in Procs /\ Canceller(x) \in Procs
      BY RolesOf, KindAssumption
    <2>2. HandlerBefore(x) /\ TextHandler(x) /\ TextCanceller(x) /\ TextWorker(x)
      BY <1>1, <2>1 DEF HandlerBefore, TextHandler, TextCanceller, TextWorker, Idle, Next0, OpenPlaces,
         ClosingPlaces
    <2>3. TextRecords(x) /\ RowEndFollows(x)
      BY <1>1, <1>2, <2>1 DEF TextRecords, RowEndFollows, Next0
    <2>4. \A q \in Procs : RunOf(q) = x => EndsWith(todo[q], MayFollow(mem[x]))
      BY <1>1 DEF EndsWith
    <2> QED BY <2>2, <2>3, <2>4 DEF TextInHands
  <1> QED
    BY <1>1, <1>3 DEF EndInv, BootAlone, Idle

\* Every step keeps EndInv, those included that raise or kill the backend.
LEMMA NextEnds == StorageInv /\ EndInv /\ [Next]_vars => EndInv'
  <1> SUFFICES ASSUME StorageInv, EndInv, [Next]_vars PROVE EndInv'
    OBVIOUS
  <1>1. StorageInv'
    BY NextStorage
  <1>2. CASE UNCHANGED vars
    BY <1>2, QuietEnds DEF vars, allVars, stateVars, workerVars
  <1>3. ASSUME NEW r \in Runs, Exit(r) PROVE EndInv'
    BY <1>3, QuietEnds DEF Exit, ProcessExits, stateVars
  <1>4. ASSUME NEW r \in Runs, BootRaises(r) PROVE EndInv'
    BY <1>4, DieEnds DEF BootRaises
  <1>5. ASSUME Restart \/ Serve PROVE EndInv'
    <2>1. CASE Serve
      BY <2>1, QuietEnds DEF Serve, memVars, dbVars, workerVars
    <2>2. CASE Restart
      <3>1. UNCHANGED <<mem, row, copy, todo, pc, outcome>> /\ up = "down"
        BY <2>2 DEF Restart, memVars, dbVars, workerVars
      <3>2. \A q \in Procs : todo[q] = <<>>
        BY <3>1 DEF EndInv, BootAlone, Idle
      <3> QED BY <3>1, <3>2, QuietEnds
    <2> QED BY <1>5, <2>1, <2>2
  <1>6. Crash => EndInv'
    BY DieEnds DEF Crash
  <1> QED
    BY <1>1, <1>2, <1>3, <1>4, <1>5, <1>6, PerformEnds, FaultEnds, SubmitEnds, WorkEnds, LoadEnds,
       ReconcileEnds DEF Next

\* Only what memory says of a finished run replaces what the row says.
LEMMA EndStep ==
  ASSUME StorageInv, EndInv, Next, NEW r \in TextRuns, Terminal(row[r])
  PROVE  EndFollows(row[r].status, row'[r].status)
  <1>1. /\ r \in Runs /\ r \notin AudioRuns /\ StateTypeOK /\ Inv /\ RowEndFollows(r)
        /\ Terminal(row[r]) => Known(row[r])
    BY InvFacts, KindAssumption DEF EndInv, TextInHands, Terminal, TerminalStatuses, Known
  <1>2. ASSUME NEW p \in Procs, UpsertRow(p) \/ UpdateRow(p), RunOf(p) = r
        PROVE  EndFollows(row[r].status, row'[r].status)
    <2>1. ThreadOK(p) /\ ThreadsOK /\ todo[p] \in Seq(Op) /\ Perform(p) /\ ~PutRun(p) /\ WritesRecord(p)
      BY <1>2, InvFacts DEF ThreadsOK, Perform, PutRun, UpsertRow, UpdateRow, Next0, WritesRecord
    <2>2. p \in holder
      <3>1. ASSUME p \notin holder PROVE FALSE
        <4>1. Next0(p, "upsert")
          BY <1>2, <2>1, <3>1, StepShape DEF ThreadOK, UpsertRow, UpdateRow
        <4>2. Inserts(p)
          BY <3>1, <4>1, StorePlaces
        <4> QED BY <1>1, <1>2, <2>1, <4>2 DEF ThreadOK, InsertsFirst
      <3> QED BY <3>1
    <2>3. copy[p] = mem[r] /\ Known(mem[r])
      BY <1>1, <1>2, <2>1, <2>2, CallerKnown DEF ThreadOK, WritesMemory
    <2>4. row'[r] \in {row[r], mem[r]}
      BY <1>1, <1>2, <2>3 DEF UpsertRow, UpdateRow, StateTypeOK
    <2> QED BY <1>1, <2>3, <2>4 DEF RowEndFollows, EndFollows
  <1>3. ASSUME NEW p \in Procs, UpsertRow(p) \/ UpdateRow(p), RunOf(p) # r
        PROVE  row'[r] = row[r]
    BY <1>1, <1>3 DEF UpsertRow, UpdateRow, StateTypeOK
  <1> QED
    BY <1>2, <1>3, DatabaseSteps DEF EndFollows

\* How a text run ends is known for good, whatever writes raise and however
\* often the backend dies, in any order of the worker, the net under it, the
\* finalizer, reconciliation and cancels: its row keeps the end it got, but
\* that a cancel may still take the place of a request for the user's help.
THEOREM EndsStay == Spec => OnlyBlockedIsReplaced
  <1>1. StorageInv /\ EndInv /\ [Next]_vars =>
          [\A r \in TextRuns : Terminal(row[r]) =>
              \/ row'[r].status = row[r].status
              \/ row[r].status = "blocked" /\ row'[r].status = "cancelled"]_vars
    BY EndStep DEF EndFollows
  <1>2. Spec => [](StorageInv /\ EndInv)
    BY WritesInTurn, InitEnds, NextEnds, PTL DEF Spec
  <1> QED
    BY <1>1, <1>2, PTL DEF Spec, OnlyBlockedIsReplaced

\* The whole inductive invariant, as the runs check it: StorageInv and EndInv
\* at any time, the other two until the first write that raises.
THEOREM SystemIsUnderstood == Spec => []SystemInv
  <1>1. Spec => []EndInv
    BY WritesInTurn, InitEnds, NextEnds, PTL DEF Spec
  <1> QED
    BY <1>1, WritesInTurn, OwnedRuns, AgreedStores, PTL DEF SystemInv

=============================================================================
