---------------------------- MODULE RunLifecycle ----------------------------
(***************************************************************************)
(* The life of runs in one backend: requests, cancels, workers, agent      *)
(* processes, the crash of the backend and the reconciliation of           *)
(* interrupted runs when it starts again (main.py, at import).             *)
(***************************************************************************)
EXTENDS RunWorkers

CONSTANT MaxCrashes   \* bound: how often the backend dies
ASSUME CrashAssumption == MaxCrashes \in Nat

VARIABLE crashes
vars == <<allVars, crashes>>

Init == Init0 /\ InitSubmission /\ InitWorkers /\ crashes = 0

Boot(r) == <<"boot", r>>

Die == /\ LoseMemory
       /\ executor' = [r \in Runs |-> "none"]
       /\ proc' = [r \in Runs |-> "none"]
       /\ registered' = {}
       /\ lines' = [r \in Runs |-> 0]
       /\ outcome' = [r \in Runs |-> NoOutcome]
       /\ retried' = {}
       /\ UNCHANGED <<dbVars, faults, cancels>>

\* At any moment, also while the backend boots.
Crash == /\ up # "down"
         /\ crashes < MaxCrashes
         /\ crashes' = crashes + 1
         /\ Die

\* A database error during the import ends the process.
BootRaises(r) == /\ AtBranch(Boot(r), "raised")
                 /\ Die
                 /\ UNCHANGED crashes

Restart == /\ up = "down"
           /\ up' = "booting"
           /\ UNCHANGED <<memVars, dbVars, holder, todo, copy, pc, faults, submitVars,
                          workerVars, crashes>>

Reconcile(r) == ReconcileRun(r) /\ UNCHANGED <<submitVars, workerVars, crashes>>

\* The import is over: the backend serves requests.
Serve == /\ up = "booting"
         /\ \A p \in Procs : todo[p] = <<>> /\ pc[p] # "raised"
         /\ \A r \in Runs : ~Interrupted(r)
         /\ up' = "up"
         /\ UNCHANGED <<memVars, dbVars, holder, todo, copy, pc, faults, submitVars,
                        workerVars, crashes>>

PerformStep(p) == Perform(p) /\ UNCHANGED <<submitVars, workerVars, crashes>>
Submit(r) == Submission(r) /\ UNCHANGED <<workerVars, crashes>>
Work(r) == WorkerStep(r) /\ UNCHANGED crashes
Exit(r) == ProcessExits(r) /\ UNCHANGED crashes
Terminate(r) == TerminateActive(r) /\ UNCHANGED crashes
Load(r) == GetRun(r) /\ UNCHANGED <<submitVars, workerVars, crashes>>

Next ==
    \/ \E p \in Procs : PerformStep(p)
    \/ \E r \in Runs : Submit(r) \/ Work(r) \/ Exit(r) \/ Terminate(r) \/ Load(r)
                       \/ Reconcile(r) \/ BootRaises(r)
    \/ Crash \/ Restart \/ Serve

Spec == Init /\ [][Next]_vars

---------------------------------------------------------------------------
TypeOK == StateTypeOK /\ SubmissionTypeOK /\ WorkersTypeOK /\ crashes \in Nat

---------------------------------------------------------------------------
(* Safety.                                                                 *)

\* A cancel mark never outlives its run: a marked run is in memory and not
\* terminal, although request_cancel, every finalizer and the store of a new
\* run come in any order.  (request_cancel, set_run_status)
CancelMarksLive == \A r \in cancelled : Live(mem[r])

\* r is between the first and the last write of store_run, outside the lock.
Storing(r) == \E p \in Procs \ holder : \E i \in 1 .. Len(todo[p]) :
                  RunOf(p) = r /\ todo[p][i].do \in {"upsert", "session"}
Settled(r) == holder = {} /\ Known(mem[r]) /\ ~Storing(r)

\* Whenever nobody is writing, the run row says what memory says.  The one
\* exception is a client that cancels its audio run while the row is being
\* inserted: the update finds no row, the insert that follows says running.
DatabaseFollowsMemory ==
    \A r \in Runs : Settled(r) =>
        \/ row[r] = mem[r]
        \/ r \in AudioRuns /\ mem[r].status = "cancelled" /\ Live(row[r])

\* The two event logs, numbered independently, are the same and their seq
\* has no gap and no duplicate.  (A run id chosen by the client may be used
\* again when the backend died before its row was written.)
EventLogsAgree ==
    \A r \in Runs : Known(mem[r]) /\ (r \in TextRuns \/ crashes = 0) =>
        /\ \A i \in 1 .. Len(events[r]) : events[r][i].seq = i - 1
        /\ holder = {} => rowEvents[r] = events[r]

HasEvent(es, t) == \E i \in 1 .. Len(es) : es[i].type = t

\* A client that reads a terminal status finds the event that announces it
\* in the log, also when two threads finish the run.  Runs rejected at
\* submission are stored first and get their event afterwards.
FinalStatusIsAnnounced ==
    \A r \in Runs :
        /\ Terminal(mem[r]) /\ mem[r].status # "rejected"
              => HasEvent(events[r], Announces(mem[r].status))
        /\ Terminal(row[r]) /\ row[r].status # "rejected"
              => HasEvent(rowEvents[r], Announces(row[r].status))

\* A thread that has nothing left to do.
Over(p) == todo[p] = <<>> /\ pc[p] \in {"idle", "done", "caught"}

\* A running run has a thread that still works for it.  The one exception
\* is an audio run whose second _prepare raised: nobody will end it.
RunningHasOwner ==
    \A r \in Runs : up = "up" /\ Live(mem[r]) =>
        \/ \E p \in Procs : RunOf(p) = r /\ ~Over(p)
        \/ r \in AudioRuns /\ mem[r].summary = "Transcribing audio" /\ pc[Handler(r)] = "done"

\* What the app shows as the latest run of a session is that run as it is,
\* whichever of the session's runs wrote last.  (Same exception: an audio
\* run cancelled while it is being stored.)
SessionShowsItsRun ==
    \A s \in Sessions : \A l \in latest[s] : Settled(l.run) =>
        \/ l.rec = mem[l.run]
        \/ l.run \in AudioRuns /\ mem[l.run].status = "cancelled" /\ Live(l.rec)

\* No agent process is left behind by its worker, whatever ended the run, but
\* that of an agent one of whose messages could not be read: it goes on though
\* its run is over, so that a cancel is refused and nobody can stop it.
NoAgentLeftBehind ==
    \A r \in Runs : Over(Worker(r)) /\ proc[r] = "alive" => outcome[r].unread /\ Terminal(mem[r])

---------------------------------------------------------------------------
(* Action properties.                                                      *)

\* A finished run is never running again, in memory or in the database,
\* whatever metadata update, crash or reconciliation follows.
TerminalStaysTerminal ==
    [][\A r \in Runs : /\ Terminal(mem[r]) => Terminal(mem'[r]) \/ ~Known(mem'[r])
                       /\ Terminal(row[r]) => Terminal(row'[r])]_vars

\* set_run_status refuses nothing, and still the only terminal status of a
\* text run that is ever replaced is blocked, by cancelled: a cancel seen by
\* the monitor just before the extractor's last message blocked the run.
OnlyBlockedIsReplaced ==
    [][\A r \in TextRuns : Terminal(row[r]) =>
          \/ row'[r].status = row[r].status
          \/ row[r].status = "blocked" /\ row'[r].status = "cancelled"]_vars

\* The log of a run that is over is closed: a client that has read the status
\* and then the log has all there will ever be, whatever raises in the
\* worker afterwards and whoever else still works for the run.  (A blocked
\* run is finished again, a rejected one gets its event after the status.)
Finished(rec) == rec.status \in {"completed", "failed", "cancelled"}
FinishedLogIsFinal ==
    [][\A r \in TextRuns : Finished(row[r]) => rowEvents'[r] = rowEvents[r]]_vars

\* A run that is over keeps its end, but for a blocked one, and its log.
OverIsOver == OnlyBlockedIsReplaced /\ FinishedLogIsFinal

\* A cancelled run stays cancelled.
CancelledStaysCancelled ==
    [][\A r \in Runs : row[r].status = "cancelled" => row'[r].status = "cancelled"]_vars

---------------------------------------------------------------------------
(* Liveness.  The threads of the backend are scheduled fairly and a        *)
(* deadline that exists passes; a service manager starts a dead backend.   *)
(* Clients owe nothing, and an agent process may hang for ever.            *)

HandlerStep(r) ==
    \/ Launch(r) \/ LaunchFails(r) \/ ReadUpload(r) \/ UploadTooLarge(r) \/ CheckCancelled(r)
    \/ Transcribe(r) \/ PrepareFails(r) \/ RejectPrecreated(r) \/ AcceptPrecreated(r)
    \/ MarkCancelled(Handler(r)) \/ RequestRaises(Handler(r))
CancelStep(r) ==
    \/ MarkCancelled(Canceller(r)) \/ DispatchToAudio(r) \/ RequestRaises(Canceller(r))

Fairness ==
    /\ \A p \in Procs : WF_vars(PerformStep(p))
    /\ \A r \in Runs :
         /\ WF_vars(HandlerStep(r) /\ UNCHANGED <<workerVars, crashes>>)
         /\ WF_vars(CancelStep(r) /\ UNCHANGED <<workerVars, crashes>>)
         /\ WF_vars(Terminate(r))
         /\ WF_vars(Work(r))
         /\ WF_vars(Reconcile(r))
         /\ WF_vars(BootRaises(r))
    /\ WF_vars(Restart) /\ WF_vars(Serve)

FairSpec == Spec /\ Fairness

\* If the timeout is looked at again and again and fires at last, a launched
\* run ends, or the backend dies first: no other way through the worker, the
\* net under it and the cancels lets go of a run.
LaunchedRunEnds ==
    (\A r \in Runs : SF_vars(PollTimeout(r) /\ UNCHANGED crashes)) =>
    \A r \in Runs : pc[Worker(r)] = "begin" ~> Terminal(mem[r]) \/ up = "down"

\* An accepted cancel ends a run even if its agent hangs and there is no
\* timeout.
CancelEndsRun ==
    \A r \in TextRuns : r \in cancelled ~> Terminal(mem[r]) \/ up = "down"

\* Cancelled while its output is monitored, an agent run ends cancelled or
\* waits for the user, whatever its exit code; it never completes, and it
\* fails only if a message of its agent cannot be read.
AgentCancelIsHonoured ==
    \A r \in TextRuns :
        r \in cancelled /\ pc[Worker(r)] \in {"loop", "poll", "pollStatus", "flush", "stop"}
            ~> \/ mem[r].status \in {"cancelled", "blocked"}
               \/ mem[r].status = "failed" /\ outcome[r].unread
               \/ up = "down"

\* A run interrupted by the death of the backend is closed when it is back.
InterruptedRunIsClosed ==
    \A r \in Runs : up = "down" /\ Live(row[r]) ~> Terminal(row[r])

---------------------------------------------------------------------------
(* Refinement.                                                             *)

EventsOf(r) == {rowEvents[r][i].type : i \in 1 .. Len(rowEvents[r])}
EndEvents == {Announces(st) : st \in TerminalStatuses}

Contract == INSTANCE RunContract WITH
                status <- [r \in Runs |-> row[r].status],
                announced <- [r \in Runs |-> EventsOf(r) \cap EndEvents]

\* Under crashes, retries of the cancel and races of handler and worker, the
\* database keeps the promise of RunContract.
KeepsContract == Contract!Spec

=============================================================================
