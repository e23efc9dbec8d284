----------------------------- MODULE RunWorkers -----------------------------
(***************************************************************************)
(* The worker threads: execution_service.py (calendar and shell runs, the  *)
(* net under a worker that raises), agent_run_service.py,                  *)
(* agent_process_monitor.py, agent_stream_handler.py and                   *)
(* agent_run_finalizer.py (agent runs).                                    *)
(*                                                                         *)
(* The agent's stdout is abstracted to the kinds of line the control flow  *)
(* tells apart (a log line, a chat message, a request for human help); the *)
(* codex extractor may hold one message back until it is flushed.          *)
(***************************************************************************)
EXTENDS RunSubmission

CONSTANTS
    HasTimeout,    \* the agent timeout is configured (> 0 seconds)
    MaxLines       \* bound: lines an agent process writes

ASSUME TimeoutAssumption == HasTimeout \in BOOLEAN
ASSUME LinesAssumption == MaxLines \in Nat

VARIABLES
    proc,          \* the agent's child process: "none", "alive" or "exited"
    registered,    \* runs in AgentRunService._active_procs
    lines,         \* lines its agents have written
    outcome,       \* what execute or monitor returned (AgentRunOutcome, ActionResult), or raised
    retried        \* runs whose agent was started again without resume

workerVars == <<proc, registered, lines, outcome, retried>>
allVars == <<stateVars, submitVars, workerVars>>

\* failed: exit code other than 0, or no success; unread: monitor raised over a
\* message of the agent
Outcome == [cancelled : BOOLEAN, timed_out : BOOLEAN, blocked : BOOLEAN, failed : BOOLEAN, unread : BOOLEAN]
NoOutcome == [cancelled |-> FALSE, timed_out |-> FALSE, blocked |-> FALSE, failed |-> FALSE, unread |-> FALSE]

WorkersTypeOK ==
    /\ proc \in [Runs -> {"none", "alive", "exited"}]
    /\ registered \subseteq Runs
    /\ lines \in [Runs -> Nat]
    /\ outcome \in [Runs -> Outcome]
    /\ retried \subseteq Runs

InitWorkers ==
    /\ proc = [r \in Runs |-> "none"]
    /\ registered = {}
    /\ lines = [r \in Runs |-> 0]
    /\ outcome = [r \in Runs |-> NoOutcome]
    /\ retried = {}

\* A worker step that only chooses the next script and place.
Branch(r, s, l) == /\ Continue(Worker(r), s, l)
                   /\ OnlyThreads /\ UNCHANGED submitVars
Steps(r, s, l) == Branch(r, s, l) /\ UNCHANGED workerVars
At(r, l) == AtBranch(Worker(r), l)
Begins(r, e) == At(r, "begin") /\ executor[r] = e

UserCancelled == <<Emit("run.cancelled"), SetStatus("cancelled")>>

\* Either s1 or nothing comes before s.
Maybe(s1) == {<<>>, s1}
HasChat(r) == \E i \in 1 .. Len(events[r]) : events[r][i].type = "chat"

---------------------------------------------------------------------------
(* run_calendar_adapter: never looks at the cancel mark.                   *)

CalendarBegin(r) ==
    /\ Begins(r, "calendar")
    /\ Steps(r, <<Emit("activity"), Emit("action.started"), Emit("activity"), Emit("chat")>>,
             "fetch")

CalendarFetch(r) ==
    /\ At(r, "fetch")
    /\ \/ Steps(r, <<Emit("activity"), Emit("chat"), Emit("action.completed"),
                     Emit("run.completed"), SetStatus("completed")>>, "done")
       \/ Steps(r, <<Emit("activity"), Emit("output"), Emit("action.completed"),
                     Emit("run.failed"), SetStatus("failed")>>, "done")

---------------------------------------------------------------------------
(* _run_shell_command.                                                     *)

ShellBegin(r) ==
    /\ Begins(r, "shell")
    /\ \/ Steps(r, <<Emit("activity"), Emit("chat"), Emit("run.failed"), SetStatus("rejected")>>,
                "done")
       \/ Steps(r, <<Emit("activity"), Emit("action.started"), Emit("activity")>>, "exec")

\* ShellExecutor.execute polls the cancel mark while the command runs; a
\* mark it has seen decides the result, a command that ended first does not.
\* outcome[r].cancelled stands for result.details = "command cancelled".
ShellResult(r, res) ==
    /\ At(r, "exec")
    /\ outcome' = [outcome EXCEPT ![r] = res]
    /\ \E out \in Maybe(<<Emit("output")>>) : Branch(r, out, "shellStatus")
    /\ UNCHANGED <<proc, registered, lines, retried>>

ShellSucceeds(r) == ShellResult(r, NoOutcome)
ShellFails(r) == ShellResult(r, [NoOutcome EXCEPT !.failed = TRUE])
ShellStopped(r) == r \in cancelled /\ LockFree /\ ShellResult(r, [NoOutcome EXCEPT !.cancelled = TRUE])

ShellRaises(r) == At(r, "exec") /\ Steps(r, <<>>, "raised")

ShellStatus(r) ==
    /\ At(r, "shellStatus")
    /\ \/ mem[r].status = "cancelled" /\ Steps(r, <<>>, "done")
       \/ mem[r].status # "cancelled" /\ Steps(r, <<>>, "shellFlag")

ShellFlag(r) ==
    LET cancel == r \in cancelled \/ outcome[r].cancelled
        end(ev, st) == <<Emit("chat"), Emit("action.completed"), Emit("activity"), Emit(ev),
                         SetStatus(st)>>
    IN /\ At(r, "shellFlag")
       /\ LockFree
       /\ \/ cancel /\ Steps(r, UserCancelled, "done")
          \/ ~cancel /\ ~outcome[r].failed /\ Steps(r, end("run.completed", "completed"), "done")
          \/ ~cancel /\ outcome[r].failed /\ Steps(r, end("run.failed", "failed"), "done")

---------------------------------------------------------------------------
(* AgentRunService.run: up to the monitor.                                 *)

AgentBegin(r) ==
    /\ Begins(r, "agent")
    /\ \/ \E warn \in Maybe(<<Emit("chat")>>) :
            Steps(r, <<Emit("activity"), Emit("action.started")>> \o warn, "spawn")
       \/ Steps(r, <<>>, "raised")

MissingBinary(r) ==
    /\ At(r, "spawn") \/ At(r, "respawn")
    /\ Steps(r, <<Emit("chat"), Emit("output"), Emit("action.completed"), Emit("run.failed"),
                  SetStatus("failed")>>, "sync")

\* Popen raises something else.
SpawnRaises(r) ==
    /\ At(r, "spawn") \/ At(r, "respawn")
    /\ Steps(r, <<>>, "raised")

\* The child starts; only _monitor_process makes it known to cancel_run.
Spawn(r) ==
    /\ \/ At(r, "spawn") /\ Branch(r, <<Emit("activity")>>, "register")
       \/ At(r, "respawn") /\ Branch(r, <<>>, "register")
    /\ proc' = [proc EXCEPT ![r] = "alive"]
    /\ outcome' = [outcome EXCEPT ![r] = NoOutcome]
    /\ UNCHANGED <<registered, lines, retried>>

Register(r) ==
    /\ At(r, "register")
    /\ registered' = registered \cup {r}
    /\ Branch(r, <<>>, "loop")
    /\ UNCHANGED <<proc, lines, outcome, retried>>

ProcessExits(r) ==
    /\ proc[r] = "alive"
    /\ proc' = [proc EXCEPT ![r] = "exited"]
    /\ UNCHANGED <<stateVars, submitVars, registered, lines, outcome, retried>>

---------------------------------------------------------------------------
(* AgentProcessMonitor.monitor.                                            *)

\* append_assistant_payload takes any JSON object of type assistant_response
\* for an envelope: if it is none, ValidationError leaves the monitor, past
\* stop_process and the late look at the cancel mark.  (So does an error while
\* the agent's session id is stored.)
Unreadable(r, log) == Branch(r, log, "raised") /\ outcome' = [outcome EXCEPT ![r].unread = TRUE]

\* A line is taken from the queue (it may outlive the process that wrote it).
TakeLine(r) ==
    /\ At(r, "loop") /\ lines[r] < MaxLines
    /\ lines' = [lines EXCEPT ![r] = @ + 1]
    /\ \/ \E t \in {"output", "chat"} : Branch(r, <<Emit(t)>>, "poll") /\ UNCHANGED outcome
       \/ Branch(r, <<>>, "poll") /\ UNCHANGED outcome
       \/ Branch(r, <<Emit("chat")>>, "unblock") /\ UNCHANGED outcome
       \/ \E log \in Maybe(<<Emit("output")>>) : Unreadable(r, log)
    /\ UNCHANGED <<proc, registered, retried>>

\* No line for 0.2 s, or the end of the stream.
NoLine(r) ==
    /\ At(r, "loop")
    /\ \/ proc[r] = "exited" /\ Steps(r, <<>>, "flush")
       \/ proc[r] = "alive" /\ Steps(r, <<>>, "poll")

SeesCancelBug(r) == FALSE
SeesCancel(r) == r \in cancelled

PollCancelled(r) ==
    /\ At(r, "poll") /\ LockFree
    /\ \/ /\ SeesCancel(r)
          /\ outcome' = [outcome EXCEPT ![r].cancelled = TRUE]
          /\ Branch(r, <<>>, "flush")
       \/ /\ ~SeesCancel(r)
          /\ UNCHANGED outcome
          /\ Branch(r, <<>>, "pollStatus")
    /\ UNCHANGED <<proc, registered, lines, retried>>

\* No unblock request has set the status by now: those leave the loop at once.
PollStatus(r) ==
    LET blocked == mem[r].status = "blocked"
    IN /\ At(r, "pollStatus")
       /\ outcome' = [outcome EXCEPT ![r].blocked = blocked]
       /\ Branch(r, <<>>, IF blocked THEN "flush" ELSE "loop")
       /\ UNCHANGED <<proc, registered, lines, retried>>

\* The deadline, if there is one, has passed.
PollTimeout(r) ==
    /\ At(r, "pollStatus") /\ HasTimeout
    /\ mem[r].status # "blocked"
    /\ outcome' = [outcome EXCEPT ![r].timed_out = TRUE]
    /\ Branch(r, <<>>, "flush")
    /\ UNCHANGED <<proc, registered, lines, retried>>

\* append_assistant_payload: a message that asks for human help blocks the
\* run, in the middle of the loop or when the extractor is flushed.
Unblock(r) ==
    /\ \E from \in {"unblock", "unblock2"} :
         /\ At(r, from)
         /\ LET then == IF from = "unblock" THEN "flush" ELSE "stop"
            IN \/ mem[r].status = "blocked" /\ Branch(r, <<>>, then)
               \/ /\ mem[r].status # "blocked"
                  /\ Branch(r, <<Emit("activity"), Emit("run.blocked"), SetBlocked>>, then)
    /\ outcome' = [outcome EXCEPT ![r].blocked = TRUE]
    /\ UNCHANGED <<proc, registered, lines, retried>>

\* flush_codex_messages: the message the extractor still holds, if any.
Flush(r) ==
    /\ At(r, "flush")
    /\ \/ Steps(r, <<>>, "stop")
       \/ /\ lines[r] < MaxLines
          /\ lines' = [lines EXCEPT ![r] = @ + 1]
          /\ \/ \E l \in {"stop", "unblock2"} : Branch(r, <<Emit("chat")>>, l) /\ UNCHANGED outcome
             \/ Unreadable(r, <<>>)
          /\ UNCHANGED <<proc, registered, retried>>

AfterStopBug(r) == IF outcome[r].blocked THEN proc[r] ELSE "exited"
AfterStop(r) == "exited"

\* stop_process for a run that is cancelled, timed out or blocked (SIGTERM,
\* then SIGKILL), and wait.
StopProcess(r) ==
    /\ At(r, "stop")
    /\ \/ outcome[r] # NoOutcome
       \/ proc[r] = "exited"
    /\ proc' = [proc EXCEPT ![r] = AfterStop(r)]
    /\ Branch(r, <<>>, "outcome")
    /\ UNCHANGED <<registered, lines, outcome, retried>>

SeesLateCancelBug(r) == FALSE
SeesLateCancel(r) == r \in cancelled

\* The exit code, the late look at the cancel mark; the process is no longer
\* registered.
LateCancel(r) ==
    /\ At(r, "outcome") /\ LockFree
    /\ \E exit \in BOOLEAN :
         outcome' = [outcome EXCEPT ![r].cancelled = @ \/ SeesLateCancel(r), ![r].failed = exit]
    /\ registered' = registered \ {r}
    /\ Branch(r, <<>>, "decide")
    /\ UNCHANGED <<proc, lines, retried>>

---------------------------------------------------------------------------
(* After the monitor: one retry without resume, else the finalizer.        *)

RetryWithoutResume(r) ==
    /\ At(r, "decide") /\ r \notin retried
    /\ outcome[r] = [NoOutcome EXCEPT !.failed = TRUE]
    /\ retried' = retried \cup {r}
    /\ Branch(r, <<Emit("output"), Emit("action.completed"), Emit("activity"), Emit("output"),
                   Emit("action.started")>>, "respawn")
    /\ UNCHANGED <<proc, registered, lines, outcome>>

\* _finalize_run and finalize_run, by what the monitor returned.  A run that
\* needs the user is finished twice: its event and status came with the message.
Finalize(r) ==
    LET o == outcome[r]
        completed == <<Emit("action.completed")>>
        summarized == <<Emit("activity"), Emit("action.completed")>>
        failed == <<Emit("run.failed"), SetStatus("failed")>>
        explained == <<Emit("chat"), Emit("run.failed"), SetStatus("failed")>>
    IN /\ At(r, "decide")
       /\ \/ o.cancelled /\ o.blocked /\ Steps(r, UserCancelled, "sync")
          \/ o.cancelled /\ ~o.blocked /\ Steps(r, completed \o UserCancelled, "sync")
          \/ /\ ~o.cancelled /\ o.blocked
             /\ Steps(r, completed \o <<SetStatus("blocked")>>, "sync")
          \/ /\ ~o.cancelled /\ ~o.blocked /\ o.timed_out
             /\ Steps(r, summarized \o explained, "sync")
          \/ /\ ~o.cancelled /\ ~o.blocked /\ ~o.timed_out
             /\ \/ /\ ~o.failed
                   /\ Steps(r, summarized \o <<Emit("run.completed"), SetStatus("completed")>>,
                            "sync")
                \/ o.failed /\ HasChat(r) /\ Steps(r, summarized \o failed, "sync")
                \/ o.failed /\ ~HasChat(r) /\ Steps(r, summarized \o explained, "sync")

\* sync_memory_from_workdir comes after the final status.
SyncMemory(r) ==
    /\ At(r, "sync")
    /\ \E l \in {"done", "raised"} : Steps(r, <<>>, l)

---------------------------------------------------------------------------
(* A worker that raises: shell and agent runs are recorded as failed unless *)
(* they are terminal by then; a calendar thread just ends.  An agent that   *)
(* raised in the monitor leaves _active_procs, its process is not stopped.  *)

NothingToRecordSilentBug(r) == TRUE
NothingToRecordAgainBug(r) == executor[r] = "calendar"
NothingToRecord(r) == executor[r] = "calendar" \/ Terminal(mem[r])

RecordException(r) ==
    /\ At(r, "raised")
    /\ registered' = registered \ {r}
    /\ \/ /\ NothingToRecord(r)
          /\ Branch(r, <<>>, "done")
       \/ /\ ~NothingToRecord(r)
          /\ Branch(r, <<Emit("activity"), Emit("output"), Emit("run.failed"),
                         SetStatus("failed")>>, "caught")
    /\ UNCHANGED <<proc, lines, outcome, retried>>

\* cancel_run, any run that is not transcribing: a registered process is
\* terminated.
TerminateActive(r) ==
    /\ AtBranch(Canceller(r), "dispatch")
    /\ ~IsAudioTranscribing(r)
    /\ proc' = IF r \in registered THEN [proc EXCEPT ![r] = "exited"] ELSE proc
    /\ Continue(Canceller(r), <<>>, "done")
    /\ OnlyThreads /\ UNCHANGED <<submitVars, registered, lines, outcome, retried>>

AgentStep(r) ==
    \/ AgentBegin(r) \/ MissingBinary(r) \/ SpawnRaises(r) \/ Spawn(r) \/ Register(r) \/ TakeLine(r)
    \/ NoLine(r) \/ PollCancelled(r) \/ PollStatus(r) \/ PollTimeout(r) \/ Unblock(r)
    \/ Flush(r) \/ StopProcess(r) \/ LateCancel(r) \/ RetryWithoutResume(r) \/ Finalize(r)
    \/ SyncMemory(r)

WorkerStep(r) ==
    \/ CalendarBegin(r) \/ CalendarFetch(r)
    \/ ShellBegin(r) \/ ShellSucceeds(r) \/ ShellFails(r) \/ ShellStopped(r) \/ ShellRaises(r)
    \/ ShellStatus(r) \/ ShellFlag(r)
    \/ AgentStep(r)
    \/ RecordException(r)

=============================================================================
