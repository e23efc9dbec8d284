---------------------------- MODULE RunSubmission ----------------------------
(***************************************************************************)
(* How a run comes into being and how a client cancels it:                 *)
(* utterance_service.py (POST /v1/utterances), create_audio_run and        *)
(* cancel_run of main.py.  <<"handler", r>> is the request that creates    *)
(* run r, <<"cancel", r>> a request that cancels it; both run beside the   *)
(* worker threads they start.                                              *)
(***************************************************************************)
EXTENDS RunState

CONSTANTS
    TextRuns,      \* runs created by POST /v1/utterances
    AudioRuns,     \* runs created by POST /v1/audio
    ExecutorsOf,   \* the executors a request for the run may resolve to
    MaxCancels     \* bound: cancel requests per run that are accepted

ASSUME KindAssumption == TextRuns \cup AudioRuns = Runs /\ TextRuns \cap AudioRuns = {}

Executors == {"shell", "calendar", "agent"}
ASSUME ExecutorAssumption == ExecutorsOf \in [Runs -> SUBSET Executors]

VARIABLES
    executor,      \* executor of the launched run, "none" before the launch
    cancels        \* accepted cancel requests per run

submitVars == <<executor, cancels>>

Handler(r) == <<"handler", r>>
Worker(r) == <<"worker", r>>
Canceller(r) == <<"cancel", r>>

SubmissionTypeOK ==
    /\ executor \in [Runs -> Executors \cup {"none"}]
    /\ cancels \in [Runs -> Nat]

InitSubmission ==
    /\ executor = [r \in Runs |-> "none"]
    /\ cancels = [r \in Runs |-> 0]

\* A branch step changes nothing but scripts and places.
OnlyThreads == UNCHANGED <<up, memVars, dbVars, holder, copy, faults>>

Unknown(r) == ~Known(mem[r]) /\ ~Known(row[r])

FailedScript == <<Emit("activity"), Emit("run.failed"), SetStatus("failed")>>
LaunchFailedOpenBug == <<Emit("activity"), Emit("output"), Emit("run.failed")>>
LaunchFailedOrderBug == <<Emit("activity"), Emit("output"), SetStatus("failed"),
                          Emit("run.failed")>>
LaunchFailedScript == <<Emit("activity"), Emit("output"), Emit("run.failed"),
                        SetStatus("failed")>>
CancelledScriptBug == <<Emit("activity"), SetStatus("cancelled"), Emit("run.cancelled")>>
CancelledScript == <<Emit("activity"), Emit("run.cancelled"), SetStatus("cancelled")>>

---------------------------------------------------------------------------
(* submit.                                                                 *)

\* The run is refused (guardrail, empty command, working directory): it is
\* stored as rejected and its run.failed event is appended afterwards.
RejectText(r) ==
    /\ up = "up" /\ r \in TextRuns
    /\ AtBranch(Handler(r), "idle") /\ Unknown(r) /\ rowEvents[r] = <<>>
    /\ Continue(Handler(r), Store(Record("rejected", "outcome")) \o <<Emit("run.failed")>>, "done")
    /\ OnlyThreads /\ UNCHANGED submitVars

AcceptText(r) ==
    /\ up = "up" /\ r \in TextRuns
    /\ AtBranch(Handler(r), "idle") /\ Unknown(r) /\ rowEvents[r] = <<>>
    /\ \E e \in ExecutorsOf[r] : executor' = [executor EXCEPT ![r] = e]
    /\ Continue(Handler(r), Store(Record("running", "Run started")), "launch")
    /\ OnlyThreads /\ UNCHANGED cancels

\* _launch_background_run: the worker thread starts ..
Launch(r) ==
    /\ AtBranch(Handler(r), "launch")
    /\ pc' = [pc EXCEPT ![Handler(r)] = "done", ![Worker(r)] = "begin"]
    /\ OnlyThreads /\ UNCHANGED <<todo, submitVars>>

\* .. or cannot be started.
LaunchFails(r) ==
    /\ AtBranch(Handler(r), "launch")
    /\ Continue(Handler(r), LaunchFailedScript, "done")
    /\ OnlyThreads /\ UNCHANGED submitVars

---------------------------------------------------------------------------
(* create_audio_run.  The run id may be chosen by the client; one that      *)
(* memory or database knows is refused (409).                              *)

CreateTranscribingRun(r) ==
    /\ up = "up" /\ r \in AudioRuns
    /\ AtBranch(Handler(r), "idle") /\ Unknown(r)
    /\ Continue(Handler(r), Store(Record("running", "Transcribing audio")) \o <<Emit("activity")>>,
                "upload")
    /\ OnlyThreads /\ UNCHANGED submitVars

ReadUpload(r) ==
    /\ AtBranch(Handler(r), "upload")
    /\ Continue(Handler(r), <<>>, "check1")
    /\ OnlyThreads /\ UNCHANGED submitVars

\* 413: the run fails whatever its state, a cancelled one included.
UploadTooLarge(r) ==
    /\ AtBranch(Handler(r), "upload")
    /\ Continue(Handler(r), FailedScript, "done")
    /\ OnlyThreads /\ UNCHANGED submitVars

\* _is_run_cancelled
IsRunCancelled(r) == r \in cancelled \/ mem[r].status = "cancelled"

\* The three places where the handler looks for a cancel, and where it goes
\* from there: before transcription, after it, after it raised.
CheckCancelled(r) ==
    /\ LockFree
    /\ \E from \in {"check1", "check2", "checkFailed"} :
         /\ AtBranch(Handler(r), from)
         /\ \/ /\ IsRunCancelled(r)
               /\ Continue(Handler(r), <<>>, "mark")
            \/ /\ ~IsRunCancelled(r)
               /\ \/ from = "check1" /\ Continue(Handler(r), <<>>, "transcribe")
                  \/ from = "check2" /\ Continue(Handler(r), <<>>, "submit")
                  \/ from = "checkFailed" /\ Continue(Handler(r), FailedScript, "done")
    /\ OnlyThreads /\ UNCHANGED submitVars

Transcribe(r) ==
    /\ AtBranch(Handler(r), "transcribe")
    /\ \E l \in {"check2", "checkFailed"} : Continue(Handler(r), <<>>, l)
    /\ OnlyThreads /\ UNCHANGED submitVars

\* submit_precreated: _prepare may raise (409, 400) and leave the run as it
\* is; a refused run gets its metadata, run.failed and status rejected; an
\* accepted one its activity and metadata, then the launch.
PrepareFails(r) ==
    /\ AtBranch(Handler(r), "submit")
    /\ Continue(Handler(r), <<>>, "done")
    /\ OnlyThreads /\ UNCHANGED submitVars

RejectPrecreated(r) ==
    /\ AtBranch(Handler(r), "submit")
    /\ Continue(Handler(r), <<Meta("outcome"), Emit("run.failed"), SetStatus("rejected")>>, "done")
    /\ OnlyThreads /\ UNCHANGED submitVars

AcceptPrecreated(r) ==
    /\ AtBranch(Handler(r), "submit")
    /\ \E e \in ExecutorsOf[r] : executor' = [executor EXCEPT ![r] = e]
    /\ Continue(Handler(r), <<Emit("activity"), Meta("Run started")>>, "launch")
    /\ OnlyThreads /\ UNCHANGED cancels

\* _mark_cancelled_before_execution, by the handler or by a cancel request.
\* The look at the status and the three calls are not one critical section.
MarkCancelled(p) ==
    /\ AtBranch(p, "mark")
    /\ \/ /\ mem[RunOf(p)].status = "cancelled"
          /\ Continue(p, <<>>, "done")
       \/ /\ mem[RunOf(p)].status # "cancelled"
          /\ Continue(p, CancelledScript, "done")
    /\ OnlyThreads /\ UNCHANGED submitVars

---------------------------------------------------------------------------
(* cancel_run.                                                             *)

CancelRun(r) ==
    /\ up = "up" /\ cancels[r] < MaxCancels
    /\ \E l \in {"idle", "done"} : AtBranch(Canceller(r), l)
    /\ RequestCancel(Canceller(r))
    /\ cancels' = [cancels EXCEPT ![r] = @ + 1]
    /\ UNCHANGED executor

IsAudioTranscribing(r) == Live(mem[r]) /\ mem[r].summary = "Transcribing audio"

DispatchToAudio(r) ==
    /\ AtBranch(Canceller(r), "dispatch")
    /\ IsAudioTranscribing(r)
    /\ Continue(Canceller(r), <<>>, "mark")
    /\ OnlyThreads /\ UNCHANGED submitVars

\* A database error ends a request with status 500.
RequestRaises(p) ==
    /\ p[1] \in {"handler", "cancel"}
    /\ AtBranch(p, "raised")
    /\ Continue(p, <<>>, "done")
    /\ OnlyThreads /\ UNCHANGED submitVars

Submission(r) ==
    \/ RejectText(r) \/ AcceptText(r) \/ Launch(r) \/ LaunchFails(r)
    \/ CreateTranscribingRun(r) \/ ReadUpload(r) \/ UploadTooLarge(r) \/ CheckCancelled(r)
    \/ Transcribe(r) \/ PrepareFails(r) \/ RejectPrecreated(r) \/ AcceptPrecreated(r)
    \/ MarkCancelled(Handler(r)) \/ MarkCancelled(Canceller(r))
    \/ CancelRun(r) \/ DispatchToAudio(r)
    \/ RequestRaises(Handler(r)) \/ RequestRaises(Canceller(r))

=============================================================================
