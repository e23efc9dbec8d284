# TLA+ models of the MOBaiLE backend

MOBaiLE lets a phone drive a coding agent (codex or claude), a shell or a
calendar adapter on the user's own computer. The program is a FastAPI backend
(`src/backend/app`) with an SQLite database and a few files, started by a service
manager and looked after by shell scripts (`src/scripts`). This directory holds TLA+
models of the backend, the TLC runs that check them and the proofs about them.

## 1. The system

| Part | State | Operations | Talks to | Modelled |
|---|---|---|---|---|
| Run state (`run_state.py`) | `_runs`, `_cancelled`, one lock | `store_run`, `update_run_start_metadata`, `append_event`, `set_run_status`, `request_cancel`, `get_run`, `reconcile_interrupted_runs`, event pages and stream | run storage; every thread below | `RunState`, `EventStream`, `EventPages` |
| Run storage (`storage/`) | tables `runs`, `run_events`, `session_context`, `agent_session_map`, `codex_thread_map` | one SQLite transaction per call; the upgrade of old tables | run state, session context | `RunState`, `StoreUpgrade`, `AgentSessions` |
| Submission and cancel (`utterance_service.py`, `main.py`) | none of its own | `POST /v1/utterances`, `POST /v1/audio`, `POST /v1/runs/{id}/cancel` | run state, starts a worker thread per run | `RunSubmission` |
| Execution (`execution_service.py`, `executors/`) | none of its own | calendar and shell workers, the net under a worker that raises | run state, child processes | `RunWorkers` |
| Agent processes (`agent_run_service.py`, `agent_process_monitor.py`, `agent_stream_handler.py`, `agent_run_finalizer.py`) | `_active_procs`, the child process, the queue of its output | spawn, monitor, stop, resume, retry without resume, finalize | run state, the codex or claude process | `RunWorkers`, `AgentOutput`, `AgentSessions` |
| Text (`codex_text.py`, `chat_envelope*.py`) | one held-back message per run | lines to messages, text to sections, findings, cut to an event | stream handler | `AgentOutput`, `ChatSections`, `ChatFindings`, `ChatTransport` |
| Session context (`session_context_service.py`, `session_runtime_state.py`, `runtime_session_service.py`) | session rows | read, merge, write back; slash commands | storage | `SessionSettings` |
| Pairing (`pairing_*.py`, `scripts/pairing_qr.sh`, `rotate_api_token.sh`) | the pairing file, attempts in memory | exchange, refresh, rotate, rate limit, URLs at start | the file is shared with scripts | `Pairing`, `PairAttempts`, `PairingUrls` |
| Credential requests (`credential_request_service.py`) | values in memory, metadata on disk | create, fulfil, resolve, cancel, expire | agents and the app | `CredentialRequests` |
| Profile memory (`profile_store.py`) | `MEMORY.md` of the profile and its copies in work directories | stage before a run, copy back after it | agent workers | `ProfileMemory` |
| Workspace files (`workspace_service.py`) | none of its own; files that agents change | page and search a file, list and make directories, uploads | the file system | `FilePreview`, `DirectoryListing` |
| Deferred restart (`scripts/service_*.sh`) | a watcher process | wait until no run is running, restart | the `runs` table, service manager | - |
| Configuration, probes, command line | values read once | request-local work | - | - |

What makes it hard: every run has up to four threads that write its record (the
request that created it, its worker, any number of cancel requests, and the
start-up reconciliation), and they meet in `RunState`, where almost no call looks
at the state it overwrites. A call that changes memory writes the database in
one to three transactions of its own, some under the lock and some after it
was released; a write may raise and the backend may die between any two of them. The
agent is a process that may hang, end early, or ask for the user in its last
words while a cancel is on its way. Audio runs add a request handler that goes on
after the run is visible to clients, because it transcribes. The files beside the
database (pairing, credential requests, memory) are truncated before they are written, are read
without a lock or shared with scripts, and a session's row is read, merged and written back.
The phone reads logs and files that change while it reads.

What correctness means, part by part:

* **Run state, submission, execution, agents** - a run ends exactly when
  somebody announced its end, stays ended, and is the same in memory, in its row
  and in its session; a cancel is honoured or refused, never lost; nothing keeps
  running for a run that is over; the death of the backend closes what it interrupted.
* **Event stream and pages** - a client sees every event once, in order, and the stream ends.
* **Storage** - an upgrade completes the tables and loses no run, wherever it is cut off.
* **Agents and text** - what an agent says is shown once, whole, under its title; a
  conversation is continued in its own session.
* **Session context** - what was asked for and what runs reported is in the row.
* **Pairing** - a pair code is used at most once; a phone that paired gets in with what it has and
  with nothing older; the rate limit lets through what it says, no more and no less.
* **Credential requests** - a value is readable only while its request is
  fulfilled, once, and is what the phone was told is accepted; what was closed stays closed.
* **Profile memory** - what runs learn is kept.
* **Workspace files** - what the phone is told of a file or directory is so.

`PROJECT.json` lists every component with what is modelled of it, and under
`hazards` the lines where these things can go wrong.

## 2. Plan

1. *(done)* the life of a run: `RunState`, `RunSubmission`, `RunWorkers`,
   `RunLifecycle`, its abstract specification `RunContract`, its inductive
   invariants `RunInvariant`, `StorageInvariant`, `AgreementInvariant` and the proofs
   `RunProofs`, `ContractProofs`, `AgreementProofs`.
2. *(done)* what clients read of a run: `EventStream` composed with
   `RunLifecycle`, its abstract specification `EventLog`, `EventPages`, and the proofs `StreamProofs`.
3. *(done)* `AgentOutput`: the reader thread, the queue, the monitor's poll and the extractor.
4. *(done)* pairing: `Pairing`, `PairAttempts`, `PairingUrls`, `PairingInvariant`, and the proofs `PairingProofs`
   and, of the URLs, `FilesProofs`.
5. *(done)* `CredentialRequests` (proofs: `FilesProofs`).
6. *(done)* `SessionSettings`, `AgentSessions` (proofs: `ConversationProofs`).
7. *(done)* `ProfileMemory` (proofs: `FilesProofs`).
8. *(done)* the text algorithms against reference definitions (`ChatSections`,
   `ChatFindings`, `ChatTransport`), the files of the workspace (`FilePreview`,
   `DirectoryListing`), the upgrade of the tables (`StoreUpgrade`); what is proved of them
   is in `ConversationProofs`.
9. *(dropped)* the deferred restart; section 6 says why.

Left to prove: `TextStaysUnderItsTitle`.

## 3. Modules

`RunState <- RunSubmission <- RunWorkers <- RunLifecycle <- RunInvariant <- StorageInvariant <-
AgreementInvariant <- MCRunLifecycle`; each EXTENDS the one before it. The proofs are beside them:
`RunInvariant <- RunProofs`, `{RunProofs, StorageInvariant} <- ContractProofs`,
`{ContractProofs, AgreementInvariant} <- AgreementProofs`, `Pairing <- PairingInvariant <- PairingProofs`.
`{RunLifecycle, Selection} <- EventStream <- MCEventStream`; `{EventStream, AgreementInvariant} <-
StreamInvariant`, `Selection <- SelectionProofs`, `{StreamInvariant, AgreementProofs, SelectionProofs} <-
StreamProofs`. `Selection <- {PairAttempts, PairingUrls, EventPages, FilePreview, AgentOutput, ChatFindings}`: they pick elements of a list by a
condition, as a comprehension and a `WHERE` do, and `Picked` is `SelectSeq` without recursion. `MCFiles` puts `Pairing`, `PairAttempts`,
`PairingUrls`, `CredentialRequests` and `ProfileMemory` side by side, `MCConversation` the other
ten. `FilesProofs` EXTENDS `CredentialRequests`, `ProfileMemory` and `PairingUrls`, `ConversationProofs` the nine modules
`SessionSettings`, `AgentSessions`, `StoreUpgrade`, `DirectoryListing`, `FilePreview`, `EventPages`, `AgentOutput`,
`ChatTransport` and `ChatFindings`; it cites `SelectionProofs`, as `PairingProofs` and `FilesProofs` do, where something is picked from a list.

An operator whose name ends in `Bug` is a plausible
wrong version of its neighbour; no specification uses it, TLC is run with it in place
of the right one to see that a property notices.

### How a thread is modelled

A thread is a process `<<role, run>>` with role `handler`, `worker`, `cancel` or
`boot`. Python code between two branch points is a straight line of calls to
`RunState`. When a thread leaves a branch point, `todo[p]` becomes that line (its
*script*) and `pc[p]` the branch point it leads to; the actions of `RunState`
then perform the head of the script, one call or one database transaction at a
step. So `MarkCancelled` is one action that puts `append activity`, `append run.cancelled`,
`set status cancelled` into the script, and the cancel request, a second cancel, the
handler, a fault or a crash may come between any two of them, as in the program.
Two threads never share a critical section: `holder` is the thread that is
between the assignment to memory and the last write of a call that does both
under `_runs_lock`, and every call that takes the lock requires `holder = {}`.

### RunState

| Variable | Code |
|---|---|
| `mem`, `events` | `RunState._runs` (status, the summary the control flow reads, whether an unblock request is pending; the events) |
| `cancelled` | `RunState._cancelled` |
| `row`, `rowEvents`, `latest` | tables `runs`, `run_events` (in `seq` order), the `latest_run_*` columns of `session_context` |
| `holder` | the thread inside `_runs_lock` |
| `copy` | the values a thread has read from a record for its next write |
| `up` | whether the process is down, importing `main.py`, or serving |
| `faults` | database writes that raised (bounded by `MaxFaults`) |

`store_run` is five steps (memory under the lock; read, upsert; read, session row),
`update_run_start_metadata` and `set_run_status` are three (memory, run row,
session row, all under the lock), `append_event` two. `DatabaseFault` makes any write raise.
`GetRun` loads a run another life of the process stored; `RequestCancel` is
`request_cancel`; `ReconcileRun` and `LoseMemory` are start-up and death.

### RunSubmission, RunWorkers, RunLifecycle

`RunSubmission` has the requests: text runs (accepted or rejected), audio runs with their
upload, transcription, three looks at the cancel mark and second submission, and the cancel.
`RunWorkers` has the three kinds of worker, the monitor loop of agent runs with
its child process, the finalizer and the net under a worker that raises. A line of output, or the message of
the last flush, may be an `assistant_response` that is no `ChatEnvelope` (`Unreadable`): its validation raises
(`run_state.py:193`) and nothing in the stream handler or the monitor catches it. The worker leaves the monitor past
`stop_process` (`agent_run_service.py:309`), the net records the run as failed, and the agent goes on alone.
A write that raises in the monitor takes the same way, as would the one that stores the agent's session id.
`RunLifecycle` composes them with the death and restart of the backend, and holds the
properties and the fairness.

What is abstracted: text and payloads (an event is its type and number; a
summary is the one the code compares, or "some other"); what an outside program answers
(transcription, calendar, guardrail, shell, agent output: any outcome); time (a
deadline may pass at any moment); the 3 s grace period of `stop_process`. A session has
only its latest-run columns here. A torn read of status and summary inside one `store_run` row
build is not modelled. Exceptions while an upload is read, other than 413, are left out.

### RunContract

What a client may rely on that sees only the database: a run is created running or rejected,
its end is announced by an event before the status that says so, and every later status was
announced as well. `RunLifecycle!KeepsContract` is the refinement: `status` is the
status of the row, `announced` the closing events among its stored events. Crashes,
faults, retries and the races of handler and cancel are stutters or contract steps.

### EventStream, EventLog, EventPages

`EventStream` puts the client of each run beside `RunLifecycle`: `conn` is the generator
`event_stream` with its local variables (`cursor_seq`, the pending events, the status it
read), `received` what the client has got over all its connections. `ReadEvents` is one
turn of the `while` loop (events and status under the lock), `YieldEvent` one `yield`;
`Disconnect` may lose the rest of a batch, and the death of the backend ends every
connection. A client connects again with the number of the last event it got.
Keep-alives and the sleep are left out: a turn of the loop that finds nothing changes
nothing. `EventLog` is what the client may rely on, and `StreamsTheLog` the refinement, in
which the log is the *stored* one: the lock keeps readers away from an event that is in memory
and not yet in the table. With a failed insertion this is false, so the run has no faults.

`EventPages` is one run, its events in memory and its rows (with the column `seq` beside the
event's own number), and a client that holds a window of the log and what it was told of its edges.
`MemoryPage` is `_build_event_page`, `StoredPage` the three queries of
`RunRecordStore.event_page`, which fetch one row too many. After `Restart` pages come from the table
until something loads the run. The client opens the run at its end and scrolls from there, which is
how the next cursors are meant; a failed insertion is not modelled.

### AgentOutput, AgentSessions

`AgentOutput` has the agent's `printed` lines, the reader thread (`drained`, `ended`), the monitor
(`pulled`, `monitor`) and the extractor of `codex_text.py` (`block`, `buffer`, `messages`). The
0.2 s of `queue.get` is a poll that finds nothing, at any moment at which the queue is empty. A
line is a boundary, noise or a saying; `SaidAt`, the reference, reads off the whole output what the agent says.
`AgentSessions` has the rows of `agent_session_map` for one conversation, the old `codex_thread_map`
row, and runs that resume, link, fail to resume and delete; `Boot` imports the old row again, `Age` lets
90 days pass.

### ChatSections, ChatFindings, ChatTransport

Pure algorithms of `chat_envelope.py`, as operators over sequences of lines; the state is an input and
its output, so that the invariants compare them with a reference definition. A line is what the
patterns of the code see in it (a heading, a label, an inline label, a fence; a reference to a file, a
command, an outcome, a word that warns). `ChatSections` names each piece of a text by its position: `Pieces`, the
reference, says under which title it stands. Of a line of a verification that names a command and an outcome
`_normalize_verification_line` keeps only these (`WithoutReason`). `ChatFindings` is `enhance_chat_envelope`: what it
reads is not the message, but a summary and the sections (`EnvelopeText`), in which the lines of a verification are
`Shortened` and others get their full stop (`Rewritten`). The summary comes from the first sentence of a paragraph, whose
lines are joined (`OneLine`); from which paragraph, as it was written or rewritten, depends on words, so it may be any of `Openings`.
What an agent states in a manifest (any of `Manifests`) replaces what the text says, list by list; artifacts and
warnings are added to it. `ChatTransport` counts characters only: the lengths that
`chat_envelope_transport_json` tries one after the other, and the message it falls back to.

### SessionSettings

The row of one session: executor, directory, the three columns of an older release, the JSON
that came after them, and what runs report. A change is two steps, reading and writing back; the
callers are patches (`PATCH /v1/sessions/{id}/context`), slash commands, and the `cd` of a shell run.
`wanted` is what the row should be after the changes one by one.

### Pairing, PairAttempts, PairingUrls

In `Pairing` a request thread takes `_pair_exchange_lock`, reads the `file`, draws codes and tokens,
and writes; each write is a truncation and a filling, an exchange writes twice. The `script` writes
without the lock. A phone waits for one answer, may give up and ask again while the first request is
still served; it remembers the last answer it got. `issued`, `redeemed` and `retired` are histories.
`PairAttempts` is `_enforce_pair_rate_limit`, with the clock read before the lock; `PairingUrls` is
`refresh_pairing_server_url`, once per start, over kinds of URLs.

### CredentialRequests, ProfileMemory

A credential request is in the file (`status`) and, while its value is known, in memory (`values`).
Each operation holds the one lock, so it is one step; the steps in between are a write that raises and
a death that leaves the file truncated. A memory is a sequence of notes: staged, extended by the
agent in one of two files, and written back by truncating and filling.

### FilePreview, DirectoryListing, StoreUpgrade

`FilePreview` looks at a file three times (`Inspect`, `ReadPage`, `SearchAndAnswer`), while the agent
appends, rewrites or removes; bytes are `"a"`, or `"h"` and `"t"`, which are one character together.
`DirectoryListing` reads one entry at a time and keeps the smallest names; `create_directory` looks
twice and then makes. `StoreUpgrade` is the start of the backend on the tables of any release, one
committed statement at a step.

## 4. Runs

`CHECK_DEADLOCK FALSE` everywhere: runs end and clients owe nothing, so the system may rightly stop.

| Run | Instance | Checks | Distinct states |
|---|---|---|---|
| `audio_run` | 1 audio run, all executors, 1 cancel | `CancelMarksLive`, `DatabaseFollowsMemory`, `RunningHasOwner`, `TerminalStaysTerminal` | 83 k |
| `text_run` | 1 text run, all executors, 2 cancels, 2 lines, 1 crash | `EventLogsAgree`, `FinalStatusIsAnnounced`, `NoAgentLeftBehind` | 174 k |
| `shared_session` | 2 shell runs of one session, 1 cancel each | `SessionShowsItsRun` | 256 k |
| `database_faults` | 1 text run, 1 cancel, 1 fault, 1 crash | `SystemInv`, `OverIsOver` | 393 k |
| `audio_faults` | 1 audio run with a shell, 1 cancel, 1 fault, 1 crash | `SystemInv`, `KeepsContract` | 87 k |
| `liveness` | 1 text run, all executors, 1 cancel, 1 crash, timeout set | `LaunchedRunEnds`, `AgentCancelIsHonoured`, `InterruptedRunIsClosed`, `CancelEndsRun` | 30 k |
| `event_stream` | 1 agent run, 1 cancel, 1 crash, any number of connections | `StreamsTheLog`, `EndedStreamIsWhole`, `StreamEnds` | 146 k |
| `files` | see below | pairing: `CodeRedeemedOnce`, `PhonesAreKept`, `AttemptsAreLimited`, `UrlsAreSteady`; credentials: `NoForgottenSecret`, `TakesWhatWasAccepted`, `ClosedStaysClosed`; memory: `MemoryIsKept` | 2.07 M |
| `conversation` | see below | output and text: `OutputIsShown`, `TextStaysUnderItsTitle`, `ChangesCanBeOpened`, `FindingsAreReported`, `FirstSectionIsKept`; session: `SettingsAreKept`, `ContinuesConversation`; pages: `PagesFit`, `EdgesAreTold`; files: `PreviewIsFaithful`, `MoreIsHonest`, `DirectoryIsAsTold`; tables: `UpgradeIsSafe` | 429 k |
| `audio_cancel_overwritten` | 1 audio run, 1 cancel | `CancelledStaysCancelled` is violated | - |
| `session_after_crash` | 1 text run, 1 crash | `SessionShowsItsRun` is violated | - |
| `output_tail` | an agent that prints at most 4 lines | `AllOutputIsRead` is violated | - |

**Two runs of many parts.** `MCFiles` and `MCConversation` hold parts that share no state, so a
behaviour is one of one part (`part`), while the others stand in one initial state. No step of a part reads
or writes what is another's, so each behaviour of all parts together is, seen from one of them, such a
behaviour with stutters; the properties are each about one part. One run
for all of them keeps the start of TLC and its configuration in one place. The numbers of states are
therefore sums: 9 k for a directory, 82 k for a preview, 147 k for the output, and so on.

**Properties of several parts.** Where a component makes one promise that has several sides, the
property is the conjunction of named formulas, which the modules state one by one: `PhonesAreKept`
(`LatestPhonesAreKept`, `PhoneCanReturn`, `ReplacedTokenIsDead`), `UrlsAreSteady` (`FirstUrlSuitsMode`,
`KnownUrlsSurvive`, `RestartIsStable`), `AttemptsAreLimited` (`LimitIsKept`, `RefusedOnlyAtLimit`),
`MemoryIsKept` (`MemoryIsWhatWasLearned`, `NothingIsNotCopied`), `EndedStreamIsWhole`
(`EndedStreamIsComplete`, `EndedStreamToldTheEnd`), `SettingsAreKept` (`SettingsAreAsAsked`,
`ReportIsKept`, `ColumnsAgree`, `OwnPatchIsWritten`), `OutputIsShown` (`ShownBefore`), `FindingsAreReported` (`ChecksAreReported`, `WarningsAreReported`), `PagesFit`, `EdgesAreTold`,
`PreviewIsFaithful`, `MoreIsHonest`, `DirectoryIsAsTold`, `UpgradeIsSafe`.

**Bounds of the runs of the life of a run.** Threads of different runs share only the lock, the
session row and the cancel
set (by run id), so one run shows every race about a run and two runs of one session every race about the
session row. A second cancel on top of the first is enough to see a repeated
one; two lines of output let a run produce a message and then a request for help, or a
held-back one at the flush; one fault, one crash (with reconciliation after it) each
give every position of a fault and a crash, and `database_faults` their combinations.
These bounds are guards of `CancelRun`, `TakeLine`, `Flush`, `DatabaseFault` and `Crash`.

**Bounds of `files`.** Two phones, two threads, one place in the file (so that a phone is pushed out),
three codes and five tokens (two exchanges, or one and three refreshes), one script or crash.
Two threads at the rate limit of 2 per 2 ticks, five attempts in five ticks: a window can fill, empty and fill.
One LAN and two public addresses, three starts. Two requests, two secrets, one failed write, one death. Three
agent runs in two directories, memory of two notes, one death. Threads and phones of
`Pairing` are symmetric: nothing chooses among them.

**Bounds of `conversation`.** Two changes, overlapping or not; three runs of two agents, two
sessions, one restart, one passage of 90 days; four printed lines with messages of one line and more;
texts of four lines (a label, a fence, what is in it and what follows) and, for what is found, of three lines each with
its title, which repeat, contradict or crowd out each other: at most two changes, three commands or tests and four
warnings are kept, so each limit is reached; three lengths of each field and lists of none and thirty, for limits of
400, 900 and 16 000 characters; five events and pages of one and three; files of four bytes and pages of
none, one and three, with a character of two bytes; three entries beside the uploads, of which two are
shown; two makers of a directory; two old runs, one of them damaged, and two deaths.

**Exceptions stated in the properties.** They were found by TLC, are behaviour of the code, and
are named in the properties rather than hidden by them:

* an audio run whose id the client chose can be cancelled before its row is inserted, and the insert
  then says `running` (`DatabaseFollowsMemory`, `SessionShowsItsRun`); an audio run whose second
  `_prepare` raises stays running without an owner (`RunningHasOwner`);
* a run rejected at submission is stored before its event (`FinalStatusIsAnnounced`), and its
  stream may end without that event, as may that of a blocked run which its worker finishes again
  (`EndedStreamIsComplete`); a blocked run may be replaced by a cancelled one
  (`OnlyBlockedIsReplaced`); a calendar run never looks at the cancel mark;
* a message of the agent that cannot be read, and a write that raises in the monitor, leave the agent running while its
  run is recorded as failed (`NoAgentLeftBehind`), also one that was cancelled (`AgentCancelIsHonoured`); nobody can cancel
  such an agent afterwards, since the run is over. `RunningHasOwner` is checked without database faults;
* a script beside a call may undo what the call stored, and a torn pairing file forgets all phones
  (`PhonesAreKept`; `CodeRedeemedOnce` holds all the same); a thread held up between clock and lock may
  be let through beside the limit (`LimitIsKept`); public URLs stay in Tailscale mode (`UrlsAreSteady`);
* a request whose write raised keeps its value in memory (`NoForgottenSecret`), the loss of the
  file takes a closed record away (`ClosedStaysClosed`);
* overlapping runs lose what one of them learned (`MemoryIsWhatWasLearned`), overlapping changes of a session
  may lose one (`SettingsAreAsAsked`), a run of codex whose session is gone deletes the row also when
  an overlapping run has just linked another session (`ContinuesConversation`);
* a heading or an empty line inside a code block splits it, and the reason why a check failed is dropped when its line
  names the command (`TextStaysUnderItsTitle`); commands and tests of
  a manifest replace those of the text, and an opening that joins two lines may give a command the outcome of another
  (`ChecksAreReported`); what is said beside the outcome of a check that passed is not warned of (`WarningsAreReported`); limits under 900 characters may drop the
  sections (`FirstSectionIsKept`);
* a page that cuts a character, and a file that is rewritten, shift what the phone has
  (`PreviewIsFaithful`, `MoreIsHonest`);
* a death between dropping the old table and storing its rows again loses all runs
  (`RunsSurviveUpgrade`).

**Fairness** (`FairSpec`). Weak fairness for every thread: Python threads are scheduled and
SQLite calls return. Weak fairness of `Restart`, `Reconcile`, `Serve`: the service manager restarts the
backend and the import ends. No fairness for clients, for an agent that may hang
(`ProcessExits`), for faults and crashes, nor for the timeout: that it is looked at again and again and
fires at last is the hypothesis of `LaunchedRunEnds` alone (strong fairness of `PollTimeout`, which
exists only if a timeout is configured), so that `CancelEndsRun` and `AgentCancelIsHonoured`
do not lean on it. Liveness properties end with
`\/ up = "down"` where a crash takes the thread away. `FairStreamedSpec` adds to the threads' fairness
that the generator is scheduled and its client reads; `StreamEnds` asks for nothing
else, since the run is already over. The parts of `files` and `conversation` have safety properties only:
their operations are requests that nobody is bound to make.

### Disagreements with the repository's own words

* `audio_cancel_overwritten`: after the last look at the mark (`main.py:427`) a cancel is
  recorded (`main.py:731`), which drops the mark (`run_state.py:290`), and the run is
  launched all the same and overwrites `cancelled`. A test
  (`test_api_inputs_and_workspace.py:275`) says a run cancelled during transcription ends
  `cancelled`; it reaches the order in which the cancel comes first.
* `session_after_crash`: `set_run_status` writes the run row and the session row in two
  transactions; a death in between leaves the session showing `running` for a finished run, and
  reconciliation skips it because the run is terminal. A test
  (`test_api_runs_and_context.py:296`) says the session shows `completed` once the run is.
* `output_tail`: the monitor finds the queue empty (`agent_process_monitor.py:68`), then looks whether
  the process has ended (88) and leaves; lines that came in between are never read. The agent's
  instructions (`agent_runtime.py:59`) say that its stdout is streamed to the phone.

## 5. Proofs

All proofs hold for every value of the constants under the named assumptions on their types, which the runs evaluate.

**`RunProofs`** (for every set of runs, sessions and executors and every value of the bounds):
`Invariant` (`Spec => []Inv`), `TypeCorrect` (`[]TypeOK`), `CancelMarks` (`[]CancelMarksLive`).

`TypeOK` is not inductive: `AppendRow` inserts the last event of memory, so there must be one,
and another thread could have stored the run anew in between. So `Inv` (module `RunInvariant`) adds
who may be working for a run at all:

* `ScriptsOK` - a `put` comes only first in a handler's script, the insertion of an event
  only right after the event was appended, and every status a script sets is terminal;
* `QuietUntilStored` - as long as memory does not hold a run, nobody works for it, except
  a handler that is about to store it;
* `OpensNew` - and that one stores a run that neither memory nor database knows;
* `AppendsEvent` - a thread that inserts an event finds one;
* `CancelMarksLive`, for which these are needed: a run is put, loaded or reconciled only
  when memory does not hold it, so it carries no mark; a status that is set is terminal,
  so the mark is dropped.

The first part of `RunProofs` has the facts about scripts and shows that every step of `RunSubmission` and
`RunWorkers` is a *branch* (a busy thread, or a cancel of a live run, chooses a script of safe
calls), a *store* (an idle handler, an unknown run) or the launch. Then there is one lemma per kind
of step (`OwnStep` for a step of one thread of a known run, `PutQuiet`, `StoreQuiet`,
`LaunchQuiet`, `LoadQuiet`, `ReconcileQuiet`, `DieQuiet`), the types, and `NextInv` with one
step per disjunct of `Next`.

**`ContractProofs`**, also with any number of faults and deaths: `WritesInTurn` (`Spec => []StorageInv`),
`EndsAreAnnounced` (`[]FinalStatusIsAnnounced`), `FinishedForGood` (`TerminalStaysTerminal`) and
`ContractIsKept` (`Spec => KeepsContract`, the refinement of `RunContract`). None of the last three is
inductive: whether a row may be written depends on what the writer copied, when, and what was announced
before. `StorageInv` (module `StorageInvariant`) adds to `Inv`

* *who is inside the lock* (`ScriptInTurn`) - a script is what is left of one call of `RunState`,
  followed by whole calls (`Shape`); a thread inside the lock is in the middle of one of the calls that
  write under it, any other thread only of `store_run`, and only a handler;
* *what it writes* (`WritesMemory`, `InsertsFirst`, `InsertsRecent`, `RowNotAhead`) - inside the lock what
  memory says; the row that `store_run` inserts after the lock was released is the first of its run and
  not further than memory, which is why a cancel in between is not undone in the wrong direction;
* *what was announced* (`Justified`, `WritesJustified`, `EndsAreTold`, `BlockedIsTold`) - a status that is
  still to be set is `Promised`: its event is in both logs, is being inserted, or stands before it in
  the same script. If the insertion raises the script is dropped, and the status with it; if the backend
  dies both are. A finalizer that finds its run blocked sets the status alone, so the promise is made
  when the monitor learns of it.

`ShapeAfter` says how a step changes what is left of a call, `CallEffect` what a call changes; `OwnCall`
and `OtherCalls` are the two sides of a call, `ChoiceKeeps` is for every step that only chooses a script
(`HarmlessScripts`, `HarmlessEnds`, `HarmlessJoin`, `HarmlessMeta`), and `NextStorage` has one step per
disjunct of `Next`. `ContractStep` maps each step to a step of the contract or a stutter.

**`AgreementProofs`** has two parts. Until the first database write that raises, with any number of deaths: `OwnedRuns`
(`[]OwnedUntilFault`) with its consequences `RunsHaveOwners` (`RunningHasOwner`) and `AgentsHaveWorkers`
(`NoAgentLeftBehind`); `AgreedStores` (`[]AgreedUntilFault`) with `RowsFollowMemory` (`DatabaseFollowsMemory`),
`LogsAreOne` (`EventLogsAgree`) and `SessionsShowRuns` (`SessionShowsItsRun`, before the first death, which
`session_after_crash` shows to be needed). A write that raises is excluded because the code promises nothing
after it: the script is dropped with memory changed and the row not, an exception in a handler leaves its run
without an owner. A message that cannot be read is not excluded: `OwnerInv` knows of it (`AgentPlaces`), as the one way for
an agent to be alive with no worker at its monitor, and then its run is failing or has ended. `TextRuns` and `AudioRuns` are disjoint
(`KindAssumption`), which the code justifies: a run is created by one request. The invariants say

* `OwnerInv` - for a run that memory shows as running, which thread will end it: one at a place from which
  it goes on to choose an end (`HandlerDecides`, `WorkerDecides`) or one with a status in its script; the exception
  is the audio run that its handler leaves in transcription. This needs what only some threads do: workers
  alone raise, cancel requests write nothing but the cancel and to audio runs only, a worker starts when its request is over,
  and before the backend serves nobody but reconciliation works;
* `AgreementInv` - every difference is explained by a write that is still to come: a row that is not what
  memory says has a thread about to write it (`RowAgrees`), a session one with a session write ahead of it
  (`SessionAgrees`), the event logs differ by the one event that the thread inside the lock is inserting
  (`LogsAgree`), and what `store_run` copied is what memory says unless a cancel was faster (`StoreIsRecent`).

With any number of writes that raise and of deaths: `EndsStay` (`Spec => OnlyBlockedIsReplaced`). That a row keeps
its end needs to know what is still to come for it, wherever the threads of the run are, so `EndInv` says of a text run

* a script sets a status only with its last call (`EndsWith`), and one that may follow on what memory says
  (`MayFollow`): any on a run that is not over, `blocked` or `cancelled` on a blocked one, else none;
* a worker that has not yet seen its agent end is at an `OpenPlaces` with a run that is not over and no status to
  set; from the last flush to the choice of the outcome (`ClosingPlaces`) only a request for the user's help may have
  ended it; the net under it therefore finds either a run to fail or nothing to do (`TextWorker`);
* the request that creates the run opens it before it launches the worker (`TextHandler`), and a cancel request
  leaves the run to its worker (`TextCanceller`);
* an end in the row is that of memory, but for a blocked run whose cancel has not been written (`RowEndFollows`):
  a write that raised, or a death, can only leave the row behind, and reconciliation begins from the row.

There is one lemma for each kind of step (`WorkEnds`, `SubmitEnds`, `PerformEnds`, `FaultEnds`, `LoadEnds`, `ReconcileEnds`,
`DieEnds`), and `TextWorkerFits` goes through the worker's places.

`SystemInv` is `StorageInv` (which contains `Inv`), `EndInv`, `OwnedUntilFault` and `AgreedUntilFault` together
(`SystemIsUnderstood`); TLC checks it in `audio_faults` and `database_faults`. `RunInHands` is one run's part, so a
step leaves the other runs' parts alone (`Untouched`, `UntouchedRun`), and only the caller's has to be shown again.

**`StreamProofs`**: `FinishedLogsAreClosed` (`Spec => FinishedLogIsFinal`), with any number of writes that raise and of
deaths. It needs `FinalInv`: once memory says that a text run is completed, failed or cancelled, nobody has an event left
to append for it. Scripts set the status last (`EndInv`), the net under a worker looks at the status before it
appends, and a call that was begun before the end is over by then. An end in the row is that of memory, so the table is closed too.
With `EndsStay` it gives `FinishedRunsStay` (`Spec => OverIsOver`).
`ClientsFollow` (`StreamedSpec => []StreamInv`) is about the clients, until the first write that raises: what a
client has is the beginning of the stored log, its cursor the number of the last event it has, what is being sent to it the part that follows
(`Follows`), and, for a text run, when its stream has ended the run had ended as it says, so that nothing is added to the log any more
(`Informed`, which leans on `FinalInv` and on `EndsAreAnnounced`). `Follows` holds because events and rows
are numbered alike and differ only while the lock is held (`AgreementInv`), which is why a turn of the loop that holds the lock
finds in memory the rows after the cursor (`PendingPart`). Its consequences are `EndedStreamsAreWhole` (`[](faults = 0 =>
EndedStreamIsWhole)`) and `LogIsStreamed`, the refinement of `EventLog`: for `MaxFaults = 0`, since a client reads from memory an event
whose insertion raised; and, where there are audio runs, for `MaxCrashes = 0`, since a client may use the id of
an audio run again that a death has taken from memory before it was stored, and finds the events of the
first attempt in the table.

**`SelectionProofs`** has what the other proofs need of lists: what is picked from places next to
each other is the part of the list between them (`PickedInterval`); each place that is picked is picked once and no other
(`PlacesMatch`), in order (`UpToGrows`); and what is picked of two lists together is picked of each (`PickedJoined`, `OnlyJoined`).

**`PairingProofs`**: `CodesRedeemedOnce` (`PairSpec => []CodeRedeemedOnce`) and `PairTypes`. That a
code is redeemed once is known only together with what may still be written: `PairInv` says that whoever is
about to write holds the lock, that codes are drawn in order, and (`SpentIsGone`) that neither the file nor any
copy that a thread or a script is going to write holds a code that was redeemed or is being
redeemed. So the crash between the two writes of an exchange is harmless, and so is the script without the
lock: the code it writes is a new one. One lemma per action.
`PairedPhonesAreKept` (`PairSpec => []PhonesAreKept`) needs `KeepInv`, which holds as long as no script has
worked beside a call. A copy of the file is chosen long before it is written, while phones give
up, ask again and get answers late; so it speaks of all of them at once: every text that is there or will be written
fits what the phones have or are about to get (`Fits`), tokens of two phones differ, also those of refreshes still
to be served (`Belongs`), and a text's tokens are drawn, distinct and not retired. A refresh that
would still be served belongs to a phone which has what it presents: that is why a call that was
abandoned cannot take a token away. `AttemptsStayLimited` (`AttemptsSpec => AttemptsAreLimited`) compares what the code keeps, which is cut to the last minute
at each attempt, with all that it ever let through. `AttemptsInv` has an injection from the stored attempts into those let
through (`ComesFrom`), so nobody is refused for attempts that were not made; as long as no thread was held up between
the clock and the lock the times are in order (`InOrder`), and the injection reaches all of the last minute
(`HasTheMinute`), so nobody is let through beside the limit. `MCFiles` EXTENDS `PairingInvariant`,
so that both invariants can be checked by adding them to `files.cfg`, as was done before they were proved.

**`FilesProofs`**, credential requests: `SecretsAreForgotten` (`[]NoForgottenSecret`), `TakesAccepted`
(`[]TakesWhatWasAccepted`), `ClosedForGood` (`ClosedStaysClosed`). The inductive invariant `CredInv` adds
that an accepted request is closed for ever, even when its record is lost (`AcceptedIsClosed`), that what
is closed as fulfilled was accepted, that memory holds the accepted value or none, and that a value
that was taken is gone (`TakenIsGone`).

Profile memory: `MemoryStaysKept` (`MemorySpec => MemoryIsKept`) from `MemoryInvariant` (`[]MemoryInv`). What
somebody is about to write has text (`CopyHasText`), which is why only a death in the middle of a write
empties the file; and as long as no runs have overlapped, the file and what the run at work will copy are what was learned
(`AloneKeeps`). The clipping of a long memory needs lemmas of its own: clipping again changes nothing
(`ClippedAgain`), and a note is added to a clipped memory as to the whole one (`ClippedAppend`).

URLs: `UrlsStaySteady` (`UrlsSpec => []UrlsAreSteady`). The invariant `UrlInv` says that the file, and what it held
before the latest start, is empty or a list without repetitions whose first URL is the one told first
(`Advertised`), and that the latest start wrote what `Readvertised` gives. The work is in the algorithm: of such a file
`_matching_previous_server_urls` keeps the URLs of the mode in their order (`PreviousIs`), because the
current URL which it puts in front is the first of them, or is dropped (`AgainFirst`, `WithoutFirst`). So the lists that
a start joins have no URL in common and `Dedupe` leaves them as they are (`TidyStays`), but for the public
address of the machine's own while Tailscale is down, which is the exception that `RestartIsStable` names. What a start writes
has a closed form for each mode (`ExplicitIs`, `LocalIs`, `WifiIs`, `TailscaleIs`), and written over its own result it
gives the same (`StartAgain`). It rests on `UrlAssumption`: an address is of one kind.

**`ConversationProofs`** has nine small systems:

* `ConversationContinues` (`SessionsSpec => ContinuesConversation`): the row of an executor, pruned, is the session
  that was linked last (`RowsAreLatest`), also when runs of one conversation overlap;
* `SettingsStayKept` (`SettingsSpec => SettingsAreKept`): who changes settings alone has read what all changes
  before have left (`ChangesInTurn`), and a row that is stored reads as what was stored (`Stored`);
* `StoreUpgradesSafely` (`UpgradeSpec => []UpgradeIsSafe`): at each step which tables are there, with which
  columns, and where the rows are: in the table or in the hands of the upgrade (`TablesFit`, `RowsAreRead`);
* `DirectoryIsListed` (`ListingSpec => DirectoryIsAsTold`): the heap of a scan holds the smallest names of all
  that was read (`ScanKeeps`), because the smallest of these and one more are the smallest of all with it
  (`LowestOfMore`). The least name of a set comes from the well-foundedness of the naturals;
* `ToldHonestly` (`PreviewSpec => MoreIsHonest`): a file that was not rewritten is never shorter than a request
  found it, and never ends before the place where the phone goes on (`FileReaches`). The lengths of slices are lemmas.
  `PreviewStaysFaithful` (`[]PreviewIsFaithful`): the page that was read is the part of the file after the offset, the pages
  are its characters up to there, and what is picked of two parts together is picked of each, matches included;
* `PagesAlwaysFit` and `EdgesAlwaysTold` (`[]PagesFit`, `EdgesAreTold`, for logs and pages of every size) from
  `PagesAreStretches` (`[]PageInv`): the rows have no gap and memory says the same, the events a request asks for are next to
  each other (`PlacesWanted`), so that a page is a part of the log (`CutPart`), the same from memory as from the
  table, and a window to which it is added stays one stretch.

* `SayingsAreShown` (`OutputSpec => []OutputIsShown`, for outputs of every length): the buffer is what is said from
  a place of the output on, and the messages show what was said before it (`OutputInv`). A line that is read adds to one
  of the two (`LineRead`), a flush shows one stretch more (`ShownMore`) or repeats the last message (`ShownAgain`);
* `FirstSectionStays` (`[]FirstSectionIsKept`, for messages and limits of every size): of the 600 cuts the last that
  leaves a section (`LastTry`) makes any message fit into 900 characters, and the one that is taken comes no later;
* `FindingsOpen` and `FindingsReport` (`[]ChangesCanBeOpened`, `[]FindingsAreReported`, for texts of every
  length and lists of every size): what is found is what the text, its opening and the manifest give (`FindInv`). A list that is flattened has what its lists have (`Flattened`); one that is
  freed of repetition keeps one of all that agree (`DedupedIs`) and no two (`DedupedApart`), so one that is not
  full has lost nothing (`NoShorter`, `ListedIs`). A shortened line still names its command and its outcome
  (`RewrittenIs`), and each line of the message is there, rewritten, behind the summary (`EnvelopeLines`). An artifact that
  a change refers to is not dropped by the changes that come after it (`ActionableIs`). Of an opening it is only
  known that it is built like a line (`OneLineIs`), which is why its outcome stands in `SaidOf`. A line is one of
  `LinesUnder` its title, and a manifest any of `Manifests`.

Only model-checked: the cutting of a text into sections, `TextStaysUnderItsTitle`, whose result would need an
induction over the text; and all liveness properties, which with fairness and `ENABLED` are out of the prover's reach.

## 6. Not modelled

Listed in `PROJECT.json` with the reason:

* the deferred restart: a shell loop that polls the `runs` table and then asks systemctl or launchctl;
  what it promises is about those programs, and its one look and one act are two commands that a run may start between;
* configuration, capabilities and readiness reports: read or computed once per request from the host, no
  state that two operations share; the outcomes that control a run are choices in `RunSubmission`;
* the command line and the installers, which a person runs one at a time; generated files (OpenAPI);
* of modelled parts: uploads (each writes a file of its own), rules for paths, URLs and shell
  commands (comparisons of strings), `AGENTS.md` (copied in one direction), agenda items, next actions
  and message kinds, the Claude stream (one JSON object per message), what is only read (run lists, diagnostics,
  the token check).

Known limits that no property speaks of, since nothing in the repository denies them: two scripts at the same
time overwrite each other's code; a memory over the limit is clipped again at each copy; a relative
path is also found as an absolute one from its first slash on (`"/b.py"` of `src/b.py`); a calendar run has
neither the net nor the look at the cancel mark that other workers have; a command is reported with what the first line that
names it says, also if that is the joined opening ("- `pytest` passed - `ruff check` failed" has `pytest` failed); a warning
may be reported twice, with a full stop and without; an envelope that is enhanced again is not the same, since
"Passed: `pytest`" becomes "Passed: `pytest` (`pytest`)".

Left out of `ChatSections` and `ChatFindings`: prompts ("$ ls"), the cut of a long line at 280 characters, the detail after a
colon that a shortened line keeps, words that take an outcome back ("0 failures"), the warning that a title like "Failed" is
itself. `AgentOutput` is the plain text of codex; with `--json` a message arrives whole as one
`item.completed`, which bypasses the extractor. `ChatTransport` does not count what JSON escapes.

## 7. Running it

    tlc -config audio_run.cfg MCRunLifecycle
    tlc -config event_stream.cfg MCEventStream
    tlc -config files.cfg MCFiles
    tlc -config conversation.cfg MCConversation
    tlc -config output_tail.cfg AgentOutput
    tlapm RunProofs.tla

The other runs are configurations of `MCRunLifecycle`; the other proofs are in
`ContractProofs.tla`, `AgreementProofs.tla`, `StreamProofs.tla`, `SelectionProofs.tla`, `PairingProofs.tla`,
`FilesProofs.tla` and `ConversationProofs.tla`.
