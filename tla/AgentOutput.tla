---------------------------- MODULE AgentOutput ----------------------------
(***************************************************************************)
(* What an agent prints and what becomes of it: a reader thread puts the   *)
(* lines of the agent's stdout into a queue, the monitor takes them out    *)
(* and hands them to the extractor, which turns the lines of codex blocks  *)
(* into messages.  The run's other steps are in RunWorkers.                *)
(***************************************************************************)
EXTENDS Selection

CONSTANTS
    Sayings,      \* lines that an agent may say
    Noise,        \* lines that filter_codex_assistant_message drops
    MaxPrinted,   \* bound: lines printed
    MaxBuffer     \* the 2000 characters of a message, in lines

ASSUME BufferAssumption == MaxBuffer \in Nat /\ Sayings \cap Noise = {}

\* "exec" stands for the lines other than "codex" that end a block.
Boundaries == {"codex", "exec"}
Lines == Boundaries \cup Sayings \cup Noise

VARIABLES
    printed,     \* what the agent has printed
    exited,      \* the agent's process has ended
    drained,     \* lines that the reader thread has put into the queue
    ended,       \* it has put None after them
    pulled,      \* entries that the monitor has pulled from the queue
    monitor,     \* what the monitor does next
    stopped,     \* it has seen a cancel or the timeout
    block,       \* in_assistant_block
    buffer,      \* lines of the message that is being read
    lastEmitted,
    messages     \* messages emitted

outputVars == <<printed, exited, drained, ended, pulled, monitor, stopped, block, buffer, lastEmitted, messages>>
extractorVars == <<block, buffer, lastEmitted, messages>>

OutputInit ==
    /\ printed = <<>> /\ exited = FALSE
    /\ drained = 0 /\ ended = FALSE
    /\ pulled = 0 /\ monitor = "get" /\ stopped = FALSE
    /\ block = FALSE /\ buffer = <<>> /\ lastEmitted = <<>> /\ messages = <<>>

---------------------------------------------------------------------------
(* The agent and the reader thread.                                        *)

AgentPrints ==
    /\ ~exited /\ Len(printed) < MaxPrinted
    /\ \E l \in Lines : printed' = Append(printed, l)
    /\ UNCHANGED <<exited, drained, ended, pulled, monitor, stopped, extractorVars>>

AgentExits ==
    /\ ~exited
    /\ exited' = TRUE
    /\ UNCHANGED <<printed, drained, ended, pulled, monitor, stopped, extractorVars>>

\* drain_stdout
Drain ==
    /\ ~ended
    /\ \/ drained < Len(printed) /\ drained' = drained + 1 /\ ended' = ended
       \/ exited /\ drained = Len(printed) /\ ended' = TRUE /\ drained' = drained
    /\ UNCHANGED <<printed, exited, pulled, monitor, stopped, extractorVars>>

---------------------------------------------------------------------------
(* The extractor.                                                          *)

\* _flush: a message that repeats the one before is dropped
FlushBuffer ==
    /\ buffer' = <<>>
    /\ IF buffer \in {<<>>, lastEmitted}
       THEN UNCHANGED <<lastEmitted, messages>>
       ELSE lastEmitted' = buffer /\ messages' = Append(messages, buffer)

\* CodexAssistantExtractor.consume: a line may fill the buffer, which is then
\* flushed with it
Consume(line) ==
    IF line \in Boundaries THEN block' = (line = "codex") /\ FlushBuffer
    ELSE IF block /\ line \in Sayings /\ Len(buffer) >= MaxBuffer
    THEN LET full == Append(buffer, line)
         IN /\ block' = block /\ buffer' = <<>>
            /\ IF full = lastEmitted THEN UNCHANGED <<lastEmitted, messages>>
               ELSE lastEmitted' = full /\ messages' = Append(messages, full)
    ELSE /\ buffer' = IF block /\ line \in Sayings THEN Append(buffer, line) ELSE buffer
         /\ UNCHANGED <<block, lastEmitted, messages>>

---------------------------------------------------------------------------
(* The monitor.                                                            *)

TakeLine ==
    /\ monitor = "get" /\ pulled < drained
    /\ pulled' = pulled + 1
    /\ Consume(printed[pulled + 1])
    /\ monitor' = "check"
    /\ UNCHANGED <<printed, exited, drained, ended, stopped>>

\* An empty queue for 0.2 seconds and the None of the reader look the same.
TakeNothing ==
    /\ monitor = "get" /\ pulled >= drained
    /\ pulled' = IF ended /\ pulled = drained THEN pulled + 1 ELSE pulled
    /\ monitor' = "poll"
    /\ UNCHANGED <<printed, exited, drained, ended, stopped, extractorVars>>

\* A process that has ended ends the loop, whatever the queue holds by now.
PollProcess ==
    /\ monitor = "poll"
    /\ monitor' = IF exited THEN "flush" ELSE "check"
    /\ UNCHANGED <<printed, exited, drained, ended, pulled, stopped, extractorVars>>

CheckStop ==
    /\ monitor = "check"
    /\ \/ monitor' = "get" /\ stopped' = stopped
       \/ monitor' = "flush" /\ stopped' = TRUE
    /\ UNCHANGED <<printed, exited, drained, ended, pulled, extractorVars>>

FinalFlushBug ==
    /\ monitor = "flush"
    /\ monitor' = "done" /\ exited' = TRUE
    /\ UNCHANGED <<printed, drained, ended, pulled, stopped, extractorVars>>
\* The last message is flushed, the agent stopped and waited for.
FinalFlush ==
    /\ monitor = "flush"
    /\ FlushBuffer
    /\ monitor' = "done" /\ exited' = TRUE
    /\ UNCHANGED <<printed, drained, ended, pulled, stopped, block>>

OutputNext == AgentPrints \/ AgentExits \/ Drain \/ TakeLine \/ TakeNothing \/ PollProcess \/ CheckStop \/ FinalFlush
OutputSpec == OutputInit /\ [][OutputNext]_outputVars

---------------------------------------------------------------------------
(* Properties.                                                             *)

Taken == SubSeq(printed, 1, IF pulled < Len(printed) THEN pulled ELSE Len(printed))

\* The lines of the codex blocks, by a look at the whole output: those after a
\* "codex" with no boundary in between.
InBlock(out, i) == \E j \in 1 .. (i - 1) : out[j] = "codex" /\ \A k \in (j + 1) .. (i - 1) : out[k] \notin Boundaries
SaidAt(out, i) == out[i] \in Sayings \ Boundaries /\ InBlock(out, i)

\* A stretch of the output that begins with such a line, within one block, and
\* the lines that the agent says in it.
OneBlock(out, i, j) == i <= j /\ SaidAt(out, i) /\ \A k \in i .. j : out[k] \notin Boundaries
SaidIn(out, i, j) == Only(SubSeq(out, i, j), Sayings)

\* The messages show what is said before place e: each is all that is said in
\* a stretch of its own, these are in the order of the output, and a line that
\* is in none of them is also in the last message that began before it.
ShownBefore(shown, out, e) ==
    \E first, last \in [DOMAIN shown -> 1 .. (e - 1)] :
        /\ \A m \in DOMAIN shown : OneBlock(out, first[m], last[m]) /\ shown[m] = SaidIn(out, first[m], last[m])
        /\ \A m, n \in DOMAIN shown : m < n => last[m] < first[n]
        /\ \A i \in 1 .. (e - 1) : SaidAt(out, i) =>
             \E m \in DOMAIN shown :
                 /\ first[m] <= i /\ \E k \in DOMAIN shown[m] : shown[m][k] = out[i]
                 /\ \A n \in DOMAIN shown : m < n => i < first[n]

\* What an agent says is shown, whole, once and block by block: messages hold
\* lines of codex blocks and nothing else, those of one message nothing but
\* noise apart, and when the monitor is done each line that it has read is in
\* one; only repetitions are left out.
OutputIsShown ==
    \E e \in 1 .. (Len(Taken) + 1) : ShownBefore(messages, Taken, e) /\ (monitor = "done" => e = Len(Taken) + 1)

\* "Your stdout is streamed to a phone UI", as the agent's instructions say:
\* the output of an agent that ended by itself is read to its end.
AllOutputIsRead == monitor = "done" /\ ~stopped => pulled >= Len(printed)

=============================================================================
