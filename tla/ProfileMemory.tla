--------------------------- MODULE ProfileMemory ---------------------------
(***************************************************************************)
(* ProfileStore: the MEMORY.md of a profile is copied into the working     *)
(* directory when an agent run starts and copied back when it ends.  Runs  *)
(* overlap, in one directory or in several, and nothing locks the files.   *)
(*                                                                         *)
(* A memory is a sequence of notes; each agent adds one.  Of the two files *)
(* that a directory may hold only which one is newer matters.              *)
(* Path.write_text truncates the profile's file before it fills it.        *)
(***************************************************************************)
EXTENDS Integers, Sequences

CONSTANTS
    MemoryRuns,      \* agent runs, numbered in the order in which they start
    Workdirs,        \* working directories
    MaxNotes,        \* profile_memory_max_chars, in notes
    TruncationMark,  \* "...[truncated for context budget]"
    DefaultNote,     \* the default text of a memory
    MaxMemoryStops   \* bound: deaths of the backend

ASSUME MemoryRunsAssumption == MemoryRuns \subseteq Nat
ASSUME NotesAssumption == MaxNotes \in Nat \ {0}

VARIABLES
    profile,       \* MEMORY.md of the profile
    staged,        \* .mobaile/MEMORY.md of each directory
    beside,        \* MEMORY.md of the directory itself, where an agent may write
    newer,         \* the one of the two that was written last
    memoryRun,     \* what each run is doing
    learned,       \* history: the notes of all runs whose end was reached, in order
    crossed,       \* history: two runs have overlapped, or a copy back was cut off
    memoryStops

memoryVars == <<profile, staged, beside, newer, memoryRun, learned, crossed, memoryStops>>

\* no file, or an empty one
Empty == <<>>

\* _clip_context: the beginning is kept, the mark comes on top of the limit
Clip(notes) == IF Len(notes) <= MaxNotes THEN notes ELSE Append(SubSeq(notes, 1, MaxNotes), TruncationMark)

NewMemoryRun == [pc |-> "new", dir |-> CHOOSE w \in Workdirs : TRUE, memory |-> TRUE, copy |-> Empty]
EndedMemoryRun == [NewMemoryRun EXCEPT !.pc = "done"]

MemoryInit ==
    /\ profile = <<DefaultNote>>
    /\ staged = [w \in Workdirs |-> Empty]
    /\ beside = [w \in Workdirs |-> Empty]
    /\ newer = [w \in Workdirs |-> "staged"]
    /\ memoryRun = [r \in MemoryRuns |-> NewMemoryRun]
    /\ learned = <<DefaultNote>>
    /\ crossed = FALSE
    /\ memoryStops = 0

MemoryBusy == {r \in MemoryRuns : memoryRun[r].pc \notin {"new", "done"}}

---------------------------------------------------------------------------
(* A run.                                                                  *)

\* stage_files_in_workdir.  Without memory the copy of whoever runs in the
\* directory goes, and nothing is copied back.
StageMemory(r) ==
    \E w \in Workdirs, memory \in BOOLEAN :
        /\ memoryRun[r].pc = "new" /\ \A q \in MemoryRuns : q < r => memoryRun[q].pc # "new"
        /\ memoryRun' = [memoryRun EXCEPT ![r] = [pc |-> "works", dir |-> w, memory |-> memory, copy |-> Empty]]
        /\ staged' = [staged EXCEPT ![w] = IF memory THEN profile ELSE Empty]
        /\ newer' = [newer EXCEPT ![w] = "staged"]
        /\ crossed' = (crossed \/ MemoryBusy # {})
        /\ UNCHANGED <<profile, beside, learned, memoryStops>>

\* The agent adds a note to the copy it was pointed to, or writes the memory
\* to the directory itself.
AgentLearns(r) ==
    LET w == memoryRun[r].dir
        text == Append(staged[w], r)
    IN /\ memoryRun[r].pc = "works" /\ memoryRun[r].memory
       /\ \/ /\ staged' = [staged EXCEPT ![w] = text]
             /\ newer' = [newer EXCEPT ![w] = "staged"]
             /\ UNCHANGED beside
          \/ /\ beside' = [beside EXCEPT ![w] = text]
             /\ newer' = [newer EXCEPT ![w] = "beside"]
             /\ UNCHANGED staged
       /\ memoryRun' = [memoryRun EXCEPT ![r].pc = "learned"]
       /\ UNCHANGED <<profile, learned, crossed, memoryStops>>

\* the newer one of the files that are not empty
LatestFile(w) ==
    IF beside[w] # Empty /\ (newer[w] = "beside" \/ staged[w] = Empty) THEN beside[w] ELSE staged[w]

CopiesBackBug(r) == memoryRun[r].memory
\* nothing is copied back if no file has text
CopiesBack(r) == memoryRun[r].memory /\ LatestFile(memoryRun[r].dir) # Empty

\* sync_memory_from_workdir up to the write of the profile's file
PickMemory(r) ==
    /\ memoryRun[r].pc \in {"works", "learned"}
    /\ learned' = IF memoryRun[r].pc = "learned" THEN Append(learned, r) ELSE learned
    /\ IF CopiesBack(r)
       THEN memoryRun' = [memoryRun EXCEPT ![r].pc = "writes", ![r].copy = Clip(LatestFile(memoryRun[r].dir))]
       ELSE memoryRun' = [memoryRun EXCEPT ![r] = EndedMemoryRun]
    /\ UNCHANGED <<profile, staged, beside, newer, crossed, memoryStops>>

TruncateProfile(r) ==
    /\ memoryRun[r].pc = "writes"
    /\ profile' = Empty
    /\ memoryRun' = [memoryRun EXCEPT ![r].pc = "writing"]
    /\ UNCHANGED <<staged, beside, newer, learned, crossed, memoryStops>>

FillProfile(r) ==
    /\ memoryRun[r].pc = "writing"
    /\ profile' = memoryRun[r].copy
    /\ memoryRun' = [memoryRun EXCEPT ![r] = EndedMemoryRun]
    /\ UNCHANGED <<staged, beside, newer, learned, crossed, memoryStops>>

\* A run that the backend's death cut off copies nothing back.
MemoryStop ==
    /\ memoryStops < MaxMemoryStops
    /\ memoryStops' = memoryStops + 1
    /\ memoryRun' = [r \in MemoryRuns |-> IF r \in MemoryBusy THEN EndedMemoryRun ELSE memoryRun[r]]
    /\ crossed' = (crossed \/ \E r \in MemoryBusy : memoryRun[r].pc \in {"writes", "writing"})
    /\ UNCHANGED <<profile, staged, beside, newer, learned>>

MemoryNext == \/ \E r \in MemoryRuns : \/ StageMemory(r) \/ AgentLearns(r) \/ PickMemory(r)
                                       \/ TruncateProfile(r) \/ FillProfile(r)
              \/ MemoryStop

MemorySpec == MemoryInit /\ [][MemoryNext]_memoryVars

---------------------------------------------------------------------------
(* Properties.                                                             *)

\* Runs that come one after the other build up one memory, whatever directory
\* they run in and wherever their agents write: it is what they have learned,
\* in order, up to the limit.  A run without memory changes nothing, and a file
\* that an earlier run, also one cut off by a restart, left in a directory does
\* not replace what came later.
MemoryIsWhatWasLearned ==
    MemoryBusy = {} /\ ~crossed => profile = Clip(learned)

\* However runs overlap, one that ends does not replace the memory by nothing:
\* a copy that was staged while another run had truncated the profile's file is
\* empty, and is not copied back.
NothingIsNotCopied ==
    [][\A r \in MemoryRuns : memoryRun[r].pc = "writing" /\ memoryRun'[r].pc = "done"
                         => profile' # Empty \/ memoryStops' # memoryStops]_memoryVars

\* The memory of the profile is built up by runs that follow one another, and
\* not wiped out by runs that overlap.
MemoryIsKept == []MemoryIsWhatWasLearned /\ NothingIsNotCopied

=============================================================================
