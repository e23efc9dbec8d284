----------------------------- MODULE FilesProofs -----------------------------
(***************************************************************************)
(* Proofs about what the backend keeps in files: the secrets that runs ask *)
(* for, the agents' memory, and the URLs that phones are told.             *)
(***************************************************************************)
EXTENDS CredentialRequests, ProfileMemory, PairingUrls, SelectionProofs, TLAPS

---------------------------------------------------------------------------
(* CredentialRequests, for every set of requests and secrets, any number   *)
(* of writes that raise and any number of deaths.  That a run takes what   *)
(* the phone was told is accepted is not inductive: it needs to be known   *)
(* that an accepted request is never pending again, even when its record   *)
(* is lost, so that no later answer can replace it.                        *)

CredTypeOK ==
    /\ status \in [Requests -> Statuses]
    /\ due \subseteq Requests
    /\ values \in [Requests -> Secrets \cup {NoSecret}]
    /\ fulfilled \in [Requests -> Secrets \cup {NoSecret}]
    /\ taken \in [Requests -> Nat]
    /\ unsafe \subseteq Requests
    /\ stops \in Nat

AcceptedIsClosed == \A r \in Requests : fulfilled[r] # NoSecret => status[r] \in {"fulfilled", "none"}
ClosedWasAccepted == \A r \in Requests : status[r] = "fulfilled" => fulfilled[r] # NoSecret
MemoryIsAccepted ==
    \A r \in Requests : status[r] = "fulfilled" => values[r] \in {NoSecret, fulfilled[r]}
TakenIsGone == \A r \in Requests : taken[r] # 0 => /\ taken[r] = 1
                                                   /\ values[r] = NoSecret
                                                   /\ fulfilled[r] # NoSecret

CredInv == /\ CredTypeOK
           /\ AcceptedIsClosed
           /\ ClosedWasAccepted
           /\ MemoryIsAccepted
           /\ TakenIsGone
           /\ NoForgottenSecret

---------------------------------------------------------------------------
(* Expiry closes pending requests and nothing else.                        *)

LEMMA ExpiryClosesPending ==
    ASSUME CredTypeOK
    PROVE  /\ Expired(status) \in [Requests -> Statuses]
           /\ \A r \in Requests : \/ Expired(status)[r] = status[r]
                                  \/ status[r] = "pending" /\ Expired(status)[r] = "expired"
  BY DEF CredTypeOK, Expired, Statuses

\* Files that an operation may leave: each record as it was, expired, or lost.
Left(s) == /\ s \in [Requests -> Statuses]
           /\ \A r \in Requests : \/ s[r] = status[r] \/ s[r] = "none"
                                  \/ status[r] = "pending" /\ s[r] = "expired"

LEMMA WhatIsLeft ==
    ASSUME CredTypeOK
    PROVE  Left(status) /\ Left(Expired(status)) /\ Left(NoRecords)
  <1>1. Left(status)
    BY DEF Left, CredTypeOK
  <1>2. Left(Expired(status))
    BY ExpiryClosesPending DEF Left
  <1>3. Left(NoRecords)
    BY DEF Left, NoRecords, Statuses
  <1> QED
    BY <1>1, <1>2, <1>3

LEMMA Initially == CredInit => CredInv
  BY DEF CredInit, CredInv, CredTypeOK, Statuses, AcceptedIsClosed, ClosedWasAccepted, MemoryIsAccepted,
         TakenIsGone, NoForgottenSecret

\* An operation that leaves memory, and what the phone was told, alone.
LEMMA FileOnly ==
    ASSUME CredInv, Left(status'),
           unsafe' \subseteq Requests, unsafe' = {} => unsafe = {} /\ \A r \in Requests : status[r] = "fulfilled" => status'[r] = "fulfilled",
           due' \subseteq Requests, UNCHANGED <<values, fulfilled, taken, stops>>
    PROVE  CredInv'
  BY DEF CredInv, CredTypeOK, Left, Statuses, AcceptedIsClosed, ClosedWasAccepted, MemoryIsAccepted,
         TakenIsGone, NoForgottenSecret

LEMMA CreateKeeps == ASSUME CredInv, NEW r \in Requests, Create(r) PROVE CredInv'
  <1>1. CASE Writes([status EXCEPT ![r] = "pending"])
    BY <1>1 DEF Create, Writes, CredInv, CredTypeOK, Statuses, AcceptedIsClosed, ClosedWasAccepted,
                MemoryIsAccepted, TakenIsGone, NoForgottenSecret
  <1>2. CASE WriteRaises(r, {status})
    BY <1>2, WhatIsLeft, FileOnly DEF Create, WriteRaises, CredInv, CredTypeOK
  <1> QED
    BY <1>1, <1>2 DEF Create

LEMMA LookKeeps == ASSUME CredInv, Look PROVE CredInv'
  <1>1. CASE Writes(Expired(status))
    BY <1>1, WhatIsLeft, ExpiryClosesPending, FileOnly DEF Look, Writes, CredInv, CredTypeOK
  <1>2. CASE \E r \in due : WriteRaises(r, {status})
    BY <1>2, WhatIsLeft, FileOnly DEF Look, WriteRaises, CredInv, CredTypeOK
  <1> QED
    BY <1>1, <1>2 DEF Look

LEMMA PendingWasNotAccepted ==
    ASSUME CredInv, NEW r \in Requests, IsPending(r)
    PROVE  status[r] = "pending" /\ fulfilled[r] = NoSecret /\ taken[r] = 0
  BY ExpiryClosesPending DEF IsPending, CredInv, CredTypeOK, AcceptedIsClosed, TakenIsGone

LEMMA FulfillKeeps == ASSUME CredInv, NEW r \in Requests, Fulfill(r) PROVE CredInv'
  <1>1. PICK secret \in Secrets :
            /\ IsPending(r)
            /\ values' = [values EXCEPT ![r] = secret]
            /\ \/ /\ Writes([Expired(status) EXCEPT ![r] = "fulfilled"])
                  /\ fulfilled' = [fulfilled EXCEPT ![r] = secret]
               \/ /\ WriteRaises(r, {status, Expired(status)})
                  /\ UNCHANGED fulfilled
            /\ UNCHANGED <<due, taken, stops>>
    BY DEF Fulfill
  <1>2. status[r] = "pending" /\ fulfilled[r] = NoSecret /\ taken[r] = 0
    BY <1>1, PendingWasNotAccepted
  <1>3. CASE Writes([Expired(status) EXCEPT ![r] = "fulfilled"]) /\ fulfilled' = [fulfilled EXCEPT ![r] = secret]
    BY <1>1, <1>2, <1>3, ExpiryClosesPending, SecretAssumption
       DEF Writes, CredInv, CredTypeOK, Statuses, AcceptedIsClosed, ClosedWasAccepted, MemoryIsAccepted,
           TakenIsGone, NoForgottenSecret
  <1>4. CASE WriteRaises(r, {status, Expired(status)}) /\ UNCHANGED fulfilled
    <2>1. Left(status') /\ unsafe' = unsafe \cup {r} /\ status'[r] # "fulfilled"
      BY <1>2, <1>4, WhatIsLeft DEF WriteRaises, CredInv, Left
    <2> QED
      BY <1>1, <1>2, <1>4, <2>1, ZenonT(60)
         DEF Left, CredInv, CredTypeOK, AcceptedIsClosed, ClosedWasAccepted, MemoryIsAccepted, TakenIsGone,
             NoForgottenSecret
  <1> QED
    BY <1>1, <1>3, <1>4

LEMMA CancelKeeps == ASSUME CredInv, NEW r \in Requests, Cancel(r) PROVE CredInv'
  <1>1. status[r] = "pending" /\ fulfilled[r] = NoSecret /\ taken[r] = 0
    BY PendingWasNotAccepted DEF Cancel
  <1>2. CASE Writes([Expired(status) EXCEPT ![r] = "cancelled"])
    BY <1>1, <1>2, ExpiryClosesPending
       DEF Cancel, Writes, CredInv, CredTypeOK, Statuses, AcceptedIsClosed, ClosedWasAccepted,
           MemoryIsAccepted, TakenIsGone, NoForgottenSecret
  <1>3. CASE WriteRaises(r, {status, Expired(status)})
    BY <1>3, WhatIsLeft, FileOnly DEF Cancel, WriteRaises, CredInv, CredTypeOK
  <1> QED
    BY <1>2, <1>3 DEF Cancel

LEMMA ResolveKeeps == ASSUME CredInv, NEW r \in Requests, Resolve(r) PROVE CredInv'
  <1>1. status[r] = "fulfilled" /\ values[r] # NoSecret /\ taken[r] = 0 /\ fulfilled[r] # NoSecret
    BY ExpiryClosesPending DEF Resolve, CanResolve, CredInv, CredTypeOK, ClosedWasAccepted, TakenIsGone
  <1> QED
    BY <1>1, ExpiryClosesPending
       DEF Resolve, Writes, LeftBehind, CredInv, CredTypeOK, Statuses, AcceptedIsClosed, ClosedWasAccepted,
           MemoryIsAccepted, TakenIsGone, NoForgottenSecret

LEMMA StopKeepsSecrets == ASSUME CredInv, Stop PROVE CredInv'
  BY WhatIsLeft DEF Stop, Left, CredInv, CredTypeOK, AcceptedIsClosed, ClosedWasAccepted, MemoryIsAccepted,
                    TakenIsGone, NoForgottenSecret

LEMMA TimeKeeps == ASSUME CredInv, NEW r \in Requests, TimePasses(r) PROVE CredInv'
  BY DEF TimePasses, CredInv, CredTypeOK, AcceptedIsClosed, ClosedWasAccepted, MemoryIsAccepted,
         TakenIsGone, NoForgottenSecret

\* The inductive invariant of the credential requests.
THEOREM CredInvariant == CredSpec => []CredInv
  <1>1. ASSUME CredInv, CredNext PROVE CredInv'
    BY <1>1, CreateKeeps, LookKeeps, FulfillKeeps, CancelKeeps, ResolveKeeps, StopKeepsSecrets, TimeKeeps DEF CredNext
  <1>2. CredInv /\ UNCHANGED credVars => CredInv'
    BY DEF credVars, CredInv, CredTypeOK, AcceptedIsClosed, ClosedWasAccepted, MemoryIsAccepted,
           TakenIsGone, NoForgottenSecret
  <1> QED
    BY Initially, <1>1, <1>2, PTL DEF CredSpec

\* Memory keeps no secret that the file does not show as fulfilled, unless a
\* write has raised.
THEOREM SecretsAreForgotten == CredSpec => []NoForgottenSecret
  <1>1. CredInv => NoForgottenSecret
    BY DEF CredInv
  <1> QED
    BY CredInvariant, <1>1, PTL

\* A run takes what the phone was told is accepted, and once.
THEOREM TakesAccepted == CredSpec => []TakesWhatWasAccepted
  <1>1. CredInv => TakesWhatWasAccepted
    BY ExpiryClosesPending
       DEF CredInv, CredTypeOK, TakesWhatWasAccepted, CanResolve, MemoryIsAccepted, TakenIsGone
  <1> QED
    BY CredInvariant, <1>1, PTL

\* No step takes a closed request back, but for the loss of its record.
THEOREM ClosedForGood == CredSpec => ClosedStaysClosed
  <1> DEFINE Closed == {"fulfilled", "cancelled", "expired"}
             Stays == \A r \in Requests : status[r] \in Closed => status'[r] \in {status[r], "none"}
  <1>1. ASSUME CredInv, Left(status') PROVE Stays
    BY <1>1 DEF Left
  <1>2. ASSUME CredInv, NEW r \in Requests, Create(r) PROVE Stays
    BY <1>2, <1>1, WhatIsLeft DEF Create, Writes, WriteRaises, CredInv, CredTypeOK
  <1>3. ASSUME CredInv, NEW r \in Requests, Fulfill(r) \/ Cancel(r) PROVE Stays
    <2>1. status[r] = "pending"
      BY <1>3, PendingWasNotAccepted DEF Fulfill, Cancel
    <2>2. CASE WriteRaises(r, {status, Expired(status)})
      BY <1>1, <1>3, <2>2, WhatIsLeft DEF WriteRaises, CredInv
    <2>3. CASE \E s \in Statuses : status' = [Expired(status) EXCEPT ![r] = s]
      BY <1>3, <2>1, <2>3, ExpiryClosesPending DEF CredInv, CredTypeOK
    <2> QED
      BY <1>3, <2>2, <2>3 DEF Fulfill, Cancel, Writes, Statuses
  <1>4. ASSUME CredInv, CredNext PROVE Stays
    <2>1. ASSUME Look \/ Stop \/ \E r \in Requests : Resolve(r) \/ TimePasses(r) PROVE Left(status')
      BY <1>4, <2>1, WhatIsLeft DEF Look, Stop, Resolve, TimePasses, Writes, WriteRaises, CredInv
    <2> QED
      BY <1>1, <1>2, <1>3, <1>4, <2>1 DEF CredNext
  <1>5. CredInv /\ [CredNext]_credVars => [Stays]_credVars
    BY <1>4
  <1> QED
    BY CredInvariant, <1>5, PTL DEF CredSpec, ClosedStaysClosed

---------------------------------------------------------------------------
(* ProfileMemory, for every number of runs, directories, notes and deaths: *)
(* as long as no two runs have overlapped, the memory is what was learned, *)
(* and nothing is never copied back.  Both need to be known of what a run  *)
(* in the middle of its work will copy.                                    *)

Notes == MemoryRuns \cup {DefaultNote, TruncationMark}
Texts == Seq(Notes)
Phases == {"new", "works", "learned", "writes", "writing", "done"}
RunRecords == [pc : Phases, dir : Workdirs \cup {NewMemoryRun.dir}, memory : BOOLEAN, copy : Texts]

MemoryTypeOK ==
    /\ profile \in Texts /\ learned \in Texts
    /\ staged \in [Workdirs -> Texts] /\ beside \in [Workdirs -> Texts]
    /\ newer \in [Workdirs -> {"staged", "beside"}]
    /\ memoryRun \in [MemoryRuns -> RunRecords]
    /\ \A r \in MemoryBusy : memoryRun[r].dir \in Workdirs
    /\ crossed \in BOOLEAN
    /\ memoryStops \in Nat

\* What is about to be written to the profile's file has text.
CopyHasText == \A r \in MemoryRuns : memoryRun[r].pc \in {"writes", "writing"} => memoryRun[r].copy # Empty

\* What the directory holds while r works in it, and when its agent has
\* learned something.
StagedFor(r) == staged[memoryRun[r].dir] = Clip(learned) /\ newer[memoryRun[r].dir] = "staged"
LearnedBy(r) == LatestFile(memoryRun[r].dir) = Append(Clip(learned), r) /\ memoryRun[r].memory

\* Runs that do not overlap: the profile's memory is what was learned, except
\* while it is written, and so is what the run at work copies back.
AloneKeeps ==
    ~crossed =>
        /\ \A r, q \in MemoryBusy : r = q
        /\ (\A r \in MemoryBusy : memoryRun[r].pc \notin {"writes", "writing"}) => profile = Clip(learned)
        /\ \A r \in MemoryBusy : /\ memoryRun[r].pc = "works" /\ memoryRun[r].memory => StagedFor(r)
                                 /\ memoryRun[r].pc = "learned" => LearnedBy(r)
                                 /\ memoryRun[r].pc \in {"writes", "writing"} => memoryRun[r].copy = Clip(learned)

MemoryInv == MemoryTypeOK /\ learned # Empty /\ CopyHasText /\ AloneKeeps

---------------------------------------------------------------------------
(* Clipping.                                                               *)

\* A clipped text by its notes.
LEMMA Clipped ==
    ASSUME NEW s \in Texts
    PROVE  /\ Clip(s) \in Texts /\ Len(s) \in Nat
           /\ Len(Clip(s)) = IF Len(s) <= MaxNotes THEN Len(s) ELSE MaxNotes + 1
           /\ \A i \in 1 .. Len(Clip(s)) : Clip(s)[i] = IF i <= MaxNotes THEN s[i] ELSE TruncationMark
           /\ s # Empty => Clip(s) # Empty
  <1>1. Len(s) \in Nat /\ MaxNotes \in Nat /\ MaxNotes # 0 /\ \A i \in 1 .. Len(s) : s[i] \in Notes
    BY NotesAssumption DEF Texts
  <1>2. CASE Len(s) <= MaxNotes
    <2>1. Clip(s) = s
      BY <1>2 DEF Clip
    <2> QED BY <1>1, <1>2, <2>1
  <1>3. CASE Len(s) > MaxNotes
    <2> DEFINE head == SubSeq(s, 1, MaxNotes)
    <2>1. head \in Seq(Notes) /\ Len(head) = MaxNotes /\ \A i \in 1 .. MaxNotes : head[i] = s[i]
      <3>1. \A i \in 1 .. MaxNotes : s[i] \in Notes
        BY <1>1, <1>3
      <3> QED BY <1>1, <3>1
    <2>2. Clip(s) = Append(head, TruncationMark) /\ TruncationMark \in Notes
      BY <1>1, <1>3 DEF Clip, Notes
    <2> HIDE DEF head
    <2>3. /\ Append(head, TruncationMark) \in Seq(Notes)
          /\ Len(Append(head, TruncationMark)) = MaxNotes + 1
          /\ \A i \in 1 .. MaxNotes + 1 :
                Append(head, TruncationMark)[i] = IF i <= MaxNotes THEN head[i] ELSE TruncationMark
      BY <1>1, <2>1, <2>2
    <2> QED BY <1>1, <1>3, <2>1, <2>2, <2>3 DEF Texts, Empty
  <1> QED
    BY <1>1, <1>2, <1>3

\* Texts with the same notes are the same.
LEMMA SameNotes ==
    ASSUME NEW s \in Texts, NEW z \in Texts, Len(s) = Len(z), \A i \in 1 .. Len(s) : s[i] = z[i]
    PROVE  s = z
  BY DEF Texts

\* What was clipped is not clipped again.
LEMMA ClippedAgain ==
    ASSUME NEW s \in Texts
    PROVE  Clip(Clip(s)) = Clip(s)
  <1> DEFINE c == Clip(s)
             d == Clip(c)
  <1>1. /\ c \in Texts /\ Len(s) \in Nat /\ MaxNotes \in Nat
        /\ Len(c) = IF Len(s) <= MaxNotes THEN Len(s) ELSE MaxNotes + 1
        /\ \A i \in 1 .. Len(c) : c[i] = IF i <= MaxNotes THEN s[i] ELSE TruncationMark
    BY Clipped, NotesAssumption
  <1>2. /\ d \in Texts /\ Len(c) \in Nat
        /\ Len(d) = IF Len(c) <= MaxNotes THEN Len(c) ELSE MaxNotes + 1
        /\ \A i \in 1 .. Len(d) : d[i] = IF i <= MaxNotes THEN c[i] ELSE TruncationMark
    BY <1>1, Clipped
  <1> HIDE DEF c, d
  <1>3. Len(d) = Len(c)
    BY <1>1, <1>2
  <1>4. \A i \in 1 .. Len(d) : d[i] = c[i]
    BY <1>1, <1>2, <1>3
  <1>5. d = c
    BY <1>1, <1>2, <1>3, <1>4, SameNotes
  <1> QED
    BY <1>5 DEF c, d

\* A note that comes after the limit is lost, before or after the clipping.
LEMMA ClippedAppend ==
    ASSUME NEW s \in Texts, NEW e \in Notes
    PROVE  Clip(Append(Clip(s), e)) = Clip(Append(s, e))
  <1> DEFINE c == Clip(s)
             ce == Append(c, e)
             se == Append(s, e)
             x == Clip(ce)
             y == Clip(se)
  <1>1. /\ c \in Texts /\ Len(s) \in Nat /\ MaxNotes \in Nat
        /\ Len(c) = IF Len(s) <= MaxNotes THEN Len(s) ELSE MaxNotes + 1
        /\ \A i \in 1 .. Len(c) : c[i] = IF i <= MaxNotes THEN s[i] ELSE TruncationMark
    BY Clipped, NotesAssumption
  <1>2. /\ se \in Texts /\ Len(se) = Len(s) + 1
        /\ \A i \in 1 .. Len(s) + 1 : se[i] = IF i <= Len(s) THEN s[i] ELSE e
    BY DEF Texts
  <1>3. /\ ce \in Texts /\ Len(ce) = Len(c) + 1
        /\ \A i \in 1 .. Len(c) + 1 : ce[i] = IF i <= Len(c) THEN c[i] ELSE e
    BY <1>1 DEF Texts
  <1>4. /\ x \in Texts /\ Len(x) = (IF Len(ce) <= MaxNotes THEN Len(ce) ELSE MaxNotes + 1)
        /\ \A i \in 1 .. Len(x) : x[i] = IF i <= MaxNotes THEN ce[i] ELSE TruncationMark
    BY <1>3, Clipped
  <1>5. /\ y \in Texts /\ Len(y) = (IF Len(se) <= MaxNotes THEN Len(se) ELSE MaxNotes + 1)
        /\ \A i \in 1 .. Len(y) : y[i] = IF i <= MaxNotes THEN se[i] ELSE TruncationMark
    BY <1>2, Clipped
  <1> HIDE DEF c, ce, se, x, y
  <1>6. Len(x) = Len(y)
    BY <1>1, <1>2, <1>3, <1>4, <1>5
  <1>7. ASSUME NEW i \in 1 .. Len(x) PROVE x[i] = y[i]
    <2>1. CASE i <= MaxNotes /\ i <= Len(s)
      <3>1. i \in 1 .. Len(c) /\ i \in 1 .. Len(ce) /\ i \in 1 .. Len(se)
        BY <1>1, <1>2, <1>3, <2>1
      <3> QED BY <1>1, <1>2, <1>3, <1>4, <1>5, <1>6, <2>1, <3>1
    <2>2. CASE i <= MaxNotes /\ i > Len(s)
      <3>1. Len(c) = Len(s)
        BY <1>1, <2>2
      <3>2. i = Len(s) + 1
        BY <1>1, <1>3, <1>4, <2>2, <3>1
      <3> QED BY <1>1, <1>2, <1>3, <1>4, <1>5, <1>6, <2>2, <3>1, <3>2
    <2>3. CASE i > MaxNotes
      <3>1. ~(i <= MaxNotes) /\ i \in 1 .. Len(y)
        BY <1>1, <1>6, <2>3
      <3> QED BY <1>4, <1>5, <3>1
    <2> QED BY <1>1, <2>1, <2>2, <2>3
  <1>8. x = y
    BY <1>4, <1>5, <1>6, <1>7, SameNotes
  <1> QED
    BY <1>8 DEF c, ce, se, x, y

---------------------------------------------------------------------------
(* The steps.                                                              *)

LEMMA RunTypes ==
    /\ NewMemoryRun \in RunRecords /\ EndedMemoryRun \in RunRecords
    /\ NewMemoryRun.pc = "new" /\ EndedMemoryRun.pc = "done"
  <1> DEFINE nowhere == CHOOSE w \in Workdirs : TRUE
  <1>1. NewMemoryRun = [pc |-> "new", dir |-> nowhere, memory |-> TRUE, copy |-> Empty]
    BY DEF NewMemoryRun
  <1> HIDE DEF nowhere
  <1>2. Empty \in Texts /\ NewMemoryRun.dir = nowhere /\ NewMemoryRun.pc = "new"
    BY <1>1 DEF Texts, Empty
  <1>3. NewMemoryRun \in RunRecords
    BY <1>1, <1>2 DEF RunRecords, Phases
  <1>4. EndedMemoryRun \in RunRecords /\ EndedMemoryRun.pc = "done"
    BY <1>3 DEF EndedMemoryRun, RunRecords, Phases
  <1> QED
    BY <1>2, <1>3, <1>4

LEMMA MemoryInitially == MemoryInit => MemoryInv
  <1> SUFFICES ASSUME MemoryInit PROVE MemoryInv
    OBVIOUS
  <1>1. \A r \in MemoryRuns : memoryRun[r].pc = "new"
    BY RunTypes DEF MemoryInit
  <1>2. MemoryBusy = {}
    BY <1>1 DEF MemoryBusy
  <1>3. <<DefaultNote>> \in Texts /\ Len(<<DefaultNote>>) = 1 /\ Empty \in Texts /\ <<DefaultNote>> # Empty
    BY DEF Texts, Notes, Empty
  <1>4. MemoryTypeOK
    <2>1. profile \in Texts /\ learned \in Texts /\ crossed \in BOOLEAN /\ memoryStops \in Nat
      BY <1>3 DEF MemoryInit
    <2>2. /\ staged \in [Workdirs -> Texts] /\ beside \in [Workdirs -> Texts]
          /\ newer \in [Workdirs -> {"staged", "beside"}]
      BY <1>3 DEF MemoryInit
    <2>3. memoryRun \in [MemoryRuns -> RunRecords]
      BY RunTypes DEF MemoryInit
    <2> QED BY <1>2, <2>1, <2>2, <2>3 DEF MemoryTypeOK
  <1>5. Clip(<<DefaultNote>>) = <<DefaultNote>>
    BY <1>3, NotesAssumption DEF Clip
  <1>6. CopyHasText /\ AloneKeeps
    BY <1>1, <1>2, <1>5 DEF CopyHasText, AloneKeeps, MemoryInit
  <1> QED
    BY <1>3, <1>4, <1>6 DEF MemoryInv, MemoryInit

\* What a step of r leaves of the others, and what is known of the texts.
LEMMA OthersStay ==
    ASSUME MemoryInv, NEW r \in MemoryRuns,
           NEW new \in RunRecords,
           memoryRun' = [memoryRun EXCEPT ![r] = new], new.pc \notin {"new", "done"} => new.dir \in Workdirs
    PROVE  /\ memoryRun' \in [MemoryRuns -> RunRecords]
           /\ memoryRun'[r] = new /\ \A q \in MemoryRuns \ {r} : memoryRun'[q] = memoryRun[q]
           /\ \A q \in MemoryBusy' : memoryRun'[q].dir \in Workdirs
           /\ MemoryBusy' = (MemoryBusy \ {r}) \cup (IF new.pc \in {"new", "done"} THEN {} ELSE {r})
  <1>1. /\ memoryRun' \in [MemoryRuns -> RunRecords]
        /\ memoryRun'[r] = new /\ \A q \in MemoryRuns \ {r} : memoryRun'[q] = memoryRun[q]
    BY DEF MemoryInv, MemoryTypeOK
  <1>2. MemoryBusy' = (MemoryBusy \ {r}) \cup (IF new.pc \in {"new", "done"} THEN {} ELSE {r})
    BY <1>1 DEF MemoryBusy
  <1>3. \A q \in MemoryBusy' : memoryRun'[q].dir \in Workdirs
    BY <1>1, <1>2 DEF MemoryInv, MemoryTypeOK, MemoryBusy
  <1> QED
    BY <1>1, <1>2, <1>3

\* The run that starts alone finds the memory in its directory, whatever an
\* earlier run has left there.
LEMMA StageKeeps ==
    ASSUME MemoryInv, NEW r \in MemoryRuns, StageMemory(r)
    PROVE  MemoryInv'
  <1>1. PICK w \in Workdirs, memory \in BOOLEAN :
            /\ memoryRun' = [memoryRun EXCEPT ![r] = [pc |-> "works", dir |-> w, memory |-> memory, copy |-> Empty]]
            /\ staged' = [staged EXCEPT ![w] = IF memory THEN profile ELSE Empty]
            /\ newer' = [newer EXCEPT ![w] = "staged"]
            /\ crossed' = (crossed \/ MemoryBusy # {})
            /\ UNCHANGED <<profile, beside, learned, memoryStops>>
    BY DEF StageMemory
  <1> DEFINE new == [pc |-> "works", dir |-> w, memory |-> memory, copy |-> Empty]
  <1>2. new \in RunRecords
        /\ new.pc = "works" /\ new.dir = w /\ new.memory = memory
    BY DEF RunRecords, Phases, Texts, Empty
  <1> HIDE DEF new
  <1>3. /\ memoryRun' \in [MemoryRuns -> RunRecords]
        /\ memoryRun'[r] = new /\ \A q \in MemoryRuns \ {r} : memoryRun'[q] = memoryRun[q]
        /\ \A q \in MemoryBusy' : memoryRun'[q].dir \in Workdirs
        /\ MemoryBusy' = MemoryBusy \cup {r}
    BY <1>1, <1>2, OthersStay DEF new
  <1>4. MemoryTypeOK'
    <2>1. staged' \in [Workdirs -> Texts] /\ newer' \in [Workdirs -> {"staged", "beside"}]
      BY <1>1 DEF MemoryInv, MemoryTypeOK, Texts, Empty
    <2> QED BY <1>1, <1>3, <2>1 DEF MemoryInv, MemoryTypeOK
  <1>5. CopyHasText'
    BY <1>2, <1>3 DEF MemoryInv, CopyHasText
  <1>6. ASSUME ~crossed' PROVE /\ MemoryBusy' = {r} /\ profile = Clip(learned)
                               /\ memory => staged'[w] = Clip(learned) /\ newer'[w] = "staged"
    <2>1. MemoryBusy = {} /\ ~crossed
      BY <1>1, <1>6
    <2>2. profile = Clip(learned)
      BY <2>1 DEF MemoryInv, AloneKeeps
    <2>3. memory => staged'[w] = profile /\ newer'[w] = "staged"
      BY <1>1 DEF MemoryInv, MemoryTypeOK
    <2> QED BY <1>3, <2>1, <2>2, <2>3
  <1>7. AloneKeeps'
    BY <1>1, <1>2, <1>3, <1>6 DEF AloneKeeps, StagedFor
  <1> QED
    BY <1>1, <1>4, <1>5, <1>7 DEF MemoryInv

\* The note stands where the agent wrote it, and that file is the latest one.
LEMMA LearnKeeps ==
    ASSUME MemoryInv, NEW r \in MemoryRuns, AgentLearns(r)
    PROVE  MemoryInv'
  <1> DEFINE w == memoryRun[r].dir
             text == Append(staged[w], r)
             new == [memoryRun[r] EXCEPT !.pc = "learned"]
  <1>1. /\ memoryRun[r].pc = "works" /\ memoryRun[r].memory /\ memoryRun' = [memoryRun EXCEPT ![r] = new]
        /\ UNCHANGED <<profile, learned, crossed, memoryStops>>
        /\ \/ /\ staged' = [staged EXCEPT ![w] = text]
              /\ newer' = [newer EXCEPT ![w] = "staged"]
              /\ UNCHANGED beside
           \/ /\ beside' = [beside EXCEPT ![w] = text]
              /\ newer' = [newer EXCEPT ![w] = "beside"]
              /\ UNCHANGED staged
    BY DEF AgentLearns
  <1>2. /\ memoryRun[r] \in RunRecords
        /\ r \in MemoryBusy /\ w \in Workdirs
    BY <1>1 DEF MemoryInv, MemoryTypeOK, MemoryBusy
  <1>3. /\ new \in RunRecords
        /\ new.pc = "learned" /\ new.dir = w /\ new.memory
    BY <1>1, <1>2 DEF RunRecords, Phases
  <1> HIDE DEF new
  <1>4. /\ memoryRun' \in [MemoryRuns -> RunRecords]
        /\ memoryRun'[r] = new /\ \A q \in MemoryRuns \ {r} : memoryRun'[q] = memoryRun[q]
        /\ \A q \in MemoryBusy' : memoryRun'[q].dir \in Workdirs
        /\ MemoryBusy' = MemoryBusy
    <2>1. /\ memoryRun' \in [MemoryRuns -> RunRecords]
          /\ memoryRun'[r] = new /\ \A q \in MemoryRuns \ {r} : memoryRun'[q] = memoryRun[q]
          /\ \A q \in MemoryBusy' : memoryRun'[q].dir \in Workdirs
          /\ MemoryBusy' = (MemoryBusy \ {r}) \cup {r}
      BY <1>1, <1>2, <1>3, OthersStay
    <2>2. (MemoryBusy \ {r}) \cup {r} = MemoryBusy
      BY <1>2
    <2> QED BY <2>1, <2>2
  <1>5. text \in Texts /\ text # Empty
    <2>1. staged[w] \in Texts /\ r \in Notes
      BY <1>2 DEF MemoryInv, MemoryTypeOK, Notes
    <2> QED BY <2>1 DEF Texts, Empty
  <1> HIDE DEF text
  <1>6. MemoryTypeOK'
    <2>1. staged' \in [Workdirs -> Texts] /\ beside' \in [Workdirs -> Texts] /\ newer' \in [Workdirs -> {"staged", "beside"}]
      BY <1>1, <1>5 DEF MemoryInv, MemoryTypeOK
    <2> QED BY <1>1, <1>4, <2>1 DEF MemoryInv, MemoryTypeOK
  <1>7. CopyHasText'
    BY <1>3, <1>4 DEF MemoryInv, CopyHasText
  <1>8. LatestFile(w)' = text
    <2>1. CASE staged' = [staged EXCEPT ![w] = text] /\ newer' = [newer EXCEPT ![w] = "staged"] /\ UNCHANGED beside
      <3>1. staged'[w] = text /\ newer'[w] = "staged"
        BY <1>2, <2>1 DEF MemoryInv, MemoryTypeOK
      <3>2. w' = w
        BY <1>3, <1>4
      <3> QED BY <1>5, <3>1, <3>2 DEF LatestFile
    <2>2. CASE beside' = [beside EXCEPT ![w] = text] /\ newer' = [newer EXCEPT ![w] = "beside"] /\ UNCHANGED staged
      <3>1. beside'[w] = text /\ newer'[w] = "beside"
        BY <1>2, <2>2 DEF MemoryInv, MemoryTypeOK
      <3>2. w' = w
        BY <1>3, <1>4
      <3> QED BY <1>5, <3>1, <3>2 DEF LatestFile
    <2> QED BY <1>1, <2>1, <2>2
  <1>9. AloneKeeps'
    <2> SUFFICES ASSUME ~crossed
                 PROVE  /\ \A p, q \in MemoryBusy : p = q
                        /\ profile = Clip(learned)
                        /\ LearnedBy(r)'
      BY <1>1, <1>2, <1>3, <1>4 DEF AloneKeeps
    <2>1. /\ \A p, q \in MemoryBusy : p = q
          /\ profile = Clip(learned) /\ StagedFor(r)
      BY <1>1, <1>2 DEF MemoryInv, AloneKeeps
    <2>2. text = Append(Clip(learned), r)
      BY <2>1 DEF StagedFor, text
    <2> QED BY <1>1, <1>3, <1>4, <1>8, <2>1, <2>2 DEF LearnedBy
  <1> QED
    BY <1>1, <1>6, <1>7, <1>9 DEF MemoryInv


\* What no agent has learned of is copied back as it is, and what one has
\* learned as it was written; nothing is copied back only where there is no memory.
LEMMA PickKeeps ==
    ASSUME MemoryInv, NEW r \in MemoryRuns, PickMemory(r)
    PROVE  MemoryInv'
  <1> DEFINE w == memoryRun[r].dir
             text == LatestFile(w)
             copied == [memoryRun[r] EXCEPT !.pc = "writes", !.copy = Clip(text)]
             new == IF CopiesBack(r) THEN copied ELSE EndedMemoryRun
  <1>1. /\ memoryRun[r].pc \in {"works", "learned"}
        /\ memoryRun' = [memoryRun EXCEPT ![r] = new]
        /\ learned' = IF memoryRun[r].pc = "learned" THEN Append(learned, r) ELSE learned
    BY DEF PickMemory
  <1>2. UNCHANGED <<profile, staged, beside, newer, crossed, memoryStops>>
    BY DEF PickMemory
  <1>3. memoryRun[r] \in RunRecords /\ r \in MemoryBusy /\ w \in Workdirs
    BY <1>1 DEF MemoryInv, MemoryTypeOK, MemoryBusy
  <1>4. text \in Texts
    BY <1>3 DEF LatestFile, MemoryInv, MemoryTypeOK
  <1>5. Clip(text) \in Texts /\ (text # Empty => Clip(text) # Empty)
    BY <1>4, Clipped
  <1> HIDE DEF text
  <1>6. copied \in RunRecords /\ copied.pc = "writes" /\ copied.dir = w /\ copied.copy = Clip(text)
    BY <1>3, <1>5 DEF RunRecords, Phases
  <1>7. CopiesBack(r) <=> memoryRun[r].memory /\ text # Empty
    BY DEF CopiesBack, text
  <1> HIDE DEF copied
  <1>8. new \in RunRecords /\ (new.pc \notin {"new", "done"} => new.dir \in Workdirs)
    BY <1>3, <1>6, RunTypes
  <1>9. /\ new.pc \in {"writes", "done"}
        /\ new.pc = "writes" <=> CopiesBack(r)
        /\ new.pc = "writes" => new.copy = Clip(text) /\ Clip(text) # Empty
    BY <1>5, <1>6, <1>7, RunTypes
  <1> HIDE DEF new
  <1>10. /\ memoryRun' \in [MemoryRuns -> RunRecords]
         /\ memoryRun'[r] = new /\ \A q \in MemoryRuns \ {r} : memoryRun'[q] = memoryRun[q]
         /\ \A q \in MemoryBusy' : memoryRun'[q].dir \in Workdirs
         /\ MemoryBusy' = (MemoryBusy \ {r}) \cup (IF new.pc \in {"new", "done"} THEN {} ELSE {r})
    BY <1>1, <1>8, OthersStay
  <1>11. learned' \in Texts /\ learned' # Empty
    <2>1. learned \in Texts /\ learned # Empty /\ r \in Notes
      BY DEF MemoryInv, MemoryTypeOK, Notes
    <2>2. Append(learned, r) \in Texts /\ Append(learned, r) # Empty
      BY <2>1 DEF Texts, Empty
    <2> QED BY <1>1, <2>1, <2>2
  <1>12. MemoryTypeOK'
    BY <1>2, <1>10, <1>11 DEF MemoryInv, MemoryTypeOK
  <1>13. CopyHasText'
    BY <1>9, <1>10 DEF MemoryInv, CopyHasText
  <1>14. AloneKeeps'
    <2> SUFFICES ASSUME ~crossed
                 PROVE  /\ \A p, q \in MemoryBusy' : p = q
                        /\ new.pc = "done" => profile = Clip(learned')
                        /\ new.pc = "writes" => new.copy = Clip(learned')
      <3>1. ~crossed => \A p \in MemoryBusy : p = r
        BY <1>3 DEF MemoryInv, AloneKeeps
      <3>2. \A p \in MemoryBusy' : ~crossed => p = r /\ new.pc = "writes"
        BY <1>9, <1>10, <3>1
      <3> QED BY <1>2, <1>9, <1>10, <3>2 DEF AloneKeeps
    <2>1. /\ \A p, q \in MemoryBusy : p = q
          /\ profile = Clip(learned)
          /\ memoryRun[r].pc = "works" /\ memoryRun[r].memory => StagedFor(r)
          /\ memoryRun[r].pc = "learned" => LearnedBy(r)
      BY <1>1, <1>3 DEF MemoryInv, AloneKeeps
    <2>2. MemoryBusy' \subseteq {r}
      BY <1>3, <1>10, <2>1
    <2>3. learned \in Texts /\ learned # Empty /\ r \in Notes
      BY DEF MemoryInv, MemoryTypeOK, Notes
    <2>4. CASE memoryRun[r].pc = "works" /\ memoryRun[r].memory
      <3>1. staged[w] = Clip(learned) /\ newer[w] = "staged" /\ Clip(learned) # Empty
        BY <2>1, <2>3, <2>4, Clipped DEF StagedFor
      <3>2. text = Clip(learned)
        BY <3>1 DEF LatestFile, text
      <3>3. new.pc = "writes" /\ new.copy = Clip(Clip(learned)) /\ learned' = learned
        BY <1>1, <1>7, <1>9, <2>4, <3>1, <3>2
      <3> QED BY <2>2, <2>3, <3>3, ClippedAgain
    <2>5. CASE memoryRun[r].pc = "works" /\ ~memoryRun[r].memory
      <3>1. new.pc = "done" /\ learned' = learned
        BY <1>1, <1>7, <1>9, <2>5
      <3> QED BY <2>1, <2>2, <3>1
    <2>6. CASE memoryRun[r].pc = "learned"
      <3>1. text = Append(Clip(learned), r) /\ memoryRun[r].memory
        BY <2>1, <2>6 DEF LearnedBy, text
      <3>2. Clip(learned) \in Seq(Notes)
        BY <2>3, Clipped DEF Texts
      <3>3. text # Empty
        BY <2>3, <3>1, <3>2 DEF Empty
      <3>4. new.pc = "writes" /\ new.copy = Clip(Append(Clip(learned), r)) /\ learned' = Append(learned, r)
        BY <1>1, <1>7, <1>9, <2>6, <3>1, <3>3
      <3> QED BY <2>2, <2>3, <3>4, ClippedAppend
    <2> QED BY <1>1, <2>4, <2>5, <2>6
  <1> QED
    BY <1>11, <1>12, <1>13, <1>14 DEF MemoryInv

\* While one writes alone, nobody else finds the file empty.
LEMMA TruncateKeeps ==
    ASSUME MemoryInv, NEW r \in MemoryRuns, TruncateProfile(r)
    PROVE  MemoryInv'
  <1> DEFINE new == [memoryRun[r] EXCEPT !.pc = "writing"]
  <1>1. /\ memoryRun[r].pc = "writes" /\ profile' = Empty
        /\ memoryRun' = [memoryRun EXCEPT ![r] = new]
        /\ UNCHANGED <<staged, beside, newer, learned, crossed, memoryStops>>
    BY DEF TruncateProfile
  <1>2. memoryRun[r] \in RunRecords /\ r \in MemoryBusy /\ memoryRun[r].dir \in Workdirs
    BY <1>1 DEF MemoryInv, MemoryTypeOK, MemoryBusy
  <1>3. /\ new \in RunRecords /\ new.pc = "writing"
        /\ new.dir = memoryRun[r].dir /\ new.copy = memoryRun[r].copy
    BY <1>2 DEF RunRecords, Phases
  <1> HIDE DEF new
  <1>4. /\ memoryRun' \in [MemoryRuns -> RunRecords]
        /\ memoryRun'[r] = new /\ \A q \in MemoryRuns \ {r} : memoryRun'[q] = memoryRun[q]
        /\ \A q \in MemoryBusy' : memoryRun'[q].dir \in Workdirs
        /\ MemoryBusy' = (MemoryBusy \ {r}) \cup {r}
    BY <1>1, <1>2, <1>3, OthersStay
  <1>5. MemoryBusy' = MemoryBusy
    BY <1>2, <1>4
  <1>6. Empty \in Texts
    BY DEF Texts, Empty
  <1>7. MemoryTypeOK'
    BY <1>1, <1>4, <1>6 DEF MemoryInv, MemoryTypeOK
  <1>8. CopyHasText'
    BY <1>1, <1>3, <1>4 DEF MemoryInv, CopyHasText
  <1>9. AloneKeeps'
    <2> SUFFICES ASSUME ~crossed
                 PROVE  (\A p, q \in MemoryBusy : p = q) /\ new.copy = Clip(learned)
      BY <1>1, <1>2, <1>3, <1>4, <1>5 DEF AloneKeeps
    <2> QED BY <1>1, <1>2, <1>3 DEF MemoryInv, AloneKeeps
  <1> QED
    BY <1>1, <1>7, <1>8, <1>9 DEF MemoryInv

LEMMA FillKeeps ==
    ASSUME MemoryInv, NEW r \in MemoryRuns, FillProfile(r)
    PROVE  MemoryInv' /\ profile' # Empty
  <1>1. /\ memoryRun[r].pc = "writing" /\ profile' = memoryRun[r].copy
        /\ memoryRun' = [memoryRun EXCEPT ![r] = EndedMemoryRun]
        /\ UNCHANGED <<staged, beside, newer, learned, crossed, memoryStops>>
    BY DEF FillProfile
  <1>2. memoryRun[r] \in RunRecords /\ r \in MemoryBusy
    BY <1>1 DEF MemoryInv, MemoryTypeOK, MemoryBusy
  <1>3. /\ memoryRun' \in [MemoryRuns -> RunRecords]
        /\ memoryRun'[r] = EndedMemoryRun /\ \A q \in MemoryRuns \ {r} : memoryRun'[q] = memoryRun[q]
        /\ \A q \in MemoryBusy' : memoryRun'[q].dir \in Workdirs
        /\ MemoryBusy' = MemoryBusy \ {r}
    BY <1>1, RunTypes, OthersStay
  <1>4. profile' \in Texts /\ profile' # Empty
    BY <1>1, <1>2 DEF MemoryInv, CopyHasText, RunRecords
  <1>5. MemoryTypeOK'
    BY <1>1, <1>3, <1>4 DEF MemoryInv, MemoryTypeOK
  <1>6. CopyHasText'
    BY <1>3, RunTypes DEF MemoryInv, CopyHasText
  <1>7. AloneKeeps'
    <2> SUFFICES ASSUME ~crossed
                 PROVE  MemoryBusy' = {} /\ profile' = Clip(learned)
      BY <1>1 DEF AloneKeeps
    <2>1. (\A p, q \in MemoryBusy : p = q) /\ memoryRun[r].copy = Clip(learned)
      BY <1>1, <1>2 DEF MemoryInv, AloneKeeps
    <2> QED BY <1>1, <1>2, <1>3, <2>1
  <1> QED
    BY <1>1, <1>4, <1>5, <1>6, <1>7 DEF MemoryInv

\* A death while nobody writes leaves the memory as it was, with nobody at work.
LEMMA StopKeeps ==
    ASSUME MemoryInv, MemoryStop
    PROVE  MemoryInv' /\ memoryStops' # memoryStops
  <1>1. /\ memoryStops' = memoryStops + 1
        /\ memoryRun' = [r \in MemoryRuns |-> IF r \in MemoryBusy THEN EndedMemoryRun ELSE memoryRun[r]]
        /\ crossed' = (crossed \/ \E r \in MemoryBusy : memoryRun[r].pc \in {"writes", "writing"})
        /\ UNCHANGED <<profile, staged, beside, newer, learned>>
    BY DEF MemoryStop
  <1>2. memoryStops' \in Nat /\ memoryStops' # memoryStops
    BY <1>1 DEF MemoryInv, MemoryTypeOK
  <1>3. memoryRun' \in [MemoryRuns -> RunRecords] /\ \A r \in MemoryRuns : memoryRun'[r].pc \in {"new", "done"}
    BY <1>1, RunTypes DEF MemoryInv, MemoryTypeOK, MemoryBusy
  <1>4. MemoryBusy' = {}
    BY <1>3 DEF MemoryBusy
  <1>5. MemoryTypeOK'
    BY <1>1, <1>2, <1>3, <1>4 DEF MemoryInv, MemoryTypeOK
  <1>6. CopyHasText'
    BY <1>3 DEF CopyHasText
  <1>7. AloneKeeps'
    <2> SUFFICES ASSUME ~crossed' PROVE profile' = Clip(learned)'
      BY <1>4 DEF AloneKeeps
    <2>1. ~crossed /\ \A r \in MemoryBusy : memoryRun[r].pc \notin {"writes", "writing"}
      BY <1>1
    <2> QED BY <1>1, <2>1 DEF MemoryInv, AloneKeeps
  <1> QED
    BY <1>1, <1>2, <1>5, <1>6, <1>7 DEF MemoryInv

\* What a step of MemoryNext, or no step, does.
LEMMA MemorySteps ==
    ASSUME MemoryInv, [MemoryNext]_memoryVars
    PROVE  MemoryInv'
  <1>1. CASE UNCHANGED memoryVars
    BY <1>1 DEF memoryVars, MemoryInv, MemoryTypeOK, CopyHasText, AloneKeeps, MemoryBusy, StagedFor, LearnedBy,
                LatestFile
  <1>2. CASE MemoryStop
    BY <1>2, StopKeeps
  <1>3. ASSUME NEW r \in MemoryRuns,
               StageMemory(r) \/ AgentLearns(r) \/ PickMemory(r) \/ TruncateProfile(r) \/ FillProfile(r)
        PROVE  MemoryInv'
    BY <1>3, StageKeeps, LearnKeeps, PickKeeps, TruncateKeeps, FillKeeps
  <1> QED
    BY <1>1, <1>2, <1>3 DEF MemoryNext

---------------------------------------------------------------------------
(* The theorems.                                                           *)

\* Whatever runs overlap, what is about to be written to the profile has text;
\* and as long as none have, the memory and what is about to be copied to it are
\* what was learned.
THEOREM MemoryInvariant == MemorySpec => []MemoryInv
  <1>1. MemoryInit => MemoryInv
    BY MemoryInitially
  <1>2. MemoryInv /\ [MemoryNext]_memoryVars => MemoryInv'
    BY MemorySteps
  <1> QED
    BY <1>1, <1>2, PTL DEF MemorySpec

\* A run that ends its write has written a text, or was cut off.
LEMMA WrittenMemory ==
    ASSUME MemoryInv, [MemoryNext]_memoryVars, NEW k \in MemoryRuns,
           memoryRun[k].pc = "writing", memoryRun'[k].pc = "done"
    PROVE  profile' # Empty \/ memoryStops' # memoryStops
  <1>1. CASE UNCHANGED memoryVars
    BY <1>1 DEF memoryVars
  <1>2. CASE MemoryStop
    BY <1>2, StopKeeps
  <1>3. ASSUME NEW r \in MemoryRuns, StageMemory(r) \/ AgentLearns(r) \/ PickMemory(r) \/ TruncateProfile(r)
        PROVE  memoryRun'[k].pc # "done"
    <2>1. r # k /\ \E new : memoryRun' = [memoryRun EXCEPT ![r] = new]
      BY <1>3 DEF StageMemory, AgentLearns, PickMemory, TruncateProfile
    <2> QED BY <2>1 DEF MemoryInv, MemoryTypeOK
  <1>4. ASSUME NEW r \in MemoryRuns, FillProfile(r)
        PROVE  profile' # Empty
    BY <1>4, FillKeeps
  <1> QED
    BY <1>1, <1>2, <1>3, <1>4 DEF MemoryNext

\* MemoryIsKept: runs that follow one another build up one memory, through
\* restarts and in whatever directory their agents write it; and runs that
\* overlap do not replace it by nothing (sync_memory_from_workdir).
THEOREM MemoryStaysKept == MemorySpec => MemoryIsKept
  <1>1. MemoryInv => MemoryIsWhatWasLearned
    BY DEF MemoryInv, AloneKeeps, MemoryIsWhatWasLearned
  <1>2. MemoryInv /\ [MemoryNext]_memoryVars
            => [\A r \in MemoryRuns : memoryRun[r].pc = "writing" /\ memoryRun'[r].pc = "done"
                                  => profile' # Empty \/ memoryStops' # memoryStops]_memoryVars
    BY WrittenMemory
  <1> QED
    BY <1>1, <1>2, MemoryInvariant, PTL DEF MemorySpec, MemoryIsKept, NothingIsNotCopied

---------------------------------------------------------------------------
(* PairingUrls, for every set of addresses and any number of starts.  The  *)
(* file holds nothing, or a list without repetitions whose first URL is    *)
(* the one that is told first.  Of such a file, a start keeps what is of   *)
(* its mode in the order it has, so the lists that the algorithm joins are *)
(* known: what a start writes has a closed form for every mode, and a      *)
(* start over it gives the same.                                           *)

\* No element twice.
Distinct(l) == \A i, j \in DOMAIN l : l[i] = l[j] => i = j

\* No URL twice, and none that is empty.
Tidy(l) == Distinct(l) /\ NoUrl \notin Range(l)

\* What is picked at places I.
LEMMA PickedRange ==
    ASSUME NEW S, NEW l \in Seq(S), NEW I \in SUBSET (1 .. Len(l))
    PROVE  Range(Picked(l, I)) = {l[i] : i \in I}
  <1>1. /\ Picked(l, I) \in Seq(S) /\ Len(Picked(l, I)) = Cardinality(I) /\ Cardinality(I) \in Nat
        /\ \A k \in 1 .. Cardinality(I) : Place(I, k) \in I /\ Picked(l, I)[k] = l[Place(I, k)]
    BY PickedIsAList
  <1>2. DOMAIN Picked(l, I) = 1 .. Cardinality(I)
    BY <1>1
  <1>3. \A i \in I : \E k \in 1 .. Cardinality(I) : Place(I, k) = i
    <2>1. Len(l) \in Nat
      OBVIOUS
    <2> QED BY <2>1, PlacesMatch
  <1> DEFINE p == Picked(l, I)
             n == Cardinality(I)
  <1>4. DOMAIN p = 1 .. n /\ \A k \in 1 .. n : Place(I, k) \in I /\ p[k] = l[Place(I, k)]
    BY <1>1, <1>2
  <1> HIDE DEF p, n
  <1>5. \A u \in Range(p) : \E i \in I : u = l[i]
    BY <1>4 DEF Range
  <1>6. ASSUME NEW i \in I PROVE l[i] \in Range(p)
    <2>1. PICK k \in 1 .. n : Place(I, k) = i
      BY <1>3 DEF n
    <2>2. k \in DOMAIN p /\ p[k] = l[i]
      BY <1>4, <2>1
    <2> QED BY <2>2, Zenon DEF Range
  <1> QED
    BY <1>5, <1>6 DEF p

\* Different elements stay different.
LEMMA PickedDistinct ==
    ASSUME NEW S, NEW l \in Seq(S), NEW I \in SUBSET (1 .. Len(l)), \A i, j \in I : l[i] = l[j] => i = j
    PROVE  Distinct(Picked(l, I))
  <1>1. /\ Picked(l, I) \in Seq(S) /\ Len(Picked(l, I)) = Cardinality(I) /\ Cardinality(I) \in Nat
        /\ \A k \in 1 .. Cardinality(I) : Place(I, k) \in I /\ Picked(l, I)[k] = l[Place(I, k)]
    BY PickedIsAList
  <1>2. DOMAIN Picked(l, I) = 1 .. Cardinality(I)
    BY <1>1
  <1>3. \A k, m \in 1 .. Cardinality(I) : Place(I, k) = Place(I, m) => k = m
    <2>1. Len(l) \in Nat
      OBVIOUS
    <2> QED BY <2>1, PlacesMatch
  <1> DEFINE p == Picked(l, I)
             n == Cardinality(I)
  <1>4. DOMAIN p = 1 .. n /\ \A k \in 1 .. n : Place(I, k) \in I /\ p[k] = l[Place(I, k)]
    BY <1>1, <1>2
  <1> HIDE DEF p, n
  <1>5. ASSUME NEW k \in 1 .. n, NEW m \in 1 .. n, p[k] = p[m] PROVE k = m
    <2>1. Place(I, k) \in I /\ Place(I, m) \in I /\ l[Place(I, k)] = l[Place(I, m)]
      BY <1>4, <1>5
    <2> QED BY <1>3, <2>1, Zenon DEF n
  <1> QED
    BY <1>4, <1>5 DEF Distinct, p

\* The first places.
LEMMA FirstPlacesAre ==
    ASSUME NEW S, NEW l \in Seq(S)
    PROVE  /\ FirstPlaces(l) \in SUBSET (1 .. Len(l))
           /\ \A i, j \in FirstPlaces(l) : l[i] = l[j] => i = j
           /\ {l[i] : i \in FirstPlaces(l)} = Range(l) \ {NoUrl}
  <1>1. DOMAIN l = 1 .. Len(l) /\ Len(l) \in Nat
    OBVIOUS
  <1>2. FirstPlaces(l) \in SUBSET (1 .. Len(l))
    BY <1>1 DEF FirstPlaces
  <1>3. ASSUME NEW i \in FirstPlaces(l), NEW j \in FirstPlaces(l), l[i] = l[j] PROVE i = j
    <2>1. i \in 1 .. Len(l) /\ j \in 1 .. Len(l) /\ ~ (i < j) /\ ~ (j < i)
      BY <1>1, <1>3 DEF FirstPlaces
    <2> QED BY <1>1, <2>1
  <1>4. ASSUME NEW u \in Range(l), u # NoUrl PROVE \E i \in FirstPlaces(l) : l[i] = u
    <2> DEFINE I == {i \in 1 .. Len(l) : l[i] = u}
    <2>1. I # {} /\ I \in SUBSET Nat
      BY <1>1 DEF Range
    <2>2. PICK i \in I : \A j \in I : i <= j
      BY <2>1, LeastOf
    <2>3. \A j \in 1 .. (i - 1) : l[j] # l[i]
      <3> SUFFICES ASSUME NEW j \in 1 .. (i - 1), l[j] = l[i] PROVE FALSE
        OBVIOUS
      <3>1. j \in I
        BY <1>1, <2>2
      <3> QED BY <1>1, <2>2, <3>1
    <2> QED BY <1>1, <1>4, <2>2, <2>3 DEF FirstPlaces
  <1>5. \A i \in FirstPlaces(l) : l[i] \in Range(l) \ {NoUrl}
    BY <1>1 DEF FirstPlaces, Range
  <1> QED
    BY <1>2, <1>3, <1>4, <1>5

\* Dedupe makes a list tidy, loses none of it, and leaves one that is tidy.
LEMMA Deduped ==
    ASSUME NEW S, NEW l \in Seq(S)
    PROVE  Dedupe(l) \in Seq(S) /\ Tidy(Dedupe(l)) /\ Range(Dedupe(l)) = Range(l) \ {NoUrl}
  <1>1. /\ FirstPlaces(l) \in SUBSET (1 .. Len(l))
        /\ \A i, j \in FirstPlaces(l) : l[i] = l[j] => i = j
        /\ {l[i] : i \in FirstPlaces(l)} = Range(l) \ {NoUrl}
    BY FirstPlacesAre
  <1>2. Dedupe(l) \in Seq(S)
    BY <1>1, PickedIsAList DEF Dedupe
  <1>3. Range(Dedupe(l)) = Range(l) \ {NoUrl}
    BY <1>1, PickedRange DEF Dedupe
  <1>4. Distinct(Dedupe(l))
    BY <1>1, PickedDistinct DEF Dedupe
  <1> QED
    BY <1>2, <1>3, <1>4 DEF Tidy

\* Dedupe leaves a tidy list as it is.
LEMMA TidyStays ==
    ASSUME NEW S, NEW l \in Seq(S), Tidy(l)
    PROVE  Dedupe(l) = l
  <1>1. Len(l) \in Nat /\ DOMAIN l = 1 .. Len(l) /\ SubSeq(l, 1, Len(l)) = l
    OBVIOUS
  <1>2. FirstPlaces(l) = 1 .. Len(l)
    BY <1>1 DEF FirstPlaces, Tidy, Distinct, Range
  <1>3. Picked(l, 1 .. Len(l)) = SubSeq(l, 1, Len(l))
    <2>1. 1 \in Nat \ {0} /\ Len(l) \in Nat /\ Len(l) <= Len(l)
      BY <1>1
    <2> QED BY <2>1, PickedInterval
  <1> QED
    BY <1>1, <1>2, <1>3 DEF Dedupe

\* What is kept of a list by kind, and when it is all of it or nothing.
LEMMA KeptOnly ==
    ASSUME NEW S, NEW l \in Seq(S), NEW T
    PROVE  /\ KeepOnly(l, T) \in Seq(S) /\ Range(KeepOnly(l, T)) = Range(l) \cap T
           /\ Tidy(l) => Tidy(KeepOnly(l, T))
           /\ Range(l) \subseteq T => KeepOnly(l, T) = l
           /\ Range(l) \cap T = {} => KeepOnly(l, T) = <<>>
  <1> DEFINE I == {i \in DOMAIN l : l[i] \in T}
  <1>1. Len(l) \in Nat /\ DOMAIN l = 1 .. Len(l) /\ SubSeq(l, 1, Len(l)) = l
    OBVIOUS
  <1>2. KeepOnly(l, T) = Picked(l, I) /\ I \in SUBSET (1 .. Len(l))
    BY <1>1 DEF KeepOnly, Only
  <1>3. {l[i] : i \in I} = Range(l) \cap T
    BY DEF Range
  <1>4. Range(l) \subseteq T => I = 1 .. Len(l)
    BY <1>1 DEF Range
  <1>5. Range(l) \cap T = {} => I = {}
    BY <1>1 DEF Range
  <1> HIDE DEF I
  <1>6. Range(KeepOnly(l, T)) = Range(l) \cap T
    BY <1>2, <1>3, PickedRange
  <1>7. Picked(l, I) \in Seq(S) /\ Len(Picked(l, I)) = Cardinality(I)
    BY <1>2, PickedIsAList
  <1>8. Tidy(l) => Distinct(Picked(l, I))
    <2> SUFFICES ASSUME Tidy(l) PROVE Distinct(Picked(l, I))
      OBVIOUS
    <2>1. \A i, j \in I : l[i] = l[j] => i = j
      BY <1>1, <1>2 DEF Tidy, Distinct
    <2> QED BY <1>2, <2>1, PickedDistinct
  <1>9. Tidy(l) => Tidy(KeepOnly(l, T))
    BY <1>2, <1>6, <1>8 DEF Tidy
  <1>10. Range(l) \subseteq T => KeepOnly(l, T) = l
    <2>1. 1 \in Nat \ {0} /\ Len(l) \in Nat /\ Len(l) <= Len(l)
      BY <1>1
    <2>2. Picked(l, 1 .. Len(l)) = SubSeq(l, 1, Len(l))
      BY <2>1, PickedInterval
    <2> QED BY <1>1, <1>2, <1>4, <2>2
  <1>11. Range(l) \cap T = {} => KeepOnly(l, T) = <<>>
    <2>1. Cardinality({}) = 0
      BY FS_EmptySet
    <2> SUFFICES ASSUME Range(l) \cap T = {} PROVE Picked(l, I) = <<>>
      BY <1>2
    <2>2. Len(Picked(l, I)) = 0
      BY <1>5, <1>7, <2>1
    <2> QED BY <1>7, <2>2
  <1> QED
    BY <1>2, <1>6, <1>7, <1>9, <1>10, <1>11

\* What two lists together have of a kind.
LEMMA KeptJoined ==
    ASSUME NEW S, NEW a \in Seq(S), NEW b \in Seq(S), NEW T
    PROVE  KeepOnly(a \o b, T) = KeepOnly(a, T) \o KeepOnly(b, T)
  <1>1. Only(a \o b, T) = Only(a, T) \o Only(b, T)
    BY OnlyJoined
  <1> QED
    BY <1>1, Zenon DEF KeepOnly

\* Two lists, one after the other.
LEMMA JoinedList ==
    ASSUME NEW S, NEW a \in Seq(S), NEW b \in Seq(S)
    PROVE  /\ a \o b \in Seq(S) /\ Len(a \o b) = Len(a) + Len(b) /\ Len(a) \in Nat /\ Len(b) \in Nat
           /\ \A i \in 1 .. Len(a) : (a \o b)[i] = a[i]
           /\ \A i \in 1 .. Len(b) : (a \o b)[Len(a) + i] = b[i]
           /\ Range(a \o b) = Range(a) \cup Range(b)
  <1>1. /\ a \o b \in Seq(S) /\ Len(a \o b) = Len(a) + Len(b) /\ Len(a) \in Nat /\ Len(b) \in Nat
        /\ DOMAIN a = 1 .. Len(a) /\ DOMAIN b = 1 .. Len(b)
    OBVIOUS
  <1>2. DOMAIN (a \o b) = 1 .. Len(a) + Len(b)
    BY <1>1
  <1>3. \A i \in 1 .. Len(a) : (a \o b)[i] = a[i]
    OBVIOUS
  <1>4. \A i \in 1 .. Len(b) : (a \o b)[Len(a) + i] = b[i]
    OBVIOUS
  <1> DEFINE c == a \o b
             m == Len(a)
             n == Len(b)
  <1>5. /\ m \in Nat /\ n \in Nat /\ DOMAIN c = 1 .. m + n /\ DOMAIN a = 1 .. m /\ DOMAIN b = 1 .. n
        /\ \A i \in 1 .. m : c[i] = a[i]
        /\ \A i \in 1 .. n : c[m + i] = b[i]
    BY <1>1, <1>2, <1>3, <1>4
  <1> HIDE DEF c, m, n
  <1>6. Range(c) \subseteq Range(a) \cup Range(b)
    <2> SUFFICES ASSUME NEW i \in 1 .. m + n PROVE c[i] \in Range(a) \cup Range(b)
      BY <1>5 DEF Range
    <2>1. CASE i \in 1 .. m
      BY <1>5, <2>1 DEF Range
    <2>2. CASE i \notin 1 .. m
      <3>1. i - m \in 1 .. n /\ m + (i - m) = i
        BY <1>5, <2>2
      <3>2. c[m + (i - m)] = b[i - m]
        BY <1>5, <3>1
      <3> QED BY <1>5, <3>1, <3>2 DEF Range
    <2> QED BY <2>1, <2>2
  <1>7. \A i \in 1 .. m : a[i] \in Range(c)
    <2>1. \A i \in 1 .. m : i \in DOMAIN c /\ c[i] = a[i]
      BY <1>5
    <2> QED BY <2>1, Zenon DEF Range
  <1>8. \A i \in 1 .. n : b[i] \in Range(c)
    <2>1. \A i \in 1 .. n : m + i \in DOMAIN c /\ c[m + i] = b[i]
      BY <1>5
    <2> QED BY <2>1, Zenon DEF Range
  <1>9. Range(a) \cup Range(b) \subseteq Range(c)
    BY <1>5, <1>7, <1>8 DEF Range
  <1> QED
    BY <1>1, <1>3, <1>4, <1>6, <1>9 DEF c

\* Two tidy lists of different URLs are a tidy list.
LEMMA TidyJoined ==
    ASSUME NEW S, NEW a \in Seq(S), NEW b \in Seq(S), Tidy(a), Tidy(b), Range(a) \cap Range(b) = {}
    PROVE  Tidy(a \o b)
  <1> DEFINE c == a \o b
             m == Len(a)
             n == Len(b)
  <1>1. /\ Range(c) = Range(a) \cup Range(b)
        /\ m \in Nat /\ n \in Nat /\ Len(c) = m + n /\ c \in Seq(S)
        /\ \A i \in 1 .. m : c[i] = a[i]
        /\ \A i \in 1 .. n : c[m + i] = b[i]
    BY JoinedList
  <1>2. DOMAIN c = 1 .. m + n /\ DOMAIN a = 1 .. m /\ DOMAIN b = 1 .. n
    BY <1>1
  <1> HIDE DEF c, m, n
  <1>3. NoUrl \notin Range(c)
    BY <1>1 DEF Tidy
  <1>4. ASSUME NEW i \in 1 .. m + n, NEW j \in 1 .. m + n, c[i] = c[j], i < j PROVE FALSE
    <2>1. CASE j \in 1 .. m
      <3>1. i \in 1 .. m /\ a[i] = a[j]
        BY <1>1, <1>4, <2>1
      <3> QED BY <1>2, <1>4, <2>1, <3>1 DEF Tidy, Distinct
    <2>2. CASE j \notin 1 .. m /\ i \in 1 .. m
      <3>1. j - m \in 1 .. n /\ m + (j - m) = j
        BY <1>1, <2>2
      <3>2. a[i] = b[j - m]
        BY <1>1, <1>4, <2>2, <3>1
      <3>3. a[i] \in Range(a) /\ b[j - m] \in Range(b)
        BY <1>2, <2>2, <3>1 DEF Range
      <3> QED BY <3>2, <3>3
    <2>3. CASE i \notin 1 .. m
      <3>1. /\ j - m \in 1 .. n /\ m + (j - m) = j /\ i - m \in 1 .. n /\ m + (i - m) = i
            /\ i - m # j - m
        BY <1>1, <1>4, <2>3
      <3>2. b[i - m] = b[j - m]
        BY <1>1, <1>4, <3>1
      <3> QED BY <1>2, <3>1, <3>2 DEF Tidy, Distinct
    <2> QED BY <1>1, <2>1, <2>2, <2>3
  <1>5. Distinct(c)
    <2> SUFFICES ASSUME NEW i \in 1 .. m + n, NEW j \in 1 .. m + n, c[i] = c[j] PROVE i = j
      BY <1>2 DEF Distinct
    <2>1. ~ (i < j) /\ ~ (j < i)
      BY <1>4
    <2> QED BY <1>1, <2>1
  <1> QED
    BY <1>3, <1>5 DEF Tidy, c

\* When the first place is picked, it comes first.
LEMMA FirstPicked ==
    ASSUME NEW S, NEW l \in Seq(S), NEW I \in SUBSET (1 .. Len(l)), 1 \in I
    PROVE  Picked(l, I) # <<>> /\ Picked(l, I)[1] = l[1]
  <1>1. Len(l) \in Nat /\ I \in SUBSET (1 .. Len(l))
    OBVIOUS
  <1>3. UpTo(I, 1) = 1
    <2>1. 1 \in I /\ \A j \in I : j \in Nat /\ 1 <= j
      BY <1>1
    <2>2. ASSUME NEW j \in I, j <= 1 PROVE j = 1
      BY <2>1, <2>2
    <2>3. {j \in I : j <= 1} = {1}
      BY <2>1, <2>2
    <2> QED BY <2>3, FS_Singleton DEF UpTo
  <1>4. Place(I, 1) = 1 /\ 1 \in 1 .. Cardinality(I)
    BY <1>1, <1>3, PlaceIs
  <1>5. /\ Picked(l, I) \in Seq(S) /\ Len(Picked(l, I)) = Cardinality(I)
        /\ \A k \in 1 .. Cardinality(I) : Place(I, k) \in I /\ Picked(l, I)[k] = l[Place(I, k)]
    BY <1>1, PickedIsAList
  <1>6. Picked(l, I)[1] = l[1]
    BY <1>4, <1>5
  <1>7. Picked(l, I) # <<>>
    BY <1>4, <1>5
  <1> QED
    BY <1>6, <1>7

LEMMA FirstStays ==
    ASSUME NEW S, NEW l \in Seq(S), l # <<>>, l[1] # NoUrl
    PROVE  Dedupe(l) # <<>> /\ Dedupe(l)[1] = l[1]
  <1> DEFINE I == FirstPlaces(l)
  <1>1. I \in SUBSET (1 .. Len(l))
    BY FirstPlacesAre
  <1>2. 1 \in I
    <2>1. 1 \in DOMAIN l /\ 1 .. (1 - 1) = {}
      OBVIOUS
    <2> QED BY <2>1 DEF FirstPlaces
  <1> HIDE DEF I
  <1> QED
    BY <1>1, <1>2, FirstPicked DEF Dedupe, I

\* So does a first element of the kind that is kept.
LEMMA FirstKept ==
    ASSUME NEW S, NEW l \in Seq(S), NEW T, l # <<>>, l[1] \in T
    PROVE  KeepOnly(l, T) # <<>> /\ KeepOnly(l, T)[1] = l[1]
  <1> DEFINE I == {i \in DOMAIN l : l[i] \in T}
  <1>1. I \in SUBSET (1 .. Len(l)) /\ 1 \in I
    OBVIOUS
  <1>2. KeepOnly(l, T) = Picked(l, I)
    BY DEF KeepOnly, Only
  <1> HIDE DEF I
  <1> QED
    BY <1>1, <1>2, FirstPicked

\* An empty string before a tidy list is dropped.
LEMMA WithoutFirst ==
    ASSUME NEW S, NEW x \in S, NEW l \in Seq(S), Tidy(l), x = NoUrl
    PROVE  Dedupe(<<x>> \o l) = l
  <1> DEFINE a == <<x>>
             c == Joined(a, l)
             n == Len(l)
  <1>1. a \in Seq(S) /\ Len(a) = 1 /\ a[1] = x /\ n \in Nat /\ DOMAIN l = 1 .. n
    OBVIOUS
  <1>2. c \in Seq(S) /\ DOMAIN c = 1 .. n + 1 /\ c[1] = x /\ \A i \in 1 .. n : c[1 + i] = l[i]
    <2>1. /\ a \o l \in Seq(S) /\ Len(a \o l) = Len(a) + Len(l)
          /\ \A i \in 1 .. Len(a) : (a \o l)[i] = a[i]
          /\ \A i \in 1 .. Len(l) : (a \o l)[Len(a) + i] = l[i]
      BY <1>1, JoinedList
    <2>2. c = a \o l
      BY DEF Joined
    <2> HIDE DEF a, c
    <2> QED BY <1>1, <2>1, <2>2
  <1>3. Dedupe(<<x>> \o l) = Picked(c, FirstPlaces(c))
    BY DEF Dedupe, Joined
  <1> HIDE DEF a, c, n
  <1>4. FirstPlaces(c) = JoinedPlaces({}, 1, 1 .. n)
    <2>1. \A i \in 1 .. n : l[i] # NoUrl /\ \A j \in 1 .. (i - 1) : l[j] # l[i]
      <3>1. \A i \in 1 .. n : l[i] # NoUrl /\ \A j \in 1 .. n : l[i] = l[j] => i = j
        BY <1>1 DEF Tidy, Distinct, Range
      <3> QED BY <1>1, <3>1
    <2>2. ASSUME NEW i \in 1 .. n PROVE 1 + i \in FirstPlaces(c)
      <3>1. c[1 + i] = l[i] /\ l[i] # NoUrl
        BY <1>2, <2>1
      <3>2. ASSUME NEW j \in 1 .. 1 + i - 1 PROVE c[j] # c[1 + i]
        <4>1. CASE j = 1
          BY <1>2, <3>1, <4>1
        <4>2. CASE j # 1
          <5>1. j - 1 \in 1 .. (i - 1) /\ j - 1 \in 1 .. n /\ 1 + (j - 1) = j
            BY <1>1, <4>2
          <5>2. c[j] = l[j - 1]
            BY <1>2, <5>1
          <5> QED BY <2>1, <3>1, <5>1, <5>2
        <4> QED BY <4>1, <4>2
      <3>3. 1 + i \in DOMAIN c
        BY <1>1, <1>2
      <3> QED BY <3>1, <3>2, <3>3 DEF FirstPlaces
    <2>3. 1 \notin FirstPlaces(c)
      BY <1>2 DEF FirstPlaces
    <2>4. ASSUME NEW k \in FirstPlaces(c) PROVE \E i \in 1 .. n : k = 1 + i
      <3>1. k \in 1 .. n + 1 /\ k # 1
        BY <1>2, <2>3 DEF FirstPlaces
      <3>2. k - 1 \in 1 .. n /\ k = 1 + (k - 1)
        BY <1>1, <3>1
      <3> QED BY <3>2
    <2>5. \A k : k \in FirstPlaces(c) <=> \E i \in 1 .. n : k = 1 + i
      BY <2>2, <2>4
    <2> QED BY <2>5 DEF JoinedPlaces
  <1>5. Picked(c, FirstPlaces(c)) = Joined(Picked(a, {}), Picked(l, 1 .. n))
    <2>1. {} \in SUBSET (1 .. Len(a)) /\ 1 .. n \in SUBSET (1 .. Len(l))
      BY DEF n
    <2>3. ASSUME NEW p \in Seq(S), NEW A \in SUBSET (1 .. Len(p)), NEW B \in SUBSET (1 .. Len(l))
          PROVE  Picked(Joined(p, l), JoinedPlaces(A, Len(p), B)) = Joined(Picked(p, A), Picked(l, B))
      BY PickedJoined
    <2>2. Picked(Joined(a, l), JoinedPlaces({}, Len(a), 1 .. n)) = Joined(Picked(a, {}), Picked(l, 1 .. n))
      BY <1>1, <2>1, <2>3
    <2> QED BY <1>1, <1>4, <2>2 DEF c
  <1>6. Picked(a, {}) = <<>>
    <2>1. Picked(a, {}) \in Seq(S) /\ Len(Picked(a, {})) = Cardinality({})
      BY <1>1, PickedIsAList
    <2>2. Cardinality({}) = 0
      BY FS_EmptySet
    <2> QED BY <2>1, <2>2
  <1>7. Picked(l, 1 .. n) = l
    <2>1. 1 \in Nat \ {0} /\ Len(l) \in Nat /\ Len(l) <= Len(l)
      BY <1>1 DEF n
    <2>2. Picked(l, 1 .. Len(l)) = SubSeq(l, 1, Len(l))
      BY <2>1, PickedInterval
    <2>3. SubSeq(l, 1, Len(l)) = l
      OBVIOUS
    <2> QED BY <2>2, <2>3 DEF n
  <1>8. Joined(<<>>, l) = l
    BY DEF Joined
  <1> QED
    BY <1>3, <1>5, <1>6, <1>7, <1>8

\* So is the first element when it comes once more before a tidy list.
LEMMA AgainFirst ==
    ASSUME NEW S, NEW x \in S, NEW l \in Seq(S), Tidy(l), l # <<>>, x = l[1]
    PROVE  Dedupe(<<x>> \o l) = l
  <1> DEFINE a == <<x>>
             c == Joined(a, l)
             n == Len(l)
  <1>1. a \in Seq(S) /\ Len(a) = 1 /\ a[1] = x /\ n \in Nat \ {0} /\ DOMAIN l = 1 .. n
    OBVIOUS
  <1>2. c \in Seq(S) /\ DOMAIN c = 1 .. n + 1 /\ c[1] = x /\ \A i \in 1 .. n : c[1 + i] = l[i]
    <2>1. /\ a \o l \in Seq(S) /\ Len(a \o l) = Len(a) + Len(l)
          /\ \A i \in 1 .. Len(a) : (a \o l)[i] = a[i]
          /\ \A i \in 1 .. Len(l) : (a \o l)[Len(a) + i] = l[i]
      BY <1>1, JoinedList
    <2>2. c = a \o l
      BY DEF Joined
    <2> HIDE DEF a, c
    <2> QED BY <1>1, <2>1, <2>2
  <1>3. Dedupe(<<x>> \o l) = Picked(c, FirstPlaces(c))
    BY DEF Dedupe, Joined
  <1> HIDE DEF a, c, n
  <1>4. FirstPlaces(c) = JoinedPlaces({1}, 1, 2 .. n)
    <2>1. \A i \in 1 .. n : l[i] # NoUrl /\ \A j \in 1 .. (i - 1) : l[j] # l[i]
      <3>1. \A i \in 1 .. n : l[i] # NoUrl /\ \A j \in 1 .. n : l[i] = l[j] => i = j
        BY <1>1 DEF Tidy, Distinct, Range
      <3> QED BY <1>1, <3>1
    <2>2. ASSUME NEW i \in 2 .. n PROVE 1 + i \in FirstPlaces(c)
      <3>1. c[1 + i] = l[i] /\ l[i] # NoUrl /\ i \in 1 .. n
        BY <1>1, <1>2, <2>1
      <3>2. ASSUME NEW j \in 1 .. 1 + i - 1 PROVE c[j] # c[1 + i]
        <4>1. CASE j = 1
          <5>1. 1 \in 1 .. (i - 1)
            BY <1>1
          <5>2. l[1] # l[i]
            BY <2>1, <3>1, <5>1
          <5> QED BY <1>2, <3>1, <4>1, <5>2
        <4>2. CASE j # 1
          <5>1. j - 1 \in 1 .. (i - 1) /\ j - 1 \in 1 .. n /\ 1 + (j - 1) = j
            BY <1>1, <4>2
          <5>2. c[j] = l[j - 1]
            BY <1>2, <5>1
          <5> QED BY <2>1, <3>1, <5>1, <5>2
        <4> QED BY <4>1, <4>2
      <3>3. 1 + i \in DOMAIN c
        BY <1>1, <1>2
      <3> QED BY <3>1, <3>2, <3>3 DEF FirstPlaces
    <2>3. 1 \in FirstPlaces(c)
      <3>1. 1 \in DOMAIN c /\ c[1] # NoUrl
        BY <1>1, <1>2, <2>1
      <3>2. 1 .. (1 - 1) = {}
        OBVIOUS
      <3> QED BY <3>1, <3>2 DEF FirstPlaces
    <2>6. 2 \notin FirstPlaces(c)
      <3>1. 1 \in 1 .. n /\ 1 + 1 = 2 /\ 1 \in 1 .. (2 - 1)
        BY <1>1
      <3>2. c[2] = l[1]
        BY <1>2, <3>1
      <3> QED BY <1>2, <3>1, <3>2 DEF FirstPlaces
    <2>4. ASSUME NEW k \in FirstPlaces(c) PROVE k = 1 \/ \E i \in 2 .. n : k = 1 + i
      <3>1. k \in 1 .. n + 1 /\ k # 2
        BY <1>2, <2>6 DEF FirstPlaces
      <3>2. k = 1 \/ (k - 1 \in 2 .. n /\ k = 1 + (k - 1))
        BY <1>1, <3>1
      <3> QED BY <3>2
    <2>5. \A k : k \in FirstPlaces(c) <=> (k = 1 \/ \E i \in 2 .. n : k = 1 + i)
      BY <2>2, <2>3, <2>4
    <2> QED BY <2>5 DEF JoinedPlaces
  <1>5. Picked(c, FirstPlaces(c)) = Joined(Picked(a, {1}), Picked(l, 2 .. n))
    <2>1. {1} \in SUBSET (1 .. Len(a)) /\ 2 .. n \in SUBSET (1 .. Len(l))
      BY <1>1 DEF n
    <2>3. ASSUME NEW p \in Seq(S), NEW A \in SUBSET (1 .. Len(p)), NEW B \in SUBSET (1 .. Len(l))
          PROVE  Picked(Joined(p, l), JoinedPlaces(A, Len(p), B)) = Joined(Picked(p, A), Picked(l, B))
      BY PickedJoined
    <2>2. Picked(Joined(a, l), JoinedPlaces({1}, Len(a), 2 .. n)) = Joined(Picked(a, {1}), Picked(l, 2 .. n))
      BY <1>1, <2>1, <2>3
    <2> QED BY <1>1, <1>4, <2>2 DEF c
  <1>6. Picked(a, {1}) = <<x>>
    <2>1. 1 \in Nat \ {0} /\ 1 \in Nat /\ 1 <= Len(a) /\ 1 .. 1 = {1}
      BY <1>1
    <2>2. Picked(a, 1 .. 1) = SubSeq(a, 1, 1)
      BY <1>1, <2>1, PickedInterval
    <2>4. SubSeq(a, 1, 1) \in Seq(S) /\ Len(SubSeq(a, 1, 1)) = 1 /\ SubSeq(a, 1, 1)[1] = a[1]
      BY <1>1
    <2>5. SubSeq(a, 1, 1) = a
      BY <1>1, <2>4, SameParts
    <2>3. SubSeq(a, 1, 1) = <<x>>
      BY <2>5 DEF a
    <2> QED BY <2>1, <2>2, <2>3
  <1>7. Picked(l, 2 .. n) = SubSeq(l, 2, n)
    <2>1. 2 \in Nat \ {0} /\ n \in Nat /\ n <= Len(l)
      BY <1>1 DEF n
    <2> QED BY <2>1, PickedInterval
  <1>8. Joined(<<x>>, SubSeq(l, 2, n)) = l
    <2> DEFINE r == SubSeq(l, 2, n)
               q == <<x>>
    <2>1. r \in Seq(S) /\ Len(r) = n - 1 /\ \A i \in 1 .. n - 1 : r[i] = l[2 + i - 1]
      BY <1>1 DEF n
    <2>2. q \in Seq(S) /\ Len(q) = 1 /\ q[1] = x
      OBVIOUS
    <2> HIDE DEF r, q
    <2>3. Len(l) = Len(q) + Len(r)
      BY <1>1, <2>1, <2>2 DEF n
    <2>4. \A k \in 1 .. Len(q) : l[k] = q[k]
      BY <2>2
    <2>5. \A k \in 1 .. Len(r) : l[Len(q) + k] = r[k]
      BY <1>1, <2>1, <2>2
    <2>6. l = q \o r
      BY <2>1, <2>2, <2>3, <2>4, <2>5, IsJoin
    <2> QED BY <2>6 DEF q, r, Joined
  <1> QED
    BY <1>3, <1>5, <1>6, <1>7, <1>8

\* Every URL that an input or the file may have.
AnyUrl == LanUrls \cup PublicUrls \cup TailnetUrls \cup {Loopback, NoUrl, "exposed"}

\* What the file holds: nothing, or a tidy list and its first URL.
Advertised(f) ==
    /\ f \in [url : AnyUrl, urls : Seq(AnyUrl)]
    /\ Tidy(f.urls)
    /\ f.urls = <<>> => f.url = NoUrl
    /\ f.urls # <<>> => f.url = f.urls[1]

\* The kinds of URLs have nothing in common.
LEMMA Kinds ==
    /\ NoUrl \notin LanUrls /\ NoUrl \notin PublicUrls /\ NoUrl \notin TailnetUrls /\ NoUrl # Loopback
    /\ Loopback \notin LanUrls /\ Loopback \notin PublicUrls /\ Loopback \notin TailnetUrls
    /\ "exposed" \notin LanUrls /\ "exposed" \notin PublicUrls
    /\ LanUrls \cap PublicUrls = {} /\ LanUrls \cap TailnetUrls = {} /\ PublicUrls \cap TailnetUrls = {}
  <1>1. NoUrl # Loopback /\ NoUrl \notin TailnetUrls /\ Loopback \notin TailnetUrls
    BY DEF NoUrl, Loopback, TailnetUrls
  <1> QED
    BY <1>1, UrlAssumption

\* A list of one URL.
LEMMA OneUrl ==
    ASSUME NEW S, NEW x \in S, NEW T
    PROVE  /\ <<x>> \in Seq(S) /\ Range(<<x>>) = {x} /\ <<x>> # <<>> /\ <<x>>[1] = x
           /\ KeepOnly(<<x>>, T) = IF x \in T THEN <<x>> ELSE <<>>
           /\ x # NoUrl => Tidy(<<x>>) /\ Dedupe(<<x>>) = <<x>>
           /\ x = NoUrl => Dedupe(<<x>>) = <<>>
  <1> DEFINE l == <<x>>
  <1>1. l \in Seq(S) /\ DOMAIN l = {1} /\ l[1] = x /\ l # <<>>
    OBVIOUS
  <1> HIDE DEF l
  <1>2. Range(l) = {x}
    BY <1>1 DEF Range
  <1>3. x \in T => KeepOnly(l, T) = l
    BY <1>1, <1>2, KeptOnly
  <1>4. x \notin T => KeepOnly(l, T) = <<>>
    BY <1>1, <1>2, KeptOnly
  <1>5. x # NoUrl => Tidy(l)
    BY <1>1, <1>2 DEF Tidy, Distinct
  <1>6. x # NoUrl => Dedupe(l) = l
    BY <1>1, <1>5, TidyStays
  <1>7. x = NoUrl => Dedupe(l) = <<>>
    <2> SUFFICES ASSUME x = NoUrl PROVE Dedupe(l) = <<>>
      OBVIOUS
    <2>1. Dedupe(l) \in Seq(S) /\ Range(Dedupe(l)) = {}
      BY <1>1, <1>2, Deduped
    <2>2. DOMAIN Dedupe(l) = {}
      BY <2>1 DEF Range
    <2> QED BY <2>1, <2>2
  <1> QED
    BY <1>1, <1>2, <1>3, <1>4, <1>5, <1>6, <1>7 DEF l

\* The URLs of the mode that the file has, in their order.
LEMMA PreviousIs ==
    ASSUME NEW in \in Inputs, NEW f, Advertised(f)
    PROVE  Previous(in, f) = KeepOnly(f.urls, ModeUrls(in.mode))
  <1> DEFINE u == f.url
             l == f.urls
             T == ModeUrls(in.mode)
             k == KeepOnly(l, T)
  <1>1. /\ u \in AnyUrl /\ l \in Seq(AnyUrl) /\ Tidy(l)
        /\ l = <<>> => u = NoUrl
        /\ l # <<>> => u = l[1]
    BY DEF Advertised
  <1>2. NoUrl \notin T
    BY Kinds DEF ModeUrls, Inputs
  <1>3. Previous(in, f) = Dedupe(KeepOnly(<<u>> \o l, T))
    BY DEF Previous
  <1> HIDE DEF u, l, T, k
  <1>4. /\ <<u>> \in Seq(AnyUrl)
        /\ KeepOnly(<<u>>, T) = IF u \in T THEN <<u>> ELSE <<>>
    BY <1>1, OneUrl
  <1>5. KeepOnly(<<u>> \o l, T) = KeepOnly(<<u>>, T) \o KeepOnly(l, T)
    <2>1. ASSUME NEW p \in Seq(AnyUrl) PROVE KeepOnly(p \o l, T) = KeepOnly(p, T) \o KeepOnly(l, T)
      BY <1>1, KeptJoined
    <2> QED BY <1>4, <2>1
  <1>6. k \in Seq(AnyUrl) /\ Tidy(k)
    BY <1>1, KeptOnly DEF k
  <1>7. CASE u \in T
    <2>1. l # <<>> /\ u = l[1]
      BY <1>1, <1>2, <1>7
    <2>2. k # <<>> /\ k[1] = u
      BY <1>1, <1>7, <2>1, FirstKept DEF k
    <2>3. Dedupe(<<u>> \o k) = k
      BY <1>1, <1>6, <2>2, AgainFirst
    <2> QED BY <1>3, <1>4, <1>5, <1>7, <2>3 DEF k, l, T
  <1>8. CASE u \notin T
    <2>1. <<>> \o k = k
      BY <1>6
    <2>2. Dedupe(k) = k
      BY <1>6, TidyStays
    <2> QED BY <1>3, <1>4, <1>5, <1>8, <2>1, <2>2 DEF k, l, T
  <1> QED
    BY <1>7, <1>8

\* What a start finds by itself.
Own(in) ==
    IF in.mode = "local" \/ in.host = Loopback THEN <<Loopback>>
    ELSE IF in.host # "exposed" THEN <<in.host>>
    ELSE IF in.mode = "wifi" THEN <<IF in.lan # NoUrl THEN in.lan ELSE Loopback>>
    ELSE IF in.tailnet # <<>> THEN in.tailnet
    ELSE <<Loopback>>

BothTailnet == <<"tailnet_name", "tailnet_address">>

\* What Tailscale tells is tidy, and all of its kind.
LEMMA BothTailnetIs ==
    /\ BothTailnet \in Seq(AnyUrl) /\ BothTailnet # <<>>
    /\ Range(BothTailnet) = TailnetUrls /\ Tidy(BothTailnet)
  <1>1. BothTailnet \in Seq(AnyUrl) /\ DOMAIN BothTailnet = {1, 2} /\ BothTailnet # <<>>
    BY DEF BothTailnet, AnyUrl, TailnetUrls
  <1>2. BothTailnet[1] = "tailnet_name" /\ BothTailnet[2] = "tailnet_address"
    BY DEF BothTailnet
  <1>3. Range(BothTailnet) = TailnetUrls
    BY <1>1, <1>2 DEF Range, TailnetUrls
  <1>4. Distinct(BothTailnet)
    BY <1>1, <1>2 DEF Distinct
  <1> QED
    BY <1>1, <1>3, <1>4, Kinds DEF Tidy

OwnKinds == LanUrls \cup PublicUrls \cup {Loopback}

\* It is one URL, or what Tailscale tells; without a network, the own machine.
LEMMA OwnIs ==
    ASSUME NEW in \in Inputs
    PROVE  /\ in.mode = "local" => Own(in) = <<Loopback>>
           /\ \/ \E d \in OwnKinds : Own(in) = <<d>> /\ (in.mode = "tailscale" /\ d \in PublicUrls => in.host = d)
              \/ in.mode = "tailscale" /\ Own(in) = BothTailnet
           /\ Own(in) \in Seq(AnyUrl) /\ Tidy(Own(in))
  <1>1. /\ in.mode \in {"tailscale", "wifi", "local"}
        /\ in.host \in {"exposed", Loopback} \cup LanUrls \cup PublicUrls
        /\ in.tailnet \in {<<>>, BothTailnet}
        /\ in.lan \in LanUrls \cup {NoUrl}
    BY DEF Inputs, BothTailnet
  <1>2. in.mode = "local" => Own(in) = <<Loopback>>
    BY DEF Own
  <1>3. \/ \E d \in OwnKinds : Own(in) = <<d>> /\ (in.mode = "tailscale" /\ d \in PublicUrls => in.host = d)
        \/ in.mode = "tailscale" /\ Own(in) = BothTailnet
    BY <1>1, Kinds DEF Own, OwnKinds
  <1>4. BothTailnet \in Seq(AnyUrl) /\ Tidy(BothTailnet)
    BY BothTailnetIs
  <1>5. ASSUME NEW d \in OwnKinds PROVE <<d>> \in Seq(AnyUrl) /\ Tidy(<<d>>)
    <2>1. d \in AnyUrl /\ d # NoUrl
      BY Kinds DEF AnyUrl, OwnKinds
    <2> QED BY <2>1, OneUrl
  <1>6. Own(in) \in Seq(AnyUrl) /\ Tidy(Own(in))
    BY <1>3, <1>4, <1>5
  <1> QED
    BY <1>2, <1>3, <1>6

\* The configured URL, when there is one, and then those found.
LEMMA DetectedIs ==
    ASSUME NEW in \in Inputs
    PROVE  /\ Detected(in) = Dedupe(<<in.explicit>> \o Own(in))
           /\ Detected(in) \in Seq(AnyUrl)
           /\ in.explicit = NoUrl => Detected(in) = Own(in)
           /\ in.explicit # NoUrl => Detected(in) # <<>> /\ Detected(in)[1] = in.explicit
  <1>1. Detected(in) = Dedupe(<<in.explicit>> \o Own(in))
    BY DEF Detected, Own
  <1>2. Own(in) \in Seq(AnyUrl) /\ Tidy(Own(in))
    BY OwnIs
  <1> DEFINE x == in.explicit
             o == Own(in)
             c == <<x>> \o o
  <1>3. x \in AnyUrl /\ o \in Seq(AnyUrl) /\ Tidy(o)
    BY <1>2 DEF Inputs, AnyUrl
  <1> HIDE DEF x, o
  <1>4. <<x>> \in Seq(AnyUrl) /\ <<x>>[1] = x /\ <<x>> # <<>> /\ Len(<<x>>) = 1
    BY <1>3
  <1>5. c \in Seq(AnyUrl) /\ c # <<>> /\ c[1] = x
    BY <1>3, <1>4
  <1>6. x = NoUrl => Dedupe(<<x>> \o o) = o
    BY <1>3, WithoutFirst
  <1> HIDE DEF c
  <1>7. x # NoUrl => Dedupe(c) # <<>> /\ Dedupe(c)[1] = x
    BY <1>5, FirstStays
  <1>8. Dedupe(c) \in Seq(AnyUrl)
    BY <1>5, Deduped
  <1> QED
    BY <1>1, <1>6, <1>7, <1>8 DEF x, o, c

\* The parts of NextUrls by name.
Shown(in) == IF in.mode = "tailscale" THEN KeepOnly(Detected(in), TailnetUrls \cup PublicUrls) ELSE Detected(in)

FallsBack(in) ==
    /\ in.explicit = NoUrl
    /\ in.mode # "local"
    /\ KeepOnly(Shown(in), ModeUrls(in.mode)) = <<>>

Fallback(in, f) == IF FallsBack(in) THEN Previous(in, f) ELSE <<>>

Offered(in, f) == Dedupe(Preferred(in, f) \o Fallback(in, f) \o Shown(in))

\* The first of two lists, where it is not empty, says what comes first.
LEMMA TwoLists ==
    ASSUME NEW S, NEW a \in Seq(S), NEW b \in Seq(S)
    PROVE  /\ a \o b \in Seq(S) /\ Range(a \o b) = Range(a) \cup Range(b)
           /\ a # <<>> => a \o b # <<>> /\ (a \o b)[1] = a[1]
           /\ a = <<>> => a \o b = b
           /\ b = <<>> => a \o b = a
           /\ b # <<>> => a \o b # <<>>
  <1>1. a \o b \in Seq(S) /\ Range(a \o b) = Range(a) \cup Range(b)
    BY JoinedList
  <1>2. a # <<>> => a \o b # <<>> /\ (a \o b)[1] = a[1]
    OBVIOUS
  <1>3. a = <<>> => a \o b = b
    OBVIOUS
  <1>4. b = <<>> => a \o b = a
    OBVIOUS
  <1>5. b # <<>> => a \o b # <<>>
    OBVIOUS
  <1> QED
    BY <1>1, <1>2, <1>3, <1>4, <1>5

\* They are lists of URLs, and what is offered has all their URLs, once.
LEMMA PartsAre ==
    ASSUME NEW in \in Inputs, NEW f, Advertised(f)
    PROVE  /\ Preferred(in, f) \in Seq(AnyUrl) /\ Fallback(in, f) \in Seq(AnyUrl) /\ Shown(in) \in Seq(AnyUrl)
           /\ Offered(in, f) \in Seq(AnyUrl) /\ Tidy(Offered(in, f))
           /\ Range(Offered(in, f)) = (Range(Preferred(in, f)) \cup Range(Fallback(in, f)) \cup Range(Shown(in))) \ {NoUrl}
           /\ NextUrls(in, f) = IF Offered(in, f) = <<>> THEN Dedupe(<<f.url>>) ELSE Offered(in, f)
  <1>1. f.urls \in Seq(AnyUrl) /\ in.explicit \in AnyUrl
    BY DEF Advertised, Inputs, AnyUrl
  <1>2. Preferred(in, f) \in Seq(AnyUrl)
    <2>1. KeepOnly(f.urls, PublicUrls) \in Seq(AnyUrl) /\ <<in.explicit>> \in Seq(AnyUrl) /\ <<>> \in Seq(AnyUrl)
      BY <1>1, KeptOnly
    <2> QED BY <2>1 DEF Preferred
  <1>3. Fallback(in, f) \in Seq(AnyUrl)
    <2>1. KeepOnly(f.urls, ModeUrls(in.mode)) \in Seq(AnyUrl) /\ <<>> \in Seq(AnyUrl)
      BY <1>1, KeptOnly
    <2> QED BY <2>1, PreviousIs DEF Fallback
  <1>4. Shown(in) \in Seq(AnyUrl)
    <2>1. Detected(in) \in Seq(AnyUrl)
      BY DetectedIs
    <2>2. KeepOnly(Detected(in), TailnetUrls \cup PublicUrls) \in Seq(AnyUrl)
      BY <2>1, KeptOnly
    <2> QED BY <2>1, <2>2 DEF Shown
  <1> DEFINE a == Preferred(in, f)
             b == Fallback(in, f)
             c == Shown(in)
  <1> HIDE DEF a, b, c
  <1>5. a \in Seq(AnyUrl) /\ b \in Seq(AnyUrl) /\ c \in Seq(AnyUrl)
    BY <1>2, <1>3, <1>4 DEF a, b, c
  <1>6. a \o b \in Seq(AnyUrl) /\ Range(a \o b) = Range(a) \cup Range(b)
    BY <1>5, TwoLists
  <1> DEFINE e == a \o b
  <1>7. e \o c \in Seq(AnyUrl) /\ Range(e \o c) = Range(e) \cup Range(c)
    <2>1. e \in Seq(AnyUrl)
      BY <1>6
    <2> HIDE DEF e
    <2> QED BY <1>5, <2>1, TwoLists
  <1> DEFINE g == e \o c
  <1>8. Dedupe(g) \in Seq(AnyUrl) /\ Tidy(Dedupe(g)) /\ Range(Dedupe(g)) = Range(g) \ {NoUrl}
    <2>1. g \in Seq(AnyUrl)
      BY <1>7
    <2> HIDE DEF g
    <2> QED BY <2>1, Deduped
  <1>9. Offered(in, f) = Dedupe(g)
    BY DEF Offered, a, b, c
  <1>10. NextUrls(in, f) = IF Offered(in, f) = <<>> THEN Dedupe(<<f.url>>) ELSE Offered(in, f)
    BY DEF NextUrls, Offered, Fallback, FallsBack, Shown
  <1>11. Range(Offered(in, f)) = (Range(a) \cup Range(b) \cup Range(c)) \ {NoUrl}
    BY <1>6, <1>7, <1>8, <1>9
  <1> QED
    BY <1>2, <1>3, <1>4, <1>8, <1>9, <1>10, <1>11 DEF a, b, c

\* A configured URL comes first, and what the file has does not matter.
LEMMA ExplicitIs ==
    ASSUME NEW in \in Inputs, in.explicit # NoUrl, NEW f, Advertised(f)
    PROVE  Offered(in, f) # <<>> /\ Offered(in, f)[1] = in.explicit /\ Offered(in, f) = Dedupe(<<in.explicit>> \o Shown(in))
  <1> DEFINE x == in.explicit
             c == Shown(in)
  <1>1. x \in AnyUrl /\ x # NoUrl /\ c \in Seq(AnyUrl)
    BY PartsAre DEF Inputs, AnyUrl
  <1>2. Offered(in, f) = Dedupe(<<x>> \o <<>> \o c)
    BY DEF Offered, Preferred, Fallback, FallsBack
  <1> HIDE DEF x, c
  <1>3. <<x>> \o <<>> = <<x>>
    BY <1>1
  <1>4. <<x>> \o c \in Seq(AnyUrl) /\ <<x>> \o c # <<>> /\ (<<x>> \o c)[1] = x
    BY <1>1
  <1> DEFINE g == <<x>> \o c
  <1> HIDE DEF g
  <1>5. Dedupe(g) # <<>> /\ Dedupe(g)[1] = x
    BY <1>1, <1>4, FirstStays DEF g
  <1> QED
    BY <1>2, <1>3, <1>5 DEF g, x, c

\* Without a network: the own machine alone.
LEMMA LocalIs ==
    ASSUME NEW in \in Inputs, in.explicit = NoUrl, in.mode = "local", NEW f, Advertised(f)
    PROVE  Offered(in, f) = <<Loopback>>
  <1>1. Detected(in) = <<Loopback>>
    BY DetectedIs, OwnIs
  <1>2. Offered(in, f) = Dedupe(<<>> \o <<>> \o <<Loopback>>)
    BY <1>1 DEF Offered, Preferred, Fallback, FallsBack, Shown
  <1>3. <<>> \o <<>> \o <<Loopback>> = <<Loopback>>
    OBVIOUS
  <1>4. Loopback \in AnyUrl /\ Loopback # NoUrl
    BY Kinds DEF AnyUrl
  <1>5. Dedupe(<<Loopback>>) = <<Loopback>>
    BY <1>4, OneUrl
  <1> QED
    BY <1>2, <1>3, <1>5

\* With Wi-Fi: the address found, after those of before when it is none.
LEMMA WifiIs ==
    ASSUME NEW in \in Inputs, in.explicit = NoUrl, in.mode = "wifi"
    PROVE  \E d \in OwnKinds :
              /\ Detected(in) = <<d>>
              /\ \A f : Advertised(f) =>
                    Offered(in, f) = IF d \in LanUrls THEN <<d>> ELSE KeepOnly(f.urls, LanUrls) \o <<d>>
  <1>1. PICK d \in OwnKinds : Detected(in) = <<d>>
    <2>1. "wifi" # "tailscale"
      OBVIOUS
    <2> QED BY <2>1, DetectedIs, OwnIs
  <1>2. d \in AnyUrl /\ d # NoUrl
    BY Kinds DEF OwnKinds, AnyUrl
  <1>3. /\ <<d>> \in Seq(AnyUrl) /\ Range(<<d>>) = {d} /\ Tidy(<<d>>) /\ Dedupe(<<d>>) = <<d>> /\ <<d>> # <<>>
        /\ KeepOnly(<<d>>, LanUrls) = IF d \in LanUrls THEN <<d>> ELSE <<>>
    BY <1>2, OneUrl
  <1>4. Shown(in) = <<d>> /\ ModeUrls(in.mode) = LanUrls
    BY <1>1 DEF Shown, ModeUrls
  <1>5. FallsBack(in) <=> d \notin LanUrls
    BY <1>3, <1>4 DEF FallsBack
  <1>6. ASSUME NEW f, Advertised(f)
        PROVE  Offered(in, f) = IF d \in LanUrls THEN <<d>> ELSE KeepOnly(f.urls, LanUrls) \o <<d>>
    <2>1. f.urls \in Seq(AnyUrl) /\ Tidy(f.urls)
      BY <1>6 DEF Advertised
    <2>2. Preferred(in, f) = <<>>
      BY DEF Preferred
    <2> DEFINE k == KeepOnly(f.urls, LanUrls)
               e == <<d>>
    <2>3. k \in Seq(AnyUrl) /\ Tidy(k) /\ Range(k) \subseteq LanUrls
      BY <2>1, KeptOnly
    <2>4. CASE d \in LanUrls
      <3>1. Offered(in, f) = Dedupe(<<>> \o <<>> \o <<d>>)
        BY <1>4, <1>5, <2>2, <2>4 DEF Offered, Fallback
      <3>2. <<>> \o <<>> \o <<d>> = <<d>>
        BY <1>2
      <3> QED BY <1>3, <2>4, <3>1, <3>2
    <2>5. CASE d \notin LanUrls
      <3>1. Fallback(in, f) = k
        BY <1>4, <1>5, <1>6, <2>5, PreviousIs DEF Fallback
      <3>2. Offered(in, f) = Dedupe(<<>> \o k \o e)
        BY <1>4, <2>2, <3>1 DEF Offered
      <3>3. e \in Seq(AnyUrl) /\ Range(e) = {d} /\ Tidy(e)
        BY <1>3
      <3> HIDE DEF k, e
      <3>4. <<>> \o k = k
        BY <2>3
      <3>5. k \o e \in Seq(AnyUrl) /\ Tidy(k \o e)
        <4>1. Range(k) \cap Range(e) = {}
          BY <2>3, <2>5, <3>3
        <4>2. Tidy(k \o e)
          BY <2>3, <3>3, <4>1, TidyJoined
        <4> QED BY <2>3, <3>3, <4>2
      <3> DEFINE g == k \o e
      <3> HIDE DEF g
      <3>6. Dedupe(g) = g
        BY <3>5, TidyStays DEF g
      <3> QED BY <2>5, <3>2, <3>4, <3>6 DEF k, e, g
    <2> QED BY <2>4, <2>5
  <1> QED
    BY <1>1, <1>6

\* With Tailscale: the public URLs of before, and then those of Tailscale, the
\* ones found or, failing that, the ones of before.
LEMMA TailscaleIs ==
    ASSUME NEW in \in Inputs, in.explicit = NoUrl, in.mode = "tailscale"
    PROVE  \/ /\ Detected(in) = BothTailnet
              /\ \A f : Advertised(f) => Offered(in, f) = KeepOnly(f.urls, PublicUrls) \o BothTailnet
           \/ /\ \E d \in OwnKinds \ PublicUrls : Detected(in) = <<d>>
              /\ \A f : Advertised(f) =>
                    Offered(in, f) = KeepOnly(f.urls, PublicUrls) \o KeepOnly(f.urls, TailnetUrls)
           \/ \E d \in PublicUrls :
              /\ in.host = d /\ Detected(in) = <<d>>
              /\ \A f : Advertised(f) =>
                    Offered(in, f) = Dedupe(KeepOnly(f.urls, PublicUrls) \o KeepOnly(f.urls, TailnetUrls) \o <<d>>)
  <1>1. \/ \E d \in OwnKinds : Detected(in) = <<d>> /\ (d \in PublicUrls => in.host = d)
        \/ Detected(in) = BothTailnet
    BY DetectedIs, OwnIs
  <1>2. ModeUrls(in.mode) = TailnetUrls
    BY DEF ModeUrls
  <1>3. ASSUME NEW f, Advertised(f)
        PROVE  /\ f.urls \in Seq(AnyUrl) /\ Tidy(f.urls)
               /\ Preferred(in, f) = KeepOnly(f.urls, PublicUrls)
               /\ Previous(in, f) = KeepOnly(f.urls, TailnetUrls)
    <2>1. f.urls \in Seq(AnyUrl) /\ Tidy(f.urls)
      BY <1>3 DEF Advertised
    <2>2. Preferred(in, f) = KeepOnly(f.urls, PublicUrls)
      BY DEF Preferred
    <2>3. Previous(in, f) = KeepOnly(f.urls, TailnetUrls)
      BY <1>2, <1>3, PreviousIs
    <2> QED BY <2>1, <2>2, <2>3
  <1>4. ASSUME NEW f, Advertised(f), NEW T
        PROVE  /\ KeepOnly(f.urls, T) \in Seq(AnyUrl) /\ Tidy(KeepOnly(f.urls, T))
               /\ Range(KeepOnly(f.urls, T)) \subseteq T
    <2>1. f.urls \in Seq(AnyUrl) /\ Tidy(f.urls)
      BY <1>3, <1>4
    <2> QED BY <2>1, KeptOnly
  <1>5. CASE Detected(in) = BothTailnet
    <2>1. BothTailnet \in Seq(AnyUrl) /\ BothTailnet # <<>> /\ Range(BothTailnet) = TailnetUrls /\ Tidy(BothTailnet)
      BY BothTailnetIs
    <2>2. Shown(in) = BothTailnet
      <3>1. KeepOnly(BothTailnet, TailnetUrls \cup PublicUrls) = BothTailnet
        BY <2>1, KeptOnly
      <3> QED BY <1>5, <3>1 DEF Shown
    <2>3. ~ FallsBack(in)
      <3>1. KeepOnly(BothTailnet, TailnetUrls) = BothTailnet
        BY <2>1, KeptOnly
      <3> QED BY <1>2, <2>1, <2>2, <3>1 DEF FallsBack
    <2>4. ASSUME NEW f, Advertised(f) PROVE Offered(in, f) = KeepOnly(f.urls, PublicUrls) \o BothTailnet
      <3> DEFINE p == KeepOnly(f.urls, PublicUrls)
                 b == BothTailnet
      <3>1. p \in Seq(AnyUrl) /\ Tidy(p) /\ Range(p) \subseteq PublicUrls
        BY <1>4, <2>4, Zenon
      <3>2. Offered(in, f) = Dedupe(p \o <<>> \o b)
        BY <1>3, <2>2, <2>3, <2>4 DEF Offered, Fallback
      <3>3. b \in Seq(AnyUrl) /\ Tidy(b) /\ Range(b) = TailnetUrls
        BY <2>1
      <3> HIDE DEF p, b
      <3>4. p \o <<>> = p
        BY <3>1
      <3> DEFINE g == p \o b
      <3>5. g \in Seq(AnyUrl) /\ Tidy(g)
        <4>1. Range(p) \cap Range(b) = {}
          BY <3>1, <3>3, Kinds
        <4> QED BY <3>1, <3>3, <4>1, TidyJoined
      <3> HIDE DEF g
      <3>6. Dedupe(g) = g
        BY <3>5, TidyStays
      <3> QED BY <3>2, <3>4, <3>6 DEF p, b, g
    <2> QED BY <1>5, <2>4
  <1>6. ASSUME NEW d \in OwnKinds, Detected(in) = <<d>>
        PROVE  /\ d \in AnyUrl /\ d # NoUrl /\ FallsBack(in)
               /\ Shown(in) = IF d \in PublicUrls THEN <<d>> ELSE <<>>
    <2>1. d \in AnyUrl /\ d # NoUrl /\ d \notin TailnetUrls
      BY Kinds DEF OwnKinds, AnyUrl
    <2>2. Shown(in) = KeepOnly(<<d>>, TailnetUrls \cup PublicUrls)
      BY <1>6 DEF Shown
    <2>3. Shown(in) = IF d \in PublicUrls THEN <<d>> ELSE <<>>
      BY <2>1, <2>2, OneUrl
    <2>4. KeepOnly(<<d>>, TailnetUrls) = <<>>
      BY <2>1, OneUrl
    <2>5. KeepOnly(<<>>, TailnetUrls) = <<>>
      <3>1. <<>> \in Seq(AnyUrl) /\ Range(<<>>) = {}
        BY DEF Range
      <3> QED BY <3>1, KeptOnly
    <2>6. FallsBack(in)
      <3>1. "tailscale" # "local"
        OBVIOUS
      <3> QED BY <1>2, <2>3, <2>4, <2>5, <3>1 DEF FallsBack
    <2> QED BY <2>1, <2>3, <2>6
  <1>7. ASSUME NEW d \in OwnKinds, Detected(in) = <<d>>, d \in PublicUrls, NEW f, Advertised(f)
        PROVE  Offered(in, f) = Dedupe(KeepOnly(f.urls, PublicUrls) \o KeepOnly(f.urls, TailnetUrls) \o <<d>>)
    <2>1. Shown(in) = <<d>> /\ FallsBack(in)
      BY <1>6, <1>7
    <2> QED BY <1>3, <1>7, <2>1 DEF Offered, Fallback
  <1>8. ASSUME NEW d \in OwnKinds, Detected(in) = <<d>>, d \notin PublicUrls, NEW f, Advertised(f)
        PROVE  Offered(in, f) = KeepOnly(f.urls, PublicUrls) \o KeepOnly(f.urls, TailnetUrls)
    <2> DEFINE p == KeepOnly(f.urls, PublicUrls)
               t == KeepOnly(f.urls, TailnetUrls)
    <2>1. Shown(in) = <<>> /\ FallsBack(in)
      BY <1>6, <1>8
    <2>2. Offered(in, f) = Dedupe(p \o t \o <<>>)
      BY <1>3, <1>8, <2>1 DEF Offered, Fallback
    <2>3. /\ p \in Seq(AnyUrl) /\ Tidy(p) /\ Range(p) \subseteq PublicUrls
          /\ t \in Seq(AnyUrl) /\ Tidy(t) /\ Range(t) \subseteq TailnetUrls
      BY <1>4, <1>8, Zenon
    <2> HIDE DEF p, t
    <2> DEFINE g == p \o t
    <2>4. g \in Seq(AnyUrl) /\ Tidy(g)
      <3>1. Range(p) \cap Range(t) = {}
        BY <2>3, Kinds
      <3> QED BY <2>3, <3>1, TidyJoined
    <2>5. Offered(in, f) = Dedupe(g \o <<>>)
      BY <2>2
    <2> HIDE DEF g
    <2>6. g \o <<>> = g
      BY <2>4
    <2>7. Dedupe(g) = g
      BY <2>4, TidyStays
    <2> QED BY <2>5, <2>6, <2>7 DEF p, t, g
  <1>9. ASSUME NEW d \in OwnKinds, Detected(in) = <<d>>, d \in PublicUrls => in.host = d
        PROVE  \/ /\ \E x \in OwnKinds \ PublicUrls : Detected(in) = <<x>>
                  /\ \A f : Advertised(f) =>
                        Offered(in, f) = KeepOnly(f.urls, PublicUrls) \o KeepOnly(f.urls, TailnetUrls)
               \/ \E x \in PublicUrls :
                  /\ in.host = x /\ Detected(in) = <<x>>
                  /\ \A f : Advertised(f) =>
                        Offered(in, f) = Dedupe(KeepOnly(f.urls, PublicUrls) \o KeepOnly(f.urls, TailnetUrls) \o <<x>>)
    <2>1. CASE d \in PublicUrls
      <3>1. \A f : Advertised(f) =>
               Offered(in, f) = Dedupe(KeepOnly(f.urls, PublicUrls) \o KeepOnly(f.urls, TailnetUrls) \o <<d>>)
        BY <1>7, <1>9, <2>1
      <3> QED BY <1>9, <2>1, <3>1
    <2>2. CASE d \notin PublicUrls
      <3>1. \A f : Advertised(f) => Offered(in, f) = KeepOnly(f.urls, PublicUrls) \o KeepOnly(f.urls, TailnetUrls)
        BY <1>8, <1>9, <2>2
      <3> QED BY <1>9, <2>2, <3>1
    <2> QED BY <2>1, <2>2
  <1> QED
    BY <1>1, <1>5, <1>9

\* What a start writes.
LEMMA ReadvertisedIs ==
    ASSUME NEW in \in Inputs, NEW f, Advertised(f), NEW s, s = Readvertised(in, f)
    PROVE  /\ Advertised(s)
           /\ \/ NextUrls(in, f) = <<>> /\ s = f /\ Offered(in, f) = <<>> /\ f.url = NoUrl
              \/ /\ NextUrls(in, f) # <<>> /\ s.urls = NextUrls(in, f) /\ s.url = s.urls[1]
                 /\ s = [url |-> s.urls[1], urls |-> s.urls]
                 /\ s.urls = IF Offered(in, f) = <<>> THEN <<f.url>> ELSE Offered(in, f)
  <1> DEFINE n == NextUrls(in, f)
             o == Offered(in, f)
  <1>1. f.url \in AnyUrl
    BY DEF Advertised
  <1>2. f.url # NoUrl => Tidy(<<f.url>>) /\ Dedupe(<<f.url>>) = <<f.url>> /\ <<f.url>> \in Seq(AnyUrl) /\ <<f.url>> # <<>>
    BY <1>1, OneUrl
  <1>3. f.url = NoUrl => Dedupe(<<f.url>>) = <<>>
    BY <1>1, OneUrl
  <1>4. o \in Seq(AnyUrl) /\ Tidy(o) /\ n = IF o = <<>> THEN Dedupe(<<f.url>>) ELSE o
    BY PartsAre
  <1>5. s = IF n = <<>> THEN f ELSE [url |-> Head(n), urls |-> n]
    BY DEF Readvertised
  <1> HIDE DEF n, o
  <1>6. CASE n = <<>>
    <2>1. s = f /\ o = <<>> /\ f.url = NoUrl
      BY <1>2, <1>4, <1>5, <1>6
    <2> QED BY <1>6, <2>1 DEF n, o
  <1>7. CASE n # <<>>
    <2>1. n = (IF o = <<>> THEN <<f.url>> ELSE o) /\ n \in Seq(AnyUrl) /\ Tidy(n)
      BY <1>2, <1>3, <1>4, <1>7
    <2>2. s = [url |-> n[1], urls |-> n] /\ n[1] \in AnyUrl
      BY <1>5, <1>7, <2>1
    <2>3. s.urls = n /\ s.url = n[1] /\ s \in [url : AnyUrl, urls : Seq(AnyUrl)]
      BY <2>1, <2>2
    <2>4. Advertised(s)
      BY <1>7, <2>1, <2>3 DEF Advertised
    <2> QED BY <1>7, <2>1, <2>2, <2>3, <2>4 DEF n, o
  <1> QED
    BY <1>6, <1>7

\* One of two lists is kept, when it is the one of the kind.
LEMMA KeptOfJoin ==
    ASSUME NEW S, NEW a \in Seq(S), NEW b \in Seq(S), NEW T
    PROVE  /\ Range(a) \subseteq T /\ Range(b) \cap T = {} => KeepOnly(a \o b, T) = a
           /\ Range(a) \cap T = {} /\ Range(b) \subseteq T => KeepOnly(a \o b, T) = b
  <1> DEFINE ka == KeepOnly(a, T)
             kb == KeepOnly(b, T)
  <1>1. KeepOnly(a \o b, T) = ka \o kb
    BY KeptJoined
  <1>2. /\ Range(a) \subseteq T => ka = a
        /\ Range(a) \cap T = {} => ka = <<>>
        /\ Range(b) \subseteq T => kb = b
        /\ Range(b) \cap T = {} => kb = <<>>
    BY KeptOnly
  <1>3. a \o <<>> = a /\ <<>> \o b = b
    OBVIOUS
  <1> HIDE DEF ka, kb
  <1> QED
    BY <1>1, <1>2, <1>3

\* A restart in the same surroundings writes what it wrote.
LEMMA StartAgain ==
    ASSUME NEW in \in Inputs, in.mode = "tailscale" => in.host \notin PublicUrls,
           NEW f, Advertised(f), NEW s, s = Readvertised(in, f)
    PROVE  Readvertised(in, s) = s
  <1>1. /\ Advertised(s)
        /\ \/ NextUrls(in, f) = <<>> /\ s = f
           \/ /\ NextUrls(in, f) # <<>>
              /\ s = [url |-> s.urls[1], urls |-> s.urls] /\ s.url = s.urls[1] /\ s.urls # <<>>
              /\ s.urls = IF Offered(in, f) = <<>> THEN <<f.url>> ELSE Offered(in, f)
    BY ReadvertisedIs
  <1>2. CASE NextUrls(in, f) = <<>> /\ s = f
    BY <1>2 DEF Readvertised
  <1>3. CASE /\ s = [url |-> s.urls[1], urls |-> s.urls] /\ s.url = s.urls[1] /\ s.urls # <<>>
             /\ s.urls = IF Offered(in, f) = <<>> THEN <<f.url>> ELSE Offered(in, f)
    <2> SUFFICES NextUrls(in, s) = s.urls
      <3>1. s.urls \in Seq(AnyUrl)
        BY <1>1 DEF Advertised
      <3>2. Head(s.urls) = s.urls[1]
        BY <1>3, <3>1
      <3> QED BY <1>3, <3>2 DEF Readvertised
    <2>1. NextUrls(in, s) = IF Offered(in, s) = <<>> THEN Dedupe(<<s.url>>) ELSE Offered(in, s)
      BY <1>1, PartsAre
    <2>2. /\ f.urls \in Seq(AnyUrl) /\ f.url \in AnyUrl
          /\ f.urls = <<>> => f.url = NoUrl
          /\ f.urls # <<>> => f.url = f.urls[1]
      BY DEF Advertised
    <2>3. s.urls \in Seq(AnyUrl) /\ Tidy(s.urls) /\ s.url \in AnyUrl
      BY <1>1 DEF Advertised
    <2>4. ASSUME NEW T
          PROVE  KeepOnly(f.urls, T) \in Seq(AnyUrl) /\ Range(KeepOnly(f.urls, T)) = Range(f.urls) \cap T
      BY <2>2, KeptOnly
    <2> DEFINE p == KeepOnly(f.urls, PublicUrls)
               t == KeepOnly(f.urls, TailnetUrls)
               k == KeepOnly(f.urls, LanUrls)
    <2>5. /\ p \in Seq(AnyUrl) /\ Range(p) = Range(f.urls) \cap PublicUrls
          /\ t \in Seq(AnyUrl) /\ Range(t) = Range(f.urls) \cap TailnetUrls
          /\ k \in Seq(AnyUrl) /\ Range(k) = Range(f.urls) \cap LanUrls
      BY <2>4
    <2>6. ASSUME in.explicit = NoUrl, in.mode = "tailscale"
          PROVE  \/ /\ Offered(in, f) = p \o BothTailnet
                    /\ Offered(in, s) = KeepOnly(s.urls, PublicUrls) \o BothTailnet
                 \/ /\ Offered(in, f) = p \o t
                    /\ Offered(in, s) = KeepOnly(s.urls, PublicUrls) \o KeepOnly(s.urls, TailnetUrls)
      BY <1>1, <2>6, TailscaleIs
    <2>7. BothTailnet \in Seq(AnyUrl) /\ BothTailnet # <<>> /\ Range(BothTailnet) = TailnetUrls
      BY BothTailnetIs
    <2> HIDE DEF p, t, k
    <2>8. ASSUME in.explicit = NoUrl, in.mode = "wifi"
          PROVE  \E d \in OwnKinds :
                    /\ Offered(in, f) = IF d \in LanUrls THEN <<d>> ELSE k \o <<d>>
                    /\ Offered(in, s) = IF d \in LanUrls THEN <<d>> ELSE KeepOnly(s.urls, LanUrls) \o <<d>>
      BY <1>1, <2>8, WifiIs DEF k
    <2>9. in.mode \in {"tailscale", "wifi", "local"}
      BY DEF Inputs
    <2>10. CASE in.explicit # NoUrl
      <3>1. Offered(in, s) = Offered(in, f) /\ Offered(in, f) # <<>>
        BY <1>1, <2>10, ExplicitIs
      <3> QED BY <1>3, <2>1, <3>1
    <2>11. CASE in.explicit = NoUrl /\ in.mode = "local"
      <3>1. Offered(in, s) = <<Loopback>> /\ Offered(in, f) = <<Loopback>>
        BY <1>1, <2>11, LocalIs
      <3> QED BY <1>3, <2>1, <3>1
    <2>12. CASE in.explicit = NoUrl /\ in.mode = "wifi"
      <3>1. PICK d \in OwnKinds :
                    /\ Offered(in, f) = IF d \in LanUrls THEN <<d>> ELSE k \o <<d>>
                    /\ Offered(in, s) = IF d \in LanUrls THEN <<d>> ELSE KeepOnly(s.urls, LanUrls) \o <<d>>
        BY <2>8, <2>12
      <3>2. CASE d \in LanUrls
        <4>1. Offered(in, f) = <<d>> /\ Offered(in, s) = <<d>> /\ <<d>> # <<>>
          BY <3>1, <3>2
        <4> QED BY <1>3, <2>1, <4>1
      <3>3. CASE d \notin LanUrls
        <4> DEFINE e == <<d>>
        <4>1. d \in AnyUrl
          BY DEF OwnKinds, AnyUrl
        <4>2. e \in Seq(AnyUrl) /\ Range(e) = {d} /\ e # <<>>
          BY <4>1, OneUrl
        <4>3. Offered(in, f) = k \o e /\ Offered(in, s) = KeepOnly(s.urls, LanUrls) \o e
          BY <3>1, <3>3
        <4> HIDE DEF e
        <4>4. k \o e # <<>>
          BY <2>5, <4>2, TwoLists
        <4>5. KeepOnly(k \o e, LanUrls) = k
          BY <2>5, <3>3, <4>2, KeptOfJoin
        <4>6. s.urls = k \o e
          BY <1>3, <4>3, <4>4
        <4>7. Offered(in, s) = k \o e
          BY <4>3, <4>5, <4>6
        <4> QED BY <2>1, <4>4, <4>6, <4>7
      <3> QED BY <3>2, <3>3
    <2>13. CASE in.explicit = NoUrl /\ in.mode = "tailscale"
      <3> DEFINE b == BothTailnet
      <3>1. b \in Seq(AnyUrl) /\ b # <<>> /\ Range(b) = TailnetUrls
        BY <2>7
      <3>2. \/ Offered(in, f) = p \o b /\ Offered(in, s) = KeepOnly(s.urls, PublicUrls) \o b
            \/ /\ Offered(in, f) = p \o t
               /\ Offered(in, s) = KeepOnly(s.urls, PublicUrls) \o KeepOnly(s.urls, TailnetUrls)
        BY <2>6, <2>13
      <3> HIDE DEF b
      <3>3. CASE Offered(in, f) = p \o b /\ Offered(in, s) = KeepOnly(s.urls, PublicUrls) \o b
        <4>4. p \o b # <<>>
          BY <2>5, <3>1, TwoLists
        <4>5. KeepOnly(p \o b, PublicUrls) = p
          <5>1. Range(p) \subseteq PublicUrls /\ Range(b) \cap PublicUrls = {}
            BY <2>5, <3>1, Kinds
          <5> QED BY <2>5, <3>1, <5>1, KeptOfJoin
        <4>6. s.urls = p \o b
          BY <1>3, <3>3, <4>4
        <4>7. Offered(in, s) = p \o b
          BY <3>3, <4>5, <4>6
        <4> QED BY <2>1, <4>4, <4>6, <4>7
      <3>4. CASE /\ Offered(in, f) = p \o t
                 /\ Offered(in, s) = KeepOnly(s.urls, PublicUrls) \o KeepOnly(s.urls, TailnetUrls)
        <4>1. CASE p \o t # <<>>
          <5>1. /\ Range(p) \subseteq PublicUrls /\ Range(t) \cap PublicUrls = {}
                /\ Range(p) \cap TailnetUrls = {} /\ Range(t) \subseteq TailnetUrls
            BY <2>5, Kinds
          <5>2. KeepOnly(p \o t, PublicUrls) = p /\ KeepOnly(p \o t, TailnetUrls) = t
            BY <2>5, <5>1, KeptOfJoin
          <5>3. s.urls = p \o t
            BY <1>3, <3>4, <4>1
          <5>4. Offered(in, s) = p \o t
            BY <3>4, <5>2, <5>3
          <5> QED BY <2>1, <4>1, <5>3, <5>4
        <4>2. CASE p \o t = <<>>
          <5>1. p = <<>> /\ t = <<>>
            BY <2>5, <4>2, TwoLists
          <5>2. s.urls = <<f.url>> /\ s.url = f.url
            <6>1. s.urls = <<f.url>>
              BY <1>3, <3>4, <4>2
            <6>2. <<f.url>>[1] = f.url
              OBVIOUS
            <6> QED BY <1>3, <6>1, <6>2
          <5>3. f.url # NoUrl
            <6>1. NoUrl \notin Range(<<f.url>>)
              BY <2>3, <5>2 DEF Tidy
            <6> QED BY <2>2, <6>1, OneUrl
          <5>4. f.url \in Range(f.urls)
            <6>1. f.urls # <<>> /\ f.url = f.urls[1]
              BY <2>2, <5>3
            <6>2. 1 \in DOMAIN f.urls
              BY <2>2, <6>1
            <6> QED BY <6>1, <6>2 DEF Range
          <5>5. Range(<<>>) = {}
            BY DEF Range
          <5>6. f.url \notin PublicUrls /\ f.url \notin TailnetUrls
            BY <2>5, <5>1, <5>4, <5>5
          <5>7. KeepOnly(s.urls, PublicUrls) = <<>> /\ KeepOnly(s.urls, TailnetUrls) = <<>>
            BY <2>2, <5>2, <5>6, OneUrl
          <5>8. <<>> \o <<>> = <<>>
            OBVIOUS
          <5>9. Offered(in, s) = <<>>
            BY <3>4, <5>7, <5>8
          <5>10. Dedupe(<<s.url>>) = <<s.url>>
            BY <2>2, <5>2, <5>3, OneUrl
          <5> QED BY <2>1, <5>2, <5>9, <5>10
        <4> QED BY <4>1, <4>2
      <3> QED BY <3>2, <3>3, <3>4
    <2> QED BY <2>9, <2>10, <2>11, <2>12, <2>13
  <1> QED
    BY <1>1, <1>2, <1>3

\* While nothing of the mode is found, what phones know of it stays.
LEMMA KnownStay ==
    ASSUME NEW in \in Inputs, in.explicit = NoUrl, Range(Detected(in)) \cap ModeUrls(in.mode) = {},
           NEW f, Advertised(f), NEW s, s = Readvertised(in, f)
    PROVE  Range(f.urls) \cap ModeUrls(in.mode) \subseteq Range(s.urls)
  <1> DEFINE T == ModeUrls(in.mode)
  <1>1. \/ s = f
        \/ s.urls = IF Offered(in, f) = <<>> THEN <<f.url>> ELSE Offered(in, f)
    BY ReadvertisedIs
  <1>2. CASE in.mode = "local"
    BY <1>2 DEF ModeUrls
  <1>3. CASE in.mode # "local"
    <2>1. Detected(in) \in Seq(AnyUrl) /\ f.urls \in Seq(AnyUrl)
      BY DetectedIs DEF Advertised
    <2>2. Shown(in) \in Seq(AnyUrl) /\ Range(Shown(in)) \subseteq Range(Detected(in))
      <3>1. KeepOnly(Detected(in), TailnetUrls \cup PublicUrls) \in Seq(AnyUrl)
            /\ Range(KeepOnly(Detected(in), TailnetUrls \cup PublicUrls)) = Range(Detected(in)) \cap (TailnetUrls \cup PublicUrls)
        BY <2>1, KeptOnly
      <3> QED BY <2>1, <3>1 DEF Shown
    <2>3. KeepOnly(Shown(in), T) = <<>>
      <3>1. Range(Shown(in)) \cap T = {}
        BY <2>2
      <3> HIDE DEF T
      <3> QED BY <2>2, <3>1, KeptOnly
    <2>4. Fallback(in, f) = KeepOnly(f.urls, T)
      BY <1>3, <2>3, PreviousIs DEF Fallback, FallsBack
    <2>5. Range(Fallback(in, f)) = Range(f.urls) \cap T
      <3> HIDE DEF T
      <3> QED BY <2>1, <2>4, KeptOnly
    <2>6. NoUrl \notin T
      BY Kinds DEF ModeUrls, Inputs
    <2>7. Range(Fallback(in, f)) \ {NoUrl} \subseteq Range(Offered(in, f))
      BY PartsAre
    <2>8. Range(f.urls) \cap T \subseteq Range(Offered(in, f))
      BY <2>5, <2>6, <2>7
    <2>9. Offered(in, f) = <<>> => Range(f.urls) \cap T = {}
      <3>1. Range(<<>>) = {}
        BY DEF Range
      <3> QED BY <2>8, <3>1
    <2> QED BY <1>1, <2>8, <2>9
  <1> QED
    BY <1>2, <1>3

\* What comes first.
LEMMA FirstSuits ==
    ASSUME NEW in \in Inputs, NEW f, Advertised(f), NEW s, s = Readvertised(in, f), s # NothingAdvertised
    PROVE  \/ s.url \in ModeUrls(in.mode) \cup {in.explicit}
           \/ in.mode = "local" /\ in.explicit = NoUrl /\ s.urls = <<Loopback>>
           \/ in.mode = "tailscale" /\ s.url \in PublicUrls
           \/ Range(Detected(in) \o f.urls) \cap ModeUrls(in.mode) = {}
  <1> DEFINE o == Offered(in, f)
             p == KeepOnly(f.urls, PublicUrls)
             t == KeepOnly(f.urls, TailnetUrls)
             k == KeepOnly(f.urls, LanUrls)
             det == Detected(in)
  <1>1. /\ f \in [url : AnyUrl, urls : Seq(AnyUrl)] /\ f.urls \in Seq(AnyUrl)
        /\ f.urls = <<>> => f.url = NoUrl
        /\ f.urls # <<>> => f.url = f.urls[1]
        /\ NoUrl \notin Range(f.urls)
    BY DEF Advertised, Tidy
  <1>2. /\ s.url = s.urls[1]
        /\ s.urls = IF o = <<>> THEN <<f.url>> ELSE o
    <2>1. CASE s = f /\ f.url = NoUrl
      <3>1. f.urls = <<>>
        <4> SUFFICES ASSUME f.urls # <<>> PROVE FALSE
          OBVIOUS
        <4>1. 1 \in DOMAIN f.urls /\ f.urls[1] = NoUrl
          BY <1>1, <2>1
        <4> QED BY <1>1, <4>1 DEF Range
      <3>2. f = [url |-> f.url, urls |-> f.urls]
        BY <1>1
      <3> QED BY <2>1, <3>1, <3>2 DEF NothingAdvertised
    <2> QED BY <2>1, ReadvertisedIs
  <1>3. in.mode \in {"tailscale", "wifi", "local"}
    BY DEF Inputs
  <1>4. /\ p \in Seq(AnyUrl) /\ Range(p) = Range(f.urls) \cap PublicUrls
        /\ t \in Seq(AnyUrl) /\ Range(t) = Range(f.urls) \cap TailnetUrls
        /\ k \in Seq(AnyUrl) /\ Range(k) = Range(f.urls) \cap LanUrls
    BY <1>1, KeptOnly
  <1>5. det \in Seq(AnyUrl)
    BY DetectedIs
  <1>6. Range(det \o f.urls) = Range(det) \cup Range(f.urls)
    <2> HIDE DEF det
    <2> QED BY <1>1, <1>5, TwoLists
  <1>7. Range(<<>>) = {}
    BY DEF Range
  <1>8. ASSUME NEW l \in Seq(AnyUrl), l # <<>> PROVE l[1] \in Range(l)
    <2>1. 1 \in DOMAIN l
      BY <1>8
    <2> QED BY <2>1 DEF Range
  <1>9. CASE in.explicit # NoUrl
    <2>1. o # <<>> /\ o[1] = in.explicit
      BY <1>9, ExplicitIs
    <2> QED BY <1>2, <2>1
  <1>10. CASE in.explicit = NoUrl /\ in.mode = "local"
    <2>1. o = <<Loopback>>
      BY <1>10, LocalIs
    <2> QED BY <1>2, <1>10, <2>1
  <1>11. CASE in.explicit = NoUrl /\ in.mode = "wifi"
    <2>1. PICK d \in OwnKinds : det = <<d>> /\ o = IF d \in LanUrls THEN <<d>> ELSE k \o <<d>>
      BY <1>11, WifiIs
    <2>2. ModeUrls(in.mode) = LanUrls
      BY <1>11 DEF ModeUrls
    <2>3. d \in AnyUrl /\ Range(<<d>>) = {d} /\ <<d>> \in Seq(AnyUrl) /\ <<d>> # <<>> /\ <<d>>[1] = d
      <3>1. d \in AnyUrl
        BY DEF OwnKinds, AnyUrl
      <3> QED BY <3>1, OneUrl
    <2> DEFINE e == <<d>>
    <2>4. e \in Seq(AnyUrl) /\ e # <<>> /\ e[1] = d /\ Range(e) = {d} /\ det = e
          /\ o = IF d \in LanUrls THEN e ELSE k \o e
      BY <2>1, <2>3
    <2> HIDE DEF e, k, o, det
    <2>5. CASE d \in LanUrls
      <3>1. s.url = d
        BY <1>2, <2>4, <2>5
      <3> QED BY <2>2, <2>5, <3>1
    <2>6. CASE d \notin LanUrls /\ k # <<>>
      <3>1. k \o e # <<>> /\ (k \o e)[1] = k[1]
        BY <1>4, <2>4, <2>6, TwoLists
      <3>2. k[1] \in LanUrls
        BY <1>4, <1>8, <2>6
      <3>3. s.url = k[1]
        BY <1>2, <2>4, <2>6, <3>1
      <3> QED BY <2>2, <3>2, <3>3
    <2>7. CASE d \notin LanUrls /\ k = <<>>
      <3>1. Range(f.urls) \cap LanUrls = {}
        BY <1>4, <1>7, <2>7
      <3>2. Range(det \o f.urls) \cap ModeUrls(in.mode) = {}
        BY <1>6, <2>2, <2>4, <2>7, <3>1
      <3> QED BY <3>2 DEF det
    <2> QED BY <2>5, <2>6, <2>7
  <1>12. CASE in.explicit = NoUrl /\ in.mode = "tailscale"
    <2>1. ModeUrls(in.mode) = TailnetUrls
      BY <1>12 DEF ModeUrls
    <2>2. BothTailnet \in Seq(AnyUrl) /\ BothTailnet # <<>> /\ Range(BothTailnet) = TailnetUrls
      BY BothTailnetIs
    <2> DEFINE b == BothTailnet
    <2>3. b \in Seq(AnyUrl) /\ b # <<>> /\ Range(b) = TailnetUrls
      BY <2>2
    <2>4. \/ o = p \o b
          \/ /\ \E d \in OwnKinds \ PublicUrls : det = <<d>>
             /\ o = p \o t
          \/ \E d \in PublicUrls : o = Dedupe(p \o t \o <<d>>)
      BY <1>12, TailscaleIs
    <2>5. ASSUME NEW l \in Seq(AnyUrl), p # <<>>
          PROVE  p \o l # <<>> /\ (p \o l)[1] \in PublicUrls
      <3> HIDE DEF p
      <3>1. p[1] \in PublicUrls
        BY <1>4, <1>8, <2>5
      <3> QED BY <1>4, <2>5, <3>1, TwoLists
    <2> HIDE DEF b, p, t, o, det
    <2>6. CASE o = p \o b
      <3>1. CASE p # <<>>
        <4>1. o # <<>> /\ o[1] \in PublicUrls
          BY <2>3, <2>5, <2>6, <3>1
        <4> QED BY <1>2, <1>12, <4>1
      <3>2. CASE p = <<>>
        <4>1. o = b
          BY <1>4, <2>3, <2>6, <3>2, TwoLists
        <4>2. b[1] \in TailnetUrls
          BY <1>8, <2>3
        <4> QED BY <1>2, <2>1, <2>3, <4>1, <4>2
      <3> QED BY <3>1, <3>2
    <2>7. CASE o = p \o t /\ \E d \in OwnKinds \ PublicUrls : det = <<d>>
      <3>1. CASE p # <<>>
        <4>1. o # <<>> /\ o[1] \in PublicUrls
          BY <1>4, <2>5, <2>7, <3>1
        <4> QED BY <1>2, <1>12, <4>1
      <3>2. CASE p = <<>> /\ t # <<>>
        <4>1. o = t
          BY <1>4, <2>7, <3>2, TwoLists
        <4>2. t[1] \in TailnetUrls
          BY <1>4, <1>8, <3>2
        <4> QED BY <1>2, <2>1, <3>2, <4>1, <4>2
      <3>3. CASE t = <<>>
        <4>1. Range(f.urls) \cap TailnetUrls = {}
          BY <1>4, <1>7, <3>3
        <4>2. PICK d \in OwnKinds : det = <<d>>
          BY <2>7
        <4>3. d \notin TailnetUrls /\ d \in AnyUrl
          BY Kinds DEF OwnKinds, AnyUrl
        <4>4. Range(det) = {d}
          BY <4>2, <4>3, OneUrl
        <4>5. Range(det \o f.urls) \cap ModeUrls(in.mode) = {}
          BY <1>6, <2>1, <4>1, <4>3, <4>4
        <4> QED BY <4>5 DEF det
      <3> QED BY <3>1, <3>2, <3>3
    <2>8. ASSUME NEW d \in PublicUrls, o = Dedupe(p \o t \o <<d>>)
          PROVE  s.url \in TailnetUrls \/ s.url \in PublicUrls
      <3> DEFINE e == <<d>>
                 g == p \o t
                 h == g \o e
      <3>1. e \in Seq(AnyUrl) /\ Range(e) = {d} /\ e # <<>>
        <4>1. d \in AnyUrl
          BY DEF AnyUrl
        <4> QED BY <4>1, OneUrl
      <3>2. g \in Seq(AnyUrl) /\ Range(g) = Range(p) \cup Range(t)
        BY <1>4, TwoLists
      <3> HIDE DEF e, g
      <3>3. h \in Seq(AnyUrl) /\ Range(h) = Range(g) \cup Range(e) /\ h # <<>>
        BY <3>1, <3>2, TwoLists
      <3>4. o = Dedupe(h)
        BY <2>8 DEF g, e
      <3> HIDE DEF h
      <3>5. Range(h) \subseteq TailnetUrls \cup PublicUrls
        BY <1>4, <3>1, <3>2, <3>3
      <3>6. h[1] \in TailnetUrls \cup PublicUrls
        BY <1>8, <3>3, <3>5
      <3>7. h[1] # NoUrl
        BY <3>6, Kinds
      <3>8. o # <<>> /\ o[1] = h[1]
        BY <3>3, <3>4, <3>7, FirstStays
      <3> QED BY <1>2, <3>6, <3>8
    <2>9. CASE \E d \in PublicUrls : o = Dedupe(p \o t \o <<d>>)
      BY <1>12, <2>1, <2>8, <2>9
    <2> QED BY <2>4, <2>6, <2>7, <2>9
  <1> QED
    BY <1>3, <1>9, <1>10, <1>11, <1>12

\* The invariant: every start wrote what the algorithm says for its inputs
\* and for what the file held.
UrlInv ==
    /\ Advertised(server) /\ Advertised(before)
    /\ asked \in Inputs
    /\ starts \in Nat
    /\ starts > 0 => server = Readvertised(asked, before)

\* UrlsAreSteady holds through any sequence of starts and installations: a URL
\* of the mode comes first, known ones stay, and a restart changes nothing.
THEOREM UrlsStaySteady == UrlsSpec => []UrlsAreSteady
  <1>0. Advertised(NothingAdvertised)
    <2>1. <<>> \in Seq(AnyUrl) /\ NoUrl \in AnyUrl /\ DOMAIN <<>> = {}
      BY DEF AnyUrl
    <2> QED BY <2>1 DEF Advertised, NothingAdvertised, Tidy, Distinct, Range
  <1>1. UrlsInit => UrlInv
    <2> SUFFICES ASSUME UrlsInit PROVE UrlInv
      OBVIOUS
    <2>1. asked \in Inputs
      BY DEF UrlsInit, Inputs
    <2> QED BY <1>0, <2>1 DEF UrlsInit, UrlInv
  <1>2. UrlInv /\ [UrlsNext]_urlVars => UrlInv'
    <2> SUFFICES ASSUME UrlInv, [UrlsNext]_urlVars PROVE UrlInv'
      OBVIOUS
    <2>1. ASSUME NEW in \in Inputs, NEW old, Advertised(old), Refresh(in, old) PROVE UrlInv'
      <3>1. starts' = starts + 1 /\ asked' = in /\ before' = old /\ server' = Readvertised(in, old)
        BY <2>1 DEF Refresh
      <3>2. Advertised(Readvertised(in, old))
        BY <2>1, ReadvertisedIs
      <3> QED BY <2>1, <3>1, <3>2 DEF UrlInv
    <2>2. CASE Start
      BY <2>1, <2>2 DEF Start, UrlInv
    <2>3. CASE Install
      BY <1>0, <2>1, <2>3 DEF Install
    <2>4. CASE UNCHANGED urlVars
      BY <2>4 DEF UrlInv, urlVars
    <2> QED BY <2>2, <2>3, <2>4 DEF UrlsNext
  <1>3. UrlInv => UrlsAreSteady
    <2> SUFFICES ASSUME UrlInv, starts > 0 PROVE UrlsAreSteady
      BY DEF UrlsAreSteady, FirstUrlSuitsMode, KnownUrlsSurvive, RestartIsStable
    <2>1. Advertised(server) /\ Advertised(before) /\ asked \in Inputs /\ server = Readvertised(asked, before)
      BY DEF UrlInv
    <2>2. FirstUrlSuitsMode
      BY <2>1, FirstSuits DEF FirstUrlSuitsMode
    <2>3. KnownUrlsSurvive
      BY <2>1, KnownStay DEF KnownUrlsSurvive
    <2>4. RestartIsStable
      BY <2>1, StartAgain DEF RestartIsStable
    <2> QED BY <2>2, <2>3, <2>4 DEF UrlsAreSteady
  <1> QED
    BY <1>1, <1>2, <1>3, PTL DEF UrlsSpec


=============================================================================
