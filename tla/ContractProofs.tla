--------------------------- MODULE ContractProofs ---------------------------
(* Whatever raises and whenever the backend dies: an end is announced       *)
(* before it is recorded, is final, and the database keeps RunContract.     *)
EXTENDS RunProofs, StorageInvariant

---------------------------------------------------------------------------
(* Event logs and scripts.                                                 *)

\* An event is in a log that grows by e if it was there, or if it is e.
LEMMA AppendedEvent ==
  ASSUME NEW es \in Seq(Event), NEW e \in Event, NEW t
  PROVE  HasEvent(Append(es, e), t) <=> HasEvent(es, t) \/ e.type = t
  <1>1. /\ Len(es) \in Nat
        /\ Len(Append(es, e)) = Len(es) + 1
        /\ \A i \in 1 .. Len(es) : Append(es, e)[i] = es[i]
        /\ Append(es, e)[Len(es) + 1] = e
    BY LenProperties
  <1>2. \A i \in 1 .. Len(es) + 1 : i \in 1 .. Len(es) \/ i = Len(es) + 1
    BY <1>1
  <1>3. Len(es) + 1 \in 1 .. Len(es) + 1 /\ \A i \in 1 .. Len(es) : i \in 1 .. Len(es) + 1
    BY <1>1
  <1> QED
    BY <1>1, <1>2, <1>3 DEF HasEvent

\* The last event of a log is in it.
LEMMA LastEvent ==
  ASSUME NEW es \in Seq(Event), es # <<>>
  PROVE  es[Len(es)] \in Event /\ HasEvent(es, es[Len(es)].type)
  BY EmptySeq, ElementOfSeq, LenProperties DEF HasEvent

\* What is left of a script when its first call has been made.
LEMMA TailOps ==
  ASSUME NEW s \in Seq(Op), s # <<>>
  PROVE  /\ Len(s) \in Nat \ {0}
         /\ Tail(s) \in Seq(Op)
         /\ Len(Tail(s)) = Len(s) - 1
         /\ \A i \in 1 .. Len(s) - 1 : Tail(s)[i] = s[i + 1]
  BY EmptySeq, HeadTailProperties

\* A call is replaced by the writes it turns into.
LEMMA PrependOps ==
  ASSUME NEW u \in Seq(Op)
  PROVE  /\ \A o \in Op : /\ Len(<<o>> \o u) = Len(u) + 1
                          /\ (<<o>> \o u)[1] = o
                          /\ \A i \in 1 .. Len(u) : (<<o>> \o u)[i + 1] = u[i]
         /\ \A a, b \in Op : /\ Len(<<a, b>> \o u) = Len(u) + 2
                             /\ (<<a, b>> \o u)[1] = a
                             /\ (<<a, b>> \o u)[2] = b
                             /\ \A i \in 1 .. Len(u) : (<<a, b>> \o u)[i + 2] = u[i]
  <1>1. Len(u) \in Nat
    BY LenProperties
  <1>2. ASSUME NEW o \in Op
        PROVE  /\ Len(<<o>> \o u) = Len(u) + 1
               /\ (<<o>> \o u)[1] = o
               /\ \A i \in 1 .. Len(u) : (<<o>> \o u)[i + 1] = u[i]
    <2>1. <<o>> \in Seq(Op) /\ Len(<<o>>) = 1 /\ <<o>>[1] = o
      BY Tuples
    <2>2. \A i \in 1 .. 1 + Len(u) : (<<o>> \o u)[i] = IF i <= 1 THEN <<o>>[i] ELSE u[i - 1]
      BY <2>1, ConcatProperties
    <2> QED BY <1>1, <2>1, <2>2, ConcatProperties
  <1>3. ASSUME NEW a \in Op, NEW b \in Op
        PROVE  /\ Len(<<a, b>> \o u) = Len(u) + 2
               /\ (<<a, b>> \o u)[1] = a
               /\ (<<a, b>> \o u)[2] = b
               /\ \A i \in 1 .. Len(u) : (<<a, b>> \o u)[i + 2] = u[i]
    <2>1. <<a, b>> \in Seq(Op) /\ Len(<<a, b>>) = 2 /\ <<a, b>>[1] = a /\ <<a, b>>[2] = b
      BY Tuples
    <2>2. \A i \in 1 .. 2 + Len(u) : (<<a, b>> \o u)[i] = IF i <= 2 THEN <<a, b>>[i] ELSE u[i - 2]
      BY <2>1, ConcatProperties
    <2> QED BY <1>1, <2>1, <2>2, ConcatProperties
  <1> QED
    BY <1>2, <1>3

\* The writes that a call under the lock turns into are calls themselves.
LEMMA WriteCalls ==
  /\ \A do \in Writes \cup {"copy"} : Call(do) \in Op /\ Call(do).do = do
  /\ MetaWrites = <<Call("upsert"), Call("session")>>
  /\ StatusWrites = <<Call("update_row"), Call("session")>>
  BY RecordTypes DEF Call, Op, Writes, Calls, EventTypes, MetaWrites, StatusWrites

\* What a thread is in the middle of, by the step it makes next.
LEMMA StepShape ==
  ASSUME ThreadsOK, NEW p \in Procs, ScriptInTurn(p)
  PROVE  /\ Next0(p, "put") =>
              /\ p \notin holder /\ p[1] = "handler"
              /\ Shape(todo[p], <<"put", "copy", "upsert", "copy", "session">>)
         /\ Next0(p, "copy") =>
              /\ p \notin holder /\ p[1] = "handler"
              /\ \/ Shape(todo[p], <<"copy", "upsert", "copy", "session">>)
                 \/ Shape(todo[p], <<"copy", "session">>)
         /\ \A do \in PlainCalls : Next0(p, do) => p \notin holder /\ Shape(todo[p], <<>>)
         /\ Next0(p, "upsert") =>
              IF p \in holder THEN Shape(todo[p], <<"upsert", "session">>)
              ELSE p[1] = "handler" /\ Shape(todo[p], <<"upsert", "copy", "session">>)
         /\ Next0(p, "update_row") =>
              p \in holder /\ Shape(todo[p], <<"update_row", "session">>)
         /\ Next0(p, "session") =>
              Shape(todo[p], <<"session">>) /\ (p \in holder \/ p[1] = "handler")
         /\ Next0(p, "append_row") => p \in holder /\ Shape(todo[p], <<"append_row">>)
  <1>1. todo[p] # <<>> => Len(todo[p]) \in Nat \ {0}
    BY EmptySeq DEF ThreadsOK
  <1>2. \A w \in LockedWrites \cup StoreWrites : Shape(todo[p], w) => w[1] = todo[p][1].do
    BY DEF Shape, LockedWrites, StoreWrites
  <1>3. Shape(todo[p], <<>>) /\ todo[p] # <<>> => todo[p][1].do \in PlainCalls
    BY <1>1 DEF Shape
  <1>4. CASE p \in holder
    <2>1. PICK w \in LockedWrites : Shape(todo[p], w)
      BY <1>4 DEF ScriptInTurn
    <2> QED BY <1>2, <1>4, <2>1 DEF Next0, Head0, PlainCalls, LockedWrites
  <1>5. CASE p \notin holder
    <2>1. CASE Shape(todo[p], <<>>)
      BY <1>3, <1>5, <2>1 DEF Next0, Head0, PlainCalls
    <2>2. CASE p[1] = "handler" /\ \E w \in StoreWrites : Shape(todo[p], w)
      BY <1>2, <1>5, <2>2 DEF Next0, Head0, PlainCalls, StoreWrites
    <2> QED BY <1>5, <2>1, <2>2 DEF ScriptInTurn
  <1> QED
    BY <1>4, <1>5

---------------------------------------------------------------------------
(* A call of RunState replaces the head of a script by k + 1 writes.       *)

Writing(p, k) ==
    /\ Len(todo'[p]) = Len(todo[p]) + k
    /\ \A i \in 2 .. Len(todo[p]) : todo'[p][i + k] = todo[p][i]
    /\ \A i \in 1 .. 1 + k : todo'[p][i].do \in Writes

\* How long a caller's script is after the step, and what it begins with.
LEMMA ScriptAfter ==
  ASSUME ThreadsOK, NEW p \in Procs, Perform(p), ~DatabaseFault(p)
  PROVE  /\ todo[p] \in Seq(Op) /\ todo[p] # <<>> /\ Len(todo[p]) \in Nat \ {0}
         /\ todo' \in [Procs -> Seq(Op)]
         /\ UpdateMeta(p) => Writing(p, 1) /\ todo'[p][1].do = "upsert" /\ todo'[p][2].do = "session"
         /\ SetRunStatus(p) => /\ Writing(p, 1)
                               /\ todo'[p][1].do = "update_row" /\ todo'[p][2].do = "session"
         /\ AppendEvent(p) => Writing(p, 0) /\ todo'[p][1].do = "append_row"
         /\ ~UpdateMeta(p) /\ ~SetRunStatus(p) /\ ~AppendEvent(p) => Writing(p, -1)
  <1> DEFINE u == Tail(todo[p])
  <1>1. /\ todo[p] \in Seq(Op) /\ todo[p] # <<>>
        /\ ThreadsOK'
    BY PerformScripts DEF ThreadsOK
  <1>2. /\ Len(todo[p]) \in Nat \ {0}
        /\ u \in Seq(Op) /\ Len(u) = Len(todo[p]) - 1
        /\ \A i \in 1 .. Len(todo[p]) - 1 : u[i] = todo[p][i + 1]
    BY <1>1, TailOps
  <1>3. todo' \in [Procs -> Seq(Op)]
    BY <1>1 DEF ThreadsOK
  <1>4. CASE UpdateMeta(p) \/ SetRunStatus(p)
    <2>1. PICK a \in {"upsert", "update_row"} :
             /\ todo'[p] = <<Call(a), Call("session")>> \o u
             /\ UpdateMeta(p) => a = "upsert"
             /\ SetRunStatus(p) => a = "update_row"
      BY <1>4, WriteCalls DEF UpdateMeta, SetRunStatus, Next0, ThreadsOK
    <2>2. /\ Len(todo'[p]) = Len(u) + 2
          /\ todo'[p][1].do = a /\ todo'[p][2].do = "session"
          /\ \A i \in 1 .. Len(u) : todo'[p][i + 2] = u[i]
      BY <1>2, <2>1, WriteCalls, PrependOps DEF Writes
    <2>3. Writing(p, 1)
      <3>1. \A i \in 2 .. Len(todo[p]) : i - 1 \in 1 .. Len(u) /\ i + 1 = (i - 1) + 2 /\ u[i - 1] = todo[p][i]
        BY <1>2
      <3>2. \A i \in 2 .. Len(todo[p]) : todo'[p][i + 1] = todo[p][i]
        BY <2>2, <3>1
      <3> QED BY <1>2, <2>2, <3>2 DEF Writing, Writes
    <2> QED BY <1>1, <1>2, <1>3, <1>4, <2>1, <2>2, <2>3 DEF UpdateMeta, SetRunStatus, AppendEvent, Next0
  <1>5. CASE AppendEvent(p)
    <2>1. todo'[p] = <<Call("append_row")>> \o u
      BY <1>5 DEF AppendEvent, ThreadsOK
    <2>2. /\ Len(todo'[p]) = Len(u) + 1
          /\ todo'[p][1].do = "append_row"
          /\ \A i \in 1 .. Len(u) : todo'[p][i + 1] = u[i]
      BY <1>2, <2>1, WriteCalls, PrependOps DEF Writes
    <2>3. Writing(p, 0)
      <3>1. \A i \in 2 .. Len(todo[p]) : i - 1 \in 1 .. Len(u) /\ i + 0 = (i - 1) + 1 /\ u[i - 1] = todo[p][i]
        BY <1>2
      <3>2. \A i \in 2 .. Len(todo[p]) : todo'[p][i + 0] = todo[p][i]
        BY <2>2, <3>1
      <3> QED BY <1>2, <2>2, <3>2 DEF Writing, Writes
    <2> QED BY <1>1, <1>2, <1>3, <1>5, <2>2, <2>3 DEF UpdateMeta, SetRunStatus, AppendEvent, Next0
  <1>6. CASE ~UpdateMeta(p) /\ ~SetRunStatus(p) /\ ~AppendEvent(p)
    <2>1. todo'[p] = u
      BY <1>6 DEF Perform, PutRun, ReadRecord, UpsertRow, UpdateRow, UpdateSession, AppendRow,
         WriteDone, ThreadsOK
    <2>2. Writing(p, -1)
      <3>1. \A i \in 2 .. Len(todo[p]) : i + (-1) \in 1 .. Len(todo[p]) - 1 /\ (i + (-1)) + 1 = i
        BY <1>2
      <3>2. \A i \in 2 .. Len(todo[p]) : todo'[p][i + (-1)] = todo[p][i]
        BY <1>2, <2>1, <3>1
      <3> QED BY <1>2, <2>1, <3>2 DEF Writing
    <2> QED BY <1>1, <1>2, <1>3, <1>6, <2>2
  <1> QED
    BY <1>4, <1>5, <1>6

\* One step of a call is done, or a call has begun.
LEMMA ShapeShift ==
  ASSUME NEW s, NEW t, Len(s) \in Nat \ {0}, Len(t) = Len(s) - 1,
         \A i \in 1 .. Len(s) - 1 : t[i] = s[i + 1]
  PROVE  /\ Shape(s, <<"put", "copy", "upsert", "copy", "session">>)
               => Shape(t, <<"copy", "upsert", "copy", "session">>)
         /\ Shape(s, <<"copy", "upsert", "copy", "session">>)
               => Shape(t, <<"upsert", "copy", "session">>)
         /\ Shape(s, <<"upsert", "copy", "session">>) => Shape(t, <<"copy", "session">>)
         /\ Shape(s, <<"copy", "session">>) => Shape(t, <<"session">>)
         /\ Shape(s, <<"upsert", "session">>) => Shape(t, <<"session">>)
         /\ Shape(s, <<"update_row", "session">>) => Shape(t, <<"session">>)
         /\ Shape(s, <<"session">>) => Shape(t, <<>>)
         /\ Shape(s, <<"append_row">>) => Shape(t, <<>>)
  <1>1. /\ Shape(s, <<"put", "copy", "upsert", "copy", "session">>)
               => Shape(t, <<"copy", "upsert", "copy", "session">>)
    BY SMTT(60) DEF Shape
  <1>2. /\ Shape(s, <<"copy", "upsert", "copy", "session">>)
               => Shape(t, <<"upsert", "copy", "session">>)
        /\ Shape(s, <<"upsert", "copy", "session">>) => Shape(t, <<"copy", "session">>)
    BY SMTT(60) DEF Shape
  <1>3. /\ Shape(s, <<"copy", "session">>) => Shape(t, <<"session">>)
        /\ Shape(s, <<"upsert", "session">>) => Shape(t, <<"session">>)
        /\ Shape(s, <<"update_row", "session">>) => Shape(t, <<"session">>)
        /\ Shape(s, <<"session">>) => Shape(t, <<>>)
        /\ Shape(s, <<"append_row">>) => Shape(t, <<>>)
    BY DEF Shape
  <1> QED
    BY <1>1, <1>2, <1>3

\* A call that takes the lock puts its writes at the head of a plain script.
LEMMA ShapeBegin ==
  ASSUME NEW s, NEW t, Len(s) \in Nat \ {0}, Shape(s, <<>>)
  PROVE  /\ /\ Len(t) = Len(s) + 1
            /\ \A i \in 2 .. Len(s) : t[i + 1] = s[i]
            /\ t[1].do = "upsert" /\ t[2].do = "session"
            => Shape(t, <<"upsert", "session">>)
         /\ /\ Len(t) = Len(s) + 1
            /\ \A i \in 2 .. Len(s) : t[i + 1] = s[i]
            /\ t[1].do = "update_row" /\ t[2].do = "session"
            => Shape(t, <<"update_row", "session">>)
         /\ /\ Len(t) = Len(s) + 0
            /\ \A i \in 2 .. Len(s) : t[i + 0] = s[i]
            /\ t[1].do = "append_row"
            => Shape(t, <<"append_row">>)
  <1>1. \A i \in 1 .. Len(s) : s[i].do \in PlainCalls
    BY DEF Shape
  <1>2. \A i \in 3 .. Len(s) + 1 : i - 1 \in 2 .. Len(s) /\ (i - 1) + 1 = i
    OBVIOUS
  <1>3. ASSUME Len(t) = Len(s) + 1, \A i \in 2 .. Len(s) : t[i + 1] = s[i]
        PROVE  \A i \in 3 .. Len(t) : t[i].do \in PlainCalls
    <2> SUFFICES ASSUME NEW i \in 3 .. Len(s) + 1 PROVE t[i].do \in PlainCalls
      BY <1>3
    <2>1. t[(i - 1) + 1] = s[i - 1] /\ s[i - 1].do \in PlainCalls /\ (i - 1) + 1 = i
      BY <1>1, <1>2, <1>3
    <2> QED BY <2>1
  <1> QED
    BY <1>1, <1>3 DEF Shape

\* What a thread is in the middle of after its step.
LEMMA ShapeAfter ==
  ASSUME ThreadsOK, NEW p \in Procs, ScriptInTurn(p), Perform(p), ~DatabaseFault(p)
  PROVE  /\ UpdateMeta(p) => Shape(todo'[p], <<"upsert", "session">>)
         /\ SetRunStatus(p) => Shape(todo'[p], <<"update_row", "session">>)
         /\ AppendEvent(p) => Shape(todo'[p], <<"append_row">>)
         /\ PutRun(p) => Shape(todo'[p], <<"copy", "upsert", "copy", "session">>)
         /\ ReadRecord(p) => \/ Shape(todo'[p], <<"upsert", "copy", "session">>)
                             \/ Shape(todo'[p], <<"session">>)
         /\ UpsertRow(p) => IF p \in holder THEN Shape(todo'[p], <<"session">>)
                            ELSE Shape(todo'[p], <<"copy", "session">>)
         /\ UpdateRow(p) => Shape(todo'[p], <<"session">>)
         /\ UpdateSession(p) \/ AppendRow(p) => Shape(todo'[p], <<>>)
  <1> DEFINE s == todo[p]
             t == todo'[p]
  <1>1. Len(s) \in Nat \ {0}
    BY ScriptAfter
  <1>2. ASSUME UpdateMeta(p) PROVE Shape(t, <<"upsert", "session">>)
    <2>1. Shape(s, <<>>)
      BY <1>2, StepShape DEF UpdateMeta, PlainCalls
    <2>2. Writing(p, 1) /\ t[1].do = "upsert" /\ t[2].do = "session"
      BY <1>2, ScriptAfter
    <2>3. Len(t) = Len(s) + 1 /\ \A i \in 2 .. Len(s) : t[i + 1] = s[i]
      BY <2>2 DEF Writing
    <2> QED BY <1>1, <2>1, <2>2, <2>3, ShapeBegin
  <1>3. ASSUME SetRunStatus(p) PROVE Shape(t, <<"update_row", "session">>)
    <2>1. Shape(s, <<>>)
      BY <1>3, StepShape DEF SetRunStatus, PlainCalls
    <2>2. Writing(p, 1) /\ t[1].do = "update_row" /\ t[2].do = "session"
      BY <1>3, ScriptAfter
    <2>3. Len(t) = Len(s) + 1 /\ \A i \in 2 .. Len(s) : t[i + 1] = s[i]
      BY <2>2 DEF Writing
    <2> QED BY <1>1, <2>1, <2>2, <2>3, ShapeBegin
  <1>4. ASSUME AppendEvent(p) PROVE Shape(t, <<"append_row">>)
    <2>1. Shape(s, <<>>)
      BY <1>4, StepShape DEF AppendEvent, PlainCalls
    <2>2. Writing(p, 0) /\ t[1].do = "append_row"
      BY <1>4, ScriptAfter
    <2>3. Len(t) = Len(s) + 0 /\ \A i \in 2 .. Len(s) : t[i + 0] = s[i]
      BY <2>2 DEF Writing
    <2> QED BY <1>1, <2>1, <2>2, <2>3, ShapeBegin
  <1>5. ASSUME \/ PutRun(p) \/ ReadRecord(p) \/ UpsertRow(p) \/ UpdateRow(p)
               \/ UpdateSession(p) \/ AppendRow(p)
        PROVE  /\ Len(t) = Len(s) - 1
               /\ \A i \in 1 .. Len(s) - 1 : t[i] = s[i + 1]
    <2>1. Writing(p, -1)
      BY <1>5, ScriptAfter DEF PutRun, ReadRecord, UpsertRow, UpdateRow, UpdateSession, AppendRow,
         UpdateMeta, SetRunStatus, AppendEvent, Next0
    <2>2. \A i \in 1 .. Len(s) - 1 : i + 1 \in 2 .. Len(s) /\ (i + 1) + (-1) = i
      BY <1>1
    <2> QED BY <1>1, <2>1, <2>2 DEF Writing
  <1>6. PutRun(p) => Shape(t, <<"copy", "upsert", "copy", "session">>)
    BY <1>1, <1>5, StepShape, ShapeShift DEF PutRun
  <1>7. ReadRecord(p) => Shape(t, <<"upsert", "copy", "session">>) \/ Shape(t, <<"session">>)
    BY <1>1, <1>5, StepShape, ShapeShift DEF ReadRecord
  <1>8. UpsertRow(p) => IF p \in holder THEN Shape(t, <<"session">>)
                       ELSE Shape(t, <<"copy", "session">>)
    BY <1>1, <1>5, StepShape, ShapeShift DEF UpsertRow
  <1>9. UpdateRow(p) => Shape(t, <<"session">>)
    BY <1>1, <1>5, StepShape, ShapeShift DEF UpdateRow
  <1>10. UpdateSession(p) \/ AppendRow(p) => Shape(t, <<>>)
    BY <1>1, <1>5, StepShape, ShapeShift DEF UpdateSession, AppendRow
  <1> QED
    BY <1>2, <1>3, <1>4, <1>6, <1>7, <1>8, <1>9, <1>10

\* The lock is taken by the calls that write under it, for those writes.
LEMMA PerformInTurn ==
  ASSUME ThreadsOK, NEW p \in Procs, ScriptInTurn(p), Perform(p)
  PROVE  ScriptInTurn(p)'
  <1>1. CASE DatabaseFault(p)
    <2>1. todo'[p] = <<>> /\ p \notin holder'
      BY <1>1 DEF DatabaseFault, Release, Continue, ThreadsOK
    <2> QED BY <2>1 DEF ScriptInTurn, Shape
  <1>2. CASE UpdateMeta(p) \/ SetRunStatus(p) \/ AppendEvent(p)
    <2>1. p \in holder' /\ ~DatabaseFault(p)
      BY <1>2 DEF UpdateMeta, SetRunStatus, AppendEvent, DatabaseFault, Writes, Next0
    <2> QED BY <1>2, <2>1, ShapeAfter DEF ScriptInTurn, LockedWrites
  <1>3. CASE ~DatabaseFault(p) /\ (PutRun(p) \/ ReadRecord(p) \/ UpsertRow(p) \/ UpdateRow(p))
    <2>1. holder' = holder
      BY <1>3 DEF PutRun, ReadRecord, UpsertRow, UpdateRow
    <2> QED BY <1>3, <2>1, StepShape, ShapeAfter DEF PutRun, ReadRecord, UpsertRow, UpdateRow,
               ScriptInTurn, LockedWrites, StoreWrites
  <1>4. CASE ~DatabaseFault(p) /\ (UpdateSession(p) \/ AppendRow(p))
    <2>1. p \notin holder'
      BY <1>4 DEF UpdateSession, AppendRow, Release
    <2> QED BY <1>4, <2>1, ShapeAfter DEF ScriptInTurn
  <1> QED
    BY <1>1, <1>2, <1>3, <1>4 DEF Perform

---------------------------------------------------------------------------
(* What every step leaves alone.                                           *)

\* The invariant, ready to be cited for one thread and one run.
LEMMA InvFacts ==
  ASSUME StorageInv
  PROVE  /\ Inv /\ ThreadsOK /\ StateTypeOK
         /\ \A p, q \in holder : p = q
         /\ \A p \in Procs : ThreadOK(p) /\ RunOf(p) \in Runs
         /\ \A r \in Runs : RecordOK(r)
         /\ \A r \in Runs : /\ events[r] \in Seq(Event) /\ rowEvents[r] \in Seq(Event)
                             /\ mem[r] \in RunRec /\ row[r] \in RunRec
  BY InvThreads DEF StorageInv, Inv, TypeOK, StateTypeOK, RunOf, Procs

\* A thread that does not move, when nothing that it is about to write from
\* or that was promised to it is taken away.
LEMMA OtherThread ==
  ASSUME NEW q \in Procs, ThreadOK(q),
         todo'[q] = todo[q], copy'[q] = copy[q], q \in holder' <=> q \in holder,
         q \in holder => mem'[RunOf(q)] = mem[RunOf(q)],
         Terminal(mem[RunOf(q)]) => Terminal(mem'[RunOf(q)]),
         Inserts(q) /\ ~Known(row[RunOf(q)]) => ~Known(row'[RunOf(q)]),
         \A e : Told(RunOf(q), e) => Told(RunOf(q), e)',
         Next0(q, "append_row") => StoredEvent(RunOf(q))' = StoredEvent(RunOf(q))
  PROVE  ThreadOK(q)'
  <1> USE DEF ThreadOK
  <1>1. \A d : Next0(q, d)' <=> Next0(q, d)
    BY DEF Next0, Head0
  <1>2. ScriptInTurn(q)'
    BY DEF ScriptInTurn
  <1>3. WritesMemory(q)' /\ InsertsFirst(q)' /\ InsertsRecent(q)'
    BY <1>1 DEF WritesMemory, WritesRecord, InsertsFirst, InsertsRecent, Inserts
  <1>4. WritesJustified(q)'
    BY <1>1 DEF WritesJustified, WritesRecord, Justified, RejectedAtOnce
  <1>5. MetaIsAudio(q)'
    BY <1>1 DEF MetaIsAudio, Head0
  <1>6. EndsAreTold(q)'
    BY <1>1 DEF EndsAreTold, Promised
  <1> QED
    BY <1>2, <1>3, <1>4, <1>5, <1>6

\* A thread that has nothing to do has nothing wrong to do.
LEMMA IdleThread ==
  ASSUME NEW q \in Procs, todo'[q] = <<>>, q \notin holder'
  PROVE  ThreadOK(q)'
  BY DEF ThreadOK, ScriptInTurn, Shape, WritesMemory, InsertsFirst, InsertsRecent, Inserts,
     WritesJustified, WritesRecord, MetaIsAudio, EndsAreTold, Next0

---------------------------------------------------------------------------
(* The calls of RunState.                                                  *)

\* A run that somebody makes a call for is in memory, but for the first call
\* of the handler that stores it.
LEMMA CallerKnown ==
  ASSUME Inv, NEW p \in Procs, Perform(p)
  PROVE  IF PutRun(p) THEN Opens(p) /\ Unknown(RunOf(p)) ELSE Known(mem[RunOf(p)])
  <1>1. todo[p] # <<>>
    BY InvThreads, PerformScripts
  <1>2. CASE PutRun(p)
    <2>1. Opens(p)
      BY <1>1, <1>2, InvThreads, NextCall DEF PutRun, Next0
    <2> QED BY <1>2, <2>1 DEF Inv, OpensNew
  <1>3. CASE ~PutRun(p)
    <2>1. Head0(p).do # "put"
      BY <1>3 DEF Perform, ReadRecord, UpdateMeta, SetRunStatus, AppendEvent, UpsertRow, UpdateRow,
         UpdateSession, AppendRow, DatabaseFault, Writes, Next0
    <2> QED BY <1>1, <1>3, <2>1, BusyKnown DEF Idle, Opens
  <1> QED
    BY <1>2, <1>3

\* A call changes the record, the log and the row of its own run only, and a
\* record only by the calls that take the lock.
LEMMA CallEffect ==
  ASSUME StateTypeOK, NEW p \in Procs, Perform(p)
  PROVE  /\ \A r \in Runs \ {RunOf(p)} : /\ mem'[r] = mem[r] /\ events'[r] = events[r]
                                         /\ row'[r] = row[r] /\ rowEvents'[r] = rowEvents[r]
         /\ \A q \in Procs \ {p} : copy'[q] = copy[q] /\ (q \in holder' => q \in holder)
         /\ \A q \in Procs \ {p} : q \in holder => q \in holder' /\ mem' = mem /\ events' = events
         /\ ~PutRun(p) /\ ~UpdateMeta(p) /\ ~SetRunStatus(p) => mem' = mem
         /\ ~PutRun(p) /\ ~AppendEvent(p) => events' = events
         /\ ~AppendRow(p) => rowEvents' = rowEvents
         /\ ~UpsertRow(p) /\ ~UpdateRow(p) => row' = row
         /\ holder' = {p} \/ holder' = holder \/ holder' = holder \ {p}
  BY DEF StateTypeOK, Perform, PutRun, ReadRecord, UpdateMeta, SetRunStatus, StatusInMemory,
     AppendEvent, UpsertRow, UpdateRow, UpdateSession, AppendRow, DatabaseFault, Continue, WriteDone,
     Release, LockFree, memVars, dbVars

\* Once announced, an end stays announced.
LEMMA LogGrows ==
  ASSUME Inv, NEW p \in Procs, Perform(p), ~PutRun(p), NEW r \in Runs, NEW e, Told(r, e)
  PROVE  Told(r, e)'
  <1>1. StateTypeOK /\ RunOf(p) \in Runs /\ Known(mem[RunOf(p)])
    BY CallerKnown DEF Inv, TypeOK, RunOf, Procs
  <1>2. CASE r # RunOf(p)
    BY <1>1, <1>2, CallEffect DEF Told, HasEvent
  <1>3. CASE r = RunOf(p)
    <2>1. events[r] \in Seq(Event) /\ rowEvents[r] \in Seq(Event)
      BY <1>1 DEF StateTypeOK
    <2>2. HasEvent(events[r], e) /\ HasEvent(rowEvents[r], e)
      BY <1>1, <1>3 DEF Told
    <2>3. HasEvent(events'[r], e)
      <3>1. CASE AppendEvent(p)
        <4> DEFINE new == [seq |-> NextSeq(events[r]), type |-> Head0(p).event]
        <4>1. new \in Event
          <5>1. Head0(p) \in Op
            BY <3>1, InvThreads, NextCall DEF AppendEvent, Next0
          <5>2. NextSeq(events[r]) \in Nat
            <6>1. events[r] # <<>> => events[r][Len(events[r])] \in Event
              BY <2>1, LastEvent
            <6>2. events[r] # <<>> => events[r][Len(events[r])].seq \in Nat
              BY <6>1 DEF Event
            <6> QED BY <6>2 DEF NextSeq
          <5> QED BY <5>1, <5>2 DEF Event, Op
        <4>2. events'[r] = Append(events[r], new)
          BY <1>1, <1>3, <3>1 DEF AppendEvent, StateTypeOK
        <4> QED BY <2>1, <2>2, <4>1, <4>2, AppendedEvent
      <3> QED BY <1>1, <2>2, <3>1, CallEffect
    <2>4. HasEvent(rowEvents'[r], e)
      <3>1. CASE AppendRow(p)
        <4>1. StoredEvent(r) \in Event
          <5>1. Appending(p)
            BY <3>1, InvThreads, NextCall DEF AppendRow, Next0
          <5>2. events[r] # <<>>
            BY <1>3, <5>1 DEF Inv, AppendsEvent
          <5> QED BY <2>1, <5>2, LastEvent DEF StoredEvent
        <4>2. rowEvents'[r] = Append(rowEvents[r], StoredEvent(r))
          BY <1>1, <1>3, <3>1 DEF AppendRow, StateTypeOK
        <4> QED BY <2>1, <2>2, <4>1, <4>2, AppendedEvent
      <3> QED BY <1>1, <2>2, <3>1, CallEffect
    <2> QED BY <2>3, <2>4 DEF Told
  <1> QED
    BY <1>2, <1>3

\* An event is in both logs once its row is inserted.
LEMMA RowTells ==
  ASSUME Inv, NEW p \in Procs, AppendRow(p)
  PROVE  Told(RunOf(p), StoredEvent(RunOf(p)).type)'
  <1> DEFINE r == RunOf(p)
  <1>1. /\ StateTypeOK /\ r \in Runs
        /\ events[r] \in Seq(Event) /\ rowEvents[r] \in Seq(Event)
        /\ events' = events /\ mem' = mem
        /\ rowEvents'[r] = Append(rowEvents[r], StoredEvent(r))
    BY DEF Inv, TypeOK, StateTypeOK, RunOf, Procs, AppendRow, WriteDone, memVars
  <1>2. events[r] # <<>>
    <2>1. Appending(p)
      BY InvThreads, NextCall DEF AppendRow, Next0
    <2> QED BY <2>1 DEF Inv, AppendsEvent
  <1>3. StoredEvent(r) \in Event /\ HasEvent(events[r], StoredEvent(r).type)
    BY <1>1, <1>2, LastEvent DEF StoredEvent
  <1>4. HasEvent(rowEvents'[r], StoredEvent(r).type)
    BY <1>1, <1>3, AppendedEvent
  <1>5. StoredEvent(r)' = StoredEvent(r)
    BY <1>1 DEF StoredEvent
  <1> QED
    BY <1>1, <1>3, <1>4, <1>5 DEF Told

\* What was promised before a call of p is promised after it.
LEMMA PromiseKept ==
  ASSUME Inv, NEW p \in Procs, Perform(p), ~PutRun(p), ~DatabaseFault(p),
         NEW k \in {-1, 0, 1}, Writing(p, k),
         NEW e, NEW i \in 2 .. Len(todo[p]) + 1, Promised(p, e, i)
  PROVE  Promised(p, e, i + k)'
  <1> DEFINE r == RunOf(p)
  <1>1. /\ ThreadsOK /\ StateTypeOK /\ r \in Runs
        /\ Len(todo[p]) \in Nat \ {0}
        /\ todo[p] # <<>>
    BY InvThreads, ScriptAfter DEF Inv, TypeOK, RunOf, Procs
  <1>2. CASE Told(r, e)
    BY <1>1, <1>2, LogGrows DEF Promised
  <1>3. CASE Next0(p, "append_row") /\ StoredEvent(r).type = e
    <2>1. AppendRow(p)
      BY <1>3 DEF Perform, PutRun, ReadRecord, UpdateMeta, SetRunStatus, AppendEvent, UpsertRow,
         UpdateRow, UpdateSession, Next0
    <2>2. StoredEvent(r)' = StoredEvent(r)
      BY <2>1 DEF AppendRow, WriteDone, memVars, StoredEvent
    <2> QED BY <1>3, <2>1, <2>2, RowTells DEF Promised
  <1>4. CASE \E j \in 1 .. i - 1 : todo[p][j].do = "append" /\ todo[p][j].event = e
    <2>1. PICK j \in 1 .. i - 1 : todo[p][j].do = "append" /\ todo[p][j].event = e
      BY <1>4
    <2>2. CASE j = 1
      <3>1. AppendEvent(p)
        BY <1>1, <2>1, <2>2 DEF Perform, PutRun, ReadRecord, UpdateMeta, SetRunStatus, UpsertRow,
           UpdateRow, UpdateSession, AppendRow, DatabaseFault, Next0, Head0, Writes
      <3>2. Next0(p, "append_row")'
        <4>1. Len(todo'[p]) = Len(todo[p]) + k /\ k = 0 /\ todo'[p] \in Seq(Op)
          <5>1. Writing(p, 0)
            BY <1>1, <3>1, ScriptAfter
          <5>2. Len(todo'[p]) = Len(todo[p]) /\ todo'[p] \in Seq(Op)
            BY <1>1, <5>1, ScriptAfter DEF Writing
          <5> QED BY <1>1, <5>2 DEF Writing
        <4>2. todo'[p] # <<>> /\ todo'[p][1].do = "append_row"
          BY <1>1, <3>1, <4>1, ScriptAfter, EmptySeq
        <4> QED BY <4>2 DEF Next0, Head0
      <3>3. StoredEvent(r)'.type = e
        <4> DEFINE new == [seq |-> NextSeq(events[r]), type |-> Head0(p).event]
        <4>1. events'[r] = Append(events[r], new) /\ events[r] \in Seq(Event)
          BY <1>1, <3>1 DEF AppendEvent, StateTypeOK
        <4>2. new.type = e
          BY <2>1, <2>2 DEF Head0
        <4>3. Len(events'[r]) = Len(events[r]) + 1 /\ events'[r][Len(events[r]) + 1] = new
          BY <4>1
        <4> QED BY <4>2, <4>3 DEF StoredEvent
      <3> QED BY <3>2, <3>3 DEF Promised
    <2>3. CASE j # 1
      <3>1. j \in 2 .. Len(todo[p]) /\ j + k \in 1 .. (i + k) - 1
        BY <1>1, <2>1, <2>3
      <3>2. todo'[p][j + k] = todo[p][j]
        BY <3>1 DEF Writing
      <3> QED BY <2>1, <3>1, <3>2 DEF Promised
    <2> QED BY <2>2, <2>3
  <1> QED
    BY <1>2, <1>3, <1>4 DEF Promised

\* The threads that do not make the call.
LEMMA OtherCalls ==
  ASSUME StorageInv, NEW p \in Procs, Perform(p), NEW q \in Procs \ {p}
  PROVE  ThreadOK(q)'
  <1> DEFINE r == RunOf(q)
  <1>1. /\ Inv /\ ThreadsOK /\ StateTypeOK /\ r \in Runs
        /\ ThreadOK(q) /\ ThreadOK(p)
    BY InvFacts
  <1>2. todo'[q] = todo[q] /\ copy'[q] = copy[q] /\ (q \in holder' <=> q \in holder)
    BY <1>1, PerformScripts, CallEffect
  <1>3. q \in holder => mem'[r] = mem[r] /\ events' = events
    BY <1>1, CallEffect
  <1>4. CASE PutRun(p) /\ r = RunOf(p)
    <2>1. Opens(p) /\ Unknown(r) /\ holder = {}
      BY <1>1, <1>4, CallerKnown DEF PutRun, LockFree
    <2>2. ~Opens(q)
      BY <1>4, <2>1 DEF Opens, RunOf, Procs
    <2>3. todo[q] = <<>>
      BY <1>1, <2>1, <2>2, BusyKnown DEF Unknown, Idle
    <2> QED BY <1>2, <2>1, <2>3, IdleThread
  <1>5. CASE ~(PutRun(p) /\ r = RunOf(p))
    <2>1. Terminal(mem[r]) => Terminal(mem'[r])
      <3>1. CASE UpdateMeta(p)
        BY <1>1, <3>1 DEF UpdateMeta, MetaRecord, Terminal, StateTypeOK, RunRec, RunOf, Procs
      <3>2. CASE SetRunStatus(p)
        <4>1. Terminal(Head0(p).rec) /\ Head0(p).rec \in RunRec
          BY <1>1, <3>2, NextCall DEF SetRunStatus, Next0, Op
        <4> QED BY <1>1, <3>2, <4>1 DEF SetRunStatus, StatusInMemory, Terminal, StateTypeOK, RunRec,
                   RunOf, Procs
      <3> QED BY <1>1, <1>5, <3>1, <3>2, CallEffect
    <2>2. Inserts(q) /\ ~Known(row[r]) => ~Known(row'[r])
      <3> SUFFICES ASSUME Inserts(q), r = RunOf(p), UpsertRow(p) \/ UpdateRow(p), ~Known(row[r])
                   PROVE  ~Known(row'[r])
        BY <1>1, CallEffect
      <3>1. q[1] = "handler"
        BY <1>1 DEF ThreadOK, ScriptInTurn, Inserts, Shape, PlainCalls
      <3>2. UpsertRow(p) => p[1] = "handler"
        BY <1>1, StepShape DEF ThreadOK, MetaIsAudio, UpsertRow
      <3>3. ~UpsertRow(p)
        BY <3>1, <3>2 DEF RunOf, Procs
      <3> QED BY <3>3 DEF UpdateRow
    <2>3. \A e : Told(r, e) => Told(r, e)'
      <3>1. CASE PutRun(p)
        BY <1>1, <1>5, <3>1, CallEffect DEF Told, HasEvent
      <3>2. CASE ~PutRun(p)
        BY <1>1, <3>2, LogGrows
      <3> QED BY <3>1, <3>2
    <2>4. Next0(q, "append_row") => StoredEvent(r)' = StoredEvent(r)
      BY <1>1, <1>3, StepShape DEF ThreadOK, StoredEvent
    <2> QED BY <1>1, <1>2, <1>3, <2>1, <2>2, <2>3, <2>4, OtherThread
  <1> QED
    BY <1>4, <1>5

\* A record that memory gets from a call was announced before.
LEMMA NewRecord ==
  ASSUME StorageInv, NEW p \in Procs, Perform(p), NEW r \in Runs
  PROVE  /\ Justified(r, mem[r])'
         /\ SetRunStatus(p) /\ r = RunOf(p) =>
              Terminal(mem'[r]) /\ Told(r, Announces(mem[r].status))'
         /\ ~PutRun(p) => \A rec : Justified(r, rec) => Justified(r, rec)'
         /\ Terminal(mem[r]) => Terminal(mem'[r])
  <1>1. /\ Inv /\ ThreadsOK /\ StateTypeOK /\ RunOf(p) \in Runs
        /\ Justified(r, mem[r]) /\ ThreadOK(p) /\ mem[r] \in RunRec
    BY InvFacts DEF RecordOK
  <1>2. ~PutRun(p) => \A e : Told(r, e) => Told(r, e)'
    BY <1>1, LogGrows
  <1>3. ~PutRun(p) => \A rec : Justified(r, rec) => Justified(r, rec)'
    BY <1>2 DEF Justified, RejectedAtOnce
  <1>4. CASE PutRun(p) /\ r = RunOf(p)
    <2>1. Opens(p) /\ Unknown(r)
      BY <1>1, <1>4, CallerKnown
    <2>2. mem'[r] = Head0(p).rec /\ Head0(p).rec.status \in {"running", "rejected"}
      BY <1>1, <1>4, <2>1 DEF PutRun, StateTypeOK, Opens
    <2>3. Head0(p).rec.status = "rejected" => r \in TextRuns
      BY <1>1, <1>4 DEF ThreadOK, MetaIsAudio, PutRun
    <2>4. Justified(r, mem[r])'
      BY <2>2, <2>3 DEF Justified, RejectedAtOnce, Terminal, TerminalStatuses
    <2> QED BY <1>4, <2>1, <2>4 DEF Unknown, Known, Terminal, TerminalStatuses, PutRun, SetRunStatus,
               Next0
  <1>5. CASE SetRunStatus(p) /\ r = RunOf(p)
    <2>1. /\ todo[p] # <<>> /\ Head0(p).do = "status"
          /\ Terminal(Head0(p).rec) /\ Head0(p).rec \in RunRec
      BY <1>1, <1>5, NextCall DEF SetRunStatus, Next0, Op
    <2>2. mem'[r].status = Head0(p).rec.status
      BY <1>1, <1>5, <2>1 DEF SetRunStatus, StatusInMemory, StateTypeOK, RunRec
    <2>3. Told(r, Announces(Head0(p).rec.status))
      <3>1. 1 \in 1 .. Len(todo[p]) /\ \A j \in 1 .. 1 - 1 : FALSE
        BY <1>1, <2>1, EmptySeq DEF ThreadsOK
      <3>2. Promised(p, Announces(Head0(p).rec.status), 1)
        BY <1>1, <2>1, <3>1 DEF ThreadOK, EndsAreTold, Head0
      <3>3. ~Next0(p, "append_row")
        BY <2>1 DEF Next0
      <3> QED BY <1>5, <3>1, <3>2, <3>3 DEF Promised
    <2>4. ~PutRun(p)
      BY <2>1 DEF PutRun, Next0
    <2> QED BY <1>2, <1>3, <2>1, <2>2, <2>3, <2>4 DEF Justified, Terminal
  <1>6. CASE ~PutRun(p) /\ ~SetRunStatus(p)
    <2>1. mem'[r].status = mem[r].status
      <3>1. CASE UpdateMeta(p)
        BY <1>1, <3>1 DEF UpdateMeta, MetaRecord, StateTypeOK, RunRec
      <3> QED BY <1>1, <1>6, <3>1, CallEffect
    <2> QED BY <1>1, <1>2, <1>6, <2>1 DEF Justified, RejectedAtOnce, Terminal
  <1>7. CASE r # RunOf(p)
    <2>1. mem'[r] = mem[r]
      BY <1>1, <1>7, CallEffect
    <2>2. \A e : Told(r, e) => Told(r, e)'
      BY <1>1, <1>7, CallEffect DEF Told, HasEvent
    <2> QED BY <1>1, <1>3, <1>7, <2>1, <2>2 DEF Justified, RejectedAtOnce, Terminal
  <1> QED
    BY <1>4, <1>5, <1>6, <1>7

\* After a call a script holds writes of that call and calls it held before.
LEMMA RestOfScript ==
  ASSUME ThreadsOK, NEW p \in Procs, Perform(p), ~DatabaseFault(p)
  PROVE  \E k \in {-1, 0, 1} :
            /\ Writing(p, k)
            /\ \A i \in 1 .. Len(todo'[p]) :
                 \/ todo'[p][i].do \in Writes
                 \/ i - k \in 2 .. Len(todo[p]) /\ todo'[p][i] = todo[p][i - k]
  <1>1. PICK k \in {-1, 0, 1} : Writing(p, k)
    BY ScriptAfter
  <1>2. Len(todo[p]) \in Nat \ {0}
    BY ScriptAfter
  <1>3. ASSUME NEW i \in 1 .. Len(todo'[p])
        PROVE  \/ todo'[p][i].do \in Writes
               \/ i - k \in 2 .. Len(todo[p]) /\ todo'[p][i] = todo[p][i - k]
    <2>1. i \in 1 .. 1 + k \/ i - k \in 2 .. Len(todo[p])
      BY <1>1, <1>2 DEF Writing
    <2>2. (i - k) + k = i
      BY <1>3
    <2> QED BY <1>1, <2>1, <2>2 DEF Writing
  <1> QED
    BY <1>1, <1>3

\* What the caller announces before it ends its run is still to be announced,
\* or it has been.
LEMMA CallerEnds ==
  ASSUME StorageInv, NEW p \in Procs, Perform(p), ~DatabaseFault(p)
  PROVE  EndsAreTold(p)'
  <1>1. Inv /\ ThreadsOK /\ ThreadOK(p)
    BY InvFacts
  <1>2. PICK k \in {-1, 0, 1} :
           /\ Writing(p, k)
           /\ \A i \in 1 .. Len(todo'[p]) :
                \/ todo'[p][i].do \in Writes
                \/ i - k \in 2 .. Len(todo[p]) /\ todo'[p][i] = todo[p][i - k]
    BY <1>1, RestOfScript
  <1> SUFFICES ASSUME NEW i \in 1 .. Len(todo'[p]), todo'[p][i].do = "status"
               PROVE  Promised(p, Announces(todo[p][i].rec.status), i)'
    BY DEF EndsAreTold
  <1> PICK e : e = Announces(todo'[p][i].rec.status)
    OBVIOUS
  <1> DEFINE h == i - k
  <1>3. h \in 2 .. Len(todo[p]) /\ todo'[p][i] = todo[p][h]
    BY <1>2 DEF Writes
  <1>4. Len(todo[p]) \in Nat \ {0} /\ i \in Int /\ h + k = i
    BY <1>1, ScriptAfter
  <1>5. h \in 1 .. Len(todo[p]) /\ h \in 2 .. Len(todo[p]) + 1
    BY <1>3, <1>4
  <1>6. ~PutRun(p)
    BY <1>1, <1>3, <1>5 DEF ThreadOK, MetaIsAudio, PutRun
  <1>7. Promised(p, e, h)
    BY <1>1, <1>3, <1>5 DEF ThreadOK, EndsAreTold
  <1>8. Promised(p, e, h + k)'
    BY <1>1, <1>2, <1>5, <1>6, <1>7, PromiseKept
  <1>9. Promised(p, e, i)'
    BY <1>4, <1>8
  <1> QED
    BY <1>9 DEF Promised

\* The thread that makes the call.
LEMMA OwnCall ==
  ASSUME StorageInv, NEW p \in Procs, Perform(p), ~DatabaseFault(p)
  PROVE  ThreadOK(p)'
  <1> DEFINE r == RunOf(p)
             s == todo[p]
             t == todo'[p]
  <1>1. /\ Inv /\ ThreadsOK /\ StateTypeOK /\ r \in Runs /\ p \in Procs
        /\ ThreadOK(p) /\ Justified(r, mem[r])
        /\ ScriptInTurn(p)
    BY InvFacts DEF RecordOK, ThreadOK
  <1>2. /\ ScriptInTurn(p)' /\ EndsAreTold(p)'
        /\ t \in Seq(Op)
    BY <1>1, PerformInTurn, CallerEnds, ScriptAfter
  <1>3. /\ \A d : Next0(p, d)' <=> t # <<>> /\ t[1].do = d
        /\ \A d : Next0(p, d) <=> s # <<>> /\ s[1].do = d
        /\ s # <<>> /\ (t # <<>> => Len(t) \in Nat \ {0})
        /\ Len(s) \in Nat \ {0}
    BY <1>1, <1>2, ScriptAfter, EmptySeq DEF Next0, Head0
  <1>4. \A i \in 1 .. Len(t) : t[i].do = "meta" => p[1] = "handler" /\ r \in AudioRuns
    <2>1. PICK k \in {-1, 0, 1} :
             /\ Writing(p, k)
             /\ \A i \in 1 .. Len(todo'[p]) :
                  \/ todo'[p][i].do \in Writes
                  \/ i - k \in 2 .. Len(todo[p]) /\ todo'[p][i] = todo[p][i - k]
      BY <1>1, RestOfScript
    <2>2. \A i \in 2 .. Len(s) : i \in 1 .. Len(s)
      BY <1>3
    <2> QED BY <1>1, <2>1, <2>2 DEF ThreadOK, MetaIsAudio, Writes
  <1>5. ~PutRun(p) => \A rec : Justified(r, rec) => Justified(r, rec)'
    BY <1>1, NewRecord
  <1>6. Justified(r, mem[r])'
    BY <1>1, NewRecord
  <1>7. CASE PutRun(p)
    <2>1. /\ Shape(t, <<"copy", "upsert", "copy", "session">>)
          /\ p \notin holder' /\ row' = row /\ Unknown(r)
      BY <1>1, <1>7, ShapeAfter, CallerKnown DEF PutRun, LockFree, dbVars
    <2>2. t[1].do = "copy"
      BY <2>1 DEF Shape
    <2> QED BY <1>2, <1>3, <1>4, <2>1, <2>2 DEF ThreadOK, WritesMemory, WritesRecord, InsertsFirst,
               InsertsRecent, WritesJustified, MetaIsAudio, Unknown
  <1>8. CASE ReadRecord(p)
    <2>1. Shape(t, <<"upsert", "copy", "session">>) \/ Shape(t, <<"session">>)
      BY <1>1, <1>8, ShapeAfter
    <2>2. t[1].do \in {"upsert", "session"}
      BY <2>1 DEF Shape
    <2>3. /\ p \notin holder /\ holder' = holder /\ row' = row /\ mem' = mem
          /\ copy'[p] = mem[r] /\ Known(mem[r]) /\ ~PutRun(p)
      BY <1>1, <1>3, <1>8, StepShape, CallerKnown DEF ReadRecord, memVars, dbVars, StateTypeOK, PutRun,
         Next0
    <2>4. Inserts(p)' => Inserts(p)
      <3>1. Len(t) = Len(s) - 1 /\ \A i \in 1 .. Len(t) : i + 1 \in 1 .. Len(s) /\ t[i] = s[i + 1]
        <4>1. Writing(p, -1)
          BY <1>1, <1>3, <1>8, ScriptAfter DEF ReadRecord, UpdateMeta, SetRunStatus, AppendEvent,
             Next0
        <4>2. \A i \in 1 .. Len(s) - 1 : i + 1 \in 2 .. Len(s) /\ (i + 1) + (-1) = i
          BY <1>3
        <4> QED BY <1>3, <4>1, <4>2 DEF Writing
      <3> QED BY <2>3, <3>1 DEF Inserts
    <2>5. Justified(r, copy[p])'
      BY <1>6, <2>3
    <2> QED BY <1>1, <1>2, <1>3, <1>4, <2>2, <2>3, <2>4, <2>5 DEF ThreadOK, WritesMemory, WritesRecord,
               InsertsFirst, InsertsRecent, WritesJustified, MetaIsAudio
  <1>9. CASE UpdateMeta(p)
    <2>1. t[1].do = "upsert"
      BY <1>1, <1>9, ScriptAfter
    <2>2. p \in holder' /\ copy'[p] = mem'[r]
      BY <1>1, <1>9 DEF UpdateMeta, StateTypeOK
    <2>3. p[1] = "handler" /\ r \in AudioRuns
      <3>1. s[1].do = "meta" /\ 1 \in 1 .. Len(s)
        BY <1>3, <1>9 DEF UpdateMeta
      <3> QED BY <1>1, <3>1 DEF ThreadOK, MetaIsAudio
    <2>4. Justified(r, copy[p])'
      BY <1>6, <2>2
    <2> QED BY <1>2, <1>3, <1>4, <2>1, <2>2, <2>3, <2>4 DEF ThreadOK, WritesMemory, WritesRecord,
               InsertsFirst, Inserts, InsertsRecent, WritesJustified, MetaIsAudio
  <1>10. CASE SetRunStatus(p)
    <2>1. t[1].do = "update_row"
      BY <1>1, <1>10, ScriptAfter
    <2>2. p \in holder' /\ copy'[p] = mem'[r]
      BY <1>1, <1>10 DEF SetRunStatus, StatusInMemory, StateTypeOK
    <2>3. Terminal(mem'[r]) /\ Told(r, Announces(mem[r].status))'
      BY <1>1, <1>10, NewRecord
    <2>4. /\ Justified(r, copy[p])' /\ Terminal(copy'[p])
          /\ Told(r, Announces(copy[p].status))'
      BY <1>6, <2>2, <2>3
    <2> QED BY <1>2, <1>3, <1>4, <2>1, <2>2, <2>4 DEF ThreadOK, WritesMemory, WritesRecord,
               InsertsFirst, Inserts, InsertsRecent, WritesJustified, MetaIsAudio
  <1>11. CASE AppendEvent(p)
    <2>1. t[1].do = "append_row" /\ p \in holder'
      BY <1>1, <1>11, ScriptAfter DEF AppendEvent
    <2> QED BY <1>2, <1>3, <1>4, <2>1 DEF ThreadOK, WritesMemory, WritesRecord,
               InsertsFirst, Inserts, InsertsRecent, WritesJustified, MetaIsAudio
  <1>12. CASE UpsertRow(p)
    <2>1. holder' = holder /\ copy' = copy /\ mem' = mem
      BY <1>12 DEF UpsertRow, WriteDone, memVars
    <2>2. CASE p \in holder
      <3>1. t[1].do = "session"
        BY <1>1, <1>12, <2>2, ShapeAfter DEF Shape
      <3>2. copy[p] = mem[r] /\ Justified(r, copy[p])'
        BY <1>1, <1>6, <1>12, <2>1, <2>2 DEF ThreadOK, WritesMemory, WritesRecord, UpsertRow
      <3> QED BY <1>2, <1>3, <1>4, <2>1, <2>2, <3>1, <3>2 DEF ThreadOK, WritesMemory, WritesRecord,
                 InsertsFirst, Inserts, InsertsRecent, WritesJustified, MetaIsAudio
    <2>3. CASE p \notin holder
      <3>1. Shape(t, <<"copy", "session">>)
        BY <1>1, <1>12, <2>3, ShapeAfter
      <3>2. t[1].do = "copy" /\ \A i \in 1 .. Len(t) : t[i].do # "upsert"
        BY <3>1 DEF Shape, PlainCalls
      <3> QED BY <1>2, <1>3, <1>4, <2>1, <2>3, <3>2 DEF ThreadOK, WritesMemory, WritesRecord,
                 InsertsFirst, Inserts, InsertsRecent, WritesJustified, MetaIsAudio
    <2> QED BY <2>2, <2>3
  <1>13. CASE UpdateRow(p)
    <2>1. p \in holder /\ holder' = holder /\ copy' = copy /\ mem' = mem
      BY <1>1, <1>13, StepShape DEF UpdateRow, WriteDone, memVars
    <2>2. t[1].do = "session"
      BY <1>1, <1>13, ShapeAfter DEF Shape
    <2>3. copy[p] = mem[r] /\ Justified(r, copy[p])'
      BY <1>1, <1>6, <1>13, <2>1 DEF ThreadOK, WritesMemory, WritesRecord, UpdateRow
    <2> QED BY <1>2, <1>3, <1>4, <2>1, <2>2, <2>3 DEF ThreadOK, WritesMemory, WritesRecord,
               InsertsFirst, Inserts, InsertsRecent, WritesJustified, MetaIsAudio
  <1>14. CASE UpdateSession(p) \/ AppendRow(p)
    <2>1. Shape(t, <<>>) /\ p \notin holder'
      BY <1>1, <1>14, ShapeAfter DEF UpdateSession, AppendRow, Release
    <2>2. \A i \in 1 .. Len(t) : t[i].do \in PlainCalls
      BY <2>1 DEF Shape
    <2>3. t # <<>> => t[1].do \in PlainCalls
      BY <1>3, <2>2
    <2> QED BY <1>2, <1>3, <1>4, <2>1, <2>2, <2>3 DEF ThreadOK, WritesMemory, WritesRecord,
               InsertsFirst, Inserts, InsertsRecent, WritesJustified, MetaIsAudio, PlainCalls
  <1> QED
    BY <1>7, <1>8, <1>9, <1>10, <1>11, <1>12, <1>13, <1>14 DEF Perform

\* The finalizer of a blocked run still knows it as announced.
LEMMA BlockedCalls ==
  ASSUME StorageInv, NEW p \in Procs, Perform(p), outcome' = outcome, NEW r \in Runs
  PROVE  BlockedIsTold(r)'
  <1> DEFINE w == Worker(r)
  <1>1. /\ Inv /\ ThreadsOK /\ StateTypeOK /\ w \in Procs /\ RunOf(w) = r
        /\ BlockedIsTold(r) /\ ThreadOK(w)
    BY InvFacts, ProcTypes DEF RecordOK, RunOf, Worker
  <1> SUFFICES ASSUME outcome[r].blocked, pc'[w] \in Monitoring
               PROVE  Promised(w, "run.blocked", Len(todo[w]) + 1)'
    BY DEF BlockedIsTold
  <1>2. ~(p = w /\ DatabaseFault(p))
    BY <1>1 DEF DatabaseFault, Continue, ThreadsOK, Monitoring
  <1>3. pc'[w] = pc[w]
    <2>1. CASE p # w
      BY <1>1, <2>1, PerformScripts
    <2>2. CASE p = w
      BY <1>2, <2>2 DEF Perform, PutRun, ReadRecord, UpdateMeta, SetRunStatus, AppendEvent,
         UpsertRow, UpdateRow, UpdateSession, AppendRow, WriteDone
    <2> QED BY <2>1, <2>2
  <1>4. Promised(w, "run.blocked", Len(todo[w]) + 1)
    BY <1>1, <1>3 DEF BlockedIsTold
  <1>5. ~(PutRun(p) /\ RunOf(p) = r)
    <2> SUFFICES ASSUME PutRun(p), RunOf(p) = r PROVE FALSE
      OBVIOUS
    <2>1. ~Known(mem[r])
      BY <1>1, CallerKnown DEF Unknown
    <2>2. pc[w] = "idle"
      BY <1>1, <2>1, BusyKnown DEF Opens, Worker, Idle
    <2> QED BY <1>3, <2>2 DEF Monitoring
  <1>6. CASE p # w
    <2>1. todo'[w] = todo[w]
      BY <1>1, <1>6, PerformScripts
    <2>2. \A e : Told(r, e) => Told(r, e)'
      <3>1. CASE PutRun(p)
        BY <1>1, <1>5, <3>1, CallEffect DEF Told, HasEvent
      <3> QED BY <1>1, <3>1, LogGrows
    <2>3. Next0(w, "append_row") => StoredEvent(r)' = StoredEvent(r)
      BY <1>1, <1>6, StepShape, CallEffect DEF ThreadOK, StoredEvent
    <2> QED BY <1>1, <1>4, <2>1, <2>2, <2>3 DEF Promised, Next0, Head0
  <1>7. CASE p = w
    <2>1. ~PutRun(p) /\ ~DatabaseFault(p)
      BY <1>1, <1>2, <1>5, <1>7
    <2>2. PICK k \in {-1, 0, 1} : Writing(p, k)
      BY <1>1, <2>1, ScriptAfter
    <2>3. Len(todo[p]) \in Nat \ {0}
      BY <1>1, <2>1, ScriptAfter
    <2>4. Len(todo[p]) + 1 \in 2 .. Len(todo[p]) + 1
      BY <2>3
    <2>5. Promised(p, "run.blocked", Len(todo[p]) + 1)'
      <3> PICK i \in 2 .. Len(todo[p]) + 1 : i = Len(todo[p]) + 1
        BY <2>4
      <3>1. Promised(p, "run.blocked", i + k)'
        BY <1>1, <1>4, <1>7, <2>1, <2>2, PromiseKept
      <3>2. i + k = Len(todo'[p]) + 1
        BY <2>2, <2>3 DEF Writing
      <3> QED BY <3>1, <3>2 DEF Promised
    <2> QED BY <1>7, <2>5
  <1> QED
    BY <1>6, <1>7

\* Rows are written from memory, or are the first of their run.
LEMMA RowCalls ==
  ASSUME StorageInv, NEW p \in Procs, Perform(p), NEW r \in Runs
  PROVE  RowNotAhead(r)' /\ Justified(r, row[r])'
  <1>1. /\ Inv /\ ThreadsOK /\ StateTypeOK /\ RunOf(p) \in Runs
        /\ ThreadOK(p) /\ RowNotAhead(r) /\ Justified(r, row[r]) /\ mem[r] \in RunRec
    BY InvFacts DEF RecordOK
  <1>2. /\ Terminal(mem[r]) => Terminal(mem'[r])
        /\ ~PutRun(p) => \A rec : Justified(r, rec) => Justified(r, rec)'
    BY <1>1, NewRecord
  <1>3. CASE r = RunOf(p) /\ (UpsertRow(p) \/ UpdateRow(p))
    <2>1. mem' = mem /\ ~PutRun(p)
      BY <1>3 DEF UpsertRow, UpdateRow, WriteDone, memVars, PutRun, Next0
    <2>2. row'[r] = copy[p] \/ row'[r] = row[r]
      BY <1>1, <1>3 DEF UpsertRow, UpdateRow, StateTypeOK
    <2>3. Terminal(copy[p]) => Terminal(mem[r])
      BY <1>1, <1>3, StepShape DEF ThreadOK, WritesMemory, WritesRecord, InsertsRecent, UpsertRow,
         UpdateRow
    <2>4. Justified(r, copy[p])
      BY <1>1, <1>3 DEF ThreadOK, WritesJustified, WritesRecord, UpsertRow, UpdateRow
    <2>5. \A rec : Justified(r, rec) => Justified(r, rec)'
      BY <1>2, <2>1
    <2>6. PICK new : new = row'[r]
      OBVIOUS
    <2>7. Justified(r, new)'
      BY <1>1, <2>2, <2>4, <2>5, <2>6
    <2> QED BY <1>1, <2>1, <2>2, <2>3, <2>6, <2>7 DEF RowNotAhead, Justified, RejectedAtOnce
  <1>4. CASE ~(r = RunOf(p) /\ (UpsertRow(p) \/ UpdateRow(p)))
    <2>1. row'[r] = row[r]
      BY <1>1, <1>4, CallEffect
    <2>2. CASE PutRun(p) /\ r = RunOf(p)
      BY <1>1, <2>1, <2>2, CallerKnown DEF Unknown, Known, Terminal, TerminalStatuses, RowNotAhead,
         Justified
    <2>3. CASE PutRun(p) /\ r # RunOf(p)
      BY <1>1, <2>1, <2>3, CallEffect DEF RowNotAhead, Justified, RejectedAtOnce, Told, HasEvent
    <2>4. CASE ~PutRun(p)
      <3>1. ~Known(mem[r]) => ~Known(mem'[r])
        BY <1>1, <2>4, CallerKnown, CallEffect
      <3> QED BY <1>1, <1>2, <2>1, <2>4, <3>1 DEF RowNotAhead, Justified, RejectedAtOnce
    <2> QED BY <2>2, <2>3, <2>4
  <1> QED
    BY <1>3, <1>4

\* A call, whoever makes it, keeps the invariant.
LEMMA PerformStorage ==
  ASSUME StorageInv, NEW p \in Procs, Perform(p), outcome' = outcome
  PROVE  /\ \A q, x \in holder' : q = x
         /\ \A q \in Procs : ThreadOK(q)'
         /\ \A r \in Runs : RecordOK(r)'
  <1>1. /\ Inv /\ ThreadsOK /\ StateTypeOK
        /\ \A q, x \in holder : q = x
    BY InvFacts
  <1>2. \A q, x \in holder' : q = x
    BY <1>1, CallEffect
  <1>3. ASSUME NEW q \in Procs PROVE ThreadOK(q)'
    <2>1. CASE q # p
      BY <2>1, OtherCalls
    <2>2. CASE q = p /\ ~DatabaseFault(p)
      BY <2>2, OwnCall
    <2>3. CASE q = p /\ DatabaseFault(p)
      <3>1. todo'[q] = <<>> /\ q \notin holder'
        BY <1>1, <2>3 DEF DatabaseFault, Release, Continue, ThreadsOK
      <3> QED BY <3>1, IdleThread
    <2> QED BY <2>1, <2>2, <2>3
  <1>4. ASSUME NEW r \in Runs PROVE RecordOK(r)'
    BY NewRecord, RowCalls, BlockedCalls DEF RecordOK
  <1> QED
    BY <1>2, <1>3, <1>4

---------------------------------------------------------------------------
(* The scripts that threads choose.                                        *)

\* Script s of calls by p announces an end before it records it.
Announced(p, s, e, i) == \/ Told(RunOf(p), e)
                         \/ \E j \in 1 .. i - 1 : s[j].do = "append" /\ s[j].event = e
Harmless(p, s) ==
    \A i \in 1 .. Len(s) :
        /\ s[i].do \in PlainCalls
        /\ s[i].do = "meta" => p[1] = "handler" /\ RunOf(p) \in AudioRuns
        /\ s[i].do = "status" => Announced(p, s, Announces(s[i].rec.status), i)

\* p chooses a harmless script.
Chooses(p) == \E s, l : Continue(p, s, l) /\ todo[p] = <<>> /\ Harmless(p, s)

\* A thread that chooses a harmless script disturbs nobody; only what is
\* promised to its own monitor is left to show.
LEMMA ChoiceKeeps ==
  ASSUME StorageInv, ThreadsOK', NEW p \in Procs, Chooses(p),
         UNCHANGED <<mem, events, row, rowEvents, holder, copy>>
  PROVE  /\ \A q, x \in holder' : q = x
         /\ \A q \in Procs : ThreadOK(q)'
         /\ \A r \in Runs : /\ RowNotAhead(r)' /\ Justified(r, mem[r])' /\ Justified(r, row[r])'
                            /\ Worker(r) # p /\ outcome'[r] = outcome[r] => BlockedIsTold(r)'
  <1>1. PICK s, l : Continue(p, s, l) /\ todo[p] = <<>> /\ Harmless(p, s)
    BY DEF Chooses
  <1>2. /\ Inv /\ ThreadsOK /\ \A q, x \in holder : q = x
        /\ \A q \in Procs : ThreadOK(q) /\ RunOf(q) \in Runs
        /\ \A r \in Runs : RecordOK(r)
    BY InvFacts
  <1>3. /\ todo'[p] = s
        /\ \A q \in Procs \ {p} : todo'[q] = todo[q] /\ pc'[q] = pc[q]
    BY <1>1, <1>2 DEF Continue, ThreadsOK
  <1>4. \A r, e : Told(r, e)' <=> Told(r, e)
    BY DEF Told, HasEvent
  <1>5. p \notin holder
    BY <1>1, <1>2 DEF ThreadOK, ScriptInTurn, Shape, LockedWrites
  <1>6. ThreadOK(p)'
    <2>1. Len(s) \in Nat /\ (s # <<>> => 1 \in 1 .. Len(s))
      BY <1>3, EmptySeq, LenProperties DEF ThreadsOK
    <2>2. \A i \in 1 .. Len(s) : s[i].do \in PlainCalls
      BY <1>1 DEF Harmless
    <2>3. Shape(s, <<>>)
      BY <2>1, <2>2 DEF Shape
    <2>4. EndsAreTold(p)'
      BY <1>1, <1>3, <1>4 DEF EndsAreTold, Promised, Harmless, Announced
    <2>5. MetaIsAudio(p)'
      BY <1>1, <1>3, <1>5, <2>1, <2>2 DEF MetaIsAudio, Harmless, Next0, Head0, PlainCalls
    <2> QED BY <1>3, <1>5, <2>1, <2>2, <2>3, <2>4, <2>5 DEF ThreadOK, ScriptInTurn, WritesMemory,
               WritesRecord, InsertsFirst, Inserts, InsertsRecent, WritesJustified, Next0, Head0,
               PlainCalls
  <1>7. ASSUME NEW q \in Procs \ {p} PROVE ThreadOK(q)'
    <2>1. StoredEvent(RunOf(q))' = StoredEvent(RunOf(q))
      BY DEF StoredEvent
    <2> QED BY <1>2, <1>3, <1>4, <2>1, OtherThread
  <1>8. ASSUME NEW r \in Runs
        PROVE  /\ RowNotAhead(r)' /\ Justified(r, mem[r])' /\ Justified(r, row[r])'
               /\ Worker(r) # p /\ outcome'[r] = outcome[r] => BlockedIsTold(r)'
    <2>1. RowNotAhead(r)' /\ Justified(r, mem[r])' /\ Justified(r, row[r])'
      BY <1>2, <1>4 DEF RecordOK, RowNotAhead, Justified, RejectedAtOnce
    <2>2. ASSUME Worker(r) # p, outcome'[r] = outcome[r] PROVE BlockedIsTold(r)'
      <3>1. Worker(r) \in Procs
        BY ProcTypes
      <3>2. StoredEvent(r)' = StoredEvent(r)
        BY DEF StoredEvent
      <3>3. RunOf(Worker(r)) = r
        BY DEF RunOf, Worker
      <3> QED BY <1>2, <1>3, <1>4, <2>2, <3>1, <3>2, <3>3 DEF RecordOK, BlockedIsTold, Promised, Next0,
                 Head0
    <2> QED BY <2>1, <2>2
  <1> QED
    BY <1>2, <1>6, <1>7, <1>8

\* Scripts by the number of their calls.
LEMMA HarmlessScripts ==
  ASSUME NEW p
  PROVE  /\ Harmless(p, <<>>)
         /\ \A a : Harmless(p, <<Emit(a)>>)
         /\ \A a, b : Harmless(p, <<Emit(a), Emit(b)>>)
         /\ \A a, b, c : Harmless(p, <<Emit(a), Emit(b), Emit(c)>>)
         /\ \A a, b, c, d : Harmless(p, <<Emit(a), Emit(b), Emit(c), Emit(d)>>)
         /\ \A a, b, c, d, f : Harmless(p, <<Emit(a), Emit(b), Emit(c), Emit(d), Emit(f)>>)
  <1>1. \A a : Emit(a).do = "append"
    BY DEF Emit
  <1>2. Harmless(p, <<>>) /\ \A a : Harmless(p, <<Emit(a)>>)
    BY <1>1 DEF Harmless, PlainCalls
  <1>3. \A a, b : Harmless(p, <<Emit(a), Emit(b)>>)
    BY <1>1 DEF Harmless, PlainCalls
  <1>4. \A a, b, c : Harmless(p, <<Emit(a), Emit(b), Emit(c)>>)
    BY <1>1 DEF Harmless, PlainCalls
  <1>5. \A a, b, c, d : Harmless(p, <<Emit(a), Emit(b), Emit(c), Emit(d)>>)
    BY <1>1 DEF Harmless, PlainCalls
  <1>6. \A a, b, c, d, f : Harmless(p, <<Emit(a), Emit(b), Emit(c), Emit(d), Emit(f)>>)
    BY <1>1 DEF Harmless, PlainCalls
  <1> QED
    BY <1>2, <1>3, <1>4, <1>5, <1>6

\* The end comes last, after its event.
LEMMA HarmlessEnds ==
  ASSUME NEW p, NEW o, o.do = "status"
  PROVE  LET e == Announces(o.rec.status) IN
         /\ Harmless(p, <<Emit(e), o>>)
         /\ \A a : Harmless(p, <<Emit(a), Emit(e), o>>)
         /\ \A a, b : Harmless(p, <<Emit(a), Emit(b), Emit(e), o>>)
         /\ \A a, b, c : Harmless(p, <<Emit(a), Emit(b), Emit(c), Emit(e), o>>)
         /\ Told(RunOf(p), e) => Harmless(p, <<o>>)
  <1> PICK e : e = Announces(o.rec.status)
    OBVIOUS
  <1>1. \A a : Emit(a).do = "append" /\ Emit(a).event = a
    BY DEF Emit
  <1>2. Harmless(p, <<Emit(e), o>>)
    BY <1>1 DEF Harmless, PlainCalls, Announced
  <1>3. \A a : Harmless(p, <<Emit(a), Emit(e), o>>)
    BY <1>1 DEF Harmless, PlainCalls, Announced
  <1>4. \A a, b : Harmless(p, <<Emit(a), Emit(b), Emit(e), o>>)
    BY <1>1 DEF Harmless, PlainCalls, Announced
  <1>5. \A a, b, c : Harmless(p, <<Emit(a), Emit(b), Emit(c), Emit(e), o>>)
    BY <1>1 DEF Harmless, PlainCalls, Announced
  <1>6. Told(RunOf(p), e) => Harmless(p, <<o>>)
    BY <1>1 DEF Harmless, PlainCalls, Announced
  <1> QED
    BY <1>2, <1>3, <1>4, <1>5, <1>6

\* One harmless script after the other.
LEMMA HarmlessJoin ==
  ASSUME NEW p, NEW s \in Seq(Op), NEW t \in Seq(Op), Harmless(p, s), Harmless(p, t)
  PROVE  Harmless(p, s \o t)
  <1> DEFINE m == Len(s)
             n == Len(t)
  <1>1. m \in Nat /\ n \in Nat
    BY LenProperties
  <1>2. /\ Len(s \o t) = m + n
        /\ \A i \in 1 .. m + n : (s \o t)[i] = IF i <= m THEN s[i] ELSE t[i - m]
    BY ConcatProperties
  <1>3. \A i \in 1 .. m : (s \o t)[i] = s[i]
    BY <1>1, <1>2
  <1>4. \A i \in 1 .. n : i + m \in 1 .. m + n /\ ~(i + m <= m) /\ (i + m) - m = i
    BY <1>1
  <1>5. \A i \in 1 .. n : (s \o t)[i + m] = t[i]
    BY <1>2, <1>4
  <1>6. ASSUME NEW i \in 1 .. m + n PROVE i \in 1 .. m \/ (i - m \in 1 .. n /\ (i - m) + m = i)
    BY <1>1
  <1> HIDE DEF m, n
  <1> SUFFICES ASSUME NEW i \in 1 .. m + n
               PROVE  /\ (s \o t)[i].do \in PlainCalls
                      /\ (s \o t)[i].do = "meta" => p[1] = "handler" /\ RunOf(p) \in AudioRuns
                      /\ (s \o t)[i].do = "status" =>
                           Announced(p, s \o t, Announces((s \o t)[i].rec.status), i)
    BY <1>2 DEF Harmless
  <1>7. CASE i \in 1 .. m
    <2>0. i \in 1 .. m /\ \A j \in 1 .. i - 1 : j \in 1 .. m
      BY <1>1, <1>7
    <2>1. (s \o t)[i] = s[i] /\ \A j \in 1 .. i - 1 : (s \o t)[j] = s[j]
      BY <1>3, <2>0
    <2>2. /\ s[i].do \in PlainCalls
          /\ s[i].do = "meta" => p[1] = "handler" /\ RunOf(p) \in AudioRuns
          /\ s[i].do = "status" => Announced(p, s, Announces(s[i].rec.status), i)
      BY <1>7 DEF Harmless, m
    <2> QED BY <2>1, <2>2 DEF Announced
  <1>8. CASE i - m \in 1 .. n /\ (i - m) + m = i
    <2> PICK h \in 1 .. n : h = i - m
      BY <1>8
    <2>1. (s \o t)[i] = t[h] /\ i = h + m
      BY <1>1, <1>5, <1>8
    <2>2. /\ t[h].do \in PlainCalls
          /\ t[h].do = "meta" => p[1] = "handler" /\ RunOf(p) \in AudioRuns
          /\ t[h].do = "status" => Announced(p, t, Announces(t[h].rec.status), h)
      BY DEF Harmless, n
    <2>3. ASSUME NEW e, Announced(p, t, e, h) PROVE Announced(p, s \o t, e, i)
      <3>1. CASE \E j \in 1 .. h - 1 : t[j].do = "append" /\ t[j].event = e
        <4>1. PICK j \in 1 .. h - 1 : t[j].do = "append" /\ t[j].event = e
          BY <3>1
        <4>2. j \in 1 .. n /\ j + m \in 1 .. i - 1
          BY <1>1, <2>1
        <4>3. (s \o t)[j + m] = t[j]
          BY <1>5, <4>2
        <4> QED BY <4>1, <4>2, <4>3 DEF Announced
      <3> QED BY <2>3, <3>1 DEF Announced
    <2> QED BY <2>1, <2>2, <2>3
  <1> QED
    BY <1>6, <1>7, <1>8

\* The scripts of an audio request, which also update the metadata.
LEMMA HarmlessMeta ==
  ASSUME NEW p, p[1] = "handler", RunOf(p) \in AudioRuns, NEW m, m.do = "meta",
         NEW o, o.do = "status"
  PROVE  /\ Harmless(p, <<m, Emit(Announces(o.rec.status)), o>>)
         /\ \A a : Harmless(p, <<Emit(a), m>>)
  <1> PICK e : e = Announces(o.rec.status)
    OBVIOUS
  <1>1. \A a : Emit(a).do = "append" /\ Emit(a).event = a
    BY DEF Emit
  <1>2. Harmless(p, <<m, Emit(e), o>>)
    BY <1>1 DEF Harmless, PlainCalls, Announced
  <1>3. \A a : Harmless(p, <<Emit(a), m>>)
    BY <1>1 DEF Harmless, PlainCalls
  <1> QED
    BY <1>2, <1>3

\* What a request does that is not a call.
StoresNew(r) == \E st \in {"running", "rejected"}, sum \in Summaries,
                   t \in {<<>>, <<Emit("run.failed")>>, <<Emit("activity")>>}, l \in Labels :
                   /\ Continue(Handler(r), Store(Record(st, sum)) \o t, l)
                   /\ st = "rejected" => r \in TextRuns
                   /\ Idle(Handler(r)) /\ Unknown(r)

\* A request stores its new run, starts its worker, or chooses harmless calls.
LEMMA SubmissionChooses ==
  ASSUME AudioOnly, NEW r \in Runs, Submission(r)
  PROVE  \/ Chooses(Handler(r)) \/ Chooses(Canceller(r))
         \/ StoresNew(r) \/ Launch(r)
  <1> DEFINE h == Handler(r)
             c == Canceller(r)
  <1>1. h[1] = "handler" /\ RunOf(h) = r /\ RunOf(c) = r
    BY DEF Handler, Canceller, RunOf
  <1>2. \A p : /\ Harmless(p, <<>>) /\ Harmless(p, FailedScript)
               /\ Harmless(p, LaunchFailedScript) /\ Harmless(p, CancelledScript)
    <2> SUFFICES ASSUME NEW p
                 PROVE  /\ Harmless(p, <<>>) /\ Harmless(p, FailedScript)
                        /\ Harmless(p, LaunchFailedScript) /\ Harmless(p, CancelledScript)
      OBVIOUS
    <2>1. /\ SetStatus("failed").do = "status"
          /\ Announces(SetStatus("failed").rec.status) = "run.failed"
          /\ SetStatus("cancelled").do = "status"
          /\ Announces(SetStatus("cancelled").rec.status) = "run.cancelled"
      BY DEF SetStatus, Record, Announces
    <2>2. Harmless(p, FailedScript) /\ Harmless(p, LaunchFailedScript)
      BY <2>1, HarmlessEnds DEF FailedScript, LaunchFailedScript
    <2>3. Harmless(p, CancelledScript)
      BY <2>1, HarmlessEnds DEF CancelledScript
    <2> QED BY <2>2, <2>3, HarmlessScripts
  <1>3. CASE RejectText(r)
    BY <1>3 DEF RejectText, StoresNew, AtBranch, Idle, Summaries, Labels
  <1>4. CASE AcceptText(r)
    <2>1. Continue(h, Store(Record("running", "Run started")) \o <<>>, "launch")
      <3>1. Record("running", "Run started") \in RunRec
        BY RecordTypes DEF Statuses, Summaries
      <3> QED BY <1>4, <3>1, StoreScript DEF AcceptText
    <2> QED BY <1>4, <2>1 DEF AcceptText, StoresNew, AtBranch, Idle, Summaries, Labels
  <1>5. CASE CreateTranscribingRun(r)
    BY <1>5 DEF CreateTranscribingRun, StoresNew, AtBranch, Idle, Summaries, Labels
  <1>6. CASE \/ LaunchFails(r) \/ UploadTooLarge(r) \/ ReadUpload(r) \/ Transcribe(r)
             \/ PrepareFails(r) \/ CheckCancelled(r) \/ MarkCancelled(h) \/ MarkCancelled(c)
             \/ CancelRun(r) \/ DispatchToAudio(r) \/ RequestRaises(h) \/ RequestRaises(c)
    BY <1>2, <1>6 DEF LaunchFails, UploadTooLarge, ReadUpload, Transcribe, PrepareFails,
       CheckCancelled, MarkCancelled, CancelRun, RequestCancel, DispatchToAudio, RequestRaises,
       AtBranch, Chooses
  <1>7. CASE RejectPrecreated(r) \/ AcceptPrecreated(r)
    <2>1. /\ Meta("outcome").do = "meta" /\ Meta("Run started").do = "meta"
          /\ SetStatus("rejected").do = "status"
          /\ Announces(SetStatus("rejected").rec.status) = "run.failed"
          /\ \A a : Emit(a).do = "append" /\ Emit(a).event = a
      BY DEF Meta, SetStatus, Record, Announces, Emit
    <2>2. r \in AudioRuns
      BY <1>7 DEF RejectPrecreated, AcceptPrecreated, AtBranch, AudioOnly, AudioPlaces
    <2>3. Harmless(Handler(r), <<Meta("outcome"), Emit("run.failed"), SetStatus("rejected")>>)
      BY <1>1, <2>1, <2>2, HarmlessMeta
    <2>4. Harmless(Handler(r), <<Emit("activity"), Meta("Run started")>>)
      BY <1>1, <2>1, <2>2, HarmlessMeta
    <2> QED BY <1>7, <2>3, <2>4 DEF RejectPrecreated, AcceptPrecreated, AtBranch, Chooses
  <1> QED
    BY <1>3, <1>4, <1>5, <1>6, <1>7 DEF Submission

\* Where the elements of a concatenation come from.
LEMMA ConcatAt ==
  ASSUME NEW S, NEW s \in Seq(S), NEW t \in Seq(S), NEW n, Len(s) = n
  PROVE  /\ Len(s \o t) = n + Len(t)
         /\ \A i \in 1 .. n + Len(t) : (s \o t)[i] = IF i <= n THEN s[i] ELSE t[i - n]
  BY ConcatProperties

\* The calls of store_run and what follows them.
LEMMA StoreCalls ==
  ASSUME NEW rec \in RunRec,
         NEW t \in {<<>>, <<Emit("run.failed")>>, <<Emit("activity")>>}
  PROVE  LET s == Store(rec) \o t IN
         /\ Shape(s, <<"put", "copy", "upsert", "copy", "session">>)
         /\ s # <<>> /\ s[1].do = "put" /\ s[1].rec = rec
         /\ \A i \in 1 .. Len(s) : s[i].do \notin {"meta", "status"}
  <1> DEFINE w == <<"put", "copy", "upsert", "copy", "session">>
  <1>1. /\ Len(Store(rec)) = 5
        /\ Store(rec)[1].do = "put" /\ Store(rec)[1].rec = rec
        /\ Store(rec)[2].do = "copy" /\ Store(rec)[3].do = "upsert"
        /\ Store(rec)[4].do = "copy" /\ Store(rec)[5].do = "session"
    BY DEF Store, Call
  <1>2. /\ Store(rec) \in Seq(Op) /\ t \in Seq(Op)
        /\ Store(rec) \o t # <<>>
    BY StoreScript, Tuples, SafeCalls, SafeIsOp
  <1>3. Len(t) \in {0, 1} /\ \A i \in 1 .. Len(t) : t[i].do = "append"
    BY DEF Emit
  <1>4. /\ Len(Store(rec) \o t) = 5 + Len(t)
        /\ \A i \in 1 .. 5 + Len(t) :
             (Store(rec) \o t)[i] = IF i <= 5 THEN Store(rec)[i] ELSE t[i - 5]
    <2>0. PICK n : n = 5
      OBVIOUS
    <2>1. Len(Store(rec)) = n
      BY <1>1, <2>0
    <2>2. /\ Len(Store(rec) \o t) = n + Len(t)
          /\ \A i \in 1 .. n + Len(t) :
               (Store(rec) \o t)[i] = IF i <= n THEN Store(rec)[i] ELSE t[i - n]
      BY <1>2, <2>1, ConcatAt
    <2> QED BY <2>0, <2>2
  <1>5. \A i \in 6 .. 5 + Len(t) : (Store(rec) \o t)[i].do = "append"
    BY <1>3, <1>4
  <1>6. \A i \in 1 .. 5 : (Store(rec) \o t)[i] = Store(rec)[i]
    BY <1>3, <1>4
  <1>7. \A i \in 1 .. 5 + Len(t) : i \in 6 .. 5 + Len(t) \/ i = 1 \/ i = 2 \/ i = 3 \/ i = 4 \/ i = 5
    BY <1>3
  <1>8. Shape(Store(rec) \o t, <<"put", "copy", "upsert", "copy", "session">>)
    BY <1>1, <1>3, <1>4, <1>5, <1>6 DEF Shape, PlainCalls
  <1> QED
    BY <1>1, <1>2, <1>3, <1>4, <1>5, <1>6, <1>7, <1>8

\* A handler that begins to store a run keeps the invariant.
LEMMA StoreKeeps ==
  ASSUME StorageInv, ThreadsOK', NEW r \in Runs, StoresNew(r),
         UNCHANGED <<mem, events, row, rowEvents, holder, copy, outcome>>
  PROVE  /\ \A q, x \in holder' : q = x
         /\ \A q \in Procs : ThreadOK(q)'
         /\ \A x \in Runs : RecordOK(x)'
  <1> DEFINE p == Handler(r)
  <1>1. PICK st \in {"running", "rejected"}, sum \in Summaries,
             t \in {<<>>, <<Emit("run.failed")>>, <<Emit("activity")>>}, l \in Labels :
           /\ Continue(p, Store(Record(st, sum)) \o t, l)
           /\ st = "rejected" => r \in TextRuns
           /\ Idle(p) /\ Unknown(r)
    BY DEF StoresNew
  <1> DEFINE rec == Record(st, sum)
             s == Store(rec) \o t
  <1>2. /\ Inv /\ ThreadsOK /\ \A q, x \in holder : q = x
        /\ \A q \in Procs : ThreadOK(q) /\ RunOf(q) \in Runs
        /\ \A x \in Runs : RecordOK(x)
        /\ p \in Procs /\ RunOf(p) = r /\ p[1] = "handler"
    BY InvFacts, ProcTypes DEF RunOf, Handler
  <1>3. /\ todo'[p] = s
        /\ \A q \in Procs \ {p} : todo'[q] = todo[q] /\ pc'[q] = pc[q]
    BY <1>1, <1>2 DEF Continue, ThreadsOK
  <1>4. \A x, e : Told(x, e)' <=> Told(x, e)
    BY DEF Told, HasEvent
  <1>5. p \notin holder
    BY <1>1, <1>2 DEF ThreadOK, ScriptInTurn, Shape, LockedWrites, Idle
  <1>6. ThreadOK(p)'
    <2>1. rec \in RunRec /\ rec.status = st
      BY RecordTypes DEF Record, Statuses, TerminalStatuses
    <2>2. /\ Shape(s, <<"put", "copy", "upsert", "copy", "session">>)
          /\ s # <<>> /\ s[1].do = "put" /\ s[1].rec = rec
          /\ \A i \in 1 .. Len(s) : s[i].do \notin {"meta", "status"}
      BY <2>1, StoreCalls
    <2> QED BY <1>1, <1>2, <1>3, <1>5, <2>1, <2>2 DEF ThreadOK, ScriptInTurn, StoreWrites,
               WritesMemory, WritesRecord, InsertsFirst, InsertsRecent, WritesJustified, MetaIsAudio,
               EndsAreTold, Next0, Head0, Unknown
  <1>7. ASSUME NEW q \in Procs \ {p} PROVE ThreadOK(q)'
    <2>1. StoredEvent(RunOf(q))' = StoredEvent(RunOf(q))
      BY DEF StoredEvent
    <2> QED BY <1>2, <1>3, <1>4, <2>1, OtherThread
  <1>8. ASSUME NEW x \in Runs PROVE RecordOK(x)'
    <2>1. RowNotAhead(x)' /\ Justified(x, mem[x])' /\ Justified(x, row[x])'
      BY <1>2, <1>4 DEF RecordOK, RowNotAhead, Justified, RejectedAtOnce
    <2>2. BlockedIsTold(x)'
      <3>1. Worker(x) \in Procs /\ Worker(x) # p
        BY ProcTypes DEF Worker, Handler
      <3>2. StoredEvent(x)' = StoredEvent(x)
        BY DEF StoredEvent
      <3>3. RunOf(Worker(x)) = x
        BY DEF RunOf, Worker
      <3> QED BY <1>2, <1>3, <1>4, <3>1, <3>2, <3>3 DEF RecordOK, BlockedIsTold, Promised, Next0,
                 Head0
    <2> QED BY <2>1, <2>2 DEF RecordOK
  <1> QED
    BY <1>2, <1>6, <1>7, <1>8

\* What a worker chooses is harmless, and when it goes on as blocked, that has
\* been announced or is about to be.
WorkerChooses(r) ==
    \E s, l : /\ Continue(Worker(r), s, l)
              /\ Harmless(Worker(r), s)
              /\ outcome'[r].blocked /\ l \in Monitoring =>
                    \/ Told(r, "run.blocked")
                    \/ \E i \in 1 .. Len(s) : s[i].do = "append" /\ s[i].event = "run.blocked"

\* The finalizer announces what it records; a blocked run was announced when
\* its message came.
LEMMA FinalizeChooses ==
  ASSUME StorageInv, NEW r \in Runs, Finalize(r)
  PROVE  \E s : Continue(Worker(r), s, "sync") /\ Harmless(Worker(r), s)
  <1> DEFINE w == Worker(r)
  <1>1. /\ \A st \in {"completed", "failed", "cancelled", "blocked"} :
             SetStatus(st).do = "status" /\ SetStatus(st).rec.status = st
        /\ Announces("completed") = "run.completed" /\ Announces("failed") = "run.failed"
        /\ Announces("cancelled") = "run.cancelled" /\ Announces("blocked") = "run.blocked"
    BY DEF SetStatus, Record, Announces
  <1>2. outcome[r].blocked => Told(r, "run.blocked")
    <2>1. todo[w] = <<>> /\ pc[w] \in Monitoring /\ RunOf(w) = r
      BY DEF Finalize, At, AtBranch, Monitoring, RunOf, Worker
    <2>2. BlockedIsTold(r)
      BY InvFacts DEF RecordOK
    <2>3. Len(todo[w]) + 1 - 1 = 0
      BY <2>1
    <2> QED BY <2>1, <2>2, <2>3 DEF BlockedIsTold, Promised, Next0
  <1> DEFINE cancelledEnd == <<Emit("run.cancelled"), SetStatus("cancelled")>>
             failedEnd == <<Emit("run.failed"), SetStatus("failed")>>
             explainedEnd == <<Emit("chat"), Emit("run.failed"), SetStatus("failed")>>
             completedEnd == <<Emit("run.completed"), SetStatus("completed")>>
             done1 == <<Emit("action.completed")>>
             done2 == <<Emit("activity"), Emit("action.completed")>>
  <1>3. /\ Harmless(w, cancelledEnd)
        /\ Harmless(w, done1 \o cancelledEnd)
        /\ Told(r, "run.blocked") => Harmless(w, done1 \o <<SetStatus("blocked")>>)
        /\ Harmless(w, done2 \o explainedEnd)
        /\ Harmless(w, done2 \o completedEnd)
        /\ Harmless(w, done2 \o failedEnd)
    <2>1. RunOf(w) = r
      BY DEF RunOf, Worker
    <2>2. /\ Harmless(w, done1) /\ Harmless(w, done2) /\ Harmless(w, cancelledEnd)
          /\ Harmless(w, failedEnd) /\ Harmless(w, explainedEnd) /\ Harmless(w, completedEnd)
      BY <1>1, HarmlessScripts, HarmlessEnds
    <2>3. Told(r, "run.blocked") => Harmless(w, <<SetStatus("blocked")>>)
      BY <1>1, <2>1, HarmlessEnds
    <2>4. /\ done1 \in Seq(Op) /\ done2 \in Seq(Op) /\ cancelledEnd \in Seq(Op)
          /\ failedEnd \in Seq(Op) /\ explainedEnd \in Seq(Op) /\ completedEnd \in Seq(Op)
          /\ <<SetStatus("blocked")>> \in Seq(Op)
      BY SafeCalls, SafeIsOp, Tuples
    <2> HIDE DEF cancelledEnd, failedEnd, explainedEnd, completedEnd, done1, done2
    <2> QED BY <2>2, <2>3, <2>4, HarmlessJoin
  <1> QED
    BY <1>2, <1>3 DEF Finalize, Steps, Branch, UserCancelled

\* Every step of a worker chooses a harmless script, and it marks a run as
\* blocked only when that is told or about to be.
LEMMA WorkerChoice ==
  ASSUME StorageInv, NEW r \in Runs, WorkerStep(r)
  PROVE  WorkerChooses(r)
  <1> DEFINE w == Worker(r)
  <1>1. /\ todo[w] = <<>>
        /\ RunOf(w) = r /\ outcome \in [Runs -> Outcome]
        /\ Justified(r, mem[r]) /\ BlockedIsTold(r)
    BY WorkerBusy, InvFacts DEF Busy, RunOf, Worker, RecordOK, Inv, TypeOK, WorkersTypeOK
  <1>2. outcome[r].blocked /\ pc[w] \in Monitoring => Told(r, "run.blocked")
    BY <1>1 DEF BlockedIsTold, Promised, Next0
  <1>3. \A p : /\ Harmless(p, <<>>)
               /\ \A a : Harmless(p, <<Emit(a)>>)
               /\ \A a, b : Harmless(p, <<Emit(a), Emit(b)>>)
               /\ \A a, b, c : Harmless(p, <<Emit(a), Emit(b), Emit(c)>>)
               /\ \A a, b, c, d : Harmless(p, <<Emit(a), Emit(b), Emit(c), Emit(d)>>)
               /\ \A a, b, c, d, f : Harmless(p, <<Emit(a), Emit(b), Emit(c), Emit(d), Emit(f)>>)
    BY HarmlessScripts
  <1>4. /\ \A st \in {"completed", "failed", "cancelled", "rejected"} :
             SetStatus(st).do = "status" /\ SetStatus(st).rec.status = st
        /\ SetBlocked.do = "status" /\ SetBlocked.rec.status = "blocked"
        /\ Announces("completed") = "run.completed" /\ Announces("failed") = "run.failed"
        /\ Announces("cancelled") = "run.cancelled" /\ Announces("blocked") = "run.blocked"
        /\ Announces("rejected") = "run.failed"
    BY DEF SetStatus, SetBlocked, Record, Announces
  <1>5. \A s, l : Continue(w, s, l) /\ Harmless(w, s) /\ l \notin Monitoring => WorkerChooses(r)
    BY DEF WorkerChooses
  <1>6. \A s, l : /\ Continue(w, s, l) /\ Harmless(w, s)
                  /\ outcome'[r].blocked => Told(r, "run.blocked")
                  => WorkerChooses(r)
    BY DEF WorkerChooses
  <1>7. CASE CalendarBegin(r) \/ CalendarFetch(r)
    <2>1. /\ Harmless(w, <<Emit("activity"), Emit("chat"), Emit("action.completed"),
                           Emit("run.completed"), SetStatus("completed")>>)
          /\ Harmless(w, <<Emit("activity"), Emit("output"), Emit("action.completed"),
                           Emit("run.failed"), SetStatus("failed")>>)
      BY <1>4, HarmlessEnds
    <2> QED BY <1>3, <1>5, <1>7, <2>1 DEF CalendarBegin, CalendarFetch, Steps, Branch, Monitoring
  <1>8. CASE ShellBegin(r)
    <2>1. Harmless(w, <<Emit("activity"), Emit("chat"), Emit("run.failed"), SetStatus("rejected")>>)
      BY <1>4, HarmlessEnds
    <2> QED BY <1>3, <1>5, <1>8, <2>1 DEF ShellBegin, Steps, Branch, Monitoring
  <1>9. CASE ShellSucceeds(r) \/ ShellFails(r) \/ ShellStopped(r)
    <2>1. \E out \in Maybe(<<Emit("output")>>) : Branch(r, out, "shellStatus")
      BY <1>9 DEF ShellSucceeds, ShellFails, ShellStopped, ShellResult
    <2> QED BY <1>3, <1>5, <2>1 DEF Maybe, Branch, Monitoring
  <1>10. CASE ShellRaises(r) \/ ShellStatus(r)
    BY <1>3, <1>5, <1>10 DEF ShellRaises, ShellStatus, Steps, Branch, Monitoring
  <1>11. CASE ShellFlag(r)
    <2>1. /\ Harmless(w, UserCancelled)
          /\ Harmless(w, <<Emit("chat"), Emit("action.completed"), Emit("activity"),
                           Emit("run.completed"), SetStatus("completed")>>)
          /\ Harmless(w, <<Emit("chat"), Emit("action.completed"), Emit("activity"),
                           Emit("run.failed"), SetStatus("failed")>>)
      BY <1>4, HarmlessEnds DEF UserCancelled
    <2> QED BY <1>5, <1>11, <2>1 DEF ShellFlag, Steps, Branch, Monitoring
  <1>12. CASE AgentBegin(r)
    <2>1. /\ <<Emit("activity"), Emit("action.started")>> \in Seq(Op)
          /\ <<>> \in Seq(Op) /\ <<Emit("chat")>> \in Seq(Op)
      BY SafeCalls, SafeIsOp, Tuples
    <2>2. \A warn \in Maybe(<<Emit("chat")>>) :
             Harmless(w, <<Emit("activity"), Emit("action.started")>> \o warn)
      BY <1>3, <2>1, HarmlessJoin DEF Maybe
    <2> QED BY <1>3, <1>5, <1>12, <2>2 DEF AgentBegin, Steps, Branch, Monitoring
  <1>13. CASE MissingBinary(r)
    <2>1. Harmless(w, <<Emit("chat"), Emit("output"), Emit("action.completed"), Emit("run.failed"),
                        SetStatus("failed")>>)
      BY <1>4, HarmlessEnds
    <2> QED BY <1>5, <1>13, <2>1 DEF MissingBinary, Steps, Branch, Monitoring
  <1>14. CASE SpawnRaises(r) \/ SyncMemory(r)
    BY <1>3, <1>5, <1>14 DEF SpawnRaises, SyncMemory, Steps, Branch, Monitoring
  <1>15. CASE Spawn(r)
    <2>1. ~outcome'[r].blocked
      BY <1>1, <1>15 DEF Spawn, NoOutcome
    <2> QED BY <1>3, <1>6, <1>15, <2>1 DEF Spawn, Branch
  <1>16. CASE Register(r) \/ TakeLine(r) \/ NoLine(r) \/ Flush(r) \/ StopProcess(r)
    <2>1. pc[w] \in Monitoring
      BY <1>16 DEF Register, TakeLine, NoLine, Flush, StopProcess, At, AtBranch, Monitoring
    <2>2. \/ outcome' = outcome /\ \E s, l : Continue(w, s, l) /\ Harmless(w, s)
          \/ \E s : Continue(w, s, "raised") /\ Harmless(w, s)
      BY <1>3, <1>16 DEF Register, TakeLine, NoLine, Flush, StopProcess, Unreadable, Maybe, Steps,
         Branch, workerVars
    <2> QED BY <1>2, <1>5, <1>6, <2>1, <2>2 DEF Monitoring
  <1>17. CASE PollCancelled(r) \/ PollTimeout(r) \/ LateCancel(r)
    <2>1. outcome'[r].blocked = outcome[r].blocked /\ pc[w] \in Monitoring
      BY <1>1, <1>17 DEF PollCancelled, PollTimeout, LateCancel, At, AtBranch, Outcome, Monitoring
    <2> QED BY <1>2, <1>3, <1>6, <1>17, <2>1 DEF PollCancelled, PollTimeout, LateCancel, Branch
  <1>18. mem[r].status = "blocked" => Told(r, "run.blocked")
    BY <1>1, <1>4 DEF Justified, RejectedAtOnce, Terminal, TerminalStatuses
  <1>19. CASE PollStatus(r)
    <2>1. outcome'[r].blocked => mem[r].status = "blocked"
      BY <1>1, <1>19 DEF PollStatus, Outcome
    <2> QED BY <1>3, <1>6, <1>18, <1>19, <2>1 DEF PollStatus, Branch
  <1>20. CASE Unblock(r)
    <2> DEFINE s == <<Emit("activity"), Emit("run.blocked"), SetBlocked>>
    <2>1. Harmless(w, s)
      BY <1>4, HarmlessEnds
    <2>2. \E i \in 1 .. Len(s) : s[i].do = "append" /\ s[i].event = "run.blocked"
      BY DEF Emit
    <2>3. \A l : Continue(w, s, l) => WorkerChooses(r)
      BY <2>1, <2>2 DEF WorkerChooses
    <2> HIDE DEF s
    <2>4. \/ mem[r].status = "blocked" /\ \E l : Continue(w, <<>>, l)
          \/ \E l : Continue(w, s, l)
      BY <1>20 DEF Unblock, Branch, s
    <2> QED BY <1>3, <1>6, <1>18, <2>3, <2>4
  <1>21. CASE RetryWithoutResume(r)
    BY <1>3, <1>5, <1>21 DEF RetryWithoutResume, Branch, Monitoring
  <1>22. CASE Finalize(r)
    BY <1>5, <1>22, FinalizeChooses DEF Monitoring
  <1>23. CASE RecordException(r)
    <2>1. Harmless(w, <<Emit("activity"), Emit("output"), Emit("run.failed"), SetStatus("failed")>>)
      BY <1>4, HarmlessEnds
    <2> QED BY <1>3, <1>5, <1>23, <2>1 DEF RecordException, Branch, Monitoring
  <1> QED
    BY <1>7, <1>8, <1>9, <1>10, <1>11, <1>12, <1>13, <1>14, <1>15, <1>16, <1>17, <1>19, <1>20, <1>21,
       <1>22, <1>23 DEF WorkerStep, AgentStep

---------------------------------------------------------------------------
(* Every step.                                                             *)

\* A step of a worker keeps the invariant.
LEMMA WorkerKeeps ==
  ASSUME StorageInv, ThreadsOK', NEW r \in Runs, WorkerStep(r),
         UNCHANGED <<mem, events, row, rowEvents, holder, copy>>
  PROVE  /\ \A q, x \in holder' : q = x
         /\ \A q \in Procs : ThreadOK(q)'
         /\ \A x \in Runs : RecordOK(x)'
  <1> DEFINE w == Worker(r)
  <1>1. PICK s, l : /\ Continue(w, s, l)
                    /\ Harmless(w, s)
                    /\ outcome'[r].blocked /\ l \in Monitoring =>
                          \/ Told(r, "run.blocked")
                          \/ \E i \in 1 .. Len(s) : s[i].do = "append" /\ s[i].event = "run.blocked"
    BY WorkerChoice DEF WorkerChooses
  <1>2. w \in Procs /\ todo[w] = <<>> /\ RunOf(w) = r /\ ThreadsOK
    BY WorkerBusy, ProcTypes, InvFacts DEF Busy, RunOf, Worker
  <1>3. Chooses(w)
    BY <1>1, <1>2 DEF Chooses
  <1>4. todo'[w] = s /\ pc'[w] = l /\ s \in Seq(Op)
    BY <1>1, <1>2 DEF Continue, ThreadsOK
  <1>5. \A x \in Runs \ {r} : Worker(x) # w /\ outcome'[x] = outcome[x]
    <2>1. outcome \in [Runs -> Outcome]
      BY InvFacts DEF Inv, TypeOK, WorkersTypeOK
    <2>2. \A x \in Runs \ {r} : outcome'[x] = outcome[x]
      BY <2>1 DEF WorkerStep, AgentStep, CalendarBegin, CalendarFetch, ShellBegin, ShellSucceeds,
         ShellFails, ShellStopped, ShellResult, ShellRaises, ShellStatus, ShellFlag, AgentBegin,
         MissingBinary, SpawnRaises, Spawn, Register, TakeLine, NoLine, PollCancelled, PollStatus,
         PollTimeout, Unblock, Flush, Unreadable, StopProcess, LateCancel, RetryWithoutResume,
         Finalize, SyncMemory, RecordException, Steps, workerVars
    <2> QED BY <2>2 DEF Worker
  <1>6. BlockedIsTold(r)'
    <2> SUFFICES ASSUME outcome'[r].blocked, pc'[w] \in Monitoring
                 PROVE  Promised(w, "run.blocked", Len(todo[w]) + 1)'
      BY DEF BlockedIsTold
    <2>1. CASE Told(r, "run.blocked")
      BY <1>2, <2>1 DEF Promised, Told, HasEvent
    <2>2. CASE \E i \in 1 .. Len(s) : s[i].do = "append" /\ s[i].event = "run.blocked"
      <3>1. Len(s) \in Nat
        BY <1>4, LenProperties
      <3>2. \A i \in 1 .. Len(s) : i \in 1 .. (Len(s) + 1) - 1
        BY <3>1
      <3> QED BY <1>4, <2>2, <3>2 DEF Promised
    <2> QED BY <1>1, <1>4, <2>1, <2>2
  <1>7. /\ \A q, x \in holder' : q = x
        /\ \A q \in Procs : ThreadOK(q)'
        /\ \A x \in Runs : /\ RowNotAhead(x)' /\ Justified(x, mem[x])' /\ Justified(x, row[x])'
                           /\ Worker(x) # w /\ outcome'[x] = outcome[x] => BlockedIsTold(x)'
    BY <1>2, <1>3, ChoiceKeeps
  <1> QED
    BY <1>5, <1>6, <1>7 DEF RecordOK

\* A thread of another role than worker chooses.
LEMMA RequestKeeps ==
  ASSUME StorageInv, ThreadsOK', NEW p \in Procs, p[1] # "worker", Chooses(p),
         UNCHANGED <<mem, events, row, rowEvents, holder, copy, outcome>>
  PROVE  /\ \A q, x \in holder' : q = x
         /\ \A q \in Procs : ThreadOK(q)'
         /\ \A x \in Runs : RecordOK(x)'
  <1>1. \A x \in Runs : Worker(x) # p
    BY DEF Worker
  <1> QED
    BY <1>1, ChoiceKeeps DEF RecordOK

\* The places of threads change, and the worker that starts has no outcome.
LEMMA LaunchKeeps ==
  ASSUME StorageInv, NEW r \in Runs, Launch(r), outcome' = outcome
  PROVE  /\ \A q, x \in holder' : q = x
         /\ \A q \in Procs : ThreadOK(q)'
         /\ \A x \in Runs : RecordOK(x)'
  <1>1. UNCHANGED <<mem, events, row, rowEvents, holder, copy, todo>>
    BY DEF Launch, OnlyThreads, memVars, dbVars
  <1>2. /\ \A q, x \in holder : q = x
        /\ \A q \in Procs : ThreadOK(q)
        /\ \A x \in Runs : RecordOK(x)
        /\ ThreadsOK
    BY InvFacts
  <1>3. \A x, e : Told(x, e)' <=> Told(x, e)
    BY <1>1 DEF Told, HasEvent
  <1>4. \A x : StoredEvent(x)' = StoredEvent(x)
    BY <1>1 DEF StoredEvent
  <1>5. ASSUME NEW q \in Procs PROVE ThreadOK(q)'
    BY <1>1, <1>2, <1>3, <1>4, OtherThread
  <1>6. ASSUME NEW x \in Runs PROVE RecordOK(x)'
    <2>1. pc'[Worker(x)] \in Monitoring => pc[Worker(x)] \in Monitoring
      BY <1>2, ProcTypes DEF Launch, ThreadsOK, Monitoring, Worker, Handler
    <2>2. RunOf(Worker(x)) = x
      BY DEF RunOf, Worker
    <2> QED BY <1>1, <1>2, <1>3, <1>4, <2>1, <2>2 DEF RecordOK, RowNotAhead, Justified, RejectedAtOnce,
               BlockedIsTold, Promised, Next0, Head0
  <1> QED
    BY <1>1, <1>2, <1>5, <1>6

\* A run comes into memory as the database has it; nobody worked for it.
LEMMA LoadKeeps ==
  ASSUME StorageInv, ThreadsOK', NEW r \in Runs, ~Known(mem[r]), Known(row[r]),
         mem' = [mem EXCEPT ![r] = row[r]], events' = [events EXCEPT ![r] = rowEvents[r]],
         UNCHANGED <<row, rowEvents, holder, copy, outcome>>,
         \A q \in Procs : RunOf(q) = r => todo'[q] = <<>> \/ (Harmless(q, todo'[q]) /\ q[1] = "boot"),
         \A q \in Procs : RunOf(q) # r => todo'[q] = todo[q],
         \A x \in Runs : pc'[Worker(x)] = pc[Worker(x)]
  PROVE  /\ \A q, x \in holder' : q = x
         /\ \A q \in Procs : ThreadOK(q)'
         /\ \A x \in Runs : RecordOK(x)'
  <1>1. /\ Inv /\ ThreadsOK /\ StateTypeOK
        /\ \A q, x \in holder : q = x
        /\ \A q \in Procs : ThreadOK(q) /\ RunOf(q) \in Runs
        /\ \A x \in Runs : RecordOK(x)
    BY InvFacts
  <1>2. /\ mem'[r] = row[r] /\ events'[r] = rowEvents[r]
        /\ \A x \in Runs \ {r} : mem'[x] = mem[x] /\ events'[x] = events[x]
    BY <1>1 DEF StateTypeOK
  <1>3. \A x \in Runs : \A e : Told(x, e)' <=> Told(x, e)
    BY <1>2 DEF Told, HasEvent
  <1>4. ASSUME NEW q \in Procs, RunOf(q) = r PROVE Idle(q)
    BY <1>1, <1>4, BusyKnown DEF Inv, OpensNew, Unknown
  <1>5. ASSUME NEW q \in Procs PROVE ThreadOK(q)'
    <2>1. CASE RunOf(q) = r
      <3>1. q \notin holder
        BY <1>1, <1>4, <2>1 DEF ThreadOK, ScriptInTurn, Shape, LockedWrites, Idle
      <3>2. CASE todo'[q] = <<>>
        BY <3>1, <3>2, IdleThread
      <3>3. CASE Harmless(q, todo'[q]) /\ q[1] = "boot"
        <4> DEFINE s == todo'[q]
        <4>1. Len(s) \in Nat /\ (s # <<>> => 1 \in 1 .. Len(s))
          BY EmptySeq, LenProperties DEF ThreadsOK
        <4>2. \A i \in 1 .. Len(s) : s[i].do \in PlainCalls
          BY <3>3 DEF Harmless
        <4>3. Shape(s, <<>>)
          BY <4>1, <4>2 DEF Shape
        <4>4. EndsAreTold(q)'
          BY <1>1, <1>3, <3>3 DEF EndsAreTold, Promised, Harmless, Announced
        <4>5. MetaIsAudio(q)'
          BY <3>1, <3>3, <4>1, <4>2 DEF MetaIsAudio, Harmless, Next0, Head0, PlainCalls
        <4> QED BY <3>1, <4>1, <4>2, <4>3, <4>4, <4>5 DEF ThreadOK, ScriptInTurn, WritesMemory,
                   WritesRecord, InsertsFirst, Inserts, InsertsRecent, WritesJustified, Next0, Head0,
                   PlainCalls
      <3> QED BY <2>1, <3>2, <3>3
    <2>2. CASE RunOf(q) # r
      <3>1. mem'[RunOf(q)] = mem[RunOf(q)] /\ events'[RunOf(q)] = events[RunOf(q)]
        BY <1>1, <1>2, <2>2
      <3>2. StoredEvent(RunOf(q))' = StoredEvent(RunOf(q))
        BY <3>1 DEF StoredEvent
      <3> QED BY <1>1, <1>3, <2>2, <3>1, <3>2, OtherThread
    <2> QED BY <2>1, <2>2
  <1>6. ASSUME NEW x \in Runs PROVE RecordOK(x)'
    <2>1. RowNotAhead(x)' /\ Justified(x, mem[x])' /\ Justified(x, row[x])'
      BY <1>1, <1>2, <1>3 DEF RecordOK, RowNotAhead, Justified, RejectedAtOnce
    <2>2. BlockedIsTold(x)'
      <3>1. Worker(x) \in Procs /\ RunOf(Worker(x)) = x
        BY ProcTypes DEF RunOf, Worker
      <3>2. CASE x = r
        <4>1. pc'[Worker(x)] = "idle"
          BY <1>4, <3>1, <3>2 DEF Idle
        <4> QED BY <4>1 DEF BlockedIsTold, Monitoring
      <3>3. CASE x # r
        <4>1. StoredEvent(x)' = StoredEvent(x)
          BY <1>2, <3>3 DEF StoredEvent
        <4> QED BY <1>1, <1>3, <3>1, <3>3, <4>1 DEF RecordOK, BlockedIsTold, Promised, Next0, Head0
      <3> QED BY <3>2, <3>3
    <2> QED BY <2>1, <2>2 DEF RecordOK
  <1> QED
    BY <1>1, <1>5, <1>6

\* After the death of the backend there are only the database and its rows.
LEMMA DieKeeps ==
  ASSUME StorageInv, Die
  PROVE  /\ \A q, x \in holder' : q = x
         /\ \A q \in Procs : ThreadOK(q)'
         /\ \A x \in Runs : RecordOK(x)'
  <1>1. /\ holder' = {} /\ UNCHANGED dbVars
        /\ \A q \in Procs : todo'[q] = <<>> /\ pc'[q] = "idle"
        /\ \A r \in Runs : mem'[r] = Absent
    BY DEF Die, LoseMemory
  <1>2. \A q \in Procs : ThreadOK(q)'
    BY <1>1, IdleThread
  <1>3. ASSUME NEW x \in Runs PROVE RecordOK(x)'
    <2>1. Justified(x, row[x])
      BY InvFacts DEF RecordOK
    <2>2. \A e : Told(x, e) => Told(x, e)'
      BY <1>1 DEF Told, HasEvent, dbVars, Known, Absent
    <2>3. pc'[Worker(x)] = "idle"
      BY <1>1, ProcTypes
    <2> QED BY <1>1, <2>1, <2>2, <2>3 DEF RecordOK, RowNotAhead, Justified, RejectedAtOnce, Known,
               Terminal, TerminalStatuses, Absent, BlockedIsTold, Monitoring, dbVars
  <1> QED
    BY <1>1, <1>2, <1>3

\* Where the handler of a run goes.
LEMMA NextAudio ==
  ASSUME StorageInv, Next
  PROVE  AudioOnly'
  <1>1. /\ AudioOnly /\ ThreadsOK
        /\ \A r \in Runs : Handler(r) \in Procs
    <2>1. AudioOnly /\ ThreadsOK
      BY InvFacts DEF StorageInv
    <2> QED BY <2>1, ProcTypes
  <1>2. ASSUME NEW p \in Procs, PerformStep(p) PROVE AudioOnly'
    <2>1. \A q \in Procs : pc'[q] = pc[q] \/ pc'[q] \in {"raised", "done"}
      BY <1>1, <1>2 DEF PerformStep, Perform, PutRun, ReadRecord, UpdateMeta, SetRunStatus,
         AppendEvent, UpsertRow, UpdateRow, UpdateSession, AppendRow, WriteDone, DatabaseFault,
         Continue, ThreadsOK
    <2> QED BY <1>1, <2>1 DEF AudioOnly, AudioPlaces
  <1>3. ASSUME NEW r \in Runs, Submit(r) PROVE AudioOnly'
    <2> SUFFICES ASSUME NEW x \in Runs, pc'[Handler(x)] \in AudioPlaces
                 PROVE  x \in AudioRuns \/ pc[Handler(x)] \in AudioPlaces
      BY <1>1 DEF AudioOnly
    <2>1. CASE x # r
      BY <1>1, <1>3, <2>1 DEF Submit, Submission, RejectText, AcceptText, Launch, LaunchFails,
         CreateTranscribingRun, ReadUpload, UploadTooLarge, CheckCancelled, Transcribe, PrepareFails,
         RejectPrecreated, AcceptPrecreated, MarkCancelled, CancelRun, RequestCancel,
         DispatchToAudio, RequestRaises, Continue, ThreadsOK, Handler, Worker, Canceller
    <2>2. CASE x = r
      BY <1>1, <1>3, <2>2 DEF Submit, Submission, RejectText, AcceptText, Launch, LaunchFails,
         CreateTranscribingRun, ReadUpload, UploadTooLarge, CheckCancelled, Transcribe, PrepareFails,
         RejectPrecreated, AcceptPrecreated, MarkCancelled, CancelRun, RequestCancel,
         DispatchToAudio, RequestRaises, Continue, ThreadsOK, AtBranch, AudioPlaces, Handler, Worker,
         Canceller
    <2> QED BY <2>1, <2>2
  <1>4. ASSUME NEW r \in Runs, Work(r) PROVE AudioOnly'
    <2>1. \E s, l : Continue(Worker(r), s, l)
      BY <1>4, WorkerChoice DEF Work, WorkerChooses
    <2>2. \A x \in Runs : pc'[Handler(x)] = pc[Handler(x)]
      BY <1>1, <2>1 DEF Continue, ThreadsOK, Handler, Worker
    <2> QED BY <1>1, <2>2 DEF AudioOnly
  <1>5. ASSUME NEW r \in Runs, Terminate(r) PROVE AudioOnly'
    BY <1>1, <1>5 DEF Terminate, TerminateActive, Continue, ThreadsOK, AudioOnly, Handler, Canceller
  <1>6. ASSUME NEW r \in Runs, Exit(r) \/ Load(r) PROVE AudioOnly'
    BY <1>1, <1>6 DEF Exit, ProcessExits, stateVars, Load, GetRun, AudioOnly
  <1>7. ASSUME NEW r \in Runs, Reconcile(r) PROVE AudioOnly'
    BY <1>1, <1>7 DEF Reconcile, ReconcileRun, Continue, ThreadsOK, AudioOnly, Handler
  <1>8. CASE Crash \/ \E r \in Runs : BootRaises(r)
    BY <1>1, <1>8 DEF Crash, BootRaises, Die, LoseMemory, AudioOnly, AudioPlaces
  <1>9. CASE Restart \/ Serve
    BY <1>1, <1>9 DEF Restart, Serve, AudioOnly
  <1> QED
    BY <1>2, <1>3, <1>4, <1>5, <1>6, <1>7, <1>8, <1>9 DEF Next

\* Initially nobody writes and nothing is over.
LEMMA InitStorage == Init => StorageInv
  <1> SUFFICES ASSUME Init PROVE StorageInv
    OBVIOUS
  <1>1. /\ holder = {} /\ row = [r \in Runs |-> Absent] /\ mem = [r \in Runs |-> Absent]
        /\ \A p \in Procs : todo[p] = <<>> /\ pc[p] = "idle"
    BY DEF Init, Init0
  <1>2. \A p \in Procs : ThreadOK(p)
    BY <1>1 DEF ThreadOK, ScriptInTurn, Shape, WritesMemory, InsertsFirst, InsertsRecent, Inserts,
       WritesJustified, WritesRecord, MetaIsAudio, EndsAreTold, Next0
  <1>3. \A r \in Runs : RecordOK(r)
    BY <1>1, ProcTypes DEF RecordOK, RowNotAhead, Justified, Known, Terminal, TerminalStatuses, Absent,
       BlockedIsTold, Monitoring
  <1>4. AudioOnly
    BY <1>1, ProcTypes DEF AudioOnly, AudioPlaces
  <1> QED
    BY <1>1, <1>2, <1>3, <1>4, InitInv DEF StorageInv

\* The invariant is inductive.
LEMMA NextStorage == StorageInv /\ [Next]_vars => StorageInv'
  <1> SUFFICES ASSUME StorageInv, [Next]_vars PROVE StorageInv'
    OBVIOUS
  <1> DEFINE Kept == /\ \A q, x \in holder' : q = x
                     /\ \A q \in Procs : ThreadOK(q)'
                     /\ \A x \in Runs : RecordOK(x)'
  <1>1. Inv /\ Inv' /\ ThreadsOK /\ ThreadsOK'
    <2>1. Inv /\ Inv'
      BY InvFacts, NextInv
    <2> QED BY <2>1, InvThreads DEF Inv, TypeOK, StateTypeOK, ThreadsOK
  <1>2. CASE UNCHANGED vars
    BY <1>1, <1>2 DEF vars, allVars, stateVars, submitVars, workerVars, StorageInv, ThreadOK,
       ScriptInTurn, WritesMemory, WritesRecord, InsertsFirst, InsertsRecent, Inserts,
       WritesJustified, MetaIsAudio, EndsAreTold, Promised, RecordOK, RowNotAhead, Justified,
       RejectedAtOnce, Told, HasEvent, BlockedIsTold, AudioOnly, Next0, Head0, StoredEvent
  <1>3. ASSUME NEW p \in Procs, PerformStep(p) PROVE Kept
    BY <1>3, PerformStorage DEF PerformStep, workerVars
  <1>4. ASSUME NEW r \in Runs, Submit(r) PROVE Kept
    <2>1. /\ Submission(r) /\ outcome' = outcome
          /\ UNCHANGED <<mem, events, row, rowEvents, holder, copy>>
      BY <1>1, <1>4, SubmissionTypes DEF Submit, workerVars, dbVars
    <2>2. /\ Handler(r) \in Procs /\ Handler(r)[1] # "worker"
          /\ Canceller(r) \in Procs /\ Canceller(r)[1] # "worker"
      BY ProcTypes DEF Handler, Canceller
    <2>3. Chooses(Handler(r)) \/ Chooses(Canceller(r)) \/ StoresNew(r) \/ Launch(r)
      <3>1. AudioOnly
        BY DEF StorageInv
      <3> QED BY <2>1, <3>1, SubmissionChooses
    <2>4. CASE Chooses(Handler(r)) \/ Chooses(Canceller(r))
      BY <1>1, <2>1, <2>2, <2>4, RequestKeeps
    <2> QED BY <1>1, <2>1, <2>3, <2>4, StoreKeeps, LaunchKeeps
  <1>5. ASSUME NEW r \in Runs, Work(r) PROVE Kept
    <2>1. WorkerStep(r) /\ UNCHANGED <<mem, events, row, rowEvents, holder, copy>>
      BY <1>1, <1>5, WorkerTypes DEF Work, OnlyThreads, memVars, dbVars
    <2> QED BY <1>1, <2>1, WorkerKeeps
  <1>6. ASSUME NEW r \in Runs, Terminate(r) PROVE Kept
    <2>1. /\ UNCHANGED <<mem, events, row, rowEvents, holder, copy, outcome>>
          /\ Continue(Canceller(r), <<>>, "done") /\ todo[Canceller(r)] = <<>>
      BY <1>6 DEF Terminate, TerminateActive, OnlyThreads, memVars, dbVars, AtBranch
    <2>2. Canceller(r) \in Procs /\ Canceller(r)[1] # "worker"
      BY ProcTypes DEF Canceller
    <2>3. Chooses(Canceller(r))
      BY <2>1, HarmlessScripts DEF Chooses
    <2> QED BY <1>1, <2>1, <2>2, <2>3, RequestKeeps
  <1>7. ASSUME NEW r \in Runs, Exit(r) PROVE Kept
    BY <1>1, <1>7 DEF Exit, ProcessExits, stateVars, submitVars, StorageInv, ThreadOK,
       ScriptInTurn, WritesMemory, WritesRecord, InsertsFirst, InsertsRecent, Inserts,
       WritesJustified, MetaIsAudio, EndsAreTold, Promised, RecordOK, RowNotAhead, Justified,
       RejectedAtOnce, Told, HasEvent, BlockedIsTold, Next0, Head0, StoredEvent
  <1>8. ASSUME NEW r \in Runs, Load(r) PROVE Kept
    <2>1. /\ ~Known(mem[r]) /\ Known(row[r])
          /\ mem' = [mem EXCEPT ![r] = row[r]] /\ events' = [events EXCEPT ![r] = rowEvents[r]]
          /\ UNCHANGED <<row, rowEvents, holder, copy, outcome, todo, pc>>
      BY <1>8 DEF Load, GetRun, dbVars, workerVars
    <2>2. \A q \in Procs : RunOf(q) = r => todo'[q] = <<>>
      BY <1>1, <2>1, BusyKnown DEF Inv, OpensNew, Unknown, Idle
    <2> QED BY <1>1, <2>1, <2>2, LoadKeeps
  <1>9. ASSUME NEW r \in Runs, Reconcile(r) PROVE Kept
    <2> DEFINE s == <<Emit("activity"), Emit("run.failed"), SetStatus("failed")>>
    <2>1. /\ ~Known(mem[r]) /\ Known(row[r])
          /\ mem' = [mem EXCEPT ![r] = row[r]] /\ events' = [events EXCEPT ![r] = rowEvents[r]]
          /\ UNCHANGED <<row, rowEvents, holder, copy, outcome>>
          /\ \A q \in Procs : todo[q] = <<>>
          /\ Continue(Boot(r), s, "done")
      BY <1>9 DEF Reconcile, ReconcileRun, Interrupted, Live, Known, dbVars, workerVars, Boot
    <2>2. /\ Boot(r) \in Procs /\ RunOf(Boot(r)) = r /\ Boot(r)[1] = "boot"
          /\ \A x \in Runs : Worker(x) # Boot(r) /\ Worker(x) \in Procs
      BY ProcTypes DEF Boot, RunOf, Worker
    <2>3. Harmless(Boot(r), s)
      <3>1. SetStatus("failed").do = "status" /\ Announces(SetStatus("failed").rec.status) = "run.failed"
        BY DEF SetStatus, Record, Announces
      <3> QED BY <3>1, HarmlessEnds
    <2> HIDE DEF s
    <2>4. /\ todo'[Boot(r)] = s
          /\ \A q \in Procs \ {Boot(r)} : todo'[q] = todo[q] /\ pc'[q] = pc[q]
      BY <1>1, <2>1, <2>2 DEF Continue, ThreadsOK
    <2>5. \A q \in Procs : /\ RunOf(q) = r => todo'[q] = <<>> \/ (Harmless(q, todo'[q]) /\ q[1] = "boot")
                           /\ RunOf(q) # r => todo'[q] = todo[q]
      BY <2>1, <2>2, <2>3, <2>4
    <2>6. \A x \in Runs : pc'[Worker(x)] = pc[Worker(x)]
      BY <2>2, <2>4
    <2> QED BY <1>1, <2>1, <2>5, <2>6, LoadKeeps
  <1>10. ASSUME Crash \/ \E r \in Runs : BootRaises(r) PROVE Kept
    BY <1>10, DieKeeps DEF Crash, BootRaises
  <1>11. ASSUME Restart \/ Serve PROVE Kept
    <2>1. UNCHANGED <<mem, events, row, rowEvents, holder, copy, todo, pc, outcome>>
      BY <1>11 DEF Restart, Serve, memVars, dbVars, workerVars
    <2> QED BY <2>1 DEF StorageInv, ThreadOK, ScriptInTurn, WritesMemory, WritesRecord, InsertsFirst,
               InsertsRecent, Inserts, WritesJustified, MetaIsAudio, EndsAreTold, Promised, RecordOK,
               RowNotAhead, Justified, RejectedAtOnce, Told, HasEvent, BlockedIsTold, Next0, Head0,
               StoredEvent
  <1>12. CASE Next
    <2>1. Kept
      BY <1>3, <1>4, <1>5, <1>6, <1>7, <1>8, <1>9, <1>10, <1>11, <1>12 DEF Next
    <2> QED BY <1>1, <1>12, <2>1, NextAudio DEF StorageInv
  <1> QED
    BY <1>2, <1>12

---------------------------------------------------------------------------
(* The refinement of RunContract, step by step.                            *)

\* Where the database changes, and how.
LEMMA DatabaseSteps ==
  ASSUME StorageInv, Next
  PROVE  \/ UNCHANGED <<row, rowEvents>>
         \/ \E p \in Procs : (UpsertRow(p) \/ UpdateRow(p)) /\ rowEvents' = rowEvents
         \/ \E p \in Procs : AppendRow(p) /\ row' = row
  <1>1. ASSUME NEW p \in Procs, PerformStep(p)
        PROVE  \/ UNCHANGED <<row, rowEvents>>
               \/ (UpsertRow(p) \/ UpdateRow(p)) /\ rowEvents' = rowEvents
               \/ AppendRow(p) /\ row' = row
    BY <1>1 DEF PerformStep, Perform, PutRun, ReadRecord, UpdateMeta, SetRunStatus, AppendEvent,
       UpsertRow, UpdateRow, UpdateSession, AppendRow, DatabaseFault, dbVars
  <1>2. ASSUME NEW r \in Runs, Submit(r) \/ Work(r) \/ Terminate(r)
        PROVE  UNCHANGED <<row, rowEvents>>
    BY <1>2, InvFacts, SubmissionTypes, WorkerTypes DEF Submit, Work, Terminate, OnlyThreads, dbVars
  <1>3. ASSUME NEW r \in Runs, Exit(r) \/ Load(r) \/ Reconcile(r) \/ BootRaises(r)
        PROVE  UNCHANGED <<row, rowEvents>>
    BY <1>3 DEF Exit, ProcessExits, stateVars, Load, GetRun, Reconcile, ReconcileRun, BootRaises, Die,
       dbVars
  <1>4. Crash \/ Restart \/ Serve => UNCHANGED <<row, rowEvents>>
    BY DEF Crash, Die, Restart, Serve, dbVars
  <1> QED
    BY <1>1, <1>2, <1>3, <1>4 DEF Next

\* A row is created running or rejected, or it gets an announced end, or its
\* status stays.
LEMMA RowStep ==
  ASSUME StorageInv, NEW p \in Procs, UpsertRow(p) \/ UpdateRow(p)
  PROVE  LET r == RunOf(p)
             old == row[r].status
             new == row'[r].status IN
         /\ r \in Runs /\ row' = [row EXCEPT ![r] = row'[r]]
         /\ \/ new = old
            \/ old = "absent" /\ new \in {"running", "rejected"}
            \/ new \in TerminalStatuses /\ HasEvent(rowEvents[r], Announces(new))
  <1> DEFINE r == RunOf(p)
  <1>1. /\ Inv /\ ThreadsOK /\ StateTypeOK /\ r \in Runs
        /\ ThreadOK(p) /\ RowNotAhead(r) /\ row[r] \in RunRec /\ copy[p] \in RunRec
    BY InvFacts DEF RecordOK, StateTypeOK
  <1>2. Known(mem[r])
    BY <1>1, CallerKnown DEF Perform, PutRun, UpsertRow, UpdateRow, Next0
  <1>3. Terminal(copy[p]) => HasEvent(rowEvents[r], Announces(copy[p].status))
                             \/ (r \in TextRuns /\ copy[p].status = "rejected")
    <2>1. WritesRecord(p)
      BY DEF WritesRecord, UpsertRow, UpdateRow
    <2>2. Justified(r, copy[p])
      BY <1>1, <2>1 DEF ThreadOK, WritesJustified
    <2> QED BY <2>2 DEF Justified, RejectedAtOnce, Told
  <1>4. copy[p].status \in {"absent", "running"} \/ Terminal(copy[p])
    BY <1>1 DEF RunRec, Statuses, Terminal
  <1>5. CASE UpsertRow(p)
    <2>1. row' = [row EXCEPT ![r] = copy[p]] /\ row'[r] = copy[p]
      BY <1>1, <1>5 DEF UpsertRow, StateTypeOK
    <2>2. CASE p \notin holder
      <3>1. Inserts(p)
        <4>1. todo[p] # <<>> /\ todo[p][1].do = "upsert" /\ 1 \in 1 .. Len(todo[p])
          BY <1>1, <1>5, EmptySeq DEF UpsertRow, Next0, Head0, ThreadsOK
        <4> QED BY <2>2, <4>1 DEF Inserts
      <3>2. row[r].status = "absent" /\ copy[p].status # "absent"
        BY <1>1, <1>5, <2>2, <3>1 DEF ThreadOK, InsertsFirst, InsertsRecent, UpsertRow, Known
      <3> QED BY <1>1, <1>3, <1>4, <2>1, <3>2 DEF Terminal
    <2>3. CASE p \in holder
      <3>1. copy[p] = mem[r] /\ r \in AudioRuns
        BY <1>1, <1>5, <2>3 DEF ThreadOK, WritesMemory, WritesRecord, MetaIsAudio, UpsertRow
      <3>2. r \notin TextRuns
        BY <1>1, <3>1, KindAssumption
      <3>3. ~Terminal(copy[p]) => copy[p].status = "running" /\ row[r].status \in {"absent", "running"}
        BY <1>1, <1>2, <1>4, <3>1 DEF RowNotAhead, Known, Terminal, RunRec, Statuses
      <3> QED BY <1>1, <1>3, <2>1, <3>2, <3>3 DEF Terminal
    <2> QED BY <2>2, <2>3
  <1>6. CASE UpdateRow(p)
    <2>1. \/ row' = row
          \/ row' = [row EXCEPT ![r] = copy[p]] /\ row'[r] = copy[p]
      BY <1>1, <1>6 DEF UpdateRow, StateTypeOK
    <2>2. row' = [row EXCEPT ![r] = row'[r]]
      BY <1>1, <2>1 DEF StateTypeOK
    <2>3. Terminal(copy[p]) /\ HasEvent(rowEvents[r], Announces(copy[p].status))
      BY <1>1, <1>6 DEF ThreadOK, WritesJustified, Told, UpdateRow
    <2> QED BY <1>1, <2>1, <2>2, <2>3 DEF Terminal
  <1> QED
    BY <1>5, <1>6

\* No run, no announcement.
LEMMA ContractInit == Init => Contract!Init
  BY DEF Init, Init0, Contract!Init, Absent, EventsOf

\* A row write is the creation or the end of a run, an event row announces.
LEMMA ContractStep ==
  ASSUME StorageInv, Next
  PROVE  Contract!Next \/ UNCHANGED Contract!contractVars
  <1> DEFINE st == [r \in Runs |-> row[r].status]
             an == [r \in Runs |-> EventsOf(r) \cap EndEvents]
  <1>1. /\ Inv /\ ThreadsOK /\ StateTypeOK
    BY InvFacts
  <1>2. rowEvents' = rowEvents => an' = an
    BY DEF EventsOf
  <1>3. row' = row => st' = st
    OBVIOUS
  <1>4. ASSUME NEW p \in Procs, UpsertRow(p) \/ UpdateRow(p), rowEvents' = rowEvents
        PROVE  Contract!Next \/ UNCHANGED Contract!contractVars
    <2> DEFINE r == RunOf(p)
               new == row'[r].status
    <2>1. /\ r \in Runs /\ row' = [row EXCEPT ![r] = row'[r]]
          /\ \/ new = row[r].status
             \/ row[r].status = "absent" /\ new \in {"running", "rejected"}
             \/ new \in TerminalStatuses /\ HasEvent(rowEvents[r], Announces(new))
      BY <1>4, RowStep
    <2>2. st' = [st EXCEPT ![r] = new] /\ an' = an
      BY <1>1, <1>2, <1>4, <2>1 DEF StateTypeOK
    <2>3. CASE new = row[r].status
      <3>1. st' = st
        BY <2>1, <2>2, <2>3
      <3> QED BY <2>2, <3>1 DEF Contract!contractVars
    <2>4. CASE row[r].status = "absent" /\ new \in {"running", "rejected"}
      BY <2>1, <2>2, <2>4 DEF Contract!Next, Contract!Create
    <2>5. CASE new \in TerminalStatuses /\ HasEvent(rowEvents[r], Announces(new))
      <3>1. Announces(new) \in an[r]
        BY <2>1, <2>5 DEF HasEvent, EventsOf, EndEvents
      <3> QED BY <2>1, <2>2, <2>5, <3>1 DEF Contract!Next, Contract!Finish
    <2> QED BY <2>1, <2>3, <2>4, <2>5
  <1>5. ASSUME NEW p \in Procs, AppendRow(p), row' = row
        PROVE  Contract!Next \/ UNCHANGED Contract!contractVars
    <2> DEFINE r == RunOf(p)
               e == StoredEvent(r)
    <2>1. /\ r \in Runs /\ rowEvents \in [Runs -> Seq(Event)]
          /\ rowEvents' = [rowEvents EXCEPT ![r] = Append(rowEvents[r], e)]
      BY <1>1, <1>5 DEF AppendRow, StateTypeOK, RunOf, Procs
    <2>2. e \in Event
      <3>1. Appending(p)
        BY <1>1, <1>5, NextCall DEF AppendRow, Next0
      <3> QED BY <1>1, <2>1, <3>1, LastEvent DEF Inv, AppendsEvent, StateTypeOK, StoredEvent
    <2>3. EventsOf(r)' = EventsOf(r) \cup {e.type}
      <3> DEFINE es == rowEvents[r]
      <3>1. /\ es \in Seq(Event) /\ rowEvents'[r] = Append(es, e)
        BY <2>1
      <3>2. /\ Len(es) \in Nat /\ Len(Append(es, e)) = Len(es) + 1
            /\ \A i \in 1 .. Len(es) : Append(es, e)[i] = es[i]
            /\ Append(es, e)[Len(es) + 1] = e
        BY <2>2, <3>1, LenProperties
      <3>3. /\ \A i \in 1 .. Len(es) + 1 : i \in 1 .. Len(es) \/ i = Len(es) + 1
            /\ \A i \in 1 .. Len(es) : i \in 1 .. Len(es) + 1
            /\ Len(es) + 1 \in 1 .. Len(es) + 1
        BY <3>2
      <3> QED BY <3>1, <3>2, <3>3 DEF EventsOf
    <2>4. \A x \in Runs \ {r} : EventsOf(x)' = EventsOf(x)
      BY <2>1 DEF EventsOf
    <2>5. EndEvents = Contract!Endings /\ EndEvents' = EndEvents
      BY DEF EndEvents, Contract!Endings
    <2>6. CASE e.type \in EndEvents
      <3>1. an' = [an EXCEPT ![r] = an[r] \cup {e.type}]
        BY <2>1, <2>3, <2>4, <2>5, <2>6
      <3> QED BY <1>3, <1>5, <2>1, <2>5, <2>6, <3>1 DEF Contract!Next, Contract!Announce
    <2>7. CASE e.type \notin EndEvents
      <3>1. an' = an
        BY <2>1, <2>3, <2>4, <2>5, <2>7
      <3> QED BY <1>3, <1>5, <3>1 DEF Contract!contractVars
    <2> QED BY <2>6, <2>7
  <1>6. UNCHANGED <<row, rowEvents>> => UNCHANGED Contract!contractVars
    BY <1>2, <1>3 DEF Contract!contractVars
  <1> QED
    BY <1>4, <1>5, <1>6, DatabaseSteps


\* Memory forgets a finished run only when the backend dies; the database
\* never does.
LEMMA TerminalStep ==
  ASSUME StorageInv, Next, NEW r \in Runs
  PROVE  /\ Terminal(mem[r]) => Terminal(mem'[r]) \/ ~Known(mem'[r])
         /\ Terminal(row[r]) => Terminal(row'[r])
  <1>1. /\ Inv /\ StateTypeOK
        /\ Terminal(Absent) = FALSE /\ Known(Absent) = FALSE
        /\ \A rec : Terminal(rec) => Known(rec)
    BY InvFacts DEF Terminal, TerminalStatuses, Known, Absent
  <1>2. Terminal(row[r]) => Terminal(row'[r])
    <2>1. ASSUME NEW p \in Procs, UpsertRow(p) \/ UpdateRow(p), Terminal(row[r])
          PROVE  Terminal(row'[r])
      <3>1. CASE r = RunOf(p)
        BY <2>1, <3>1, RowStep DEF Terminal, TerminalStatuses
      <3>2. CASE r # RunOf(p)
        BY <1>1, <2>1, <3>2, RowStep DEF StateTypeOK
      <3> QED BY <3>1, <3>2
    <2> QED BY <2>1, DatabaseSteps
  <1>3. ASSUME NEW p \in Procs, PerformStep(p)
        PROVE  Terminal(mem[r]) => Terminal(mem'[r])
    BY <1>3, NewRecord DEF PerformStep
  <1>4. ASSUME NEW x \in Runs, Submit(x) \/ Work(x) \/ Terminate(x) \/ Exit(x)
        PROVE  mem' = mem
    BY <1>1, <1>4, SubmissionTypes, WorkerTypes DEF Submit, Work, Terminate, OnlyThreads, memVars,
       Exit, ProcessExits, stateVars
  <1>5. ASSUME NEW x \in Runs, Load(x) \/ Reconcile(x)
        PROVE  Terminal(mem[r]) => Terminal(mem'[r])
    <2>1. ~Known(mem[x]) /\ mem' = [mem EXCEPT ![x] = row[x]]
      BY <1>5 DEF Load, GetRun, Reconcile, ReconcileRun, Interrupted
    <2> QED BY <1>1, <2>1 DEF StateTypeOK
  <1>6. ASSUME Die PROVE ~Known(mem'[r])
    BY <1>1, <1>6 DEF Die, LoseMemory
  <1>7. ASSUME NEW x \in Runs, BootRaises(x) PROVE ~Known(mem'[r])
    BY <1>6, <1>7 DEF BootRaises
  <1>8. Crash => ~Known(mem'[r])
    BY <1>6 DEF Crash
  <1>9. Restart \/ Serve => mem' = mem
    BY DEF Restart, Serve, memVars
  <1> QED
    BY <1>2, <1>3, <1>4, <1>5, <1>7, <1>8, <1>9 DEF Next

---------------------------------------------------------------------------
(* The theorems.                                                           *)

\* With any number of database faults and crashes: one thread at a time is
\* inside _runs_lock and writes there what memory says, a row that store_run
\* inserts outside the lock is the first of its run, and a status that says
\* a run is over is not set before the event that announces it is stored.
THEOREM WritesInTurn == Spec => []StorageInv
  BY InitStorage, NextStorage, PTL DEF Spec

\* Whoever finishes a run (worker, exception handler, cancel of an audio run,
\* reconciliation at startup), a client that reads a terminal status, from
\* memory or from the database, finds its event in the log it reads.
THEOREM EndsAreAnnounced == Spec => []FinalStatusIsAnnounced
  <1>1. StorageInv => FinalStatusIsAnnounced
    <2> SUFFICES ASSUME StorageInv, NEW r \in Runs
                 PROVE  /\ Terminal(mem[r]) /\ mem[r].status # "rejected"
                              => HasEvent(events[r], Announces(mem[r].status))
                        /\ Terminal(row[r]) /\ row[r].status # "rejected"
                              => HasEvent(rowEvents[r], Announces(row[r].status))
      BY DEF FinalStatusIsAnnounced
    <2>1. Justified(r, mem[r]) /\ Justified(r, row[r])
      BY InvFacts DEF RecordOK
    <2>2. Terminal(mem[r]) => Known(mem[r])
      BY DEF Terminal, TerminalStatuses, Known
    <2> QED BY <2>1, <2>2 DEF Justified, RejectedAtOnce, Told
  <1> QED
    BY <1>1, WritesInTurn, PTL

\* No order of metadata updates, store_run's late insert, cancels, crashes
\* and reconciliation makes a finished run run again.
THEOREM FinishedForGood == Spec => TerminalStaysTerminal
  <1>1. StorageInv /\ [Next]_vars =>
          [\A r \in Runs : /\ Terminal(mem[r]) => Terminal(mem'[r]) \/ ~Known(mem'[r])
                           /\ Terminal(row[r]) => Terminal(row'[r])]_vars
    BY TerminalStep
  <1> QED
    BY <1>1, WritesInTurn, PTL DEF Spec, TerminalStaysTerminal

\* The detailed specification implements the contract of the database: a run
\* is created once, an end is announced before it is recorded, and a crash
\* at any point does not show.
THEOREM ContractIsKept == Spec => KeepsContract
  <1>1. StorageInv /\ [Next]_vars => [Contract!Next]_(Contract!contractVars)
    <2>1. UNCHANGED vars => UNCHANGED Contract!contractVars
      BY DEF vars, allVars, stateVars, Contract!contractVars, EventsOf
    <2> QED BY <2>1, ContractStep
  <1> QED
    BY <1>1, ContractInit, WritesInTurn, PTL DEF Spec, KeepsContract, Contract!Spec

=============================================================================
