---------------------------- MODULE RunInvariant ----------------------------
(* The inductive invariant of RunLifecycle: what the threads of a run may   *)
(* still be about to do, by what is known of the run.                       *)
EXTENDS RunLifecycle

\* Calls that may stand anywhere in a script: they store no record, and the
\* statuses they set are terminal.
SafeOp == {o \in Op : o.do \notin {"put", "append_row"} /\ (o.do = "status" => Terminal(o.rec))}

\* p is about to store a new run; only the run's handler does.
Opens(p) == /\ p[1] = "handler" /\ todo[p] # <<>>
            /\ Head0(p).do = "put" /\ Head0(p).rec.status \in {"running", "rejected"}
            /\ Tail(todo[p]) \in Seq(SafeOp)

\* p is about to insert the row of the event it has just appended.
Appending(p) == /\ todo[p] # <<>>
                /\ Head0(p).do = "append_row"
                /\ Tail(todo[p]) \in Seq(SafeOp)

ScriptsOK == \A p \in Procs : todo[p] \in Seq(SafeOp) \/ Opens(p) \/ Appending(p)

\* Nobody works for a run that memory does not hold, except the handler that
\* is about to store it.
Idle(p) == todo[p] = <<>> /\ pc[p] = "idle"
QuietUntilStored == \A p \in Procs : ~Known(mem[RunOf(p)]) => Idle(p) \/ Opens(p)

\* A run that is about to be stored is in neither memory nor database.
OpensNew == \A p \in Procs : Opens(p) => Unknown(RunOf(p))

\* There is an event to insert.
AppendsEvent == \A p \in Procs : Appending(p) => events[RunOf(p)] # <<>>

Inv == /\ TypeOK
       /\ ScriptsOK
       /\ QuietUntilStored
       /\ OpensNew
       /\ AppendsEvent
       /\ CancelMarksLive

=============================================================================
