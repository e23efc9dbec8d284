----------------------------- MODULE RunContract -----------------------------
(***************************************************************************)
(* What the backend promises about the durable state of runs, as a client  *)
(* that only ever sees the database could read it: a run is created        *)
(* running (or rejected), is announced as over by an event, and only then  *)
(* gets a terminal status, for good.  Crashes do not show here at all.     *)
(***************************************************************************)
CONSTANTS Runs, TerminalStatuses, Announces(_)

VARIABLES
    status,        \* "absent", "running" or a terminal status
    announced      \* the run.* events stored for the run

contractVars == <<status, announced>>

Endings == {Announces(st) : st \in TerminalStatuses}

Init == /\ status = [r \in Runs |-> "absent"]
        /\ announced = [r \in Runs |-> {}]

Create(r) == /\ status[r] = "absent"
             /\ \E st \in {"running", "rejected"} : status' = [status EXCEPT ![r] = st]
             /\ UNCHANGED announced

\* More than one thread may announce an end, also after the run is over.
Announce(r) == /\ \E e \in Endings : announced' = [announced EXCEPT ![r] = @ \cup {e}]
               /\ UNCHANGED status

\* The last word belongs to whoever finishes the run last, but it is one of
\* the ends that have been announced.  A run cancelled while it is being
\* stored is over before it was ever running here.
Finish(r) == /\ \E st \in TerminalStatuses :
                  /\ Announces(st) \in announced[r]
                  /\ status' = [status EXCEPT ![r] = st]
             /\ UNCHANGED announced

Next == \E r \in Runs : Create(r) \/ Announce(r) \/ Finish(r)

Spec == Init /\ [][Next]_contractVars
=============================================================================
