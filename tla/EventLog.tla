------------------------------ MODULE EventLog ------------------------------
(***************************************************************************)
(* What the event log of a run is to a client that follows it: the backend *)
(* appends events, numbered from 0, and the client gets them one by one in *)
(* that order, each exactly once, whatever connections break and however   *)
(* often the backend dies.                                                 *)
(***************************************************************************)
EXTENDS Naturals, Sequences

CONSTANTS Runs, EventTypes

VARIABLES
    log,       \* the events of a run
    read       \* those its client has got

logVars == <<log, read>>

Init == /\ log = [r \in Runs |-> <<>>]
        /\ read = [r \in Runs |-> <<>>]

Write(r) ==
    /\ \E t \in EventTypes :
         log' = [log EXCEPT ![r] = Append(@, [seq |-> Len(@), type |-> t])]
    /\ UNCHANGED read

Read(r) ==
    /\ Len(read[r]) < Len(log[r])
    /\ read' = [read EXCEPT ![r] = Append(@, log[r][Len(@) + 1])]
    /\ UNCHANGED log

Next == \E r \in Runs : Write(r) \/ Read(r)

Spec == Init /\ [][Next]_logVars
=============================================================================
