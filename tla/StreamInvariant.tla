--------------------------- MODULE StreamInvariant ---------------------------
(* What is known of the clients that follow runs, and of the log of a run   *)
(* that is over.  StreamProofs proves it.                                   *)
EXTENDS EventStream, AgreementInvariant

---------------------------------------------------------------------------
(* The log of a text run that is over, whatever writes raise.              *)

\* p has an event to append, or to insert.
Says(p) == \E i \in 1 .. Len(todo[p]) : todo[p][i].do \in {"append", "append_row"}

SaysNoMore(r) == Finished(mem[r]) => \A p \in Procs : RunOf(p) = r => ~Says(p)

FinalInv == \A r \in TextRuns : SaysNoMore(r)

---------------------------------------------------------------------------
(* Clients, until the first write that raises.                             *)

\* A client has got the first events of the stored log of a run in memory; its
\* generator is about to ask for, or is sending, those that follow them.
Follows(r) ==
    LET n == Len(received[r])
        batch == conn[r].batch
    IN /\ conn[r] \in Conn /\ received[r] \in Seq(Event)
       /\ conn[r].at # "off" => Known(mem[r])
       /\ n <= Len(rowEvents[r]) /\ received[r] = SubSeq(rowEvents[r], 1, n)
       /\ conn[r].at \in {"poll", "send"} => conn[r].cursor = n - 1
       /\ conn[r].at = "send" => /\ batch # <<>> /\ n + Len(batch) <= Len(rowEvents[r])
                                 /\ batch = SubSeq(rowEvents[r], n + 1, n + Len(batch))

\* A client whose stream has ended knows the end, and the run is as it was then.
Informed(r) ==
    conn[r].at = "over" =>
        /\ conn[r].status # "rejected" => HasEvent(received[r], Announces(conn[r].status))
        /\ conn[r].status \notin {"blocked", "rejected"} => Finished(mem[r]) /\ received[r] = events[r]

ClientOK(r) == /\ OwnLog(r) => Follows(r)
               /\ r \in TextRuns => Informed(r)

StreamInv ==
    /\ conn = [r \in Runs |-> conn[r]] /\ received = [r \in Runs |-> received[r]]
    /\ faults = 0 => \A r \in Runs : ClientOK(r)

=============================================================================
