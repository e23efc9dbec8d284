------------------------ MODULE CredentialRequests ------------------------
(***************************************************************************)
(* CredentialRequestService: a run asks for secrets, the phone fills them  *)
(* in, the run takes them.  What is asked for is in a file, the secrets    *)
(* are in memory only.  Every operation holds the one lock from reading    *)
(* the file to its last write, so that each is a single step; what may     *)
(* come apart is the file and the memory, when a write raises, when the    *)
(* backend dies while Path.write_text has truncated the file, and when it  *)
(* starts anew.                                                            *)
(***************************************************************************)
EXTENDS Integers, FiniteSets

CONSTANTS
    Requests,          \* credential requests
    Secrets,           \* what a phone may send
    NoSecret,          \* no value
    MaxStorageFaults,  \* bound: writes that raise
    MaxServiceStops    \* bound: deaths of the backend

ASSUME SecretAssumption == NoSecret \notin Secrets

VARIABLES
    status,        \* the records of the file; "none" has no record
    due,           \* requests whose expires_at has passed
    values,        \* _credential_values
    fulfilled,     \* history: what the phone was told is accepted
    taken,         \* history: what a consuming resolve has handed out
    unsafe,        \* history: requests for which a write has raised
    stops          \* deaths so far

credVars == <<status, due, values, fulfilled, taken, unsafe, stops>>

Statuses == {"none", "pending", "fulfilled", "cancelled", "expired"}

CredInit == /\ status = [r \in Requests |-> "none"]
            /\ due = {}
            /\ values = [r \in Requests |-> NoSecret]
            /\ fulfilled = [r \in Requests |-> NoSecret]
            /\ taken = [r \in Requests |-> 0]
            /\ unsafe = {}
            /\ stops = 0

---------------------------------------------------------------------------
(* The file.                                                               *)

ExpiredBug(s) == [r \in Requests |-> IF r \in due /\ s[r] \in {"pending", "fulfilled"} THEN "expired" ELSE s[r]]
\* _expire_pending_records_locked
Expired(s) == [r \in Requests |-> IF r \in due /\ s[r] = "pending" THEN "expired" ELSE s[r]]

NoRecords == [r \in Requests |-> "none"]

\* A write that raises leaves the file as an earlier write of the operation
\* left it (it could not be opened), or truncated (the disk is full), which
\* reads as no records at all.
WriteRaises(r, before) ==
    /\ Cardinality(unsafe) < MaxStorageFaults
    /\ status' \in before \cup {NoRecords}
    /\ unsafe' = unsafe \cup {r}

Writes(s) == status' = s /\ UNCHANGED unsafe

---------------------------------------------------------------------------
(* Operations.                                                             *)

Create(r) ==
    /\ status[r] = "none" /\ r \notin due \cup unsafe
    /\ values[r] = NoSecret /\ fulfilled[r] = NoSecret
    /\ \/ Writes([status EXCEPT ![r] = "pending"])
       \/ WriteRaises(r, {status})
    /\ UNCHANGED <<due, values, fulfilled, taken, stops>>

\* list and get, a resolve that does not consume, and any operation that is
\* refused: the file is written if something has expired
Look == /\ Expired(status) # status
        /\ \/ Writes(Expired(status))
           \/ \E r \in due : WriteRaises(r, {status})
        /\ UNCHANGED <<due, values, fulfilled, taken, stops>>

IsPendingBug(r) == status[r] \in {"pending", "fulfilled"}
\* _ensure_pending, after what is due has expired
IsPending(r) == Expired(status)[r] = "pending"

\* The secrets are in memory before the record is written.
Fulfill(r) ==
    \E secret \in Secrets :
        /\ IsPending(r)
        /\ values' = [values EXCEPT ![r] = secret]
        /\ \/ /\ Writes([Expired(status) EXCEPT ![r] = "fulfilled"])
              /\ fulfilled' = [fulfilled EXCEPT ![r] = secret]
           \/ /\ WriteRaises(r, {status, Expired(status)})
              /\ UNCHANGED fulfilled
        /\ UNCHANGED <<due, taken, stops>>

Cancel(r) ==
    /\ IsPending(r)
    /\ \/ Writes([Expired(status) EXCEPT ![r] = "cancelled"])
       \/ WriteRaises(r, {status, Expired(status)})
    /\ UNCHANGED <<due, values, fulfilled, taken, stops>>

CanResolve(r) == Expired(status)[r] = "fulfilled" /\ values[r] # NoSecret

LeftBehindBug(r) == values
LeftBehind(r) == [values EXCEPT ![r] = NoSecret]

\* consume = True
Resolve(r) ==
    /\ CanResolve(r)
    /\ taken' = [taken EXCEPT ![r] = IF @ < 2 THEN @ + 1 ELSE @]
    /\ values' = LeftBehind(r)
    /\ Writes(Expired(status))
    /\ UNCHANGED <<due, fulfilled, stops>>

---------------------------------------------------------------------------
(* The world.                                                              *)

TimePasses(r) == /\ status[r] # "none" /\ r \notin due
                 /\ due' = due \cup {r}
                 /\ UNCHANGED <<status, values, fulfilled, taken, unsafe, stops>>

\* The backend dies between two operations, or within the write of one.
Stop == /\ stops < MaxServiceStops
        /\ stops' = stops + 1
        /\ values' = [r \in Requests |-> NoSecret]
        /\ status' \in {status, NoRecords}
        /\ UNCHANGED <<due, fulfilled, taken, unsafe>>

CredNext == \/ Look \/ Stop
            \/ \E r \in Requests : Create(r) \/ Fulfill(r) \/ Cancel(r) \/ Resolve(r) \/ TimePasses(r)

CredSpec == CredInit /\ [][CredNext]_credVars

---------------------------------------------------------------------------
(* Properties.                                                             *)

\* Unless a write has raised, memory holds secrets only of requests that the
\* file shows as fulfilled: none is left behind by a cancel, an expiry, a
\* consumed request, or a death that costs the file its records.
NoForgottenSecret ==
    unsafe = {} => \A r \in Requests : values[r] # NoSecret => status[r] = "fulfilled"

\* What a run can take is what the phone was last told is accepted, also after
\* a write that raised and was repeated, and it can take it once.
TakesWhatWasAccepted ==
    \A r \in Requests : /\ CanResolve(r) => values[r] = fulfilled[r]
                        /\ taken[r] <= 1

\* A request that was answered, cancelled or expired stays so: a late answer
\* does not bring a cancelled request back, time does not undo an answer.
\* Only the loss of the file takes the record away.
ClosedStaysClosed ==
    [][\A r \in Requests : status[r] \in {"fulfilled", "cancelled", "expired"}
                               => status'[r] \in {status[r], "none"}]_credVars

=============================================================================
