------------------------------ MODULE Pairing ------------------------------
(***************************************************************************)
(* PairingService and PairingState: the pairing file, which holds the pair *)
(* code and a record for each paired phone, and the calls that rewrite it. *)
(*                                                                         *)
(* A request thread works under _pair_exchange_lock.  pairing_qr.sh and    *)
(* rotate_api_token.sh rewrite the same file from outside, without a lock. *)
(* Path.write_text truncates the file before it fills it: what reads it in *)
(* between, or after a crash in between, finds no JSON and takes the file  *)
(* for empty.                                                              *)
(*                                                                         *)
(* Codes and tokens are numbers in the order in which they are drawn; the  *)
(* hash of a token is the token.  A record's id, its first token, stands   *)
(* for its session and dates.  The rate limit only refuses calls (module   *)
(* PairAttempts), so that any number of them is let through here; the      *)
(* operator's own VOICE_AGENT_API_TOKEN is not in the file.                *)
(***************************************************************************)
EXTENDS Integers, Sequences, FiniteSets

CONSTANTS
    Phones,        \* clients that pair
    Threads,       \* request threads
    Nobody,        \* no thread
    MaxClients,    \* max_paired_client_tokens
    MaxCodes,      \* bound
    MaxTokens,     \* bound
    MaxFaults      \* bound: scripts run beside the backend, and crashes

ASSUME ClientAssumption == MaxClients \in Nat \ {0}
ASSUME BoundsAssumption == MaxCodes \in Nat \ {0} /\ {MaxTokens, MaxFaults} \subseteq Nat
ASSUME NobodyAssumption == Nobody \notin Threads

VARIABLES
    file,          \* the pairing file
    lapsed,        \* codes whose pair_code_expires_at has passed
    lock,          \* who holds _pair_exchange_lock
    call,          \* what each request thread does
    script,        \* the script that runs
    phone,         \* what each phone remembers of the answers it got
    waiting,       \* the thread whose answer a phone waits for
    codes,         \* pair codes drawn so far
    tokens,        \* tokens drawn so far
    issued,        \* history: the records stored by exchanges, in order
    redeemed,      \* history: the codes they were exchanged for
    retired,       \* history: tokens replaced by a refresh
    overlapped,    \* history: a script and a call have worked at the same time
    pairFaults     \* scripts run and crashes so far

pairVars == <<file, lapsed, lock, call, script, phone, waiting, codes, tokens, issued, redeemed,
              retired, overlapped, pairFaults>>

---------------------------------------------------------------------------
(* The file.                                                               *)

Torn == [torn |-> TRUE, code |-> 0, clients |-> <<>>]
Whole(data) == [torn |-> FALSE, code |-> data.code, clients |-> data.clients]

\* PairingState.read
ReadFile == [code |-> file.code, clients |-> file.clients]

\* records[-max_paired_client_tokens:]
Newest(s, n) == SubSeq(s, IF Len(s) > n THEN Len(s) - n + 1 ELSE 1, Len(s))

RotatedBug(data, code) == data
\* rotate_pair_code
Rotated(data, code) == [data EXCEPT !.code = code]

\* issue_paired_client_credentials
Issued(data, client) == [data EXCEPT !.clients = Newest(Append(data.clients, client), MaxClients)]

\* paired_client_record_index_for_hashed_token
Holders(data, field, token) ==
    {i \in 1 .. Len(data.clients) : token # 0 /\ data.clients[i][field] = token}

\* _refresh_paired_client_credentials: a refresh token gets a new api token,
\* an api token a new refresh token; the record keeps its place.
Refreshed(data, i, field, token) ==
    LET client == [data.clients[i] EXCEPT ![field] = token]
    IN [data EXCEPT !.clients = Newest([data.clients EXCEPT ![i] = client], MaxClients)]

---------------------------------------------------------------------------
(* Calls.                                                                  *)

NoData == [code |-> 0, clients |-> <<>>]
NoClient == [id |-> 0, tok |-> 0, ref |-> 0]
Idle == [pc |-> "idle", op |-> "none", phone |-> Nobody, secret |-> 0,
         copy |-> NoData, client |-> NoClient, old |-> 0]
NoScript == [pc |-> "idle", copy |-> NoData]

PairInit ==
    /\ file = Whole([code |-> 1, clients |-> <<>>])
    /\ lapsed = {}
    /\ lock = Nobody
    /\ call = [t \in Threads |-> Idle]
    /\ script = NoScript
    /\ phone = [p \in Phones |-> NoClient]
    /\ waiting = [p \in Phones |-> Nobody]
    /\ codes = 1 /\ tokens = 0
    /\ issued = <<>> /\ redeemed = <<>> /\ retired = {}
    /\ overlapped = FALSE
    /\ pairFaults = 0

\* What a phone may present: any code that was ever shown, or what it holds.
PhoneSecrets(p, op) == CASE op = "exchange" -> 1 .. codes
                    [] op = "refresh" -> {phone[p].ref} \ {0}
                    [] op = "bootstrap" -> {phone[p].tok} \ {0}

Operations == {"exchange", "refresh", "bootstrap"}

\* A phone has one call under way; one that gives up may call again while the
\* first is still served.
Call(t, p, op) ==
    /\ call[t] = Idle /\ waiting[p] = Nobody
    /\ \E s \in PhoneSecrets(p, op) :
          call' = [call EXCEPT ![t] = [Idle EXCEPT !.pc = "sent", !.op = op, !.phone = p, !.secret = s]]
    /\ waiting' = [waiting EXCEPT ![p] = t]
    /\ UNCHANGED <<file, lapsed, lock, script, phone, codes, tokens, issued, redeemed, retired, overlapped, pairFaults>>

GiveUp(p) ==
    /\ waiting[p] # Nobody
    /\ waiting' = [waiting EXCEPT ![p] = Nobody]
    /\ UNCHANGED <<file, lapsed, lock, call, script, phone, codes, tokens, issued, redeemed, retired, overlapped, pairFaults>>

CodeAccepted(data, code) == code # 0 /\ data.code = code /\ code \notin lapsed

LockFreeBug(t) == TRUE
LockFree(t) == lock = Nobody

\* exchange_pair_code, up to its first write
EnterExchange(t) ==
    LET data == ReadFile
    IN /\ call[t].pc = "sent" /\ call[t].op = "exchange" /\ LockFree(t)
       /\ CodeAccepted(data, call[t].secret)
       /\ codes < MaxCodes /\ tokens + 2 <= MaxTokens
       /\ codes' = codes + 1 /\ tokens' = tokens + 2
       /\ lock' = t
       /\ call' = [call EXCEPT ![t].pc = "rotate", ![t].copy = Rotated(data, codes + 1),
                               ![t].client = [id |-> tokens + 1, tok |-> tokens + 1, ref |-> tokens + 2]]
       /\ overlapped' = (overlapped \/ script.pc # "idle")
       /\ UNCHANGED <<file, lapsed, script, phone, waiting, issued, redeemed, retired, pairFaults>>

Presented(op) == IF op = "refresh" THEN "ref" ELSE "tok"
Renewed(op) == IF op = "refresh" THEN "tok" ELSE "ref"

\* refresh_pairing_credentials, up to its write; of several records that hold
\* the token the first one is taken
EnterRefresh(t) ==
    LET data == ReadFile
        op == call[t].op
        holders == Holders(data, Presented(op), call[t].secret)
    IN /\ call[t].pc = "sent" /\ op \in {"refresh", "bootstrap"} /\ LockFree(t)
       /\ tokens < MaxTokens
       /\ tokens' = tokens + 1
       /\ lock' = t
       /\ \E i \in holders :
            /\ \A k \in holders : i <= k
            /\ call' = [call EXCEPT ![t].pc = "store", ![t].copy = Refreshed(data, i, Renewed(op), tokens + 1),
                                    ![t].client = [data.clients[i] EXCEPT ![Renewed(op)] = tokens + 1],
                                    ![t].old = data.clients[i][Renewed(op)]]
       /\ overlapped' = (overlapped \/ script.pc # "idle")
       /\ UNCHANGED <<file, lapsed, script, phone, waiting, codes, issued, redeemed, retired, pairFaults>>

\* 401, 403 or 503: nothing is written
Refuse(t) ==
    /\ call[t].pc = "sent" /\ LockFree(t)
    /\ IF call[t].op = "exchange" THEN ~CodeAccepted(ReadFile, call[t].secret)
                                  ELSE Holders(ReadFile, Presented(call[t].op), call[t].secret) = {}
    /\ call' = [call EXCEPT ![t] = Idle]
    /\ waiting' = [p \in Phones |-> IF waiting[p] = t THEN Nobody ELSE waiting[p]]
    /\ UNCHANGED <<file, lapsed, lock, script, phone, codes, tokens, issued, redeemed, retired, overlapped, pairFaults>>

\* write_text, first half
Truncate(t) ==
    /\ call[t].pc \in {"rotate", "store"}
    /\ file' = Torn
    /\ call' = [call EXCEPT ![t].pc = IF @ = "rotate" THEN "rotating" ELSE "storing"]
    /\ UNCHANGED <<lapsed, lock, script, phone, waiting, codes, tokens, issued, redeemed, retired, overlapped, pairFaults>>

\* The file has the new code, the phone has nothing yet.
FillRotated(t) ==
    /\ call[t].pc = "rotating"
    /\ file' = Whole(call[t].copy)
    /\ call' = [call EXCEPT ![t].pc = "store", ![t].copy = Issued(call[t].copy, call[t].client)]
    /\ UNCHANGED <<lapsed, lock, script, phone, waiting, codes, tokens, issued, redeemed, retired, overlapped, pairFaults>>

\* The record is stored, the lock is left.
FillStored(t) ==
    /\ call[t].pc = "storing"
    /\ file' = Whole(call[t].copy)
    /\ call' = [call EXCEPT ![t].pc = "answer"]
    /\ lock' = Nobody
    /\ IF call[t].op = "exchange"
       THEN /\ issued' = Append(issued, call[t].client.id)
            /\ redeemed' = Append(redeemed, call[t].secret)
            /\ UNCHANGED retired
       ELSE /\ retired' = retired \cup ({call[t].old} \ {0})
            /\ UNCHANGED <<issued, redeemed>>
    /\ UNCHANGED <<lapsed, script, phone, waiting, codes, tokens, overlapped, pairFaults>>

\* The answer reaches the phone if it still waits for it.
Answer(t) ==
    LET p == call[t].phone
    IN /\ call[t].pc = "answer"
       /\ call' = [call EXCEPT ![t] = Idle]
       /\ IF waiting[p] = t
          THEN /\ phone' = [phone EXCEPT ![p] = call[t].client]
               /\ waiting' = [waiting EXCEPT ![p] = Nobody]
          ELSE UNCHANGED <<phone, waiting>>
       /\ UNCHANGED <<file, lapsed, lock, script, codes, tokens, issued, redeemed, retired, overlapped, pairFaults>>

CodeExpires ==
    /\ file.code \notin lapsed \cup {0}
    /\ lapsed' = lapsed \cup {file.code}
    /\ UNCHANGED <<file, lock, call, script, phone, waiting, codes, tokens, issued, redeemed, retired, overlapped, pairFaults>>

---------------------------------------------------------------------------
(* Scripts and crashes.                                                    *)

\* pairing_qr.sh with an expired code or PAIR_CODE_FORCE_REFRESH, and
\* rotate_api_token.sh: read, rewrite with a new code.  A torn file stops them.
ScriptRead ==
    /\ script.pc = "idle" /\ ~file.torn
    /\ pairFaults < MaxFaults /\ codes < MaxCodes
    /\ codes' = codes + 1
    /\ script' = [pc |-> "write", copy |-> Rotated(ReadFile, codes + 1)]
    /\ overlapped' = (overlapped \/ lock # Nobody)
    /\ pairFaults' = pairFaults + 1
    /\ UNCHANGED <<file, lapsed, lock, call, phone, waiting, tokens, issued, redeemed, retired>>

ScriptTruncate ==
    /\ script.pc = "write"
    /\ file' = Torn
    /\ script' = [script EXCEPT !.pc = "writing"]
    /\ UNCHANGED <<lapsed, lock, call, phone, waiting, codes, tokens, issued, redeemed, retired, overlapped, pairFaults>>

ScriptFill ==
    /\ script.pc = "writing"
    /\ file' = Whole(script.copy)
    /\ script' = NoScript
    /\ UNCHANGED <<lapsed, lock, call, phone, waiting, codes, tokens, issued, redeemed, retired, overlapped, pairFaults>>

\* The machine stops and the backend starts anew; the file is what it was.
PairCrash ==
    /\ pairFaults < MaxFaults
    /\ call' = [t \in Threads |-> Idle]
    /\ waiting' = [p \in Phones |-> Nobody]
    /\ lock' = Nobody
    /\ script' = NoScript
    /\ pairFaults' = pairFaults + 1
    /\ UNCHANGED <<file, lapsed, phone, codes, tokens, issued, redeemed, retired, overlapped>>

PairThread(t) ==
    \/ \E p \in Phones, op \in Operations : Call(t, p, op)
    \/ EnterExchange(t) \/ EnterRefresh(t) \/ Refuse(t)
    \/ Truncate(t) \/ FillRotated(t) \/ FillStored(t) \/ Answer(t)

PairNext ==
    \/ \E t \in Threads : PairThread(t)
    \/ \E p \in Phones : GiveUp(p)
    \/ CodeExpires
    \/ ScriptRead \/ ScriptTruncate \/ ScriptFill
    \/ PairCrash

PairSpec == PairInit /\ [][PairNext]_pairVars

---------------------------------------------------------------------------
(* Properties.                                                             *)

Clients == [id : 1 .. MaxTokens, tok : 1 .. MaxTokens, ref : 0 .. MaxTokens]
Data == [code : 0 .. MaxCodes, clients : Seq(Clients)]
CallRecords == [pc : {"idle", "sent", "rotate", "rotating", "store", "storing", "answer"},
                op : Operations \cup {"none"}, phone : Phones \cup {Nobody},
                secret : Nat, copy : Data, client : Clients \cup {NoClient}, old : 0 .. MaxTokens]
PairTypeOK ==
    /\ file \in [torn : BOOLEAN, code : 0 .. MaxCodes, clients : Seq(Clients)]
    /\ Len(file.clients) <= MaxClients
    /\ lapsed \subseteq 1 .. MaxCodes
    /\ lock \in Threads \cup {Nobody}
    /\ call \in [Threads -> CallRecords]
    /\ script \in [pc : {"idle", "write", "writing"}, copy : Data]
    /\ phone \in [Phones -> Clients \cup {NoClient}]
    /\ waiting \in [Phones -> Threads \cup {Nobody}]
    /\ codes \in 1 .. MaxCodes /\ tokens \in 0 .. MaxTokens
    /\ issued \in Seq(1 .. MaxTokens) /\ redeemed \in Seq(1 .. MaxCodes)
    /\ retired \subseteq 1 .. MaxTokens
    /\ overlapped \in BOOLEAN
    /\ pairFaults \in 0 .. MaxFaults

\* A pair code gives credentials to one phone: a code that was exchanged is
\* never exchanged again, whatever the threads, the scripts and crashes
\* between the two writes of an exchange do.
CodeRedeemedOnce ==
    \A i, j \in 1 .. Len(redeemed) : redeemed[i] = redeemed[j] => i = j

\* Unless a script has worked beside a call, the file holds the phones that
\* paired last, as many as it may hold, in the order in which they paired: no
\* exchange or refresh loses what another one has stored.
LatestPhonesAreKept ==
    ~file.torn /\ ~overlapped =>
        [i \in 1 .. Len(file.clients) |-> file.clients[i].id] = Newest(issued, MaxClients)

\* Unless a script has worked beside a call, a phone whose record was not
\* pushed out can still get in with its api token or its refresh token: also
\* after answers that it did not wait for, and calls it repeated.
PhoneCanReturn ==
    ~file.torn /\ ~overlapped =>
        \A p \in Phones, i \in 1 .. Len(file.clients) :
            file.clients[i].id = phone[p].id =>
                \/ file.clients[i].tok = phone[p].tok
                \/ phone[p].ref # 0 /\ file.clients[i].ref = phone[p].ref

\* Unless a script has worked beside a call, a token that a refresh replaced
\* is not in the file again.
ReplacedTokenIsDead ==
    ~file.torn /\ ~overlapped =>
        \A i \in 1 .. Len(file.clients) : {file.clients[i].tok, file.clients[i].ref} \cap retired = {}

\* The phones that paired are kept, and each of them gets in with what it has
\* and with nothing older: exchanges and refreshes, repeated, abandoned or at
\* the same time, leave the file as if they had come one after the other.
PhonesAreKept == LatestPhonesAreKept /\ PhoneCanReturn /\ ReplacedTokenIsDead

=============================================================================
