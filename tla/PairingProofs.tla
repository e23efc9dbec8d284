---------------------------- MODULE PairingProofs ----------------------------
(***************************************************************************)
(* Proofs about Pairing, for every number of phones, threads, codes,       *)
(* tokens, scripts and crashes, from the invariants of PairingInvariant:   *)
(* a code is exchanged once (PairInv), and the phones that paired are kept *)
(* (KeepInv, on top of PairInv); and about PairAttempts, for every limit   *)
(* and number of threads: no minute lets more through than the limit.      *)
(***************************************************************************)
EXTENDS PairingInvariant, PairAttempts, SelectionProofs, TLAPS

---------------------------------------------------------------------------
(* The file.                                                               *)

LEMMA NewestFits ==
    ASSUME NEW S, NEW s \in Seq(S)
    PROVE  Newest(s, MaxClients) \in Seq(S) /\ Len(Newest(s, MaxClients)) <= MaxClients
  <1> DEFINE from == IF Len(s) > MaxClients THEN Len(s) - MaxClients + 1 ELSE 1
  <1>1. Len(s) \in Nat /\ from \in 1 .. Len(s) + 1 /\ Len(s) - from + 1 <= MaxClients
    BY ClientAssumption
  <1>2. \A i \in from .. Len(s) : s[i] \in S
    BY <1>1
  <1>3. SubSeq(s, from, Len(s)) \in Seq(S)
    BY <1>1, <1>2
  <1>4. Len(SubSeq(s, from, Len(s))) = IF from <= Len(s) THEN Len(s) - from + 1 ELSE 0
    BY <1>1
  <1> QED
    BY <1>1, <1>3, <1>4, ClientAssumption DEF Newest

LEMMA ReadFits ==
    ASSUME PairInv
    PROVE  ReadFile \in Data /\ ReadFile.code = file.code /\ Len(ReadFile.clients) <= MaxClients
  BY DEF PairInv, PairTypeOK, ReadFile, Data

LEMMA RotatedFits ==
    ASSUME NEW data \in Data, NEW code \in 0 .. MaxCodes
    PROVE  Rotated(data, code) \in Data /\ Rotated(data, code).code = code
           /\ Rotated(data, code).clients = data.clients
  BY DEF Rotated, Data

LEMMA IssuedFits ==
    ASSUME NEW data \in Data, NEW client \in Clients
    PROVE  /\ Issued(data, client) \in Data /\ Issued(data, client).code = data.code
           /\ Len(Issued(data, client).clients) <= MaxClients
  <1>1. data.clients \in Seq(Clients) /\ data.code \in 0 .. MaxCodes /\ data = [code |-> data.code, clients |-> data.clients]
    BY DEF Data
  <1>2. Append(data.clients, client) \in Seq(Clients)
    BY <1>1
  <1>3. Newest(Append(data.clients, client), MaxClients) \in Seq(Clients)
        /\ Len(Newest(Append(data.clients, client), MaxClients)) <= MaxClients
    BY <1>2, NewestFits
  <1>4. Issued(data, client) = [code |-> data.code, clients |-> Newest(Append(data.clients, client), MaxClients)]
    BY <1>1 DEF Issued
  <1> QED
    BY <1>1, <1>3, <1>4 DEF Data

LEMMA RenewedClient ==
    ASSUME NEW client \in Clients, NEW op \in Operations, NEW token \in 1 .. MaxTokens
    PROVE  [client EXCEPT ![Renewed(op)] = token] \in Clients /\ client[Renewed(op)] \in 0 .. MaxTokens
  <1>1. MaxTokens \in Nat
    BY BoundsAssumption
  <1>2. CASE op = "refresh"
    BY <1>1, <1>2 DEF Renewed, Clients
  <1>3. CASE op # "refresh"
    BY <1>1, <1>3 DEF Renewed, Clients
  <1> QED
    BY <1>2, <1>3

LEMMA RefreshedFits ==
    ASSUME NEW data \in Data, NEW i \in 1 .. Len(data.clients), NEW op \in Operations, NEW token \in 1 .. MaxTokens
    PROVE  /\ Refreshed(data, i, Renewed(op), token) \in Data
           /\ Refreshed(data, i, Renewed(op), token).code = data.code
           /\ Len(Refreshed(data, i, Renewed(op), token).clients) <= MaxClients
  <1> DEFINE renewed == [data.clients EXCEPT ![i] = [data.clients[i] EXCEPT ![Renewed(op)] = token]]
  <1>1. data.clients \in Seq(Clients) /\ data.code \in 0 .. MaxCodes /\ data = [code |-> data.code, clients |-> data.clients]
    BY DEF Data
  <1>2. data.clients[i] \in Clients
    BY <1>1
  <1>3. [data.clients[i] EXCEPT ![Renewed(op)] = token] \in Clients
    BY <1>2, RenewedClient
  <1>4. renewed \in Seq(Clients)
    BY <1>1, <1>3
  <1>5. Newest(renewed, MaxClients) \in Seq(Clients) /\ Len(Newest(renewed, MaxClients)) <= MaxClients
    BY <1>4, NewestFits
  <1>6. Refreshed(data, i, Renewed(op), token) = [code |-> data.code, clients |-> Newest(renewed, MaxClients)]
    BY <1>1 DEF Refreshed
  <1> QED
    BY <1>1, <1>5, <1>6 DEF Data

LEMMA HolderIsPlace ==
    ASSUME NEW data, NEW field, NEW token, NEW i \in Holders(data, field, token)
    PROVE  i \in 1 .. Len(data.clients)
  BY DEF Holders

---------------------------------------------------------------------------
(* The steps.                                                              *)

LEMMA IdleFits == Idle \in CallRecords /\ NoData \in Data /\ Len(NoData.clients) = 0 /\ NoData.code = 0
  BY BoundsAssumption DEF Idle, CallRecords, NoData, Data, NoClient

LEMMA Elements ==
    ASSUME NEW S, NEW s \in Seq(S)
    PROVE  /\ Len(s) \in Nat /\ \A i \in 1 .. Len(s) : s[i] \in S
           /\ \A e \in S : /\ Append(s, e) \in Seq(S) /\ Len(Append(s, e)) = Len(s) + 1
                           /\ \A i \in 1 .. Len(s) + 1 : Append(s, e)[i] = IF i <= Len(s) THEN s[i] ELSE e
  OBVIOUS

LEMMA Numbers ==
    ASSUME PairInv
    PROVE  /\ codes \in Nat /\ 1 <= codes /\ codes <= MaxCodes /\ MaxCodes \in Nat
           /\ file.code \in Nat /\ script.copy \in Data /\ script.copy.code \in Nat
           /\ \A t \in Threads : call[t] \in CallRecords /\ call[t].copy \in Data /\ call[t].copy.code \in Nat
           /\ Spent \subseteq 1 .. MaxCodes
  <1>1. codes \in Nat /\ 1 <= codes /\ codes <= MaxCodes /\ MaxCodes \in Nat
    BY BoundsAssumption DEF PairInv, PairTypeOK
  <1>2. file.code \in Nat /\ script.copy \in Data /\ script.copy.code \in Nat
    BY BoundsAssumption DEF PairInv, PairTypeOK, Data
  <1>3. ASSUME NEW t \in Threads
        PROVE  call[t] \in CallRecords /\ call[t].copy \in Data /\ call[t].copy.code \in Nat
    <2>1. call[t] \in CallRecords
      BY DEF PairInv, PairTypeOK
    <2>2. call[t].copy \in Data
      BY <2>1 DEF CallRecords
    <2>3. call[t].copy.code \in 0 .. MaxCodes
      BY <2>2 DEF Data
    <2> QED
      BY <1>1, <2>1, <2>2, <2>3
  <1>4. redeemed \in Seq(1 .. MaxCodes)
    BY DEF PairInv, PairTypeOK
  <1>5. \A i \in 1 .. Len(redeemed) : redeemed[i] \in 1 .. MaxCodes
    BY <1>4, Elements
  <1>6. Spent \subseteq 1 .. MaxCodes
    BY <1>5 DEF Spent
  <1> QED
    BY <1>1, <1>2, <1>3, <1>6

LEMMA OtherCalls ==
    ASSUME PairInv, NEW t \in Threads, NEW new \in CallRecords, call' = [call EXCEPT ![t] = new]
    PROVE  call' \in [Threads -> CallRecords] /\ call'[t] = new /\ \A u \in Threads \ {t} : call'[u] = call[u]
  BY DEF PairInv, PairTypeOK

\* A thread that does not write may do as it likes.
LEMMA IdleCall ==
    ASSUME PairInv, NEW t \in Threads, NEW new \in CallRecords, call' = [call EXCEPT ![t] = new],
           new.pc \notin Working, new.pc # "answer", new.copy = NoData,
           UNCHANGED <<file, lock, script, codes, redeemed>>
    PROVE  /\ call' \in [Threads -> CallRecords]
           /\ CopiesFit' /\ WriterHoldsLock' /\ AnswerHasClient'
           /\ CodesAreDrawn' /\ SpentIsGone' /\ CodeRedeemedOnce'
  <1>1. call' \in [Threads -> CallRecords] /\ call'[t] = new /\ \A u \in Threads \ {t} : call'[u] = call[u]
    BY OtherCalls
  <1>2. new.copy.code = 0 /\ Len(new.copy.clients) <= MaxClients
    BY IdleFits, ClientAssumption
  <1>3. CopiesFit'
    BY <1>1, <1>2 DEF PairInv, CopiesFit
  <1>4. WriterHoldsLock' /\ AnswerHasClient'
    BY <1>1, <1>2 DEF PairInv, WriterHoldsLock, AnswerHasClient
  <1>5. CodesAreDrawn'
    BY <1>1, <1>2, Numbers DEF PairInv, CodesAreDrawn, Redeems, Spent
  <1>6. SpentIsGone'
    BY <1>1, <1>2 DEF PairInv, SpentIsGone, Redeems, Spent
  <1> QED
    BY <1>1, <1>3, <1>4, <1>5, <1>6 DEF PairInv, CodeRedeemedOnce

LEMMA CallStep ==
    ASSUME PairInv, NEW t \in Threads, NEW p \in Phones, NEW op \in Operations, Call(t, p, op)
    PROVE  PairInv'
  <1>1. PICK s \in PhoneSecrets(p, op) :
            call' = [call EXCEPT ![t] = [Idle EXCEPT !.pc = "sent", !.op = op, !.phone = p, !.secret = s]]
    BY DEF Call
  <1>2. s \in Nat
    BY BoundsAssumption DEF PhoneSecrets, PairInv, PairTypeOK, Operations, Clients, NoClient
  <1> DEFINE new == [Idle EXCEPT !.pc = "sent", !.op = op, !.phone = p, !.secret = s]
  <1>3. new \in CallRecords /\ new.pc = "sent" /\ new.copy = NoData
    BY <1>2, IdleFits DEF Idle, CallRecords
  <1>4. call' = [call EXCEPT ![t] = new]
    BY <1>1
  <1> HIDE DEF new
  <1>5. UNCHANGED <<file, lock, script, codes, redeemed>>
    BY DEF Call
  <1>6. /\ call' \in [Threads -> CallRecords]
        /\ CopiesFit' /\ WriterHoldsLock' /\ AnswerHasClient'
        /\ CodesAreDrawn' /\ SpentIsGone' /\ CodeRedeemedOnce'
    BY <1>3, <1>4, <1>5, IdleCall DEF Working
  <1>7. PairTypeOK'
    BY <1>6 DEF PairInv, PairTypeOK, Call
  <1> QED
    BY <1>6, <1>7 DEF PairInv

LEMMA RefuseStep ==
    ASSUME PairInv, NEW t \in Threads, Refuse(t)
    PROVE  PairInv'
  <1>1. call' = [call EXCEPT ![t] = Idle] /\ Idle.pc = "idle" /\ Idle.copy = NoData
    BY DEF Refuse, Idle
  <1>2. UNCHANGED <<file, lock, script, codes, redeemed>>
    BY DEF Refuse
  <1>3. /\ call' \in [Threads -> CallRecords]
        /\ CopiesFit' /\ WriterHoldsLock' /\ AnswerHasClient'
        /\ CodesAreDrawn' /\ SpentIsGone' /\ CodeRedeemedOnce'
    BY <1>1, <1>2, IdleCall, IdleFits DEF Working
  <1>4. PairTypeOK'
    BY <1>3 DEF PairInv, PairTypeOK, Refuse
  <1> QED
    BY <1>3, <1>4 DEF PairInv

LEMMA AnswerStep ==
    ASSUME PairInv, NEW t \in Threads, Answer(t)
    PROVE  PairInv'
  <1>1. call' = [call EXCEPT ![t] = Idle] /\ Idle.pc = "idle" /\ Idle.copy = NoData
    BY DEF Answer, Idle
  <1>2. UNCHANGED <<file, lock, script, codes, redeemed>>
    BY DEF Answer
  <1>3. /\ call' \in [Threads -> CallRecords]
        /\ CopiesFit' /\ WriterHoldsLock' /\ AnswerHasClient'
        /\ CodesAreDrawn' /\ SpentIsGone' /\ CodeRedeemedOnce'
    BY <1>1, <1>2, IdleCall, IdleFits DEF Working
  <1>4. call[t].client \in Clients
    BY DEF PairInv, AnswerHasClient, Answer
  <1>5. PairTypeOK'
    BY <1>3, <1>4 DEF PairInv, PairTypeOK, Answer
  <1> QED
    BY <1>3, <1>5 DEF PairInv

LEMMA GiveUpStep ==
    ASSUME PairInv, NEW p \in Phones, GiveUp(p)
    PROVE  PairInv'
  BY DEF PairInv, GiveUp, PairTypeOK, CopiesFit, WriterHoldsLock, AnswerHasClient, CodesAreDrawn,
         SpentIsGone, CodeRedeemedOnce, Redeems, Spent

LEMMA CodeExpiresStep ==
    ASSUME PairInv, CodeExpires
    PROVE  PairInv'
  <1>0. file.code \in 0 .. MaxCodes
    BY DEF PairInv, PairTypeOK
  <1>1. file.code \in 1 .. MaxCodes
    BY <1>0, BoundsAssumption DEF CodeExpires
  <1>2. lapsed' \subseteq 1 .. MaxCodes
    BY <1>1 DEF PairInv, PairTypeOK, CodeExpires
  <1>3. PairTypeOK'
    BY <1>2 DEF PairInv, PairTypeOK, CodeExpires
  <1> QED
    BY <1>3 DEF PairInv, CodeExpires, CopiesFit, WriterHoldsLock, AnswerHasClient, CodesAreDrawn,
                SpentIsGone, CodeRedeemedOnce, Redeems, Spent

\* An exchange draws the next code, which nobody has.
LEMMA EnterExchangeStep ==
    ASSUME PairInv, NEW t \in Threads, EnterExchange(t)
    PROVE  PairInv'
  <1> DEFINE client == [id |-> tokens + 1, tok |-> tokens + 1, ref |-> tokens + 2]
             copy == Rotated(ReadFile, codes + 1)
             new == [call[t] EXCEPT !.pc = "rotate", !.copy = copy, !.client = client]
  <1>1. /\ codes + 1 \in 0 .. MaxCodes /\ codes' = codes + 1 /\ tokens' = tokens + 2
        /\ tokens' \in 0 .. MaxTokens /\ client \in Clients
    BY Numbers, BoundsAssumption, SMTT(60) DEF EnterExchange, PairInv, PairTypeOK, Clients
  <1>2. copy \in Data /\ copy.code = codes + 1 /\ Len(copy.clients) <= MaxClients
    <2>1. ReadFile \in Data /\ Len(ReadFile.clients) <= MaxClients
      BY ReadFits
    <2> QED
      BY <1>1, <2>1, RotatedFits
  <1> HIDE DEF client, copy
  <1>3. call[t] \in CallRecords /\ call[t].op = "exchange" /\ lock = Nobody /\ lock' = t
    BY Numbers DEF EnterExchange, LockFree
  <1>4. /\ new \in CallRecords /\ new.pc = "rotate" /\ new.op = "exchange" /\ new.copy = copy
        /\ new.client = client /\ new.secret = call[t].secret
    BY <1>1, <1>2, <1>3 DEF CallRecords
  <1>5. call' = [call EXCEPT ![t] = new]
    BY DEF EnterExchange, client, copy
  <1>6. UNCHANGED <<file, script, redeemed>>
    BY DEF EnterExchange
  <1>7. call[t].secret # 0 /\ call[t].secret = file.code
    BY DEF EnterExchange, CodeAccepted, ReadFile
  <1> HIDE DEF new
  <1>8. call' \in [Threads -> CallRecords] /\ call'[t] = new /\ \A u \in Threads \ {t} : call'[u] = call[u]
    BY <1>4, <1>5, OtherCalls
  <1>9. \A u \in Threads : call[u].pc \notin Working
    BY <1>3, NobodyAssumption DEF PairInv, WriterHoldsLock
  <1>10. PairTypeOK'
    BY <1>1, <1>3, <1>8 DEF PairInv, PairTypeOK, EnterExchange
  <1>11. CopiesFit'
    BY <1>2, <1>4, <1>6, <1>8 DEF PairInv, CopiesFit
  <1>12. WriterHoldsLock' /\ AnswerHasClient'
    BY <1>1, <1>3, <1>4, <1>8, <1>9 DEF PairInv, WriterHoldsLock, AnswerHasClient
  <1>13. CodesAreDrawn'
    <2>1. file.code <= codes /\ script.copy.code <= codes /\ \A c \in Spent : c <= codes
      BY DEF PairInv, CodesAreDrawn
    <2>6. Spent' = Spent
      BY <1>6 DEF Spent
    <2>2. \A c \in Spent' : c <= codes'
      BY <1>1, <2>1, <2>6, Numbers
    <2>3. \A u \in Threads : call'[u].copy.code <= codes'
      BY <1>1, <1>2, <1>4, <1>8, Numbers DEF PairInv, CodesAreDrawn
    <2>4. \A u \in Threads : Redeems(u)' => u = t
      BY <1>8, <1>9 DEF Redeems
    <2>5. call'[t].secret \in 1 .. codes'
      BY <1>1, <1>4, <1>7, <1>8, <2>1, Numbers
    <2> QED
      BY <1>1, <1>6, <2>1, <2>2, <2>3, <2>4, <2>5, Numbers DEF CodesAreDrawn
  <1>14. SpentIsGone'
    <2>1. Spent' = Spent /\ \A c \in Spent : c <= codes
      BY <1>6 DEF Spent, PairInv, CodesAreDrawn
    <2>2. call'[t].copy.code = codes + 1 /\ codes + 1 \notin Spent /\ call'[t].secret # codes + 1
      BY <1>2, <1>4, <1>7, <1>8, <2>1, Numbers DEF PairInv, CodesAreDrawn
    <2>3. call'[t].secret \notin Spent
      BY <1>4, <1>7, <1>8 DEF PairInv, SpentIsGone
    <2>4. \A u \in Threads : call'[u].pc \in Working => u = t
      BY <1>8, <1>9
    <2>5. script.pc # "idle" => /\ script.copy.code # 0 /\ script.copy.code \notin Spent
                                /\ script.copy.code # file.code
                                /\ script.copy.code # codes + 1 /\ script.copy.code # call'[t].secret
      BY <1>4, <1>7, <1>8, Numbers DEF PairInv, SpentIsGone, CodesAreDrawn
    <2>6. file.code \notin Spent
      BY DEF PairInv, SpentIsGone
    <2> QED
      BY <1>6, <2>1, <2>2, <2>3, <2>4, <2>5, <2>6 DEF SpentIsGone, Redeems
  <1> QED
    BY <1>6, <1>10, <1>11, <1>12, <1>13, <1>14 DEF PairInv, CodeRedeemedOnce

\* A refresh leaves the code as it is.
LEMMA EnterRefreshStep ==
    ASSUME PairInv, NEW t \in Threads, EnterRefresh(t)
    PROVE  PairInv'
  <1> DEFINE op == call[t].op
  <1>1. PICK i \in Holders(ReadFile, Presented(op), call[t].secret) :
            call' = [call EXCEPT ![t].pc = "store",
                                 ![t].copy = Refreshed(ReadFile, i, Renewed(op), tokens + 1),
                                 ![t].client = [ReadFile.clients[i] EXCEPT ![Renewed(op)] = tokens + 1],
                                 ![t].old = ReadFile.clients[i][Renewed(op)]]
    BY DEF EnterRefresh
  <1> DEFINE client == [ReadFile.clients[i] EXCEPT ![Renewed(op)] = tokens + 1]
             copy == Refreshed(ReadFile, i, Renewed(op), tokens + 1)
             old == ReadFile.clients[i][Renewed(op)]
             new == [call[t] EXCEPT !.pc = "store", !.copy = copy, !.client = client, !.old = old]
  <1>2. op \in Operations /\ op # "exchange" /\ lock = Nobody /\ lock' = t
    BY DEF EnterRefresh, LockFree, Operations
  <1>3. tokens' = tokens + 1 /\ tokens' \in 1 .. MaxTokens
    BY BoundsAssumption DEF EnterRefresh, PairInv, PairTypeOK
  <1>4. ReadFile \in Data /\ ReadFile.code = file.code /\ i \in 1 .. Len(ReadFile.clients)
    BY ReadFits, HolderIsPlace
  <1>5. ReadFile.clients[i] \in Clients
    BY <1>4, Elements DEF Data
  <1>6. client \in Clients /\ old \in 0 .. MaxTokens
    BY <1>2, <1>3, <1>5, RenewedClient
  <1>7. copy \in Data /\ copy.code = file.code /\ Len(copy.clients) <= MaxClients
    BY <1>2, <1>3, <1>4, RefreshedFits
  <1>8. call' = [call EXCEPT ![t] = new]
    BY <1>1
  <1> HIDE DEF client, copy, old
  <1>9. call[t] \in CallRecords
    BY Numbers
  <1>10. /\ new \in CallRecords /\ new.pc = "store" /\ new.op = op /\ new.copy = copy /\ new.client = client
    BY <1>6, <1>7, <1>9 DEF CallRecords
  <1> HIDE DEF new
  <1>11. UNCHANGED <<file, script, redeemed, codes>>
    BY DEF EnterRefresh
  <1>12. call' \in [Threads -> CallRecords] /\ call'[t] = new /\ \A u \in Threads \ {t} : call'[u] = call[u]
    BY <1>8, <1>10, OtherCalls
  <1>13. \A u \in Threads : call[u].pc \notin Working
    BY <1>2, NobodyAssumption DEF PairInv, WriterHoldsLock
  <1>14. PairTypeOK'
    BY <1>2, <1>3, <1>12 DEF PairInv, PairTypeOK, EnterRefresh
  <1>15. CopiesFit'
    BY <1>7, <1>10, <1>11, <1>12 DEF PairInv, CopiesFit
  <1>16. WriterHoldsLock' /\ AnswerHasClient'
    BY <1>2, <1>6, <1>10, <1>12, <1>13 DEF PairInv, WriterHoldsLock, AnswerHasClient
  <1>17. \A u \in Threads : ~Redeems(u)' /\ (call'[u].pc \in Working => u = t)
    BY <1>2, <1>10, <1>12, <1>13 DEF Redeems
  <1>18. CodesAreDrawn'
    BY <1>7, <1>10, <1>11, <1>12, <1>17 DEF PairInv, CodesAreDrawn, Spent
  <1>19. SpentIsGone'
    BY <1>7, <1>10, <1>11, <1>12, <1>17 DEF PairInv, SpentIsGone, Spent
  <1> QED
    BY <1>11, <1>14, <1>15, <1>16, <1>18, <1>19 DEF PairInv, CodeRedeemedOnce

LEMMA TruncateStep ==
    ASSUME PairInv, NEW t \in Threads, Truncate(t)
    PROVE  PairInv'
  <1> DEFINE pc == IF call[t].pc = "rotate" THEN "rotating" ELSE "storing"
             new == [call[t] EXCEPT !.pc = pc]
  <1>1. call[t] \in CallRecords /\ call[t].pc \in Working
    BY Numbers DEF Truncate, Working
  <1>2. call' = [call EXCEPT ![t] = new]
    BY DEF Truncate
  <1>3. /\ new \in CallRecords /\ new.pc \in Working /\ new.op = call[t].op /\ new.copy = call[t].copy
        /\ new.client = call[t].client /\ new.secret = call[t].secret
    BY <1>1 DEF CallRecords, Working
  <1>4. new.pc # "answer"
    BY DEF Truncate
  <1> HIDE DEF new
  <1>5. UNCHANGED <<lock, script, redeemed, codes>>
    BY DEF Truncate
  <1>6. file' = Torn /\ file'.code = 0 /\ file'.clients = <<>>
    BY DEF Truncate, Torn
  <1>7. call' \in [Threads -> CallRecords] /\ call'[t] = new /\ \A u \in Threads \ {t} : call'[u] = call[u]
    BY <1>2, <1>3, OtherCalls
  <1>8. PairTypeOK'
    <2>1. file' \in [torn : BOOLEAN, code : 0 .. MaxCodes, clients : Seq(Clients)] /\ Len(file'.clients) <= MaxClients
      BY <1>6, Numbers, ClientAssumption DEF Torn
    <2> QED
      BY <1>7, <2>1 DEF PairInv, PairTypeOK, Truncate
  <1>9. CopiesFit' /\ WriterHoldsLock' /\ AnswerHasClient'
    BY <1>1, <1>3, <1>4, <1>5, <1>7 DEF PairInv, CopiesFit, WriterHoldsLock, AnswerHasClient
  <1>10. \A u \in Threads : /\ Redeems(u)' <=> Redeems(u)
                            /\ call'[u].pc \in Working <=> call[u].pc \in Working
                            /\ call'[u].copy = call[u].copy /\ call'[u].secret = call[u].secret
    BY <1>1, <1>3, <1>7 DEF Redeems
  <1>11. Spent' = Spent /\ 0 \notin Spent
    BY <1>5, Numbers DEF Spent
  <1>12. CodesAreDrawn'
    BY <1>5, <1>6, <1>10, <1>11, Numbers DEF PairInv, CodesAreDrawn
  <1>13. SpentIsGone'
    BY <1>5, <1>6, <1>10, <1>11 DEF PairInv, SpentIsGone
  <1> QED
    BY <1>5, <1>8, <1>9, <1>12, <1>13 DEF PairInv, CodeRedeemedOnce

LEMMA FillRotatedStep ==
    ASSUME PairInv, NEW t \in Threads, FillRotated(t)
    PROVE  PairInv'
  <1> DEFINE copy == Issued(call[t].copy, call[t].client)
             new == [call[t] EXCEPT !.pc = "store", !.copy = copy]
  <1>1. call[t] \in CallRecords /\ call[t].copy \in Data /\ call[t].pc \in Working
    BY Numbers DEF FillRotated, Working
  <1>2. call[t].client \in Clients
    BY <1>1 DEF PairInv, WriterHoldsLock
  <1>3. copy \in Data /\ copy.code = call[t].copy.code /\ Len(copy.clients) <= MaxClients
    BY <1>1, <1>2, IssuedFits
  <1>4. call' = [call EXCEPT ![t] = new]
    BY DEF FillRotated
  <1> HIDE DEF copy
  <1>5. /\ new \in CallRecords /\ new.pc = "store" /\ new.op = call[t].op /\ new.copy = copy
        /\ new.client = call[t].client /\ new.secret = call[t].secret
    BY <1>1, <1>3 DEF CallRecords
  <1> HIDE DEF new
  <1>6. call' \in [Threads -> CallRecords] /\ call'[t] = new /\ \A u \in Threads \ {t} : call'[u] = call[u]
    BY <1>4, <1>5, OtherCalls
  <1>7. UNCHANGED <<lock, script, redeemed, codes>>
    BY DEF FillRotated
  <1>8. file'.code = call[t].copy.code /\ file'.clients = call[t].copy.clients /\ file'.torn = FALSE
        /\ file' = [torn |-> FALSE, code |-> call[t].copy.code, clients |-> call[t].copy.clients]
    BY DEF FillRotated, Whole
  <1>9. PairTypeOK'
    <2>1. Len(file'.clients) <= MaxClients
      BY <1>8 DEF PairInv, CopiesFit
    <2>2. file' \in [torn : BOOLEAN, code : 0 .. MaxCodes, clients : Seq(Clients)]
      BY <1>1, <1>8 DEF Data
    <2> QED
      BY <1>6, <2>1, <2>2 DEF PairInv, PairTypeOK, FillRotated
  <1>10. CopiesFit' /\ WriterHoldsLock' /\ AnswerHasClient'
    BY <1>1, <1>3, <1>5, <1>6, <1>7 DEF PairInv, CopiesFit, WriterHoldsLock, AnswerHasClient, Working
  <1>11. \A u \in Threads : /\ Redeems(u)' <=> Redeems(u)
                            /\ call'[u].pc \in Working <=> call[u].pc \in Working
                            /\ call'[u].copy.code = call[u].copy.code /\ call'[u].secret = call[u].secret
    BY <1>1, <1>3, <1>5, <1>6 DEF Redeems, Working
  <1>12. Spent' = Spent
    BY <1>7 DEF Spent
  <1>13. CodesAreDrawn'
    BY <1>7, <1>8, <1>11, <1>12 DEF PairInv, CodesAreDrawn
  <1>14. SpentIsGone'
    BY <1>1, <1>7, <1>8, <1>11, <1>12 DEF PairInv, SpentIsGone
  <1> QED
    BY <1>7, <1>9, <1>10, <1>13, <1>14 DEF PairInv, CodeRedeemedOnce

\* A code is spent when the phone's record is stored; it left the file with
\* the first write.
LEMMA FillStoredStep ==
    ASSUME PairInv, NEW t \in Threads, FillStored(t)
    PROVE  PairInv'
  <1> DEFINE new == [call[t] EXCEPT !.pc = "answer"]
  <1>1. call[t] \in CallRecords /\ call[t].copy \in Data /\ call[t].pc \in Working /\ lock = t
    BY Numbers DEF FillStored, Working, PairInv, WriterHoldsLock
  <1>2. call[t].client \in Clients
    BY <1>1 DEF PairInv, WriterHoldsLock
  <1>3. call' = [call EXCEPT ![t] = new]
    BY DEF FillStored
  <1>4. /\ new \in CallRecords /\ new.pc = "answer" /\ new.copy = call[t].copy
        /\ new.client = call[t].client
    BY <1>1 DEF CallRecords
  <1> HIDE DEF new
  <1>5. call' \in [Threads -> CallRecords] /\ call'[t] = new /\ \A u \in Threads \ {t} : call'[u] = call[u]
    BY <1>3, <1>4, OtherCalls
  <1>6. UNCHANGED <<script, codes>> /\ lock' = Nobody
    BY DEF FillStored
  <1>7. file'.code = call[t].copy.code
        /\ file' = [torn |-> FALSE, code |-> call[t].copy.code, clients |-> call[t].copy.clients]
    BY DEF FillStored, Whole
  <1>8. \A u \in Threads : call'[u].pc \notin Working
    BY <1>1, <1>4, <1>5 DEF PairInv, WriterHoldsLock, Working
  <1>9. /\ redeemed' \in Seq(1 .. MaxCodes) /\ issued' \in Seq(1 .. MaxTokens) /\ retired' \subseteq 1 .. MaxTokens
        /\ CodeRedeemedOnce'
        /\ \A c \in Spent' : c \in Spent \/ (Redeems(t) /\ c = call[t].secret)
    <2>1. CASE call[t].op = "exchange"
      <3>1. redeemed' = Append(redeemed, call[t].secret) /\ issued' = Append(issued, call[t].client.id)
            /\ retired' = retired
        BY <2>1 DEF FillStored
      <3>2. Redeems(t) /\ call[t].secret \in 1 .. codes /\ call[t].secret \in 1 .. MaxCodes
        BY <1>1, <2>1, Numbers DEF Redeems, PairInv, CodesAreDrawn
      <3>3. call[t].client.id \in 1 .. MaxTokens
        BY <1>2 DEF Clients
      <3>4. redeemed \in Seq(1 .. MaxCodes) /\ issued \in Seq(1 .. MaxTokens)
        BY DEF PairInv, PairTypeOK
      <3>5. /\ Len(redeemed) \in Nat /\ Len(redeemed') = Len(redeemed) + 1
            /\ \A i \in 1 .. Len(redeemed) + 1 :
                  redeemed'[i] = IF i <= Len(redeemed) THEN redeemed[i] ELSE call[t].secret
        BY <3>1, <3>2, <3>4, Elements
      <3>6. redeemed' \in Seq(1 .. MaxCodes) /\ issued' \in Seq(1 .. MaxTokens)
        BY <3>1, <3>2, <3>3, <3>4, Elements
      <3>7. Spent' \subseteq Spent \cup {call[t].secret}
        BY <3>5 DEF Spent
      <3>8. CodeRedeemedOnce'
        <4>1. \A i \in 1 .. Len(redeemed) : redeemed[i] # call[t].secret
          BY <3>2 DEF PairInv, SpentIsGone, Spent
        <4> QED
          BY <3>5, <4>1 DEF PairInv, CodeRedeemedOnce
      <3> QED
        BY <3>1, <3>2, <3>6, <3>7, <3>8 DEF PairInv, PairTypeOK
    <2>2. CASE call[t].op # "exchange"
      <3>1. redeemed' = redeemed /\ issued' = issued /\ retired' = retired \cup ({call[t].old} \ {0})
        BY <2>2 DEF FillStored
      <3>2. call[t].old \in 0 .. MaxTokens /\ MaxTokens \in Nat
        BY <1>1, BoundsAssumption DEF CallRecords
      <3>3. retired' \subseteq 1 .. MaxTokens
        <4>1. {call[t].old} \ {0} \subseteq 1 .. MaxTokens
          BY <3>2
        <4>2. retired \subseteq 1 .. MaxTokens
          BY DEF PairInv, PairTypeOK
        <4> QED
          BY <3>1, <4>1, <4>2
      <3>4. Spent' = Spent /\ CodeRedeemedOnce'
        BY <3>1 DEF Spent, PairInv, CodeRedeemedOnce
      <3> QED
        BY <3>1, <3>3, <3>4 DEF PairInv, PairTypeOK
    <2> QED
      BY <2>1, <2>2
  <1>10. PairTypeOK'
    <2>1. Len(file'.clients) <= MaxClients
      BY <1>7 DEF PairInv, CopiesFit
    <2>2. file' \in [torn : BOOLEAN, code : 0 .. MaxCodes, clients : Seq(Clients)]
      BY <1>1, <1>7 DEF Data
    <2>3. UNCHANGED <<lapsed, script, phone, waiting, codes, tokens, overlapped, pairFaults>>
      BY DEF FillStored
    <2> QED
      BY <1>5, <1>6, <1>9, <2>1, <2>2, <2>3 DEF PairInv, PairTypeOK
  <1>11. CopiesFit' /\ WriterHoldsLock' /\ AnswerHasClient'
    BY <1>2, <1>4, <1>5, <1>6, <1>8 DEF PairInv, CopiesFit, WriterHoldsLock, AnswerHasClient
  <1>12. \A u \in Threads : call'[u].copy = call[u].copy /\ ~Redeems(u)'
    BY <1>4, <1>5, <1>8 DEF Redeems
  <1>13. CodesAreDrawn'
    <2>1. file.code <= codes /\ script.copy.code <= codes /\ \A c \in Spent : c <= codes
      BY DEF PairInv, CodesAreDrawn
    <2>2. \A c \in Spent' : c <= codes'
      BY <1>6, <1>9, <2>1, Numbers DEF PairInv, CodesAreDrawn
    <2> QED
      BY <1>6, <1>7, <1>12, <2>1, <2>2 DEF PairInv, CodesAreDrawn
  <1>14. SpentIsGone'
    <2>1. file'.code \notin Spent'
      BY <1>1, <1>7, <1>9 DEF PairInv, SpentIsGone
    <2>2. script.pc # "idle" => /\ script.copy.code # 0 /\ script.copy.code \notin Spent'
                                /\ script.copy.code # file'.code
      BY <1>1, <1>7, <1>9 DEF PairInv, SpentIsGone
    <2> QED
      BY <1>6, <1>8, <1>12, <2>1, <2>2 DEF SpentIsGone
  <1> QED
    BY <1>9, <1>10, <1>11, <1>13, <1>14 DEF PairInv

---------------------------------------------------------------------------
(* Scripts and crashes.                                                    *)

LEMMA ScriptReadStep ==
    ASSUME PairInv, ScriptRead
    PROVE  PairInv'
  <1> DEFINE copy == Rotated(ReadFile, codes + 1)
  <1>1. codes + 1 \in 0 .. MaxCodes /\ codes' = codes + 1
    BY Numbers DEF ScriptRead
  <1>2. copy \in Data /\ copy.code = codes + 1 /\ Len(copy.clients) <= MaxClients
    <2>1. ReadFile \in Data /\ Len(ReadFile.clients) <= MaxClients
      BY ReadFits
    <2> QED
      BY <1>1, <2>1, RotatedFits
  <1>3. script' = [pc |-> "write", copy |-> copy]
    BY DEF ScriptRead
  <1> HIDE DEF copy
  <1>4. UNCHANGED <<file, lock, call, redeemed>>
    BY DEF ScriptRead
  <1>5. PairTypeOK'
    BY <1>1, <1>2, <1>3, BoundsAssumption, Numbers, SMTT(60) DEF PairInv, PairTypeOK, ScriptRead
  <1>6. CopiesFit' /\ WriterHoldsLock' /\ AnswerHasClient'
    BY <1>2, <1>3, <1>4 DEF PairInv, CopiesFit, WriterHoldsLock, AnswerHasClient
  <1>7. Spent' = Spent /\ \A c \in Spent : c \in Nat /\ c <= codes
    BY <1>4, Numbers DEF Spent, PairInv, CodesAreDrawn
  <1>8. CodesAreDrawn'
    BY <1>1, <1>2, <1>3, <1>4, <1>7, Numbers DEF PairInv, CodesAreDrawn, Redeems
  <1>9. SpentIsGone'
    <2>1. codes + 1 # 0 /\ codes + 1 \notin Spent /\ codes + 1 # file.code
      BY <1>7, Numbers DEF PairInv, CodesAreDrawn
    <2>2. \A u \in Threads : codes + 1 # call[u].copy.code /\ (Redeems(u) => codes + 1 # call[u].secret)
      BY Numbers DEF PairInv, CodesAreDrawn
    <2>3. \A u \in Threads : Redeems(u)' <=> Redeems(u)
      BY <1>4 DEF Redeems
    <2> QED
      BY <1>2, <1>3, <1>4, <1>7, <2>1, <2>2, <2>3 DEF PairInv, SpentIsGone
  <1> QED
    BY <1>4, <1>5, <1>6, <1>8, <1>9 DEF PairInv, CodeRedeemedOnce

LEMMA ScriptTruncateStep ==
    ASSUME PairInv, ScriptTruncate
    PROVE  PairInv'
  <1>1. file' = Torn /\ file'.code = 0 /\ file'.clients = <<>>
    BY DEF ScriptTruncate, Torn
  <1>2. UNCHANGED <<lock, call, redeemed, codes>>
    BY DEF ScriptTruncate
  <1>3. script' \in [pc : {"idle", "write", "writing"}, copy : Data] /\ script'.copy = script.copy /\ script.pc # "idle"
    BY DEF ScriptTruncate, PairInv, PairTypeOK
  <1>4. PairTypeOK'
    <2>1. file' \in [torn : BOOLEAN, code : 0 .. MaxCodes, clients : Seq(Clients)] /\ Len(file'.clients) <= MaxClients
      BY <1>1, Numbers, ClientAssumption DEF Torn
    <2> QED
      BY <1>3, <2>1 DEF PairInv, PairTypeOK, ScriptTruncate
  <1>5. CopiesFit' /\ WriterHoldsLock' /\ AnswerHasClient'
    BY <1>2, <1>3 DEF PairInv, CopiesFit, WriterHoldsLock, AnswerHasClient
  <1>6. Spent' = Spent /\ 0 \notin Spent /\ \A u \in Threads : Redeems(u)' <=> Redeems(u)
    BY <1>2, Numbers DEF Spent, Redeems
  <1>7. CodesAreDrawn'
    BY <1>1, <1>2, <1>3, <1>6, Numbers DEF PairInv, CodesAreDrawn
  <1>8. SpentIsGone'
    BY <1>1, <1>2, <1>3, <1>6 DEF PairInv, SpentIsGone
  <1> QED
    BY <1>2, <1>4, <1>5, <1>7, <1>8 DEF PairInv, CodeRedeemedOnce

LEMMA ScriptFillStep ==
    ASSUME PairInv, ScriptFill
    PROVE  PairInv'
  <1>1. file'.code = script.copy.code /\ script.pc # "idle"
        /\ file' = [torn |-> FALSE, code |-> script.copy.code, clients |-> script.copy.clients]
    BY DEF ScriptFill, Whole
  <1>2. UNCHANGED <<lock, call, redeemed, codes>>
    BY DEF ScriptFill
  <1>3. script' = NoScript /\ script'.pc = "idle" /\ script'.copy = NoData
    BY DEF ScriptFill, NoScript
  <1>4. PairTypeOK'
    <2>1. Len(file'.clients) <= MaxClients
      BY <1>1 DEF PairInv, CopiesFit
    <2>2. file' \in [torn : BOOLEAN, code : 0 .. MaxCodes, clients : Seq(Clients)]
      BY <1>1, Numbers DEF Data
    <2>3. script' \in [pc : {"idle", "write", "writing"}, copy : Data]
      BY <1>3, IdleFits DEF NoScript
    <2> QED
      BY <2>1, <2>2, <2>3 DEF PairInv, PairTypeOK, ScriptFill
  <1>5. CopiesFit' /\ WriterHoldsLock' /\ AnswerHasClient'
    BY <1>2, <1>3, IdleFits, ClientAssumption DEF PairInv, CopiesFit, WriterHoldsLock, AnswerHasClient
  <1>6. Spent' = Spent /\ \A u \in Threads : Redeems(u)' <=> Redeems(u)
    BY <1>2 DEF Spent, Redeems
  <1>7. CodesAreDrawn'
    BY <1>1, <1>2, <1>3, <1>6, IdleFits, Numbers DEF PairInv, CodesAreDrawn
  <1>8. SpentIsGone'
    BY <1>1, <1>2, <1>3, <1>6 DEF PairInv, SpentIsGone
  <1> QED
    BY <1>2, <1>4, <1>5, <1>7, <1>8 DEF PairInv, CodeRedeemedOnce

LEMMA PairCrashStep ==
    ASSUME PairInv, PairCrash
    PROVE  PairInv'
  <1>1. UNCHANGED <<file, redeemed, codes>> /\ lock' = Nobody
    BY DEF PairCrash
  <1>2. script' = NoScript /\ script'.pc = "idle" /\ script'.copy = NoData
    BY DEF PairCrash, NoScript
  <1>3. call' \in [Threads -> CallRecords]
        /\ \A u \in Threads : call'[u].pc = "idle" /\ call'[u].copy = NoData
    BY IdleFits DEF PairCrash, Idle
  <1>4. PairTypeOK'
    <2>1. script' \in [pc : {"idle", "write", "writing"}, copy : Data]
      BY <1>2, IdleFits DEF NoScript
    <2>2. pairFaults' \in 0 .. MaxFaults
      BY BoundsAssumption DEF PairInv, PairTypeOK, PairCrash
    <2> QED
      BY <1>1, <1>3, <2>1, <2>2 DEF PairInv, PairTypeOK, PairCrash
  <1>5. CopiesFit' /\ WriterHoldsLock' /\ AnswerHasClient'
    BY <1>1, <1>2, <1>3, IdleFits, ClientAssumption DEF CopiesFit, WriterHoldsLock, AnswerHasClient, Working
  <1>6. Spent' = Spent /\ \A u \in Threads : ~Redeems(u)' /\ call'[u].pc \notin Working
    BY <1>1, <1>3 DEF Spent, Redeems, Working
  <1>7. CodesAreDrawn'
    BY <1>1, <1>2, <1>3, <1>6, IdleFits, Numbers DEF PairInv, CodesAreDrawn
  <1>8. SpentIsGone'
    BY <1>1, <1>2, <1>6 DEF PairInv, SpentIsGone
  <1> QED
    BY <1>1, <1>4, <1>5, <1>7, <1>8 DEF PairInv, CodeRedeemedOnce

---------------------------------------------------------------------------

LEMMA PairInitially == PairInit => PairInv
  <1> SUFFICES ASSUME PairInit PROVE PairInv
    OBVIOUS
  <1>1. \A u \in Threads : call[u] = Idle
    BY DEF PairInit
  <1>2. file.code = 1 /\ file.clients = <<>> /\ Spent = {} /\ script.pc = "idle" /\ script.copy = NoData /\ codes = 1
    BY DEF PairInit, Whole, NoScript, Spent
  <1>3. PairTypeOK
    <2>1. file \in [torn : BOOLEAN, code : 0 .. MaxCodes, clients : Seq(Clients)] /\ Len(file.clients) <= MaxClients
      BY BoundsAssumption, ClientAssumption DEF PairInit, Whole
    <2>2. script \in [pc : {"idle", "write", "writing"}, copy : Data] /\ call \in [Threads -> CallRecords]
      BY IdleFits DEF PairInit, NoScript
    <2>3. issued \in Seq(1 .. MaxTokens) /\ redeemed \in Seq(1 .. MaxCodes) /\ retired = {} /\ lapsed = {}
      BY DEF PairInit
    <2>4. codes \in 1 .. MaxCodes /\ tokens \in 0 .. MaxTokens /\ pairFaults \in 0 .. MaxFaults /\ overlapped \in BOOLEAN
      <3>1. MaxTokens \in Nat /\ MaxFaults \in Nat /\ MaxCodes \in Nat \ {0}
        BY BoundsAssumption
      <3>2. codes = 1 /\ tokens = 0 /\ pairFaults = 0 /\ overlapped = FALSE
        BY DEF PairInit
      <3>3. 1 \in 1 .. MaxCodes /\ 0 \in 0 .. MaxTokens /\ 0 \in 0 .. MaxFaults
        BY <3>1
      <3> QED
        BY <3>2, <3>3
    <2>5. /\ lock \in Threads \cup {Nobody} /\ phone \in [Phones -> Clients \cup {NoClient}]
          /\ waiting \in [Phones -> Threads \cup {Nobody}]
      BY DEF PairInit
    <2> QED
      BY <2>1, <2>2, <2>3, <2>4, <2>5 DEF PairTypeOK
  <1>4. CopiesFit /\ WriterHoldsLock /\ AnswerHasClient
    BY <1>1, <1>2, IdleFits, ClientAssumption DEF CopiesFit, WriterHoldsLock, AnswerHasClient, Idle, Working
  <1>5. CodesAreDrawn
    BY <1>1, <1>2, IdleFits DEF CodesAreDrawn, Redeems, Idle, Working
  <1>6. SpentIsGone
    BY <1>1, <1>2 DEF SpentIsGone, Redeems, Idle, Working
  <1>7. CodeRedeemedOnce
    BY DEF PairInit, CodeRedeemedOnce
  <1> QED
    BY <1>3, <1>4, <1>5, <1>6, <1>7 DEF PairInv

LEMMA PairStutter == PairInv /\ UNCHANGED pairVars => PairInv'
  BY DEF PairInv, pairVars, PairTypeOK, CopiesFit, WriterHoldsLock, AnswerHasClient, CodesAreDrawn,
         SpentIsGone, CodeRedeemedOnce, Redeems, Spent

LEMMA PairSteps == PairInv /\ [PairNext]_pairVars => PairInv'
  <1> SUFFICES ASSUME PairInv, [PairNext]_pairVars PROVE PairInv'
    OBVIOUS
  <1>1. ASSUME NEW t \in Threads, PairThread(t) PROVE PairInv'
    BY <1>1, CallStep, EnterExchangeStep, EnterRefreshStep, RefuseStep, TruncateStep, FillRotatedStep,
       FillStoredStep, AnswerStep DEF PairThread
  <1>2. CASE UNCHANGED pairVars
    BY <1>2, PairStutter
  <1> QED
    BY <1>1, <1>2, GiveUpStep, CodeExpiresStep, ScriptReadStep, ScriptTruncateStep, ScriptFillStep,
       PairCrashStep DEF PairNext

\* What is known of every state that the threads, the scripts and crashes reach.
THEOREM PairInvariant == PairSpec => []PairInv
  BY PairInitially, PairSteps, PTL DEF PairSpec

\* A pair code is exchanged once.
THEOREM CodesRedeemedOnce == PairSpec => []CodeRedeemedOnce
  <1>1. PairInv => CodeRedeemedOnce
    BY DEF PairInv
  <1> QED
    BY <1>1, PairInvariant, PTL

\* The file never holds more phones than it may.
THEOREM PairTypes == PairSpec => []PairTypeOK
  <1>1. PairInv => PairTypeOK
    BY DEF PairInv
  <1> QED
    BY <1>1, PairInvariant, PTL

---------------------------------------------------------------------------
(* The phones that are kept.                                               *)

\* The newest elements of a sequence, one by one.
LEMMA NewestAt ==
    ASSUME NEW S, NEW s \in Seq(S)
    PROVE  LET o == IF Len(s) > MaxClients THEN Len(s) - MaxClients ELSE 0
           IN /\ o \in Nat /\ o <= Len(s)
              /\ Newest(s, MaxClients) \in Seq(S) /\ Len(Newest(s, MaxClients)) = Len(s) - o
              /\ \A k \in 1 .. Len(s) - o : Newest(s, MaxClients)[k] = s[k + o]
  <1> DEFINE from == IF Len(s) > MaxClients THEN Len(s) - MaxClients + 1 ELSE 1
  <1>1. Len(s) \in Nat /\ from \in 1 .. Len(s) + 1 /\ \A i \in from .. Len(s) : s[i] \in S
    BY ClientAssumption
  <1>2. /\ SubSeq(s, from, Len(s)) \in Seq(S)
        /\ Len(SubSeq(s, from, Len(s))) = IF from <= Len(s) THEN Len(s) - from + 1 ELSE 0
        /\ \A k \in 1 .. Len(s) - from + 1 : SubSeq(s, from, Len(s))[k] = s[from + k - 1]
    BY <1>1
  <1>3. Newest(s, MaxClients) = SubSeq(s, from, Len(s))
    BY DEF Newest
  <1> DEFINE o == IF Len(s) > MaxClients THEN Len(s) - MaxClients ELSE 0
  <1>4. o \in Nat /\ o <= Len(s) /\ from = o + 1
    BY <1>1, ClientAssumption
  <1> HIDE DEF from
  <1>5. Len(Newest(s, MaxClients)) = Len(s) - o
    BY <1>1, <1>2, <1>3, <1>4
  <1>6. \A k \in 1 .. Len(s) - o : Newest(s, MaxClients)[k] = s[k + o]
    BY <1>1, <1>2, <1>3, <1>4, SMTT(60)
  <1> QED
    BY <1>2, <1>3, <1>4, <1>5, <1>6

\* A text that is no longer than it may be stays.
LEMMA NewestAll ==
    ASSUME NEW S, NEW s \in Seq(S), Len(s) <= MaxClients
    PROVE  Newest(s, MaxClients) = s
  <1>1. Len(s) \in Nat /\ \A i \in 1 .. Len(s) : s[i] \in S
    OBVIOUS
  <1>2. /\ Newest(s, MaxClients) \in Seq(S) /\ Len(Newest(s, MaxClients)) = Len(s)
        /\ \A k \in 1 .. Len(s) : Newest(s, MaxClients)[k] = s[k]
    BY <1>1, NewestAt, ClientAssumption
  <1> QED
    BY <1>1, <1>2

\* A phone that pairs is the last one, and the first leaves if it must.
Displaced(s) == IF Len(s) = MaxClients THEN 1 ELSE 0
IsAppended(new, s, e, S) ==
    /\ new \in Seq(S) /\ Len(new) = Len(s) + 1 - Displaced(s) /\ Len(new) \in Nat
    /\ \A k \in 1 .. Len(new) : new[k] = IF k = Len(new) THEN e ELSE s[k + Displaced(s)]

LEMMA NewestAppended ==
    ASSUME NEW S, NEW s \in Seq(S), NEW e \in S, Len(s) <= MaxClients
    PROVE  IsAppended(Newest(Append(s, e), MaxClients), s, e, S)
  <1>1. /\ Len(s) \in Nat /\ Append(s, e) \in Seq(S) /\ Len(Append(s, e)) = Len(s) + 1
        /\ \A i \in 1 .. Len(s) + 1 : Append(s, e)[i] = IF i <= Len(s) THEN s[i] ELSE e
    BY Elements
  <1> DEFINE a == Append(s, e)
             p == IF Len(a) > MaxClients THEN Len(a) - MaxClients ELSE 0
  <1>2. /\ Newest(a, MaxClients) \in Seq(S) /\ Len(Newest(a, MaxClients)) = Len(a) - p
        /\ \A k \in 1 .. Len(a) - p : Newest(a, MaxClients)[k] = a[k + p]
    BY <1>1, NewestAt
  <1>3. p = Displaced(s)
    BY <1>1, ClientAssumption DEF Displaced
  <1>4. Displaced(s) \in {0, 1}
    BY DEF Displaced
  <1> DEFINE new == Newest(a, MaxClients)
             o == Displaced(s)
  <1> HIDE DEF p, o
  <1>5. new \in Seq(S) /\ Len(new) = Len(s) + 1 - o /\ Len(new) \in Nat
    BY <1>1, <1>2, <1>3, <1>4 DEF o
  <1>6. \A k \in 1 .. Len(new) : new[k] = a[k + o]
    BY <1>2, <1>3 DEF o
  <1> HIDE DEF a, new
  <1>7. \A k \in 1 .. Len(new) : a[k + o] = IF k = Len(new) THEN e ELSE s[k + o]
    <2> SUFFICES ASSUME NEW k \in 1 .. Len(new) PROVE a[k + o] = IF k = Len(new) THEN e ELSE s[k + o]
      OBVIOUS
    <2>1. k + o \in 1 .. Len(s) + 1 /\ (k = Len(new) <=> ~(k + o <= Len(s)))
      BY <1>1, <1>4, <1>5 DEF o
    <2>2. \A i \in 1 .. Len(s) + 1 : a[i] = IF i <= Len(s) THEN s[i] ELSE e
      BY <1>1 DEF a
    <2> QED BY <2>1, <2>2
  <1> QED
    BY <1>5, <1>6, <1>7 DEF IsAppended, o, new, a

\* The phones of the text are still those that paired last.
LEMMA NewestIds ==
    ASSUME NEW cs \in Seq(Clients), NEW T, NEW I \in Seq(T), NEW c \in Clients, c.id \in T,
           Len(cs) <= MaxClients,
           [i \in 1 .. Len(cs) |-> cs[i].id] = Newest(I, MaxClients)
    PROVE  LET new == Newest(Append(cs, c), MaxClients)
           IN  [i \in 1 .. Len(new) |-> new[i].id] = Newest(Append(I, c.id), MaxClients)
  <1> DEFINE new == Newest(Append(cs, c), MaxClients)
             all == Append(I, c.id)
             o == IF Len(I) > MaxClients THEN Len(I) - MaxClients ELSE 0
             o2 == IF Len(all) > MaxClients THEN Len(all) - MaxClients ELSE 0
             o3 == IF Len(cs) = MaxClients THEN 1 ELSE 0
  <1>1. /\ Len(I) \in Nat /\ all \in Seq(T) /\ Len(all) = Len(I) + 1
        /\ \A i \in 1 .. Len(I) + 1 : all[i] = IF i <= Len(I) THEN I[i] ELSE c.id
    BY Elements
  <1>2. /\ o \in Nat /\ Len(Newest(I, MaxClients)) = Len(I) - o
        /\ \A k \in 1 .. Len(I) - o : Newest(I, MaxClients)[k] = I[k + o]
    BY NewestAt
  <1>3. /\ Newest(all, MaxClients) \in Seq(T) /\ Len(Newest(all, MaxClients)) = Len(all) - o2
        /\ \A k \in 1 .. Len(all) - o2 : Newest(all, MaxClients)[k] = all[k + o2]
    BY <1>1, NewestAt
  <1>4. /\ new \in Seq(Clients) /\ Len(new) = Len(cs) + 1 - o3 /\ Len(new) \in Nat
        /\ \A k \in 1 .. Len(new) : new[k] = IF k = Len(new) THEN c ELSE cs[k + o3]
    <2>1. IsAppended(new, cs, c, Clients)
      BY NewestAppended, Zenon
    <2> HIDE DEF new
    <2> QED BY <2>1 DEF IsAppended, Displaced
  <1>5. Len(cs) \in Nat /\ Len(cs) = Len(I) - o /\ \A k \in 1 .. Len(cs) : cs[k].id = I[k + o]
    <2>1. Len([i \in 1 .. Len(cs) |-> cs[i].id]) = Len(cs)
      OBVIOUS
    <2> QED BY <1>2, <2>1
  <1> HIDE DEF new, all
  <1>10. /\ o = IF Len(I) > MaxClients THEN Len(I) - MaxClients ELSE 0
         /\ o2 = IF Len(all) > MaxClients THEN Len(all) - MaxClients ELSE 0
         /\ o3 = IF Len(cs) = MaxClients THEN 1 ELSE 0
         /\ MaxClients \in Nat \ {0}
    BY ClientAssumption
  <1>11. o \in Nat /\ o2 \in Nat /\ o3 \in {0, 1}
    BY <1>1, ClientAssumption
  <1> HIDE DEF o, o2, o3
  <1>6. Len(new) = Len(all) - o2 /\ o2 = o + o3 /\ o3 \in {0, 1}
    <2>1. Len(I) \in Nat /\ Len(all) = Len(I) + 1 /\ Len(cs) = Len(I) - o /\ Len(new) = Len(cs) + 1 - o3
      BY <1>1, <1>4, <1>5
    <2>2. o3 = IF Len(I) - o = MaxClients THEN 1 ELSE 0
      BY <1>10, <2>1
    <2>3. o2 = IF Len(I) + 1 > MaxClients THEN Len(I) + 1 - MaxClients ELSE 0
      BY <1>10, <2>1
    <2>4. (Len(I) - o) + 1 - o3 = Len(I) + 1 - o2 /\ o2 = o + o3
      <3>1. CASE Len(I) < MaxClients
        <4>1. o = 0 /\ o2 = 0 /\ o3 = 0
          BY <1>10, <2>1, <2>2, <2>3, <3>1
        <4> QED BY <2>1, <4>1
      <3>2. CASE ~(Len(I) < MaxClients)
        <4>1. o = Len(I) - MaxClients
          BY <1>10, <2>1, <3>2
        <4>2. o2 = Len(I) + 1 - MaxClients
          BY <1>10, <2>1, <2>3, <3>2
        <4>3. o3 = 1
          BY <1>10, <2>1, <2>2, <4>1
        <4>4. Len(I) \in Nat /\ MaxClients \in Nat
          BY <1>10, <2>1
        <4>5. (Len(I) - (Len(I) - MaxClients)) + 1 - 1 = Len(I) + 1 - (Len(I) + 1 - MaxClients)
          BY <4>4
        <4>6. Len(I) + 1 - MaxClients = (Len(I) - MaxClients) + 1
          BY <4>4
        <4> QED BY <4>1, <4>2, <4>3, <4>5, <4>6
      <3> QED BY <3>1, <3>2
    <2> QED BY <1>11, <2>1, <2>4
  <1>7. \A k \in 1 .. Len(new) : new[k].id = all[k + o2]
    <2> SUFFICES ASSUME NEW k \in 1 .. Len(new) PROVE new[k].id = all[k + o2]
      OBVIOUS
    <2>1. /\ Len(I) \in Nat /\ Len(cs) = Len(I) - o /\ Len(new) = Len(cs) + 1 - o3 /\ o2 = o + o3
          /\ o \in Nat /\ o3 \in {0, 1} /\ Len(cs) \in Nat
      BY <1>1, <1>2, <1>4, <1>5, <1>6, <1>11
    <2>2. CASE k = Len(new)
      <3>1. k + o2 = Len(I) + 1
        BY <2>1, <2>2
      <3> QED BY <1>1, <1>4, <2>1, <2>2, <3>1, SMTT(60)
    <2>3. CASE k # Len(new)
      <3>1. k + o3 \in 1 .. Len(cs) /\ k + o2 \in 1 .. Len(I) /\ k + o2 = (k + o3) + o
        BY <2>1, <2>3
      <3>2. new[k] = cs[k + o3] /\ cs[k + o3].id = I[(k + o3) + o]
        BY <1>4, <1>5, <2>3, <3>1
      <3>3. all[k + o2] = I[k + o2]
        BY <1>1, <2>1, <3>1, SMTT(60)
      <3> QED BY <3>1, <3>2, <3>3
    <2> QED BY <2>2, <2>3
  <1>8. \A k \in 1 .. Len(new) : new[k].id = Newest(all, MaxClients)[k]
    BY <1>3, <1>6, <1>7
  <1>9. Newest(all, MaxClients) = [k \in 1 .. Len(all) - o2 |-> Newest(all, MaxClients)[k]]
    BY <1>3
  <1> QED
    BY <1>3, <1>6, <1>8, <1>9 DEF new, all

---------------------------------------------------------------------------
(* What keeps a text good.                                                 *)

\* A record by its fields.
LEMMA ClientFields ==
    ASSUME NEW c \in Clients
    PROVE  /\ c.id \in 1 .. MaxTokens /\ c.tok \in 1 .. MaxTokens /\ c.ref \in 0 .. MaxTokens
           /\ c["tok"] = c.tok /\ c["ref"] = c.ref
           /\ \A f \in Fields : c[f] \in {c.tok, c.ref}
  BY DEF Clients, Fields

\* Less that is held or asked for asks for less of the text, and the bound
\* may grow.
LEMMA KeepsLess ==
    ASSUME NEW cs, NEW H, NEW S, NEW I, NEW R, NEW n \in Nat, Keeps(cs, H, S, I, R, n),
           NEW H2, H2 \subseteq H, NEW S2, S2 \subseteq S, NEW m \in Nat, n <= m
    PROVE  Keeps(cs, H2, S2, I, R, m)
  <1>1. Drawn(cs, R, m)
    BY DEF Keeps, Drawn
  <1>2. Fits(cs, H2, S2)
    BY DEF Keeps, Fits
  <1> QED
    BY <1>1, <1>2 DEF Keeps

LEMMA BelongsLess ==
    ASSUME NEW H, NEW S, NEW n \in Nat, Belongs(H, S, n),
           NEW H2, H2 \subseteq H, NEW S2, S2 \subseteq S, NEW m \in Nat, n <= m
    PROVE  Belongs(H2, S2, m)
  <1>1. \A h \in H2 : {h.rec.id, h.rec.tok, h.rec.ref} \subseteq 0 .. m
    BY DEF Belongs
  <1>2. \A e \in S2 : e.field \in Fields /\ e.secret \in 1 .. m
    BY DEF Belongs
  <1> QED
    BY <1>1, <1>2 DEF Belongs

\* A phone that asks with what it has, and waits for nothing else.
LEMMA AskBelongs ==
    ASSUME NEW H, NEW S, NEW n \in Nat, Belongs(H, S, n),
           NEW h \in H, NEW f \in Fields, h.rec[f] # 0, h.rec[f] \in 0 .. n,
           NEW e, e.field = f, e.secret = h.rec[f], e.phone = h.phone
    PROVE  Belongs(H, S \cup {e}, n)
  <1>1. \A d \in S \cup {e} : d.field \in Fields /\ d.secret \in 1 .. n
    BY DEF Belongs
  <1>2. \A d \in S \cup {e}, k \in H : k.rec[d.field] = d.secret => k.phone = d.phone
    BY DEF Belongs
  <1>3. \A d, c \in S \cup {e} : d.field = c.field /\ d.secret = c.secret => d.phone = c.phone
    BY DEF Belongs
  <1> QED
    BY <1>1, <1>2, <1>3 DEF Belongs

LEMMA AskKeeps ==
    ASSUME NEW cs, NEW H, NEW S, NEW I, NEW R, NEW n \in Nat,
           Belongs(H, S, n), Keeps(cs, H, S, I, R, n),
           NEW h \in H, NEW f \in Fields, \A k \in H : k.phone = h.phone => k = h,
           NEW e, e.field = f, e.secret = h.rec[f], h.rec[f] # 0,
           \A i \in 1 .. Len(cs) : cs[i].id # 0
    PROVE  Keeps(cs, H, S \cup {e}, I, R, n)
  <1>1. ASSUME NEW i \in 1 .. Len(cs), NEW k \in H, cs[i].id = k.rec.id, cs[i][f] = h.rec[f]
        PROVE  k.rec[f] = h.rec[f]
    <2>1. cs[i].id = h.rec.id
      BY <1>1 DEF Keeps, Fits
    <2>2. k.phone = h.phone
      BY <1>1, <2>1, ZenonT(60) DEF Belongs
    <2> QED BY <2>2
  <1>2. Fits(cs, H, S \cup {e})
    BY <1>1 DEF Keeps, Fits
  <1> QED
    BY <1>2 DEF Keeps


\* A refresh: the record keeps one token, and the other is one that nobody
\* knows.  The phone that asked may be told of it.
Renews(cs, new, i, f, e, x, n) ==
    /\ cs \in Seq(Clients) /\ i \in 1 .. Len(cs) /\ f \in Fields /\ f # e.field
    /\ cs[i][e.field] = e.secret
    /\ x.rec \in Clients /\ x.rec.id = cs[i].id /\ x.rec[e.field] = e.secret /\ x.rec[f] = n + 1
    /\ x.phone = e.phone
    /\ new \in Seq(Clients) /\ Len(new) = Len(cs) /\ new[i] = x.rec
    /\ \A j \in 1 .. Len(cs) : j # i => new[j] = cs[j]

LEMMA RefreshKeeps ==
    ASSUME NEW cs, NEW H, NEW S, NEW I, NEW R, NEW n \in Nat,
           Belongs(H, S, n), R \subseteq 1 .. n, Keeps(cs, H, S, I, R, n),
           NEW new, NEW i, NEW f, NEW e \in S, NEW x, Renews(cs, new, i, f, e, x, n)
    PROVE  /\ Belongs(H \cup {x}, S, n + 1)
           /\ Keeps(new, H \cup {x}, S, I, R \cup ({cs[i][f]} \ {0}), n + 1)
  <1> DEFINE R2 == R \cup ({cs[i][f]} \ {0})
             d == x.rec
             g == e.field
  <1>0. /\ cs \in Seq(Clients) /\ i \in 1 .. Len(cs) /\ f \in Fields /\ g \in Fields /\ f # g
        /\ cs[i][g] = e.secret
        /\ d \in Clients /\ d.id = cs[i].id /\ d[g] = cs[i][g] /\ d[f] = n + 1 /\ x.rec = d
        /\ x.phone = e.phone /\ e.field = g
        /\ new \in Seq(Clients) /\ Len(new) = Len(cs) /\ new[i] = d
        /\ \A j \in 1 .. Len(cs) : j # i => new[j] = cs[j]
    BY DEF Renews, Belongs
  <1> HIDE DEF d, g
  <1> USE <1>0
  <1>1. /\ cs[i] \in Clients /\ \A j \in 1 .. Len(cs) : cs[j] \in Clients
        /\ Len(cs) \in Nat
    BY <1>0
  <1>2. /\ d \in Clients /\ d.id = cs[i].id /\ d[g] = cs[i][g] /\ d[f] = n + 1
        /\ d.tok \in {cs[i].tok, n + 1} /\ d.ref \in {cs[i].ref, n + 1}
        /\ d["tok"] = d.tok /\ d["ref"] = d.ref
    BY <1>0, <1>1, ClientFields DEF Fields
  <1>3. /\ Len(new) = Len(cs) /\ new[i] = d /\ \A j \in 1 .. Len(cs) : j # i => new[j] = cs[j]
        /\ new \in Seq(Clients)
    BY <1>0
  <1>4. \A c \in S : c.field \in Fields /\ c.secret \in 1 .. n
    BY DEF Belongs
  <1>5. \A h \in H : \A a \in Fields : h.rec[a] # n + 1
    <2>1. \A h \in H : h.rec["tok"] = h.rec.tok /\ h.rec["ref"] = h.rec.ref /\ h.rec.tok \in 0 .. n /\ h.rec.ref \in 0 .. n
      BY DEF Belongs
    <2> QED BY <2>1 DEF Fields
  <1>6. \A j \in 1 .. Len(cs) : \A a \in Fields : cs[j][a] # n + 1
    <2>1. \A j \in 1 .. Len(cs) : cs[j].tok \in 1 .. n /\ cs[j].ref \in 1 .. n
      BY DEF Keeps, Drawn
    <2>2. \A j \in 1 .. Len(cs), a \in Fields : cs[j][a] \in {cs[j].tok, cs[j].ref}
      BY <1>1, ClientFields
    <2>3. \A v \in 1 .. n : v # n + 1
      OBVIOUS
    <2> QED BY <2>1, <2>2, <2>3
  <1>7. Fields = {f, g}
    BY DEF Fields
  <1>8. cs[i].id \in 1 .. n /\ cs[i].tok \in 1 .. n /\ cs[i].ref \in 1 .. n
    BY DEF Keeps, Drawn
  <1>9. \A h \in H : h.rec.id = cs[i].id => h.rec[g] = e.secret
    BY DEF Keeps, Fits
  <1>10. \A h \in H : h.rec[g] = e.secret => h.phone = e.phone
    BY DEF Belongs
  <1>11. Belongs(H \cup {x}, S, n + 1)
    <2>1. \A h \in H \cup {x} : {h.rec.id, h.rec.tok, h.rec.ref} \subseteq 0 .. n + 1
      <3>1. \A h \in H : {h.rec.id, h.rec.tok, h.rec.ref} \subseteq 0 .. n
        BY DEF Belongs
      <3>2. {x.rec.id, x.rec.tok, x.rec.ref} \subseteq 0 .. n + 1
        BY <1>2, <1>8
      <3>3. 0 .. n \subseteq 0 .. n + 1
        OBVIOUS
      <3>4. \A h \in H : {h.rec.id, h.rec.tok, h.rec.ref} \subseteq 0 .. n + 1
        BY <3>1, <3>3
      <3> QED BY <3>2, <3>4
    <2>2. \A c \in S : c.field \in Fields /\ c.secret \in 1 .. n + 1
      BY <1>4
    <2>3. \A h, k \in H \cup {x} : /\ h.rec.id = k.rec.id /\ h.rec.id # 0 => h.phone = k.phone
                                   /\ \A a \in Fields : h.rec[a] = k.rec[a] /\ h.rec[a] # 0 => h.phone = k.phone
      <3>1. \A h \in H : /\ h.rec.id = x.rec.id => h.phone = x.phone
                         /\ \A a \in Fields : h.rec[a] = x.rec[a] => h.phone = x.phone
        BY <1>2, <1>5, <1>7, <1>9, <1>10
      <3>2. \A h, k \in H : /\ h.rec.id = k.rec.id /\ h.rec.id # 0 => h.phone = k.phone
                            /\ \A a \in Fields : h.rec[a] = k.rec[a] /\ h.rec[a] # 0 => h.phone = k.phone
        BY DEF Belongs
      <3> TAKE h, k \in H \cup {x}
      <3>3. CASE h \in H /\ k \in H
        BY <3>2, <3>3
      <3>4. CASE h \in H /\ k = x
        BY <3>1, <3>4
      <3>5. CASE h = x /\ k \in H
        <4>1. /\ k.rec.id = h.rec.id => k.phone = h.phone
              /\ \A a \in Fields : k.rec[a] = h.rec[a] => k.phone = h.phone
          BY <3>1, <3>5
        <4> QED BY <4>1
      <3>6. CASE h = x /\ k = x
        BY <3>6
      <3> QED BY <3>3, <3>4, <3>5, <3>6
    <2>4. \A c \in S, h \in H \cup {x} : h.rec[c.field] = c.secret => h.phone = c.phone
      <3>1. \A c \in S : x.rec[c.field] = c.secret => c.field = e.field /\ c.secret = e.secret
        BY <1>2, <1>4, <1>7
      <3>2. \A c \in S : c.field = e.field /\ c.secret = e.secret => c.phone = e.phone
        BY DEF Belongs
      <3>3. \A c \in S, h \in H : h.rec[c.field] = c.secret => h.phone = c.phone
        BY DEF Belongs
      <3> QED BY <3>1, <3>2, <3>3
    <2>5. \A c, b \in S : c.field = b.field /\ c.secret = b.secret => c.phone = b.phone
      BY DEF Belongs
    <2> QED BY <2>1, <2>2, <2>3, <2>4, <2>5 DEF Belongs
  <1>12. [j \in 1 .. Len(new) |-> new[j].id] = Newest(I, MaxClients)
    <2>1. [j \in 1 .. Len(cs) |-> cs[j].id] = Newest(I, MaxClients)
      BY DEF Keeps
    <2>2. \A j \in 1 .. Len(cs) : new[j].id = cs[j].id
      BY <1>2, <1>3
    <2> QED BY <1>3, <2>1, <2>2
  <1>13. Distinct(new)
    <2>1. Distinct(cs)
      BY DEF Keeps
    <2>6. \A j \in 1 .. Len(cs) : new[j].id = cs[j].id
      BY <1>2, <1>3
    <2>2. \A j, k \in 1 .. Len(cs) : new[j].id = new[k].id => j = k
      BY <2>1, <2>6 DEF Distinct
    <2>4. \A j \in 1 .. Len(cs), a \in Fields : new[j][a] = IF j = i /\ a = f THEN n + 1 ELSE cs[j][a]
      BY <1>2, <1>3, <1>7
    <2>5. \A j, k \in 1 .. Len(cs), a, b \in Fields : cs[j][a] = cs[k][b] => j = k /\ a = b
      BY <2>1 DEF Distinct
    <2>3. ASSUME NEW j \in 1 .. Len(cs), NEW k \in 1 .. Len(cs), NEW a \in Fields, NEW b \in Fields,
                 new[j][a] = new[k][b]
          PROVE  j = k /\ a = b
      <3>1. CASE j = i /\ a = f
        BY <1>6, <2>3, <2>4, <3>1
      <3>2. CASE k = i /\ b = f
        BY <1>6, <2>3, <2>4, <3>2
      <3>3. CASE ~(j = i /\ a = f) /\ ~(k = i /\ b = f)
        <4>1. new[j][a] = cs[j][a] /\ new[k][b] = cs[k][b]
          BY <2>4, <3>3
        <4>2. cs[j][a] = cs[k][b]
          BY <2>3, <4>1
        <4> QED BY <2>5, <4>2
      <3> QED BY <3>1, <3>2, <3>3
    <2> QED BY <1>3, <2>2, <2>3 DEF Distinct
  <1>14. Drawn(new, R2, n + 1)
    <2>1. \A j \in 1 .. Len(cs) : /\ {cs[j].id, cs[j].tok, cs[j].ref} \subseteq 1 .. n
                                  /\ cs[j].tok \notin R /\ cs[j].ref \notin R
      BY DEF Keeps, Drawn
    <2>2. \A j \in 1 .. Len(cs), a \in Fields : cs[j][a] = cs[i][f] => j = i /\ a = f
      BY DEF Keeps, Distinct
    <2>3. cs[i][f] \in 1 .. n /\ n + 1 \notin R2
      <3>1. cs[i][f] \in 1 .. n
        BY <1>1, <2>1, ClientFields
      <3> QED BY <3>1
    <2>4. ASSUME NEW j \in 1 .. Len(cs), j # i
          PROVE  cs[j].tok \notin R2 /\ cs[j].ref \notin R2
      <3>1. cs[j]["tok"] # cs[i][f] /\ cs[j]["ref"] # cs[i][f]
        BY <2>2, <2>4 DEF Fields
      <3> QED BY <1>1, <2>1, <3>1 DEF Clients
    <2>5. d[g] \notin R2 /\ d[f] \notin R2
      <3>1. cs[i][g] # cs[i][f]
        BY <2>2
      <3>2. cs[i][g] \notin R
        BY <1>1, <2>1 DEF Clients, Fields
      <3> QED BY <1>2, <2>3, <3>1, <3>2
    <2>6. d.tok \notin R2 /\ d.ref \notin R2
      BY <1>2, <2>5 DEF Fields
    <2>7. {d.id, d.tok, d.ref} \subseteq 1 .. n + 1
      BY <1>2, <1>8
    <2>8. \A j \in 1 .. Len(cs) : {cs[j].id, cs[j].tok, cs[j].ref} \subseteq 1 .. n + 1
      BY <2>1
    <2> HIDE DEF R2
    <2>9. ASSUME NEW j \in 1 .. Len(cs)
          PROVE  /\ {new[j].id, new[j].tok, new[j].ref} \subseteq 1 .. n + 1
                 /\ new[j].tok \notin R2 /\ new[j].ref \notin R2
      <3>1. CASE j = i
        <4>1. new[j] = d
          BY <1>3, <3>1
        <4> QED BY <2>6, <2>7, <4>1
      <3>2. CASE j # i
        BY <1>3, <2>4, <2>8, <3>2
      <3> QED BY <3>1, <3>2
    <2> QED BY <1>3, <2>9 DEF Drawn
  <1>15. Fits(new, H \cup {x}, S)
    <2>1. Fits(cs, H, S) /\ Distinct(cs)
      BY DEF Keeps
    <2>2. ASSUME NEW j \in 1 .. Len(cs), NEW h \in H \cup {x}
          PROVE  /\ new[j].id = h.rec.id => new[j].tok = h.rec.tok \/ new[j].ref = h.rec.ref
                 /\ \A a \in Fields : new[j][a] = h.rec[a] => new[j].id = h.rec.id
                 /\ \A c \in S : new[j].id = h.rec.id /\ new[j][c.field] = c.secret => h.rec[c.field] = c.secret
      <3>1. CASE j # i /\ h \in H
        BY <1>3, <2>1, <3>1 DEF Fits
      <3>2. CASE j = i /\ h = x
        BY <1>3, <3>2
      <3>3. CASE j # i /\ h = x
        <4>1. new[j] = cs[j] /\ cs[j].id # d.id
          BY <1>2, <1>3, <2>1, <3>3 DEF Distinct
        <4>2. \A a \in Fields : cs[j][a] # d[a]
          BY <1>2, <1>6, <1>7, <2>1, <3>3 DEF Distinct
        <4> QED BY <3>3, <4>1, <4>2
      <3>4. CASE j = i /\ h \in H
        <4>1. new[j] = d
          BY <1>3, <3>4
        <4>2. d.id = h.rec.id => d.tok = h.rec.tok \/ d.ref = h.rec.ref
          <5>1. d.id = h.rec.id => d[g] = h.rec[g]
            BY <1>2, <1>9, <3>4
          <5>2. h.rec["tok"] = h.rec.tok /\ h.rec["ref"] = h.rec.ref
            OBVIOUS
          <5> QED BY <1>2, <5>1, <5>2 DEF Fields
        <4>3. \A a \in Fields : d[a] = h.rec[a] => d.id = h.rec.id
          BY <1>2, <1>5, <1>7, <2>1, <3>4 DEF Fits
        <4>4. \A c \in S : d.id = h.rec.id /\ d[c.field] = c.secret => h.rec[c.field] = c.secret
          <5>1. \A c \in S : d[c.field] = c.secret => c.field = g /\ cs[i][c.field] = c.secret
            BY <1>2, <1>4, <1>7
          <5>2. \A c \in S : cs[i].id = h.rec.id /\ cs[i][c.field] = c.secret => h.rec[c.field] = c.secret
            BY <2>1, <3>4 DEF Fits
          <5> QED BY <1>2, <5>1, <5>2
        <4> QED BY <4>1, <4>2, <4>3, <4>4
      <3> QED BY <3>1, <3>2, <3>3, <3>4
    <2> QED BY <1>3, <2>2 DEF Fits
  <1> QED
    BY <1>11, <1>12, <1>13, <1>14, <1>15 DEF Keeps


\* An exchange: a record with tokens that nobody knows, of whatever phone.
LEMMA IssueKeeps ==
    ASSUME NEW cs \in Seq(Clients), Len(cs) <= MaxClients,
           NEW H, NEW S, NEW T, NEW I \in Seq(T), NEW R, NEW n \in Nat,
           Belongs(H, S, n), R \subseteq 1 .. n, Keeps(cs, H, S, I, R, n),
           NEW c \in Clients, c = [id |-> n + 1, tok |-> n + 1, ref |-> n + 2], c.id \in T,
           NEW x, x.rec = c
    PROVE  /\ Belongs(H \cup {x}, S, n + 2)
           /\ Keeps(Newest(Append(cs, c), MaxClients), H \cup {x}, S, Append(I, c.id), R, n + 2)
  <1> DEFINE new == Newest(Append(cs, c), MaxClients)
             o == IF Len(cs) = MaxClients THEN 1 ELSE 0
  <1>1. c.id = n + 1 /\ c.tok = n + 1 /\ c.ref = n + 2 /\ c["tok"] = n + 1 /\ c["ref"] = n + 2
    OBVIOUS
  <1>2. /\ new \in Seq(Clients) /\ Len(new) = Len(cs) + 1 - o /\ Len(new) \in Nat
        /\ \A k \in 1 .. Len(new) : new[k] = IF k = Len(new) THEN c ELSE cs[k + o]
    <2>1. IsAppended(new, cs, c, Clients)
      BY NewestAppended, Zenon
    <2> HIDE DEF new
    <2> QED BY <2>1 DEF IsAppended, Displaced
  <1>3. [i \in 1 .. Len(new) |-> new[i].id] = Newest(Append(I, c.id), MaxClients)
    BY NewestIds DEF Keeps
  <1>4. Len(cs) \in Nat /\ o \in {0, 1} /\ \A j \in 1 .. Len(cs) : cs[j] \in Clients
    OBVIOUS
  <1> HIDE DEF new, o
  <1>5. \A k \in 1 .. Len(new) : k # Len(new) => k + o \in 1 .. Len(cs) /\ new[k] = cs[k + o]
    <2> SUFFICES ASSUME NEW k \in 1 .. Len(new), k # Len(new)
                 PROVE  k + o \in 1 .. Len(cs) /\ new[k] = cs[k + o]
      OBVIOUS
    <2>1. k + o \in 1 .. Len(cs)
      BY <1>2, <1>4
    <2> QED BY <1>2, <2>1
  <1>6. new[Len(new)] = c /\ Len(new) \in 1 .. Len(new)
    <2>1. Len(new) \in 1 .. Len(new)
      BY <1>2, <1>4, ClientAssumption DEF o
    <2> QED BY <1>2, <2>1
  <1>7. \A c2 \in S : c2.field \in Fields /\ c2.secret \in 1 .. n
    BY DEF Belongs
  <1>8. \A a \in Fields : c[a] \in {n + 1, n + 2} /\ c[a] \notin 0 .. n
    BY <1>1 DEF Fields
  <1>9. \A h \in H : h.rec.id \in 0 .. n /\ \A a \in Fields : h.rec[a] \in 0 .. n
    <2>1. \A h \in H : h.rec["tok"] = h.rec.tok /\ h.rec["ref"] = h.rec.ref /\ h.rec.tok \in 0 .. n /\ h.rec.ref \in 0 .. n
      BY DEF Belongs
    <2>2. \A h \in H : h.rec.id \in 0 .. n
      BY DEF Belongs
    <2> QED BY <2>1, <2>2 DEF Fields
  <1>10. \A j \in 1 .. Len(cs) : cs[j].id \in 1 .. n /\ \A a \in Fields : cs[j][a] \in 1 .. n
    <2>1. \A j \in 1 .. Len(cs) : cs[j].id \in 1 .. n /\ cs[j].tok \in 1 .. n /\ cs[j].ref \in 1 .. n
      BY DEF Keeps, Drawn
    <2>2. \A j \in 1 .. Len(cs), a \in Fields : cs[j][a] \in {cs[j].tok, cs[j].ref}
      BY <1>4, ClientFields
    <2> QED BY <2>1, <2>2
  <1>11. n + 1 \notin 0 .. n /\ 1 .. n \subseteq 0 .. n
    OBVIOUS
  <1>12. Belongs(H \cup {x}, S, n + 2)
    <2>1. \A h \in H \cup {x} : {h.rec.id, h.rec.tok, h.rec.ref} \subseteq 0 .. n + 2
      <3>1. \A h \in H : {h.rec.id, h.rec.tok, h.rec.ref} \subseteq 0 .. n
        BY DEF Belongs
      <3>2. {x.rec.id, x.rec.tok, x.rec.ref} \subseteq 0 .. n + 2
        BY <1>1
      <3>3. 0 .. n \subseteq 0 .. n + 2
        OBVIOUS
      <3>4. \A h \in H : {h.rec.id, h.rec.tok, h.rec.ref} \subseteq 0 .. n + 2
        BY <3>1, <3>3
      <3> QED BY <3>2, <3>4
    <2>2. \A e \in S : e.field \in Fields /\ e.secret \in 1 .. n + 2
      BY <1>7
    <2>3. \A h, k \in H \cup {x} : /\ h.rec.id = k.rec.id /\ h.rec.id # 0 => h.phone = k.phone
                                   /\ \A a \in Fields : h.rec[a] = k.rec[a] /\ h.rec[a] # 0 => h.phone = k.phone
      <3>1. \A h \in H : h.rec.id # x.rec.id /\ \A a \in Fields : h.rec[a] # x.rec[a]
        BY <1>1, <1>8, <1>9, <1>11
      <3>2. \A h, k \in H : /\ h.rec.id = k.rec.id /\ h.rec.id # 0 => h.phone = k.phone
                            /\ \A a \in Fields : h.rec[a] = k.rec[a] /\ h.rec[a] # 0 => h.phone = k.phone
        BY DEF Belongs
      <3> TAKE h, k \in H \cup {x}
      <3>3. CASE h \in H /\ k \in H
        BY <3>2, <3>3
      <3>4. CASE h \in H /\ k = x
        BY <3>1, <3>4
      <3>5. CASE h = x /\ k \in H
        <4>1. k.rec.id # h.rec.id /\ \A a \in Fields : k.rec[a] # h.rec[a]
          BY <3>1, <3>5
        <4> QED BY <4>1
      <3>6. CASE h = x /\ k = x
        BY <3>6
      <3> QED BY <3>3, <3>4, <3>5, <3>6
    <2>4. \A e \in S, h \in H \cup {x} : h.rec[e.field] = e.secret => h.phone = e.phone
      <3>1. \A e \in S : x.rec[e.field] # e.secret
        BY <1>7, <1>8, <1>11
      <3>2. \A e \in S, h \in H : h.rec[e.field] = e.secret => h.phone = e.phone
        BY DEF Belongs
      <3> QED BY <3>1, <3>2
    <2>5. \A e, d \in S : e.field = d.field /\ e.secret = d.secret => e.phone = d.phone
      BY DEF Belongs
    <2> QED BY <2>1, <2>2, <2>3, <2>4, <2>5 DEF Belongs
  <1>13. Distinct(new)
    <2>1. Distinct(cs)
      BY DEF Keeps
    <2>2. \A j, k \in 1 .. Len(new) : j # Len(new) /\ k # Len(new) /\ j + o = k + o => j = k
      BY <1>2, <1>4
    <2>3. ASSUME NEW j \in 1 .. Len(new), NEW k \in 1 .. Len(new), new[j].id = new[k].id
          PROVE  j = k
      <3>1. CASE j # Len(new) /\ k # Len(new)
        <4>1. cs[j + o].id = cs[k + o].id /\ j + o \in 1 .. Len(cs) /\ k + o \in 1 .. Len(cs)
          BY <1>5, <2>3, <3>1
        <4>2. j + o = k + o
          BY <2>1, <4>1 DEF Distinct
        <4> QED BY <2>2, <3>1, <4>2
      <3>2. CASE j = Len(new) \/ k = Len(new)
        <4>1. \A l \in 1 .. Len(new) : l # Len(new) => new[l].id \in 1 .. n
          BY <1>5, <1>10
        <4> QED BY <1>1, <1>6, <1>11, <2>3, <3>2, <4>1
      <3> QED BY <3>1, <3>2
    <2>4. ASSUME NEW j \in 1 .. Len(new), NEW k \in 1 .. Len(new), NEW a \in Fields, NEW b \in Fields,
                 new[j][a] = new[k][b]
          PROVE  j = k /\ a = b
      <3>1. CASE j # Len(new) /\ k # Len(new)
        <4>1. cs[j + o][a] = cs[k + o][b] /\ j + o \in 1 .. Len(cs) /\ k + o \in 1 .. Len(cs)
          BY <1>5, <2>4, <3>1
        <4>2. j + o = k + o /\ a = b
          BY <2>1, <4>1 DEF Distinct
        <4> QED BY <2>2, <3>1, <4>2
      <3>2. CASE j = Len(new) /\ k = Len(new)
        <4>1. c[a] = c[b]
          BY <1>6, <2>4, <3>2
        <4>2. a = b
          BY <1>1, <4>1 DEF Fields
        <4> QED BY <3>2, <4>2
      <3>3. CASE j = Len(new) /\ k # Len(new)
        <4>1. new[k][b] \in 0 .. n /\ new[j] = c
          BY <1>5, <1>6, <1>10, <1>11, <3>3
        <4> QED BY <1>8, <2>4, <4>1
      <3>4. CASE j # Len(new) /\ k = Len(new)
        <4>1. new[j][a] \in 0 .. n /\ new[k] = c
          BY <1>5, <1>6, <1>10, <1>11, <3>4
        <4> QED BY <1>8, <2>4, <4>1
      <3> QED BY <3>1, <3>2, <3>3, <3>4
    <2> QED BY <2>3, <2>4 DEF Distinct
  <1>14. Drawn(new, R, n + 2)
    <2>1. ASSUME NEW k \in 1 .. Len(new)
          PROVE  /\ {new[k].id, new[k].tok, new[k].ref} \subseteq 1 .. n + 2
                 /\ new[k].tok \notin R /\ new[k].ref \notin R
      <3>1. CASE k = Len(new)
        <4>1. new[k] = c /\ {n + 1, n + 2} \subseteq 1 .. n + 2 /\ n + 1 \notin R /\ n + 2 \notin R
          BY <1>6, <3>1
        <4> QED BY <1>1, <4>1
      <3>2. CASE k # Len(new)
        <4>1. k + o \in 1 .. Len(cs) /\ new[k] = cs[k + o]
          BY <1>5, <3>2
        <4>2. /\ {cs[k + o].id, cs[k + o].tok, cs[k + o].ref} \subseteq 1 .. n
              /\ cs[k + o].tok \notin R /\ cs[k + o].ref \notin R
          BY <4>1 DEF Keeps, Drawn
        <4>3. 1 .. n \subseteq 1 .. n + 2
          OBVIOUS
        <4> QED BY <4>1, <4>2, <4>3
      <3> QED BY <3>1, <3>2
    <2> QED BY <2>1 DEF Drawn
  <1>15. Fits(new, H \cup {x}, S)
    <2>1. Fits(cs, H, S)
      BY DEF Keeps
    <2>2. ASSUME NEW j \in 1 .. Len(new), NEW h \in H \cup {x}
          PROVE  /\ new[j].id = h.rec.id => new[j].tok = h.rec.tok \/ new[j].ref = h.rec.ref
                 /\ \A a \in Fields : new[j][a] = h.rec[a] => new[j].id = h.rec.id
                 /\ \A e \in S : new[j].id = h.rec.id /\ new[j][e.field] = e.secret => h.rec[e.field] = e.secret
      <3>1. CASE j # Len(new) /\ h \in H
        <4>1. j + o \in 1 .. Len(cs) /\ new[j] = cs[j + o]
          BY <1>5, <3>1
        <4> QED BY <2>1, <3>1, <4>1, SMTT(60) DEF Fits
      <3>2. CASE j = Len(new) /\ h = x
        BY <1>6, <3>2
      <3>3. CASE j # Len(new) /\ h = x
        <4>1. new[j].id \in 1 .. n /\ \A a \in Fields : new[j][a] \in 1 .. n
          BY <1>5, <1>10, <3>3
        <4>2. h.rec.id = n + 1 /\ \A a \in Fields : h.rec[a] \notin 0 .. n
          BY <1>1, <1>8, <3>3
        <4> QED BY <1>11, <4>1, <4>2
      <3>4. CASE j = Len(new) /\ h \in H
        <4>1. new[j].id = n + 1 /\ \A a \in Fields : new[j][a] \notin 0 .. n
          BY <1>1, <1>6, <1>8, <3>4
        <4>2. h.rec.id \in 0 .. n /\ \A a \in Fields : h.rec[a] \in 0 .. n
          BY <1>9, <3>4
        <4> QED BY <1>11, <4>1, <4>2
      <3> QED BY <3>1, <3>2, <3>3, <3>4
    <2> QED BY <2>2 DEF Fits
  <1> QED
    BY <1>3, <1>12, <1>13, <1>14, <1>15 DEF Keeps, new


---------------------------------------------------------------------------
(* The steps.                                                              *)

\* A thread that works has a record to store, whose id is a token.
LEMMA WorkerHasId ==
    ASSUME PairInv, NEW t \in Threads, call[t].pc \in Working
    PROVE  call[t].client \in Clients /\ call[t].client.id \in 1 .. MaxTokens /\ call[t].client.id - 1 \in Nat
  <1>1. call[t].client \in Clients
    BY DEF PairInv, WriterHoldsLock
  <1>2. call[t].client.id \in 1 .. MaxTokens /\ MaxTokens \in Nat
    BY <1>1, BoundsAssumption DEF Clients
  <1> QED
    BY <1>1, <1>2

\* What a thread does to its own call stays its own affair.
SameWork(t) ==
    call'[t].pc \in Working =>
        /\ call[t].pc \in Working
        /\ call'[t].pc \in {"rotate", "rotating"} <=> call[t].pc \in {"rotate", "rotating"}
        /\ UNCHANGED <<call[t].op, call[t].phone, call[t].copy, call[t].client, call[t].old>>
        /\ Awaited(t)' => Awaited(t)

LEMMA WorkGoesOn ==
    ASSUME PairInv, NEW t \in Threads, WillKeep(t), SameWork(t),
           Held' \subseteq Held, Sent' \subseteq Sent, UNCHANGED <<issued, retired, tokens>>
    PROVE  WillKeep(t)'
  <1>0. tokens \in Nat
    BY BoundsAssumption DEF PairInv, PairTypeOK
  <1>1. CASE call'[t].pc \in {"rotate", "rotating"}
    <2>1. /\ call[t].pc \in {"rotate", "rotating"} /\ call[t].pc \in Working
          /\ UNCHANGED <<call[t].op, call[t].phone, call[t].copy, call[t].client, call[t].old>>
      BY <1>1 DEF SameWork, Working
    <2>2. call[t].client.id - 1 \in Nat
      BY <2>1, WorkerHasId
    <2>3. /\ call[t].op = "exchange" /\ DrawsNew(t)
          /\ Keeps(call[t].copy.clients, Held, Sent, issued, retired, call[t].client.id - 1)
      BY <2>1 DEF WillKeep
    <2>4. Keeps(call[t].copy.clients, Held', Sent', issued, retired, call[t].client.id - 1)
      BY <2>2, <2>3, KeepsLess
    <2>5. Belongs(Held', Sent', call[t].client.id - 1)
      BY <2>2, <2>3, BelongsLess DEF DrawsNew
    <2>6. DrawsNew(t)'
      BY <2>1, <2>3, <2>5 DEF DrawsNew
    <2> QED
      BY <1>1, <2>1, <2>3, <2>4, <2>6 DEF WillKeep
  <1>2. CASE call'[t].pc \in {"store", "storing"}
    <2>1. /\ call[t].pc \in {"store", "storing"}
          /\ UNCHANGED <<call[t].op, call[t].phone, call[t].copy, call[t].client, call[t].old>>
          /\ Awaited(t)' => Awaited(t)
      BY <1>2 DEF SameWork, Working
    <2>2. HeldAfter(t)' \subseteq HeldAfter(t)
      BY <2>1 DEF HeldAfter, Gets
    <2> DEFINE I == IF call[t].op = "exchange" THEN Append(issued, call[t].client.id) ELSE issued
               R == IF call[t].op = "exchange" THEN retired ELSE retired \cup ({call[t].old} \ {0})
    <2>3. Belongs(HeldAfter(t), Sent, tokens) /\ Keeps(call[t].copy.clients, HeldAfter(t), Sent, I, R, tokens)
      BY <2>1 DEF WillKeep
    <2>4. I' = I /\ R' = R
      BY <2>1
    <2> HIDE DEF I, R
    <2>5. Belongs(HeldAfter(t)', Sent', tokens) /\ Keeps(call[t].copy.clients, HeldAfter(t)', Sent', I, R, tokens)
      BY <1>0, <2>2, <2>3, KeepsLess, BelongsLess
    <2> QED
      BY <1>2, <2>1, <2>4, <2>5 DEF WillKeep, I, R
  <1>3. CASE call'[t].pc \notin Working
    BY <1>3 DEF WillKeep, Working
  <1> QED
    BY <1>1, <1>2, <1>3 DEF Working

\* A step that writes no new text, and lets nobody know more.
LEMMA QuietStep ==
    ASSUME PairInv, KeepInv, overlapped => overlapped', ~overlapped => \A t \in Threads : SameWork(t),
           Held' \subseteq Held, Sent' \subseteq Sent, Texts' \subseteq Texts, UNCHANGED <<issued, retired, tokens>>,
           file'.torn => file' \in {file, Torn},
           script'.pc # "idle" /\ ~overlapped' => lock' = Nobody
    PROVE  KeepInv'
  <1>0. tokens \in Nat
    BY BoundsAssumption DEF PairInv, PairTypeOK
  <1> SUFFICES ASSUME ~overlapped'
               PROVE  /\ Belongs(Held, Sent, tokens)'
                      /\ (retired \subseteq 1 .. tokens)'
                      /\ (file.torn => file = Torn)'
                      /\ (script.pc # "idle" => lock = Nobody)'
                      /\ (\A cs \in Texts : Keeps(cs, Held, Sent, issued, retired, tokens))'
                      /\ (\A t \in Threads : WillKeep(t))'
    BY DEF KeepInv
  <1>1. /\ Belongs(Held, Sent, tokens) /\ retired \subseteq 1 .. tokens
        /\ file.torn => file = Torn
        /\ \A cs \in Texts : Keeps(cs, Held, Sent, issued, retired, tokens)
        /\ \A t \in Threads : WillKeep(t)
    BY DEF KeepInv
  <1>2. Belongs(Held', Sent', tokens)
    BY <1>0, <1>1, BelongsLess
  <1>3. \A cs \in Texts : Keeps(cs, Held', Sent', issued, retired, tokens)
    BY <1>0, <1>1, KeepsLess
  <1>4. \A t \in Threads : WillKeep(t)'
    BY <1>1, WorkGoesOn
  <1> QED
    BY <1>1, <1>2, <1>3, <1>4


\* Calls that end, or phones that wait no longer, leave nobody more to know.
LEMMA FewerCalls ==
    ASSUME \A u \in Threads : call'[u] \in {call[u], Idle},
           \A p \in Phones : waiting'[p] \in {waiting[p], Nobody},
           \A p \in Phones : Has(p)' \in Held
    PROVE  Held' \subseteq Held /\ Sent' \subseteq Sent /\ \A u \in Threads : SameWork(u)
  <1>1. Idle.pc = "idle"
    BY DEF Idle
  <1>2. \A u \in Threads : call'[u].pc # "idle" => call'[u] = call[u]
    BY <1>1
  <1>3. \A u \in Threads : call'[u].pc # "idle" /\ Awaited(u)' => Awaited(u)
    BY <1>2, NobodyAssumption DEF Awaited
  <1>4. \A u \in Threads : call'[u].pc = "answer" /\ Awaited(u)' => Gets(u)' = Gets(u) /\ Gets(u) \in Held
    BY <1>2, <1>3 DEF Gets, Held
  <1>5. Held' \subseteq Held
    BY <1>4 DEF Held
  <1>6. \A u \in Threads : call'[u].pc = "sent" => Asks(u)' = Asks(u) /\ call[u].pc = "sent" /\ call[u].op = call'[u].op
    BY <1>2 DEF Asks
  <1>7. Sent' \subseteq Sent
    BY <1>6 DEF Sent
  <1>8. \A u \in Threads : SameWork(u)
    BY <1>2, <1>3 DEF SameWork, Working
  <1> QED
    BY <1>5, <1>7, <1>8

\* The texts are the same where the file and the script are.
LEMMA SameTexts ==
    ASSUME KeepInv, UNCHANGED file, script'.pc = "idle" \/ UNCHANGED script
    PROVE  Texts' \subseteq Texts /\ (file'.torn => file' \in {file, Torn})
  BY DEF Texts

LEMMA KeepStutter == PairInv /\ KeepInv /\ UNCHANGED pairVars => KeepInv'
  <1> SUFFICES ASSUME PairInv, KeepInv, UNCHANGED pairVars PROVE KeepInv'
    OBVIOUS
  <1>1. UNCHANGED <<file, lock, call, script, phone, waiting, tokens, issued, retired, overlapped>>
    BY DEF pairVars
  <1>2. Held' \subseteq Held /\ Sent' \subseteq Sent /\ \A u \in Threads : SameWork(u)
    BY <1>1, FewerCalls DEF Has, Held
  <1>3. script'.pc # "idle" /\ ~overlapped' => lock' = Nobody
    BY <1>1 DEF KeepInv
  <1> QED
    BY <1>1, <1>2, <1>3, SameTexts, QuietStep

LEMMA GiveUpKeeps ==
    ASSUME PairInv, KeepInv, NEW p \in Phones, GiveUp(p)
    PROVE  KeepInv'
  <1>1. /\ UNCHANGED <<file, lock, call, script, phone, tokens, issued, retired, overlapped>>
        /\ waiting' = [waiting EXCEPT ![p] = Nobody]
    BY DEF GiveUp
  <1>2. \A q \in Phones : waiting'[q] \in {waiting[q], Nobody}
    BY <1>1 DEF PairInv, PairTypeOK
  <1>3. Held' \subseteq Held /\ Sent' \subseteq Sent /\ \A u \in Threads : SameWork(u)
    BY <1>1, <1>2, FewerCalls DEF Has, Held
  <1>4. script'.pc # "idle" /\ ~overlapped' => lock' = Nobody
    BY <1>1 DEF KeepInv
  <1> QED
    BY <1>1, <1>3, <1>4, SameTexts, QuietStep

LEMMA RefuseKeeps ==
    ASSUME PairInv, KeepInv, NEW t \in Threads, Refuse(t)
    PROVE  KeepInv'
  <1>1. /\ UNCHANGED <<file, lock, script, phone, tokens, issued, retired, overlapped>>
        /\ waiting' = [p \in Phones |-> IF waiting[p] = t THEN Nobody ELSE waiting[p]]
        /\ call' = [call EXCEPT ![t] = Idle]
    BY DEF Refuse
  <1>2. \A q \in Phones : waiting'[q] \in {waiting[q], Nobody}
    BY <1>1
  <1>3. \A u \in Threads : call'[u] \in {call[u], Idle}
    BY <1>1 DEF PairInv, PairTypeOK
  <1>4. Held' \subseteq Held /\ Sent' \subseteq Sent /\ \A u \in Threads : SameWork(u)
    BY <1>1, <1>2, <1>3, FewerCalls DEF Has, Held
  <1>5. script'.pc # "idle" /\ ~overlapped' => lock' = Nobody
    BY <1>1 DEF KeepInv
  <1> QED
    BY <1>1, <1>4, <1>5, SameTexts, QuietStep

\* The phone that waits has what it was about to get.
LEMMA AnswerKeeps ==
    ASSUME PairInv, KeepInv, NEW t \in Threads, Answer(t)
    PROVE  KeepInv'
  <1> DEFINE p == call[t].phone
  <1>1. /\ UNCHANGED <<file, lock, script, tokens, issued, retired, overlapped>>
        /\ call' = [call EXCEPT ![t] = Idle] /\ call[t].pc = "answer"
        /\ waiting[p] = t => phone' = [phone EXCEPT ![p] = call[t].client] /\ waiting' = [waiting EXCEPT ![p] = Nobody]
        /\ waiting[p] # t => UNCHANGED <<phone, waiting>>
    BY DEF Answer
  <1>2. \A u \in Threads : call'[u] \in {call[u], Idle}
    BY <1>1 DEF PairInv, PairTypeOK
  <1>3. \A q \in Phones : waiting'[q] \in {waiting[q], Nobody}
    BY <1>1 DEF PairInv, PairTypeOK
  <1>4. \A q \in Phones : Has(q)' \in Held
    <2> SUFFICES ASSUME NEW q \in Phones PROVE Has(q)' \in Held
      OBVIOUS
    <2>1. CASE waiting[p] = t /\ q = p
      <3>1. Has(q)' = Gets(t)
        BY <1>1, <2>1 DEF Has, Gets, PairInv, PairTypeOK
      <3>2. Gets(t) \in Held
        BY <1>1, <2>1 DEF Held, Awaited
      <3> QED BY <3>1, <3>2
    <2>2. CASE ~(waiting[p] = t /\ q = p)
      <3>1. Has(q)' = Has(q)
        BY <1>1, <2>2 DEF Has, PairInv, PairTypeOK
      <3> QED BY <3>1 DEF Held
    <2> QED BY <2>1, <2>2
  <1>5. Held' \subseteq Held /\ Sent' \subseteq Sent /\ \A u \in Threads : SameWork(u)
    BY <1>2, <1>3, <1>4, FewerCalls
  <1>6. script'.pc # "idle" /\ ~overlapped' => lock' = Nobody
    BY <1>1 DEF KeepInv
  <1> QED
    BY <1>1, <1>5, <1>6, SameTexts, QuietStep

LEMMA CodeExpiresKeeps ==
    ASSUME PairInv, KeepInv, CodeExpires
    PROVE  KeepInv'
  <1>1. UNCHANGED <<file, lock, call, script, phone, waiting, tokens, issued, retired, overlapped>>
    BY DEF CodeExpires
  <1>2. Held' \subseteq Held /\ Sent' \subseteq Sent /\ \A u \in Threads : SameWork(u)
    BY <1>1, FewerCalls DEF Has, Held
  <1>3. script'.pc # "idle" /\ ~overlapped' => lock' = Nobody
    BY <1>1 DEF KeepInv
  <1> QED
    BY <1>1, <1>2, <1>3, SameTexts, QuietStep

LEMMA PairCrashKeeps ==
    ASSUME PairInv, KeepInv, PairCrash
    PROVE  KeepInv'
  <1>1. /\ UNCHANGED <<file, phone, tokens, issued, retired, overlapped>>
        /\ \A u \in Threads : call'[u] = Idle
        /\ \A p \in Phones : waiting'[p] = Nobody
        /\ script'.pc = "idle"
    BY DEF PairCrash, NoScript
  <1>2. Held' \subseteq Held /\ Sent' \subseteq Sent /\ \A u \in Threads : SameWork(u)
    BY <1>1, FewerCalls DEF Has, Held
  <1> QED
    BY <1>1, <1>2, SameTexts, QuietStep

\* While a text is being written there is none in the file.
LEMMA TruncateKeeps ==
    ASSUME PairInv, KeepInv, NEW t \in Threads, Truncate(t)
    PROVE  KeepInv'
  <1>1. /\ UNCHANGED <<lock, script, phone, waiting, tokens, issued, retired, overlapped>>
        /\ file' = Torn /\ call[t].pc \in {"rotate", "store"}
        /\ call' = [call EXCEPT ![t].pc = IF @ = "rotate" THEN "rotating" ELSE "storing"]
    BY DEF Truncate
  <1>2. call \in [Threads -> CallRecords]
    BY DEF PairInv, PairTypeOK
  <1>3. \A u \in Threads \ {t} : call'[u] = call[u]
    BY <1>1, <1>2
  <1>4. /\ call'[t].pc = IF call[t].pc = "rotate" THEN "rotating" ELSE "storing"
        /\ UNCHANGED <<call[t].op, call[t].phone, call[t].copy, call[t].client, call[t].old>>
    BY <1>1, <1>2 DEF CallRecords
  <1>5. \A u \in Threads : Awaited(u)' <=> Awaited(u)
    BY <1>1, <1>3, <1>4 DEF Awaited
  <1>6. \A u \in Threads : SameWork(u)
    BY <1>1, <1>3, <1>4, <1>5 DEF SameWork, Working
  <1>7. \A u \in Threads : call'[u].pc \in {"answer", "sent"} => u # t /\ call'[u] = call[u]
    BY <1>3, <1>4
  <1>8. Held' \subseteq Held
    BY <1>1, <1>5, <1>7 DEF Held, Has, Gets
  <1>9. Sent' \subseteq Sent
    BY <1>7 DEF Sent, Asks
  <1>10. Texts' \subseteq Texts
    BY <1>1 DEF Texts, Torn
  <1>11. script'.pc # "idle" /\ ~overlapped' => lock' = Nobody
    BY <1>1 DEF KeepInv
  <1> QED
    BY <1>1, <1>6, <1>8, <1>9, <1>10, <1>11, QuietStep

\* A script writes the text that it has read.
LEMMA ScriptReadKeeps ==
    ASSUME PairInv, KeepInv, ScriptRead
    PROVE  KeepInv'
  <1>1. /\ UNCHANGED <<file, lock, call, phone, waiting, tokens, issued, retired>>
        /\ ~file.torn /\ overlapped' = (overlapped \/ lock # Nobody)
        /\ script'.copy = Rotated(ReadFile, codes + 1) /\ script'.pc = "write"
    BY DEF ScriptRead
  <1>2. script'.copy.clients = file.clients
    BY <1>1 DEF Rotated, ReadFile
  <1>3. Held' \subseteq Held /\ Sent' \subseteq Sent /\ \A u \in Threads : SameWork(u)
    BY <1>1, FewerCalls DEF Has, Held
  <1>4. Texts' \subseteq Texts
    BY <1>1, <1>2 DEF Texts
  <1>5. (script'.pc # "idle" /\ ~overlapped' => lock' = Nobody) /\ (overlapped => overlapped')
    BY <1>1
  <1> QED
    BY <1>1, <1>3, <1>4, <1>5, QuietStep

LEMMA ScriptTruncateKeeps ==
    ASSUME PairInv, KeepInv, ScriptTruncate
    PROVE  KeepInv'
  <1>1. /\ UNCHANGED <<lock, call, phone, waiting, tokens, issued, retired, overlapped>>
        /\ file' = Torn /\ script.pc = "write" /\ script' = [script EXCEPT !.pc = "writing"]
    BY DEF ScriptTruncate
  <1>2. script'.copy = script.copy /\ script'.pc = "writing"
    BY <1>1 DEF PairInv, PairTypeOK
  <1>3. Held' \subseteq Held /\ Sent' \subseteq Sent /\ \A u \in Threads : SameWork(u)
    BY <1>1, FewerCalls DEF Has, Held
  <1>4. Texts' \subseteq Texts
    BY <1>1, <1>2 DEF Texts, Torn
  <1>5. script'.pc # "idle" /\ ~overlapped' => lock' = Nobody
    BY <1>1 DEF KeepInv
  <1> QED
    BY <1>1, <1>3, <1>4, <1>5, QuietStep

LEMMA ScriptFillKeeps ==
    ASSUME PairInv, KeepInv, ScriptFill
    PROVE  KeepInv'
  <1>1. /\ UNCHANGED <<lock, call, phone, waiting, tokens, issued, retired, overlapped>>
        /\ file' = Whole(script.copy) /\ script.pc # "idle" /\ script'.pc = "idle"
    BY DEF ScriptFill, NoScript
  <1>2. ~file'.torn /\ file'.clients = script.copy.clients
    BY <1>1 DEF Whole
  <1>3. Held' \subseteq Held /\ Sent' \subseteq Sent /\ \A u \in Threads : SameWork(u)
    BY <1>1, FewerCalls DEF Has, Held
  <1>4. Texts' \subseteq Texts
    BY <1>1, <1>2 DEF Texts
  <1> QED
    BY <1>1, <1>2, <1>3, <1>4, QuietStep


\* A phone with a call under way waits for nothing else; it may present what
\* it has.
LEMMA AskedKeeps ==
    ASSUME PairInv, KeepInv, NEW t \in Threads, NEW p \in Phones, NEW op \in Operations, Call(t, p, op)
    PROVE  KeepInv'
  <1>1. /\ UNCHANGED <<file, lock, script, phone, tokens, issued, retired, overlapped>>
        /\ call[t] = Idle /\ waiting[p] = Nobody
        /\ waiting' = [waiting EXCEPT ![p] = t]
    BY DEF Call
  <1>2. PICK s \in PhoneSecrets(p, op) :
            call' = [call EXCEPT ![t] = [Idle EXCEPT !.pc = "sent", !.op = op, !.phone = p, !.secret = s]]
    BY DEF Call
  <1>3. call \in [Threads -> CallRecords] /\ waiting \in [Phones -> Threads \cup {Nobody}] /\ tokens \in Nat
    BY BoundsAssumption DEF PairInv, PairTypeOK
  <1>4. /\ \A u \in Threads \ {t} : call'[u] = call[u]
        /\ call'[t].pc = "sent" /\ call'[t].op = op /\ call'[t].phone = p /\ call'[t].secret = s
        /\ call[t].pc = "idle"
    BY <1>1, <1>2, <1>3 DEF Idle
  <1>5. \A u \in Threads \ {t} : (Awaited(u)' <=> Awaited(u)) /\ (Awaited(u) => call[u].phone # p)
    BY <1>1, <1>3, <1>4, NobodyAssumption DEF Awaited
  <1>6. \A u \in Threads : call'[u].pc \notin {"idle", "sent"} => u # t /\ call'[u] = call[u] /\ Gets(u)' = Gets(u)
    BY <1>4 DEF Gets
  <1>7. Held' \subseteq Held
    BY <1>1, <1>5, <1>6 DEF Held, Has
  <1>8. \A u \in Threads : SameWork(u)
    BY <1>5, <1>6 DEF SameWork, Working
  <1>9. \A u \in Threads \ {t} : Asks(u)' = Asks(u)
    BY <1>4 DEF Asks
  <1>10. (script'.pc # "idle" /\ ~overlapped' => lock' = Nobody) /\ Texts' \subseteq Texts
         /\ (file'.torn => file' \in {file, Torn})
    BY <1>1, SameTexts DEF KeepInv
  <1>11. CASE op = "exchange"
    <2>1. Sent' \subseteq Sent
      BY <1>4, <1>9, <1>11 DEF Sent
    <2> QED BY <1>1, <1>7, <1>8, <1>10, <2>1, QuietStep
  <1>12. CASE op # "exchange"
    <2> DEFINE e == Asks(t)'
               f == Presented(op)
               h == Has(p)
    <2>1. Sent' \subseteq Sent \cup {e}
      BY <1>4, <1>9 DEF Sent
    <2>2. f \in Fields /\ e.field = f /\ e.secret = h.rec[f] /\ e.phone = h.phone /\ h.rec[f] # 0 /\ h \in Held
      <3>1. e.field = f /\ e.secret = s /\ e.phone = p
        BY <1>4 DEF Asks
      <3>2. s = h.rec[f] /\ s # 0
        BY <1>12 DEF PhoneSecrets, Operations, Has, Presented
      <3> QED BY <3>1, <3>2 DEF Has, Held, Presented, Fields
    <2> SUFFICES ASSUME ~overlapped
                 PROVE  KeepInv'
      BY <1>1 DEF KeepInv
    <2>3. /\ Belongs(Held, Sent, tokens) /\ retired \subseteq 1 .. tokens
          /\ file.torn => file = Torn
          /\ script.pc # "idle" => lock = Nobody
          /\ \A cs \in Texts : Keeps(cs, Held, Sent, issued, retired, tokens)
          /\ \A u \in Threads : WillKeep(u)
      BY DEF KeepInv
    <2>4. \A k \in Held : k.phone = h.phone => k = h
      <3> SUFFICES ASSUME NEW k \in Held, k.phone = h.phone PROVE k = h
        OBVIOUS
      <3>1. CASE \E q \in Phones : k = Has(q)
        BY <3>1 DEF Has
      <3>2. CASE \E u \in Threads : call[u].pc = "answer" /\ Awaited(u) /\ k = Gets(u)
        <4>1. PICK u \in Threads : call[u].pc = "answer" /\ Awaited(u) /\ k = Gets(u)
          BY <3>2
        <4>2. u # t /\ k.phone = call[u].phone
          BY <1>4, <4>1 DEF Gets
        <4>3. k.phone # p
          BY <1>5, <4>1, <4>2
        <4> QED BY <4>3 DEF Has
      <3> QED BY <3>1, <3>2 DEF Held
    <2>5. \A u \in Threads : \A k \in HeldAfter(u) : k.phone = h.phone => k = h
      BY <1>1, <2>4, NobodyAssumption DEF HeldAfter, Has, Gets, Awaited
    <2>6. \A u \in Threads : h \in HeldAfter(u)
      BY <2>2 DEF HeldAfter
    <2> HIDE DEF e, f, h
    <2>7. ASSUME NEW n \in Nat, NEW H, h \in H, Belongs(H, Sent, n)
          PROVE  Belongs(H, Sent \cup {e}, n)
      <3>1. h.rec["tok"] \in 0 .. n /\ h.rec["ref"] \in 0 .. n
        BY <2>7 DEF Belongs
      <3>2. h.rec[f] \in 0 .. n
        BY <2>2, <3>1 DEF Fields
      <3> QED BY <2>2, <2>7, <3>2, AskBelongs
    <2>8. ASSUME NEW n \in Nat, NEW H, NEW cs, NEW I, NEW R, h \in H, Belongs(H, Sent, n),
                 \A k \in H : k.phone = h.phone => k = h, Keeps(cs, H, Sent, I, R, n)
          PROVE  Keeps(cs, H, Sent \cup {e}, I, R, n)
      <3>1. \A i \in 1 .. Len(cs) : cs[i].id # 0
        BY <2>8 DEF Keeps, Drawn
      <3> QED BY <2>2, <2>8, <3>1, AskKeeps
    <2>9. Belongs(Held', Sent', tokens)
      <3>1. Belongs(Held, Sent \cup {e}, tokens)
        BY <1>3, <2>2, <2>3, <2>7
      <3> QED BY <1>3, <1>7, <2>1, <3>1, BelongsLess
    <2>10. \A cs \in Texts : Keeps(cs, Held', Sent', issued, retired, tokens)
      <3> SUFFICES ASSUME NEW cs \in Texts PROVE Keeps(cs, Held', Sent', issued, retired, tokens)
        OBVIOUS
      <3>1. Keeps(cs, Held, Sent \cup {e}, issued, retired, tokens)
        BY <1>3, <2>2, <2>3, <2>4, <2>8
      <3> QED BY <1>3, <1>7, <2>1, <3>1, KeepsLess
    <2>11. ASSUME NEW u \in Threads PROVE WillKeep(u)'
      <3>1. CASE call'[u].pc \in {"rotate", "rotating"}
        <4>1. call'[u] = call[u] /\ call[u].pc \in {"rotate", "rotating"} /\ call[u].pc \in Working
          BY <1>6, <3>1 DEF Working
        <4>2. call[u].client.id - 1 \in Nat
          BY <4>1, WorkerHasId
        <4> DEFINE n == call[u].client.id - 1
                   cs == call[u].copy.clients
        <4>3. call[u].op = "exchange" /\ DrawsNew(u) /\ Keeps(cs, Held, Sent, issued, retired, n)
          BY <2>3, <4>1 DEF WillKeep
        <4>4. Belongs(Held, Sent, n)
          BY <4>3 DEF DrawsNew
        <4> HIDE DEF n, cs
        <4>5. n \in Nat
          BY <4>2 DEF n
        <4>6. Belongs(Held, Sent \cup {e}, n) /\ Keeps(cs, Held, Sent \cup {e}, issued, retired, n)
          BY <2>2, <2>4, <2>7, <2>8, <4>3, <4>4, <4>5
        <4>7. Belongs(Held', Sent', n) /\ Keeps(cs, Held', Sent', issued, retired, n)
          BY <1>7, <2>1, <4>5, <4>6, BelongsLess, KeepsLess
        <4>8. DrawsNew(u)'
          BY <1>1, <4>1, <4>3, <4>7 DEF DrawsNew, n
        <4> QED BY <1>1, <3>1, <4>1, <4>3, <4>7, <4>8 DEF WillKeep, n, cs
      <3>2. CASE call'[u].pc \in {"store", "storing"}
        <4>1. call'[u] = call[u] /\ call[u].pc \in {"store", "storing"} /\ u # t
          BY <1>6, <3>2
        <4> DEFINE cs == call[u].copy.clients
                   I == IF call[u].op = "exchange" THEN Append(issued, call[u].client.id) ELSE issued
                   R == IF call[u].op = "exchange" THEN retired ELSE retired \cup ({call[u].old} \ {0})
        <4>2. Belongs(HeldAfter(u), Sent, tokens) /\ Keeps(cs, HeldAfter(u), Sent, I, R, tokens)
          BY <2>3, <4>1 DEF WillKeep
        <4>3. HeldAfter(u)' \subseteq HeldAfter(u)
          BY <1>5, <1>6, <1>7, <3>2, <4>1 DEF HeldAfter
        <4>4. I' = I /\ R' = R /\ cs' = cs
          BY <1>1, <4>1
        <4> HIDE DEF cs, I, R
        <4>5. Belongs(HeldAfter(u), Sent \cup {e}, tokens) /\ Keeps(cs, HeldAfter(u), Sent \cup {e}, I, R, tokens)
          BY <1>3, <2>5, <2>6, <2>7, <2>8, <4>2
        <4>6. Belongs(HeldAfter(u)', Sent', tokens) /\ Keeps(cs, HeldAfter(u)', Sent', I, R, tokens)
          BY <1>3, <2>1, <4>3, <4>5, BelongsLess, KeepsLess
        <4>7. call[u].op # "exchange" => call[u].old \in 0 .. tokens
          BY <2>3, <4>1 DEF WillKeep
        <4> QED BY <1>1, <3>2, <4>1, <4>4, <4>6, <4>7 DEF WillKeep, cs, I, R
      <3>3. CASE call'[u].pc \notin Working
        BY <3>3 DEF WillKeep, Working
      <3> QED BY <3>1, <3>2, <3>3 DEF Working
    <2> QED
      BY <1>1, <1>10, <2>3, <2>9, <2>10, <2>11 DEF KeepInv
  <1> QED
    BY <1>11, <1>12


\* As long as the lock is free nobody works.
LEMMA NobodyWorks ==
    ASSUME PairInv, lock = Nobody
    PROVE  \A u \in Threads : call[u].pc \notin Working
  BY NobodyAssumption DEF PairInv, WriterHoldsLock

\* The one who works has the lock.
LEMMA AloneAtWork ==
    ASSUME PairInv, NEW t \in Threads, call[t].pc \in Working
    PROVE  lock = t /\ \A u \in Threads \ {t} : call[u].pc \notin Working
  BY DEF PairInv, WriterHoldsLock

\* A call that gets to work is one less to be served.
LEMMA WorkBegins ==
    ASSUME PairInv, NEW t \in Threads, NEW new \in CallRecords, call' = [call EXCEPT ![t] = new],
           call[t].pc \in Working \cup {"sent"}, new.pc \in Working, new.phone = call[t].phone,
           UNCHANGED <<phone, waiting>>
    PROVE  /\ Held' = Held /\ Sent' \subseteq Sent
           /\ call'[t] = new /\ \A u \in Threads \ {t} : call'[u] = call[u]
           /\ Awaited(t)' = Awaited(t)
  <1>1. call'[t] = new /\ \A u \in Threads \ {t} : call'[u] = call[u]
    BY DEF PairInv, PairTypeOK
  <1>2. \A u \in Threads : Awaited(u)' = Awaited(u)
    BY <1>1 DEF Awaited
  <1>3. new.pc \notin {"answer", "sent"} /\ call[t].pc # "answer"
    BY DEF Working
  <1>4. Held' = Held
    BY <1>1, <1>2, <1>3 DEF Held, Has, Gets
  <1>5. Sent' \subseteq Sent
    BY <1>1, <1>3 DEF Sent, Asks
  <1> QED
    BY <1>1, <1>2, <1>4, <1>5

\* The text without the spent code is the text that was there.
LEMMA ExchangeKeeps ==
    ASSUME PairInv, KeepInv, NEW t \in Threads, EnterExchange(t)
    PROVE  KeepInv'
  <1> DEFINE client == [id |-> tokens + 1, tok |-> tokens + 1, ref |-> tokens + 2]
             copy == Rotated(ReadFile, codes + 1)
             new == [call[t] EXCEPT !.pc = "rotate", !.copy = copy, !.client = client]
  <1>1. /\ UNCHANGED <<file, script, phone, waiting, issued, retired>> /\ tokens' = tokens + 2
        /\ overlapped' = (overlapped \/ script.pc # "idle") /\ lock' = t
        /\ call[t].pc = "sent" /\ call[t].op = "exchange" /\ lock = Nobody
        /\ file.code # 0 /\ call' = [call EXCEPT ![t] = new]
    BY DEF EnterExchange, LockFree, CodeAccepted, ReadFile
  <1>2. /\ tokens \in Nat /\ tokens + 2 \in 0 .. MaxTokens /\ codes + 1 \in 0 .. MaxCodes /\ client \in Clients
        /\ client.id = tokens + 1
    BY Numbers, BoundsAssumption, SMTT(60) DEF EnterExchange, PairInv, PairTypeOK, Clients
  <1>3. copy \in Data /\ copy.clients = file.clients
    <2>1. ReadFile \in Data /\ ReadFile.clients = file.clients
      BY ReadFits DEF ReadFile
    <2> QED BY <1>2, <2>1, RotatedFits
  <1>4. call[t] \in CallRecords
    BY Numbers
  <1>5. /\ new \in CallRecords /\ new.pc = "rotate" /\ new.op = "exchange" /\ new.copy = copy
        /\ new.client = client /\ new.phone = call[t].phone
    BY <1>1, <1>2, <1>3, <1>4 DEF CallRecords
  <1> HIDE DEF copy, new
  <1>6. /\ Held' = Held /\ Sent' \subseteq Sent
        /\ call'[t] = new /\ \A u \in Threads \ {t} : call'[u] = call[u]
    BY <1>1, <1>5, WorkBegins DEF Working
  <1> SUFFICES ASSUME ~overlapped, script.pc = "idle"
               PROVE  KeepInv'
    BY <1>1 DEF KeepInv
  <1>7. /\ Belongs(Held, Sent, tokens) /\ retired \subseteq 1 .. tokens
        /\ ~file.torn /\ \A cs \in Texts : Keeps(cs, Held, Sent, issued, retired, tokens)
    BY <1>1 DEF KeepInv, Torn
  <1>8. Keeps(file.clients, Held, Sent, issued, retired, tokens)
    BY <1>7 DEF Texts
  <1>9. Belongs(Held', Sent', tokens) /\ Keeps(file.clients, Held', Sent', issued, retired, tokens)
    BY <1>2, <1>6, <1>7, <1>8, BelongsLess, KeepsLess
  <1>10. Belongs(Held', Sent', tokens') /\ Keeps(file.clients, Held', Sent', issued, retired, tokens')
    <2>1. tokens + 2 \in Nat /\ tokens <= tokens + 2
      BY <1>2
    <2> QED BY <1>1, <1>2, <1>9, <2>1, BelongsLess, KeepsLess
  <1>11. WillKeep(t)'
    <2>1. client.id - 1 = tokens /\ tokens' = client.id + 1 /\ client = [id |-> client.id, tok |-> client.id, ref |-> client.id + 1]
      BY <1>1, <1>2
    <2> HIDE DEF client
    <2>2. DrawsNew(t)'
      BY <1>1, <1>5, <1>6, <1>7, <1>9, <2>1 DEF DrawsNew
    <2> QED BY <1>1, <1>3, <1>5, <1>6, <1>9, <2>1, <2>2 DEF WillKeep
  <1>12. \A u \in Threads : WillKeep(u)'
    <2>1. \A u \in Threads \ {t} : call'[u].pc \notin Working
      BY <1>1, <1>6, NobodyWorks
    <2>2. \A u \in Threads \ {t} : WillKeep(u)'
      BY <2>1 DEF WillKeep, Working
    <2> QED BY <1>11, <2>2
  <1>13. retired' \subseteq 1 .. tokens'
    BY <1>1, <1>2, <1>7
  <1>14. Texts' = {file.clients}
    BY <1>1, <1>7 DEF Texts
  <1> QED
    BY <1>1, <1>7, <1>10, <1>12, <1>13, <1>14 DEF KeepInv


\* A refresh changes one token of one record.
LEMMA RefreshingKeeps ==
    ASSUME PairInv, KeepInv, NEW t \in Threads, EnterRefresh(t)
    PROVE  KeepInv'
  <1> DEFINE op == call[t].op
             g == Presented(op)
             f == Renewed(op)
             cs == file.clients
  <1>1. PICK i \in Holders(ReadFile, g, call[t].secret) :
            call' = [call EXCEPT ![t].pc = "store",
                                 ![t].copy = Refreshed(ReadFile, i, f, tokens + 1),
                                 ![t].client = [ReadFile.clients[i] EXCEPT ![f] = tokens + 1],
                                 ![t].old = ReadFile.clients[i][f]]
    BY DEF EnterRefresh
  <1> DEFINE d == [cs[i] EXCEPT ![f] = tokens + 1]
             copy == Refreshed(ReadFile, i, f, tokens + 1)
             new == [call[t] EXCEPT !.pc = "store", !.copy = copy, !.client = d, !.old = cs[i][f]]
  <1>2. /\ UNCHANGED <<file, script, phone, waiting, issued, retired>> /\ tokens' = tokens + 1
        /\ overlapped' = (overlapped \/ script.pc # "idle") /\ lock' = t
        /\ call[t].pc = "sent" /\ op \in {"refresh", "bootstrap"} /\ lock = Nobody
        /\ tokens < MaxTokens
    BY DEF EnterRefresh, LockFree
  <1>3. ReadFile.clients = cs /\ call' = [call EXCEPT ![t] = new]
    BY <1>1 DEF ReadFile
  <1>4. /\ cs \in Seq(Clients) /\ Len(cs) <= MaxClients /\ Len(cs) \in Nat /\ tokens \in Nat /\ MaxTokens \in Nat
        /\ tokens + 1 \in 1 .. MaxTokens
    BY <1>2, BoundsAssumption DEF PairInv, PairTypeOK
  <1>5. i \in 1 .. Len(cs) /\ cs[i][g] = call[t].secret
    BY <1>3 DEF Holders
  <1>6. g \in Fields /\ f \in Fields /\ f # g /\ op \in Operations
    BY <1>2 DEF Fields, Presented, Renewed, Operations
  <1>7. cs[i] \in Clients /\ d \in Clients /\ cs[i][f] \in 0 .. MaxTokens
    <2>1. cs[i] \in Clients
      BY <1>4, <1>5
    <2> QED BY <1>4, <1>6, <2>1, RenewedClient
  <1>8. copy \in Data /\ copy.clients = Newest([cs EXCEPT ![i] = d], MaxClients)
    <2>1. ReadFile \in Data
      BY ReadFits
    <2>2. copy \in Data
      BY <1>3, <1>4, <1>5, <1>6, <2>1, RefreshedFits
    <2>3. copy.clients = Newest([cs EXCEPT ![i] = d], MaxClients)
      BY <1>3, <2>1 DEF Refreshed, Data
    <2> QED BY <2>2, <2>3
  <1>9. copy.clients = [cs EXCEPT ![i] = d]
    <2>1. [cs EXCEPT ![i] = d] \in Seq(Clients) /\ Len([cs EXCEPT ![i] = d]) = Len(cs)
      BY <1>4, <1>5, <1>7
    <2> QED BY <1>4, <1>8, <2>1, NewestAll
  <1>10. call[t] \in CallRecords
    BY Numbers
  <1> DEFINE after == [cs EXCEPT ![i] = d]
  <1>27. /\ after \in Seq(Clients) /\ Len(after) = Len(cs) /\ after[i] = d
         /\ \A j \in 1 .. Len(cs) : j # i => after[j] = cs[j]
    BY <1>4, <1>5, <1>7
  <1> HIDE DEF copy, d, after
  <1>11. /\ new \in CallRecords /\ new.pc = "store" /\ new.op = op /\ new.copy = copy
         /\ new.client = d /\ new.phone = call[t].phone /\ new.old = cs[i][f]
    BY <1>7, <1>8, <1>10 DEF CallRecords
  <1> HIDE DEF new
  <1>12. /\ Held' = Held /\ Sent' \subseteq Sent
         /\ call'[t] = new /\ \A u \in Threads \ {t} : call'[u] = call[u]
    BY <1>2, <1>3, <1>11, WorkBegins DEF Working
  <1> SUFFICES ASSUME ~overlapped, script.pc = "idle"
               PROVE  KeepInv'
    BY <1>2 DEF KeepInv
  <1>13. /\ Belongs(Held, Sent, tokens) /\ retired \subseteq 1 .. tokens
         /\ \A c \in Texts : Keeps(c, Held, Sent, issued, retired, tokens)
    BY DEF KeepInv
  <1>14. ~file.torn
    <2>1. file.torn => cs = <<>>
      BY DEF KeepInv, Torn
    <2> QED BY <1>4, <1>5, <2>1
  <1>15. Keeps(cs, Held, Sent, issued, retired, tokens)
    BY <1>13, <1>14 DEF Texts
  <1> DEFINE e == Asks(t)
             x == Gets(t)'
             R == retired \cup ({cs[i][f]} \ {0})
  <1>16. e \in Sent /\ e.field = g /\ cs[i][g] = e.secret /\ e.phone = call[t].phone
    BY <1>2, <1>5 DEF Asks, Sent
  <1>17. x.rec = d /\ x.phone = e.phone
    BY <1>11, <1>12, <1>16 DEF Gets
  <1> HIDE DEF e, x, g, f, cs, op
  <1>18. /\ Belongs(Held \cup {x}, Sent, tokens + 1)
         /\ Keeps(after, Held \cup {x}, Sent, issued, R, tokens + 1)
    <2>1. d \in Clients /\ d.id = cs[i].id /\ d[g] = cs[i][g] /\ d[f] = tokens + 1
      <3>1. d = [cs[i] EXCEPT ![f] = tokens + 1]
        BY DEF d, cs, f
      <3>2. g \in {"tok", "ref"} /\ f \in {"tok", "ref"} /\ f # g /\ cs[i] \in Clients
        BY <1>6, <1>7 DEF Fields
      <3> QED BY <1>7, <3>1, <3>2 DEF Clients
    <2>2. e \in Sent /\ e.field = g /\ cs[i][g] = e.secret /\ x.rec = d /\ x.phone = e.phone
      BY <1>16, <1>17
    <2>3. g \in Fields /\ f \in Fields /\ f # g /\ i \in 1 .. Len(cs)
      BY <1>5, <1>6
    <2>4. Belongs(Held, Sent, tokens) /\ retired \subseteq 1 .. tokens /\ Keeps(cs, Held, Sent, issued, retired, tokens)
      BY <1>13, <1>15
    <2>5. cs \in Seq(Clients) /\ Len(cs) <= MaxClients /\ tokens \in Nat /\ tokens + 1 \in 1 .. MaxTokens
      BY <1>4
    <2> HIDE DEF R
    <2>6. R = retired \cup ({cs[i][f]} \ {0})
      BY DEF R
    <2>7. Renews(cs, after, i, f, e, x, tokens)
      BY <2>1, <2>2, <2>3, <2>5, <1>27 DEF Renews
    <2> QED BY <2>2, <2>4, <2>5, <2>6, <2>7, RefreshKeeps
  <1> HIDE DEF R
  <1>19. tokens + 1 \in Nat /\ tokens <= tokens + 1
    BY <1>4
  <1>20. HeldAfter(t)' \subseteq Held \cup {x} /\ Held' \subseteq Held \cup {x}
    BY <1>12 DEF HeldAfter, x
  <1>21. /\ Belongs(Held', Sent', tokens + 1) /\ Belongs(HeldAfter(t)', Sent', tokens + 1)
         /\ Keeps(after, HeldAfter(t)', Sent', issued, R, tokens + 1)
    BY <1>12, <1>18, <1>19, <1>20, BelongsLess, KeepsLess
  <1>22. Keeps(cs, Held', Sent', issued, retired, tokens + 1)
    BY <1>4, <1>12, <1>15, <1>19, KeepsLess
  <1>23. WillKeep(t)'
    <2>1. /\ call'[t].pc = "store" /\ call'[t].op # "exchange" /\ call'[t].copy.clients = after
          /\ call'[t].old = cs[i][f]
      BY <1>2, <1>9, <1>11, <1>12 DEF op, f, cs, after
    <2>2. cs[i][f] \in 0 .. tokens + 1
      <3>1. cs[i] \in Clients /\ cs[i].tok \in 1 .. tokens /\ cs[i].ref \in 1 .. tokens
        BY <1>5, <1>7, <1>15 DEF Keeps, Drawn
      <3>2. cs[i][f] \in {cs[i].tok, cs[i].ref}
        BY <1>6, <3>1, ClientFields
      <3>3. 1 .. tokens \subseteq 0 .. tokens + 1
        BY <1>4
      <3> QED BY <3>1, <3>2, <3>3
    <2> QED BY <1>2, <1>21, <2>1, <2>2 DEF WillKeep, R
  <1>24. \A u \in Threads : WillKeep(u)'
    <2>1. \A u \in Threads \ {t} : call'[u].pc \notin Working
      BY <1>2, <1>12, NobodyWorks
    <2>2. \A u \in Threads \ {t} : WillKeep(u)'
      BY <2>1 DEF WillKeep, Working
    <2> QED BY <1>23, <2>2
  <1>25. retired' \subseteq 1 .. tokens'
    BY <1>2, <1>4, <1>13
  <1>26. Texts' = {cs}
    BY <1>2, <1>14 DEF Texts, cs
  <1> QED
    BY <1>2, <1>14, <1>21, <1>22, <1>24, <1>25, <1>26 DEF KeepInv

\* The file has the phones that it had; the new one comes with the next text.
LEMMA FillRotatedKeeps ==
    ASSUME PairInv, KeepInv, NEW t \in Threads, FillRotated(t)
    PROVE  KeepInv'
  <1> DEFINE cs == call[t].copy.clients
             c == call[t].client
             n == c.id - 1
             copy == Issued(call[t].copy, c)
             new == [call[t] EXCEPT !.pc = "store", !.copy = copy]
  <1>1. /\ UNCHANGED <<lock, script, phone, waiting, tokens, issued, retired, overlapped>>
        /\ call[t].pc = "rotating" /\ file' = Whole(call[t].copy) /\ call' = [call EXCEPT ![t] = new]
    BY DEF FillRotated
  <1>2. call[t] \in CallRecords /\ call[t].copy \in Data /\ cs \in Seq(Clients) /\ Len(cs) <= MaxClients
    BY Numbers DEF PairInv, CopiesFit, Data
  <1>3. /\ c \in Clients /\ c.id \in 1 .. MaxTokens /\ n \in Nat /\ lock = t
        /\ \A u \in Threads \ {t} : call[u].pc \notin Working
    BY <1>1, WorkerHasId, AloneAtWork DEF Working
  <1>4. copy \in Data /\ copy.clients = Newest(Append(cs, c), MaxClients)
    BY <1>2, <1>3, IssuedFits DEF Issued, Data
  <1> HIDE DEF copy
  <1>5. /\ new \in CallRecords /\ new.pc = "store" /\ new.op = call[t].op /\ new.copy = copy
        /\ new.client = c /\ new.phone = call[t].phone
    BY <1>2, <1>4 DEF CallRecords
  <1> HIDE DEF new
  <1>6. /\ Held' = Held /\ Sent' \subseteq Sent
        /\ call'[t] = new /\ \A u \in Threads \ {t} : call'[u] = call[u]
    BY <1>1, <1>5, WorkBegins DEF Working
  <1>7. ~file'.torn /\ file'.clients = cs
    BY <1>1 DEF Whole
  <1> SUFFICES ASSUME ~overlapped
               PROVE  KeepInv'
    BY <1>1 DEF KeepInv
  <1>8. /\ call[t].op = "exchange" /\ DrawsNew(t) /\ Keeps(cs, Held, Sent, issued, retired, n)
        /\ script.pc = "idle"
    BY <1>1, <1>3, NobodyAssumption DEF KeepInv, WillKeep
  <1> HIDE DEF cs
  <1>9. /\ c = [id |-> c.id, tok |-> c.id, ref |-> c.id + 1] /\ tokens = c.id + 1
        /\ Belongs(Held, Sent, n) /\ retired \subseteq 1 .. n
    BY <1>8 DEF DrawsNew
  <1> DEFINE x == Gets(t)'
             id == c.id
  <1>10. x.rec = c
    BY <1>5, <1>6 DEF Gets
  <1> HIDE DEF x, c, n
  <1>11. id \in Nat /\ n = id - 1 /\ n + 1 = id /\ n + 2 = id + 1 /\ tokens = n + 2 /\ c = [id |-> n + 1, tok |-> n + 1, ref |-> n + 2]
    <2>1. id \in Nat /\ n = id - 1
      BY <1>3, BoundsAssumption DEF n
    <2> HIDE DEF id
    <2>2. n + 1 = id /\ n + 2 = id + 1
      BY <2>1
    <2> QED BY <1>9, <2>1, <2>2 DEF id
  <1>12. issued \in Seq(1 .. MaxTokens)
    BY DEF PairInv, PairTypeOK
  <1>13. /\ Belongs(Held \cup {x}, Sent, n + 2)
         /\ Keeps(Newest(Append(cs, c), MaxClients), Held \cup {x}, Sent, Append(issued, c.id), retired, n + 2)
    <2> HIDE DEF id
    <2> QED BY <1>2, <1>3, <1>8, <1>9, <1>10, <1>11, <1>12, IssueKeeps DEF cs
  <1>14. tokens \in Nat /\ n <= tokens /\ n + 2 = tokens
    BY <1>3, <1>11
  <1> HIDE DEF id
  <1>15. HeldAfter(t)' \subseteq Held \cup {x} /\ Held' \subseteq Held \cup {x}
    BY <1>6 DEF HeldAfter, x
  <1>16. /\ Belongs(Held', Sent', tokens) /\ Belongs(HeldAfter(t)', Sent', tokens)
         /\ Keeps(copy.clients, HeldAfter(t)', Sent', Append(issued, c.id), retired, tokens)
    BY <1>4, <1>6, <1>13, <1>14, <1>15, BelongsLess, KeepsLess DEF cs
  <1>17. Keeps(cs, Held', Sent', issued, retired, tokens)
    BY <1>3, <1>6, <1>8, <1>14, KeepsLess
  <1>18. \A u \in Threads : WillKeep(u)'
    <2>1. \A u \in Threads \ {t} : WillKeep(u)'
      BY <1>3, <1>6 DEF WillKeep, Working
    <2>2. WillKeep(t)'
      BY <1>1, <1>5, <1>6, <1>8, <1>16 DEF WillKeep, c
    <2> QED BY <2>1, <2>2
  <1>19. Texts' = {cs}
    BY <1>1, <1>7, <1>8 DEF Texts
  <1>20. retired' \subseteq 1 .. tokens'
    BY <1>1 DEF KeepInv
  <1> QED
    BY <1>1, <1>7, <1>8, <1>16, <1>17, <1>18, <1>19, <1>20 DEF KeepInv

\* The text with the phone's record is in the file, and nobody has another.
LEMMA FillStoredKeeps ==
    ASSUME PairInv, KeepInv, NEW t \in Threads, FillStored(t)
    PROVE  KeepInv'
  <1> DEFINE cs == call[t].copy.clients
  <1>1. /\ UNCHANGED <<script, phone, waiting, tokens, overlapped>> /\ lock' = Nobody
        /\ call[t].pc = "storing" /\ file' = Whole(call[t].copy) /\ call' = [call EXCEPT ![t].pc = "answer"]
        /\ issued' = IF call[t].op = "exchange" THEN Append(issued, call[t].client.id) ELSE issued
        /\ retired' = IF call[t].op = "exchange" THEN retired ELSE retired \cup ({call[t].old} \ {0})
    BY DEF FillStored
  <1>2. /\ call'[t] = [call[t] EXCEPT !.pc = "answer"] /\ \A u \in Threads \ {t} : call'[u] = call[u]
        /\ call[t] \in CallRecords /\ tokens \in Nat
    BY <1>1, BoundsAssumption DEF PairInv, PairTypeOK
  <1>3. call'[t].pc = "answer" /\ UNCHANGED <<call[t].phone, call[t].client>>
    BY <1>2 DEF CallRecords
  <1>4. lock = t /\ \A u \in Threads \ {t} : call[u].pc \notin Working
    BY <1>1, AloneAtWork DEF Working
  <1>5. \A u \in Threads : Awaited(u)' = Awaited(u) /\ Gets(u)' = Gets(u)
    BY <1>1, <1>2, <1>3 DEF Awaited, Gets
  <1>6. Held' \subseteq HeldAfter(t)
    BY <1>1, <1>2, <1>5 DEF Held, HeldAfter, Has
  <1>7. Sent' \subseteq Sent
    BY <1>2, <1>3 DEF Sent, Asks
  <1>8. ~file'.torn /\ file'.clients = cs
    BY <1>1 DEF Whole
  <1> SUFFICES ASSUME ~overlapped
               PROVE  KeepInv'
    BY <1>1 DEF KeepInv
  <1>9. /\ Belongs(HeldAfter(t), Sent, tokens) /\ Keeps(cs, HeldAfter(t), Sent, issued', retired', tokens)
        /\ script.pc = "idle"
    BY <1>1, <1>4, NobodyAssumption DEF KeepInv, WillKeep
  <1>10. Belongs(Held', Sent', tokens) /\ Keeps(cs, Held', Sent', issued', retired', tokens)
    BY <1>2, <1>6, <1>7, <1>9, BelongsLess, KeepsLess
  <1>11. \A u \in Threads : WillKeep(u)'
    BY <1>2, <1>3, <1>4 DEF WillKeep, Working
  <1>12. retired' \subseteq 1 .. tokens'
    <2>1. retired \subseteq 1 .. tokens
      BY DEF KeepInv
    <2>2. CASE call[t].op = "exchange"
      BY <1>1, <2>1, <2>2
    <2>3. CASE call[t].op # "exchange"
      <3>1. call[t].old \in 0 .. tokens
        BY <1>1, <2>3 DEF KeepInv, WillKeep
      <3>2. {call[t].old} \ {0} \subseteq 1 .. tokens
        BY <1>2, <3>1
      <3> QED BY <1>1, <2>1, <2>3, <3>2
    <2> QED BY <2>2, <2>3
  <1>13. Texts' = {cs}
    BY <1>1, <1>8, <1>9 DEF Texts
  <1> QED
    BY <1>1, <1>8, <1>9, <1>10, <1>11, <1>12, <1>13 DEF KeepInv


---------------------------------------------------------------------------

LEMMA KeepInitially == PairInit => KeepInv
  <1> SUFFICES ASSUME PairInit PROVE KeepInv
    OBVIOUS
  <1>1. /\ ~file.torn /\ file.clients = <<>> /\ script.pc = "idle" /\ tokens = 0 /\ issued = <<>> /\ retired = {}
        /\ \A t \in Threads : call[t].pc = "idle"
        /\ \A p \in Phones : phone[p] = NoClient
    BY DEF PairInit, Whole, NoScript, Idle
  <1>2. Sent = {} /\ \A h \in Held : h.rec = NoClient
    BY <1>1 DEF Sent, Held, Has
  <1>3. Belongs(Held, Sent, tokens)
    <2>1. \A h \in Held : h.rec.id = 0 /\ h.rec.tok = 0 /\ h.rec.ref = 0 /\ \A f \in Fields : h.rec[f] = 0
      BY <1>2 DEF NoClient, Fields
    <2> QED BY <1>1, <1>2, <2>1 DEF Belongs
  <1>4. Keeps(<<>>, Held, Sent, issued, retired, tokens)
    <2>1. Len(<<>>) = 0 /\ <<>> \in Seq(Nat) /\ 1 .. 0 = {}
      OBVIOUS
    <2>4. 0 <= MaxClients
      BY ClientAssumption
    <2>5. Newest(<<>>, MaxClients) = <<>>
      BY <2>1, <2>4, NewestAll
    <2>2. Newest(issued, MaxClients) = <<>>
      BY <1>1, <2>5
    <2>3. [i \in 1 .. Len(<<>>) |-> <<>>[i].id] = <<>>
      OBVIOUS
    <2> QED BY <1>1, <2>1, <2>2, <2>3 DEF Keeps, Distinct, Drawn, Fits
  <1>5. Texts = {<<>>} /\ \A t \in Threads : WillKeep(t)
    BY <1>1 DEF Texts, WillKeep
  <1> QED
    BY <1>1, <1>3, <1>4, <1>5 DEF KeepInv

LEMMA KeepSteps == PairInv /\ KeepInv /\ [PairNext]_pairVars => KeepInv'
  <1> SUFFICES ASSUME PairInv, KeepInv, [PairNext]_pairVars PROVE KeepInv'
    OBVIOUS
  <1>1. ASSUME NEW t \in Threads, PairThread(t) PROVE KeepInv'
    BY <1>1, AskedKeeps, ExchangeKeeps, RefreshingKeeps, RefuseKeeps, TruncateKeeps, FillRotatedKeeps,
       FillStoredKeeps, AnswerKeeps DEF PairThread
  <1>2. CASE UNCHANGED pairVars
    BY <1>2, KeepStutter
  <1> QED
    BY <1>1, <1>2, GiveUpKeeps, CodeExpiresKeeps, ScriptReadKeeps, ScriptTruncateKeeps, ScriptFillKeeps,
       PairCrashKeeps DEF PairNext

\* What KeepInv says of the text in the file is what the property promises.
LEMMA KeepIsEnough == PairInv /\ KeepInv => PhonesAreKept
  <1> SUFFICES ASSUME PairInv, KeepInv, ~file.torn, ~overlapped
               PROVE  PhonesAreKept
    BY DEF PhonesAreKept, LatestPhonesAreKept, PhoneCanReturn, ReplacedTokenIsDead
  <1>1. Keeps(file.clients, Held, Sent, issued, retired, tokens)
    BY DEF KeepInv, Texts
  <1>2. LatestPhonesAreKept
    BY <1>1 DEF LatestPhonesAreKept, Keeps
  <1>3. \A i \in 1 .. Len(file.clients) : /\ file.clients[i].ref \in 1 .. tokens
                                          /\ file.clients[i].tok \notin retired /\ file.clients[i].ref \notin retired
    BY <1>1 DEF Keeps, Drawn
  <1>4. tokens \in Nat /\ 0 \notin 1 .. tokens
    BY BoundsAssumption DEF PairInv, PairTypeOK
  <1>5. PhoneCanReturn
    <2>1. \A i \in 1 .. Len(file.clients), p \in Phones :
              file.clients[i].id = phone[p].id =>
                  file.clients[i].tok = phone[p].tok \/ file.clients[i].ref = phone[p].ref
      <3>1. \A p \in Phones : Has(p) \in Held /\ Has(p).rec = phone[p]
        BY DEF Held, Has
      <3>2. \A i \in 1 .. Len(file.clients), h \in Held :
                file.clients[i].id = h.rec.id =>
                    file.clients[i].tok = h.rec.tok \/ file.clients[i].ref = h.rec.ref
        BY <1>1 DEF Keeps, Fits
      <3> QED BY <3>1, <3>2
    <2> QED BY <1>3, <1>4, <2>1 DEF PhoneCanReturn
  <1>6. ReplacedTokenIsDead
    BY <1>3 DEF ReplacedTokenIsDead
  <1> QED
    BY <1>2, <1>5, <1>6 DEF PhonesAreKept

\* Unless a script works beside a call, the file holds the phones that paired
\* last, and each gets in with what it has and with nothing older.
THEOREM PairedPhonesAreKept == PairSpec => []PhonesAreKept
  <1>1. PairInit => PairInv /\ KeepInv
    BY PairInitially, KeepInitially
  <1>2. PairInv /\ KeepInv /\ [PairNext]_pairVars => (PairInv /\ KeepInv)'
    BY PairSteps, KeepSteps
  <1> QED
    BY <1>1, <1>2, KeepIsEnough, PTL DEF PairSpec

---------------------------------------------------------------------------
(* The rate limit.                                                         *)

AttemptsTypeOK ==
    /\ time \in Nat
    /\ stamp \in [PairThreads -> Nat \cup {NoStamp}]
    /\ attempts \in Seq(Nat) /\ admitted \in Seq(Nat)
    /\ raced \in BOOLEAN
    /\ \A t \in PairThreads : stamp[t] <= time
    /\ \A i \in DOMAIN admitted : admitted[i] <= time

\* Every attempt in the list is one that was let through, each another one.
ComesFrom(f) ==
    /\ f \in [1 .. Len(attempts) -> 1 .. Len(admitted)]
    /\ \A i, j \in 1 .. Len(attempts) : f[i] = f[j] => i = j
    /\ \A i \in 1 .. Len(attempts) : attempts[i] = admitted[f[i]]

\* The list still has all of the last minute before the last one let through.
HasTheMinute(f) ==
    \A j \in 1 .. Len(admitted) :
        admitted[Len(admitted)] - admitted[j] <= Minute => \E i \in 1 .. Len(attempts) : f[i] = j

\* Nobody overtook anybody between the clock and the lock.
NoStale(s) == \A i \in 1 .. Len(admitted) : admitted[i] <= s
InOrder ==
    /\ \A t, u \in PairThreads : stamp[t] # NoStamp /\ stamp[u] # NoStamp => t = u
    /\ \A t \in PairThreads : stamp[t] # NoStamp => NoStale(stamp[t])

AttemptsInv ==
    /\ AttemptsTypeOK
    /\ \E f \in [1 .. Len(attempts) -> 1 .. Len(admitted)] :
          ComesFrom(f) /\ (~raced => HasTheMinute(f))
    /\ ~raced => InOrder
    /\ LimitIsKept

\* A window of a list is a set of its places.
LEMMA RecentPlaces ==
    ASSUME NEW s \in Seq(Nat), NEW t \in Nat
    PROVE  /\ RecentAt(s, t) \in SUBSET (1 .. Len(s)) /\ Within(s, t) \in SUBSET (1 .. Len(s))
           /\ IsFiniteSet(RecentAt(s, t)) /\ IsFiniteSet(Within(s, t))
           /\ Cardinality(RecentAt(s, t)) \in Nat /\ Cardinality(Within(s, t)) \in Nat
           /\ Within(s, t) \subseteq RecentAt(s, t)
  <1>1. Len(s) \in Nat /\ DOMAIN s = 1 .. Len(s) /\ \A i \in DOMAIN s : s[i] \in Nat
    OBVIOUS
  <1>2. RecentAt(s, t) \in SUBSET (1 .. Len(s)) /\ Within(s, t) \in SUBSET (1 .. Len(s))
    BY <1>1 DEF RecentAt, Within
  <1>3. Within(s, t) \subseteq RecentAt(s, t)
    <2>1. \A n \in Nat : n \in (t - Minute) .. t => t - n <= Minute
      BY MinuteAssumption
    <2> QED BY <1>1, <2>1 DEF RecentAt, Within
  <1> QED
    BY <1>1, <1>2, <1>3, UpToCounts

\* The list has no more of a minute than was let through in it.
LEMMA NoMoreThanAdmitted ==
    ASSUME attempts \in Seq(Nat), admitted \in Seq(Nat), NEW f, ComesFrom(f), NEW s \in Nat
    PROVE  Cardinality(RecentAt(attempts, s)) <= Cardinality(RecentAt(admitted, s))
  <1> DEFINE A == RecentAt(attempts, s)
             B == RecentAt(admitted, s)
             g == [i \in A |-> f[i]]
  <1>1. A \subseteq 1 .. Len(attempts) /\ IsFiniteSet(B)
    BY RecentPlaces
  <1>2. \A i \in A : f[i] \in 1 .. Len(admitted) /\ s - admitted[f[i]] <= Minute
    BY <1>1 DEF RecentAt, ComesFrom
  <1>3. \A i \in A : f[i] \in B
    BY <1>2 DEF RecentAt
  <1>4. g \in Injection(A, B)
    <2>1. \A a, b \in A : f[a] = f[b] => a = b
      BY <1>1 DEF ComesFrom
    <2> HIDE DEF A, B
    <2>2. g \in [A -> B]
      BY <1>3
    <2>3. \A a, b \in A : g[a] = g[b] => a = b
      BY <2>1
    <2> HIDE DEF g
    <2> QED BY <2>2, <2>3 DEF Injection, IsInjective
  <1> QED
    BY <1>1, <1>4, FS_Injection

\* At a time past all that was let through it has no less, if it kept the last
\* minute.
LEMMA NoLessThanAdmitted ==
    ASSUME attempts \in Seq(Nat), admitted \in Seq(Nat), NEW f, ComesFrom(f), HasTheMinute(f),
           NEW s \in Nat, NoStale(s)
    PROVE  Cardinality(RecentAt(admitted, s)) <= Cardinality(RecentAt(attempts, s))
  <1> DEFINE A == RecentAt(attempts, s)
             B == RecentAt(admitted, s)
             g == [i \in A |-> f[i]]
             n == Len(admitted)
  <1>1. A \subseteq 1 .. Len(attempts) /\ IsFiniteSet(A) /\ B \subseteq 1 .. n
    BY RecentPlaces
  <1>2. \A i \in A : f[i] \in B
    <2>1. \A i \in A : f[i] \in 1 .. n /\ s - admitted[f[i]] <= Minute
      BY <1>1 DEF RecentAt, ComesFrom
    <2> QED BY <2>1 DEF RecentAt
  <1>3. ASSUME NEW j \in B PROVE \E i \in A : f[i] = j
    <2>1. n \in Nat /\ j \in 1 .. n /\ n \in 1 .. n
      BY <1>1
    <2>2. s - admitted[j] <= Minute /\ admitted[n] <= s /\ admitted[j] \in Nat /\ admitted[n] \in Nat
      BY <2>1 DEF RecentAt, NoStale
    <2>3. admitted[n] - admitted[j] <= Minute
      BY <2>2, MinuteAssumption
    <2>4. PICK i \in 1 .. Len(attempts) : f[i] = j
      BY <2>1, <2>3 DEF HasTheMinute
    <2>5. attempts[i] = admitted[j]
      BY <2>4 DEF ComesFrom
    <2>6. i \in A
      BY <2>2, <2>5 DEF RecentAt
    <2> QED BY <2>4, <2>6
  <1>4. g \in Surjection(A, B)
    BY <1>2, <1>3 DEF Surjection
  <1> QED
    BY <1>1, <1>4, FS_Surjection

\* What an attempt at s leaves, with nothing more than the limit let through.
LEMMA AdmittedFits ==
    ASSUME AttemptsTypeOK, NEW f, ComesFrom(f), NEW s \in Nat,
           attempts' = Append(Recent(attempts, s), s), admitted' = Append(admitted, s)
    PROVE  /\ attempts' \in Seq(Nat) /\ admitted' \in Seq(Nat)
           /\ \E g \in [1 .. Len(attempts') -> 1 .. Len(admitted')] :
                 ComesFrom(g)' /\ (HasTheMinute(f) /\ NoStale(s) => HasTheMinute(g)')
  <1> DEFINE I == RecentAt(attempts, s)
             c == Cardinality(I)
             p == Recent(attempts, s)
             n == Len(admitted)
             a == attempts'
             b == admitted'
             h == [i \in 1 .. c + 1 |-> IF i = c + 1 THEN n + 1 ELSE f[Place(I, i)]]
  <1>1. attempts \in Seq(Nat) /\ admitted \in Seq(Nat) /\ n \in Nat /\ Len(attempts) \in Nat
    BY DEF AttemptsTypeOK
  <1>2. I \in SUBSET (1 .. Len(attempts)) /\ c \in Nat
    BY <1>1, RecentPlaces
  <1>3. /\ p \in Seq(Nat) /\ Len(p) = c
        /\ \A k \in 1 .. c : Place(I, k) \in I /\ p[k] = attempts[Place(I, k)]
    BY <1>1, <1>2, PickedIsAList DEF Recent
  <1>4. /\ \A k, l \in 1 .. c : Place(I, k) = Place(I, l) => k = l
        /\ \A i \in I : \E k \in 1 .. c : Place(I, k) = i
    BY <1>1, <1>2, PlacesMatch
  <1> HIDE DEF I, c, p, n
  <1>5. /\ a \in Seq(Nat) /\ Len(a) = c + 1 /\ a[c + 1] = s /\ \A k \in 1 .. c : a[k] = p[k]
        /\ b \in Seq(Nat) /\ Len(b) = n + 1 /\ b[n + 1] = s /\ \A j \in 1 .. n : b[j] = admitted[j]
    BY <1>1, <1>2, <1>3 DEF p, n
  <1>6. \A k \in 1 .. c : /\ Place(I, k) \in 1 .. Len(attempts) /\ f[Place(I, k)] \in 1 .. n
                          /\ a[k] = admitted[f[Place(I, k)]]
    <2>1. \A k \in 1 .. c : Place(I, k) \in 1 .. Len(attempts)
      BY <1>2, <1>3
    <2>2. \A i \in 1 .. Len(attempts) : f[i] \in 1 .. n /\ attempts[i] = admitted[f[i]]
      BY DEF ComesFrom, n
    <2> QED BY <1>3, <1>5, <2>1, <2>2
  <1>7. PICK g : /\ g \in [1 .. c + 1 -> 1 .. n + 1] /\ g[c + 1] = n + 1 /\ c + 1 \in 1 .. c + 1
                 /\ \A k \in 1 .. c : k \in 1 .. c + 1 /\ g[k] = f[Place(I, k)]
    <2>1. \A k \in 1 .. c : k \in 1 .. c + 1 /\ k # c + 1
      BY <1>2
    <2>2. \A m \in 1 .. n : m \in 1 .. n + 1
      BY <1>1
    <2>3. c + 1 \in 1 .. c + 1 /\ n + 1 \in 1 .. n + 1
      BY <1>1, <1>2
    <2>4. h \in [1 .. c + 1 -> 1 .. n + 1]
      <3>1. \A k \in 1 .. c + 1 : k # c + 1 => k \in 1 .. c
        BY <1>2
      <3> QED BY <1>6, <2>2, <2>3, <3>1
    <2>5. h[c + 1] = n + 1 /\ \A k \in 1 .. c : h[k] = f[Place(I, k)]
      BY <2>1, <2>3
    <2> HIDE DEF h
    <2> QED BY <2>1, <2>3, <2>4, <2>5
  <1>8. \A k \in 1 .. c + 1 : k \in 1 .. c \/ k = c + 1
    BY <1>2
  <1>9. \A i, j \in 1 .. c + 1 : g[i] = g[j] => i = j
    <2>1. \A i, j \in 1 .. c : g[i] = g[j] => i = j
      <3>1. \A i, j \in 1 .. Len(attempts) : f[i] = f[j] => i = j
        BY DEF ComesFrom
      <3> QED BY <1>4, <1>6, <1>7, <3>1
    <2>2. \A i \in 1 .. c : g[i] # n + 1
      <3>1. \A m \in 1 .. n : m # n + 1
        BY <1>1
      <3> QED BY <1>6, <1>7, <3>1
    <2> QED BY <1>7, <1>8, <2>1, <2>2
  <1>10. \A i \in 1 .. c + 1 : a[i] = b[g[i]]
    <2>1. \A i \in 1 .. c : a[i] = b[g[i]]
      BY <1>5, <1>6, <1>7
    <2> QED BY <1>5, <1>7, <1>8, <2>1
  <1>11. ComesFrom(g)'
    BY <1>5, <1>7, <1>9, <1>10 DEF ComesFrom
  <1>12. ASSUME HasTheMinute(f), NoStale(s)
         PROVE  HasTheMinute(g)'
    <2>1. ASSUME NEW j \in 1 .. n + 1, b[n + 1] - b[j] <= Minute
          PROVE  \E i \in 1 .. c + 1 : g[i] = j
      <3>1. CASE j = n + 1
        BY <1>7, <3>1
      <3>2. CASE j \in 1 .. n
        <4>1. n \in 1 .. n /\ s - admitted[j] <= Minute /\ admitted[j] \in Nat /\ admitted[n] \in Nat /\ admitted[n] <= s
          BY <1>1, <1>5, <1>12, <2>1, <3>2 DEF NoStale, n
        <4>2. admitted[n] - admitted[j] <= Minute
          BY <4>1, MinuteAssumption
        <4>3. PICK i \in 1 .. Len(attempts) : f[i] = j
          BY <1>12, <3>2, <4>2 DEF HasTheMinute, n
        <4>4. i \in I
          <5>1. attempts[i] = admitted[j]
            BY <4>3 DEF ComesFrom
          <5> QED BY <1>1, <4>1, <4>3, <5>1, SMTT(60) DEF RecentAt, I
        <4>5. PICK k \in 1 .. c : Place(I, k) = i
          BY <1>4, <4>4
        <4> QED BY <1>7, <4>3, <4>5
      <3> QED BY <1>1, <3>1, <3>2
    <2> QED BY <1>5, <2>1 DEF HasTheMinute
  <1> QED
    BY <1>5, <1>7, <1>11, <1>12

\* An attempt below the limit keeps every minute within it.
LEMMA LimitHolds ==
    ASSUME admitted \in Seq(Nat), NEW s \in Nat, NoStale(s), admitted' = Append(admitted, s),
           Cardinality(RecentAt(admitted, s)) < AttemptLimit,
           \A i \in DOMAIN admitted : Cardinality(Within(admitted, admitted[i])) <= AttemptLimit
    PROVE  \A i \in DOMAIN admitted' : Cardinality(Within(admitted', admitted'[i])) <= AttemptLimit
  <1> DEFINE n == Len(admitted)
             b == Append(admitted, s)
             A == RecentAt(admitted, s)
  <1>1. n \in Nat /\ DOMAIN admitted = 1 .. n /\ \A i \in 1 .. n : admitted[i] \in Nat
    OBVIOUS
  <1>2. /\ b \in Seq(Nat) /\ DOMAIN b = 1 .. n + 1 /\ b[n + 1] = s /\ \A i \in 1 .. n : b[i] = admitted[i]
    OBVIOUS
  <1> HIDE DEF b, n
  <1>3. IsFiniteSet(A) /\ Cardinality(A) \in Nat /\ A \subseteq 1 .. n
    BY RecentPlaces DEF n
  <1>4. \A m \in 1 .. n + 1 : m \in 1 .. n \/ m = n + 1
    BY <1>1
  <1>5. \A m \in 1 .. n : m \in 1 .. n + 1 /\ m # n + 1
    BY <1>1
  <1>6. Cardinality(Within(b, s)) <= AttemptLimit
    <2>1. Within(b, s) \subseteq A \cup {n + 1}
      <3>1. ASSUME NEW m \in 1 .. n, b[m] \in (s - Minute) .. s PROVE m \in A
        <4>1. b[m] = admitted[m] /\ admitted[m] \in Nat
          BY <1>1, <1>2
        <4>2. s - admitted[m] <= Minute
          BY <3>1, <4>1, MinuteAssumption
        <4> QED BY <1>1, <4>2 DEF RecentAt
      <3> QED BY <1>2, <1>4, <3>1 DEF Within
    <2>2. n + 1 \notin A
      <3>1. n + 1 \notin 1 .. n
        BY <1>1
      <3> QED BY <1>3, <3>1
    <2>3. IsFiniteSet(A \cup {n + 1}) /\ Cardinality(A \cup {n + 1}) = Cardinality(A) + 1
      BY <1>3, <2>2, FS_AddElement
    <2>4. Cardinality(Within(b, s)) <= Cardinality(A \cup {n + 1}) /\ Cardinality(Within(b, s)) \in Nat
      BY <2>1, <2>3, FS_Subset, FS_CardinalityType
    <2> QED BY <1>3, <2>3, <2>4, MinuteAssumption
  <1>7. ASSUME NEW i \in 1 .. n, admitted[i] # s
        PROVE  Cardinality(Within(b, admitted[i])) <= AttemptLimit
    <2>1. admitted[i] \in Nat /\ admitted[i] <= s
      BY <1>1 DEF NoStale, n
    <2>2. s \notin (admitted[i] - Minute) .. admitted[i]
      BY <1>7, <2>1, MinuteAssumption
    <2>3. Within(b, admitted[i]) = Within(admitted, admitted[i])
      BY <1>1, <1>2, <1>4, <1>5, <2>2 DEF Within
    <2> QED BY <1>1, <2>3
  <1>8. ASSUME NEW i \in 1 .. n + 1
        PROVE  Cardinality(Within(b, b[i])) <= AttemptLimit
    BY <1>2, <1>4, <1>6, <1>7
  <1> QED
    BY <1>2, <1>8 DEF b

\* The rate limit keeps its invariant.
LEMMA AttemptsStep == AttemptsInv /\ [AttemptsNext]_attemptVars => AttemptsInv'
  <1> SUFFICES ASSUME AttemptsInv, [AttemptsNext]_attemptVars PROVE AttemptsInv'
    OBVIOUS
  <1>0. AttemptsTypeOK /\ (~raced => InOrder) /\ LimitIsKept
    BY DEF AttemptsInv
  <1>1. PICK f \in [1 .. Len(attempts) -> 1 .. Len(admitted)] : ComesFrom(f) /\ (~raced => HasTheMinute(f))
    BY DEF AttemptsInv
  <1>2. ASSUME attempts' = attempts, admitted' = admitted, raced' \in BOOLEAN, raced => raced'
        PROVE  /\ LimitIsKept'
               /\ \E g \in [1 .. Len(attempts) -> 1 .. Len(admitted)]' :
                     ComesFrom(g)' /\ (~raced' => HasTheMinute(g)')
    <2>1. ComesFrom(f)'
      BY <1>1, <1>2 DEF ComesFrom
    <2>2. ~raced' => HasTheMinute(f)'
      BY <1>1, <1>2 DEF HasTheMinute
    <2>3. LimitIsKept'
      BY <1>0, <1>2 DEF LimitIsKept, Within
    <2> QED BY <1>1, <1>2, <2>1, <2>2, <2>3
  <1>3. CASE Tick
    <2>1. /\ time' = time + 1 /\ stamp' = stamp /\ attempts' = attempts /\ admitted' = admitted /\ raced' = raced
      BY <1>3 DEF Tick
    <2>2. AttemptsTypeOK'
      <3>1. \A t \in PairThreads : stamp[t] \in Int /\ stamp[t] <= time
        BY <1>0 DEF AttemptsTypeOK, NoStamp
      <3>2. \A i \in DOMAIN admitted : admitted[i] \in Nat /\ admitted[i] <= time
        BY <1>0 DEF AttemptsTypeOK
      <3>3. time \in Nat
        BY <1>0 DEF AttemptsTypeOK
      <3>4. (\A t \in PairThreads : stamp[t] <= time + 1) /\ \A i \in DOMAIN admitted : admitted[i] <= time + 1
        BY <3>1, <3>2, <3>3
      <3> QED BY <1>0, <2>1, <3>3, <3>4 DEF AttemptsTypeOK
    <2>3. ~raced' => InOrder'
      BY <1>0, <2>1 DEF InOrder, NoStale
    <2>4. raced' \in BOOLEAN
      BY <1>0, <2>1 DEF AttemptsTypeOK
    <2> QED BY <1>2, <2>1, <2>2, <2>3, <2>4 DEF AttemptsInv
  <1>4. ASSUME NEW t \in PairThreads, ReadClock(t) PROVE AttemptsInv'
    <2>1. /\ stamp[t] = NoStamp /\ stamp' = [stamp EXCEPT ![t] = time]
          /\ raced' = (raced \/ \E u \in PairThreads : stamp[u] # NoStamp)
          /\ time' = time /\ attempts' = attempts /\ admitted' = admitted
      BY <1>4 DEF ReadClock
    <2>2. time \in Nat /\ stamp \in [PairThreads -> Nat \cup {NoStamp}]
      BY <1>0 DEF AttemptsTypeOK
    <2>3. AttemptsTypeOK'
      <3>1. raced' \in BOOLEAN
        BY <2>1
      <3>2. stamp' \in [PairThreads -> Nat \cup {NoStamp}] /\ \A u \in PairThreads : stamp'[u] <= time
        BY <1>0, <2>1, <2>2 DEF AttemptsTypeOK
      <3> QED BY <1>0, <2>1, <3>1, <3>2 DEF AttemptsTypeOK
    <2>4. ASSUME ~raced' PROVE InOrder'
      <3>1. ~raced /\ \A u \in PairThreads : stamp[u] = NoStamp
        BY <2>1, <2>4
      <3>2. \A u \in PairThreads : stamp'[u] = IF u = t THEN time ELSE NoStamp
        BY <2>1, <2>2, <3>1
      <3>3. NoStale(time)
        <4>1. DOMAIN admitted = 1 .. Len(admitted)
          BY <1>0 DEF AttemptsTypeOK
        <4> QED BY <1>0, <4>1 DEF AttemptsTypeOK, NoStale
      <3>4. NoStale(time)'
        BY <2>1, <3>3 DEF NoStale
      <3> QED BY <2>1, <3>2, <3>4 DEF InOrder, NoStale
    <2>5. raced' \in BOOLEAN /\ (raced => raced')
      BY <2>1
    <2> QED BY <1>2, <2>1, <2>3, <2>4, <2>5 DEF AttemptsInv
  <1>5. ASSUME NEW t \in PairThreads, Attempt(t) PROVE AttemptsInv'
    <2> DEFINE s == stamp[t]
    <2>1. /\ s # NoStamp /\ stamp' = [stamp EXCEPT ![t] = NoStamp] /\ time' = time /\ raced' = raced
          /\ attempts' = Kept(attempts, s)
          /\ admitted' = IF Len(Recent(attempts, s)) < AttemptLimit THEN Append(admitted, s) ELSE admitted
      BY <1>5 DEF Attempt
    <2>2. /\ time \in Nat /\ stamp \in [PairThreads -> Nat \cup {NoStamp}] /\ s \in Nat /\ s <= time
          /\ raced \in BOOLEAN /\ attempts \in Seq(Nat) /\ admitted \in Seq(Nat)
          /\ \A u \in PairThreads : stamp[u] <= time
      BY <1>0, <2>1 DEF AttemptsTypeOK
    <2>3. /\ stamp' \in [PairThreads -> Nat \cup {NoStamp}] /\ NoStamp <= time
          /\ \A u \in PairThreads : stamp'[u] = IF u = t THEN NoStamp ELSE stamp[u]
      BY <2>1, <2>2 DEF NoStamp
    <2>4. /\ Len(Recent(attempts, s)) = Cardinality(RecentAt(attempts, s))
          /\ Len(Recent(attempts, s)) \in Nat /\ AttemptLimit \in Nat
      <3> DEFINE I == RecentAt(attempts, s)
      <3>1. I \in SUBSET (1 .. Len(attempts)) /\ Cardinality(I) \in Nat
        BY <2>2, RecentPlaces
      <3>2. Len(Picked(attempts, I)) = Cardinality(I)
        BY <2>2, <3>1, PickedIsAList
      <3> QED BY <3>1, <3>2, MinuteAssumption DEF Recent
    <2>5. ASSUME ~raced
          PROVE  NoStale(s) /\ \A u \in PairThreads : stamp'[u] = NoStamp
      BY <1>0, <2>1, <2>3, <2>5 DEF InOrder
    <2>6. ~raced' => InOrder'
      BY <2>1, <2>5 DEF InOrder
    <2>7. CASE Len(Recent(attempts, s)) >= AttemptLimit
      <3>1. attempts' = attempts /\ admitted' = admitted
        BY <2>1, <2>4, <2>7 DEF Kept
      <3>2. AttemptsTypeOK'
        BY <1>0, <2>1, <2>2, <2>3, <3>1 DEF AttemptsTypeOK
      <3> QED BY <1>2, <2>1, <2>2, <2>6, <3>1, <3>2 DEF AttemptsInv
    <2>8. CASE Len(Recent(attempts, s)) < AttemptLimit
      <3>1. attempts' = Append(Recent(attempts, s), s) /\ admitted' = Append(admitted, s)
        BY <2>1, <2>4, <2>8 DEF Kept
      <3> HIDE DEF s
      <3>2. /\ attempts' \in Seq(Nat) /\ admitted' \in Seq(Nat)
            /\ \E g \in [1 .. Len(attempts') -> 1 .. Len(admitted')] :
                  ComesFrom(g)' /\ (HasTheMinute(f) /\ NoStale(s) => HasTheMinute(g)')
        BY <1>0, <1>1, <2>2, <3>1, AdmittedFits
      <3>3. AttemptsTypeOK'
        <4>1. \A i \in DOMAIN admitted' : admitted'[i] <= time
          <5>1. \A i \in DOMAIN admitted : admitted[i] <= time
            BY <1>0 DEF AttemptsTypeOK
          <5> QED BY <2>2, <3>1, <5>1
        <4>2. \A u \in PairThreads : stamp'[u] <= time
          BY <2>2, <2>3
        <4> QED BY <2>1, <2>2, <2>3, <3>2, <4>1, <4>2 DEF AttemptsTypeOK
      <3>4. LimitIsKept'
        <4>1. SUFFICES ASSUME ~raced
                       PROVE  \A i \in DOMAIN admitted' : Cardinality(Within(admitted', admitted'[i])) <= AttemptLimit
          BY <2>1 DEF LimitIsKept, Within
        <4>2. Cardinality(RecentAt(admitted, s)) <= Cardinality(RecentAt(attempts, s))
          BY <1>1, <2>2, <2>5, <4>1, NoLessThanAdmitted
        <4>3. Cardinality(RecentAt(admitted, s)) < AttemptLimit
          <5>1. Cardinality(RecentAt(admitted, s)) \in Nat
            BY <2>2, RecentPlaces
          <5> QED BY <2>4, <2>8, <4>2, <5>1
        <4> QED BY <1>0, <2>2, <2>5, <3>1, <4>1, <4>3, LimitHolds DEF LimitIsKept
      <3>5. ~raced' => HasTheMinute(f) /\ NoStale(s)
        BY <1>1, <2>1, <2>5
      <3> QED BY <2>6, <3>2, <3>3, <3>4, <3>5 DEF AttemptsInv
    <2> QED BY <2>4, <2>7, <2>8
  <1>6. CASE UNCHANGED attemptVars
    <2>1. /\ time' = time /\ stamp' = stamp /\ attempts' = attempts /\ admitted' = admitted /\ raced' = raced
      BY <1>6 DEF attemptVars
    <2>2. AttemptsTypeOK' /\ (~raced' => InOrder') /\ raced' \in BOOLEAN
      BY <1>0, <2>1 DEF AttemptsTypeOK, InOrder, NoStale
    <2> QED BY <1>2, <2>1, <2>2 DEF AttemptsInv
  <1> QED
    BY <1>3, <1>4, <1>5, <1>6 DEF AttemptsNext

\* The rate limit lets through no more than it says in any minute, unless a
\* thread was held up between the clock and the lock, and refuses nobody
\* before it.  (_enforce_pair_rate_limit)
THEOREM AttemptsStayLimited == AttemptsSpec => AttemptsAreLimited
  <1>1. AttemptsInit => AttemptsInv
    <2> SUFFICES ASSUME AttemptsInit PROVE AttemptsInv
      OBVIOUS
    <2>1. /\ time = 0 /\ stamp = [t \in PairThreads |-> NoStamp] /\ attempts = <<>> /\ admitted = <<>> /\ raced = FALSE
      BY DEF AttemptsInit
    <2>2. AttemptsTypeOK
      <3>1. attempts \in Seq(Nat) /\ admitted \in Seq(Nat) /\ DOMAIN admitted = {}
        BY <2>1
      <3>2. stamp \in [PairThreads -> Nat \cup {NoStamp}] /\ \A t \in PairThreads : stamp[t] <= 0
        BY <2>1 DEF NoStamp
      <3> QED BY <2>1, <3>1, <3>2 DEF AttemptsTypeOK
    <2>3. Len(attempts) = 0 /\ Len(admitted) = 0 /\ DOMAIN admitted = {}
      BY <2>1
    <2> DEFINE h == [i \in {} |-> 0]
    <2>4. h \in [1 .. Len(attempts) -> 1 .. Len(admitted)] /\ ComesFrom(h) /\ HasTheMinute(h)
      <3>1. 1 .. 0 = {}
        OBVIOUS
      <3> QED BY <2>3, <3>1 DEF ComesFrom, HasTheMinute
    <2>5. InOrder /\ LimitIsKept
      BY <2>1, <2>3 DEF InOrder, LimitIsKept
    <2> QED BY <2>2, <2>4, <2>5 DEF AttemptsInv
  <1>2. AttemptsInv /\ [AttemptsNext]_attemptVars
            => [\A t \in PairThreads : stamp[t] # NoStamp /\ stamp'[t] = NoStamp /\ admitted' = admitted =>
                   Cardinality(RecentAt(admitted, stamp[t])) >= AttemptLimit]_attemptVars
    <2> SUFFICES ASSUME AttemptsInv, AttemptsNext, NEW t \in PairThreads,
                        stamp[t] # NoStamp, stamp'[t] = NoStamp, admitted' = admitted
                 PROVE  Cardinality(RecentAt(admitted, stamp[t])) >= AttemptLimit
      BY DEF attemptVars
    <2>1. /\ time \in Nat /\ stamp \in [PairThreads -> Nat \cup {NoStamp}] /\ stamp[t] \in Nat
          /\ attempts \in Seq(Nat) /\ admitted \in Seq(Nat)
      BY DEF AttemptsInv, AttemptsTypeOK
    <2>2. Attempt(t)
      <3>1. ~Tick
        BY DEF Tick
      <3>2. ASSUME NEW u \in PairThreads PROVE ~ReadClock(u)
        <4>1. time # NoStamp
          BY <2>1 DEF NoStamp
        <4> QED BY <2>1, <4>1 DEF ReadClock
      <3>3. ASSUME NEW u \in PairThreads, Attempt(u) PROVE u = t
        BY <2>1, <3>3 DEF Attempt
      <3> QED BY <3>1, <3>2, <3>3 DEF AttemptsNext
    <2>3. ~ (Len(Recent(attempts, stamp[t])) < AttemptLimit)
      <3>1. admitted # Append(admitted, stamp[t])
        <4>1. Len(Append(admitted, stamp[t])) = Len(admitted) + 1 /\ Len(admitted) \in Nat
          BY <2>1
        <4> QED BY <4>1
      <3> QED BY <2>2, <3>1 DEF Attempt
    <2>4. /\ Len(Recent(attempts, stamp[t])) = Cardinality(RecentAt(attempts, stamp[t]))
          /\ Cardinality(RecentAt(attempts, stamp[t])) \in Nat
      <3> DEFINE I == RecentAt(attempts, stamp[t])
      <3>1. I \in SUBSET (1 .. Len(attempts)) /\ Cardinality(I) \in Nat
        BY <2>1, RecentPlaces
      <3> HIDE DEF I
      <3>2. Len(Picked(attempts, I)) = Cardinality(I)
        BY <2>1, <3>1, PickedIsAList
      <3> QED BY <3>1, <3>2 DEF Recent, I
    <2>5. PICK f : ComesFrom(f)
      BY DEF AttemptsInv
    <2>6. Cardinality(RecentAt(attempts, stamp[t])) <= Cardinality(RecentAt(admitted, stamp[t]))
      BY <2>1, <2>5, NoMoreThanAdmitted
    <2>7. Cardinality(RecentAt(admitted, stamp[t])) \in Nat
      BY <2>1, RecentPlaces
    <2> QED BY <2>3, <2>4, <2>6, <2>7, MinuteAssumption
  <1>3. AttemptsInv => LimitIsKept
    BY DEF AttemptsInv
  <1> QED
    BY <1>1, <1>2, <1>3, AttemptsStep, PTL DEF AttemptsSpec, AttemptsAreLimited, RefusedOnlyAtLimit

=============================================================================
