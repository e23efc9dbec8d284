--------------------------- MODULE PairingInvariant ---------------------------
(***************************************************************************)
(* What is known of every text that the pairing file holds, or that a call *)
(* or a script is about to write there.  TLC can check both invariants     *)
(* beside the runs of MCFiles, PairingProofs proves them.                  *)
(***************************************************************************)
EXTENDS Pairing

---------------------------------------------------------------------------
(* A code is exchanged once: no call and no script holds a text with a     *)
(* code that was redeemed or that is being redeemed.  A script does not    *)
(* take the lock; it does no harm: the code it writes is a new one.        *)

Working == {"rotate", "rotating", "store", "storing"}
Spent == {redeemed[i] : i \in 1 .. Len(redeemed)}
Redeems(t) == call[t].pc \in Working /\ call[t].op = "exchange"

\* What may be written to the file fits into it.
CopiesFit ==
    /\ \A t \in Threads : Len(call[t].copy.clients) <= MaxClients
    /\ Len(script.copy.clients) <= MaxClients

\* Whoever is about to write holds the lock, and has a record to store.
WriterHoldsLock == \A t \in Threads : call[t].pc \in Working => lock = t /\ call[t].client \in Clients
AnswerHasClient == \A t \in Threads : call[t].pc = "answer" => call[t].client \in Clients

\* Codes are drawn in order.
CodesAreDrawn ==
    /\ file.code <= codes /\ script.copy.code <= codes
    /\ \A t \in Threads : /\ call[t].copy.code <= codes
                          /\ Redeems(t) => call[t].secret \in 1 .. codes
    /\ \A c \in Spent : c <= codes

\* What is spent, or being spent, is not in what may still be written.
SpentIsGone ==
    /\ file.code \notin Spent
    /\ \A t \in Threads : call[t].pc \in Working => call[t].copy.code \notin Spent
    /\ \A t \in Threads : Redeems(t) => call[t].secret \notin Spent /\ call[t].secret # call[t].copy.code
    /\ script.pc # "idle" =>
          /\ script.copy.code # 0 /\ script.copy.code \notin Spent /\ script.copy.code # file.code
          /\ \A t \in Threads : /\ call[t].pc \in Working => script.copy.code # call[t].copy.code
                                /\ Redeems(t) => script.copy.code # call[t].secret

PairInv == /\ PairTypeOK /\ CopiesFit /\ WriterHoldsLock /\ AnswerHasClient
           /\ CodesAreDrawn /\ SpentIsGone /\ CodeRedeemedOnce

---------------------------------------------------------------------------
(* The phones that paired are kept, as long as no script has worked beside *)
(* a call: what the phones have fits every text, and a call which is still *)
(* to be served can do no harm.                                            *)

Fields == {"tok", "ref"}

\* What phone p has, or is about to get: the answer it waits for.
Has(p) == [rec |-> phone[p], phone |-> p]
Gets(t) == [rec |-> call[t].client, phone |-> call[t].phone]
Awaited(t) == call[t].phone \in Phones /\ waiting[call[t].phone] = t
Held == {Has(p) : p \in Phones} \cup
        {Gets(t) : t \in {u \in Threads : call[u].pc = "answer" /\ Awaited(u)}}

\* ... and when t has stored its record.
HeldAfter(t) == Held \cup (IF Awaited(t) THEN {Gets(t)} ELSE {})

\* The refreshes that are still to be served: the field that they present.
Asks(t) == [field |-> Presented(call[t].op), secret |-> call[t].secret, phone |-> call[t].phone]
Sent == {Asks(t) : t \in {u \in Threads : call[u].pc = "sent" /\ call[u].op # "exchange"}}

\* Tokens up to n are drawn; whatever two know, they are the same phone.
Belongs(H, S, n) ==
    /\ \A h \in H : {h.rec.id, h.rec.tok, h.rec.ref} \subseteq 0 .. n
    /\ \A e \in S : e.field \in Fields /\ e.secret \in 1 .. n
    /\ \A h, k \in H : /\ h.rec.id = k.rec.id /\ h.rec.id # 0 => h.phone = k.phone
                       /\ \A f \in Fields : h.rec[f] = k.rec[f] /\ h.rec[f] # 0 => h.phone = k.phone
    /\ \A e \in S, h \in H : h.rec[e.field] = e.secret => h.phone = e.phone
    /\ \A e, d \in S : e.field = d.field /\ e.secret = d.secret => e.phone = d.phone

\* The records of a text: all their tokens differ, and none is retired.
Distinct(cs) ==
    /\ \A i, j \in 1 .. Len(cs) : cs[i].id = cs[j].id => i = j
    /\ \A i, j \in 1 .. Len(cs), f, g \in Fields : cs[i][f] = cs[j][g] => i = j /\ f = g
Drawn(cs, R, n) ==
    \A i \in 1 .. Len(cs) : /\ {cs[i].id, cs[i].tok, cs[i].ref} \subseteq 1 .. n
                            /\ cs[i].tok \notin R /\ cs[i].ref \notin R

\* What a phone has fits its record by one token at least, a token is in the
\* record of its phone, and a refresh that would be served is that of a phone
\* which still has what it presents.
Fits(cs, H, S) ==
    \A i \in 1 .. Len(cs), h \in H :
        /\ cs[i].id = h.rec.id => cs[i].tok = h.rec.tok \/ cs[i].ref = h.rec.ref
        /\ \A f \in Fields : cs[i][f] = h.rec[f] => cs[i].id = h.rec.id
        /\ \A e \in S : cs[i].id = h.rec.id /\ cs[i][e.field] = e.secret => h.rec[e.field] = e.secret

Keeps(cs, H, S, I, R, n) ==
    /\ [i \in 1 .. Len(cs) |-> cs[i].id] = Newest(I, MaxClients)
    /\ Distinct(cs) /\ Drawn(cs, R, n) /\ Fits(cs, H, S)

\* An exchange has drawn tokens that nobody knows.
DrawsNew(t) ==
    /\ call[t].client = [id |-> call[t].client.id, tok |-> call[t].client.id, ref |-> call[t].client.id + 1]
    /\ tokens = call[t].client.id + 1
    /\ Belongs(Held, Sent, call[t].client.id - 1)
    /\ retired \subseteq 1 .. call[t].client.id - 1

WillKeep(t) ==
    /\ call[t].pc \in {"rotate", "rotating"} =>
          /\ call[t].op = "exchange" /\ DrawsNew(t)
          /\ Keeps(call[t].copy.clients, Held, Sent, issued, retired, call[t].client.id - 1)
    /\ call[t].pc \in {"store", "storing"} =>
          /\ call[t].op # "exchange" => call[t].old \in 0 .. tokens
          /\ Belongs(HeldAfter(t), Sent, tokens)
          /\ Keeps(call[t].copy.clients, HeldAfter(t), Sent,
                   IF call[t].op = "exchange" THEN Append(issued, call[t].client.id) ELSE issued,
                   IF call[t].op = "exchange" THEN retired ELSE retired \cup ({call[t].old} \ {0}),
                   tokens)

\* The texts that are there: the file, and what a script is about to write.
Texts == (IF file.torn THEN {} ELSE {file.clients}) \cup
         (IF script.pc = "idle" THEN {} ELSE {script.copy.clients})

KeepInv ==
    ~overlapped =>
        /\ Belongs(Held, Sent, tokens)
        /\ retired \subseteq 1 .. tokens
        /\ file.torn => file = Torn
        /\ script.pc # "idle" => lock = Nobody
        /\ \A cs \in Texts : Keeps(cs, Held, Sent, issued, retired, tokens)
        /\ \A t \in Threads : WillKeep(t)

=============================================================================
