------------------------- MODULE ConversationProofs -------------------------
(***************************************************************************)
(* Proofs about what a conversation keeps beside its runs: the sessions of *)
(* its agents, its settings, the tables of an older release, the list of a *)
(* directory and the pages of a file that change while they are read, the  *)
(* pages of the log of a run, what of an agent's output is shown, what of  *)
(* a long message is sent, and what is found in its text.                  *)
(***************************************************************************)
EXTENDS SessionSettings, AgentSessions, StoreUpgrade, DirectoryListing, FilePreview, EventPages,
        AgentOutput, ChatTransport, ChatFindings, SelectionProofs, TLAPS

---------------------------------------------------------------------------
(* AgentSessions, for every number of runs, sessions, restarts and times   *)
(* that 90 days pass: whatever the row of an agent holds, it is the        *)
(* session that was linked last as soon as it is pruned.                   *)

SessionIds == Nat \cup {NoSession, LegacyThread}
\* no row, or one with a session
SessionRows == {NoRow} \cup [id : SessionIds \ {NoSession}, old : BOOLEAN]
Chats == [pc : {"new", "runs", "fresh", "linked", "failed", "done"}, executor : AgentExecutors,
          resume : SessionIds, stale : BOOLEAN]

SessionTypeOK ==
    /\ sessionMap \in [AgentExecutors -> SessionRows]
    /\ legacyRow \in SessionRows
    /\ chat \in [ChatRuns -> Chats]
    /\ opened \in Nat
    /\ latestLink \in [AgentExecutors -> SessionIds]

RowsAreLatest ==
    /\ latestLink["codex"] = IF sessionMap["codex"].old THEN NoSession ELSE sessionMap["codex"].id
    /\ latestLink["claude"] = sessionMap["claude"].id

SessionInv == SessionTypeOK /\ RowsAreLatest

LEMMA SessionsInitially == SessionsInit => SessionInv
  <1> SUFFICES ASSUME SessionsInit PROVE SessionInv
    OBVIOUS
  <1>1. /\ NoRow \in SessionRows /\ NoRow.id = NoSession /\ ~NoRow.old
        /\ NewChat \in Chats
    BY DEF NoRow, SessionRows, NewChat, Chats, SessionIds, AgentExecutors
  <1>2. legacyRow \in SessionRows /\ ~legacyRow.old /\ legacyRow.id \in SessionIds
    <2>1. legacyRow = NoRow \/ legacyRow = [id |-> LegacyThread, old |-> FALSE]
      BY DEF SessionsInit
    <2>2. LegacyThread \in SessionIds \ {NoSession}
      BY SessionAssumption DEF SessionIds
    <2>3. [id |-> LegacyThread, old |-> FALSE] \in SessionRows
      BY <2>2 DEF SessionRows
    <2>4. CASE legacyRow = NoRow
      BY <1>1, <2>4 DEF SessionIds
    <2>5. CASE legacyRow = [id |-> LegacyThread, old |-> FALSE]
      BY <2>2, <2>3, <2>5
    <2> QED BY <2>1, <2>4, <2>5
  <1>3. /\ sessionMap = [e \in AgentExecutors |-> IF e = "codex" THEN legacyRow ELSE NoRow]
        /\ latestLink = [e \in AgentExecutors |-> sessionMap[e].id]
        /\ chat = [r \in ChatRuns |-> NewChat] /\ opened = 0
    BY DEF SessionsInit
  <1> QED
    BY <1>1, <1>2, <1>3 DEF SessionInv, SessionTypeOK, RowsAreLatest, AgentExecutors, SessionIds

\* What pruning, linking, dropping, ageing and importing leave.
LEMMA RowTypes ==
    ASSUME NEW s \in SessionRows
    PROVE  /\ s.id \in SessionIds /\ s.old \in BOOLEAN
           /\ s.id = NoSession <=> s = NoRow
           /\ NoRow \in SessionRows /\ NoRow.id = NoSession /\ ~NoRow.old
           /\ \A id \in SessionIds \ {NoSession} : [id |-> id, old |-> FALSE] \in SessionRows
           /\ s # NoRow => /\ [s EXCEPT !.old = TRUE] \in SessionRows
                           /\ [s EXCEPT !.old = TRUE].id = s.id /\ [s EXCEPT !.old = TRUE].old
  <1>1. /\ NoRow \in SessionRows /\ NoRow.id = NoSession /\ NoRow.old = FALSE /\ NoSession \in SessionIds
        /\ \A id \in SessionIds \ {NoSession} : [id |-> id, old |-> FALSE] \in SessionRows
    BY DEF SessionRows, NoRow, SessionIds
  <1>2. CASE s = NoRow
    BY <1>1, <1>2
  <1>3. CASE s \in [id : SessionIds \ {NoSession}, old : BOOLEAN]
    <2>1. /\ s.id \in SessionIds /\ s.id # NoSession /\ s.old \in BOOLEAN
      BY <1>3
    <2>2. [s EXCEPT !.old = TRUE] \in [id : SessionIds \ {NoSession}, old : BOOLEAN]
      BY <1>3
    <2>3. [s EXCEPT !.old = TRUE].id = s.id /\ [s EXCEPT !.old = TRUE].old
      BY <1>3
    <2> QED BY <1>1, <2>1, <2>2, <2>3 DEF SessionRows
  <1> QED
    BY <1>2, <1>3 DEF SessionRows

LEMMA PrunedRows ==
    ASSUME NEW map \in [AgentExecutors -> SessionRows]
    PROVE  /\ Pruned(map) \in [AgentExecutors -> SessionRows]
           /\ Pruned(map)["codex"] = (IF map["codex"].old THEN NoRow ELSE map["codex"])
           /\ Pruned(map)["claude"] = map["claude"]
           /\ ~Pruned(map)["codex"].old
  BY RowTypes DEF Pruned, AgentExecutors

\* The run looks at the row after it was pruned, or at that of the other agent.
LEMMA LookUpKeeps ==
    ASSUME SessionInv, NEW r \in ChatRuns, LookUp(r)
    PROVE  SessionInv' /\ \A q \in ChatRuns : chat[q].pc = "new" /\ chat'[q].pc = "runs" =>
                              chat'[q].resume = latestLink[chat'[q].executor]
  <1>1. PICK e \in AgentExecutors :
            LET map == IF e = "codex" THEN Pruned(sessionMap) ELSE sessionMap
            IN /\ sessionMap' = map
               /\ chat' = [chat EXCEPT ![r] = [pc |-> "runs", executor |-> e, resume |-> map[e].id, stale |-> FALSE]]
               /\ UNCHANGED <<legacyRow, opened, latestLink>>
    BY DEF LookUp
  <1> DEFINE map == IF e = "codex" THEN Pruned(sessionMap) ELSE sessionMap
             new == [pc |-> "runs", executor |-> e, resume |-> map[e].id, stale |-> FALSE]
  <1>2. map \in [AgentExecutors -> SessionRows] /\ map[e].id = latestLink[e]
    <2>1. /\ sessionMap \in [AgentExecutors -> SessionRows]
          /\ latestLink["codex"] = IF sessionMap["codex"].old THEN NoSession ELSE sessionMap["codex"].id
          /\ latestLink["claude"] = sessionMap["claude"].id
      BY DEF SessionInv, SessionTypeOK, RowsAreLatest
    <2>2. NoRow.id = NoSession
      BY DEF NoRow
    <2>3. CASE e = "codex"
      BY <2>1, <2>2, <2>3, PrunedRows
    <2>4. CASE e = "claude"
      BY <2>1, <2>4
    <2> QED BY <2>3, <2>4 DEF AgentExecutors
  <1>3. /\ sessionMap' = map /\ chat' = [chat EXCEPT ![r] = new]
        /\ UNCHANGED <<legacyRow, opened, latestLink>>
    BY <1>1
  <1>4. /\ latestLink["codex"] = IF map["codex"].old THEN NoSession ELSE map["codex"].id
        /\ latestLink["claude"] = map["claude"].id
    BY RowTypes, PrunedRows DEF SessionInv, SessionTypeOK, RowsAreLatest
  <1> HIDE DEF map
  <1>5. new \in Chats /\ new.resume = latestLink[new.executor] /\ new.pc = "runs"
    BY <1>2 DEF Chats, SessionInv, SessionTypeOK
  <1> HIDE DEF new
  <1>6. chat' \in [ChatRuns -> Chats] /\ \A q \in ChatRuns : chat'[q] = IF q = r THEN new ELSE chat[q]
    BY <1>3, <1>5 DEF SessionInv, SessionTypeOK
  <1>7. SessionInv'
    BY <1>2, <1>3, <1>4, <1>6 DEF SessionInv, SessionTypeOK, RowsAreLatest
  <1> QED
    BY <1>5, <1>6, <1>7

\* Only LookUp makes a run begin.
Begins == \E q \in ChatRuns : chat[q].pc = "new" /\ chat'[q].pc = "runs"

LEMMA LinkKeeps ==
    ASSUME SessionInv, NEW r \in ChatRuns, AgentStarts(r)
    PROVE  SessionInv' /\ ~Begins
  <1> DEFINE me == chat[r]
             id == IF me.resume = NoSession THEN opened + 1 ELSE me.resume
             new == [chat[r] EXCEPT !.pc = "linked"]
  <1>1. /\ me.pc \in {"runs", "fresh"}
        /\ opened' = IF me.resume = NoSession THEN opened + 1 ELSE opened
        /\ \/ UNCHANGED <<sessionMap, latestLink>>
           \/ Link(me.executor, id)
        /\ chat' = [chat EXCEPT ![r] = new]
        /\ UNCHANGED legacyRow
    BY DEF AgentStarts
  <1>2. me \in Chats
    BY DEF SessionInv, SessionTypeOK
  <1>3. new \in Chats /\ new.pc = "linked" /\ me.executor \in AgentExecutors /\ me.resume \in SessionIds
    BY <1>2 DEF Chats
  <1>4. id \in SessionIds \ {NoSession} /\ opened' \in Nat
    BY <1>1, <1>3, SessionAssumption DEF SessionIds, SessionInv, SessionTypeOK
  <1> HIDE DEF me, id, new
  <1>5. chat' \in [ChatRuns -> Chats] /\ ~Begins
    BY <1>1, <1>3 DEF SessionInv, SessionTypeOK, Begins
  <1>6. CASE UNCHANGED <<sessionMap, latestLink>>
    BY <1>1, <1>4, <1>5, <1>6 DEF SessionInv, SessionTypeOK, RowsAreLatest
  <1>7. CASE Link(me.executor, id)
    <2> DEFINE e == me.executor
               map == IF e = "codex" THEN Pruned(sessionMap) ELSE sessionMap
               linked == [id |-> id, old |-> FALSE]
    <2>1. sessionMap' = [map EXCEPT ![e] = linked] /\ latestLink' = [latestLink EXCEPT ![e] = id]
      BY <1>7 DEF Link
    <2>2. map \in [AgentExecutors -> SessionRows]
      BY PrunedRows DEF SessionInv, SessionTypeOK
    <2>3. /\ latestLink["codex"] = IF map["codex"].old THEN NoSession ELSE map["codex"].id
          /\ latestLink["claude"] = map["claude"].id
      BY RowTypes, PrunedRows DEF SessionInv, SessionTypeOK, RowsAreLatest
    <2>4. linked \in SessionRows /\ linked.id = id /\ ~linked.old
      BY <1>4, RowTypes DEF SessionRows
    <2> HIDE DEF map, linked, e
    <2>5. e \in AgentExecutors
      BY <1>3 DEF e
    <2>6. /\ sessionMap' \in [AgentExecutors -> SessionRows]
          /\ latestLink' \in [AgentExecutors -> SessionIds]
      BY <1>4, <2>1, <2>2, <2>4, <2>5 DEF SessionInv, SessionTypeOK
    <2>7. RowsAreLatest'
      BY <2>1, <2>2, <2>3, <2>4, <2>5 DEF RowsAreLatest, SessionInv, SessionTypeOK, AgentExecutors
    <2> QED BY <1>1, <1>4, <1>5, <2>6, <2>7 DEF SessionInv, SessionTypeOK
  <1> QED
    BY <1>1, <1>5, <1>6, <1>7

\* A run that changes nothing but its place, and does not begin.
LEMMA PlaceKeeps ==
    ASSUME SessionInv, NEW r \in ChatRuns, ResumeFails(r) \/ ChatEnds(r)
    PROVE  SessionInv' /\ ~Begins
  <1>1. PICK new \in Chats : /\ chat' = [chat EXCEPT ![r] = new] /\ new.pc # "runs"
                             /\ UNCHANGED <<sessionMap, legacyRow, opened, latestLink>>
    <2>1. CASE ResumeFails(r)
      <3> DEFINE new == [chat[r] EXCEPT !.pc = "failed", !.stale = (chat[r].executor = "codex")]
      <3>1. new \in Chats /\ new.pc = "failed"
        BY DEF SessionInv, SessionTypeOK, Chats
      <3> QED BY <2>1, <3>1 DEF ResumeFails
    <2>2. CASE ChatEnds(r)
      <3> DEFINE new == [NewChat EXCEPT !.pc = "done"]
      <3>1. new \in Chats /\ new.pc = "done"
        BY DEF NewChat, Chats, SessionIds, AgentExecutors
      <3> QED BY <2>2, <3>1 DEF ChatEnds
    <2> QED BY <2>1, <2>2
  <1> QED
    BY <1>1 DEF SessionInv, SessionTypeOK, RowsAreLatest, Begins

\* The retry forgets the row, whatever it holds by now.
LEMMA RetryKeeps ==
    ASSUME SessionInv, NEW r \in ChatRuns, Retry(r)
    PROVE  SessionInv' /\ ~Begins
  <1> DEFINE e == chat[r].executor
             new == [chat[r] EXCEPT !.pc = "fresh", !.resume = NoSession]
  <1>1. /\ sessionMap' = [sessionMap EXCEPT ![e] = NoRow]
        /\ latestLink' = [latestLink EXCEPT ![e] = NoSession]
        /\ chat' = [chat EXCEPT ![r] = new]
        /\ UNCHANGED <<legacyRow, opened>>
    BY DEF Retry, RowDropped
  <1>2. e \in AgentExecutors /\ new \in Chats /\ new.pc = "fresh"
    BY DEF SessionInv, SessionTypeOK, Chats, SessionIds
  <1>3. NoRow \in SessionRows /\ NoRow.id = NoSession /\ ~NoRow.old /\ NoSession \in SessionIds
    BY DEF SessionRows, NoRow, SessionIds
  <1> HIDE DEF new, e
  <1>4. chat' \in [ChatRuns -> Chats] /\ ~Begins
    BY <1>1, <1>2 DEF SessionInv, SessionTypeOK, Begins
  <1>5. /\ sessionMap' \in [AgentExecutors -> SessionRows]
        /\ latestLink' \in [AgentExecutors -> SessionIds]
    BY <1>1, <1>2, <1>3 DEF SessionInv, SessionTypeOK
  <1>6. RowsAreLatest'
    BY <1>1, <1>2, <1>3 DEF RowsAreLatest, SessionInv, SessionTypeOK, AgentExecutors
  <1> QED
    BY <1>1, <1>4, <1>5, <1>6 DEF SessionInv, SessionTypeOK

\* 90 days cost codex its session, and claude nothing.
LEMMA AgeKeeps ==
    ASSUME SessionInv, Age
    PROVE  SessionInv' /\ ~Begins
  <1> DEFINE Aged(s) == IF s = NoRow THEN NoRow ELSE [s EXCEPT !.old = TRUE]
  <1>1. /\ sessionMap' = [e \in AgentExecutors |-> Aged(sessionMap[e])]
        /\ legacyRow' = Aged(legacyRow)
        /\ latestLink' = [latestLink EXCEPT !["codex"] = NoSession]
        /\ UNCHANGED <<chat, opened>>
    BY DEF Age
  <1>2. \A s \in SessionRows : Aged(s) \in SessionRows /\ Aged(s).id = s.id /\ (Aged(s).old \/ Aged(s) = NoRow)
    BY RowTypes
  <1>3. "codex" \in AgentExecutors /\ "claude" \in AgentExecutors /\ NoSession \in SessionIds /\ NoRow.id = NoSession
    BY DEF AgentExecutors, SessionIds, NoRow
  <1> HIDE DEF Aged
  <1>4. ~Begins
    BY <1>1 DEF Begins
  <1>5. SessionTypeOK'
    BY <1>1, <1>2, <1>3 DEF SessionInv, SessionTypeOK
  <1>6. latestLink'["codex"] = NoSession /\ latestLink'["claude"] = latestLink["claude"]
    BY <1>1, <1>3 DEF SessionInv, SessionTypeOK
  <1>7. RowsAreLatest'
    BY <1>1, <1>2, <1>3, <1>6 DEF RowsAreLatest, SessionInv, SessionTypeOK
  <1> QED
    BY <1>4, <1>5, <1>7 DEF SessionInv

\* A start of the backend takes the row of the older release where it has no
\* younger one of its own.
LEMMA BootKeeps ==
    ASSUME SessionInv, Boot
    PROVE  SessionInv' /\ ~Begins
  <1> DEFINE p == Pruned(sessionMap)
             m == Imported(p)
  <1>1. /\ sessionMap' = Pruned(m)
        /\ latestLink' = IF latestLink["codex"] = NoSession /\ ~legacyRow.old
                         THEN [latestLink EXCEPT !["codex"] = legacyRow.id] ELSE latestLink
        /\ chat' = [r \in ChatRuns |-> IF r \in Active THEN [NewChat EXCEPT !.pc = "done"] ELSE chat[r]]
        /\ UNCHANGED <<legacyRow, opened>>
    BY DEF Boot
  <1>2. [NewChat EXCEPT !.pc = "done"] \in Chats /\ [NewChat EXCEPT !.pc = "done"].pc = "done"
    BY DEF NewChat, Chats, SessionIds, AgentExecutors
  <1>3. chat' \in [ChatRuns -> Chats] /\ ~Begins
    BY <1>1, <1>2 DEF SessionInv, SessionTypeOK, Begins
  <1>4. /\ p \in [AgentExecutors -> SessionRows] /\ ~p["codex"].old
        /\ p["codex"].id = latestLink["codex"] /\ p["claude"].id = latestLink["claude"]
    BY RowTypes, PrunedRows DEF SessionInv, SessionTypeOK, RowsAreLatest
  <1>5. /\ legacyRow \in SessionRows /\ latestLink \in [AgentExecutors -> SessionIds]
        /\ "codex" \in AgentExecutors /\ "claude" \in AgentExecutors
    BY DEF SessionInv, SessionTypeOK, AgentExecutors
  <1> HIDE DEF p
  <1>6. /\ m \in [AgentExecutors -> SessionRows] /\ m["claude"] = p["claude"]
        /\ m["codex"] = IF p["codex"] = NoRow THEN legacyRow ELSE p["codex"]
    BY <1>4, <1>5 DEF Imported
  <1> HIDE DEF m
  <1>7. /\ Pruned(m) \in [AgentExecutors -> SessionRows] /\ ~Pruned(m)["codex"].old
        /\ Pruned(m)["codex"] = (IF m["codex"].old THEN NoRow ELSE m["codex"])
        /\ Pruned(m)["claude"] = m["claude"]
    BY <1>6, PrunedRows
  <1>8. /\ p["codex"] = NoRow <=> latestLink["codex"] = NoSession
        /\ legacyRow.id \in SessionIds /\ NoRow.id = NoSession
    BY <1>4, <1>5, RowTypes
  <1>9. latestLink' \in [AgentExecutors -> SessionIds]
    BY <1>1, <1>5, <1>8
  <1>10. latestLink'["claude"] = Pruned(m)["claude"].id
    BY <1>1, <1>4, <1>5, <1>6, <1>7
  <1>11. latestLink'["codex"] = Pruned(m)["codex"].id
    <2>1. CASE latestLink["codex"] = NoSession /\ ~legacyRow.old
      BY <1>1, <1>5, <1>6, <1>7, <1>8, <2>1
    <2>2. CASE latestLink["codex"] = NoSession /\ legacyRow.old
      BY <1>1, <1>5, <1>6, <1>7, <1>8, <2>2
    <2>3. CASE latestLink["codex"] # NoSession
      BY <1>1, <1>4, <1>5, <1>6, <1>7, <1>8, <2>3
    <2> QED BY <2>1, <2>2, <2>3
  <1> QED
    BY <1>1, <1>3, <1>5, <1>7, <1>9, <1>10, <1>11 DEF SessionInv, SessionTypeOK, RowsAreLatest

LEMMA SessionsSteps ==
    ASSUME SessionInv, [SessionsNext]_sessionVars
    PROVE  /\ SessionInv'
           /\ \A r \in ChatRuns : chat[r].pc = "new" /\ chat'[r].pc = "runs" =>
                  chat'[r].resume = latestLink[chat'[r].executor]
  <1>1. CASE UNCHANGED sessionVars
    BY <1>1 DEF sessionVars, SessionInv, SessionTypeOK, RowsAreLatest
  <1>2. CASE Forget
    BY <1>2 DEF Forget, SessionInv, SessionTypeOK, RowsAreLatest
  <1>3. ASSUME NEW r \in ChatRuns, AgentStarts(r) \/ ResumeFails(r) \/ Retry(r) \/ ChatEnds(r)
        PROVE  SessionInv' /\ ~Begins
    BY <1>3, LinkKeeps, PlaceKeeps, RetryKeeps
  <1> QED
    BY <1>1, <1>2, <1>3, LookUpKeeps, AgeKeeps, BootKeeps DEF SessionsNext, Begins

\* ContinuesConversation: a run resumes the session that the last run of its
\* agent linked, unless the agent had lost that one or codex's is too old
\* (get_agent_session_id, prune_stale_agent_sessions).
THEOREM ConversationContinues == SessionsSpec => ContinuesConversation
  <1>1. SessionsInit => SessionInv
    BY SessionsInitially
  <1>2. SessionInv /\ [SessionsNext]_sessionVars
            => /\ SessionInv'
               /\ [\A r \in ChatRuns : chat[r].pc = "new" /\ chat'[r].pc = "runs" =>
                      chat'[r].resume = latestLink[chat'[r].executor]]_sessionVars
    BY SessionsSteps
  <1> QED
    BY <1>1, <1>2, PTL DEF SessionsSpec, ContinuesConversation

---------------------------------------------------------------------------
(* StoreUpgrade, for every set of runs and every number of deaths: the     *)
(* shape of the tables goes with the next statement, and every run is in   *)
(* the table or was read from it.                                          *)

Before == {"read", "drop", "create"}
Completing == {"alter", "events", "alterEvents", "migrate", "ready"}
AllColumns == BaseColumns \cup LaterColumns
AllEvents == [there |-> TRUE, columns |-> EventColumns]

\* the table of the release with payloads, no table, or one of today
OldTable == runsTable = Payload /\ runRows = OldRuns /\ upgrade \in {"read", "drop"}
Dropped == runsTable = {} /\ runRows = {} /\ upgrade \in {"read", "create"}
NewTable == BaseColumns \subseteq runsTable /\ runsTable \subseteq AllColumns

TablesFit ==
    /\ upgrade \in Before \cup Completing
    /\ \/ (OldTable \/ Dropped) /\ eventsTable = NoTable /\ eventRows = {}
       \/ NewTable /\ runRows = eventRows /\ upgrade # "drop"
    /\ \/ eventsTable = NoTable
       \/ eventsTable \in [there : {TRUE}, columns : SUBSET EventColumns]
    /\ upgrade \in Completing => NewTable
    /\ upgrade \in Completing \ {"alter"} => runsTable = AllColumns
    /\ upgrade \in {"alterEvents", "migrate", "ready"} => eventsTable.there
    /\ upgrade \in {"migrate", "ready"} => eventsTable = AllEvents

RowsAreRead ==
    /\ upgrade = "drop" => readRows = runRows
    /\ upgrade \in {"read", "ready"} => readRows = {}
    /\ cut \in BOOLEAN

UpgradeInv == TablesFit /\ RowsAreRead /\ RunsSurviveUpgrade

LEMMA Columns ==
    /\ Payload # {} /\ ~(BaseColumns \subseteq Payload) /\ ~(BaseColumns \subseteq {})
    /\ "payload_json" \in Payload /\ "payload_json" \notin AllColumns
    /\ "executor" \in LaterColumns /\ "pending_human_unblock_json" \in LaterColumns
    /\ BaseColumns \subseteq AllColumns /\ LaterColumns \subseteq AllColumns
    /\ NoTable.there = FALSE
    /\ AllEvents.there /\ AllEvents \in [there : {TRUE}, columns : SUBSET EventColumns]
  BY DEF Payload, BaseColumns, LaterColumns, AllColumns, NoTable, AllEvents

LEMMA UpgradeInitially == UpgradeInit => UpgradeInv
  <1> SUFFICES ASSUME UpgradeInit PROVE UpgradeInv
    OBVIOUS
  <1>1. readRows = {} /\ upgrade = "read" /\ cut = FALSE /\ (hadRuns <=> runRows # {})
    BY DEF UpgradeInit
  <1>2. RowsAreRead
    BY <1>1 DEF RowsAreRead
  <1>3. TablesFit
    <2>1. upgrade \in Before \cup Completing /\ upgrade \notin Completing
      BY <1>1 DEF Before, Completing
    <2>2. CASE runsTable = {} /\ runRows = {} /\ eventsTable = NoTable /\ eventRows = {}
      BY <1>1, <2>1, <2>2 DEF TablesFit, Dropped
    <2>3. CASE runsTable = Payload /\ runRows = OldRuns /\ eventsTable = NoTable /\ eventRows = {}
      BY <1>1, <2>1, <2>3 DEF TablesFit, OldTable
    <2>4. CASE \E some \in SUBSET LaterColumns, more \in SUBSET EventColumns :
                  /\ runsTable = BaseColumns \cup some /\ runRows = OldRuns \ DamagedRuns
                  /\ eventsTable = [there |-> TRUE, columns |-> more] /\ eventRows = OldRuns \ DamagedRuns
      <3>1. NewTable /\ runRows = eventRows /\ eventsTable \in [there : {TRUE}, columns : SUBSET EventColumns]
        BY <2>4 DEF NewTable, AllColumns
      <3> QED BY <1>1, <2>1, <3>1 DEF TablesFit
    <2> QED BY <2>2, <2>3, <2>4 DEF UpgradeInit
  <1>4. RunsSurviveUpgrade
    BY <1>1 DEF UpgradeInit, RunsSurviveUpgrade
  <1> QED
    BY <1>2, <1>3, <1>4 DEF UpgradeInv

LEMMA UpgradeSteps ==
    ASSUME UpgradeInv, [UpgradeNext]_upgradeVars
    PROVE  UpgradeInv'
  <1> USE DEF UpgradeInv
  <1>1. CASE UNCHANGED upgradeVars
    BY <1>1 DEF upgradeVars, TablesFit, OldTable, Dropped, NewTable, RowsAreRead, RunsSurviveUpgrade
  <1>2. CASE ReadRows
    <2>1. CASE "payload_json" \in runsTable
      <3>1. /\ runsTable = Payload /\ runRows = OldRuns /\ eventsTable = NoTable /\ eventRows = {}
        BY <2>1, Columns DEF TablesFit, OldTable, Dropped, NewTable
      <3>2. readRows' = runRows /\ upgrade' = "drop" /\ UNCHANGED <<runsTable, runRows, eventsTable, eventRows, hadRuns, cut>>
        BY <1>2, <2>1 DEF ReadRows
      <3> QED BY <3>1, <3>2 DEF TablesFit, OldTable, Before, Completing, RowsAreRead, RunsSurviveUpgrade
    <2>2. CASE "payload_json" \notin runsTable
      <3>1. \/ Dropped /\ eventsTable = NoTable /\ eventRows = {}
            \/ NewTable /\ runRows = eventRows
        <4>1. ~OldTable
          BY <2>2, Columns DEF OldTable
        <4> QED BY <4>1 DEF TablesFit
      <3>2. /\ readRows' = {} /\ upgrade' = "create" /\ upgrade = "read"
            /\ UNCHANGED <<runsTable, runRows, eventsTable, eventRows, hadRuns, cut>>
        BY <1>2, <2>2 DEF ReadRows
      <3> QED BY <3>1, <3>2 DEF TablesFit, OldTable, Dropped, NewTable, Before, Completing, RowsAreRead, RunsSurviveUpgrade
    <2> QED BY <2>1, <2>2
  <1>3. CASE DropRuns
    <2>1. /\ upgrade = "drop" /\ runsTable' = {} /\ runRows' = {} /\ upgrade' = "create"
          /\ UNCHANGED <<eventsTable, eventRows, readRows, hadRuns, cut>>
      BY <1>3 DEF DropRuns
    <2> QED BY <2>1 DEF TablesFit, OldTable, Dropped, Before, Completing, RowsAreRead, RunsSurviveUpgrade
  <1>4. CASE CreateRuns
    <2>1. /\ upgrade = "create" /\ upgrade' = "alter"
          /\ runsTable' = IF runsTable = {} THEN AllColumns ELSE runsTable
          /\ UNCHANGED <<runRows, eventsTable, eventRows, readRows, hadRuns, cut>>
      BY <1>4 DEF CreateRuns, AllColumns
    <2>2. NewTable' /\ runRows = eventRows
      BY <2>1, Columns DEF TablesFit, OldTable, Dropped, NewTable
    <2> QED BY <2>1, <2>2 DEF TablesFit, Before, Completing, RowsAreRead, RunsSurviveUpgrade
  <1>5. CASE AlterRuns
    <2>1. /\ upgrade = "alter"
          /\ UNCHANGED <<runRows, eventsTable, eventRows, readRows, hadRuns, cut>>
          /\ NewTable /\ runRows = eventRows
      BY <1>5, Columns DEF AlterRuns, TablesFit, OldTable, Dropped, NewTable, Before, Completing
    <2>2. CASE MissingColumns = {}
      <3>1. upgrade' = "events" /\ runsTable' = runsTable /\ runsTable = AllColumns
        BY <1>5, <2>1, <2>2 DEF AlterRuns, MissingColumns, NewTable, AllColumns
      <3> QED BY <2>1, <3>1 DEF TablesFit, NewTable, Before, Completing, RowsAreRead, RunsSurviveUpgrade
    <2>3. CASE MissingColumns # {}
      <3>1. upgrade' = upgrade /\ NewTable'
        BY <1>5, <2>1, <2>3, Columns DEF AlterRuns, NewTable
      <3> QED BY <2>1, <3>1 DEF TablesFit, Before, Completing, RowsAreRead, RunsSurviveUpgrade
    <2> QED BY <2>2, <2>3
  <1>6. CASE CreateEvents
    <2>1. /\ upgrade = "events" /\ upgrade' = "alterEvents"
          /\ eventsTable' = IF eventsTable.there THEN eventsTable ELSE AllEvents
          /\ UNCHANGED <<runsTable, runRows, eventRows, readRows, hadRuns, cut>>
          /\ runsTable = AllColumns /\ NewTable /\ runRows = eventRows
      BY <1>6, Columns DEF CreateEvents, TablesFit, OldTable, Dropped, NewTable, Before, Completing, AllEvents
    <2>2. eventsTable'.there /\ eventsTable' \in [there : {TRUE}, columns : SUBSET EventColumns]
      BY <2>1, Columns DEF TablesFit
    <2> QED BY <2>1, <2>2 DEF TablesFit, NewTable, Before, Completing, RowsAreRead, RunsSurviveUpgrade
  <1>7. CASE AlterEvents
    <2> DEFINE missing == EventColumns \ eventsTable.columns
    <2>1. /\ upgrade = "alterEvents"
          /\ UNCHANGED <<runsTable, runRows, eventRows, readRows, hadRuns, cut>>
          /\ runsTable = AllColumns /\ NewTable /\ runRows = eventRows
      BY <1>7, Columns DEF AlterEvents, TablesFit, OldTable, Dropped, NewTable, Before, Completing
    <2>2. eventsTable \in [there : {TRUE}, columns : SUBSET EventColumns]
      <3>1. eventsTable.there
        BY <2>1 DEF TablesFit
      <3> QED BY <3>1, Columns DEF TablesFit
    <2>3. CASE missing = {}
      <3>1. upgrade' = "migrate" /\ eventsTable' = eventsTable
        BY <1>7, <2>3 DEF AlterEvents
      <3>2. eventsTable = AllEvents
        BY <2>2, <2>3 DEF AllEvents
      <3> QED BY <2>1, <2>2, <3>1, <3>2 DEF TablesFit, NewTable, Before, Completing, RowsAreRead, RunsSurviveUpgrade
    <2>4. CASE missing # {}
      <3>1. upgrade' = upgrade /\ \E c \in EventColumns : eventsTable' = [eventsTable EXCEPT !.columns = @ \cup {c}]
        BY <1>7, <2>4 DEF AlterEvents, EventColumns
      <3>2. eventsTable' \in [there : {TRUE}, columns : SUBSET EventColumns] /\ eventsTable'.there
        BY <2>2, <3>1
      <3> QED BY <2>1, <3>1, <3>2 DEF TablesFit, NewTable, Before, Completing, RowsAreRead, RunsSurviveUpgrade
    <2> QED BY <2>3, <2>4
  <1>8. CASE Migrate
    <2>1. /\ upgrade = "migrate" /\ upgrade' = "ready" /\ readRows' = {}
          /\ runRows' = runRows \cup (readRows \ DamagedRuns)
          /\ eventRows' = eventRows \cup (readRows \ DamagedRuns)
          /\ UNCHANGED <<runsTable, eventsTable, hadRuns, cut>>
      BY <1>8 DEF Migrate, Migrated
    <2>2. NewTable /\ runRows = eventRows /\ runsTable = AllColumns /\ eventsTable = AllEvents
      BY <2>1, Columns DEF TablesFit, OldTable, Dropped, NewTable, Before, Completing
    <2>3. eventsTable.there /\ eventsTable \in [there : {TRUE}, columns : SUBSET EventColumns]
      BY <2>2 DEF AllEvents
    <2> QED BY <2>1, <2>2, <2>3 DEF TablesFit, NewTable, Before, Completing, RowsAreRead, RunsSurviveUpgrade
  <1>9. CASE Die
    <2>1. /\ cut' = (cut \/ (readRows # {} /\ upgrade # "drop"))
          /\ readRows' = {} /\ upgrade' = "read"
          /\ UNCHANGED <<runsTable, runRows, eventsTable, eventRows, hadRuns>>
      BY <1>9 DEF Die
    <2>2. TablesFit'
      BY <2>1 DEF TablesFit, OldTable, Dropped, NewTable, Before, Completing
    <2> QED BY <2>1, <2>2 DEF RowsAreRead, RunsSurviveUpgrade
  <1> QED
    BY <1>1, <1>2, <1>3, <1>4, <1>5, <1>6, <1>7, <1>8, <1>9 DEF UpgradeNext

\* UpgradeIsSafe: whatever release wrote the database and wherever starts are
\* cut off, a backend that is up has complete tables, and no readable run was
\* lost unless it died between DROP TABLE and the last commit
\* (initialize_run_store_schema, migrate_legacy_rows).
THEOREM StoreUpgradesSafely == UpgradeSpec => []UpgradeIsSafe
  <1>1. UpgradeInit => UpgradeInv
    BY UpgradeInitially
  <1>2. UpgradeInv /\ [UpgradeNext]_upgradeVars => UpgradeInv'
    BY UpgradeSteps
  <1>3. UpgradeInv => UpgradeIsSafe
    <2> SUFFICES ASSUME UpgradeInv, upgrade = "ready" PROVE StoreIsUpToDate
      BY DEF UpgradeInv, UpgradeIsSafe, StoreIsUpToDate
    <2>1. runsTable = AllColumns /\ eventsTable = AllEvents /\ runRows = eventRows
      BY Columns DEF UpgradeInv, TablesFit, OldTable, Dropped, NewTable, Completing
    <2> QED BY <2>1, Columns DEF StoreIsUpToDate, AllColumns, AllEvents
  <1> QED
    BY <1>1, <1>2, <1>3, PTL DEF UpgradeSpec

---------------------------------------------------------------------------
(* SessionSettings, for every number of callers, directories and values:   *)
(* what a change that nobody disturbs writes is what it was asked for,     *)
(* applied to the settings that all changes before it have left.           *)

Values == SettingValues \cup {NoSetting}
RowExecutors == SessionExecutors \cup {NoSetting}
RowDirs == SessionDirs \cup {NoSetting}
SettingRecords == [executor : RowExecutors, dir : RowDirs, values : [SettingKeys -> Values]]
RowRecords == [executor : RowExecutors, dir : RowDirs, json : [SettingKeys -> Values],
               columns : [LegacyKeys -> Values], latest : Nat]
Asks == [executor : RowExecutors \cup {Unset}, dir : RowDirs \cup {Unset},
         single : [LegacyKeys -> Values \cup {Unset}], all : {Unset} \cup [SettingKeys -> Values]]
Slashes == [id : {"model", "reasoning_effort", "profile_memory"}, value : Values]
ChangeRecords == [pc : {"idle", "update", "write"}, ask : Asks, slash : {Unset} \cup Slashes,
                  read : {Unset} \cup RowRecords]

SettingsTypeOK ==
    /\ row \in RowRecords /\ wanted \in SettingRecords
    /\ change \in [SettingCallers -> ChangeRecords]
    /\ \A c \in SettingCallers : change[c].pc = "write" => change[c].read \in RowRecords
    /\ latest \in Nat /\ mixed \in BOOLEAN

\* A slash command asks for one setting of the executor that it found.
AsksForSlash(c) ==
    change[c].slash # Unset =>
        /\ <<SlashExecutor(wanted), change[c].slash.id>> \in SettingKeys
        /\ change[c].ask = SlashMerged(wanted, change[c].slash.id, change[c].slash.value)

\* Whoever changes the settings alone has read what all changes before have left.
ChangesInTurn ==
    ~mixed => /\ SettingsOf(row) = wanted
              /\ \A c, d \in Busy : c = d
              /\ \A c \in Busy : /\ change[c].pc = "write" => SettingsOf(change[c].read) = wanted
                                 /\ AsksForSlash(c)

SettingsInv == SettingsTypeOK /\ ChangesInTurn /\ ReportIsKept

LEMMA Keys == LegacyKeys \subseteq SettingKeys
  BY DEF SettingKeys

\* What is read from a row, and what comes back from one that was stored.
LEMMA Loaded ==
    ASSUME NEW r \in RowRecords
    PROVE  SettingsOf(r) \in SettingRecords
  <1>1. \A k \in SettingKeys : (IF k \in LegacyKeys THEN r.columns[k] ELSE r.json[k]) \in Values
    BY DEF RowRecords
  <1>2. LoadValues(r) \in [SettingKeys -> Values]
    BY <1>1 DEF LoadValues
  <1> QED
    BY <1>2 DEF SettingsOf, SettingRecords, RowRecords

LEMMA Stored ==
    ASSUME NEW r \in RowRecords, NEW s \in SettingRecords, NEW before
    PROVE  /\ StoredRow(r, s, before) \in RowRecords
           /\ StoredRow(r, s, before).latest = r.latest
           /\ SettingsOf(StoredRow(r, s, before)) = s
           /\ \A k \in LegacyKeys : StoredRow(r, s, before).columns[k] = StoredRow(r, s, before).json[k]
  <1> DEFINE cols == [k \in LegacyKeys |-> s.values[k]]
             new == [executor |-> s.executor, dir |-> s.dir, json |-> s.values, columns |-> cols, latest |-> r.latest]
  <1>1. StoredRow(r, s, before) = new
    BY DEF StoredRow
  <1>2. /\ s.executor \in RowExecutors /\ s.dir \in RowDirs /\ s.values \in [SettingKeys -> Values]
        /\ s = [executor |-> s.executor, dir |-> s.dir, values |-> s.values]
        /\ r.latest \in Nat
    BY DEF SettingRecords, RowRecords
  <1>3. cols \in [LegacyKeys -> Values] /\ \A k \in LegacyKeys : cols[k] = s.values[k]
    BY <1>2, Keys
  <1> HIDE DEF cols
  <1>4. new \in RowRecords
    BY <1>2, <1>3 DEF RowRecords
  <1>5. LoadValues(new) = s.values
    <2>1. LoadValues(new) = [k \in SettingKeys |-> IF k \in LegacyKeys THEN cols[k] ELSE s.values[k]]
      BY DEF LoadValues
    <2>2. LoadValues(new) = [k \in SettingKeys |-> s.values[k]]
      BY <1>3, <2>1
    <2> QED BY <1>2, <2>2
  <1>6. SettingsOf(new) = s
    BY <1>2, <1>5 DEF SettingsOf
  <1> QED
    BY <1>1, <1>3, <1>4, <1>6

\* What a change makes of the settings.
LEMMA Merged ==
    ASSUME NEW s \in SettingRecords, NEW a \in Asks
    PROVE  /\ MergedSettings(s, a) \in SettingRecords
           /\ MergedSettings(s, a).executor = Given(a.executor, s.executor)
           /\ MergedSettings(s, a).dir = Given(a.dir, s.dir)
           /\ a.all # Unset => MergedSettings(s, a).values = a.all
           /\ a.all = Unset => \A k \in LegacyKeys : MergedSettings(s, a).values[k] = Given(a.single[k], s.values[k])
  <1> DEFINE ones == [k \in SettingKeys |-> IF k \in LegacyKeys THEN Given(a.single[k], s.values[k]) ELSE s.values[k]]
             values == IF a.all # Unset THEN a.all ELSE ones
  <1>1. MergedSettings(s, a) = [executor |-> Given(a.executor, s.executor), dir |-> Given(a.dir, s.dir), values |-> values]
    BY DEF MergedSettings
  <1>2. Given(a.executor, s.executor) \in RowExecutors /\ Given(a.dir, s.dir) \in RowDirs
    BY DEF Given, SettingRecords, Asks
  <1>3. /\ \A k \in SettingKeys : s.values[k] \in Values
        /\ \A k \in LegacyKeys : Given(a.single[k], s.values[k]) \in Values
    BY Keys DEF Given, SettingRecords, Asks
  <1>4. ones \in [SettingKeys -> Values] /\ \A k \in LegacyKeys : ones[k] = Given(a.single[k], s.values[k])
    BY <1>3, Keys
  <1> HIDE DEF ones
  <1>5. values \in [SettingKeys -> Values]
    BY <1>4 DEF Asks
  <1> QED
    BY <1>1, <1>2, <1>4, <1>5 DEF SettingRecords

\* A slash command changes the one setting.
LEMMA SlashAsks ==
    ASSUME NEW s \in SettingRecords, NEW id, NEW v \in Values, <<SlashExecutor(s), id>> \in SettingKeys
    PROVE  /\ SlashMerged(s, id, v) \in Asks
           /\ MergedSettings(s, SlashMerged(s, id, v)) = [s EXCEPT !.values[<<SlashExecutor(s), id>>] = v]
  <1> DEFINE key == <<SlashExecutor(s), id>>
             all == [s.values EXCEPT ![key] = v]
             none == [k \in LegacyKeys |-> Unset]
             ask == [executor |-> Unset, dir |-> Unset, single |-> none, all |-> all]
  <1>1. /\ s.executor \in RowExecutors /\ s.dir \in RowDirs /\ s.values \in [SettingKeys -> Values]
        /\ s = [executor |-> s.executor, dir |-> s.dir, values |-> s.values]
    BY DEF SettingRecords
  <1>2. all \in [SettingKeys -> Values]
    BY <1>1
  <1>3. all # Unset
    BY <1>2, SettingAssumption DEF Values
  <1>4. SlashMerged(s, id, v) = ask
    BY DEF SlashMerged, NoChange
  <1>5. none \in [LegacyKeys -> Values \cup {Unset}]
    OBVIOUS
  <1> HIDE DEF all, none
  <1>6. ask \in Asks
    BY <1>2, <1>5 DEF Asks
  <1>7. MergedSettings(s, ask) = [executor |-> s.executor, dir |-> s.dir, values |-> all]
    BY <1>3 DEF MergedSettings, Given
  <1>8. [s EXCEPT !.values[key] = v] = [executor |-> s.executor, dir |-> s.dir, values |-> all]
    BY <1>1 DEF all
  <1> QED
    BY <1>4, <1>6, <1>7, <1>8

\* What requests ask for.
LEMMA PatchTypes == Patches \subseteq Asks
  <1> DEFINE none == [k \in LegacyKeys |-> Unset]
  <1>1. /\ NoChange = [executor |-> Unset, dir |-> Unset, single |-> none, all |-> Unset]
        /\ none \in [LegacyKeys -> Values \cup {Unset}]
    BY DEF NoChange
  <1>2. \A k \in LegacyKeys, v \in Values : [none EXCEPT ![k] = v] \in [LegacyKeys -> Values \cup {Unset}]
    BY <1>1
  <1>3. \A k \in SettingKeys, v \in SettingValues : OnlySetting(k, v) \in [SettingKeys -> Values]
    BY DEF OnlySetting, Values
  <1> HIDE DEF none
  <1>4. \A e \in RowExecutors : [NoChange EXCEPT !.executor = e] \in Asks
    BY <1>1 DEF Asks
  <1>5. \A d \in RowDirs : [NoChange EXCEPT !.dir = d] \in Asks
    BY <1>1 DEF Asks
  <1>6. \A k \in LegacyKeys, v \in Values : [NoChange EXCEPT !.single[k] = v] \in Asks
    BY <1>1, <1>2 DEF Asks
  <1>7. \A k \in SettingKeys, v \in SettingValues : [NoChange EXCEPT !.all = OnlySetting(k, v)] \in Asks
    BY <1>1, <1>3 DEF Asks
  <1>8. <<"claude", "profile_memory">> \in SettingKeys
    BY DEF SettingKeys
  <1>9. \A k \in LegacyKeys, v \in SettingValues :
            [NoChange EXCEPT !.single[k] = v, !.all = OnlySetting(<<"claude", "profile_memory">>, v)] \in Asks
    BY <1>1, <1>2, <1>3, <1>8 DEF Asks, Values
  <1> DEFINE OfExecutor(e) == [NoChange EXCEPT !.executor = e]
             OfDir(d) == [NoChange EXCEPT !.dir = d]
             OfOne(k, v) == [NoChange EXCEPT !.single[k] = v]
             OfAll(k, v) == [NoChange EXCEPT !.all = OnlySetting(k, v)]
             OfBoth(k, v) == [NoChange EXCEPT !.single[k] = v, !.all = OnlySetting(<<"claude", "profile_memory">>, v)]
  <1>10. Patches = {OfExecutor(e) : e \in RowExecutors} \cup {OfDir(d) : d \in RowDirs}
                   \cup {OfOne(k, v) : k \in LegacyKeys, v \in Values}
                   \cup {OfAll(k, v) : k \in SettingKeys, v \in SettingValues}
                   \cup {OfBoth(k, v) : k \in LegacyKeys, v \in SettingValues}
    BY DEF Patches, RowExecutors, RowDirs, Values
  <1>11. /\ \A e \in RowExecutors : OfExecutor(e) \in Asks
         /\ \A d \in RowDirs : OfDir(d) \in Asks
         /\ \A k \in LegacyKeys, v \in Values : OfOne(k, v) \in Asks
         /\ \A k \in SettingKeys, v \in SettingValues : OfAll(k, v) \in Asks
         /\ \A k \in LegacyKeys, v \in SettingValues : OfBoth(k, v) \in Asks
    BY <1>4, <1>5, <1>6, <1>7, <1>9
  <1> HIDE DEF OfExecutor, OfDir, OfOne, OfAll, OfBoth
  <1> QED
    BY <1>10, <1>11

LEMMA RestingType == Resting \in ChangeRecords /\ Resting.pc = "idle" /\ Resting.slash = Unset
  <1>1. [k \in LegacyKeys |-> Unset] \in [LegacyKeys -> Values \cup {Unset}]
    OBVIOUS
  <1>2. NoChange \in Asks
    BY <1>1 DEF NoChange, Asks
  <1> QED
    BY <1>2 DEF Resting, ChangeRecords

LEMMA SettingsInitially == SettingsInit => SettingsInv
  <1> SUFFICES ASSUME SettingsInit PROVE SettingsInv
    OBVIOUS
  <1> DEFINE none == [k \in SettingKeys |-> NoSetting]
  <1>1. PICK cols \in [LegacyKeys -> Values] :
            /\ row = [executor |-> NoSetting, dir |-> NoSetting, json |-> none, columns |-> cols, latest |-> 0]
            /\ wanted = [NoSettings EXCEPT !.values = [k \in SettingKeys |-> IF k \in LegacyKeys THEN cols[k] ELSE NoSetting]]
    <2>1. PICK v \in SettingValues, old \in {{}, {<<"codex", "model">>}} :
              LET cols == [k \in LegacyKeys |-> IF k \in old THEN v ELSE NoSetting] IN
              /\ row = [executor |-> NoSetting, dir |-> NoSetting, json |-> none, columns |-> cols, latest |-> 0]
              /\ wanted = [NoSettings EXCEPT !.values = [k \in SettingKeys |-> IF k \in LegacyKeys THEN cols[k] ELSE NoSetting]]
      BY DEF SettingsInit
    <2>2. [k \in LegacyKeys |-> IF k \in old THEN v ELSE NoSetting] \in [LegacyKeys -> Values]
      BY DEF Values
    <2> QED BY <2>1, <2>2
  <1>2. /\ change = [c \in SettingCallers |-> Resting]
        /\ latest = 0 /\ mixed = FALSE
    BY DEF SettingsInit
  <1>3. none \in [SettingKeys -> Values] /\ \A k \in SettingKeys : none[k] = NoSetting
    BY DEF Values
  <1> DEFINE values == [k \in SettingKeys |-> IF k \in LegacyKeys THEN cols[k] ELSE NoSetting]
  <1>4. values \in [SettingKeys -> Values]
    BY <1>1 DEF Values
  <1>5. wanted = [executor |-> NoSetting, dir |-> NoSetting, values |-> values]
    BY <1>1 DEF NoSettings
  <1>6. SettingsOf(row) = wanted
    <2>1. LoadValues(row) = [k \in SettingKeys |-> IF k \in LegacyKeys THEN cols[k] ELSE none[k]]
      BY <1>1 DEF LoadValues
    <2>2. LoadValues(row) = values
      BY <1>3, <2>1
    <2> QED BY <1>1, <1>5, <2>2 DEF SettingsOf
  <1> HIDE DEF none, values
  <1>7. row \in RowRecords /\ wanted \in SettingRecords
    <2>1. NoSetting \in RowExecutors /\ NoSetting \in RowDirs
      BY DEF RowExecutors, RowDirs
    <2>2. row = [executor |-> NoSetting, dir |-> NoSetting, json |-> none, columns |-> cols, latest |-> 0]
      BY <1>1
    <2>3. row \in RowRecords
      BY <1>3, <2>1, <2>2 DEF RowRecords
    <2>4. wanted \in SettingRecords
      BY <1>4, <1>5, <2>1 DEF SettingRecords
    <2> QED BY <2>3, <2>4
  <1>8. Busy = {}
    BY <1>2, RestingType DEF Busy
  <1> QED
    BY <1>1, <1>2, <1>6, <1>7, <1>8, RestingType DEF SettingsInv, SettingsTypeOK, ChangesInTurn, ReportIsKept

\* What a caller's step leaves of the others.
LEMMA OtherCallers ==
    ASSUME SettingsInv, NEW c \in SettingCallers, NEW new \in ChangeRecords,
           change' = [change EXCEPT ![c] = new], new.pc = "write" => new.read \in RowRecords
    PROVE  /\ change' \in [SettingCallers -> ChangeRecords]
           /\ change'[c] = new /\ \A d \in SettingCallers \ {c} : change'[d] = change[d]
           /\ \A d \in SettingCallers : change'[d].pc = "write" => change'[d].read \in RowRecords
           /\ Busy' = (Busy \ {c}) \cup (IF new.pc = "idle" THEN {} ELSE {c})
  <1>1. /\ change' \in [SettingCallers -> ChangeRecords]
        /\ change'[c] = new /\ \A d \in SettingCallers \ {c} : change'[d] = change[d]
    BY DEF SettingsInv, SettingsTypeOK
  <1>2. Busy' = (Busy \ {c}) \cup (IF new.pc = "idle" THEN {} ELSE {c})
    BY <1>1 DEF Busy
  <1> QED
    BY <1>1, <1>2 DEF SettingsInv, SettingsTypeOK

\* A change that begins alone begins with what is wanted.
LEMMA AskKeeps ==
    ASSUME SettingsInv, NEW c \in SettingCallers, AskPatch(c) \/ AskSlash(c)
    PROVE  SettingsInv' /\ row' = row
  <1>1. PICK new \in ChangeRecords :
            /\ change' = [change EXCEPT ![c] = new]
            /\ new.pc = "update"
            /\ ~mixed => /\ new.slash # Unset =>
                              /\ <<SlashExecutor(wanted), new.slash.id>> \in SettingKeys
                              /\ new.ask = SlashMerged(wanted, new.slash.id, new.slash.value)
    <2>1. CASE AskPatch(c)
      <3>1. PICK patch \in Patches : change' = [change EXCEPT ![c] = [Resting EXCEPT !.pc = "update", !.ask = patch]]
        BY <2>1 DEF AskPatch
      <3> DEFINE new == [Resting EXCEPT !.pc = "update", !.ask = patch]
      <3>2. new \in ChangeRecords /\ new.pc = "update" /\ new.slash = Unset
        BY PatchTypes, RestingType DEF ChangeRecords
      <3> QED BY <3>1, <3>2
    <2>2. CASE AskSlash(c)
      <3>1. PICK id \in {"model", "reasoning_effort", "profile_memory"}, v \in Values :
                /\ <<SlashExecutor(SettingsOf(row)), id>> \in SettingKeys
                /\ change' = [change EXCEPT ![c] = [Resting EXCEPT !.pc = "update", !.slash = [id |-> id, value |-> v],
                                                                   !.ask = SlashMerged(SettingsOf(row), id, v)]]
        BY <2>2 DEF AskSlash, Values
      <3> DEFINE slash == [id |-> id, value |-> v]
                 ask == SlashMerged(SettingsOf(row), id, v)
                 new == [Resting EXCEPT !.pc = "update", !.slash = slash, !.ask = ask]
      <3>3. ask \in Asks
        BY <3>1, Loaded, SlashAsks DEF SettingsInv, SettingsTypeOK
      <3>4. slash \in Slashes /\ slash.id = id /\ slash.value = v
        BY DEF Slashes
      <3>5. ~mixed => SettingsOf(row) = wanted
        BY DEF SettingsInv, ChangesInTurn
      <3>6. ~mixed => ask = SlashMerged(wanted, slash.id, slash.value) /\ <<SlashExecutor(wanted), slash.id>> \in SettingKeys
        BY <3>1, <3>4, <3>5
      <3> HIDE DEF ask, slash
      <3>7. new \in ChangeRecords /\ new.pc = "update" /\ new.ask = ask /\ new.slash = slash
        BY <3>3, <3>4, RestingType DEF ChangeRecords
      <3>8. change' = [change EXCEPT ![c] = new]
        BY <3>1 DEF ask, slash
      <3> QED BY <3>6, <3>7, <3>8
    <2> QED BY <2>1, <2>2
  <1>2. /\ mixed' = (mixed \/ Busy # {})
        /\ UNCHANGED <<row, wanted, latest>>
    BY DEF AskPatch, AskSlash
  <1>3. /\ change' \in [SettingCallers -> ChangeRecords]
        /\ change'[c] = new
        /\ \A d \in SettingCallers : change'[d].pc = "write" => change'[d].read \in RowRecords
        /\ Busy' = Busy \cup {c}
    BY <1>1, OtherCallers
  <1>4. SettingsTypeOK'
    BY <1>2, <1>3 DEF SettingsInv, SettingsTypeOK
  <1>5. ChangesInTurn'
    <2> SUFFICES ASSUME ~mixed, Busy = {}
                 PROVE  /\ SettingsOf(row)' = wanted
                        /\ new.pc # "write"
                        /\ AsksForSlash(c)'
      BY <1>2, <1>3 DEF ChangesInTurn
    <2>1. SettingsOf(row) = wanted /\ SettingsOf(row)' = SettingsOf(row)
      BY <1>2 DEF SettingsInv, ChangesInTurn, SettingsOf
    <2>2. SlashExecutor(wanted)' = SlashExecutor(wanted)
      BY <1>2
    <2> QED BY <1>1, <1>2, <1>3, <2>1, <2>2 DEF AsksForSlash, SlashMerged
  <1> QED
    BY <1>2, <1>4, <1>5 DEF SettingsInv, ReportIsKept

LEMMA ReadKeeps ==
    ASSUME SettingsInv, NEW c \in SettingCallers, ReadRow(c)
    PROVE  SettingsInv' /\ row' = row
  <1> DEFINE new == [change[c] EXCEPT !.pc = "write", !.read = row]
  <1>1. /\ change[c].pc = "update" /\ change' = [change EXCEPT ![c] = new]
        /\ UNCHANGED <<row, wanted, latest, mixed>>
    BY DEF ReadRow
  <1>2. /\ new \in ChangeRecords /\ new.pc = "write" /\ new.read = row
        /\ new.slash = change[c].slash /\ new.ask = change[c].ask
        /\ c \in Busy /\ row \in RowRecords
    BY <1>1 DEF SettingsInv, SettingsTypeOK, ChangeRecords, Busy
  <1> HIDE DEF new
  <1>3. /\ change' \in [SettingCallers -> ChangeRecords]
        /\ change'[c] = new /\ \A d \in SettingCallers \ {c} : change'[d] = change[d]
        /\ \A d \in SettingCallers : change'[d].pc = "write" => change'[d].read \in RowRecords
        /\ Busy' = (Busy \ {c}) \cup {c}
    BY <1>1, <1>2, OtherCallers
  <1>4. Busy' = Busy
    BY <1>2, <1>3
  <1>5. SettingsTypeOK'
    BY <1>1, <1>3 DEF SettingsInv, SettingsTypeOK
  <1>6. ChangesInTurn'
    <2> SUFFICES ASSUME ~mixed
                 PROVE  /\ SettingsOf(row) = wanted
                        /\ \A d \in Busy : d = c
                        /\ SettingsOf(new.read) = wanted
                        /\ AsksForSlash(c)'
      BY <1>1, <1>2, <1>3, <1>4 DEF ChangesInTurn, SettingsOf
    <2>1. /\ SettingsOf(row) = wanted
          /\ \A d \in Busy : d = c
          /\ AsksForSlash(c)
      BY <1>2 DEF SettingsInv, ChangesInTurn
    <2>2. AsksForSlash(c)'
      BY <1>1, <1>2, <1>3, <2>1 DEF AsksForSlash
    <2> QED BY <1>2, <2>1, <2>2
  <1> QED
    BY <1>1, <1>5, <1>6 DEF SettingsInv, ReportIsKept

\* The write of a change: the row has what the change has made of what it read,
\* and that is what was wanted if nobody came between.
LEMMA WriteKeeps ==
    ASSUME SettingsInv, NEW c \in SettingCallers, WriteRow(c)
    PROVE  /\ SettingsInv'
           /\ SettingsOf(row') = MergedSettings(SettingsOf(change[c].read), change[c].ask)
           /\ \A k \in LegacyKeys : row'.columns[k] = row'.json[k]
           /\ \A d \in SettingCallers \ {c} : change'[d] = change[d]
  <1> DEFINE me == change[c]
             s == SettingsOf(me.read)
             merged == MergedSettings(s, me.ask)
             wish == IF me.slash = Unset THEN MergedSettings(wanted, me.ask)
                     ELSE [wanted EXCEPT !.values[<<SlashExecutor(wanted), me.slash.id>>] = me.slash.value]
  <1>1. /\ me.pc = "write" /\ row' = StoredRow(row, merged, me.read)
        /\ wanted' = IF mixed THEN wanted ELSE wish
        /\ change' = [change EXCEPT ![c] = Resting]
        /\ UNCHANGED <<latest, mixed>>
    BY DEF WriteRow
  <1>2. /\ me \in ChangeRecords /\ me.read \in RowRecords /\ c \in Busy
        /\ row \in RowRecords /\ wanted \in SettingRecords
    BY <1>1 DEF SettingsInv, SettingsTypeOK, Busy
  <1>3. me.ask \in Asks /\ (me.slash # Unset => me.slash.value \in Values)
    BY <1>2 DEF ChangeRecords, Slashes
  <1>4. s \in SettingRecords /\ merged \in SettingRecords
    BY <1>2, <1>3, Loaded, Merged
  <1>5. /\ row' \in RowRecords /\ row'.latest = row.latest /\ SettingsOf(row') = merged
        /\ \A k \in LegacyKeys : row'.columns[k] = row'.json[k]
    BY <1>1, <1>2, <1>4, Stored
  <1>6. ~mixed => wish = merged
    <2> SUFFICES ASSUME ~mixed PROVE wish = merged
      OBVIOUS
    <2>1. s = wanted /\ AsksForSlash(c)
      BY <1>1, <1>2 DEF SettingsInv, ChangesInTurn
    <2>2. CASE me.slash = Unset
      BY <2>1, <2>2
    <2>3. CASE me.slash # Unset
      BY <1>2, <1>3, <2>1, <2>3, SlashAsks DEF AsksForSlash
    <2> QED BY <2>2, <2>3
  <1> HIDE DEF me, s, merged, wish
  <1>7. /\ change' \in [SettingCallers -> ChangeRecords]
        /\ change'[c] = Resting /\ \A d \in SettingCallers \ {c} : change'[d] = change[d]
        /\ \A d \in SettingCallers : change'[d].pc = "write" => change'[d].read \in RowRecords
        /\ Busy' = Busy \ {c}
    BY <1>1, RestingType, OtherCallers
  <1>8. wanted' \in SettingRecords
    BY <1>1, <1>2, <1>4, <1>6
  <1>9. SettingsTypeOK'
    BY <1>1, <1>5, <1>7, <1>8 DEF SettingsInv, SettingsTypeOK
  <1>10. ChangesInTurn'
    <2> SUFFICES ASSUME ~mixed PROVE SettingsOf(row)' = wanted' /\ Busy' = {}
      BY <1>1 DEF ChangesInTurn
    <2>1. \A d \in Busy : d = c
      BY <1>2 DEF SettingsInv, ChangesInTurn
    <2>2. SettingsOf(row)' = SettingsOf(row')
      BY DEF SettingsOf, LoadValues
    <2> QED BY <1>1, <1>5, <1>6, <1>7, <2>1, <2>2
  <1>11. ReportIsKept'
    BY <1>1, <1>5 DEF SettingsInv, ReportIsKept
  <1> QED
    BY <1>5, <1>7, <1>9, <1>10, <1>11 DEF SettingsInv, me, s, merged

\* A run reports beside the settings.
LEMMA ReportKeeps ==
    ASSUME SettingsInv, RunReports
    PROVE  SettingsInv' /\ latest' # latest
  <1>1. latest' = latest + 1 /\ row' = [row EXCEPT !.latest = latest + 1] /\ UNCHANGED <<change, wanted, mixed>>
    BY DEF RunReports
  <1>2. row \in RowRecords /\ latest \in Nat
    BY DEF SettingsInv, SettingsTypeOK
  <1>3. /\ row' \in RowRecords /\ row'.latest = latest' /\ latest' \in Nat /\ latest' # latest
        /\ row'.executor = row.executor /\ row'.dir = row.dir
        /\ row'.columns = row.columns /\ row'.json = row.json
    BY <1>1, <1>2 DEF RowRecords
  <1>4. SettingsOf(row)' = SettingsOf(row)
    BY <1>3 DEF SettingsOf, LoadValues
  <1>5. SettingsTypeOK'
    BY <1>1, <1>3 DEF SettingsInv, SettingsTypeOK
  <1>6. ChangesInTurn'
    BY <1>1, <1>4 DEF SettingsInv, ChangesInTurn, Busy, AsksForSlash, SettingsOf
  <1> QED
    BY <1>3, <1>5, <1>6 DEF SettingsInv, ReportIsKept

LEMMA SettingsSteps ==
    ASSUME SettingsInv, [SettingsNext]_settingVars
    PROVE  SettingsInv'
  <1>1. CASE UNCHANGED settingVars
    <2>1. UNCHANGED <<row, change, wanted, latest, mixed>>
      BY <1>1 DEF settingVars
    <2>2. SettingsTypeOK' /\ ReportIsKept'
      BY <2>1 DEF SettingsInv, SettingsTypeOK, ReportIsKept
    <2>3. \A c \in SettingCallers : AsksForSlash(c) => AsksForSlash(c)'
      BY <2>1 DEF AsksForSlash
    <2>4. Busy' = Busy /\ SettingsOf(row)' = SettingsOf(row) /\ Busy \subseteq SettingCallers
      BY <2>1 DEF Busy
    <2>5. ChangesInTurn'
      BY <2>1, <2>3, <2>4 DEF SettingsInv, ChangesInTurn
    <2> QED BY <2>2, <2>5 DEF SettingsInv
  <1> QED
    BY <1>1, AskKeeps, ReadKeeps, WriteKeeps, ReportKeeps DEF SettingsNext

\* The row of a session changes by the write of a change, or by a report.
LEMMA RowSteps ==
    ASSUME SettingsInv, [SettingsNext]_settingVars, row' # row, latest' = latest
    PROVE  \A k \in LegacyKeys : row'.columns[k] = row'.json[k]
  <1>1. ~UNCHANGED settingVars
    BY DEF settingVars
  <1> QED
    BY <1>1, AskKeeps, ReadKeeps, WriteKeeps, ReportKeeps DEF SettingsNext

\* A change ends with its own write.
LEMMA EndsByWriting ==
    ASSUME SettingsInv, [SettingsNext]_settingVars, NEW c \in SettingCallers,
           change[c].pc = "write", change'[c].pc = "idle"
    PROVE  WriteRow(c)
  <1>1. ~UNCHANGED settingVars /\ ~RunReports
    BY DEF settingVars, RunReports
  <1>2. ASSUME NEW d \in SettingCallers, AskPatch(d) \/ AskSlash(d) \/ ReadRow(d)
        PROVE  FALSE
    <2>1. d # c /\ \E new : change' = [change EXCEPT ![d] = new]
      <3>1. d # c
        BY <1>2 DEF AskPatch, AskSlash, ReadRow
      <3>2. CASE AskPatch(d) BY <3>2 DEF AskPatch
      <3>3. CASE AskSlash(d) BY <3>3 DEF AskSlash
      <3>4. CASE ReadRow(d) BY <3>4 DEF ReadRow
      <3> QED BY <1>2, <3>1, <3>2, <3>3, <3>4
    <2> QED BY <2>1 DEF SettingsInv, SettingsTypeOK
  <1>3. ASSUME NEW d \in SettingCallers, WriteRow(d), d # c
        PROVE  FALSE
    BY <1>3, WriteKeeps
  <1> QED
    BY <1>1, <1>2, <1>3 DEF SettingsNext

\* What a change has written is what it asked for.
LEMMA PatchIsWritten ==
    ASSUME SettingsInv, NEW c \in SettingCallers, WriteRow(c)
    PROVE  LET ask == change[c].ask
               now == SettingsOf(row')
           IN /\ Given(ask.executor, now.executor) = now.executor
              /\ Given(ask.dir, now.dir) = now.dir
              /\ ask.all # Unset => now.values = ask.all
              /\ ask.all = Unset => \A k \in LegacyKeys : Given(ask.single[k], now.values[k]) = now.values[k]
  <1> DEFINE ask == change[c].ask
             s == SettingsOf(change[c].read)
             now == SettingsOf(row')
  <1>1. now = MergedSettings(s, ask)
    BY WriteKeeps
  <1>2. change[c].pc = "write" /\ change[c] \in ChangeRecords
    BY DEF WriteRow, SettingsInv, SettingsTypeOK
  <1>3. ask \in Asks /\ s \in SettingRecords
    BY <1>2, Loaded DEF SettingsInv, SettingsTypeOK, ChangeRecords
  <1> HIDE DEF ask, s, now
  <1>4. /\ now.executor = Given(ask.executor, s.executor) /\ now.dir = Given(ask.dir, s.dir)
        /\ ask.all # Unset => now.values = ask.all
        /\ ask.all = Unset => \A k \in LegacyKeys : now.values[k] = Given(ask.single[k], s.values[k])
    BY <1>1, <1>3, Merged
  <1>5. /\ Given(ask.executor, now.executor) = now.executor
        /\ Given(ask.dir, now.dir) = now.dir
        /\ ask.all # Unset => now.values = ask.all
        /\ ask.all = Unset => \A k \in LegacyKeys : Given(ask.single[k], now.values[k]) = now.values[k]
    BY <1>4 DEF Given
  <1> QED
    BY <1>5 DEF ask, now

\* SettingsAreKept: changes that do not overlap have the effect of one after
\* the other, reports of runs are never taken back, and whatever overlaps, each
\* change writes what it asked for, to the old columns as to the JSON
\* (update_session_context, upsert_session_context, execute_slash_command).
THEOREM SettingsStayKept == SettingsSpec => SettingsAreKept
  <1>1. SettingsInit => SettingsInv
    BY SettingsInitially
  <1>2. SettingsInv /\ [SettingsNext]_settingVars => SettingsInv'
    BY SettingsSteps
  <1>3. SettingsInv => SettingsAreAsAsked /\ ReportIsKept
    BY DEF SettingsInv, ChangesInTurn, SettingsAreAsAsked
  <1>4. SettingsInv /\ [SettingsNext]_settingVars
            => [row' # row /\ latest' = latest => \A k \in LegacyKeys : row'.columns[k] = row'.json[k]]_settingVars
    BY RowSteps
  <1>5. SettingsInv /\ [SettingsNext]_settingVars
            => [\A c \in SettingCallers : change[c].pc = "write" /\ change'[c].pc = "idle" =>
                   LET ask == change[c].ask
                       now == SettingsOf(row')
                   IN /\ Given(ask.executor, now.executor) = now.executor
                      /\ Given(ask.dir, now.dir) = now.dir
                      /\ ask.all # Unset => now.values = ask.all
                      /\ ask.all = Unset => \A k \in LegacyKeys : Given(ask.single[k], now.values[k]) = now.values[k]]_settingVars
    BY EndsByWriting, PatchIsWritten
  <1> QED
    BY <1>1, <1>2, <1>3, <1>4, <1>5, PTL DEF SettingsSpec, SettingsAreKept, ColumnsAgree, OwnPatchIsWritten

---------------------------------------------------------------------------
(* DirectoryListing, for every directory and every limit: keeping the      *)
(* smallest of what was read so far is keeping the smallest of all.        *)

Below(S, e) == {x \in S : x < e}
Lowest(S, k) == {e \in S : Cardinality(Below(S, e)) < k}

LEMMA BelowGrows ==
    ASSUME NEW S \in SUBSET Nat, IsFiniteSet(S), NEW e \in Nat
    PROVE  /\ Below(S, e) \subseteq S /\ IsFiniteSet(Below(S, e)) /\ Cardinality(Below(S, e)) \in Nat
           /\ \A x \in S : x < e => Cardinality(Below(S, x)) < Cardinality(Below(S, e))
  <1>1. Below(S, e) \subseteq S /\ \A x \in S : Below(S, x) \subseteq S
    BY DEF Below
  <1>2. IsFiniteSet(Below(S, e)) /\ Cardinality(Below(S, e)) \in Nat
    BY <1>1, FS_Subset, FS_CardinalityType
  <1>3. ASSUME NEW x \in S, x < e
        PROVE  Cardinality(Below(S, x)) < Cardinality(Below(S, e))
    <2>1. IsFiniteSet(Below(S, x)) /\ Cardinality(Below(S, x)) \in Nat
      BY <1>1, FS_Subset, FS_CardinalityType
    <2>2. x \notin Below(S, x) /\ Below(S, x) \cup {x} \subseteq Below(S, e)
      <3>1. \A z \in S : z \in Nat
        OBVIOUS
      <3>2. \A z \in S : z < x => z < e
        BY <1>3, <3>1
      <3>3. ~ (x < x)
        BY <3>1
      <3> QED BY <1>3, <3>2, <3>3 DEF Below
    <2>3. Cardinality(Below(S, x) \cup {x}) = Cardinality(Below(S, x)) + 1
      BY <2>1, <2>2, FS_AddElement
    <2>4. Cardinality(Below(S, x) \cup {x}) <= Cardinality(Below(S, e))
      BY <1>2, <2>2, FS_Subset
    <2> QED BY <1>2, <2>1, <2>3, <2>4
  <1> QED
    BY <1>1, <1>2, <1>3

\* The k lowest: no more than k, that many if something is left out, and
\* everything that is left out comes after them.
LEMMA LowestBounds ==
    ASSUME NEW S \in SUBSET Nat, IsFiniteSet(S), NEW k \in Nat
    PROVE  /\ Lowest(S, k) \subseteq S /\ IsFiniteSet(Lowest(S, k))
           /\ Cardinality(Lowest(S, k)) \in Nat /\ Cardinality(Lowest(S, k)) <= k
           /\ \A x \in Lowest(S, k), y \in S \ Lowest(S, k) : x < y
           /\ S # Lowest(S, k) => Cardinality(Lowest(S, k)) = k
  <1> DEFINE T == Lowest(S, k)
             rank(e) == Cardinality(Below(S, e))
  <1>1. T \subseteq S /\ IsFiniteSet(T) /\ Cardinality(T) \in Nat
    <2>1. T \subseteq S
      BY DEF Lowest
    <2> QED BY <2>1, FS_Subset, FS_CardinalityType
  <1>2. \A e \in S : rank(e) \in Nat /\ (e \in T <=> rank(e) < k)
    BY BelowGrows DEF Lowest
  <1>3. \A x, y \in S : x < y => rank(x) < rank(y)
    BY BelowGrows
  <1>4. \A x \in T, y \in S \ T : x < y
    <2> HIDE DEF T, rank
    <2> TAKE x \in T, y \in S \ T
    <2>1. x \in S /\ y \in S /\ x # y /\ x \in Nat /\ y \in Nat
      BY <1>1
    <2>2. ~ (y < x)
      BY <1>2, <1>3, <2>1
    <2> QED BY <2>1, <2>2
  <1>5. Cardinality(T) <= k
    <2>1. CASE T = {}
      BY <2>1, FS_EmptySet
    <2>2. CASE T # {}
      <3> DEFINE gaps == {k - rank(e) : e \in T}
      <3>1. gaps \in SUBSET Nat /\ gaps # {}
        <4> HIDE DEF T, rank
        <4>1. \A e \in T : rank(e) \in Nat /\ rank(e) < k
          BY <1>1, <1>2
        <4>2. \A e \in T : k - rank(e) \in Nat
          BY <4>1
        <4> QED BY <2>2, <4>2
      <3>2. PICK m \in T : \A y \in T : k - rank(m) <= k - rank(y)
        <4>1. PICK g \in gaps : \A h \in gaps : g <= h
          BY <3>1, LeastOf
        <4> HIDE DEF T, rank
        <4> QED BY <4>1
      <3>3. \A y \in T : y <= m
        <4> HIDE DEF rank, T
        <4> TAKE y \in T
        <4>1. /\ rank(m) \in Nat /\ rank(y) \in Nat /\ m \in Nat /\ y \in Nat
              /\ m < y => rank(m) < rank(y)
          BY <1>1, <1>2, <1>3
        <4>2. k - rank(m) <= k - rank(y)
          BY <3>2
        <4> QED BY <4>1, <4>2
      <3>4. T \subseteq Below(S, m) \cup {m}
        <4> HIDE DEF T, rank
        <4>1. \A y \in T : y \in S /\ (y = m \/ y < m)
          BY <1>1, <3>3
        <4> QED BY <4>1 DEF Below
      <3>5. /\ IsFiniteSet(Below(S, m)) /\ rank(m) \in Nat /\ rank(m) < k /\ m \notin Below(S, m)
        <4>1. m \in T /\ m \in S /\ m \in Nat
          BY <1>1
        <4>2. rank(m) \in Nat /\ rank(m) < k
          BY <1>2, <4>1
        <4>3. IsFiniteSet(Below(S, m))
          BY <4>1, BelowGrows
        <4>4. m \notin Below(S, m)
          BY <4>1 DEF Below
        <4> QED BY <4>2, <4>3, <4>4
      <3>6. /\ IsFiniteSet(Below(S, m) \cup {m})
            /\ Cardinality(Below(S, m) \cup {m}) = rank(m) + 1
        BY <3>5, FS_AddElement
      <3>7. Cardinality(T) <= Cardinality(Below(S, m) \cup {m})
        BY <3>4, <3>6, FS_Subset
      <3> HIDE DEF T, rank
      <3> QED BY <1>1, <3>5, <3>6, <3>7
    <2> QED BY <2>1, <2>2
  <1>6. ASSUME S # T PROVE Cardinality(T) = k
    <2>1. S \ T \in SUBSET Nat /\ S \ T # {}
      BY <1>1, <1>6
    <2>2. PICK m \in S \ T : \A y \in S \ T : m <= y
      BY <2>1, LeastOf
    <2>3. Below(S, m) \subseteq T
      <3> HIDE DEF T, rank
      <3>1. \A y \in S : y < m => y \in T
        BY <2>2
      <3> QED BY <3>1 DEF Below
    <2>4. rank(m) \in Nat /\ rank(m) >= k
      BY <1>2, <2>2
    <2>5. rank(m) <= Cardinality(T)
      BY <1>1, <2>3, FS_Subset
    <2> HIDE DEF T, rank
    <2> QED BY <1>1, <1>5, <2>4, <2>5
  <1> QED
    BY <1>1, <1>4, <1>5, <1>6

\* What was left out before cannot come in again.
LEMMA LowestOfMore ==
    ASSUME NEW S \in SUBSET Nat, IsFiniteSet(S), NEW k \in Nat, NEW e \in Nat
    PROVE  Lowest(Lowest(S, k) \cup {e}, k) = Lowest(S \cup {e}, k)
  <1> DEFINE T == Lowest(S, k)
             A == T \cup {e}
             B == S \cup {e}
  <1>1. /\ T \subseteq S /\ IsFiniteSet(T) /\ Cardinality(T) <= k
        /\ \A x \in T, y \in S \ T : x < y
        /\ S # T => Cardinality(T) = k
    BY LowestBounds
  <1>2. \A y \in S \ T : Cardinality(Below(S, y)) >= k
    BY BelowGrows DEF Lowest
  <1> HIDE DEF T
  <1>3. /\ A \subseteq B /\ A \in SUBSET Nat /\ B \in SUBSET Nat
        /\ IsFiniteSet(A) /\ IsFiniteSet(B)
    BY <1>1, FS_AddElement
  <1>4. \A y \in Nat : /\ Below(A, y) \subseteq Below(B, y) /\ Below(S, y) \subseteq Below(B, y)
                       /\ IsFiniteSet(Below(A, y)) /\ Cardinality(Below(A, y)) \in Nat
                       /\ IsFiniteSet(Below(B, y)) /\ Cardinality(Below(B, y)) \in Nat
                       /\ Cardinality(Below(S, y)) \in Nat
    <2>1. \A y \in Nat : Below(A, y) \subseteq Below(B, y) /\ Below(S, y) \subseteq Below(B, y)
      BY <1>3 DEF Below
    <2> QED BY <1>3, <2>1, BelowGrows
  <1>5. \A y \in Nat : /\ Cardinality(Below(A, y)) <= Cardinality(Below(B, y))
                       /\ Cardinality(Below(S, y)) <= Cardinality(Below(B, y))
    BY <1>4, FS_Subset
  <1>6. ASSUME NEW y \in Lowest(B, k) PROVE y \in Lowest(A, k)
    <2>1. y \in B /\ y \in Nat /\ Cardinality(Below(B, y)) < k
      BY <1>3 DEF Lowest
    <2>2. y \in A
      <3> SUFFICES ASSUME y \in S \ T PROVE FALSE
        BY <2>1
      <3> DEFINE s == Cardinality(Below(S, y))
                 b == Cardinality(Below(B, y))
      <3>1. s >= k /\ s <= b /\ b < k /\ s \in Nat /\ b \in Nat
        BY <1>2, <1>4, <1>5, <2>1
      <3> HIDE DEF s, b
      <3> QED BY <3>1
    <2>3. Cardinality(Below(A, y)) < k
      <3> DEFINE a == Cardinality(Below(A, y))
                 b == Cardinality(Below(B, y))
      <3>1. a <= b /\ b < k /\ a \in Nat /\ b \in Nat
        BY <1>4, <1>5, <2>1
      <3> HIDE DEF a, b
      <3>2. a < k
        BY <3>1
      <3> QED BY <3>2 DEF a
    <2> QED BY <2>2, <2>3 DEF Lowest
  <1>7. ASSUME NEW y \in Lowest(A, k) PROVE y \in Lowest(B, k)
    <2>1. y \in A /\ y \in B /\ y \in Nat /\ Cardinality(Below(A, y)) < k
      BY <1>3 DEF Lowest
    <2>2. CASE \E x \in S \ T : x < y
      <3>1. PICK x \in S \ T : x < y
        BY <2>2
      <3>2. T \subseteq Below(A, y)
        BY <1>1, <1>3, <2>1, <3>1 DEF Below
      <3> DEFINE a == Cardinality(Below(A, y))
      <3>3. Cardinality(T) <= a /\ a < k /\ a \in Nat
        BY <1>4, <2>1, <3>2, FS_Subset
      <3>4. Cardinality(T) = k
        BY <1>1, <3>1
      <3> HIDE DEF a
      <3>5. FALSE
        BY <3>3, <3>4
      <3> QED BY <3>5
    <2>3. CASE ~ \E x \in S \ T : x < y
      <3>1. Below(B, y) = Below(A, y)
        BY <1>3, <2>3 DEF Below
      <3> QED BY <2>1, <3>1 DEF Lowest
    <2> QED BY <2>2, <2>3
  <1> QED
    BY <1>6, <1>7 DEF T

\* The lowest of the lowest are the same.
LEMMA LowestTwice ==
    ASSUME NEW S \in SUBSET Nat, IsFiniteSet(S), NEW k \in Nat
    PROVE  Lowest(Lowest(S, k), k) = Lowest(S, k)
  <1> DEFINE T == Lowest(S, k)
  <1>1. T \subseteq S /\ IsFiniteSet(T) /\ Cardinality(T) <= k /\ T \in SUBSET Nat
    BY LowestBounds
  <1> HIDE DEF T
  <1>2. /\ Lowest(T, k) \subseteq T
        /\ T # Lowest(T, k) => Cardinality(Lowest(T, k)) = k
        /\ Cardinality(Lowest(T, k)) <= Cardinality(T)
        /\ Cardinality(T) = Cardinality(Lowest(T, k)) => T = Lowest(T, k)
        /\ Cardinality(T) \in Nat
    BY <1>1, LowestBounds, FS_Subset, FS_CardinalityType
  <1>3. T = Lowest(T, k)
    BY <1>1, <1>2
  <1> QED
    BY <1>3 DEF T

\* What is kept of a listing under way, and what of the directory it has still
\* to come to.
Scans == [step : {"scan"}, left : SUBSET Entries, kept : SUBSET Entries, read : SUBSET Entries]
ScanKeeps ==
    /\ present \subseteq Entries
    /\ listing \in {NotListing} \cup Scans
    /\ listing.step = "scan" =>
          /\ IsFiniteSet(listing.read)
          /\ listing.kept = Lowest(listing.read \ {Uploads}, MaxEntries + 1)
          /\ stayed \subseteq listing.left \cup listing.read

CreatorSteps == {"idle", "look", "make", "refused", "found", "denied", "created"}
MadeInv ==
    /\ made \in {"none", "file", "directory"}
    /\ creators \in [Creators -> CreatorSteps]
    /\ ToldIsThere

LEMMA Scanning ==
    ASSUME ScanKeeps, listing.step = "scan"
    PROVE  /\ listing \in Scans /\ listing.left \subseteq Entries /\ listing.read \subseteq Entries
           /\ listing.kept \subseteq Entries
  BY DEF ScanKeeps, NotListing, Scans

LEMMA ListingInitially == ListingInit => ScanKeeps /\ MadeInv
  <1> SUFFICES ASSUME ListingInit PROVE ScanKeeps /\ MadeInv
    OBVIOUS
  <1>1. ScanKeeps
    <2>1. present \subseteq Entries /\ listing = NotListing
      BY ListingAssumption DEF ListingInit
    <2>2. NotListing.step = "none"
      BY DEF NotListing
    <2> QED BY <2>1, <2>2 DEF ScanKeeps
  <1>2. MadeInv
    BY DEF ListingInit, MadeInv, CreatorSteps, ToldIsThere
  <1> QED
    BY <1>1, <1>2

\* An entry that comes or goes during a listing.
LEMMA EntriesKeep ==
    ASSUME ScanKeeps, EntryComes \/ EntryGoes
    PROVE  ScanKeeps'
  <1>1. PICK e \in Entries :
            /\ present' \subseteq Entries /\ stayed' \subseteq stayed
            /\ \/ UNCHANGED listing
               \/ /\ listing.step = "scan"
                  /\ \/ listing' = [listing EXCEPT !.left = @ \cup {e}]
                     \/ listing' = [listing EXCEPT !.left = @ \ {e}] /\ e \notin stayed'
    <2>1. CASE EntryComes
      BY <2>1 DEF EntryComes, ScanKeeps
    <2>2. CASE EntryGoes
      BY <2>2 DEF EntryGoes, ScanKeeps
    <2> QED BY <2>1, <2>2
  <1>2. CASE UNCHANGED listing
    BY <1>1, <1>2 DEF ScanKeeps
  <1>3. CASE listing.step = "scan" /\ listing' = [listing EXCEPT !.left = @ \cup {e}]
    <2>1. listing' \in Scans /\ listing'.left = listing.left \cup {e}
          /\ listing'.read = listing.read /\ listing'.kept = listing.kept
      BY <1>3, Scanning DEF Scans
    <2> QED BY <1>1, <1>3, <2>1 DEF ScanKeeps
  <1>4. CASE listing.step = "scan" /\ listing' = [listing EXCEPT !.left = @ \ {e}] /\ e \notin stayed'
    <2>1. listing' \in Scans /\ listing'.left = listing.left \ {e}
          /\ listing'.read = listing.read /\ listing'.kept = listing.kept
      BY <1>4, Scanning DEF Scans
    <2> QED BY <1>1, <1>4, <2>1 DEF ScanKeeps
  <1> QED
    BY <1>1, <1>2, <1>3, <1>4

LEMMA ListBeginsKeeps ==
    ASSUME ScanKeeps, ListBegins
    PROVE  ScanKeeps'
  <1>1. /\ listing' = [step |-> "scan", left |-> present, kept |-> {}, read |-> {}]
        /\ stayed' = present /\ present' = present
    BY DEF ListBegins
  <1>2. Lowest({} \ {Uploads}, MaxEntries + 1) = {} /\ IsFiniteSet({})
    BY FS_EmptySet DEF Lowest
  <1> QED
    BY <1>1, <1>2 DEF ScanKeeps, Scans

\* What is read next finds its place among what is kept, or is left out for good.
LEMMA ReadEntryKeeps ==
    ASSUME ScanKeeps, ReadEntry
    PROVE  ScanKeeps'
  <1>1. PICK e \in listing.left :
            /\ listing' = [step |-> "scan", left |-> listing.left \ {e}, read |-> listing.read \cup {e},
                           kept |-> Smallest(Sortable(e, listing.kept))]
            /\ listing.step = "scan" /\ UNCHANGED <<present, stayed>>
    BY DEF ReadEntry
  <1> DEFINE k == MaxEntries + 1
             S == listing.read \ {Uploads}
             T == (listing.read \cup {e}) \ {Uploads}
  <1>2. /\ listing.left \subseteq Entries /\ listing.read \subseteq Entries /\ listing.kept \subseteq Entries
        /\ k \in Nat
    BY <1>1, Scanning, ListingAssumption
  <1>3. /\ IsFiniteSet(listing.read) /\ listing.kept = Lowest(S, k)
        /\ stayed \subseteq listing.left \cup listing.read
    BY <1>1 DEF ScanKeeps
  <1>4. S \in SUBSET Nat /\ IsFiniteSet(S) /\ e \in Nat /\ e \in Entries
    BY <1>2, <1>3, FS_RemoveElement, ListingAssumption
  <1>5. IsFiniteSet(listing.read \cup {e})
    BY <1>3, FS_AddElement
  <1>6. \A X : Smallest(X) = Lowest(X, k)
    BY DEF Smallest, Lowest, Below
  <1>7. Smallest(Sortable(e, listing.kept)) = Lowest(T, k)
    <2>1. CASE e = Uploads
      <3>1. T = S /\ Sortable(e, listing.kept) = Lowest(S, k)
        BY <1>3, <2>1 DEF Sortable
      <3>2. Lowest(Lowest(S, k), k) = Lowest(S, k)
        BY <1>2, <1>4, LowestTwice
      <3> QED BY <1>6, <3>1, <3>2
    <2>2. CASE e # Uploads
      <3>1. T = S \cup {e} /\ Sortable(e, listing.kept) = Lowest(S, k) \cup {e}
        BY <1>3, <2>2 DEF Sortable
      <3>2. Lowest(Lowest(S, k) \cup {e}, k) = Lowest(S \cup {e}, k)
        BY <1>2, <1>4, LowestOfMore
      <3> QED BY <1>6, <3>1, <3>2
    <2> QED BY <2>1, <2>2
  <1> HIDE DEF k
  <1>8. /\ listing'.step = "scan" /\ listing'.left = listing.left \ {e} /\ listing'.read = listing.read \cup {e}
        /\ listing'.kept = Lowest(listing'.read \ {Uploads}, k)
    BY <1>1, <1>7
  <1>9. listing'.kept \subseteq Entries
    <2>1. listing'.kept \subseteq listing'.read
      BY <1>8 DEF Lowest
    <2> QED BY <1>2, <1>4, <1>8, <2>1
  <1>10. listing' \in Scans
    BY <1>1, <1>2, <1>4, <1>8, <1>9 DEF Scans
  <1>11. stayed' \subseteq listing'.left \cup listing'.read
    BY <1>1, <1>3, <1>8
  <1> QED
    BY <1>1, <1>5, <1>8, <1>10, <1>11 DEF ScanKeeps, k

LEMMA ListEndsKeeps ==
    ASSUME ScanKeeps, ListEnds
    PROVE  ScanKeeps'
  <1>1. listing' = NotListing /\ present' = present /\ NotListing.step = "none"
    BY DEF ListEnds, NotListing
  <1> QED
    BY <1>1 DEF ScanKeeps

LEMMA MakingKeeps ==
    ASSUME MadeInv, MakingNext
    PROVE  MadeInv'
  <1>1. CASE AgentTakesName
    BY <1>1 DEF AgentTakesName, MadeInv, ToldIsThere
  <1>2. ASSUME NEW c \in Creators, LooksForFile(c) \/ LooksForAnything(c) \/ MakesDirectory(c)
        PROVE  MadeInv'
    <2>1. PICK step \in CreatorSteps :
              /\ creators' = [creators EXCEPT ![c] = step]
              /\ made' \in {made, "directory"} /\ (made # "none" => made' = made)
              /\ step = "created" => made' = "directory"
              /\ step = "found" => made # "none"
      BY <1>2 DEF LooksForFile, LooksForAnything, MakesDirectory, CreatorSteps, MadeInv
    <2>2. /\ creators' \in [Creators -> CreatorSteps]
          /\ \A d \in Creators : creators'[d] = IF d = c THEN step ELSE creators[d]
      BY <2>1 DEF MadeInv
    <2> QED BY <2>1, <2>2 DEF MadeInv, ToldIsThere
  <1> QED
    BY <1>1, <1>2 DEF MakingNext

LEMMA ListingSteps ==
    ASSUME ScanKeeps, MadeInv, [ListingNext \/ MakingNext]_listingVars
    PROVE  ScanKeeps' /\ MadeInv'
  <1>1. CASE UNCHANGED listingVars
    BY <1>1 DEF listingVars, ScanKeeps, MadeInv, ToldIsThere
  <1>2. CASE ListingNext
    <2>1. UNCHANGED <<made, creators>>
      BY <1>2 DEF ListingNext, EntryComes, EntryGoes, ListBegins, ReadEntry, ListEnds
    <2> QED BY <1>2, <2>1, EntriesKeep, ListBeginsKeeps, ReadEntryKeeps, ListEndsKeeps
            DEF ListingNext, MadeInv, ToldIsThere
  <1>3. CASE MakingNext
    <2>1. UNCHANGED <<present, listing, stayed>>
      BY <1>3 DEF MakingNext, AgentTakesName, LooksForFile, LooksForAnything, MakesDirectory
    <2> QED BY <1>3, <2>1, MakingKeeps DEF ScanKeeps
  <1> QED
    BY <1>1, <1>2, <1>3

\* The end of a listing: what stayed is shown, or comes after all that is.
LEMMA ListIsHonest ==
    ASSUME ScanKeeps, ListEnds
    PROVE  /\ Uploads \notin listed'.shown
           /\ \A e \in stayed \ ({Uploads} \cup listed'.shown) :
                listed'.truncated /\ Cardinality(listed'.shown) = MaxEntries /\ \A x \in listed'.shown : x < e
           /\ listed'.truncated => \E e \in listed'.read \ {Uploads} : e \notin listed'.shown
  <1> DEFINE kept == listing.kept
             shown == Lowest(kept, MaxEntries)
             S == listing.read \ {Uploads}
  <1>1. /\ listing.step = "scan" /\ listing.left = {}
        /\ listed' = [shown |-> shown, truncated |-> Cardinality(kept) > MaxEntries, read |-> listing.read]
    BY DEF ListEnds, Lowest, Below
  <1>2. /\ listed'.shown = shown /\ listed'.read = listing.read
        /\ listed'.truncated <=> Cardinality(kept) > MaxEntries
    BY <1>1
  <1>3. /\ IsFiniteSet(listing.read) /\ kept = Lowest(S, MaxEntries + 1)
        /\ stayed \subseteq listing.read
    BY <1>1 DEF ScanKeeps
  <1>4. S \in SUBSET Nat /\ IsFiniteSet(S) /\ MaxEntries \in Nat /\ MaxEntries + 1 \in Nat
    <2>1. listing.read \subseteq Nat
      BY <1>1, Scanning, ListingAssumption
    <2>2. IsFiniteSet(S)
      BY <1>3, FS_RemoveElement
    <2> QED BY <2>1, <2>2, ListingAssumption
  <1> HIDE DEF S, kept
  <1>5. /\ kept \subseteq S /\ IsFiniteSet(kept)
        /\ Cardinality(kept) \in Nat
        /\ \A x \in kept, y \in S \ kept : x < y
        /\ S # kept => Cardinality(kept) = MaxEntries + 1
    BY <1>3, <1>4, LowestBounds
  <1>6. /\ shown \subseteq kept /\ IsFiniteSet(shown)
        /\ Cardinality(shown) \in Nat /\ Cardinality(shown) <= MaxEntries
        /\ \A x \in shown, y \in kept \ shown : x < y
        /\ kept # shown => Cardinality(shown) = MaxEntries
    BY <1>4, <1>5, LowestBounds
  <1> HIDE DEF shown
  <1>7. kept # shown => Cardinality(kept) > MaxEntries
    <2> SUFFICES ASSUME kept # shown PROVE Cardinality(kept) > MaxEntries
      OBVIOUS
    <2>1. Cardinality(shown) = MaxEntries /\ Cardinality(kept) # Cardinality(shown) /\ Cardinality(shown) <= Cardinality(kept)
      BY <1>5, <1>6, FS_Subset
    <2> QED BY <1>4, <1>5, <2>1
  <1>8. Cardinality(kept) > MaxEntries => kept # shown
    BY <1>4, <1>6
  <1>9. ASSUME NEW e \in stayed \ ({Uploads} \cup shown)
        PROVE  Cardinality(kept) > MaxEntries /\ Cardinality(shown) = MaxEntries /\ \A x \in shown : x < e
    <2>1. e \in S
      BY <1>3, <1>9 DEF S
    <2>2. CASE e \in kept
      BY <1>6, <1>7, <1>9, <2>2
    <2>3. CASE e \notin kept
      <3>1. Cardinality(kept) = MaxEntries + 1
        BY <1>5, <2>1, <2>3
      <3>2. Cardinality(kept) > MaxEntries
        BY <1>4, <3>1
      <3> QED BY <1>5, <1>6, <1>8, <2>1, <2>3, <3>2
    <2> QED BY <2>2, <2>3
  <1> QED
    BY <1>2, <1>5, <1>6, <1>8, <1>9 DEF S

\* DirectoryIsAsTold: a listing shows what stayed in the directory, or says
\* that it is cut after what it shows; and who is told that a directory was made
\* can use it (list_directory, create_directory).
THEOREM DirectoryIsListed == ListingSpec => DirectoryIsAsTold
  <1>1. ListingInit => ScanKeeps /\ MadeInv
    BY ListingInitially
  <1>2. ScanKeeps /\ MadeInv /\ [ListingNext \/ MakingNext]_listingVars => (ScanKeeps /\ MadeInv)'
    BY ListingSteps
  <1>3. MadeInv => ToldIsThere
    BY DEF MadeInv
  <1>4. ScanKeeps => [ListEnds =>
            /\ Uploads \notin listed'.shown
            /\ \A e \in stayed \ ({Uploads} \cup listed'.shown) :
                 listed'.truncated /\ Cardinality(listed'.shown) = MaxEntries /\ \A x \in listed'.shown : x < e
            /\ listed'.truncated => \E e \in listed'.read \ {Uploads} : e \notin listed'.shown]_listingVars
    BY ListIsHonest
  <1> QED
    BY <1>1, <1>2, <1>3, <1>4, PTL DEF ListingSpec, DirectoryIsAsTold, ListingIsHonest

---------------------------------------------------------------------------
(* FilePreview, for files and pages of every size: a phone that follows    *)
(* the next offsets moves on, and is told the end where the file ends.     *)
(* Both need to be known that a file that was not rewritten is never       *)
(* shorter than it was when a request looked at its size, and never ends   *)
(* before the place where the phone goes on.                               *)

Bytes == {"a", "h", "t"}
PageRequest == [step : {"page"}, limit : Nat, query : BOOLEAN, size : Nat]
PageFound == [step : {"search"}, limit : Nat, query : BOOLEAN, size : Nat, page : Seq(Bytes), more : BOOLEAN]

PreviewTypeOK ==
    /\ bytes \in Seq(Bytes)
    /\ rewritten \in BOOLEAN
    /\ offset \in Nat
    /\ asked \in {NotAsked} \cup PageRequest \cup PageFound

FileReaches ==
    ~rewritten => /\ offset <= Len(bytes)
                  /\ asked.step = "page" => asked.size <= Len(bytes)
                  /\ asked.step = "search" => offset + Len(asked.page) <= Len(bytes)

PreviewInv == PreviewTypeOK /\ FileReaches

---------------------------------------------------------------------------
\* A slice is as long as it was asked for, or up to the end.
LEMMA SliceLength ==
    ASSUME NEW S, NEW data \in Seq(S), NEW from \in Nat, NEW length \in Nat
    PROVE  /\ Slice(data, from, length) \in Seq(S)
           /\ from > Len(data) => Len(Slice(data, from, length)) = 0
           /\ from <= Len(data) => Len(Slice(data, from, length)) = Smaller(length, Len(data) - from)
  <1> DEFINE end == Smaller(from + length, Len(data))
  <1>1. end \in Nat /\ end <= Len(data)
    BY DEF Smaller
  <1>2. \A i \in (from + 1) .. end : data[i] \in S
    BY <1>1
  <1>3. SubSeq(data, from + 1, end) \in Seq(S)
    BY <1>1, <1>2
  <1>4. Len(SubSeq(data, from + 1, end)) = IF from + 1 <= end THEN end - from ELSE 0
    BY <1>1
  <1> QED
    BY <1>1, <1>3, <1>4 DEF Slice, Smaller

\* The length of a page, and that of what is read to see whether more follows.
LEMMA PageLength ==
    ASSUME PreviewTypeOK, NEW bound \in Nat
    PROVE  LET data == Slice(bytes, offset, bound + 1)
               page == Slice(data, 0, bound)
           IN /\ data \in Seq(Bytes) /\ page \in Seq(Bytes)
              /\ offset <= Len(bytes) => Len(data) = Smaller(bound + 1, Len(bytes) - offset)
              /\ Len(page) = Smaller(bound, Len(data))
  <1>1. bytes \in Seq(Bytes) /\ offset \in Nat /\ bound + 1 \in Nat /\ Len(bytes) \in Nat
    BY DEF PreviewTypeOK
  <1> DEFINE data == Slice(bytes, offset, bound + 1)
  <1>2. data \in Seq(Bytes)
    BY <1>1, SliceLength
  <1>3. ASSUME offset <= Len(bytes) PROVE Len(data) = Smaller(bound + 1, Len(bytes) - offset)
    BY <1>1, <1>3, SliceLength
  <1> HIDE DEF data
  <1>4. 0 \in Nat /\ 0 <= Len(data) /\ Len(data) \in Nat /\ Len(data) - 0 = Len(data)
    BY <1>2
  <1>5. Slice(data, 0, bound) \in Seq(Bytes) /\ Len(Slice(data, 0, bound)) = Smaller(bound, Len(data) - 0)
    BY <1>2, <1>4, SliceLength
  <1> QED
    BY <1>2, <1>3, <1>4, <1>5 DEF data

LEMMA PreviewInitially == PreviewInit => PreviewInv
  <1> SUFFICES ASSUME PreviewInit PROVE PreviewInv
    OBVIOUS
  <1>1. PreviewTypeOK
    <2>1. bytes \in Seq(Bytes)
      BY DEF PreviewInit
    <2>2. rewritten \in BOOLEAN /\ offset \in Nat /\ asked \in {NotAsked}
      BY DEF PreviewInit
    <2> QED
      BY <2>1, <2>2 DEF PreviewTypeOK
  <1>2. FileReaches
    BY DEF PreviewInit, FileReaches, NotAsked
  <1> QED
    BY <1>1, <1>2 DEF PreviewInv

LEMMA AppendKeeps == ASSUME PreviewInv, AgentAppends PROVE PreviewInv'
  <1>1. PICK written \in {<<"a">>, <<"h", "t">>} : bytes' = bytes \o written
    BY DEF AgentAppends
  <1>2. written \in Seq(Bytes)
    BY <1>1 DEF Bytes
  <1>3. bytes' \in Seq(Bytes) /\ Len(bytes') >= Len(bytes)
    BY <1>1, <1>2 DEF PreviewInv, PreviewTypeOK
  <1>4. PreviewTypeOK'
    BY <1>3 DEF AgentAppends, PreviewInv, PreviewTypeOK
  <1>5. FileReaches'
    BY <1>3 DEF AgentAppends, PreviewInv, PreviewTypeOK, FileReaches, NotAsked, PageRequest, PageFound
  <1> QED
    BY <1>4, <1>5 DEF PreviewInv

LEMMA InspectKeeps == ASSUME PreviewInv, Inspect PROVE PreviewInv'
  <1>1. PICK bound \in PageSizes, query \in BOOLEAN :
            asked' = [step |-> "page", limit |-> Smaller(bound, MaxPageBytes), query |-> query, size |-> Len(bytes)]
    BY DEF Inspect
  <1>2. asked' \in PageRequest
    BY <1>1, PreviewAssumption DEF PageRequest, Smaller, PreviewInv, PreviewTypeOK
  <1> QED
    BY <1>1, <1>2 DEF Inspect, PreviewInv, PreviewTypeOK, FileReaches

\* What ReadPage leaves in asked when it reads a page: of the bytes that are
\* there, up to one more than the page, it keeps a page.
LEMMA PageRead ==
    ASSUME PreviewInv, ReadPage, asked'.step = "search"
    PROVE  /\ asked \in PageRequest /\ asked' \in PageFound /\ asked'.limit = asked.limit
           /\ asked.limit = 0 => Len(asked'.page) = 0
           /\ asked.limit > 0 /\ offset <= Len(bytes) =>
                LET seen == Smaller(asked.limit + 1, Len(bytes) - offset)
                IN /\ Len(asked'.page) = Smaller(asked.limit, seen)
                   /\ asked'.more <=> seen > asked.limit \/ asked.size > offset + Len(asked'.page)
  <1>1. asked \in PageRequest
    BY DEF ReadPage, PreviewInv, PreviewTypeOK, NotAsked, PageRequest, PageFound
  <1>2. asked.limit \in Nat /\ asked.size \in Nat /\ asked.query \in BOOLEAN /\ offset \in Nat
    BY <1>1 DEF PageRequest, PreviewInv, PreviewTypeOK
  <1>3. CASE asked.limit = 0
    <2>1. asked' = [step |-> "search", query |-> asked.query, size |-> asked.size, limit |-> 0,
                    page |-> <<>>, more |-> asked.size > offset]
      BY <1>3 DEF ReadPage
    <2>2. <<>> \in Seq(Bytes) /\ Len(<<>>) = 0 /\ (asked.size > offset) \in BOOLEAN
      OBVIOUS
    <2> QED
      BY <1>1, <1>2, <1>3, <2>1, <2>2 DEF PageFound
  <1>4. CASE asked.limit > 0
    <2> DEFINE data == Slice(bytes, offset, asked.limit + 1)
               page == Slice(data, 0, asked.limit)
               more == HasMore(data, asked.limit, asked.size, offset + Len(page))
    <2>1. /\ page \in Seq(Bytes) /\ Len(page) = Smaller(asked.limit, Len(data))
          /\ offset <= Len(bytes) => Len(data) = Smaller(asked.limit + 1, Len(bytes) - offset)
      BY <1>2, PageLength DEF PreviewInv
    <2>2. asked' = [step |-> "search", query |-> asked.query, size |-> asked.size, limit |-> asked.limit,
                    page |-> page, more |-> more]
      BY <1>4 DEF ReadPage, NotAsked
    <2>3. more \in BOOLEAN /\ (more <=> Len(data) > asked.limit \/ asked.size > offset + Len(page))
      BY DEF HasMore
    <2> HIDE DEF data, page, more
    <2>4. asked' \in PageFound
      BY <1>2, <2>1, <2>2, <2>3 DEF PageFound
    <2>5. asked'.page = page /\ asked'.more = more /\ asked'.limit = asked.limit
      BY <2>2
    <2> QED
      BY <1>1, <1>4, <2>1, <2>3, <2>4, <2>5
  <1> QED
    BY <1>2, <1>3, <1>4

LEMMA PageKeeps == ASSUME PreviewInv, ReadPage PROVE PreviewInv'
  <1>1. asked' = NotAsked \/ asked'.step = "search"
    BY DEF ReadPage
  <1>2. CASE asked' = NotAsked
    BY <1>2 DEF ReadPage, NotAsked, PreviewInv, PreviewTypeOK, FileReaches
  <1>3. CASE asked'.step = "search"
    <2>1. PreviewTypeOK'
      BY <1>3, PageRead DEF ReadPage, PreviewInv, PreviewTypeOK
    <2>2. ASSUME ~rewritten PROVE offset + Len(asked'.page) <= Len(bytes)
      <3>1. CASE asked.limit = 0
        BY <1>3, <2>2, <3>1, PageRead DEF PreviewInv, PreviewTypeOK, FileReaches
      <3>2. CASE asked.limit > 0
        BY <1>3, <2>2, <3>2, PageRead DEF PageRequest, Smaller, PreviewInv, PreviewTypeOK, FileReaches
      <3> QED
        BY <1>3, <3>1, <3>2, PageRead DEF PageRequest
    <2> QED
      BY <1>3, <2>1, <2>2 DEF ReadPage, PreviewInv, FileReaches
  <1> QED
    BY <1>1, <1>2, <1>3

LEMMA AnswerKeeps == ASSUME PreviewInv, SearchAndAnswer PROVE PreviewInv'
  <1>1. asked \in PageFound /\ asked' = NotAsked /\ UNCHANGED <<bytes, rewritten>>
    BY DEF SearchAndAnswer, PreviewInv, PreviewTypeOK, NotAsked, PageRequest, PageFound
  <1>2. offset' \in {offset, offset + Len(asked.page)}
    BY DEF SearchAndAnswer, NextOffset
  <1> QED
    BY <1>1, <1>2 DEF PreviewInv, PreviewTypeOK, FileReaches, NotAsked, PageFound

\* The file reaches to where the phone goes on.
THEOREM FileReachesOffset == PreviewSpec => []PreviewInv
  <1>1. ASSUME PreviewInv, AgentRewrites \/ AgentRemoves PROVE PreviewInv'
    <2>1. CASE AgentRewrites
      <3>1. bytes' = <<>> /\ rewritten' = TRUE /\ UNCHANGED <<offset, asked>>
        BY <2>1 DEF AgentRewrites
      <3>2. PreviewTypeOK'
        BY <1>1, <3>1 DEF PreviewInv, PreviewTypeOK
      <3>3. FileReaches'
        BY <3>1 DEF FileReaches
      <3> QED
        BY <3>2, <3>3 DEF PreviewInv
    <2>2. CASE AgentRemoves
      BY <1>1, <2>2 DEF AgentRemoves, PreviewInv, PreviewTypeOK, FileReaches
    <2> QED
      BY <1>1, <2>1, <2>2
  <1>2. ASSUME PreviewInv, PreviewNext PROVE PreviewInv'
    BY <1>1, <1>2, AppendKeeps, InspectKeeps, PageKeeps, AnswerKeeps DEF PreviewNext
  <1>3. PreviewInv /\ UNCHANGED previewVars => PreviewInv'
    BY DEF previewVars, PreviewInv, PreviewTypeOK, FileReaches
  <1> QED
    BY PreviewInitially, <1>2, <1>3, PTL DEF PreviewSpec

\* Only ReadPage turns a request for a page into one that is found.
LEMMA OnlyReadFinds ==
    ASSUME PreviewInv, PreviewNext, asked.step = "page", asked'.step = "search"
    PROVE  ReadPage
  BY DEF PreviewNext, AgentAppends, AgentRewrites, AgentRemoves, Inspect, SearchAndAnswer, NotAsked

\* A page with more to come is not empty.
THEOREM PhoneMovesOn == PreviewSpec => OffsetsAdvance
  <1> DEFINE Moves == asked.step = "page" /\ asked'.step = "search" /\ ~rewritten /\ asked'.limit > 0 /\ asked'.more
                        => asked'.page # <<>>
  <1>1. ASSUME PreviewInv, PreviewNext PROVE Moves
    <2> SUFFICES ASSUME asked.step = "page", asked'.step = "search", ~rewritten, asked'.limit > 0, asked'.more
                 PROVE  Len(asked'.page) > 0
      BY DEF Moves
    <2>1. ReadPage
      BY <1>1, OnlyReadFinds
    <2> QED
      BY <1>1, <2>1, PageRead DEF PageRequest, PageFound, Smaller, PreviewInv, PreviewTypeOK, FileReaches
  <1>2. PreviewInv /\ [PreviewNext]_previewVars => [Moves]_previewVars
    BY <1>1
  <1> QED
    BY FileReachesOffset, <1>2, PTL DEF PreviewSpec, OffsetsAdvance

\* A page with nothing to come ends where the file ends.
THEOREM ToldAtTheEnd == PreviewSpec => ToldWhenRead
  <1> DEFINE Told == asked.step = "page" /\ asked'.step = "search" /\ ~rewritten /\ asked.limit > 0 /\ ~asked'.more
                       => offset + Len(asked'.page) >= Len(bytes)
  <1>1. ASSUME PreviewInv, PreviewNext PROVE Told
    <2> SUFFICES ASSUME asked.step = "page", asked'.step = "search", ~rewritten, asked.limit > 0, ~asked'.more
                 PROVE  offset + Len(asked'.page) >= Len(bytes)
      BY DEF Told
    <2>1. ReadPage
      BY <1>1, OnlyReadFinds
    <2> QED
      BY <1>1, <2>1, PageRead DEF PageRequest, PageFound, Smaller, PreviewInv, PreviewTypeOK, FileReaches
  <1>2. PreviewInv /\ [PreviewNext]_previewVars => [Told]_previewVars
    BY <1>1
  <1> QED
    BY FileReachesOffset, <1>2, PTL DEF PreviewSpec, ToldWhenRead

\* What a phone is told of the rest of a file that only grows is so.
THEOREM ToldHonestly == PreviewSpec => MoreIsHonest
  BY PhoneMovesOn, ToldAtTheEnd DEF MoreIsHonest

---------------------------------------------------------------------------
(* FilePreview, what is in the pages: until the file is rewritten, each     *)
(* page that is found is the part of the file after the offset, and the     *)
(* pages that the phone has are the characters up to there.                 *)

PhoneTypeOK ==
    /\ pages \in Seq({"a", "h", "other"}) /\ read \in Nat
    /\ torn \in BOOLEAN /\ told \in BOOLEAN
    /\ answer \in [shown : Nat, query : BOOLEAN, count : Nat]

\* who is told the end asks no more, so the phone goes on where it has read to
GoesOnWhereItRead ==
    /\ asked.step # "none" => ~told
    /\ ~told => offset = read
    /\ asked.step = "search" /\ asked.limit = 0 => Len(asked.page) = 0

PageIsThere ==
    ~rewritten => /\ read <= Len(bytes)
                  /\ asked.step = "search" => asked.page = SubSeq(bytes, offset + 1, offset + Len(asked.page))

PhoneInv == PhoneTypeOK /\ GoesOnWhereItRead /\ Whole(bytes) /\ PageIsThere /\ PagesJoinUp /\ SearchFindsWhatIsShown

\* A part of a list stays what it is when the list goes on.
LEMMA PartOfMore ==
    ASSUME NEW S, NEW s \in Seq(S), NEW t \in Seq(S), NEW a \in Nat, NEW b \in Nat, b <= Len(s)
    PROVE  SubSeq(s \o t, a + 1, b) = SubSeq(s, a + 1, b)
  <1> DEFINE u == s \o t
             n == Len(s)
  <1>1. u \in Seq(S) /\ n \in Nat /\ n <= Len(u) /\ \A i \in 1 .. n : u[i] = s[i]
    OBVIOUS
  <1> HIDE DEF u
  <1>2. \A i \in (a + 1) .. b : u[i] = s[i]
    BY <1>1
  <1>3. SubSeq(u, a + 1, b) = SubSeq(s, a + 1, b)
    BY <1>1, <1>2
  <1> QED
    BY <1>3 DEF u

\* Two parts of a list next to each other.
LEMMA PartsJoin ==
    ASSUME NEW S, NEW s \in Seq(S), NEW a \in Nat, NEW b \in Nat, a <= b, b <= Len(s)
    PROVE  /\ SubSeq(s, 1, a) \in Seq(S) /\ SubSeq(s, a + 1, b) \in Seq(S)
           /\ Len(SubSeq(s, a + 1, b)) = b - a
           /\ SubSeq(s, 1, b) = SubSeq(s, 1, a) \o SubSeq(s, a + 1, b)
  <1> DEFINE p == SubSeq(s, 1, b)
             q == SubSeq(s, 1, a)
             r == SubSeq(s, a + 1, b)
  <1>0. \A i \in 1 .. b : s[i] \in S
    OBVIOUS
  <1>1. p \in Seq(S) /\ Len(p) = b /\ \A i \in 1 .. b : p[i] = s[i]
    BY <1>0
  <1>2. q \in Seq(S) /\ Len(q) = a /\ \A i \in 1 .. a : q[i] = s[i]
    BY <1>0
  <1>3. r \in Seq(S) /\ Len(r) = b - a /\ \A i \in 1 .. (b - a) : r[i] = s[a + i]
    BY <1>0
  <1> HIDE DEF p, q, r
  <1>4. Len(p) = Len(q) + Len(r)
    BY <1>1, <1>2, <1>3
  <1>5. \A i \in 1 .. Len(q) : p[i] = q[i]
    BY <1>1, <1>2
  <1>6. \A i \in 1 .. Len(r) : p[Len(q) + i] = r[i]
    <2>1. ASSUME NEW i \in 1 .. (b - a) PROVE a + i \in 1 .. b
      OBVIOUS
    <2> QED BY <1>1, <1>2, <1>3, <2>1
  <1>7. p = q \o r
    BY <1>1, <1>2, <1>3, <1>4, <1>5, <1>6, IsJoin
  <1> QED
    BY <1>2, <1>3, <1>7 DEF p, q, r

\* A page that is read is the part of the file after the offset.
LEMMA PageIsAPart ==
    ASSUME PreviewInv, ReadPage, asked'.step = "search", ~rewritten
    PROVE  asked'.page = SubSeq(bytes, offset + 1, offset + Len(asked'.page))
  <1>1. asked \in PageRequest /\ offset \in Nat /\ bytes \in Seq(Bytes) /\ offset <= Len(bytes)
    BY PageRead DEF PreviewInv, PreviewTypeOK, FileReaches
  <1>2. asked.limit \in Nat /\ Len(bytes) \in Nat
    BY <1>1 DEF PageRequest
  <1>3. CASE asked.limit = 0
    <2>1. asked'.page = <<>>
      BY <1>3 DEF ReadPage
    <2> QED BY <1>1, <2>1
  <1>4. CASE asked.limit > 0
    <2> DEFINE l == asked.limit
               e == Smaller(offset + (l + 1), Len(bytes))
               data == SubSeq(bytes, offset + 1, e)
               f == Smaller(0 + l, Len(data))
    <2>1. asked'.page = SubSeq(data, 0 + 1, f)
      <3>1. asked'.page = Slice(Slice(bytes, offset, asked.limit + 1), 0, asked.limit)
        BY <1>4 DEF ReadPage, NotAsked
      <3> QED BY <3>1, Zenon DEF Slice
    <2>2. l \in Nat /\ e \in Nat /\ offset <= e /\ e <= Len(bytes)
      BY <1>1, <1>2 DEF Smaller
    <2>3. data \in Seq(Bytes) /\ Len(data) = e - offset /\ \A i \in 1 .. (e - offset) : data[i] = bytes[offset + i]
      <3>1. \A i \in (offset + 1) .. e : bytes[i] \in Bytes
        BY <1>1, <2>2
      <3> QED BY <1>1, <2>2, <3>1
    <2> HIDE DEF data, e, l
    <2>4. f \in Nat /\ f <= Len(data)
      BY <2>2, <2>3 DEF Smaller
    <2> HIDE DEF f
    <2>5. asked'.page \in Seq(Bytes) /\ Len(asked'.page) = f /\ \A i \in 1 .. f : asked'.page[i] = bytes[offset + i]
      <3>1. \A i \in 1 .. f : data[i] \in Bytes /\ data[i] = bytes[offset + i]
        BY <2>2, <2>3, <2>4, <1>1
      <3> QED BY <2>1, <2>3, <2>4, <3>1
    <2>6. /\ SubSeq(bytes, offset + 1, offset + f) \in Seq(Bytes) /\ Len(SubSeq(bytes, offset + 1, offset + f)) = f
          /\ \A i \in 1 .. f : SubSeq(bytes, offset + 1, offset + f)[i] = bytes[offset + i]
      <3> DEFINE z == offset + f
      <3>1. z \in Nat /\ z - offset = f /\ \A i \in (offset + 1) .. z : bytes[i] \in Bytes
        BY <1>1, <2>2, <2>3, <2>4
      <3> HIDE DEF z
      <3>2. SubSeq(bytes, offset + 1, z) \in Seq(Bytes)
        BY <1>1, <3>1
      <3>3. Len(SubSeq(bytes, offset + 1, z)) = f
        BY <1>1, <2>4, <3>1
      <3>4. \A i \in 1 .. f : SubSeq(bytes, offset + 1, z)[i] = bytes[offset + i]
        BY <1>1, <2>4, <3>1
      <3> QED BY <3>2, <3>3, <3>4 DEF z
    <2> DEFINE p == asked'.page
               q == SubSeq(bytes, offset + 1, offset + f)
    <2>7. /\ p \in Seq(Bytes) /\ Len(p) = f /\ \A i \in 1 .. f : p[i] = bytes[offset + i]
          /\ q \in Seq(Bytes) /\ Len(q) = f /\ \A i \in 1 .. f : q[i] = bytes[offset + i]
      BY <2>5, <2>6
    <2> HIDE DEF p, q
    <2>8. p = q
      BY <2>7
    <2> QED BY <2>5, <2>8 DEF p, q
  <1> QED
    BY <1>2, <1>3, <1>4

\* What is decoded is a list of characters.
LEMMA DecodedIsAList ==
    ASSUME NEW s \in Seq(Bytes)
    PROVE  /\ Characters(s) \in Seq({"a", "h"}) /\ Decoded(s) \in Seq({"a", "h", "other"})
           /\ Matching(Characters(s)) \in Nat /\ Matching(Decoded(s)) \in Nat
  <1> DEFINE c == Characters(s)
             d == Decoded(s)
  <1>1. c \in Seq(Bytes \cap {"a", "h"})
    BY OnlyIsAList DEF Characters
  <1> HIDE DEF c
  <1>2. c \in Seq({"a", "h"}) /\ c \in Seq({"a", "h", "other"})
    BY <1>1
  <1>3. d \in Seq({"a", "h", "other"})
    <2>1. <<"other">> \in Seq({"a", "h", "other"})
      OBVIOUS
    <2> QED BY <1>2, <2>1 DEF Decoded, c
  <1> HIDE DEF d
  <1>4. Len(Only(c, {"h"})) \in Nat
    <2>1. Only(c, {"h"}) \in Seq({"a", "h"} \cap {"h"})
      BY <1>2, OnlyIsAList
    <2> QED BY <2>1
  <1>5. Len(Only(d, {"h"})) \in Nat
    <2>1. Only(d, {"h"}) \in Seq({"a", "h", "other"} \cap {"h"})
      BY <1>3, OnlyIsAList
    <2> QED BY <2>1
  <1> QED
    BY <1>2, <1>3, <1>4, <1>5 DEF c, d, Matching

\* Two lists together have the matches of both.
LEMMA MatchesAdd ==
    ASSUME NEW s \in Seq(Bytes), NEW t \in Seq(Bytes)
    PROVE  Matching(Characters(s \o t)) = Matching(Characters(s)) + Matching(Characters(t))
  <1> DEFINE p == Characters(s)
             q == Characters(t)
  <1>1. Characters(s \o t) = p \o q
    BY OnlyJoined DEF Characters
  <1>2. p \in Seq({"a", "h"}) /\ q \in Seq({"a", "h"})
    BY DecodedIsAList
  <1> HIDE DEF p, q
  <1>3. Only(p \o q, {"h"}) = Only(p, {"h"}) \o Only(q, {"h"})
    BY <1>2, OnlyJoined
  <1>4. Only(p, {"h"}) \in Seq({"a", "h"} \cap {"h"}) /\ Only(q, {"h"}) \in Seq({"a", "h"} \cap {"h"})
    BY <1>2, OnlyIsAList
  <1>5. Len(Only(p \o q, {"h"})) = Len(Only(p, {"h"})) + Len(Only(q, {"h"}))
    <2> DEFINE x == Only(p, {"h"})
               y == Only(q, {"h"})
    <2>1. x \in Seq({"a", "h"} \cap {"h"}) /\ y \in Seq({"a", "h"} \cap {"h"})
      BY <1>4
    <2> HIDE DEF x, y
    <2>2. Len(x \o y) = Len(x) + Len(y)
      BY <2>1
    <2> QED BY <1>3, <2>2 DEF x, y
  <1> QED
    BY <1>1, <1>5 DEF p, q, Matching

\* A part of a file has no more matches than the file.
LEMMA PartMatches ==
    ASSUME NEW s \in Seq(Bytes), NEW a \in Nat, NEW b \in Nat, a <= b, b <= Len(s)
    PROVE  Matching(Characters(SubSeq(s, a + 1, b))) <= Matching(Characters(s))
  <1> DEFINE n == Len(s)
             q == SubSeq(s, 1, a)
             r == SubSeq(s, a + 1, b)
             p == SubSeq(s, 1, b)
             o == SubSeq(s, b + 1, n)
  <1>1. n \in Nat /\ b <= n /\ n <= Len(s)
    OBVIOUS
  <1> HIDE DEF n
  <1>2. q \in Seq(Bytes) /\ r \in Seq(Bytes) /\ p = q \o r
    BY PartsJoin
  <1>3. p \in Seq(Bytes) /\ o \in Seq(Bytes) /\ SubSeq(s, 1, n) = p \o o
    BY <1>1, PartsJoin
  <1>4. SubSeq(s, 1, n) = s
    BY DEF n
  <1> HIDE DEF p, q, r, o
  <1>5. /\ Matching(Characters(q \o r)) = Matching(Characters(q)) + Matching(Characters(r))
        /\ Matching(Characters(p \o o)) = Matching(Characters(p)) + Matching(Characters(o))
    BY <1>2, <1>3, MatchesAdd
  <1>6. /\ Matching(Characters(q)) \in Nat /\ Matching(Characters(r)) \in Nat
        /\ Matching(Characters(p)) \in Nat /\ Matching(Characters(o)) \in Nat
    BY <1>2, <1>3, DecodedIsAList
  <1>7. Matching(Characters(s)) = Matching(Characters(q)) + Matching(Characters(r)) + Matching(Characters(o))
    BY <1>2, <1>3, <1>4, <1>5
  <1> QED
    BY <1>6, <1>7 DEF r

\* The file is written by whole characters.
LEMMA WholeGrows ==
    ASSUME NEW s \in Seq(Bytes), Whole(s), NEW w \in {<<"a">>, <<"h", "t">>}
    PROVE  Whole(s \o w) /\ w \in Seq(Bytes) /\ s \o w \in Seq(Bytes) /\ s \o w # <<>>
  <1> DEFINE u == s \o w
             n == Len(s)
  <1>1. w \in Seq(Bytes) /\ Len(w) \in {1, 2} /\ w[1] # "t" /\ w[Len(w)] # "h"
    <2>1. CASE w = <<"a">>
      BY <2>1 DEF Bytes
    <2>2. CASE w = <<"h", "t">>
      <3>1. Len(w) = 2 /\ w[1] = "h" /\ w[2] = "t" /\ w \in Seq({"h", "t"})
        BY <2>2
      <3>2. w \in Seq(Bytes)
        BY <2>2 DEF Bytes
      <3> QED BY <3>1, <3>2
    <2> QED BY <2>1, <2>2
  <1>2. /\ n \in Nat /\ u \in Seq(Bytes) /\ Len(u) = n + Len(w)
        /\ \A i \in 1 .. n : u[i] = s[i]
        /\ \A i \in 1 .. Len(w) : u[n + i] = w[i]
    BY <1>1
  <1>3. u # <<>>
    BY <1>1, <1>2
  <1>4. u[Len(u)] # "h"
    <2>1. Len(w) \in 1 .. Len(w)
      BY <1>1
    <2> QED BY <1>1, <1>2, <2>1
  <1>5. u[1] # "t"
    <2>1. CASE s = <<>>
      <3>1. 1 \in 1 .. Len(w) /\ n = 0
        BY <1>1, <2>1
      <3>2. u[0 + 1] = w[1]
        BY <1>2, <3>1
      <3> QED BY <1>1, <3>2
    <2>2. CASE s # <<>>
      <3>1. 1 \in 1 .. n /\ s[1] # "t"
        BY <2>2 DEF Whole
      <3> QED BY <1>2, <3>1
    <2> QED BY <2>1, <2>2
  <1> QED
    BY <1>1, <1>2, <1>3, <1>4, <1>5 DEF Whole

LEMMA PhoneInitially == PreviewInit => PhoneInv
  <1> SUFFICES ASSUME PreviewInit PROVE PhoneInv
    OBVIOUS
  <1>1. PhoneTypeOK
    <2>1. <<>> \in Seq({"a", "h", "other"}) /\ NoAnswer \in [shown : Nat, query : BOOLEAN, count : Nat]
      BY DEF NoAnswer
    <2> QED BY <2>1 DEF PreviewInit, PhoneTypeOK
  <1>2. GoesOnWhereItRead /\ Whole(bytes) /\ SearchFindsWhatIsShown
    BY DEF PreviewInit, GoesOnWhereItRead, NotAsked, Whole, SearchFindsWhatIsShown, NoAnswer
  <1>3. PageIsThere
    BY DEF PreviewInit, PageIsThere, NotAsked
  <1>4. PagesJoinUp
    <2>1. bytes = <<>> /\ pages = <<>> /\ read = 0
      BY DEF PreviewInit
    <2>2. SubSeq(bytes, 1, read) = <<>> /\ <<>> \in Seq(Bytes) /\ Len(<<>>) = 0
      BY <2>1
    <2>3. Only(<<>>, {"a", "h"}) \in Seq(Bytes \cap {"a", "h"}) /\ Len(Only(<<>>, {"a", "h"})) <= Len(<<>>)
      BY <2>2, OnlyIsAList
    <2>4. Only(<<>>, {"a", "h"}) = <<>>
      <3> DEFINE o == Only(<<>>, {"a", "h"})
      <3>1. o \in Seq(Bytes \cap {"a", "h"}) /\ Len(o) <= 0
        BY <2>2, <2>3
      <3> HIDE DEF o
      <3>2. o = <<>>
        BY <3>1
      <3> QED BY <3>2 DEF o
    <2> QED BY <2>1, <2>2, <2>4 DEF PagesJoinUp, Characters
  <1> QED
    BY <1>1, <1>2, <1>3, <1>4 DEF PhoneInv

LEMMA AppendKeepsPhone == ASSUME PreviewInv, PhoneInv, AgentAppends PROVE PhoneInv'
  <1>1. PICK written \in {<<"a">>, <<"h", "t">>} : bytes' = bytes \o written
    BY DEF AgentAppends
  <1>2. UNCHANGED <<rewritten, asked, offset, pages, read, torn, told, answer>>
    BY DEF AgentAppends
  <1>3. bytes \in Seq(Bytes) /\ offset \in Nat
    BY DEF PreviewInv, PreviewTypeOK
  <1>4. written \in Seq(Bytes) /\ Whole(bytes')
    BY <1>1, <1>3, WholeGrows DEF PhoneInv
  <1>5. bytes' \in Seq(Bytes) /\ Len(bytes) \in Nat /\ Len(bytes') \in Nat /\ Len(bytes) <= Len(bytes')
    BY <1>1, <1>3, <1>4
  <1>6. PhoneTypeOK' /\ GoesOnWhereItRead'
    BY <1>2 DEF PhoneInv, PhoneTypeOK, GoesOnWhereItRead
  <1>7. PageIsThere'
    <2>1. ASSUME ~rewritten, asked.step = "search"
          PROVE  asked.page = SubSeq(bytes', offset + 1, offset + Len(asked.page))
      <3>1. asked \in PageFound
        BY <2>1 DEF PreviewInv, PreviewTypeOK, NotAsked, PageRequest
      <3>2. offset + Len(asked.page) \in Nat /\ offset + Len(asked.page) <= Len(bytes)
        BY <1>3, <2>1, <3>1 DEF PreviewInv, FileReaches, PageFound
      <3>3. SubSeq(bytes \o written, offset + 1, offset + Len(asked.page)) = SubSeq(bytes, offset + 1, offset + Len(asked.page))
        BY <1>3, <1>4, <3>2, PartOfMore
      <3> QED BY <1>1, <2>1, <3>3 DEF PhoneInv, PageIsThere
    <2>2. ~rewritten => read <= Len(bytes')
      BY <1>5 DEF PhoneInv, PhoneTypeOK, PageIsThere
    <2> QED BY <1>2, <2>1, <2>2 DEF PageIsThere
  <1>8. PagesJoinUp'
    <2>1. ASSUME ~rewritten PROVE SubSeq(bytes', 1, read) = SubSeq(bytes, 1, read)
      <3>1. 0 \in Nat /\ read \in Nat /\ read <= Len(bytes)
        BY <2>1 DEF PhoneInv, PhoneTypeOK, PageIsThere
      <3>2. SubSeq(bytes \o written, 0 + 1, read) = SubSeq(bytes, 0 + 1, read)
        BY <1>3, <1>4, <3>1, PartOfMore
      <3>3. SubSeq(bytes \o written, 1, read) = SubSeq(bytes, 1, read)
        <4>1. 0 + 1 = 1
          OBVIOUS
        <4> QED BY <3>2, <4>1, Zenon
      <3> QED BY <1>1, <3>3, Zenon
    <2> QED BY <1>2, <2>1 DEF PhoneInv, PagesJoinUp
  <1>9. SearchFindsWhatIsShown'
    <2>0. MaxSearchBytes \in Nat
      BY PreviewAssumption
    <2>1. Len(bytes') <= MaxSearchBytes => Len(bytes) <= MaxSearchBytes
      BY <1>5, <2>0
    <2> QED BY <1>2, <2>1 DEF PhoneInv, SearchFindsWhatIsShown
  <1> QED
    BY <1>4, <1>6, <1>7, <1>8, <1>9 DEF PhoneInv

LEMMA PageKeepsPhone == ASSUME PreviewInv, PhoneInv, ReadPage PROVE PhoneInv'
  <1>1. UNCHANGED <<there, bytes, rewritten, offset, pages, read, torn, told, answer>> /\ asked.step = "page"
    BY DEF ReadPage
  <1>2. asked' = NotAsked \/ asked'.step = "search"
    BY DEF ReadPage
  <1>3. PhoneTypeOK' /\ Whole(bytes)' /\ PagesJoinUp' /\ SearchFindsWhatIsShown'
    BY <1>1 DEF PhoneInv, PhoneTypeOK, Whole, PagesJoinUp, SearchFindsWhatIsShown
  <1>4. GoesOnWhereItRead'
    <2>1. ~told /\ offset = read
      BY <1>1 DEF PhoneInv, GoesOnWhereItRead
    <2>2. asked'.step = "search" /\ asked'.limit = 0 => Len(asked'.page) = 0
      <3>1. CASE asked'.step = "search"
        BY <3>1, PageRead
      <3> QED BY <3>1
    <2> QED BY <1>1, <2>1, <2>2 DEF GoesOnWhereItRead
  <1>5. PageIsThere'
    <2>1. ASSUME ~rewritten, asked'.step = "search"
          PROVE  asked'.page = SubSeq(bytes, offset + 1, offset + Len(asked'.page))
      BY <2>1, PageIsAPart
    <2> QED BY <1>1, <2>1 DEF PhoneInv, PageIsThere
  <1> QED
    BY <1>3, <1>4, <1>5 DEF PhoneInv

\* The pages go on with the page that is found.
LEMMA AnswerKeepsPhone == ASSUME PreviewInv, PhoneInv, SearchAndAnswer PROVE PhoneInv'
  <1>1. asked' = NotAsked /\ UNCHANGED <<there, bytes, rewritten>> /\ asked.step = "search" /\ asked \in PageFound
    BY DEF SearchAndAnswer, PreviewInv, PreviewTypeOK, NotAsked, PageRequest
  <1>2. ~told /\ offset = read /\ Whole(bytes)'
    BY <1>1 DEF PhoneInv, GoesOnWhereItRead, Whole
  <1>3. bytes \in Seq(Bytes) /\ offset \in Nat /\ Len(bytes) \in Nat
    BY DEF PreviewInv, PreviewTypeOK
  <1>4. CASE UNCHANGED <<offset, pages, read, torn, told, answer>>
    <2>1. PhoneTypeOK' /\ GoesOnWhereItRead' /\ PagesJoinUp' /\ SearchFindsWhatIsShown'
      BY <1>1, <1>2, <1>4 DEF PhoneInv, PhoneTypeOK, GoesOnWhereItRead, PagesJoinUp, SearchFindsWhatIsShown, NotAsked
    <2>2. PageIsThere'
      BY <1>1, <1>4 DEF PhoneInv, PageIsThere, NotAsked
    <2> QED BY <1>2, <2>1, <2>2 DEF PhoneInv
  <1>5. CASE ~UNCHANGED <<offset, pages, read, torn, told, answer>>
    <2> DEFINE page == asked.page
               end == offset + Len(page)
               searched == IF asked.query THEN Decoded(Slice(bytes, 0, MaxSearchBytes)) ELSE <<>>
    <2>1. /\ answer' = [shown |-> Matching(Decoded(page)), query |-> asked.query, count |-> Matching(searched)]
          /\ pages' = pages \o Decoded(page)
          /\ read' = end /\ torn' = (torn \/ ~Whole(page))
          /\ told' = (~asked.more)
          /\ offset' = IF asked.more /\ asked.limit > 0 THEN end ELSE offset
      BY <1>5 DEF SearchAndAnswer, NextOffset
    <2>2. page \in Seq(Bytes) /\ Len(page) \in Nat /\ asked.query \in BOOLEAN /\ asked.more \in BOOLEAN /\ asked.limit \in Nat
      BY <1>1 DEF PageFound
    <2>3. end \in Nat /\ offset <= end /\ Len(page) = end - offset /\ (~rewritten => end <= Len(bytes))
      BY <1>1, <1>3, <2>2 DEF PreviewInv, FileReaches
    <2>4. ~rewritten => page = SubSeq(bytes, offset + 1, end)
      BY <1>1 DEF PhoneInv, PageIsThere
    <2>5. /\ Decoded(page) \in Seq({"a", "h", "other"}) /\ Matching(Decoded(page)) \in Nat
          /\ Characters(page) \in Seq({"a", "h"})
      BY <2>2, DecodedIsAList
    <2>6. Matching(searched) \in Nat
      <3>1. <<>> \in Seq(Bytes) /\ 0 \in Nat /\ MaxSearchBytes \in Nat
        BY PreviewAssumption
      <3>2. Slice(bytes, 0, MaxSearchBytes) \in Seq(Bytes)
        BY <1>3, <3>1, SliceLength
      <3>3. Matching(Decoded(Slice(bytes, 0, MaxSearchBytes))) \in Nat
        BY <3>2, DecodedIsAList
      <3>4. Matching(<<>>) \in Nat
        <4>1. Only(<<>>, {"h"}) \in Seq(Bytes \cap {"h"})
          BY <3>1, OnlyIsAList
        <4> DEFINE o == Only(<<>>, {"h"})
        <4>2. o \in Seq(Bytes \cap {"h"})
          BY <4>1
        <4> HIDE DEF o
        <4>3. Len(o) \in Nat
          BY <4>2
        <4> QED BY <4>3 DEF Matching, o
      <3> QED BY <3>3, <3>4
    <2> HIDE DEF page, searched
    <2>7. PhoneTypeOK'
      <3>1. pages' \in Seq({"a", "h", "other"})
        BY <2>1, <2>5 DEF PhoneInv, PhoneTypeOK
      <3>2. answer' \in [shown : Nat, query : BOOLEAN, count : Nat]
        BY <2>1, <2>2, <2>5, <2>6
      <3>3. read' \in Nat /\ torn' \in BOOLEAN /\ told' \in BOOLEAN
        BY <2>1, <2>2, <2>3 DEF PhoneInv, PhoneTypeOK
      <3> QED BY <3>1, <3>2, <3>3 DEF PhoneTypeOK
    <2>8. GoesOnWhereItRead'
      <3>0. asked.limit = 0 => Len(page) = 0
        BY <1>1 DEF PhoneInv, GoesOnWhereItRead, page
      <3>1. asked.limit = 0 => end = offset
        BY <1>3, <3>0
      <3>2. ~told' => offset' = read'
        <4> HIDE DEF end
        <4>1. CASE asked.more /\ asked.limit > 0
          BY <2>1, <4>1
        <4>2. CASE ~asked.more
          BY <2>1, <4>2
        <4>3. CASE asked.limit = 0
          BY <2>1, <3>1, <4>3
        <4> QED BY <2>2, <4>1, <4>2, <4>3
      <3> QED BY <1>1, <3>2 DEF GoesOnWhereItRead, NotAsked
    <2>9. PageIsThere'
      BY <1>1, <2>1, <2>3 DEF PageIsThere, NotAsked
    <2>10. PagesJoinUp'
      <3>1. SUFFICES ASSUME ~rewritten, ~torn, Whole(page) PROVE pages \o Decoded(page) = Characters(SubSeq(bytes, 1, end))
        BY <1>1, <2>1 DEF PagesJoinUp
      <3>2. pages = Characters(SubSeq(bytes, 1, offset))
        BY <1>2, <3>1 DEF PhoneInv, PagesJoinUp
      <3>3. Decoded(page) = Characters(page)
        BY <3>1 DEF Decoded
      <3> DEFINE q == SubSeq(bytes, 1, offset)
      <3>4. end <= Len(bytes)
        BY <2>3, <3>1
      <3>5. /\ q \in Seq(Bytes) /\ SubSeq(bytes, offset + 1, end) \in Seq(Bytes)
            /\ SubSeq(bytes, 1, end) = q \o SubSeq(bytes, offset + 1, end)
        <4> HIDE DEF end
        <4> QED BY <1>3, <2>3, <3>4, PartsJoin
      <3>6. SubSeq(bytes, 1, end) = q \o page
        BY <2>4, <3>1, <3>5
      <3> HIDE DEF q, end
      <3>7. Characters(q \o page) = Characters(q) \o Characters(page)
        BY <2>2, <3>5, OnlyJoined DEF Characters
      <3> QED BY <3>2, <3>3, <3>6, <3>7 DEF q
    <2>11. SearchFindsWhatIsShown'
      <3>1. SUFFICES ASSUME ~rewritten, Whole(page), asked.query, Len(bytes) <= MaxSearchBytes
                     PROVE  Matching(Decoded(page)) <= Matching(searched)
        BY <1>1, <2>1 DEF SearchFindsWhatIsShown
      <3>2. Slice(bytes, 0, MaxSearchBytes) = bytes
        <4>1. MaxSearchBytes \in Nat
          BY PreviewAssumption
        <4>2. Smaller(0 + MaxSearchBytes, Len(bytes)) = Len(bytes)
          BY <1>3, <3>1, <4>1 DEF Smaller
        <4>3. SubSeq(bytes, 0 + 1, Len(bytes)) = bytes
          BY <1>3
        <4> QED BY <4>2, <4>3 DEF Slice
      <3>3. Decoded(page) = Characters(page) /\ searched = Characters(bytes)
        BY <1>1, <3>1, <3>2 DEF Decoded, searched, PhoneInv
      <3>4. end <= Len(bytes)
        BY <2>3, <3>1
      <3>5. Matching(Characters(SubSeq(bytes, offset + 1, end))) <= Matching(Characters(bytes))
        <4> HIDE DEF end
        <4> QED BY <1>3, <2>3, <3>4, PartMatches
      <3> QED BY <2>4, <3>1, <3>3, <3>5
    <2> QED BY <1>2, <2>7, <2>8, <2>9, <2>10, <2>11 DEF PhoneInv
  <1> QED
    BY <1>4, <1>5

\* What a phone has of a file that only grows, by pages that cut no character,
\* is the beginning of the file, and the search counts what the page shows.
THEOREM PreviewStaysFaithful == PreviewSpec => []PreviewIsFaithful
  <1>1. PhoneInv => PreviewIsFaithful
    BY DEF PhoneInv, PreviewIsFaithful
  <1>2. ASSUME PreviewInv, PhoneInv, AgentRewrites PROVE PhoneInv'
    <2>1. bytes' = <<>> /\ rewritten' = TRUE /\ UNCHANGED <<there, asked, offset, pages, read, torn, told, answer>>
      BY <1>2 DEF AgentRewrites
    <2>2. PhoneTypeOK' /\ GoesOnWhereItRead'
      BY <1>2, <2>1 DEF PhoneInv, PhoneTypeOK, GoesOnWhereItRead
    <2>3. Whole(bytes)' /\ PageIsThere' /\ PagesJoinUp' /\ SearchFindsWhatIsShown'
      BY <2>1 DEF Whole, PageIsThere, PagesJoinUp, SearchFindsWhatIsShown
    <2> QED BY <2>2, <2>3 DEF PhoneInv
  <1>3. ASSUME PhoneInv, UNCHANGED <<bytes, rewritten, asked, offset, pages, read, torn, told, answer>> PROVE PhoneInv'
    BY <1>3 DEF PhoneInv, PhoneTypeOK, GoesOnWhereItRead, Whole, PageIsThere, PagesJoinUp, SearchFindsWhatIsShown
  <1>4. ASSUME PreviewInv, PhoneInv, AgentRemoves PROVE PhoneInv'
    BY <1>3, <1>4 DEF AgentRemoves
  <1>5. ASSUME PreviewInv, PhoneInv, Inspect PROVE PhoneInv'
    <2>1. /\ asked'.step = "page" /\ ~told
          /\ UNCHANGED <<there, bytes, rewritten, offset, pages, read, torn, told, answer>>
      BY <1>5 DEF Inspect
    <2>2. PhoneTypeOK' /\ Whole(bytes)' /\ PagesJoinUp' /\ SearchFindsWhatIsShown'
      BY <1>5, <2>1 DEF PhoneInv, PhoneTypeOK, Whole, PagesJoinUp, SearchFindsWhatIsShown
    <2>3. GoesOnWhereItRead' /\ PageIsThere'
      BY <1>5, <2>1 DEF PhoneInv, GoesOnWhereItRead, PageIsThere
    <2> QED BY <2>2, <2>3 DEF PhoneInv
  <1>6. ASSUME PreviewInv, PhoneInv, PreviewNext PROVE PhoneInv'
    BY <1>2, <1>4, <1>5, <1>6, AppendKeepsPhone, PageKeepsPhone, AnswerKeepsPhone DEF PreviewNext
  <1>7. ASSUME PhoneInv, UNCHANGED previewVars PROVE PhoneInv'
    BY <1>3, <1>7 DEF previewVars
  <1>8. PreviewInv /\ PhoneInv /\ [PreviewNext]_previewVars => PhoneInv'
    BY <1>6, <1>7
  <1> QED
    BY FileReachesOffset, PhoneInitially, <1>1, <1>8, PTL DEF PreviewSpec

---------------------------------------------------------------------------
(* EventPages, for logs and pages of every size: every request finds places *)
(* of the log that are next to each other, in memory as in the table, and   *)
(* the window is an interval because each page begins where it ends.        *)

Asked == [kind : {"end", "before", "after"}, seq : Nat]
FirstFound(req, n) == IF req.kind = "after" THEN Least(req.seq + 2, n + 1) ELSE 1
LastFound(req, n) == IF req.kind = "before" THEN Least(req.seq, n) ELSE n
FirstCut(kind, a, b, n) == IF kind = "after" THEN a ELSE b - Least(n, b - a + 1) + 1
LastCut(kind, a, b, n) == IF kind = "after" THEN a + Least(n, b - a + 1) - 1 ELSE b

\* n events, the first of which is seq.
Stretch(seq, n) == [i \in 1 .. n |-> seq + i - 1]

RowsNumbered == \A i \in 1 .. Len(rows) : rows[i].row = i - 1 /\ rows[i].seq = i - 1
WindowFits ==
    window # <<>> => /\ window[1] + Len(window) <= Len(rows)
                     /\ window = Stretch(window[1], Len(window))
PageInv ==
    /\ PageTypeOK /\ RowsNumbered
    /\ inMemory => events = Stretch(0, Len(rows))
    /\ WindowFits /\ ToldTheBeginning

\* Pages of a part of a list are parts of the list.
LEMMA CutPart ==
    ASSUME NEW S, NEW s \in Seq(S), NEW a \in Nat \ {0}, NEW b \in Nat, b <= Len(s), a <= b + 1,
           NEW n \in Nat, NEW kind
    PROVE  /\ Cut(SubSeq(s, a, b), kind, n) = SubSeq(s, FirstCut(kind, a, b, n), LastCut(kind, a, b, n))
           /\ FirstCut(kind, a, b, n) \in Nat \ {0} /\ LastCut(kind, a, b, n) \in Nat
           /\ a <= FirstCut(kind, a, b, n) /\ LastCut(kind, a, b, n) <= b
           /\ FirstCut(kind, a, b, n) <= LastCut(kind, a, b, n) + 1
  <1> DEFINE t == SubSeq(s, a, b)
             m == Least(n, b - a + 1)
             f == FirstCut(kind, a, b, n)
             l == LastCut(kind, a, b, n)
  <1>1. t \in Seq(S) /\ Len(t) = b - a + 1 /\ \A i \in 1 .. Len(t) : t[i] = s[a + i - 1]
    OBVIOUS
  <1>2. m \in Nat /\ m <= b - a + 1
    BY DEF Least
  <1>3. /\ f \in Nat \ {0} /\ l \in Nat /\ a <= f /\ l <= b /\ f <= l + 1 /\ l - f + 1 = m
        /\ f - a \in Nat /\ f - a + m <= b - a + 1
        /\ kind = "after" => f = a
        /\ kind # "after" => f - a + m = b - a + 1
    BY <1>2, SMTT(60) DEF FirstCut, LastCut
  <1> HIDE DEF f, l
  <1>4. Cut(t, kind, n) = SubSeq(t, f - a + 1, f - a + m)
    <2>1. m = Least(n, Len(t))
      BY <1>1
    <2> HIDE DEF t, m
    <2>2. CASE kind = "after"
      <3>1. f - a + 1 = 1 /\ f - a + m = m
        BY <1>2, <1>3, <2>2
      <3> QED BY <2>1, <2>2, <3>1 DEF Cut, Oldest
    <2>3. CASE kind # "after"
      <3>1. f - a + 1 = Len(t) - m + 1 /\ f - a + m = Len(t)
        BY <1>1, <1>2, <1>3, <2>3
      <3> QED BY <2>1, <2>3, <3>1 DEF Cut, Newest
    <2> QED BY <2>2, <2>3
  <1> HIDE DEF t, m
  <1>5. SubSeq(t, f - a + 1, f - a + m) \in Seq(S) /\ Len(SubSeq(t, f - a + 1, f - a + m)) = m
    <2> DEFINE x == f - a + 1
               y == f - a + m
    <2>1. f \in Nat /\ a <= f /\ m \in Nat /\ f - a + m <= b - a + 1
      BY <1>2, <1>3
    <2>2. Len(t) = b - a + 1
      BY <1>1
    <2>3. x \in Nat \ {0} /\ y \in Nat /\ y <= Len(t) /\ x <= y + 1 /\ y - x + 1 = m
      BY <2>1, <2>2
    <2> HIDE DEF x, y
    <2>4. SubSeq(t, x, y) \in Seq(S) /\ Len(SubSeq(t, x, y)) = m
      BY <1>1, <2>3, PartOf
    <2> QED BY <2>4 DEF x, y
  <1>6. SubSeq(s, f, l) \in Seq(S) /\ Len(SubSeq(s, f, l)) = m
    BY <1>2, <1>3
  <1>7. ASSUME NEW i \in 1 .. m
        PROVE  SubSeq(t, f - a + 1, f - a + m)[i] = SubSeq(s, f, l)[i]
    <2>1. SubSeq(s, f, l)[i] = s[f + i - 1]
      <3>1. i \in 1 .. (l - f + 1) /\ l <= Len(s)
        BY <1>2, <1>3
      <3> QED BY <1>3, <3>1, PartOf
    <2>2. SubSeq(t, f - a + 1, f - a + m)[i] = t[f - a + i]
      <3> DEFINE x == f - a + 1
                 y == f - a + m
      <3>1. f \in Nat /\ a <= f /\ m \in Nat /\ f - a + m <= b - a + 1
        BY <1>2, <1>3
      <3>2. t \in Seq(S) /\ Len(t) = b - a + 1
        BY <1>1
      <3>3. x \in Nat \ {0} /\ y \in Nat /\ y <= Len(t) /\ x <= y + 1 /\ i \in 1 .. (y - x + 1)
        BY <3>1, <3>2
      <3>4. x + i - 1 = f - a + i
        BY <3>1
      <3> HIDE DEF x, y
      <3>5. SubSeq(t, x, y)[i] = t[x + i - 1]
        BY <3>2, <3>3, PartOf
      <3> QED BY <3>4, <3>5 DEF x, y
    <2>3. f - a + i \in 1 .. Len(t) /\ t[f - a + i] = s[a + (f - a + i) - 1]
      BY <1>1, <1>2, <1>3
    <2>4. a + (f - a + i) - 1 = f + i - 1
      BY <1>3
    <2> QED BY <2>1, <2>2, <2>3, <2>4
  <1>8. SubSeq(t, f - a + 1, f - a + m) = SubSeq(s, f, l)
    BY <1>2, <1>5, <1>6, <1>7, SameParts
  <1> QED
    BY <1>3, <1>4, <1>8 DEF t, f, l

\* The places where a log has what a request is for are next to each other.
LEMMA PlacesWanted ==
    ASSUME NEW n \in Nat, NEW req \in Asked
    PROVE  /\ {i \in 1 .. n : Wanted(req, i - 1)} = FirstFound(req, n) .. LastFound(req, n)
           /\ FirstFound(req, n) \in Nat \ {0} /\ LastFound(req, n) \in Nat
           /\ LastFound(req, n) <= n /\ FirstFound(req, n) <= LastFound(req, n) + 1
  <1>1. req.seq \in Nat
    BY DEF Asked
  <1>2. CASE req.kind = "end"
    BY <1>1, <1>2 DEF Wanted, FirstFound, LastFound
  <1>3. CASE req.kind = "before"
    BY <1>1, <1>3 DEF Wanted, FirstFound, LastFound, Least
  <1>4. CASE req.kind = "after"
    <2>1. ASSUME NEW i \in 1 .. n PROVE Wanted(req, i - 1) <=> i \in FirstFound(req, n) .. LastFound(req, n)
      BY <1>1, <1>4, <2>1 DEF Wanted, FirstFound, LastFound, Least
    <2>2. FirstFound(req, n) \in Nat \ {0} /\ LastFound(req, n) = n /\ FirstFound(req, n) <= n + 1
      BY <1>1, <1>4 DEF FirstFound, LastFound, Least
    <2> QED BY <2>1, <2>2
  <1> QED
    BY <1>2, <1>3, <1>4 DEF Asked

\* What a page of a log of n events shows: from this seq on so many events.
PageFirst(req, n, bound) == FirstCut(req.kind, FirstFound(req, n), LastFound(req, n), bound) - 1
PageEnd(req, n, bound) == LastCut(req.kind, FirstFound(req, n), LastFound(req, n), bound)
PageShown(req, n, bound) == Stretch(PageFirst(req, n, bound), PageEnd(req, n, bound) - PageFirst(req, n, bound))
WholePage(req, n, bound) == PageOf(PageShown(req, n, bound), 0, IF n = 0 THEN 0 ELSE n - 1)

LEMMA PageEnds ==
    ASSUME NEW n \in Nat, NEW req \in Asked, NEW bound \in Nat
    PROVE  /\ PageFirst(req, n, bound) \in Nat /\ PageEnd(req, n, bound) \in Nat
           /\ PageFirst(req, n, bound) <= PageEnd(req, n, bound) /\ PageEnd(req, n, bound) <= n
           /\ PageEnd(req, n, bound) - PageFirst(req, n, bound) =
                Least(bound, LastFound(req, n) - FirstFound(req, n) + 1)
  <1>1. /\ FirstFound(req, n) \in Nat \ {0} /\ LastFound(req, n) \in Nat
        /\ LastFound(req, n) <= n /\ FirstFound(req, n) <= LastFound(req, n) + 1
    BY PlacesWanted
  <1> QED
    BY <1>1 DEF PageFirst, PageEnd, FirstCut, LastCut, Least

\* Memory shows that page ..
LEMMA MemoryShows ==
    ASSUME NEW n \in Nat, NEW req \in Asked, NEW bound \in Nat
    PROVE  MemoryPage(Stretch(0, n), req, bound) = WholePage(req, n, bound)
  <1> DEFINE all == Stretch(0, n)
             a == FirstFound(req, n)
             b == LastFound(req, n)
             f == FirstCut(req.kind, a, b, bound)
             l == LastCut(req.kind, a, b, bound)
  <1>1. all \in Seq(Nat) /\ Len(all) = n /\ \A i \in 1 .. n : all[i] = i - 1
    BY DEF Stretch
  <1>2. /\ {i \in 1 .. n : Wanted(req, i - 1)} = a .. b
        /\ a \in Nat \ {0} /\ b \in Nat /\ b <= n /\ a <= b + 1
    BY PlacesWanted
  <1> HIDE DEF all, a, b
  <1>3. {i \in DOMAIN all : Wanted(req, all[i])} = a .. b
    BY <1>1, <1>2
  <1>4. Picked(all, a .. b) = SubSeq(all, a, b)
    BY <1>1, <1>2, PickedInterval
  <1>5. /\ Cut(SubSeq(all, a, b), req.kind, bound) = SubSeq(all, f, l)
        /\ f \in Nat \ {0} /\ l \in Nat /\ l <= b /\ f <= l + 1
    <2>1. all \in Seq(Nat) /\ a \in Nat \ {0} /\ b \in Nat /\ b <= Len(all) /\ a <= b + 1
      BY <1>1, <1>2
    <2> HIDE DEF f, l
    <2>2. /\ Cut(SubSeq(all, a, b), req.kind, bound) =
                SubSeq(all, FirstCut(req.kind, a, b, bound), LastCut(req.kind, a, b, bound))
          /\ FirstCut(req.kind, a, b, bound) \in Nat \ {0} /\ LastCut(req.kind, a, b, bound) \in Nat
          /\ LastCut(req.kind, a, b, bound) <= b
          /\ FirstCut(req.kind, a, b, bound) <= LastCut(req.kind, a, b, bound) + 1
      BY <2>1, CutPart
    <2> QED BY <2>2 DEF f, l
  <1> HIDE DEF f, l
  <1>6. SubSeq(all, f, l) = Stretch(f - 1, l - (f - 1))
    <2>1. /\ SubSeq(all, f, l) \in Seq(Nat) /\ Len(SubSeq(all, f, l)) = l - f + 1
          /\ \A i \in 1 .. (l - f + 1) : SubSeq(all, f, l)[i] = all[f + i - 1]
      BY <1>1, <1>2, <1>5
    <2>2. \A i \in 1 .. (l - f + 1) : all[f + i - 1] = (f - 1) + i - 1
      BY <1>1, <1>2, <1>5
    <2>3. l - (f - 1) = l - f + 1
      BY <1>5
    <2> QED BY <2>1, <2>2, <2>3, SMTT(60) DEF Stretch
  <1>7. /\ (IF all = <<>> THEN 0 ELSE all[1]) = 0
        /\ (IF all = <<>> THEN 0 ELSE all[Len(all)]) = IF n = 0 THEN 0 ELSE n - 1
    <2>1. all = <<>> <=> n = 0
      BY <1>1
    <2> QED BY <1>1, <2>1
  <1>8. PageShown(req, n, bound) = Stretch(f - 1, l - (f - 1))
    BY DEF PageShown, PageFirst, PageEnd, f, l, a, b
  <1> QED
    BY <1>3, <1>4, <1>5, <1>6, <1>7, <1>8 DEF MemoryPage, WholePage, all

\* .. and so do the rows, one of which is fetched and dropped.
LEMMA RowsShow ==
    ASSUME PageTypeOK, RowsNumbered, NEW req \in Asked, NEW bound \in Nat
    PROVE  StoredPage(rows, req, bound) = WholePage(req, Len(rows), bound)
  <1> DEFINE n == Len(rows)
             R == [row : Nat, seq : Nat]
             a == FirstFound(req, n)
             b == LastFound(req, n)
             f == FirstCut(req.kind, a, b, bound)
             l == LastCut(req.kind, a, b, bound)
             f1 == FirstCut(req.kind, a, b, bound + 1)
             l1 == LastCut(req.kind, a, b, bound + 1)
  <1>1. rows \in Seq(R) /\ n \in Nat /\ bound + 1 \in Nat
    BY DEF PageTypeOK
  <1>2. /\ {i \in 1 .. n : Wanted(req, i - 1)} = a .. b
        /\ a \in Nat \ {0} /\ b \in Nat /\ b <= n /\ a <= b + 1
    BY <1>1, PlacesWanted
  <1> HIDE DEF a, b, R
  <1>3. FoundRows(rows, req) = SubSeq(rows, a, b)
    <2>1. {i \in DOMAIN rows : Wanted(req, rows[i].row)} = a .. b
      <3>1. DOMAIN rows = 1 .. n /\ \A i \in 1 .. n : rows[i].row = i - 1
        BY <1>1 DEF RowsNumbered
      <3> QED BY <1>2, <3>1
    <2>2. Picked(rows, a .. b) = SubSeq(rows, a, b)
      BY <1>1, <1>2, PickedInterval
    <2> QED BY <2>1, <2>2 DEF FoundRows
  <1>4. /\ Cut(SubSeq(rows, a, b), req.kind, bound + 1) = SubSeq(rows, f1, l1)
        /\ f1 \in Nat \ {0} /\ l1 \in Nat /\ l1 <= b /\ f1 <= l1 + 1
    BY <1>1, <1>2, CutPart
  <1>5. /\ FirstCut(req.kind, f1, l1, bound) = f /\ LastCut(req.kind, f1, l1, bound) = l
    BY <1>1, <1>2 DEF FirstCut, LastCut, Least
  <1> HIDE DEF f, l, f1, l1
  <1>6. /\ Cut(SubSeq(rows, f1, l1), req.kind, bound) = SubSeq(rows, f, l)
        /\ f \in Nat \ {0} /\ l \in Nat /\ l <= l1 /\ f <= l + 1
    <2>1. l1 <= Len(rows)
      BY <1>1, <1>2, <1>4
    <2> DEFINE c == Cut(SubSeq(rows, f1, l1), req.kind, bound)
    <2>2. /\ c = SubSeq(rows, FirstCut(req.kind, f1, l1, bound), LastCut(req.kind, f1, l1, bound))
          /\ FirstCut(req.kind, f1, l1, bound) \in Nat \ {0} /\ LastCut(req.kind, f1, l1, bound) \in Nat
          /\ LastCut(req.kind, f1, l1, bound) <= l1
          /\ FirstCut(req.kind, f1, l1, bound) <= LastCut(req.kind, f1, l1, bound) + 1
      BY <1>1, <1>4, <2>1, CutPart, SMTT(60)
    <2> QED BY <1>5, <2>2
  <1> DEFINE shown == SubSeq(rows, f, l)
  <1>7. /\ shown \in Seq(R) /\ Len(shown) = l - (f - 1)
        /\ \A i \in 1 .. Len(shown) : shown[i] = rows[f + i - 1] /\ f + i - 1 \in 1 .. n
    <2>1. l <= n /\ l <= Len(rows)
      BY <1>1, <1>2, <1>4, <1>6
    <2>2. shown \in Seq(R) /\ Len(shown) = l - f + 1 /\ l - f + 1 = l - (f - 1)
      BY <1>1, <1>6, <2>1
    <2>3. \A i \in 1 .. (l - f + 1) : shown[i] = rows[f + i - 1] /\ f + i - 1 \in 1 .. n
      BY <1>1, <1>6, <2>1
    <2> QED BY <2>2, <2>3
  <1>8. [i \in 1 .. Len(shown) |-> shown[i].seq] = Stretch(f - 1, l - (f - 1))
    <2>1. ASSUME NEW i \in 1 .. Len(shown) PROVE shown[i].seq = (f - 1) + i - 1
      <3>1. shown[i].seq = (f + i - 1) - 1
        BY <1>7 DEF RowsNumbered
      <3> QED BY <1>6, <1>7, <3>1
    <2> QED BY <1>7, <2>1 DEF Stretch
  <1>9. /\ (IF rows = <<>> THEN 0 ELSE rows[1].row) = 0
        /\ (IF rows = <<>> THEN 0 ELSE rows[Len(rows)].row) = IF n = 0 THEN 0 ELSE n - 1
    <2>1. rows = <<>> <=> n = 0
      BY <1>1
    <2> QED BY <1>1, <2>1 DEF RowsNumbered
  <1>10. PageShown(req, n, bound) = Stretch(f - 1, l - (f - 1))
    BY DEF PageShown, PageFirst, PageEnd, f, l, a, b
  <1> QED
    BY <1>3, <1>4, <1>6, <1>8, <1>9, <1>10 DEF StoredPage, WholePage

\* What the client gets, and what it is told of the rest.
LEMMA PageGot ==
    ASSUME PageInv, NEW req \in Asked, NEW bound \in Nat
    PROVE  LET f == PageFirst(req, Len(rows), bound)
               e == PageEnd(req, Len(rows), bound)
               page == Page(req, bound)
           IN /\ page = WholePage(req, Len(rows), bound)
              /\ f \in Nat /\ e \in Nat /\ f <= e /\ e <= Len(rows)
              /\ page.events = Stretch(f, e - f)
              /\ page.has_more_before = (f < e /\ f > 0)
              /\ page.has_more_after = (f < e /\ e < Len(rows))
  <1> DEFINE n == Len(rows)
             f == PageFirst(req, n, bound)
             e == PageEnd(req, n, bound)
             shown == Stretch(f, e - f)
  <1>0. n \in Nat
    BY DEF PageInv, PageTypeOK
  <1>1. n \in Nat /\ f \in Nat /\ e \in Nat /\ f <= e /\ e <= n
    BY <1>0, PageEnds
  <1>2. Page(req, bound) = WholePage(req, n, bound)
    BY <1>1, MemoryShows, RowsShow DEF Page, PageInv
  <1>3. Page(req, bound) = PageOf(shown, 0, IF n = 0 THEN 0 ELSE n - 1)
    BY <1>2 DEF WholePage, PageShown
  <1> HIDE DEF n, f, e
  <1>4. shown \in Seq(Nat) /\ Len(shown) = e - f /\ \A i \in 1 .. (e - f) : shown[i] = f + i - 1
    BY <1>1 DEF Stretch
  <1>5. (shown # <<>> <=> f < e)
    BY <1>1, <1>4
  <1>6. f < e => shown[1] = f /\ shown[Len(shown)] = e - 1 /\ n # 0
    BY <1>1, <1>4
  <1> HIDE DEF shown
  <1>7. (shown # <<>> /\ shown[1] > 0) = (f < e /\ f > 0)
    BY <1>5, <1>6
  <1>8. (shown # <<>> /\ shown[Len(shown)] < IF n = 0 THEN 0 ELSE n - 1) = (f < e /\ e < n)
    BY <1>1, <1>5, <1>6
  <1>9. /\ Page(req, bound).events = shown
        /\ Page(req, bound).has_more_before = (shown # <<>> /\ shown[1] > 0)
        /\ Page(req, bound).has_more_after = (shown # <<>> /\ shown[Len(shown)] < IF n = 0 THEN 0 ELSE n - 1)
    BY <1>3 DEF PageOf
  <1> QED
    BY <1>1, <1>2, <1>7, <1>8, <1>9 DEF n, f, e, shown

\* What two lists are, one after the other.
LEMMA JoinOf ==
    \A s, t \in Seq(Nat) :
        /\ s \o t \in Seq(Nat) /\ Len(s \o t) = Len(s) + Len(t)
        /\ \A i \in 1 .. Len(s) : (s \o t)[i] = s[i]
        /\ \A i \in 1 .. Len(t) : (s \o t)[Len(s) + i] = t[i]
  OBVIOUS

\* Two stretches, one after the other.
LEMMA StretchJoin ==
    ASSUME NEW a \in Nat, NEW k \in Nat, NEW m \in Nat
    PROVE  Stretch(a, k) \o Stretch(a + k, m) = Stretch(a, k + m)
  <1>1. /\ Stretch(a, k) \in Seq(Nat) /\ Len(Stretch(a, k)) = k
        /\ \A i \in 1 .. k : Stretch(a, k)[i] = a + i - 1
    BY DEF Stretch
  <1>2. /\ Stretch(a + k, m) \in Seq(Nat) /\ Len(Stretch(a + k, m)) = m
        /\ \A i \in 1 .. m : Stretch(a + k, m)[i] = a + k + i - 1
    BY DEF Stretch
  <1>3. /\ Stretch(a, k + m) \in Seq(Nat) /\ Len(Stretch(a, k + m)) = k + m
        /\ \A i \in 1 .. (k + m) : Stretch(a, k + m)[i] = a + i - 1
    BY DEF Stretch
  <1> DEFINE s == Stretch(a, k)
             t == Stretch(a + k, m)
             u == Stretch(a, k + m)
  <1>4. /\ s \in Seq(Nat) /\ Len(s) = k /\ \A i \in 1 .. k : s[i] = a + i - 1
        /\ t \in Seq(Nat) /\ Len(t) = m /\ \A i \in 1 .. m : t[i] = a + k + i - 1
        /\ u \in Seq(Nat) /\ Len(u) = k + m /\ \A i \in 1 .. (k + m) : u[i] = a + i - 1
    BY <1>1, <1>2, <1>3
  <1> HIDE DEF s, t, u
  <1>5. /\ s \o t \in Seq(Nat) /\ Len(s \o t) = k + m
        /\ \A i \in 1 .. k : (s \o t)[i] = s[i]
        /\ \A i \in 1 .. m : (s \o t)[k + i] = t[i]
    <2>1. s \in Seq(Nat) /\ t \in Seq(Nat) /\ Len(s) = k /\ Len(t) = m
      BY <1>4
    <2>2. /\ s \o t \in Seq(Nat) /\ Len(s \o t) = Len(s) + Len(t)
          /\ \A i \in 1 .. Len(s) : (s \o t)[i] = s[i]
          /\ \A i \in 1 .. Len(t) : (s \o t)[Len(s) + i] = t[i]
      BY <2>1, JoinOf, Zenon
    <2> QED BY <2>1, <2>2, Zenon
  <1>6. ASSUME NEW i \in 1 .. (k + m) PROVE (s \o t)[i] = u[i]
    <2>1. CASE i <= k
      <3>1. (s \o t)[i] = s[i] /\ i \in 1 .. k
        BY <1>5, <2>1
      <3> QED BY <1>4, <3>1
    <2>2. CASE i > k
      <3>1. PICK j \in 1 .. m : i = k + j
        <4>1. i - k \in 1 .. m /\ i = k + (i - k)
          BY <2>2
        <4> QED BY <4>1
      <3>2. (s \o t)[i] = t[j]
        BY <1>5, <3>1
      <3>3. t[j] = a + k + j - 1
        BY <1>4
      <3>4. u[i] = a + i - 1
        BY <1>4
      <3>5. a + k + j - 1 = a + i - 1
        BY <3>1
      <3> QED BY <3>2, <3>3, <3>4, <3>5, Zenon
    <2>3. i <= k \/ i > k
      OBVIOUS
    <2> QED BY <2>1, <2>2, <2>3, Zenon
  <1>7. s \o t = u
    BY <1>4, <1>5, <1>6, SameParts
  <1> QED
    BY <1>7 DEF s, t, u

LEMMA PagesInitially == PagesInit => PageInv
  <1> SUFFICES ASSUME PagesInit PROVE PageInv
    OBVIOUS
  <1>1. rows = <<>> /\ events = <<>> /\ window = <<>>
    BY DEF PagesInit
  <1>2. <<>> = Stretch(0, 0)
    BY DEF Stretch
  <1> QED
    BY <1>1, <1>2 DEF PagesInit, PageInv, PageTypeOK, RowsNumbered, WindowFits, ToldTheBeginning

\* Events and restarts leave the window where it is.
LEMMA LogKeepsPages == ASSUME PageInv, AppendEvent \/ Restart \/ Load PROVE PageInv'
  <1> DEFINE n == Len(rows)
             R == [row : Nat, seq : Nat]
  <1>1. rows \in Seq(R) /\ n \in Nat
    BY DEF PageInv, PageTypeOK
  <1>2. CASE AppendEvent
    <2> DEFINE new == [row |-> n, seq |-> n]
    <2>1. events = Stretch(0, n) /\ inMemory
      BY <1>2 DEF AppendEvent, PageInv
    <2>2. NextSeqIn(events) = n
      <3>1. events \in Seq(Nat) /\ Len(events) = n /\ \A i \in 1 .. n : events[i] = i - 1
        BY <1>1, <2>1 DEF Stretch
      <3>2. events = <<>> <=> n = 0
        BY <1>1, <3>1
      <3> HIDE DEF n
      <3>3. CASE n = 0
        BY <3>2, <3>3 DEF NextSeqIn
      <3>4. CASE n # 0
        <4>1. n \in 1 .. n /\ events[n] = n - 1
          BY <1>1, <3>1, <3>4
        <4>2. NextSeqIn(events) = events[n] + 1
          BY <3>1, <3>2, <3>4 DEF NextSeqIn
        <4> QED BY <1>1, <4>1, <4>2
      <3> QED BY <3>3, <3>4
    <2>3. NextRow = n
      BY <1>1 DEF NextRow, PageInv, RowsNumbered
    <2>4. events' = Append(Stretch(0, n), n) /\ rows' = Append(rows, new)
      BY <1>2, <2>1, <2>2, <2>3 DEF AppendEvent
    <2>5. rows' \in Seq(R) /\ Len(rows') = n + 1 /\ RowsNumbered'
      BY <1>1, <2>4 DEF PageInv, RowsNumbered
    <2>6. Append(Stretch(0, n), n) = Stretch(0, n + 1)
      BY <1>1 DEF Stretch
    <2>7. events' \in Seq(Nat) /\ events' = Stretch(0, Len(rows'))
      BY <1>1, <2>4, <2>5, <2>6 DEF Stretch
    <2>8. UNCHANGED <<inMemory, window, edges>>
      BY <1>2 DEF AppendEvent
    <2>9. WindowFits' /\ ToldTheBeginning'
      <3>1. window # <<>> => window[1] \in Nat /\ Len(window) \in Nat
        BY DEF PageInv, PageTypeOK
      <3> QED BY <1>1, <2>5, <2>8, <3>1 DEF PageInv, WindowFits, ToldTheBeginning
    <2>10. PageTypeOK'
      BY <2>5, <2>7, <2>8 DEF PageInv, PageTypeOK
    <2> QED
      BY <2>5, <2>7, <2>9, <2>10 DEF PageInv
  <1>3. CASE Restart
    <2>1. inMemory' = FALSE /\ events' = <<>> /\ UNCHANGED <<rows, window, edges>>
      BY <1>3 DEF Restart
    <2>2. <<>> \in Seq(Nat)
      OBVIOUS
    <2>3. PageTypeOK'
      BY <2>1, <2>2 DEF PageInv, PageTypeOK
    <2> QED BY <2>1, <2>3 DEF PageInv, RowsNumbered, WindowFits, ToldTheBeginning
  <1>4. CASE Load
    <2>1. events' = Stretch(0, n)
      BY <1>1, <1>4 DEF Load, PageInv, RowsNumbered, Stretch
    <2>2. events' \in Seq(Nat)
      BY <1>1, <2>1 DEF Stretch
    <2> QED
      BY <1>4, <2>1, <2>2 DEF Load, PageInv, PageTypeOK, RowsNumbered, WindowFits, ToldTheBeginning
  <1> QED
    BY <1>2, <1>3, <1>4

\* The window after a page that begins at a seq and is not empty.
LEMMA WindowKept ==
    ASSUME PageInv, UNCHANGED <<inMemory, events, rows>>, edges' \in [before : BOOLEAN, after : BOOLEAN],
           NEW a \in Nat, NEW k \in Nat, window' = Stretch(a, k), a + k <= Len(rows),
           k > 0 => edges'.before = (a > 0)
    PROVE  PageInv'
  <1>1. /\ window' \in Seq(Nat) /\ Len(window') = k /\ (window' # <<>> <=> k > 0)
        /\ k > 0 => window'[1] = a
    BY SMTT(60) DEF Stretch
  <1>2. WindowFits' /\ ToldTheBeginning'
    BY <1>1 DEF WindowFits, ToldTheBeginning
  <1> QED
    BY <1>1, <1>2 DEF PageInv, PageTypeOK, RowsNumbered

\* What the client has so far.
LEMMA WindowHad ==
    ASSUME PageInv, window # <<>>
    PROVE  /\ window[1] \in Nat /\ Len(window) \in Nat \ {0}
           /\ window[1] + Len(window) <= Len(rows) /\ Len(rows) \in Nat
           /\ window = Stretch(window[1], Len(window))
           /\ window[Len(window)] = window[1] + Len(window) - 1
           /\ edges.before = (window[1] > 0) /\ edges \in [before : BOOLEAN, after : BOOLEAN]
  <1>1. window \in Seq(Nat) /\ Len(rows) \in Nat /\ edges \in [before : BOOLEAN, after : BOOLEAN]
    BY DEF PageInv, PageTypeOK
  <1>2. window[1] \in Nat /\ Len(window) \in Nat \ {0} /\ window[Len(window)] \in Nat
    BY <1>1
  <1>3. window = Stretch(window[1], Len(window)) /\ window[1] + Len(window) <= Len(rows)
    BY DEF PageInv, WindowFits
  <1>4. Stretch(window[1], Len(window))[Len(window)] = window[1] + Len(window) - 1
    BY <1>2 DEF Stretch
  <1> QED
    BY <1>1, <1>2, <1>3, <1>4 DEF PageInv, ToldTheBeginning

\* The end of the log.
LEMMA OpenPage ==
    ASSUME PageInv, OpenRun
    PROVE  /\ PageInv'
           /\ edges'.after <=> Len(rows) > 0 /\ window'[Len(window')] < Len(rows) - 1
  <1> DEFINE req == [kind |-> "end", seq |-> 0]
             n == Len(rows)
  <1>1. PICK bound \in Limits :
            /\ window' = Page(req, bound).events
            /\ edges' = [before |-> Page(req, bound).has_more_before, after |-> Page(req, bound).has_more_after]
            /\ UNCHANGED <<inMemory, events, rows>>
    BY DEF OpenRun
  <1> DEFINE f == PageFirst(req, n, bound)
             e == PageEnd(req, n, bound)
  <1>2. bound \in Nat /\ bound > 0 /\ req \in Asked /\ n \in Nat
    BY PageLimitAssumption DEF Asked, PageInv, PageTypeOK
  <1>3. /\ f \in Nat /\ e \in Nat /\ f <= e /\ e <= n /\ window' = Stretch(f, e - f)
        /\ edges'.before = (f < e /\ f > 0) /\ edges'.after = (f < e /\ e < n)
        /\ edges' \in [before : BOOLEAN, after : BOOLEAN]
    BY <1>1, <1>2, PageGot
  <1>4. e = n /\ (n > 0 => f < e)
    <2>1. e - f = Least(bound, LastFound(req, n) - FirstFound(req, n) + 1)
      BY <1>2, PageEnds
    <2>2. FirstFound(req, n) = 1 /\ LastFound(req, n) = n /\ e = n
      BY DEF FirstFound, LastFound, PageEnd, LastCut
    <2> QED BY <1>2, <1>3, <2>1, <2>2 DEF Least
  <1> HIDE DEF f, e, req
  <1>5. PageInv'
    <2>1. e - f \in Nat /\ f + (e - f) <= n /\ (e - f > 0 => edges'.before = (f > 0))
      BY <1>3
    <2> QED BY <1>1, <1>3, <2>1, WindowKept
  <1>6. n > 0 => window'[Len(window')] = n - 1
    BY <1>2, <1>3, <1>4 DEF Stretch
  <1> QED
    BY <1>2, <1>3, <1>4, <1>5, <1>6

\* What is before the window: a page that ends where the window begins.
LEMMA OlderPage == ASSUME PageInv, FetchOlder PROVE PageInv'
  <1> DEFINE req == [kind |-> "before", seq |-> window[1]]
             n == Len(rows)
             c == window[1]
  <1>1. PICK bound \in Limits :
            /\ window # <<>> /\ edges.before
            /\ window' = Page(req, bound).events \o window
            /\ edges' = [edges EXCEPT !.before = Page(req, bound).has_more_before]
            /\ UNCHANGED <<inMemory, events, rows>>
    BY DEF FetchOlder
  <1> DEFINE f == PageFirst(req, n, bound)
             e == PageEnd(req, n, bound)
             k == Len(window)
  <1>2. /\ c \in Nat /\ k \in Nat /\ c + k <= n /\ c > 0 /\ n \in Nat /\ window = Stretch(c, k)
        /\ edges \in [before : BOOLEAN, after : BOOLEAN]
    BY <1>1, WindowHad
  <1>3. bound \in Nat /\ bound > 0 /\ req \in Asked
    BY <1>2, PageLimitAssumption DEF Asked
  <1>4. /\ f \in Nat /\ e \in Nat /\ f <= e /\ Page(req, bound).events = Stretch(f, e - f)
        /\ Page(req, bound).has_more_before = (f < e /\ f > 0)
    BY <1>2, <1>3, PageGot
  <1>5. e = c /\ f < e
    <2>1. e - f = Least(bound, LastFound(req, n) - FirstFound(req, n) + 1)
      BY <1>2, <1>3, PageEnds
    <2>2. FirstFound(req, n) = 1 /\ LastFound(req, n) = Least(c, n) /\ e = LastFound(req, n)
      BY DEF FirstFound, LastFound, PageEnd, LastCut
    <2>3. e = c
      BY <1>2, <2>2 DEF Least
    <2> QED BY <1>2, <1>3, <1>4, <2>1, <2>2, <2>3 DEF Least
  <1> HIDE DEF f, e, req, c, k, n
  <1>6. window' = Stretch(f, (e - f) + k)
    <2>1. e - f \in Nat /\ f + (e - f) = c
      BY <1>4, <1>5
    <2> DEFINE m == e - f
    <2> HIDE DEF m
    <2>2. Stretch(f, m) \o Stretch(f + m, k) = Stretch(f, m + k)
      <3>1. f \in Nat /\ m \in Nat /\ k \in Nat
        BY <1>2, <1>4, <2>1 DEF m
      <3> QED BY <3>1, StretchJoin
    <2>3. window' = Stretch(f, e - f) \o Stretch(c, k)
      BY <1>1, <1>2, <1>4
    <2> QED BY <2>1, <2>2, <2>3 DEF m
  <1>7. (e - f) + k \in Nat /\ f + ((e - f) + k) <= Len(rows)
    BY <1>2, <1>4, <1>5 DEF n
  <1>8. edges'.before = (f > 0) /\ edges' \in [before : BOOLEAN, after : BOOLEAN]
    <2>1. Page(req, bound).has_more_before = (f > 0)
      BY <1>4, <1>5
    <2>2. Page(req, bound).has_more_before \in BOOLEAN
      BY <2>1
    <2>3. edges' = [edges EXCEPT !.before = Page(req, bound).has_more_before]
      BY <1>1
    <2>4. edges \in [before : BOOLEAN, after : BOOLEAN]
      BY <1>2
    <2> QED BY <2>1, <2>2, <2>3, <2>4
  <1> QED
    BY <1>1, <1>4, <1>6, <1>7, <1>8, WindowKept

\* What is after it: a page that begins where the window ends.
LEMMA NewerPage ==
    ASSUME PageInv, FetchNewer
    PROVE  /\ PageInv'
           /\ edges'.after <=> Len(rows) > 0 /\ window'[Len(window')] < Len(rows) - 1
  <1> DEFINE req == [kind |-> "after", seq |-> window[Len(window)]]
             n == Len(rows)
             a == window[1]
             k == Len(window)
  <1>1. PICK bound \in Limits :
            /\ window # <<>>
            /\ window' = window \o Page(req, bound).events
            /\ edges' = [edges EXCEPT !.after = Page(req, bound).has_more_after]
            /\ UNCHANGED <<inMemory, events, rows>>
    BY DEF FetchNewer
  <1> DEFINE f == PageFirst(req, n, bound)
             e == PageEnd(req, n, bound)
  <1>2. /\ a \in Nat /\ k \in Nat \ {0} /\ a + k <= n /\ n \in Nat /\ window = Stretch(a, k)
        /\ window[Len(window)] = a + k - 1
        /\ edges.before = (a > 0) /\ edges \in [before : BOOLEAN, after : BOOLEAN]
    BY <1>1, WindowHad
  <1>3. bound \in Nat /\ bound > 0 /\ req \in Asked /\ req.seq = a + k - 1
    BY <1>2, PageLimitAssumption DEF Asked
  <1>4. /\ f \in Nat /\ e \in Nat /\ f <= e /\ e <= n /\ Page(req, bound).events = Stretch(f, e - f)
        /\ Page(req, bound).has_more_after = (f < e /\ e < n)
    BY <1>2, <1>3, PageGot
  <1>5. f = a + k /\ (f < n => f < e)
    <2>1. e - f = Least(bound, LastFound(req, n) - FirstFound(req, n) + 1)
      BY <1>2, <1>3, PageEnds
    <2>2. FirstFound(req, n) = Least((a + k - 1) + 2, n + 1) /\ LastFound(req, n) = n /\ f = FirstFound(req, n) - 1
      BY <1>3 DEF FirstFound, LastFound, PageFirst, FirstCut
    <2>3. FirstFound(req, n) = a + k + 1
      <3> HIDE DEF a, k, n
      <3>1. Least((a + k - 1) + 2, n + 1) = a + k + 1
        BY <1>2 DEF Least
      <3> QED BY <2>2, <3>1
    <2>4. e - f = Least(bound, n - (a + k))
      BY <1>2, <2>1, <2>2, <2>3
    <2> HIDE DEF f, e, n, a, k
    <2>5. f = a + k
      BY <1>2, <2>2, <2>3
    <2> QED BY <1>2, <1>3, <1>4, <2>4, <2>5 DEF Least
  <1> HIDE DEF f, e, req, a, k, n
  <1>6. window' = Stretch(a, k + (e - f))
    <2>1. e - f \in Nat
      BY <1>4
    <2>2. Stretch(a, k) \o Stretch(a + k, e - f) = Stretch(a, k + (e - f))
      BY <1>2, <2>1, StretchJoin
    <2> QED BY <1>1, <1>2, <1>4, <1>5, <2>2
  <1>7. k + (e - f) \in Nat /\ a + (k + (e - f)) = e /\ e <= Len(rows) /\ k + (e - f) > 0
    <2>1. k \in Nat \ {0} /\ a \in Nat /\ f \in Nat /\ e \in Nat /\ f <= e /\ f = a + k /\ e <= n
      BY <1>2, <1>4, <1>5
    <2>2. k + (e - f) \in Nat /\ a + (k + (e - f)) = e /\ k + (e - f) > 0
      BY <2>1
    <2> QED BY <2>1, <2>2 DEF n
  <1>8. /\ edges'.before = (a > 0) /\ edges'.after = (f < e /\ e < n)
        /\ edges' \in [before : BOOLEAN, after : BOOLEAN]
    <2>1. Page(req, bound).has_more_after \in BOOLEAN
      BY <1>4
    <2>2. edges' = [edges EXCEPT !.after = Page(req, bound).has_more_after]
      BY <1>1
    <2>3. edges \in [before : BOOLEAN, after : BOOLEAN] /\ edges.before = (a > 0)
      BY <1>2
    <2> QED BY <1>4, <2>1, <2>2, <2>3
  <1>9. PageInv'
    BY <1>1, <1>2, <1>6, <1>7, <1>8, WindowKept
  <1>10. window'[Len(window')] = e - 1
    <2> DEFINE m == k + (e - f)
    <2>1. m \in Nat /\ m > 0 /\ a + m = e /\ a \in Nat
      BY <1>2, <1>7
    <2> HIDE DEF m
    <2>2. Len(Stretch(a, m)) = m /\ Stretch(a, m)[m] = a + m - 1
      BY <2>1 DEF Stretch
    <2>3. window' = Stretch(a, m)
      BY <1>6 DEF m
    <2> QED BY <2>1, <2>2, <2>3
  <1>11. n > 0 /\ (edges'.after <=> e - 1 < n - 1)
    <2>1. a \in Nat /\ k \in Nat \ {0} /\ a + k <= n /\ n \in Nat /\ f = a + k /\ (f < n => f < e)
          /\ e \in Nat /\ f <= e /\ e <= n
      BY <1>2, <1>4, <1>5
    <2> QED BY <1>8, <2>1
  <1>12. edges'.after <=> Len(rows) > 0 /\ window'[Len(window')] < Len(rows) - 1
    BY <1>10, <1>11 DEF n
  <1> QED
    BY <1>9, <1>12

\* The log is numbered and the window is a stretch of it.
THEOREM PagesAreStretches == PagesSpec => []PageInv
  <1>1. ASSUME PageInv, PagesNext PROVE PageInv'
    BY <1>1, LogKeepsPages, OpenPage, OlderPage, NewerPage DEF PagesNext
  <1>2. ASSUME PageInv, UNCHANGED pageVars PROVE PageInv'
    <2>1. /\ inMemory' = inMemory /\ events' = events /\ rows' = rows
          /\ window' = window /\ edges' = edges
      BY <1>2 DEF pageVars
    <2>2. PageTypeOK' /\ RowsNumbered'
      BY <1>2, <2>1 DEF PageInv, PageTypeOK, RowsNumbered
    <2>3. WindowFits' /\ ToldTheBeginning'
      BY <1>2, <2>1 DEF PageInv, WindowFits, ToldTheBeginning
    <2> QED BY <1>2, <2>1, <2>2, <2>3 DEF PageInv
  <1> QED
    BY PagesInitially, <1>1, <1>2, PTL DEF PagesSpec

\* For logs and pages of any size, in any order and through any restarts:
\* memory and table answer alike, and what the client shows is an interval.
THEOREM PagesAlwaysFit == PagesSpec => []PagesFit
  <1>1. ASSUME PageInv PROVE PagesFit
    <2> DEFINE n == Len(rows)
    <2>1. n \in Nat /\ rows \in Seq([row : Nat, seq : Nat])
      BY <1>1 DEF PageInv, PageTypeOK
    <2>2. ASSUME inMemory, NEW req \in PageRequests, NEW bound \in Limits
          PROVE  MemoryPage(events, req, bound) = StoredPage(rows, req, bound)
      <3>1. req \in Asked /\ bound \in Nat
        BY EventAssumption, PageLimitAssumption DEF PageRequests, Asked
      <3> QED BY <1>1, <2>1, <2>2, <3>1, MemoryShows, RowsShow DEF PageInv
    <2>3. Logged = Stretch(0, n)
      BY <1>1, <2>1 DEF Logged, Stretch, PageInv, RowsNumbered
    <2>4. ASSUME window # <<>> PROVE window = SubSeq(Logged, window[1] + 1, window[1] + Len(window))
      <3> DEFINE a == window[1]
                 k == Len(window)
      <3>1. a \in Nat /\ k \in Nat /\ a + k <= n /\ window = Stretch(a, k)
        BY <1>1, <2>4, WindowHad
      <3> HIDE DEF a, k, n
      <3>2. /\ Stretch(0, n) \in Seq(Nat) /\ Len(Stretch(0, n)) = n
            /\ \A i \in 1 .. n : Stretch(0, n)[i] = i - 1
        BY <2>1 DEF Stretch, n
      <3> DEFINE x == a + 1
                 y == a + k
                 s == Stretch(0, n)
      <3>3. x \in Nat \ {0} /\ y \in Nat /\ y <= n /\ x <= y + 1 /\ y - x + 1 = k
        BY <3>1
      <3> HIDE DEF x, y, s
      <3>4. s \in Seq(Nat) /\ y <= Len(s)
        BY <3>2, <3>3 DEF s
      <3>5. /\ SubSeq(s, x, y) \in Seq(Nat) /\ Len(SubSeq(s, x, y)) = k
            /\ \A i \in 1 .. k : SubSeq(s, x, y)[i] = s[x + i - 1]
        BY <3>3, <3>4, PartOf
      <3>6. ASSUME NEW i \in 1 .. k PROVE SubSeq(s, x, y)[i] = a + i - 1
        BY <3>1, <3>2, <3>3, <3>5 DEF s, x
      <3>7. Stretch(a, k) \in Seq(Nat) /\ Len(Stretch(a, k)) = k /\ \A i \in 1 .. k : Stretch(a, k)[i] = a + i - 1
        BY <3>1 DEF Stretch
      <3>8. SubSeq(s, x, y) = Stretch(a, k)
        BY <3>5, <3>6, <3>7, SameParts
      <3> QED BY <2>3, <3>1, <3>8 DEF a, k, n, x, y, s
    <2> QED BY <2>2, <2>4 DEF PagesFit, PagesAgree, WindowIsAnInterval
  <1> QED
    BY <1>1, PagesAreStretches, PTL

\* A client that scrolls knows at both ends whether there is more.
THEOREM EdgesAlwaysTold == PagesSpec => EdgesAreTold
  <1> DEFINE Told == OpenRun \/ FetchNewer =>
                       (edges'.after <=> Len(rows) > 0 /\ window'[Len(window')] < Len(rows) - 1)
  <1>1. PageInv /\ [PagesNext]_pageVars => [Told]_pageVars
    BY OpenPage, NewerPage
  <1>2. PageInv => ToldTheBeginning
    BY DEF PageInv
  <1> QED
    BY PagesAreStretches, <1>1, <1>2, PTL DEF PagesSpec, EdgesAreTold, ToldTheEnd

---------------------------------------------------------------------------
(* AgentOutput, for outputs of every length: what is in the buffer is what  *)
(* is said from some place on up to the last line that was read, and the    *)
(* messages show what was said before that place.                           *)

\* What the buffer holds when it is read from place b on.
Pending(out, b, held) ==
    \/ held = <<>> /\ b = Len(out) + 1
    \/ /\ held # <<>> /\ b \in 1 .. Len(out)
       /\ OneBlock(out, b, Len(out)) /\ held = SaidIn(out, b, Len(out))

Latest(shown) == IF shown = <<>> THEN <<>> ELSE shown[Len(shown)]

OutputTypeOK ==
    /\ printed \in Seq(Lines) /\ drained \in 0 .. Len(printed)
    /\ exited \in BOOLEAN /\ ended \in BOOLEAN
    /\ ended => exited /\ drained = Len(printed)
    /\ pulled \in Nat /\ (pulled <= drained \/ (ended /\ pulled = drained + 1))
    /\ block \in BOOLEAN /\ buffer \in Seq(Sayings)
    /\ messages \in Seq(Seq(Sayings)) /\ lastEmitted = Latest(messages)

OutputInv ==
    /\ OutputTypeOK
    /\ block <=> InBlock(Taken, Len(Taken) + 1)
    /\ monitor = "done" => buffer = <<>>
    /\ \E b \in 1 .. (Len(Taken) + 1) : Pending(Taken, b, buffer) /\ ShownBefore(messages, Taken, b)

\* One more line changes nothing of what was read before it.
LEMMA LineMore ==
    ASSUME NEW out \in Seq(Lines), NEW l \in Lines
    PROVE  LET u == Append(out, l)
               n == Len(out)
           IN  /\ u \in Seq(Lines) /\ Len(u) = n + 1 /\ n \in Nat
               /\ u[n + 1] = l /\ \A i \in 1 .. n : u[i] = out[i]
               /\ \A i \in 1 .. (n + 1) : InBlock(u, i) <=> InBlock(out, i)
               /\ \A i \in 1 .. n : SaidAt(u, i) <=> SaidAt(out, i)
               /\ \A i, j \in 1 .. n : OneBlock(u, i, j) <=> OneBlock(out, i, j)
  <1> DEFINE u == Append(out, l)
             n == Len(out)
  <1>1. u \in Seq(Lines) /\ Len(u) = n + 1 /\ n \in Nat /\ u[n + 1] = l /\ \A i \in 1 .. n : u[i] = out[i]
    OBVIOUS
  <1> HIDE DEF u, n
  <1>2. ASSUME NEW i \in 1 .. (n + 1) PROVE InBlock(u, i) <=> InBlock(out, i)
    <2>1. \A j \in 1 .. (i - 1) : u[j] = out[j]
      BY <1>1
    <2>2. \A j \in 1 .. (i - 1) : \A k \in (j + 1) .. (i - 1) : u[k] = out[k]
      BY <1>1
    <2> QED BY <2>1, <2>2 DEF InBlock
  <1>3. ASSUME NEW i \in 1 .. n PROVE SaidAt(u, i) <=> SaidAt(out, i)
    <2>1. i \in 1 .. (n + 1) /\ u[i] = out[i]
      BY <1>1
    <2> QED BY <1>2, <2>1 DEF SaidAt
  <1>4. ASSUME NEW i \in 1 .. n, NEW j \in 1 .. n PROVE OneBlock(u, i, j) <=> OneBlock(out, i, j)
    <2>1. \A k \in i .. j : u[k] = out[k]
      BY <1>1
    <2> QED BY <1>3, <2>1 DEF OneBlock
  <1> QED
    BY <1>1, <1>2, <1>3, <1>4 DEF u, n

\* What is said in a stretch.
LEMMA SaidIsAList ==
    ASSUME NEW out \in Seq(Lines), NEW i \in Nat \ {0}, NEW j \in 0 .. Len(out)
    PROVE  /\ SubSeq(out, i, j) \in Seq(Lines) /\ SaidIn(out, i, j) \in Seq(Sayings)
           /\ \A p \in i .. j : out[p] \in Sayings =>
                 \E k \in DOMAIN SaidIn(out, i, j) : SaidIn(out, i, j)[k] = out[p]
  <1> DEFINE s == SubSeq(out, i, j)
             o == Only(s, Sayings)
  <1>1. s \in Seq(Lines) /\ \A p \in i .. j : p - i + 1 \in 1 .. Len(s) /\ s[p - i + 1] = out[p]
    <2>1. \A p \in i .. j : out[p] \in Lines
      OBVIOUS
    <2> QED BY <2>1
  <1> HIDE DEF s
  <1>2. o \in Seq(Lines \cap Sayings)
    BY <1>1, OnlyIsAList
  <1>3. ASSUME NEW p \in i .. j, out[p] \in Sayings PROVE \E k \in 1 .. Len(o) : o[k] = out[p]
    <2> DEFINE q == p - i + 1
    <2>1. q \in 1 .. Len(s) /\ s[q] = out[p] /\ s[q] \in Sayings
      BY <1>1, <1>3
    <2> HIDE DEF q
    <2>2. \E k \in 1 .. Len(o) : o[k] = s[q]
      BY <1>1, <2>1, OnlyHasAll
    <2> QED BY <2>1, <2>2
  <1> HIDE DEF o
  <1>4. o \in Seq(Sayings) /\ DOMAIN o = 1 .. Len(o)
    BY <1>2
  <1>5. \A p \in i .. j : out[p] \in Sayings => \E k \in DOMAIN o : o[k] = out[p]
    BY <1>3, <1>4
  <1> QED
    BY <1>1, <1>4, <1>5 DEF SaidIn, s, o

\* A stretch that was read stays as it is, and the last one may go on.
LEMMA SaidMore ==
    ASSUME NEW out \in Seq(Lines), NEW l \in Lines, NEW i \in Nat \ {0}
    PROVE  LET u == Append(out, l)
               n == Len(out)
           IN  /\ \A j \in 1 .. n : SaidIn(u, i, j) = SaidIn(out, i, j)
               /\ i <= n + 1 => SaidIn(u, i, n + 1) = IF l \in Sayings THEN Append(SaidIn(out, i, n), l) ELSE SaidIn(out, i, n)
  <1> DEFINE u == Append(out, l)
             n == Len(out)
  <1>1. u \in Seq(Lines) /\ Len(u) = n + 1 /\ n \in Nat /\ u[n + 1] = l /\ \A k \in 1 .. n : u[k] = out[k]
    OBVIOUS
  <1> HIDE DEF u
  <1>2. ASSUME NEW j \in 1 .. n PROVE SaidIn(u, i, j) = SaidIn(out, i, j)
    <2>1. \A k \in i .. j : u[k] = out[k] /\ out[k] \in Lines
      BY <1>1
    <2>2. SubSeq(u, i, j) = SubSeq(out, i, j)
      BY <1>1, <2>1
    <2> QED BY <2>2 DEF SaidIn
  <1>3. ASSUME i <= n + 1
        PROVE  SaidIn(u, i, n + 1) = IF l \in Sayings THEN Append(SaidIn(out, i, n), l) ELSE SaidIn(out, i, n)
    <2> DEFINE s == SubSeq(out, i, n)
               t == SubSeq(u, i, n + 1)
               v == Append(s, l)
               m == n - i + 1
    <2>1. s \in Seq(Lines) /\ Len(s) = m /\ m \in Nat /\ \A k \in 1 .. m : s[k] = out[i + k - 1]
      <3>1. \A k \in i .. n : out[k] \in Lines
        BY <1>1
      <3> QED BY <1>1, <1>3, <3>1
    <2>2. t \in Seq(Lines) /\ Len(t) = m + 1 /\ \A k \in 1 .. (m + 1) : t[k] = u[i + k - 1]
      <3> DEFINE e == n + 1
      <3>1. e \in Nat /\ e = Len(u) /\ i <= e /\ e - i + 1 = m + 1 /\ \A k \in i .. e : u[k] \in Lines
        BY <1>1, <1>3
      <3> HIDE DEF e, m
      <3>2. SubSeq(u, i, e) \in Seq(Lines)
        BY <1>1, <3>1
      <3>3. Len(SubSeq(u, i, e)) = e - i + 1 /\ \A k \in 1 .. (e - i + 1) : SubSeq(u, i, e)[k] = u[i + k - 1]
        BY <1>1, <3>1
      <3> QED BY <3>1, <3>2, <3>3 DEF e, t
    <2> HIDE DEF s, t, m
    <2>3. v \in Seq(Lines) /\ Len(v) = m + 1 /\ v[m + 1] = l /\ \A k \in 1 .. m : v[k] = s[k]
      BY <2>1
    <2>4. \A k \in 1 .. m : t[k] = v[k]
      <3>1. \A k \in 1 .. m : i + k - 1 \in 1 .. n /\ k \in 1 .. (m + 1)
        BY <1>1, <1>3 DEF m
      <3> QED BY <1>1, <2>1, <2>2, <2>3, <3>1
    <2>5. t[m + 1] = v[m + 1]
      <3>1. i + (m + 1) - 1 = n + 1 /\ m + 1 \in 1 .. (m + 1)
        BY <1>1, <1>3, <2>1 DEF m
      <3> QED BY <1>1, <2>2, <2>3, <3>1
    <2> HIDE DEF v
    <2>6. t = v
      BY <2>1, <2>2, <2>3, <2>4, <2>5
    <2>7. Only(Append(s, l), Sayings) = IF l \in Sayings THEN Append(Only(s, Sayings), l) ELSE Only(s, Sayings)
      BY <2>1, OnlyAppended
    <2> QED BY <2>6, <2>7 DEF SaidIn, s, t, v
  <1> QED
    BY <1>2, <1>3 DEF u

\* What is shown stays shown when a line is read.
LEMMA ShownFurther ==
    ASSUME NEW out \in Seq(Lines), NEW l \in Lines, NEW shown \in Seq(Seq(Sayings)),
           NEW e \in 1 .. (Len(out) + 1), ShownBefore(shown, out, e)
    PROVE  ShownBefore(shown, Append(out, l), e)
  <1> DEFINE u == Append(out, l)
             n == Len(out)
  <1>1. /\ u \in Seq(Lines) /\ Len(u) = n + 1 /\ n \in Nat /\ \A i \in 1 .. n : u[i] = out[i]
        /\ \A i \in 1 .. n : SaidAt(u, i) <=> SaidAt(out, i)
        /\ \A i, j \in 1 .. n : OneBlock(u, i, j) <=> OneBlock(out, i, j)
    BY LineMore
  <1>2. \A i, j \in 1 .. n : SaidIn(u, i, j) = SaidIn(out, i, j)
    <2>1. ASSUME NEW i \in 1 .. n, NEW j \in 1 .. n PROVE SaidIn(u, i, j) = SaidIn(out, i, j)
      <3>1. i \in Nat \ {0}
        BY <1>1
      <3> QED BY <3>1, SaidMore
    <2> QED BY <2>1
  <1> HIDE DEF u, n
  <1>3. \A i \in 1 .. (e - 1) : i \in 1 .. n
    BY <1>1 DEF n
  <1>4. PICK first \in [DOMAIN shown -> 1 .. (e - 1)], last \in [DOMAIN shown -> 1 .. (e - 1)] :
            /\ \A m \in DOMAIN shown : OneBlock(out, first[m], last[m]) /\ shown[m] = SaidIn(out, first[m], last[m])
            /\ \A m, k \in DOMAIN shown : m < k => last[m] < first[k]
            /\ \A i \in 1 .. (e - 1) : SaidAt(out, i) =>
                 \E m \in DOMAIN shown :
                     /\ first[m] <= i /\ \E k \in DOMAIN shown[m] : shown[m][k] = out[i]
                     /\ \A k \in DOMAIN shown : m < k => i < first[k]
    BY Zenon DEF ShownBefore
  <1>5. \A m \in DOMAIN shown : first[m] \in 1 .. n /\ last[m] \in 1 .. n
    BY <1>3
  <1>6. \A m \in DOMAIN shown : OneBlock(u, first[m], last[m]) /\ shown[m] = SaidIn(u, first[m], last[m])
    BY <1>1, <1>2, <1>4, <1>5
  <1>7. \A i \in 1 .. (e - 1) : SaidAt(u, i) =>
           \E m \in DOMAIN shown :
               /\ first[m] <= i /\ \E k \in DOMAIN shown[m] : shown[m][k] = u[i]
               /\ \A k \in DOMAIN shown : m < k => i < first[k]
    <2>1. SUFFICES ASSUME NEW i \in 1 .. (e - 1), SaidAt(u, i)
                   PROVE  \E m \in DOMAIN shown :
                             /\ first[m] <= i /\ \E k \in DOMAIN shown[m] : shown[m][k] = u[i]
                             /\ \A k \in DOMAIN shown : m < k => i < first[k]
      BY Zenon
    <2>2. SaidAt(out, i) /\ u[i] = out[i]
      BY <1>1, <1>3, <2>1
    <2> QED BY <1>4, <2>2, Zenon
  <1> QED
    BY <1>4, <1>6, <1>7, Zenon DEF ShownBefore, u

\* Nothing is missing when nothing is said.
LEMMA ShownOn ==
    ASSUME NEW out \in Seq(Lines), NEW shown \in Seq(Seq(Sayings)),
           NEW e \in Nat \ {0}, NEW f \in Nat, e <= f, ShownBefore(shown, out, e),
           \A i \in e .. (f - 1) : ~SaidAt(out, i)
    PROVE  ShownBefore(shown, out, f)
  <1>1. PICK first \in [DOMAIN shown -> 1 .. (e - 1)], last \in [DOMAIN shown -> 1 .. (e - 1)] :
            /\ \A m \in DOMAIN shown : OneBlock(out, first[m], last[m]) /\ shown[m] = SaidIn(out, first[m], last[m])
            /\ \A m, k \in DOMAIN shown : m < k => last[m] < first[k]
            /\ \A i \in 1 .. (e - 1) : SaidAt(out, i) =>
                 \E m \in DOMAIN shown :
                     /\ first[m] <= i /\ \E k \in DOMAIN shown[m] : shown[m][k] = out[i]
                     /\ \A k \in DOMAIN shown : m < k => i < first[k]
    BY Zenon DEF ShownBefore
  <1>2. first \in [DOMAIN shown -> 1 .. (f - 1)] /\ last \in [DOMAIN shown -> 1 .. (f - 1)]
    <2>1. \A i \in 1 .. (e - 1) : i \in 1 .. (f - 1)
      OBVIOUS
    <2> QED BY <2>1
  <1>3. \A i \in 1 .. (f - 1) : SaidAt(out, i) => i \in 1 .. (e - 1)
    <2>1. \A i \in 1 .. (f - 1) : i \in 1 .. (e - 1) \/ i \in e .. (f - 1)
      OBVIOUS
    <2> QED BY <2>1
  <1>4. \A i \in 1 .. (f - 1) : SaidAt(out, i) =>
           \E m \in DOMAIN shown :
               /\ first[m] <= i /\ \E k \in DOMAIN shown[m] : shown[m][k] = out[i]
               /\ \A k \in DOMAIN shown : m < k => i < first[k]
    BY <1>1, <1>3
  <1> QED
    BY <1>1, <1>2, <1>4, Zenon DEF ShownBefore

\* A message shows the stretch that it is made of ..
LEMMA ShownMore ==
    ASSUME NEW out \in Seq(Lines), NEW shown \in Seq(Seq(Sayings)),
           NEW e \in 1 .. Len(out), NEW j \in 1 .. Len(out), ShownBefore(shown, out, e), OneBlock(out, e, j)
    PROVE  ShownBefore(Append(shown, SaidIn(out, e, j)), out, j + 1)
  <1> DEFINE said == SaidIn(out, e, j)
             more == Append(shown, said)
             n == Len(shown)
  <1>1. PICK first \in [DOMAIN shown -> 1 .. (e - 1)], last \in [DOMAIN shown -> 1 .. (e - 1)] :
            /\ \A m \in DOMAIN shown : OneBlock(out, first[m], last[m]) /\ shown[m] = SaidIn(out, first[m], last[m])
            /\ \A m, k \in DOMAIN shown : m < k => last[m] < first[k]
            /\ \A i \in 1 .. (e - 1) : SaidAt(out, i) =>
                 \E m \in DOMAIN shown :
                     /\ first[m] <= i /\ \E k \in DOMAIN shown[m] : shown[m][k] = out[i]
                     /\ \A k \in DOMAIN shown : m < k => i < first[k]
    BY Zenon DEF ShownBefore
  <1>2. /\ e \in Nat \ {0} /\ j \in Nat /\ e <= j /\ n \in Nat /\ DOMAIN shown = 1 .. n /\ j \in 0 .. Len(out)
    BY DEF OneBlock
  <1>3. said \in Seq(Sayings) /\ \A p \in e .. j : out[p] \in Sayings => \E k \in DOMAIN said : said[k] = out[p]
    BY <1>2, SaidIsAList
  <1> HIDE DEF said
  <1>4. DOMAIN more = 1 .. (n + 1) /\ more[n + 1] = said /\ \A m \in 1 .. n : more[m] = shown[m]
    BY <1>2, <1>3
  <1> HIDE DEF more, n
  <1> DEFINE first2 == [m \in 1 .. (n + 1) |-> IF m = n + 1 THEN e ELSE first[m]]
             last2 == [m \in 1 .. (n + 1) |-> IF m = n + 1 THEN j ELSE last[m]]
  <1>5. \A m \in 1 .. (n + 1) : m # n + 1 => m \in 1 .. n
    BY <1>2
  <1>6. /\ \A m \in 1 .. n : first[m] \in Nat /\ last[m] \in Nat /\ first[m] <= e - 1 /\ last[m] <= e - 1
        /\ \A m \in 1 .. n : first[m] \in 1 .. j /\ last[m] \in 1 .. j
    <2>1. \A i \in 1 .. (e - 1) : i \in Nat /\ i <= e - 1 /\ i \in 1 .. j
      BY <1>2
    <2>2. \A m \in 1 .. n : first[m] \in 1 .. (e - 1) /\ last[m] \in 1 .. (e - 1)
      BY <1>2
    <2> QED BY <2>1, <2>2
  <1>7. first2 \in [DOMAIN more -> 1 .. ((j + 1) - 1)] /\ last2 \in [DOMAIN more -> 1 .. ((j + 1) - 1)]
    <2>1. (j + 1) - 1 = j /\ e \in 1 .. j /\ j \in 1 .. j
      BY <1>2
    <2> QED BY <1>4, <1>5, <1>6, <2>1
  <1>8. /\ n + 1 \in 1 .. (n + 1) /\ first2[n + 1] = e /\ last2[n + 1] = j
        /\ \A m \in 1 .. n : m \in 1 .. (n + 1) /\ m # n + 1 /\ first2[m] = first[m] /\ last2[m] = last[m]
    BY <1>2
  <1> HIDE DEF first2, last2
  <1>9. \A m \in DOMAIN more : OneBlock(out, first2[m], last2[m]) /\ more[m] = SaidIn(out, first2[m], last2[m])
    <2>1. ASSUME NEW m \in 1 .. n PROVE OneBlock(out, first2[m], last2[m]) /\ more[m] = SaidIn(out, first2[m], last2[m])
      BY <1>1, <1>2, <1>4, <1>8
    <2>2. OneBlock(out, first2[n + 1], last2[n + 1]) /\ more[n + 1] = SaidIn(out, first2[n + 1], last2[n + 1])
      BY <1>4, <1>8 DEF said
    <2> QED BY <1>4, <1>5, <2>1, <2>2
  <1>10. \A m, k \in DOMAIN more : m < k => last2[m] < first2[k]
    <2>1. ASSUME NEW m \in 1 .. (n + 1), NEW k \in 1 .. (n + 1), m < k PROVE last2[m] < first2[k]
      <3>1. m \in 1 .. n
        BY <1>2, <2>1
      <3>2. CASE k = n + 1
        BY <1>2, <1>6, <1>8, <3>1, <3>2, SMTT(60)
      <3>3. CASE k \in 1 .. n
        BY <1>1, <1>2, <1>8, <2>1, <3>1, <3>3
      <3> QED BY <1>5, <3>2, <3>3
    <2> QED BY <1>4, <2>1
  <1>11. ASSUME NEW i \in 1 .. ((j + 1) - 1), SaidAt(out, i)
         PROVE  \E m \in DOMAIN more :
                   /\ first2[m] <= i /\ \E k \in DOMAIN more[m] : more[m][k] = out[i]
                   /\ \A k \in DOMAIN more : m < k => i < first2[k]
    <2>1. CASE i \in e .. j
      <3>1. \E k \in DOMAIN more[n + 1] : more[n + 1][k] = out[i]
        BY <1>3, <1>4, <1>11, <2>1 DEF SaidAt
      <3>2. \A k \in 1 .. (n + 1) : ~(n + 1 < k)
        BY <1>2
      <3>3. first2[n + 1] <= i
        BY <1>2, <1>8, <2>1
      <3> QED BY <1>4, <1>8, <3>1, <3>2, <3>3
    <2>2. CASE i \in 1 .. (e - 1)
      <3>1. PICK m \in 1 .. n : /\ first[m] <= i /\ \E k \in DOMAIN shown[m] : shown[m][k] = out[i]
                                /\ \A k \in 1 .. n : m < k => i < first[k]
        BY <1>1, <1>2, <1>11, <2>2
      <3>2. i < first2[n + 1]
        BY <1>2, <1>8, <2>2
      <3>3. \A k \in 1 .. (n + 1) : m < k => i < first2[k]
        BY <1>5, <1>8, <3>1, <3>2
      <3>4. first2[m] <= i /\ m \in DOMAIN more /\ \E k \in DOMAIN more[m] : more[m][k] = out[i]
        BY <1>4, <1>8, <3>1
      <3> QED BY <1>4, <3>3, <3>4
    <2> QED BY <1>2, <2>1, <2>2
  <1>12. ShownBefore(more, out, j + 1)
    BY <1>7, <1>9, <1>10, <1>11, Zenon DEF ShownBefore
  <1> QED
    BY <1>12 DEF more, said

\* .. and so does the message before it, if it says the same.
LEMMA ShownAgain ==
    ASSUME NEW out \in Seq(Lines), NEW shown \in Seq(Seq(Sayings)), shown # <<>>,
           NEW e \in 1 .. Len(out), NEW j \in 1 .. Len(out), ShownBefore(shown, out, e), OneBlock(out, e, j),
           shown[Len(shown)] = SaidIn(out, e, j)
    PROVE  ShownBefore(shown, out, j + 1)
  <1> DEFINE said == SaidIn(out, e, j)
             n == Len(shown)
  <1>1. PICK first \in [DOMAIN shown -> 1 .. (e - 1)], last \in [DOMAIN shown -> 1 .. (e - 1)] :
            /\ \A m \in DOMAIN shown : OneBlock(out, first[m], last[m]) /\ shown[m] = SaidIn(out, first[m], last[m])
            /\ \A m, k \in DOMAIN shown : m < k => last[m] < first[k]
            /\ \A i \in 1 .. (e - 1) : SaidAt(out, i) =>
                 \E m \in DOMAIN shown :
                     /\ first[m] <= i /\ \E k \in DOMAIN shown[m] : shown[m][k] = out[i]
                     /\ \A k \in DOMAIN shown : m < k => i < first[k]
    BY Zenon DEF ShownBefore
  <1>2. /\ e \in Nat \ {0} /\ j \in Nat /\ e <= j /\ j \in 0 .. Len(out)
        /\ n \in Nat \ {0} /\ DOMAIN shown = 1 .. n /\ n \in 1 .. n
    BY DEF OneBlock
  <1>3. said \in Seq(Sayings) /\ \A p \in e .. j : out[p] \in Sayings => \E k \in DOMAIN said : said[k] = out[p]
    BY <1>2, SaidIsAList
  <1>4. shown[n] = said
    OBVIOUS
  <1> HIDE DEF said, n
  <1>5. first \in [DOMAIN shown -> 1 .. ((j + 1) - 1)] /\ last \in [DOMAIN shown -> 1 .. ((j + 1) - 1)]
    <2>1. \A i \in 1 .. (e - 1) : i \in 1 .. ((j + 1) - 1)
      BY <1>2
    <2> QED BY <2>1
  <1>6. ASSUME NEW i \in 1 .. ((j + 1) - 1), SaidAt(out, i)
        PROVE  \E m \in DOMAIN shown :
                   /\ first[m] <= i /\ \E k \in DOMAIN shown[m] : shown[m][k] = out[i]
                   /\ \A k \in DOMAIN shown : m < k => i < first[k]
    <2>1. CASE i \in e .. j
      <3>1. \E k \in DOMAIN shown[n] : shown[n][k] = out[i]
        BY <1>3, <1>4, <1>6, <2>1 DEF SaidAt
      <3>2. \A k \in 1 .. n : ~(n < k)
        BY <1>2
      <3>3. first[n] <= i
        <4>1. first[n] \in 1 .. (e - 1)
          BY <1>2
        <4> QED BY <1>2, <2>1, <4>1
      <3> QED BY <1>2, <3>1, <3>2, <3>3
    <2>2. CASE i \in 1 .. (e - 1)
      BY <1>1, <1>6, <2>2
    <2> QED BY <1>2, <2>1, <2>2
  <1> QED
    BY <1>1, <1>5, <1>6, Zenon DEF ShownBefore

\* A flush shows all that was read.
LEMMA ShownAfterFlush ==
    ASSUME NEW out \in Seq(Lines), NEW shown \in Seq(Seq(Sayings)), NEW held, NEW b \in 1 .. (Len(out) + 1),
           Pending(out, b, held), ShownBefore(shown, out, b)
    PROVE  ShownBefore(IF held \in {<<>>, Latest(shown)} THEN shown ELSE Append(shown, held), out, Len(out) + 1)
  <1>1. Len(out) \in Nat /\ Len(shown) \in Nat
    OBVIOUS
  <1>2. CASE held = <<>>
    BY <1>2 DEF Pending
  <1>3. CASE held # <<>>
    <2>1. b \in 1 .. Len(out) /\ OneBlock(out, b, Len(out)) /\ held = SaidIn(out, b, Len(out)) /\ Len(out) \in 1 .. Len(out)
      BY <1>1, <1>3 DEF Pending, OneBlock
    <2>2. CASE held = Latest(shown)
      <3>1. shown # <<>> /\ shown[Len(shown)] = SaidIn(out, b, Len(out))
        BY <1>3, <2>1, <2>2 DEF Latest
      <3>2. ShownBefore(shown, out, Len(out) + 1)
        BY <2>1, <3>1, ShownAgain
      <3> QED BY <2>2, <3>2
    <2>3. CASE held # Latest(shown)
      <3>1. ShownBefore(Append(shown, SaidIn(out, b, Len(out))), out, Len(out) + 1)
        BY <2>1, ShownMore
      <3> QED BY <1>3, <2>1, <2>3, <3>1
    <2> QED BY <2>2, <2>3
  <1> QED
    BY <1>2, <1>3

\* The messages after a flush.
Flushed(shown, held) == IF held \in {<<>>, Latest(shown)} THEN shown ELSE Append(shown, held)

\* A line is in a block if it follows the boundary that begins the block, or
\* another line of it.
LEMMA BlockMore ==
    ASSUME NEW out \in Seq(Lines), NEW l \in Lines
    PROVE  LET u == Append(out, l)
               n == Len(out)
           IN  /\ InBlock(u, (n + 1) + 1) <=> l = "codex" \/ (l \notin Boundaries /\ InBlock(out, n + 1))
               /\ SaidAt(u, n + 1) <=> l \in Sayings \ Boundaries /\ InBlock(out, n + 1)
  <1> DEFINE u == Append(out, l)
             n == Len(out)
  <1>1. /\ n \in Nat /\ u[n + 1] = l /\ \A i \in 1 .. n : u[i] = out[i]
        /\ InBlock(u, n + 1) <=> InBlock(out, n + 1)
    <2>1. n + 1 \in 1 .. (n + 1)
      OBVIOUS
    <2>2. /\ n \in Nat /\ u[n + 1] = l /\ \A i \in 1 .. n : u[i] = out[i]
          /\ \A i \in 1 .. (n + 1) : InBlock(u, i) <=> InBlock(out, i)
      BY LineMore
    <2> QED BY <2>1, <2>2
  <1> HIDE DEF u, n
  <1>2. ((n + 1) + 1) - 1 = n + 1 /\ (n + 1) - 1 = n
    BY <1>1
  <1>3. ASSUME InBlock(u, (n + 1) + 1) PROVE l = "codex" \/ (l \notin Boundaries /\ InBlock(u, n + 1))
    <2>1. PICK j \in 1 .. (n + 1) : u[j] = "codex" /\ \A k \in (j + 1) .. (n + 1) : u[k] \notin Boundaries
      BY <1>2, <1>3 DEF InBlock
    <2>2. CASE j = n + 1
      BY <1>1, <2>1, <2>2
    <2>3. CASE j # n + 1
      <3>1. j \in 1 .. n /\ n + 1 \in (j + 1) .. (n + 1) /\ \A k \in (j + 1) .. n : k \in (j + 1) .. (n + 1)
        BY <1>1, <2>3
      <3>2. l \notin Boundaries /\ \A k \in (j + 1) .. n : u[k] \notin Boundaries
        BY <1>1, <2>1, <3>1
      <3> QED BY <1>2, <2>1, <3>1, <3>2 DEF InBlock
    <2> QED BY <2>2, <2>3
  <1>4. ASSUME l = "codex" PROVE InBlock(u, (n + 1) + 1)
    <2>1. n + 1 \in 1 .. (n + 1) /\ \A k \in ((n + 1) + 1) .. (n + 1) : FALSE
      BY <1>1
    <2> QED BY <1>1, <1>2, <1>4, <2>1 DEF InBlock
  <1>5. ASSUME l \notin Boundaries, InBlock(u, n + 1) PROVE InBlock(u, (n + 1) + 1)
    <2>1. PICK j \in 1 .. n : u[j] = "codex" /\ \A k \in (j + 1) .. n : u[k] \notin Boundaries
      BY <1>2, <1>5 DEF InBlock
    <2>2. j \in 1 .. (n + 1) /\ \A k \in (j + 1) .. (n + 1) : k = n + 1 \/ k \in (j + 1) .. n
      BY <1>1
    <2>3. \A k \in (j + 1) .. (n + 1) : u[k] \notin Boundaries
      BY <1>1, <1>5, <2>1, <2>2
    <2> QED BY <1>2, <2>1, <2>2, <2>3 DEF InBlock
  <1>6. SaidAt(u, n + 1) <=> l \in Sayings \ Boundaries /\ InBlock(u, n + 1)
    BY <1>1 DEF SaidAt
  <1> QED
    BY <1>1, <1>3, <1>4, <1>5, <1>6 DEF u, n

\* Who has lines in the buffer is in a block.
LEMMA PendingInBlock ==
    ASSUME NEW out \in Seq(Lines), NEW held, NEW b \in 1 .. (Len(out) + 1), Pending(out, b, held), held # <<>>
    PROVE  InBlock(out, Len(out) + 1)
  <1> DEFINE n == Len(out)
  <1>1. n \in Nat /\ b \in 1 .. n /\ OneBlock(out, b, n)
    BY DEF Pending
  <1> HIDE DEF n
  <1>2. PICK j \in 1 .. (b - 1) : out[j] = "codex" /\ \A k \in (j + 1) .. (b - 1) : out[k] \notin Boundaries
    BY <1>1 DEF OneBlock, SaidAt, InBlock
  <1>3. /\ (n + 1) - 1 = n /\ j \in 1 .. n
        /\ \A k \in (j + 1) .. n : k \in (j + 1) .. (b - 1) \/ k \in b .. n
    BY <1>1
  <1>4. \A k \in (j + 1) .. n : out[k] \notin Boundaries
    BY <1>1, <1>2, <1>3 DEF OneBlock
  <1> QED
    BY <1>2, <1>3, <1>4 DEF InBlock, n

\* What a line does to the buffer.
LEMMA LineRead ==
    ASSUME NEW out \in Seq(Lines), NEW l \in Lines, NEW shown \in Seq(Seq(Sayings)), NEW held \in Seq(Sayings),
           NEW b \in 1 .. (Len(out) + 1), Pending(out, b, held), ShownBefore(shown, out, b)
    PROVE  LET u == Append(out, l)
               n == Len(out)
           IN  /\ l \in Boundaries =>
                    Pending(u, (n + 1) + 1, <<>>) /\ ShownBefore(Flushed(shown, held), u, (n + 1) + 1)
               /\ l \notin Boundaries /\ l \in Sayings /\ InBlock(out, n + 1) =>
                    Pending(u, b, Append(held, l)) /\ ShownBefore(shown, u, b)
               /\ l \notin Boundaries /\ ~(l \in Sayings /\ InBlock(out, n + 1)) =>
                    \E c \in 1 .. ((n + 1) + 1) : Pending(u, c, held) /\ ShownBefore(shown, u, c)
  <1> DEFINE u == Append(out, l)
             n == Len(out)
  <1>1. /\ u \in Seq(Lines) /\ Len(u) = n + 1 /\ n \in Nat /\ u[n + 1] = l
        /\ \A i \in 1 .. n : u[i] = out[i]
        /\ \A i \in 1 .. n : SaidAt(u, i) <=> SaidAt(out, i)
    BY LineMore
  <1>2. SaidAt(u, n + 1) <=> l \in Sayings \ Boundaries /\ InBlock(out, n + 1)
    BY BlockMore
  <1>3. ShownBefore(shown, u, b)
    BY ShownFurther
  <1>4. SaidIn(u, b, n + 1) = IF l \in Sayings THEN Append(SaidIn(out, b, n), l) ELSE SaidIn(out, b, n)
    BY <1>1, SaidMore
  <1>5. held = <<>> => b = n + 1
    BY DEF Pending
  <1>6. held # <<>> => b \in 1 .. n /\ OneBlock(out, b, n) /\ held = SaidIn(out, b, n) /\ InBlock(out, n + 1)
    BY PendingInBlock DEF Pending
  <1>7. SaidIn(out, n + 1, n) = <<>>
    <2> DEFINE o == SaidIn(out, n + 1, n)
    <2>1. SubSeq(out, n + 1, n) = <<>> /\ <<>> \in Seq(Lines) /\ Len(<<>>) = 0
      BY <1>1
    <2>2. o \in Seq(Lines \cap Sayings) /\ Len(o) <= 0
      BY <2>1, OnlyIsAList DEF SaidIn
    <2> HIDE DEF o
    <2>3. o = <<>>
      BY <2>2
    <2> QED BY <2>3 DEF o
  <1> HIDE DEF u, n
  <1>8. Pending(u, (n + 1) + 1, <<>>)
    BY <1>1 DEF Pending
  <1>9. ASSUME l \in Boundaries PROVE ShownBefore(Flushed(shown, held), u, (n + 1) + 1)
    <2> DEFINE after == Flushed(shown, held)
    <2>1. ShownBefore(after, out, n + 1)
      BY ShownAfterFlush DEF Flushed, n
    <2>2. after \in Seq(Seq(Sayings))
      BY DEF Flushed
    <2> HIDE DEF after
    <2>3. n + 1 \in 1 .. (Len(out) + 1)
      BY <1>1 DEF n
    <2>4. ShownBefore(after, u, n + 1)
      BY <2>1, <2>2, <2>3, ShownFurther DEF u
    <2>5. \A i \in (n + 1) .. (((n + 1) + 1) - 1) : ~SaidAt(u, i)
      <3>1. \A i \in (n + 1) .. (((n + 1) + 1) - 1) : i = n + 1
        BY <1>1
      <3> QED BY <1>2, <1>9, <3>1
    <2>6. n + 1 \in Nat \ {0} /\ (n + 1) + 1 \in Nat /\ n + 1 <= (n + 1) + 1
      BY <1>1
    <2>7. ShownBefore(after, u, (n + 1) + 1)
      BY <1>1, <2>2, <2>4, <2>5, <2>6, ShownOn
    <2> QED BY <2>7 DEF after
  <1>10. ASSUME l \notin Boundaries, l \in Sayings, InBlock(out, n + 1) PROVE Pending(u, b, Append(held, l))
    <2>1. b \in 1 .. (n + 1)
      BY DEF n
    <2>2. Append(held, l) = SaidIn(u, b, n + 1)
      <3>1. CASE held = <<>>
        BY <1>4, <1>5, <1>7, <1>10, <3>1
      <3>2. CASE held # <<>>
        BY <1>4, <1>6, <1>10, <3>2
      <3> QED BY <3>1, <3>2
    <2>3. Append(held, l) # <<>>
      <3>1. Append(held, l) \in Seq(Sayings) /\ Len(Append(held, l)) = Len(held) + 1 /\ Len(held) \in Nat
        BY <1>10
      <3>2. Len(Append(held, l)) # 0 /\ Len(<<>>) = 0
        BY <3>1
      <3> QED BY <3>2, Zenon
    <2>4. SaidAt(u, b)
      <3>1. CASE held = <<>>
        BY <1>2, <1>5, <1>10, <3>1
      <3>2. CASE held # <<>>
        BY <1>1, <1>6, <3>2 DEF OneBlock
      <3> QED BY <3>1, <3>2
    <2>5. \A k \in b .. (n + 1) : u[k] \notin Boundaries
      <3>1. \A k \in b .. (n + 1) : k = n + 1 \/ (k \in b .. n /\ k \in 1 .. n)
        BY <1>1, <2>1
      <3>2. \A k \in b .. n : k \in 1 .. n /\ out[k] \notin Boundaries
        <4>1. CASE held = <<>>
          BY <1>1, <1>5, <4>1
        <4>2. CASE held # <<>>
          BY <1>1, <1>6, <4>2 DEF OneBlock
        <4> QED BY <4>1, <4>2
      <3> QED BY <1>1, <1>10, <3>1, <3>2
    <2> QED BY <1>1, <2>1, <2>2, <2>3, <2>4, <2>5 DEF Pending, OneBlock
  <1>11. ASSUME l \notin Boundaries, ~(l \in Sayings /\ InBlock(out, n + 1))
         PROVE  \E c \in 1 .. ((n + 1) + 1) : Pending(u, c, held) /\ ShownBefore(shown, u, c)
    <2>1. CASE held = <<>>
      <3>1. b = n + 1 /\ ~SaidAt(u, n + 1)
        BY <1>2, <1>5, <1>11, <2>1
      <3>2. \A i \in b .. (((n + 1) + 1) - 1) : ~SaidAt(u, i)
        <4>1. \A i \in (n + 1) .. (((n + 1) + 1) - 1) : i = n + 1
          BY <1>1
        <4> QED BY <3>1, <4>1
      <3>3. b \in Nat \ {0} /\ (n + 1) + 1 \in Nat /\ b <= (n + 1) + 1 /\ (n + 1) + 1 \in 1 .. ((n + 1) + 1)
        BY <1>1, <3>1
      <3>4. ShownBefore(shown, u, (n + 1) + 1)
        BY <1>1, <1>3, <3>2, <3>3, ShownOn
      <3> QED BY <1>8, <2>1, <3>3, <3>4
    <2>2. CASE held # <<>>
      <3>1. b \in 1 .. n /\ OneBlock(out, b, n) /\ held = SaidIn(out, b, n) /\ l \notin Sayings
        BY <1>6, <1>11, <2>2
      <3>2. b \in 1 .. (n + 1) /\ b \in 1 .. ((n + 1) + 1)
        BY <1>1, <3>1
      <3>3. held = SaidIn(u, b, n + 1)
        BY <1>4, <3>1
      <3>4. SaidAt(u, b)
        BY <1>1, <3>1 DEF OneBlock
      <3>5. \A k \in b .. (n + 1) : u[k] \notin Boundaries
        <4>1. \A k \in b .. (n + 1) : k = n + 1 \/ (k \in b .. n /\ k \in 1 .. n)
          BY <1>1, <3>1
        <4> QED BY <1>1, <1>11, <3>1, <4>1 DEF OneBlock
      <3>6. Pending(u, b, held)
        BY <1>1, <2>2, <3>2, <3>3, <3>4, <3>5 DEF Pending, OneBlock
      <3> QED BY <1>3, <3>2, <3>6
    <2> QED BY <2>1, <2>2
  <1> QED
    BY <1>3, <1>8, <1>9, <1>10, <1>11 DEF u, n

\* What was read of the output is a part of it.
LEMMA TakenIs ==
    ASSUME OutputTypeOK
    PROVE  /\ Taken \in Seq(Lines) /\ Len(Taken) \in Nat
           /\ pulled <= Len(printed) => Taken = SubSeq(printed, 1, pulled) /\ Len(Taken) = pulled
           /\ pulled > Len(printed) => Taken = SubSeq(printed, 1, Len(printed))
  <1> DEFINE e == IF pulled < Len(printed) THEN pulled ELSE Len(printed)
             t == SubSeq(printed, 1, e)
  <1>1. e \in Nat /\ e <= Len(printed) /\ Len(printed) \in Nat /\ pulled \in Nat /\ printed \in Seq(Lines)
    BY DEF OutputTypeOK
  <1>2. (pulled <= Len(printed) => e = pulled) /\ (pulled > Len(printed) => e = Len(printed))
    BY <1>1
  <1> HIDE DEF e
  <1>3. t \in Seq(Lines) /\ Len(t) = e
    <2>1. \A i \in 1 .. e : printed[i] \in Lines
      BY <1>1
    <2> QED BY <1>1, <2>1
  <1>4. Taken = t
    BY DEF Taken, e
  <1> QED
    BY <1>1, <1>2, <1>3, <1>4

\* The monitor reads a line ..
LEMMA TakenNext ==
    ASSUME OutputTypeOK, TakeLine
    PROVE  Taken' = Append(Taken, printed[pulled + 1]) /\ printed[pulled + 1] \in Lines
  <1> DEFINE n == pulled + 1
             t == SubSeq(printed, 1, pulled)
             u == SubSeq(printed, 1, n)
             l == printed[n]
  <1>1. pulled \in Nat /\ n \in Nat /\ n <= Len(printed) /\ Len(printed) \in Nat /\ printed \in Seq(Lines)
    BY DEF OutputTypeOK, TakeLine
  <1>2. Taken = t
    BY <1>1, TakenIs
  <1>3. Taken' = u
    <2>1. pulled' = n /\ printed' = printed
      BY DEF TakeLine
    <2>2. Taken' = SubSeq(printed, 1, IF n < Len(printed) THEN n ELSE Len(printed))
      BY <2>1 DEF Taken
    <2>3. (IF n < Len(printed) THEN n ELSE Len(printed)) = n
      BY <1>1
    <2> QED BY <2>2, <2>3
  <1>4. l \in Lines
    BY <1>1
  <1>5. u = Append(t, l)
    <2> DEFINE v == Append(t, l)
    <2>1. \A i \in 1 .. n : printed[i] \in Lines
      BY <1>1
    <2>2. t \in Seq(Lines) /\ Len(t) = pulled /\ \A i \in 1 .. pulled : t[i] = printed[i]
      BY <1>1, <2>1
    <2>3. u \in Seq(Lines) /\ Len(u) = n /\ \A i \in 1 .. n : u[i] = printed[i]
      BY <1>1, <2>1
    <2> HIDE DEF t, u, n
    <2>4. v \in Seq(Lines) /\ Len(v) = pulled + 1 /\ v[pulled + 1] = l /\ \A i \in 1 .. pulled : v[i] = t[i]
      BY <1>1, <1>4, <2>2
    <2>5. \A i \in 1 .. n : i \in 1 .. pulled \/ i = pulled + 1
      BY <1>1 DEF n
    <2>6. n = pulled + 1
      BY DEF n
    <2>7. \A i \in 1 .. n : u[i] = v[i]
      <3>1. ASSUME NEW i \in 1 .. n PROVE u[i] = v[i]
        <4>1. CASE i \in 1 .. pulled
          BY <2>2, <2>3, <2>4, <4>1
        <4>2. CASE i = pulled + 1
          BY <2>3, <2>4, <2>6, <4>2
        <4> QED BY <2>5, <4>1, <4>2
      <3> QED BY <3>1
    <2>8. Len(v) = n
      BY <2>4, <2>6
    <2> HIDE DEF v
    <2>9. u = v
      BY <2>3, <2>4, <2>7, <2>8
    <2> QED BY <2>9 DEF v
  <1> QED
    BY <1>2, <1>3, <1>4, <1>5

\* .. and nothing else changes what it has read.
LEMMA TakenStays ==
    ASSUME OutputTypeOK, AgentPrints \/ AgentExits \/ Drain \/ TakeNothing \/ PollProcess \/ CheckStop \/ FinalFlush
    PROVE  Taken' = Taken
  <1>1. pulled \in Nat /\ Len(printed) \in Nat /\ drained \in Nat /\ drained <= Len(printed) /\ printed \in Seq(Lines)
    BY DEF OutputTypeOK
  <1>2. CASE AgentPrints
    <2>1. pulled <= Len(printed) /\ pulled' = pulled
      BY <1>1, <1>2 DEF AgentPrints, OutputTypeOK
    <2>2. PICK l \in Lines : printed' = Append(printed, l)
      BY <1>2 DEF AgentPrints
    <2> DEFINE u == Append(printed, l)
    <2>3. u \in Seq(Lines) /\ Len(u) = Len(printed) + 1 /\ \A i \in 1 .. Len(printed) : u[i] = printed[i]
      BY <1>1
    <2> HIDE DEF u
    <2>4. \A i \in 1 .. pulled : u[i] = printed[i]
      BY <1>1, <2>1, <2>3
    <2>5. SubSeq(u, 1, pulled) = SubSeq(printed, 1, pulled)
      BY <1>1, <2>1, <2>3, <2>4
    <2>6. Taken' = SubSeq(u, 1, IF pulled < Len(u) THEN pulled ELSE Len(u))
      BY <2>1, <2>2 DEF Taken, u
    <2>7. (IF pulled < Len(u) THEN pulled ELSE Len(u)) = pulled
      BY <1>1, <2>1, <2>3
    <2> QED BY <2>1, <2>5, <2>6, <2>7, TakenIs
  <1>3. CASE TakeNothing
    <2>1. printed' = printed
      BY <1>3 DEF TakeNothing
    <2>2. CASE pulled' = pulled
      BY <2>1, <2>2 DEF Taken
    <2>3. CASE pulled' # pulled
      <3>1. pulled = Len(printed) /\ pulled' = pulled + 1
        BY <1>3, <2>3 DEF TakeNothing, OutputTypeOK
      <3>2. (IF pulled < Len(printed) THEN pulled ELSE Len(printed)) = (IF pulled' < Len(printed) THEN pulled' ELSE Len(printed))
        BY <1>1, <3>1
      <3> QED BY <2>1, <3>2 DEF Taken
    <2> QED BY <2>2, <2>3
  <1>4. CASE AgentExits \/ Drain \/ PollProcess \/ CheckStop \/ FinalFlush
    <2>1. printed' = printed /\ pulled' = pulled
      BY <1>4 DEF AgentExits, Drain, PollProcess, CheckStop, FinalFlush
    <2> QED BY <2>1 DEF Taken
  <1> QED
    BY <1>2, <1>3, <1>4

\* A flush leaves the last message where it is.
LEMMA LastFlushed ==
    ASSUME NEW shown \in Seq(Seq(Sayings)), NEW held \in Seq(Sayings)
    PROVE  /\ Flushed(shown, held) \in Seq(Seq(Sayings))
           /\ held \in {<<>>, Latest(shown)} => Flushed(shown, held) = shown
           /\ held \notin {<<>>, Latest(shown)} => Flushed(shown, held) = Append(shown, held) /\ Latest(Flushed(shown, held)) = held
  <1> DEFINE more == Append(shown, held)
  <1>1. more \in Seq(Seq(Sayings)) /\ Len(more) = Len(shown) + 1 /\ more[Len(more)] = held /\ Len(shown) \in Nat
    OBVIOUS
  <1>2. more # <<>>
    <2> HIDE DEF more
    <2>1. Len(more) # 0 /\ Len(<<>>) = 0
      BY <1>1
    <2> QED BY <2>1, Zenon
  <1> HIDE DEF more
  <1>3. Latest(more) = held
    BY <1>1, <1>2 DEF Latest
  <1> QED
    BY <1>1, <1>3 DEF Flushed, more

\* What TakeLine does to the extractor.
LEMMA LineKeeps == ASSUME OutputInv, TakeLine PROVE OutputInv'
  <1> DEFINE l == printed[pulled + 1]
             n == Len(Taken)
             u == Append(Taken, l)
  <1>0. OutputTypeOK /\ (block <=> InBlock(Taken, n + 1)) /\ Consume(l) /\ monitor' = "check"
    BY DEF OutputInv, TakeLine
  <1>1. Taken' = u /\ l \in Lines
    BY <1>0, TakenNext
  <1>2. Taken \in Seq(Lines) /\ n \in Nat
    BY <1>0, TakenIs
  <1>3. PICK b \in 1 .. (n + 1) : Pending(Taken, b, buffer) /\ ShownBefore(messages, Taken, b)
    BY DEF OutputInv
  <1>4. buffer \in Seq(Sayings) /\ messages \in Seq(Seq(Sayings)) /\ lastEmitted = Latest(messages) /\ block \in BOOLEAN
    BY <1>0 DEF OutputTypeOK
  <1> HIDE DEF l
  <1>5. u \in Seq(Lines) /\ Len(u) = n + 1
    BY <1>1, <1>2, LineMore
  <1>6. InBlock(u, (n + 1) + 1) <=> l = "codex" \/ (l \notin Boundaries /\ block)
    BY <1>0, <1>1, <1>2, BlockMore
  <1>7. /\ l \in Boundaries =>
              Pending(u, (n + 1) + 1, <<>>) /\ ShownBefore(Flushed(messages, buffer), u, (n + 1) + 1)
        /\ l \notin Boundaries /\ l \in Sayings /\ block =>
              Pending(u, b, Append(buffer, l)) /\ ShownBefore(messages, u, b)
        /\ l \notin Boundaries /\ ~(l \in Sayings /\ block) =>
              \E c \in 1 .. ((n + 1) + 1) : Pending(u, c, buffer) /\ ShownBefore(messages, u, c)
    BY <1>0, <1>1, <1>2, <1>3, <1>4, LineRead
  <1> HIDE DEF u
  <1>8. SUFFICES /\ block' \in BOOLEAN /\ (block' <=> InBlock(u, (n + 1) + 1))
                 /\ buffer' \in Seq(Sayings) /\ messages' \in Seq(Seq(Sayings)) /\ lastEmitted' = Latest(messages')
                 /\ \E c \in 1 .. ((n + 1) + 1) : Pending(u, c, buffer') /\ ShownBefore(messages', u, c)
    <2>1. /\ printed' = printed /\ exited' = exited /\ drained' = drained /\ ended' = ended
          /\ pulled < drained /\ pulled' = pulled + 1
      BY DEF TakeLine
    <2>2. pulled' \in Nat /\ pulled' <= drained
      <3>1. pulled \in Nat /\ drained \in Nat
        BY <1>0 DEF OutputTypeOK
      <3> QED BY <2>1, <3>1
    <2>3. ASSUME block' \in BOOLEAN, buffer' \in Seq(Sayings), messages' \in Seq(Seq(Sayings)), lastEmitted' = Latest(messages')
          PROVE  OutputTypeOK'
      <3>1. lastEmitted' = Latest(messages)'
        BY <2>3 DEF Latest
      <3> QED BY <1>0, <2>1, <2>2, <2>3, <3>1 DEF OutputTypeOK
    <2>4. Len(Taken') = n + 1
      BY <1>1, <1>5
    <2>5. ASSUME NEW c \in 1 .. ((n + 1) + 1), Pending(u, c, buffer'), ShownBefore(messages', u, c)
          PROVE  Pending(Taken, c, buffer)' /\ ShownBefore(messages, Taken, c)'
      <3>1. Pending(Taken, c, buffer)'
        BY <1>1, <2>5, ZenonT(60) DEF Pending, OneBlock, SaidIn, SaidAt, InBlock
      <3>2. ShownBefore(messages, Taken, c)'
        BY <1>1, <2>5, ZenonT(60) DEF ShownBefore, OneBlock, SaidIn, SaidAt, InBlock
      <3> QED BY <3>1, <3>2
    <2> QED BY <1>0, <1>1, <2>3, <2>4, <2>5 DEF OutputInv, InBlock
  <1>9. (n + 1) + 1 \in 1 .. ((n + 1) + 1) /\ b \in 1 .. ((n + 1) + 1)
    BY <1>2
  <1>10. CASE l \in Boundaries
    <2>1. block' = (l = "codex") /\ FlushBuffer
      BY <1>0, <1>10 DEF Consume
    <2>2. buffer' = <<>> /\ messages' = Flushed(messages, buffer)
      BY <1>4, <2>1 DEF FlushBuffer, Flushed
    <2>3. lastEmitted' = Latest(messages') /\ messages' \in Seq(Seq(Sayings))
      BY <1>4, <2>1, <2>2, LastFlushed DEF FlushBuffer
    <2>4. buffer' \in Seq(Sayings) /\ block' \in BOOLEAN
      BY <2>1, <2>2
    <2> QED BY <1>6, <1>7, <1>9, <1>10, <2>1, <2>2, <2>3, <2>4
  <1>11. CASE l \notin Boundaries /\ block /\ l \in Sayings /\ Len(buffer) >= MaxBuffer
    <2> DEFINE full == Append(buffer, l)
    <2>1. block' = block /\ buffer' = <<>>
      BY <1>0, <1>11 DEF Consume
    <2>2. IF full = lastEmitted THEN UNCHANGED <<lastEmitted, messages>>
          ELSE lastEmitted' = full /\ messages' = Append(messages, full)
      BY <1>0, <1>11 DEF Consume
    <2>3. full \in Seq(Sayings) /\ Len(full) = Len(buffer) + 1 /\ Len(buffer) \in Nat
      BY <1>4, <1>11
    <2> HIDE DEF full
    <2>4. full # <<>>
      <3>1. Len(full) # 0 /\ Len(<<>>) = 0
        BY <2>3
      <3> QED BY <3>1, Zenon
    <2>5. messages' = Flushed(messages, full) /\ lastEmitted' = Latest(messages') /\ messages' \in Seq(Seq(Sayings))
      <3>1. /\ Flushed(messages, full) \in Seq(Seq(Sayings))
            /\ full \in {<<>>, Latest(messages)} => Flushed(messages, full) = messages
            /\ full \notin {<<>>, Latest(messages)} =>
                   Flushed(messages, full) = Append(messages, full) /\ Latest(Flushed(messages, full)) = full
        BY <1>4, <2>3, LastFlushed
      <3>2. CASE full = lastEmitted
        BY <1>4, <2>2, <3>1, <3>2
      <3>3. CASE full # lastEmitted
        BY <1>4, <2>2, <2>4, <3>1, <3>3
      <3> QED BY <3>2, <3>3
    <2>6. Pending(u, b, full) /\ ShownBefore(messages, u, b)
      BY <1>7, <1>11 DEF full
    <2>7. ShownBefore(messages', u, (n + 1) + 1)
      <3>1. b \in 1 .. (Len(u) + 1)
        BY <1>5, <1>9
      <3>2. ShownBefore(Flushed(messages, full), u, Len(u) + 1)
        BY <1>4, <1>5, <2>6, <3>1, ShownAfterFlush DEF Flushed
      <3> QED BY <1>5, <2>5, <3>2
    <2>8. Pending(u, (n + 1) + 1, <<>>)
      BY <1>5 DEF Pending
    <2>9. l # "codex" /\ <<>> \in Seq(Sayings)
      BY <1>11 DEF Boundaries
    <2> QED BY <1>4, <1>6, <1>9, <1>11, <2>1, <2>5, <2>7, <2>8, <2>9
  <1>12. CASE l \notin Boundaries /\ ~(block /\ l \in Sayings /\ Len(buffer) >= MaxBuffer)
    <2>1. buffer' = (IF block /\ l \in Sayings THEN Append(buffer, l) ELSE buffer) /\ UNCHANGED <<block, lastEmitted, messages>>
      BY <1>0, <1>12 DEF Consume
    <2>2. l # "codex"
      BY <1>12 DEF Boundaries
    <2>3. buffer' \in Seq(Sayings)
      BY <1>4, <2>1
    <2>4. CASE block /\ l \in Sayings
      BY <1>4, <1>6, <1>7, <1>9, <1>12, <2>1, <2>2, <2>3, <2>4
    <2>5. CASE ~(block /\ l \in Sayings)
      BY <1>4, <1>6, <1>7, <1>9, <1>12, <2>1, <2>2, <2>3, <2>5
    <2> QED BY <2>4, <2>5
  <1> QED
    BY <1>10, <1>11, <1>12

\* The last flush.
LEMMA FinalKeeps == ASSUME OutputInv, FinalFlush PROVE OutputInv'
  <1> DEFINE n == Len(Taken)
  <1>0. OutputTypeOK /\ (block <=> InBlock(Taken, n + 1))
    BY DEF OutputInv
  <1>1. Taken' = Taken /\ Taken \in Seq(Lines) /\ n \in Nat
    BY <1>0, TakenIs, TakenStays
  <1>2. PICK b \in 1 .. (n + 1) : Pending(Taken, b, buffer) /\ ShownBefore(messages, Taken, b)
    BY DEF OutputInv
  <1>3. buffer \in Seq(Sayings) /\ messages \in Seq(Seq(Sayings)) /\ lastEmitted = Latest(messages)
    BY <1>0 DEF OutputTypeOK
  <1>4. FlushBuffer /\ exited' = TRUE /\ UNCHANGED <<printed, drained, ended, pulled, stopped, block>>
    BY DEF FinalFlush
  <1>5. buffer' = <<>> /\ messages' = Flushed(messages, buffer)
    BY <1>3, <1>4 DEF FlushBuffer, Flushed
  <1>6. lastEmitted' = Latest(messages') /\ messages' \in Seq(Seq(Sayings))
    BY <1>3, <1>4, <1>5, LastFlushed DEF FlushBuffer
  <1>7. OutputTypeOK'
    <2>1. lastEmitted' = Latest(messages)'
      BY <1>6 DEF Latest
    <2> QED BY <1>0, <1>4, <1>5, <1>6, <2>1 DEF OutputTypeOK
  <1>8. ShownBefore(messages', Taken, n + 1)
    BY <1>1, <1>2, <1>3, <1>5, ShownAfterFlush DEF Flushed
  <1>9. Pending(Taken, n + 1, buffer') /\ n + 1 \in 1 .. (n + 1)
    BY <1>1, <1>5 DEF Pending
  <1>10. Pending(Taken, n + 1, buffer)' /\ ShownBefore(messages, Taken, n + 1)'
    <2>1. Pending(Taken, n + 1, buffer)'
      BY <1>1, <1>9, ZenonT(60) DEF Pending, OneBlock, SaidIn, SaidAt, InBlock
    <2>2. ShownBefore(messages, Taken, n + 1)'
      BY <1>1, <1>8, ZenonT(60) DEF ShownBefore, OneBlock, SaidIn, SaidAt, InBlock
    <2> QED BY <2>1, <2>2
  <1>11. block' <=> InBlock(Taken, n + 1)'
    BY <1>0, <1>1, <1>4 DEF InBlock
  <1> QED
    BY <1>1, <1>5, <1>7, <1>9, <1>10, <1>11 DEF OutputInv

\* What is read and what is shown are so of the values, whoever changes others.
LEMMA SamePlaces ==
    ASSUME Taken' = Taken, buffer' = buffer, messages' = messages, NEW b \in 1 .. (Len(Taken) + 1),
           Pending(Taken, b, buffer), ShownBefore(messages, Taken, b)
    PROVE  Pending(Taken, b, buffer)' /\ ShownBefore(messages, Taken, b)'
  <1>1. Pending(Taken, b, buffer)'
    BY DEF Pending, OneBlock, SaidIn, SaidAt, InBlock
  <1>2. ShownBefore(messages', Taken', b)
    OBVIOUS
  <1>3. ShownBefore(messages, Taken, b)'
    BY <1>2, Zenon DEF ShownBefore, OneBlock, SaidIn, SaidAt, InBlock
  <1> QED
    BY <1>1, <1>3

\* The steps that the extractor does not see.
LEMMA OthersKeep ==
    ASSUME OutputInv, AgentPrints \/ AgentExits \/ Drain \/ TakeNothing \/ PollProcess \/ CheckStop
    PROVE  OutputInv'
  <1>0. OutputTypeOK
    BY DEF OutputInv
  <1>1. Taken' = Taken
    BY <1>0, TakenStays
  <1>2. UNCHANGED <<block, buffer, lastEmitted, messages>>
    BY DEF AgentPrints, AgentExits, Drain, TakeNothing, PollProcess, CheckStop, extractorVars
  <1>3. monitor' = "done" => monitor = "done"
    BY DEF AgentPrints, AgentExits, Drain, TakeNothing, PollProcess, CheckStop
  <1>4. lastEmitted' = Latest(messages)'
    BY <1>0, <1>2 DEF OutputTypeOK, Latest
  <1>5. pulled \in Nat /\ Len(printed) \in Nat /\ drained \in Nat /\ drained <= Len(printed) /\ printed \in Seq(Lines)
    BY <1>0 DEF OutputTypeOK
  <1>6. OutputTypeOK'
    <2>1. CASE AgentPrints
      <3>1. PICK l \in Lines : printed' = Append(printed, l)
        BY <2>1 DEF AgentPrints
      <3>2. printed' \in Seq(Lines) /\ Len(printed') = Len(printed) + 1
        BY <1>5, <3>1
      <3>3. drained' \in 0 .. Len(printed')
        BY <1>5, <2>1, <3>2 DEF AgentPrints
      <3>4. ~ended /\ UNCHANGED <<exited, drained, ended, pulled>>
        BY <1>0, <2>1 DEF AgentPrints, OutputTypeOK
      <3> QED BY <1>0, <1>2, <1>4, <3>2, <3>3, <3>4 DEF OutputTypeOK
    <2>2. CASE AgentExits
      BY <1>0, <1>2, <1>4, <2>2 DEF AgentExits, OutputTypeOK
    <2>3. CASE Drain
      <3>1. /\ printed' = printed /\ exited' = exited /\ pulled' = pulled /\ ~ended
            /\ \/ drained < Len(printed) /\ drained' = drained + 1 /\ ended' = ended
               \/ exited /\ drained = Len(printed) /\ ended' = TRUE /\ drained' = drained
        BY <2>3 DEF Drain
      <3>2. /\ drained' \in 0 .. Len(printed) /\ ended' \in BOOLEAN /\ pulled <= drained'
            /\ ended' => exited /\ drained' = Len(printed)
        <4>1. pulled <= drained
          BY <1>0, <3>1 DEF OutputTypeOK
        <4>2. CASE drained < Len(printed) /\ drained' = drained + 1 /\ ended' = ended
          <5>1. drained' \in 0 .. Len(printed) /\ pulled <= drained'
            BY <1>5, <4>1, <4>2
          <5>2. ended' \in BOOLEAN /\ ~ended'
            BY <1>0, <3>1, <4>2 DEF OutputTypeOK
          <5> QED BY <5>1, <5>2
        <4>3. CASE exited /\ drained = Len(printed) /\ ended' = TRUE /\ drained' = drained
          <5>1. drained' \in 0 .. Len(printed) /\ pulled <= drained'
            BY <1>5, <4>1, <4>3
          <5> QED BY <4>3, <5>1
        <4> QED BY <3>1, <4>2, <4>3
      <3> QED BY <1>0, <1>2, <1>4, <3>1, <3>2 DEF OutputTypeOK
    <2>4. CASE TakeNothing
      <3>1. /\ printed' = printed /\ exited' = exited /\ drained' = drained /\ ended' = ended
            /\ pulled' = IF ended /\ pulled = drained THEN pulled + 1 ELSE pulled
        BY <2>4 DEF TakeNothing
      <3>2. pulled' \in Nat /\ (pulled' <= drained \/ (ended /\ pulled' = drained + 1))
        BY <1>0, <1>5, <3>1 DEF OutputTypeOK
      <3> QED BY <1>0, <1>2, <1>4, <3>1, <3>2 DEF OutputTypeOK
    <2>5. CASE PollProcess \/ CheckStop
      <3>1. UNCHANGED <<printed, exited, drained, ended, pulled>>
        BY <2>5 DEF PollProcess, CheckStop
      <3> QED BY <1>0, <1>2, <1>4, <3>1 DEF OutputTypeOK
    <2> QED BY <2>1, <2>2, <2>3, <2>4, <2>5
  <1>7. block' <=> InBlock(Taken, Len(Taken) + 1)'
    BY <1>1, <1>2 DEF OutputInv, InBlock
  <1>8. PICK b \in 1 .. (Len(Taken) + 1) : Pending(Taken, b, buffer) /\ ShownBefore(messages, Taken, b)
    BY DEF OutputInv
  <1>9. Pending(Taken, b, buffer)' /\ ShownBefore(messages, Taken, b)'
    BY <1>1, <1>2, <1>8, SamePlaces
  <1>10. monitor' = "done" => buffer' = <<>>
    BY <1>2, <1>3 DEF OutputInv
  <1>11. b \in 1 .. (Len(Taken') + 1)
    BY <1>1
  <1> QED
    BY <1>6, <1>7, <1>9, <1>10, <1>11 DEF OutputInv

LEMMA OutputInitially == OutputInit => OutputInv
  <1> SUFFICES ASSUME OutputInit PROVE OutputInv
    OBVIOUS
  <1>1. /\ printed = <<>> /\ exited = FALSE /\ drained = 0 /\ ended = FALSE /\ pulled = 0 /\ monitor = "get"
        /\ block = FALSE /\ buffer = <<>> /\ lastEmitted = <<>> /\ messages = <<>>
    BY DEF OutputInit
  <1>2. OutputTypeOK
    <2>1. <<>> \in Seq(Lines) /\ <<>> \in Seq(Sayings) /\ <<>> \in Seq(Seq(Sayings)) /\ Len(<<>>) = 0 /\ 0 \in 0 .. 0
      OBVIOUS
    <2>2. printed \in Seq(Lines) /\ drained \in 0 .. Len(printed) /\ buffer \in Seq(Sayings) /\ messages \in Seq(Seq(Sayings))
      BY <1>1, <2>1
    <2>3. lastEmitted = Latest(messages)
      BY <1>1 DEF Latest
    <2>4. pulled \in Nat /\ pulled <= drained
      BY <1>1
    <2> QED BY <1>1, <2>2, <2>3, <2>4 DEF OutputTypeOK
  <1>3. Taken \in Seq(Lines) /\ Len(Taken) = 0
    <2>1. pulled <= Len(printed)
      BY <1>1
    <2> QED BY <1>1, <1>2, <2>1, TakenIs
  <1>4. ~InBlock(Taken, Len(Taken) + 1)
    BY <1>3 DEF InBlock
  <1>5. Pending(Taken, 1, buffer) /\ 1 \in 1 .. (Len(Taken) + 1)
    BY <1>1, <1>3 DEF Pending
  <1>6. ShownBefore(messages, Taken, 1)
    <2>1. DOMAIN messages = {} /\ \A i \in 1 .. (1 - 1) : FALSE
      BY <1>1
    <2>2. [m \in {} |-> m] \in [DOMAIN messages -> 1 .. (1 - 1)]
      BY <2>1
    <2> QED BY <2>1, <2>2 DEF ShownBefore
  <1> QED
    BY <1>1, <1>2, <1>4, <1>5, <1>6 DEF OutputInv

\* What an agent says in its codex blocks is shown, whole, once and in order,
\* whenever the monitor has read it and however it stops.
THEOREM SayingsAreShown == OutputSpec => []OutputIsShown
  <1>1. ASSUME OutputInv PROVE OutputIsShown
    <2>1. PICK b \in 1 .. (Len(Taken) + 1) : Pending(Taken, b, buffer) /\ ShownBefore(messages, Taken, b)
      BY <1>1 DEF OutputInv
    <2>2. monitor = "done" => b = Len(Taken) + 1
      BY <1>1, <2>1 DEF OutputInv, Pending
    <2> QED BY <2>1, <2>2 DEF OutputIsShown
  <1>2. ASSUME OutputInv, OutputNext PROVE OutputInv'
    BY <1>2, LineKeeps, FinalKeeps, OthersKeep DEF OutputNext
  <1>3. ASSUME OutputInv, UNCHANGED outputVars PROVE OutputInv'
    <2>1. UNCHANGED <<printed, exited, drained, ended, pulled, monitor, block, buffer, lastEmitted, messages>>
      BY <1>3 DEF outputVars
    <2>2. OutputTypeOK' /\ Taken' = Taken
      BY <1>3, <2>1 DEF OutputInv, OutputTypeOK, Latest, Taken
    <2>3. (block' <=> InBlock(Taken, Len(Taken) + 1)') /\ (monitor' = "done" => buffer' = <<>>)
      BY <1>3, <2>1, <2>2 DEF OutputInv, InBlock
    <2>4. PICK b \in 1 .. (Len(Taken) + 1) : Pending(Taken, b, buffer) /\ ShownBefore(messages, Taken, b)
      BY <1>3 DEF OutputInv
    <2>5. Pending(Taken, b, buffer)' /\ ShownBefore(messages, Taken, b)'
      BY <2>1, <2>2, <2>4, SamePlaces
    <2> QED BY <2>2, <2>3, <2>4, <2>5 DEF OutputInv
  <1>4. OutputInv /\ [OutputNext]_outputVars => OutputInv'
    BY <1>2, <1>3
  <1> QED
    BY OutputInitially, <1>1, <1>4, PTL DEF OutputSpec

---------------------------------------------------------------------------
(* ChatTransport, for messages and limits of every size.  The cut that is   *)
(* taken comes no later than the last of those that leave a section, which  *)
(* fits.                                                                    *)

Sums(f, q) == f = [i \in 0 .. Len(q) |-> IF i = 0 THEN 0 ELSE f[i - 1] + q[i]]
\* What the places of a list of at most one length add up to.
LEMMA SumOfFew ==
    ASSUME NEW q \in Seq(Nat), Len(q) <= 1
    PROVE  SumOf(q) = IF Len(q) = 0 THEN 0 ELSE q[1]
  <1>1. Len(q) = 0 \/ (Len(q) = 1 /\ q[1] \in Nat)
    <2>1. Len(q) \in Nat
      OBVIOUS
    <2>2. Len(q) = 1 => q[1] \in Nat
      <3>1. \A i \in 1 .. Len(q) : q[i] \in Nat
        OBVIOUS
      <3>2. Len(q) = 1 => 1 \in 1 .. Len(q)
        OBVIOUS
      <3> QED BY <3>1, <3>2
    <2> QED BY <2>1, <2>2, SMTT(60)
  <1>2. \E f : Sums(f, q)
    <2> DEFINE g == [i \in 0 .. Len(q) |-> IF i = 0 THEN 0 ELSE q[1]]
    <2>1. CASE Len(q) = 0
      <3>1. 0 .. Len(q) = {0}
        BY <2>1
      <3>2. g = [i \in {0} |-> IF i = 0 THEN 0 ELSE g[i - 1] + q[i]]
        BY <3>1
      <3> QED BY <3>1, <3>2 DEF Sums
    <2>2. CASE Len(q) = 1
      <3>1. 0 .. Len(q) = {0, 1}
        BY <2>2
      <3>2. g = [i \in {0, 1} |-> IF i = 0 THEN 0 ELSE g[i - 1] + q[i]]
        <4>1. g[0] = 0 /\ g[1] = q[1] /\ g = [i \in {0, 1} |-> IF i = 0 THEN 0 ELSE q[1]]
          BY <3>1
        <4>2. g[0] + q[1] = q[1] /\ 1 - 1 = 0
          BY <1>1, <2>2, <4>1
        <4> HIDE DEF g
        <4>3. \A i \in {0, 1} : (IF i = 0 THEN 0 ELSE q[1]) = (IF i = 0 THEN 0 ELSE g[i - 1] + q[i])
          BY <4>2
        <4> QED BY <4>1, <4>3
      <3> QED BY <3>1, <3>2 DEF Sums
    <2> QED BY <1>1, <2>1, <2>2
  <1> DEFINE h == CHOOSE f : Sums(f, q)
  <1>3. Sums(h, q)
    BY <1>2
  <1>4. SumOf(q) = h[Len(q)]
    BY DEF SumOf, Sums
  <1> HIDE DEF h
  <1>5. h[0] = 0 /\ (Len(q) = 1 => h[1] = h[1 - 1] + q[1])
    BY <1>1, <1>3 DEF Sums
  <1>6. 1 - 1 = 0
    OBVIOUS
  <1> QED
    BY <1>1, <1>4, <1>5, <1>6

LEMMA FewAddUp ==
    ASSUME NEW q \in Seq(Nat), Len(q) <= 1, NEW b \in Nat, \A i \in 1 .. Len(q) : q[i] <= b
    PROVE  Len(q) \in {0, 1} /\ SumOf(q) \in Nat /\ SumOf(q) <= b
  <1>1. Len(q) \in Nat
    OBVIOUS
  <1>2. \A i \in 1 .. Len(q) : q[i] \in Nat
    OBVIOUS
  <1>3. SumOf(q) = IF Len(q) = 0 THEN 0 ELSE q[1]
    BY SumOfFew
  <1>4. CASE Len(q) = 0
    BY <1>3, <1>4
  <1>5. CASE Len(q) = 1
    <2>1. 1 \in 1 .. Len(q)
      BY <1>5
    <2>2. q[1] \in Nat /\ q[1] <= b
      BY <1>2, <2>1
    <2> QED BY <1>3, <1>5, <2>2
  <1>6. Len(q) = 0 \/ Len(q) = 1
    <2> DEFINE n == Len(q)
    <2>1. n \in Nat /\ n <= 1
      BY <1>1
    <2> HIDE DEF n
    <2>2. n = 0 \/ n = 1
      BY <2>1
    <2> QED BY <2>2 DEF n
  <1> QED
    BY <1>4, <1>5, <1>6, Zenon

LEMMA SmallMessage ==
    ASSUME NEW r, r.results = 0, r.notes = 0, r.agenda = 0, r.output \in Nat, r.summary \in Nat, r.summary <= 90,
           Len(r.sections) \in {0, 1}, SumOf(r.sections) \in Nat, SumOf(r.sections) <= 180
    PROVE  Size(r) \in Nat /\ Size(r) <= 900
  <1>1. r.results * (PerEntry + r.output) = 0 /\ (r.notes + r.agenda) * PerEntry = 0
    BY DEF PerEntry
  <1>2. PerSection * Len(r.sections) \in Nat /\ PerSection * Len(r.sections) <= 87
    <2>1. CASE Len(r.sections) = 0
      BY <2>1 DEF PerSection
    <2>2. CASE Len(r.sections) = 1
      BY <2>2 DEF PerSection
    <2> QED BY <2>1, <2>2, Zenon
  <1>3. Size(r) = 325 + r.summary + SumOf(r.sections) + PerSection * Len(r.sections) + 0 + 0
    BY <1>1, Zenon DEF Size, Frame
  <1> QED
    BY <1>2, <1>3, SMTT(60)

\* How messages are, whatever the bounds.
Message(e) ==
    /\ e.summary \in Nat /\ e.sections \in Seq(Nat) /\ e.output \in Nat
    /\ e.results \in Nat /\ e.notes \in Nat /\ e.agenda \in Nat

LEMMA EnvelopesAreMessages == \A e \in Envelopes : Message(e)
  <1> SUFFICES ASSUME NEW e \in Envelopes PROVE Message(e)
    OBVIOUS
  <1>1. /\ e.summary \in BodyLengths /\ e.output \in BodyLengths
        /\ e.results \in {0, MaxListed} /\ e.notes \in {0, MaxListed} /\ e.agenda \in {0, MaxListed}
        /\ e.sections \in {<<>>} \cup {[i \in 1 .. n |-> b] : n \in {1, MaxListed}, b \in BodyLengths}
    BY DEF Envelopes
  <1>2. ASSUME NEW n \in {1, MaxListed}, NEW b \in BodyLengths PROVE [i \in 1 .. n |-> b] \in Seq(Nat)
    <2>1. n \in Nat /\ b \in Nat
      BY LengthAssumption
    <2> QED BY <2>1
  <1> DEFINE list == e.sections
  <1>3. list \in Seq(Nat)
    <2>1. list \in {<<>>} \cup {[i \in 1 .. n |-> b] : n \in {1, MaxListed}, b \in BodyLengths}
      BY <1>1
    <2> HIDE DEF list
    <2>2. CASE list = <<>>
      BY <2>2
    <2>3. CASE list # <<>>
      <3>1. PICK n \in {1, MaxListed}, b \in BodyLengths : list = [i \in 1 .. n |-> b]
        BY <2>1, <2>3
      <3> QED BY <1>2, <3>1
    <2> QED BY <2>2, <2>3
  <1>4. e.results \in Nat /\ e.notes \in Nat /\ e.agenda \in Nat /\ e.summary \in Nat /\ e.output \in Nat
    <2>1. /\ e.summary \in BodyLengths /\ e.output \in BodyLengths
          /\ e.results \in {0, MaxListed} /\ e.notes \in {0, MaxListed} /\ e.agenda \in {0, MaxListed}
      BY <1>1
    <2>2. e.results \in Nat /\ e.notes \in Nat /\ e.agenda \in Nat
      BY <2>1, LengthAssumption
    <2>3. e.summary \in Nat /\ e.output \in Nat
      BY <2>1, LengthAssumption
    <2> QED BY <2>2, <2>3
  <1> QED
    BY <1>3, <1>4 DEF Message

\* The last cut that leaves a section, and what comes of any message by it.
LastTry == [sections |-> 4, items |-> 5, agenda |-> 4, body |-> 6]

LEMMA Loops == /\ DOMAIN SectionCounts = 1 .. 5 /\ DOMAIN ItemCounts = 1 .. 5 /\ DOMAIN AgendaCounts = 1 .. 4
  BY DEF SectionCounts, ItemCounts, AgendaCounts

LEMMA LastTryIs ==
    /\ LastTry \in Tries
    /\ \A max : CutOf(LastTry, max) = [sections |-> 1, items |-> 0, agenda |-> 0, body |-> 180]
  <1>1. LastTry \in Tries
    <2>1. 4 \in DOMAIN SectionCounts /\ 5 \in DOMAIN ItemCounts /\ 4 \in DOMAIN AgendaCounts /\ 6 \in 1 .. 6
      BY Loops
    <2> QED BY <2>1 DEF LastTry, Tries
  <1>2. SectionCounts[4] = 1 /\ ItemCounts[5] = 0 /\ AgendaCounts[4] = 0 /\ \A max : BodyBudgets(max)[6] = 180
    BY DEF SectionCounts, ItemCounts, AgendaCounts, BodyBudgets
  <1>3. LastTry.sections = 4 /\ LastTry.items = 5 /\ LastTry.agenda = 4 /\ LastTry.body = 6
    BY DEF LastTry
  <1> QED
    BY <1>1, <1>2, <1>3 DEF CutOf

\* Each cut leaves at least 180 characters of a section, and one that is tried
\* no later than the last that leaves one leaves one.
LEMMA CutsAreSparing ==
    ASSUME NEW max \in Nat, NEW try \in Tries
    PROVE  /\ CutOf(try, max).sections \in Nat /\ CutOf(try, max).body \in Nat /\ CutOf(try, max).body >= 180
           /\ Turn(try) \in Nat
           /\ Turn(try) <= Turn(LastTry) => CutOf(try, max).sections >= 1
  <1>1. /\ try.sections \in 1 .. 5 /\ try.items \in 1 .. 5 /\ try.agenda \in 1 .. 4 /\ try.body \in 1 .. 6
    <2>1. try.sections \in DOMAIN SectionCounts /\ try.items \in DOMAIN ItemCounts /\ try.agenda \in DOMAIN AgendaCounts /\ try.body \in 1 .. 6
      BY DEF Tries
    <2> QED BY <2>1, Loops
  <1>2. /\ max \div 2 \in Int /\ max \div 3 \in Int
    OBVIOUS
  <1>3. \A i \in 1 .. 6 : BodyBudgets(max)[i] \in Nat /\ BodyBudgets(max)[i] >= 180
    BY <1>2 DEF BodyBudgets, AtLeast
  <1>4. \A i \in 1 .. 5 : SectionCounts[i] \in Nat /\ (i <= 4 => SectionCounts[i] >= 1)
    BY DEF SectionCounts
  <1>5. /\ CutOf(try, max).sections = SectionCounts[try.sections]
        /\ CutOf(try, max).body = BodyBudgets(max)[try.body]
    BY DEF CutOf
  <1>6. Turn(LastTry) = 630
    BY DEF Turn, LastTry
  <1>7. Turn(try) \in Nat /\ (Turn(try) <= 630 => try.sections <= 4)
    BY <1>1, SMTT(60) DEF Turn
  <1> QED
    BY <1>1, <1>3, <1>4, <1>5, <1>6, <1>7

LEMMA LastTryFits ==
    ASSUME NEW e, Message(e), NEW max
    PROVE  Size(Compacted(e, CutOf(LastTry, max))) \in Nat /\ Size(Compacted(e, CutOf(LastTry, max))) <= 900
  <1> DEFINE c == [sections |-> 1, items |-> 0, agenda |-> 0, body |-> 180]
             q == [i \in 1 .. AtMost(Len(e.sections), 1) |-> AtMost(e.sections[i], 180)]
  <1>1. CutOf(LastTry, max) = c
    BY LastTryIs
  <1>2. /\ e.summary \in Nat /\ e.sections \in Seq(Nat)
        /\ e.results \in Nat /\ e.notes \in Nat /\ e.agenda \in Nat /\ e.output \in Nat
    BY DEF Message
  <1>3. Compacted(e, c) = [summary |-> AtMost(e.summary, 90), sections |-> q, results |-> 0,
                           output |-> AtMost(e.output, 180), notes |-> 0, agenda |-> 0]
    <2>1. 180 \div 2 = 90
      OBVIOUS
    <2>2. AtMost(280, IF c.body \div 2 < 80 THEN 80 ELSE c.body \div 2) = 90
      BY <2>1 DEF AtMost
    <2>3. AtMost(e.results, 0) = 0 /\ AtMost(e.notes, 0) = 0 /\ AtMost(e.agenda, 0) = 0
      BY <1>2 DEF AtMost
    <2> QED BY <2>2, <2>3, ZenonT(60) DEF Compacted, Truncated
  <1>4. q \in Seq(Nat) /\ Len(q) <= 1 /\ \A i \in 1 .. Len(q) : q[i] <= 180
    <2>1. Len(e.sections) \in Nat /\ \A i \in 1 .. Len(e.sections) : e.sections[i] \in Nat
      BY <1>2
    <2>2. AtMost(Len(e.sections), 1) \in Nat /\ AtMost(Len(e.sections), 1) <= 1 /\ AtMost(Len(e.sections), 1) <= Len(e.sections)
      BY <2>1 DEF AtMost
    <2>3. \A i \in 1 .. AtMost(Len(e.sections), 1) : AtMost(e.sections[i], 180) \in Nat /\ AtMost(e.sections[i], 180) <= 180
      BY <2>1, <2>2 DEF AtMost
    <2>4. q \in Seq(Nat) /\ Len(q) = AtMost(Len(e.sections), 1)
      BY <2>2, <2>3
    <2>5. \A i \in 1 .. Len(q) : q[i] \in Nat /\ q[i] <= 180
      BY <2>3, <2>4
    <2> HIDE DEF q
    <2> QED BY <2>2, <2>4, <2>5
  <1> HIDE DEF q
  <1>5. Len(q) \in {0, 1} /\ SumOf(q) \in Nat /\ SumOf(q) <= 180
    BY <1>4, FewAddUp
  <1>6. AtMost(e.summary, 90) \in Nat /\ AtMost(e.summary, 90) <= 90 /\ AtMost(e.output, 180) \in Nat
    BY <1>2 DEF AtMost
  <1> DEFINE r == Compacted(e, c)
  <1>7. /\ r.summary = AtMost(e.summary, 90) /\ r.sections = q /\ r.results = 0
        /\ r.output = AtMost(e.output, 180) /\ r.notes = 0 /\ r.agenda = 0
    BY <1>3
  <1> HIDE DEF r
  <1>8. Size(r) \in Nat /\ Size(r) <= 900
    BY <1>5, <1>6, <1>7, SmallMessage
  <1> QED
    BY <1>1, <1>8 DEF r

\* The first cut that fits leaves a section: the last that leaves one fits.
LEMMA FirstFitKeeps ==
    ASSUME NEW e, Message(e), NEW max \in Nat, max >= 900, e.sections # <<>>, ~(Size(e) <= max)
    PROVE  /\ Size(Fitted(e, max)) <= max
           /\ Fitted(e, max).sections # <<>>
           /\ Fitted(e, max).sections[1] >= AtMost(e.sections[1], 180)
  <1> DEFINE fits == Fitting(e, max)
             turns == {Turn(t) : t \in fits}
             first == CHOOSE t \in fits : \A u \in fits : Turn(t) <= Turn(u)
             size(t) == Size(Compacted(e, CutOf(t, max)))
  <1>1. LastTry \in fits
    <2>1. size(LastTry) <= max
      <3>1. size(LastTry) <= 900 /\ size(LastTry) \in Nat
        BY LastTryFits
      <3> QED BY <3>1
    <2> QED BY <2>1, LastTryIs DEF Fitting
  <1>2. fits \subseteq Tries
    BY DEF Fitting
  <1>3. \E t \in fits : \A u \in fits : Turn(t) <= Turn(u)
    <2>1. turns \in SUBSET Nat
      BY <1>2, CutsAreSparing
    <2>2. Turn(LastTry) \in turns
      BY <1>1, Zenon
    <2>3. PICK m \in turns : \A y \in turns : m <= y
      <3>1. turns # {}
        BY <2>2, Zenon
      <3>2. \A T \in SUBSET Nat : T # {} => \E m \in T : \A y \in T : m <= y
        BY LeastOf, Zenon
      <3> QED BY <2>1, <3>1, <3>2, Zenon
    <2> QED BY <2>3
  <1>4. first \in fits /\ Turn(first) <= Turn(LastTry)
    <2>1. first \in fits /\ \A u \in fits : Turn(first) <= Turn(u)
      BY <1>3, Zenon
    <2> QED BY <1>1, <2>1, Zenon
  <1>5. Fitted(e, max) = Compacted(e, CutOf(first, max))
    BY <1>1, Zenon DEF Fitted
  <1> HIDE DEF first
  <1> DEFINE c == CutOf(first, max)
             q == [i \in 1 .. AtMost(Len(e.sections), c.sections) |-> AtMost(e.sections[i], c.body)]
  <1>6. Size(Compacted(e, c)) <= max
    <2>1. \A t \in fits : size(t) <= max
      BY DEF Fitting
    <2> QED BY <1>4, <2>1, Zenon
  <1>7. Compacted(e, c).sections = q
    BY DEF Compacted, Truncated
  <1>8. c.sections \in Nat /\ c.body \in Nat /\ c.body >= 180 /\ c.sections >= 1
    BY <1>2, <1>4, CutsAreSparing
  <1>9. e.sections \in Seq(Nat)
    BY DEF Message
  <1> HIDE DEF c
  <1>10. Len(e.sections) \in Nat /\ Len(e.sections) >= 1 /\ e.sections[1] \in Nat
    <2>1. Len(e.sections) \in Nat /\ Len(e.sections) # 0
      BY <1>9
    <2>2. \A i \in 1 .. Len(e.sections) : e.sections[i] \in Nat
      BY <1>9
    <2>3. 1 \in 1 .. Len(e.sections)
      BY <2>1
    <2> QED BY <2>1, <2>2, <2>3
  <1>11. 1 \in 1 .. AtMost(Len(e.sections), c.sections)
    BY <1>8, <1>10 DEF AtMost
  <1>12. 1 \in DOMAIN q /\ q[1] = AtMost(e.sections[1], c.body)
    BY <1>11
  <1>13. AtMost(e.sections[1], c.body) >= AtMost(e.sections[1], 180)
    BY <1>8, <1>10 DEF AtMost
  <1>14. q # <<>>
    <2>1. DOMAIN <<>> = {}
      OBVIOUS
    <2> QED BY <1>12, <2>1, Zenon
  <1> HIDE DEF q
  <1> QED
    BY <1>5, <1>6, <1>7, <1>12, <1>13, <1>14 DEF c

\* However much a message holds beside it, its first section is sent, or the
\* first 180 characters of it, under the limit of the repository's test and
\* under every higher one.
LEMMA SectionIsSent ==
    ASSUME NEW e, Message(e), NEW max \in Nat, max >= 900, e.sections # <<>>
    PROVE  /\ Transported(e, max).json
           /\ Transported(e, max).sections # <<>>
           /\ Transported(e, max).sections[1] >= AtMost(e.sections[1], 180)
  <1>1. Size(Fitted(e, max)) <= max
    BY FirstFitKeeps DEF Fitted
  <1>2. Fitted(e, max).sections # <<>> /\ Fitted(e, max).sections[1] >= AtMost(e.sections[1], 180)
    <2>1. CASE Size(e) <= max
      <3>1. Fitted(e, max) = e
        BY <2>1 DEF Fitted
      <3>2. e.sections[1] \in Nat
        <4>1. e.sections \in Seq(Nat)
          BY DEF Message
        <4>2. \A i \in 1 .. Len(e.sections) : e.sections[i] \in Nat
          BY <4>1
        <4>3. Len(e.sections) \in Nat /\ Len(e.sections) # 0
          BY <4>1
        <4> QED BY <4>2, <4>3
      <3>3. e.sections[1] >= AtMost(e.sections[1], 180)
        BY <3>2 DEF AtMost
      <3> QED BY <3>1, <3>3
    <2> QED BY <2>1, FirstFitKeeps
  <1>3. Transported(e, max) = [size |-> Size(Fitted(e, max)), json |-> TRUE, sections |-> Fitted(e, max).sections]
    BY <1>1, Zenon DEF Transported
  <1> QED
    BY <1>2, <1>3

\* From the limit of the repository's test on a message arrives as JSON with
\* the beginning of its first section, for messages and limits of any size.
THEOREM FirstSectionStays == TransportSpec => []FirstSectionIsKept
  <1> DEFINE Kept == limit \in Nat /\ FirstSectionIsKept
  <1>1. TransportInit => Kept
    BY DEF TransportInit, FirstSectionIsKept
  <1>2. Kept /\ [TransportNext]_transportVars => Kept'
    <2> SUFFICES ASSUME Kept, [TransportNext]_transportVars PROVE Kept'
      OBVIOUS
    <2>1. CASE TransportNext
      <3>1. PICK e \in Envelopes, max \in EventLimits :
               original' = e /\ limit' = max /\ sent' = Transported(e, max)
        BY <2>1 DEF TransportNext, Transport
      <3>2. Message(e) /\ max \in Nat
        BY EnvelopesAreMessages, EventLimitAssumption
      <3>3. max >= 900 /\ e.sections # <<>> =>
               /\ Transported(e, max).json
               /\ Transported(e, max).sections # <<>>
               /\ Transported(e, max).sections[1] >= AtMost(e.sections[1], 180)
        BY <3>2, SectionIsSent
      <3>4. FirstSectionIsKept'
        BY <3>1, <3>3 DEF FirstSectionIsKept
      <3> QED BY <3>1, <3>2, <3>4
    <2>2. CASE UNCHANGED transportVars
      BY <2>2 DEF transportVars, FirstSectionIsKept
    <2> QED BY <2>1, <2>2
  <1> QED
    BY <1>1, <1>2, PTL DEF TransportSpec

---------------------------------------------------------------------------
(* ChatFindings, for lists of any length and every limit: what is found in  *)
(* the text of an assistant, whatever lines it has, whatever summary is     *)
(* made of them, and whatever the agent states itself.                      *)

\* The lists of q up to each, one after the other.
Flattens(f, q, n) == f = [i \in 1 .. n |-> IF i = 1 THEN q[i] ELSE f[i - 1] \o q[i]]

\* A list of lists is flattened one list at a time.
LEMMA FlattenIs ==
    ASSUME NEW S, NEW q \in Seq(Seq(S)), Len(q) # 0
    PROVE  \E f : FlattenSeq(q) = f[Len(q)] /\ Flattens(f, q, Len(q))
  <1> DEFINE T == {n \in 1 .. Len(q) : ~ \E f : Flattens(f, q, n)}
             N == Len(q)
  <1>1. N \in Nat /\ N >= 1
    OBVIOUS
  <1>2. T = {}
    <2> SUFFICES ASSUME T # {} PROVE FALSE
      OBVIOUS
    <2>1. PICK m \in T : \A y \in T : m <= y
      <3>1. T \in SUBSET Nat
        OBVIOUS
      <3> HIDE DEF T
      <3> QED BY <3>1, LeastOf
    <2>2. m \in 1 .. N
      OBVIOUS
    <2>3. CASE m = 1
      <3> DEFINE f == [i \in 1 .. 1 |-> q[i]]
      <3>1. f = [i \in 1 .. 1 |-> IF i = 1 THEN q[i] ELSE f[i - 1] \o q[i]]
        OBVIOUS
      <3>2. Flattens(f, q, m)
        BY <2>3, <3>1 DEF Flattens
      <3> QED BY <3>2
    <2>4. CASE m # 1
      <3>1. m - 1 \in 1 .. N /\ m - 1 \notin T
        <4> HIDE DEF T, N
        <4>1. m - 1 \in 1 .. N /\ ~ (m <= m - 1)
          BY <1>1, <2>2, <2>4
        <4> QED BY <2>1, <4>1
      <3>2. PICK f : Flattens(f, q, m - 1)
        BY <3>1
      <3> DEFINE g == [i \in 1 .. m |-> IF i = m THEN f[m - 1] \o q[m] ELSE f[i]]
      <3>3. ASSUME NEW i \in 1 .. m PROVE g[i] = IF i = 1 THEN q[i] ELSE g[i - 1] \o q[i]
        <4>1. CASE i = m
          <5>1. m - 1 \in 1 .. m /\ g[m - 1] = f[m - 1]
            BY <1>1, <2>2, <2>4
          <5> QED BY <2>4, <4>1, <5>1
        <4>2. CASE i # m
          <5>1. i \in 1 .. m - 1 /\ g[i] = f[i]
            BY <2>2, <4>2
          <5>2. f[i] = IF i = 1 THEN q[i] ELSE f[i - 1] \o q[i]
            BY <3>2, <5>1 DEF Flattens
          <5>3. i # 1 => i - 1 \in 1 .. m /\ i - 1 # m
            BY <2>2, <5>1
          <5> QED BY <5>1, <5>2, <5>3
        <4> QED BY <4>1, <4>2
      <3>4. g = [i \in 1 .. m |-> IF i = 1 THEN q[i] ELSE g[i - 1] \o q[i]]
        BY <3>3
      <3>5. Flattens(g, q, m)
        BY <3>4 DEF Flattens
      <3> QED BY <3>5
    <2> QED BY <2>3, <2>4
  <1>3. \E f : Flattens(f, q, N)
    BY <1>1, <1>2
  <1> DEFINE h == CHOOSE f : f = [i \in 1 .. Len(q) |-> IF i = 1 THEN q[i] ELSE f[i - 1] \o q[i]]
  <1>4. Flattens(h, q, N)
    BY <1>3 DEF Flattens
  <1>5. FlattenSeq(q) = h[Len(q)]
    BY DEF FlattenSeq
  <1> QED
    BY <1>4, <1>5

\* What two lists together have.
LEMMA BothHave ==
    ASSUME NEW S, NEW a \in Seq(S), NEW b \in Seq(S)
    PROVE  /\ a \o b \in Seq(S) /\ Len(a \o b) = Len(a) + Len(b) /\ Len(a) \in Nat /\ Len(b) \in Nat
           /\ \A i \in 1 .. Len(a) : (a \o b)[i] = a[i]
           /\ \A i \in 1 .. Len(b) : (a \o b)[Len(a) + i] = b[i]
           /\ Range(a \o b) = Range(a) \cup Range(b)
  <1>1. /\ a \o b \in Seq(S) /\ Len(a \o b) = Len(a) + Len(b) /\ Len(a) \in Nat /\ Len(b) \in Nat
        /\ DOMAIN a = 1 .. Len(a) /\ DOMAIN b = 1 .. Len(b)
    OBVIOUS
  <1>2. DOMAIN (a \o b) = 1 .. Len(a) + Len(b)
    BY <1>1
  <1>3. \A i \in 1 .. Len(a) : (a \o b)[i] = a[i]
    OBVIOUS
  <1>4. \A i \in 1 .. Len(b) : (a \o b)[Len(a) + i] = b[i]
    OBVIOUS
  <1> DEFINE c == a \o b
             m == Len(a)
             n == Len(b)
  <1>5. /\ m \in Nat /\ n \in Nat /\ DOMAIN c = 1 .. m + n /\ DOMAIN a = 1 .. m /\ DOMAIN b = 1 .. n
        /\ \A i \in 1 .. m : c[i] = a[i]
        /\ \A i \in 1 .. n : c[m + i] = b[i]
    BY <1>1, <1>2, <1>3, <1>4
  <1> HIDE DEF c, m, n
  <1>6. Range(c) \subseteq Range(a) \cup Range(b)
    <2> SUFFICES ASSUME NEW i \in 1 .. m + n PROVE c[i] \in Range(a) \cup Range(b)
      BY <1>5 DEF Range
    <2>1. CASE i \in 1 .. m
      BY <1>5, <2>1 DEF Range
    <2>2. CASE i \notin 1 .. m
      <3>1. i - m \in 1 .. n /\ m + (i - m) = i
        BY <1>5, <2>2
      <3>2. c[m + (i - m)] = b[i - m]
        BY <1>5, <3>1
      <3> QED BY <1>5, <3>1, <3>2 DEF Range
    <2> QED BY <2>1, <2>2
  <1>7. \A i \in 1 .. m : a[i] \in Range(c)
    <2>1. \A i \in 1 .. m : i \in DOMAIN c /\ c[i] = a[i]
      BY <1>5
    <2> QED BY <2>1, Zenon DEF Range
  <1>8. \A i \in 1 .. n : b[i] \in Range(c)
    <2>1. \A i \in 1 .. n : m + i \in DOMAIN c /\ c[m + i] = b[i]
      BY <1>5
    <2> QED BY <2>1, Zenon DEF Range
  <1>9. Range(a) \cup Range(b) \subseteq Range(c)
    BY <1>5, <1>7, <1>8 DEF Range
  <1> QED
    BY <1>1, <1>3, <1>4, <1>6, <1>9 DEF c

\* A flattened list has what its lists have.
LEMMA Flattened ==
    ASSUME NEW S, NEW q \in Seq(Seq(S))
    PROVE  FlattenSeq(q) \in Seq(S) /\ Range(FlattenSeq(q)) = UNION {Range(q[i]) : i \in DOMAIN q}
  <1>1. CASE Len(q) = 0
    <2>1. q = <<>> /\ FlattenSeq(q) = <<>>
      BY <1>1 DEF FlattenSeq
    <2>2. DOMAIN q = {} /\ Range(<<>>) = {}
      BY <2>1 DEF Range
    <2>3. {Range(q[i]) : i \in DOMAIN q} = {}
      BY <2>2
    <2>4. <<>> \in Seq(S)
      OBVIOUS
    <2> QED BY <2>1, <2>2, <2>3, <2>4
  <1>2. CASE Len(q) # 0
    <2>1. PICK f : FlattenSeq(q) = f[Len(q)] /\ Flattens(f, q, Len(q))
      BY <1>2, FlattenIs
    <2> DEFINE N == Len(q)
               Good(i) == f[i] \in Seq(S) /\ Range(f[i]) = UNION {Range(q[j]) : j \in 1 .. i}
               T == {i \in 1 .. N : ~ Good(i)}
    <2>2. N \in Nat /\ N >= 1 /\ DOMAIN q = 1 .. N /\ \A i \in 1 .. N : q[i] \in Seq(S)
      BY <1>2
    <2>3. f[1] = q[1] /\ \A i \in 2 .. N : f[i] = f[i - 1] \o q[i]
      <3>1. f = [i \in 1 .. N |-> IF i = 1 THEN q[i] ELSE f[i - 1] \o q[i]]
        BY <2>1 DEF Flattens
      <3> HIDE DEF N
      <3>2. ASSUME NEW i \in 1 .. N PROVE f[i] = IF i = 1 THEN q[i] ELSE f[i - 1] \o q[i]
        BY <3>1
      <3>3. 1 \in 1 .. N /\ \A i \in 2 .. N : i \in 1 .. N /\ i # 1
        BY <2>2
      <3> QED BY <3>2, <3>3
    <2>4. Good(1)
      <3>1. 1 .. 1 = {1}
        OBVIOUS
      <3> QED BY <2>2, <2>3, <3>1
    <2>5. ASSUME NEW i \in 2 .. N, Good(i - 1) PROVE Good(i)
      <3> DEFINE a == f[i - 1]
                 b == q[i]
      <3>1. i \in 1 .. N /\ f[i] = a \o b /\ a \in Seq(S) /\ b \in Seq(S)
        <4>1. i \in 1 .. N
          BY <2>2
        <4>2. f[i] = f[i - 1] \o q[i]
          BY <2>3
        <4> QED BY <2>2, <2>5, <4>1, <4>2
      <3>2. Range(a) = UNION {Range(q[j]) : j \in 1 .. (i - 1)}
        BY <2>5
      <3> HIDE DEF a
      <3>3. f[i] \in Seq(S) /\ Range(f[i]) = Range(a) \cup Range(b)
        BY <3>1, BothHave
      <3>4. 1 .. i = (1 .. (i - 1)) \cup {i}
        BY <2>2
      <3>5. {Range(q[j]) : j \in 1 .. i} = {Range(q[j]) : j \in 1 .. (i - 1)} \cup {Range(b)}
        BY <3>4
      <3> QED BY <3>2, <3>3, <3>5
    <2> HIDE DEF Good
    <2>6. T = {}
      <3> SUFFICES ASSUME T # {} PROVE FALSE
        OBVIOUS
      <3>1. PICK m \in T : \A y \in T : m <= y
        <4>1. T \in SUBSET Nat
          BY <2>2
        <4> HIDE DEF T
        <4> QED BY <4>1, LeastOf
      <3>2. m \in 1 .. N /\ ~ Good(m)
        OBVIOUS
      <3>3. m \in 2 .. N /\ m - 1 \in 1 .. N /\ ~ (m <= m - 1)
        BY <2>2, <2>4, <3>2
      <3>4. Good(m - 1)
        <4>1. m - 1 \notin T
          <5> HIDE DEF T
          <5> QED BY <3>1, <3>3
        <4> QED BY <3>3, <4>1
      <3> QED BY <2>5, <3>2, <3>3, <3>4
    <2>7. Good(N)
      BY <2>2, <2>6
    <2> QED BY <2>1, <2>2, <2>7 DEF Good
  <1> QED
    BY <1>1, <1>2

\* What is picked at places I.
LEMMA PickedAre ==
    ASSUME NEW S, NEW l \in Seq(S), NEW I \in SUBSET (1 .. Len(l))
    PROVE  Picked(l, I) \in Seq(S) /\ Range(Picked(l, I)) = {l[i] : i \in I}
  <1>1. /\ Picked(l, I) \in Seq(S) /\ Len(Picked(l, I)) = Cardinality(I) /\ Cardinality(I) \in Nat
        /\ \A k \in 1 .. Cardinality(I) : Place(I, k) \in I /\ Picked(l, I)[k] = l[Place(I, k)]
    BY PickedIsAList
  <1>2. DOMAIN Picked(l, I) = 1 .. Cardinality(I)
    BY <1>1
  <1>3. \A i \in I : \E k \in 1 .. Cardinality(I) : Place(I, k) = i
    <2>1. Len(l) \in Nat
      OBVIOUS
    <2> QED BY <2>1, PlacesMatch
  <1> DEFINE p == Picked(l, I)
             n == Cardinality(I)
  <1>4. DOMAIN p = 1 .. n /\ \A k \in 1 .. n : Place(I, k) \in I /\ p[k] = l[Place(I, k)]
    BY <1>1, <1>2
  <1> HIDE DEF p, n
  <1>5. \A u \in Range(p) : \E i \in I : u = l[i]
    BY <1>4 DEF Range
  <1>6. ASSUME NEW i \in I PROVE l[i] \in Range(p)
    <2>1. PICK k \in 1 .. n : Place(I, k) = i
      BY <1>3 DEF n
    <2>2. k \in DOMAIN p /\ p[k] = l[i]
      BY <1>4, <2>1
    <2> QED BY <2>2, Zenon DEF Range
  <1> QED
    BY <1>1, <1>5, <1>6 DEF p

\* To agree in a field is to be equal in it.
LEMMA AgreeIsEqual ==
    ASSUME NEW a, NEW b, NEW c, NEW field
    PROVE  /\ Agree(a, a, field)
           /\ Agree(a, b, field) => Agree(b, a, field)
           /\ Agree(a, b, field) /\ Agree(b, c, field) => Agree(a, c, field)
  BY DEF Agree

\* The first of those that agree are left: one for each.
LEMMA DedupedIs ==
    ASSUME NEW S, NEW l \in Seq(S), NEW field
    PROVE  /\ Deduped(l, field) \in Seq(S)
           /\ Range(Deduped(l, field)) \subseteq Range(l)
           /\ \A x \in Range(l) : \E y \in Range(Deduped(l, field)) : Agree(y, x, field)
  <1> DEFINE I == Firsts(l, field)
             p == Picked(l, I)
             n == Cardinality(I)
  <1>1. Len(l) \in Nat /\ DOMAIN l = 1 .. Len(l) /\ I \in SUBSET (1 .. Len(l))
    BY DEF Firsts
  <1>3. p = Deduped(l, field)
    BY DEF Deduped
  <1>4. /\ p \in Seq(S) /\ Len(p) = n /\ n \in Nat
        /\ \A k \in 1 .. n : Place(I, k) \in I /\ p[k] = l[Place(I, k)]
    <2> HIDE DEF I
    <2> QED BY <1>1, PickedIsAList
  <1>5. Range(p) = {l[i] : i \in I}
    <2> HIDE DEF I
    <2> QED BY <1>1, PickedAre
  <1>7. ASSUME NEW x \in Range(l) PROVE \E i \in I : Agree(l[i], x, field)
    <2> DEFINE J == {i \in 1 .. Len(l) : Agree(l[i], x, field)}
    <2>1. J # {} /\ J \in SUBSET Nat
      BY <1>1, <1>7, AgreeIsEqual DEF Range
    <2>2. PICK i \in J : \A j \in J : i <= j
      BY <2>1, LeastOf
    <2>3. i \in 1 .. Len(l) /\ Agree(l[i], x, field)
      OBVIOUS
    <2>4. ASSUME NEW j \in 1 .. (i - 1), Agree(l[j], l[i], field) PROVE FALSE
      <3>1. j \in 1 .. Len(l) /\ ~ (i <= j)
        BY <1>1, <2>3
      <3>2. Agree(l[j], x, field)
        BY <2>3, <2>4, AgreeIsEqual
      <3> QED BY <2>2, <3>1, <3>2
    <2>5. i \in I
      BY <1>1, <2>3, <2>4 DEF Firsts
    <2> QED BY <2>3, <2>5
  <1> HIDE DEF I, p, n
  <1>9. Range(p) \subseteq Range(l)
    BY <1>1, <1>5 DEF Range
  <1>10. \A x \in Range(l) : \E y \in Range(p) : Agree(y, x, field)
    BY <1>5, <1>7
  <1> QED
    BY <1>3, <1>4, <1>9, <1>10

\* The beginning of a list.
LEMMA FirstIs ==
    ASSUME NEW S, NEW l \in Seq(S), NEW n \in Nat
    PROVE  /\ First(l, n) \in Seq(S) /\ Range(First(l, n)) \subseteq Range(l) /\ Len(First(l, n)) \in Nat
           /\ Len(First(l, n)) < n => First(l, n) = l
  <1> DEFINE L == Len(l)
             m == IF n < L THEN n ELSE L
             p == SubSeq(l, 1, m)
  <1>1. L \in Nat /\ DOMAIN l = 1 .. L /\ \A i \in 1 .. L : l[i] \in S
    OBVIOUS
  <1>2. m \in Nat /\ m <= L /\ (m < n => m = L)
    <2> HIDE DEF L
    <2> QED BY <1>1
  <1>3. First(l, n) = p
    BY DEF First
  <1> HIDE DEF m
  <1>4. p \in Seq(S) /\ Len(p) = m /\ \A i \in 1 .. m : p[i] = l[i]
    BY <1>1, <1>2
  <1>5. DOMAIN p = 1 .. m
    BY <1>4
  <1> HIDE DEF p, L
  <1>6. \A i \in 1 .. m : i \in 1 .. L
    BY <1>1, <1>2
  <1>7. Range(p) \subseteq Range(l)
    BY <1>1, <1>4, <1>5, <1>6 DEF Range
  <1>8. m < n => p = l
    <2> SUFFICES ASSUME m < n PROVE p = l
      OBVIOUS
    <2>1. Len(p) = Len(l) /\ \A i \in 1 .. Len(p) : p[i] = l[i]
      BY <1>2, <1>4 DEF L
    <2> QED BY <1>4, <2>1, SameParts
  <1> QED
    BY <1>2, <1>3, <1>4, <1>7, <1>8

\* A list made of another, element by element.
LEMMA ListOver ==
    ASSUME NEW S, NEW l \in Seq(S), NEW T, NEW m \in [DOMAIN l -> T]
    PROVE  m \in Seq(T) /\ Len(m) = Len(l) /\ DOMAIN m = DOMAIN l /\ (l = <<>> => m = <<>>)
  <1> DEFINE n == Len(l)
  <1>1. n \in Nat /\ DOMAIN l = 1 .. n
    OBVIOUS
  <1> HIDE DEF n
  <1>2. m \in [1 .. n -> T]
    BY <1>1
  <1>3. m \in Seq(T) /\ Len(m) = n
    BY <1>1, <1>2
  <1>4. l = <<>> => n = 0
    BY DEF n
  <1>5. l = <<>> => m = <<>>
    BY <1>3, <1>4
  <1> QED
    BY <1>2, <1>3, <1>5 DEF n

\* A list that has nothing is empty.

\* The last of finitely many.
LEMMA GreatestOf ==
    ASSUME NEW n \in Nat, NEW M \in SUBSET (1 .. n), M # {}
    PROVE  \E j \in M : \A k \in M : k <= j
  <1> DEFINE T == {k \in 0 .. n : \A j \in M : j <= k}
  <1>1. n \in T
    OBVIOUS
  <1>2. T \in SUBSET Nat /\ T # {}
    BY <1>1
  <1>3. PICK t \in T : \A y \in T : t <= y
    <2> HIDE DEF T
    <2> QED BY <1>2, LeastOf
  <1>4. t \in 0 .. n /\ \A j \in M : j <= t
    OBVIOUS
  <1>5. t \in M
    <2> SUFFICES ASSUME t \notin M PROVE FALSE
      OBVIOUS
    <2>1. t # 0
      <3>1. PICK j \in M : TRUE
        OBVIOUS
      <3>2. j \in 1 .. n /\ j <= t
        BY <1>4
      <3> QED BY <3>2
    <2>2. t - 1 \in 0 .. n /\ \A j \in M : j <= t - 1
      BY <1>4, <2>1
    <2>3. ~ (t <= t - 1)
      BY <1>4
    <2> QED BY <1>3, <2>2, <2>3
  <1> QED
    BY <1>4, <1>5

\* What is picked of a list at places of it.
LEMMA ThoseAre ==
    ASSUME NEW S, NEW l \in Seq(S), NEW I \in SUBSET DOMAIN l
    PROVE  Picked(l, I) \in Seq(S) /\ Range(Picked(l, I)) = {l[i] : i \in I}
  <1>1. DOMAIN l = 1 .. Len(l)
    OBVIOUS
  <1> QED
    BY <1>1, PickedAre

\* What a line can be, and what can be found: lists of words.
Words ==
    References \cup FilePaths \cup {"", "result", "files", "verification", "warnings"}
    \cup {"unknown", "created", "modified", "deleted", "skipped", "failed", "passed", "file", "the build", "pytest", "ruff",
          "unit tests", "warning", "error", "fails", "passes", "passes, though what comes after timed out", "ruff has an error",
          "the rest is skipped", "the build is ok", "could not reach it"}
Strings == Seq(Words)
Said == [says : Strings, stop : BOOLEAN, refs : Strings, status : Words, command : Strings, quoted : BOOLEAN,
         outcome : Words, warns : BOOLEAN]
Piece == [under : Words, line : Said]
Artifact == [path : Words, title : Words]
Change == [path : Words, status : Words, opens : Words]
Ran == [name : Strings, outcome : Words]
Warned == [name : [says : Strings, stop : BOOLEAN], level : Words]
Manifest == [artifacts : Seq(Artifact), changes : Seq(Change), commands : Seq(Ran), tests : Seq(Ran), warnings : Seq(Warned)]

\* Lists of words are what they look like.
LEMMA WordsAre ==
    /\ <<>> \in Strings
    /\ \A a \in Words : <<a>> \in Strings
    /\ \A a, b \in Words : <<a, b>> \in Strings
  BY DEF Strings

\* The words that the definitions use.
LEMMA TheWords ==
    /\ {"absolute", "loose", "quoted", "link", "", "result", "files", "verification", "warnings"} \subseteq Words
    /\ {"unknown", "created", "modified", "deleted", "skipped", "failed", "passed", "file", "the build"} \subseteq Words
    /\ {"pytest", "ruff", "unit tests", "warning", "error", "fails", "passes"} \subseteq Words
    /\ {"passes, though what comes after timed out", "ruff has an error", "the rest is skipped"} \subseteq Words
    /\ {"the build is ok", "could not reach it"} \subseteq Words /\ FilePaths \subseteq Words
  BY DEF Words, References

\* The lines that the model knows are lines.
LEMMA LinesAre ==
    /\ Silent \in Said /\ Fails \in Said
    /\ \A title \in DOMAIN LinesUnder : title \in Words /\ LinesUnder[title] \subseteq Said
  <1>1. Silent \in Said
    <2> DEFINE e == <<>>
    <2>1. e \in Strings
      BY WordsAre
    <2>2. Silent = [says |-> e, stop |-> FALSE, refs |-> e, status |-> "unknown", command |-> e, quoted |-> FALSE,
                    outcome |-> "unknown", warns |-> FALSE]
      BY Zenon DEF Silent
    <2> HIDE DEF e
    <2> QED BY <2>1, <2>2, TheWords DEF Said
  <1>2. ASSUME NEW ref \in Words, NEW status \in Words PROVE FileLine(ref, status) \in Said
    <2> DEFINE s == <<ref, status>>
               r == <<ref>>
    <2>1. s \in Strings /\ r \in Strings
      BY WordsAre
    <2>2. FileLine(ref, status) = [Silent EXCEPT !.says = s, !.refs = r, !.status = status]
      BY Zenon DEF FileLine
    <2> HIDE DEF s, r
    <2> QED BY <1>1, <2>1, <2>2 DEF Said
  <1>3. ASSUME NEW words \in Words, NEW command \in Strings, NEW quoted \in BOOLEAN, NEW outcome \in Words, NEW warns \in BOOLEAN
        PROVE  Check(words, command, quoted, outcome, warns) \in Said
    <2> DEFINE s == <<words>>
    <2>1. s \in Strings
      BY WordsAre
    <2>2. Check(words, command, quoted, outcome, warns)
            = [Silent EXCEPT !.says = s, !.command = command, !.quoted = quoted, !.outcome = outcome, !.warns = warns]
      BY Zenon DEF Check
    <2> HIDE DEF s
    <2> QED BY <1>1, <2>1, <2>2 DEF Said
  <1>4. <<>> \in Strings /\ <<"pytest">> \in Strings /\ <<"ruff">> \in Strings /\ <<"link">> \in Strings
    BY WordsAre, TheWords
  <1>5. Fails \in Said /\ Passes \in Said /\ Lints \in Said /\ Skips \in Said /\ Builds \in Said
    BY <1>3, <1>4, TheWords DEF Fails, Passes, Lints, Skips, Builds
  <1>6. PassesLate \in Said
    <2> DEFINE c == Check("passes, though what comes after timed out", <<"pytest">>, TRUE, "passed", TRUE)
               r == <<"link">>
    <2>1. c \in Said /\ r \in Strings
      BY <1>3, <1>4, TheWords
    <2>2. PassesLate = [c EXCEPT !.refs = r]
      BY Zenon DEF PassesLate
    <2> HIDE DEF c, r
    <2> QED BY <2>1, <2>2 DEF Said
  <1>7. Remark \in Said
    <2> DEFINE c == Check("could not reach it", <<>>, FALSE, "unknown", TRUE)
    <2>1. c \in Said
      BY <1>3, <1>4, TheWords
    <2>2. Remark = [c EXCEPT !.stop = TRUE]
      BY Zenon DEF Remark
    <2> HIDE DEF c
    <2> QED BY <2>1, <2>2 DEF Said
  <1>8. /\ FileLine("absolute", "created") \in Said /\ FileLine("loose", "modified") \in Said
        /\ FileLine("quoted", "unknown") \in Said /\ FileLine("link", "created") \in Said
    BY <1>2, TheWords
  <1>9. ASSUME NEW title \in DOMAIN LinesUnder PROVE title \in Words /\ LinesUnder[title] \subseteq Said
    <2> DEFINE r == {FileLine("absolute", "created"), FileLine("loose", "modified"), Fails, Remark}
               f == {FileLine("quoted", "unknown"), FileLine("link", "created")}
               v == {Fails, Passes, PassesLate, Lints, Skips, Builds}
               w == {Remark, Lints}
    <2>1. r \subseteq Said /\ f \subseteq Said /\ v \subseteq Said /\ w \subseteq Said
      BY <1>5, <1>6, <1>7, <1>8
    <2>2. LinesUnder = [result |-> r, files |-> f, verification |-> v, warnings |-> w]
      BY Zenon DEF LinesUnder
    <2> HIDE DEF r, f, v, w
    <2>3. /\ DOMAIN LinesUnder = {"result", "files", "verification", "warnings"}
          /\ LinesUnder["result"] = r /\ LinesUnder["files"] = f
          /\ LinesUnder["verification"] = v /\ LinesUnder["warnings"] = w
      BY <2>2
    <2>4. title \in {"result", "files", "verification", "warnings"}
      BY <2>3
    <2>5. LinesUnder[title] \subseteq Said
      BY <2>1, <2>3, <2>4
    <2> QED BY <2>4, <2>5, TheWords
  <1> QED
    BY <1>1, <1>5, <1>9

\* The first of several places is one of them.
LEMMA FirstPlace ==
    ASSUME NEW n \in Nat, NEW I \in SUBSET (1 .. n), I # {}
    PROVE  Place(I, 1) \in I
  <1>1. /\ Cardinality(I) \in Nat /\ \A k \in 1 .. Cardinality(I) : Place(I, k) \in I
        /\ \A i \in I : \E k \in 1 .. Cardinality(I) : Place(I, k) = i
    BY PlacesMatch
  <1>2. PICK i \in I : TRUE
    OBVIOUS
  <1>3. PICK k \in 1 .. Cardinality(I) : Place(I, k) = i
    BY <1>1
  <1>4. 1 \in 1 .. Cardinality(I)
    BY <1>1
  <1> QED
    BY <1>1, <1>4

\* What is told is a word.
LEMMA FirstOfIs ==
    ASSUME NEW order \in Strings, NEW said
    PROVE  FirstOf(order, said) \in Words
  <1> DEFINE those == {i \in DOMAIN order : order[i] \in said}
             p == Place(those, 1)
  <1>1. FirstOf(order, said) = IF those = {} THEN "unknown" ELSE order[p]
    BY DEF FirstOf
  <1>2. Len(order) \in Nat /\ those \in SUBSET (1 .. Len(order)) /\ \A i \in 1 .. Len(order) : order[i] \in Words
    BY DEF Strings
  <1>3. those # {} => p \in those
    <2> HIDE DEF those
    <2>1. Len(order) \in Nat /\ those \in SUBSET (1 .. Len(order))
      BY <1>2
    <2> QED BY <2>1, FirstPlace
  <1> HIDE DEF those, p
  <1> QED
    BY <1>1, <1>2, <1>3, TheWords

\* Lines that are joined are a line.
LEMMA OneLineIs ==
    ASSUME NEW lines \in Seq(Said), Len(lines) # 0
    PROVE  OneLine(lines) \in Said
  <1> DEFINE says == [i \in DOMAIN lines |-> lines[i].says]
             refs == [i \in DOMAIN lines |-> lines[i].refs]
             last == lines[Len(lines)]
             status == FirstOf(FileStatuses, {lines[i].status : i \in DOMAIN lines})
             outcome == FirstOf(Outcomes, {lines[i].outcome : i \in DOMAIN lines})
             command == CommandIn(lines)
             quoted == command # <<>>
             warns == \E i \in DOMAIN lines : lines[i].warns
  <1>1. OneLine(lines) = [says |-> FlattenSeq(says), stop |-> last.stop, refs |-> FlattenSeq(refs), status |-> status,
                         command |-> command, quoted |-> quoted, outcome |-> outcome, warns |-> warns]
    BY DEF OneLine
  <1>2. Len(lines) \in Nat /\ DOMAIN lines = 1 .. Len(lines) /\ \A i \in DOMAIN lines : lines[i] \in Said
    OBVIOUS
  <1>3. \A i \in DOMAIN lines : /\ lines[i].says \in Strings /\ lines[i].refs \in Strings /\ lines[i].command \in Strings
                                /\ lines[i].stop \in BOOLEAN
    BY <1>2 DEF Said
  <1>4. last.stop \in BOOLEAN
    <2>1. Len(lines) \in DOMAIN lines
      BY <1>2
    <2> QED BY <1>3, <2>1
  <1>5. FlattenSeq(says) \in Strings
    <2>1. says \in [DOMAIN lines -> Seq(Words)]
      BY <1>3 DEF Strings
    <2> HIDE DEF says
    <2>2. says \in Seq(Seq(Words))
      BY <2>1, ListOver
    <2> QED BY <2>2, Flattened DEF Strings
  <1>6. FlattenSeq(refs) \in Strings
    <2>1. refs \in [DOMAIN lines -> Seq(Words)]
      BY <1>3 DEF Strings
    <2> HIDE DEF refs
    <2>2. refs \in Seq(Seq(Words))
      BY <2>1, ListOver
    <2> QED BY <2>2, Flattened DEF Strings
  <1>7. status \in Words /\ outcome \in Words
    <2>1. \A a, b, c \in Words : <<a, b, c>> \in Strings
      BY DEF Strings
    <2>2. FileStatuses \in Strings /\ Outcomes \in Strings
      BY <2>1, TheWords DEF FileStatuses, Outcomes
    <2> QED BY <2>2, FirstOfIs
  <1>8. command \in Strings
    <2> DEFINE named == {i \in DOMAIN lines : lines[i].quoted}
    <2> DEFINE p == Place(named, 1)
    <2>0. command = IF named = {} THEN <<>> ELSE lines[p].command
      BY DEF CommandIn
    <2>1. CASE named = {}
      BY <2>0, <2>1, WordsAre
    <2>2. CASE named # {}
      <3>1. named \in SUBSET (1 .. Len(lines))
        BY <1>2
      <3>2. p \in named
        BY <1>2, <2>2, <3>1, FirstPlace
      <3> HIDE DEF p, named
      <3>3. p \in DOMAIN lines
        BY <1>2, <3>1, <3>2
      <3> QED BY <1>3, <2>0, <2>2, <3>3
    <2> QED BY <2>1, <2>2
  <1>9. quoted \in BOOLEAN /\ warns \in BOOLEAN
    OBVIOUS
  <1> DEFINE said == FlattenSeq(says)
             ends == last.stop
             files == FlattenSeq(refs)
  <1>10. /\ OneLine(lines) = [says |-> said, stop |-> ends, refs |-> files, status |-> status,
                             command |-> command, quoted |-> quoted, outcome |-> outcome, warns |-> warns]
         /\ said \in Strings /\ ends \in BOOLEAN /\ files \in Strings
    BY <1>1, <1>4, <1>5, <1>6
  <1> HIDE DEF said, ends, files, status, outcome, command, quoted, warns
  <1> QED
    BY <1>7, <1>8, <1>9, <1>10 DEF Said

\* Rewriting a line leaves the command and the outcome, and of a check nothing
\* else.
LEMMA RewrittenIs ==
    ASSUME NEW p \in Piece
    PROVE  /\ Rewritten(p) \in Said
           /\ Rewritten(p).command = p.line.command /\ Rewritten(p).outcome = p.line.outcome
           /\ IsShortened(p) =>
                /\ Rewritten(p).says = <<p.line.outcome>> \o p.line.command /\ Rewritten(p).quoted
                /\ Rewritten(p).warns <=> p.line.outcome \in {"failed", "skipped"}
           /\ ~ IsShortened(p) =>
                /\ Rewritten(p).says = p.line.says /\ Rewritten(p).quoted = p.line.quoted
                /\ Rewritten(p).warns = p.line.warns
  <1> DEFINE l == p.line
             short == IsShortened(p)
             result == p.under = "result"
             s == <<l.outcome>> \o l.command
             w == l.outcome \in {"failed", "skipped"}
  <1>1. /\ Rewritten(p) = IF short THEN Shortened(l) ELSE IF result THEN l ELSE [l EXCEPT !.stop = TRUE]
        /\ Shortened(l) = [Silent EXCEPT !.says = s, !.command = l.command, !.quoted = TRUE, !.outcome = l.outcome, !.warns = w]
    BY Zenon DEF Rewritten, Shortened
  <1>2. l \in Said /\ Silent \in Said
    BY LinesAre DEF Piece
  <1>3. s \in Strings /\ w \in BOOLEAN
    <2> DEFINE o == <<l.outcome>>
               c == l.command
    <2>1. o \in Strings /\ c \in Strings /\ s = o \o c
      BY <1>2, WordsAre DEF Said
    <2> HIDE DEF o, c, s, l
    <2>2. o \in Seq(Words) /\ c \in Seq(Words)
      BY <2>1 DEF Strings
    <2>3. o \o c \in Seq(Words)
      BY <2>2
    <2> QED BY <2>1, <2>3 DEF Strings
  <1> HIDE DEF s, w, l, short, result
  <1>4. /\ Shortened(l) \in Said /\ Shortened(l).command = l.command /\ Shortened(l).outcome = l.outcome
        /\ Shortened(l).says = s /\ Shortened(l).quoted /\ Shortened(l).warns = w
    BY <1>1, <1>2, <1>3 DEF Said
  <1> DEFINE t == [l EXCEPT !.stop = TRUE]
  <1>5. /\ t \in Said /\ t.command = l.command /\ t.outcome = l.outcome
        /\ t.says = l.says /\ t.quoted = l.quoted /\ t.warns = l.warns
    BY <1>2 DEF Said
  <1> HIDE DEF t
  <1>6. CASE short
    BY <1>1, <1>4, <1>6 DEF short, s, w, l
  <1>7. CASE ~ short
    <2>1. Rewritten(p) = l \/ Rewritten(p) = t
      BY <1>1, <1>7 DEF t
    <2> QED BY <1>2, <1>5, <1>7, <2>1 DEF short, l
  <1> QED
    BY <1>6, <1>7

\* A sentence of lines is a line.
LEMMA SentencesAre ==
    ASSUME NEW lines \in Seq(Said)
    PROVE  Sentences(lines) \subseteq Said
  <1> SUFFICES ASSUME NEW n \in DOMAIN lines PROVE OneLine(SubSeq(lines, 1, n)) \in Said
    BY DEF Sentences
  <1> DEFINE part == SubSeq(lines, 1, n)
  <1>1. n \in Nat \ {0} /\ n <= Len(lines)
    OBVIOUS
  <1>2. part \in Seq(Said) /\ Len(part) = n
    BY <1>1
  <1> HIDE DEF part
  <1>3. OneLine(part) \in Said
    BY <1>1, <1>2, OneLineIs
  <1> QED
    BY <1>3 DEF part

\* Whatever the summary is made of, it is a line.
LEMMA OpeningsAre ==
    ASSUME NEW text \in Seq(Piece)
    PROVE  Openings(text) \subseteq Said
  <1>1. ASSUME NEW title PROVE Under(text, title) \in Seq(Piece)
    <2> DEFINE I == {i \in DOMAIN text : text[i].under = title}
    <2>1. I \in SUBSET DOMAIN text /\ Under(text, title) = Picked(text, I)
      BY DEF Under
    <2> HIDE DEF I
    <2> QED BY <2>1, ThoseAre
  <1>2. ASSUME NEW some \in Seq(Piece) PROVE Written(some) \in Seq(Said)
    <2>1. \A i \in DOMAIN some : some[i] \in Piece
      OBVIOUS
    <2>2. Written(some) \in [DOMAIN some -> Said]
      BY <2>1 DEF Written, Piece
    <2> QED BY <2>2, ListOver
  <1>3. ASSUME NEW some \in Seq(Piece) PROVE [i \in DOMAIN some |-> Rewritten(some[i])] \in Seq(Said)
    <2> DEFINE m == [i \in DOMAIN some |-> Rewritten(some[i])]
    <2>1. \A i \in DOMAIN some : some[i] \in Piece
      OBVIOUS
    <2>2. m \in [DOMAIN some -> Said]
      BY <2>1, RewrittenIs
    <2> HIDE DEF m
    <2>3. m \in Seq(Said)
      BY <2>2, ListOver
    <2> QED BY <2>3 DEF m
  <1> DEFINE first == text[1].under
             own == Written(Under(text, first))
             other(title) == [i \in DOMAIN Under(text, title) |-> Rewritten(Under(text, title)[i])]
  <1>4. Sentences(own) \subseteq Said
    <2> HIDE DEF first
    <2>1. own \in Seq(Said)
      BY <1>1, <1>2
    <2> HIDE DEF own
    <2> QED BY <2>1, SentencesAre
  <1>5. ASSUME NEW title PROVE Sentences(other(title)) \subseteq Said
    <2>1. other(title) \in Seq(Said)
      BY <1>1, <1>3
    <2> DEFINE o == other(title)
    <2>2. o \in Seq(Said)
      BY <2>1
    <2> HIDE DEF o
    <2>3. Sentences(o) \subseteq Said
      BY <2>2, SentencesAre
    <2> QED BY <2>3 DEF o
  <1>6. Openings(text) = {Silent, Fails} \cup Sentences(own) \cup UNION {Sentences(other(title)) : title \in DOMAIN LinesUnder}
    BY Zenon DEF Openings
  <1> HIDE DEF own, other
  <1>7. \A x \in UNION {Sentences(other(title)) : title \in DOMAIN LinesUnder} : x \in Said
    BY <1>5
  <1> QED
    BY <1>4, <1>6, <1>7, LinesAre

\* A line of the text as it is read.
Read(p) == [p EXCEPT !.line = Rewritten(p)]

\* What is read: the summary, which stands under no title, and the lines.
LEMMA EnvelopeLines ==
    ASSUME NEW text \in Seq(Piece), NEW summary \in Said
    PROVE  /\ EnvelopeText(text, summary) \in Seq(Piece)
           /\ Range(EnvelopeText(text, summary)) = {[under |-> "", line |-> summary]} \cup {Read(p) : p \in Range(text)}
           /\ \A p \in Piece : Read(p) \in Piece /\ Read(p).under = p.under /\ Read(p).line = Rewritten(p)
  <1> DEFINE head == [under |-> "", line |-> summary]
             one == <<head>>
             body == [i \in DOMAIN text |-> Read(text[i])]
             both == one \o body
  <1>1. EnvelopeText(text, summary) = both
    BY Zenon DEF EnvelopeText, Read
  <1>2. ASSUME NEW p \in Piece PROVE Read(p) \in Piece /\ Read(p).under = p.under /\ Read(p).line = Rewritten(p)
    <2> DEFINE l == Rewritten(p)
    <2>1. l \in Said /\ Read(p) = [p EXCEPT !.line = l]
      BY RewrittenIs DEF Read
    <2> HIDE DEF l
    <2>2. Read(p) \in Piece /\ Read(p).under = p.under /\ Read(p).line = l
      BY <2>1 DEF Piece
    <2> QED BY <2>2 DEF l
  <1>3. head \in Piece
    BY TheWords DEF Piece
  <1> HIDE DEF head
  <1>4. one \in Seq(Piece) /\ Range(one) = {head}
    <2>1. one \in Seq(Piece) /\ DOMAIN one = {1} /\ one[1] = head
      BY <1>3
    <2> HIDE DEF one
    <2> QED BY <2>1 DEF Range
  <1>5. body \in Seq(Piece) /\ DOMAIN body = DOMAIN text
    <2>1. \A i \in DOMAIN text : text[i] \in Piece
      OBVIOUS
    <2>2. body \in [DOMAIN text -> Piece]
      BY <1>2, <2>1
    <2> HIDE DEF body
    <2> QED BY <2>2, ListOver
  <1>6. Range(body) = {Read(p) : p \in Range(text)}
    BY DEF Range
  <1> HIDE DEF one, body
  <1>7. both \in Seq(Piece) /\ Range(both) = {head} \cup {Read(p) : p \in Range(text)}
    <2>1. ASSUME NEW a \in Seq(Piece), NEW b \in Seq(Piece)
          PROVE  a \o b \in Seq(Piece) /\ Range(a \o b) = Range(a) \cup Range(b)
      BY BothHave, Zenon
    <2> QED BY <1>4, <1>5, <1>6, <2>1
  <1> QED
    BY <1>1, <1>2, <1>7 DEF head

\* The paths that can be opened.
Paths(artifacts) == {a.path : a \in Range(artifacts)}

\* What a pass sees of references to files is a list of words.
LEMMA SeenIs ==
    ASSUME NEW D, NEW pass \in [D -> Words], NEW refs \in Strings
    PROVE  SeenBy(pass, refs) \in Strings
  <1> DEFINE I == {i \in DOMAIN refs : refs[i] \in DOMAIN pass}
             some == Only(refs, DOMAIN pass)
             seen == [k \in DOMAIN some |-> pass[some[k]]]
  <1>1. refs \in Seq(Words) /\ I \in SUBSET DOMAIN refs /\ some = Picked(refs, I) /\ \A i \in I : refs[i] \in D
    BY DEF Strings, Only
  <1>2. SeenBy(pass, refs) = seen
    BY DEF SeenBy
  <1> HIDE DEF I, some
  <1>3. some \in Seq(Words) /\ \A x \in Range(some) : x \in D
    BY <1>1, ThoseAre
  <1>4. \A k \in DOMAIN some : some[k] \in D
    BY <1>3 DEF Range
  <1>5. seen \in [DOMAIN some -> Words]
    BY <1>4
  <1> HIDE DEF seen
  <1> QED
    BY <1>2, <1>3, <1>5, ListOver DEF Strings

\* Each pass takes a reference for one file.
LEMMA PassesAre ==
    \A refs \in Strings : /\ SeenBy(Linked, refs) \in Strings /\ SeenBy(Quoted, refs) \in Strings
                          /\ SeenBy(Absolute, refs) \in Strings /\ SeenBy(Relative, refs) \in Strings
  <1>1. "/repo/a.py" \in Words /\ "/b.py" \in Words /\ "src/b.py" \in Words /\ "in src/b.py" \in Words
    BY TheWords DEF FilePaths
  <1>2. ASSUME NEW a \in Words PROVE [link |-> a] \in [{"link"} -> Words] /\ [quoted |-> a] \in [{"quoted"} -> Words]
                                   /\ [loose |-> a] \in [{"loose"} -> Words]
    OBVIOUS
  <1>3. ASSUME NEW a \in Words, NEW b \in Words, NEW c \in Words
        PROVE  [absolute |-> a, link |-> b, loose |-> c] \in [{"absolute", "link", "loose"} -> Words]
    OBVIOUS
  <1>4. /\ Linked \in [{"link"} -> Words] /\ Quoted \in [{"quoted"} -> Words]
        /\ Absolute \in [{"absolute", "link", "loose"} -> Words] /\ Relative \in [{"loose"} -> Words]
    BY <1>1, <1>2, <1>3, Zenon DEF Linked, Quoted, Absolute, Relative
  <1> QED
    BY <1>4, SeenIs

\* Two lists of words are one.
LEMMA BothWords == \A a, b \in Strings : a \o b \in Strings
  BY DEF Strings

\* The artifacts of a text.
LEMMA ArtifactsAre ==
    ASSUME NEW text \in Seq(Piece)
    PROVE  ArtifactsOf(text) \in Seq(Artifact)
  <1> DEFINE own == [i \in DOMAIN text |-> text[i].line.refs]
             refs == FlattenSeq(own)
             paths == SeenBy(Linked, refs) \o SeenBy(Absolute, refs)
             all == [i \in DOMAIN paths |-> [path |-> paths[i], title |-> "file"]]
  <1>1. ArtifactsOf(text) = Deduped(all, "path")
    BY Zenon DEF ArtifactsOf
  <1>2. refs \in Strings
    <2>1. \A i \in DOMAIN text : text[i] \in Piece
      OBVIOUS
    <2>2. \A i \in DOMAIN text : text[i].line \in Said
      BY <2>1 DEF Piece
    <2>3. own \in [DOMAIN text -> Seq(Words)]
      BY <2>2 DEF Said, Strings
    <2> HIDE DEF own
    <2>4. own \in Seq(Seq(Words))
      BY <2>3, ListOver
    <2> QED BY <2>4, Flattened DEF Strings
  <1> HIDE DEF refs
  <1>3. paths \in Strings
    BY <1>2, PassesAre, BothWords
  <1> HIDE DEF paths
  <1>4. all \in Seq(Artifact)
    <2>1. paths \in Seq(Words) /\ \A i \in DOMAIN paths : paths[i] \in Words
      BY <1>3 DEF Strings
    <2>2. all \in [DOMAIN paths -> Artifact]
      BY <2>1, TheWords DEF Artifact
    <2> HIDE DEF all
    <2> QED BY <2>1, <2>2, ListOver
  <1> HIDE DEF all
  <1> QED
    BY <1>1, <1>4, DedupedIs

\* A change refers to an artifact by its path or its title, or to none.
LEMMA ReferenceIs ==
    ASSUME NEW artifacts \in Seq(Artifact), NEW path
    PROVE  ByReference(artifacts, path) \in Words
  <1> DEFINE named == {i \in DOMAIN artifacts : path \in {artifacts[i].path, artifacts[i].title}}
             m == CHOOSE i \in named : \A j \in named : j <= i
  <1>1. ByReference(artifacts, path) = IF named = {} THEN "" ELSE artifacts[m].path
    BY DEF ByReference
  <1>2. /\ DOMAIN artifacts = 1 .. Len(artifacts) /\ Len(artifacts) \in Nat
        /\ \A i \in DOMAIN artifacts : artifacts[i] \in Artifact
    OBVIOUS
  <1>3. \A i \in DOMAIN artifacts : artifacts[i].path \in Words
    BY <1>2 DEF Artifact
  <1>4. named \in SUBSET (1 .. Len(artifacts))
    BY <1>2
  <1>5. named # {} => m \in named
    <2> HIDE DEF named
    <2>1. named # {} => \E j \in named : \A k \in named : k <= j
      BY <1>2, <1>4, GreatestOf
    <2> QED BY <2>1, Zenon
  <1> HIDE DEF m
  <1>6. m \in named => artifacts[m].path \in Words
    BY <1>3
  <1> HIDE DEF named
  <1> QED
    BY <1>1, <1>5, <1>6, TheWords

\* The changes of a text.
LEMMA ChangesAre ==
    ASSUME NEW text \in Seq(Piece), NEW artifacts \in Seq(Artifact)
    PROVE  ChangesOf(text, artifacts) \in Seq(Change)
  <1> DEFINE taken == Those(text, SaysOfFiles)
             each == [i \in DOMAIN taken |-> ChangesOfLine(taken[i].line, artifacts)]
             others == [i \in DOMAIN artifacts |->
                          [path |-> artifacts[i].path, status |-> "unknown", opens |-> artifacts[i].path]]
             all == FlattenSeq(each) \o others
  <1>1. ChangesOf(text, artifacts) = First(Deduped(all, "path"), MaxFileChanges)
    BY Zenon DEF ChangesOf
  <1>2. taken \in Seq(Piece)
    <2> DEFINE I == {i \in DOMAIN text : SaysOfFiles(text[i])}
    <2>1. I \in SUBSET DOMAIN text /\ taken = Picked(text, I)
      BY DEF Those
    <2> HIDE DEF I, taken
    <2> QED BY <2>1, ThoseAre
  <1> HIDE DEF taken
  <1>3. ASSUME NEW line \in Said PROVE ChangesOfLine(line, artifacts) \in Seq(Change)
    <2> DEFINE refs == line.refs
               both == SeenBy(Linked, refs) \o SeenBy(Quoted, refs) \o SeenBy(Absolute, refs) \o SeenBy(Relative, refs)
               paths == PathsIn(refs)
               built == [k \in DOMAIN paths |->
                          [path |-> paths[k], status |-> line.status, opens |-> ByReference(artifacts, paths[k])]]
    <2>1. ChangesOfLine(line, artifacts) = built /\ paths = Deduped(both, "all")
      BY Zenon DEF ChangesOfLine, PathsIn
    <2>2. refs \in Strings /\ line.status \in Words
      BY DEF Said
    <2> HIDE DEF refs
    <2>3. both \in Strings
      BY <2>2, PassesAre, BothWords
    <2> HIDE DEF both
    <2>4. paths \in Seq(Words)
      <3>1. both \in Seq(Words)
        BY <2>3 DEF Strings
      <3> QED BY <2>1, <3>1, DedupedIs
    <2> HIDE DEF paths
    <2>5. ASSUME NEW k \in DOMAIN paths
          PROVE  [path |-> paths[k], status |-> line.status, opens |-> ByReference(artifacts, paths[k])] \in Change
      <3>1. paths[k] \in Words
        BY <2>4
      <3>2. ByReference(artifacts, paths[k]) \in Words
        BY ReferenceIs
      <3> QED BY <2>2, <3>1, <3>2 DEF Change
    <2>6. built \in [DOMAIN paths -> Change]
      BY <2>5
    <2> HIDE DEF built
    <2>7. built \in Seq(Change)
      BY <2>4, <2>6, ListOver
    <2> QED BY <2>1, <2>7
  <1>4. FlattenSeq(each) \in Seq(Change)
    <2>1. \A i \in DOMAIN taken : taken[i] \in Piece
      BY <1>2
    <2>2. \A i \in DOMAIN taken : taken[i].line \in Said
      BY <2>1 DEF Piece
    <2>3. each \in [DOMAIN taken -> Seq(Change)]
      BY <1>3, <2>2
    <2> HIDE DEF each
    <2>4. each \in Seq(Seq(Change))
      BY <1>2, <2>3, ListOver
    <2> QED BY <2>4, Flattened
  <1>5. others \in Seq(Change)
    <2>1. \A i \in DOMAIN artifacts : artifacts[i] \in Artifact
      OBVIOUS
    <2>2. \A i \in DOMAIN artifacts : artifacts[i].path \in Words
      BY <2>1 DEF Artifact
    <2>3. others \in [DOMAIN artifacts -> Change]
      BY <2>2, TheWords DEF Change
    <2> HIDE DEF others
    <2> QED BY <2>3, ListOver
  <1>6. all \in Seq(Change)
    <2> DEFINE a == FlattenSeq(each)
    <2>1. a \in Seq(Change) /\ all = a \o others
      BY <1>4
    <2> HIDE DEF a, others, all
    <2> QED BY <1>5, <2>1, BothHave
  <1> HIDE DEF all
  <1> DEFINE p == Deduped(all, "path")
  <1>7. p \in Seq(Change) /\ MaxFileChanges \in Nat
    BY <1>6, DedupedIs, FindingsAssumption
  <1> HIDE DEF p
  <1>8. First(p, MaxFileChanges) \in Seq(Change)
    BY <1>7, FirstIs
  <1> QED
    BY <1>1, <1>8 DEF p

\* What a change opens: what it says, else an artifact, else the file itself.
LEMMA OpenedIs ==
    ASSUME NEW c \in Change, NEW artifacts \in Seq(Artifact)
    PROVE  Opened(c, artifacts) \in Words /\ (c.path \in FilePaths => Opened(c, artifacts) # "")
  <1> DEFINE r == ByReference(artifacts, c.path)
  <1>1. c.path \in Words /\ c.opens \in Words
    BY DEF Change
  <1>2. "" \notin FilePaths /\ "" \in Words
    BY TheWords DEF FilePaths
  <1>3. r \in Words
    BY ReferenceIs
  <1>4. Opened(c, artifacts) =
           IF c.opens # "" THEN c.opens ELSE IF r # "" THEN r ELSE IF c.path \in FilePaths THEN c.path ELSE ""
    BY DEF Opened
  <1> HIDE DEF r
  <1> QED
    BY <1>1, <1>2, <1>3, <1>4

\* A list with one more element.
LEMMA OneMore ==
    ASSUME NEW S, NEW l \in Seq(S), NEW x \in S
    PROVE  Append(l, x) = l \o <<x>> /\ <<x>> \in Seq(S) /\ Range(<<x>>) = {x}
  <1> DEFINE one == <<x>>
  <1>1. one \in Seq(S) /\ DOMAIN one = {1} /\ one[1] = x /\ Append(l, x) = l \o one
    OBVIOUS
  <1> HIDE DEF one
  <1>2. Range(one) = {x}
    BY <1>1 DEF Range
  <1> QED
    BY <1>1, <1>2 DEF one

\* One artifact more, unless it is there already.
LEMMA WithArtifactIs ==
    ASSUME NEW artifacts \in Seq(Artifact), NEW path \in Words
    PROVE  /\ WithArtifact(artifacts, path) \in Seq(Artifact)
           /\ Paths(artifacts) \subseteq Paths(WithArtifact(artifacts, path))
           /\ path # "" => path \in Paths(WithArtifact(artifacts, path))
  <1>1. CASE path = ""
    BY <1>1 DEF WithArtifact
  <1>2. CASE path # ""
    <2> DEFINE new == [path |-> path, title |-> "file"]
               one == <<new>>
               all == artifacts \o one
    <2>1. new \in Artifact /\ new.path = path
      BY <1>2, TheWords DEF Artifact
    <2>2. WithArtifact(artifacts, path) = Deduped(Append(artifacts, new), "path")
      BY <1>2 DEF WithArtifact
    <2> HIDE DEF new
    <2>3. Append(artifacts, new) = all /\ one \in Seq(Artifact) /\ Range(one) = {new}
      BY <2>1, OneMore
    <2> HIDE DEF one
    <2>4. all \in Seq(Artifact) /\ Range(all) = Range(artifacts) \cup {new}
      <3>1. ASSUME NEW o \in Seq(Artifact)
            PROVE  artifacts \o o \in Seq(Artifact) /\ Range(artifacts \o o) = Range(artifacts) \cup Range(o)
        <4> HIDE DEF all
        <4> QED BY BothHave, Zenon
      <3> QED BY <2>3, <3>1
    <2> HIDE DEF all
    <2>6. /\ Deduped(all, "path") \in Seq(Artifact)
          /\ \A x \in Range(all) : \E y \in Range(Deduped(all, "path")) : Agree(y, x, "path")
      BY <2>4, DedupedIs
    <2>7. ASSUME NEW x \in Range(all) PROVE x.path \in Paths(Deduped(all, "path"))
      <3>1. PICK y \in Range(Deduped(all, "path")) : Agree(y, x, "path")
        BY <2>6
      <3>2. y.path = x.path
        <4>1. y["path"] = x["path"]
          BY <3>1 DEF Agree
        <4> QED BY <4>1
      <3> QED BY <3>2 DEF Paths
    <2>8. Paths(artifacts) \subseteq Paths(Deduped(all, "path"))
      BY <2>4, <2>7 DEF Paths
    <2>9. path \in Paths(Deduped(all, "path"))
      BY <2>1, <2>4, <2>7
    <2> QED BY <1>2, <2>2, <2>3, <2>6, <2>8, <2>9
  <1> QED
    BY <1>1, <1>2

\* The artifacts after each of the first n changes.
Afters(after, altered, artifacts, n) ==
    after = [k \in 0 .. n |-> IF k = 0 THEN Deduped(artifacts, "path")
                                        ELSE WithArtifact(after[k - 1], Opened(altered[k], after[k - 1]))]

\* The changes are gone through one after the other.
LEMMA AfterIs ==
    ASSUME NEW altered \in Seq(Change), NEW artifacts \in Seq(Artifact)
    PROVE  \E after :
             /\ Afters(after, altered, artifacts, Len(altered))
             /\ Actionable(altered, artifacts) =
                  [changes |-> [i \in DOMAIN altered |-> [altered[i] EXCEPT !.opens = Opened(altered[i], after[i - 1])]],
                   artifacts |-> after[Len(altered)]]
  <1> DEFINE N == Len(altered)
             T == {n \in 0 .. N : ~ \E f : Afters(f, altered, artifacts, n)}
  <1>1. N \in Nat
    OBVIOUS
  <1>2. T = {}
    <2> SUFFICES ASSUME T # {} PROVE FALSE
      OBVIOUS
    <2>1. PICK m \in T : \A y \in T : m <= y
      <3>1. T \in SUBSET Nat
        BY <1>1
      <3> HIDE DEF T
      <3> QED BY <3>1, LeastOf
    <2>2. m \in 0 .. N
      OBVIOUS
    <2>3. CASE m = 0
      <3> DEFINE f == [k \in 0 .. 0 |-> Deduped(artifacts, "path")]
      <3>1. f = [k \in 0 .. 0 |-> IF k = 0 THEN Deduped(artifacts, "path")
                                           ELSE WithArtifact(f[k - 1], Opened(altered[k], f[k - 1]))]
        OBVIOUS
      <3>2. Afters(f, altered, artifacts, m)
        BY <2>3, <3>1 DEF Afters
      <3> QED BY <3>2
    <2>4. CASE m # 0
      <3>1. m - 1 \in 0 .. N /\ m - 1 \notin T
        <4> HIDE DEF T, N
        <4>1. m - 1 \in 0 .. N /\ ~ (m <= m - 1)
          BY <1>1, <2>2, <2>4
        <4> QED BY <2>1, <4>1
      <3>2. PICK f : Afters(f, altered, artifacts, m - 1)
        BY <3>1
      <3> DEFINE last == WithArtifact(f[m - 1], Opened(altered[m], f[m - 1]))
                 g == [k \in 0 .. m |-> IF k = m THEN last ELSE f[k]]
      <3>3. ASSUME NEW k \in 0 .. m
            PROVE  g[k] = IF k = 0 THEN Deduped(artifacts, "path")
                                   ELSE WithArtifact(g[k - 1], Opened(altered[k], g[k - 1]))
        <4>1. CASE k = m
          <5>1. m - 1 \in 0 .. m /\ m - 1 # m
            BY <1>1, <2>2, <2>4
          <5>2. g[m - 1] = f[m - 1] /\ g[k] = last
            BY <4>1, <5>1
          <5> HIDE DEF g
          <5> QED BY <2>4, <4>1, <5>2
        <4>2. CASE k # m
          <5>1. k \in 0 .. m - 1
            BY <2>2, <4>2
          <5>2. f[k] = IF k = 0 THEN Deduped(artifacts, "path")
                                ELSE WithArtifact(f[k - 1], Opened(altered[k], f[k - 1]))
            BY <3>2, <5>1 DEF Afters
          <5>3. k # 0 => k - 1 \in 0 .. m /\ k - 1 # m
            BY <2>2, <5>1
          <5> HIDE DEF last
          <5>4. g[k] = f[k] /\ (k # 0 => g[k - 1] = f[k - 1])
            BY <4>2, <5>3
          <5> HIDE DEF g
          <5> QED BY <5>2, <5>4
        <4> QED BY <4>1, <4>2
      <3> HIDE DEF last
      <3>4. g = [k \in 0 .. m |-> g[k]]
        OBVIOUS
      <3> HIDE DEF g
      <3>5. Afters(g, altered, artifacts, m)
        BY <3>3, <3>4 DEF Afters
      <3> QED BY <3>5
    <2> QED BY <2>3, <2>4
  <1>3. \E f : Afters(f, altered, artifacts, N)
    <2>1. N \in 0 .. N /\ N \notin T
      BY <1>1, <1>2
    <2> QED BY <2>1
  <1> DEFINE h == CHOOSE f : f = [n \in 0 .. Len(altered) |->
                    IF n = 0 THEN Deduped(artifacts, "path")
                             ELSE WithArtifact(f[n - 1], Opened(altered[n], f[n - 1]))]
  <1>4. Afters(h, altered, artifacts, N)
    BY <1>3, Zenon DEF Afters
  <1>5. Actionable(altered, artifacts) =
          [changes |-> [i \in DOMAIN altered |-> [altered[i] EXCEPT !.opens = Opened(altered[i], h[i - 1])]],
           artifacts |-> h[Len(altered)]]
    BY Zenon DEF Actionable
  <1> HIDE DEF h
  <1> QED
    BY <1>4, <1>5

\* The paths of a list of artifacts are left.
LEMMA DedupedPaths ==
    ASSUME NEW l \in Seq(Artifact)
    PROVE  /\ Deduped(l, "path") \in Seq(Artifact)
           /\ Paths(Deduped(l, "path")) = Paths(l)
  <1> DEFINE p == Deduped(l, "path")
  <1>1. /\ p \in Seq(Artifact) /\ Range(p) \subseteq Range(l)
        /\ \A x \in Range(l) : \E y \in Range(p) : Agree(y, x, "path")
    BY DedupedIs
  <1> HIDE DEF p
  <1>2. Paths(p) \subseteq Paths(l)
    BY <1>1 DEF Paths
  <1>3. ASSUME NEW x \in Range(l) PROVE x.path \in Paths(p)
    <2>1. PICK y \in Range(p) : Agree(y, x, "path")
      BY <1>1
    <2>2. y.path = x.path
      <3>1. y["path"] = x["path"]
        BY <2>1 DEF Agree
      <3> QED BY <3>1
    <2> QED BY <2>2 DEF Paths
  <1>4. Paths(l) \subseteq Paths(p)
    BY <1>3 DEF Paths
  <1> QED
    BY <1>1, <1>2, <1>4 DEF p

\* The changes that name a file open an artifact of the list.
AllOpen(altered, artifacts) ==
    \A i \in DOMAIN altered : /\ altered[i].path \in FilePaths => altered[i].opens # ""
                              /\ altered[i].opens # "" => altered[i].opens \in Paths(artifacts)

\* Each change that names a file opens an artifact.
LEMMA ActionableIs ==
    ASSUME NEW altered \in Seq(Change), NEW artifacts \in Seq(Artifact), NEW r, r = Actionable(altered, artifacts)
    PROVE  r.artifacts \in Seq(Artifact) /\ r.changes \in Seq(Change) /\ AllOpen(r.changes, r.artifacts)
  <1> DEFINE N == Len(altered)
  <1>1. N \in Nat /\ DOMAIN altered = 1 .. N /\ \A i \in 1 .. N : altered[i] \in Change
    OBVIOUS
  <1>2. PICK f :
          /\ Afters(f, altered, artifacts, Len(altered))
          /\ Actionable(altered, artifacts) =
               [changes |-> [i \in DOMAIN altered |-> [altered[i] EXCEPT !.opens = Opened(altered[i], f[i - 1])]],
                artifacts |-> f[Len(altered)]]
    BY AfterIs
  <1> DEFINE opens(i) == Opened(altered[i], f[i - 1])
             built == [i \in DOMAIN altered |-> [altered[i] EXCEPT !.opens = opens(i)]]
  <1>3. r.changes = built /\ r.artifacts = f[N]
    <2>1. r = [changes |-> built, artifacts |-> f[N]]
      BY <1>2
    <2> HIDE DEF built, N
    <2> QED BY <2>1
  <1>4. f[0] = Deduped(artifacts, "path") /\ \A k \in 1 .. N : f[k] = WithArtifact(f[k - 1], opens(k))
    <2>1. f = [k \in 0 .. N |-> IF k = 0 THEN Deduped(artifacts, "path") ELSE WithArtifact(f[k - 1], Opened(altered[k], f[k - 1]))]
      BY <1>2 DEF Afters
    <2> HIDE DEF N
    <2>2. 0 \in 0 .. N /\ \A k \in 1 .. N : k \in 0 .. N /\ k # 0
      BY <1>1
    <2>3. \A k \in 0 .. N : f[k] = IF k = 0 THEN Deduped(artifacts, "path") ELSE WithArtifact(f[k - 1], Opened(altered[k], f[k - 1]))
      BY <2>1, Zenon
    <2> QED BY <2>2, <2>3
  <1> DEFINE Good(k) ==
               /\ f[k] \in Seq(Artifact)
               /\ \A j \in 1 .. k : /\ opens(j) \in Words
                                    /\ altered[j].path \in FilePaths => opens(j) # ""
                                    /\ opens(j) # "" => opens(j) \in Paths(f[k])
  <1>5. Good(0)
    <2>1. 1 .. 0 = {}
      OBVIOUS
    <2> QED BY <1>4, <2>1, DedupedPaths
  <1>6. ASSUME NEW k \in 1 .. N, Good(k - 1) PROVE Good(k)
    <2> DEFINE a == f[k - 1]
               o == opens(k)
               b == WithArtifact(a, o)
    <2>1. a \in Seq(Artifact)
      BY <1>6
    <2>2. /\ o \in Words /\ (altered[k].path \in FilePaths => o # "")
      <3>1. altered[k] \in Change
        BY <1>1
      <3>2. ASSUME NEW c \in Change, NEW x \in Seq(Artifact)
            PROVE  Opened(c, x) \in Words /\ (c.path \in FilePaths => Opened(c, x) # "")
        BY OpenedIs
      <3> QED BY <2>1, <3>1, <3>2
    <2>3. f[k] = b
      BY <1>4
    <2>4. /\ b \in Seq(Artifact) /\ Paths(a) \subseteq Paths(b) /\ (o # "" => o \in Paths(b))
      <3> HIDE DEF a, o
      <3> QED BY <2>1, <2>2, WithArtifactIs
    <2>5. \A j \in 1 .. (k - 1) : /\ opens(j) \in Words
                                  /\ altered[j].path \in FilePaths => opens(j) # ""
                                  /\ opens(j) # "" => opens(j) \in Paths(a)
      BY <1>6
    <2>6. \A j \in 1 .. k : j \in 1 .. (k - 1) \/ j = k
      BY <1>1
    <2> HIDE DEF a, b, opens
    <2>7. \A j \in 1 .. k : /\ opens(j) \in Words
                            /\ altered[j].path \in FilePaths => opens(j) # ""
                            /\ opens(j) # "" => opens(j) \in Paths(b)
      <3> SUFFICES ASSUME NEW j \in 1 .. k
                   PROVE  /\ opens(j) \in Words
                          /\ altered[j].path \in FilePaths => opens(j) # ""
                          /\ opens(j) # "" => opens(j) \in Paths(b)
        OBVIOUS
      <3>1. CASE j = k
        <4>1. o = opens(k)
          OBVIOUS
        <4> HIDE DEF o
        <4> QED BY <2>2, <2>4, <3>1, <4>1, Zenon
      <3>2. CASE j \in 1 .. (k - 1)
        <4>1. /\ opens(j) \in Words
              /\ altered[j].path \in FilePaths => opens(j) # ""
              /\ opens(j) # "" => opens(j) \in Paths(a)
          BY <2>5, <3>2, Zenon
        <4> QED BY <2>4, <4>1, Zenon
      <3> QED BY <2>6, <3>1, <3>2, Zenon
    <2> QED BY <2>1, <2>3, <2>4, <2>7
  <1> HIDE DEF Good, opens, built
  <1> DEFINE T == {k \in 0 .. N : ~ Good(k)}
  <1>7. T = {}
    <2> SUFFICES ASSUME T # {} PROVE FALSE
      OBVIOUS
    <2>1. PICK m \in T : \A y \in T : m <= y
      <3>1. T \in SUBSET Nat
        BY <1>1
      <3> HIDE DEF T
      <3> QED BY <3>1, LeastOf
    <2>2. m \in 0 .. N /\ ~ Good(m)
      OBVIOUS
    <2>3. m \in 1 .. N /\ m - 1 \in 0 .. N /\ ~ (m <= m - 1)
      <3>1. m # 0
        BY <1>5, <2>2
      <3> HIDE DEF N
      <3> QED BY <1>1, <2>2, <3>1
    <2>4. Good(m - 1)
      <3>1. m - 1 \notin T
        <4> HIDE DEF T
        <4> QED BY <2>1, <2>3
      <3> QED BY <2>3, <3>1
    <2> QED BY <1>6, <2>2, <2>3, <2>4
  <1>8. Good(N)
    BY <1>1, <1>7
  <1> HIDE DEF N, T
  <1>9. ASSUME NEW i \in 1 .. N
        PROVE  /\ built[i] \in Change /\ built[i].path = altered[i].path /\ built[i].opens = opens(i)
    <2> DEFINE o == opens(i)
    <2>1. o \in Words /\ altered[i] \in Change /\ built[i] = [altered[i] EXCEPT !.opens = o]
      BY <1>1, <1>8 DEF Good, built
    <2> HIDE DEF o
    <2> QED BY <2>1 DEF Change, o
  <1>10. built \in Seq(Change) /\ DOMAIN built = 1 .. N
    <2>1. DOMAIN built = 1 .. N /\ built = [i \in DOMAIN altered |-> built[i]]
      BY <1>1 DEF built
    <2>2. built \in [DOMAIN altered -> Change]
      BY <1>1, <1>9, <2>1
    <2> QED BY <2>1, <2>2, ListOver
  <1>12. AllOpen(built, f[N])
    <2> SUFFICES ASSUME NEW i \in 1 .. N
                 PROVE  /\ built[i].path \in FilePaths => built[i].opens # ""
                        /\ built[i].opens # "" => built[i].opens \in Paths(f[N])
      BY <1>10, Zenon DEF AllOpen
    <2>1. /\ altered[i].path \in FilePaths => opens(i) # ""
          /\ opens(i) # "" => opens(i) \in Paths(f[N])
      BY <1>8, Zenon DEF Good
    <2> QED BY <1>9, <2>1, Zenon
  <1> QED
    BY <1>1, <1>3, <1>8, <1>9, <1>10, <1>12 DEF Good

\* Two of those that are left do not agree.
LEMMA DedupedApart ==
    ASSUME NEW S, NEW l \in Seq(S), NEW field
    PROVE  \A i, j \in 1 .. Len(Deduped(l, field)) : i # j => Deduped(l, field)[i] # Deduped(l, field)[j]
  <1> DEFINE I == Firsts(l, field)
             p == Picked(l, I)
             n == Cardinality(I)
  <1>1. Len(l) \in Nat /\ DOMAIN l = 1 .. Len(l) /\ I \in SUBSET (1 .. Len(l))
    BY DEF Firsts
  <1>2. p = Deduped(l, field)
    BY DEF Deduped
  <1>3. ASSUME NEW a \in I, NEW b \in I, a < b PROVE l[a] # l[b]
    <2>1. a \in 1 .. (b - 1)
      BY <1>1, <1>3
    <2>2. ~ Agree(l[a], l[b], field)
      BY <2>1 DEF Firsts
    <2> QED BY <2>2, AgreeIsEqual
  <1> HIDE DEF I
  <1>4. /\ p \in Seq(S) /\ Len(p) = n /\ n \in Nat
        /\ \A k \in 1 .. n : Place(I, k) \in I /\ p[k] = l[Place(I, k)]
    BY <1>1, PickedIsAList
  <1>5. \A k, m \in 1 .. n : Place(I, k) = Place(I, m) => k = m
    BY <1>1, PlacesMatch
  <1> HIDE DEF p, n
  <1>6. ASSUME NEW i \in 1 .. n, NEW j \in 1 .. n, i # j PROVE p[i] # p[j]
    <2> DEFINE a == Place(I, i)
               b == Place(I, j)
    <2>1. a \in I /\ b \in I /\ a # b /\ p[i] = l[a] /\ p[j] = l[b]
      BY <1>4, <1>5, <1>6
    <2> HIDE DEF a, b
    <2>2. a < b \/ b < a
      BY <1>1, <2>1
    <2> QED BY <1>3, <2>1, <2>2
  <1> QED
    BY <1>2, <1>4, <1>6

\* A list that has all the elements of one without repetition is no shorter.
LEMMA NoShorter ==
    ASSUME NEW S, NEW p \in Seq(S), NEW q \in Seq(S), Range(p) \subseteq Range(q),
           \A i, j \in 1 .. Len(p) : i # j => p[i] # p[j]
    PROVE  Len(p) <= Len(q)
  <1> DEFINE n == Len(p)
             m == Len(q)
             D == 1 .. n
             T == 1 .. m
             f == [i \in D |-> CHOOSE k \in T : q[k] = p[i]]
  <1>1. n \in Nat /\ m \in Nat /\ DOMAIN p = D /\ DOMAIN q = T
    OBVIOUS
  <1>2. ASSUME NEW i \in D PROVE f[i] \in T /\ q[f[i]] = p[i]
    <2>1. \E k \in T : q[k] = p[i]
      BY <1>1, Zenon DEF Range
    <2> QED BY <2>1
  <1> HIDE DEF n, m
  <1>3. IsFiniteSet(D) /\ IsFiniteSet(T) /\ Cardinality(D) = n /\ Cardinality(T) = m
    BY <1>1, FS_Interval
  <1> HIDE DEF f
  <1>4. \A i \in D, j \in D : f[i] = f[j] => i = j
    BY <1>2 DEF n
  <1>5. f = [i \in D |-> f[i]]
    BY DEF f
  <1>6. f \in [D -> T]
    BY <1>2, <1>5
  <1> HIDE DEF D, T
  <1>7. f \in Injection(D, T)
    BY <1>4, <1>6 DEF Injection, IsInjective
  <1>8. Cardinality(D) <= Cardinality(T)
    BY <1>3, <1>7, FS_Injection
  <1> QED
    BY <1>3, <1>8 DEF n, m

\* Every name of one list is in another.
NamesIn(l, r) == \A x \in Range(l) : \E y \in Range(r) : y.name = x.name

\* A list of reports, one for each name, and the beginning of it.
LEMMA ListedIs ==
    ASSUME NEW S, NEW l \in Seq(S), NEW n \in Nat
    PROVE  /\ First(Deduped(l, "name"), n) \in Seq(S) /\ Range(First(Deduped(l, "name"), n)) \subseteq Range(l)
           /\ Len(First(Deduped(l, "name"), n)) < n => NamesIn(l, First(Deduped(l, "name"), n))
  <1> DEFINE d == Deduped(l, "name")
  <1>1. d \in Seq(S) /\ Range(d) \subseteq Range(l) /\ \A x \in Range(l) : \E y \in Range(d) : Agree(y, x, "name")
    BY DedupedIs
  <1>2. ASSUME NEW x, NEW y, Agree(y, x, "name") PROVE y.name = x.name
    <2>1. y["name"] = x["name"]
      BY <1>2 DEF Agree
    <2> QED BY <2>1
  <1> HIDE DEF d
  <1> DEFINE f == First(d, n)
  <1>3. f \in Seq(S) /\ Range(f) \subseteq Range(d) /\ (Len(f) < n => f = d)
    BY <1>1, FirstIs
  <1> HIDE DEF f
  <1>4. Len(f) < n => NamesIn(l, f)
    BY <1>1, <1>2, <1>3, Zenon DEF NamesIn
  <1>5. Range(f) \subseteq Range(l)
    BY <1>1, <1>3
  <1> QED
    BY <1>3, <1>4, <1>5 DEF f, d

\* What a line says of a command, of a test and of a warning.
CommandOf(p) == [name |-> p.line.command, outcome |-> p.line.outcome]
CheckOf(p) == [name |-> p.line.says, outcome |-> p.line.outcome]
WarnedOf(p, level) == [name |-> Warning(p.line), level |-> level]

LEMMA ReportsAre ==
    ASSUME NEW p \in Piece
    PROVE  /\ CommandOf(p) \in Ran /\ CommandOf(p).name = p.line.command /\ CommandOf(p).outcome = p.line.outcome
           /\ CheckOf(p) \in Ran /\ CheckOf(p).name = p.line.says /\ CheckOf(p).outcome = p.line.outcome
           /\ \A level \in Words : WarnedOf(p, level) \in Warned /\ WarnedOf(p, level).name = Warning(p.line)
           /\ Warning(p.line).says = p.line.says
  <1>1. p.line \in Said
    BY DEF Piece
  <1> DEFINE w == Warning(p.line)
  <1>2. w \in [says : Strings, stop : BOOLEAN] /\ w.says = p.line.says
    BY <1>1 DEF Warning, Said
  <1>3. p.line.command \in Strings /\ p.line.says \in Strings /\ p.line.outcome \in Words
    BY <1>1 DEF Said
  <1> HIDE DEF w
  <1>4. \A level \in Words : [name |-> w, level |-> level] \in Warned /\ [name |-> w, level |-> level].name = w
    BY <1>2 DEF Warned
  <1> QED
    BY <1>2, <1>3, <1>4 DEF CommandOf, CheckOf, WarnedOf, Ran, w

\* The lines that are asked for.
LEMMA LinesThat ==
    ASSUME NEW text \in Seq(Piece)
    PROVE  /\ Those(text, NamesCommand) \in Seq(Piece) /\ Range(Those(text, NamesCommand)) = {p \in Range(text) : NamesCommand(p)}
           /\ Those(text, TellsOutcome) \in Seq(Piece) /\ Range(Those(text, TellsOutcome)) = {p \in Range(text) : TellsOutcome(p)}
           /\ Those(text, UnderWarnings) \in Seq(Piece) /\ Range(Those(text, UnderWarnings)) = {p \in Range(text) : UnderWarnings(p)}
           /\ Those(text, SoundsLikeWarning) \in Seq(Piece)
           /\ Range(Those(text, SoundsLikeWarning)) = {p \in Range(text) : SoundsLikeWarning(p)}
  <1>1. ASSUME NEW I \in SUBSET DOMAIN text
        PROVE  Picked(text, I) \in Seq(Piece) /\ Range(Picked(text, I)) = {text[i] : i \in I}
    BY ThoseAre
  <1> DEFINE A == {i \in DOMAIN text : NamesCommand(text[i])}
             B == {i \in DOMAIN text : TellsOutcome(text[i])}
             C == {i \in DOMAIN text : UnderWarnings(text[i])}
             D == {i \in DOMAIN text : SoundsLikeWarning(text[i])}
  <1>2. /\ Those(text, NamesCommand) = Picked(text, A) /\ Those(text, TellsOutcome) = Picked(text, B)
        /\ Those(text, UnderWarnings) = Picked(text, C) /\ Those(text, SoundsLikeWarning) = Picked(text, D)
    BY Zenon DEF Those
  <1>3. /\ {text[i] : i \in A} = {p \in Range(text) : NamesCommand(p)}
        /\ {text[i] : i \in B} = {p \in Range(text) : TellsOutcome(p)}
        /\ {text[i] : i \in C} = {p \in Range(text) : UnderWarnings(p)}
        /\ {text[i] : i \in D} = {p \in Range(text) : SoundsLikeWarning(p)}
    BY DEF Range
  <1>4. A \in SUBSET DOMAIN text /\ B \in SUBSET DOMAIN text /\ C \in SUBSET DOMAIN text /\ D \in SUBSET DOMAIN text
    OBVIOUS
  <1> HIDE DEF A, B, C, D
  <1> QED
    BY <1>1, <1>2, <1>3, <1>4

\* A list with something for each element of another.
LEMMA MapIs ==
    ASSUME NEW S, NEW l \in Seq(S), NEW T, NEW g \in [S -> T]
    PROVE  [i \in DOMAIN l |-> g[l[i]]] \in Seq(T) /\ Range([i \in DOMAIN l |-> g[l[i]]]) = {g[x] : x \in Range(l)}
  <1> DEFINE m == [i \in DOMAIN l |-> g[l[i]]]
  <1>1. \A i \in DOMAIN l : l[i] \in S
    OBVIOUS
  <1>2. m \in [DOMAIN l -> T]
    BY <1>1
  <1>3. Range(m) = {g[x] : x \in Range(l)}
    BY DEF Range
  <1> HIDE DEF m
  <1>4. m \in Seq(T)
    BY <1>2, ListOver
  <1> QED
    BY <1>3, <1>4 DEF m

LEMMA ReportsMap ==
    ASSUME NEW l \in Seq(Piece), NEW f \in [Piece -> Ran]
    PROVE  [i \in DOMAIN l |-> f[l[i]]] \in Seq(Ran) /\ Range([i \in DOMAIN l |-> f[l[i]]]) = {f[x] : x \in Range(l)}
  BY MapIs

LEMMA WarningsMap ==
    ASSUME NEW l \in Seq(Piece), NEW f \in [Piece -> Warned]
    PROVE  [i \in DOMAIN l |-> f[l[i]]] \in Seq(Warned) /\ Range([i \in DOMAIN l |-> f[l[i]]]) = {f[x] : x \in Range(l)}
  BY MapIs

\* Every command is reported while there is room, each as a line says.
LEMMA CommandsAre ==
    ASSUME NEW text \in Seq(Piece), NEW c, c = CommandsOf(text)
    PROVE  /\ c \in Seq(Ran)
           /\ \A x \in Range(c) : \E p \in Range(text) : NamesCommand(p) /\ x = CommandOf(p)
           /\ Len(c) < MaxRan => \A p \in Range(text) : NamesCommand(p) => \E x \in Range(c) : x.name = p.line.command
  <1> DEFINE ran == Those(text, NamesCommand)
             g == [p \in Piece |-> CommandOf(p)]
             m == [i \in DOMAIN ran |-> g[ran[i]]]
  <1>1. ran \in Seq(Piece) /\ Range(ran) = {p \in Range(text) : NamesCommand(p)}
    BY LinesThat
  <1>2. g \in [Piece -> Ran] /\ \A p \in Piece : g[p] = CommandOf(p)
    BY ReportsAre
  <1>3. c = First(Deduped(m, "name"), MaxRan)
    <2>1. \A i \in DOMAIN ran : ran[i] \in Piece
      BY <1>1
    <2> HIDE DEF ran, g
    <2>2. m = [i \in DOMAIN ran |-> CommandOf(ran[i])]
      BY <1>2, <2>1, Zenon
    <2> HIDE DEF m
    <2> QED BY <2>2, Zenon DEF CommandsOf, CommandOf, ran
  <1> HIDE DEF ran, g
  <1>4. m \in Seq(Ran) /\ Range(m) = {g[x] : x \in Range(ran)}
    BY <1>1, <1>2, ReportsMap
  <1> HIDE DEF m
  <1>5. /\ c \in Seq(Ran) /\ Range(c) \subseteq Range(m)
        /\ Len(c) < MaxRan => NamesIn(m, c)
    <2>1. MaxRan \in Nat
      BY FindingsAssumption
    <2>2. ASSUME NEW l \in Seq(Ran), NEW n \in Nat, NEW r, r = First(Deduped(l, "name"), n)
          PROVE  /\ r \in Seq(Ran) /\ Range(r) \subseteq Range(l)
                 /\ Len(r) < n => NamesIn(l, r)
      BY <2>2, ListedIs
    <2> QED BY <1>3, <1>4, <2>1, <2>2
  <1>6. \A p \in Range(text) : p \in Piece
    BY DEF Range
  <1>7. \A p \in Range(ran) : p \in Range(text) /\ NamesCommand(p) /\ g[p] = CommandOf(p)
    BY <1>1, <1>2, <1>6
  <1>8. \A x \in Range(c) : \E p \in Range(text) : NamesCommand(p) /\ x = CommandOf(p)
    BY <1>4, <1>5, <1>7, Zenon
  <1>9. ASSUME Len(c) < MaxRan, NEW p \in Range(text), NamesCommand(p) PROVE \E x \in Range(c) : x.name = p.line.command
    <2>1. p \in Range(ran)
      BY <1>1, <1>9
    <2>2. CommandOf(p) \in Range(m)
      BY <1>4, <1>7, <2>1
    <2>3. PICK y \in Range(c) : y.name = CommandOf(p).name
      BY <1>5, <1>9, <2>2, Zenon DEF NamesIn
    <2>4. CommandOf(p).name = p.line.command
      BY <1>6, ReportsAre
    <2> QED BY <2>3, <2>4
  <1> QED
    BY <1>5, <1>8, <1>9, Zenon

\* Commands that test, and what lines say of checks.
LEMMA TestsAre ==
    ASSUME NEW text \in Seq(Piece), NEW commands \in Seq(Ran), NEW t, t = TestsOf(text, commands)
    PROVE  /\ t \in Seq(Ran)
           /\ \A x \in Range(t) : \/ IsTest(x) /\ x \in Range(commands)
                                  \/ \E p \in Range(text) : TellsOutcome(p) /\ x = CheckOf(p)
           /\ Len(t) < MaxRan =>
                /\ \A x \in Range(commands) : IsTest(x) => x \in Range(t)
                /\ \A p \in Range(text) : TellsOutcome(p) =>
                     \E q \in Range(text) : TellsOutcome(q) /\ CheckOf(q) \in Range(t) /\ q.line.says = p.line.says
  <1> DEFINE I == {i \in DOMAIN commands : IsTest(commands[i])}
             tests == Picked(commands, I)
             tells == Those(text, TellsOutcome)
             g == [p \in Piece |-> CheckOf(p)]
             m == [i \in DOMAIN tells |-> g[tells[i]]]
             d == Deduped(m, "name")
  <1>1. tells \in Seq(Piece) /\ Range(tells) = {p \in Range(text) : TellsOutcome(p)}
    BY LinesThat
  <1>2. g \in [Piece -> Ran] /\ \A p \in Piece : g[p] = CheckOf(p)
    BY ReportsAre
  <1>3. t = First(tests \o d, MaxRan)
    <2>1. \A i \in DOMAIN tells : tells[i] \in Piece
      BY <1>1
    <2>2. Those(commands, IsTest) = tests
      BY Zenon DEF Those
    <2> HIDE DEF tells, g, tests
    <2>3. m = [i \in DOMAIN tells |-> CheckOf(tells[i])]
      BY <1>2, <2>1, Zenon
    <2> HIDE DEF m
    <2> QED BY <2>2, <2>3, Zenon DEF TestsOf, CheckOf, tells
  <1>4. tests \in Seq(Ran) /\ Range(tests) = {x \in Range(commands) : IsTest(x)}
    <2>1. I \in SUBSET DOMAIN commands /\ {commands[i] : i \in I} = {x \in Range(commands) : IsTest(x)}
      BY DEF Range
    <2> HIDE DEF I
    <2> QED BY <2>1, ThoseAre
  <1> HIDE DEF tells, g, tests
  <1>5. m \in Seq(Ran) /\ Range(m) = {g[x] : x \in Range(tells)}
    BY <1>1, <1>2, ReportsMap
  <1> HIDE DEF m
  <1>6. d \in Seq(Ran) /\ Range(d) \subseteq Range(m) /\ \A x \in Range(m) : \E y \in Range(d) : Agree(y, x, "name")
    BY <1>5, DedupedIs
  <1> HIDE DEF d
  <1> DEFINE both == tests \o d
  <1>7. both \in Seq(Ran) /\ Range(both) = Range(tests) \cup Range(d)
    <2>1. ASSUME NEW a \in Seq(Ran), NEW b \in Seq(Ran)
          PROVE  a \o b \in Seq(Ran) /\ Range(a \o b) = Range(a) \cup Range(b)
      BY BothHave, Zenon
    <2> QED BY <1>4, <1>6, <2>1
  <1> HIDE DEF both
  <1>8. t \in Seq(Ran) /\ Range(t) \subseteq Range(both) /\ (Len(t) < MaxRan => t = both)
    <2>1. MaxRan \in Nat
      BY FindingsAssumption
    <2>2. t = First(both, MaxRan)
      BY <1>3 DEF both
    <2>3. ASSUME NEW l \in Seq(Ran), NEW n \in Nat, NEW r, r = First(l, n)
          PROVE  r \in Seq(Ran) /\ Range(r) \subseteq Range(l) /\ (Len(r) < n => r = l)
      BY <2>3, FirstIs
    <2> QED BY <1>7, <2>1, <2>2, <2>3
  <1>9. \A p \in Range(text) : p \in Piece
    BY DEF Range
  <1>10. \A p \in Range(tells) : p \in Range(text) /\ TellsOutcome(p) /\ g[p] = CheckOf(p)
    BY <1>1, <1>2, <1>9
  <1>11. \A x \in Range(d) : \E p \in Range(text) : TellsOutcome(p) /\ x = CheckOf(p)
    BY <1>5, <1>6, <1>10, Zenon
  <1>12. \A x \in Range(t) : \/ IsTest(x) /\ x \in Range(commands)
                             \/ \E p \in Range(text) : TellsOutcome(p) /\ x = CheckOf(p)
    BY <1>4, <1>7, <1>8, <1>11
  <1>13. ASSUME Len(t) < MaxRan, NEW p \in Range(text), TellsOutcome(p)
         PROVE  \E q \in Range(text) : TellsOutcome(q) /\ CheckOf(q) \in Range(t) /\ q.line.says = p.line.says
    <2>1. p \in Range(tells)
      BY <1>1, <1>13
    <2>2. CheckOf(p) \in Range(m)
      BY <1>5, <1>10, <2>1
    <2>3. PICK y \in Range(d) : Agree(y, CheckOf(p), "name")
      BY <1>6, <2>2
    <2>4. PICK q \in Range(text) : TellsOutcome(q) /\ y = CheckOf(q)
      BY <1>11
    <2>5. y \in Range(t)
      BY <1>7, <1>8, <1>13
    <2>6. CheckOf(q).name = CheckOf(p).name
      <3>1. y["name"] = CheckOf(p)["name"]
        BY <2>3 DEF Agree
      <3> QED BY <2>4, <3>1
    <2>7. q.line.says = p.line.says
      BY <1>9, <2>6, ReportsAre
    <2> QED BY <2>4, <2>5, <2>7
  <1> QED
    BY <1>4, <1>7, <1>8, <1>12, <1>13

\* Warnings, one for each text.
LEMMA WarningsAre ==
    ASSUME NEW text \in Seq(Piece), NEW w, w = WarningsOf(text)
    PROVE  /\ w \in Seq(Warned)
           /\ \A i, j \in 1 .. Len(w) : i # j => w[i] # w[j]
           /\ Len(w) < MaxWarned =>
                \A p \in Range(text) : UnderWarnings(p) \/ SoundsLikeWarning(p) => \E x \in Range(w) : x.name = Warning(p.line)
  <1> DEFINE under == Those(text, UnderWarnings)
             sounds == Those(text, SoundsLikeWarning)
             g == [p \in Piece |-> WarnedOf(p, "warning")]
             h == [p \in Piece |-> WarnedOf(p, "error")]
             a == [i \in DOMAIN under |-> g[under[i]]]
             b == [i \in DOMAIN sounds |-> h[sounds[i]]]
             both == a \o b
             d == Deduped(both, "name")
  <1>1. /\ under \in Seq(Piece) /\ Range(under) = {p \in Range(text) : UnderWarnings(p)}
        /\ sounds \in Seq(Piece) /\ Range(sounds) = {p \in Range(text) : SoundsLikeWarning(p)}
    BY LinesThat
  <1>2. /\ g \in [Piece -> Warned] /\ \A p \in Piece : g[p] = WarnedOf(p, "warning")
        /\ h \in [Piece -> Warned] /\ \A p \in Piece : h[p] = WarnedOf(p, "error")
    BY ReportsAre, TheWords
  <1>3. w = First(d, MaxWarned)
    <2>1. /\ \A i \in DOMAIN under : under[i] \in Piece
          /\ \A i \in DOMAIN sounds : sounds[i] \in Piece
      BY <1>1
    <2> HIDE DEF under, sounds, g, h
    <2>2. a = [i \in DOMAIN under |-> WarnedOf(under[i], "warning")]
      BY <1>2, <2>1, Zenon
    <2>3. b = [i \in DOMAIN sounds |-> WarnedOf(sounds[i], "error")]
      BY <1>2, <2>1, Zenon
    <2> HIDE DEF a, b
    <2> QED BY <2>2, <2>3, Zenon DEF WarningsOf, WarnedOf, under, sounds
  <1> HIDE DEF under, sounds, g, h
  <1>4. /\ a \in Seq(Warned) /\ Range(a) = {g[x] : x \in Range(under)}
        /\ b \in Seq(Warned) /\ Range(b) = {h[x] : x \in Range(sounds)}
    <2>1. ASSUME NEW l \in Seq(Piece), NEW f \in [Piece -> Warned]
          PROVE  /\ [i \in DOMAIN l |-> f[l[i]]] \in Seq(Warned)
                 /\ Range([i \in DOMAIN l |-> f[l[i]]]) = {f[x] : x \in Range(l)}
      BY WarningsMap
    <2> QED BY <1>1, <1>2, <2>1
  <1> HIDE DEF a, b
  <1>5. both \in Seq(Warned) /\ Range(both) = Range(a) \cup Range(b)
    <2>1. ASSUME NEW u \in Seq(Warned), NEW v \in Seq(Warned)
          PROVE  u \o v \in Seq(Warned) /\ Range(u \o v) = Range(u) \cup Range(v)
      BY BothHave, Zenon
    <2> QED BY <1>4, <2>1
  <1> HIDE DEF both
  <1>6. MaxWarned \in Nat
    BY FindingsAssumption
  <1>7. /\ w \in Seq(Warned)
        /\ Len(w) < MaxWarned => NamesIn(both, w)
    <2>1. ASSUME NEW l \in Seq(Warned), NEW n \in Nat, NEW r, r = First(Deduped(l, "name"), n)
          PROVE  r \in Seq(Warned) /\ (Len(r) < n => NamesIn(l, r))
      BY <2>1, ListedIs
    <2> QED BY <1>3, <1>5, <1>6, <2>1
  <1>8. \A i, j \in 1 .. Len(w) : i # j => w[i] # w[j]
    <2>1. d \in Seq(Warned) /\ \A i, j \in 1 .. Len(d) : i # j => d[i] # d[j]
      BY <1>5, DedupedIs, DedupedApart
    <2> HIDE DEF d
    <2>2. Len(w) <= Len(d) /\ \A i \in 1 .. Len(w) : w[i] = d[i]
      BY <1>3, <1>6, <2>1 DEF First
    <2>3. Len(w) \in Nat /\ Len(d) \in Nat
      BY <1>7, <2>1
    <2> QED BY <2>1, <2>2, <2>3
  <1>9. \A p \in Range(text) : p \in Piece
    BY DEF Range
  <1>10. ASSUME Len(w) < MaxWarned, NEW p \in Range(text), UnderWarnings(p) \/ SoundsLikeWarning(p)
         PROVE  \E x \in Range(w) : x.name = Warning(p.line)
    <2>1. \E x \in Range(both) : x.name = Warning(p.line)
      <3>1. /\ WarnedOf(p, "warning").name = Warning(p.line) /\ g[p] = WarnedOf(p, "warning")
            /\ WarnedOf(p, "error").name = Warning(p.line) /\ h[p] = WarnedOf(p, "error")
        BY <1>2, <1>9, ReportsAre, TheWords
      <3>2. UnderWarnings(p) => g[p] \in Range(both)
        BY <1>1, <1>4, <1>5
      <3>3. SoundsLikeWarning(p) => h[p] \in Range(both)
        BY <1>1, <1>4, <1>5
      <3> QED BY <1>10, <3>1, <3>2, <3>3
    <2> QED BY <1>7, <1>10, <2>1, Zenon DEF NamesIn
  <1> QED
    BY <1>7, <1>8, <1>10, Zenon

\* Every line under a heading for checks says how something ended; what is no
\* command says so in words of its own.
LEMMA KnownChecks ==
    /\ \A l \in LinesUnder["verification"] : l.outcome \in {"failed", "passed", "skipped"}
    /\ \A k, l \in LinesUnder["verification"] :
          k.command = <<>> /\ l.command = <<>> /\ k.says = l.says => k.outcome = l.outcome
  <1> DEFINE v == {Fails, Passes, PassesLate, Lints, Skips, Builds}
  <1>1. LinesUnder["verification"] = v
    BY DEF LinesUnder
  <1>2. /\ Fails.outcome = "failed" /\ Fails.command = <<"pytest">>
        /\ Passes.outcome = "passed" /\ Passes.command = <<"pytest">>
        /\ Lints.outcome = "failed" /\ Lints.command = <<"ruff">>
    BY DEF Fails, Passes, Lints, Check, Silent
  <1>3. /\ Skips.outcome = "skipped" /\ Skips.says = <<"the rest is skipped">>
        /\ Builds.outcome = "passed" /\ Builds.says = <<"the build is ok">>
    BY DEF Skips, Builds, Check, Silent
  <1>4. PassesLate.outcome = "passed" /\ PassesLate.command = <<"pytest">>
    BY DEF PassesLate, Check, Silent
  <1>5. <<"pytest">> # <<>> /\ <<"ruff">> # <<>> /\ <<"the rest is skipped">> # <<"the build is ok">>
    OBVIOUS
  <1>6. \A l \in v : l.outcome \in {"failed", "passed", "skipped"}
    BY <1>2, <1>3, <1>4
  <1>7. ASSUME NEW k \in v, NEW l \in v, k.command = <<>>, l.command = <<>>, k.says = l.says PROVE k.outcome = l.outcome
    <2>1. k \in {Skips, Builds} /\ l \in {Skips, Builds}
      BY <1>2, <1>3, <1>4, <1>5, <1>7
    <2> QED BY <1>3, <1>5, <1>7, <2>1
  <1> HIDE DEF v
  <1> QED
    BY <1>1, <1>6, <1>7, Zenon

\* What an agent may state.
LEMMA ManifestsAre == NoManifest \in Manifest /\ Manifests \subseteq Manifest
  <1> DEFINE e == <<>>
  <1>1. /\ e \in Seq(Artifact) /\ e \in Seq(Change) /\ e \in Seq(Ran) /\ e \in Seq(Warned) /\ e \in Strings
    BY DEF Strings
  <1>2. NoManifest \in Manifest
    <2>1. NoManifest = [artifacts |-> e, changes |-> e, commands |-> e, tests |-> e, warnings |-> e]
      BY Zenon DEF NoManifest
    <2> HIDE DEF e
    <2> QED BY <1>1, <2>1 DEF Manifest
  <1>3. ASSUME NEW a \in Seq(Artifact), NEW c \in Seq(Change), NEW r \in Seq(Ran), NEW t \in Seq(Ran), NEW w \in Seq(Warned)
        PROVE  /\ [NoManifest EXCEPT !.changes = c] \in Manifest
               /\ [NoManifest EXCEPT !.artifacts = a, !.commands = r] \in Manifest
               /\ [NoManifest EXCEPT !.tests = t] \in Manifest
               /\ [NoManifest EXCEPT !.warnings = w] \in Manifest
    BY <1>2 DEF Manifest
  <1>4. /\ "/repo/a.py" \in Words /\ "src/b.py" \in Words /\ "modified" \in Words /\ "" \in Words /\ "the build" \in Words
        /\ "file" \in Words /\ "pytest" \in Words /\ "passed" \in Words /\ "unit tests" \in Words /\ "failed" \in Words
        /\ "warning" \in Words
    BY TheWords DEF FilePaths
  <1> DEFINE c1 == [path |-> "src/b.py", status |-> "modified", opens |-> ""]
             c2 == [path |-> "the build", status |-> "modified", opens |-> ""]
             a1 == [path |-> "/repo/a.py", title |-> "src/b.py"]
             a2 == [path |-> "/repo/a.py", title |-> "file"]
             n1 == <<"pytest">>
             n2 == <<"unit tests">>
             n3 == <<"failed", "pytest">>
             r1 == [name |-> n1, outcome |-> "passed"]
             t1 == [name |-> n2, outcome |-> "passed"]
             s1 == [says |-> n3, stop |-> FALSE]
             w1 == [name |-> s1, level |-> "warning"]
  <1>5. c1 \in Change /\ c2 \in Change /\ a1 \in Artifact /\ a2 \in Artifact
    BY <1>4 DEF Change, Artifact
  <1>6. n1 \in Strings /\ n2 \in Strings /\ n3 \in Strings
    BY <1>4, WordsAre
  <1> HIDE DEF n1, n2, n3
  <1>7. r1 \in Ran /\ t1 \in Ran /\ w1 \in Warned
    BY <1>4, <1>6 DEF Ran, Warned
  <1>8. Manifests = {NoManifest, [NoManifest EXCEPT !.changes = <<c1, c2>>],
                     [NoManifest EXCEPT !.artifacts = <<a1, a2>>, !.commands = <<r1>>],
                     [NoManifest EXCEPT !.tests = <<t1>>], [NoManifest EXCEPT !.warnings = <<w1>>]}
    BY Zenon DEF Manifests, n1, n2, n3
  <1> HIDE DEF c1, c2, a1, a2, r1, t1, w1
  <1>9. /\ <<c1, c2>> \in Seq(Change) /\ <<a1, a2>> \in Seq(Artifact) /\ <<r1>> \in Seq(Ran) /\ <<t1>> \in Seq(Ran)
        /\ <<w1>> \in Seq(Warned)
    BY <1>5, <1>7
  <1>10. /\ [NoManifest EXCEPT !.changes = <<c1, c2>>] \in Manifest
         /\ [NoManifest EXCEPT !.artifacts = <<a1, a2>>, !.commands = <<r1>>] \in Manifest
         /\ [NoManifest EXCEPT !.tests = <<t1>>] \in Manifest
         /\ [NoManifest EXCEPT !.warnings = <<w1>>] \in Manifest
    BY <1>1, <1>3, <1>9
  <1> QED
    BY <1>2, <1>8, <1>10

\* An envelope with the artifacts that were found when the text was read first.
Extended(manifest, text) == [manifest EXCEPT !.artifacts = Deduped(@ \o ArtifactsOf(text), "path")]

LEMMA ExtendedIs ==
    ASSUME NEW manifest \in Manifest, NEW text \in Seq(Piece)
    PROVE  /\ Extended(manifest, text) \in Manifest
           /\ Extended(manifest, text).commands = manifest.commands /\ Extended(manifest, text).tests = manifest.tests
  <1> DEFINE a == manifest.artifacts
             b == ArtifactsOf(text)
             d == Deduped(a \o b, "path")
  <1>1. a \in Seq(Artifact) /\ b \in Seq(Artifact)
    BY ArtifactsAre DEF Manifest
  <1>2. Extended(manifest, text) = [manifest EXCEPT !.artifacts = d]
    BY DEF Extended
  <1> HIDE DEF a, b
  <1>3. d \in Seq(Artifact)
    <2> DEFINE c == a \o b
    <2>1. c \in Seq(Artifact)
      BY <1>1
    <2> HIDE DEF c
    <2>2. Deduped(c, "path") \in Seq(Artifact)
      BY <2>1, DedupedIs
    <2> QED BY <2>2 DEF c
  <1> HIDE DEF d
  <1> QED
    BY <1>2, <1>3 DEF Manifest

\* What is found in what is read.
LEMMA EnhancedIs ==
    ASSUME NEW envelope \in Manifest, NEW lines \in Seq(Piece), NEW summary \in Said,
           NEW text, text = EnvelopeText(lines, summary), NEW r, r = Enhanced(envelope, lines, summary)
    PROVE  /\ AllOpen(r.changes, r.artifacts)
           /\ r.commands = Or(envelope.commands, CommandsOf(text)) /\ r.commands \in Seq(Ran)
           /\ r.tests = Or(envelope.tests, TestsOf(text, r.commands))
           /\ r.warnings = Deduped(envelope.warnings \o WarningsOf(text), "all")
  <1> DEFINE artifacts == Deduped(envelope.artifacts \o ArtifactsOf(text), "path")
             altered == Or(envelope.changes, ChangesOf(text, artifacts))
             actionable == Actionable(altered, artifacts)
             commands == Or(envelope.commands, CommandsOf(text))
             tests == Or(envelope.tests, TestsOf(text, commands))
             warnings == Deduped(envelope.warnings \o WarningsOf(text), "all")
  <1>1. r = [artifacts |-> actionable.artifacts, changes |-> actionable.changes, commands |-> commands, tests |-> tests,
             warnings |-> warnings]
    BY Zenon DEF Enhanced
  <1>2. /\ envelope.artifacts \in Seq(Artifact) /\ envelope.changes \in Seq(Change) /\ envelope.commands \in Seq(Ran)
    BY DEF Manifest
  <1>3. text \in Seq(Piece)
    BY EnvelopeLines
  <1>4. artifacts \in Seq(Artifact)
    <2> DEFINE a == envelope.artifacts
               b == ArtifactsOf(text)
               c == a \o b
    <2>1. a \in Seq(Artifact) /\ b \in Seq(Artifact)
      BY <1>2, <1>3, ArtifactsAre
    <2> HIDE DEF a, b
    <2>2. c \in Seq(Artifact)
      BY <2>1
    <2> HIDE DEF c
    <2>3. Deduped(c, "path") \in Seq(Artifact)
      BY <2>2, DedupedIs
    <2> QED BY <2>3 DEF c, a, b
  <1> HIDE DEF artifacts
  <1>5. altered \in Seq(Change)
    <2>1. ChangesOf(text, artifacts) \in Seq(Change)
      BY <1>3, <1>4, ChangesAre
    <2> QED BY <1>2, <2>1 DEF Or
  <1>6. commands \in Seq(Ran)
    <2>1. CommandsOf(text) \in Seq(Ran)
      BY <1>3, CommandsAre
    <2> QED BY <1>2, <2>1 DEF Or
  <1> HIDE DEF altered
  <1>7. AllOpen(actionable.changes, actionable.artifacts)
    BY <1>4, <1>5, ActionableIs
  <1> DEFINE u == actionable.changes
             v == actionable.artifacts
  <1>8. AllOpen(u, v) /\ r = [artifacts |-> v, changes |-> u, commands |-> commands, tests |-> tests, warnings |-> warnings]
    BY <1>1, <1>7
  <1> HIDE DEF u, v, commands, tests, warnings
  <1>9. r.changes = u /\ r.artifacts = v /\ r.commands = commands /\ r.tests = tests /\ r.warnings = warnings
    BY <1>8
  <1> QED
    BY <1>6, <1>8, <1>9 DEF commands, tests, warnings

\* The lines of a message are known, and what is found is found in them.
FindInv ==
    /\ findText \in Seq(Piece) /\ opening \in Said /\ given \in Manifest
    /\ \A i \in DOMAIN findText : findText[i].under \in DOMAIN LinesUnder /\ findText[i].line \in LinesUnder[findText[i].under]
    /\ found = IF findText = <<>> THEN NoManifest ELSE Enhanced(Extended(given, findText), findText, opening)

LEMMA FindInitially == FindInit => FindInv
  <1> SUFFICES ASSUME FindInit PROVE FindInv
    OBVIOUS
  <1>1. findText = <<>> /\ given = NoManifest /\ opening = Silent /\ found = NoManifest
    BY DEF FindInit
  <1>2. NoManifest \in Manifest /\ Silent \in Said
    BY ManifestsAre, LinesAre
  <1> QED
    BY <1>1, <1>2 DEF FindInv

LEMMA FindStays == FindInv /\ [FindNext]_findVars => FindInv'
  <1> SUFFICES ASSUME FindInv, [FindNext]_findVars PROVE FindInv'
    OBVIOUS
  <1>1. CASE UNCHANGED findVars
    BY <1>1 DEF FindInv, findVars
  <1>2. CASE Finds
    <2>0. PICK title \in DOMAIN LinesUnder :
            \E l \in LinesUnder[title] : findText' = Append(findText, [under |-> title, line |-> l])
      BY <1>2, Zenon DEF Finds
    <2>1. PICK line \in LinesUnder[title] : findText' = Append(findText, [under |-> title, line |-> line])
      BY <2>0
    <2> DEFINE p == [under |-> title, line |-> line]
    <2>2. title \in Words /\ line \in Said
      BY LinesAre
    <2>3. p \in Piece /\ p.under = title /\ p.line = line
      BY <2>2 DEF Piece
    <2>4. findText \in Seq(Piece) /\ findText' = Append(findText, p)
      BY <2>1 DEF FindInv
    <2> HIDE DEF p
    <2>5. /\ findText' \in Seq(Piece) /\ findText' # <<>>
          /\ \A i \in DOMAIN findText' : (i \in DOMAIN findText /\ findText'[i] = findText[i]) \/ findText'[i] = p
      BY <2>3, <2>4
    <2>6. \A i \in DOMAIN findText : findText[i].under \in DOMAIN LinesUnder /\ findText[i].line \in LinesUnder[findText[i].under]
      BY DEF FindInv
    <2>7. \A i \in DOMAIN findText' :
            findText'[i].under \in DOMAIN LinesUnder /\ findText'[i].line \in LinesUnder[findText'[i].under]
      <3> SUFFICES ASSUME NEW i \in DOMAIN findText'
                   PROVE  findText'[i].under \in DOMAIN LinesUnder /\ findText'[i].line \in LinesUnder[findText'[i].under]
        OBVIOUS
      <3>1. CASE i \in DOMAIN findText /\ findText'[i] = findText[i]
        BY <2>6, <3>1, Zenon
      <3>2. CASE findText'[i] = p
        BY <2>3, <3>2, Zenon
      <3> QED BY <2>5, <3>1, <3>2, Zenon
    <2>8. given' \in Manifest
      <3>1. given' \in Manifests \/ given' = given
        BY <1>2 DEF Finds
      <3> QED BY <3>1, ManifestsAre DEF FindInv
    <2>9. opening' \in Said
      <3>1. opening' \in Openings(findText')
        BY <1>2, Zenon DEF Finds
      <3>2. ASSUME NEW t \in Seq(Piece) PROVE Openings(t) \subseteq Said
        BY OpeningsAre
      <3> QED BY <2>5, <3>1, <3>2
    <2>10. found' = Enhanced(Extended(given', findText'), findText', opening')
      BY <1>2, Zenon DEF Finds, Extended
    <2> QED BY <2>5, <2>7, <2>8, <2>9, <2>10 DEF FindInv
  <1> QED
    BY <1>1, <1>2 DEF FindNext

\* What is found of each kind, once there is a line.
LEMMA FoundIs ==
    ASSUME FindInv, findText # <<>>, NEW text, text = EnvelopeText(findText, opening)
    PROVE  /\ AllOpen(found.changes, found.artifacts)
           /\ found.commands = Or(given.commands, CommandsOf(text)) /\ found.commands \in Seq(Ran)
           /\ found.tests = Or(given.tests, TestsOf(text, found.commands))
           /\ \E w \in Seq(Warned) : found.warnings = Deduped(w \o WarningsOf(text), "all")
  <1> DEFINE e == Extended(given, findText)
  <1>1. /\ findText \in Seq(Piece) /\ opening \in Said /\ given \in Manifest /\ found = Enhanced(e, findText, opening)
    BY DEF FindInv
  <1>2. e \in Manifest /\ e.commands = given.commands /\ e.tests = given.tests
    BY <1>1, ExtendedIs
  <1> HIDE DEF e
  <1>3. /\ AllOpen(found.changes, found.artifacts)
        /\ found.commands = Or(e.commands, CommandsOf(text)) /\ found.commands \in Seq(Ran)
        /\ found.tests = Or(e.tests, TestsOf(text, found.commands))
        /\ found.warnings = Deduped(e.warnings \o WarningsOf(text), "all")
    BY <1>1, <1>2, EnhancedIs
  <1>4. e.warnings \in Seq(Warned)
    BY <1>2 DEF Manifest
  <1> QED
    BY <1>2, <1>3, <1>4

\* ChangesCanBeOpened, for every length of a text and every limit.
LEMMA InvOpens == FindInv => ChangesCanBeOpened
  <1> SUFFICES ASSUME FindInv, NEW i \in DOMAIN found.changes
               PROVE  /\ found.changes[i].path \in FilePaths => found.changes[i].opens # ""
                      /\ found.changes[i].opens # "" =>
                           \E k \in DOMAIN found.artifacts : found.artifacts[k].path = found.changes[i].opens
    BY Zenon DEF ChangesCanBeOpened
  <1>1. findText # <<>>
    <2>1. NoManifest.changes = <<>> /\ DOMAIN NoManifest.changes = {}
      BY DEF NoManifest
    <2> QED BY <2>1 DEF FindInv
  <1>2. AllOpen(found.changes, found.artifacts)
    BY <1>1, FoundIs
  <1>3. /\ found.changes[i].path \in FilePaths => found.changes[i].opens # ""
        /\ found.changes[i].opens # "" => found.changes[i].opens \in Paths(found.artifacts)
    BY <1>2, Zenon DEF AllOpen
  <1>4. \A x \in Paths(found.artifacts) : \E k \in DOMAIN found.artifacts : found.artifacts[k].path = x
    BY Zenon DEF Paths, Range
  <1> QED
    BY <1>3, <1>4, Zenon

\* A line that is read is the summary or is one of the message: what it says of
\* a command, the message or its summary says.
LEMMA ReadLine ==
    ASSUME FindInv, NEW text, text = EnvelopeText(findText, opening), NEW q \in Range(text)
    PROVE  \/ q.under = "" /\ q.line = opening
           \/ \E i \in DOMAIN findText : findText[i] \in Piece /\ q = Read(findText[i])
  <1>1. findText \in Seq(Piece) /\ opening \in Said
    BY DEF FindInv
  <1>2. q \in {[under |-> "", line |-> opening]} \cup {Read(p) : p \in Range(findText)}
    BY <1>1, EnvelopeLines
  <1>3. CASE q = [under |-> "", line |-> opening]
    BY <1>3
  <1>4. CASE q \in {Read(p) : p \in Range(findText)}
    <2>1. PICK p \in Range(findText) : q = Read(p)
      BY <1>4
    <2>2. PICK i \in DOMAIN findText : p = findText[i]
      BY Zenon DEF Range
    <2>3. findText[i] \in Piece
      BY <1>1
    <2> QED BY <2>1, <2>2, <2>3
  <1> QED
    BY <1>2, <1>3, <1>4

\* How a line of the message is read.
LEMMA LineIsRead ==
    ASSUME FindInv, NEW text, text = EnvelopeText(findText, opening), NEW i \in DOMAIN findText
    PROVE  /\ findText[i] \in Piece /\ Read(findText[i]) \in Piece /\ Read(findText[i]) \in Range(text)
           /\ Read(findText[i]).under = findText[i].under /\ Read(findText[i]).line = Rewritten(findText[i])
           /\ findText[i].under \in DOMAIN LinesUnder /\ findText[i].line \in LinesUnder[findText[i].under]
  <1>1. findText \in Seq(Piece) /\ opening \in Said /\ findText[i] \in Piece /\ findText[i] \in Range(findText)
    <2>1. findText \in Seq(Piece) /\ opening \in Said
      BY DEF FindInv
    <2> QED BY <2>1 DEF Range
  <1>2. /\ Range(text) = {[under |-> "", line |-> opening]} \cup {Read(p) : p \in Range(findText)}
        /\ \A p \in Piece : Read(p) \in Piece /\ Read(p).under = p.under /\ Read(p).line = Rewritten(p)
    BY <1>1, EnvelopeLines
  <1>3. findText[i].under \in DOMAIN LinesUnder /\ findText[i].line \in LinesUnder[findText[i].under]
    BY DEF FindInv
  <1> QED
    BY <1>1, <1>2, <1>3

\* A command that is reported is reported as a line says that names it, of the
\* message or the summary.
LEMMA SaidByALine ==
    ASSUME FindInv, NEW text, text = EnvelopeText(findText, opening), NEW q \in Range(text), NamesCommand(q)
    PROVE  q.line.outcome \in SaidOf(q.line.command)
  <1> DEFINE c == q.line.command
             A == {findText[i].line.outcome : i \in {j \in DOMAIN findText : NamesCommand(findText[j]) /\ findText[j].line.command = c}}
             B == IF opening.quoted /\ opening.command = c THEN {opening.outcome} ELSE {}
  <1>1. SaidOf(c) = A \cup B
    BY DEF SaidOf
  <1>2. CASE q.under = "" /\ q.line = opening
    <2>1. opening.quoted /\ opening.command = c
      BY <1>2 DEF NamesCommand
    <2>2. q.line.outcome \in B
      BY <1>2, <2>1
    <2> QED BY <1>1, <2>2
  <1>3. ASSUME NEW i \in DOMAIN findText, findText[i] \in Piece, q = Read(findText[i]) PROVE q.line.outcome \in A
    <2> DEFINE p == findText[i]
    <2>1. q.under = p.under /\ q.line = Rewritten(p)
      BY <1>3, LineIsRead
    <2>2. /\ q.line.command = p.line.command /\ q.line.outcome = p.line.outcome
          /\ ~ IsShortened(p) => q.line.quoted = p.line.quoted
      BY <1>3, <2>1, RewrittenIs
    <2>3. NamesCommand(p)
      <3>1. IsShortened(p) => p.under = "verification"
        BY DEF IsShortened
      <3>2. p.line.command # <<>> /\ (q.line.quoted \/ p.under = "verification")
        BY <2>1, <2>2 DEF NamesCommand
      <3> QED BY <2>2, <3>1, <3>2 DEF NamesCommand
    <2>4. p.line.outcome \in A
      BY <2>2, <2>3
    <2> QED BY <2>2, <2>4
  <1> HIDE DEF A, B
  <1> QED
    BY <1>1, <1>2, <1>3, ReadLine

\* A check without a command is reported as it is said.
LEMMA SaidAsTest ==
    ASSUME FindInv, NEW text, text = EnvelopeText(findText, opening), NEW q \in Range(text), TellsOutcome(q)
    PROVE  \E i \in DOMAIN findText : /\ TellsOutcome(findText[i]) /\ findText[i].under = "verification"
                                      /\ CheckOf(q) = CheckOf(findText[i]) /\ q.line.says = findText[i].line.says
  <1>1. q.under = "verification" /\ q.line.outcome # "unknown" /\ q.line.command = <<>>
    BY DEF TellsOutcome
  <1>2. PICK i \in DOMAIN findText : findText[i] \in Piece /\ q = Read(findText[i])
    BY <1>1, ReadLine
  <1> DEFINE p == findText[i]
  <1>3. p \in Piece /\ q.under = p.under /\ q.line = Rewritten(p)
    BY <1>2, LineIsRead
  <1>4. q.line.command = p.line.command /\ q.line.outcome = p.line.outcome
    BY <1>3, RewrittenIs
  <1>5. ~ IsShortened(p)
    BY <1>1, <1>4 DEF IsShortened
  <1>6. q.line.says = p.line.says
    BY <1>3, <1>5, RewrittenIs
  <1> HIDE DEF p
  <1>7. TellsOutcome(p) /\ CheckOf(q) = CheckOf(p)
    BY <1>1, <1>3, <1>4, <1>6 DEF TellsOutcome, CheckOf
  <1> QED
    BY <1>1, <1>3, <1>6, <1>7 DEF p

\* ChecksAreReported, for every length of a text and every limit.
LEMMA InvReports == FindInv => ChecksAreReported
  <1> SUFFICES ASSUME FindInv PROVE ChecksAreReported
    OBVIOUS
  <1> DEFINE text == EnvelopeText(findText, opening)
  <1>1. CASE findText = <<>>
    <2>1. DOMAIN findText = {} /\ found.tests = <<>> /\ found.commands = <<>>
      BY <1>1 DEF FindInv, NoManifest
    <2>2. DOMAIN found.tests = {} /\ DOMAIN found.commands = {}
      BY <2>1
    <2> QED BY <2>1, <2>2, Zenon DEF ChecksAreReported
  <1>2. CASE findText # <<>>
    <2>1. text \in Seq(Piece)
      BY EnvelopeLines DEF FindInv
    <2> HIDE DEF text
    <2>2. /\ found.commands = Or(given.commands, CommandsOf(text)) /\ found.commands \in Seq(Ran)
          /\ found.tests = Or(given.tests, TestsOf(text, found.commands))
      BY <1>2, FoundIs DEF text
    <2> DEFINE c == found.commands
               t == found.tests
    <2>3. ASSUME NEW i \in DOMAIN findText, findText[i].under = "verification", findText[i].line.outcome # "unknown",
                 findText[i].line.command # <<>>, given.commands = <<>>, Len(c) < MaxRan
          PROVE  Reported(c, findText[i].line.command, SaidOf(findText[i].line.command))
      <3> DEFINE p == findText[i]
                 name == p.line.command
      <3>1. /\ p \in Piece /\ Read(p) \in Range(text) /\ Read(p).under = p.under /\ Read(p).line = Rewritten(p)
        BY LineIsRead DEF text
      <3>2. Read(p).line.command = name
        BY <3>1, RewrittenIs
      <3>3. NamesCommand(Read(p))
        BY <2>3, <3>1, <3>2 DEF NamesCommand
      <3> HIDE DEF p
      <3>4. c = CommandsOf(text)
        BY <2>2, <2>3 DEF Or
      <3>5. /\ \A x \in Range(c) : \E q \in Range(text) : NamesCommand(q) /\ x = CommandOf(q)
            /\ \A q \in Range(text) : NamesCommand(q) => \E x \in Range(c) : x.name = q.line.command
        BY <2>1, <2>3, <3>4, CommandsAre
      <3>6. PICK x \in Range(c) : x.name = Read(p).line.command
        BY <3>1, <3>3, <3>5, Zenon
      <3>7. PICK q \in Range(text) : NamesCommand(q) /\ x = CommandOf(q)
        BY <3>5, Zenon
      <3>8. x.name = q.line.command /\ x.outcome = q.line.outcome
        BY <3>7 DEF CommandOf
      <3>9. q.line.outcome \in SaidOf(q.line.command)
        BY <3>7, SaidByALine DEF text
      <3>10. x.name = name /\ x.outcome \in SaidOf(name)
        BY <3>2, <3>6, <3>8, <3>9
      <3>11. PICK k \in DOMAIN c : x = c[k]
        BY Zenon DEF Range
      <3>12. Reported(c, name, SaidOf(name))
        BY <3>10, <3>11, Zenon DEF Reported
      <3> QED BY <3>12 DEF p
    <2>4. given.tests = <<>> => t = TestsOf(text, c)
      BY <2>2 DEF Or
    <2>5. ASSUME given.tests = <<>>
          PROVE  /\ \A x \in Range(t) : \/ IsTest(x) /\ x \in Range(c)
                                        \/ \E q \in Range(text) : TellsOutcome(q) /\ x = CheckOf(q)
                 /\ Len(t) < MaxRan =>
                      /\ \A x \in Range(c) : IsTest(x) => x \in Range(t)
                      /\ \A q \in Range(text) : TellsOutcome(q) =>
                           \E u \in Range(text) : TellsOutcome(u) /\ CheckOf(u) \in Range(t) /\ u.line.says = q.line.says
      BY <2>1, <2>2, <2>4, <2>5, TestsAre
    <2>6. ASSUME NEW i \in DOMAIN findText, findText[i].under = "verification", findText[i].line.outcome # "unknown",
                 findText[i].line.command = <<>>, given.tests = <<>>, Len(t) < MaxRan
          PROVE  Reported(t, findText[i].line.says, {findText[i].line.outcome})
      <3> DEFINE p == findText[i]
      <3>1. /\ p \in Piece /\ Read(p) \in Range(text) /\ Read(p).under = p.under /\ Read(p).line = Rewritten(p)
            /\ p.line \in LinesUnder[p.under]
        BY LineIsRead DEF text
      <3>2. ~ IsShortened(p)
        BY <2>6 DEF IsShortened
      <3>3. /\ Read(p).line.command = p.line.command /\ Read(p).line.outcome = p.line.outcome
            /\ Read(p).line.says = p.line.says
        BY <3>1, <3>2, RewrittenIs
      <3>4. TellsOutcome(Read(p))
        BY <2>6, <3>1, <3>3 DEF TellsOutcome
      <3>5. p.line.command = <<>> /\ p.under = "verification"
        BY <2>6
      <3> HIDE DEF p
      <3>6. PICK u \in Range(text) : TellsOutcome(u) /\ CheckOf(u) \in Range(t) /\ u.line.says = Read(p).line.says
        BY <2>5, <2>6, <3>1, <3>4, Zenon
      <3>7. PICK j \in DOMAIN findText : /\ TellsOutcome(findText[j]) /\ findText[j].under = "verification"
                                         /\ CheckOf(u) = CheckOf(findText[j]) /\ u.line.says = findText[j].line.says
        BY <3>6, SaidAsTest DEF text
      <3>8. findText[j].line \in LinesUnder["verification"] /\ findText[j].line.command = <<>>
        BY <3>7, LineIsRead DEF TellsOutcome
      <3>9. findText[j].line.outcome = p.line.outcome /\ findText[j].line.says = p.line.says
        <4>1. p.line \in LinesUnder["verification"] /\ findText[j].line.says = p.line.says
          BY <3>1, <3>3, <3>5, <3>6, <3>7
        <4> QED BY <3>5, <3>8, <4>1, KnownChecks, Zenon
      <3>10. PICK k \in DOMAIN t : t[k] = CheckOf(findText[j])
        BY <3>6, <3>7, Zenon DEF Range
      <3>11. t[k].name = p.line.says /\ t[k].outcome = p.line.outcome
        BY <3>9, <3>10 DEF CheckOf
      <3>12. Reported(t, p.line.says, {p.line.outcome})
        BY <3>11, Zenon DEF Reported
      <3> QED BY <3>12 DEF p
    <2>7. ASSUME given.tests = <<>>, Len(t) < MaxRan
          PROVE  \A k \in DOMAIN c : IsTest(c[k]) => c[k] \in Range(t)
      <3>1. \A k \in DOMAIN c : c[k] \in Range(c)
        BY Zenon DEF Range
      <3> QED BY <2>5, <2>7, <3>1, Zenon
    <2>8. ASSUME given.tests = <<>>, NEW k \in DOMAIN t
          PROVE  \/ IsTest(t[k]) /\ t[k] \in Range(c)
                 \/ \E i \in DOMAIN findText :
                      TellsOutcome(findText[i]) /\ t[k] = [name |-> findText[i].line.says, outcome |-> findText[i].line.outcome]
      <3>1. t[k] \in Range(t)
        BY Zenon DEF Range
      <3>2. CASE IsTest(t[k]) /\ t[k] \in Range(c)
        BY <3>2
      <3>3. ASSUME NEW q \in Range(text), TellsOutcome(q), t[k] = CheckOf(q)
            PROVE  \E i \in DOMAIN findText :
                     TellsOutcome(findText[i]) /\ t[k] = [name |-> findText[i].line.says, outcome |-> findText[i].line.outcome]
        <4>1. PICK i \in DOMAIN findText : TellsOutcome(findText[i]) /\ CheckOf(q) = CheckOf(findText[i])
          BY <3>3, SaidAsTest DEF text
        <4> QED BY <3>3, <4>1, Zenon DEF CheckOf
      <3> QED BY <2>5, <2>8, <3>1, <3>2, <3>3, Zenon
    <2>9. \A i \in DOMAIN findText :
            LET p == findText[i]
            IN p.under = "verification" /\ p.line.outcome # "unknown" =>
                 IF p.line.command # <<>>
                 THEN given.commands = <<>> /\ Len(c) < MaxRan => Reported(c, p.line.command, SaidOf(p.line.command))
                 ELSE given.tests = <<>> /\ Len(t) < MaxRan => Reported(t, p.line.says, {p.line.outcome})
      BY <2>3, <2>6, Zenon
    <2> QED BY <2>7, <2>8, <2>9, Zenon DEF ChecksAreReported
  <1> QED
    BY <1>1, <1>2

\* WarningsAreReported, for every length of a text and every limit.
LEMMA InvWarns == FindInv => WarningsAreReported
  <1> SUFFICES ASSUME FindInv, Len(found.warnings) < MaxWarned, NEW i \in DOMAIN findText
               PROVE  LET p == findText[i]
                          tells(says) == \E k \in DOMAIN found.warnings : found.warnings[k].name.says = says
                      IN IF IsShortened(p) THEN p.line.outcome # "passed" => tells(<<p.line.outcome>> \o p.line.command)
                         ELSE UnderWarnings(p) \/ SoundsLikeWarning(p) => tells(p.line.says)
    BY Zenon DEF WarningsAreReported
  <1> DEFINE text == EnvelopeText(findText, opening)
             p == findText[i]
             w == WarningsOf(text)
             f == found.warnings
  <1>1. text \in Seq(Piece)
    BY EnvelopeLines DEF FindInv
  <1>2. /\ p \in Piece /\ Read(p) \in Piece /\ Read(p) \in Range(text)
        /\ Read(p).under = p.under /\ Read(p).line = Rewritten(p)
        /\ p.line \in LinesUnder[p.under]
    BY LineIsRead
  <1> HIDE DEF text, p
  <1>3. PICK g \in Seq(Warned) : f = Deduped(g \o w, "all")
    <2>1. findText # <<>>
      OBVIOUS
    <2> QED BY <2>1, FoundIs, Zenon DEF text
  <1>4. /\ w \in Seq(Warned)
        /\ \A k, j \in 1 .. Len(w) : k # j => w[k] # w[j]
        /\ Len(w) < MaxWarned =>
             \A q \in Range(text) : UnderWarnings(q) \/ SoundsLikeWarning(q) => \E x \in Range(w) : x.name = Warning(q.line)
    BY <1>1, WarningsAre
  <1> HIDE DEF w
  <1>5. f \in Seq(Warned) /\ Range(w) \subseteq Range(f)
    <2> DEFINE b == g \o w
    <2>1. b \in Seq(Warned) /\ Range(b) = Range(g) \cup Range(w)
      <3>1. ASSUME NEW u \in Seq(Warned), NEW v \in Seq(Warned)
            PROVE  u \o v \in Seq(Warned) /\ Range(u \o v) = Range(u) \cup Range(v)
        <4> HIDE DEF b
        <4> QED BY BothHave, Zenon
      <3> QED BY <1>4, <3>1
    <2>2. f = Deduped(b, "all")
      BY <1>3
    <2> HIDE DEF b, f
    <2>3. f \in Seq(Warned) /\ \A x \in Range(b) : \E y \in Range(f) : Agree(y, x, "all")
      BY <2>1, <2>2, DedupedIs
    <2>4. \A x, y : Agree(y, x, "all") => y = x
      BY DEF Agree
    <2> QED BY <2>1, <2>3, <2>4
  <1>6. Len(w) < MaxWarned
    <2>1. Len(w) <= Len(f)
      <3> HIDE DEF f
      <3> QED BY <1>4, <1>5, NoShorter
    <2>2. Len(w) \in Nat /\ Len(f) \in Nat /\ MaxWarned \in Nat /\ Len(f) < MaxWarned
      BY <1>4, <1>5, FindingsAssumption
    <2> QED BY <2>1, <2>2
  <1> DEFINE Tells(says) == \E k \in DOMAIN f : f[k].name.says = says
  <1>7. ASSUME UnderWarnings(Read(p)) \/ SoundsLikeWarning(Read(p)) PROVE Tells(Read(p).line.says)
    <2>1. PICK x \in Range(w) : x.name = Warning(Read(p).line)
      BY <1>2, <1>4, <1>6, <1>7, Zenon
    <2>2. x.name.says = Read(p).line.says
      BY <1>2, <2>1, ReportsAre
    <2>3. x \in Range(f)
      BY <1>5
    <2>4. PICK k \in DOMAIN f : x = f[k]
      BY <2>3, Zenon DEF Range
    <2> QED BY <2>2, <2>4, Zenon
  <1> HIDE DEF Tells
  <1>8. CASE IsShortened(p)
    <2> SUFFICES ASSUME p.line.outcome # "passed" PROVE Tells(<<p.line.outcome>> \o p.line.command)
      BY <1>8, Zenon DEF Tells, p
    <2>1. p.line.outcome \in {"failed", "passed", "skipped"}
      <3>1. p.line \in LinesUnder["verification"]
        BY <1>2, <1>8 DEF IsShortened
      <3> QED BY <3>1, KnownChecks
    <2>2. SoundsLikeWarning(Read(p)) /\ Read(p).line.says = <<p.line.outcome>> \o p.line.command
      BY <1>2, <1>8, <2>1, RewrittenIs DEF SoundsLikeWarning
    <2> QED BY <1>7, <2>2
  <1>9. CASE ~ IsShortened(p)
    <2> SUFFICES ASSUME UnderWarnings(p) \/ SoundsLikeWarning(p) PROVE Tells(p.line.says)
      BY <1>9, Zenon DEF Tells, p
    <2>1. Read(p).line.says = p.line.says /\ Read(p).line.warns = p.line.warns
      BY <1>2, <1>9, RewrittenIs
    <2>2. UnderWarnings(Read(p)) \/ SoundsLikeWarning(Read(p))
      BY <1>2, <2>1 DEF UnderWarnings, SoundsLikeWarning
    <2> QED BY <1>7, <2>1, <2>2
  <1> QED
    BY <1>8, <1>9

\* However long a message is, whatever its summary is made of and whatever its
\* agent states, every file that it says has changed can be opened from it.
THEOREM FindingsOpen == FindSpec => []ChangesCanBeOpened
  <1>1. FindInit => FindInv
    BY FindInitially
  <1>2. FindInv /\ [FindNext]_findVars => FindInv'
    BY FindStays
  <1>3. FindInv => ChangesCanBeOpened
    BY InvOpens
  <1> QED
    BY <1>1, <1>2, <1>3, PTL DEF FindSpec

\* However long a message is, and for every limit, while there is room: what it
\* says of a check is reported with the outcome that a line says which names
\* the check, or the summary, and no test is made up; and whatever it warns of
\* is reported, a check that failed in the words that its line is rewritten to.
THEOREM FindingsReport == FindSpec => []FindingsAreReported
  <1>1. FindInit => FindInv
    BY FindInitially
  <1>2. FindInv /\ [FindNext]_findVars => FindInv'
    BY FindStays
  <1>3. FindInv => FindingsAreReported
    BY InvReports, InvWarns DEF FindingsAreReported
  <1> QED
    BY <1>1, <1>2, <1>3, PTL DEF FindSpec

=============================================================================
