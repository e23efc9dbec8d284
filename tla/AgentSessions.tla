--------------------------- MODULE AgentSessions ---------------------------
(***************************************************************************)
(* Which session of an agent the runs of one conversation resume: the      *)
(* table agent_session_map, per executor, and the table codex_thread_map   *)
(* of an older release, which each start of the backend imports again.     *)
(***************************************************************************)
EXTENDS Integers, FiniteSets

CONSTANTS
    ChatRuns,         \* agent runs of the conversation
    NoSession,
    LegacyThread,     \* the conversation's row of codex_thread_map
    MaxSessions,      \* bound: sessions that agents open
    MaxBoots,         \* bound: restarts of the backend
    MaxAges           \* bound: times that 90 days pass

AgentExecutors == {"codex", "claude"}

\* sessions are told apart by their ids, and none is not one of them
ASSUME SessionAssumption == NoSession \notin Nat /\ NoSession # LegacyThread

VARIABLES
    sessionMap,    \* agent_session_map: session and age of each executor's row
    legacyRow,     \* the row of codex_thread_map: none, young or old
    chat,          \* the runs
    opened,        \* sessions that agents have opened
    forgotten,     \* sessions that the agent no longer has
    boots, ages,
    latestLink     \* history: the session of the last run that linked one

sessionVars == <<sessionMap, legacyRow, chat, opened, forgotten, boots, ages, latestLink>>

NoRow == [id |-> NoSession, old |-> FALSE]
NewChat == [pc |-> "new", executor |-> "codex", resume |-> NoSession, stale |-> FALSE]

SessionsInit ==
    /\ legacyRow \in {NoRow, [id |-> LegacyThread, old |-> FALSE]}
    /\ sessionMap = [e \in AgentExecutors |-> IF e = "codex" THEN legacyRow ELSE NoRow]
    /\ chat = [r \in ChatRuns |-> NewChat]
    /\ opened = 0 /\ forgotten = {} /\ boots = 0 /\ ages = 0
    /\ latestLink = [e \in AgentExecutors |-> sessionMap[e].id]

Active == {r \in ChatRuns : chat[r].pc \notin {"new", "done"}}

\* prune_stale_agent_sessions: rows of codex that are 90 days old
Pruned(map) == [e \in AgentExecutors |-> IF e = "codex" /\ map[e].old THEN NoRow ELSE map[e]]

---------------------------------------------------------------------------
(* A run.                                                                  *)

\* get_agent_session_id prunes for codex only.
LookUp(r) ==
    \E e \in AgentExecutors :
        LET map == IF e = "codex" THEN Pruned(sessionMap) ELSE sessionMap
        IN /\ chat[r].pc = "new"
           /\ sessionMap' = map
           /\ chat' = [chat EXCEPT ![r] = [pc |-> "runs", executor |-> e, resume |-> map[e].id, stale |-> FALSE]]
           /\ UNCHANGED <<legacyRow, opened, forgotten, boots, ages, latestLink>>

Link(e, id) ==
    /\ sessionMap' = [(IF e = "codex" THEN Pruned(sessionMap) ELSE sessionMap) EXCEPT ![e] = [id |-> id, old |-> FALSE]]
    /\ latestLink' = [latestLink EXCEPT ![e] = id]

\* The agent resumes its session or opens one.  codex tells its session with
\* thread.started; for claude a session that was resumed is not stored again.
AgentStarts(r) ==
    LET me == chat[r]
        id == IF me.resume = NoSession THEN opened + 1 ELSE me.resume
    IN /\ me.pc \in {"runs", "fresh"}
       /\ me.resume \notin forgotten
       /\ me.resume = NoSession => opened < MaxSessions
       /\ opened' = IF me.resume = NoSession THEN opened + 1 ELSE opened
       /\ IF me.executor = "claude" /\ id = me.resume
          THEN UNCHANGED <<sessionMap, latestLink>>
          ELSE Link(me.executor, id)
       /\ chat' = [chat EXCEPT ![r].pc = "linked"]
       /\ UNCHANGED <<legacyRow, forgotten, boots, ages>>

\* Only codex says that it has no rollout for the session.
ResumeFails(r) ==
    /\ chat[r].pc = "runs" /\ chat[r].resume \in forgotten
    /\ chat' = [chat EXCEPT ![r].pc = "failed", ![r].stale = (chat[r].executor = "codex")]
    /\ UNCHANGED <<sessionMap, legacyRow, opened, forgotten, boots, ages, latestLink>>

\* _should_retry_without_resume
Retries(r) == chat[r].pc = "failed" /\ chat[r].stale

RowDroppedBug(e) == sessionMap' = sessionMap
\* delete_agent_session_id, whatever the row holds by now
RowDropped(e) == sessionMap' = [sessionMap EXCEPT ![e] = NoRow]
\* The agent starts afresh, unless a cancel or the timeout came first.
Retry(r) ==
    /\ Retries(r)
    /\ RowDropped(chat[r].executor)
    /\ latestLink' = [latestLink EXCEPT ![chat[r].executor] = NoSession]
    /\ chat' = [chat EXCEPT ![r] = [@ EXCEPT !.pc = "fresh", !.resume = NoSession]]
    /\ UNCHANGED <<legacyRow, opened, forgotten, boots, ages>>

\* It ends, after a failed resume also because of a cancel or the timeout.
ChatEnds(r) ==
    /\ r \in Active
    /\ chat' = [chat EXCEPT ![r] = [NewChat EXCEPT !.pc = "done"]]
    /\ UNCHANGED <<sessionMap, legacyRow, opened, forgotten, boots, ages, latestLink>>

---------------------------------------------------------------------------
(* The surroundings.                                                       *)

Forget ==
    /\ \E id \in {LegacyThread} \cup 1 .. opened : forgotten' = forgotten \cup {id}
    /\ UNCHANGED <<sessionMap, legacyRow, chat, opened, boots, ages, latestLink>>

\* 90 days pass, without a run in progress.
Age ==
    /\ ages < MaxAges /\ Active = {}
    /\ ages' = ages + 1
    /\ sessionMap' = [e \in AgentExecutors |-> IF sessionMap[e] = NoRow THEN NoRow ELSE [sessionMap[e] EXCEPT !.old = TRUE]]
    /\ legacyRow' = IF legacyRow = NoRow THEN NoRow ELSE [legacyRow EXCEPT !.old = TRUE]
    /\ latestLink' = [latestLink EXCEPT !["codex"] = NoSession]
    /\ UNCHANGED <<chat, opened, forgotten, boots>>

\* INSERT OR IGNORE of the row of the older release
Imported(map) == IF map["codex"] = NoRow THEN [map EXCEPT !["codex"] = legacyRow] ELSE map

\* initialize_run_store_schema prunes, imports and prunes again.  Runs in
\* progress are lost.
Boot ==
    /\ boots < MaxBoots
    /\ boots' = boots + 1
    /\ sessionMap' = Pruned(Imported(Pruned(sessionMap)))
    /\ latestLink' = IF latestLink["codex"] = NoSession /\ ~legacyRow.old
                     THEN [latestLink EXCEPT !["codex"] = legacyRow.id] ELSE latestLink
    /\ chat' = [r \in ChatRuns |-> IF r \in Active THEN [NewChat EXCEPT !.pc = "done"] ELSE chat[r]]
    /\ UNCHANGED <<legacyRow, opened, forgotten, ages>>

SessionsNext ==
    \/ \E r \in ChatRuns : LookUp(r) \/ AgentStarts(r) \/ ResumeFails(r) \/ Retry(r) \/ ChatEnds(r)
    \/ Forget \/ Age \/ Boot

SessionsSpec == SessionsInit /\ [][SessionsNext]_sessionVars

---------------------------------------------------------------------------
(* Properties.                                                             *)

\* A run continues where the last run of the same agent left off, across
\* restarts, failed resumes, runs of the other agent and runs that overlap
\* (the last one is then the one whose agent told its session last); after a session that
\* the agent no longer had, or 90 days, codex begins anew, or in the session
\* that an older release knew if the backend was restarted in between.
ContinuesConversation ==
    [][\A r \in ChatRuns : chat[r].pc = "new" /\ chat'[r].pc = "runs" =>
           chat'[r].resume = latestLink[chat'[r].executor]]_sessionVars

=============================================================================
