--------------------------- MODULE MCConversation ---------------------------
(***************************************************************************)
(* What a conversation goes through beside the run itself: its settings,   *)
(* the agent's session, the agent's output, the text that the phone gets   *)
(* and what is found in it, the pages of old events, the files of the      *)
(* workspace, and the upgrade of the database that keeps the rest.  The    *)
(* parts share no state, and stand side by side as in MCFiles: a behaviour *)
(* is one of one part.                                                     *)
(***************************************************************************)
EXTENDS SessionSettings, AgentSessions, AgentOutput, ChatSections, ChatFindings, ChatTransport,
        EventPages, FilePreview, DirectoryListing, StoreUpgrade

VARIABLE part      \* the part that takes steps

ConversationInit ==
    /\ part \in {"settings", "sessions", "output", "sections", "findings", "transport", "pages", "preview", "listing", "making", "upgrade"}
    /\ SettingsInit /\ SessionsInit /\ OutputInit /\ ChatInit /\ FindInit /\ TransportInit /\ PagesInit /\ PreviewInit /\ ListingInit /\ UpgradeInit
    \* the parts that stand have one initial state
    /\ part = "settings" \/ \A k \in LegacyKeys : row.columns[k] = NoSetting
    /\ part = "sessions" \/ legacyRow = NoRow
    /\ part = "upgrade" \/ runsTable = {}

ConversationNext ==
    \/ /\ part = "settings" /\ SettingsNext
       /\ UNCHANGED <<part, sessionVars, outputVars, chatVars, findVars, transportVars,
                      pageVars, previewVars, listingVars, upgradeVars>>
    \/ /\ part = "sessions" /\ SessionsNext
       /\ UNCHANGED <<part, settingVars, outputVars, chatVars, findVars, transportVars,
                      pageVars, previewVars, listingVars, upgradeVars>>
    \/ /\ part = "output" /\ OutputNext
       /\ UNCHANGED <<part, settingVars, sessionVars, chatVars, findVars, transportVars,
                      pageVars, previewVars, listingVars, upgradeVars>>
    \/ /\ part = "sections" /\ ChatNext
       /\ UNCHANGED <<part, settingVars, sessionVars, outputVars, findVars, transportVars,
                      pageVars, previewVars, listingVars, upgradeVars>>
    \/ /\ part = "findings" /\ FindNext
       /\ UNCHANGED <<part, settingVars, sessionVars, outputVars, chatVars, transportVars,
                      pageVars, previewVars, listingVars, upgradeVars>>
    \/ /\ part = "transport" /\ TransportNext
       /\ UNCHANGED <<part, settingVars, sessionVars, outputVars, chatVars, findVars,
                      pageVars, previewVars, listingVars, upgradeVars>>
    \/ /\ part = "pages" /\ PagesNext
       /\ UNCHANGED <<part, settingVars, sessionVars, outputVars, chatVars, findVars,
                      transportVars, previewVars, listingVars, upgradeVars>>
    \/ /\ part = "preview" /\ PreviewNext
       /\ UNCHANGED <<part, settingVars, sessionVars, outputVars, chatVars, findVars,
                      transportVars, pageVars, listingVars, upgradeVars>>
    \/ /\ \/ part = "listing" /\ ListingNext
          \/ part = "making" /\ MakingNext
       /\ UNCHANGED <<part, settingVars, sessionVars, outputVars, chatVars, findVars,
                      transportVars, pageVars, previewVars, upgradeVars>>
    \/ /\ part = "upgrade" /\ UpgradeNext
       /\ UNCHANGED <<part, settingVars, sessionVars, outputVars, chatVars, findVars,
                      transportVars, pageVars, previewVars, listingVars>>

ConversationVars == <<part, settingVars, sessionVars, outputVars, chatVars, findVars, transportVars, pageVars, previewVars, listingVars, upgradeVars>>
ConversationSpec == ConversationInit /\ [][ConversationNext]_ConversationVars

=============================================================================
