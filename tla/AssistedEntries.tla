--------------------------- MODULE AssistedEntries ----------------------------
(***************************************************************************)
(* The two ways an assistant makes journal entries, side by side: drafts   *)
(* proposed in a conversation and confirmed by a token (AiDrafts), and     *)
(* dictations reviewed and posted by a person (VoiceDrafts). They share no *)
(* state.                                                                  *)
(***************************************************************************)
EXTENDS AiDrafts, VoiceDrafts

AssistedVars == <<draftVars, voiceVars>>

AssistedInit == DraftsInit /\ VoiceInit

AssistedNext == \/ DraftsNext /\ UNCHANGED voiceVars
                \/ VoiceNext /\ UNCHANGED draftVars

AssistedSpec == AssistedInit /\ [][AssistedNext]_AssistedVars

(* What an assistant drafted or took from dictation is entered once: a      *)
(* draft can be used until it is used, expires or is the oldest of too many,*)
(* and a dictation has one entry but for those left to another user         *)
(* (ai-drafts.service.ts, voice-journal.service.ts).                        *)
AssistedEntriesOnce == RecentDraftsKept /\ VoicePostsOnce
=============================================================================
