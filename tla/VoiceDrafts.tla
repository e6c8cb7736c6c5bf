----------------------------- MODULE VoiceDrafts ------------------------------
(***************************************************************************)
(* Drafts of entries dictated by voice and what becomes of them            *)
(* (VoiceJournalService and its routes). Approving a draft makes an entry  *)
(* of it and takes that entry through the workflow of the journal in the   *)
(* same call; when the one who approves may not approve an entry of his    *)
(* own, the entry stays submitted and another user goes on with it.        *)
(*                                                                         *)
(* Drafts and the entries made of them live in memory, so a start leaves   *)
(* neither; the content of a draft is a member of a small set, and how it  *)
(* is understood from the words is left out.                               *)
(***************************************************************************)
EXTENDS Integers, FiniteSets, Sequences

CONSTANTS
    Speakers,        \* users who may make entries
    Reviewers,       \* users with the permission journal:workflow
    OwnApproval,     \* reviewers who may approve an entry they made themselves
    Balanced,        \* contents that make an entry
    Unusable,        \* contents without lines or out of balance
    MaxVoiceDrafts,  \* bound: drafts
    MaxVoiceEntries  \* bound: entries made of drafts

ASSUME VoiceAssumption ==
    /\ OwnApproval \subseteq Reviewers
    /\ Balanced \intersect Unusable = {}
    /\ MaxVoiceDrafts \in Nat /\ MaxVoiceEntries \in Nat

VARIABLES
    voiceDrafts,   \* the drafts, in the order they were saved
    voiceEntries   \* the entries made of them: [draft, content, status, maker]

voiceVars == <<voiceDrafts, voiceEntries>>

NoVoiceEntry == 0
VoiceContents == Balanced \union Unusable

VoiceInit == voiceDrafts = << >> /\ voiceEntries = << >>

-----------------------------------------------------------------------------
(* A draft is rebuilt on the server: its status and owner are not the       *)
(* client's.                                                                *)
SaveVoiceDraft(u, content) ==
    /\ u \in Speakers
    /\ Len(voiceDrafts) < MaxVoiceDrafts
    /\ voiceDrafts' = Append(voiceDrafts,
         [status |-> "PENDING_REVIEW", owner |-> u, content |-> content, entry |-> NoVoiceEntry])
    /\ UNCHANGED voiceEntries

(* By its owner or a reviewer, until it is posted: also when it is rejected,*)
(* or has an entry already, which does not follow.                          *)
UpdateVoiceDraft(u, d, content) ==
    /\ u \in Speakers
    /\ u = voiceDrafts[d].owner \/ u \in Reviewers
    /\ voiceDrafts[d].status # "POSTED"
    /\ voiceDrafts' = [voiceDrafts EXCEPT ![d].content = content]
    /\ UNCHANGED voiceEntries

(* The entry of a draft approved before is left as it is. *)
RejectVoiceDraft(u, d) ==
    /\ u \in Reviewers
    /\ voiceDrafts[d].status # "POSTED"
    /\ voiceDrafts' = [voiceDrafts EXCEPT ![d].status = "REJECTED"]
    /\ UNCHANGED voiceEntries

(* Slip: a posted draft is not refused. *)
ApprovableAgain(d) == voiceDrafts[d].status # "REJECTED" /\ voiceDrafts[d].content \in Balanced

Approvable(d) ==
    voiceDrafts[d].status \notin {"POSTED", "REJECTED"} /\ voiceDrafts[d].content \in Balanced

(* approveAndPost: create, submit, approve, post. The first refusal after   *)
(* the creation leaves the entry where it is; that is the approval, which   *)
(* the maker of an entry may not give. A creation that the journal refuses  *)
(* changes nothing.                                                         *)
ApproveAndPost(u, d) ==
    LET own == u \in OwnApproval
    IN  /\ u \in Reviewers
        /\ Approvable(d)
        /\ Len(voiceEntries) < MaxVoiceEntries
        /\ voiceEntries' = Append(voiceEntries,
             [draft |-> d, content |-> voiceDrafts[d].content, maker |-> u,
              status |-> IF own THEN "POSTED" ELSE "SUBMITTED"])
        /\ voiceDrafts' = [voiceDrafts EXCEPT
             ![d].status = IF own THEN "POSTED" ELSE "APPROVED",
             ![d].entry = Len(voiceEntries')]

(* The workflow of the journal goes on with the entry, and tells the draft  *)
(* nothing. An entry left submitted is approved by another than its maker,  *)
(* or by one who may approve his own.                                       *)
FollowUp(u, e) ==
    /\ u \in Reviewers
    /\ \/ /\ voiceEntries[e].status = "SUBMITTED"
          /\ u # voiceEntries[e].maker \/ u \in OwnApproval
          /\ voiceEntries' = [voiceEntries EXCEPT ![e].status = "POSTED"]
       \/ /\ voiceEntries[e].status = "SUBMITTED"
          /\ voiceEntries' = [voiceEntries EXCEPT ![e].status = "DELETED"]
       \/ /\ voiceEntries[e].status = "POSTED"
          /\ voiceEntries' = [voiceEntries EXCEPT ![e].status = "REVERSED"]
    /\ UNCHANGED voiceDrafts

VoiceNext ==
    \E u \in Speakers \union Reviewers :
        \/ \E c \in VoiceContents :
             SaveVoiceDraft(u, c) \/ \E d \in DOMAIN voiceDrafts : UpdateVoiceDraft(u, d, c)
        \/ \E d \in DOMAIN voiceDrafts : RejectVoiceDraft(u, d) \/ ApproveAndPost(u, d)
        \/ \E e \in DOMAIN voiceEntries : FollowUp(u, e)

VoiceSpec == VoiceInit /\ [][VoiceNext]_voiceVars

-----------------------------------------------------------------------------
(* Properties *)

VoiceTypeOK ==
    /\ voiceDrafts \in Seq([status: {"PENDING_REVIEW", "APPROVED", "POSTED", "REJECTED"},
                            owner: Speakers, content: VoiceContents, entry: Nat])
    /\ voiceEntries \in Seq([draft: DOMAIN voiceDrafts, content: Balanced, maker: Reviewers,
                             status: {"SUBMITTED", "POSTED", "REVERSED", "DELETED"}])

EntriesOf(d) == {e \in DOMAIN voiceEntries : voiceEntries[e].draft = d}

(* Entries whose maker could not approve them: each lets the draft be       *)
(* approved once more.                                                      *)
LeftBehind(d) == {e \in EntriesOf(d) : voiceEntries[e].maker \notin OwnApproval}

(* One dictation, one posting: a draft has more than one entry only if      *)
(* earlier approvals were left to another user. A posted draft shows what   *)
(* its last entry recorded, and every entry of a draft that was not         *)
(* approved in the end was left behind (approveAndPost, update, reject).    *)
VoicePostsOnce ==
    \A d \in DOMAIN voiceDrafts :
        LET draft == voiceDrafts[d]
        IN  /\ Cardinality(EntriesOf(d) \ LeftBehind(d)) = IF draft.status = "POSTED" THEN 1 ELSE 0
            /\ draft.status = "PENDING_REVIEW" => EntriesOf(d) = {}
            /\ draft.status = "POSTED" =>
                 /\ draft.entry \in EntriesOf(d) \ LeftBehind(d)
                 /\ voiceEntries[draft.entry].content = draft.content
            /\ draft.entry # NoVoiceEntry => \A e \in EntriesOf(d) : e <= draft.entry
=============================================================================
