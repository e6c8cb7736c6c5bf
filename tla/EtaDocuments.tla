----------------------------- MODULE EtaDocuments -----------------------------
(***************************************************************************)
(* Invoices sent to the portal of the tax authority, and the file that     *)
(* keeps what became of them (etaService, etaClient, etaStore). A request  *)
(* awaits the portal and then writes the file; meanwhile other requests    *)
(* run, the portal goes on, and the process may stop. Without credentials  *)
(* the service answers by itself. The portal is modelled from how it is    *)
(* used: it accepts or rejects a document, decides on an accepted one, and *)
(* cancels a valid one.                                                    *)
(*                                                                         *)
(* A document is its uuid, which every submission makes anew. Tokens,      *)
(* signatures, amounts and downloads are left out.                         *)
(***************************************************************************)
EXTENDS Integers, FiniteSets

CONSTANTS
    Documents,   \* uuids
    NoDocument,
    Clients,     \* requests that may run at once
    MaxOutages   \* bound: lost requests and answers, and stops of the process

ASSUME EtaAssumption == NoDocument \notin Documents /\ MaxOutages \in Nat

VARIABLES
    portal,      \* [uuid -> status at the portal]
    file,        \* [uuid -> its record in the file]
    request,     \* [client -> its request, and how far it is]
    configured,  \* the process has credentials
    past,        \* [uuid -> statuses it has had at the portal]
    revived,     \* uuids whose cancellation an older answer overwrote
    outages

etaVars == <<portal, file, request, configured, past, revived, outages>>

Unsaved == [status |-> "NONE", simulated |-> FALSE, guessed |-> FALSE]
NoRequest    == [kind |-> "NONE", uuid |-> NoDocument, stage |-> "NONE", answer |-> "NONE"]
Saved   == {d \in Documents : file[d] # Unsaved}
Unused  == {d \in Documents : d \notin Saved /\ portal[d] = "NONE"
                              /\ \A c \in Clients : request[c].uuid # d}

EtaInit ==
    /\ portal = [d \in Documents |-> "NONE"]
    /\ file = [d \in Documents |-> Unsaved]
    /\ request = [c \in Clients |-> NoRequest]
    /\ configured \in BOOLEAN
    /\ past = [d \in Documents |-> {}]
    /\ revived = {}
    /\ outages = 0

-----------------------------------------------------------------------------
(* What the service asks of the portal *)

Ask(c, kind, d) ==
    /\ request[c] = NoRequest
    /\ request' = [request EXCEPT ![c] =
         [kind |-> kind, uuid |-> d, stage |-> "ASKED", answer |-> "NONE"]]
    /\ UNCHANGED <<portal, file, configured, past, revived, outages>>

(* Every submission builds a document of its own, also of what was          *)
(* submitted before.                                                        *)
Submit(c, d) == configured /\ d \in Unused /\ Ask(c, "SUBMIT", d)

Verify(c, d) == configured /\ d \in Saved /\ ~file[d].simulated /\ Ask(c, "VERIFY", d)

(* A simulated document is cancelled at the portal, which does not know it. *)
Cancel(c, d) == configured /\ d \in Saved /\ Ask(c, "CANCEL", d)

(* Without credentials the service answers itself: a submission, or the     *)
(* verification of any document, is valid, a cancellation done.             *)
Simulate(d, kind) ==
    /\ IF kind = "SUBMIT" THEN ~configured /\ d \in Unused
       ELSE d \in Saved /\ (~configured \/ (kind = "VERIFY" /\ file[d].simulated))
    /\ file' = [file EXCEPT ![d] =
         [status    |-> IF kind = "CANCEL" THEN "CANCELLED" ELSE "VALID",
          simulated |-> kind = "SUBMIT" \/ @.simulated,
          guessed   |-> TRUE]]
    /\ UNCHANGED <<portal, request, configured, past, revived, outages>>

-----------------------------------------------------------------------------
(* The portal *)

Becomes(d, status) ==
    /\ portal' = [portal EXCEPT ![d] = status]
    /\ past' = [past EXCEPT ![d] = @ \union {status}]

(* A request is handled; the service may no longer wait for the answer.     *)
AnsweredTo(c, answer) ==
    request' = [request EXCEPT ![c] =
        IF @.stage = "ASKED" THEN [@ EXCEPT !.stage = "ANSWERED", !.answer = answer] ELSE NoRequest]

Handle(c) ==
    LET r == request[c]
    IN  /\ r.stage \in {"ASKED", "ABANDONED"}
        /\ \/ /\ r.kind = "SUBMIT"
              /\ \E status \in {"SUBMITTED", "VALID", "INVALID", "REJECTED"} :
                   Becomes(r.uuid, status) /\ AnsweredTo(c, status)
           \/ /\ r.kind = "VERIFY"
              /\ AnsweredTo(c, portal[r.uuid])
              /\ UNCHANGED <<portal, past>>
           \/ /\ r.kind = "CANCEL"
              /\ IF portal[r.uuid] = "VALID"
                 THEN Becomes(r.uuid, "CANCELLED") /\ AnsweredTo(c, "CANCELLED")
                 ELSE AnsweredTo(c, "ERROR") /\ UNCHANGED <<portal, past>>
        /\ UNCHANGED <<file, configured, revived, outages>>

(* An accepted document is decided on later. *)
DecideOn(d) ==
    /\ portal[d] = "SUBMITTED"
    /\ \E status \in {"VALID", "INVALID"} : Becomes(d, status)
    /\ UNCHANGED <<file, request, configured, revived, outages>>

Outage == outages < MaxOutages /\ outages' = outages + 1

(* The service gives up waiting; the request may be lost or still arrive,   *)
(* and its answer is not read. An answer may be lost as well.               *)
StopWaiting(c) ==
    /\ Outage
    /\ request[c].stage \in {"ASKED", "ANSWERED"}
    /\ \/ request[c].stage = "ASKED" /\ request' = [request EXCEPT ![c].stage = "ABANDONED"]
       \/ request' = [request EXCEPT ![c] = NoRequest]
    /\ UNCHANGED <<portal, file, configured, past, revived>>

-----------------------------------------------------------------------------
(* What the service does with the answer *)

(* normalizeSubmissionResult: the pattern for a valid document is found in  *)
(* INVALID too and accepts SUBMITTED, and a rejected document, being none   *)
(* of the accepted ones, has no status.                                     *)
Normalized(answer) == IF answer = "REJECTED" THEN "SUBMITTED" ELSE "VALID"

FileWith(d, kind, answer) ==
    LET status == IF kind = "SUBMIT" THEN Normalized(answer) ELSE answer
    IN  [file EXCEPT ![d] =
            [status |-> status, simulated |-> @.simulated, guessed |-> status # answer]]

(* Slip: a refused document is not worth a record. *)
KeepsAccepted(r) == r.answer \notin {"ERROR", "REJECTED"} /\ (r.kind = "SUBMIT" \/ r.uuid \in Saved)

(* An error changes nothing, and neither does an answer for a record that   *)
(* is no longer there.                                                      *)
Keeps(r) == r.answer # "ERROR" /\ (r.kind = "SUBMIT" \/ r.uuid \in Saved)

(* The file is read and written without a pause. *)
Finish(c) ==
    LET r == request[c]
        kept == Keeps(r)
    IN  /\ r.stage = "ANSWERED"
        /\ file' = IF kept THEN FileWith(r.uuid, r.kind, r.answer) ELSE file
        /\ revived' = IF ~kept THEN revived
                      ELSE IF r.answer # "CANCELLED" /\ portal[r.uuid] = "CANCELLED"
                      THEN revived \union {r.uuid} ELSE revived \ {r.uuid}
        /\ request' = [request EXCEPT ![c] = NoRequest]
        /\ UNCHANGED <<portal, configured, past, outages>>

(* The process stops, perhaps while it writes the file: a file cut off is   *)
(* read as an empty one. The next process may have other credentials.       *)
Stop ==
    /\ Outage
    /\ file' \in {file, [d \in Documents |-> Unsaved]}
    /\ request' = [c \in Clients |->
         IF request[c].stage = "ASKED" THEN [request[c] EXCEPT !.stage = "ABANDONED"]
         ELSE IF request[c].stage = "ABANDONED" THEN request[c] ELSE NoRequest]
    /\ configured' \in BOOLEAN
    /\ UNCHANGED <<portal, past, revived>>

EtaNext ==
    \/ \E d \in Documents :
         \/ \E c \in Clients : Submit(c, d) \/ Verify(c, d) \/ Cancel(c, d)
         \/ \E kind \in {"SUBMIT", "VERIFY", "CANCEL"} : Simulate(d, kind)
         \/ DecideOn(d)
    \/ \E c \in Clients : Handle(c) \/ StopWaiting(c) \/ Finish(c)
    \/ Stop

EtaSpec == EtaInit /\ [][EtaNext]_etaVars

-----------------------------------------------------------------------------
(* Properties *)

PortalStatuses == {"NONE", "SUBMITTED", "VALID", "INVALID", "REJECTED", "CANCELLED"}

EtaTypeOK ==
    /\ portal \in [Documents -> PortalStatuses]
    /\ file \in [Documents -> [status: PortalStatuses, simulated: BOOLEAN, guessed: BOOLEAN]]
    /\ request \in [Clients ->
          [kind: {"NONE", "SUBMIT", "VERIFY", "CANCEL"}, uuid: Documents \union {NoDocument},
           stage: {"NONE", "ASKED", "ANSWERED", "ABANDONED"}, answer: PortalStatuses \union {"ERROR"}]]
    /\ configured \in BOOLEAN /\ past \in [Documents -> SUBSET PortalStatuses]
    /\ revived \subseteq Documents /\ outages \in Nat

(* "So that invoices sent are not lost": what the portal has accepted is in *)
(* the file or about to be, unless an answer was given up or the process    *)
(* stopped; and only what was sent is taken for sent (etaStore, submit).    *)
SentAreKept ==
    /\ outages = 0 =>
         \A d \in Documents : portal[d] # "NONE" =>
             d \in Saved \/ \E c \in Clients : request[c].uuid = d
    /\ \A d \in Saved : file[d].simulated <=> portal[d] = "NONE"

(* The status in the file is one the portal gave the document, but where    *)
(* the service answered itself or normalized an answer; and a cancelled     *)
(* document is cancelled in the file once no request for it is under way,   *)
(* unless a verification answered before the cancellation was written after *)
(* it, an answer was given up or the process stopped (verify, cancel).      *)
StatusesAreTrue ==
    \A d \in Saved :
        /\ ~file[d].guessed => file[d].status \in past[d]
        /\ /\ portal[d] = "CANCELLED" /\ outages = 0
           /\ \A c \in Clients : request[c].uuid # d
           => file[d].status = "CANCELLED" \/ d \in revived

EtaSound == SentAreKept /\ StatusesAreTrue
=============================================================================
