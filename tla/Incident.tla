------------------------------ MODULE Incident -------------------------------
(***************************************************************************)
(* One private incident of vinct-core, from its creation on the base layer *)
(* through its life inside the ephemeral rollup to its certificate.        *)
(*                                                                         *)
(* The incident is a family of accounts: the public core, the responder's  *)
(* private claim, and one private ballot per member.  Each account lives   *)
(* somewhere:                                                              *)
(*                                                                         *)
(*   absent   not created                                                  *)
(*   base     owned by the program on the base layer, writable there only  *)
(*   er       delegated: writable inside the rollup only                   *)
(*   leaving  commit_and_undelegate was scheduled; locked until it lands   *)
(*                                                                         *)
(* A transaction runs on one layer.  It writes only accounts that live     *)
(* there; inside the rollup it may also read a clone of a base account.    *)
(* Submissions are inputs of the handlers, so a late, repeated or          *)
(* reordered delivery is a call with an old nonce at a later moment.       *)
(***************************************************************************)
EXTENDS Ballots, Integers

CONSTANTS
  Members,              \* the members the covenant froze (member_set_hash)
  RequiredApprovals,    \* core.required_approvals
  MaximumRejections,    \* core.maximum_rejections
  ResponseWindow,       \* core.response_window_slots
  CertificateLifetime,  \* core.certificate_lifetime_slots
  Routes,               \* layers the private-runtime handlers are sent to
  ExitFamilies,         \* the sets of ballots an exit may name
  Redelegates,          \* may the opener delegate again after a release?
  MaxSlot,              \* bound: the last slot of the clock
  MaxNonce              \* bound: the highest submission nonce a member uses

(* check_terms, ratify_covenant and MAX_INCIDENT_MEMBERS bound the snapshot; *)
(* an exit list has member_count entries, so it names a nonempty set.        *)
ASSUME IncidentAssumption ==
  /\ IsFiniteSet(Members) /\ Cardinality(Members) \in 1..8
  /\ RequiredApprovals \in 1..Cardinality(Members)
  /\ MaximumRejections \in Nat
  /\ ResponseWindow \in Nat \ {0} /\ CertificateLifetime \in Nat \ {0}
  /\ Routes \subseteq {"er", "base"}
  /\ ExitFamilies \subseteq (SUBSET Members) \ {{}}
  /\ Redelegates \in BOOLEAN
  /\ MaxSlot \in Nat \ {0} /\ MaxNonce \in Nat

VARIABLES
  slot,         \* Clock::get()?.slot
  core,         \* IncidentCore
  claim,        \* IncidentClaim: are there bytes, and the zeroized flag
  ballot,       \* MemberAttestation of each member
  coreAt, claimAt, ballotAt,  \* where each account lives
  leaked,       \* private accounts whose bytes were ever in a base image
  image,        \* the core's bytes on the base layer while it is delegated
  checkpoint,   \* the core's bytes in a commit that has not landed
  certificate   \* IncidentCertificate, or NoCertificate

places == <<coreAt, claimAt, ballotAt>>

onBase == <<image, checkpoint, certificate>>

vars == <<slot, core, claim, ballot, places, leaked, onBase>>

Places == {"absent", "base", "er", "leaving"}

NoCertificate == [issued |-> FALSE]

NoCheckpoint == [status |-> "None"]

Certificates ==
  [issued : {TRUE}, certificate_nonce : Nat, approval_count : Nat,
   rejection_count : Nat, expires_at_slot : Nat]

Cores ==
  [status : Statuses, opened_at_slot : Nat, expires_at_slot : Nat,
   approvals : Nat, rejections : Nat, certified_at_slot : Nat]

TypeOK ==
  /\ slot \in 0..MaxSlot
  /\ core \in Cores
  /\ image \in Cores
  /\ checkpoint \in Cores \cup {NoCheckpoint}
  /\ claim \in [evidence : BOOLEAN, zeroized : BOOLEAN]
  /\ ballot \in [Members -> BallotRecords(Nat, Nat)]
  /\ coreAt \in Places /\ claimAt \in Places
  /\ ballotAt \in [Members -> Places]
  /\ leaked \subseteq Members \cup {"claim"}
  /\ certificate \in Certificates \cup {NoCertificate}

Init ==
  /\ slot = 1
  /\ core = [status |-> "Draft", opened_at_slot |-> 0, expires_at_slot |-> 0,
             approvals |-> 0, rejections |-> 0, certified_at_slot |-> 0]
  /\ claim = [evidence |-> FALSE, zeroized |-> TRUE]
  /\ ballot = [m \in Members |-> EmptyBallot]
  /\ coreAt = "absent" /\ claimAt = "absent"
  /\ ballotAt = [m \in Members |-> "absent"]
  /\ leaked = {}
  /\ image = core
  /\ checkpoint = NoCheckpoint
  /\ certificate = NoCertificate

-----------------------------------------------------------------------------
(* What a transaction on layer l may do with an account at place p.        *)

Writes(l, p) == p = l

Reads(l, p) == p = l \/ (l = "er" /\ p = "base")

IsTerminal == core.status \in Terminal

(* Mutant of IsExpired: the deadline slot itself is still open.            *)
IsExpired_OffByOne == slot > core.expires_at_slot

IsExpired == slot >= core.expires_at_slot

(* reconstruct_frozen_ballots over the one list it accepts: every frozen   *)
(* member once, each ballot readable where the transaction runs.           *)
Reconstructs(l) ==
  \A m \in Members : Reads(l, ballotAt[m]) /\ MayBeCounted(ballot[m])

ClaimMayLeave == ~claim.evidence /\ claim.zeroized

(* A private account written on the base layer is public at once.          *)
LeakIf(l, cond, a) == IF l = "base" /\ cond THEN leaked \cup {a} ELSE leaked

-----------------------------------------------------------------------------
(* Base layer: creation and delegation.                                    *)

InitializeIncident ==
  /\ coreAt = "absent"
  /\ coreAt' = "base"
  /\ UNCHANGED <<slot, core, claim, ballot, claimAt, ballotAt, leaked,
                 onBase>>

InitializeClaim ==
  /\ coreAt = "base"
  /\ claimAt = "absent"
  /\ claimAt' = "base"
  /\ UNCHANGED <<slot, core, claim, ballot, coreAt, ballotAt, leaked,
                 onBase>>

InitializeAttestation(m) ==
  /\ coreAt = "base"
  /\ ballotAt[m] = "absent"
  /\ ballotAt' = [ballotAt EXCEPT ![m] = "base"]
  /\ UNCHANGED <<slot, core, claim, ballot, coreAt, claimAt, leaked,
                 onBase>>

(* No delegation handler looks at the status of the incident, so a family  *)
(* that was released can be delegated again: Redelegates says whether the  *)
(* opener of this instance does it.                                        *)
MayDelegate == Redelegates \/ ~(IsTerminal /\ coreAt \in {"base", "leaving"})

DelegateIncident ==
  /\ coreAt = "base" /\ MayDelegate
  /\ coreAt' = "er"
  /\ image' = core
  /\ UNCHANGED <<slot, core, claim, ballot, claimAt, ballotAt, leaked,
                 checkpoint, certificate>>

DelegateClaim ==
  /\ claimAt = "base" /\ MayDelegate
  /\ claimAt' = "er"
  /\ UNCHANGED <<slot, core, claim, ballot, coreAt, ballotAt, leaked,
                 onBase>>

DelegateAttestation(m) ==
  /\ ballotAt[m] = "base" /\ MayDelegate
  /\ ballotAt' = [ballotAt EXCEPT ![m] = "er"]
  /\ UNCHANGED <<slot, core, claim, ballot, coreAt, claimAt, leaked,
                 onBase>>

-----------------------------------------------------------------------------
(* The private runtime: opening, submissions, quarantine.                  *)

(* Bound: the deadline fits the clock (slot + ResponseWindow <= MaxSlot).  *)
OpenIncident(l) ==
  /\ Writes(l, coreAt)
  /\ core.status = "Draft"
  /\ Reconstructs(l)
  /\ \A m \in Members : ballot[m].state = "Empty"
  /\ slot + ResponseWindow <= MaxSlot
  /\ core' = [core EXCEPT !.status = "Collecting", !.opened_at_slot = slot,
                          !.expires_at_slot = slot + ResponseWindow]
  /\ UNCHANGED <<slot, claim, ballot, places, leaked, onBase>>

(* Mutant of SubmitPrivateClaim: accepted after the incident settled.      *)
SubmitPrivateClaim_AnyTime(l, hasBytes) ==
  /\ Reads(l, coreAt) /\ Writes(l, claimAt)
  /\ core.status # "Draft"
  /\ claim' = [evidence |-> hasBytes, zeroized |-> FALSE]
  /\ leaked' = LeakIf(l, hasBytes, "claim")
  /\ UNCHANGED <<slot, core, ballot, places, onBase>>

(* No deadline here: the opener may write evidence until the incident      *)
(* settles.  An empty payload clears the flag and leaves the bytes zero.   *)
SubmitPrivateClaim(l, hasBytes) ==
  /\ Reads(l, coreAt) /\ Writes(l, claimAt)
  /\ core.status = "Collecting"
  /\ claim' = [evidence |-> hasBytes, zeroized |-> FALSE]
  /\ leaked' = LeakIf(l, hasBytes, "claim")
  /\ UNCHANGED <<slot, core, ballot, places, onBase>>

(* Mutant of FreshNonce: the nonce in force may be used again.             *)
FreshNonce_OrEqual(m, n) == n >= ballot[m].submission_nonce

(* The floor is the highest nonce the member ever used.                    *)
FreshNonce(m, n) == n > ballot[m].submission_nonce

(* What apply_attestation asks.                                            *)
MayAttest(l, m, d, n) ==
  /\ Reads(l, coreAt) /\ Writes(l, ballotAt[m])
  /\ core.status = "Collecting"
  /\ ~IsExpired
  /\ d # "None"
  /\ ballot[m].state \notin {"Quarantined", "Scrubbed"}
  /\ FreshNonce(m, n)

SubmitSealedAttestation(l, m, d, n) ==
  /\ MayAttest(l, m, d, n)
  /\ ballot' = [ballot EXCEPT ![m] =
       [state |-> "Submitted", decision |-> d, submission_nonce |-> n,
        submitted_at_slot |-> slot, has_decision |-> TRUE,
        zeroized |-> FALSE]]
  /\ leaked' = LeakIf(l, TRUE, m)
  /\ UNCHANGED <<slot, core, claim, places, onBase>>

(* Mutant of QuarantineMember: the incident need not be collecting.        *)
QuarantineMember_AnyTime(l, m) ==
  /\ Reads(l, coreAt) /\ Writes(l, ballotAt[m])
  /\ ballot' = [ballot EXCEPT ![m].state = "Quarantined"]
  /\ UNCHANGED <<slot, core, claim, places, leaked, onBase>>

(* Only the state changes: the decision stays, and nothing looks at the    *)
(* deadline or at the state the ballot was in.                             *)
QuarantineMember(l, m) ==
  /\ Reads(l, coreAt) /\ Writes(l, ballotAt[m])
  /\ core.status = "Collecting"
  /\ ballot' = [ballot EXCEPT ![m].state = "Quarantined"]
  /\ UNCHANGED <<slot, core, claim, places, leaked, onBase>>

-----------------------------------------------------------------------------
(* Settling.                                                               *)

SettleTerminal ==
  LET t == Tally(ballot) IN
  core' = [core EXCEPT
             !.approvals = t.approvals, !.rejections = t.rejections,
             !.certified_at_slot = slot,
             !.status = TerminalStatus(t, RequiredApprovals,
                                       MaximumRejections)]

ThresholdMet == Meets(Tally(ballot), RequiredApprovals, MaximumRejections)

(* Mutant of CertifyIncident: a settled incident may be counted again.     *)
CertifyIncident_AnyStatus(l) ==
  /\ Writes(l, coreAt)
  /\ core.status # "Draft"
  /\ Reconstructs(l)
  /\ ThresholdMet \/ IsExpired
  /\ SettleTerminal
  /\ UNCHANGED <<slot, claim, ballot, places, leaked, onBase>>

CertifyIncident(l) ==
  /\ Writes(l, coreAt)
  /\ core.status = "Collecting"
  /\ Reconstructs(l)
  /\ ThresholdMet \/ IsExpired
  /\ SettleTerminal
  /\ UNCHANGED <<slot, claim, ballot, places, leaked, onBase>>

(* Mutant of ExpiryDue: the scheduler's word is taken for the deadline.    *)
ExpiryDue_Early(l) ==
  /\ Writes(l, coreAt)
  /\ core.status = "Collecting"
  /\ Reconstructs(l)

(* What expire_incident checks; anything else returns Ok without a change. *)
ExpiryDue(l) ==
  /\ Writes(l, coreAt)
  /\ core.status = "Collecting"
  /\ IsExpired
  /\ Reconstructs(l)

ExpireIncident(l) ==
  /\ ExpiryDue(l)
  /\ SettleTerminal
  /\ UNCHANGED <<slot, claim, ballot, places, leaked, onBase>>

-----------------------------------------------------------------------------
(* The scrub and the two doors out of the private runtime.                 *)

ScrubClaim(l) ==
  /\ Reads(l, coreAt) /\ Writes(l, claimAt)
  /\ IsTerminal
  /\ claim' = [evidence |-> FALSE, zeroized |-> TRUE]
  /\ UNCHANGED <<slot, core, ballot, places, leaked, onBase>>

ScrubAttestation(l, m) ==
  /\ Reads(l, coreAt) /\ Writes(l, ballotAt[m])
  /\ IsTerminal
  /\ ballot' = [ballot EXCEPT ![m] = Scrub(ballot[m])]
  /\ UNCHANGED <<slot, core, claim, places, leaked, onBase>>

(* Mutant of GatedExit: the ballots leave ungated.                         *)
GatedExit_ClaimOnly(family) == ClaimMayLeave

(* gated_exit_accounts: the list has member_count entries, each a ballot of *)
(* this incident that passes the gate.  Its entries need not be distinct,   *)
(* so the list names some nonempty set of members, not always all of them.  *)
GatedExit(family) ==
  /\ ClaimMayLeave
  /\ \A m \in family : MayLeave(ballot[m])

(* The magic program commits delegated accounts only.                      *)
Delegated(family) ==
  /\ coreAt = "er" /\ claimAt = "er"
  /\ \A m \in family : ballotAt[m] = "er"

ReleaseIncident(family) ==
  /\ Delegated(family)
  /\ IsTerminal
  /\ GatedExit(family)
  /\ coreAt' = "leaving" /\ claimAt' = "leaving"
  /\ ballotAt' = [m \in Members |->
                    IF m \in family THEN "leaving" ELSE ballotAt[m]]
  /\ UNCHANGED <<slot, core, claim, ballot, leaked, onBase>>

(* A checkpoint: the bytes the named accounts have now will appear on the  *)
(* base layer while the accounts go on living in the rollup.  Bound: one   *)
(* checkpoint is in flight at a time.                                      *)
CommitIncident(family) ==
  /\ Delegated(family)
  /\ checkpoint = NoCheckpoint
  /\ GatedExit(family)
  /\ leaked' = leaked
       \cup (IF claim.evidence THEN {"claim"} ELSE {})
       \cup {m \in family : ~ProtectedFieldsAreZero(ballot[m])}
  /\ checkpoint' = core
  /\ UNCHANGED <<slot, core, claim, ballot, places, image, certificate>>

LandCheckpoint ==
  /\ checkpoint # NoCheckpoint
  /\ image' = checkpoint
  /\ checkpoint' = NoCheckpoint
  /\ UNCHANGED <<slot, core, claim, ballot, places, leaked, certificate>>

(* The committor lands a scheduled undelegation, one account at a time.    *)
(* A checkpoint still in flight has nothing left to commit to.             *)
LandCore ==
  /\ coreAt = "leaving"
  /\ coreAt' = "base"
  /\ image' = core
  /\ checkpoint' = NoCheckpoint
  /\ UNCHANGED <<slot, core, claim, ballot, claimAt, ballotAt, leaked,
                 certificate>>

LandClaim ==
  /\ claimAt = "leaving"
  /\ claimAt' = "base"
  /\ leaked' = LeakIf("base", claim.evidence, "claim")
  /\ UNCHANGED <<slot, core, claim, ballot, coreAt, ballotAt, onBase>>

LandAttestation(m) ==
  /\ ballotAt[m] = "leaving"
  /\ ballotAt' = [ballotAt EXCEPT ![m] = "base"]
  /\ leaked' = LeakIf("base", ~ProtectedFieldsAreZero(ballot[m]), m)
  /\ UNCHANGED <<slot, core, claim, ballot, coreAt, claimAt, onBase>>

(* Base layer; the certificate account is created at the operation id, so  *)
(* it exists at most once.                                                 *)
PublishCertificate ==
  /\ coreAt = "base"
  /\ certificate = NoCertificate
  /\ core.status = "CertifiedPendingSettlement"
  /\ core.approvals > 0
  /\ certificate' =
       [issued |-> TRUE, certificate_nonce |-> core.certified_at_slot,
        approval_count |-> core.approvals,
        rejection_count |-> core.rejections,
        expires_at_slot |-> core.certified_at_slot + CertificateLifetime]
  /\ UNCHANGED <<slot, core, claim, ballot, places, leaked, image,
                 checkpoint>>

Tick ==
  /\ slot < MaxSlot
  /\ slot' = slot + 1
  /\ UNCHANGED <<core, claim, ballot, places, leaked, onBase>>

-----------------------------------------------------------------------------
Formation ==
  \/ InitializeIncident
  \/ InitializeClaim
  \/ DelegateIncident
  \/ DelegateClaim
  \/ \E m \in Members : InitializeAttestation(m) \/ DelegateAttestation(m)

Runtime ==
  \E l \in Routes :
    \/ OpenIncident(l)
    \/ \E hasBytes \in BOOLEAN : SubmitPrivateClaim(l, hasBytes)
    \/ \E m \in Members :
         \/ \E d \in Decisions, n \in 1..MaxNonce :
              SubmitSealedAttestation(l, m, d, n)
         \/ QuarantineMember(l, m)
         \/ ScrubAttestation(l, m)
    \/ CertifyIncident(l)
    \/ ExpireIncident(l)
    \/ ScrubClaim(l)

Exit ==
  \/ \E family \in ExitFamilies :
       ReleaseIncident(family) \/ CommitIncident(family)
  \/ LandCheckpoint
  \/ LandCore
  \/ LandClaim
  \/ \E m \in Members : LandAttestation(m)
  \/ PublishCertificate

Next == Formation \/ Runtime \/ Exit \/ Tick

Spec == Init /\ [][Next]_vars
-----------------------------------------------------------------------------
(* What the base layer shows of the core: the account itself while the     *)
(* program owns it there, the last landed bytes while it is delegated.     *)
BaseImage == IF coreAt \in {"absent", "base"} THEN core ELSE image

(* Safety *)

(* A settled outcome is the count of the ballots as they stand: nothing a  *)
(* member, the opener or a scrub does after settle_terminal may put the    *)
(* recorded tally and the sealed ballots at odds.  It can be read off the  *)
(* ballots until the first of them is scrubbed.                            *)
OutcomeMatchesBallots ==
  IsTerminal /\ (\A m \in Members : ballot[m].state # "Scrubbed") =>
    LET t == Tally(ballot) IN
    /\ core.approvals = t.approvals /\ core.rejections = t.rejections
    /\ core.status = TerminalStatus(t, RequiredApprovals, MaximumRejections)

(* A certified incident reached its quorum, and one that failed did not    *)
(* fail before its deadline: the moment a blocking rejection lands is      *)
(* never visible in the status (certify_incident, settle_terminal).        *)
OutcomeIsEarned ==
  /\ core.status = "CertifiedPendingSettlement" =>
       /\ core.approvals >= RequiredApprovals
       /\ core.rejections <= MaximumRejections
  /\ core.status \in {"Expired", "RejectedByThreshold"} =>
       core.certified_at_slot >= core.expires_at_slot

(* Every decision that is held was submitted inside the response window of *)
(* the incident that counts it and before the slot it settled in.          *)
VotesInsideWindow ==
  \A m \in Members : ballot[m].has_decision =>
    /\ core.status # "Draft"
    /\ core.opened_at_slot <= ballot[m].submitted_at_slot
    /\ ballot[m].submitted_at_slot < core.expires_at_slot
    /\ IsTerminal => ballot[m].submitted_at_slot <= core.certified_at_slot

(* When the private-runtime handlers are sent to the rollup, no image of a *)
(* private account that reaches the base layer ever holds protected bytes, *)
(* whichever exits run and whatever list of ballots they name.             *)
NothingPrivateOnBase == leaked = {}

(* What the base layer shows as settled is the outcome: a checkpoint that  *)
(* lands late never shows another one, and none is shown before it is so.  *)
BaseImageTellsTheOutcome == BaseImage.status \in Terminal => BaseImage = core

(* A certificate stands on a certified core with the same numbers, however *)
(* often the family was delegated and released since, and it exists only   *)
(* once the responder's evidence is gone.                                  *)
CertificateIsBacked ==
  certificate.issued =>
    /\ core.status = "CertifiedPendingSettlement"
    /\ certificate.certificate_nonce = core.certified_at_slot
    /\ certificate.approval_count >= RequiredApprovals
    /\ certificate.rejection_count <= MaximumRejections
    /\ certificate.expires_at_slot > core.certified_at_slot
    /\ ~claim.evidence

(* Whoever reads the base layer alone is told the outcome: by the core's    *)
(* image, however late its checkpoint lands, and by the certificate.        *)
BaseTellsTheOutcome == BaseImageTellsTheOutcome /\ CertificateIsBacked

(* A release takes the whole family: once a settled core is back on the    *)
(* base layer no ballot is left behind in the rollup, with nothing left to *)
(* release it (gated_exit_accounts, lib.rs:1608-1609).                     *)
ReleaseTakesTheFamily ==
  coreAt = "base" /\ IsTerminal => \A m \in Members : ballotAt[m] # "er"

(* Actions *)

(* A scrub is final: once the incident is settled, an account that passed  *)
(* the gate never holds protected bytes again, not by a late submission,   *)
(* nor after the family is delegated a second time.                        *)
ScrubIsFinal ==
  [][IsTerminal =>
       /\ ClaimMayLeave => ClaimMayLeave'
       /\ \A m \in Members : ballot[m].state = "Scrubbed" =>
            ballot'[m] = ballot[m]]_vars

(* Quarantine never helps an incident certify, and an objection, struck or *)
(* not, goes on counting until its member replaces it or the ballot is     *)
(* scrubbed (decision D-0013).                                             *)
QuarantineNeverHelps ==
  [][\A m \in Members :
       /\ ballot'[m].state = "Quarantined" /\ ballot[m].state # "Quarantined"
            => (ThresholdMet' => ThresholdMet)
       /\ ballot[m].has_decision /\ ballot[m].decision = "Reject"
            => \/ CountsAs(ballot'[m]) = "Reject"
               \/ ballot'[m].submission_nonce > ballot[m].submission_nonce
               \/ ballot'[m].state = "Scrubbed"]_vars

(* A decision that replaces another carries a higher nonce, so a delayed   *)
(* or repeated submission never brings back what its member superseded.    *)
NoResurrection ==
  [][\A m \in Members :
       ballot'[m].has_decision /\ ballot'[m] # ballot[m] =>
         \/ ballot'[m].submission_nonce > ballot[m].submission_nonce
         \/ ballot'[m].state = "Quarantined"
              /\ ballot'[m].decision = ballot[m].decision]_vars

-----------------------------------------------------------------------------
(* Liveness.  Time passes; every permissionless handler is called by       *)
(* somebody in the end, the release with the list the clients build; the   *)
(* committor lands what it accepted.  Nothing is assumed of the opener or  *)
(* of the members.                                                         *)
Fairness ==
  /\ WF_vars(Tick)
  /\ WF_vars(\E l \in Routes : CertifyIncident(l))
  /\ WF_vars(\E l \in Routes : ScrubClaim(l))
  /\ \A m \in Members : WF_vars(\E l \in Routes : ScrubAttestation(l, m))
  /\ WF_vars(ReleaseIncident(Members))
  /\ WF_vars(LandCore) /\ WF_vars(LandClaim)
  /\ \A m \in Members : WF_vars(LandAttestation(m))
  /\ WF_vars(PublishCertificate)

FairSpec == Spec /\ Fairness

(* Every incident that opens is settled: nobody who dislikes the outcome   *)
(* can leave it hanging (CertifyIncident is permissionless for this).      *)
Settles == core.status = "Collecting" ~> IsTerminal

(* A certified incident whose family was delegated produces its            *)
(* certificate, by permissionless calls alone (publish_certificate).       *)
CertifiedIsPublished ==
  /\ core.status = "CertifiedPendingSettlement" /\ coreAt = "er"
  /\ claimAt = "er" /\ \A m \in Members : ballotAt[m] = "er"
  ~> certificate.issued
=============================================================================
