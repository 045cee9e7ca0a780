---------------------------- MODULE IncidentProofs ---------------------------
(***************************************************************************)
(* Theorems about Incident for every set of members, threshold, window and *)
(* bound.  The order is: what a tally is, what any step leaves typed, then *)
(* one inductive invariant per property, each stated where it is proved.   *)
(* At the end come the sealed quorum an incident implements, and what      *)
(* surrounds it: permissions and the scheduled task.                       *)
(***************************************************************************)
EXTENDS IncidentPermissions, ExpiryCrank, FiniteSetTheorems, TLAPS

(* The parts of the assumption on the constants that the proofs need.      *)
LEMMA ConstantTypes ==
  /\ IsFiniteSet(Members)
  /\ RequiredApprovals \in Nat \ {0}
  /\ MaximumRejections \in Nat
  /\ ResponseWindow \in Nat \ {0}
  /\ CertificateLifetime \in Nat \ {0}
  /\ MaxSlot \in Nat \ {0}
  /\ MaxNonce \in Nat
BY IncidentAssumption

(* A tally over typed ballots is a pair of natural numbers.                *)
LEMMA TallyType ==
  ASSUME ballot \in [Members -> BallotRecords(Nat, Nat)]
  PROVE  /\ Tally(ballot).approvals \in Nat
         /\ Tally(ballot).rejections \in Nat
<1>1. ASSUME NEW d PROVE Cardinality(Counted(ballot, d)) \in Nat
  <2>1. Counted(ballot, d) \subseteq Members
    BY DEF Counted
  <2>2. QED
    BY <2>1, ConstantTypes, FS_Subset, FS_CardinalityType
<1>2. QED
  BY <1>1 DEF Tally

-----------------------------------------------------------------------------
(* For each variable, the handlers that may change it.  The proofs below   *)
(* look at these and never at the whole of Next.                           *)
USE DEF
  Next, vars, places, onBase, Formation, Runtime, Exit, InitializeIncident,
  InitializeClaim, InitializeAttestation, DelegateIncident, DelegateClaim,
  DelegateAttestation, OpenIncident, SubmitPrivateClaim,
  SubmitSealedAttestation, MayAttest, QuarantineMember, CertifyIncident,
  ExpireIncident, ScrubClaim, ScrubAttestation, ReleaseIncident, CommitIncident,
  LandCheckpoint, LandCore, LandClaim, LandAttestation, PublishCertificate,
  Tick

(* Only Tick moves the clock, and by one slot.                             *)
LEMMA ClockSteps ==
  ASSUME [Next]_vars
  PROVE  UNCHANGED slot \/ Tick
OBVIOUS

(* The core is opened, settled, or left alone.                             *)
LEMMA CoreSteps ==
  ASSUME [Next]_vars
  PROVE  \/ UNCHANGED core
         \/ \E l \in Routes :
              OpenIncident(l) \/ CertifyIncident(l) \/ ExpireIncident(l)
OBVIOUS

(* The claim is written by the responder or scrubbed.                      *)
LEMMA ClaimSteps ==
  ASSUME [Next]_vars
  PROVE  \/ UNCHANGED claim
         \/ \E l \in Routes, hasBytes \in BOOLEAN :
              SubmitPrivateClaim(l, hasBytes)
         \/ \E l \in Routes : ScrubClaim(l)
OBVIOUS

(* A ballot is submitted to, quarantined or scrubbed.                      *)
LEMMA BallotSteps ==
  ASSUME [Next]_vars
  PROVE  \/ UNCHANGED ballot
         \/ \E l \in Routes, m \in Members, d \in Decisions, n \in 1..MaxNonce :
              SubmitSealedAttestation(l, m, d, n)
         \/ \E l \in Routes, m \in Members : QuarantineMember(l, m)
         \/ \E l \in Routes, m \in Members : ScrubAttestation(l, m)
OBVIOUS

(* The core is created, delegated, released or landed.                     *)
LEMMA CoreMoves ==
  ASSUME [Next]_vars
  PROVE  \/ UNCHANGED coreAt
         \/ InitializeIncident \/ DelegateIncident \/ LandCore
         \/ \E family \in ExitFamilies : ReleaseIncident(family)
OBVIOUS

(* So is the claim.                                                        *)
LEMMA ClaimMoves ==
  ASSUME [Next]_vars
  PROVE  \/ UNCHANGED claimAt
         \/ InitializeClaim \/ DelegateClaim \/ LandClaim
         \/ \E family \in ExitFamilies : ReleaseIncident(family)
OBVIOUS

(* And so is each ballot.                                                  *)
LEMMA BallotMoves ==
  ASSUME [Next]_vars
  PROVE  \/ UNCHANGED ballotAt
         \/ \E m \in Members : \/ InitializeAttestation(m)
                               \/ DelegateAttestation(m)
                               \/ LandAttestation(m)
         \/ \E family \in ExitFamilies : ReleaseIncident(family)
OBVIOUS

(* Protected bytes can reach the base layer in these handlers only.        *)
LEMMA LeakSteps ==
  ASSUME [Next]_vars
  PROVE  \/ UNCHANGED leaked
         \/ \E l \in Routes, hasBytes \in BOOLEAN :
              SubmitPrivateClaim(l, hasBytes)
         \/ \E l \in Routes, m \in Members, d \in Decisions, n \in 1..MaxNonce :
              SubmitSealedAttestation(l, m, d, n)
         \/ \E family \in ExitFamilies : CommitIncident(family)
         \/ LandClaim
         \/ \E m \in Members : LandAttestation(m)
OBVIOUS

(* The image of a delegated core on the base layer, and its checkpoint.    *)
LEMMA ImageSteps ==
  ASSUME [Next]_vars
  PROVE  \/ UNCHANGED <<image, checkpoint>>
         \/ DelegateIncident \/ LandCheckpoint \/ LandCore
         \/ \E family \in ExitFamilies : CommitIncident(family)
OBVIOUS

(* The certificate is written once.                                        *)
LEMMA CertificateSteps ==
  ASSUME [Next]_vars
  PROVE  UNCHANGED certificate \/ PublishCertificate
OBVIOUS

HIDE DEF
  Next, vars, places, onBase, Formation, Runtime, Exit, InitializeIncident,
  InitializeClaim, InitializeAttestation, DelegateIncident, DelegateClaim,
  DelegateAttestation, OpenIncident, SubmitPrivateClaim,
  SubmitSealedAttestation, MayAttest, QuarantineMember, CertifyIncident,
  ExpireIncident, ScrubClaim, ScrubAttestation, ReleaseIncident, CommitIncident,
  LandCheckpoint, LandCore, LandClaim, LandAttestation, PublishCertificate,
  Tick

-----------------------------------------------------------------------------
(* No step of anybody leaves a state the account types do not allow.       *)
LEMMA TypeStep == TypeOK /\ [Next]_vars => TypeOK'
<1> SUFFICES ASSUME TypeOK, [Next]_vars PROVE TypeOK'
  OBVIOUS
<1>1. slot' \in 0..MaxSlot
  BY ClockSteps, ConstantTypes DEF TypeOK, Tick
<1>2. core' \in Cores
  <2>1. CASE UNCHANGED core
    BY <2>1 DEF TypeOK
  <2>2. ASSUME NEW l \in Routes, OpenIncident(l) PROVE core' \in Cores
    <3>1. slot \in Nat /\ slot + ResponseWindow \in Nat
      BY ConstantTypes DEF TypeOK
    <3>2. QED
      BY <2>2, <3>1 DEF TypeOK, OpenIncident, Cores, Statuses
  <2>3. ASSUME SettleTerminal PROVE core' \in Cores
    <3>1. /\ Tally(ballot).approvals \in Nat
          /\ Tally(ballot).rejections \in Nat
      BY TallyType DEF TypeOK
    <3>2. TerminalStatus(Tally(ballot), RequiredApprovals,
                         MaximumRejections) \in Statuses
      BY DEF TerminalStatus, Statuses
    <3>3. slot \in Nat
      BY DEF TypeOK
    <3>4. QED
      BY <2>3, <3>1, <3>2, <3>3 DEF SettleTerminal, TypeOK, Cores
  <2>4. QED
    BY <2>1, <2>2, <2>3, CoreSteps DEF CertifyIncident, ExpireIncident
<1>3. ballot' \in [Members -> BallotRecords(Nat, Nat)]
  <2>1. CASE UNCHANGED ballot
    BY <2>1 DEF TypeOK
  <2>2. ASSUME NEW l \in Routes, NEW m \in Members, NEW d \in Decisions,
               NEW n \in 1..MaxNonce, SubmitSealedAttestation(l, m, d, n)
        PROVE  ballot' \in [Members -> BallotRecords(Nat, Nat)]
    BY <2>2 DEF TypeOK, SubmitSealedAttestation, MayAttest, BallotRecords,
                BallotStates
  <2>3. ASSUME NEW l \in Routes, NEW m \in Members, QuarantineMember(l, m)
        PROVE  ballot' \in [Members -> BallotRecords(Nat, Nat)]
    BY <2>3 DEF TypeOK, QuarantineMember, BallotRecords, BallotStates
  <2>4. ASSUME NEW l \in Routes, NEW m \in Members, ScrubAttestation(l, m)
        PROVE  ballot' \in [Members -> BallotRecords(Nat, Nat)]
    BY <2>4 DEF TypeOK, ScrubAttestation, Scrub, EmptyBallot,
       BallotRecords, BallotStates, Decisions
  <2>5. QED
    BY <2>1, <2>2, <2>3, <2>4, BallotSteps
<1>4. claim' \in [evidence : BOOLEAN, zeroized : BOOLEAN]
  <2>1. ASSUME NEW l \in Routes, NEW hasBytes \in BOOLEAN,
               SubmitPrivateClaim(l, hasBytes)
        PROVE  claim' \in [evidence : BOOLEAN, zeroized : BOOLEAN]
    BY <2>1, Zenon DEF SubmitPrivateClaim
  <2>2. ASSUME NEW l \in Routes, ScrubClaim(l)
        PROVE  claim' \in [evidence : BOOLEAN, zeroized : BOOLEAN]
    BY <2>2, Zenon DEF ScrubClaim
  <2>3. CASE UNCHANGED claim
    BY <2>3 DEF TypeOK
  <2>4. QED
    BY <2>1, <2>2, <2>3, ClaimSteps
<1>5. coreAt' \in Places /\ claimAt' \in Places
  BY CoreMoves, ClaimMoves DEF TypeOK, Places, InitializeIncident,
     InitializeClaim, DelegateIncident, DelegateClaim, ReleaseIncident,
     LandCore, LandClaim
<1>6. ballotAt' \in [Members -> Places]
  BY BallotMoves DEF TypeOK, Places, InitializeAttestation,
     DelegateAttestation, ReleaseIncident, LandAttestation
<1>7. leaked' \subseteq Members \cup {"claim"}
  <2>1. ASSUME NEW l, NEW c, NEW a \in Members \cup {"claim"},
               leaked' = LeakIf(l, c, a)
        PROVE  leaked' \subseteq Members \cup {"claim"}
    BY <2>1 DEF TypeOK, LeakIf
  <2>2. ASSUME NEW family \in ExitFamilies, CommitIncident(family)
        PROVE  leaked' \subseteq Members \cup {"claim"}
    <3>1. family \subseteq Members
      BY IncidentAssumption
    <3>2. leaked \subseteq Members \cup {"claim"}
      BY DEF TypeOK
    <3>3. leaked' = leaked
              \cup (IF claim.evidence THEN {"claim"} ELSE {})
              \cup {m \in family : ~ProtectedFieldsAreZero(ballot[m])}
      BY <2>2 DEF CommitIncident
    <3>4. QED
      BY <3>1, <3>2, <3>3
  <2>3. CASE UNCHANGED leaked
    BY <2>3 DEF TypeOK
  <2>4. QED
    BY <2>1, <2>2, <2>3, LeakSteps DEF SubmitPrivateClaim,
       SubmitSealedAttestation, MayAttest, LandClaim, LandAttestation
<1>8. image' \in Cores /\ checkpoint' \in Cores \cup {NoCheckpoint}
  BY ImageSteps DEF TypeOK, DelegateIncident, LandCheckpoint, LandCore,
     CommitIncident
<1>9. certificate' \in Certificates \cup {NoCertificate}
  <2>1. ASSUME PublishCertificate
        PROVE  certificate' \in Certificates
    <3>1. core.certified_at_slot + CertificateLifetime \in Nat
      BY ConstantTypes DEF TypeOK, Cores
    <3>2. QED
      BY <2>1, <3>1 DEF TypeOK, PublishCertificate, Certificates, Cores
  <2>2. QED
    BY <2>1, CertificateSteps DEF TypeOK
<1>10. QED
  BY <1>1, <1>2, <1>3, <1>4, <1>5, <1>6, <1>7, <1>8, <1>9 DEF TypeOK

LEMMA TypeInit == Init => TypeOK
<1> SUFFICES ASSUME Init PROVE TypeOK
  OBVIOUS
<1>1. slot \in 0..MaxSlot
  BY ConstantTypes DEF Init
<1>2. core \in Cores /\ image \in Cores
  BY DEF Init, Cores, Statuses
<1>3. ballot \in [Members -> BallotRecords(Nat, Nat)]
  BY DEF Init, BallotRecords, EmptyBallot, BallotStates, Decisions
<1>4. QED
  BY <1>1, <1>2, <1>3 DEF Init, TypeOK, Places

(* Type correctness: no handler, in any order and on any layer, leaves a   *)
(* state the account types do not allow; in particular the terminal status *)
(* is always one that the exits and the certificate know.                  *)
THEOREM TypeCorrect == Spec => []TypeOK
<1>1. Init => TypeOK
  BY TypeInit
<1>2. TypeOK /\ [Next]_vars => TypeOK'
  BY TypeStep
<1>3. QED
  BY <1>1, <1>2, PTL DEF Spec

-----------------------------------------------------------------------------
(* Certification is earned and failure waits: a certified incident reached *)
(* the frozen threshold under the frozen ceiling, and an incident is never *)
(* called expired or rejected before the deadline of its window.           *)
THEOREM EarnedOutcome == Spec => []OutcomeIsEarned
<1>1. Init => OutcomeIsEarned
  BY DEF Init, OutcomeIsEarned
<1>2. TypeOK /\ OutcomeIsEarned /\ [Next]_vars => OutcomeIsEarned'
  <2> SUFFICES ASSUME TypeOK, OutcomeIsEarned, [Next]_vars
               PROVE  OutcomeIsEarned'
    OBVIOUS
  <2>1. CASE UNCHANGED core
    BY <2>1 DEF OutcomeIsEarned
  <2>2. ASSUME NEW l \in Routes, OpenIncident(l) PROVE OutcomeIsEarned'
    BY <2>2 DEF TypeOK, Cores, OpenIncident, OutcomeIsEarned
  <2>3. ASSUME SettleTerminal, ThresholdMet \/ IsExpired
        PROVE  OutcomeIsEarned'
    BY <2>3 DEF TypeOK, Cores, SettleTerminal, TerminalStatus, ThresholdMet,
       Meets, IsExpired, OutcomeIsEarned
  <2>4. QED
    BY <2>1, <2>2, <2>3, CoreSteps
       DEF CertifyIncident, ExpireIncident, ExpiryDue
<1>3. QED
  BY <1>1, <1>2, TypeCorrect, PTL DEF Spec

-----------------------------------------------------------------------------
(* The recorded outcome is the count of the sealed ballots, until a scrub  *)
(* starts to erase them: no submission, quarantine or second settlement    *)
(* gets between the count and the record.                                  *)
THEOREM OutcomeIsTheCount == Spec => []OutcomeMatchesBallots
<1>1. Init => OutcomeMatchesBallots
  BY DEF Init, OutcomeMatchesBallots, IsTerminal, Terminal
<1>2. TypeOK /\ OutcomeMatchesBallots /\ [Next]_vars
        => OutcomeMatchesBallots'
  <2> SUFFICES ASSUME TypeOK, OutcomeMatchesBallots, [Next]_vars, IsTerminal',
                      \A m \in Members : ballot'[m].state # "Scrubbed"
               PROVE  LET t == Tally(ballot') IN
                      /\ core'.approvals = t.approvals
                      /\ core'.rejections = t.rejections
                      /\ core'.status = TerminalStatus(t, RequiredApprovals,
                                                       MaximumRejections)
    BY DEF OutcomeMatchesBallots
  <2>1. ASSUME SettleTerminal, UNCHANGED ballot
        PROVE  /\ core'.approvals = Tally(ballot').approvals
               /\ core'.rejections = Tally(ballot').rejections
               /\ core'.status = TerminalStatus(Tally(ballot'),
                                  RequiredApprovals, MaximumRejections)
    BY <2>1 DEF SettleTerminal, TypeOK, Cores
  <2>2. ASSUME NEW l \in Routes, OpenIncident(l) PROVE FALSE
    BY <2>2 DEF OpenIncident, TypeOK, Cores, IsTerminal, Terminal
  <2>3. CASE UNCHANGED core
    <3>1. IsTerminal
      BY <2>3 DEF IsTerminal
    <3>2. UNCHANGED ballot
      <4>1. ASSUME NEW l \in Routes, NEW m \in Members, ScrubAttestation(l, m)
            PROVE  FALSE
        BY <4>1 DEF ScrubAttestation, Scrub, EmptyBallot, TypeOK
      <4>2. QED
        BY <3>1, <4>1, BallotSteps DEF SubmitSealedAttestation, MayAttest,
           QuarantineMember, IsTerminal, Terminal
    <3>3. QED
      BY <2>3, <3>1, <3>2 DEF OutcomeMatchesBallots
  <2>4. QED
    BY <2>1, <2>2, <2>3, CoreSteps DEF CertifyIncident, ExpireIncident
<1>3. QED
  BY <1>1, <1>2, TypeCorrect, PTL DEF Spec

-----------------------------------------------------------------------------
(* A handler that writes one ballot leaves every other one alone.          *)
LEMMA OneBallotSteps ==
  ASSUME TypeOK, [Next]_vars, NEW m \in Members
  PROVE  \/ ballot'[m] = ballot[m]
         \/ \E l \in Routes, d \in Decisions, n \in 1..MaxNonce :
              SubmitSealedAttestation(l, m, d, n)
         \/ \E l \in Routes : QuarantineMember(l, m)
         \/ \E l \in Routes : ScrubAttestation(l, m)
<1>1. ASSUME NEW o \in Members, o # m,
             \/ \E l \in Routes, d \in Decisions, n \in 1..MaxNonce :
                  SubmitSealedAttestation(l, o, d, n)
             \/ \E l \in Routes : QuarantineMember(l, o)
             \/ \E l \in Routes : ScrubAttestation(l, o)
      PROVE  ballot'[m] = ballot[m]
  BY <1>1 DEF TypeOK, SubmitSealedAttestation, MayAttest, QuarantineMember,
     ScrubAttestation
<1>2. QED
  BY <1>1, BallotSteps

(* What each of the three handlers writes.                                 *)
LEMMA WrittenBallot ==
  ASSUME TypeOK, NEW m \in Members, NEW l \in Routes
  PROVE  /\ \A d \in Decisions, n \in 1..MaxNonce :
              SubmitSealedAttestation(l, m, d, n) =>
                /\ ballot'[m].submitted_at_slot = slot
                /\ ballot'[m].state = "Submitted"
                /\ ballot'[m].submission_nonce = n
                /\ core.status = "Collecting" /\ slot < core.expires_at_slot
                /\ n > ballot[m].submission_nonce
                /\ UNCHANGED <<slot, core>>
         /\ QuarantineMember(l, m) =>
              /\ ballot'[m] = [ballot[m] EXCEPT !.state = "Quarantined"]
              /\ UNCHANGED <<slot, core>>
         /\ ScrubAttestation(l, m) => ballot'[m] = Scrub(ballot[m])
<1>1. /\ slot \in Nat /\ core.expires_at_slot \in Nat
      /\ ballot[m].submission_nonce \in Nat
  BY DEF TypeOK, Cores, BallotRecords
<1>2. ASSUME NEW d \in Decisions, NEW n \in 1..MaxNonce,
             SubmitSealedAttestation(l, m, d, n)
      PROVE  /\ ballot'[m].submitted_at_slot = slot
             /\ ballot'[m].state = "Submitted"
             /\ ballot'[m].submission_nonce = n
             /\ core.status = "Collecting" /\ slot < core.expires_at_slot
             /\ n > ballot[m].submission_nonce
             /\ UNCHANGED <<slot, core>>
  BY <1>1, <1>2 DEF TypeOK, SubmitSealedAttestation, MayAttest, IsExpired,
                    FreshNonce
<1>3. QED
  BY <1>2 DEF TypeOK, QuarantineMember, ScrubAttestation

-----------------------------------------------------------------------------
(* What VotesInsideWindow rests on: a ballot is empty only before its      *)
(* first vote, so that opening over empty ballots starts a window with no  *)
(* decision in it, and neither a decision nor a window is in the future.   *)
WindowInv ==
  /\ VotesInsideWindow
  /\ core.opened_at_slot <= slot
  /\ \A m \in Members :
       /\ ballot[m].state = "Empty" => ~ballot[m].has_decision
       /\ ballot[m].has_decision => ballot[m].submitted_at_slot <= slot

(* No vote counts outside its window: whatever is replayed, delayed or     *)
(* delegated again, a held decision was cast after this incident opened,   *)
(* before its deadline, and no later than the slot that settled it.        *)
THEOREM VotesAreTimely == Spec => []VotesInsideWindow
<1>1. Init => WindowInv
  BY DEF Init, WindowInv, VotesInsideWindow, EmptyBallot
<1>2. TypeOK /\ WindowInv /\ [Next]_vars => WindowInv'
  <2> SUFFICES ASSUME TypeOK, WindowInv, [Next]_vars PROVE WindowInv'
    OBVIOUS
  <2>1. slot \in Nat /\ slot' \in Nat /\ slot <= slot'
    BY ClockSteps, ConstantTypes DEF TypeOK, Tick
  <2>2. core \in Cores
    BY DEF TypeOK
  <2>3. core'.opened_at_slot <= slot'
    <3>1. ASSUME NEW l \in Routes, OpenIncident(l)
          PROVE  core'.opened_at_slot = slot
      BY <3>1, <2>2 DEF OpenIncident, Cores
    <3>2. ASSUME SettleTerminal
          PROVE  core'.opened_at_slot = core.opened_at_slot
      BY <3>2, <2>2 DEF SettleTerminal, Cores
    <3>3. QED
      BY <2>1, <2>2, <3>1, <3>2, CoreSteps DEF WindowInv, Cores,
         CertifyIncident, ExpireIncident
  <2>4. ASSUME NEW m \in Members
        PROVE  /\ ballot'[m].has_decision =>
                    /\ core'.status # "Draft"
                    /\ core'.opened_at_slot <= ballot'[m].submitted_at_slot
                    /\ ballot'[m].submitted_at_slot < core'.expires_at_slot
                    /\ IsTerminal' => ballot'[m].submitted_at_slot
                                        <= core'.certified_at_slot
                    /\ ballot'[m].submitted_at_slot <= slot'
               /\ ballot'[m].state = "Empty" => ~ballot'[m].has_decision
    <3>1. ballot[m] \in BallotRecords(Nat, Nat)
      BY DEF TypeOK
    <3>2. CASE ballot'[m] = ballot[m] /\ UNCHANGED core
      BY <2>1, <2>2, <3>1, <3>2 DEF WindowInv, VotesInsideWindow, Cores,
         BallotRecords, IsTerminal
    <3>3. ASSUME NEW l \in Routes, OpenIncident(l) PROVE ~ballot'[m].has_decision
      BY <3>3 DEF OpenIncident, WindowInv
    <3>4. CASE SettleTerminal /\ UNCHANGED <<slot, ballot>>
      BY <2>1, <2>2, <3>1, <3>4 DEF WindowInv, VotesInsideWindow, Cores,
         BallotRecords, SettleTerminal, TerminalStatus
    <3>5. CASE \E l \in Routes, d \in Decisions, n \in 1..MaxNonce :
                 SubmitSealedAttestation(l, m, d, n)
      BY <2>1, <2>2, <3>5, WrittenBallot DEF WindowInv, Cores, IsTerminal,
         Terminal
    <3>6. CASE \E l \in Routes : QuarantineMember(l, m)
      <4>1. /\ ballot'[m] = [ballot[m] EXCEPT !.state = "Quarantined"]
            /\ UNCHANGED <<slot, core>>
        BY <3>6, WrittenBallot
      <4>2. /\ ballot'[m].has_decision = ballot[m].has_decision
            /\ ballot'[m].submitted_at_slot = ballot[m].submitted_at_slot
            /\ ballot'[m].state = "Quarantined"
        BY <3>1, <4>1 DEF BallotRecords
      <4>3. IsTerminal' = IsTerminal
        BY <4>1 DEF IsTerminal
      <4>4. QED
        BY <4>1, <4>2, <4>3 DEF WindowInv, VotesInsideWindow
    <3>7. CASE \E l \in Routes : ScrubAttestation(l, m)
      BY <3>7, WrittenBallot DEF Scrub, EmptyBallot
    <3>8. CASE UNCHANGED core
      BY <3>2, <3>5, <3>6, <3>7, <3>8, OneBallotSteps
    <3>9. CASE \E l \in Routes : OpenIncident(l)
      BY <3>3, <3>9 DEF OpenIncident, WindowInv
    <3>10. QED
      BY <3>4, <3>8, <3>9, CoreSteps DEF CertifyIncident, ExpireIncident
  <2>5. QED
    BY <2>3, <2>4 DEF WindowInv, VotesInsideWindow
<1>3. WindowInv => VotesInsideWindow
  BY DEF WindowInv
<1>4. QED
  BY <1>1, <1>2, <1>3, TypeCorrect, PTL DEF Spec

-----------------------------------------------------------------------------
(* What NothingPrivateOnBase rests on: a private account that lives        *)
(* anywhere but in the rollup could pass the exit gate.                    *)
ExitInv ==
  /\ NothingPrivateOnBase
  /\ claimAt # "er" => ClaimMayLeave
  /\ \A m \in Members : ballotAt[m] # "er" => MayLeave(ballot[m])

LEMMA ExitInit == Init => ExitInv
BY DEF Init, ExitInv, NothingPrivateOnBase, ClaimMayLeave, EmptyBallot,
   MayLeave, ProtectedFieldsAreZero

(* The gate keeps it, whatever list an exit is given.                      *)
LEMMA ExitStep ==
  ASSUME Routes \subseteq {"er"}
  PROVE  TypeOK /\ ExitInv /\ [Next]_vars => ExitInv'
<1> SUFFICES ASSUME TypeOK, ExitInv, [Next]_vars PROVE ExitInv'
  OBVIOUS
<1>1. NothingPrivateOnBase'
  <2>1. ASSUME NEW l \in Routes, NEW c, NEW a, leaked' = LeakIf(l, c, a)
        PROVE  UNCHANGED leaked
    BY <2>1 DEF LeakIf
  <2>2. ASSUME NEW family \in ExitFamilies, CommitIncident(family)
        PROVE  UNCHANGED leaked
    <3>1. /\ ~claim.evidence
          /\ \A m \in family : ProtectedFieldsAreZero(ballot[m])
      BY <2>2 DEF CommitIncident, GatedExit, ClaimMayLeave, MayLeave
    <3>2. leaked' = leaked
              \cup (IF claim.evidence THEN {"claim"} ELSE {})
              \cup {m \in family : ~ProtectedFieldsAreZero(ballot[m])}
      BY <2>2 DEF CommitIncident
    <3>3. QED
      BY <3>1, <3>2
  <2>3. ASSUME LandClaim PROVE UNCHANGED leaked
    BY <2>3 DEF LandClaim, LeakIf, ExitInv, ClaimMayLeave
  <2>4. ASSUME NEW m \in Members, LandAttestation(m)
        PROVE  UNCHANGED leaked
    BY <2>4 DEF LandAttestation, LeakIf, ExitInv, MayLeave
  <2>5. QED
    BY <2>1, <2>2, <2>3, <2>4, LeakSteps DEF SubmitPrivateClaim,
       SubmitSealedAttestation, MayAttest, ExitInv, NothingPrivateOnBase
<1>2. claimAt' # "er" => ClaimMayLeave'
  <2>1. CASE UNCHANGED claim
    BY <2>1, ClaimMoves DEF InitializeClaim, DelegateClaim, LandClaim,
       ReleaseIncident, GatedExit, ExitInv, ClaimMayLeave
  <2>2. ASSUME NEW l \in Routes, NEW hasBytes \in BOOLEAN,
               SubmitPrivateClaim(l, hasBytes)
        PROVE  claimAt' = "er"
    BY <2>2 DEF SubmitPrivateClaim, Writes, places
  <2>3. ASSUME NEW l \in Routes, ScrubClaim(l) PROVE ClaimMayLeave'
    BY <2>3 DEF ScrubClaim, ClaimMayLeave
  <2>4. QED
    BY <2>1, <2>2, <2>3, ClaimSteps
<1>3. ASSUME NEW m \in Members, ballotAt'[m] # "er"
      PROVE  MayLeave(ballot'[m])
  <2>1. CASE ballot'[m] = ballot[m]
    <3>1. ballotAt[m] # "er" \/ MayLeave(ballot[m])
      BY <1>3, BallotMoves DEF TypeOK, InitializeAttestation,
         DelegateAttestation, LandAttestation, ReleaseIncident, GatedExit
    <3>2. QED
      BY <2>1, <3>1 DEF ExitInv
  <2>2. ASSUME NEW l \in Routes,
               \/ \E d \in Decisions, n \in 1..MaxNonce :
                    SubmitSealedAttestation(l, m, d, n)
               \/ QuarantineMember(l, m)
        PROVE  FALSE
    BY <1>3, <2>2
    DEF SubmitSealedAttestation, MayAttest, QuarantineMember, Writes, places
  <2>3. ASSUME NEW l \in Routes, ScrubAttestation(l, m)
        PROVE  MayLeave(ballot'[m])
    BY <2>3, WrittenBallot DEF Scrub, EmptyBallot, MayLeave,
       ProtectedFieldsAreZero
  <2>4. QED
    BY <2>1, <2>2, <2>3, OneBallotSteps
<1>4. QED
  BY <1>1, <1>2, <1>3 DEF ExitInv

(* If the private-runtime handlers are sent to the rollup only, the gate   *)
(* of the two exits is enough: no list of ballots and no order of votes,   *)
(* checkpoints, releases and second delegations puts protected bytes on    *)
(* the base layer.                                                         *)
THEOREM NothingPrivateLeaves ==
  ASSUME Routes \subseteq {"er"}
  PROVE  Spec => []NothingPrivateOnBase
<1>1. Init => ExitInv
  BY ExitInit
<1>2. TypeOK /\ ExitInv /\ [Next]_vars => ExitInv'
  BY ExitStep
<1>3. ExitInv => NothingPrivateOnBase
  BY DEF ExitInv
<1>4. QED
  BY <1>1, <1>2, <1>3, TypeCorrect, PTL DEF Spec

-----------------------------------------------------------------------------
(* What keeps an incident from hanging: while it collects, it lives in the *)
(* rollup and every ballot can be read there; none is scrubbed before it   *)
(* is settled.                                                             *)
CountableInv ==
  /\ core.status = "Collecting" =>
       coreAt = "er" /\ \A m \in Members : Reads("er", ballotAt[m])
  /\ ~IsTerminal => \A m \in Members : MayBeCounted(ballot[m])

LEMMA CountableInit == Init => CountableInv
BY DEF Init, CountableInv, EmptyBallot, MayBeCounted

LEMMA CountableStep ==
  ASSUME Routes \subseteq {"er"}
  PROVE  TypeOK /\ CountableInv /\ [Next]_vars => CountableInv'
<1> SUFFICES ASSUME TypeOK, CountableInv, [Next]_vars PROVE CountableInv'
  OBVIOUS
<1>1. core'.status = "Collecting" =>
        core.status = "Collecting" \/ \E l \in Routes : OpenIncident(l)
  <2>1. SettleTerminal => core'.status # "Collecting"
    BY DEF SettleTerminal, TerminalStatus, TypeOK, Cores
  <2> QED BY <2>1, CoreSteps DEF CertifyIncident, ExpireIncident
<1>2. core.status = "Collecting" /\ core'.status = "Collecting" =>
        coreAt' = "er" /\ \A m \in Members : Reads("er", ballotAt'[m])
  <2>1. ASSUME core.status = "Collecting"
        PROVE  UNCHANGED coreAt
    BY <2>1, CoreMoves
    DEF CountableInv, InitializeIncident, DelegateIncident, LandCore,
        ReleaseIncident, IsTerminal, Terminal
  <2>2. ASSUME core.status = "Collecting", NEW m \in Members
        PROVE  Reads("er", ballotAt'[m])
    BY <2>2, BallotMoves
    DEF CountableInv, TypeOK, Reads, InitializeAttestation,
        DelegateAttestation, LandAttestation, ReleaseIncident, IsTerminal,
        Terminal
  <2> QED BY <2>1, <2>2 DEF CountableInv
<1>3. ASSUME NEW l \in Routes, OpenIncident(l)
      PROVE  coreAt' = "er" /\ \A m \in Members : Reads("er", ballotAt'[m])
  BY <1>3 DEF OpenIncident, Writes, Reconstructs, places
<1>4. ASSUME ~IsTerminal', NEW m \in Members
      PROVE  MayBeCounted(ballot'[m])
  <2>1. ~IsTerminal
    <3>1. ASSUME NEW l \in Routes, OpenIncident(l) PROVE ~IsTerminal
      BY <3>1 DEF OpenIncident, IsTerminal, Terminal
    <3>2. SettleTerminal => IsTerminal'
      BY DEF SettleTerminal, TerminalStatus, IsTerminal, Terminal, TypeOK,
             Cores
    <3> QED BY <1>4, <3>1, <3>2, CoreSteps
            DEF CertifyIncident, ExpireIncident, IsTerminal
  <2>2. ASSUME NEW l \in Routes, QuarantineMember(l, m)
        PROVE  ballot'[m].state = "Quarantined"
    BY <2>2 DEF QuarantineMember, TypeOK, BallotRecords
  <2> QED BY <2>1, <2>2, WrittenBallot, OneBallotSteps
          DEF CountableInv, MayBeCounted, ScrubAttestation
<1> QED BY <1>1, <1>2, <1>3, <1>4 DEF CountableInv

(* Whoever dislikes the outcome has no veto: after the deadline nothing    *)
(* that opener and members did, or left undone, refuses expire_incident,   *)
(* and a certified core that is home always may have its certificate.      *)
NobodyHoldsAVeto ==
  /\ core.status = "Collecting" /\ IsExpired => ExpiryDue("er")
  /\ core.status = "CertifiedPendingSettlement" => core.approvals > 0

(* The safety half of "every incident that opens is settled", for an       *)
(* incident whose private calls go to the rollup.                          *)
THEOREM SettlingIsNeverBlocked ==
  ASSUME Routes \subseteq {"er"}
  PROVE  Spec => []NobodyHoldsAVeto
<1>1. TypeOK /\ CountableInv /\ OutcomeIsEarned => NobodyHoldsAVeto
  <2> SUFFICES ASSUME TypeOK, CountableInv, OutcomeIsEarned
               PROVE  NobodyHoldsAVeto
    OBVIOUS
  <2>1. core.status = "Collecting" /\ IsExpired => ExpiryDue("er")
    BY DEF CountableInv, ExpiryDue, Reconstructs, Writes, IsTerminal, Terminal
  <2>2. core.status = "CertifiedPendingSettlement" => core.approvals > 0
    BY ConstantTypes DEF OutcomeIsEarned, TypeOK, Cores
  <2> QED BY <2>1, <2>2 DEF NobodyHoldsAVeto
<1>2. Routes \subseteq {"er"}
  OBVIOUS
<1>3. TypeOK /\ CountableInv /\ [Next]_vars => CountableInv'
  BY <1>2, CountableStep
<1> QED BY <1>1, <1>3, CountableInit, TypeCorrect, EarnedOutcome, PTL DEF Spec

-----------------------------------------------------------------------------
(* Where a settled core is when its family is not.                         *)
TogetherInv ==
  /\ CountableInv
  /\ core.status = "Draft" => coreAt # "leaving"
  /\ IsTerminal => coreAt # "absent"
  /\ ReleaseTakesTheFamily
  /\ coreAt = "leaving" => \A m \in Members : ballotAt[m] # "er"

(* The list is all that can go wrong: if every exit names the whole family *)
(* and nothing is delegated a second time, no ballot is left behind.       *)
THEOREM WholeListTakesTheFamily ==
  ASSUME Routes \subseteq {"er"}, ExitFamilies \subseteq {Members}, ~Redelegates
  PROVE  Spec => []ReleaseTakesTheFamily
<1>1. Init => TogetherInv
  BY CountableInit
  DEF Init, TogetherInv, ReleaseTakesTheFamily, IsTerminal, Terminal
<1>2. TypeOK /\ TogetherInv /\ [Next]_vars => TogetherInv'
  <2> SUFFICES ASSUME TypeOK, TogetherInv, [Next]_vars PROVE TogetherInv'
    OBVIOUS
  <2>1. CountableInv'
    BY CountableStep DEF TogetherInv
  <2>2. \/ UNCHANGED core
        \/ core.status = "Draft" /\ core'.status = "Collecting"
        \/ core.status = "Collecting" /\ IsTerminal'
    <3>1. ASSUME NEW l \in Routes, OpenIncident(l)
          PROVE  core.status = "Draft" /\ core'.status = "Collecting"
      BY <3>1 DEF OpenIncident, TypeOK, Cores
    <3>2. SettleTerminal => IsTerminal'
      BY DEF SettleTerminal, TerminalStatus, IsTerminal, Terminal, TypeOK,
             Cores
    <3> QED BY <3>1, <3>2, CoreSteps
            DEF CertifyIncident, ExpireIncident, ExpiryDue
  <2>3. core'.status = "Draft" => coreAt' # "leaving"
    BY <2>2, CoreMoves
    DEF TogetherInv, InitializeIncident, DelegateIncident, LandCore,
        ReleaseIncident, IsTerminal, Terminal
  <2>4. IsTerminal' => coreAt' # "absent"
    BY <2>2, CoreMoves
    DEF TogetherInv, CountableInv, InitializeIncident, DelegateIncident,
        LandCore, ReleaseIncident, IsTerminal, Terminal
  <2>5. ASSUME coreAt' \in {"base", "leaving"}, IsTerminal', NEW m \in Members
        PROVE  ballotAt'[m] # "er"
    <3>1. CASE \E family \in ExitFamilies : ReleaseIncident(family)
      BY <3>1 DEF ReleaseIncident
    <3>2. CASE /\ ~\E family \in ExitFamilies : ReleaseIncident(family)
               /\ IsTerminal
      <4>1. coreAt \in {"base", "leaving"}
        BY <2>4, <2>5, <3>2, CoreMoves
        DEF TogetherInv, InitializeIncident, DelegateIncident, LandCore
      <4>2. ballotAt[m] # "er"
        BY <3>2, <4>1 DEF TogetherInv, ReleaseTakesTheFamily
      <4>3. ~MayDelegate
        BY <3>2, <4>1 DEF MayDelegate
      <4> QED BY <3>2, <4>2, <4>3, BallotMoves
              DEF TypeOK, InitializeAttestation, DelegateAttestation,
                  LandAttestation
    <3>3. CASE ~IsTerminal
      <4>1. core.status = "Collecting" /\ coreAt = "er"
        BY <2>2, <2>5, <3>3
        DEF TogetherInv, CountableInv, IsTerminal, Terminal
      <4> QED BY <2>5, <3>3, <4>1, CoreMoves
              DEF InitializeIncident, DelegateIncident, LandCore,
                  ReleaseIncident
    <3> QED BY <3>1, <3>2, <3>3
  <2>6. coreAt' = "leaving" => IsTerminal'
    <3>1. coreAt' = "leaving" => coreAt = "leaving" \/ IsTerminal
      BY CoreMoves
      DEF InitializeIncident, DelegateIncident, LandCore, ReleaseIncident
    <3>2. coreAt = "leaving" => IsTerminal
      BY DEF TogetherInv, CountableInv, TypeOK, Cores, Statuses, IsTerminal,
             Terminal
    <3> QED BY <2>2, <3>1, <3>2 DEF IsTerminal, Terminal
  <2> QED BY <2>1, <2>3, <2>4, <2>5, <2>6
          DEF TogetherInv, ReleaseTakesTheFamily
<1>3. TogetherInv => ReleaseTakesTheFamily
  BY DEF TogetherInv
<1> QED BY <1>1, <1>2, <1>3, TypeCorrect, PTL DEF Spec

-----------------------------------------------------------------------------
(* To quarantine a member may lose an approval and loses no rejection.     *)
LEMMA QuarantineTally ==
  ASSUME TypeOK, NEW l \in Routes, NEW m \in Members, QuarantineMember(l, m)
  PROVE  ThresholdMet' => ThresholdMet
<1>1. ballot' = [ballot EXCEPT ![m].state = "Quarantined"]
  BY DEF QuarantineMember
<1>2. /\ \A o \in Members : CountsAs(ballot'[o]) = "Approve"
                              => CountsAs(ballot[o]) = "Approve"
      /\ \A o \in Members : CountsAs(ballot'[o]) = "Reject"
                              <=> CountsAs(ballot[o]) = "Reject"
  BY <1>1 DEF TypeOK, BallotRecords, CountsAs
<1>3. DOMAIN ballot = Members /\ DOMAIN ballot' = Members
  BY <1>1 DEF TypeOK
<1>4. /\ Counted(ballot', "Approve") \subseteq Counted(ballot, "Approve")
      /\ Counted(ballot', "Reject") = Counted(ballot, "Reject")
  BY <1>2, <1>3 DEF Counted
<1>5. IsFiniteSet(Counted(ballot, "Approve"))
  BY <1>3, ConstantTypes, FS_Subset DEF Counted
<1>6. /\ Cardinality(Counted(ballot', "Approve"))
           <= Cardinality(Counted(ballot, "Approve"))
      /\ Cardinality(Counted(ballot', "Approve")) \in Nat
      /\ Cardinality(Counted(ballot, "Approve")) \in Nat
  BY <1>4, <1>5, FS_Subset, FS_CardinalityType
<1>7. QED
  BY <1>4, <1>6, ConstantTypes DEF ThresholdMet, Meets, Tally

(* Quarantine is one-sided: it can hold an incident back and never push it *)
(* over its threshold, and an objection stays in the count until its       *)
(* member replaces it or the ballot is scrubbed.                           *)
THEOREM QuarantineIsOneSided == Spec => QuarantineNeverHelps
<1>1. TypeOK /\ [Next]_vars =>
        \A m \in Members :
          /\ ballot'[m].state = "Quarantined" /\ ballot[m].state # "Quarantined"
               => (ThresholdMet' => ThresholdMet)
          /\ ballot[m].has_decision /\ ballot[m].decision = "Reject"
               => \/ CountsAs(ballot'[m]) = "Reject"
                  \/ ballot'[m].submission_nonce > ballot[m].submission_nonce
                  \/ ballot'[m].state = "Scrubbed"
  <2> SUFFICES ASSUME TypeOK, [Next]_vars, NEW m \in Members
               PROVE  /\ /\ ballot'[m].state = "Quarantined"
                         /\ ballot[m].state # "Quarantined"
                         => (ThresholdMet' => ThresholdMet)
                      /\ ballot[m].has_decision /\ ballot[m].decision = "Reject"
                         => \/ CountsAs(ballot'[m]) = "Reject"
                            \/ ballot'[m].submission_nonce
                                 > ballot[m].submission_nonce
                            \/ ballot'[m].state = "Scrubbed"
    OBVIOUS
  <2>1. CASE ballot'[m] = ballot[m]
    BY <2>1 DEF CountsAs
  <2>2. CASE \E l \in Routes, d \in Decisions, n \in 1..MaxNonce :
               SubmitSealedAttestation(l, m, d, n)
    BY <2>2, WrittenBallot
  <2>3. CASE \E l \in Routes : QuarantineMember(l, m)
    <3>1. ThresholdMet' => ThresholdMet
      BY <2>3, QuarantineTally
    <3>2. ballot'[m] = [ballot[m] EXCEPT !.state = "Quarantined"]
      BY <2>3, WrittenBallot
    <3>3. ballot[m] \in BallotRecords(Nat, Nat)
      BY DEF TypeOK
    <3>4. /\ ballot'[m].has_decision = ballot[m].has_decision
          /\ ballot'[m].decision = ballot[m].decision
      BY <3>2, <3>3 DEF BallotRecords
    <3>5. QED
      BY <3>1, <3>4 DEF CountsAs
  <2>4. CASE \E l \in Routes : ScrubAttestation(l, m)
    BY <2>4, WrittenBallot DEF Scrub, EmptyBallot
  <2>5. QED
    BY <2>1, <2>2, <2>3, <2>4, OneBallotSteps
<1>2. QED
  BY <1>1, TypeCorrect, PTL DEF Spec, QuarantineNeverHelps

-----------------------------------------------------------------------------
(* A decision never comes back: whatever is repeated or arrives late, the  *)
(* one a member holds changes only under a higher nonce, or is struck.     *)
THEOREM SupersededStaysSo == Spec => NoResurrection
<1>1. TypeOK /\ [Next]_vars =>
        \A m \in Members :
          ballot'[m].has_decision /\ ballot'[m] # ballot[m] =>
            \/ ballot'[m].submission_nonce > ballot[m].submission_nonce
            \/ ballot'[m].state = "Quarantined"
                 /\ ballot'[m].decision = ballot[m].decision
  <2> SUFFICES ASSUME TypeOK, [Next]_vars, NEW m \in Members,
                      ballot'[m].has_decision, ballot'[m] # ballot[m]
               PROVE  \/ ballot'[m].submission_nonce
                           > ballot[m].submission_nonce
                      \/ ballot'[m].state = "Quarantined"
                           /\ ballot'[m].decision = ballot[m].decision
    OBVIOUS
  <2>1. CASE \E l \in Routes, d \in Decisions, n \in 1..MaxNonce :
               SubmitSealedAttestation(l, m, d, n)
    BY <2>1, WrittenBallot
  <2>2. CASE \E l \in Routes : QuarantineMember(l, m)
    <3>1. ballot'[m] = [ballot[m] EXCEPT !.state = "Quarantined"]
      BY <2>2, WrittenBallot
    <3>2. ballot[m] \in BallotRecords(Nat, Nat)
      BY DEF TypeOK
    <3>3. QED
      BY <3>1, <3>2 DEF BallotRecords
  <2>3. CASE \E l \in Routes : ScrubAttestation(l, m)
    BY <2>3, WrittenBallot DEF Scrub, EmptyBallot
  <2>4. QED
    BY <2>1, <2>2, <2>3, OneBallotSteps
<1>2. QED
  BY <1>1, TypeCorrect, PTL DEF Spec, NoResurrection

-----------------------------------------------------------------------------
(* A ballot that says it was scrubbed is as scrub() leaves it.             *)
ScrubbedInv ==
  \A m \in Members : ballot[m].state = "Scrubbed" =>
                       ballot[m] = Scrub(ballot[m])

(* No handler but the scrub writes that state.                             *)
LEMMA ScrubbedIsClean == Spec => []ScrubbedInv
<1>1. Init => ScrubbedInv
  BY DEF Init, ScrubbedInv, EmptyBallot
<1>2. TypeOK /\ ScrubbedInv /\ [Next]_vars => ScrubbedInv'
  <2> SUFFICES ASSUME TypeOK, ScrubbedInv, [Next]_vars, NEW m \in Members,
                      ballot'[m].state = "Scrubbed"
               PROVE  ballot'[m] = Scrub(ballot'[m])
    BY DEF ScrubbedInv
  <2>1. CASE ballot'[m] = ballot[m]
    BY <2>1 DEF ScrubbedInv
  <2>2. CASE \E l \in Routes, d \in Decisions, n \in 1..MaxNonce :
               SubmitSealedAttestation(l, m, d, n)
    BY <2>2, WrittenBallot
  <2>3. CASE \E l \in Routes : QuarantineMember(l, m)
    <3>1. ballot[m] \in BallotRecords(Nat, Nat)
      BY DEF TypeOK
    <3>2. QED
      BY <2>3, <3>1, WrittenBallot DEF BallotRecords
  <2>4. CASE \E l \in Routes : ScrubAttestation(l, m)
    BY <2>4, WrittenBallot DEF Scrub
  <2>5. QED
    BY <2>1, <2>2, <2>3, <2>4, OneBallotSteps
<1>3. QED
  BY <1>1, <1>2, TypeCorrect, PTL DEF Spec

(* A scrub is final: once the outcome is settled no handler, on any layer  *)
(* and however late, puts bytes back into an account that was cleared.     *)
THEOREM ScrubsAreFinal == Spec => ScrubIsFinal
<1>1. TypeOK /\ ScrubbedInv /\ [Next]_vars =>
        (IsTerminal =>
           /\ ClaimMayLeave => ClaimMayLeave'
           /\ \A m \in Members : ballot[m].state = "Scrubbed" =>
                ballot'[m] = ballot[m])
  <2> SUFFICES ASSUME TypeOK, ScrubbedInv, [Next]_vars, IsTerminal
               PROVE  /\ ClaimMayLeave => ClaimMayLeave'
                      /\ \A m \in Members : ballot[m].state = "Scrubbed" =>
                           ballot'[m] = ballot[m]
    OBVIOUS
  <2>1. core.status # "Collecting"
    BY DEF IsTerminal, Terminal
  <2>2. ClaimMayLeave => ClaimMayLeave'
    <3>1. ASSUME NEW l \in Routes, ScrubClaim(l) PROVE ClaimMayLeave'
      BY <3>1 DEF ScrubClaim, ClaimMayLeave
    <3>2. QED
      BY <2>1, <3>1, ClaimSteps DEF SubmitPrivateClaim, ClaimMayLeave
  <2>3. ASSUME NEW m \in Members, ballot[m].state = "Scrubbed"
        PROVE  ballot'[m] = ballot[m]
    <3>1. ASSUME NEW l \in Routes, ScrubAttestation(l, m)
          PROVE  ballot'[m] = ballot[m]
      BY <2>3, <3>1, WrittenBallot DEF ScrubbedInv
    <3>2. QED
      BY <2>1, <3>1, OneBallotSteps DEF SubmitSealedAttestation, MayAttest,
         QuarantineMember
  <2>4. QED
    BY <2>2, <2>3
<1>2. QED
  BY <1>1, TypeCorrect, ScrubbedIsClean, PTL DEF Spec, ScrubIsFinal

-----------------------------------------------------------------------------
(* A settled core is written by no handler, wherever it lives.             *)
LEMMA SettledIsFrozen ==
  ASSUME [Next]_vars, IsTerminal
  PROVE  UNCHANGED core
<1>1. core.status \notin {"Draft", "Collecting"}
  BY DEF IsTerminal, Terminal
<1>2. QED
  BY <1>1, CoreSteps DEF OpenIncident, CertifyIncident, ExpireIncident,
     ExpiryDue

(* What BaseTellsTheOutcome rests on: a settled copy of the core, landed   *)
(* or on its way, is the core; and a settled core that is not in the       *)
(* rollup has passed the gate there, which the claim cannot undo.          *)
OutcomeShownInv ==
  /\ image.status \in Terminal => image = core
  /\ checkpoint.status \in Terminal => checkpoint = core
  /\ CertificateIsBacked
  /\ IsTerminal /\ coreAt # "er" => ~claim.evidence

(* If the private-runtime handlers are sent to the rollup only, whoever    *)
(* reads the base layer alone is told the outcome: no checkpoint that      *)
(* lands late shows another one, and a certificate always has a certified  *)
(* core with its numbers behind it and no evidence left.                   *)
THEOREM BaseLayerTells ==
  ASSUME Routes \subseteq {"er"}
  PROVE  Spec => []BaseTellsTheOutcome
<1>1. Init => OutcomeShownInv
  BY DEF Init, OutcomeShownInv, CertificateIsBacked, NoCertificate,
     NoCheckpoint, IsTerminal, Terminal
<1>2. TypeOK /\ OutcomeIsEarned /\ OutcomeShownInv /\ [Next]_vars
        => OutcomeShownInv'
  <2> SUFFICES ASSUME TypeOK, OutcomeIsEarned, OutcomeShownInv, [Next]_vars
               PROVE  OutcomeShownInv'
    OBVIOUS
  <2>1. /\ image'.status \in Terminal => image' = core'
        /\ checkpoint'.status \in Terminal => checkpoint' = core'
    <3>1. IsTerminal => UNCHANGED core
      BY SettledIsFrozen
    <3>2. CASE UNCHANGED <<image, checkpoint>>
      BY <3>1, <3>2 DEF OutcomeShownInv, IsTerminal
    <3>3. CASE \/ DelegateIncident \/ LandCore
               \/ \E family \in ExitFamilies : CommitIncident(family)
      <4>1. /\ UNCHANGED core
            /\ image' \in {image, core}
            /\ checkpoint' \in {checkpoint, core, NoCheckpoint}
        BY <3>3 DEF DelegateIncident, LandCore, CommitIncident
      <4>2. QED
        BY <4>1 DEF OutcomeShownInv, NoCheckpoint, Terminal
    <3>4. CASE LandCheckpoint
      BY <3>4 DEF LandCheckpoint, OutcomeShownInv, NoCheckpoint, Terminal
    <3>5. QED
      BY <3>2, <3>3, <3>4, ImageSteps
  <2>2. CertificateIsBacked'
    <3>1. ASSUME PublishCertificate PROVE CertificateIsBacked'
      <4>1. /\ core \in Cores /\ UNCHANGED <<core, claim>>
            /\ core.status = "CertifiedPendingSettlement"
            /\ ~claim.evidence
            /\ core.approvals >= RequiredApprovals
            /\ core.rejections <= MaximumRejections
        BY <3>1 DEF PublishCertificate, TypeOK, OutcomeIsEarned,
           OutcomeShownInv, IsTerminal, Terminal
      <4>2. core.certified_at_slot + CertificateLifetime
              > core.certified_at_slot
        BY <4>1, ConstantTypes DEF Cores
      <4>3. QED
        BY <3>1, <4>1, <4>2 DEF PublishCertificate, CertificateIsBacked
    <3>2. ASSUME UNCHANGED certificate, certificate.issued
          PROVE  CertificateIsBacked'
      <4>1. core.status = "CertifiedPendingSettlement" /\ ~claim.evidence
        BY <3>2 DEF OutcomeShownInv, CertificateIsBacked
      <4>2. UNCHANGED core
        BY <4>1, SettledIsFrozen DEF IsTerminal, Terminal
      <4>3. ~claim'.evidence
        BY <4>1, ClaimSteps DEF SubmitPrivateClaim, ScrubClaim
      <4>4. QED
        BY <3>2, <4>2, <4>3 DEF OutcomeShownInv, CertificateIsBacked
    <3>3. QED
      BY <3>1, <3>2, CertificateSteps DEF CertificateIsBacked
  <2>3. ASSUME IsTerminal', coreAt' # "er" PROVE ~claim'.evidence
    <3>1. CASE IsTerminal
      <4>1. coreAt # "er" \/ ClaimMayLeave
        BY <2>3, CoreMoves DEF InitializeIncident, DelegateIncident,
           LandCore, ReleaseIncident, GatedExit
      <4>2. ~claim.evidence
        BY <3>1, <4>1 DEF OutcomeShownInv, ClaimMayLeave
      <4>3. QED
        BY <3>1, <4>2, ClaimSteps DEF SubmitPrivateClaim, ScrubClaim,
           IsTerminal, Terminal
    <3>2. ASSUME NEW l \in Routes,
                 OpenIncident(l) \/ CertifyIncident(l) \/ ExpireIncident(l)
          PROVE  coreAt' = "er"
      BY <3>2 DEF OpenIncident, CertifyIncident, ExpireIncident, ExpiryDue,
         Writes, places
    <3>3. QED
      BY <2>3, <3>1, <3>2, CoreSteps DEF IsTerminal
  <2>4. QED
    BY <2>1, <2>2, <2>3 DEF OutcomeShownInv
<1>3. OutcomeShownInv => BaseTellsTheOutcome
  BY DEF OutcomeShownInv, BaseTellsTheOutcome, BaseImageTellsTheOutcome,
     BaseImage
<1>4. QED
  BY <1>1, <1>2, <1>3, TypeCorrect, EarnedOutcome, PTL DEF Spec

-----------------------------------------------------------------------------
(* What the mapping to the sealed quorum rests on: no count is recorded    *)
(* before the outcome is, a ballot that holds no decision says so in both  *)
(* of its fields, and an empty one holds none.                             *)
MappingInv ==
  /\ core.status \in {"Draft", "Collecting"} =>
       core.approvals = 0 /\ core.rejections = 0
  /\ \A m \in Members :
       /\ ballot[m].has_decision <=> ballot[m].decision # "None"
       /\ ballot[m].state = "Empty" => ballot[m].decision = "None"

(* The incident keeps it.                                                  *)
LEMMA MappingHolds == Spec => []MappingInv
<1>1. Init => MappingInv
  BY DEF Init, MappingInv, EmptyBallot
<1>2. TypeOK /\ MappingInv /\ [Next]_vars => MappingInv'
  <2> SUFFICES ASSUME TypeOK, MappingInv, [Next]_vars PROVE MappingInv'
    OBVIOUS
  <2>1. core'.status \in {"Draft", "Collecting"} =>
          core'.approvals = 0 /\ core'.rejections = 0
    <3>1. core \in Cores
      BY DEF TypeOK
    <3>2. ASSUME NEW l \in Routes, OpenIncident(l)
          PROVE  core'.approvals = 0 /\ core'.rejections = 0
      BY <3>1, <3>2 DEF OpenIncident, Cores, MappingInv
    <3>3. ASSUME SettleTerminal
          PROVE  core'.status \notin {"Draft", "Collecting"}
      BY <3>1, <3>3 DEF SettleTerminal, Cores, TerminalStatus
    <3>4. QED
      BY <3>2, <3>3, CoreSteps DEF MappingInv, CertifyIncident,
         ExpireIncident
  <2>2. ASSUME NEW m \in Members
        PROVE  /\ ballot'[m].has_decision <=> ballot'[m].decision # "None"
               /\ ballot'[m].state = "Empty" => ballot'[m].decision = "None"
    <3>1. ballot[m] \in BallotRecords(Nat, Nat)
      BY DEF TypeOK
    <3>2. ASSUME NEW l \in Routes, NEW d \in Decisions,
                 NEW n \in 1..MaxNonce, SubmitSealedAttestation(l, m, d, n)
          PROVE  /\ ballot'[m].has_decision = TRUE /\ ballot'[m].decision = d
                 /\ d # "None" /\ ballot'[m].state = "Submitted"
      BY <3>2 DEF SubmitSealedAttestation, MayAttest, TypeOK
    <3>3. ASSUME NEW l \in Routes, QuarantineMember(l, m)
          PROVE  /\ ballot'[m].has_decision = ballot[m].has_decision
                 /\ ballot'[m].decision = ballot[m].decision
                 /\ ballot'[m].state = "Quarantined"
      BY <3>1, <3>3, WrittenBallot DEF BallotRecords
    <3>4. ASSUME NEW l \in Routes, ScrubAttestation(l, m)
          PROVE  /\ ballot'[m].has_decision = FALSE
                 /\ ballot'[m].decision = "None"
      BY <3>4, WrittenBallot DEF Scrub, EmptyBallot
    <3>5. QED
      BY <3>2, <3>3, <3>4, OneBallotSteps DEF MappingInv
  <2>3. QED
    BY <2>1, <2>2 DEF MappingInv
<1>3. QED
  BY <1>1, <1>2, TypeCorrect, PTL DEF Spec

-----------------------------------------------------------------------------
(* The phase of each status.                                               *)
LEMMA PhaseOfStatus ==
  ASSUME TypeOK
  PROVE  /\ core.status = "Draft" => Phase = "unopened"
         /\ core.status = "Collecting" => Phase = "open"
         /\ IsTerminal => Phase = "decided"
BY DEF Phase, Collecting, IsTerminal, Terminal

(* The two modules mean one cardinality.                                   *)
LEMMA OneCardinality == \A S : Quorum!Cardinality(S) = Cardinality(S)
BY DEF Quorum!Cardinality, Cardinality

(* While an incident collects, the program and the sealed quorum count the *)
(* same ballots: an approval that is not struck, and every rejection.      *)
LEMMA SameCount ==
  ASSUME TypeOK, MappingInv, Collecting
  PROVE  /\ Tally(ballot).approvals = Quorum!Approvals
         /\ Tally(ballot).rejections = Quorum!Rejections
         /\ ThresholdMet <=> Quorum!Quorum
         /\ TerminalStatus(Tally(ballot), RequiredApprovals,
                           MaximumRejections) = Quorum!Verdict
<1>1. DOMAIN ballot = Members
  BY DEF TypeOK
<1>2. \A m \in Members : Votes[m] = ballot[m].decision
  BY DEF Votes
<1>3. Counted(ballot, "Approve") = {m \in Members \ Struck : Votes[m] = "Approve"}
  BY <1>1, <1>2 DEF Counted, CountsAs, MappingInv, Struck
<1>4. Counted(ballot, "Reject") = {m \in Members : Votes[m] = "Reject"}
  BY <1>1, <1>2 DEF Counted, CountsAs, MappingInv
<1>5. /\ Tally(ballot).approvals = Quorum!Approvals
      /\ Tally(ballot).rejections = Quorum!Rejections
  BY <1>3, <1>4, OneCardinality DEF Tally, Quorum!Approvals, Quorum!Rejections
<1>6. QED
  BY <1>5 DEF ThresholdMet, Meets, Quorum!Quorum, TerminalStatus,
     Quorum!Verdict

(* Opening starts the vote: nothing is held, struck or counted yet.        *)
LEMMA OpeningIsOpen ==
  ASSUME TypeOK, MappingInv, TypeOK', NEW l \in Routes, OpenIncident(l)
  PROVE  Quorum!Open
<1>1. /\ core.status = "Draft" /\ core'.status = "Collecting"
      /\ core'.expires_at_slot = slot + ResponseWindow
      /\ core'.approvals = core.approvals
      /\ core'.rejections = core.rejections
      /\ UNCHANGED <<slot, ballot>>
      /\ \A m \in Members : ballot[m].state = "Empty"
  BY DEF OpenIncident, TypeOK, Cores
<1>2. ~Collecting /\ Collecting' /\ ~IsTerminal /\ ~IsTerminal'
  BY <1>1 DEF Collecting, IsTerminal, Terminal
<1>3. Phase = "unopened" /\ Phase' = "open"
  BY <1>1, <1>2 DEF Phase
<1>4. UNCHANGED Votes
  BY <1>1, <1>2 DEF Votes, MappingInv
<1>5. UNCHANGED Struck
  BY <1>1, <1>2 DEF Struck
<1>6. ~IsExpired'
  BY <1>1, ConstantTypes DEF IsExpired, TypeOK
<1>7. UNCHANGED Outcome
  BY <1>1, <1>2 DEF Outcome
<1>8. QED
  BY <1>2, <1>3, <1>4, <1>5, <1>6, <1>7 DEF Quorum!Open

(* Settling, by a caller or by the scheduler, is the one decision.         *)
LEMMA SettlingDecides ==
  ASSUME TypeOK, MappingInv, TypeOK', Collecting, SettleTerminal,
         ThresholdMet \/ IsExpired, UNCHANGED <<slot, ballot>>
  PROVE  Quorum!Decide
<1>1. /\ core'.status = Quorum!Verdict
      /\ core'.approvals = Quorum!Approvals
      /\ core'.rejections = Quorum!Rejections
  BY SameCount DEF SettleTerminal, TypeOK, Cores
<1>2. IsTerminal' /\ ~Collecting'
  BY <1>1 DEF Quorum!Verdict, IsTerminal, Terminal, Collecting
<1>3. Phase = "open" /\ Phase' = "decided"
  BY <1>2 DEF Phase, Collecting, IsTerminal, Terminal
<1>4. Outcome' = [verdict |-> Quorum!Verdict,
                  approvals |-> Quorum!Approvals,
                  rejections |-> Quorum!Rejections]
  BY <1>1, <1>2 DEF Outcome
<1>5. Votes' = Quorum!NoVotes /\ Struck' = {}
  BY <1>2 DEF Votes, Quorum!NoVotes, Struck
<1>6. (Collecting /\ IsExpired) \/ Quorum!Quorum
  BY SameCount
<1>7. QED
  BY <1>2, <1>3, <1>4, <1>5, <1>6 DEF Quorum!Decide

(* A step that leaves the core and the clock alone leaves the phase, the   *)
(* window and the outcome alone.                                           *)
LEMMA BallotStepsKeepTheRest ==
  ASSUME UNCHANGED <<slot, core>>
  PROVE  /\ UNCHANGED <<Phase, Outcome, Collecting /\ IsExpired>>
         /\ UNCHANGED Collecting
BY DEF Phase, Outcome, Collecting, IsExpired, IsTerminal

(* A submission that the program accepts is a vote inside the window, by a *)
(* member who was not struck.                                              *)
LEMMA SubmissionVotes ==
  ASSUME TypeOK, NEW l \in Routes, NEW m \in Members, NEW d \in Decisions,
         NEW n \in 1..MaxNonce, SubmitSealedAttestation(l, m, d, n)
  PROVE  d \in {"Approve", "Reject", "Abstain"} /\ Quorum!Vote(m, d)
<1>1. /\ Collecting /\ ~IsExpired /\ UNCHANGED <<slot, core>>
      /\ ballot[m].state # "Quarantined" /\ d # "None"
  BY DEF SubmitSealedAttestation, MayAttest, Collecting
<1>2. /\ ballot'[m].decision = d /\ ballot'[m].state = "Submitted"
      /\ \A o \in Members : o # m => ballot'[o] = ballot[o]
  BY DEF SubmitSealedAttestation, MayAttest, TypeOK
<1>3. /\ UNCHANGED <<Phase, Outcome, Collecting /\ IsExpired>>
      /\ UNCHANGED Collecting
  BY <1>1, BallotStepsKeepTheRest
<1>4. Votes' = [Votes EXCEPT ![m] = d]
  BY <1>1, <1>2, <1>3 DEF Votes
<1>5. UNCHANGED Struck /\ m \notin Struck
  BY <1>1, <1>2, <1>3 DEF Struck
<1>6. Phase = "open"
  BY <1>1 DEF Phase, Collecting
<1>7. QED
  BY <1>1, <1>3, <1>4, <1>5, <1>6 DEF Quorum!Vote, Decisions

(* A quarantine strikes the member and changes no vote.                    *)
LEMMA QuarantineStrikes ==
  ASSUME TypeOK, NEW l \in Routes, NEW m \in Members, QuarantineMember(l, m)
  PROVE  Quorum!Strike(m)
<1>1. Collecting /\ UNCHANGED <<slot, core>>
  BY DEF QuarantineMember, Collecting
<1>2. ballot[m] \in BallotRecords(Nat, Nat)
  BY DEF TypeOK
<1>3. /\ ballot'[m].decision = ballot[m].decision
      /\ ballot'[m].state = "Quarantined"
      /\ \A o \in Members : o # m => ballot'[o] = ballot[o]
  BY <1>2 DEF QuarantineMember, TypeOK, BallotRecords
<1>4. /\ UNCHANGED <<Phase, Outcome, Collecting /\ IsExpired>>
      /\ UNCHANGED Collecting
  BY <1>1, BallotStepsKeepTheRest
<1>5. UNCHANGED Votes
  BY <1>3, <1>4 DEF Votes
<1>6. Struck' = Struck \cup {m}
  BY <1>1, <1>3, <1>4 DEF Struck
<1>7. Phase = "open"
  BY <1>1 DEF Phase, Collecting
<1>8. QED
  BY <1>4, <1>5, <1>6, <1>7 DEF Quorum!Strike

(* The clock can only close the window.                                    *)
LEMMA TickMayClose ==
  ASSUME TypeOK, Tick
  PROVE  Quorum!CloseWindow \/ UNCHANGED Quorum!qvars
<1>1. UNCHANGED <<core, ballot>> /\ slot \in Nat /\ slot' = slot + 1
  BY DEF Tick, TypeOK
<1>2. core.expires_at_slot \in Nat
  BY DEF TypeOK, Cores
<1>3. /\ UNCHANGED <<Phase, Votes, Struck, Outcome>>
      /\ UNCHANGED Collecting
  BY <1>1 DEF Phase, Votes, Struck, Outcome, Collecting, IsTerminal
<1>4. IsExpired => IsExpired'
  BY <1>1, <1>2 DEF IsExpired
<1>5. Collecting => Phase = "open"
  BY DEF Phase, Collecting
<1>6. QED
  BY <1>3, <1>4, <1>5 DEF Quorum!CloseWindow, Quorum!qvars

(* Every step of an incident is a step of the sealed quorum or a stutter.  *)
LEMMA StepsRefine ==
  ASSUME TypeOK, MappingInv, TypeOK', [Next]_vars
  PROVE  [Quorum!QNext]_(Quorum!qvars)
<1>1. ASSUME NEW l \in Routes, OpenIncident(l) PROVE Quorum!QNext
  BY <1>1, OpeningIsOpen DEF Quorum!QNext
<1>2. ASSUME NEW l \in Routes, CertifyIncident(l) \/ ExpireIncident(l)
      PROVE  Quorum!QNext
  <2>1. /\ Collecting /\ SettleTerminal
        /\ ThresholdMet \/ IsExpired
        /\ UNCHANGED <<slot, ballot>>
    BY <1>2 DEF CertifyIncident, ExpireIncident, ExpiryDue, Collecting
  <2>2. QED
    BY <2>1, SettlingDecides DEF Quorum!QNext
<1>3. ASSUME UNCHANGED core, ~UNCHANGED ballot
      PROVE  [Quorum!QNext]_(Quorum!qvars)
  <2>1. ASSUME NEW l \in Routes, NEW m \in Members, ScrubAttestation(l, m)
        PROVE  UNCHANGED Quorum!qvars
    <3>1. ~Collecting /\ UNCHANGED <<slot, core>>
      BY <2>1 DEF ScrubAttestation, IsTerminal, Terminal, Collecting
    <3>2. QED
      BY <3>1, BallotStepsKeepTheRest DEF Quorum!qvars, Votes, Struck
  <2>2. ASSUME NEW l \in Routes, NEW m \in Members, NEW d \in Decisions,
               NEW n \in 1..MaxNonce, SubmitSealedAttestation(l, m, d, n)
        PROVE  Quorum!QNext
    BY <2>2, SubmissionVotes DEF Quorum!QNext
  <2>3. ASSUME NEW l \in Routes, NEW m \in Members, QuarantineMember(l, m)
        PROVE  Quorum!QNext
    BY <2>3, QuarantineStrikes DEF Quorum!QNext
  <2>4. QED
    BY <1>3, <2>1, <2>2, <2>3, BallotSteps
<1>4. CASE Tick
  BY <1>4, TickMayClose DEF Quorum!QNext
<1>5. CASE UNCHANGED <<slot, core, ballot>>
  BY <1>5, BallotStepsKeepTheRest DEF Quorum!qvars, Votes, Struck
<1>6. QED
  BY <1>1, <1>2, <1>3, <1>4, <1>5, CoreSteps, ClockSteps

(* An incident implements the sealed quorum: one decision, taken once,     *)
(* early only on a quorum, from votes cast inside the window by members    *)
(* who were not struck, objections surviving a quarantine.                 *)
THEOREM IncidentIsASealedQuorum == Spec => ImplementsSealedQuorum
<1>1. Init => Quorum!QInit
  <2> SUFFICES ASSUME Init PROVE Quorum!QInit
    OBVIOUS
  <2>1. core.status = "Draft" /\ core.approvals = 0 /\ core.rejections = 0
    BY DEF Init
  <2>2. ~Collecting /\ ~IsTerminal
    BY <2>1 DEF Collecting, IsTerminal, Terminal
  <2>3. QED
    BY <2>1, <2>2 DEF Quorum!QInit, Quorum!NoVotes, Quorum!Undecided, Phase,
       Votes, Struck, Outcome
<1>2. TypeOK /\ MappingInv /\ TypeOK' /\ [Next]_vars
        => [Quorum!QNext]_(Quorum!qvars)
  BY StepsRefine
<1>3. QED
  BY <1>1, <1>2, TypeCorrect, MappingHolds, PTL
  DEF Spec, ImplementsSealedQuorum, Quorum!QSpec

-----------------------------------------------------------------------------
(* The scheduler adds no step to an incident: what it runs is what a       *)
(* caller could, so every theorem of an incident holds beside its task.    *)
THEOREM CrankedIsAnIncident ==
  ASSUME "er" \in Routes
  PROVE  CrankSpec => Spec
<1>1. CrankInit => Init
  BY DEF CrankInit
<1>2. [CrankNext]_cvars => [Next]_vars
  <2> SUFFICES ASSUME [CrankNext]_cvars PROVE [Next]_vars
    OBVIOUS
  <2>1. ExpireIncident("er") => Next
    BY DEF Next, Runtime
  <2>2. QED
    BY <2>1 DEF CrankNext, cvars, RequestExpiryCrank, CancelExpiryCrank,
       RemoveTask, Fire
<1>3. QED
  BY <1>1, <1>2, PTL DEF CrankSpec, Spec

(* A firing of the task settles an incident that is open past its          *)
(* deadline; early, repeated, after somebody settled it, or after the      *)
(* family left the rollup, it changes no account.                          *)
THEOREM FiringsSettleOrSkip ==
  ASSUME "er" \in Routes
  PROVE  CrankSpec => FiringSettlesOrSkips
<1>1. TypeOK /\ [CrankNext]_cvars =>
        (task' # task /\ ~UNCHANGED vars =>
           /\ core.status = "Collecting" /\ core' # core /\ IsTerminal'
           /\ core'.certified_at_slot >= core.expires_at_slot
           /\ UNCHANGED <<claim, ballot, places>>)
  <2> SUFFICES ASSUME TypeOK, [CrankNext]_cvars, task' # task,
                      ~UNCHANGED vars
               PROVE  /\ core.status = "Collecting" /\ core' # core
                      /\ IsTerminal'
                      /\ core'.certified_at_slot >= core.expires_at_slot
                      /\ UNCHANGED <<claim, ballot, places>>
    OBVIOUS
  <2>1. ExpireIncident("er")
    BY DEF CrankNext, cvars, crank, RequestExpiryCrank, CancelExpiryCrank,
       RemoveTask, Fire
  <2>2. /\ core.status = "Collecting" /\ slot >= core.expires_at_slot
        /\ SettleTerminal /\ UNCHANGED <<claim, ballot, places>>
    BY <2>1 DEF ExpireIncident, ExpiryDue, IsExpired
  <2>3. core'.certified_at_slot = slot /\ core'.status \in Terminal
    BY <2>2 DEF SettleTerminal, TypeOK, Cores, TerminalStatus, Terminal
  <2>4. QED
    BY <2>2, <2>3 DEF IsTerminal, Terminal
<1>2. QED
  BY <1>1, CrankedIsAnIncident, TypeCorrect, PTL
  DEF CrankSpec, FiringSettlesOrSkips

-----------------------------------------------------------------------------
(* Nor do permissions: whoever creates, updates or closes them, the        *)
(* accounts they seal go through the steps of an incident.                 *)
THEOREM SealedIsAnIncident == SealSpec => Spec
<1>1. SealInit => Init
  BY DEF SealInit
<1>2. [SealNext]_svars => [Next]_vars
  BY DEF SealNext, svars, CreateClaimPermission, UpdateClaimPermission,
     CloseClaimPermission, CreateAttestationPermission,
     CloseAttestationPermission
<1>3. QED
  BY <1>1, <1>2, PTL DEF SealSpec, Spec

(* The seals keep their types.                                             *)
LEMMA SealsTyped == SealSpec => []SealTypeOK
<1>1. SealInit => SealTypeOK
  BY DEF SealInit, SealTypeOK
<1>2. SealTypeOK /\ [SealNext]_svars => SealTypeOK'
  BY DEF SealTypeOK, SealNext, svars, seals, CreateClaimPermission,
     UpdateClaimPermission, CloseClaimPermission,
     CreateAttestationPermission, CloseAttestationPermission
<1>3. QED
  BY <1>1, <1>2, PTL DEF SealSpec

(* No permission is closed over a secret: in whatever order votes,         *)
(* settlement, scrubs and closings come, a sealed ballot that holds a      *)
(* decision stays sealed until its bytes are gone, and so does a sealed    *)
(* claim unless its opener republishes it.                                 *)
THEOREM SealsOutliveSecrets == SealSpec => SealOutlivesSecret
<1>1. SealTypeOK /\ [SealNext]_svars =>
        /\ \A m \in Members :
             Secret(m) /\ ballotSeal[m] = "private" =>
               ballotSeal'[m] = "private" \/ ~Secret(m)'
        /\ claim.evidence /\ claimSeal # "none" =>
             claimSeal' # "none" \/ ~claim'.evidence
  <2> SUFFICES ASSUME SealTypeOK, [SealNext]_svars
               PROVE  /\ \A m \in Members :
                           Secret(m) /\ ballotSeal[m] = "private" =>
                             ballotSeal'[m] = "private"
                      /\ claim.evidence /\ claimSeal # "none" =>
                           claimSeal' # "none"
    OBVIOUS
  <2>1. CASE UNCHANGED seals
    BY <2>1 DEF seals
  <2>2. CASE \/ CreateClaimPermission \/ CloseClaimPermission
             \/ \E isPrivate \in BOOLEAN : UpdateClaimPermission(isPrivate)
    BY <2>2 DEF CreateClaimPermission, CloseClaimPermission,
       UpdateClaimPermission, ClaimMayLeave
  <2>3. ASSUME NEW m \in Members,
               CreateAttestationPermission(m) \/ CloseAttestationPermission(m)
        PROVE  /\ UNCHANGED claimSeal
               /\ \A o \in Members :
                    Secret(o) /\ ballotSeal[o] = "private" =>
                      ballotSeal'[o] = "private"
    BY <2>3 DEF CreateAttestationPermission, CloseAttestationPermission,
       SealTypeOK, Secret, MayLeave
  <2>4. QED
    BY <2>1, <2>2, <2>3 DEF SealNext, svars
<1>2. QED
  BY <1>1, SealsTyped, PTL DEF SealSpec, SealOutlivesSecret
=============================================================================
