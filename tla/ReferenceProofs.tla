--------------------------- MODULE ReferenceProofs ---------------------------
(***************************************************************************)
(* The reference model and the program count alike, for every member set,  *)
(* threshold, window and nonce, and for every order of submissions,        *)
(* replacements and quarantines.                                           *)
(***************************************************************************)
EXTENDS Reference, FiniteSetTheorems, TLAPS

LEMMA ConstantFacts ==
  /\ IsFiniteSet(Voters) /\ Window \in Nat /\ EpochEnds \in Nat /\ EpochStarts \in 0..1
  /\ LastNonce \in Nat
BY ReferenceAssumption DEF ReferenceAssumption

(* The instance's Cardinality is the one the library's theorems are about. *)
LEMMA SameCardinality == \A S : Program!Cardinality(S) = Cardinality(S)
BY DEF Program!Cardinality, Cardinality

-----------------------------------------------------------------------------
(* What the calls do to the reference's history.                           *)

LEMMA MarkedAre ==
  ASSUME NEW m \in Voters, NEW s,
         NEW x \in MarkEffective(m, s)
  PROVE  \/ x \in attestations /\ ~(x.member = m /\ x.state = "Submitted")
         \/ \E a \in attestations : /\ a.member = m /\ a.state = "Submitted"
                                    /\ x = [a EXCEPT !.state = s]
BY DEF MarkEffective, IsEffective

LEMMA OthersStay ==
  ASSUME NEW m \in Voters, NEW s, NEW x \in attestations,
         ~(x.member = m /\ x.state = "Submitted")
  PROVE  x \in MarkEffective(m, s)
BY DEF MarkEffective, IsEffective

LEMMA MarkedTypes ==
  ASSUME attestations \subseteq Attestations, NEW m \in Voters,
         NEW s \in {"Superseded", "InvalidatedByQuarantine"}
  PROVE  MarkEffective(m, s) \subseteq Attestations
BY DEF MarkEffective, Attestations, IsEffective

(* A record with a new state is the record in everything else.             *)
LEMMA MarkFields ==
  ASSUME NEW a \in Attestations, NEW s
  PROVE  LET x == [a EXCEPT !.state = s] IN
         /\ x.state = s /\ x.member = a.member /\ x.decision = a.decision
         /\ x.submission_nonce = a.submission_nonce
BY DEF Attestations

-----------------------------------------------------------------------------
(* Types.                                                                  *)

LEMMA ReferenceTypeInit == ReferenceInit => ReferenceTypeOK
<1> SUFFICES ASSUME ReferenceInit PROVE ReferenceTypeOK
  OBVIOUS
<1>1. core \in Program!Cores
  BY ConstantFacts DEF ReferenceInit, Program!Cores, Program!Statuses
<1>2. Program!EmptyBallot \in Program!BallotRecords(Nat, Nat)
  BY DEF Program!BallotRecords, Program!EmptyBallot, Program!BallotStates,
         Program!Decisions
<1>3. now \in Nat \ {0}
  BY DEF ReferenceInit
<1> QED BY <1>1, <1>2, <1>3 DEF ReferenceInit, ReferenceTypeOK

LEMMA SettledTypes ==
  ASSUME ReferenceTypeOK, Program!SettleTerminal
  PROVE  core' \in Program!Cores /\ core'.expires_at_slot = core.expires_at_slot
<1>1. \A d : Cardinality(Program!Counted(ballot, d)) \in Nat
  <2> TAKE d
  <2>1. Program!Counted(ballot, d) \subseteq Voters
    BY DEF Program!Counted, ReferenceTypeOK
  <2> QED BY <2>1, ConstantFacts, FS_Subset, FS_CardinalityType
<1>2. Program!TerminalStatus(Program!Tally(ballot), Approvals, Objections)
        \in Program!Statuses
  BY DEF Program!TerminalStatus, Program!Statuses
<1>3. /\ Program!Tally(ballot).approvals \in Nat
      /\ Program!Tally(ballot).rejections \in Nat
  BY <1>1, SameCardinality DEF Program!Tally
<1>4. Program!Statuses # {} /\ now \in Nat /\ core \in Program!Cores
  BY DEF Program!Statuses, ReferenceTypeOK
<1> QED BY <1>2, <1>3, <1>4 DEF Program!SettleTerminal, Program!Cores

LEMMA ReferenceTypeStep ==
  ReferenceTypeOK /\ [ReferenceNext]_referenceVars => ReferenceTypeOK'
<1> SUFFICES ASSUME ReferenceTypeOK, [ReferenceNext]_referenceVars
             PROVE  ReferenceTypeOK'
  OBVIOUS
<1>1. ASSUME ReferenceNext PROVE calledOff' \in BOOLEAN
  BY <1>1 DEF ReferenceNext, ReferenceTypeOK
<1>2. ASSUME NEW m \in Voters, NEW d \in Decisions, NEW n \in 0..LastNonce,
             Submit(m, d, n), ReferenceNext
      PROVE  ReferenceTypeOK'
  <2>1. attestations' \subseteq Attestations
    <3>1. NewAttestation(m, d, n) \in Attestations
      BY ConstantFacts DEF NewAttestation, Attestations
    <3> QED BY <1>2, <3>1, MarkedTypes
            DEF Submit, SubmitAttestation, ReferenceTypeOK
  <2>2. ballot' \in [Voters -> Program!BallotRecords(Nat, Nat)]
    BY <1>2, ConstantFacts
    DEF Submit, Program!SubmitSealedAttestation, Program!MayAttest,
        ReferenceTypeOK, Decisions,
        Program!BallotRecords, Program!BallotStates, Program!Decisions
  <2>3. UNCHANGED <<now, core, quarantined>>
    BY <1>2 DEF Submit, SubmitAttestation, Program!SubmitSealedAttestation,
                Program!MayAttest
  <2> QED BY <1>1, <1>2, <2>1, <2>2, <2>3 DEF ReferenceTypeOK
<1>3. ASSUME NEW m \in Voters, Quarantine(m), ReferenceNext
      PROVE  ReferenceTypeOK'
  <2>1. attestations' \subseteq Attestations /\ quarantined' \subseteq Voters
    BY <1>3, MarkedTypes DEF Quarantine, QuarantineMember, ReferenceTypeOK
  <2>2. ballot' \in [Voters -> Program!BallotRecords(Nat, Nat)]
    BY <1>3 DEF Quarantine, Program!QuarantineMember, ReferenceTypeOK,
                Program!BallotRecords, Program!BallotStates
  <2>3. UNCHANGED <<now, core>>
    BY <1>3 DEF Quarantine, Program!QuarantineMember
  <2> QED BY <1>1, <1>3, <2>1, <2>2, <2>3 DEF ReferenceTypeOK
<1>4. ASSUME Count, ReferenceNext PROVE ReferenceTypeOK'
  BY <1>1, <1>4, SettledTypes
  DEF Count, Program!CertifyIncident, Program!ExpireIncident, ReferenceTypeOK
<1>5. ASSUME Tick, ReferenceNext PROVE ReferenceTypeOK'
  BY <1>1, <1>5 DEF Tick, Program!Tick, ReferenceTypeOK
<1>6. CASE UNCHANGED referenceVars
  BY <1>6 DEF referenceVars, ReferenceTypeOK
<1> QED BY <1>2, <1>3, <1>4, <1>5, <1>6 DEF ReferenceNext

(* Neither side ever leaves its types.                                     *)
THEOREM ReferenceTypeCorrect == ReferenceSpec => []ReferenceTypeOK
BY ReferenceTypeInit, ReferenceTypeStep, PTL DEF ReferenceSpec

-----------------------------------------------------------------------------
(* One attestation of a member carries weight.  What makes this inductive: *)
(* only a quarantined member's attestation is ever invalidated, and a      *)
(* quarantined member has nothing left in force to supersede.              *)
Carries(a) == a.state \in {"Submitted", "InvalidatedByQuarantine"}

OneCarries ==
  \A a, b \in attestations :
    a.member = b.member /\ Carries(a) /\ Carries(b) => a = b

StatesFollow ==
  \A a \in attestations :
    /\ a.state = "Submitted" => a.member \notin quarantined
    /\ a.state = "InvalidatedByQuarantine" => a.member \in quarantined

HistoryInv == ReferenceTypeOK /\ OneCarries /\ StatesFollow

LEMMA HistoryInit == ReferenceInit => HistoryInv
BY ReferenceTypeInit DEF ReferenceInit, HistoryInv, OneCarries, StatesFollow

LEMMA CountKeeps ==
  ASSUME Count
  PROVE  UNCHANGED <<now, ballot, attestations, quarantined>>
BY DEF Count, Program!CertifyIncident, Program!ExpireIncident

LEMMA TickKeeps ==
  ASSUME Tick
  PROVE  UNCHANGED <<core, ballot, attestations, quarantined>>
BY DEF Tick, Program!Tick

(* A submission the reference takes: the member's earlier ones carry       *)
(* nothing any more.                                                       *)
LEMMA SubmittedHistory ==
  ASSUME HistoryInv, NEW m \in Voters, NEW d \in Decisions,
         NEW n \in 0..LastNonce, SubmitAttestation(m, d, n)
  PROVE  (OneCarries /\ StatesFollow)'
<1>1. CASE ~Takes(m, n)
  BY <1>1 DEF SubmitAttestation, HistoryInv, OneCarries, StatesFollow, Carries
<1>2. CASE Takes(m, n)
  <2>1. /\ m \notin quarantined /\ quarantined' = quarantined
        /\ attestations' = MarkEffective(m, "Superseded")
                             \cup {NewAttestation(m, d, n)}
    BY <1>2 DEF Takes, SubmitAttestation
  <2>2. ASSUME NEW a \in attestations', Carries(a)
        PROVE  \/ a = NewAttestation(m, d, n)
               \/ a \in attestations /\ a.member # m
    <3>1. CASE a \in MarkEffective(m, "Superseded")
      <4>1. CASE /\ a \in attestations
                 /\ ~(a.member = m /\ a.state = "Submitted")
        BY <4>1, <2>1, <2>2 DEF Carries, HistoryInv, StatesFollow
      <4>2. CASE \E b \in attestations :
                   /\ b.member = m /\ b.state = "Submitted"
                   /\ a = [b EXCEPT !.state = "Superseded"]
        BY <4>2, <2>2, MarkFields DEF Carries, HistoryInv, ReferenceTypeOK
      <4> QED BY <3>1, <4>1, <4>2, MarkedAre
    <3> QED BY <2>1, <3>1
  <2>3. /\ NewAttestation(m, d, n).member = m
        /\ NewAttestation(m, d, n).state = "Submitted"
    BY DEF NewAttestation
  <2>4. OneCarries'
    BY <2>2, <2>3 DEF HistoryInv, OneCarries, Carries
  <2>5. StatesFollow'
    BY <2>1, <2>2, <2>3 DEF HistoryInv, StatesFollow, Carries
  <2> QED BY <2>4, <2>5
<1> QED BY <1>1, <1>2

LEMMA QuarantinedHistory ==
  ASSUME HistoryInv, NEW m \in Voters, QuarantineMember(m)
  PROVE  (OneCarries /\ StatesFollow)'
<1>1. CASE m \in quarantined
  BY <1>1 DEF QuarantineMember, HistoryInv, OneCarries, StatesFollow, Carries
<1>2. CASE m \notin quarantined
  <2>1. /\ quarantined' = quarantined \cup {m}
        /\ attestations' = MarkEffective(m, "InvalidatedByQuarantine")
    BY <1>2 DEF QuarantineMember
  <2>2. ASSUME NEW a \in attestations', Carries(a)
        PROVE  \/ a \in attestations /\ a.member # m
               \/ \E b \in attestations :
                    /\ b.member = m /\ b.state = "Submitted"
                    /\ a = [b EXCEPT !.state = "InvalidatedByQuarantine"]
    <3>1. CASE /\ a \in attestations
               /\ ~(a.member = m /\ a.state = "Submitted")
      BY <1>2, <2>2, <3>1 DEF Carries, HistoryInv, StatesFollow
    <3> QED BY <2>1, <3>1, MarkedAre
  <2>3. OneCarries'
    <3> SUFFICES ASSUME NEW a \in attestations', NEW b \in attestations',
                        a.member = b.member, Carries(a), Carries(b)
                 PROVE  a = b
      BY DEF OneCarries, Carries
    <3>1. CASE a \in attestations /\ a.member # m
      <4>1. ASSUME NEW e \in attestations, e.member = m,
                   b = [e EXCEPT !.state = "InvalidatedByQuarantine"]
            PROVE  FALSE
        <5>1. b.member = m
          BY <4>1, MarkFields DEF HistoryInv, ReferenceTypeOK
        <5> QED BY <3>1, <5>1
      <4>2. b \in attestations
        BY <2>2, <4>1
      <4> QED BY <3>1, <4>2 DEF HistoryInv, OneCarries
    <3>2. CASE ~(a \in attestations /\ a.member # m)
      <4>1. PICK c \in attestations :
              /\ c.member = m /\ c.state = "Submitted"
              /\ a = [c EXCEPT !.state = "InvalidatedByQuarantine"]
        BY <2>2, <3>2
      <4>2. a.member = m
        BY <4>1, MarkFields DEF HistoryInv, ReferenceTypeOK
      <4>3. PICK e \in attestations :
              /\ e.member = m /\ e.state = "Submitted"
              /\ b = [e EXCEPT !.state = "InvalidatedByQuarantine"]
        BY <2>2, <4>2
      <4>4. c = e
        BY <4>1, <4>3 DEF HistoryInv, OneCarries, Carries
      <4> QED BY <4>1, <4>3, <4>4
    <3> QED BY <3>1, <3>2
  <2>4. StatesFollow'
    <3> SUFFICES ASSUME NEW a \in attestations'
                 PROVE  /\ a.state = "Submitted" => a.member \notin quarantined'
                        /\ a.state = "InvalidatedByQuarantine"
                             => a.member \in quarantined'
      BY DEF StatesFollow
    <3>1. CASE /\ a \in attestations
               /\ ~(a.member = m /\ a.state = "Submitted")
      BY <2>1, <3>1 DEF HistoryInv, StatesFollow
    <3>2. CASE \E b \in attestations :
                 /\ b.member = m /\ b.state = "Submitted"
                 /\ a = [b EXCEPT !.state = "InvalidatedByQuarantine"]
      BY <2>1, <3>2, MarkFields DEF HistoryInv, ReferenceTypeOK
    <3> QED BY <2>1, <3>1, <3>2, MarkedAre
  <2> QED BY <2>3, <2>4
<1> QED BY <1>1, <1>2

LEMMA HistoryStep ==
  HistoryInv /\ [ReferenceNext]_referenceVars => HistoryInv'
<1> SUFFICES ASSUME HistoryInv, [ReferenceNext]_referenceVars
             PROVE  HistoryInv'
  OBVIOUS
<1>1. ReferenceTypeOK'
  BY ReferenceTypeStep DEF HistoryInv
<1>2. ASSUME NEW m \in Voters, NEW d \in Decisions, NEW n \in 0..LastNonce,
             Submit(m, d, n)
      PROVE  HistoryInv'
  BY <1>1, <1>2, SubmittedHistory DEF Submit, HistoryInv
<1>3. ASSUME NEW m \in Voters, Quarantine(m) PROVE HistoryInv'
  BY <1>1, <1>3, QuarantinedHistory DEF Quarantine, HistoryInv
<1>4. CASE UNCHANGED <<attestations, quarantined>>
  BY <1>1, <1>4 DEF HistoryInv, OneCarries, StatesFollow, Carries
<1>5. CASE UNCHANGED referenceVars
  BY <1>4, <1>5 DEF referenceVars
<1> QED BY <1>2, <1>3, <1>4, <1>5, CountKeeps, TickKeeps DEF ReferenceNext

(* A member never has two attestations that carry weight.                  *)
THEOREM BindingIsOne == ReferenceSpec => []OneBinding
<1>1. HistoryInv => OneBinding
  BY DEF HistoryInv, OneCarries, OneBinding, Binding, Of, Carries
<1> QED BY <1>1, HistoryInit, HistoryStep, PTL DEF ReferenceSpec

-----------------------------------------------------------------------------
(* While the epoch lasts, each ballot is the shadow of the one attestation *)
(* that carries weight: its decision, and the highest nonce of any of the  *)
(* member's attestations, so the two refuse the same replays.              *)
Shadows(m) ==
  /\ ballot[m].state \in {"Empty", "Submitted", "Quarantined"}
  /\ ballot[m].state = "Quarantined" <=> m \in quarantined
  /\ ballot[m].has_decision => Binding(m) # {}
  /\ \A a \in Binding(m) :
       ballot[m].has_decision /\ a.decision = ballot[m].decision
  /\ \A a \in Of(m) : a.submission_nonce <= ballot[m].submission_nonce
  /\ \/ ballot[m].submission_nonce = 0
     \/ \E a \in Of(m) : a.submission_nonce = ballot[m].submission_nonce

BallotsShadow == EpochCovers => \A m \in Voters : Shadows(m)

CountInv == HistoryInv /\ BallotsShadow

LEMMA CountInit == ReferenceInit => CountInv
<1> SUFFICES ASSUME ReferenceInit PROVE BallotsShadow
  BY HistoryInit DEF CountInv
<1> QED BY DEF ReferenceInit, BallotsShadow, Shadows, Binding, Of,
               Program!EmptyBallot

(* The epoch never comes back.                                             *)
LEMMA EpochStep ==
  ASSUME ReferenceTypeOK, [ReferenceNext]_referenceVars, EpochCovers'
  PROVE  EpochCovers
<1> USE DEF EpochCovers, ReferenceTypeOK, Program!Cores
<1>1. CASE UNCHANGED <<now, core>>
  BY <1>1
<1>2. ASSUME Count PROVE EpochCovers
  <2>1. Program!SettleTerminal \/ UNCHANGED core
    BY <1>2 DEF Count, Program!CertifyIncident, Program!ExpireIncident
  <2> QED BY <1>2, <1>1, <2>1, CountKeeps, SettledTypes
<1>3. ASSUME Tick PROVE EpochCovers
  <2>1. now' = now + 1 /\ core' = core
    BY <1>3 DEF Tick, Program!Tick
  <2> QED BY <2>1, ConstantFacts
<1>4. ASSUME NEW m \in Voters, NEW d \in Decisions, NEW n \in 0..LastNonce,
             Submit(m, d, n)
      PROVE  EpochCovers
  BY <1>1, <1>4 DEF Submit, Program!SubmitSealedAttestation, Program!MayAttest
<1>5. ASSUME NEW m \in Voters, Quarantine(m) PROVE EpochCovers
  BY <1>1, <1>5 DEF Quarantine, Program!QuarantineMember
<1> QED BY <1>1, <1>2, <1>3, <1>4, <1>5 DEF ReferenceNext, referenceVars

(* What a submission leaves of the members' attestations.                  *)
LEMMA SubmittedBinding ==
  ASSUME HistoryInv, NEW m \in Voters, NEW d \in Decisions,
         NEW n \in 0..LastNonce, SubmitAttestation(m, d, n), Takes(m, n)
  PROVE  /\ Binding(m)' = {NewAttestation(m, d, n)}
         /\ \A p \in Voters \ {m} : Binding(p)' = Binding(p) /\ Of(p)' = Of(p)
         /\ \A a \in Of(m)' : a.submission_nonce <= n
<1>1. /\ m \notin quarantined
      /\ attestations' = MarkEffective(m, "Superseded")
                           \cup {NewAttestation(m, d, n)}
  BY DEF Takes, SubmitAttestation
<1>2. /\ NewAttestation(m, d, n).member = m
      /\ NewAttestation(m, d, n).state = "Submitted"
      /\ NewAttestation(m, d, n).submission_nonce = n
  BY DEF NewAttestation
<1>3. ASSUME NEW a \in attestations', a.member = m
      PROVE  \/ a = NewAttestation(m, d, n)
             \/ ~Carries(a) /\ \E b \in Of(m) :
                  a.submission_nonce = b.submission_nonce
  <2>1. CASE /\ a \in attestations
             /\ ~(a.member = m /\ a.state = "Submitted")
    BY <1>1, <1>3, <2>1 DEF HistoryInv, StatesFollow, Carries, Of
  <2>2. CASE \E b \in attestations : /\ b.member = m /\ b.state = "Submitted"
                                     /\ a = [b EXCEPT !.state = "Superseded"]
    <3>1. PICK b \in attestations : /\ b.member = m /\ b.state = "Submitted"
                                    /\ a = [b EXCEPT !.state = "Superseded"]
      BY <2>2
    <3>2. a.state = "Superseded" /\ a.submission_nonce = b.submission_nonce
      BY <3>1, MarkFields DEF HistoryInv, ReferenceTypeOK
    <3> QED BY <3>1, <3>2 DEF Carries, Of
  <2> QED BY <1>1, <2>1, <2>2, MarkedAre
<1>4. Binding(m)' = {NewAttestation(m, d, n)}
  BY <1>1, <1>2, <1>3 DEF Binding, Of, Carries
<1>5. \A a \in Of(m)' : a.submission_nonce <= n
  <2>1. \A b \in Of(m) : b.submission_nonce < n /\ b.submission_nonce \in Nat
    BY ConstantFacts
    DEF Takes, HighestNonceBelow, Of, HistoryInv, ReferenceTypeOK, Attestations
  <2> QED BY <1>2, <1>3, <2>1, ConstantFacts DEF Of
<1>6. ASSUME NEW p \in Voters \ {m}
      PROVE  Of(p)' = Of(p)
  <2>1. Of(p)' \subseteq Of(p)
    <3> SUFFICES ASSUME NEW a \in attestations', a.member = p
                 PROVE  a \in attestations
      BY DEF Of
    <3>1. ASSUME NEW b \in attestations, b.member = m,
                 a = [b EXCEPT !.state = "Superseded"]
          PROVE  FALSE
      BY <3>1, MarkFields DEF HistoryInv, ReferenceTypeOK
    <3> QED BY <1>1, <1>2, <3>1, MarkedAre
  <2>2. Of(p) \subseteq Of(p)'
    BY <1>1, OthersStay DEF Of
  <2> QED BY <2>1, <2>2
<1>7. ASSUME NEW p \in Voters \ {m}
      PROVE  Binding(p)' = Binding(p)
  BY <1>6 DEF Binding
<1> QED BY <1>4, <1>5, <1>6, <1>7

(* Quarantine changes the weight of no objection: what a member's          *)
(* attestations say, and which of them carry weight, stays.                *)
LEMMA QuarantinedBinding ==
  ASSUME HistoryInv, NEW m \in Voters, QuarantineMember(m), NEW p \in Voters
  PROVE  /\ \A x \in Of(p)' : \E b \in Of(p) :
              /\ x.submission_nonce = b.submission_nonce
              /\ x.decision = b.decision
              /\ Carries(x) => Carries(b)
         /\ \A b \in Of(p) : \E x \in Of(p)' :
              x.submission_nonce = b.submission_nonce
         /\ Binding(p) # {} => Binding(p)' # {}
<1>1. CASE m \in quarantined
  BY <1>1 DEF QuarantineMember, Of, Binding
<1>2. CASE m \notin quarantined
  <2>1. attestations' = MarkEffective(m, "InvalidatedByQuarantine")
    BY <1>2 DEF QuarantineMember
  <2>2. ASSUME NEW x \in attestations', x.member = p
        PROVE  \E b \in Of(p) : /\ x.submission_nonce = b.submission_nonce
                                /\ x.decision = b.decision
                                /\ Carries(x) => Carries(b)
    <3>1. CASE x \in attestations
      BY <2>2, <3>1 DEF Of
    <3>2. CASE \E b \in attestations :
                 /\ b.member = m /\ b.state = "Submitted"
                 /\ x = [b EXCEPT !.state = "InvalidatedByQuarantine"]
      BY <2>2, <3>2, MarkFields DEF HistoryInv, ReferenceTypeOK, Of, Carries
    <3> QED BY <2>1, <3>1, <3>2, MarkedAre
  <2>3. ASSUME NEW b \in attestations, b.member = p, Carries(b)
        PROVE  Binding(p)' # {}
    <3>1. CASE ~(b.member = m /\ b.state = "Submitted")
      <4>1. b \in attestations'
        BY <2>1, <3>1, OthersStay
      <4> QED BY <2>3, <4>1 DEF Binding, Of, Carries
    <3>2. CASE b.member = m /\ b.state = "Submitted"
      <4> DEFINE x == [b EXCEPT !.state = "InvalidatedByQuarantine"]
      <4>1. x \in attestations'
        BY <2>1, <3>2 DEF MarkEffective, IsEffective
      <4>2. x.member = p /\ x.state = "InvalidatedByQuarantine"
        BY <2>3, MarkFields DEF HistoryInv, ReferenceTypeOK
      <4> HIDE DEF x
      <4> QED BY <4>1, <4>2 DEF Binding, Of
    <3> QED BY <3>1, <3>2
  <2>4. ASSUME NEW b \in attestations, b.member = p
        PROVE  \E x \in Of(p)' : x.submission_nonce = b.submission_nonce
    <3>1. CASE ~(b.member = m /\ b.state = "Submitted")
      BY <2>1, <2>4, <3>1, OthersStay DEF Of
    <3>2. CASE b.member = m /\ b.state = "Submitted"
      <4> DEFINE x == [b EXCEPT !.state = "InvalidatedByQuarantine"]
      <4>1. x \in attestations'
        BY <2>1, <3>2 DEF MarkEffective, IsEffective
      <4>2. x.member = p /\ x.submission_nonce = b.submission_nonce
        BY <2>4, MarkFields DEF HistoryInv, ReferenceTypeOK
      <4> HIDE DEF x
      <4> QED BY <4>1, <4>2 DEF Of
    <3> QED BY <3>1, <3>2
  <2> QED BY <2>2, <2>3, <2>4 DEF Of, Binding, Carries
<1> QED BY <1>1, <1>2

(* A submission the program takes is one the reference takes.              *)
LEMMA TakenByBoth ==
  ASSUME CountInv, EpochCovers, NEW m \in Voters, NEW d \in Decisions,
         NEW n \in 0..LastNonce,
         Program!MayAttest("er", m, d, n)
  PROVE  Takes(m, n)
<1>1. /\ now < core.expires_at_slot
      /\ ballot[m].state # "Quarantined"
      /\ n > ballot[m].submission_nonce
  <2>1. now \in Nat /\ core.expires_at_slot \in Nat
    BY DEF CountInv, HistoryInv, ReferenceTypeOK, Program!Cores
  <2> QED BY <2>1 DEF Program!MayAttest,
                      Program!IsExpired,
                      Program!FreshNonce
<1>2. EpochActive
  BY <1>1, ConstantFacts
  DEF EpochCovers, EpochActive, CountInv, HistoryInv, ReferenceTypeOK,
      Program!Cores
<1>3. m \notin quarantined
  BY <1>1 DEF CountInv, BallotsShadow, Shadows
<1>4. HighestNonceBelow(m, n)
  <2> SUFFICES ASSUME NEW a \in Of(m) PROVE n > a.submission_nonce
    BY DEF HighestNonceBelow
  <2>1. a.submission_nonce <= ballot[m].submission_nonce
    BY DEF CountInv, BallotsShadow, Shadows
  <2>2. a.submission_nonce \in Nat /\ ballot[m].submission_nonce \in Nat
    BY DEF CountInv, HistoryInv, ReferenceTypeOK, Attestations, Of,
           Program!BallotRecords
  <2> QED BY <1>1, <2>1, <2>2, ConstantFacts
<1>5. ~IsExpired
  BY <1>1 DEF IsExpired, CountInv, HistoryInv, ReferenceTypeOK, Program!Cores
<1> QED BY <1>2, <1>3, <1>4, <1>5 DEF Takes

LEMMA CountStep == CountInv /\ [ReferenceNext]_referenceVars => CountInv'
<1> SUFFICES ASSUME CountInv, [ReferenceNext]_referenceVars
             PROVE  CountInv'
  OBVIOUS
<1> USE DEF CountInv
<1>1. HistoryInv'
  BY HistoryStep
<1> SUFFICES ASSUME EpochCovers' PROVE (\A p \in Voters : Shadows(p))'
  BY <1>1 DEF BallotsShadow
<1>2. EpochCovers /\ \A p \in Voters : Shadows(p)
  BY EpochStep DEF HistoryInv, BallotsShadow
<1>3. ballot \in [Voters -> Program!BallotRecords(Nat, Nat)]
  BY DEF HistoryInv, ReferenceTypeOK
<1>4. CASE UNCHANGED <<ballot, attestations, quarantined>>
  BY <1>2, <1>4 DEF Shadows, Binding, Of
<1>5. ASSUME NEW m \in Voters, NEW d \in Decisions, NEW n \in 0..LastNonce,
             Submit(m, d, n), NEW p \in Voters
      PROVE  Shadows(p)'
  <2>1. Takes(m, n) /\ SubmitAttestation(m, d, n) /\ quarantined' = quarantined
    BY <1>2, <1>5, TakenByBoth
    DEF Submit, SubmitAttestation, Program!SubmitSealedAttestation
  <2>2. /\ Binding(m)' = {NewAttestation(m, d, n)}
        /\ \A q \in Voters \ {m} : Binding(q)' = Binding(q) /\ Of(q)' = Of(q)
        /\ \A a \in Of(m)' : a.submission_nonce <= n
    BY <2>1, SubmittedBinding
  <2>3. /\ ballot'[m].state = "Submitted" /\ ballot'[m].has_decision
        /\ ballot'[m].decision = d /\ ballot'[m].submission_nonce = n
        /\ \A q \in Voters \ {m} : ballot'[q] = ballot[q]
    BY <1>3, <1>5 DEF Submit, Program!SubmitSealedAttestation,
                      Program!MayAttest
  <2>4. CASE p = m
    <3>1. m \notin quarantined' /\ NewAttestation(m, d, n).decision = d
      BY <2>1 DEF Takes, NewAttestation
    <3>2. /\ Binding(m)' # {}
          /\ \A a \in Binding(m)' : a.decision = d
      BY <2>2, <3>1
    <3>3. \A a \in Of(m)' : a.submission_nonce <= ballot'[m].submission_nonce
      BY <2>2, <2>3
    <3>4. \E a \in Of(m)' : a.submission_nonce = ballot'[m].submission_nonce
      <4>1. NewAttestation(m, d, n) \in Of(m)'
        BY <2>2 DEF Binding
      <4>2. NewAttestation(m, d, n).submission_nonce = n
        BY DEF NewAttestation
      <4> QED BY <2>3, <4>1, <4>2
    <3> QED BY <2>3, <2>4, <3>1, <3>2, <3>3, <3>4 DEF Shadows
  <2>5. CASE p # m
    BY <1>2, <2>1, <2>2, <2>3, <2>5 DEF Shadows
  <2> QED BY <2>4, <2>5
<1>6. ASSUME NEW m \in Voters, Quarantine(m), NEW p \in Voters
      PROVE  Shadows(p)'
  <2>1. QuarantineMember(m) /\ quarantined' = quarantined \cup {m}
    BY <1>6 DEF Quarantine, QuarantineMember
  <2>2. ballot' = [ballot EXCEPT ![m].state = "Quarantined"]
    BY <1>6 DEF Quarantine, Program!QuarantineMember
  <2>3. /\ ballot'[p].decision = ballot[p].decision
        /\ ballot'[p].has_decision = ballot[p].has_decision
        /\ ballot'[p].submission_nonce = ballot[p].submission_nonce
        /\ ballot'[p].state = IF p = m THEN "Quarantined" ELSE ballot[p].state
    BY <1>3, <2>2 DEF Program!BallotRecords
  <2>4. /\ \A x \in Of(p)' : \E b \in Of(p) :
             /\ x.submission_nonce = b.submission_nonce
             /\ x.decision = b.decision
             /\ Carries(x) => Carries(b)
        /\ \A b \in Of(p) : \E x \in Of(p)' :
             x.submission_nonce = b.submission_nonce
        /\ Binding(p) # {} => Binding(p)' # {}
    BY <2>1, QuarantinedBinding
  <2>5. \A x \in Binding(p)' : \E b \in Binding(p) : x.decision = b.decision
    BY <2>4 DEF Binding, Carries
  <2> QED BY <1>2, <2>1, <2>3, <2>4, <2>5 DEF Shadows
<1> QED BY <1>4, <1>5, <1>6, CountKeeps, TickKeeps
        DEF ReferenceNext, referenceVars

LEMMA SameCount ==
  ASSUME CountInv, EpochCovers
  PROVE  /\ Program!Counted(ballot, "Approve") = Approving
         /\ Program!Counted(ballot, "Reject") = Rejecting
<1>1. \A m \in Voters : Shadows(m)
  BY DEF CountInv, BallotsShadow
<1>2. DOMAIN ballot = Voters /\ quarantined \subseteq Voters
  BY DEF CountInv, HistoryInv, ReferenceTypeOK
<1>3. ASSUME NEW m \in Voters
      PROVE  /\ Program!CountsAs(ballot[m]) = "Reject" <=> m \in Rejecting
             /\ Program!CountsAs(ballot[m]) = "Approve" <=> m \in Approving
  <2>1. Program!CountsAs(ballot[m]) = "Reject" <=> m \in Rejecting
    BY <1>1 DEF Shadows, Program!CountsAs, Rejecting, Deciding
  <2>2. m \notin quarantined => Binding(m) = Effective(m)
    BY DEF CountInv, HistoryInv, StatesFollow, Binding, Effective, Of,
           IsEffective
  <2>3. Program!CountsAs(ballot[m]) = "Approve" <=>
          m \notin quarantined /\ Deciding(Binding(m), "Approve")
    BY <1>1 DEF Shadows, Program!CountsAs, Deciding
  <2> QED BY <2>1, <2>2, <2>3 DEF Approving, Eligible
<1> QED BY <1>2, <1>3 DEF Program!Counted, Approving, Rejecting, Eligible

(* While the epoch lasts, the program's tally and the reference's agree on *)
(* who approved and who rejected.                                          *)
THEOREM TalliesAlwaysAgree == ReferenceSpec => []TalliesAgree
<1>1. CountInv => TalliesAgree
  BY SameCount DEF TalliesAgree
<1> QED BY <1>1, CountInit, CountStep, PTL DEF ReferenceSpec

(* What the reference takes under a nonce of one or more, the program      *)
(* takes too: its nonce is one the reference has on record, or zero.       *)
LEMMA TakenByReference ==
  ASSUME CountInv, EpochCovers, core.status = "Collecting",
         NEW m \in Voters, NEW n \in 1..LastNonce, Takes(m, n)
  PROVE  Program!MayAttest("er", m, "Approve", n)
<1>1. Shadows(m)
  BY DEF CountInv, BallotsShadow
<1>2. n > ballot[m].submission_nonce
  <2>1. n > 0 /\ n \in Nat
    BY ConstantFacts
  <2>2. \A a \in Of(m) : n > a.submission_nonce
    BY DEF Takes, HighestNonceBelow
  <2> QED BY <1>1, <2>1, <2>2 DEF Shadows
<1>3. ballot[m].state \notin {"Quarantined", "Scrubbed"}
  BY <1>1 DEF Shadows, Takes
<1>4. ~Program!IsExpired
  BY DEF Takes, IsExpired, Program!IsExpired
<1> QED BY <1>2, <1>3, <1>4
        DEF Program!MayAttest, Program!FreshNonce, Program!Reads,
            Program!Writes

(* While the epoch lasts, a replayed nonce, a quarantined member and a     *)
(* closed window are refused by both or by neither.                        *)
THEOREM AnswersAlwaysAgree == ReferenceSpec => []AnswersAgree
<1>1. CountInv => AnswersAgree
  <2> SUFFICES ASSUME CountInv, core.status = "Collecting", EpochCovers,
                      NEW m \in Voters, NEW n \in 1..LastNonce
               PROVE  Takes(m, n) <=> Program!MayAttest("er", m, "Approve", n)
    BY DEF AnswersAgree
  <2>1. n \in 0..LastNonce
    BY ConstantFacts
  <2>2. Program!MayAttest("er", m, "Approve", n) => Takes(m, n)
    BY <2>1, TakenByBoth DEF Decisions
  <2> QED BY <2>2, TakenByReference
<1> QED BY <1>1, CountInit, CountStep, PTL DEF ReferenceSpec

-----------------------------------------------------------------------------
(* Settling: the same counts, held against the same thresholds.            *)
LEMMA SettledAsEvaluated ==
  ASSUME CountInv, EpochCovers, Count, core'.status # core.status
  PROVE  /\ \/ core'.status = "CertifiedPendingSettlement"
               /\ Outcome = "Certified"
            \/ core'.status = "Expired" /\ Outcome = "Expired"
            \/ /\ core'.status = "RejectedByThreshold" /\ IsExpired
               /\ Outcome = "RejectedByThreshold"
         /\ core'.approvals = Cardinality(Approving)
         /\ core'.rejections = Cardinality(Rejecting)
<1> DEFINE A == Cardinality(Approving)
           R == Cardinality(Rejecting)
           t == Program!Tally(ballot)
<1>1. A \in Nat /\ R \in Nat /\ Approvals \in Nat /\ Objections \in Nat
  <2>1. Approving \subseteq Voters /\ Rejecting \subseteq Voters
    BY DEF Approving, Rejecting, Eligible
  <2>2. Cardinality(Voters) \in Nat
    BY ConstantFacts, FS_CardinalityType
  <2> QED BY <2>1, <2>2, ConstantFacts, FS_Subset, FS_CardinalityType,
             ReferenceAssumption DEF ReferenceAssumption
<1>2. t.approvals = A /\ t.rejections = R
  BY SameCount, SameCardinality DEF Program!Tally
<1>3. Program!SettleTerminal /\ (Program!ThresholdMet \/ IsExpired)
  BY DEF Count, Program!CertifyIncident, Program!ExpireIncident,
         Program!ExpiryDue, Program!IsExpired, IsExpired
<1>4. Program!Meets(t, Approvals, Objections) <=> R <= Objections /\ A >= Approvals
  BY <1>2 DEF Program!Meets
<1>5. /\ core'.approvals = A /\ core'.rejections = R
      /\ core'.status = Program!TerminalStatus(t, Approvals, Objections)
  BY <1>2, <1>3
  DEF Program!SettleTerminal, CountInv, HistoryInv, ReferenceTypeOK,
      Program!Cores
<1> HIDE DEF A, R, t
<1>6. /\ Blocked <=> R > Objections
      /\ Approved <=> A >= Approvals
  BY DEF Blocked, Approved, A, R
<1>7. CASE R <= Objections /\ A >= Approvals
  <2>1. Outcome = "Certified"
    BY <1>1, <1>6, <1>7 DEF Outcome
  <2> QED BY <1>4, <1>5, <1>7, <2>1 DEF Program!TerminalStatus, A, R
<1>8. CASE R > Objections
  <2>1. Outcome = "RejectedByThreshold"
    BY <1>6, <1>8 DEF Outcome
  <2>2. ~Program!Meets(t, Approvals, Objections)
    BY <1>1, <1>4, <1>8
  <2>3. IsExpired
    BY <1>3, <2>2 DEF Program!ThresholdMet, t
  <2>4. core'.status = "RejectedByThreshold"
    BY <1>2, <1>5, <1>8, <2>2 DEF Program!TerminalStatus
  <2> QED BY <1>5, <2>1, <2>3, <2>4 DEF A, R
<1>9. CASE R <= Objections /\ ~(A >= Approvals)
  <2>1. ~Program!Meets(t, Approvals, Objections)
    BY <1>4, <1>9
  <2>2. IsExpired
    BY <1>3, <2>1 DEF Program!ThresholdMet, t
  <2>3. Outcome = "Expired"
    BY <1>1, <1>6, <1>9, <2>2 DEF Outcome
  <2>4. core'.status = "Expired"
    BY <1>1, <1>2, <1>5, <1>9, <2>1 DEF Program!TerminalStatus
  <2> QED BY <1>5, <2>3, <2>4 DEF A, R
<1> QED BY <1>1, <1>7, <1>8, <1>9

(* The program never settles anything but what the reference evaluates.    *)
THEOREM AlwaysSettlesAsEvaluated == ReferenceSpec => SettlesAsEvaluated
<1>1. ASSUME CountInv, [ReferenceNext]_referenceVars,
             core'.status # core.status
      PROVE  Count
  <2>1. core' # core
    BY <1>1
  <2> QED BY <1>1, <2>1, TickKeeps
          DEF ReferenceNext, referenceVars, Submit, Quarantine,
              Program!SubmitSealedAttestation, Program!MayAttest,
              Program!QuarantineMember
<1>2. CountInv /\ [ReferenceNext]_referenceVars =>
        [core'.status # core.status /\ EpochCovers =>
           /\ \/ core'.status = "CertifiedPendingSettlement"
                /\ Outcome = "Certified"
              \/ core'.status = "Expired" /\ Outcome = "Expired"
              \/ /\ core'.status = "RejectedByThreshold" /\ IsExpired
                 /\ Outcome = "RejectedByThreshold"
           /\ core'.approvals = Cardinality(Approving)
           /\ core'.rejections = Cardinality(Rejecting)]_referenceVars
  BY <1>1, SettledAsEvaluated
<1> QED BY <1>2, CountInit, CountStep, PTL
        DEF ReferenceSpec, SettlesAsEvaluated
=============================================================================
