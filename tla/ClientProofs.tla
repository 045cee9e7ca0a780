----------------------------- MODULE ClientProofs -----------------------------
(***************************************************************************)
(* Theorems about the client: what it calls verified, for every set of     *)
(* runs and targets, and where its requests go, for every set of rollups,  *)
(* however the network moves between two of its questions.                 *)
(***************************************************************************)
EXTENDS Verification, Routing, TLAPS

-----------------------------------------------------------------------------
(* Verification.  The base layer a verifier reads.                         *)
Operations == {NoOperation} \cup {Derived(i, 1) : i \in Runs}

Released ==
  [status : {"certified", "closed"}, at : {0, 1}, operation : Operations,
   approvals : 0..MostBallots, rejections : 0..MostBallots]

Bases ==
  [core : {Absent, DraftCore} \cup Released, certificate : BOOLEAN,
   receipt : {"absent", "open", "final"},
   adapters : [Targets -> {"absent", "empty", "executed"}]]

(* A core that left the rollup certified carries its own operation and met *)
(* the threshold; certificate and settlement receipt rest on it, and an    *)
(* executed adapter receipt on the certificate.                            *)
Grounded(b, i) ==
  /\ b.core.status = "certified" =>
       /\ b.core.at = 1 /\ b.core.operation = Derived(i, 1)
       /\ b.core.approvals >= Required /\ b.core.rejections <= MostRejections
  /\ b.core.status = "closed" => b.core.operation = NoOperation
  /\ b.certificate => b.core.status = "certified"
  /\ b.receipt # "absent" => b.certificate
  /\ \A t \in Targets : b.adapters[t] = "executed" => b.certificate

(* What only grows on the base layer.                                      *)
Grows(b, c) ==
  /\ b.core \notin {Absent, DraftCore} => c.core = b.core
  /\ b.certificate => c.certificate
  /\ b.receipt # "absent" => c.receipt # "absent"
  /\ b.receipt = "final" => c.receipt = "final"
  /\ \A t \in Targets :
       /\ b.adapters[t] # "absent" => c.adapters[t] # "absent"
       /\ b.adapters[t] = "executed" => c.adapters[t] = "executed"

(* The inductive invariant: a core of the program that passed its checks   *)
(* was certified, and is what the base layer still shows.                  *)
VerifyInv ==
  /\ base \in [Runs -> Bases]
  /\ \A i \in Runs : Grounded(base[i], i)
  /\ artifact # << >> => artifact \in Artifacts
  /\ coreSeen # Unseen => artifact # << >>
  /\ coreSeen.status = "read" /\ coreSeen.passed /\ artifact.core \in Runs =>
       /\ base[artifact.core].core.status = "certified"
       /\ coreSeen.derived = Derived(artifact.core, 1)
  /\ coreSeen.status # "read" => report = NoReport
  /\ VerifiedIsOneOperation

LEMMA Statuses ==
  /\ Absent.status = "absent" /\ DraftCore.status = "draft" /\ Absent # DraftCore
  /\ Unseen.status = "unseen" /\ Gone.status = "gone" /\ ~NoReport.verified
BY DEF Absent, DraftCore, Unseen, Gone, NoReport

(* What the base layer does to the accounts of one incident: a released    *)
(* core is never written again, and whatever else is made stays.           *)
LEMMA ChainSteps ==
  ASSUME VerifyInv, ChainMoves
  PROVE  /\ base' \in [Runs -> Bases]
         /\ \A i \in Runs : Grounded(base'[i], i) /\ Grows(base[i], base'[i])
<1> DEFINE Kept == /\ base' \in [Runs -> Bases]
                   /\ \A i \in Runs : /\ Grounded(base'[i], i)
                                       /\ Grows(base[i], base'[i])
<1>1. base \in [Runs -> Bases] /\ \A i \in Runs : Grounded(base[i], i)
  BY DEF VerifyInv
<1>2. ASSUME NEW i \in Runs, NEW b \in Bases,
             base' = [base EXCEPT ![i] = b], Grounded(b, i), Grows(base[i], b)
      PROVE  Kept
  <2>1. \A n \in Runs : Grows(base[n], base[n])
    BY DEF Grows
  <2>2. QED
    BY <1>1, <1>2, <2>1
<1>3. ASSUME NEW i \in Runs, OpenRun(i) PROVE Kept
  <2> DEFINE b == [base[i] EXCEPT !.core = DraftCore]
  <2>1. base' = [base EXCEPT ![i] = b] /\ base[i].core = Absent
    BY <1>3 DEF OpenRun
  <2>2. base[i] \in Bases /\ Grounded(base[i], i)
    BY <1>1
  <2>3. /\ b \in Bases /\ b.core = DraftCore
        /\ b.certificate = base[i].certificate
        /\ b.receipt = base[i].receipt /\ b.adapters = base[i].adapters
    BY <2>2 DEF Bases
  <2>4. Grounded(b, i)
    BY Statuses, <2>1, <2>2, <2>3 DEF Grounded
  <2>5. Grows(base[i], b)
    BY <2>1, <2>3 DEF Grows
  <2>6. QED
    BY <1>2, <2>1, <2>3, <2>4, <2>5
<1>4. ASSUME NEW i \in Runs, PublishRun(i) PROVE Kept
  <2> DEFINE b == [base[i] EXCEPT !.certificate = TRUE]
  <2>1. base' = [base EXCEPT ![i] = b] /\ base[i].core.status = "certified"
    BY <1>4 DEF PublishRun
  <2>2. base[i] \in Bases /\ Grounded(base[i], i)
    BY <1>1
  <2>3. /\ b \in Bases /\ b.core = base[i].core /\ b.certificate
        /\ b.receipt = base[i].receipt /\ b.adapters = base[i].adapters
    BY <2>2 DEF Bases
  <2>4. Grounded(b, i)
    BY <2>1, <2>2, <2>3 DEF Grounded
  <2>5. Grows(base[i], b)
    BY <2>3 DEF Grows
  <2>6. QED
    BY <1>2, <2>1, <2>3, <2>4, <2>5
<1>5. ASSUME NEW i \in Runs,
             CreateSettlementReceipt(i) \/ SettleRun(i)
      PROVE  Kept
  <2>1. PICK r \in {"open", "final"} :
          /\ base' = [base EXCEPT ![i].receipt = r]
          /\ base[i].receipt = "absent" => base[i].certificate
          /\ base[i].receipt = "final" => r = "final"
    BY <1>5 DEF CreateSettlementReceipt, SettleRun
  <2> DEFINE b == [base[i] EXCEPT !.receipt = r]
  <2>2. base[i] \in Bases /\ Grounded(base[i], i)
    BY <1>1
  <2>3. /\ b \in Bases /\ b.core = base[i].core /\ b.receipt = r
        /\ b.certificate = base[i].certificate /\ b.adapters = base[i].adapters
    BY <2>2 DEF Bases
  <2>4. base' = [base EXCEPT ![i] = b]
    BY <2>1
  <2>5. Grounded(b, i)
    BY <2>1, <2>2, <2>3 DEF Grounded
  <2>6. Grows(base[i], b)
    BY <2>1, <2>3 DEF Grows
  <2>7. QED
    BY <1>2, <2>3, <2>4, <2>5, <2>6
<1>6. ASSUME NEW i \in Runs, NEW t \in Targets,
             CreateAdapterReceipt(i, t) \/ ExecuteRun(i, t)
      PROVE  Kept
  <2>1. PICK e \in {"empty", "executed"} :
          /\ base' = [base EXCEPT ![i].adapters[t] = e]
          /\ e = "executed" => base[i].certificate
          /\ base[i].adapters[t] # "executed"
    BY <1>6 DEF CreateAdapterReceipt, ExecuteRun
  <2> DEFINE b == [base[i] EXCEPT !.adapters[t] = e]
  <2>2. base[i] \in Bases /\ Grounded(base[i], i)
    BY <1>1
  <2>3. base' = [base EXCEPT ![i] = b]
    BY <2>1
  <2>4. b = [base[i] EXCEPT !.adapters = [base[i].adapters EXCEPT ![t] = e]]
    BY <2>2 DEF Bases
  <2>5. /\ b \in Bases /\ b.core = base[i].core
        /\ b.certificate = base[i].certificate /\ b.receipt = base[i].receipt
        /\ b.adapters = [base[i].adapters EXCEPT ![t] = e]
    BY <2>2, <2>4 DEF Bases
  <2>6. base[i].adapters \in [Targets -> {"absent", "empty", "executed"}]
    BY <2>2 DEF Bases
  <2> HIDE DEF b
  <2>7. \A u \in Targets : b.adapters[u] = IF u = t THEN e ELSE base[i].adapters[u]
    BY <2>5, <2>6
  <2>8. Grounded(b, i)
    BY <2>1, <2>2, <2>5, <2>7 DEF Grounded
  <2>9. Grows(base[i], b)
    BY <2>1, <2>5, <2>7 DEF Grows
  <2>10. QED
    BY <1>2, <2>3, <2>5, <2>8, <2>9
<1>7. ASSUME NEW i \in Runs, NEW a \in 0..MostBallots, NEW r \in 0..MostBallots,
             ReleaseCore(i, a, r)
      PROVE  Kept
  <2> DEFINE met == a >= Required /\ r <= MostRejections
             c == [status |-> IF met THEN "certified" ELSE "closed",
                   at |-> IF met THEN 1 ELSE 0,
                   operation |-> IF met THEN Derived(i, 1) ELSE NoOperation,
                   approvals |-> a, rejections |-> r]
             b == [base[i] EXCEPT !.core = c]
  <2>1. base[i] \in Bases /\ Grounded(base[i], i)
    BY <1>1
  <2>2. base' = [base EXCEPT ![i] = b] /\ base[i].core = DraftCore
    BY <1>7 DEF ReleaseCore
  <2>3. c \in Released
    BY DEF Released, Operations
  <2>4. /\ c.status = "certified" => /\ c.at = 1 /\ c.operation = Derived(i, 1)
                                     /\ c.approvals >= Required
                                     /\ c.rejections <= MostRejections
        /\ c.status = "closed" => c.operation = NoOperation
    OBVIOUS
  <2> HIDE DEF c
  <2>5. /\ b \in Bases /\ b.core = c /\ b.certificate = base[i].certificate
        /\ b.receipt = base[i].receipt /\ b.adapters = base[i].adapters
    BY <2>1, <2>3 DEF Bases
  <2>6. ~base[i].certificate
    BY Statuses, <2>1, <2>2 DEF Grounded, Bases
  <2>7. Grounded(b, i)
    BY <2>1, <2>4, <2>5, <2>6 DEF Grounded
  <2>8. Grows(base[i], b)
    BY <2>2, <2>5 DEF Grows
  <2>9. QED
    BY <1>2, <2>2, <2>5, <2>7, <2>8
<1>8. Kept
  BY <1>3, <1>4, <1>5, <1>6, <1>7 DEF ChainMoves
<1>9. QED
  BY <1>8

(* What the program wrote of a core that passed its checks.                *)
LEMMA CoreIsCertified ==
  ASSUME VerifyInv, ReadCore, artifact.core \in Runs,
         coreSeen'.status = "read", coreSeen'.passed
  PROVE  /\ base[artifact.core].core.status = "certified"
         /\ coreSeen'.derived = Derived(artifact.core, 1)
<1> DEFINE i == artifact.core
           c == Claim(base[i].core, i)
<1>1. /\ c.core = base[i].core /\ c.of = i /\ c.changed = {}
      /\ CoreReadings = {c}
  BY DEF Claim, CoreReadings
<1>2. Identity(c) = i
  BY <1>1 DEF Identity
<1>3. /\ coreSeen'.derived = Derived(i, base[i].core.at) /\ CoreChecks(c)
      /\ base[i].core # Absent
  BY <1>1, <1>2, Statuses DEF ReadCore
<1>4. base[i] \in Bases /\ Grounded(base[i], i)
  BY DEF VerifyInv
<1>5. /\ base[i].core.operation = Derived(i, base[i].core.at)
      /\ base[i].core.status # "draft"
  BY <1>1, <1>2, <1>3 DEF CoreChecks
<1>6. base[i].core.status \in {"certified", "closed"}
  BY <1>3, <1>4, <1>5, Statuses DEF Bases, Released
<1>7. Derived(i, base[i].core.at) # NoOperation
  BY DEF Derived, NoOperation
<1>8. base[i].core.status = "certified"
  BY <1>4, <1>5, <1>6, <1>7 DEF Grounded
<1>9. QED
  BY <1>3, <1>4, <1>8 DEF Grounded

(* A report of an operation is drawn from accounts that all carry it, and  *)
(* of those the programs wrote only the accounts of one incident do.       *)
LEMMA OneOperation ==
  ASSUME VerifyInv, ReadTheRest, report'.verified
  PROVE  VerifiedIsOneOperation'
<1> DEFINE Executes(label, done) ==
             LET r == artifact.adapters[label]
             IN IF r \in Receipts
                THEN base[r[1]].adapters[r[2]] = "executed" ELSE label \in done
<1>0. PICK pass \in {TRUE, AllOurs}, final \in BOOLEAN, done \in SUBSET Targets :
        report' =
          [verified |-> coreSeen.passed /\ OwnChecks /\ pass,
           finalized |-> IF artifact.receipt \in Runs
                         THEN base[artifact.receipt].receipt = "final" ELSE final,
           executed |-> {label \in DOMAIN artifact.adapters :
                           Executes(label, done)}]
  BY DEF ReadTheRest
<1>1. /\ coreSeen.status = "read" /\ coreSeen.passed /\ OwnChecks
      /\ UNCHANGED <<base, artifact, coreSeen>>
      /\ artifact.receipt \in Runs /\ report'.finalized =>
           base[artifact.receipt].receipt = "final"
      /\ \A label \in DOMAIN artifact.adapters :
           LET r == artifact.adapters[label]
           IN r \in Receipts /\ label \in report'.executed =>
                base[r[1]].adapters[r[2]] = "executed"
  <2>1. coreSeen.status = "read" /\ UNCHANGED <<base, artifact, coreSeen>>
    BY DEF ReadTheRest
  <2>2. coreSeen.passed /\ OwnChecks
    BY <1>0
  <2>3. artifact.receipt \in Runs /\ report'.finalized =>
          base[artifact.receipt].receipt = "final"
    BY <1>0
  <2>4. report'.executed = {label \in DOMAIN artifact.adapters :
                              Executes(label, done)}
    BY <1>0
  <2>5. QED
    BY <2>1, <2>2, <2>3, <2>4
<1>2. /\ artifact \in Artifacts
      /\ \A i \in Runs : base[i] \in Bases /\ Grounded(base[i], i)
      /\ artifact.core \in Runs =>
           /\ base[artifact.core].core.status = "certified"
           /\ coreSeen.derived = Derived(artifact.core, 1)
  BY <1>1, Statuses DEF VerifyInv
<1>3. ASSUME artifact.core \in Runs
      PROVE  LET core == base[artifact.core].core IN
             /\ core.status = "certified"
             /\ core.approvals >= Required /\ core.rejections <= MostRejections
  BY <1>2, <1>3 DEF Grounded
<1>4. ASSUME artifact.certificate \in Runs
      PROVE  /\ base[artifact.certificate].certificate
             /\ artifact.certificate = artifact.core
  BY <1>1, <1>4 DEF OwnChecks, CertificateChecks
<1>5. ASSUME artifact.receipt \in Runs
      PROVE  /\ base[artifact.receipt].receipt # "absent"
             /\ base[artifact.receipt].certificate
             /\ artifact.core \in Runs => artifact.receipt = artifact.core
             /\ report'.finalized => base[artifact.receipt].receipt = "final"
  <2>1. /\ base[artifact.receipt].receipt # "absent"
        /\ Derived(artifact.receipt, 1) = coreSeen.derived
    BY <1>1, <1>5 DEF OwnChecks, SettlementBound, Bound
  <2>2. base[artifact.receipt].certificate
    BY <1>2, <1>5, <2>1 DEF Grounded
  <2>3. QED
    BY <1>1, <1>2, <1>5, <2>1, <2>2 DEF Derived
<1>6. ASSUME NEW label \in DOMAIN artifact.adapters,
             artifact.adapters[label] \in Receipts
      PROVE  LET r == artifact.adapters[label] IN
             /\ base[r[1]].adapters[r[2]] # "absent"
             /\ artifact.core \in Runs => r[1] = artifact.core
             /\ label \in report'.executed =>
                  /\ base[r[1]].adapters[r[2]] = "executed"
                  /\ base[r[1]].certificate
  <2> DEFINE r == artifact.adapters[label]
  <2>1. r[1] \in Runs /\ r[2] \in Targets
    BY <1>6 DEF Receipts
  <2>2. /\ base[r[1]].adapters[r[2]] # "absent"
        /\ Derived(r[1], 1) = coreSeen.derived
    BY <1>1, <1>6 DEF OwnChecks, AdapterBound, Bound
  <2>3. label \in report'.executed => base[r[1]].adapters[r[2]] = "executed"
    BY <1>1, <1>6
  <2>4. base[r[1]].adapters[r[2]] = "executed" => base[r[1]].certificate
    BY <1>2, <2>1 DEF Grounded
  <2>5. QED
    BY <1>2, <2>2, <2>3, <2>4 DEF Derived
<1>7. QED
  BY <1>1, <1>3, <1>4, <1>5, <1>6 DEF VerifiedIsOneOperation

(* A report stays true: what it rests on only grows.                       *)
LEMMA ReportsStayTrue ==
  ASSUME VerifyInv, base' \in [Runs -> Bases],
         \A i \in Runs : Grows(base[i], base'[i]),
         UNCHANGED <<artifact, coreSeen, report>>, report.verified
  PROVE  VerifiedIsOneOperation'
<1>1. VerifiedIsOneOperation /\ artifact # << >>
  BY Statuses DEF VerifyInv
<1>2. ASSUME NEW i \in Runs, base[i].core.status = "certified"
      PROVE  base'[i].core = base[i].core
  BY <1>2, Statuses DEF Grows
<1>3. \A r \in Receipts : r[1] \in Runs /\ r[2] \in Targets
  BY DEF Receipts
<1>4. QED
  BY <1>1, <1>2, <1>3 DEF VerifiedIsOneOperation, Grows

LEMMA VerifyInvHolds == VerifyInit /\ [][VerifyNext]_verifyVars => []VerifyInv
<1>1. VerifyInit => VerifyInv
  <2> SUFFICES ASSUME VerifyInit PROVE VerifyInv
    OBVIOUS
  <2>1. base \in [Runs -> Bases]
    BY DEF VerifyInit, Bases
  <2>2. \A i \in Runs : Grounded(base[i], i)
    BY DEF VerifyInit, Grounded, Absent
  <2>3. QED
    BY <2>1, <2>2, Statuses DEF VerifyInit, VerifyInv, VerifiedIsOneOperation
<1>2. VerifyInv /\ [VerifyNext]_verifyVars => VerifyInv'
  <2> SUFFICES ASSUME VerifyInv, [VerifyNext]_verifyVars PROVE VerifyInv'
    OBVIOUS
  <2>1. CASE UNCHANGED verifyVars
    BY <2>1 DEF VerifyInv, VerifiedIsOneOperation, verifyVars
  <2>2. CASE ChainMoves
    <3>1. /\ base' \in [Runs -> Bases]
          /\ \A i \in Runs : Grounded(base'[i], i) /\ Grows(base[i], base'[i])
      BY <2>2, ChainSteps
    <3>2. UNCHANGED <<artifact, coreSeen, report>>
      BY <2>2 DEF ChainMoves
    <3>3. VerifiedIsOneOperation'
      BY <3>1, <3>2, ReportsStayTrue DEF VerifiedIsOneOperation
    <3>4. \A i \in Runs : base[i].core.status = "certified" =>
                           base'[i].core = base[i].core
      BY <3>1, Statuses DEF Grows
    <3>5. QED
      BY <3>1, <3>2, <3>3, <3>4 DEF VerifyInv
  <2>3. CASE ReadCore
    <3>1. artifact # << >> /\ report = NoReport /\ UNCHANGED <<base, artifact, report>>
      BY <2>3, Statuses DEF ReadCore, VerifyInv
    <3>2. QED
      BY <2>3, <3>1, CoreIsCertified, Statuses
      DEF VerifyInv, VerifiedIsOneOperation
  <2>4. CASE ReadTheRest
    <3>1. coreSeen.status = "read" /\ UNCHANGED <<base, artifact, coreSeen>>
      BY <2>4 DEF ReadTheRest
    <3>2. VerifiedIsOneOperation'
      BY <2>4, OneOperation DEF VerifiedIsOneOperation
    <3>3. QED
      BY <3>1, <3>2 DEF VerifyInv
  <2>5. ASSUME NEW a \in Artifacts, TakeArtifact(a) PROVE VerifyInv'
    <3>1. coreSeen = Unseen /\ report = NoReport
      BY <2>5, Statuses DEF TakeArtifact, VerifyInv
    <3>2. a # << >>
      BY DEF Artifacts
    <3>3. QED
      BY <2>5, <3>1, <3>2, Statuses
      DEF TakeArtifact, VerifyInv, VerifiedIsOneOperation
  <2>6. QED
    BY <2>1, <2>2, <2>3, <2>4, <2>5 DEF VerifyNext
<1>3. QED
  BY <1>1, <1>2, PTL

(* VERIFIED means, of the accounts the programs own: they are there; a     *)
(* core among them was certified; and what belongs beside that core is of  *)
(* its operation, whatever else the artifact names and however the base    *)
(* layer moves between the two reads (verifyOperation).                    *)
THEOREM VerifiedOperationsAreOne ==
  VerifyInit /\ [][VerifyNext]_verifyVars => []VerifiedIsOneOperation
BY VerifyInvHolds, PTL DEF VerifyInv

-----------------------------------------------------------------------------
(* Routing.  An errand keeps what has been true of the network since it    *)
(* began; Facts is what its progress says of that record.                  *)
Builds == {"old", "checkout", "newer"}

Nets ==
  [base : Builds, cached : [Rollups -> Builds], listed : SUBSET Rollups,
   home : Rollups \cup {Nobody}]

AllTruths ==
  ({"base", "home"} \cup Rollups) \X (Builds \cup Rollups \cup {Nobody})

Errands ==
  [kind : {"resolve"} \cup Searches,
   step : {"status", "routes", "record", "configured", "base", "poll"},
   routes : SUBSET Rollups, failed : BOOLEAN,
   base : Builds \cup {"unasked", Nobody}, todo : SUBSET Rollups,
   round : Nat, truths : SUBSET AllTruths]

Facts(e) ==
  /\ e.kind = "resolve" /\ e.step = "configured" /\ e.routes # {} =>
       <<"home", Nobody>> \in e.truths
  /\ e.kind = "await" /\ e.step = "poll" => e.base = "checkout"
  /\ e.base = "checkout" => <<"base", "checkout">> \in e.truths

(* The inductive invariant: what is true of the network now is among what  *)
(* the errand has seen, and it progressed only on what it saw.             *)
Underway ==
  errand # NoErrand =>
    /\ errand \in Errands
    /\ Truths \subseteq errand.truths
    /\ Facts(errand)

RoutingInv ==
  /\ net \in Nets
  /\ Underway
  /\ ErrandsConcludeTruly

LEMMA TruthsNow ==
  ASSUME net \in Nets
  PROVE  /\ Truths \in SUBSET AllTruths
         /\ <<"base", net.base>> \in Truths /\ <<"home", net.home>> \in Truths
         /\ \A r \in Rollups : <<r, net.cached[r]>> \in Truths
BY DEF Truths, Nets, AllTruths, Builds

LEMMA SomeErrand ==
  ASSUME RoutingInv, errand.kind \in {"resolve"} \cup Searches
  PROVE  /\ errand # NoErrand /\ errand \in Errands
         /\ Truths \subseteq errand.truths /\ Facts(errand)
BY DEF RoutingInv, Underway, NoErrand, Searches

(* The network moves: the errand remembers what is true afterwards.        *)
LEMMA MovesKeep ==
  ASSUME RoutingInv, Moves
  PROVE  RoutingInv'
<1>1. net \in Nets
  BY DEF RoutingInv
<1>2. net' \in Nets
  <2>1. ASSUME NEW b \in {"checkout", "newer"}, net' = [net EXCEPT !.base = b]
        PROVE  net' \in Nets
    BY <1>1, <2>1 DEF Nets, Builds
  <2>2. ASSUME NEW r \in Rollups, net' = [net EXCEPT !.cached[r] = net.base]
        PROVE  net' \in Nets
    <3>1. net' = [net EXCEPT !.cached = [net.cached EXCEPT ![r] = net.base]]
      BY <1>1, <2>2 DEF Nets
    <3>2. QED
      BY <1>1, <3>1 DEF Nets
  <2>3. ASSUME NEW r \in Rollups,
               net' = [net EXCEPT !.listed = (@ \cup {r}) \ (@ \cap {r})]
        PROVE  net' \in Nets
    BY <1>1, <2>3 DEF Nets
  <2>4. ASSUME NEW h \in Rollups \cup {Nobody}, net' = [net EXCEPT !.home = h]
        PROVE  net' \in Nets
    BY <1>1, <2>4 DEF Nets
  <2>5. QED
    BY <2>1, <2>2, <2>3, <2>4 DEF Moves
<1>3. errand' = Remembered(errand) /\ outcome' = outcome
  BY DEF Moves
<1>4. Underway'
  <2>1. CASE errand = NoErrand
    BY <1>3, <2>1 DEF Remembered, Underway
  <2>2. CASE errand # NoErrand
    <3>1. /\ errand \in Errands /\ Facts(errand)
          /\ Truths' \in SUBSET AllTruths
      <4>1. Truths' \in SUBSET AllTruths
        BY <1>2 DEF Truths, Nets, AllTruths, Builds
      <4>2. QED
        BY <2>2, <4>1 DEF RoutingInv, Underway
    <3>2. errand' = [errand EXCEPT !.truths = errand.truths \cup Truths']
      BY <1>3, <2>2 DEF Remembered
    <3>3. /\ errand' \in Errands /\ errand'.truths = errand.truths \cup Truths'
          /\ errand'.kind = errand.kind /\ errand'.step = errand.step
          /\ errand'.routes = errand.routes /\ errand'.base = errand.base
      BY <3>1, <3>2 DEF Errands
    <3>4. QED
      BY <3>1, <3>3 DEF Underway, Facts
  <2>3. QED
    BY <2>1, <2>2
<1>5. QED
  BY <1>2, <1>3, <1>4
  DEF RoutingInv, ErrandsConcludeTruly, ResolvedAtHome, FreshMeansThisCheckout,
      ScansAreAnswered

(* An errand goes on, or concludes, while the network stands still.        *)
LEMMA GoesOn ==
  ASSUME RoutingInv, UNCHANGED <<net, outcome>>, errand' \in Errands,
         Truths \subseteq errand'.truths, Facts(errand')
  PROVE  RoutingInv'
BY DEF RoutingInv, Underway, Truths, ErrandsConcludeTruly, ResolvedAtHome,
   FreshMeansThisCheckout, ScansAreAnswered

LEMMA Concluded ==
  ASSUME RoutingInv, UNCHANGED net, errand' = NoErrand, ErrandsConcludeTruly'
  PROVE  RoutingInv'
BY DEF RoutingInv, Underway

LEMMA ConcludesFresh ==
  ASSUME NEW kind \in Searches, NEW r, Concludes(kind, r, "fresh"),
         <<r, "checkout">> \in errand.truths,
         kind \in {"await", "per"} => <<"base", "checkout">> \in errand.truths
  PROVE  ErrandsConcludeTruly'
BY DEF Concludes, ErrandsConcludeTruly, ResolvedAtHome, FreshMeansThisCheckout,
   ScansAreAnswered, Searches

LEMMA ConcludesNothing ==
  ASSUME NEW kind \in Searches, NEW found \in {"stopped", "stale"},
         Concludes(kind, Nobody, found)
  PROVE  ErrandsConcludeTruly'
BY DEF Concludes, ErrandsConcludeTruly, ResolvedAtHome, FreshMeansThisCheckout,
   ScansAreAnswered, Searches

LEMMA ConcludesResolved ==
  ASSUME NEW endpoint, NEW found, Concludes("resolve", endpoint, found),
         found \in {"fqdn", "routes"} =>
           /\ endpoint \in Rollups \cup {Nobody}
           /\ <<"home", endpoint>> \in errand.truths,
         found = "configured" /\ errand.routes # {} =>
           <<"home", Nobody>> \in errand.truths
  PROVE  ErrandsConcludeTruly'
BY DEF Concludes, ErrandsConcludeTruly, ResolvedAtHome, FreshMeansThisCheckout,
   ScansAreAnswered, Searches

-----------------------------------------------------------------------------
(* resolveEphemeralEndpoint, question by question.                         *)
LEMMA ResolveKeeps ==
  ASSUME RoutingInv, ResolveEphemeralEndpoint
  PROVE  RoutingInv'
<1>1. /\ net \in Nets /\ net.home \in Rollups \cup {Nobody}
      /\ net.listed \in SUBSET Rollups
  BY DEF RoutingInv, Nets
<1>2. CASE StartResolve
  <2>1. PICK step \in {"status", "configured"} :
           /\ errand' = Begins("resolve", step)
           /\ UNCHANGED <<net, outcome>>
    BY <1>2 DEF StartResolve, Continues
  <2>2. errand' \in Errands /\ errand'.truths = Truths /\ Facts(errand')
    BY <1>1, <2>1, TruthsNow DEF Begins, Errands, Facts, Builds
  <2>3. QED
    BY <2>1, <2>2, GoesOn
<1>3. CASE GetDelegationStatus
  <2>1. /\ errand \in Errands /\ Truths \subseteq errand.truths /\ Facts(errand)
        /\ errand.kind = "resolve" /\ errand.step = "status"
    BY <1>3, SomeErrand DEF GetDelegationStatus
  <2>2. CASE Concludes("resolve", net.home, "fqdn")
    <3>1. <<"home", net.home>> \in errand.truths
      BY <1>1, <2>1, TruthsNow
    <3>2. ErrandsConcludeTruly'
      BY <1>1, <2>2, <3>1, ConcludesResolved
    <3>3. QED
      BY <2>2, <3>2, Concluded DEF Concludes
  <2>3. ASSUME NEW lost \in BOOLEAN,
               Continues([errand EXCEPT !.step = "routes", !.failed = lost])
        PROVE  RoutingInv'
    <3>1. /\ errand' = [errand EXCEPT !.step = "routes", !.failed = lost]
          /\ UNCHANGED <<net, outcome>>
      BY <2>3 DEF Continues
    <3>2. /\ errand' \in Errands /\ errand'.truths = errand.truths
          /\ errand'.kind = "resolve" /\ errand'.step = "routes"
          /\ errand'.base = errand.base
      BY <2>1, <3>1 DEF Errands
    <3>3. Facts(errand')
      BY <2>1, <3>2 DEF Facts
    <3>4. QED
      BY <2>1, <3>1, <3>2, <3>3, GoesOn
  <2>4. QED
    BY <1>3, <2>2, <2>3 DEF GetDelegationStatus
<1>4. CASE GetRoutes
  <2>1. /\ errand \in Errands /\ Truths \subseteq errand.truths /\ Facts(errand)
        /\ errand.kind = "resolve" /\ errand.step = "routes"
    BY <1>4, SomeErrand DEF GetRoutes
  <2>2. /\ \/ errand' = [errand EXCEPT !.step = "record", !.routes = net.listed]
           \/ errand' = [errand EXCEPT !.step = "record", !.failed = TRUE]
        /\ UNCHANGED <<net, outcome>>
    BY <1>4 DEF GetRoutes, Continues
  <2>3. /\ errand' \in Errands /\ errand'.truths = errand.truths
        /\ errand'.kind = "resolve" /\ errand'.step = "record"
        /\ errand'.base = errand.base
    BY <1>1, <2>1, <2>2 DEF Errands
  <2>4. Facts(errand')
    BY <2>1, <2>3 DEF Facts
  <2>5. QED
    BY <2>1, <2>2, <2>3, <2>4, GoesOn
<1>5. CASE ReadDelegationRecord
  <2>1. /\ errand \in Errands /\ Truths \subseteq errand.truths /\ Facts(errand)
        /\ errand.kind = "resolve" /\ errand.step = "record"
    BY <1>5, SomeErrand DEF ReadDelegationRecord
  <2>2. <<"home", net.home>> \in errand.truths
    BY <1>1, <2>1, TruthsNow
  <2>3. \/ Concludes("resolve", net.home, "routes")
        \/ Concludes("resolve", Nobody, "mismatch")
        \/ /\ Continues([errand EXCEPT !.step = "configured"])
           /\ net.home = Nobody \/ errand.routes = {}
    <3> DEFINE next == AfterRecord(net.home, errand.routes)
    <3>1. next = "configured" => net.home = Nobody \/ errand.routes = {}
      BY DEF AfterRecord
    <3>2. next \in {"matched", "mismatch", "configured"}
      BY DEF AfterRecord
    <3> HIDE DEF next
    <3>3. \/ Concludes("resolve", net.home, "routes")
          \/ Concludes("resolve", Nobody, "mismatch")
          \/ /\ Continues([errand EXCEPT !.step = "configured"])
             /\ next # "matched" /\ next # "mismatch"
      BY <1>5, Zenon DEF ReadDelegationRecord, next
    <3>4. QED
      BY <3>1, <3>2, <3>3
  <2>4. CASE \/ Concludes("resolve", net.home, "routes")
             \/ Concludes("resolve", Nobody, "mismatch")
    <3>1. ErrandsConcludeTruly'
      BY <1>1, <2>2, <2>4, ConcludesResolved
    <3>2. QED
      BY <2>4, <3>1, Concluded DEF Concludes
  <2>5. CASE /\ Continues([errand EXCEPT !.step = "configured"])
             /\ net.home = Nobody \/ errand.routes = {}
    <3>1. /\ errand' = [errand EXCEPT !.step = "configured"]
          /\ UNCHANGED <<net, outcome>>
      BY <2>5 DEF Continues
    <3>2. /\ errand' \in Errands /\ errand'.truths = errand.truths
          /\ errand'.kind = "resolve" /\ errand'.routes = errand.routes
          /\ errand'.base = errand.base
      BY <2>1, <3>1 DEF Errands
    <3>3. Facts(errand')
      BY <2>1, <2>2, <2>5, <3>2 DEF Facts
    <3>4. QED
      BY <2>1, <3>1, <3>2, <3>3, GoesOn
  <2>6. QED
    BY <2>3, <2>4, <2>5
<1>6. CASE RecordUnreadable
  <2>1. Concludes("resolve", Nobody, "threw")
    BY <1>6 DEF RecordUnreadable
  <2>2. ErrandsConcludeTruly'
    BY <2>1, ConcludesResolved
  <2>3. QED
    BY <2>1, <2>2, Concluded DEF Concludes
<1>7. CASE UseConfigured
  <2>1. Facts(errand) /\ errand.kind = "resolve" /\ errand.step = "configured"
    BY <1>7, SomeErrand DEF UseConfigured
  <2>2. \/ Concludes("resolve", Configured, "unresolved")
        \/ Concludes("resolve", Configured, "configured")
    BY <1>7 DEF UseConfigured
  <2>3. ErrandsConcludeTruly'
    BY <2>1, <2>2, ConcludesResolved DEF Facts
  <2>4. QED
    BY <2>2, <2>3, Concluded DEF Concludes
<1>8. QED
  BY <1>2, <1>3, <1>4, <1>5, <1>6, <1>7 DEF ResolveEphemeralEndpoint

-----------------------------------------------------------------------------
(* The searches.  A verdict of FRESH needs both answers to be the          *)
(* checkout's; an unanswered question is never one of them.                *)
LEMMA FreshVerdict ==
  ASSUME NEW b, NEW r
  PROVE  FreshnessVerdict(b, r) = "FRESH" => b = "checkout" /\ r = "checkout"
BY DEF FreshnessVerdict

(* Only rollups are asked.                                                 *)
LEMMA CandidatesAreRollups ==
  ASSUME NEW kind \in Searches, NEW routes \in SUBSET Rollups
  PROVE  Candidates(kind, routes) \in SUBSET Rollups
<1>1. \/ Candidates(kind, routes) = ({Configured} \ {Nobody}) \cup routes
      \/ Candidates(kind, routes) = routes
      \/ Candidates(kind, routes) = routes \cap Attested
  BY Zenon DEF Candidates
<1>2. QED
  BY <1>1, RoutingAssumption DEF Nobody

LEMMA SearchKeeps ==
  ASSUME RoutingInv, Search
  PROVE  RoutingInv'
<1>1. /\ net \in Nets /\ net.base \in Builds /\ net.listed \in SUBSET Rollups
      /\ net.cached \in [Rollups -> Builds]
  BY DEF RoutingInv, Nets
<1>2. ASSUME NEW kind \in Searches, StartSearch(kind) PROVE RoutingInv'
  <2>1. PICK routes \in {net.listed, {}} :
          Continues([Begins(kind, IF kind \in AsksBaseOnce THEN "base" ELSE "poll")
                       EXCEPT !.todo = Candidates(kind, routes),
                              !.routes = Candidates(kind, routes)])
    BY <1>2 DEF StartSearch
  <2>2. Candidates(kind, routes) \in SUBSET Rollups
    BY <1>1, <2>1, CandidatesAreRollups
  <2>3. PICK todo \in SUBSET Rollups, step \in {"base", "poll"} :
          /\ step = "poll" => kind \notin AsksBaseOnce
          /\ errand' = [kind |-> kind, step |-> step, routes |-> todo,
                        failed |-> FALSE, base |-> "unasked", todo |-> todo,
                        round |-> 1, truths |-> Truths]
          /\ UNCHANGED <<net, outcome>>
    BY <2>1, <2>2 DEF Continues, Begins
  <2>4. errand' \in Errands /\ errand'.truths = Truths
    BY <1>1, <2>3, TruthsNow DEF Errands
  <2>5. Facts(errand')
    BY <2>3 DEF Facts, Searches, AsksBaseOnce
  <2>6. QED
    BY <2>3, <2>4, <2>5, GoesOn
<1>3. CASE AskBase
  <2>1. /\ errand \in Errands /\ Truths \subseteq errand.truths /\ Facts(errand)
        /\ errand.kind \in AsksBaseOnce /\ errand.kind \in Searches
    BY <1>3, SomeErrand DEF AskBase, AsksBaseOnce, Searches
  <2>2. PICK answer \in May(net.base) :
          \/ Concludes("await", Nobody, "stopped")
          \/ /\ Continues([errand EXCEPT !.step = "poll", !.base = answer])
             /\ errand.kind = "await" => answer = "checkout"
    BY <1>3 DEF AskBase
  <2>3. CASE Concludes("await", Nobody, "stopped")
    <3>1. ErrandsConcludeTruly'
      BY <2>3, ConcludesNothing DEF Searches
    <3>2. QED
      BY <2>3, <3>1, Concluded DEF Concludes
  <2>4. CASE /\ Continues([errand EXCEPT !.step = "poll", !.base = answer])
             /\ errand.kind = "await" => answer = "checkout"
    <3>1. /\ errand' = [errand EXCEPT !.step = "poll", !.base = answer]
          /\ UNCHANGED <<net, outcome>>
      BY <2>4 DEF Continues
    <3>2. /\ answer \in Builds \cup {Nobody}
          /\ answer = "checkout" => <<"base", "checkout">> \in errand.truths
      BY <1>1, <2>1, <2>2, TruthsNow DEF May, Nobody
    <3>3. /\ errand' \in Errands /\ errand'.truths = errand.truths
          /\ errand'.kind = errand.kind /\ errand'.base = answer
      BY <2>1, <3>1, <3>2 DEF Errands
    <3>4. Facts(errand')
      BY <2>1, <2>4, <3>2, <3>3 DEF Facts, AsksBaseOnce
    <3>5. QED
      BY <2>1, <3>1, <3>3, <3>4, GoesOn
  <2>5. QED
    BY <2>2, <2>3, <2>4
<1>4. CASE AskBaseForCheck
  <2>1. /\ errand \in Errands /\ Truths \subseteq errand.truths
        /\ errand.kind = "per"
    BY <1>4, SomeErrand DEF AskBaseForCheck, Searches
  <2>2. PICK answer \in May(net.base) :
          errand' = [errand EXCEPT !.base = answer] /\ UNCHANGED <<net, outcome>>
    BY <1>4 DEF AskBaseForCheck, Continues
  <2>3. /\ answer \in Builds \cup {Nobody}
        /\ answer = "checkout" => <<"base", "checkout">> \in errand.truths
    BY <1>1, <2>1, <2>2, TruthsNow DEF May, Nobody
  <2>4. /\ errand' \in Errands /\ errand'.truths = errand.truths
        /\ errand'.kind = "per" /\ errand'.base = answer
    BY <2>1, <2>2, <2>3 DEF Errands
  <2>5. Facts(errand')
    BY <2>3, <2>4 DEF Facts
  <2>6. QED
    BY <2>1, <2>2, <2>4, <2>5, GoesOn
<1>5. CASE AskRollup
  <2>1. /\ errand \in Errands /\ Truths \subseteq errand.truths /\ Facts(errand)
        /\ errand.kind \in Searches /\ errand.step = "poll"
    BY <1>5, SomeErrand DEF AskRollup
  <2>2. PICK r \in NextCandidates : \E answer \in May(net.cached[r]) :
          \/ /\ Concludes(errand.kind, r, "fresh")
             /\ Current(answer)
          \/ Continues([[errand EXCEPT !.todo = errand.todo \ {r}]
                          EXCEPT !.base = "unasked"])
               /\ errand.kind = "per"
          \/ Continues([errand EXCEPT !.todo = errand.todo \ {r}])
    BY <1>5 DEF AskRollup
  <2>3. r \in Rollups
    BY <2>1, <2>2 DEF NextCandidates, Errands
  <2>4. PICK answer \in May(net.cached[r]) :
          \/ /\ Concludes(errand.kind, r, "fresh")
             /\ Current(answer)
          \/ Continues([[errand EXCEPT !.todo = errand.todo \ {r}]
                          EXCEPT !.base = "unasked"])
               /\ errand.kind = "per"
          \/ Continues([errand EXCEPT !.todo = errand.todo \ {r}])
    BY <2>2
  <2>5. CASE Concludes(errand.kind, r, "fresh") /\ Current(answer)
    <3>1. /\ answer = "checkout"
          /\ errand.kind \in {"await", "per"} => errand.base = "checkout"
      BY <2>1, <2>5, FreshVerdict DEF Current, Facts
    <3>2. <<r, "checkout">> \in errand.truths
      BY <1>1, <2>1, <2>3, <2>4, <3>1, TruthsNow DEF May, Nobody
    <3>3. errand.kind \in {"await", "per"} =>
            <<"base", "checkout">> \in errand.truths
      BY <2>1, <3>1 DEF Facts
    <3>4. ErrandsConcludeTruly'
      BY <2>1, <2>5, <3>2, <3>3, ConcludesFresh
    <3>5. QED
      BY <2>5, <3>4, Concluded DEF Concludes
  <2>6. CASE /\ Continues([[errand EXCEPT !.todo = errand.todo \ {r}]
                             EXCEPT !.base = "unasked"])
             /\ errand.kind = "per"
    <3>1. /\ errand' = [[errand EXCEPT !.todo = errand.todo \ {r}]
                          EXCEPT !.base = "unasked"]
          /\ UNCHANGED <<net, outcome>>
      BY <2>6 DEF Continues
    <3>2. /\ errand' \in Errands /\ errand'.truths = errand.truths
          /\ errand'.kind = "per" /\ errand'.base = "unasked"
      BY <2>1, <2>6, <3>1 DEF Errands
    <3>3. Facts(errand')
      BY <3>2 DEF Facts
    <3>4. QED
      BY <2>1, <3>1, <3>2, <3>3, GoesOn
  <2>7. CASE Continues([errand EXCEPT !.todo = errand.todo \ {r}])
    <3>1. /\ errand' = [errand EXCEPT !.todo = errand.todo \ {r}]
          /\ UNCHANGED <<net, outcome>>
      BY <2>7 DEF Continues
    <3>2. /\ errand' \in Errands /\ errand'.truths = errand.truths
          /\ errand'.kind = errand.kind /\ errand'.base = errand.base
          /\ errand'.step = errand.step /\ errand'.routes = errand.routes
      BY <2>1, <3>1 DEF Errands
    <3>3. Facts(errand')
      BY <2>1, <3>2 DEF Facts
    <3>4. QED
      BY <2>1, <3>1, <3>2, <3>3, GoesOn
  <2>8. QED
    BY <2>4, <2>5, <2>6, <2>7
<1>6. CASE OutOfCandidates
  <2>1. /\ errand \in Errands /\ Truths \subseteq errand.truths /\ Facts(errand)
        /\ errand.kind \in Searches
    BY <1>6, SomeErrand DEF OutOfCandidates
  <2>2. \/ Concludes(errand.kind, Nobody, "stale")
        \/ Continues([errand EXCEPT !.todo = errand.routes,
                                    !.round = errand.round + 1])
    BY <1>6 DEF OutOfCandidates
  <2>3. CASE Concludes(errand.kind, Nobody, "stale")
    <3>1. ErrandsConcludeTruly'
      BY <2>1, <2>3, ConcludesNothing
    <3>2. QED
      BY <2>3, <3>1, Concluded DEF Concludes
  <2>4. CASE Continues([errand EXCEPT !.todo = errand.routes,
                                      !.round = errand.round + 1])
    <3>1. /\ errand' = [errand EXCEPT !.todo = errand.routes,
                                     !.round = errand.round + 1]
          /\ UNCHANGED <<net, outcome>>
      BY <2>4 DEF Continues
    <3>2. errand.round + 1 \in Nat /\ errand.routes \in SUBSET Rollups
      BY <2>1 DEF Errands
    <3>3. /\ errand' \in Errands /\ errand'.truths = errand.truths
          /\ errand'.kind = errand.kind /\ errand'.base = errand.base
          /\ errand'.step = errand.step /\ errand'.routes = errand.routes
      BY <2>1, <3>1, <3>2 DEF Errands
    <3>4. Facts(errand')
      BY <2>1, <3>3 DEF Facts
    <3>5. QED
      BY <2>1, <3>1, <3>3, <3>4, GoesOn
  <2>5. QED
    BY <2>2, <2>3, <2>4
<1>7. QED
  BY <1>2, <1>3, <1>4, <1>5, <1>6 DEF Search

-----------------------------------------------------------------------------
(* The worker: no endpoint is asked in a plan for what it would refuse.    *)
LEMMA PlansAnswer ==
  ASSUME NEW m \in Methods, m \notin FallbackMethods, NEW reply \in Plan(m)
  PROVE  reply \in {"known words", "answer"}
<1>1. Plan(m) = {"known words"} \/ Plan(m) = {"answer"}
  BY Zenon DEF Plan, FallbackMethods
<1>2. QED
  BY <1>1

LEMMA ProxyKeeps ==
  ASSUME RoutingInv, ProxyRpc
  PROVE  RoutingInv'
<1>1. UNCHANGED <<net, errand>> /\ Underway'
  BY DEF ProxyRpc, RoutingInv, Underway, Truths
<1>2. PICK batch \in SUBSET Methods :
        \/ ~(batch \subseteq AllowedMethods) /\ outcome' = Served(batch, "403")
        \/ batch \subseteq AllowedMethods /\ outcome' = Served(batch, "answer")
        \/ /\ batch \subseteq AllowedMethods /\ ~GoesToFallback(batch)
           /\ \E m \in batch : \E reply \in Plan(m) :
                outcome' = Served(batch, IF reply = "known words"
                                           THEN "answer" ELSE reply)
  BY DEF ProxyRpc
<1>3. \/ ~(batch \subseteq AllowedMethods) /\ outcome' = Served(batch, "403")
      \/ batch \subseteq AllowedMethods /\ outcome' = Served(batch, "answer")
  <2>1. ASSUME NEW m \in batch, NEW reply \in Plan(m), ~GoesToFallback(batch)
        PROVE  (IF reply = "known words" THEN "answer" ELSE reply) = "answer"
    <3>1. m \in Methods /\ m \notin FallbackMethods
      BY <1>2, <2>1 DEF GoesToFallback
    <3>2. QED
      BY <2>1, <3>1, PlansAnswer
  <2>2. QED
    BY <1>2, <2>1
<1>4. ErrandsConcludeTruly'
  BY <1>3 DEF Served, ErrandsConcludeTruly, ResolvedAtHome,
     FreshMeansThisCheckout, ScansAreAnswered, Searches
<1>5. QED
  BY <1>1, <1>4 DEF RoutingInv

(* Whatever the network does between two questions: an endpoint is where   *)
(* the account was delegated while it was asked for, a fresh rollup ran    *)
(* the checkout, and a scan is answered (routing.ts, freshness.ts, the     *)
(* worker).                                                                *)
THEOREM ErrandsAlwaysConcludeTruly ==
  RoutingInit /\ [][RoutingNext]_routingVars => []ErrandsConcludeTruly
<1>1. RoutingInit => RoutingInv
  BY DEF RoutingInit, RoutingInv, Nets, Builds, Underway, NoOutcome,
     ErrandsConcludeTruly, ResolvedAtHome, FreshMeansThisCheckout,
     ScansAreAnswered, Searches
<1>2. RoutingInv /\ [RoutingNext]_routingVars => RoutingInv'
  <2> SUFFICES ASSUME RoutingInv, [RoutingNext]_routingVars
               PROVE  RoutingInv'
    OBVIOUS
  <2>1. CASE UNCHANGED routingVars
    BY <2>1 DEF routingVars, RoutingInv, Underway, Truths,
       ErrandsConcludeTruly, ResolvedAtHome, FreshMeansThisCheckout,
       ScansAreAnswered
  <2>2. QED
    BY <2>1, MovesKeep, ResolveKeeps, SearchKeeps, ProxyKeeps DEF RoutingNext
<1>3. RoutingInv => ErrandsConcludeTruly
  BY DEF RoutingInv
<1>4. QED
  BY <1>1, <1>2, <1>3, PTL
=============================================================================
