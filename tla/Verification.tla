----------------------------- MODULE Verification -----------------------------
(***************************************************************************)
(* verifyOperation: the accounts a run artifact names are read from a      *)
(* cluster that keeps moving, and an operation is VERIFIED when its        *)
(* identity is the honest derivation of terms the members agreed to and    *)
(* every account carries it.  What was delivered is reported beside it.    *)
(*                                                                         *)
(* The artifact may be about another run, may mix runs, may list fewer     *)
(* adapter receipts than there are, or none, and may name accounts that    *)
(* do not exist.  The verifier decodes what it is given and looks at no    *)
(* account's owner, so an address may also be Elsewhere: an account none   *)
(* of the repository's programs wrote, whose contents are anything.  The   *)
(* chain is reduced to what a reader of the base layer sees.               *)
(***************************************************************************)
EXTENDS Integers, FiniteSets

CONSTANTS
  Runs,           \* incidents somebody may have an artifact of
  Elsewhere,      \* an account no program of the repository wrote
  Targets,        \* the adapters, and the labels of their receipts
  Required, MostRejections,  \* the covenant's threshold
  MostBallots     \* bound: ballots of either kind counted for one incident

ASSUME VerificationAssumption == Elsewhere \notin Runs \cup (Runs \X Targets)

VARIABLES base, artifact, coreSeen, report
verifyVars == <<base, artifact, coreSeen, report>>

NoOperation == <<"zero", 0, 0>>
Unseen == [status |-> "unseen"]
Gone == [status |-> "gone"]
NoReport == [verified |-> FALSE, finalized |-> FALSE, executed |-> {}]

(* The canonical derivation: frozen terms and the slot of the count.       *)
Derived(run, certifiedAt) == <<"operation", run, certifiedAt>>

-----------------------------------------------------------------------------
(* The base layer.                                                         *)

Absent == [status |-> "absent"]
DraftCore == [status |-> "draft", at |-> 0, operation |-> NoOperation,
              approvals |-> 0, rejections |-> 0]

OpenRun(i) ==
  /\ base[i].core = Absent
  /\ base' = [base EXCEPT ![i].core = DraftCore]

(* The released core: certified with its operation, or expired or rejected *)
(* without one.  While the incident is on the rollup the base keeps Draft. *)
ReleaseCore(i, approvals, rejections) ==
  LET certified == approvals >= Required /\ rejections <= MostRejections IN
  /\ base[i].core = DraftCore
  /\ base' = [base EXCEPT ![i].core =
       [status |-> IF certified THEN "certified" ELSE "closed",
        at |-> IF certified THEN 1 ELSE 0,
        operation |-> IF certified THEN Derived(i, 1) ELSE NoOperation,
        approvals |-> approvals, rejections |-> rejections]]

PublishRun(i) ==
  /\ base[i].core.status = "certified" /\ ~base[i].certificate
  /\ base' = [base EXCEPT ![i].certificate = TRUE]

CreateSettlementReceipt(i) ==
  /\ base[i].certificate /\ base[i].receipt = "absent"
  /\ base' = [base EXCEPT ![i].receipt = "open"]

(* For an operation id, at any time: no certificate is asked for.          *)
CreateAdapterReceipt(i, t) ==
  /\ base[i].adapters[t] = "absent"
  /\ base' = [base EXCEPT ![i].adapters[t] = "empty"]

SettleRun(i) ==
  /\ base[i].receipt = "open" /\ base' = [base EXCEPT ![i].receipt = "final"]
ExecuteRun(i, t) ==
  /\ base[i].certificate /\ base[i].adapters[t] = "empty"
  /\ base' = [base EXCEPT ![i].adapters[t] = "executed"]

ChainMoves ==
  /\ \E i \in Runs :
       \/ OpenRun(i) \/ PublishRun(i) \/ CreateSettlementReceipt(i) \/ SettleRun(i)
       \/ \E a, r \in 0..MostBallots : ReleaseCore(i, a, r)
       \/ \E t \in Targets : CreateAdapterReceipt(i, t) \/ ExecuteRun(i, t)
  /\ UNCHANGED <<artifact, coreSeen, report>>

-----------------------------------------------------------------------------
(* The verifier.                                                           *)

Receipts == Runs \X Targets

(* The adapter receipts are listed under labels, as many as there are.     *)
Artifacts ==
  [core : Runs \cup {Elsewhere}, certificate : Runs \cup {Elsewhere},
   receipt : Runs \cup {Elsewhere},
   adapters : UNION {[labels -> Receipts \cup {Elsewhere}] :
                       labels \in SUBSET Targets}]

TakeArtifact(a) ==
  /\ artifact = << >> /\ artifact' = a
  /\ UNCHANGED <<base, coreSeen, report>>

(* The terms an incident froze that are compared with its covenant's.      *)
FrozenTerms ==
  {"policy", "memberSet", "template", "epoch", "cluster", "threshold"}

(* A core with the covenant it names, as decoded: whose terms it carries,  *)
(* which of them the covenant puts otherwise, and what is required there.  *)
Claim(core, of) ==
  [core |-> core, of |-> of, changed |-> {}, required |-> Required]

(* What an account nobody here wrote may say of itself, and of an incident *)
(* or of none: all that is asked, or one thing amiss.                      *)
Claims ==
  UNION {LET right == Claim([status |-> "certified", at |-> 1,
                             operation |-> Derived(of, 1),
                             approvals |-> Required, rejections |-> 0], of)
         IN {right, [right EXCEPT !.core = Absent],
             [right EXCEPT !.core.status = "draft"],
             [right EXCEPT !.core.operation = NoOperation],
             [right EXCEPT !.core.approvals = 0],
             [right EXCEPT !.core.approvals = 0, !.required = 0]}
            \cup {[right EXCEPT !.changed = {term}] : term \in FrozenTerms} :
         of \in Runs \cup {Elsewhere}}

(* An incident copies its covenant's terms when it is opened.              *)
CoreReadings ==
  IF artifact.core \in Runs THEN {Claim(base[artifact.core].core, artifact.core)}
  ELSE Claims

(* The derivation takes every frozen term but the threshold; with another  *)
(* term it is no operation of an incident of these.                        *)
Identity(c) == IF c.changed \subseteq {"threshold"} THEN c.of ELSE Elsewhere

(* The checks of the core alone, in the order of the code.                 *)
CoreChecks(c) ==
  /\ \A term \in FrozenTerms : term \notin c.changed
  /\ c.core.approvals >= c.required
  /\ c.core.operation = Derived(Identity(c), c.core.at)
  /\ c.core.status # "draft"

(* The core and its covenant are read first; one that is not there ends    *)
(* the verification.                                                       *)
ReadCore ==
  /\ artifact # << >> /\ coreSeen = Unseen
  /\ \E c \in CoreReadings :
       coreSeen' =
         IF c.core = Absent THEN Gone
         ELSE [status |-> "read", passed |-> CoreChecks(c), of |-> Identity(c),
               derived |-> Derived(Identity(c), c.core.at),
               approvals |-> c.core.approvals,
               rejections |-> c.core.rejections]
  /\ UNCHANGED <<base, artifact, report>>

(* The certificate is there, carries the derived operation and the core's  *)
(* terms, was issued by the account read as the core, and repeats its      *)
(* counts.                                                                 *)
CertificateChecks(run) ==
  /\ base[run].certificate
  /\ base[run].core.operation = coreSeen.derived
  /\ run = coreSeen.of
  /\ run = artifact.core
  /\ base[run].core.approvals = coreSeen.approvals
  /\ base[run].core.rejections = coreSeen.rejections

(* Mutant of Bound: a receipt that exists is taken for this operation's.   *)
Bound_Exists(there, run) == there

(* A receipt that is there and carries the derived operation.              *)
Bound(there, run) == there /\ Derived(run, 1) = coreSeen.derived

SettlementBound(run) == Bound(base[run].receipt # "absent", run)

AdapterBound(r) == Bound(base[r[1]].adapters[r[2]] # "absent", r[1])

(* Every account of the artifact but the core that a program here wrote.   *)
OwnChecks ==
  /\ artifact.certificate \in Runs => CertificateChecks(artifact.certificate)
  /\ artifact.receipt \in Runs => SettlementBound(artifact.receipt)
  /\ \A label \in DOMAIN artifact.adapters :
       artifact.adapters[label] \in Receipts =>
         AdapterBound(artifact.adapters[label])

AllOurs ==
  /\ artifact.certificate \in Runs /\ artifact.receipt \in Runs
  /\ \A label \in DOMAIN artifact.adapters : artifact.adapters[label] \in Receipts

(* All remaining accounts come in one read.  Those that are Elsewhere pass *)
(* or fail (missing, or of another operation), and say they delivered or   *)
(* not, as their author likes; one that cannot be decoded throws, and      *)
(* there is no report.                                                     *)
ReadTheRest ==
  /\ coreSeen.status = "read" /\ report = NoReport
  /\ \E pass \in {TRUE, AllOurs}, final \in BOOLEAN, done \in SUBSET Targets :
       report' =
         [verified |-> coreSeen.passed /\ OwnChecks /\ pass,
          finalized |-> IF artifact.receipt \in Runs
                        THEN base[artifact.receipt].receipt = "final" ELSE final,
          executed |-> {label \in DOMAIN artifact.adapters :
                          LET r == artifact.adapters[label]
                          IN IF r \in Receipts
                             THEN base[r[1]].adapters[r[2]] = "executed"
                             ELSE label \in done}]
  /\ UNCHANGED <<base, artifact, coreSeen>>

VerifyInit ==
  /\ base = [i \in Runs |-> [core |-> Absent, certificate |-> FALSE,
                             receipt |-> "absent",
                             adapters |-> [t \in Targets |-> "absent"]]]
  /\ artifact = << >> /\ coreSeen = Unseen /\ report = NoReport
VerifyNext ==
  \/ ChainMoves \/ ReadCore \/ ReadTheRest
  \/ \E a \in Artifacts : TakeArtifact(a)

-----------------------------------------------------------------------------
(* What VERIFIED says of the accounts the programs own.  A core among them *)
(* was certified under its covenant's threshold.  A certificate among them *)
(* exists and is that core's, so that the core is one of them.  Every      *)
(* receipt among them exists, and is of the core's operation if the core   *)
(* is one of them; what is reported as delivered through them was, under a *)
(* published certificate (operation.ts).  Of an account that is Elsewhere  *)
(* it says nothing.                                                        *)
VerifiedIsOneOperation ==
  report.verified =>
    /\ artifact.core \in Runs =>
         LET core == base[artifact.core].core IN
         /\ core.status = "certified"
         /\ core.approvals >= Required /\ core.rejections <= MostRejections
    /\ artifact.certificate \in Runs =>
         /\ base[artifact.certificate].certificate
         /\ artifact.certificate = artifact.core
    /\ artifact.receipt \in Runs =>
         /\ base[artifact.receipt].receipt # "absent"
         /\ base[artifact.receipt].certificate
         /\ artifact.core \in Runs => artifact.receipt = artifact.core
         /\ report.finalized => base[artifact.receipt].receipt = "final"
    /\ \A label \in DOMAIN artifact.adapters :
         LET r == artifact.adapters[label] IN
         r \in Receipts =>
           /\ base[r[1]].adapters[r[2]] # "absent"
           /\ artifact.core \in Runs => r[1] = artifact.core
           /\ label \in report.executed =>
                /\ base[r[1]].adapters[r[2]] = "executed"
                /\ base[r[1]].certificate
=============================================================================
