------------------------------ MODULE Formation ------------------------------
(***************************************************************************)
(* A covenant formed from the web application, and one browser tab that    *)
(* looks at it while everybody else goes on with tooling of their own.     *)
(*                                                                         *)
(* The tab shows what its last poll read, in several round trips, of a     *)
(* chain that moves meanwhile; its buttons act on what is shown.  A poll   *)
(* that is in flight when the wallet changes is not cancelled: it finishes *)
(* for the former wallet, and re-arms its own timer (useChain.ts).         *)
(***************************************************************************)
EXTENDS Covenant, Sequences

CONSTANTS
  Tab,         \* protocols whose wallet may connect in the tab
  NoWallet,    \* no wallet connected
  Named,       \* the members the steward's page names, in this order
  ScriptRoles  \* the roles its script gives to others

ASSUME FormationAssumption ==
  /\ Tab \subseteq Protocols /\ NoWallet \notin Protocols
  /\ Named \in Seq(Protocols) /\ ScriptRoles \subseteq Roles

VARIABLES
  naming,    \* what ConveneAction still has to name
  incident,  \* the covenant's first incident, and its base-layer image
  wallet,    \* the wallet connected in the tab
  view,      \* what useCovenants last handed to the page
  loop       \* the polling loop started for each wallet

tabVars == <<wallet, view, loop>>
formationVars == <<covenantVars, naming, incident, tabVars>>

Wallets == Tab \cup {NoWallet}
Tooled == Protocols \ Tab
NamedHere == {Named[i] : i \in DOMAIN Named}

NoIncident == [place |-> "none", status |-> "None", image |-> "None",
               written |-> FALSE]

(* What a page makes of the member list: the rows of the tab's wallets,    *)
(* and whether the list is not empty and all of it armed.                  *)
List == [rows |-> [p \in Tab |-> member[p]],
         allArmed |-> Joined # {} /\ Joined = Armed]
EmptyList == [rows |-> [p \in Tab |-> NoMember], allArmed |-> FALSE]
NotShown == [for |-> NoWallet, shown |-> FALSE, status |-> "None",
             member_set |-> {}, members |-> EmptyList, image |-> "None"]
Off == [stage |-> "off", orphan |-> FALSE, found |-> FALSE, status |-> "None",
        member_set |-> {}, scanned |-> FALSE, members |-> EmptyList]
Waiting(l) == [Off EXCEPT !.stage = "waiting", !.orphan = l.orphan]

FormationInit ==
  /\ CovenantInit
  /\ naming = <<>>
  /\ incident = NoIncident
  /\ wallet = NoWallet
  /\ view = NotShown
  /\ loop = [[w \in Wallets |-> Off] EXCEPT ![NoWallet] = Waiting(Off)]

-----------------------------------------------------------------------------
(* The steward's page.  A refused call ends the naming for good: another   *)
(* attempt convenes another covenant.                                      *)
Convene(threshold) ==
  /\ CreateCovenant(threshold)
  /\ naming' = Named
  /\ UNCHANGED <<incident, tabVars>>

NameNext ==
  /\ naming # <<>>
  /\ AddCovenantMember(Head(naming), "Protocol")
  /\ naming' = Tail(naming)
  /\ UNCHANGED <<incident, tabVars>>

NamingRefused ==
  /\ naming # <<>>
  /\ \/ covenant.status # "Draft"
     \/ member[Head(naming)].exists
     \/ covenant.member_count = MaxMembers
  /\ naming' = <<>>
  /\ UNCHANGED <<covenantVars, incident, tabVars>>

(* Everybody else: protocols with their own tooling, the steward's script  *)
(* naming whoever is not on the page's list, and the two calls that are    *)
(* anybody's.  Their capabilities are module Adapter's; the epoch's end    *)
(* only refuses what may as well not be called.                            *)
Tooling ==
  /\ \/ \E p \in Protocols \ NamedHere, role \in ScriptRoles :
          AddCovenantMember(p, role)
     \/ \E p \in Tooled :
          \/ RatifyCovenantMember(p)
          \/ ArmCovenantMember(p)
     \/ \E supplied \in SUBSET Protocols : RatifyCovenant(supplied)
     \/ ArmCovenant
  /\ UNCHANGED <<naming, incident, tabVars>>

-----------------------------------------------------------------------------
(* The incident, as far as a page can tell: where its core lives, what     *)
(* the core says, and what the base layer shows of it.  Its calls go to    *)
(* the rollup, as the client sends them; other routes are Incident's.      *)
Becomes(i) == incident' = i /\ UNCHANGED <<covenantVars, naming, tabVars>>

OpenedUnderCovenant(p) ==
  /\ incident = NoIncident
  /\ InitializeIncident(p)
  /\ incident' = [NoIncident EXCEPT !.place = "base", !.status = "Draft",
                                    !.image = "Draft"]
  /\ UNCHANGED <<naming, tabVars>>

DelegateIncident ==
  /\ incident.place = "base"
  /\ Becomes([incident EXCEPT !.place = "rollup"])

OpenIncident ==
  /\ incident.place = "rollup" /\ incident.status = "Draft"
  /\ Becomes([incident EXCEPT !.status = "Collecting"])

(* A claim or a ballot: the protected bytes of the family.                 *)
WriteProtected ==
  /\ incident.status = "Collecting" /\ ~incident.written
  /\ Becomes([incident EXCEPT !.written = TRUE])

Settle ==
  /\ incident.status = "Collecting"
  /\ Becomes([incident EXCEPT !.status = "Terminal"])

Scrub ==
  /\ incident.status = "Terminal" /\ incident.written
  /\ Becomes([incident EXCEPT !.written = FALSE])

(* gated_exit_accounts: a checkpoint at any status, a release of a settled *)
(* incident, and neither while protected bytes are written.                *)
Exit ==
  /\ incident.place = "rollup" /\ ~incident.written
  /\ \/ Becomes([incident EXCEPT !.image = incident.status])
     \/ /\ incident.status = "Terminal"
        /\ Becomes([incident EXCEPT !.image = "Terminal", !.place = "base"])

-----------------------------------------------------------------------------
(* useCovenants, one round trip at a time.                                 *)
Loops(w, l) ==
  /\ loop' = [loop EXCEPT ![w] = l]
  /\ UNCHANGED <<covenantVars, naming, incident, wallet>>

(* The covenants in view are those whose membership names the wallet.  A   *)
(* node that refuses the scan degrades the list to no members.             *)
StartRead(w, serves) ==
  /\ loop[w].stage = "waiting"
  /\ Loops(w, [loop[w] EXCEPT !.stage = "reading", !.scanned = ~serves,
                              !.found = w # NoWallet /\ member[w].exists])
  /\ UNCHANGED view

ReadCovenant(w) ==
  /\ loop[w].stage = "reading" /\ loop[w].found /\ loop[w].status = "None"
  /\ Loops(w, [loop[w] EXCEPT !.status = covenant.status,
                              !.member_set = covenant.member_set])
  /\ UNCHANGED view

ScanMembers(w) ==
  /\ loop[w].stage = "reading" /\ loop[w].found /\ ~loop[w].scanned
  /\ Loops(w, [loop[w] EXCEPT !.scanned = TRUE, !.members = List])
  /\ UNCHANGED view

ReadIncident(w) ==
  /\ loop[w].stage = "reading"
  /\ loop[w].found => loop[w].status # "None" /\ loop[w].scanned
  /\ view' = [for |-> w, shown |-> loop[w].found, status |-> loop[w].status,
              member_set |-> loop[w].member_set, members |-> loop[w].members,
              image |-> IF loop[w].found THEN incident.image ELSE "None"]
  /\ Loops(w, Waiting(loop[w]))

(* A read that fails shows an error in place of the page.                  *)
ReadFails(w) ==
  /\ loop[w].stage = "waiting"
  /\ view' = NotShown
  /\ UNCHANGED <<covenantVars, naming, incident, wallet, loop>>

(* The wallet changes: the effect of the former one clears its timer, but  *)
(* not its read; the page keeps what it shows.                             *)
Left(l) ==
  IF l.stage = "reading" \/ l.orphan THEN [l EXCEPT !.orphan = TRUE] ELSE Off

(* Mutant of ChangeWallet: the effect of the new wallet is not run.        *)
ChangeWallet_NoEffect(w) ==
  /\ w # wallet
  /\ wallet' = w
  /\ loop' = [loop EXCEPT ![wallet] = Left(@)]
  /\ UNCHANGED <<covenantVars, naming, incident, view>>

ChangeWallet(w) ==
  /\ w # wallet
  /\ wallet' = w
  /\ loop' = [loop EXCEPT ![wallet] = Left(@),
                          ![w] = IF @.stage = "off" THEN Waiting(@) ELSE @]
  /\ UNCHANGED <<covenantVars, naming, incident, view>>

-----------------------------------------------------------------------------
(* Mutant of ReadyIn: the covenant's own status is not asked for.          *)
ReadyIn_AnyStatus(v) == v.members.allArmed

ReadyIn(v) == v.status = "Armed" /\ v.members.allArmed

(* describeReadiness, on the card of the wallet's role: when every row is  *)
(* armed it says "Every protocol has ratified and armed. The covenant is   *)
(* ready.", and it does not ask for the covenant's status at all.          *)
SaysReady(v) == v.shown /\ v.members.allArmed

IsMember(v) == v.for # NoWallet /\ v.members.rows[v.for].exists

(* needsAttention: the incidents a member is told to answer.               *)
NeedsAttention(v) == v.shown /\ IsMember(v) /\ v.image = "Collecting"

(* The row of the connected wallet, whoever the view was read for.         *)
MyRow == view.members.rows[wallet]
RowShown == wallet # NoWallet /\ view.shown /\ MyRow.exists

RatifyOwn ==
  /\ RowShown /\ ~MyRow.ratified /\ ~MyRow.armed
  /\ RatifyCovenantMember(wallet)
  /\ UNCHANGED <<naming, incident, tabVars>>

(* The commitment put into the capability is the one on the page.          *)
ArmOwn ==
  /\ RowShown /\ MyRow.ratified /\ ~MyRow.armed
  /\ ArmTogether(wallet, view.member_set)
  /\ UNCHANGED <<naming, incident, tabVars>>

FormationNext ==
  \/ \E threshold \in Thresholds : Convene(threshold)
  \/ NameNext \/ NamingRefused
  \/ Tooling
  \/ \E p \in Protocols : OpenedUnderCovenant(p)
  \/ DelegateIncident \/ OpenIncident \/ WriteProtected \/ Settle \/ Scrub \/ Exit
  \/ \E w \in Wallets :
       \/ \E serves \in BOOLEAN : StartRead(w, serves)
       \/ ReadCovenant(w) \/ ScanMembers(w) \/ ReadIncident(w) \/ ReadFails(w)
       \/ ChangeWallet(w)
  \/ RatifyOwn \/ ArmOwn

(* A timer fires, a round trip ends, and now and again the node serves a   *)
(* whole read.                                                             *)
Polling(w) ==
  /\ SF_formationVars(StartRead(w, TRUE))
  /\ WF_formationVars(ReadCovenant(w))
  /\ WF_formationVars(ScanMembers(w))
  /\ WF_formationVars(ReadIncident(w))

FormationSpec ==
  FormationInit /\ [][FormationNext]_formationVars
    /\ \A w \in Wallets : Polling(w)

-----------------------------------------------------------------------------
(* A page that calls the covenant ready is right, however old its reads    *)
(* and whatever moved between them: the covenant is armed and every        *)
(* member's arming is recorded (useCovenants, `ready').                    *)
ReadyIsTruthful ==
  ReadyIn(view) => covenant.status = "Armed" /\ Joined = Armed

(* Of the card's sentence the first half is right: every member has        *)
(* ratified and armed, in a circle that is frozen.  The second half is     *)
(* not: the covenant may still be Ratified, and then opens no incident     *)
(* (describeReadiness, initialize_incident).                               *)
ArmedIsTruthful ==
  SaysReady(view) => /\ covenant.status \in {"Ratified", "Armed"}
                     /\ Joined = Ratified /\ Joined = Armed

(* From the page, a capability exists exactly when its authority's arming  *)
(* is recorded, and is bound to the frozen circle or, through a page read  *)
(* before the freeze, to no circle at all: never to another one            *)
(* (armOwnAdapter, MemberAction).                                          *)
BoundOrUnbound ==
  \A p \in Tab :
    /\ capability[p].installed <=> member[p].armed
    /\ capability[p].armed <=> member[p].armed
    /\ capability[p].installed =>
         capability[p].member_set \in {{}, covenant.member_set}

(* A page that labels the ballots scrubbed is right: nothing protected is  *)
(* left by the time the base layer shows a settled core (IncidentRoom,     *)
(* gated_exit_accounts).                                                   *)
ScrubbedIsScrubbed ==
  view.image = "Terminal" => ~incident.written

(* However torn, stale or orphaned its reads are, the chain bears out the   *)
(* page's mark "Ready", its count of ratified and armed protocols and its   *)
(* word that ballots are scrubbed, and what its member signs binds the      *)
(* capability to no circle but the frozen one.  Its sentence "The covenant  *)
(* is ready" is not among them: see ArmedIsTruthful.                        *)
ClaimsAreBorneOut ==
  ReadyIsTruthful /\ ArmedIsTruthful /\ BoundOrUnbound /\ ScrubbedIsScrubbed

(* A member that stays connected is shown its membership, whatever changed *)
(* the wallet before (usePolled).                                          *)
MembershipIsShown ==
  \A p \in Tab :
    [](wallet = p /\ member[p].exists
         => <>(wallet # p \/ view.members.rows[p].exists))

(* "Incidents that need somebody to act" (needsAttention): a connected     *)
(* member is told of an incident that goes on collecting.                  *)
Offered ==
  \A p \in Tab :
    [](wallet = p /\ member[p].exists /\ incident.status = "Collecting"
         => <>(\/ wallet # p \/ incident.status # "Collecting"
               \/ NeedsAttention(view)))
=============================================================================
