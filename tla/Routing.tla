------------------------------- MODULE Routing -------------------------------
(***************************************************************************)
(* Where a request goes, and whether that runtime runs this checkout: the  *)
(* endpoint of a delegated account, the searches for a current rollup, the *)
(* freshness verdict, and the worker that proxies the application's reads. *)
(*                                                                         *)
(* The network moves while it is being asked: programs are upgraded, a     *)
(* rollup keeps the executable it cached, routes come and go, the account  *)
(* moves between rollups, and any question may stay unanswered ("none").   *)
(***************************************************************************)
EXTENDS Integers, FiniteSets

CONSTANTS
  Rollups,        \* rollups a router may advertise
  Attested,       \* those that answer an attestation quote
  Configured,     \* the endpoint of the configuration, or "none"
  Attempts,       \* bound: rounds of polling
  MostMoves       \* bound: how often the network moves

ASSUME RoutingAssumption ==
  Configured \in Rollups \cup {"none"} /\ "none" \notin Rollups

VARIABLES net, moves, errand, outcome
routingVars == <<net, moves, errand, outcome>>

Nobody == "none"
NoErrand == [kind |-> "idle"]
NoOutcome == [kind |-> "idle"]
May(answer) == {answer, Nobody}

-----------------------------------------------------------------------------
(* The network, and what has been true of it since the errand began.       *)

Truths == {<<"base", net.base>>, <<"home", net.home>>}
            \cup {<<r, net.cached[r]>> : r \in Rollups}
Remembered(e) == IF e = NoErrand THEN e
                 ELSE [e EXCEPT !.truths = @ \cup Truths']

Moves ==
  /\ moves < MostMoves /\ moves' = moves + 1
  /\ \/ \E build \in {<<"old", "checkout">>, <<"checkout", "newer">>} :
          net.base = build[1] /\ net' = [net EXCEPT !.base = build[2]]
     \/ \E r \in Rollups :
          \/ net' = [net EXCEPT !.cached[r] = net.base]
          \/ net' = [net EXCEPT !.listed = (@ \cup {r}) \ (@ \cap {r})]
          \/ net.home = Nobody /\ net' = [net EXCEPT !.home = r]
          \/ net.home = r /\ net' = [net EXCEPT !.home = Nobody]
  /\ errand' = Remembered(errand) /\ UNCHANGED outcome

Concludes(kind, endpoint, found) ==
  /\ outcome' = [kind |-> kind, endpoint |-> endpoint, found |-> found,
                 errand |-> errand]
  /\ errand' = NoErrand /\ UNCHANGED <<net, moves>>

Continues(e) == errand' = e /\ UNCHANGED <<net, moves, outcome>>

Begins(kind, step) ==
  [kind |-> kind, step |-> step, routes |-> {}, failed |-> FALSE,
   base |-> "unasked", todo |-> {}, round |-> 1, truths |-> Truths]

-----------------------------------------------------------------------------
(* resolveEphemeralEndpoint.                                               *)

StartResolve ==
  /\ errand = NoErrand /\ outcome = NoOutcome
  /\ \E step \in {"status", "configured"} :   \* with and without a router
       Continues(Begins("resolve", step))

(* A status that carries an endpoint ends the search.                      *)
GetDelegationStatus ==
  /\ errand.kind = "resolve" /\ errand.step = "status"
  /\ \/ net.home # Nobody /\ Concludes("resolve", net.home, "fqdn")
     \/ \E lost \in BOOLEAN :
          Continues([errand EXCEPT !.step = "routes", !.failed = lost])

GetRoutes ==
  /\ errand.kind = "resolve" /\ errand.step = "routes"
  /\ \/ Continues([errand EXCEPT !.step = "record", !.routes = net.listed])
     \/ Continues([errand EXCEPT !.step = "record", !.failed = TRUE])

(* A published table without the account's validator resolves nothing.     *)
AfterRecord(validator, routes) ==
  IF validator = Nobody \/ routes = {} THEN "configured"
  ELSE IF validator \in routes THEN "matched" ELSE "mismatch"

ReadDelegationRecord ==
  /\ errand.kind = "resolve" /\ errand.step = "record"
  /\ LET next == AfterRecord(net.home, errand.routes) IN
     CASE next = "matched" -> Concludes("resolve", net.home, "routes")
       [] next = "mismatch" -> Concludes("resolve", Nobody, "mismatch")
       [] OTHER -> Continues([errand EXCEPT !.step = "configured"])

(* The base layer did not answer: the caller gets the error.               *)
RecordUnreadable ==
  /\ errand.kind = "resolve" /\ errand.step = "record"
  /\ Concludes("resolve", Nobody, "threw")

UseConfigured ==
  /\ errand.kind = "resolve" /\ errand.step = "configured"
  /\ Concludes("resolve", Configured,
          IF Configured = Nobody THEN "unresolved" ELSE "configured")

ResolveEphemeralEndpoint ==
  \/ StartResolve \/ GetDelegationStatus \/ GetRoutes \/ ReadDelegationRecord
  \/ RecordUnreadable \/ UseConfigured

-----------------------------------------------------------------------------
(* The searches: the script that waits for a fresh rollup, the PER proof,  *)
(* the probe of every rollup and the application's runtime check.          *)

Searches == {"await", "per", "probe", "web"}
AsksBaseOnce == {"await", "probe"}

(* Candidates are chosen once.  The web tries the configured endpoint and  *)
(* then the routes; the probe asks every route; the others attested ones.  *)
Candidates(kind, routes) ==
  CASE kind = "web" -> ({Configured} \ {Nobody}) \cup routes
    [] kind = "probe" -> routes
    [] OTHER -> routes \cap Attested

StartSearch(kind) ==
  /\ errand = NoErrand /\ outcome = NoOutcome
  /\ \E routes \in {net.listed, {}} :
       LET todo == Candidates(kind, routes) IN
       Continues([Begins(kind, IF kind \in AsksBaseOnce THEN "base" ELSE "poll")
                    EXCEPT !.todo = todo, !.routes = todo])

(* observedBuildFingerprint of the base layer.                             *)
AskBase ==
  /\ errand.kind \in AsksBaseOnce /\ errand.step = "base"
  /\ \E answer \in May(net.base) :
       IF errand.kind = "await" /\ (errand.routes = {} \/ answer # "checkout")
         THEN Concludes("await", Nobody, "stopped")
         ELSE Continues([errand EXCEPT !.step = "poll", !.base = answer])

(* Mutant of FreshnessVerdict: the rollup and the base agree, on anything. *)
FreshnessVerdict_Agree(base, rollup) ==
  IF rollup = base THEN "FRESH" ELSE "STALE_ER"

(* checkRuntimeFreshness: the checkout, the base and the rollup all agree. *)
FreshnessVerdict(base, rollup) ==
  IF base = "checkout" /\ rollup = base THEN "FRESH"
  ELSE IF base = Nobody \/ rollup = Nobody THEN "UNDETERMINED"
  ELSE IF base # "checkout" THEN "STALE_BASE"
  ELSE "STALE_ER"

(* The two answers of one check travel together and arrive in any order:   *)
(* the base's is taken here, the rollup's when the verdict is drawn.       *)
AskBaseForCheck ==
  /\ errand.kind = "per" /\ errand.step = "poll" /\ errand.base = "unasked"
  /\ errand.todo # {}
  /\ \E answer \in May(net.base) : Continues([errand EXCEPT !.base = answer])

Current(answer) ==
  IF errand.kind = "per" THEN FreshnessVerdict(errand.base, answer) = "FRESH"
  ELSE answer = "checkout"

NextCandidates ==
  IF errand.kind = "web" /\ Configured \in errand.todo THEN {Configured}
  ELSE errand.todo

(* The first current rollup ends the search; the probe asks them all.      *)
AskRollup ==
  /\ errand.kind \in Searches /\ errand.step = "poll"
  /\ errand.kind = "per" => errand.base # "unasked"
  /\ \E r \in NextCandidates : \E answer \in May(net.cached[r]) :
       LET rest == [errand EXCEPT !.todo = @ \ {r}] IN
       IF Current(answer) /\ (errand.kind # "probe" \/ r \in Attested)
         THEN Concludes(errand.kind, r, "fresh")
         ELSE Continues(IF errand.kind = "per"
                          THEN [rest EXCEPT !.base = "unasked"] ELSE rest)

(* Out of candidates: another round of polling, or nothing is fresh.       *)
OutOfCandidates ==
  /\ errand.kind \in Searches /\ errand.step = "poll" /\ errand.todo = {}
  /\ IF errand.kind = "await" /\ errand.round < Attempts
       THEN Continues([errand EXCEPT !.todo = errand.routes, !.round = @ + 1])
       ELSE Concludes(errand.kind, Nobody, "stale")

Search ==
  \/ \E kind \in Searches : StartSearch(kind)
  \/ AskBase \/ AskBaseForCheck \/ AskRollup \/ OutOfCandidates

-----------------------------------------------------------------------------
(* The worker's proxy.  A plan's endpoint refuses some methods, in words   *)
(* the worker knows or in others; the public one serves every method.      *)

Methods == {"read", "send", "getProgramAccounts", "unplanned", "unlisted"}
AllowedMethods == Methods \ {"unlisted"}
FallbackMethods == {"getProgramAccounts"}
Refusals == {"known words", "other words"}

Plan(method) ==
  CASE method = "getProgramAccounts" -> Refusals
    [] method = "unplanned" -> {"known words"}
    [] OTHER -> {"answer"}

(* A batch with one such method goes to the public endpoint as a whole.    *)
GoesToFallback(batch) == batch \cap FallbackMethods # {}

Served(batch, reply) ==
  [kind |-> "proxy", batch |-> batch, reply |-> reply]

ProxyRpc ==
  /\ errand = NoErrand /\ outcome = NoOutcome
  /\ \E batch \in SUBSET Methods \ {{}} :
       \/ ~(batch \subseteq AllowedMethods) /\ outcome' = Served(batch, "403")
       \/ /\ batch \subseteq AllowedMethods /\ GoesToFallback(batch)
          /\ outcome' = Served(batch, "answer")
       \/ /\ batch \subseteq AllowedMethods /\ ~GoesToFallback(batch)
          /\ \E m \in batch : \E reply \in Plan(m) :
               /\ \A other \in batch :   \* a refusal shows in the batch's text
                    reply = "answer" => Plan(other) = {"answer"}
               /\ outcome' = Served(batch, IF reply = "known words"
                                             THEN "answer" ELSE reply)
  /\ UNCHANGED <<net, moves, errand>>

-----------------------------------------------------------------------------
RoutingInit ==
  /\ net \in [base : {"old", "checkout"},
              cached : [Rollups -> {"old", "checkout"}],
              listed : SUBSET Rollups, home : Rollups \cup {Nobody}]
  /\ net.base = "old" => \A r \in Rollups : net.cached[r] = "old"
  /\ moves = 0 /\ errand = NoErrand /\ outcome = NoOutcome

RoutingNext == Moves \/ ResolveEphemeralEndpoint \/ Search \/ ProxyRpc

-----------------------------------------------------------------------------
(* What the router answered is where the account lives: an endpoint found  *)
(* through it belongs to a validator the account was delegated to while it *)
(* was asked, and a configured one never stands in for a delegated account *)
(* whose router answered with a table (routing.ts, D-0041).                *)
ResolvedAtHome ==
  outcome.kind = "resolve" =>
    LET during == {h \in Rollups \cup {Nobody} :
                     <<"home", h>> \in outcome.errand.truths} IN
    /\ outcome.found \in {"fqdn", "routes"} => outcome.endpoint \in during
    /\ outcome.found = "configured" /\ outcome.errand.routes # {}
         => Nobody \in during

(* A rollup found fresh ran the checkout's build while it was asked, and   *)
(* where the base layer decides as well, so did the base: an unanswered    *)
(* question and two equally old runtimes are never fresh (freshness.ts).   *)
FreshMeansThisCheckout ==
  outcome.kind \in Searches /\ outcome.found = "fresh" =>
    /\ <<outcome.endpoint, "checkout">> \in outcome.errand.truths
    /\ outcome.kind \in {"await", "per"} =>
         <<"base", "checkout">> \in outcome.errand.truths

(* An account scan is never answered by a plan's refusal, alone or in a    *)
(* batch, and a batch with a method off the list is never passed on        *)
(* (worker: FALLBACK_METHODS, ALLOWED_METHODS).                            *)
ScansAreAnswered ==
  outcome.kind = "proxy" =>
    /\ outcome.batch \subseteq AllowedMethods =>
         outcome.reply = "answer"
    /\ ~(outcome.batch \subseteq AllowedMethods) => outcome.reply = "403"

(* Whatever the network does between two questions, an errand concludes     *)
(* only what one of its answers showed.                                     *)
ErrandsConcludeTruly ==
  ResolvedAtHome /\ FreshMeansThisCheckout /\ ScansAreAnswered
=============================================================================
