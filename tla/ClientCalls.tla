----------------------------- MODULE ClientCalls -----------------------------
(***************************************************************************)
(* The instructions the client builds and the accounts the programs bind.  *)
(*                                                                         *)
(* The client writes every account list by hand, in order, with its signer *)
(* and writable flags, and every argument by hand after the discriminator; *)
(* the runtime binds the list to the handler's accounts by position.  An   *)
(* address is the role it is derived for, an argument is its width.        *)
(***************************************************************************)
EXTENDS Integers, Sequences, FiniteSets, TLC, SequencesExt

CONSTANTS
  Protocols,    \* members, numbers ordered as their key bytes are
  Validators    \* rollup validators; "none" when the caller names none

VARIABLES call, caller, tx, verdict
callVars == <<call, caller, tx, verdict>>

R(role) == [role |-> role, signer |-> FALSE, writable |-> FALSE]
W(role) == [role |-> role, signer |-> FALSE, writable |-> TRUE]
S(role) == [role |-> role, signer |-> TRUE, writable |-> FALSE]
SW(role) == [role |-> role, signer |-> TRUE, writable |-> TRUE]

(* keys, the variable tail after them, and the arguments.                  *)
Form(keys, args) == [keys |-> keys, tail |-> "none", args |-> args]
WithTail(keys, tail, args) == [keys |-> keys, tail |-> tail, args |-> args]

-----------------------------------------------------------------------------
(* What the client builds: covenant.ts.                                    *)

CovenantCalls ==
  [create_covenant |-> Form(<<W("covenant"), SW("steward"), R("system")>>,
     <<8, 8, 32, 32, 32, 1, 1, 8, 8, 8>>),
   add_covenant_member |-> Form(
     <<W("covenant"), W("membership"), SW("steward"), R("system")>>,
     <<32, 1, 32>>),
   ratify_covenant_member |-> Form(
     <<W("covenant"), W("membership"), S("protocol")>>, << >>),
   arm_covenant_member |-> Form(
     <<W("covenant"), W("membership"), S("protocol")>>, <<2>>),
   ratify_covenant |-> WithTail(<<W("covenant")>>, "memberships", << >>),
   arm_covenant |-> Form(<<W("covenant")>>, << >>)]

(* incident.ts: creation and delegation, on the base layer.                *)
DelegationTail(account) ==
  <<W("buffer"), W("delegation_record"), W("delegation_metadata"), W(account),
    R("validator"), R("core_program"), R("delegation_program"), R("system")>>

CreationCalls ==
  [initialize_incident |-> Form(
     <<W("core"), R("covenant"), R("membership_of_opener"), SW("opener"),
       R("system")>>, <<8, 32>>),
   initialize_claim |-> Form(
     <<R("core"), W("claim"), SW("opener"), R("system")>>, << >>),
   initialize_attestation |-> Form(
     <<R("core"), R("membership"), W("ballot"), SW("opener"), R("system")>>,
     <<32>>),
   delegate_incident |-> Form(<<S("opener")>> \o DelegationTail("core"),
                              <<8, 32>>),
   delegate_claim |-> Form(<<S("opener")>> \o DelegationTail("claim"), <<32>>),
   delegate_attestation |-> Form(<<S("opener")>> \o DelegationTail("ballot"),
                                 <<32, 32>>)]

(* Permissions; a member list is its length and then key and flags.        *)
PermissionTail(account) ==
  <<W("permission_of_" \o account), W("ephemeral_vault"), R("magic_program"),
    R("permission_program")>>

PermissionCalls ==
  [create_claim_permission |-> Form(
     <<W("claim"), S("opener")>> \o PermissionTail("claim"), <<"members">>),
   update_claim_permission |-> Form(
     <<W("claim"), S("opener")>> \o PermissionTail("claim"), <<1, "members">>),
   close_claim_permission |-> Form(
     <<W("claim")>> \o PermissionTail("claim"), << >>),
   create_attestation_permission |-> Form(
     <<W("ballot")>> \o PermissionTail("ballot"), << >>),
   close_attestation_permission |-> Form(
     <<W("ballot")>> \o PermissionTail("ballot"), << >>)]

(* The private runtime: claims, ballots and the count.                     *)
BallotCalls ==
  [open_incident |-> WithTail(<<W("core"), S("opener")>>, "ballots", <<32>>),
   submit_private_claim |-> Form(<<R("core"), W("claim"), S("responder")>>,
                                 <<"bytes", 8, 8, "bytes">>),
   submit_sealed_attestation |-> Form(<<R("core"), W("ballot"), S("member")>>,
                                      <<1, 8>>),
   quarantine_member |-> Form(<<R("core"), W("ballot"), S("opener")>>, << >>),
   certify_incident |-> WithTail(<<W("core")>>, "ballots", << >>)]

(* The crank, the scrubs and the exits.                                    *)
ExitKeys == <<SW("payer"), W("core"), W("claim"), R("magic_program"),
              W("magic_context")>>
ExitCalls ==
  [request_expiry_crank |-> WithTail(
     <<W("core"), SW("opener"), R("magic_program")>>, "ballots", <<8, 8>>),
   cancel_expiry_crank |-> Form(
     <<W("core"), SW("opener"), R("magic_program")>>, << >>),
   expire_incident |-> WithTail(<<W("core")>>, "ballots", << >>),
   scrub_claim |-> Form(<<R("core"), W("claim")>>, << >>),
   scrub_attestation |-> Form(<<R("core"), W("ballot")>>, << >>),
   commit_incident |-> WithTail(ExitKeys, "writable_ballots", <<8, 32>>),
   release_incident |-> WithTail(ExitKeys, "writable_ballots", <<8, 32>>)]

(* instructions.ts: the mock protocol, the certificate and the receipts.   *)
SettlementCalls ==
  [initialize_market |-> Form(<<W("market"), SW("authority"), R("system")>>,
                              <<8, "option">>),
   set_adapter |-> Form(<<W("market"), S("authority")>>, <<"option">>),
   reset_demo_market |-> Form(<<W("market"), S("demo_authority")>>, << >>),
   publish_certificate |-> Form(
     <<W("certificate"), R("core"), SW("payer"), R("system")>>, << >>),
   initialize_settlement_receipt |-> Form(
     <<W("settlement_receipt"), R("certificate"), SW("payer"), R("system")>>,
     <<32>>),
   initialize_operation |-> Form(
     <<W("operation"), R("certificate"), SW("authority"), R("system")>>,
     <<32, 2>>)]

(* The operation's delegation, its one cohort and the cohort's last action. *)
CohortCalls ==
  [delegate_operation |-> Form(
     <<S("authority")>> \o DelegationTail("operation"), <<32>>),
   schedule_settlement_cohort |-> WithTail(
     <<SW("payer"), W("operation"), R("certificate"), R("settlement_receipt"),
       R("adapter_program"), R("mock_protocol"), R("core_program"),
       R("magic_program"), W("magic_context")>>, "targets", <<32, 2, 4, 4>>),
   finalize_settlement |-> Form(
     <<W("settlement_receipt"), R("certificate"), R("escrow_auth"),
       R("escrow")>>, <<32, 2>>)]

(* The adapter; executeBoundedActionAccounts is the list the template      *)
(* commits to.                                                             *)
ExecuteBoundedActionAccounts ==
  <<R("certificate"), W("capability"), W("market"), W("adapter_receipt"),
    R("adapter_signer"), R("mock_protocol")>>
AdapterCalls ==
  [install_capability |-> Form(
     <<W("capability"), R("adapter_signer"), SW("protocol"), R("system")>>,
     <<32, 32, 2, 32, 32, 8, 32, 32, 1, 32, 8, 32, 32, 1, 1, 8, 8, 8>>),
   arm_capability |-> Form(<<W("capability"), S("protocol")>>, <<2>>),
   suspend_capability |-> Form(<<W("capability"), S("protocol")>>, << >>),
   initialize_adapter_receipt |-> Form(
     <<W("adapter_receipt"), R("capability"), SW("payer"), R("system")>>,
     <<32>>),
   execute_bounded_action |-> Form(
     ExecuteBoundedActionAccounts \o <<R("escrow_auth"), R("escrow")>>, << >>)]

ClientForms ==
  CovenantCalls @@ CreationCalls @@ PermissionCalls @@ BallotCalls
    @@ ExitCalls @@ SettlementCalls @@ CohortCalls @@ AdapterCalls
Calls == DOMAIN ClientForms

(* Mutant of canonicalMemberOrder: the caller's own order is sent.         *)
canonicalMemberOrder_Given(members) == members

(* Ascending by raw key bytes; a repeated key stays repeated.              *)
canonicalMemberOrder(members) == SortSeq(members, LAMBDA a, b : a < b)

(* An absent validator is sent as the program's own address.               *)
ValidatorKey(named) == IF named = "none" THEN "core_program" ELSE named

TailKeys(tail, members) ==
  [i \in DOMAIN members |->
     [member |-> canonicalMemberOrder(members)[i],
      account |-> IF tail = "memberships" THEN "membership" ELSE "ballot",
      writable |-> tail = "writable_ballots"]]

(* One adapter action for every member: capability, market, receipt and    *)
(* signer, in the order of the list the caller gives.                      *)
TargetKeys(members) ==
  FlattenSeq([i \in DOMAIN members |->
    <<<<"capability", members[i]>>, <<"market", members[i]>>,
      <<"adapter_receipt", members[i]>>, <<"adapter_signer", members[i]>>>>])

Built(name, members, validator) ==
  LET form == ClientForms[name] IN
  [keys |-> form.keys, args |-> form.args, validator |-> ValidatorKey(validator),
   tail |-> CASE form.tail = "none" -> << >>
              [] form.tail = "targets" -> TargetKeys(members)
              [] OTHER -> TailKeys(form.tail, members)]

-----------------------------------------------------------------------------
(* What the programs bind: the Accounts of each handler, in their order,   *)
(* with what the macros insert or append.                                  *)

Inits(account, others, payer) ==
  <<W(account)>> \o others \o <<SW(payer), R("system")>>
Delegates(authority, account) ==
  <<S(authority), W("buffer"), W("delegation_record"),
    W("delegation_metadata"), W(account), R("validator"), R("core_program"),
    R("delegation_program"), R("system")>>
Permits(account, authority) ==
  <<W(account)>> \o authority
    \o <<W("permission_of_" \o account), W("ephemeral_vault"),
         R("magic_program"), R("permission_program")>>

CovenantHandlers ==
  [create_covenant |-> Form(Inits("covenant", << >>, "steward"),
     <<8, 8, 32, 32, 32, 1, 1, 8, 8, 8>>),
   add_covenant_member |-> Form(
     <<W("covenant")>> \o Inits("membership", << >>, "steward"), <<32, 1, 32>>),
   ratify_covenant_member |-> Form(
     <<W("covenant"), W("membership"), S("protocol")>>, << >>),
   arm_covenant_member |-> Form(
     <<W("covenant"), W("membership"), S("protocol")>>, <<2>>),
   ratify_covenant |-> WithTail(<<W("covenant")>>, "memberships", << >>),
   arm_covenant |-> Form(<<W("covenant")>>, << >>)]
CreationHandlers ==
  [initialize_incident |-> Form(Inits("core",
     <<R("covenant"), R("membership_of_opener")>>, "opener"), <<8, 32>>),
   initialize_claim |-> Form(<<R("core")>> \o Inits("claim", << >>, "opener"),
                             << >>),
   initialize_attestation |-> Form(
     <<R("core"), R("membership")>> \o Inits("ballot", << >>, "opener"), <<32>>),
   delegate_incident |-> Form(Delegates("opener", "core"), <<8, 32>>),
   delegate_claim |-> Form(Delegates("opener", "claim"), <<32>>),
   delegate_attestation |-> Form(Delegates("opener", "ballot"), <<32, 32>>)]
PermissionHandlers ==
  [create_claim_permission |-> Form(Permits("claim", <<S("opener")>>),
                                    <<"members">>),
   update_claim_permission |-> Form(Permits("claim", <<S("opener")>>),
                                    <<1, "members">>),
   close_claim_permission |-> Form(Permits("claim", << >>), << >>),
   create_attestation_permission |-> Form(Permits("ballot", << >>), << >>),
   close_attestation_permission |-> Form(Permits("ballot", << >>), << >>)]
RuntimeHandlers ==
  LET exit == WithTail(<<SW("payer"), W("core"), W("claim"),
                         R("magic_program"), W("magic_context")>>,
                       "writable_ballots", <<8, 32>>)
  IN [open_incident |-> WithTail(<<W("core"), S("opener")>>, "ballots", <<32>>),
      submit_private_claim |-> Form(<<R("core"), W("claim"), S("responder")>>,
                                    <<"bytes", 8, 8, "bytes">>),
      submit_sealed_attestation |-> Form(
        <<R("core"), W("ballot"), S("member")>>, <<1, 8>>),
      quarantine_member |-> Form(<<R("core"), W("ballot"), S("opener")>>, << >>),
      certify_incident |-> WithTail(<<W("core")>>, "ballots", << >>),
      expire_incident |-> WithTail(<<W("core")>>, "ballots", << >>),
      request_expiry_crank |-> WithTail(
        <<W("core"), SW("opener"), R("magic_program")>>, "ballots", <<8, 8>>),
      cancel_expiry_crank |-> Form(
        <<W("core"), SW("opener"), R("magic_program")>>, << >>),
      scrub_claim |-> Form(<<R("core"), W("claim")>>, << >>),
      scrub_attestation |-> Form(<<R("core"), W("ballot")>>, << >>),
      commit_incident |-> exit, release_incident |-> exit]
SettlementHandlers ==
  [publish_certificate |-> Form(Inits("certificate", <<R("core")>>, "payer"),
                                << >>),
   initialize_settlement_receipt |-> Form(
     Inits("settlement_receipt", <<R("certificate")>>, "payer"), <<32>>),
   initialize_operation |-> Form(
     Inits("operation", <<R("certificate")>>, "authority"), <<32, 2>>),
   delegate_operation |-> Form(Delegates("authority", "operation"), <<32>>),
   schedule_settlement_cohort |-> WithTail(
     <<SW("payer"), W("operation"), R("certificate"), R("settlement_receipt"),
       R("adapter_program"), R("mock_protocol"), R("core_program"),
       R("magic_program"), W("magic_context")>>, "targets", <<32, 2, 4, 4>>),
   finalize_settlement |-> Form(
     <<W("settlement_receipt"), R("certificate"), R("escrow_auth"),
       R("escrow")>>, <<32, 2>>)]
ProtocolHandlers ==
  [initialize_market |-> Form(Inits("market", << >>, "authority"),
                              <<8, "option">>),
   set_adapter |-> Form(<<W("market"), S("authority")>>, <<"option">>),
   reset_demo_market |-> Form(<<W("market"), S("demo_authority")>>, << >>),
   install_capability |-> Form(
     Inits("capability", <<R("adapter_signer")>>, "protocol"),
     <<32, 32, 2, 32, 32, 8, 32, 32, 1, 32, 8, 32, 32, 1, 1, 8, 8, 8>>),
   arm_capability |-> Form(<<W("capability"), S("protocol")>>, <<2>>),
   suspend_capability |-> Form(<<W("capability"), S("protocol")>>, << >>),
   initialize_adapter_receipt |-> Form(
     Inits("adapter_receipt", <<R("capability")>>, "payer"), <<32>>),
   execute_bounded_action |-> Form(
     <<R("certificate"), W("capability"), W("market"), W("adapter_receipt"),
       R("adapter_signer"), R("mock_protocol"), R("escrow_auth"),
       R("escrow")>>, << >>)]
HandlerForms ==
  CovenantHandlers @@ CreationHandlers @@ PermissionHandlers @@ RuntimeHandlers
    @@ SettlementHandlers @@ ProtocolHandlers

(* A list binds when every account is the expected one and holds at least  *)
(* the privileges the handler asks for, and the arguments have its widths. *)
Binds(t, form) ==
  /\ Len(t.keys) = Len(form.keys) /\ t.args = form.args
  /\ \A i \in DOMAIN form.keys :
       /\ t.keys[i].role = form.keys[i].role
       /\ form.keys[i].signer => t.keys[i].signer
       /\ form.keys[i].writable => t.keys[i].writable

(* The frozen set is compared, member by member in strict order; the exits *)
(* only count their ballots; a cohort takes groups of four.                *)
TailBinds(t, tail) ==
  LET ascending == \A i \in 1..(Len(t.tail) - 1) :
                     t.tail[i].member < t.tail[i + 1].member
      whole == Len(t.tail) = Cardinality(Protocols)
  IN CASE tail = "none" -> t.tail = << >>
       [] tail = "targets" ->
            /\ Len(t.tail) % 4 = 0 /\ t.tail # << >>
            /\ \A i \in DOMAIN t.tail : t.tail[i][1] =
                 (<<"capability", "market", "adapter_receipt",
                   "adapter_signer">>)[((i - 1) % 4) + 1]
       [] tail = "writable_ballots" ->
            whole /\ \A i \in DOMAIN t.tail : t.tail[i].writable
       [] OTHER -> whole /\ ascending

-----------------------------------------------------------------------------
(* A caller picks a call, an order of the members and a validator, sends   *)
(* what the client builds, and the program answers.                        *)

MemberLists == [1..Cardinality(Protocols) -> Protocols]
UsesMembers(name) == ClientForms[name].tail # "none"
UsesValidator(name) ==
  \E i \in DOMAIN ClientForms[name].keys :
    ClientForms[name].keys[i].role = "validator"
AnyList == CHOOSE m \in MemberLists : TRUE

BuildCall(name, members, validator) ==
  /\ call = "none"
  /\ UsesMembers(name) \/ members = AnyList
  /\ UsesValidator(name) \/ validator = "none"
  /\ call' = name
  /\ caller' = [members |-> members, validator |-> validator]
  /\ tx' = Built(name, members, validator)
  /\ UNCHANGED verdict

SubmitCall ==
  /\ call # "none" /\ verdict = "none"
  /\ verdict' = IF /\ Binds(tx, HandlerForms[call])
                   /\ TailBinds(tx, HandlerForms[call].tail)
                THEN "taken" ELSE "refused"
  /\ UNCHANGED <<call, caller, tx>>

CallsInit ==
  /\ call = "none" /\ caller = << >> /\ tx = << >> /\ verdict = "none"
CallsNext ==
  \/ \E name \in Calls, members \in MemberLists, v \in Validators \cup {"none"} :
       BuildCall(name, members, v)
  \/ SubmitCall

-----------------------------------------------------------------------------
(* Whatever order the caller lists the members in, a program takes what    *)
(* the client builds exactly when the list names every member once; the    *)
(* exits, which only count, take a repeated ballot too (incident.ts,       *)
(* canonicalMemberOrder, and the handlers' account lists).                 *)
Complete(members) == ToSet(members) = Protocols
CallsAreTaken ==
  verdict # "none" =>
    (verdict = "taken") =
      (\/ ClientForms[call].tail \in {"none", "targets", "writable_ballots"}
       \/ Complete(caller.members))

(* The client asks for no more than the handler: whoever is named as a     *)
(* signer has to sign it there, nobody else signs, what the handler only   *)
(* reads stays read-only, and an absent validator is not a validator.      *)
LeastPrivilege ==
  call # "none" =>
    /\ \A i \in DOMAIN tx.keys :
         /\ tx.keys[i].signer => HandlerForms[call].keys[i].signer
         /\ tx.keys[i].writable => HandlerForms[call].keys[i].writable
    /\ Cardinality({i \in DOMAIN tx.keys : tx.keys[i].signer}) <= 1
    /\ caller.validator = "none" => tx.validator \notin Validators

(* Every instruction the client builds fits its handler: it is taken when   *)
(* it should be, and asks for no privilege the handler does not.            *)
CallsFitHandlers == CallsAreTaken /\ LeastPrivilege
=============================================================================
