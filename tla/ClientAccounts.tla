---------------------------- MODULE ClientAccounts ----------------------------
(***************************************************************************)
(* The accounts the programs write and the decoders the client reads them  *)
(* with, both laid out by hand.                                            *)
(*                                                                         *)
(* A layout is the sequence of fields with their widths in bytes after the *)
(* discriminator; a decoder that drifts from it reads other fields' bytes. *)
(* What arrives may be another account, shorter or longer than expected,   *)
(* of another version, and may still hold what a scrub should have erased. *)
(***************************************************************************)
EXTENDS Integers, Sequences, FiniteSets, TLC, SequencesExt

VARIABLES image, decoder, reading
accountVars == <<image, decoder, reading>>

Key(names) == [i \in DOMAIN names |-> <<names[i], 32>>]
Word(names) == [i \in DOMAIN names |-> <<names[i], 8>>]
Half(names) == [i \in DOMAIN names |-> <<names[i], 2>>]
Byte(names) == [i \in DOMAIN names |-> <<names[i], 1>>]

-----------------------------------------------------------------------------
(* What the programs write.                                                *)

Written ==
  [ProtocolMarket |->
     Key(<<"authority">>) \o Word(<<"market_id">>) \o Key(<<"adapter_signer">>)
     \o Byte(<<"paused">>) \o Key(<<"last_operation">>)
     \o Word(<<"updates">>) \o Key(<<"demo_authority">>) \o Byte(<<"bump">>),
   AdapterReceipt |->
     Key(<<"operation", "capability">>) \o Byte(<<"executed", "applied">>)
     \o Word(<<"at_slot">>) \o Byte(<<"bump">>),
   SettlementReceipt |->
     Key(<<"operation", "certificate">>) \o Byte(<<"finalized">>)
     \o Half(<<"observed">>) \o Word(<<"at_slot">>) \o Byte(<<"bump">>),
   SettlementOperation |->
     Key(<<"operation", "certificate", "authority">>) \o Half(<<"expected">>)
     \o Byte(<<"scheduled">>) \o Word(<<"at_slot">>) \o Half(<<"attempts">>)
     \o Byte(<<"bump">>),
   IncidentCertificate |->
     Key(<<"issuer", "cluster", "covenant">>) \o Word(<<"epoch", "incident">>)
     \o Key(<<"policy", "member_set", "bundle", "operation">>)
     \o Word(<<"nonce">>) \o Byte(<<"approvals", "rejections">>)
     \o Word(<<"certified_at", "expires_at">>) \o Byte(<<"bump">>),
   SovereignCapability |->
     Key(<<"authority", "state", "core_program">>) \o Half(<<"version">>)
     \o Key(<<"cluster", "covenant">>) \o Word(<<"epoch">>)
     \o Key(<<"policy", "member_set">>) \o Byte(<<"category">>)
     \o Key(<<"target">>) \o Word(<<"discriminator">>)
     \o Key(<<"template", "data_hash">>) \o Byte(<<"may_pause", "may_unpause">>)
     \o Word(<<"max_value", "valid_from", "expires_at">>)
     \o Byte(<<"armed", "suspended">>) \o Word(<<"nonce">>)
     \o Key(<<"last_operation">>) \o Byte(<<"bump", "signer_bump">>),
   Covenant |->
     Half(<<"schema">>) \o Key(<<"steward">>) \o Word(<<"id", "epoch">>)
     \o Key(<<"cluster">>) \o Byte(<<"status">>)
     \o Key(<<"policy", "template">>) \o Byte(<<"approvals", "rejections">>)
     \o Word(<<"window", "lifetime">>)
     \o Byte(<<"members", "ratified", "armed", "adapters">>)
     \o Key(<<"member_set">>) \o Word(<<"valid_from", "expires_at">>)
     \o Byte(<<"bump">>),
   CovenantMember |->
     Half(<<"schema">>) \o Key(<<"covenant", "protocol">>) \o Byte(<<"role">>)
     \o Key(<<"capability">>) \o Half(<<"version">>)
     \o Byte(<<"ratified", "armed", "bump">>),
   IncidentCore |->
     Half(<<"schema">>) \o Key(<<"covenant">>) \o Word(<<"epoch", "incident">>)
     \o Key(<<"opener">>) \o Byte(<<"status">>)
     \o Key(<<"policy", "member_set", "cluster">>)
     \o Byte(<<"approvals", "rejections">>)
     \o Word(<<"opened_at", "expires_at", "window">>)
     \o Key(<<"template", "claim_digest", "operation">>)
     \o Word(<<"certified_at", "lifetime">>)
     \o Byte(<<"members", "approved", "rejected", "bump">>),
   IncidentClaim |->
     Half(<<"schema">>) \o Key(<<"incident", "opener">>)
     \o <<<<"claim", 256>>, <<"claim_len", 2>>, <<"notes", 128>>,
          <<"notes_len", 2>>>>
     \o Word(<<"start", "end">>) \o Byte(<<"zeroized", "bump">>),
   MemberAttestation |->
     Half(<<"schema">>) \o Key(<<"incident", "member", "opener">>)
     \o Byte(<<"state", "decision">>) \o Word(<<"nonce", "at_slot">>)
     \o Byte(<<"has_decision", "zeroized", "bump">>)]
Accounts == DOMAIN Written
Versioned == {"Covenant", "CovenantMember", "IncidentCore", "IncidentClaim",
              "MemberAttestation"}

(* What scrub erases.                                                      *)
Protected ==
  [IncidentClaim |-> {"claim", "claim_len", "notes", "notes_len", "start",
                      "end"},
   MemberAttestation |-> {"decision", "nonce", "at_slot", "has_decision"}]

-----------------------------------------------------------------------------
(* Where a field starts and ends in a layout.                              *)

Ends(layout) ==
  LET until[i \in 0..Len(layout)] ==
        IF i = 0 THEN 0 ELSE until[i - 1] + layout[i][2]
  IN until
SizeOf(layout) == Ends(layout)[Len(layout)]
Places(layout) ==
  LET ends == Ends(layout) IN
  {<<layout[i][1], ends[i - 1], ends[i]>> : i \in DOMAIN layout}
Place(layout, name) == CHOOSE p \in Places(layout) : p[1] = name

-----------------------------------------------------------------------------
(* What the client reads, in the order of its cursor: [of, least, fields]. *)

Decodes(account, least, fields) ==
  [of |-> account, least |-> least - 8, fields |-> fields]

(* accounts.ts                                                             *)
decodeMarket == Decodes("ProtocolMarket", 154,
  Key(<<"authority">>) \o Word(<<"market_id">>) \o Key(<<"adapter_signer">>)
  \o Byte(<<"paused">>) \o Key(<<"last_operation">>) \o Word(<<"updates">>)
  \o Key(<<"demo_authority">>))
decodeAdapterReceipt == Decodes("AdapterReceipt", 83,
  Key(<<"operation", "capability">>) \o Byte(<<"executed", "applied">>)
  \o Word(<<"at_slot">>))
decodeSettlementReceipt == Decodes("SettlementReceipt", 84,
  Key(<<"operation", "certificate">>) \o Byte(<<"finalized">>)
  \o Half(<<"observed">>) \o Word(<<"at_slot">>))
decodeOperation == Decodes("SettlementOperation", 118,
  Key(<<"operation", "certificate", "authority">>) \o Half(<<"expected">>)
  \o Byte(<<"scheduled">>) \o Word(<<"at_slot">>) \o Half(<<"attempts">>))
decodeCertificate == Decodes("IncidentCertificate", 275,
  Key(<<"issuer", "cluster", "covenant">>) \o Word(<<"epoch", "incident">>)
  \o Key(<<"policy", "member_set", "bundle", "operation">>) \o Word(<<"nonce">>)
  \o Byte(<<"approvals", "rejections">>)
  \o Word(<<"certified_at", "expires_at">>))
decodeCapability == Decodes("SovereignCapability", 417,
  Key(<<"authority", "state", "core_program">>) \o Half(<<"version">>)
  \o Key(<<"cluster", "covenant">>) \o Word(<<"epoch">>)
  \o Key(<<"policy", "member_set">>) \o Byte(<<"category">>) \o Key(<<"target">>)
  \o Word(<<"discriminator">>) \o Key(<<"template", "data_hash">>)
  \o Byte(<<"may_pause", "may_unpause">>)
  \o Word(<<"max_value", "valid_from", "expires_at">>)
  \o Byte(<<"armed", "suspended">>) \o Word(<<"nonce">>)
  \o Key(<<"last_operation">>))

(* covenant.ts                                                             *)
decodeCovenantMember == Decodes("CovenantMember", 112,
  Half(<<"schema">>) \o Key(<<"covenant", "protocol">>) \o Byte(<<"role">>)
  \o Key(<<"capability">>) \o Half(<<"version">>)
  \o Byte(<<"ratified", "armed">>))
decodeCovenant == Decodes("Covenant", 226,
  Half(<<"schema">>) \o Key(<<"steward">>) \o Word(<<"id", "epoch">>)
  \o Key(<<"cluster">>) \o Byte(<<"status">>) \o Key(<<"policy", "template">>)
  \o Byte(<<"approvals", "rejections">>) \o Word(<<"window", "lifetime">>)
  \o Byte(<<"members", "ratified", "armed", "adapters">>)
  \o Key(<<"member_set">>) \o Word(<<"valid_from", "expires_at">>))

(* incident.ts; the ordinary decoders of the private accounts return their *)
(* public shell, and whether the protected region is zero.                 *)
decodeIncidentCore == Decodes("IncidentCore", 329,
  Half(<<"schema">>) \o Key(<<"covenant">>) \o Word(<<"epoch", "incident">>)
  \o Key(<<"opener">>) \o Byte(<<"status">>)
  \o Key(<<"policy", "member_set", "cluster">>)
  \o Byte(<<"approvals", "rejections">>)
  \o Word(<<"opened_at", "expires_at", "window">>)
  \o Key(<<"template", "claim_digest", "operation">>)
  \o Word(<<"certified_at", "lifetime">>)
  \o Byte(<<"members", "approved", "rejected">>))
decodeIncidentClaim == Decodes("IncidentClaim", 480,
  Half(<<"schema">>) \o Key(<<"incident", "opener">>))
decodeMemberAttestation == Decodes("MemberAttestation", 127,
  Half(<<"schema">>) \o Key(<<"incident", "member", "opener">>)
  \o Byte(<<"state">>))
decodeIncidentClaimForMember == Decodes("IncidentClaim", 480,
  Half(<<"schema">>) \o Key(<<"incident", "opener">>)
  \o <<<<"claim", 256>>, <<"claim_len", 2>>, <<"notes", 128>>,
       <<"notes_len", 2>>>>
  \o Word(<<"start", "end">>) \o Byte(<<"zeroized">>))

Decoders ==
  {decodeMarket, decodeAdapterReceipt, decodeSettlementReceipt,
   decodeOperation, decodeCertificate, decodeCapability, decodeCovenantMember,
   decodeCovenant, decodeIncidentCore, decodeIncidentClaim,
   decodeMemberAttestation, decodeIncidentClaimForMember}

(* The protected regions, from offset to end, after the discriminator.     *)
(* Mutant of ClaimRegion: the observation window is forgotten.             *)
ClaimRegion_Short == <<66, 66 + 256 + 2 + 128 + 2>>
ClaimRegion == <<66, 66 + 256 + 2 + 128 + 2 + 8 + 8>>
AttestationRegion == <<99, 99 + 1 + 8 + 8 + 1>>
RegionOf(account) ==
  IF account = "IncidentClaim" THEN ClaimRegion ELSE AttestationRegion

(* Of the protected accounts they say too whether the program marked them  *)
(* scrubbed: the byte right after the region.                              *)
Marked(d) ==
  IF d \in {decodeIncidentClaim, decodeMemberAttestation}
  THEN LET end == RegionOf(d.of)[2] IN {<<"zeroized", end, end + 1>>}
  ELSE {}

(* memberHasAnswered looks at one byte.                                    *)
AnsweredByte == 2 + 32 + 32 + 32 + 1 + 1 + 8 + 8

-----------------------------------------------------------------------------
(* Reading.                                                                *)

expectAccount(i, account, least) == i.account = account /\ i.length >= least
expectVersion(i) == i.account \in Versioned => i.schema = 1

(* A byte past the end reads as zero in the decoders of the core, the      *)
(* covenant and the membership; any wider read past the end throws.        *)
Lenient == {"Covenant", "CovenantMember", "IncidentCore"}
Throws(i, d) ==
  \E p \in Places(d.fields) :
    p[3] > i.length /\ (p[3] - p[2] > 1 \/ d.of \notin Lenient)

Refused == [ok |-> FALSE, places |-> {}, clean |-> FALSE, answered |-> FALSE]
NonZero(i, from, until) ==
  \E name \in i.dirty : LET p == Place(Written[i.account], name) IN
    p[2] < until /\ from < p[3]

Reading(i, d) ==
  IF ~expectAccount(i, d.of, d.least) \/ ~expectVersion(i) \/ Throws(i, d)
  THEN Refused
  ELSE [ok |-> TRUE, places |-> Places(d.fields) \cup Marked(d),
        clean |-> /\ d.of \in DOMAIN Protected
                  /\ ~NonZero(i, RegionOf(d.of)[1], RegionOf(d.of)[2]),
        answered |-> /\ d.of = "MemberAttestation"
                     /\ NonZero(i, AnsweredByte, AnsweredByte + 1)]

(* What a caller may be handed: any account, cut short, or written by a    *)
(* later program that appended to it.                                      *)
Cuts == {-8, 0, 1, 2, 3, 40}
Arrives(account, cut, schema, dirty) ==
  /\ image = << >>
  /\ schema = 1 \/ account \in Versioned
  /\ image' = [account |-> account, length |-> SizeOf(Written[account]) - cut,
               schema |-> schema, dirty |-> dirty]
  /\ UNCHANGED <<decoder, reading>>

DecodeAccount(d) ==
  /\ image # << >> /\ decoder = << >>
  /\ decoder' = d /\ reading' = Reading(image, d)
  /\ UNCHANGED image

AccountsInit == image = << >> /\ decoder = << >> /\ reading = Refused
AccountsNext ==
  \/ \E account \in Accounts, cut \in Cuts, schema \in {1, 2} :
       \E dirty \in SUBSET (IF account \in DOMAIN Protected
                            THEN Protected[account] ELSE {}) :
         Arrives(account, cut, schema, dirty)
  \/ \E d \in Decoders : DecodeAccount(d)

-----------------------------------------------------------------------------
(* A decoder returns exactly when the account is whole, the one it is for, *)
(* and of a version it knows; and every field it returns is read where the *)
(* program put that field (accounts.ts expectAccount, expectVersion).      *)
FieldsAreThePrograms ==
  decoder # << >> =>
    /\ reading.ok = (/\ image.account = decoder.of /\ image.schema = 1
                     /\ image.length >= SizeOf(Written[image.account]))
    /\ reading.ok => reading.places \subseteq Places(Written[image.account])

(* The leak scan calls a private account clean exactly when every field    *)
(* the program's scrub erases is zero, whatever was left in it, and        *)
(* memberHasAnswered is about the ballot's has_decision.                   *)
LeakScanIsExact ==
  reading.ok /\ decoder.of \in DOMAIN Protected =>
    /\ reading.clean = (image.dirty = {})
    /\ reading.answered = ("has_decision" \in image.dirty)

(* Client and program agree on every byte of an account: on the fields a    *)
(* decoder returns and on the region a scrub must leave zero.               *)
AccountsReadExactly == FieldsAreThePrograms /\ LeakScanIsExact
=============================================================================
