------------------------------ MODULE Canonical ------------------------------
(***************************************************************************)
(* The verifier's own Borsh reader and writer, and the documents whose     *)
(* digests bind an operation.                                              *)
(*                                                                         *)
(* A document is a record; its kind has a schema, the sequence of its      *)
(* fields with their types.  Integers are little endian, one, two or three *)
(* bytes wide; a fixed array and the length of a vector are one byte: what *)
(* is kept is the order, the widths, the tags, the lengths and what a      *)
(* reader refuses.  SHA-256 is injective.                                  *)
(***************************************************************************)
EXTENDS Integers, Sequences, FiniteSets, TLC, SequencesExt

CONSTANT Top   \* the largest byte

ASSUME TopAssumption == Top \in Nat /\ Top >= 255

-----------------------------------------------------------------------------
(* Types and schemas.                                                      *)

IntOf(width) == [t |-> "int", width |-> width]
U8 == IntOf(1)
U16 == IntOf(2)
U64 == IntOf(3)
I64 == [t |-> "i64"]
Fixed == [t |-> "fixed"]
Bool == [t |-> "bool"]
Data == [t |-> "bytes"]
Enum(variants) == [t |-> "enum", n |-> variants]
Vec(schema) == [t |-> "vec", of |-> schema]

Roles == Enum(3)
Categories == Enum(1)
Namespaces == Enum(4)

EffectLimit ==
  <<<<"may_pause", Bool>>, <<"may_unpause", Bool>>, <<"max_value_moved", U64>>>>
AccountMeta ==
  <<<<"pubkey", Fixed>>, <<"is_signer", Bool>>, <<"is_writable", Bool>>>>
CanonicalAction ==
  <<<<"action_index", U16>>, <<"adapter_program_id", Fixed>>,
    <<"adapter_version", U16>>, <<"adapter_capability", Fixed>>,
    <<"target_program_id", Fixed>>, <<"instruction_discriminator", Fixed>>,
    <<"account_metas", Vec(AccountMeta)>>, <<"instruction_data", Data>>>>
    \o EffectLimit \o <<<<"capability_nonce", U64>>>>
ActionBundle ==
  <<<<"domain", Fixed>>, <<"cluster_genesis_hash", Fixed>>,
    <<"covenant", Fixed>>, <<"circle_epoch", U64>>, <<"incident_id", U64>>,
    <<"policy_id", Fixed>>, <<"member_set_hash", Fixed>>,
    <<"bundle_expiry_slot", U64>>, <<"operation_id", Fixed>>,
    <<"actions", Vec(CanonicalAction)>>>>
TemplateAccountMeta == <<<<"role", Enum(4)>>>> \o AccountMeta
ActionTemplate ==
  <<<<"domain", Fixed>>, <<"template_version", U16>>, <<"action_index", U16>>,
    <<"cluster_genesis_hash", Fixed>>, <<"covenant", Fixed>>,
    <<"circle_epoch", U64>>, <<"policy_id", Fixed>>,
    <<"action_category", Categories>>, <<"adapter_program_id", Fixed>>,
    <<"adapter_version", U16>>, <<"adapter_capability", Fixed>>,
    <<"target_program_id", Fixed>>, <<"instruction_discriminator", Fixed>>,
    <<"account_metas", Vec(TemplateAccountMeta)>>,
    <<"instruction_data", Data>>>> \o EffectLimit
ActionBundleTemplate == <<<<"actions", Vec(ActionTemplate)>>>>
Member ==
  <<<<"domain", Fixed>>, <<"member", Fixed>>, <<"role", Roles>>,
    <<"adapter_capability", Fixed>>, <<"adapter_version", U16>>>>
ResponsePolicy ==
  <<<<"domain", Fixed>>, <<"policy_id", Fixed>>,
    <<"action_category", Categories>>, <<"dependency_namespace", Namespaces>>,
    <<"dependency_id", Fixed>>, <<"eligible_member_set_hash", Fixed>>,
    <<"required_approvals", U8>>, <<"maximum_rejections", U8>>,
    <<"required_roles", Vec(<<<<"role", Roles>>>>)>>,
    <<"response_window_slots", U64>>, <<"certificate_ttl_slots", U64>>,
    <<"action_bundle_template_hash", Fixed>>, <<"version", U16>>>>
Certificate ==
  <<<<"domain", Fixed>>, <<"cluster_genesis_hash", Fixed>>,
    <<"covenant", Fixed>>, <<"circle_epoch", U64>>, <<"incident_id", U64>>,
    <<"policy_id", Fixed>>, <<"member_set_hash", Fixed>>,
    <<"action_bundle_hash", Fixed>>, <<"operation_id", Fixed>>,
    <<"certificate_nonce", U64>>, <<"approval_count", U8>>,
    <<"rejection_count", U8>>, <<"certified_at_slot", U64>>,
    <<"expires_at_slot", U64>>>>
CovenantDigest ==
  <<<<"domain", Fixed>>, <<"cluster_genesis_hash", Fixed>>,
    <<"covenant", Fixed>>, <<"circle_epoch", U64>>, <<"steward", Fixed>>,
    <<"member_set_hash", Fixed>>, <<"policies_hash", Fixed>>,
    <<"adapter_set_hash", Fixed>>, <<"valid_from_slot", U64>>,
    <<"expires_at_slot", U64>>>>
Attestation ==
  <<<<"domain", Fixed>>, <<"covenant", Fixed>>, <<"circle_epoch", U64>>,
    <<"incident_id", U64>>, <<"member", Fixed>>, <<"decision", Enum(3)>>,
    <<"submission_nonce", U64>>, <<"submitted_at_slot", U64>>,
    <<"state", Enum(3)>>>>
IncidentClaim ==
  <<<<"domain", Fixed>>, <<"dependency_namespace", Namespaces>>,
    <<"dependency_id", Fixed>>, <<"observation_window_start", I64>>,
    <<"observation_window_end", I64>>, <<"claim_schema_hash", Fixed>>,
    <<"private_evidence_digest", Fixed>>, <<"signal_category", Enum(4)>>,
    <<"confidence_bucket", Enum(3)>>,
    <<"requested_action_category", Categories>>, <<"submitter", Fixed>>,
    <<"submission_nonce", U64>>>>
OperationInputs ==
  <<<<"domain", Fixed>>, <<"cluster_genesis_hash", Fixed>>,
    <<"covenant", Fixed>>, <<"circle_epoch", U64>>, <<"incident_id", U64>>,
    <<"policy_id", Fixed>>, <<"member_set_hash", Fixed>>,
    <<"action_bundle_template_hash", Fixed>>, <<"certificate_nonce", U64>>>>
RecoveryInputs ==
  <<<<"domain", Fixed>>, <<"original_operation_id", Fixed>>,
    <<"covenant", Fixed>>, <<"circle_epoch", U64>>, <<"incident_id", U64>>,
    <<"recovery_nonce", U64>>>>

-----------------------------------------------------------------------------
(* Writing.  Documents nest twice: an account meta in an action in a bundle. *)

Base == Top + 1
Count64 == Base * (Base * Base)   \* how many numbers an eight-byte integer has
LittleEndian(value, width) ==
  SubSeq(<<value % Base, (value \div Base) % Base,
           ((value \div Base) \div Base) % Base>>, 1, width)

WriteLeaf(type, value) ==
  CASE type.t = "bool" -> <<IF value THEN 1 ELSE 0>>
    [] type.t = "bytes" -> <<Len(value)>> \o value
    [] type.t = "int" -> LittleEndian(value, type.width)
    [] type.t = "i64" ->                           \* setBigInt64 wraps
         LittleEndian(value % Count64, 3)
    [] OTHER -> <<value>>

WriteMeta(schema, meta) ==
  FlattenSeq([i \in DOMAIN schema |-> WriteLeaf(schema[i][2], meta[i])])

WriteActionField(type, value) ==
  IF type.t = "vec"
  THEN <<Len(value)>>
         \o FlattenSeq([i \in DOMAIN value |-> WriteMeta(type.of, value[i])])
  ELSE WriteLeaf(type, value)

WriteAction(schema, action) ==
  FlattenSeq([i \in DOMAIN schema |-> WriteActionField(schema[i][2], action[i])])

Write(type, value) ==
  IF type.t = "vec"
  THEN <<Len(value)>>
         \o FlattenSeq([i \in DOMAIN value |-> WriteAction(type.of, value[i])])
  ELSE WriteLeaf(type, value)

WriteAll(schema, document) ==
  FlattenSeq([i \in DOMAIN schema |-> Write(schema[i][2], document[i])])

-----------------------------------------------------------------------------
(* Reading.  A reader gives, for each offset, a value and the offset after *)
(* it, or an error.                                                        *)

Refusal == [ok |-> FALSE, value |-> << >>, next |-> 0]
Got(value, next) == [ok |-> TRUE, value |-> value, next |-> next]
Offsets(bytes) == 1..(Len(bytes) + 1)

(* Mutant of ReadBool: every byte that is not zero is true.                *)
ReadBool_Lax(bytes, at) ==
  IF at > Len(bytes) THEN Refusal ELSE Got(bytes[at] # 0, at + 1)

ReadBool(bytes, at) ==
  IF at > Len(bytes) \/ bytes[at] > 1 THEN Refusal
  ELSE Got(bytes[at] = 1, at + 1)

ReadByte(bytes, at, limit) ==
  IF at > Len(bytes) \/ bytes[at] >= limit THEN Refusal
  ELSE Got(bytes[at], at + 1)

ReadInt(bytes, at, width) ==
  LET digit(i) == IF i < width THEN bytes[at + i] ELSE 0 IN
  IF at + width > Len(bytes) + 1 THEN Refusal
  ELSE Got(digit(0) + Base * (digit(1) + Base * digit(2)), at + width)

(* getBigInt64: the upper half of the range is the negative numbers.       *)
ReadSigned(bytes, at) ==
  LET read == ReadInt(bytes, at, 3) IN
  IF ~read.ok \/ 2 * read.value < Count64 THEN read
  ELSE Got(read.value - Count64, read.next)

ReadBytes(bytes, at) ==
  IF at > Len(bytes) \/ at + bytes[at] > Len(bytes) THEN Refusal
  ELSE Got(SubSeq(bytes, at + 1, at + bytes[at]), at + bytes[at] + 1)

ReadLeaf(type, bytes, at) ==
  CASE type.t = "bool" -> ReadBool(bytes, at)
    [] type.t = "enum" -> ReadByte(bytes, at, type.n)
    [] type.t = "int" -> ReadInt(bytes, at, type.width)
    [] type.t = "i64" -> ReadSigned(bytes, at)
    [] type.t = "bytes" -> ReadBytes(bytes, at)
    [] OTHER -> ReadByte(bytes, at, Base)

(* One reader after what has been read, from the offset that left.         *)
Extended(row, reader) ==
  IF ~row.ok THEN Refusal
  ELSE LET read == reader[row.next] IN
       IF read.ok THEN Got(Append(row.value, read.value), read.next) ELSE Refusal

ReadRow(readers, at) ==
  LET row[i \in 0..Len(readers)] ==
        IF i = 0 THEN Got(<< >>, at) ELSE Extended(row[i - 1], readers[i])
  IN row[Len(readers)]

LeafReader(type, bytes) ==
  [at \in Offsets(bytes) |-> ReadLeaf(type, bytes, at)]
RowReader(readers, bytes) ==
  [at \in Offsets(bytes) |-> ReadRow(readers, at)]
VecReader(item, bytes) ==
  [at \in Offsets(bytes) |->
     IF at > Len(bytes) THEN Refusal
     ELSE ReadRow([i \in 1..bytes[at] |-> item], at + 1)]

MetaReader(schema, bytes) ==
  RowReader([i \in DOMAIN schema |-> LeafReader(schema[i][2], bytes)], bytes)
ActionFieldReader(type, bytes) ==
  IF type.t = "vec" THEN VecReader(MetaReader(type.of, bytes), bytes)
  ELSE LeafReader(type, bytes)
ActionReader(schema, bytes) ==
  RowReader([i \in DOMAIN schema |-> ActionFieldReader(schema[i][2], bytes)],
            bytes)
Reader(type, bytes) ==
  IF type.t = "vec" THEN VecReader(ActionReader(type.of, bytes), bytes)
  ELSE LeafReader(type, bytes)
DocumentReader(schema, bytes) ==
  RowReader([i \in DOMAIN schema |-> Reader(schema[i][2], bytes)], bytes)

(* finish: trailing bytes are never tolerated.                             *)
Decode(schema, bytes) ==
  LET read == DocumentReader(schema, bytes)[1] IN
  IF read.ok /\ read.next = Len(bytes) + 1 THEN read ELSE Refusal

-----------------------------------------------------------------------------
(* Digests.                                                                *)

Sha(preimage) == <<"sha256", preimage>>
Domain(label) == Sha(label)
HashDigestList(tag, digests) == Sha(<<tag, Len(digests), digests>>)
=============================================================================
