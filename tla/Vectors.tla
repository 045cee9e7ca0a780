------------------------------- MODULE Vectors -------------------------------
(***************************************************************************)
(* The parity check: one implementation writes the vector file, another    *)
(* reads it, and between them the encoder may have drifted, a recorded     *)
(* value may have been edited, or a byte of an encoding may be damaged.    *)
(*                                                                         *)
(* The recorded values stand for those of canonical-vectors.json: a number *)
(* for each distinct key and digest, and two values are equal here where   *)
(* they are equal there.  Of the file's mutated bundles three stand for    *)
(* the accepted ones and one for the rejected ones; its prose and the      *)
(* table for the monitor's tests are left out.                             *)
(***************************************************************************)
EXTENDS Canonical

VARIABLES
  work,      \* what is checked: "parity", "delivery" or nothing
  stage,     \* how far it is
  drift,     \* what is wrong with the file
  file,      \* the vector file
  wire,      \* the bytes of one bundle on their way
  result     \* what the reader concluded

vectorVars == <<work, stage, drift, file, wire, result>>

Schemas ==
  [member |-> Member, policy |-> ResponsePolicy, template |-> ActionTemplate,
   template_meta |-> TemplateAccountMeta,
   bundle_template |-> ActionBundleTemplate, bundle |-> ActionBundle,
   action |-> CanonicalAction, meta |-> AccountMeta,
   certificate |-> Certificate, covenant_digest |-> CovenantDigest,
   attestation |-> Attestation, incident_claim |-> IncidentClaim,
   operation_id |-> OperationInputs, recovery_operation_id |-> RecoveryInputs]
Kinds == DOMAIN Schemas

Nested == {"template_meta", "action", "meta"}    \* only within other documents
Ids == {"operation_id", "recovery_operation_id"} \* filed without their bytes
Filed == Kinds \ (Nested \cup Ids)

(* What is wrong: nothing, a generator that differs, or an edited leaf.    *)
Fault(do, kind, i, j) == [do |-> do, kind |-> kind, i |-> i, j |-> j]
NoDrift == Fault("none", "none", 0, 0)

-----------------------------------------------------------------------------
(* The fixtures.                                                           *)

Genesis == 111
Covenant == 112
PolicyId == 113
MemberSetHash == 114
TemplateHash == 115
OperationId == 116
BundleHash == 117

Labels == <<"COVENANT", "MEMBER_SET", "MEMBER", "POLICY", "POLICY_SET",
            "ADAPTER_SET", "ACTION_TEMPLATE", "ACTION_BUNDLE", "OPERATION",
            "CERTIFICATE", "ATTESTATION", "INCIDENT_CLAIM", "RECOVERY">>
Tag(label) == 200 + CHOOSE n \in 1..13 : Labels[n] = label

(* The generator may spell a label otherwise.                              *)
TheirTag(label, d) ==
  IF d.do = "label" /\ d.kind = label THEN Tag(label) + 20 ELSE Tag(label)

CertificateMeta == <<3, 0, FALSE, FALSE>>
Templates(domain) ==
  LET template(i, program, capability, target, selector, metas, data, pauses) ==
        <<domain, 1, i, Genesis, Covenant, 1, PolicyId, 0, program, 1,
          capability, target, selector, metas, data, pauses, FALSE, 0>>
      adapter_template(i) ==
        template(i - 1, 124, 160 + i, 125, 126,
                 <<CertificateMeta, <<0, 160 + i, FALSE, TRUE>>,
                   <<0, 170 + i, FALSE, TRUE>>, <<1, 0, FALSE, TRUE>>>>,
                 <<1, 2, i - 1>>, TRUE)
  IN Append([i \in 1..3 |-> adapter_template(i)],
            template(3, 127, 164, 127, 128,
                     <<CertificateMeta, <<2, 0, FALSE, TRUE>>>>,
                     <<128, 128>>, FALSE))

(* A template's derived accounts are resolved, its nonce is filled in.     *)
Resolved(t) ==
  LET address(role, fixed) == CASE role = 0 -> fixed
                                [] role = 1 -> 181 + t[3]
                                [] role = 2 -> 189
                                [] role = 3 -> 190
  IN <<t[3], t[9], t[10], t[11], t[12], t[13],
       [m \in DOMAIN t[14] |->
          <<address(t[14][m][1], t[14][m][2]), t[14][m][3], t[14][m][4]>>],
       t[15], t[16], t[17], t[18], IF t[16] THEN 7 ELSE 0>>

Recorded(d) ==
  LET tag(label) == TheirTag(label, d)
      templates == Templates(tag("ACTION_TEMPLATE"))
  IN
  [member |-> [i \in 1..3 |-> <<tag("MEMBER"), 150 + i, 0, 160 + i, 1>>],
   policy |-> <<<<tag("POLICY"), PolicyId, 0, 1, 121, MemberSetHash, 2, 1,
                  <<<<0>>>>, 3, 6, TemplateHash, 1>>>>,
   template |-> templates,
   bundle_template |-> <<<<templates>>>>,
   bundle |-> <<<<tag("ACTION_BUNDLE"), Genesis, Covenant, 1, 7, PolicyId,
                  MemberSetHash, 17, OperationId,
                  [i \in 1..4 |-> Resolved(templates[i])]>>>>,
   certificate |-> <<<<tag("CERTIFICATE"), Genesis, Covenant, 1, 7, PolicyId,
                       MemberSetHash, BundleHash, OperationId, 42, 2, 0, 11,
                       17>>>>,
   covenant_digest |-> <<<<tag("COVENANT"), Genesis, Covenant, 1, 120,
                           MemberSetHash, 119, 118, 0, 60>>>>,
   attestation |-> <<<<tag("ATTESTATION"), Covenant, 1, 7, 151, 0, 1, 11, 0>>>>,
   incident_claim |-> <<<<tag("INCIDENT_CLAIM"), 1, 121, 33, 36, 122, 123,
                          0, 2, 0, 151, 1>>>>,
   operation_id |-> <<tag("OPERATION"), Genesis, Covenant, 1, 7, PolicyId,
                      MemberSetHash, TemplateHash, 42>>,
   recovery_operation_id |-> <<tag("RECOVERY"), OperationId, Covenant, 1, 7,
                               99>>]

(* bundle_mutations: a number, the order of two metas, one meta more.      *)
Mutated(bundle) ==
  <<[bundle EXCEPT ![4] = @ + 1],
    [bundle EXCEPT ![10][1][7] = <<@[1], @[3], @[2], @[4]>>],
    [bundle EXCEPT ![10][1][7] = Append(@, <<199, FALSE, TRUE>>)]>>

-----------------------------------------------------------------------------
(* How the generator's encoder may differ from a schema, wherever in a     *)
(* document that schema stands: two fields of one type in the other order, *)
(* a field left out, an integer of another width.                          *)

Widths == {U8, U16, U64}

Drifts(kind) ==
  LET type(i) == Schemas[kind][i][2]
      At == DOMAIN Schemas[kind]
  IN {Fault("swap", kind, q[1], q[2]) :
        q \in {p \in At \X At : p[1] < p[2] /\ type(p[1]) = type(p[2])}}
     \cup {Fault("drop", kind, i, i) : i \in At}
     \cup {Fault("width", kind, q[1], q[2]) :
             q \in {p \in At \X (1..3) : type(p[1]) \in Widths \ {IntOf(p[2])}}}
LabelDrifts == {Fault("label", Labels[n], 0, 0) : n \in DOMAIN Labels}

(* What is written for a row, in order: which field, and as what.          *)
Order(schema, d) ==
  LET own == [i \in DOMAIN schema |-> <<i, schema[i][2]>>] IN
  IF d.kind \notin Kinds \/ schema # Schemas[d.kind] THEN own
  ELSE CASE d.do = "swap" -> [own EXCEPT ![d.i] = own[d.j], ![d.j] = own[d.i]]
         [] d.do = "drop" -> RemoveAt(own, d.i)
         [] d.do = "width" -> [own EXCEPT ![d.i] = <<d.i, IntOf(d.j)>>]
         [] OTHER -> own

DriftedRow(schema, row, d, Item(_, _, _)) ==
  LET order == Order(schema, d)
      field(type, value) ==
        IF type.t # "vec" THEN WriteLeaf(type, value)
        ELSE <<Len(value)>>
               \o FlattenSeq([n \in DOMAIN value |-> Item(type.of, value[n], d)])
  IN FlattenSeq([n \in DOMAIN order |-> field(order[n][2], row[order[n][1]])])
DriftedLeaves(schema, row, d) ==
  LET Nothing(s, r, e) == << >> IN DriftedRow(schema, row, d, Nothing)
DriftedItem(schema, row, d) == DriftedRow(schema, row, d, DriftedLeaves)
DriftedWrite(kind, document, d) ==
  DriftedRow(Schemas[kind], document, d, DriftedItem)

Entry(kind, document, d) ==
  LET bytes == DriftedWrite(kind, document, d) IN
  [fields |-> document, borsh |-> bytes, borsh_len |-> Len(bytes),
   sha256 |-> Sha(bytes)]

Digests(entries) == [i \in DOMAIN entries |-> entries[i].sha256]

Mutations(bundle, d) ==
  LET mutant(b) == LET bytes == DriftedWrite("bundle", b, d) IN
        [rejected |-> FALSE, reason |-> FALSE, borsh |-> bytes,
         sha256 |-> Sha(bytes)]
      mutants == Mutated(bundle)
  IN Append([n \in DOMAIN mutants |-> mutant(mutants[n])],
            [rejected |-> TRUE, reason |-> TRUE, borsh |-> << >>,
             sha256 |-> Sha(<< >>)])

Generated(d) ==
  LET recorded == Recorded(d)
      entries == [kind \in Filed |->
                    [n \in DOMAIN recorded[kind] |->
                       Entry(kind, recorded[kind][n], d)]]
      ids == [kind \in Ids |->
                [inputs |-> recorded[kind],
                 sha256 |-> Sha(DriftedWrite(kind, recorded[kind], d))]]
      template_hash == entries.bundle_template[1].sha256
  IN [domains |-> [n \in DOMAIN Labels |->
                     [label |-> TheirTag(Labels[n], d),
                      sha256 |-> Domain(TheirTag(Labels[n], d))]],
      entries |-> entries, ids |-> ids,
      mutations |-> Mutations(recorded.bundle[1], d),
      member_set_hash |-> HashDigestList(Domain(TheirTag("MEMBER_SET", d)),
                                         Digests(entries.member)),
      policies_hash |-> HashDigestList(Domain(TheirTag("POLICY_SET", d)),
                                       Digests(entries.policy)),
      adapter_set_hash |-> Sha(<<1>>),
      bundle_template_hash |-> template_hash,
      differs_from_original |-> TRUE,
      \* the digests that the numbers above stand for
      meaning |-> (TemplateHash :> template_hash
                   @@ OperationId :> ids.operation_id.sha256
                   @@ BundleHash :> entries.bundle[1].sha256)]

-----------------------------------------------------------------------------
(* verifyVectors and templateRoundTrips.                                   *)

(* The structured fields that are encoded again: for the bundle's template *)
(* those of the four templates, its own are not looked at.                 *)
Rebuilt(f, kind, n) ==
  IF kind = "bundle_template"
  THEN <<[i \in DOMAIN f.entries.template |-> f.entries.template[i].fields]>>
  ELSE f.entries[kind][n].fields

(* Mutant of EntryHolds: only the recorded bytes are hashed.               *)
EntryHolds_Weak(kind, entry, document) == entry.sha256 = Sha(entry.borsh)

EntryHolds(kind, entry, document) ==
  LET bytes == WriteAll(Schemas[kind], document) IN
  /\ entry.sha256 = Sha(entry.borsh) /\ entry.borsh_len = Len(entry.borsh)
  /\ entry.borsh = bytes /\ entry.sha256 = Sha(bytes)

(* operationId, recoveryOperationId: the domain is the verifier's own.     *)
DerivedId(kind, inputs) ==
  LET own == Tag(IF kind = "operation_id" THEN "OPERATION" ELSE "RECOVERY")
  IN Sha(WriteAll(Schemas[kind], [inputs EXCEPT ![1] = own]))

Meaning(f, number) ==
  IF number \in DOMAIN f.meaning THEN f.meaning[number] ELSE Sha(<<number>>)

(* Every meta that is read has the key of the meta in its place.           *)
MetasInOrder(read, bundle) ==
  \A i \in DOMAIN read[10] : \A m \in DOMAIN read[10][i][7] :
    /\ i \in DOMAIN bundle[10] /\ m \in DOMAIN bundle[10][i][7]
    /\ read[10][i][7][m][1] = bundle[10][i][7][m][1]

(* A decoder that throws ends the check, which is not a success.           *)
RoundTrips(schema, bytes) ==
  LET read == Decode(schema, bytes) IN
  read.ok /\ WriteAll(schema, read.value) = bytes

MutationHolds(f, n) ==
  LET m == f.mutations[n]
      before == {k \in 1..(n - 1) : ~f.mutations[k].rejected}
  IN IF m.rejected THEN m.reason
     ELSE /\ m.sha256 = Sha(m.borsh) /\ RoundTrips(ActionBundle, m.borsh)
          /\ m.sha256 \notin {f.entries.bundle[1].sha256}
                               \cup {f.mutations[k].sha256 : k \in before}

Agrees(f) ==
  LET entries == f.entries
      ids == f.ids
      bundle == entries.bundle[1]
      certificate == entries.certificate[1].fields
      read == Decode(ActionBundle, bundle.borsh)
  IN [domains |-> \A n \in DOMAIN f.domains :
                    f.domains[n].sha256 = Domain(f.domains[n].label),
      entries |-> \A kind \in Filed : \A n \in DOMAIN entries[kind] :
                    EntryHolds(kind, entries[kind][n], Rebuilt(f, kind, n)),
      member_set |-> f.member_set_hash =
        HashDigestList(Domain(Tag("MEMBER_SET")), Digests(entries.member)),
      policies |-> f.policies_hash =
        HashDigestList(Domain(Tag("POLICY_SET")), Digests(entries.policy)),
      bundle_template |->
        /\ f.bundle_template_hash = entries.bundle_template[1].sha256
        /\ RoundTrips(ActionBundleTemplate, entries.bundle_template[1].borsh),
      ids |-> \A kind \in Ids :
                ids[kind].sha256 = DerivedId(kind, ids[kind].inputs),
      operation_id |->
        f.bundle_template_hash = Meaning(f, ids.operation_id.inputs[8]),
      action_bundle |->
        /\ ids.operation_id.sha256 = Meaning(f, bundle.fields[9])
        /\ read.ok /\ MetasInOrder(read.value, bundle.fields),
      mutations |-> \A n \in DOMAIN f.mutations : MutationHolds(f, n),
      certificate |->
        /\ bundle.sha256 = Meaning(f, certificate[8])
        /\ ids.operation_id.sha256 = Meaning(f, certificate[9]),
      recovery |->
        ids.recovery_operation_id.sha256 # ids.operation_id.sha256]

Failures(f) == LET agrees == Agrees(f) IN {c \in DOMAIN agrees : ~agrees[c]}

-----------------------------------------------------------------------------
(* The parity check, step by step.                                         *)

ParityStep(from, to) == /\ work = "parity" /\ stage = from /\ stage' = to
                        /\ UNCHANGED <<work, wire>>

Generate ==
  /\ ParityStep("start", "generated")
  /\ drift' \in {NoDrift} \cup LabelDrifts \cup UNION {Drifts(k) : k \in Kinds}
  /\ file' = Generated(drift')
  /\ UNCHANGED result

(* One leaf of the file is edited by hand: what a field may become.        *)
Other(type, value) ==
  CASE type.t = "bool" -> ~value
    [] type.t = "bytes" -> [value EXCEPT ![1] = @ + 1]
    [] OTHER -> value + 1
Edits(type, value, Inner(_, _)) ==
  IF type.t # "vec" THEN {Other(type, value)}
  ELSE UNION {{[value EXCEPT ![n][i] = v] :
                 v \in Inner(type.of[i][2], value[n][i])} :
              n \in DOMAIN value, i \in DOMAIN type.of}
LeafEdits(type, value) == {Other(type, value)}
ItemEdits(type, value) == Edits(type, value, LeafEdits)
FieldEdits(type, value) == Edits(type, value, ItemEdits)

Edited(kind, i, n) == drift' = Fault("edit", kind, i, n)

EditEntry(kind, n) ==
  /\ \/ file' = [file EXCEPT !.entries[kind][n].sha256 = Sha(<<0>>)]
     \/ file' = [file EXCEPT !.entries[kind][n].borsh[1] = @ + 1]
     \/ file' = [file EXCEPT !.entries[kind][n].borsh_len = @ + 1]
  /\ Edited(kind, 0, n)

EditField(kind, n, i) ==
  /\ \E v \in FieldEdits(Schemas[kind][i][2], file.entries[kind][n].fields[i]) :
       file' = [file EXCEPT !.entries[kind][n].fields[i] = v]
  /\ Edited(kind, i, n)

EditId(kind) ==
  \/ /\ file' = [file EXCEPT !.ids[kind].sha256 = Sha(<<0>>)]
     /\ Edited(kind, 0, 0)
  \/ \E i \in DOMAIN Schemas[kind] :
       /\ file' = [file EXCEPT !.ids[kind].inputs[i] = @ + 1]
       /\ Edited(kind, i, 0)

EditDomain(n) ==
  /\ \/ file' = [file EXCEPT !.domains[n].label = @ + 40]
     \/ file' = [file EXCEPT !.domains[n].sha256 = Domain(0)]
  /\ Edited("domains", n, 0)

EditMutation(n) ==
  /\ IF file.mutations[n].rejected
     THEN file' = [file EXCEPT !.mutations[n].reason = FALSE]
     ELSE \/ file' = [file EXCEPT !.mutations[n].sha256 = Sha(<<0>>)]
          \/ file' = [file EXCEPT !.mutations[n].borsh[1] = @ + 1]
  /\ Edited("mutations", n, 0)

EditHash(name) ==
  /\ file' = [file EXCEPT ![name] = Sha(<<0>>)]
  /\ Edited(name, 0, 0)

EditDiffers ==
  /\ file' = [file EXCEPT !.differs_from_original = FALSE]
  /\ Edited("differs_from_original", 0, 0)

Tamper ==
  /\ ParityStep("generated", "edited") /\ drift = NoDrift
  /\ \/ \E kind \in Filed : \E n \in DOMAIN file.entries[kind] :
          \/ EditEntry(kind, n)
          \/ \E i \in DOMAIN Schemas[kind] : EditField(kind, n, i)
     \/ \E kind \in Ids : EditId(kind)
     \/ \E n \in DOMAIN file.domains : EditDomain(n)
     \/ \E n \in DOMAIN file.mutations : EditMutation(n)
     \/ \E name \in {"member_set_hash", "policies_hash", "adapter_set_hash",
                     "bundle_template_hash"} : EditHash(name)
     \/ EditDiffers
  /\ UNCHANGED result

VerifyVectors ==
  /\ \/ ParityStep("generated", "verified")
     \/ ParityStep("edited", "verified")
  /\ result' = Failures(file)
  /\ UNCHANGED <<drift, file>>

-----------------------------------------------------------------------------
(* One bundle on its way: written, perhaps damaged in one byte, and read.  *)

SomeActions ==
  {<<0, 124, 1, 161, 125, 126, metas, data, TRUE, FALSE, 300, 7>> :
     metas \in {<< >>, <<<<190, FALSE, TRUE>>>>}, data \in {<< >>, <<1, 2>>}}
SomeBundles ==
  {<<Tag("ACTION_BUNDLE"), Genesis, Covenant, 1, 7, PolicyId, MemberSetHash,
     17, OperationId, actions>> :
     actions \in {<< >>} \cup {<<a>> : a \in SomeActions}
                         \cup {<<a, a>> : a \in SomeActions}}
SomeBytes == {0, 1, 2, Top}

Damages(bytes) ==
  {[bytes EXCEPT ![i] = b] : i \in DOMAIN bytes, b \in SomeBytes}
    \cup {RemoveAt(bytes, i) : i \in DOMAIN bytes}
    \cup {InsertAt(bytes, i, b) : i \in 1..(Len(bytes) + 1), b \in SomeBytes}

DeliveryStep(from, to) == /\ work = "delivery" /\ stage = from /\ stage' = to
                          /\ UNCHANGED <<work, drift>>

Send ==
  /\ DeliveryStep("start", "sent")
  /\ file' \in SomeBundles
  /\ wire' = WriteAll(ActionBundle, file')
  /\ UNCHANGED result

Damage ==
  /\ DeliveryStep("sent", "damaged")
  /\ wire' \in Damages(wire) \ {wire}
  /\ UNCHANGED <<file, result>>

DecodeActionBundle ==
  /\ \/ DeliveryStep("sent", "read") \/ DeliveryStep("damaged", "read")
  /\ result' = Decode(ActionBundle, wire)
  /\ UNCHANGED <<file, wire>>

-----------------------------------------------------------------------------
VectorInit(workload) ==
  /\ work = workload /\ stage = "start" /\ drift = NoDrift
  /\ file = << >> /\ wire = << >> /\ result = << >>

VectorNext ==
  Generate \/ Tamper \/ VerifyVectors \/ Send \/ Damage \/ DecodeActionBundle

VectorSpec ==
  /\ \E workload \in {"parity", "delivery", "none"} : VectorInit(workload)
  /\ [][VectorNext]_vectorVars

-----------------------------------------------------------------------------
(* The parity check reports every drift of the generator's encoder and     *)
(* every edited leaf of its file except those it cannot see, and it reports *)
(* no file that is right (verifyVectors, cli.ts).  It cannot see           *)
(*  - two swapped fields that hold one value in every recorded document;   *)
(*  - another label, unless the verifier hashes under its own constant;    *)
(*  - an edit of what it never reads: the adapters' hash, the flag of the  *)
(*    recovery, the domain among the inputs of an id, and the fields of    *)
(*    the bundle's template.                                               *)
BlindSwaps ==
  {<<"attestation", 3, 7>>, <<"attestation", 6, 9>>, <<"template", 2, 10>>}
OwnLabels == {"MEMBER_SET", "POLICY_SET", "OPERATION", "RECOVERY"}
Unseeable(d) ==
  \/ d = NoDrift
  \/ d.do = "swap" /\ <<d.kind, d.i, d.j>> \in BlindSwaps
  \/ d.do = "label" /\ d.kind \notin OwnLabels
  \/ d.do = "edit" /\ \/ d.kind \in {"adapter_set_hash", "differs_from_original"}
                      \/ d.kind \in Ids /\ d.i = 1
                      \/ d.kind = "bundle_template" /\ d.i = 1
DriftIsSeen ==
  work = "parity" /\ stage = "verified" => (result = {} <=> Unseeable(drift))

(* Bytes have one reading and a reading has one encoding: what the strict  *)
(* decoder accepts, damaged or not, is exactly what the writer writes for  *)
(* the document it returns (BorshReader.bool and finish).                  *)
StrictReading ==
  work = "delivery" /\ stage = "read" /\ result.ok =>
    WriteAll(ActionBundle, result.value) = wire

(* A bundle that was not damaged is read back as it was written.           *)
ReadsWhatWasWritten ==
  work = "delivery" /\ stage = "read" /\ wire = WriteAll(ActionBundle, file) =>
    result.ok /\ result.value = file

(* Writer and strict reader are inverse to one another, on every bundle     *)
(* and on every damage of one.                                              *)
ReadsBackExactly == StrictReading /\ ReadsWhatWasWritten
=============================================================================
