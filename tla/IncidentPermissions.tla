------------------------- MODULE IncidentPermissions -------------------------
(***************************************************************************)
(* The ephemeral permissions that seal an incident's private accounts      *)
(* inside the rollup, composed with the incident itself.                   *)
(*                                                                         *)
(* A permission is an account of the permission program, external to this  *)
(* repository: it is created once, may be updated or closed while it       *)
(* exists, and is paid for by the private account, which must be delegated.*)
(* Its member list is abstracted to whether the account is private.        *)
(***************************************************************************)
EXTENDS Incident

VARIABLES
  claimSeal,    \* "none", "private" or "public"
  ballotSeal    \* "none" or "private", for each member

seals == <<claimSeal, ballotSeal>>

svars == <<vars, seals>>

SealTypeOK ==
  /\ claimSeal \in {"none", "private", "public"}
  /\ ballotSeal \in [Members -> {"none", "private"}]

SealInit ==
  /\ Init
  /\ claimSeal = "none"
  /\ ballotSeal = [m \in Members |-> "none"]

(* Created already private: there is no window in which it is readable.    *)
CreateClaimPermission ==
  /\ claimAt = "er" /\ claimSeal = "none"
  /\ claimSeal' = "private"
  /\ UNCHANGED <<vars, ballotSeal>>

(* The opener may replace the list and the privacy at any time.            *)
UpdateClaimPermission(isPrivate) ==
  /\ claimAt = "er" /\ claimSeal # "none"
  /\ claimSeal' = IF isPrivate THEN "private" ELSE "public"
  /\ UNCHANGED <<vars, ballotSeal>>

CreateAttestationPermission(m) ==
  /\ ballotAt[m] = "er" /\ ballotSeal[m] = "none"
  /\ ballotSeal' = [ballotSeal EXCEPT ![m] = "private"]
  /\ UNCHANGED <<vars, claimSeal>>

(* Permissionless, gated on the bytes and the flag of the account alone.   *)
CloseClaimPermission ==
  /\ claimAt = "er" /\ claimSeal # "none"
  /\ ClaimMayLeave
  /\ claimSeal' = "none"
  /\ UNCHANGED <<vars, ballotSeal>>

(* Mutant of CloseAttestationPermission: closed without the gate.          *)
CloseAttestationPermission_Ungated(m) ==
  /\ ballotAt[m] = "er" /\ ballotSeal[m] # "none"
  /\ ballotSeal' = [ballotSeal EXCEPT ![m] = "none"]
  /\ UNCHANGED <<vars, claimSeal>>

CloseAttestationPermission(m) ==
  /\ ballotAt[m] = "er" /\ ballotSeal[m] # "none"
  /\ MayLeave(ballot[m])
  /\ ballotSeal' = [ballotSeal EXCEPT ![m] = "none"]
  /\ UNCHANGED <<vars, claimSeal>>

SealNext ==
  \/ Next /\ UNCHANGED seals
  \/ CreateClaimPermission
  \/ \E isPrivate \in BOOLEAN : UpdateClaimPermission(isPrivate)
  \/ CloseClaimPermission
  \/ \E m \in Members :
       CreateAttestationPermission(m) \/ CloseAttestationPermission(m)

SealSpec == SealInit /\ [][SealNext]_svars

-----------------------------------------------------------------------------
Secret(m) == ~ProtectedFieldsAreZero(ballot[m])

(* A seal outlives the secret: whoever closes permissions, in whatever     *)
(* order with votes, settlement and scrubs, a ballot that holds a decision *)
(* under a private permission keeps it until its bytes are gone, and so    *)
(* does the evidence unless the opener republishes the claim.              *)
SealOutlivesSecret ==
  [][/\ \A m \in Members :
          Secret(m) /\ ballotSeal[m] = "private" =>
            ballotSeal'[m] = "private" \/ ~Secret(m)'
     /\ claim.evidence /\ claimSeal # "none" =>
            claimSeal' # "none" \/ ~claim'.evidence]_svars
=============================================================================
