--------------------------- MODULE SecretRotation ---------------------------
(***************************************************************************)
(* The credential of one WB or Ozon connection: set_secret stages a new    *)
(* version at the secret provider, names it durably in the row, activates  *)
(* it at the provider without holding the row and only then adopts it      *)
(* (services/integration_settings.py, integration_secrets.py,              *)
(* production_secrets.py).                                                 *)
(*                                                                         *)
(* Every staging makes a fresh reference with one version, so a version    *)
(* stands for both.  A request may die between two of its steps.  The      *)
(* session keeps the row object it loaded: set_secret locks the row again  *)
(* with SELECT ... FOR UPDATE, which fetches it but does not refresh the   *)
(* attributes of an object the session already holds (db.py opens sessions *)
(* with expire_on_commit=False).                                           *)
(***************************************************************************)
EXTENDS Integers, FiniteSets

CONSTANTS Admins, MaxVersion

ASSUME SecretConstants == MaxVersion \in Nat \ {0}

VARIABLES secret,   \* the row's columns about its credential
          provider, \* what the provider keeps of every version
          req,      \* the set_secret request of each administrator
          wbHealth, \* the latest completed health check of the connection
          resting   \* ghost: versions an administrator asked to revoke

secretVars == <<secret, provider, req, wbHealth, resting>>

NoVersion == 0
Versions == 1..MaxVersion
Idle == [at |-> "idle", ver |-> NoVersion, pending |-> NoVersion]

SecretTypeOK ==
  /\ secret \in [active : 0..MaxVersion, pending : 0..MaxVersion, legacy : BOOLEAN,
                 rotation : {"NONE", "PENDING", "PENDING_FAILED", "ACTIVE", "REVOKED"}]
  /\ provider \in [Versions -> {"absent", "staged", "active", "gone"}]
  /\ req \in [Admins -> [at : {"idle", "staged", "activated"}, ver : 0..MaxVersion,
                         pending : 0..MaxVersion]]
  /\ wbHealth \in {"none", "READY", "ERROR"}
  /\ resting \subseteq Versions

\* create_wb and create_ozon, or a row from before the versioned columns
SecretInit ==
  /\ \E legacy \in BOOLEAN :
       secret = [active |-> NoVersion, pending |-> NoVersion, legacy |-> legacy,
                 rotation |-> "NONE"]
  /\ provider = [v \in Versions |-> "absent"]
  /\ req = [a \in Admins |-> Idle]
  /\ wbHealth = "none" /\ resting = {}

\* _secret_ref: what a check reads, the active reference before the legacy one
HasSecret(r) == r.active # NoVersion \/ r.legacy

------------------------------------------------------------------------------
\* The provider

\* EncryptedVersionedFilesystemSecretProvider.get, of a version's reference
Served(v) == v \in Versions /\ provider[v] = "active"

Stage(v) == provider' = [provider EXCEPT ![v] = "staged"]

\* activate decrypts the version's file before it moves the pointer.
CanActivate(v) == provider[v] \in {"staged", "active"}
Activate(v) == provider' = [provider EXCEPT ![v] = "active"]

\* revoke drops the pointer and the file of the version.
Withdraw(v) == provider' = [provider EXCEPT ![v] = "gone"]

------------------------------------------------------------------------------
\* set_secret, in its three transactions

Fresh == {v \in Versions : /\ provider[v] = "absent"
                           /\ \A w \in Versions : w < v => provider[w] # "absent"}

\* The row is locked, the value staged and the pending pointer committed.
SetSecretStage(a) ==
  /\ req[a].at = "idle"
  /\ \E v \in Fresh :
       /\ Stage(v)
       /\ secret' = [secret EXCEPT !.pending = v, !.rotation = "PENDING"]
       /\ req' = [req EXCEPT ![a] = [at |-> "staged", ver |-> v, pending |-> v]]
  /\ UNCHANGED <<wbHealth, resting>>

\* The commit fails: rollback, and the staged file is destroyed -- unless the
\* process died first, which leaves it behind.
SetSecretStageFails(a) ==
  /\ req[a].at = "idle"
  /\ \E v \in Fresh, left \in {"gone", "staged"} :
       provider' = [provider EXCEPT ![v] = left]
  /\ UNCHANGED <<secret, req, wbHealth, resting>>

SetSecretActivate(a) ==
  /\ req[a].at = "staged" /\ CanActivate(req[a].ver)
  /\ Activate(req[a].ver)
  /\ req' = [req EXCEPT ![a].at = "activated"]
  /\ UNCHANGED <<secret, wbHealth, resting>>

\* The provider refuses: the old active version stays, the pending one is kept
\* as evidence.
SetSecretActivateFails(a) ==
  /\ req[a].at = "staged"
  /\ secret' = [secret EXCEPT !.rotation = "PENDING_FAILED"]
  /\ req' = [req EXCEPT ![a] = Idle]
  /\ UNCHANGED <<provider, wbHealth, resting>>

\* The columns a finished rotation writes, from the row object in the session
Adopted(r, v) == [r EXCEPT !.active = v, !.pending = NoVersion, !.rotation = "ACTIVE",
                           !.legacy = FALSE]

\* Wrong variant: the row is moved to the new version before the provider is.
AdoptBeforeActivate(a) ==
  /\ req[a].at \in {"staged", "activated"}
  /\ req[a].pending = req[a].ver
  /\ secret' = Adopted(secret, req[a].ver)
  /\ req' = [req EXCEPT ![a] = Idle]
  /\ UNCHANGED <<provider, wbHealth, resting>>

\* The row is locked again and `pending' compared with the activated version:
\* with the value the session has held since it staged, not the row's.
SetSecretAdopt(a) ==
  /\ req[a].at = "activated"
  /\ req[a].pending = req[a].ver
  /\ secret' = Adopted(secret, req[a].ver)
  /\ req' = [req EXCEPT ![a] = Idle]
  /\ UNCHANGED <<provider, wbHealth, resting>>

\* The request dies, or its last transaction is rolled back.
SetSecretDies(a) ==
  /\ req[a].at # "idle"
  /\ req' = [req EXCEPT ![a] = Idle]
  /\ UNCHANGED <<secret, provider, wbHealth, resting>>

------------------------------------------------------------------------------
\* The other operations on the credential, each under the row lock

\* revoke_secret: the provider first, the row when the request commits.  A
\* request that dies in between leaves the row naming what is gone.
RevokeSecret ==
  /\ secret.active # NoVersion
  /\ Withdraw(secret.active)
  /\ resting' = resting \cup {secret.active}
  /\ \/ secret' = [active |-> NoVersion, pending |-> NoVersion, legacy |-> FALSE,
                   rotation |-> "REVOKED"]
     \/ UNCHANGED secret
  /\ UNCHANGED <<req, wbHealth>>

\* reconcile_secret_rotation: the pending version is adopted when the provider
\* already serves it.  The legacy column stays as it is.
ReconcileSecretRotation ==
  /\ secret.pending # NoVersion /\ Served(secret.pending)
  /\ secret' = [secret EXCEPT !.active = secret.pending, !.pending = NoVersion,
                              !.rotation = "ACTIVE"]
  /\ UNCHANGED <<provider, req, wbHealth, resting>>

\* _check_wb and _check_ozon: one transaction under the row lock.  READY takes a
\* secret the provider serves and a seller whose identity is the participant's.
CheckSecret ==
  /\ \E overall \in {"READY", "ERROR"} :
       /\ overall = "READY" => \/ Served(secret.active)
                               \/ secret.active = NoVersion /\ HasSecret(secret)
       /\ wbHealth' = overall
  /\ UNCHANGED <<secret, provider, req, resting>>

SecretNext ==
  \/ \E a \in Admins : \/ SetSecretStage(a) \/ SetSecretStageFails(a)
                       \/ SetSecretActivate(a) \/ SetSecretActivateFails(a)
                       \/ SetSecretAdopt(a) \/ SetSecretDies(a)
  \/ RevokeSecret \/ ReconcileSecretRotation \/ CheckSecret

SecretSpec == SecretInit /\ [][SecretNext]_secretVars

------------------------------------------------------------------------------
\* Properties

\* Whatever rotations race, fail or die (set_secret), the version the row calls
\* active is one the provider serves, or one that revoke_secret withdrew: no
\* rotation leaves the connection with a credential that cannot be read.
ActiveSecretIsServed ==
  secret.active # NoVersion => Served(secret.active) \/ secret.active \in resting

==============================================================================
