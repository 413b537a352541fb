------------------------ MODULE IntegrationSettings ------------------------
(***************************************************************************)
(* A behaviour follows one connection of the participant: a marketplace    *)
(* connection and its credential, the True API connection with the Windows *)
(* agents and certificates it depends on, or the request budgets of their  *)
(* remote services.  The kinds share no row, so `kind' is drawn once.      *)
(***************************************************************************)
EXTENDS SecretRotation, CertificateSelection, RateLimits

VARIABLE kind

vars == <<kind, secretVars, bindingVars, certVars, budget, rateVars>>

TypeOK ==
  /\ kind \in {"wb", "true-api", "limits"}
  /\ SecretTypeOK /\ BindingTypeOK /\ CertTypeOK /\ RateTypeOK

Init ==
  /\ kind \in {"wb", "true-api", "limits"}
  /\ SecretInit /\ BindingInit /\ CertInit /\ RateInit
  /\ kind # "wb" => ~secret.legacy
  /\ kind # "true-api" => ~realRead
  /\ kind # "limits" => limiter = "window"

TrueApiNext ==
  \/ BindingNext /\ UNCHANGED <<conn, rows, current, check, realRead>>
     /\ last' = IF PrimaryOf(binding') = PrimaryOf(binding) THEN last ELSE NoReport
  \/ CertNext /\ UNCHANGED bindingVars

TrueApiSpec == BindingInit /\ CertInit /\ [][TrueApiNext]_<<bindingVars, certVars, budget>>

Next ==
  \/ kind = "wb" /\ SecretNext /\ UNCHANGED <<kind, bindingVars, certVars, budget, rateVars>>
  \/ kind = "true-api" /\ TrueApiNext /\ UNCHANGED <<kind, secretVars, rateVars>>
  \/ kind = "limits" /\ RateNext /\ UNCHANGED <<kind, secretVars, bindingVars, certVars, budget>>

Spec == Init /\ [][Next]_vars

\* The agent polls its queue for ever and reports what it did.
AgentAnswers ==
  /\ kind = "true-api"
  /\ \E k \in Checks : ApplyAgentHealthResult(k, NoObservation, FALSE, "HEALTH_FAILED")
  /\ UNCHANGED <<kind, secretVars, bindingVars, rateVars>>

FairSpec == Spec /\ WF_vars(AgentAnswers)

==============================================================================
