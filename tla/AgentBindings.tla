---------------------------- MODULE AgentBindings ----------------------------
(***************************************************************************)
(* The participant's Windows agents: enrollment by a one-time token, the   *)
(* binding it creates, rotation and withdrawal of the machine credential   *)
(* (services/agent_enrollment.py, services/agent_bindings.py,              *)
(* api/enrollment_routes.py).                                              *)
(*                                                                         *)
(* A binding is named in the order it is created.  `holds[b]' says whether *)
(* the machine has the binding's current credential: it is shown once, in  *)
(* an answer that may be lost.                                             *)
(***************************************************************************)
EXTENDS Integers, FiniteSets

CONSTANTS Bindings, Tokens, AllowSecondary, MaxEvents

ASSUME BindingConstants == Bindings \subseteq Nat \ {0} /\ AllowSecondary \in BOOLEAN
                           /\ MaxEvents \in Nat

VARIABLES binding, token, holds,
          budget  \* requests and inventories still to come

bindingVars == <<binding, token, holds>>

Charge == budget > 0 /\ budget' = budget - 1

NoBinding == 0

\* ProtocolCompatibility, as evaluate_protocol orders its answers
Compatibilities == {"COMPATIBLE", "UPGRADE_REQUIRED", "UNSUPPORTED"}

\* evaluate_protocol: versions are numbers, 0 one that does not parse.
EvaluateProtocol(offered, current, minimum, agent, minAgent) ==
  IF offered = 0 THEN "UNSUPPORTED"
  ELSE IF offered < minimum THEN "UPGRADE_REQUIRED"
  ELSE IF offered > current THEN "UNSUPPORTED"
  ELSE IF agent < minAgent THEN "UPGRADE_REQUIRED"
  ELSE "COMPATIBLE"

BindingTypeOK ==
  /\ binding \in [Bindings -> [state : {"none", "PENDING", "ACTIVE", "DISABLED"}, primary : BOOLEAN]]
  /\ token \in [Tokens -> [state : {"none", "PENDING", "USED"}, made : Bindings \cup {NoBinding}]]
  /\ holds \in [Bindings -> BOOLEAN]

BindingInit ==
  /\ binding = [b \in Bindings |-> [state |-> "none", primary |-> FALSE]]
  /\ token = [t \in Tokens |-> [state |-> "none", made |-> NoBinding]]
  /\ holds = [b \in Bindings |-> FALSE]
  /\ budget = MaxEvents

\* AgentBindingService.primary_for_active_scope
PrimaryOf(B) == {b \in Bindings : B[b].state = "ACTIVE" /\ B[b].primary}
Primary == IF PrimaryOf(binding) = {} THEN NoBinding ELSE CHOOSE b \in PrimaryOf(binding) : TRUE

Unused == {b \in Bindings : /\ binding[b].state = "none"
                            /\ \A c \in Bindings : c < b => binding[c].state # "none"}

\* AgentBindingService.create, and the index that lets one active primary be:
\* a second one is refused, whether the query or the index finds the first.
MayCreate(activate, primary) == activate /\ primary => PrimaryOf(binding) = {}

Created(b, activate, primary) ==
  [binding EXCEPT ![b] = [state |-> IF activate THEN "ACTIVE" ELSE "PENDING",
                          primary |-> primary /\ activate]]

------------------------------------------------------------------------------
\* Operations

\* create_agent_binding: the credential goes to the administrator's browser.
CreateBinding(b, activate, primary) ==
  /\ b \in Unused /\ MayCreate(activate, primary)
  /\ binding' = Created(b, activate, primary)
  /\ \E got \in BOOLEAN : holds' = [holds EXCEPT ![b] = got]
  /\ UNCHANGED <<token, budget>>

\* AgentEnrollmentService.create_intent
CreateIntent(t) ==
  /\ token[t].state = "none"
  /\ token' = [token EXCEPT ![t].state = "PENDING"]
  /\ UNCHANGED <<binding, holds, budget>>

\* AgentEnrollmentService.exchange.  An expired token, another participant's
\* INN and a live primary raise, and the request's rollback keeps the token as
\* it was; an agent of the wrong protocol uses the token up for nothing.
Exchange(t, compatibility) ==
  /\ token[t].state = "PENDING" /\ UNCHANGED budget
  /\ \/ /\ compatibility # "COMPATIBLE"
        /\ token' = [token EXCEPT ![t].state = "USED"]
        /\ UNCHANGED <<binding, holds>>
     \/ /\ compatibility = "COMPATIBLE" /\ MayCreate(TRUE, TRUE)
        /\ \E b \in Unused, got \in BOOLEAN :
             /\ binding' = Created(b, TRUE, TRUE)
             /\ holds' = [holds EXCEPT ![b] = got]
             /\ token' = [token EXCEPT ![t] = [state |-> "USED", made |-> b]]

\* rotate_credential: the machine's credential is void until the new one is
\* carried there.
RotateCredential(b) ==
  /\ binding[b].state \in {"PENDING", "ACTIVE"} /\ Charge
  /\ \E got \in BOOLEAN : holds' = [holds EXCEPT ![b] = got]
  /\ UNCHANGED <<binding, token>>

\* AgentBindingService.disable (its effects on print jobs are PrintSpool's)
DisableBinding(b) ==
  /\ binding[b].state \in {"PENDING", "ACTIVE"} /\ Charge
  /\ binding' = [binding EXCEPT ![b] = [state |-> "DISABLED", primary |-> FALSE]]
  /\ UNCHANGED <<token, holds>>

\* AgentBindingService.authenticate
Authenticates(b) == binding[b].state = "ACTIVE" /\ holds[b]

BindingNext ==
  \/ \E b \in Bindings : CreateBinding(b, TRUE, TRUE)
  \/ \E b \in Bindings, activate \in BOOLEAN :
       (activate => AllowSecondary) /\ CreateBinding(b, activate, FALSE)
  \/ \E t \in Tokens : CreateIntent(t)
  \/ \E t \in Tokens, c \in {EvaluateProtocol(o, 2, 1, 1, 1) : o \in 0..3} : Exchange(t, c)
  \/ \E b \in Bindings : RotateCredential(b) \/ DisableBinding(b)

==============================================================================
