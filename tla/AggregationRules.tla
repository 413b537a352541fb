--------------------------- MODULE AggregationRules ---------------------------
(***************************************************************************)
(* The aggregation contract (M6): which relations a package may have, what *)
(* the aggregation documents require of parents and children, and when the *)
(* relation read back confirms a document.  A snapshot is that of          *)
(* TurnoverRules with the fields pkg, pg, tnved (its four-digit prefix)    *)
(* and kids, the direct children.                                          *)
(***************************************************************************)
EXTENDS TurnoverRules

PackageForms == {"FORM_TRANSPORT_PACKAGE", "FORM_MULTIPRODUCT_TRANSPORT_PACKAGE"}
SetForms == {"FORM_SET", "FORM_SET_GENERIC_COMPATIBILITY"}
Forms == PackageForms \cup SetForms \cup {"FORM_ATK"}
Adds == {"TRANSFORM_PACKAGE_ADD", "TRANSFORM_ATK_ADD"}
Removes == {"TRANSFORM_PACKAGE_REMOVE", "TRANSFORM_ATK_REMOVE"}
Disaggregations == {"DISAGGREGATE_PACKAGE", "DISAGGREGATE_ATK"}
AtkKinds == {"FORM_ATK", "TRANSFORM_ATK_ADD", "TRANSFORM_ATK_REMOVE", "DISAGGREGATE_ATK"}

\* Operations with a document; reading, reconciling and the automatic
\* disaggregation are registry entries that cannot be submitted.
AggregationKinds == Forms \cup Adds \cup Removes \cup Disaggregations

\* to_wire of the document classes: children (or packages) are named once.
AggregationToWire(d) == d.codes # <<>> /\ Distinct(d.codes)

\* prepare_aggregation_document: class, registry and wire checks.
PrepareAggregation(d) == d.kind \in AggregationKinds /\ AggregationToWire(d)

RelationDelta(kind) ==
    CASE kind \in Forms -> "FORM"
      [] kind \in Adds -> "ADD"
      [] kind \in Removes -> "REMOVE"
      [] kind \in Disaggregations -> "DISAGGREGATE"

ParentChildren == [SET |-> {"UNIT", "BUNDLE"},
                   BOX |-> {"UNIT", "BUNDLE", "SET", "BOX"},
                   ATK |-> {"UNIT", "BUNDLE", "SET", "BOX"}]

ValidateLpRelation(parent, child, pg, mixed) ==
    /\ child = "BUNDLE" => pg = "lp"
    /\ parent # "GROUP"
    /\ parent = "SET" => child \in ParentChildren.SET
    /\ parent = "BOX" => IF child = "GROUP" THEN mixed /\ pg # "lp"
                         ELSE child \in ParentChildren.BOX
    /\ parent = "ATK" => IF child = "GROUP" THEN pg # "lp"
                         ELSE child \in ParentChildren.ATK

AwaitsOwner == {None, "WAIT_TRANSFER_TO_OWNER"}

SameValue(S, f(_)) == Cardinality({f(x) : x \in S}) = 1
StatusOf(s) == s.status
EmissionOf(s) == s.emission
PgOf(s) == s.pg
TnvedOf(s) == s.tnved

(***************************************************************************)
(* Preconditions.  p is the parent's snapshot, K the set of the children's *)
(* snapshots, quantity the number of children the product card of the set  *)
(* requires (None when no published card says it).                         *)
(***************************************************************************)
ValidateSet(p, K, quantity) ==
    /\ p.pkg = "SET" /\ p.pg = "lp" /\ p.ours /\ Plain(p)
    /\ K # {}
    /\ \A k \in K : /\ k.pkg \in {"UNIT", "BUNDLE"} /\ k.pg = "lp" /\ k.ours
                    /\ k.parent = None
                    /\ k.status \in {"APPLIED", "INTRODUCED"}
                    /\ k.ex \in AwaitsOwner
    /\ SameValue(K, StatusOf)
    /\ p.status = "APPLIED"
    /\ \A k \in K : k.status = "APPLIED" =>
           k.emission = p.emission /\ k.emission \notin {"REMARK", "REAPPLY"}
    /\ (\E k \in K : k.status = "INTRODUCED") =>
           \/ p.emission = "LOCAL"
           \/ p.emission = "REMAINS" /\ \A k \in K : k.emission = "REMAINS"
    /\ quantity = Cardinality(K)

\* parent is None: a transport package code must be new to the registry.
ValidateBox(p, K, mixed) ==
    /\ p = None
    /\ K # {}
    /\ IF mixed THEN \A k \in K : k.status = "INTRODUCED"
                ELSE \A k \in K : k.status \in {"APPLIED", "INTRODUCED"}
    /\ ~mixed => SameValue(K, StatusOf)
    /\ \A k \in K : /\ k.ex \in AwaitsOwner
                    /\ k.ours /\ k.parent = None /\ k.pkg # None
                    /\ ValidateLpRelation("BOX", k.pkg, k.pg, mixed)
    /\ ~mixed /\ (\E k \in K : k.status = "APPLIED") => SameValue(K, EmissionOf)
    /\ mixed => \E k \in K : k.pg = "lp"

ValidateReaggregation(p, K, adding) ==
    /\ p.pkg \in {"BOX", "SET"} /\ p.ours /\ Plain(p)
    /\ p.status \in {"APPLIED", "INTRODUCED"}
    /\ K # {}
    /\ \A k \in K : /\ k.ours /\ k.status = p.status
                    /\ k.ex \in (IF k.pkg = "BOX" THEN AwaitsOwner ELSE {None})
                    /\ p.status = "APPLIED" => k.emission \notin {"REMARK", "REAPPLY"}
                    /\ k.pkg # None
                    /\ ValidateLpRelation(p.pkg, k.pkg, k.pg, FALSE)
                    /\ k.parent = IF adding THEN None ELSE p.cis

ValidateDisaggregation(p) ==
    /\ p.pkg \in {"BOX", "SET"} /\ p.ours
    /\ p.status \in {"APPLIED", "INTRODUCED"}
    /\ p.ex \in AwaitsOwner
    /\ p.pkg = "SET" /\ p.status = "APPLIED" => Plain(p)

AtkCommonChild(k) ==
    /\ k.ours /\ k.status = "APPLIED" /\ k.emission = "FOREIGN"
    /\ k.ex \in {None, "FTS_RESPOND_NOT_OK"}
    /\ k.pkg # None /\ ValidateLpRelation("ATK", k.pkg, k.pg, FALSE)
    /\ k.pkg \in {"SET", "BOX", "GROUP"} => k.kids # {}
    /\ k.tnved # None

ValidateAtk(K) ==
    /\ K # {} /\ SameValue(K, PgOf) /\ SameValue(K, TnvedOf)
    /\ \A k \in K : AtkCommonChild(k) /\ k.parent = None

ValidateAtkTransformation(p, K, adding) ==
    /\ p.pkg = "ATK" /\ p.ours /\ p.status = "APPLIED" /\ p.emission = "FOREIGN"
    /\ p.tnved # None /\ p.ex \in {None, "FTS_RESPOND_NOT_OK"}
    /\ K # {}
    /\ \A k \in K : /\ AtkCommonChild(k) /\ k.pg = p.pg /\ k.tnved = p.tnved
                    /\ k.parent = IF adding THEN None ELSE p.cis

ValidateAtkDisaggregation(p) ==
    /\ p.pkg = "ATK" /\ p.ours /\ p.status = "APPLIED"
    /\ p.ex \in {None, "FTS_RESPOND_NOT_OK", "FTS_CONTROL"}

\* The check made for a document of kind kind; none is made by role here: the
\* participant is taken to be the importer.
ValidateRelation(kind, p, K, quantity) ==
    CASE kind \in SetForms -> ValidateSet(p, K, quantity)
      [] kind = "FORM_TRANSPORT_PACKAGE" -> ValidateBox(p, K, FALSE)
      [] kind = "FORM_MULTIPRODUCT_TRANSPORT_PACKAGE" -> ValidateBox(p, K, TRUE)
      [] kind = "FORM_ATK" -> ValidateAtk(K)
      [] kind = "TRANSFORM_PACKAGE_ADD" -> ValidateReaggregation(p, K, TRUE)
      [] kind = "TRANSFORM_PACKAGE_REMOVE" -> ValidateReaggregation(p, K, FALSE)
      [] kind = "TRANSFORM_ATK_ADD" -> ValidateAtkTransformation(p, K, TRUE)
      [] kind = "TRANSFORM_ATK_REMOVE" -> ValidateAtkTransformation(p, K, FALSE)
      [] kind = "DISAGGREGATE_PACKAGE" -> ValidateDisaggregation(p)
      [] kind = "DISAGGREGATE_ATK" -> ValidateAtkDisaggregation(p)

(***************************************************************************)
(* AggregationReconciliationService.  expected is the set of children the  *)
(* parent must have, removed those that must have left it, actual the      *)
(* children read back, parentOf the parents read back, events the history. *)
(***************************************************************************)
Verdict(ok) == IF ok THEN "RECONCILED" ELSE "MANUAL_REVIEW"

\* reconcile_relation, for the BOX and SET operations.
ReconcileRelation(kind, docStatus, parent, expected, removed, actual, parentOf, events, parentSeen) ==
    LET inside  == \A c \in expected : parentOf[c] = parent
        outside == \A c \in removed : parentOf[c] # parent
        dis     == {"DISAGGREGATION", "AUTO_DISAGGREGATION"}
    IN IF docStatus # "CHECKED_OK" THEN "RECONCILIATION_PENDING"
       ELSE CASE kind \in Forms \cup Adds -> Verdict(actual = expected /\ inside)
              [] kind \in Removes /\ expected # {} ->
                     Verdict(actual = expected /\ inside /\ outside)
              [] kind \in Removes /\ expected = {} ->
                     Verdict(/\ actual = {} /\ outside /\ parentSeen
                             /\ "AUTO_DISAGGREGATION" \in events)
              [] kind \in Disaggregations ->
                     Verdict(/\ actual = {} /\ parentSeen
                             /\ \A c \in expected \cup removed : parentOf[c] # parent
                             /\ events \cap dis # {})

\* reconcile_atk_formation: the new package is found as the children's parent.
ReconcileAtkFormation(docStatus, children, parentOf, pkgOf, kidsOf) ==
    LET found == {parentOf[c] : c \in children} \ {None}
    IN IF docStatus # "CHECKED_OK" THEN "RECONCILIATION_PENDING"
       ELSE Verdict(\E p \in found : /\ found = {p} /\ pkgOf[p] = "ATK"
                                     /\ kidsOf[p] = children)

ReconcileAtkTransformation(kind, docStatus, parent, expected, changed, actual, parentOf) ==
    IF docStatus # "CHECKED_OK" THEN "RECONCILIATION_PENDING"
    ELSE Verdict(/\ actual = expected
                 /\ \A c \in expected : parentOf[c] = parent
                 /\ kind \in Removes => \A c \in changed : parentOf[c] # parent)

ReconcileAtkDisaggregation(docStatus, parent, actual, former, parentOf, events) ==
    IF docStatus # "CHECKED_OK" THEN "RECONCILIATION_PENDING"
    ELSE Verdict(/\ actual = {} /\ \A c \in former : parentOf[c] # parent
                 /\ "DISAGGREGATION" \in events)
==============================================================================
