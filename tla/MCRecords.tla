----------------------------- MODULE MCRecords -----------------------------
(* Two codes that may be in one package, two operations; a chain of each   *)
(* scope with one registered event type.                                   *)
EXTENDS Records

CONSTANTS u1, u2, o1, o2

MCBatches == {<<u1>>, <<u1, u2>>}
MCInsides == {{}, {u1, u2}}
MCKinds ==
    [o \in {o1, o2} |->
        IF o = o1 THEN (TurnoverKinds \cup AggregationKinds) \ {"CANCEL_WITHDRAWAL"}
        ELSE {"CANCEL_WITHDRAWAL", "RETURN_REMOTE_SALE"}]

\* The SYSTEM chain gets its genesis, the legacy seal and failed verifications.
MCTypes == {"ROLE_CHANGED"}
MCDef == [type \in MCTypes |-> [tenant |-> "ORGANISATION", actors |-> {"USER"}]]
MCKeys == {<<"request", "k1">>, NoKey}

=============================================================================
