---------------------------- MODULE MCKizControl ----------------------------
(* Small instances of KizControl for TLC: events 1 (sale) and 3 (its later
   return) are about code 1, event 2 about code 2.  The two workbooks share
   an event and both touch both codes. *)
EXTENDS KizControl, TLC

MCKizOf == [e \in Events |-> IF e = 2 THEN 2 ELSE 1]

MCFactsOf ==
    [e \in Events |-> [operation |-> IF e = 3 THEN "RETURN" ELSE "SALE",
                       legal |-> "FALSE", receipt |-> TRUE,
                       time |-> IF e = 3 THEN 2 ELSE 1]]

TwoFiles == {{1, 2}, {2, 3}}

TxnSymmetry == Permutations(Txns)
=============================================================================
