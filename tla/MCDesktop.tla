----------------------------- MODULE MCDesktop -----------------------------
EXTENDS Desktop, TLC

\* Requests, trackers and processes are interchangeable.
Symmetry == Permutations(Threads) \cup Permutations(Procs)

\* Two events of one code, the second without a date, in two workbooks.
MCKizOf == [e1 |-> "k1", e2 |-> "k1"]
MCDateOf == [e1 |-> "d1", e2 |-> "none"]
MCRowsOf == [w1 |-> {"e1"}, w2 |-> {"e1", "e2"}]
============================================================================
