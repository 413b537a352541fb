CONSTANTS
  Events = {"e1", "e2"}
  KizOf <- MCKizOf
  DateOf <- MCDateOf
  NoDate = "none"
  Workbooks = {"w1", "w2"}
  RowsOf <- MCRowsOf
  Threads = {t1, t2}
  MaxChanges = 1
  MaxLogins = 2
  DocumentIds = {"doc1"}
  DocumentEvents = {"e1", "e2"}
  Trackers = {t1, t2}
  Withdrawals = {"w1"}
  Returns = {"r1"}
  Procs = {p1, p2}
  Signers = {s1}
  MaxReplays = 2
SYMMETRY Symmetry
SPECIFICATION Spec
INVARIANTS ReadyMeansOrdered ExactBytesSigned
PROPERTIES FinalStatusStays KeepsContract
CHECK_DEADLOCK FALSE
