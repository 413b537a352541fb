CONSTANTS
  Users = {"u1", "u2", "u3"}
  Legacy = {"u1", "u2"}
  LegacyAdmins = {"u2"}
  Invitations = {i1}
  Requests = {r1, r2}
  Passwords = {pa, pb, pc}
  Logins = {l1, l2}
  Changes = {c1, c2}
  MaxSessions = 2
  FreeFailures = 0
  LockFailures = 2
  MaxPasswordChanges = 2
  Printers = {"p"}
  Shapes = {"a", "b", "odd"}
  UsableShapes = {"a", "b"}
  MaxRuns = 3
  Edits = {e1, e2, e3, e4}
  Layouts = {"a", "b", "bad"}
  GoodLayouts = {"a", "b"}
  MaxVersions = 4
SPECIFICATION Spec
INVARIANTS LastOwnerStays  ActiveMeansSeen CurrentIsNewest
PROPERTIES InvitationsStayBacked
SYMMETRY Symmetry
CHECK_DEADLOCK FALSE
