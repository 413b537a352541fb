--------------------------- MODULE Administration ---------------------------
(***************************************************************************)
(* What the administrators of an organisation look after: its members, the *)
(* sessions and passwords of a user, the printers of an agent and the      *)
(* templates of its labels.  They write no row of one another except that  *)
(* a role change ends sessions (Memberships), so a behaviour follows one   *)
(* of them: `side' is drawn once.                                          *)
(***************************************************************************)
EXTENDS Memberships, Sessions, PrinterDiscovery, LabelTemplates

VARIABLE side

vars == <<side, memberVars, sessionVars, printerVars, templateVars>>

Sides == {"members", "sessions", "printers", "templates"}

\* Rows and requests have one of the listed shapes, a user never has more
\* live sessions than the configured limit, and the agent job of a printer
\* discovery is open exactly as long as the discovery.
TypeOK ==
  side \in Sides /\ MembersTypeOK /\ SessionsTypeOK /\ PrinterTypeOK /\ TemplateTypeOK

Init ==
  /\ side \in Sides
  /\ MembersInit /\ SessionsInit /\ PrinterInit /\ TemplateInit

Next ==
  \/ side = "members" /\ MembersNext /\ UNCHANGED <<side, sessionVars, printerVars, templateVars>>
  \/ side = "sessions" /\ SessionsNext /\ UNCHANGED <<side, memberVars, printerVars, templateVars>>
  \/ side = "printers" /\ PrinterNext /\ UNCHANGED <<side, memberVars, sessionVars, templateVars>>
  \/ side = "templates" /\ TemplateNext /\ UNCHANGED <<side, memberVars, sessionVars, printerVars>>

Spec == Init /\ [][Next]_vars

=============================================================================
