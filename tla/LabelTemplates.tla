--------------------------- MODULE LabelTemplates ---------------------------
(***************************************************************************)
(* A label template and its numbered, immutable versions                   *)
(* (services/printing.py, models/printing.py, api/printing_routes.py).     *)
(* Requests read without a lock and write when they commit; a version's    *)
(* INSERT waits for the transaction that holds the same number.            *)
(***************************************************************************)
EXTENDS Integers, FiniteSets

CONSTANTS Edits,       \* requests that touch the template
          Layouts,     \* layouts an editor may send
          GoodLayouts, \* the ones validate_layout accepts
          MaxVersions  \* bound on the versions of the template

ASSUME TemplateAssumption == GoodLayouts \subseteq Layouts /\ MaxVersions \in Nat

VARIABLES template,  \* the print_templates row
          versions,  \* committed print_template_versions rows
          edit       \* Edits -> what the request has read and flushed

templateVars == <<template, versions, edit>>

NoTemplate == [state |-> "none", current |-> 0]
NoEdit == [step |-> "none", number |-> 0, layout |-> "none"]

Version(n, l) == [number |-> n, layout |-> l]
Numbers == {v.number : v \in versions}
Newest == CHOOSE n \in Numbers \cup {0} : \A m \in Numbers : m <= n

TemplateTypeOK ==
  /\ template \in [state : {"none", "ACTIVE", "ARCHIVED"}, current : 0..MaxVersions]
  /\ versions \subseteq [number : 1..MaxVersions, layout : GoodLayouts]
  /\ edit \in [Edits -> [step : {"none", "loaded", "numbered", "flushed", "archiving", "done"},
                         number : 0..MaxVersions, layout : GoodLayouts \cup {"none"}]]

TemplateInit ==
  /\ template = NoTemplate
  /\ versions = {}
  /\ edit = [e \in Edits |-> NoEdit]

----------------------------------------------------------------------------

\* validate_layout, canonical_layout_sha256
LayoutAccepted(l) == l \in GoodLayouts

\* create_template: the row and its first version in one transaction; nobody
\* else has the id before it commits.
CreateTemplate(e, l) ==
  /\ template = NoTemplate /\ edit[e] = NoEdit /\ MaxVersions > 0
  /\ LayoutAccepted(l)
  /\ versions' = {Version(1, l)}
  /\ template' = [state |-> "ACTIVE", current |-> 1]
  /\ edit' = [edit EXCEPT ![e].step = "done"]

\* create_template_version up to the check of the template and of the layout.
LoadTemplate(e, l) ==
  /\ edit[e] = NoEdit
  /\ template.state = "ACTIVE"
  /\ LayoutAccepted(l)
  /\ edit' = [edit EXCEPT ![e] = [step |-> "loaded", number |-> 0, layout |-> l]]
  /\ UNCHANGED <<template, versions>>

\* select(func.max(version_number)) + 1
NumberVersion(e) ==
  /\ edit[e].step = "loaded" /\ Newest < MaxVersions
  /\ edit' = [edit EXCEPT ![e].step = "numbered", ![e].number = Newest + 1]
  /\ UNCHANGED <<template, versions>>

\* Wrong variant: no unique constraint on the number.
NumberNotUnique(e) == TRUE

\* uq_print_template_version_number, against what is committed and against
\* what another transaction has flushed.
NumberUnique(e) ==
  /\ edit[e].number \notin Numbers
  /\ \A f \in Edits \ {e} : edit[f].step = "flushed" => edit[f].number # edit[e].number

\* db.flush() of the new version.  It waits while another transaction has
\* flushed the number.
InsertVersion(e) ==
  /\ edit[e].step = "numbered"
  /\ NumberUnique(e)
  /\ edit' = [edit EXCEPT ![e].step = "flushed"]
  /\ UNCHANGED <<template, versions>>

\* The end of create_template_version and of its request: the version and the
\* pointer to it become visible together.  Only the pointer is written.
CommitVersion(e) ==
  /\ edit[e].step = "flushed"
  /\ versions' = versions \cup {Version(edit[e].number, edit[e].layout)}
  /\ template' = [template EXCEPT !.current = edit[e].number]
  /\ edit' = [edit EXCEPT ![e].step = "done"]

\* archive_template: a template read as archived is answered as it is.
LoadForArchive(e) ==
  /\ edit[e] = NoEdit /\ template # NoTemplate
  /\ edit' = [edit EXCEPT ![e].step = IF template.state = "ARCHIVED" THEN "done" ELSE "archiving"]
  /\ UNCHANGED <<template, versions>>

CommitArchive(e) ==
  /\ edit[e].step = "archiving"
  /\ template' = [template EXCEPT !.state = "ARCHIVED"]
  /\ edit' = [edit EXCEPT ![e].step = "done"]
  /\ UNCHANGED versions

\* The unique constraint refuses the INSERT, the server stops, or the audit
\* append of the request fails: its transaction is rolled back.
AbandonEdit(e) ==
  /\ edit[e].step \in {"loaded", "numbered", "flushed", "archiving"}
  /\ edit' = [edit EXCEPT ![e].step = "done"]
  /\ UNCHANGED <<template, versions>>

TemplateNext ==
  \E e \in Edits :
    \/ \E l \in Layouts : CreateTemplate(e, l) \/ LoadTemplate(e, l)
    \/ NumberVersion(e) \/ InsertVersion(e) \/ CommitVersion(e)
    \/ LoadForArchive(e) \/ CommitArchive(e) \/ AbandonEdit(e)

TemplateSpec == TemplateInit /\ [][TemplateNext]_templateVars

----------------------------------------------------------------------------

\* Whatever edits overlap, one number names one layout, no number is skipped,
\* and the template's current version is the newest one: two editors who read
\* the same maximum cannot both succeed, and the one whose number is smaller
\* cannot commit its pointer last (create_template_version takes no lock; an
\* explicit reprint with the current template prints what the pointer names).
CurrentIsNewest ==
  /\ \A v, w \in versions : v.number = w.number => v = w
  /\ Numbers = 1..template.current

=============================================================================
