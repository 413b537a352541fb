------------------------------ MODULE Desktop ------------------------------
(***************************************************************************)
(* The local program: its dry run (LiveCheck), its document tracker        *)
(* (DocumentTracker) and its write pipeline (LocalPipeline).  They keep    *)
(* their rows in separate tables and never call one another - the desktop  *)
(* UI has no submission - so a behaviour exercises one of them, drawn once *)
(* as `face'.                                                              *)
(***************************************************************************)
EXTENDS LiveCheck, DocumentTracker, LocalPipeline

VARIABLE face

desktopVars == <<face, liveVars, trackerVars, pipelineVars>>

Faces == {"check", "track", "write"}

\* Every row, cache entry and half-done request has one of the listed shapes,
\* and only an imported event has a preview.
TypeOK == face \in Faces /\ LiveTypeOK /\ TrackerTypeOK /\ PipelineTypeOK

Init == face \in Faces /\ LiveInit /\ TrackerInit /\ PipelineInit

Next ==
  /\ UNCHANGED face
  /\ \/ face = "check" /\ LiveNext /\ UNCHANGED <<trackerVars, pipelineVars>>
     \/ face = "track" /\ TrackerNext /\ UNCHANGED <<liveVars, pipelineVars>>
     \/ face = "write" /\ PipelineNext /\ UNCHANGED <<liveVars, trackerVars>>

Spec == Init /\ [][Next]_desktopVars

\* See FinalStatusFixed: no step changes a final document status.
FinalStatusStays == [][FinalStatusFixed]_trackerVars

============================================================================
