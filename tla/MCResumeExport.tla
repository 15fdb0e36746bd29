------------------------ MODULE MCResumeExport ------------------------
(* Small instances of ResumeExport for TLC.                             *)
EXTENDS ResumeExport, TLC

Symmetry == Permutations(Workspace) \cup Permutations(Request)
              \cup Permutations(Exporter) \cup Permutations(RenderJob)
=======================================================================
