---------------------- MODULE MCResumeWorkspaces ----------------------
(* Small instances of ResumeWorkspaces for TLC.                         *)
EXTENDS ResumeWorkspaces, TLC

(* Ids are interchangeable: no action or invariant tells them apart.    *)
Symmetry == Permutations(Workspace) \cup Permutations(Request)
              \cup Permutations(Job)
=======================================================================
