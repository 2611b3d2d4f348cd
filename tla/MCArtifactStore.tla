---------------------------- MODULE MCArtifactStore ----------------------------
(* Symmetry of ArtifactStore for TLC.                                        *)
EXTENDS ArtifactStore, TLC

Symmetric ==
    Permutations(Processes) \cup Permutations(Runs) \cup Permutations(Projects)
=============================================================================
