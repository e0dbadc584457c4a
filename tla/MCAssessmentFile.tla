--------------------------- MODULE MCAssessmentFile ---------------------------
(* Instances of AssessmentFile small enough for TLC.                       *)
EXTENDS AssessmentFileService, TLC

\* Directories and input inodes are interchangeable, and so are racing savers.
InodeSymmetry == Permutations(Dirs) \cup Permutations(Sources)
SaverSymmetry == Permutations(Savers)
===============================================================================
