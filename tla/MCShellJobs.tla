----------------------------- MODULE MCShellJobs -----------------------------
(***************************************************************************)
(* ShellJobs with a few jobs, for TLC.                                     *)
(***************************************************************************)
EXTENDS ShellJobs, TLC

\* Jobs are interchangeable (for safety only).
Jobs == Permutations(Job)

=============================================================================
