---------------------------- MODULE MCLaunchExact ----------------------------
(***************************************************************************)
(* LaunchExact on short pipelines, for TLC.                                *)
(***************************************************************************)
EXTENDS LaunchExact

=============================================================================
