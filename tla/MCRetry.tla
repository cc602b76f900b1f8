------------------------------- MODULE MCRetry -------------------------------
(***************************************************************************)
(* RetryPool for TLC.  Budget cuts the second backoff short when the first *)
(* attempt had to wait for the one connection.                             *)
(***************************************************************************)
EXTENDS RetryPool
=============================================================================
