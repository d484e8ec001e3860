------------------------------ MODULE MCTrace ------------------------------
(* Instances of TraceCompare for TLC. *)
EXTENDS TraceCompare

\* The plain trace without -k, the RVFI trace with it.
MCFormats == {<<FALSE, FALSE>>, <<TRUE, TRUE>>}
=============================================================================
