---------------------------- MODULE MCDataCalls ----------------------------
(* Constants of the runs of DataCalls. *)
EXTENDS DataCalls
=============================================================================
