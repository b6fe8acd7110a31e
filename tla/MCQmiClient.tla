---------------------------- MODULE MCQmiClient ----------------------------
(* Constants of the runs of QmiClient. *)
EXTENDS QmiClient

\* One server of each of two services, both on the modem.
MCServer == {"nas", "wds"}
MCSvcOf == [a \in Server |-> IF a = "wds" THEN "WDS" ELSE "NAS"]
=============================================================================
