--------------------------- MODULE MCHostControl ---------------------------
(***************************************************************************)
(* Instances of HostControl for TLC: the two units of the helper, and one  *)
(* or two coordinators.                                                    *)
(***************************************************************************)
EXTENDS HostControl

MCUnit == {"fwupd", "ModemManager"}
MCRank == [fwupd |-> 1, ModemManager |-> 2]

\* Coordinators are named after what they do.
ByName == [c \in Coord |-> c]
=============================================================================
