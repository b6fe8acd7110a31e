--------------------------- MODULE MCUpdateGuard ---------------------------
(***************************************************************************)
(* Instances of UpdateGuard for TLC: a disk of 14 sectors with two         *)
(* writable partitions, the two wiped ones and one that is never written,  *)
(* some of them adjacent.  The engine may ask for every range of up to     *)
(* four sectors and for every plan of at most two of them.                 *)
(***************************************************************************)
EXTENDS UpdateGuard

MCName   == {"boot", "system", "metadata", "userdata", "vbmeta"}
MCPART   == [boot |-> <<1, 2>>, vbmeta |-> <<3, 1>>, system |-> <<4, 3>>,
             metadata |-> <<7, 2>>, userdata |-> <<10, 3>>]
MCGpt    == {<<0, 1>>, <<13, 1>>}
MCSector == 0..13
MCRequest == (0..13) \X (0..4)
MCPlans  == {{r} : r \in MCRequest} \cup {{r, q} : r, q \in (1..10) \X (1..3)}
MCPrevLen == [boot |-> 2, system |-> 2]
MCNewLen  == [boot |-> 2, system |-> 3]
=============================================================================
