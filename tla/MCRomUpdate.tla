---------------------------- MODULE MCRomUpdate ----------------------------
(***************************************************************************)
(* Instances of RomUpdate for TLC.  Three partitions stand for the four:   *)
(* boot (one chunk), dtbo (identical in builds A and B, so an update skips *)
(* it) and system (several chunks, A's image shorter than B's and C's, so  *)
(* an image may leave the tail of the partition alone).                    *)
(***************************************************************************)
EXTENDS RomUpdate

MCPart  == {"boot", "dtbo", "system"}
MCRank  == [boot |-> 1, dtbo |-> 2, system |-> 3]
MCSize  == [boot |-> 1, dtbo |-> 1, system |-> 3]
MCBlock == {"a", "b", "c", "d", "x"}
MCBuild == {"A", "B", "C"}
MCImage == [A |-> [boot |-> <<"a">>, dtbo |-> <<"d">>, system |-> <<"a", "a">>],
            B |-> [boot |-> <<"b">>, dtbo |-> <<"d">>, system |-> <<"b", "b", "b">>],
            C |-> [boot |-> <<"c">>, dtbo |-> <<"c">>, system |-> <<"c", "a", "b">>]]

\* B and C are later builds with the release keys, A has the test keys.
KeySwitch == [A |-> [A |-> "ok",   B |-> "wipe", C |-> "wipe"],
              B |-> [A |-> "no",   B |-> "ok",   C |-> "ok"],
              C |-> [A |-> "no",   B |-> "no",   C |-> "ok"]]

\* Three rounds of the same keys; C raises the security patch level.
SameKeys  == [A |-> [A |-> "ok", B |-> "ok", C |-> "ok"],
              B |-> [A |-> "ok", B |-> "ok", C |-> "ok"],
              C |-> [A |-> "no", B |-> "no", C |-> "ok"]]

Kit(from, to) == [mode |-> "update", policy |-> "hash-only", wipe |-> FALSE,
                  reflash |-> FALSE, from |-> from, to |-> to, capture |-> 0]
Snapshot(a)   == [a EXCEPT !.policy = "snapshot"]
Reflash(a)    == [a EXCEPT !.reflash = TRUE]
Wipe(a)       == [a EXCEPT !.wipe = TRUE]
Rehearse(a)   == [a EXCEPT !.mode = "backup-only", !.policy = "snapshot"]
Rollback(c)   == [Snapshot(Kit("A", "B")) EXCEPT !.mode = "rollback", !.capture = c]

\* Snapshot updates, a rehearsal, and rollbacks of either of the first two captures.
RollbackLaunches == {Snapshot(Kit("A", "B")), Reflash(Snapshot(Kit("A", "B"))),
                     Rehearse(Kit("A", "B")), Rollback(1), Rollback(2)}

\* A release-keys wipe, its resume, and a keep-data update to the next build.
WipeLaunches == {Wipe(Kit("A", "B")), Reflash(Wipe(Kit("A", "B"))),
                 Rehearse(Wipe(Kit("A", "B"))), Kit("B", "C")}
=============================================================================
