---------------------------- MODULE MCRomInstall ----------------------------
(* RomInstall on two ROM-writable regions.                                 *)
EXTENDS RomInstall

CONSTANTS stock, magisk, data, rom, zero, torn, used, wrong

MCMayWrite == {"misc", "metadata"}
MCRank == [r \in Region |->
             CASE r = "boot" -> 1 [] r = "dtbo" -> 2 [] r = "vendor" -> 3
               [] r = "system" -> 4 [] r = "misc" -> 5
               [] r = "metadata" -> 7 [] r = "userdata-head" -> 8
               [] r = "userdata-tail" -> 9]
MCContent == {stock, magisk, data, rom, zero, torn, used, wrong}
MCPin == [p \in Pinned |-> stock]
MCImage == [p \in Part |-> rom]
MCKnownBcb == {data}

\* The stock phone with a Magisk boot, and one whose vendor is not stock.
MCStock == [r \in Region |-> IF r = "boot" THEN magisk
                             ELSE IF r \in Part THEN stock ELSE data]
MCDisk0 == {MCStock, [MCStock EXCEPT !["vendor"] = rom]}

\* A first boot, and one that stops early.
MCBootWrites == {MayWrite \cup User, {"metadata"}}
=============================================================================
