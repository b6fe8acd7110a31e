---------------------------- MODULE MCUsbGadget ----------------------------
(* Constants of the runs of UsbGadget. *)
EXTENDS UsbGadget

CONSTANTS c1, c2

MCClient == {c1, c2}
\* adb alone, adb after a kernel function, another FunctionFS function, charging
\* only, and functions the kernel lacks.
MCRequests == {{"adb"}, {"rndis", "adb"}, {"mtp"}, {}, {"midi"}}
MCAvailable == {"adb", "mtp", "ptp", "rndis", "ncm"}
MCFfs == {"adb", "mtp"}
=============================================================================
