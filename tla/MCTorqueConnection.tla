------------------------- MODULE MCTorqueConnection -------------------------
(***************************************************************************)
(* Small instances of TorqueConnection for TLC: the initial sequence        *)
(* numbers, which a .cfg cannot write.                                      *)
(***************************************************************************)
EXTENDS TorqueConnection

CONSTANTS InitA, InitB, PacketsA, PacketsB

MCInitSeq == [s \in Side |-> IF s = "A" THEN InitA ELSE InitB]
MCMaxPackets == [s \in Side |-> IF s = "A" THEN PacketsA ELSE PacketsB]
=============================================================================
