---------------------------- MODULE MCTSBService ----------------------------
(* Path 1 belongs to the eMMC, path 2 to an SD card or a hard disk.        *)
EXTENDS TSBService

MCTypesAt == [s \in Slots |-> IF s = 1 THEN {"EMMCCARD"} ELSE {"SDCARD", "HDD"}]
=============================================================================
