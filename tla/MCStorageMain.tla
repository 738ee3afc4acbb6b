--------------------------- MODULE MCStorageMain ---------------------------
(***************************************************************************)
(* Instances of StorageMain for TLC.  A hard disk blocks in both health    *)
(* calls, an SD card in getHealth, an eMMC in neither.                     *)
(***************************************************************************)
EXTENDS StorageMain

CONSTANTS disk, card, emmc

MCTypeOf ==
  [o \in Objects |-> CASE o = disk -> "HDD" [] o = card -> "SDCARD" [] o = emmc -> "EMMCCARD"]
=============================================================================
