------------------------- MODULE MCDeviceDiscovery -------------------------
(***************************************************************************)
(* A device of every kind the daemon serves, and one it refuses: card and  *)
(* eMMC take turns at an mmcblk node, disk and USB disk at an sd node, and *)
(* a third node is the flash, if there is one.                             *)
(***************************************************************************)
EXTENDS DeviceDiscovery

CONSTANTS card, disk, emmc, stick, flash

MCKindOf == [d \in Devices |->
  CASE d = card  -> "SD"
    [] d = disk  -> "ATA"
    [] d = emmc  -> "MMC"
    [] d = stick -> "USB"
    [] d = flash -> "UBI"]

MCTakes == <<{"SD", "MMC"}, {"ATA", "USB"}, {"UBI"}>>
=============================================================================
