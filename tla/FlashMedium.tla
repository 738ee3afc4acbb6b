---------------------------- MODULE FlashMedium ----------------------------
(***************************************************************************)
(* The NVRAM medium (refactored/mgr/rdkStorageNVRAM.cpp) over restarts of  *)
(* the daemon and reboots of the box: the file it leaves in /tmp for later *)
(* lives of the daemon, and the health it derives from the erase count of  *)
(* the UBI device.                                                         *)
(*                                                                         *)
(* A life of the daemon has one such medium (rdkStorage_init looks for one *)
(* only), created when it starts and kept to its end; the udev_device of   *)
(* the UBI device is kept as long.  libudev reads an attribute once per    *)
(* udev_device: what it found is what every later call is given.           *)
(* Calls hold m_mainMutex (StorageMain), and are single steps here.        *)
(***************************************************************************)
EXTENDS Naturals

CONSTANTS
  Limit,   \* RDK_STMGR_NVRAM_EC_LIMIT, 99000
  MaxEC,   \* RDK_STMGR_NVRAM_EC_MAX, 100000
  WearEnd, \* bound: the highest erase count of a run
  None     \* no medium, no reading, no answer

Healths == {"healthy", "worn", "failed"}

Medium == [
  known  : BOOLEAN,                \* manufacturer, model, serial number
  parent : BOOLEAN,                \* m_parentDevice is not NULL
  cache  : Nat \cup {None},        \* max_ec as libudev keeps it
  ec     : Nat]                    \* m_eraseCount

ASSUME FlashMediumAssumption ==
  /\ {Limit, MaxEC, WearEnd} \subseteq Nat
  /\ 0 < Limit /\ Limit < MaxEC
  /\ None \notin Nat \cup Healths \cup Medium

VARIABLES
  wear,    \* the erase count of the flash
  log,     \* the log of the boot: whether it is there, and names the chip
  tmp,     \* whether the file in /tmp is there
  medium,  \* the medium of this life of the daemon, or None
  told,    \* the health that was last asked for in this life, or None
  learnt   \* history: a life of the daemon since the boot knew the chip

vars == <<wear, log, tmp, medium, told, learnt>>

TypeOK ==
  /\ wear \in Nat
  /\ log \in {"absent", "without", "with"}
  /\ medium \in Medium \cup {None}
  /\ told \in Healths \cup {None}
  /\ {tmp, learnt} \subseteq BOOLEAN

Init ==
  /\ wear \in 0..WearEnd
  /\ log \in {"absent", "without", "with"}
  /\ medium = None /\ told = None
  /\ tmp = FALSE /\ learnt = FALSE

-----------------------------------------------------------------------------
\* Fault of ReadEraseCount: what is read is taken without a look.
ReadEraseCount_Unchecked(m, readable) ==
  LET v == IF m.cache # None THEN m.cache ELSE IF readable THEN wear ELSE None
  IN  IF m.parent THEN [m EXCEPT !.cache = v, !.ec = v] ELSE m

\* readEraseCount: an attribute that cannot be read leaves the count alone.
ReadEraseCount(m, readable) ==
  LET v == IF m.cache # None THEN m.cache ELSE IF readable THEN wear ELSE None
  IN  IF m.parent /\ v # None THEN [m EXCEPT !.cache = v, !.ec = v] ELSE m

\* readChipDetails looks for the chip's line in the file in /tmp if there is
\* one, else in the log.  It finds it in the log only: of the line, what it
\* writes to /tmp is the part behind the words it looks for.
FindsChip == ~tmp /\ log = "with"

\* Fault of WritesTmp: the file is written whatever was found.
WritesTmp_Always == log # "absent"
WritesTmp == FindsChip

\* Fault of NewMedium: no wear is assumed until some is read.
NewMedium_Unworn(found) ==
  [known |-> FindsChip, parent |-> found, cache |-> None, ec |-> 1]

\* The constructor, and readChipDetails; found says whether the enumeration
\* meets a dynamic volume, whose parent is taken.
NewMedium(found) ==
  [known |-> FindsChip, parent |-> found, cache |-> None, ec |-> MaxEC]

\* The daemon starts, and its scan creates the medium.  populateDeviceDetails
\* makes a string of the attribute mtd_num, and the daemon dies if that
\* cannot be read; the file in /tmp is written by then.
Start(found, readable, mtd) ==
  /\ medium = None
  /\ tmp' = (tmp \/ WritesTmp)
  /\ learnt' = (learnt \/ FindsChip)
  /\ medium' = IF found /\ ~mtd THEN None ELSE ReadEraseCount(NewMedium(found), readable)
  /\ told' = None
  /\ UNCHANGED <<wear, log>>

\* healthy and operational, operational only, or neither: a count of zero is
\* taken for none of the first two.
Health(ec) ==
  IF ec > 0 /\ ec <= Limit THEN "healthy"
  ELSE IF ec >= Limit /\ ec <= MaxEC THEN "worn" ELSE "failed"

\* doDeviceHealthQuery, of the health monitor or within getHealth.
Query(readable) ==
  /\ medium # None
  /\ medium' = ReadEraseCount(medium, readable)
  /\ told' = Health(medium'.ec)
  /\ UNCHANGED <<wear, log, tmp, learnt>>

-----------------------------------------------------------------------------
\* The daemon stops or dies, and systemd will start it again.
Crash ==
  /\ medium # None
  /\ medium' = None /\ told' = None
  /\ UNCHANGED <<wear, log, tmp, learnt>>

\* /tmp does not outlive a reboot; the log is begun anew or not.
Reboot ==
  /\ medium' = None /\ told' = None
  /\ tmp' = FALSE /\ learnt' = FALSE
  /\ log' \in {"absent", "without", "with"}
  /\ UNCHANGED wear

\* The log is written while the daemon may run already, and is put away.
LogChanges ==
  /\ log' \in {"absent", "without", "with"}
  /\ UNCHANGED <<wear, tmp, medium, told, learnt>>

Wear ==
  /\ wear < WearEnd
  /\ wear' = wear + 1
  /\ UNCHANGED <<log, tmp, medium, told, learnt>>

Next ==
  \/ \E found, readable, mtd \in BOOLEAN : Start(found, readable, mtd)
  \/ \E readable \in BOOLEAN : Query(readable)
  \/ Crash \/ Reboot \/ LogChanges \/ Wear

Spec == Init /\ [][Next]_vars

-----------------------------------------------------------------------------
(* A daemon that starts while the log names the chip knows the chip, unless *)
(* it was known before in this boot; crashes between do not matter, nor    *)
(* when the line comes to the log.                                         *)
ChipIsFoundOnce ==
  [][medium = None /\ medium' # None /\ log = "with" => medium'.known \/ learnt]_vars

(* What is said of the flash is true.  It is called healthy only if its    *)
(* wear allowed it when it was first read in this life of the daemon,      *)
(* which is all that is promised: the reading is never repeated.  It is    *)
(* called worn or failed only if it is, if no reading has succeeded, or if *)
(* it was never erased when it was read.                                   *)
HealthIsTrue ==
  /\ told = "healthy" => medium.cache # None /\ medium.cache \in 1..Limit /\ medium.cache <= wear
  /\ told = "worn" => medium.cache = None \/ wear > Limit
  /\ told = "failed" => wear > MaxEC \/ medium.cache = 0
=============================================================================
