---------------------------- MODULE StorageMedia ----------------------------
(***************************************************************************)
(* What each class of medium makes of the hardware it is created for       *)
(* (refactored/mgr/rdkStorage{Base,SDCard,eMMC,HardDisk}.cpp): whether it  *)
(* can hold a time-shift buffer (TSB) or recordings (DVR), how much of     *)
(* them, and the settings a client may then change.                        *)
(*                                                                         *)
(* Operators only: TSBService keeps a table of such media.  Space is       *)
(* counted in minutes of recording, so that dividing by the frame rate is  *)
(* the identity and what remains of it is the width of its result.         *)
(***************************************************************************)
EXTENDS Integers, Sequences, SequencesExt

CONSTANTS
  Spaces,      \* the capacities and free spaces a file system can have
  UShort,      \* 2^16, the values of an unsigned short
  ULongLong,   \* 2^64, the values of an unsigned long long
  MinMinutes,  \* DEFULT_TSB_MIN_MINUTE
  Reserve,     \* what a hard disk reserves for its TSB, 40 GB
  ReserveMinutes  \* and the length it gives that TSB, 60 minutes

ASSUME StorageMediaAssumption ==
  /\ Spaces \subseteq Nat /\ \A s \in Spaces : s < ULongLong
  /\ {UShort, ULongLong, MinMinutes, Reserve, ReserveMinutes} \subseteq Nat \ {0}
  /\ Reserve < ULongLong

\* The partitions of a medium, in the order of m_partitionInfo.
Partitions == 1..2

MediaTypes == {"SDCARD", "EMMCCARD", "HDD"}
TSBStatus  == {"OK", "READ_ONLY", "NOT_QUALIFIED", "DISK_FULL", "UNKNOWN"}

\* What is kept of a medium whose type is one of T.
Media(T) == [
  type      : T,
  tsbStatus : TSBStatus,           \* m_tsbStatus
  maxMin    : Nat,                 \* m_maxTSBCapacityinMinutes
  conf      : Nat,                 \* m_maxTSBLengthConfigured
  free      : Nat,                 \* m_freeTSBSpaceLeft
  tsb       : BOOLEAN,             \* m_isTSBSupported
  tsbOn     : BOOLEAN,             \* m_isTSBEnabled
  dvr       : BOOLEAN,             \* m_isDVRSupported
  dvrOn     : BOOLEAN,             \* m_isDVREnabled
  dvrFree   : 0..(ULongLong - 1),  \* m_freeDVRSpaceLeft
  parts     : SUBSET Partitions,   \* partitions with m_isTSBSupported
  paths     : SUBSET Partitions]   \* those of them with a path in m_mountPath

\* A file system as statvfs or xfsctl reports it.
FileSystem == {f \in [cap : Spaces, free : Spaces] : f.free <= f.cap}

\* The base class's constructor.
Blank(t) ==
  [type |-> t, tsbStatus |-> "UNKNOWN", maxMin |-> 0, conf |-> 0, free |-> 0,
   tsb |-> FALSE, tsbOn |-> FALSE, dvr |-> FALSE, dvrOn |-> FALSE, dvrFree |-> 0,
   parts |-> {}, paths |-> {}]

-----------------------------------------------------------------------------
(* The two card classes.                                                   *)

\* Fault of Sized: where the partition is mounted is not noted.
Sized_Pathless(m, p, f) ==
  LET actual  == f.cap % UShort
      minutes == IF actual = 0 THEN m.maxMin
                 ELSE IF actual < MinMinutes THEN actual ELSE MinMinutes
  IN  [m EXCEPT !.parts = @ \cup {p},
                !.maxMin = minutes,
                !.conf = IF actual = 0 THEN @ ELSE minutes,
                !.free = f.free,
                !.tsbStatus = IF f.cap = f.free THEN "DISK_FULL" ELSE "OK"]

\* What is read off the file system f on partition p.  The length fits an
\* unsigned short, and none is offered if that comes to nothing; whether the
\* disk is full is asked of a difference that cannot be negative.
Sized(m, p, f) ==
  LET actual  == f.cap % UShort
      minutes == IF actual = 0 THEN m.maxMin
                 ELSE IF actual < MinMinutes THEN actual ELSE MinMinutes
  IN  [m EXCEPT !.parts = @ \cup {p}, !.paths = @ \cup {p},
                !.maxMin = minutes,
                !.conf = IF actual = 0 THEN @ ELSE minutes,
                !.free = f.free,
                !.tsbStatus = IF f.cap = f.free THEN "DISK_FULL" ELSE "OK"]

\* The partitions of S that the search of mtab finds.  It goes through mtab
\* once: the search for a partition begins where the one before it ended, at
\* the end if that one was not mounted.
Found(S, mtab) ==
  LET At(p) == CHOOSE i \in DOMAIN mtab : mtab[i] = p
  IN  {p \in S : \A q \in S : q <= p =>
         /\ \E i \in DOMAIN mtab : mtab[i] = q
         /\ \A r \in S : r < q => At(r) < At(q)}

\* get_SdcPropertiesStatvfs, get_eMMCPropertiesStatvfs.
Statvfs(m, S, mtab, fs) ==
  LET Visit(n, p) == IF p \in Found(S, mtab) THEN Sized(n, p, fs[p]) ELSE n
  IN  Visit(Visit(m, 1), 2)

\* An SD card: x.parts its partitions, x.qualified whether CMD56 or the card's
\* CID says it is made for a TSB, x.mounted what the mount script returned,
\* x.handshake whether the script's hand-shake file says SUCCESS, and x.mtab
\* the partitions mtab lists and statvfs answers for (it ends the search at
\* one it does not answer for, as at one that is not mounted).
SDMedia(x) ==
  LET m == Blank("SDCARD")
      n == Statvfs(m, x.parts, x.mtab, x.fs)
  IN  IF ~x.qualified THEN [m EXCEPT !.tsbStatus = "NOT_QUALIFIED"]
      ELSE IF x.parts = {} \/ ~x.mounted THEN [m EXCEPT !.tsbStatus = "READ_ONLY"]
      ELSE [n EXCEPT !.tsb = x.handshake,
                     !.tsbOn = x.handshake /\ n.tsbStatus = "OK"]

SDInputs ==
  {x \in [parts : SUBSET Partitions, qualified : BOOLEAN, mounted : BOOLEAN,
          mtab : {<<>>, <<1>>, <<2>>, <<1, 2>>, <<2, 1>>},
          fs : [Partitions -> FileSystem], handshake : BOOLEAN] :
     ToSet(x.mtab) \subseteq x.parts}

\* An eMMC: x.qualified whether it is the box's own.  It is given its TSB
\* before its only partition is mounted.
EMMCMedia(x) ==
  LET b == Blank("EMMCCARD")
      m == [b EXCEPT !.tsb = TRUE, !.tsbOn = TRUE]
  IN  IF ~x.qualified THEN [b EXCEPT !.tsbStatus = "NOT_QUALIFIED"]
      ELSE IF ~x.mounted THEN [m EXCEPT !.tsbStatus = "READ_ONLY"]
      ELSE Statvfs(m, {1}, x.mtab, [p \in Partitions |-> x.fs])

EMMCInputs ==
  [qualified : BOOLEAN, mounted : BOOLEAN, mtab : {<<>>, <<1>>}, fs : FileSystem]

-----------------------------------------------------------------------------
(* The hard disk: its mounted partitions, in the order of /proc/mounts.    *)

\* Fault of HDDMount: the free space is left without the width of its type.
HDDMount_Signed(m, p, x) ==
  CASE x.xfs = "ok" ->
         [m EXCEPT !.tsb = TRUE, !.tsbOn = TRUE, !.parts = @ \cup {p},
                   !.maxMin = ReserveMinutes, !.conf = ReserveMinutes, !.free = 0,
                   !.tsbStatus = IF x.fs.free = 0 THEN "DISK_FULL" ELSE "OK",
                   !.dvr = TRUE, !.dvrOn = TRUE,
                   !.dvrFree = x.fs.free - Reserve]
    [] x.xfs = "noGeometry" -> [m EXCEPT !.tsb = FALSE, !.tsbOn = FALSE]
    [] OTHER -> m

\* A file system other than xfs, or one that cannot be opened, gives nothing;
\* one whose geometry cannot be read takes the TSB away again.  Where a
\* partition is mounted is not noted.
HDDMount(m, p, x) ==
  CASE x.xfs = "ok" ->
         [m EXCEPT !.tsb = TRUE, !.tsbOn = TRUE, !.parts = @ \cup {p},
                   !.maxMin = ReserveMinutes, !.conf = ReserveMinutes, !.free = 0,
                   !.tsbStatus = IF x.fs.free = 0 THEN "DISK_FULL" ELSE "OK",
                   !.dvr = TRUE, !.dvrOn = TRUE,
                   !.dvrFree = (x.fs.free - Reserve) % ULongLong]
    [] x.xfs = "noGeometry" -> [m EXCEPT !.tsb = FALSE, !.tsbOn = FALSE]
    [] OTHER -> m

HDDMedia(mounts) ==
  LET Visit(h, p) == IF p \in DOMAIN mounts THEN HDDMount(h, p, mounts[p]) ELSE h
      m == Visit(Visit(Blank("HDD"), 1), 2)
      n == IF m.tsbOn THEN m
           ELSE [m EXCEPT !.tsb = FALSE, !.free = 0, !.maxMin = 0, !.conf = 0]
  IN  IF n.dvrOn THEN n ELSE [n EXCEPT !.dvr = FALSE, !.dvrFree = 0]

Mount == [xfs : {"ok", "noGeometry", "other"}, fs : FileSystem]

HDDInputs == UNION {[1..n -> Mount] : n \in 0..2}

-----------------------------------------------------------------------------
(* The settings of one medium.                                             *)

\* Fault of MediaSetMinutes: the longest TSB is refused too.
MediaSetMinutes_Strict(m, minutes) ==
  IF minutes >= m.maxMin THEN [rc |-> "INVALID_INPUT", media |-> m]
  ELSE IF ~m.tsb THEN [rc |-> "GENERIC_FAILURE", media |-> m]
  ELSE [rc |-> "SUCCESS", media |-> [m EXCEPT !.conf = minutes]]

MediaSetMinutes(m, minutes) ==
  IF minutes > m.maxMin THEN [rc |-> "INVALID_INPUT", media |-> m]
  ELSE IF ~m.tsb THEN [rc |-> "GENERIC_FAILURE", media |-> m]
  ELSE [rc |-> "SUCCESS", media |-> [m EXCEPT !.conf = minutes]]

\* A partition that can hold a TSB will do.
MediaSetTSB(m, on) == IF m.tsb \/ m.parts # {} THEN [m EXCEPT !.tsbOn = on] ELSE m

\* Only the hard disk's partitions can hold recordings, those that can hold
\* its TSB.
MediaSetDVR(m, on) ==
  IF m.dvr \/ (m.type = "HDD" /\ m.parts # {}) THEN [m EXCEPT !.dvrOn = on] ELSE m
=============================================================================
