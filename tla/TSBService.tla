----------------------------- MODULE TSBService -----------------------------
(***************************************************************************)
(* The time-shift buffer and recording calls of rSTMgrMainClass            *)
(* (refactored/mgr/rdkStorageMain.cpp), which address no device: each goes *)
(* to the first one in the table, in the order of the device paths, that   *)
(* supports what is asked for.  Each call holds m_mainMutex from its first *)
(* look at the table to its last, and a medium is filled in before it is   *)
(* in the table, so that calls, additions and removals are single steps    *)
(* (StorageMain).                                                          *)
(***************************************************************************)
EXTENDS StorageMedia

CONSTANTS
  Slots,    \* device paths, numbered in the order std::map keeps its keys
  TypesAt,  \* TypesAt[s]: the types of media that can be found at path s
  Minutes,  \* the lengths clients ask for
  None      \* no medium, no device, nothing read

ASSUME TSBServiceAssumption ==
  /\ Slots \subseteq Nat
  /\ TypesAt \in [Slots -> SUBSET MediaTypes]
  /\ Minutes \subseteq Nat
  /\ None \notin Nat \cup Media(MediaTypes)

VARIABLES
  table,    \* table[s]: the medium at path s, or None
  offer,    \* the capacity in minutes a client has read since the table last
            \* changed, or None
  rc        \* what the last set call returned

vars == <<table, offer, rc>>

Codes == {"SUCCESS", "GENERIC_FAILURE", "INVALID_INPUT"}

TypeOK ==
  /\ DOMAIN table = Slots
  /\ \A s \in Slots : table[s] # None => table[s] \in Media(TypesAt[s])
  /\ offer \in Nat \cup {None}
  /\ rc \in Codes

Init ==
  /\ table = [s \in Slots |-> None]
  /\ offer = None
  /\ rc = "SUCCESS"

-----------------------------------------------------------------------------
Listed     == {s \in Slots : table[s] # None}
TSBDevices == {s \in Listed : table[s].tsb}
DVRDevices == {s \in Listed : table[s].dvr}

\* The device a loop that breaks at the first one of S stops at.
First(S) == CHOOSE s \in S : \A q \in S : s <= q

\* getTSBMaxMinutes, getTSBCapacityMinutes: without a device 0, never a failure.
TSBMaxMinutes      == IF TSBDevices = {} THEN 0 ELSE table[First(TSBDevices)].conf
TSBCapacityMinutes == IF TSBDevices = {} THEN 0 ELSE table[First(TSBDevices)].maxMin

\* isTSBEnabled, and the partition whose path getTSBPartitionMountPath gives,
\* the first that is marked for the TSB.  It returns success all the same
\* without one, and if that one's path is empty.
TSBEnabled == TSBDevices # {} /\ table[First(TSBDevices)].tsbOn
PathOf(m)  == IF m.tsbOn /\ m.parts # {} /\ First(m.parts) \in m.paths
              THEN First(m.parts) ELSE None
TSBPath    == IF TSBDevices = {} THEN None ELSE PathOf(table[First(TSBDevices)])

-----------------------------------------------------------------------------
\* A medium is added at a free path; what the hardware and the mount script
\* have to say is up to them.
AddMedium(s, m) ==
  /\ table[s] = None
  /\ m.type \in TypesAt[s]
  /\ table' = [table EXCEPT ![s] = m]
  /\ offer' = None
  /\ UNCHANGED rc

SDCards == {SDMedia(x) : x \in SDInputs}
EMMCs   == {EMMCMedia(x) : x \in EMMCInputs}
HDDs    == {HDDMedia(x) : x \in HDDInputs}

AddSD(s)   == \E m \in SDCards : AddMedium(s, m)
AddEMMC(s) == \E m \in EMMCs : AddMedium(s, m)
AddHDD(s)  == \E m \in HDDs : AddMedium(s, m)

RemoveMedium(s) ==
  /\ table[s] # None
  /\ table' = [table EXCEPT ![s] = None]
  /\ offer' = None
  /\ UNCHANGED rc

GetTSBCapacityMinutes ==
  /\ offer' = TSBCapacityMinutes
  /\ UNCHANGED <<table, rc>>

\* Success, too, if no device supports a TSB.
SetTSBMaxMinutes(minutes) ==
  /\ UNCHANGED offer
  /\ IF TSBDevices = {} THEN rc' = "SUCCESS" /\ UNCHANGED table
     ELSE LET s == First(TSBDevices)
              r == MediaSetMinutes(table[s], minutes)
          IN  rc' = r.rc /\ table' = [table EXCEPT ![s] = r.media]

\* Fault of SetTSBEnabled: the first device of any kind.
SetTSBEnabled_AnyDevice(on) ==
  /\ UNCHANGED offer
  /\ IF Listed = {} THEN rc' = "GENERIC_FAILURE" /\ UNCHANGED table
     ELSE /\ rc' = "SUCCESS"
          /\ table' = [table EXCEPT ![First(Listed)] = MediaSetTSB(@, on)]

SetTSBEnabled(on) ==
  /\ UNCHANGED offer
  /\ IF TSBDevices = {} THEN rc' = "GENERIC_FAILURE" /\ UNCHANGED table
     ELSE /\ rc' = "SUCCESS"
          /\ table' = [table EXCEPT ![First(TSBDevices)] = MediaSetTSB(@, on)]

SetDVREnabled(on) ==
  /\ UNCHANGED offer
  /\ IF DVRDevices = {} THEN rc' = "GENERIC_FAILURE" /\ UNCHANGED table
     ELSE /\ rc' = "SUCCESS"
          /\ table' = [table EXCEPT ![First(DVRDevices)] = MediaSetDVR(@, on)]

Next ==
  \/ \E s \in Slots : AddSD(s) \/ AddEMMC(s) \/ AddHDD(s) \/ RemoveMedium(s)
  \/ GetTSBCapacityMinutes
  \/ \E minutes \in Minutes : SetTSBMaxMinutes(minutes)
  \/ \E on \in BOOLEAN : SetTSBEnabled(on) \/ SetDVREnabled(on)

Spec == Init /\ [][Next]_vars

-----------------------------------------------------------------------------
Media_at == {table[s] : s \in Listed}

(* A TSB is switched on, and recording is, only where it is supported,     *)
(* whichever partitions were found, mounted and read, and although a       *)
(* medium lets itself be switched on for one usable partition.             *)
EnabledIsSupported ==
  \A m \in Media_at : (m.tsbOn => m.tsb) /\ (m.dvrOn => m.dvr)

(* The length of TSB in force never exceeds what the medium offers, on     *)
(* cards whose capacity does not fit the counter as on any other.          *)
ConfiguredFits == \A m \in Media_at : m.conf <= m.maxMin

(* A medium whose TSB status is OK has a partition a TSB can be put on.    *)
OkMeansPartition == \A m \in Media_at : m.tsbStatus = "OK" => m.parts # {}

(* What a medium says of itself it can keep: neither switch is on without  *)
(* the support, no status is OK without a partition and no length beyond   *)
(* the offer, in whichever order partitions failed, media came and         *)
(* settings were made.                                                     *)
MediaKeepTheirWord == EnabledIsSupported /\ OkMeansPartition /\ ConfiguredFits

(* A client that was told of a capacity above nothing and asks where to    *)
(* put its TSB is given a path, unless the TSB was switched off meanwhile  *)
(* or the device is a hard disk, of which no path is ever known.           *)
OfferHasPath ==
  offer \notin {None, 0} /\ TSBEnabled /\ table[First(TSBDevices)].type # "HDD"
    => TSBPath # None

(* A client that asks for no more than the capacity it was told is obeyed, *)
(* and the next enquiry says so, unless a device came or went in between.  *)
OfferIsHonoured ==
  [][\A minutes \in Minutes :
       offer # None /\ minutes <= offer /\ SetTSBMaxMinutes(minutes)
         => rc' = "SUCCESS" /\ (TSBDevices # {} => TSBMaxMinutes' = minutes)]_vars
=============================================================================
