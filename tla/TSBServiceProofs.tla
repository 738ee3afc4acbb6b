-------------------------- MODULE TSBServiceProofs --------------------------
(***************************************************************************)
(* Proofs about the media and the calls that go to the first of them.      *)
(* Nothing is assumed of how many devices there are, of their sizes, nor   *)
(* of the widths of the counters except that they are not zero.            *)
(***************************************************************************)
EXTENDS TSBService, WellFoundedInduction, TLAPS

-----------------------------------------------------------------------------
(* What is true of one medium from its creation on: switched on only where *)
(* supported, a length in force that fits, a status OK or a capacity only  *)
(* with a partition, and on a card with that partition's path.             *)

Good(m) ==
  /\ m.tsbOn => m.tsb
  /\ m.dvrOn => m.dvr
  /\ m.conf <= m.maxMin
  /\ m.tsbStatus = "OK" => m.parts # {}
  /\ m.maxMin # 0 => m.parts # {}
  /\ m.type # "HDD" => m.parts = m.paths

LEMMA BlankMedium ==
  ASSUME NEW t PROVE Blank(t) \in Media({t}) /\ Good(Blank(t))
<1>1. 0 \in 0..(ULongLong - 1)
  BY StorageMediaAssumption
<1>2. Blank(t) \in Media({t})
  BY <1>1 DEF Blank, Media, TSBStatus
<1>3. QED
  BY <1>2 DEF Blank, Good

LEMMA SizedMedium ==
  ASSUME NEW T, NEW m \in Media(T), NEW p \in Partitions, NEW f \in FileSystem
  PROVE  LET n == Sized(m, p, f)
         IN  /\ n \in Media(T)
             /\ n.tsb = m.tsb /\ n.tsbOn = m.tsbOn /\ n.dvr = m.dvr /\ n.dvrOn = m.dvrOn
             /\ m.conf <= m.maxMin => n.conf <= n.maxMin
             /\ n.parts # {}
             /\ m.parts = m.paths => n.parts = n.paths
<1> DEFINE actual  == f.cap % UShort
           minutes == IF actual = 0 THEN m.maxMin
                      ELSE IF actual < MinMinutes THEN actual ELSE MinMinutes
           n       == Sized(m, p, f)
<1>1. f.cap \in Nat /\ f.free \in Nat
  BY StorageMediaAssumption DEF FileSystem
<1>2. UShort \in Nat \ {0} /\ MinMinutes \in Nat
  BY StorageMediaAssumption
<1>3. actual \in Nat
  BY <1>1, <1>2
<1>4. m.maxMin \in Nat /\ m.conf \in Nat
  BY DEF Media
<1>5. minutes \in Nat
  BY <1>2, <1>3, <1>4
<1> HIDE DEF actual
<1>6. n = [m EXCEPT !.parts = @ \cup {p}, !.paths = @ \cup {p}, !.maxMin = minutes,
                    !.conf = IF actual = 0 THEN @ ELSE minutes,
                    !.free = f.free,
                    !.tsbStatus = IF f.cap = f.free THEN "DISK_FULL" ELSE "OK"]
  BY DEF Sized, actual
<1> HIDE DEF n
<1>7. /\ n.type = m.type /\ n.dvrFree = m.dvrFree
      /\ n.tsb = m.tsb /\ n.tsbOn = m.tsbOn /\ n.dvr = m.dvr /\ n.dvrOn = m.dvrOn
      /\ n.parts = m.parts \cup {p} /\ n.paths = m.paths \cup {p} /\ n.maxMin = minutes
      /\ n.conf = IF actual = 0 THEN m.conf ELSE minutes
  BY <1>6 DEF Media
<1>8. n \in Media(T)
  BY <1>1, <1>4, <1>5, <1>6 DEF Media, TSBStatus
<1>9. m.conf <= m.maxMin => n.conf <= n.maxMin
  BY <1>3, <1>4, <1>5, <1>7
<1>10. QED
  BY <1>7, <1>8, <1>9 DEF n

\* A search of mtab keeps a medium sound, and an OK needs a partition found.
LEMMA StatvfsMedium ==
  ASSUME NEW T, NEW m \in Media(T), m.conf <= m.maxMin, m.tsbStatus # "OK", m.maxMin = 0,
         m.parts = m.paths,
         NEW S, NEW mtab, NEW fs \in [Partitions -> FileSystem]
  PROVE  LET n == Statvfs(m, S, mtab, fs)
         IN  /\ n \in Media(T)
             /\ n.tsb = m.tsb /\ n.tsbOn = m.tsbOn /\ n.dvr = m.dvr /\ n.dvrOn = m.dvrOn
             /\ n.conf <= n.maxMin
             /\ n.tsbStatus = "OK" \/ n.maxMin # 0 => n.parts # {}
      /\ n.parts = n.paths
             /\ n.parts = n.paths
<1> DEFINE Visit(h, p) == IF p \in Found(S, mtab) THEN Sized(h, p, fs[p]) ELSE h
           Keeps(h) == /\ h \in Media(T)
                       /\ h.tsb = m.tsb /\ h.tsbOn = m.tsbOn /\ h.dvr = m.dvr /\ h.dvrOn = m.dvrOn
                       /\ h.conf <= h.maxMin
                       /\ h.tsbStatus = "OK" \/ h.maxMin # 0 => h.parts # {}
                       /\ h.parts = h.paths
<1>1. ASSUME NEW h, Keeps(h), NEW p \in Partitions PROVE Keeps(Visit(h, p))
  <2>1. CASE p \in Found(S, mtab)
    <3>1. fs[p] \in FileSystem
      OBVIOUS
    <3>2. Keeps(Sized(h, p, fs[p]))
      BY <1>1, <3>1, SizedMedium
    <3>3. QED
      BY <2>1, <3>2
  <2>2. CASE p \notin Found(S, mtab)
    BY <1>1, <2>2
  <2>3. QED
    BY <2>1, <2>2
<1>2. Keeps(m)
  OBVIOUS
<1>3. 1 \in Partitions /\ 2 \in Partitions
  BY DEF Partitions
<1> HIDE DEF Visit, Keeps
<1>4. Keeps(Visit(Visit(m, 1), 2))
  BY <1>1, <1>2, <1>3
<1>5. Statvfs(m, S, mtab, fs) = Visit(Visit(m, 1), 2)
  BY DEF Statvfs, Visit
<1>6. QED
  BY <1>4, <1>5 DEF Keeps

LEMMA SDGood == ASSUME NEW x \in SDInputs PROVE SDMedia(x) \in Media({"SDCARD"}) /\ Good(SDMedia(x))
<1> DEFINE m == Blank("SDCARD")
           n == Statvfs(m, x.parts, x.mtab, x.fs)
<1>1. x.fs \in [Partitions -> FileSystem] /\ x.handshake \in BOOLEAN
  BY DEF SDInputs
<1>2. m \in Media({"SDCARD"}) /\ Good(m)
  BY BlankMedium
<1>3. /\ m.tsbStatus = "UNKNOWN" /\ m.dvrOn = FALSE /\ m.tsbOn = FALSE /\ m.maxMin = 0
      /\ m.parts = m.paths
  BY DEF Blank
<1> HIDE DEF m
<1>4. /\ n \in Media({"SDCARD"})
      /\ n.tsbOn = m.tsbOn /\ n.dvrOn = m.dvrOn
      /\ n.conf <= n.maxMin
      /\ n.tsbStatus = "OK" \/ n.maxMin # 0 => n.parts # {}
      /\ n.parts = n.paths
  BY <1>1, <1>2, <1>3, StatvfsMedium DEF Good
<1> HIDE DEF n
<1>5. CASE ~x.qualified
  <2>1. SDMedia(x) = [m EXCEPT !.tsbStatus = "NOT_QUALIFIED"]
    BY <1>5 DEF SDMedia, m
  <2>2. QED
    BY <1>2, <1>3, <2>1 DEF Good, Media, TSBStatus
<1>6. CASE x.qualified /\ (x.parts = {} \/ ~x.mounted)
  <2>1. SDMedia(x) = [m EXCEPT !.tsbStatus = "READ_ONLY"]
    BY <1>6 DEF SDMedia, m
  <2>2. QED
    BY <1>2, <1>3, <2>1 DEF Good, Media, TSBStatus
<1>7. CASE x.qualified /\ ~(x.parts = {} \/ ~x.mounted)
  <2> DEFINE on == x.handshake /\ n.tsbStatus = "OK"
  <2>1. SDMedia(x) = [n EXCEPT !.tsb = x.handshake, !.tsbOn = on]
    BY <1>7 DEF SDMedia, m, n
  <2>2. on \in BOOLEAN /\ (on => x.handshake)
    OBVIOUS
  <2> HIDE DEF on
  <2>3. QED
    BY <1>1, <1>3, <1>4, <2>1, <2>2 DEF Good, Media
<1>8. QED
  BY <1>5, <1>6, <1>7

LEMMA EMMCGood ==
  ASSUME NEW x \in EMMCInputs PROVE EMMCMedia(x) \in Media({"EMMCCARD"}) /\ Good(EMMCMedia(x))
<1> DEFINE b == Blank("EMMCCARD")
           m == [b EXCEPT !.tsb = TRUE, !.tsbOn = TRUE]
           n == Statvfs(m, {1}, x.mtab, [p \in Partitions |-> x.fs])
<1>1. x.fs \in FileSystem
  BY DEF EMMCInputs
<1>2. b \in Media({"EMMCCARD"}) /\ Good(b)
  BY BlankMedium
<1>3. b.tsbStatus = "UNKNOWN" /\ b.dvrOn = FALSE /\ b.maxMin = 0 /\ b.parts = b.paths
  BY DEF Blank
<1> HIDE DEF b
<1>4. /\ m \in Media({"EMMCCARD"}) /\ m.conf <= m.maxMin /\ m.tsb = TRUE /\ m.tsbOn = TRUE
      /\ m.dvrOn = FALSE /\ m.tsbStatus = "UNKNOWN" /\ m.dvrOn = b.dvrOn /\ m.maxMin = 0
      /\ m.parts = m.paths
  BY <1>2, <1>3 DEF Good, Media
<1>5. EMMCMedia(x) = IF ~x.qualified THEN [b EXCEPT !.tsbStatus = "NOT_QUALIFIED"]
                     ELSE IF ~x.mounted THEN [m EXCEPT !.tsbStatus = "READ_ONLY"] ELSE n
  BY DEF EMMCMedia, b
<1> HIDE DEF m
<1>6. /\ n \in Media({"EMMCCARD"})
      /\ n.tsb = m.tsb /\ n.dvrOn = m.dvrOn
      /\ n.conf <= n.maxMin
      /\ n.tsbStatus = "OK" \/ n.maxMin # 0 => n.parts # {}
      /\ n.parts = n.paths
  BY <1>1, <1>4, StatvfsMedium
<1> HIDE DEF n
<1>7. CASE ~x.qualified
  BY <1>2, <1>3, <1>5, <1>7 DEF Good, Media, TSBStatus
<1>8. CASE x.qualified /\ ~x.mounted
  BY <1>4, <1>5, <1>8 DEF Good, Media, TSBStatus
<1>9. CASE x.qualified /\ x.mounted
  BY <1>4, <1>5, <1>6, <1>9 DEF Good
<1>10. QED
  BY <1>7, <1>8, <1>9

LEMMA HDDMountGood ==
  ASSUME NEW h \in Media({"HDD"}), Good(h), NEW p \in Partitions, NEW x \in Mount
  PROVE  HDDMount(h, p, x) \in Media({"HDD"}) /\ Good(HDDMount(h, p, x))
<1>1. x.fs.free \in Nat /\ x.xfs \in {"ok", "noGeometry", "other"}
  BY StorageMediaAssumption DEF Mount, FileSystem
<1>2. ReserveMinutes \in Nat
  BY StorageMediaAssumption
<1>3. (x.fs.free - Reserve) % ULongLong \in 0..(ULongLong - 1)
  BY <1>1, StorageMediaAssumption
<1>4. CASE x.xfs = "ok"
  <2> DEFINE free == (x.fs.free - Reserve) % ULongLong
             status == IF x.fs.free = 0 THEN "DISK_FULL" ELSE "OK"
             parts == h.parts \cup {p}
  <2>1. HDDMount(h, p, x) =
         [h EXCEPT !.tsb = TRUE, !.tsbOn = TRUE, !.parts = parts,
                   !.maxMin = ReserveMinutes, !.conf = ReserveMinutes, !.free = 0,
                   !.tsbStatus = status, !.dvr = TRUE, !.dvrOn = TRUE, !.dvrFree = free]
    BY <1>4 DEF HDDMount
  <2>2. status \in TSBStatus
    BY DEF TSBStatus
  <2>3. free \in 0..(ULongLong - 1)
    BY <1>3
  <2>4. parts \in SUBSET Partitions /\ parts # {}
    BY DEF Media
  <2> HIDE DEF free, status, parts
  <2> DEFINE n == HDDMount(h, p, x)
  <2>5. n \in Media({"HDD"})
    <3>1. n = [type |-> h.type, tsbStatus |-> status, maxMin |-> ReserveMinutes,
               conf |-> ReserveMinutes, free |-> 0, tsb |-> TRUE, tsbOn |-> TRUE,
               dvr |-> TRUE, dvrOn |-> TRUE, dvrFree |-> free, parts |-> parts,
               paths |-> h.paths]
      BY <2>1 DEF Media
    <3>2. h.type \in {"HDD"}
      BY DEF Media
    <3> HIDE DEF n
    <3>3. QED
      BY <1>2, <2>2, <2>3, <2>4, <3>1, <3>2 DEF Media
  <2>6. /\ n.tsb /\ n.dvr /\ n.conf = ReserveMinutes /\ n.maxMin = ReserveMinutes
        /\ n.parts # {} /\ n.type = "HDD"
    BY <2>1, <2>4 DEF Media
  <2>7. Good(n)
    BY <1>2, <2>6 DEF Good
  <2>8. QED
    BY <2>5, <2>7
<1>5. CASE x.xfs = "noGeometry"
  <2>1. HDDMount(h, p, x) = [h EXCEPT !.tsb = FALSE, !.tsbOn = FALSE]
    BY <1>5 DEF HDDMount
  <2>2. QED
    BY <2>1 DEF Media, Good
<1>6. CASE x.xfs = "other"
  <2>1. HDDMount(h, p, x) = h
    BY <1>6 DEF HDDMount
  <2>2. QED
    BY <2>1
<1>7. QED
  BY <1>1, <1>4, <1>5, <1>6

LEMMA HDDGood ==
  ASSUME NEW mounts \in HDDInputs PROVE HDDMedia(mounts) \in Media({"HDD"}) /\ Good(HDDMedia(mounts))
<1> DEFINE Sound(h) == h \in Media({"HDD"}) /\ Good(h)
           Visit(h, p) == IF p \in DOMAIN mounts THEN HDDMount(h, p, mounts[p]) ELSE h
           m == Visit(Visit(Blank("HDD"), 1), 2)
           n == IF m.tsbOn THEN m
                ELSE [m EXCEPT !.tsb = FALSE, !.free = 0, !.maxMin = 0, !.conf = 0]
<1>1. \A p \in DOMAIN mounts : p \in Partitions /\ mounts[p] \in Mount
  BY DEF HDDInputs, Partitions
<1>2. ASSUME NEW h, Sound(h), NEW p PROVE Sound(Visit(h, p))
  <2>1. CASE p \in DOMAIN mounts
    BY <1>1, <1>2, <2>1, HDDMountGood
  <2>2. CASE p \notin DOMAIN mounts
    BY <1>2, <2>2
  <2>3. QED
    BY <2>1, <2>2
<1>3. Sound(Blank("HDD"))
  BY BlankMedium
<1>4. HDDMedia(mounts) = IF n.dvrOn THEN n ELSE [n EXCEPT !.dvr = FALSE, !.dvrFree = 0]
  BY DEF HDDMedia
<1> HIDE DEF Visit, Sound
<1>5. Sound(m)
  BY <1>2, <1>3
<1> HIDE DEF m
<1>6. Sound(n)
  <2>1. CASE m.tsbOn
    BY <1>5, <2>1
  <2>2. CASE ~m.tsbOn
    <3>1. n = [m EXCEPT !.tsb = FALSE, !.free = 0, !.maxMin = 0, !.conf = 0]
      BY <2>2
    <3>2. m \in Media({"HDD"}) /\ Good(m)
      BY <1>5 DEF Sound
    <3>3. n \in Media({"HDD"})
      BY <3>1, <3>2 DEF Media
    <3>4. Good(n)
      BY <2>2, <3>1, <3>2 DEF Good, Media
    <3>5. QED
      BY <3>3, <3>4 DEF Sound
  <2>3. QED
    BY <2>1, <2>2
<1> HIDE DEF n
<1>7. 0 \in 0..(ULongLong - 1)
  BY StorageMediaAssumption
<1>8. QED
  BY <1>4, <1>6, <1>7 DEF Sound, Good, Media

-----------------------------------------------------------------------------
(* The settings of one medium.                                             *)

LEMMA SetMinutesGood ==
  ASSUME NEW T, NEW m \in Media(T), Good(m), NEW minutes \in Nat
  PROVE  LET r == MediaSetMinutes(m, minutes)
         IN  /\ r.media \in Media(T) /\ Good(r.media)
             /\ r.rc \in Codes
             /\ r.media.tsb = m.tsb /\ r.media.maxMin = m.maxMin
             /\ m.tsb /\ minutes <= m.maxMin => r.rc = "SUCCESS" /\ r.media.conf = minutes
<1>1. CASE minutes > m.maxMin
  <2>1. MediaSetMinutes(m, minutes) = [rc |-> "INVALID_INPUT", media |-> m]
    BY <1>1 DEF MediaSetMinutes
  <2>2. ~(minutes <= m.maxMin)
    BY <1>1 DEF Media
  <2>3. QED
    BY <2>1, <2>2 DEF Codes
<1>2. CASE ~(minutes > m.maxMin) /\ ~m.tsb
  BY <1>2 DEF MediaSetMinutes, Codes
<1>3. CASE ~(minutes > m.maxMin) /\ m.tsb
  <2>1. MediaSetMinutes(m, minutes) = [rc |-> "SUCCESS", media |-> [m EXCEPT !.conf = minutes]]
    BY <1>3 DEF MediaSetMinutes
  <2>2. minutes <= m.maxMin
    BY <1>3 DEF Media
  <2>3. QED
    BY <2>1, <2>2 DEF Codes, Good, Media
<1>4. QED
  BY <1>1, <1>2, <1>3

LEMMA SetTSBGood ==
  ASSUME NEW T, NEW m \in Media(T), Good(m), m.tsb, NEW on \in BOOLEAN
  PROVE  LET n == MediaSetTSB(m, on)
         IN  n \in Media(T) /\ Good(n) /\ n.tsb = m.tsb /\ n.maxMin = m.maxMin
<1>1. MediaSetTSB(m, on) = [m EXCEPT !.tsbOn = on]
  BY DEF MediaSetTSB
<1>2. QED
  BY <1>1 DEF Good, Media

LEMMA SetDVRGood ==
  ASSUME NEW T, NEW m \in Media(T), Good(m), m.dvr, NEW on \in BOOLEAN
  PROVE  LET n == MediaSetDVR(m, on)
         IN  n \in Media(T) /\ Good(n) /\ n.tsb = m.tsb /\ n.maxMin = m.maxMin
<1>1. MediaSetDVR(m, on) = [m EXCEPT !.dvrOn = on]
  BY DEF MediaSetDVR
<1>2. QED
  BY <1>1 DEF Good, Media

-----------------------------------------------------------------------------
(* The first device, and the table.                                        *)

\* The loops stop at a device of S: paths are ordered, and well.
LEMMA FirstIsThere == ASSUME NEW S \in SUBSET Nat, S # {} PROVE First(S) \in S
<1> DEFINE R == {ss \in Nat \X Nat : ss[1] < ss[2]}
<1>1. IsWellFoundedOn(R, Nat)
  BY NatLessThanWellFounded DEF OpToRel
<1>2. S \subseteq Nat
  OBVIOUS
<1> HIDE DEF R
<1>3. PICK s \in S : \A q \in S : <<q, s>> \notin R
  BY <1>1, <1>2, WFMin
<1>4. ASSUME NEW q \in S PROVE s <= q
  <2>1. q \in Nat /\ s \in Nat /\ <<q, s>> \notin R
    BY <1>2, <1>3
  <2>2. ~(q < s)
    BY <2>1 DEF R
  <2>3. QED
    BY <2>1, <2>2
<1>5. QED
  BY <1>4 DEF First

\* What every medium in the table keeps, and what a client was last offered.
Sound ==
  /\ TypeOK
  /\ \A s \in Slots : table[s] # None => Good(table[s])
  /\ offer # None => offer = TSBCapacityMinutes

\* The types of media that a path can hold are those that are found there.
LEMMA MediaMono == ASSUME NEW t, NEW T, t \in T PROVE Media({t}) \subseteq Media(T)
  BY DEF Media

\* One medium is changed, and neither what it supports nor what it offers.
LEMMA ChangeOne ==
  ASSUME Sound, NEW s \in Listed, NEW n \in Media(TypesAt[s]), Good(n),
         n.tsb = table[s].tsb, n.maxMin = table[s].maxMin, n # None,
         table' = [table EXCEPT ![s] = n], offer' = offer, rc' \in Codes
  PROVE  Sound' /\ TSBDevices' = TSBDevices
<1>1. s \in Slots /\ table[s] # None /\ DOMAIN table = Slots
  BY DEF Listed, Sound, TypeOK
<1>2. /\ DOMAIN table' = Slots
      /\ \A q \in Slots : table'[q] = IF q = s THEN n ELSE table[q]
  BY <1>1
<1>3. TypeOK'
  BY <1>1, <1>2 DEF Sound, TypeOK
<1>4. \A q \in Slots : table'[q] # None => Good(table'[q])
  BY <1>1, <1>2 DEF Sound
<1>5. Listed' = Listed
  BY <1>1, <1>2 DEF Listed
<1>6. \A q \in Listed : table'[q].tsb = table[q].tsb /\ table'[q].maxMin = table[q].maxMin
  BY <1>2 DEF Listed
<1>7. TSBDevices' = TSBDevices
  BY <1>5, <1>6 DEF TSBDevices
<1>8. TSBCapacityMinutes' = TSBCapacityMinutes
  <2>1. CASE TSBDevices = {}
    BY <1>7, <2>1 DEF TSBCapacityMinutes
  <2>2. CASE TSBDevices # {}
    <3>1. First(TSBDevices) \in Listed
      BY <2>2, FirstIsThere, TSBServiceAssumption DEF TSBDevices, Listed
    <3>2. QED
      BY <1>6, <1>7, <2>2, <3>1 DEF TSBCapacityMinutes
  <2>3. QED
    BY <2>1, <2>2
<1>9. QED
  BY <1>3, <1>4, <1>7, <1>8 DEF Sound

LEMMA SoundInit == Init => Sound
<1> SUFFICES ASSUME Init PROVE Sound
  OBVIOUS
<1>1. TypeOK
  BY DEF Init, TypeOK, Codes
<1>2. QED
  BY <1>1 DEF Init, Sound

\* What is added is sound for the path it is added at.
LEMMA AddSound ==
  ASSUME Sound, NEW s \in Slots, NEW m, AddMedium(s, m),
         m \in Media({m.type}), Good(m)
  PROVE  Sound'
<1>1. m \in Media(TypesAt[s])
  BY MediaMono DEF AddMedium
<1>2. DOMAIN table = Slots /\ table' = [table EXCEPT ![s] = m] /\ offer' = None /\ rc' = rc
  BY DEF AddMedium, Sound, TypeOK
<1>3. /\ DOMAIN table' = Slots
      /\ \A q \in Slots : table'[q] = IF q = s THEN m ELSE table[q]
  BY <1>2
<1>4. TypeOK'
  BY <1>1, <1>2, <1>3 DEF Sound, TypeOK
<1>5. \A q \in Slots : table'[q] # None => Good(table'[q])
  BY <1>3 DEF Sound
<1>6. QED
  BY <1>2, <1>4, <1>5 DEF Sound

\* Every call keeps the table sound.
LEMMA SoundStep == Sound /\ [Next]_vars => Sound'
<1> SUFFICES ASSUME Sound, [Next]_vars PROVE Sound'
  OBVIOUS
<1> DEFINE T == First(TSBDevices)
           D == First(DVRDevices)
<1>1. ASSUME TSBDevices # {}
      PROVE  T \in Listed /\ table[T].tsb /\ table[T] \in Media(TypesAt[T]) /\ Good(table[T])
  <2>1. TSBDevices \in SUBSET Nat
    BY TSBServiceAssumption DEF TSBDevices, Listed
  <2>2. T \in TSBDevices
    BY <1>1, <2>1, FirstIsThere
  <2>3. QED
    BY <2>2 DEF TSBDevices, Listed, Sound, TypeOK
<1>2. ASSUME DVRDevices # {}
      PROVE  D \in Listed /\ table[D].dvr /\ table[D] \in Media(TypesAt[D]) /\ Good(table[D])
  <2>1. DVRDevices \in SUBSET Nat
    BY TSBServiceAssumption DEF DVRDevices, Listed
  <2>2. D \in DVRDevices
    BY <1>2, <2>1, FirstIsThere
  <2>3. QED
    BY <2>2 DEF DVRDevices, Listed, Sound, TypeOK
<1> HIDE DEF T, D
<1>3. \A s \in Slots : \A n \in Media(TypesAt[s]) : n # None
  BY TSBServiceAssumption DEF Media
<1>4. ASSUME rc' \in Codes, UNCHANGED <<table, offer>> PROVE Sound'
  BY <1>4 DEF Sound, TypeOK, TSBCapacityMinutes, TSBDevices, Listed, First
<1>5. ASSUME NEW s \in Slots, AddSD(s) PROVE Sound'
  <2>1. PICK x \in SDInputs : AddMedium(s, SDMedia(x))
    BY <1>5 DEF AddSD, SDCards
  <2>2. SDMedia(x) \in Media({"SDCARD"}) /\ Good(SDMedia(x))
    BY SDGood
  <2>3. SDMedia(x).type = "SDCARD"
    BY <2>2 DEF Media
  <2>4. QED
    BY <2>1, <2>2, <2>3, AddSound
<1>6. ASSUME NEW s \in Slots, AddEMMC(s) PROVE Sound'
  <2>1. PICK x \in EMMCInputs : AddMedium(s, EMMCMedia(x))
    BY <1>6 DEF AddEMMC, EMMCs
  <2>2. EMMCMedia(x) \in Media({"EMMCCARD"}) /\ Good(EMMCMedia(x))
    BY EMMCGood
  <2>3. EMMCMedia(x).type = "EMMCCARD"
    BY <2>2 DEF Media
  <2>4. QED
    BY <2>1, <2>2, <2>3, AddSound
<1>7. ASSUME NEW s \in Slots, AddHDD(s) PROVE Sound'
  <2>1. PICK x \in HDDInputs : AddMedium(s, HDDMedia(x))
    BY <1>7 DEF AddHDD, HDDs
  <2>2. HDDMedia(x) \in Media({"HDD"}) /\ Good(HDDMedia(x))
    BY HDDGood
  <2>3. HDDMedia(x).type = "HDD"
    BY <2>2 DEF Media
  <2>4. QED
    BY <2>1, <2>2, <2>3, AddSound
<1>8. ASSUME NEW s \in Slots, RemoveMedium(s) PROVE Sound'
  BY <1>8 DEF RemoveMedium, Sound, TypeOK
<1>9. CASE GetTSBCapacityMinutes
  <2>1. TSBCapacityMinutes \in Nat
    BY <1>1 DEF TSBCapacityMinutes, T, Media
  <2>2. offer' = TSBCapacityMinutes /\ UNCHANGED <<table, rc>>
    BY <1>9 DEF GetTSBCapacityMinutes
  <2>3. TSBCapacityMinutes' = TSBCapacityMinutes
    BY <2>2 DEF TSBCapacityMinutes, TSBDevices, Listed, First
  <2>4. QED
    BY <2>1, <2>2, <2>3 DEF Sound, TypeOK
<1>10. ASSUME NEW minutes \in Minutes, SetTSBMaxMinutes(minutes) PROVE Sound'
  <2>1. CASE TSBDevices = {}
    BY <1>4, <1>10, <2>1 DEF SetTSBMaxMinutes, Codes
  <2>2. CASE TSBDevices # {}
    <3> DEFINE r == MediaSetMinutes(table[T], minutes)
    <3>1. rc' = r.rc /\ table' = [table EXCEPT ![T] = r.media] /\ offer' = offer
      BY <1>10, <2>2 DEF SetTSBMaxMinutes, T
    <3>2. minutes \in Nat
      BY TSBServiceAssumption
    <3>3. /\ r.media \in Media(TypesAt[T]) /\ Good(r.media) /\ r.rc \in Codes
          /\ r.media.tsb = table[T].tsb /\ r.media.maxMin = table[T].maxMin
      BY <1>1, <2>2, <3>2, SetMinutesGood
    <3> HIDE DEF r
    <3>4. T \in Slots
      BY <1>1, <2>2 DEF Listed
    <3>5. QED
      BY <1>1, <1>3, <2>2, <3>1, <3>3, <3>4, ChangeOne
  <2>3. QED
    BY <2>1, <2>2
<1>11. ASSUME NEW on \in BOOLEAN, SetTSBEnabled(on) PROVE Sound'
  <2>1. CASE TSBDevices = {}
    BY <1>4, <1>11, <2>1 DEF SetTSBEnabled, Codes
  <2>2. CASE TSBDevices # {}
    <3> DEFINE n == MediaSetTSB(table[T], on)
    <3>1. DOMAIN table = Slots /\ T \in Slots
      BY <1>1, <2>2 DEF Listed, Sound, TypeOK
    <3>2. rc' = "SUCCESS" /\ table' = [table EXCEPT ![T] = n] /\ offer' = offer
      BY <1>11, <2>2, <3>1 DEF SetTSBEnabled, T
    <3>3. /\ n \in Media(TypesAt[T]) /\ Good(n)
          /\ n.tsb = table[T].tsb /\ n.maxMin = table[T].maxMin
      BY <1>1, <2>2, SetTSBGood
    <3> HIDE DEF n
    <3>4. rc' \in Codes
      BY <3>2 DEF Codes
    <3>5. QED
      BY <1>1, <1>3, <2>2, <3>1, <3>2, <3>3, <3>4, ChangeOne
  <2>3. QED
    BY <2>1, <2>2
<1>12. ASSUME NEW on \in BOOLEAN, SetDVREnabled(on) PROVE Sound'
  <2>1. CASE DVRDevices = {}
    BY <1>4, <1>12, <2>1 DEF SetDVREnabled, Codes
  <2>2. CASE DVRDevices # {}
    <3> DEFINE n == MediaSetDVR(table[D], on)
    <3>1. DOMAIN table = Slots /\ D \in Slots
      BY <1>2, <2>2 DEF Listed, Sound, TypeOK
    <3>2. rc' = "SUCCESS" /\ table' = [table EXCEPT ![D] = n] /\ offer' = offer
      BY <1>12, <2>2, <3>1 DEF SetDVREnabled, D
    <3>3. /\ n \in Media(TypesAt[D]) /\ Good(n)
          /\ n.tsb = table[D].tsb /\ n.maxMin = table[D].maxMin
      BY <1>2, <2>2, SetDVRGood
    <3> HIDE DEF n
    <3>4. rc' \in Codes
      BY <3>2 DEF Codes
    <3>5. QED
      BY <1>2, <1>3, <2>2, <3>1, <3>2, <3>3, <3>4, ChangeOne
  <2>3. QED
    BY <2>1, <2>2
<1>13. CASE UNCHANGED vars
  <2>1. rc' \in Codes /\ UNCHANGED <<table, offer>>
    BY <1>13 DEF vars, Sound, TypeOK
  <2>2. QED
    BY <1>4, <2>1
<1>14. QED
  BY <1>5, <1>6, <1>7, <1>8, <1>9, <1>10, <1>11, <1>12, <1>13 DEF Next

THEOREM AlwaysSound == Spec => []Sound
<1>1. QED
  BY SoundInit, SoundStep, PTL DEF Spec

-----------------------------------------------------------------------------
(* The types of the table and of what clients are told.                    *)
THEOREM TypeCorrect == Spec => []TypeOK
<1>1. Sound => TypeOK
  BY DEF Sound
<1>2. QED
  BY <1>1, AlwaysSound, PTL

(* setTSBEnabled and setDVREnabled, whatever devices come and go between   *)
(* the calls, leave nothing switched on that is not supported; and         *)
(* populateDeviceDetails of each class says OK only of a medium with a     *)
(* partition for the TSB, which no call changes; and setTSBMaxMinutes, and *)
(* the sizing of a medium however its capacity wraps, leave no length in   *)
(* force that exceeds what is offered.                                     *)
THEOREM MediaAreSound == Spec => []MediaKeepTheirWord
<1>1. Sound => EnabledIsSupported
  BY DEF Sound, EnabledIsSupported, Media_at, Listed, Good
<1>2. Sound => OkMeansPartition
  BY DEF Sound, OkMeansPartition, Media_at, Listed, Good
<1>3. Sound => ConfiguredFits
  BY DEF Sound, ConfiguredFits, Media_at, Listed, Good
<1>4. Sound => MediaKeepTheirWord
  BY <1>1, <1>2, <1>3 DEF MediaKeepTheirWord
<1>5. QED
  BY <1>4, AlwaysSound, PTL

(* Where a card or an eMMC offers a capacity, it has a partition whose     *)
(* path getTSBPartitionMountPath can give, for any devices and settings.   *)
THEOREM PathForOffer == Spec => []OfferHasPath
<1>1. Sound => OfferHasPath
  <2> DEFINE m == table[First(TSBDevices)]
  <2> SUFFICES ASSUME Sound, offer # None, offer # 0, TSBEnabled, m.type # "HDD"
               PROVE  TSBPath # None
    BY DEF OfferHasPath
  <2>1. TSBDevices # {} /\ TSBDevices \in SUBSET Nat
    BY TSBServiceAssumption DEF TSBEnabled, TSBDevices, Listed
  <2>2. First(TSBDevices) \in TSBDevices
    BY <2>1, FirstIsThere
  <2>3. Good(m) /\ m.parts \in SUBSET Partitions
    BY <2>2 DEF TSBDevices, Listed, Sound, TypeOK, Media
  <2>4. m.maxMin # 0
    BY <2>1 DEF Sound, TSBCapacityMinutes
  <2>5. m.parts # {} /\ m.parts \in SUBSET Nat /\ m.parts = m.paths
    BY <2>3, <2>4 DEF Good, Partitions
  <2>6. First(m.parts) \in m.parts /\ First(m.parts) \in Nat
    BY <2>5, FirstIsThere
  <2>7. m.tsbOn
    BY DEF TSBEnabled
  <2>8. PathOf(m) # None
    BY <2>5, <2>6, <2>7, TSBServiceAssumption DEF PathOf
  <2>9. QED
    BY <2>1, <2>8 DEF TSBPath
<1>2. QED
  BY <1>1, AlwaysSound, PTL

(* A client that read the capacity in minutes and asks for no more is      *)
(* obeyed by the same device, whatever other clients set in between.       *)
THEOREM OfferHonoured == Spec => OfferIsHonoured
<1> DEFINE Obeyed == \A minutes \in Minutes :
       offer # None /\ minutes <= offer /\ SetTSBMaxMinutes(minutes)
         => rc' = "SUCCESS" /\ (TSBDevices # {} => TSBMaxMinutes' = minutes)
<1>1. Sound => Obeyed
  <2> SUFFICES ASSUME Sound, NEW minutes \in Minutes,
                      offer # None, minutes <= offer, SetTSBMaxMinutes(minutes)
               PROVE  rc' = "SUCCESS" /\ (TSBDevices # {} => TSBMaxMinutes' = minutes)
    OBVIOUS
  <2>1. CASE TSBDevices = {}
    BY <2>1 DEF SetTSBMaxMinutes
  <2>2. CASE TSBDevices # {}
    <3> DEFINE T == First(TSBDevices)
               r == MediaSetMinutes(table[T], minutes)
    <3>1. T \in TSBDevices
      BY <2>2, FirstIsThere, TSBServiceAssumption DEF TSBDevices, Listed
    <3>2. /\ T \in Listed /\ T \in Slots /\ table[T] # None /\ DOMAIN table = Slots
          /\ table[T].tsb /\ table[T] \in Media(TypesAt[T]) /\ Good(table[T])
      BY <3>1 DEF TSBDevices, Listed, Sound, TypeOK
    <3>3. offer = table[T].maxMin
      BY <2>2 DEF Sound, TSBCapacityMinutes
    <3>4. minutes \in Nat
      BY TSBServiceAssumption
    <3>5. rc' = r.rc /\ table' = [table EXCEPT ![T] = r.media] /\ offer' = offer
      BY <2>2 DEF SetTSBMaxMinutes
    <3> HIDE DEF T, r
    <3>6. /\ r.media \in Media(TypesAt[T]) /\ Good(r.media) /\ r.rc = "SUCCESS"
          /\ r.media.tsb = table[T].tsb /\ r.media.maxMin = table[T].maxMin
          /\ r.media.conf = minutes
      BY <3>2, <3>3, <3>4, SetMinutesGood DEF r
    <3>7. r.media # None /\ rc' \in Codes
      BY <3>2, <3>5, <3>6, TSBServiceAssumption DEF Media, Codes
    <3>8. TSBDevices' = TSBDevices
      BY <3>2, <3>5, <3>6, <3>7, ChangeOne
    <3>9. table'[T].conf = minutes
      BY <3>2, <3>5, <3>6
    <3>10. First(TSBDevices)' = T
      BY <3>8 DEF First, T
    <3>11. TSBMaxMinutes' = minutes
      BY <2>2, <3>8, <3>9, <3>10 DEF TSBMaxMinutes
    <3>12. QED
      BY <3>5, <3>6, <3>11
  <2>3. QED
    BY <2>1, <2>2
<1>2. QED
  BY <1>1, AlwaysSound, PTL DEF OfferIsHonoured
=============================================================================
