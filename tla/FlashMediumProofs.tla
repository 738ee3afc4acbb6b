------------------------- MODULE FlashMediumProofs -------------------------
(***************************************************************************)
(* Proofs about the NVRAM medium, for every limit of the erase count and   *)
(* any wear: what is said of the health, and what is left for later lives. *)
(***************************************************************************)
EXTENDS FlashMedium, TLAPS

-----------------------------------------------------------------------------
(* One medium: until a reading succeeds its count is the assumed maximum,  *)
(* from then on the reading, which the wear has passed or not.             *)

Counted(m) ==
  IF m.cache = None THEN m.ec = MaxEC ELSE m.ec = m.cache /\ m.cache <= wear

LEMMA ReadingCounts ==
  ASSUME wear \in Nat, NEW m \in Medium, Counted(m), NEW readable \in BOOLEAN
  PROVE  /\ ReadEraseCount(m, readable) \in Medium
         /\ Counted(ReadEraseCount(m, readable))
         /\ ReadEraseCount(m, readable).known = m.known
<1> DEFINE v == IF m.cache # None THEN m.cache ELSE IF readable THEN wear ELSE None
<1>1. CASE m.parent /\ v # None
  <2>1. ReadEraseCount(m, readable) = [m EXCEPT !.cache = v, !.ec = v]
    BY <1>1 DEF ReadEraseCount
  <2>2. v \in Nat /\ v <= wear
    BY <1>1 DEF Counted, Medium
  <2> HIDE DEF v
  <2>3. [m EXCEPT !.cache = v, !.ec = v] \in Medium
    BY <2>2 DEF Medium
  <2>4. /\ [m EXCEPT !.cache = v, !.ec = v].known = m.known
        /\ [m EXCEPT !.cache = v, !.ec = v].cache = v
        /\ [m EXCEPT !.cache = v, !.ec = v].ec = v
    BY DEF Medium
  <2>5. v # None
    BY <1>1
  <2>6. QED
    BY <2>1, <2>2, <2>3, <2>4, <2>5 DEF Counted
<1>2. CASE ~(m.parent /\ v # None)
  BY <1>2 DEF ReadEraseCount
<1>3. QED
  BY <1>1, <1>2

LEMMA NewMediumCounts ==
  ASSUME NEW found \in BOOLEAN
  PROVE  NewMedium(found) \in Medium /\ Counted(NewMedium(found))
<1>1. FindsChip \in BOOLEAN
  BY DEF FindsChip
<1>2. QED
  BY <1>1, FlashMediumAssumption DEF NewMedium, Medium, Counted

LEMMA HealthIsOneOfThree == ASSUME NEW ec PROVE Health(ec) \in Healths
BY DEF Health, Healths

-----------------------------------------------------------------------------
(* The inductive invariant: besides the count, what was told is the health *)
(* of that count, and the file in /tmp is only left by one who knew.       *)

MediumInv == medium # None => Counted(medium)
ToldInv   == told # None => medium # None /\ told = Health(medium.ec)
TmpInv    == tmp => learnt

IInv == TypeOK /\ MediumInv /\ ToldInv /\ TmpInv

LEMMA InitHolds == Init => IInv
<1> SUFFICES ASSUME Init PROVE IInv
  OBVIOUS
<1>1. wear \in Nat
  BY FlashMediumAssumption DEF Init
<1>2. QED
  BY <1>1 DEF Init, IInv, TypeOK, MediumInv, ToldInv, TmpInv

LEMMA StepHolds == IInv /\ [Next]_vars => IInv'
<1> SUFFICES ASSUME IInv, [Next]_vars PROVE IInv'
  OBVIOUS
<1> USE DEF IInv
<1>1. ASSUME NEW found \in BOOLEAN, NEW readable \in BOOLEAN, NEW mtd \in BOOLEAN,
             Start(found, readable, mtd)
      PROVE  IInv'
  <2> DEFINE new == ReadEraseCount(NewMedium(found), readable)
  <2>1. new \in Medium /\ Counted(new)
    BY NewMediumCounts, ReadingCounts DEF TypeOK
  <2>2. medium' \in {None, new} /\ told' = None /\ wear' = wear /\ log' = log
    BY <1>1 DEF Start
  <2> HIDE DEF new
  <2>3. MediumInv' /\ ToldInv'
    BY <2>1, <2>2 DEF MediumInv, ToldInv, Counted
  <2>4. FindsChip \in BOOLEAN /\ (WritesTmp <=> FindsChip)
    BY DEF FindsChip, WritesTmp
  <2>5. tmp' = (tmp \/ FindsChip) /\ learnt' = (learnt \/ FindsChip)
    BY <1>1, <2>4 DEF Start, WritesTmp
  <2>6. {tmp', learnt'} \subseteq BOOLEAN
    BY <2>4, <2>5 DEF TypeOK
  <2>7. TmpInv'
    BY <2>5, Zenon DEF TmpInv
  <2>8. TypeOK'
    BY <2>1, <2>2, <2>6 DEF TypeOK
  <2>9. QED
    BY <2>3, <2>7, <2>8
<1>2. ASSUME NEW readable \in BOOLEAN, Query(readable) PROVE IInv'
  <2> DEFINE new == ReadEraseCount(medium, readable)
  <2>1. new \in Medium /\ Counted(new)
    BY <1>2, ReadingCounts DEF Query, TypeOK, MediumInv
  <2>2. /\ medium' = new /\ told' = Health(new.ec)
        /\ UNCHANGED <<wear, log, tmp, learnt>>
    BY <1>2 DEF Query
  <2> HIDE DEF new
  <2>3. Health(new.ec) \in Healths
    BY HealthIsOneOfThree
  <2>4. TypeOK' /\ TmpInv'
    BY <2>1, <2>2, <2>3 DEF TypeOK, TmpInv
  <2>5. MediumInv' /\ ToldInv'
    BY <2>1, <2>2, FlashMediumAssumption DEF MediumInv, ToldInv, Counted
  <2>6. QED
    BY <2>4, <2>5
<1>3. CASE Crash
  BY <1>3 DEF Crash, TypeOK, MediumInv, ToldInv, TmpInv
<1>4. CASE Reboot
  BY <1>4 DEF Reboot, TypeOK, MediumInv, ToldInv, TmpInv
<1>5. CASE LogChanges
  BY <1>5 DEF LogChanges, TypeOK, MediumInv, ToldInv, TmpInv, Counted
<1>6. CASE Wear
  <2>1. wear' \in Nat /\ wear <= wear'
    BY <1>6 DEF Wear, TypeOK
  <2>2. MediumInv'
    <3> SUFFICES ASSUME medium # None, medium.cache # None
                 PROVE  medium.cache <= wear'
      BY <1>6 DEF Wear, MediumInv, Counted
    <3>1. medium.cache \in Nat /\ medium.cache <= wear
      BY DEF MediumInv, Counted, TypeOK, Medium
    <3>2. QED
      BY <2>1, <3>1 DEF TypeOK
  <2>3. QED
    BY <1>6, <2>1, <2>2 DEF Wear, TypeOK, ToldInv, TmpInv
<1>7. CASE UNCHANGED vars
  BY <1>7 DEF vars, TypeOK, MediumInv, ToldInv, TmpInv, Counted
<1>8. QED
  BY <1>1, <1>2, <1>3, <1>4, <1>5, <1>6, <1>7 DEF Next

LEMMA InvariantHolds == Spec => []IInv
BY InitHolds, StepHolds, PTL DEF Spec

-----------------------------------------------------------------------------
(* Every variable keeps its type; above all, no count is taken from a      *)
(* reading that failed.                                                    *)
THEOREM TypeCorrect == Spec => []TypeOK
<1>1. IInv => TypeOK
  BY DEF IInv
<1>2. QED
  BY <1>1, InvariantHolds, PTL

(* Wherever the limits are, the flash is called healthy only after a       *)
(* reading that allowed it: the assumed maximum of a new medium is above   *)
(* the limit, so that silence of the driver is never taken for health.  It *)
(* is called worn when it is or could never be read, and failed when it is *)
(* past its maximum or was never erased.                                   *)
THEOREM HealthIsHonest == Spec => []HealthIsTrue
<1>1. ASSUME IInv, told = "healthy"
      PROVE  medium.cache # None /\ medium.cache \in 1..Limit /\ medium.cache <= wear
  <2>1. medium \in Medium /\ Counted(medium) /\ Health(medium.ec) = "healthy"
    BY <1>1, FlashMediumAssumption DEF IInv, TypeOK, MediumInv, ToldInv, Healths
  <2>2. medium.ec \in Nat /\ 0 < medium.ec /\ medium.ec <= Limit
    BY <2>1 DEF Health, Medium
  <2>3. medium.cache # None
    BY <2>1, <2>2, FlashMediumAssumption DEF Counted
  <2>4. QED
    BY <2>1, <2>2, <2>3, FlashMediumAssumption DEF Counted
<1>2. ASSUME IInv, told = "worn" PROVE medium.cache = None \/ wear > Limit
  <2>1. medium \in Medium /\ Counted(medium) /\ Health(medium.ec) = "worn"
    BY <1>2, FlashMediumAssumption DEF IInv, TypeOK, MediumInv, ToldInv, Healths
  <2>2. medium.ec \in Nat /\ medium.ec > Limit
    BY <2>1, FlashMediumAssumption DEF Health, Medium
  <2>3. QED
    BY <1>2, <2>1, <2>2, FlashMediumAssumption DEF Counted, IInv, TypeOK
<1>3. ASSUME IInv, told = "failed" PROVE wear > MaxEC \/ medium.cache = 0
  <2>1. medium \in Medium /\ Counted(medium) /\ Health(medium.ec) = "failed"
    BY <1>3, FlashMediumAssumption DEF IInv, TypeOK, MediumInv, ToldInv, Healths
  <2>2. medium.ec \in Nat /\ (medium.ec > MaxEC \/ medium.ec = 0)
    BY <2>1, FlashMediumAssumption DEF Health, Medium
  <2>3. QED
    BY <1>3, <2>1, <2>2, FlashMediumAssumption DEF Counted, IInv, TypeOK
<1>4. IInv => HealthIsTrue
  BY <1>1, <1>2, <1>3 DEF HealthIsTrue
<1>5. QED
  BY <1>4, InvariantHolds, PTL

(* However often the daemon dies and whenever the line comes to the log,   *)
(* whoever starts with it in the log knows the chip, or another did before *)
(* in this boot: only one who knew leaves the file that hides the log.     *)
THEOREM ChipKnownOnce == Spec => ChipIsFoundOnce
<1>1. ASSUME IInv, [Next]_vars, medium = None, medium' # None, log = "with"
      PROVE  medium'.known \/ learnt
  <2>1. PICK found \in BOOLEAN, readable \in BOOLEAN, mtd \in BOOLEAN :
          Start(found, readable, mtd)
    BY <1>1 DEF Next, vars, Query, Crash, Reboot, LogChanges, Wear
  <2>2. medium' = ReadEraseCount(NewMedium(found), readable)
    BY <1>1, <2>1 DEF Start
  <2>3. medium'.known = FindsChip
    <3>1. ReadEraseCount(NewMedium(found), readable).known = NewMedium(found).known
      BY <1>1, NewMediumCounts, ReadingCounts DEF IInv, TypeOK
    <3>2. QED
      BY <2>2, <3>1 DEF NewMedium
  <2>4. tmp => learnt
    BY <1>1 DEF IInv, TmpInv
  <2>5. ~tmp => FindsChip
    BY <1>1 DEF FindsChip
  <2>6. QED
    BY <2>3, <2>4, <2>5, Zenon
<1>2. IInv /\ [Next]_vars =>
        [medium = None /\ medium' # None /\ log = "with" => medium'.known \/ learnt]_vars
  BY <1>1
<1>3. QED
  BY <1>2, InvariantHolds, PTL DEF Spec, ChipIsFoundOnce
=============================================================================
