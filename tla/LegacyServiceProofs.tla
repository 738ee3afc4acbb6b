------------------------- MODULE LegacyServiceProofs -------------------------
(***************************************************************************)
(* Proofs about LegacyService.  The card under the handlers is the card of *)
(* LegacyCard, so that everything proved of that holds of this; the rest   *)
(* follows the capacity from the file system to the length clients set.    *)
(***************************************************************************)
EXTENDS LegacyService, LegacyCardProofs

allVars == <<vars, serviceVars>>

\* What the card does is the card's, and the handlers leave it alone.
LEMMA CardOrNot == [ServiceNext]_allVars => [Next]_vars
<1> SUFFICES ASSUME ServiceNext PROVE [Next]_vars
  BY DEF allVars
<1>1. CASE Card
  <2>1. ASSUME NEW e \in {"add", "remove"}, SwapCard(e) PROVE Next
    BY <2>1 DEF SwapCard, Next
  <2>2. ASSUME NEW call \in {"mount", "umount"}, Power(call) PROVE Next
    BY <2>2 DEF Power, Next
  <2>3. ASSUME NEW t \in Threads, Script(t) PROVE Next
    BY <2>3 DEF Script, Next
  <2>4. CASE Measure
    BY <2>4 DEF Measure, Next, MonitorStep
  <2>5. CASE Unmeasured
    BY <2>5 DEF Unmeasured, Next, MonitorStep
  <2>6. QED
    BY <1>1, <2>1, <2>2, <2>3, <2>4, <2>5 DEF Card
<1>2. CASE Rpc
  BY <1>2 DEF Rpc, Begin, ReadFlag, GetTSBMaxMinutes, SetTSBMaxMinutes, Serve
<1>3. QED
  BY <1>1, <1>2 DEF ServiceNext

(* The handlers do not disturb the card: every behaviour of the daemon     *)
(* with its RPC handlers is one of the card without them.                  *)
THEOREM ServiceHasCard == ServiceSpec => Spec
<1>1. ServiceInit => Init
  BY DEF ServiceInit
<1>2. QED
  BY <1>1, CardOrNot, PTL DEF ServiceSpec, Spec, allVars

-----------------------------------------------------------------------------
(* Types.                                                                  *)

LEMMA Wrapped ==
  ASSUME NEW c \in Nat
  PROVE  Minutes(c) \in Lengths /\ Minutes(c) <= c /\ (c = 0 => Minutes(c) = 0)
BY LegacyServiceAssumption DEF Minutes, Lengths

LEMMA LimitedFits ==
  ASSUME NEW n \in Lengths
  PROVE  Limited(n) \in Lengths /\ (Limited(n) = n \/ Limited(n) = ConfMax)
BY LegacyServiceAssumption DEF Limited, Lengths

LEMMA ServiceTypeStep == TypeOK /\ ServiceTypeOK /\ [ServiceNext]_allVars => ServiceTypeOK'
<1> SUFFICES ASSUME TypeOK, ServiceTypeOK, [ServiceNext]_allVars PROVE ServiceTypeOK'
  OBVIOUS
<1> USE LegacyServiceAssumption DEF ServiceTypeOK
<1>1. CASE Card
  <2>1. ASSUME NEW e \in {"add", "remove"}, SwapCard(e) PROVE ServiceTypeOK'
    <3>1. size' \in Sizes /\ events' \in 0..Events
      BY <2>1 DEF SwapCard
    <3>2. here' \in BOOLEAN
      BY <2>1, Zenon DEF SwapCard
    <3>3. UNCHANGED <<fsSize, capacity, measured, byPower, clings, lengthVars, rpc>>
      BY <2>1 DEF SwapCard
    <3>4. QED
      BY <3>1, <3>2, <3>3 DEF lengthVars
  <2>2. ASSUME NEW call \in {"mount", "umount"}, Power(call) PROVE ServiceTypeOK'
    BY <2>2 DEF Power, lengthVars
  <2>3. ASSUME NEW t \in Threads, Script(t) PROVE ServiceTypeOK'
    <3>1. byPower' \in BOOLEAN /\ here' \in BOOLEAN /\ clings' \in BOOLEAN
      <4>1. byPower' \in BOOLEAN
        BY <2>3, Zenon DEF Script
      <4>2. here' \in BOOLEAN
        <5>1. mounted' \in BOOLEAN
          BY <2>3, Zenon DEF Script, ScriptCall, Mount, RunMount, SetMounted, Umount, UmountLock,
                             RunUmount, ClearMounted, TypeOK
        <5>2. QED
          BY <2>3, <5>1, Zenon DEF Script
      <4>3. clings' \in BOOLEAN
        BY <2>3, Zenon DEF Script
      <4>4. QED
        BY <4>1, <4>2, <4>3
    <3>2. fsSize' \in Sizes
      BY <2>3 DEF Script
    <3>3. UNCHANGED <<size, capacity, measured, events, lengthVars, rpc>>
      BY <2>3 DEF Script
    <3>4. QED
      BY <3>1, <3>2, <3>3 DEF lengthVars
  <2>4. CASE Measure
    BY <2>4 DEF Measure, lengthVars
  <2>5. CASE Unmeasured
    BY <2>5 DEF Unmeasured, serviceVars, sizeVars, lengthVars
  <2>6. QED
    BY <1>1, <2>1, <2>2, <2>3, <2>4, <2>5 DEF Card
<1>2. capacity \in Nat
  OBVIOUS
<1>3. CASE Rpc
  <2>1. ASSUME NEW h \in Made, Begin(h) PROVE ServiceTypeOK'
    <3>1. Asks[h] \in Seq(Flags)
      <4>1. CASE h = "getTSBMaxMinutes"
        <5>1. Asks[h] = <<"present", "tsb", "mounted">>
          BY <4>1 DEF Asks
        <5>2. QED
          BY <5>1 DEF Flags
      <4>2. CASE h = "setTSBMaxMinutes"
        <5>1. Asks[h] = <<"present", "tsb">>
          BY <4>2 DEF Asks
        <5>2. QED
          BY <5>1 DEF Flags
      <4>3. QED
        BY <4>1, <4>2 DEF Made
    <3>2. PICK v \in (IF h = "setTSBMaxMinutes" THEN Requests ELSE {0}) :
                 rpc' = [call |-> h, arg |-> v, left |-> Asks[h]]
      BY <2>1 DEF Begin
    <3>3. v \in Nat
      BY <3>2
    <3>4. QED
      BY <2>1, <3>1, <3>2, <3>3 DEF Begin, sizeVars, lengthVars
  <2>2. CASE ReadFlag
    <3>1. rpc' \in {None} \cup [call : Made, arg : Nat, left : Seq(Flags)]
      <4>1. rpc \in [call : Made, arg : Nat, left : Seq(Flags)] /\ rpc.left # <<>>
        BY <2>2 DEF ReadFlag
      <4>2. Tail(rpc.left) \in Seq(Flags)
        BY <4>1
      <4>3. QED
        BY <2>2, <4>1, <4>2 DEF ReadFlag
    <3>2. QED
      BY <2>2, <3>1 DEF ReadFlag, sizeVars, lengthVars
  <2>3. CASE GetTSBMaxMinutes
    <3>1. actualTsbMaxMin' \in Lengths
      BY <1>2, <2>3, Wrapped, LimitedFits DEF GetTSBMaxMinutes
    <3>2. QED
      BY <2>3, <3>1 DEF GetTSBMaxMinutes, Serve, sizeVars
  <2>4. CASE SetTSBMaxMinutes
    <3>1. actualTsbMaxMin' \in Lengths
      BY <1>2, <2>4, Wrapped DEF SetTSBMaxMinutes
    <3>2. UNCHANGED <<size, fsSize, capacity, measured, byPower, here, clings, events>> /\ rpc' = None
      BY <2>4 DEF SetTSBMaxMinutes, Serve, sizeVars
    <3>3. tsbMaxMin_InitFlag' \in BOOLEAN
      BY <2>4, Zenon DEF SetTSBMaxMinutes
    <3>4. tsbMaxMinute' \in Lengths \cup {20}
      <4>1. rpc.arg \in Nat
        BY <2>4 DEF SetTSBMaxMinutes, Serve
      <4>2. rpc.arg <= actualTsbMaxMin' => rpc.arg \in Lengths
        BY <3>1, <4>1 DEF Lengths
      <4>3. QED
        BY <2>4, <3>1, <4>2 DEF SetTSBMaxMinutes
    <3>5. QED
      BY <3>1, <3>2, <3>3, <3>4
  <2>5. QED
    BY <1>3, <2>1, <2>2, <2>3, <2>4 DEF Rpc
<1>4. CASE UNCHANGED allVars
  BY <1>4 DEF allVars, serviceVars, sizeVars, lengthVars
<1>5. QED
  BY <1>1, <1>3, <1>4 DEF ServiceNext

(* What the handlers keep has its type: the lengths fit an unsigned short, *)
(* however large the card.                                                 *)
THEOREM ServiceTypeCorrect == ServiceSpec => []ServiceTypeOK
<1>1. ServiceInit => ServiceTypeOK
  <2> SUFFICES ASSUME ServiceInit PROVE ServiceTypeOK
    OBVIOUS
  <2>1. 0 \in Lengths /\ 0 \in 0..Events
    BY LegacyServiceAssumption DEF Lengths
  <2>2. /\ tsbMaxMin_InitFlag \in BOOLEAN /\ byPower \in BOOLEAN
        /\ here \in BOOLEAN /\ clings \in BOOLEAN
    BY DEF ServiceInit
  <2>3. /\ size \in Sizes /\ fsSize \in Sizes /\ capacity \in Sizes \cup {0}
        /\ measured \subseteq Sizes /\ events \in 0..Events
    BY <2>1 DEF ServiceInit
  <2>4. /\ actualTsbMaxMin \in Lengths /\ tsbMaxMinute \in Lengths \cup {20}
        /\ rpc \in {None} \cup [call : Made, arg : Nat, left : Seq(Flags)]
    BY <2>1 DEF ServiceInit
  <2>5. QED
    BY <2>2, <2>3, <2>4 DEF ServiceTypeOK
<1>2. QED
  BY <1>1, ServiceTypeStep, ServiceHasCard, TypeCorrect, PTL DEF ServiceSpec, allVars

-----------------------------------------------------------------------------
(* The capacity of the card on offer.                                      *)

\* A card on offer that is mounted, and not by the power handler, was measured
\* when the monitor mounted it.
CapacityInv ==
  present /\ tsb /\ pc["monitor"] \in {"loop", "startMonitor"} /\ mounted /\ ~byPower
    => capacity = fsSize

\* It is mounted unless the power handler took it away.
PathInv ==
  /\ ~overlapped /\ present /\ tsb
  /\ pc["monitor"] \in {"loop", "startMonitor"} \/ (pc["monitor"] = "mountDone" /\ ok)
  => mounted \/ byPower

OfferInv == CapacityInv /\ PathInv

\* The script calls.
LEMMA OfferCall ==
  ASSUME TypeOK, GoodInv, FlagInv, OfferInv, NEW t \in Threads, Script(t)
  PROVE  OfferInv'
<1> USE DEF OfferInv, CapacityInv, PathInv, Threads, cardVars
<1>1. pc \in [Threads -> OwnPlaces \cup Calls \cup {"loop"}]
  BY DEF TypeOK
<1>2. /\ UNCHANGED <<capacity, measured, present, tsb, overlapped>>
      /\ byPower' = IF mounted' = mounted THEN byPower ELSE t = "power"
      /\ fsSize' = IF mounted' /\ ~mounted THEN size ELSE fsSize
  BY DEF Script, ScriptCall, Mount, RunMount, SetMounted, Umount, UmountLock, RunUmount, ClearMounted
<1>3. CASE Mount(t)
  <2>1. mounted' = mounted /\ byPower' = byPower /\ fsSize' = fsSize
    BY <1>2, <1>3, Zenon DEF Mount
  <2>2. CASE t = "monitor" /\ ~overlapped
    <3>1. pc["monitor"] = "mount" /\ pc["power"] \notin {"mountFlag", "umountFlag"}
      BY <1>1, <1>3, <2>2 DEF Mount, FlagInv, Calls
    <3>2. isMounted <=> mounted
      BY <2>2, <3>1 DEF FlagInv
    <3>3. pc'["monitor"] = IF isMounted THEN "mountDone" ELSE "mountScript"
      BY <1>1, <1>3, <2>2 DEF Mount, MountReturns, Goto
    <3>4. CASE isMounted
      <4>1. mounted' /\ pc'["monitor"] = "mountDone"
        BY <2>1, <3>2, <3>3, <3>4
      <4>2. QED
        BY <4>1
    <3>5. CASE ~isMounted
      BY <3>3, <3>5
    <3>6. QED
      BY <3>4, <3>5
  <2>3. CASE t = "monitor" /\ overlapped
    <3>1. pc'["monitor"] \notin {"loop", "startMonitor"} /\ overlapped'
      BY <1>1, <1>2, <1>3, <2>3 DEF Mount, MountReturns, Goto
    <3>2. QED
      BY <3>1
  <2>4. CASE t = "power"
    BY <1>1, <1>2, <1>3, <2>1, <2>4 DEF Mount, MountReturns, Goto
  <2>5. QED
    BY <2>2, <2>3, <2>4
<1>4. CASE RunMount(t)
  <2>1. CASE t = "monitor"
    <3>1. \/ pc'["monitor"] = "mountFlag"
          \/ pc'["monitor"] = "mountDone" /\ ~ok'
      BY <1>1, <1>4, <2>1, Zenon DEF RunMount, MountReturns, Goto
    <3>2. QED
      BY <3>1
  <2>2. CASE t = "power"
    <3>1. pc'["monitor"] = pc["monitor"] /\ ok' = ok
      BY <1>1, <1>4, <2>2 DEF RunMount, MountReturns, Goto
    <3>2. CASE mounted' = mounted
      <4>1. byPower' = byPower /\ fsSize' = fsSize
        BY <1>2, <3>2, Zenon
      <4>2. QED
        BY <1>2, <3>1, <3>2, <4>1
    <3>3. CASE ~(mounted' = mounted)
      <4>1. byPower' <=> TRUE
        BY <1>2, <2>2, <3>3, Zenon
      <4>2. QED
        BY <4>1
    <3>4. QED
      BY <3>2, <3>3
  <2>3. QED
    BY <2>1, <2>2
<1>5. CASE SetMounted(t)
  <2>1. mounted' = mounted /\ byPower' = byPower /\ fsSize' = fsSize
    BY <1>2, <1>5, Zenon DEF SetMounted
  <2>2. QED
    BY <1>1, <1>2, <1>5, <2>1 DEF SetMounted, MountReturns, Goto, FlagInv
<1>6. CASE Umount(t)
  <2>1. mounted' = mounted /\ byPower' = byPower /\ fsSize' = fsSize /\ ok' = ok
    BY <1>2, <1>6, Zenon DEF Umount
  <2>2. QED
    BY <1>1, <1>2, <1>6, <2>1 DEF Umount, Goto, GoodInv, Umounting
<1>7. CASE UmountLock(t)
  <2>1. mounted' = mounted /\ byPower' = byPower /\ fsSize' = fsSize /\ ok' = ok
    BY <1>2, <1>7, Zenon DEF UmountLock
  <2>2. QED
    BY <1>1, <1>2, <1>7, <2>1 DEF UmountLock, Goto, GoodInv, Umounting
<1>8. CASE RunUmount(t)
  <2>1. ok' = ok /\ pc[t] = "umountScript"
    BY <1>8 DEF RunUmount
  <2>2. CASE t = "monitor"
    <3>1. ~present
      BY <2>1, <2>2 DEF GoodInv, Umounting
    <3>2. QED
      BY <1>2, <3>1
  <2>3. CASE t = "power"
    <3>1. pc'["monitor"] = pc["monitor"]
      BY <1>1, <1>8, <2>3 DEF RunUmount, Goto
    <3>2. CASE mounted' = mounted
      BY <1>2, <2>1, <3>1, <3>2
    <3>3. CASE ~(mounted' = mounted)
      <4>1. byPower' <=> TRUE
        BY <1>2, <2>3, <3>3, Zenon
      <4>2. QED
        BY <4>1
    <3>4. QED
      BY <3>2, <3>3
  <2>4. QED
    BY <2>2, <2>3
<1>9. CASE ClearMounted(t)
  <2>1. mounted' = mounted /\ byPower' = byPower /\ fsSize' = fsSize /\ ok' = ok
    BY <1>2, <1>9, Zenon DEF ClearMounted
  <2>2. QED
    BY <1>1, <1>2, <1>9, <2>1 DEF ClearMounted, Goto, GoodInv, Umounting
<1>10. QED
  BY <1>3, <1>4, <1>5, <1>6, <1>7, <1>8, <1>9 DEF Script, ScriptCall

LEMMA OfferStep ==
  TypeOK /\ GoodInv /\ FlagInv /\ OfferInv /\ [ServiceNext]_allVars => OfferInv'
<1> SUFFICES ASSUME TypeOK, GoodInv, FlagInv, OfferInv, [ServiceNext]_allVars PROVE OfferInv'
  OBVIOUS
<1> USE DEF OfferInv, CapacityInv, PathInv, Threads
<1>1. pc \in [Threads -> OwnPlaces \cup Calls \cup {"loop"}]
  BY DEF TypeOK
<1>2. CASE Card
  <2>1. ASSUME NEW e \in {"add", "remove"}, SwapCard(e) PROVE OfferInv'
    BY <2>1 DEF SwapCard, Swap, cardVars
  <2>2. ASSUME NEW call \in {"mount", "umount"}, Power(call) PROVE OfferInv'
    <3>1. UNCHANGED <<mounted, ok, present, tsb, capacity, fsSize, byPower>>
      BY <2>2 DEF Power, PowerEvent, cardVars
    <3>2. pc'["monitor"] = pc["monitor"]
      BY <1>1, <2>2 DEF Power, PowerEvent, Enter, Goto
    <3>3. ~overlapped' => ~overlapped
      BY <2>2, Zenon DEF Power, PowerEvent, Enter
    <3>4. QED
      BY <3>1, <3>2, <3>3
  <2>3. CASE Measure
    <3>1. UNCHANGED <<mounted, present, fsSize, byPower, overlapped>>
      BY <2>3 DEF Measure, MountDone
    <3>2. pc["monitor"] = "mountDone" /\ present /\ tsb
      BY <2>3 DEF Measure, MountDone, GoodInv, Mounting
    <3>3. tsb' => ok
      BY <2>3, Zenon DEF Measure, MountDone
    <3>4. ok /\ mounted => capacity' = fsSize
      BY <2>3 DEF Measure
    <3>5. QED
      BY <3>1, <3>2, <3>3, <3>4
  <2>4. CASE Unmeasured
    <3>1. UNCHANGED <<mounted, capacity, fsSize, byPower>>
      BY <2>4 DEF Unmeasured, serviceVars, sizeVars, CheckSlot, ReadCid, Qualify, StartMonitor,
                  ReceiveAdd, ReceiveRemove, slotVars
    <3>2. CASE CheckSlot
      BY <1>1, <3>1, <3>2 DEF CheckSlot, Goto
    <3>3. CASE ReadCid
      BY <1>1, <3>1, <3>3 DEF ReadCid, Goto
    <3>4. CASE Qualify
      BY <1>1, <3>1, <3>4 DEF Qualify, Enter, Goto, AfterAdd
    <3>5. CASE StartMonitor
      BY <1>1, <3>1, <3>5 DEF StartMonitor, Goto, cardVars
    <3>6. CASE ReceiveAdd
      BY <1>1, <3>1, <3>6 DEF ReceiveAdd, Goto, cardVars
    <3>7. CASE ReceiveRemove
      <4>1. ~present'
        BY <3>7 DEF ReceiveRemove
      <4>2. QED
        BY <4>1
    <3>8. QED
      BY <2>4, <3>2, <3>3, <3>4, <3>5, <3>6, <3>7 DEF Unmeasured
  <2>5. QED
    BY <1>2, <2>1, <2>2, <2>3, <2>4, OfferCall DEF Card
<1>3. CASE Rpc
  BY <1>3 DEF Rpc, Begin, ReadFlag, GetTSBMaxMinutes, SetTSBMaxMinutes, Serve,
              vars, slotVars, cardVars, sizeVars
<1>4. CASE UNCHANGED allVars
  BY <1>4 DEF allVars, vars, slotVars, cardVars, serviceVars, sizeVars
<1>5. QED
  BY <1>2, <1>3, <1>4 DEF ServiceNext

-----------------------------------------------------------------------------
(* Whose card it is.                                                       *)

\* What is mounted and not on the card in the slot is on its way to be
\* unmounted, unless the monitor failed at it or the power handler mounted it.
HereInv ==
  /\ here => mounted /\ inserted /\ fsSize = size
  /\ pc["monitor"] = "check" => ~mounted \/ byPower
  /\ ~overlapped /\ ~missed /\ ~byPower /\ ~clings /\ mounted /\ ~here =>
       pc["monitor"] \in Umounting \/ \E i \in 1..Len(socket) : socket[i] = "remove"

\* The script calls.
LEMMA HereCall ==
  ASSUME TypeOK, FlagInv, HereInv, NEW t \in Threads, Script(t)
  PROVE  HereInv'
<1> USE DEF HereInv, Threads, slotVars
<1>1. pc \in [Threads -> OwnPlaces \cup Calls \cup {"loop"}]
  BY DEF TypeOK
<1>2. /\ UNCHANGED <<slotVars, size, overlapped>>
      /\ byPower' = IF mounted' = mounted THEN byPower ELSE t = "power"
      /\ fsSize' = IF mounted' /\ ~mounted THEN size ELSE fsSize
      /\ here' = IF mounted' = mounted THEN here ELSE mounted'
      /\ clings' = (mounted' /\ (clings \/ (t = "monitor" /\ pc[t] = "umountScript")))
  BY DEF Script, ScriptCall, Mount, RunMount, SetMounted, Umount, UmountLock, RunUmount, ClearMounted
<1>3. /\ mounted \in BOOLEAN /\ mounted' \in BOOLEAN
      /\ mounted' /\ ~mounted => inserted
  <2>1. mounted \in BOOLEAN
    BY DEF TypeOK
  <2>2. \/ mounted' = mounted
        \/ inserted /\ mounted' = TRUE
        \/ mounted' = FALSE
    BY Zenon DEF Script, ScriptCall, Mount, RunMount, SetMounted, Umount, UmountLock, RunUmount,
                 ClearMounted
  <2>3. CASE mounted' = mounted
    BY <2>1, <2>3
  <2>4. CASE inserted /\ mounted' = TRUE
    BY <2>1, <2>4
  <2>5. CASE mounted' = FALSE
    BY <2>1, <2>5
  <2>6. QED
    BY <2>2, <2>3, <2>4, <2>5
<1>4. pc'["monitor"] # "check" \/ pc'["monitor"] = pc["monitor"]
  BY <1>1 DEF Script, ScriptCall, Mount, MountReturns, RunMount, SetMounted, Umount, UmountLock,
              RunUmount, ClearMounted, Goto
<1>5. pc["monitor"] = "check" => t = "power"
  BY DEF Script, ScriptCall, Mount, RunMount, SetMounted, Umount, UmountLock, RunUmount, ClearMounted
<1>6. here' => mounted' /\ inserted' /\ fsSize' = size'
  <2>1. CASE mounted' = mounted
    BY <1>2, <1>3, <2>1
  <2>2. CASE mounted' # mounted
    BY <1>2, <1>3, <2>2
  <2>3. QED
    BY <2>1, <2>2
<1>7. pc'["monitor"] = "check" => ~mounted' \/ byPower'
  <2>1. CASE mounted' = mounted
    BY <1>2, <1>4, <2>1
  <2>2. CASE mounted' # mounted
    BY <1>2, <1>4, <1>5, <2>2
  <2>3. QED
    BY <2>1, <2>2
<1>8. ASSUME ~overlapped', ~missed', ~byPower', ~clings', mounted', ~here'
      PROVE  \/ pc'["monitor"] \in Umounting
             \/ \E i \in 1..Len(socket') : socket'[i] = "remove"
  <2>1. mounted' = mounted
    BY <1>2, <1>8
  <2>2. /\ ~overlapped /\ ~missed /\ ~byPower /\ ~clings /\ mounted /\ ~here
        /\ ~(t = "monitor" /\ pc[t] = "umountScript")
    BY <1>2, <1>8, <2>1
  <2>3. CASE \E i \in 1..Len(socket) : socket[i] = "remove"
    BY <1>2, <2>3
  <2>4. CASE pc["monitor"] \in Umounting /\ t = "power"
    <3>1. pc'["monitor"] = pc["monitor"]
      BY <1>1, <2>4 DEF Script, ScriptCall, Mount, MountReturns, RunMount, SetMounted, Umount,
                        UmountLock, RunUmount, ClearMounted, Goto
    <3>2. QED
      BY <2>4, <3>1
  <2>5. CASE pc["monitor"] \in Umounting /\ t = "monitor"
    <3>1. pc["power"] \notin Calls
      BY <2>2, <2>5 DEF FlagInv, Umounting, Calls
    <3>2. CASE Umount(t)
      <4>1. isMounted
        BY <2>2, <2>5, <3>1, <3>2 DEF FlagInv, Umount, Calls
      <4>2. pc'["monitor"] = "umountLock"
        BY <1>1, <2>5, <3>2, <4>1 DEF Umount, Goto
      <4>3. QED
        BY <4>2 DEF Umounting
    <3>3. CASE UmountLock(t)
      <4>1. pc'["monitor"] = "umountScript"
        BY <1>1, <2>5, <3>3 DEF UmountLock, Goto
      <4>2. QED
        BY <4>1 DEF Umounting
    <3>4. CASE ClearMounted(t)
      BY <2>2, <2>5, <3>4 DEF ClearMounted, FlagInv
    <3>5. QED
      BY <2>2, <2>5, <3>2, <3>3, <3>4 DEF Script, ScriptCall, Mount, RunMount, SetMounted, RunUmount,
                                          Umounting
  <2>6. QED
    BY <2>2, <2>3, <2>4, <2>5
<1>9. QED
  BY <1>6, <1>7, <1>8

LEMMA HereStep ==
  TypeOK /\ FlagInv /\ SlotInv /\ HereInv /\ [ServiceNext]_allVars => HereInv'
<1> SUFFICES ASSUME TypeOK, FlagInv, SlotInv, HereInv, [ServiceNext]_allVars PROVE HereInv'
  OBVIOUS
<1> USE DEF HereInv, Threads
<1>1. /\ pc \in [Threads -> OwnPlaces \cup Calls \cup {"loop"}]
      /\ socket \in Seq(Kinds)
  BY DEF TypeOK, Kinds
<1>2. CASE Card
  <2>1. ASSUME NEW e \in {"add", "remove"}, SwapCard(e) PROVE HereInv'
    <3>1. /\ here' = FALSE /\ inserted' = (e = "add") /\ inserted # inserted'
          /\ UNCHANGED <<mounted, pc, overlapped, byPower, clings>>
      BY <2>1 DEF SwapCard, Swap
    <3>2. here => e = "remove"
      BY <3>1
    <3>3. ASSUME ~missed', mounted, ~byPower
          PROVE  socket' = Append(socket, e) /\ missed' = missed
      BY <2>1, <3>3 DEF SwapCard, Swap
    <3>4. ASSUME ~overlapped', ~missed', ~byPower', ~clings', mounted'
          PROVE  \/ pc'["monitor"] \in Umounting
                 \/ \E i \in 1..Len(socket') : socket'[i] = "remove"
      <4>1. /\ socket' = Append(socket, e) /\ ~missed
            /\ ~overlapped /\ ~byPower /\ ~clings /\ mounted
        BY <3>1, <3>3, <3>4
      <4>2. /\ Len(socket') = Len(socket) + 1 /\ socket'[Len(socket) + 1] = e
            /\ Len(socket) \in Nat /\ \A i \in 1..Len(socket) : socket'[i] = socket[i]
        BY <1>1, <4>1 DEF Kinds
      <4>3. CASE e = "remove"
        BY <4>2, <4>3
      <4>4. CASE ~here /\ pc["monitor"] \in Umounting
        BY <3>1, <4>4
      <4>5. CASE ~here /\ \E i \in 1..Len(socket) : socket[i] = "remove"
        BY <4>2, <4>5
      <4>6. QED
        BY <3>2, <4>1, <4>3, <4>4, <4>5
    <3>5. QED
      BY <3>1, <3>4
  <2>2. ASSUME NEW call \in {"mount", "umount"}, Power(call) PROVE HereInv'
    <3>1. UNCHANGED <<here, mounted, inserted, fsSize, size, byPower, clings, missed, socket>>
      BY <2>2 DEF Power, PowerEvent, slotVars
    <3>2. pc'["monitor"] = pc["monitor"]
      BY <1>1, <2>2 DEF Power, PowerEvent, Enter, Goto
    <3>3. ~overlapped' => ~overlapped
      BY <2>2, Zenon DEF Power, PowerEvent, Enter
    <3>4. QED
      BY <3>1, <3>2, <3>3
  <2>3. ASSUME NEW t \in Threads, Script(t) PROVE HereInv'
    BY <2>3, HereCall
  <2>4. CASE Measure
    <3>1. /\ UNCHANGED <<here, mounted, inserted, fsSize, size, byPower, clings, missed, socket>>
          /\ overlapped' = overlapped /\ pc["monitor"] = "mountDone"
      BY <2>4 DEF Measure, MountDone, slotVars
    <3>2. pc'["monitor"] # "check"
      BY <1>1, <2>4 DEF Measure, MountDone, Goto, AfterAdd
    <3>3. QED
      BY <3>1, <3>2 DEF Umounting
  <2>5. CASE Unmeasured
    <3>1. UNCHANGED <<here, mounted, inserted, fsSize, size, byPower, clings, missed>>
      BY <2>5 DEF Unmeasured, serviceVars, sizeVars, CheckSlot, ReadCid, Qualify, StartMonitor,
                  ReceiveAdd, ReceiveRemove, slotVars
    <3>2. CASE CheckSlot
      BY <1>1, <3>1, <3>2 DEF CheckSlot, Goto, slotVars, Umounting
    <3>3. CASE ReadCid
      BY <1>1, <3>1, <3>3 DEF ReadCid, Goto, slotVars, Umounting
    <3>4. CASE Qualify
      <4>1. socket' = socket /\ pc["monitor"] = "qualify" /\ pc'["monitor"] # "check"
        BY <1>1, <3>4 DEF Qualify, Enter, Goto, AfterAdd, slotVars
      <4>2. ~overlapped' => ~overlapped
        BY <3>4, Zenon DEF Qualify, Enter
      <4>3. QED
        BY <3>1, <4>1, <4>2 DEF Umounting
    <3>5. CASE StartMonitor
      BY <1>1, <3>1, <3>5 DEF StartMonitor, Goto, Umounting
    <3>6. CASE ReceiveAdd
      <4>1. /\ pc["monitor"] = "loop" /\ pc'["monitor"] # "check" /\ overlapped' = overlapped
            /\ socket # <<>> /\ Head(socket) = "add" /\ socket' = Tail(socket)
        BY <1>1, <3>6 DEF ReceiveAdd, Goto
      <4>2. /\ Len(socket) \in Nat /\ Len(socket') = Len(socket) - 1 /\ socket[1] = "add"
            /\ \A i \in 1..Len(socket') : socket'[i] = socket[i + 1]
        BY <1>1, <4>1
      <4>3. ASSUME NEW i \in 1..Len(socket), socket[i] = "remove"
            PROVE  \E k \in 1..Len(socket') : socket'[k] = "remove"
        <5>1. i - 1 \in 1..Len(socket') /\ (i - 1) + 1 = i
          BY <4>2, <4>3
        <5>2. QED
          BY <4>2, <4>3, <5>1
      <4>4. QED
        BY <3>1, <4>1, <4>3 DEF Umounting
    <3>7. CASE ReceiveRemove
      <4>1. /\ pc["monitor"] = "loop" /\ socket # <<>> /\ Head(socket) = "remove"
        BY <3>7 DEF ReceiveRemove
      <4>2. ~missed => present
        <5>1. socket[1] = "remove"
          BY <1>1, <4>1
        <5>2. QED
          BY <4>1, <5>1 DEF SlotInv, Leads, EventOf, Believed
      <4>3. present => pc'["monitor"] = "umount"
        BY <1>1, <3>7 DEF ReceiveRemove, Enter, Goto
      <4>4. ~present => pc' = pc
        BY <3>7 DEF ReceiveRemove
      <4>5. QED
        BY <3>1, <4>1, <4>2, <4>3, <4>4 DEF Umounting
    <3>8. QED
      BY <2>5, <3>2, <3>3, <3>4, <3>5, <3>6, <3>7 DEF Unmeasured
  <2>6. QED
    BY <1>2, <2>1, <2>2, <2>3, <2>4, <2>5 DEF Card
<1>3. CASE Rpc
  BY <1>3 DEF Rpc, Begin, ReadFlag, GetTSBMaxMinutes, SetTSBMaxMinutes, Serve,
              vars, slotVars, sizeVars
<1>4. CASE UNCHANGED allVars
  BY <1>4 DEF allVars, vars, slotVars, serviceVars, sizeVars
<1>5. QED
  BY <1>2, <1>3, <1>4 DEF ServiceNext

-----------------------------------------------------------------------------
\* What was proved of the card on its own, and what follows for the offer.
GrantInv == TypeOK /\ GoodInv /\ FlagInv /\ SlotInv /\ OfferInv /\ HereInv

LEMMA GrantInit == ServiceInit => GrantInv
<1> SUFFICES ASSUME ServiceInit PROVE GrantInv
  OBVIOUS
<1>1. Init
  BY DEF ServiceInit
<1>2. TypeOK
  BY <1>1, InitTyped
<1>3. GoodInv /\ FlagInv /\ SlotInv
  BY <1>1 DEF Init, GoodInv, FlagInv, SlotInv, Threads, Calls, Umounting, Mounting
<1>4. OfferInv /\ HereInv
  BY <1>1 DEF ServiceInit, Init, OfferInv, CapacityInv, PathInv, HereInv
<1>5. QED
  BY <1>2, <1>3, <1>4 DEF GrantInv

LEMMA GrantStep == GrantInv /\ [ServiceNext]_allVars => GrantInv'
<1> SUFFICES ASSUME GrantInv, [ServiceNext]_allVars PROVE GrantInv'
  OBVIOUS
<1> USE DEF GrantInv
<1>1. [Next]_vars
  BY CardOrNot
<1>2. TypeOK' /\ GoodInv' /\ FlagInv' /\ SlotInv'
  BY <1>1, TypeStep, GoodStep, FlagStep, SlotStep
<1>3. OfferInv' /\ HereInv'
  BY OfferStep, HereStep
<1>4. QED
  BY <1>2, <1>3

(* When nothing is under way, a card that getDeviceInfo calls functioning  *)
(* and that is on offer, or ready, is told with the capacity of the card   *)
(* in the slot, and getMountPath gives a path that leads to it, unless a   *)
(* card before it could not be unmounted or the power handler was the last *)
(* to mount or unmount.                                                    *)
THEOREM GrantsHold == ServiceSpec => []GrantsAreTrue
<1>1. ASSUME GrantInv, Settled, mounted, ~clings, ~byPower PROVE here
  <2>1. pc["monitor"] = "loop" /\ Len(socket) = 0 /\ ~overlapped /\ ~missed
    BY <1>1 DEF Settled, Quiet, Threads
  <2>2. QED
    BY <1>1, <2>1 DEF GrantInv, HereInv, Umounting
<1>2. GrantInv => OkIsMeasured
  <2> SUFFICES ASSUME GrantInv, Settled, ~clings, ~byPower,
                      Grants("getTSBStatus") \/ Grants("getSDCardStatus"), DeviceInfoStatus = "OK"
               PROVE  capacity = size
    BY DEF OkIsMeasured
  <2>1. pc["monitor"] = "loop" /\ pc["power"] = "loop" /\ ~overlapped
    BY DEF Settled, Quiet, Threads
  <2>2. mounted
    <3>1. isMounted
      BY DEF DeviceInfoStatus
    <3>2. isMounted <=> mounted
      BY <2>1 DEF GrantInv, FlagInv, Threads
    <3>3. QED
      BY <3>1, <3>2
  <2>3. present /\ tsb
    <3>1. CASE Grants("getTSBStatus")
      <4>1. Flag("present") /\ Flag("tsb")
        BY <3>1 DEF Grants, Asks
      <4>2. QED
        BY <4>1 DEF Flag
    <3>2. CASE Grants("getSDCardStatus")
      <4>1. ready
        <5>1. Flag("ready")
          BY <3>2 DEF Grants, Asks
        <5>2. QED
          BY <5>1 DEF Flag
      <4>2. QED
        BY <4>1 DEF GrantInv, GoodInv
    <3>3. QED
      BY <3>1, <3>2
  <2>4. capacity = fsSize
    BY <2>1, <2>2, <2>3 DEF GrantInv, OfferInv, CapacityInv
  <2>5. fsSize = size
    BY <1>1, <2>2 DEF GrantInv, HereInv
  <2>6. QED
    BY <2>4, <2>5
<1>3. GrantInv => PathIsMounted
  <2> SUFFICES ASSUME GrantInv, Settled, ~clings, Grants("getMountPath"), ~byPower
               PROVE  mounted /\ here
    BY DEF PathIsMounted
  <2>1. pc["monitor"] = "loop" /\ pc["power"] = "loop" /\ ~overlapped
    BY DEF Settled, Quiet, Threads
  <2>2. isMounted => mounted
    BY <2>1 DEF GrantInv, FlagInv, Threads
  <2>3. tsb /\ (present \/ isMounted)
    <3>1. Flag("presentOrMounted") /\ Flag("tsb")
      BY DEF Grants, Asks
    <3>2. QED
      BY <3>1 DEF Flag
  <2>4. mounted
    BY <2>1, <2>2, <2>3 DEF GrantInv, OfferInv, PathInv
  <2>5. QED
    BY <1>1, <2>4
<1>4. GrantInv => GrantsAreTrue
  BY <1>2, <1>3 DEF GrantsAreTrue
<1>5. QED
  BY <1>4, GrantInit, GrantStep, PTL DEF ServiceSpec, allVars

-----------------------------------------------------------------------------
(* The length.                                                             *)

\* Nothing is known before the first card was measured; after that every
\* length goes back to the capacity or the configuration.
LengthInv ==
  /\ measured = {} => capacity = 0 /\ actualTsbMaxMin = 0
                      /\ (tsbMaxMin_InitFlag => tsbMaxMinute = 0)
  /\ measured # {} => capacity \in measured
  /\ \A c \in measured : measured = {c} =>
       /\ actualTsbMaxMin <= c \/ actualTsbMaxMin <= ConfMax
       /\ tsbMaxMin_InitFlag => tsbMaxMinute <= c \/ tsbMaxMinute <= ConfMax

LEMMA LengthStep ==
  ServiceTypeOK /\ LengthInv /\ [ServiceNext]_allVars => LengthInv'
<1> SUFFICES ASSUME ServiceTypeOK, LengthInv, [ServiceNext]_allVars PROVE LengthInv'
  OBVIOUS
<1> USE DEF LengthInv
<1>1. /\ capacity \in Nat /\ measured \subseteq Nat /\ fsSize \in Nat
      /\ actualTsbMaxMin \in Nat /\ tsbMaxMinute \in Nat /\ ConfMax \in Nat
  BY LegacyServiceAssumption DEF ServiceTypeOK, Lengths
<1>2. CASE Card
  <2>1. UNCHANGED <<actualTsbMaxMin, tsbMaxMinute, tsbMaxMin_InitFlag>>
    BY <1>2 DEF Card, SwapCard, Power, Script, Measure, Unmeasured, serviceVars, lengthVars
  <2>2. \/ UNCHANGED <<capacity, measured>>
        \/ capacity' = fsSize /\ measured' = measured \cup {fsSize}
    BY <1>2 DEF Card, SwapCard, Power, Script, Measure, Unmeasured, serviceVars, sizeVars
  <2>3. CASE UNCHANGED <<capacity, measured>>
    BY <2>1, <2>3
  <2>4. CASE capacity' = fsSize /\ measured' = measured \cup {fsSize}
    <3>1. CASE measured = {}
      BY <1>1, <2>1, <2>4, <3>1
    <3>2. CASE measured # {}
      <4>1. ASSUME NEW c \in measured', measured' = {c} PROVE measured = {c}
        BY <2>4, <3>2, <4>1
      <4>2. QED
        BY <2>1, <2>4, <4>1
    <3>3. QED
      BY <3>1, <3>2
  <2>5. QED
    BY <2>2, <2>3, <2>4
<1>3. CASE Rpc
  <2>1. UNCHANGED <<capacity, measured>>
    BY <1>3 DEF Rpc, Begin, ReadFlag, GetTSBMaxMinutes, SetTSBMaxMinutes, Serve, sizeVars
  <2>2. CASE UNCHANGED lengthVars
    BY <2>1, <2>2 DEF lengthVars
  <2>3. CASE GetTSBMaxMinutes
    <3>1. UNCHANGED <<tsbMaxMinute, tsbMaxMin_InitFlag>>
      BY <2>3 DEF GetTSBMaxMinutes
    <3>2. \/ actualTsbMaxMin' = actualTsbMaxMin
          \/ capacity # 0 /\ (actualTsbMaxMin' = Minutes(capacity) \/ actualTsbMaxMin' = ConfMax)
      BY <1>1, <2>3, Wrapped, LimitedFits DEF GetTSBMaxMinutes
    <3>3. ASSUME NEW c \in measured, measured = {c}
          PROVE  actualTsbMaxMin' <= c \/ actualTsbMaxMin' <= ConfMax
      BY <1>1, <3>2, <3>3, Wrapped
    <3>4. QED
      BY <2>1, <3>1, <3>2, <3>3
  <2>4. CASE SetTSBMaxMinutes
    <3>1. actualTsbMaxMin' = actualTsbMaxMin \/ actualTsbMaxMin' = Minutes(capacity)
      BY <2>4 DEF SetTSBMaxMinutes
    <3>2. actualTsbMaxMin' \in Nat /\ (measured = {} => actualTsbMaxMin' = 0)
      BY <1>1, <3>1, Wrapped DEF Lengths
    <3>3. ASSUME NEW c \in measured, measured = {c}
          PROVE  actualTsbMaxMin' <= c \/ actualTsbMaxMin' <= ConfMax
      BY <1>1, <3>1, <3>3, Wrapped
    <3>4. CASE rpc.arg <= actualTsbMaxMin' /\ tsbMaxMinute' = rpc.arg
      <4>1. rpc.arg \in Nat
        BY <2>4 DEF SetTSBMaxMinutes, Serve, ServiceTypeOK
      <4>2. QED
        BY <1>1, <2>1, <3>2, <3>3, <3>4, <4>1
    <3>5. CASE tsbMaxMinute' = actualTsbMaxMin'
      BY <2>1, <3>2, <3>3, <3>5
    <3>6. QED
      BY <2>4, <3>4, <3>5 DEF SetTSBMaxMinutes
  <2>5. QED
    BY <1>3, <2>2, <2>3, <2>4 DEF Rpc, Begin, ReadFlag
<1>4. CASE UNCHANGED allVars
  BY <1>4 DEF allVars, serviceVars, sizeVars, lengthVars
<1>5. QED
  BY <1>2, <1>3, <1>4 DEF ServiceNext

(* A length that counts as set fits the cards, if they are all of one      *)
(* capacity, or the configuration, whatever the width of the counter.      *)
THEOREM LengthIsRight == ServiceSpec => []LengthFits
<1>1. ServiceInit => LengthInv
  BY DEF ServiceInit, LengthInv
<1>2. LengthInv => LengthFits
  BY DEF LengthInv, LengthFits
<1>3. QED
  BY <1>1, <1>2, LengthStep, ServiceTypeCorrect, PTL DEF ServiceSpec, allVars
=============================================================================
