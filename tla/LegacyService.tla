---------------------------- MODULE LegacyService ----------------------------
(***************************************************************************)
(* The RPC handlers of the first generation (rpc/src/storageMgr.cpp) over  *)
(* the card of LegacyCard: a bus thread reads the card's flags one by one, *)
(* without a lock, while the other two threads change them, and then does  *)
(* what the call is for.  To the card this adds what the handlers tell of  *)
(* it: the capacity that is measured after a mount and kept until the next *)
(* one, and the length of the time-shift buffer.                           *)
(*                                                                         *)
(* Capacities are counted in minutes of recording at the configured rate.  *)
(* Of a handler that changes nothing there is what it asks, and what it    *)
(* tells when nothing happens meanwhile.                                   *)
(***************************************************************************)
EXTENDS LegacyCard

CONSTANTS
  Sizes,       \* the capacities of the cards there are
  Requests,    \* the lengths clients ask for
  ConfMax,     \* confProp.tsbMaxMin, 0 if it is not configured
  DefaultMax,  \* DEFULT_TSB_MAX_MINUTE
  UShort,      \* the number of values of an unsigned short
  Events       \* bound: the cards swapped and power events

ASSUME LegacyServiceAssumption ==
  /\ Sizes \subseteq Nat \ {0} /\ Sizes # {}
  /\ Requests \subseteq Nat
  /\ DefaultMax \in Nat /\ UShort \in Nat \ {0} /\ ConfMax \in 0..(UShort - 1)
  /\ Events \in Nat

VARIABLES
  size,        \* the capacity of the card that is or was last in the slot
  fsSize,      \* that of the file system that is or was last mounted
  capacity,    \* gdeviceInfo.capacity
  actualTsbMaxMin,
  tsbMaxMinute,
  tsbMaxMin_InitFlag,
  rpc,         \* the call in progress and the flags it has yet to read
  measured,    \* history: the capacities measured so far
  byPower,     \* history: the last script that worked was the power handler's
  here,        \* history: what is mounted is on the card that is in the slot
  clings,      \* history: the monitor failed to unmount what is mounted
  events       \* how many of the Events there were

lengthVars  == <<actualTsbMaxMin, tsbMaxMinute, tsbMaxMin_InitFlag>>
sizeVars    == <<size, fsSize, capacity, measured, byPower, here, clings, events>>
serviceVars == <<sizeVars, lengthVars, rpc>>

\* What a handler asks of the card before it does its work; the first flag
\* that is false ends it.
Asks ==
  [getTSBStatus     |-> <<"present", "tsb">>,
   getTSBMaxMinutes |-> <<"present", "tsb", "mounted">>,
   setTSBMaxMinutes |-> <<"present", "tsb">>,
   getSDCardStatus  |-> <<"present", "ready">>,
   getMountPath     |-> <<"presentOrMounted", "tsb">>]

\* The two that change something.
Made == {"getTSBMaxMinutes", "setTSBMaxMinutes"}

Flags == {"present", "tsb", "ready", "mounted", "presentOrMounted"}

Flag(f) ==
  CASE f = "present" -> present
    [] f = "tsb"     -> tsb
    [] f = "ready"   -> ready
    [] f = "mounted" -> isMounted
    [] f = "presentOrMounted" -> present \/ isMounted

\* The handler h does not refuse.
Grants(h) == \A i \in DOMAIN Asks[h] : Flag(Asks[h][i])

Lengths == 0..(UShort - 1)

ServiceTypeOK ==
  /\ size \in Sizes /\ fsSize \in Sizes
  /\ capacity \in Sizes \cup {0} /\ measured \subseteq Sizes
  /\ actualTsbMaxMin \in Lengths /\ tsbMaxMinute \in Lengths \cup {20}
  /\ tsbMaxMin_InitFlag \in BOOLEAN /\ byPower \in BOOLEAN
  /\ here \in BOOLEAN /\ clings \in BOOLEAN
  /\ rpc \in {None} \cup [call : Made, arg : Nat, left : Seq(Flags)]
  /\ events \in 0..Events

ServiceInit ==
  /\ Init
  /\ size \in Sizes /\ fsSize = size
  /\ capacity = 0 /\ measured = {}
  /\ actualTsbMaxMin = 0 /\ tsbMaxMinute = 20
  /\ tsbMaxMin_InitFlag = FALSE
  /\ rpc = None
  /\ byPower = FALSE /\ here = FALSE /\ clings = FALSE /\ events = 0

-----------------------------------------------------------------------------
(* What becomes of the card.                                               *)

SwapCard(e) ==
  /\ events < Events
  /\ Swap(e)
  /\ events' = events + 1
  /\ IF e = "add" THEN size' \in Sizes ELSE UNCHANGED size
  /\ here' = FALSE
  /\ UNCHANGED <<fsSize, capacity, measured, byPower, clings, lengthVars, rpc>>

Power(call) ==
  /\ events < Events
  /\ PowerEvent(call)
  /\ events' = events + 1
  /\ UNCHANGED <<size, fsSize, capacity, measured, byPower, here, clings, lengthVars, rpc>>

\* A mount that works finds the card that is in the slot.
Script(t) ==
  /\ ScriptCall(t)
  /\ fsSize' = IF mounted' /\ ~mounted THEN size ELSE fsSize
  /\ byPower' = IF mounted' = mounted THEN byPower ELSE t = "power"
  /\ here' = IF mounted' = mounted THEN here ELSE mounted'
  /\ clings' = (mounted' /\ (clings \/ (t = "monitor" /\ pc[t] = "umountScript")))
  /\ UNCHANGED <<size, capacity, measured, events, lengthVars, rpc>>

\* Fault of Measure: only the first card is measured.
Measure_Once ==
  /\ MountDone
  /\ IF ok /\ mounted /\ capacity = 0
     THEN capacity' = fsSize /\ measured' = measured \cup {fsSize}
     ELSE UNCHANGED <<capacity, measured>>
  /\ UNCHANGED <<size, fsSize, byPower, here, clings, events, lengthVars, rpc>>

\* get_SDCard_Properties_FromStatvfs looks the file system up in mtab, and
\* leaves everything as it was if it is not there.
Measure ==
  /\ MountDone
  /\ IF ok /\ mounted THEN capacity' = fsSize /\ measured' = measured \cup {fsSize}
     ELSE UNCHANGED <<capacity, measured>>
  /\ UNCHANGED <<size, fsSize, byPower, here, clings, events, lengthVars, rpc>>

Unmeasured ==
  /\ CheckSlot \/ ReadCid \/ Qualify \/ StartMonitor \/ ReceiveAdd \/ ReceiveRemove
  /\ UNCHANGED serviceVars

-----------------------------------------------------------------------------
(* The handlers.                                                           *)

Begin(h) ==
  /\ rpc = None
  /\ \E v \in (IF h = "setTSBMaxMinutes" THEN Requests ELSE {0}) :
       rpc' = [call |-> h, arg |-> v, left |-> Asks[h]]
  /\ UNCHANGED <<vars, sizeVars, lengthVars>>

ReadFlag ==
  /\ rpc # None /\ rpc.left # <<>>
  /\ rpc' = IF Flag(Head(rpc.left)) THEN [rpc EXCEPT !.left = Tail(@)] ELSE None
  /\ UNCHANGED <<vars, sizeVars, lengthVars>>

\* The last step of handler h.
Serve(h) ==
  /\ rpc # None /\ rpc.call = h /\ rpc.left = <<>>
  /\ rpc' = None
  /\ UNCHANGED <<vars, sizeVars>>

\* Fault of Minutes: as if its type were wide enough.
Minutes_Wide(c) == c

\* A capacity as a number of minutes of type unsigned short.  Bytes become
\* minutes through a product of type int, meant for rates below 35 Mbps,
\* from which on it overflows.
Minutes(c) == c % UShort

\* The configured length takes the place of one that is greater, and of every
\* one above the default.
Limited(n) ==
  IF ConfMax # 0 /\ (n > DefaultMax \/ n > ConfMax) THEN ConfMax ELSE n

\* getTSBMaxMinutes: what was set, or what follows from the capacity, which
\* it notes as the greatest length.
GetTSBMaxMinutes ==
  /\ Serve("getTSBMaxMinutes")
  /\ actualTsbMaxMin' = IF tsbMaxMin_InitFlag \/ capacity = 0 THEN actualTsbMaxMin
                        ELSE Limited(Minutes(capacity))
  /\ UNCHANGED <<tsbMaxMinute, tsbMaxMin_InitFlag>>

\* Fault of SetTSBMaxMinutes: the request is not compared with anything.
SetTSBMaxMinutes_Unchecked ==
  /\ Serve("setTSBMaxMinutes")
  /\ actualTsbMaxMin' = IF actualTsbMaxMin = 0 THEN Minutes(capacity) ELSE actualTsbMaxMin
  /\ tsbMaxMinute' = rpc.arg
  /\ tsbMaxMin_InitFlag' = TRUE

\* setTSBMaxMinutes: the greatest length is worked out if nobody has yet; a
\* request beyond it sets the length to it, and does not count as set.
SetTSBMaxMinutes ==
  /\ Serve("setTSBMaxMinutes")
  /\ actualTsbMaxMin' = IF actualTsbMaxMin = 0 THEN Minutes(capacity) ELSE actualTsbMaxMin
  /\ \/ /\ rpc.arg <= actualTsbMaxMin'
        /\ tsbMaxMinute' = rpc.arg
        /\ tsbMaxMin_InitFlag' = TRUE
     \/ /\ rpc.arg > actualTsbMaxMin'
        /\ tsbMaxMinute' = actualTsbMaxMin'
        /\ UNCHANGED tsbMaxMin_InitFlag

\* The status the getters of a status give.
Functioning == IF status = "READY" THEN "OK" ELSE status

DeviceInfoStatus == IF isMounted THEN Functioning ELSE "NOT_PRESENT"

-----------------------------------------------------------------------------
Card == \/ \E e \in {"add", "remove"} : SwapCard(e)
        \/ \E call \in {"mount", "umount"} : Power(call)
        \/ \E t \in Threads : Script(t)
        \/ Measure \/ Unmeasured

Rpc == (\E h \in Made : Begin(h)) \/ ReadFlag \/ GetTSBMaxMinutes \/ SetTSBMaxMinutes

ServiceNext == Card \/ Rpc

ServiceSpec == ServiceInit /\ [][ServiceNext]_<<vars, serviceVars>>

-----------------------------------------------------------------------------
(* A length that counts as set (setTSBMaxMinutes) fits every card there    *)
(* has been if they were all of one capacity, or the configuration,        *)
(* whichever is greater, however the calls that work out the greatest      *)
(* length and those that use it follow upon one another and upon a card.   *)
LengthFits ==
  tsbMaxMin_InitFlag =>
    \A c \in measured : measured = {c} => tsbMaxMinute <= c \/ tsbMaxMinute <= ConfMax

\* Nothing is under way: every swap of cards has been handled, none was lost.
Settled == Quiet /\ socket = <<>> /\ ~missed /\ ~overlapped

(* When getDeviceInfo calls a card functioning, and getTSBStatus offers it *)
(* or getSDCardStatus calls it ready, the capacity they and the length go  *)
(* by is that of the card in the slot, unless a card before it could not   *)
(* be unmounted or the power handler mounted this one.                     *)
OkIsMeasured ==
  /\ Settled /\ ~clings
  /\ Grants("getTSBStatus") \/ Grants("getSDCardStatus")
  /\ DeviceInfoStatus = "OK"
  => capacity = size \/ byPower

(* The path getMountPath gives leads to the card in the slot, unless a     *)
(* card before it could not be unmounted or the power handler was the last *)
(* to mount or unmount.                                                    *)
PathIsMounted ==
  Settled /\ ~clings /\ Grants("getMountPath") => (mounted /\ here) \/ byPower

(* What a handler grants when nothing is under way is true of the card     *)
(* that is in the slot: neither capacity nor path is that of a card that   *)
(* left or failed, with the two exceptions of a card that left and could   *)
(* not be unmounted, and of what the power handler did since.              *)
GrantsAreTrue == OkIsMeasured /\ PathIsMounted

=============================================================================
