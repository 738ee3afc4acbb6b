----------------------------- MODULE LegacyCard -----------------------------
(***************************************************************************)
(* The first generation of the daemon (src/), built with USE_DISK_CHECK:   *)
(* one slot for an SD card, the udev monitor thread that qualifies, mounts *)
(* and unmounts what is in it (utils/src/udevUtils.cpp), the handler of    *)
(* power events, which mounts and unmounts it too (rpc/src/storageMgr.cpp) *)
(* and the two script calls they share (utils/src/sdCardReader.cpp).  What *)
(* they leave in global flags is what every RPC answers from.              *)
(*                                                                         *)
(* The scripts do as mount(8) and umount(8) do: a mount fails if something *)
(* is mounted there already, an unmount if nothing is; either may fail     *)
(* otherwise, and a card that is pulled stays mounted.                     *)
(***************************************************************************)
EXTENDS Naturals, Sequences

CONSTANTS
  SocketSize,   \* the events the netlink socket holds
  None          \* nobody

ASSUME LegacyCardAssumption == SocketSize \in Nat /\ None \notin {"monitor", "power"}

VARIABLES
  inserted,    \* a card is in the slot
  mounted,     \* a file system is mounted at the card's mount path
  socket,      \* "add" and "remove" events, oldest first
  missed,      \* an event was lost after the first look at the slot
  pc,          \* where each thread stands; at "loop" it has nothing to do
  listening,   \* the udev monitor receives
  lock,        \* who owns mountLock
  isMounted,
  present,     \* sSDCardPresent
  tsb,         \* sIsTSBSupported
  ready,       \* sdCardReadyStatus
  status,      \* gdeviceInfo.status
  ok,          \* what the mount script call returned to the monitor thread
  overlapped   \* the threads were in the script calls at the same time once

slotVars == <<inserted, socket, missed, listening>>
cardVars == <<present, tsb, ready, status>>
vars == <<slotVars, mounted, pc, lock, isMounted, cardVars, ok, overlapped>>

Threads  == {"monitor", "power"}
Statuses == {"OK", "READY", "READ_ONLY", "NOT_QUALIFIED", "NOT_PRESENT"}
Calls    == {"mount", "mountScript", "mountFlag",
             "umount", "umountLock", "umountScript", "umountFlag"}

\* Where the monitor thread is in a handler and in no script call.
OwnPlaces == {"check", "readCid", "qualify", "startMonitor", "mountDone"}

TypeOK ==
  /\ {inserted, mounted, missed, listening, isMounted} \subseteq BOOLEAN
  /\ {present, tsb, ready, ok, overlapped} \subseteq BOOLEAN
  /\ socket \in Seq({"add", "remove"}) /\ Len(socket) <= SocketSize
  /\ pc \in [Threads -> OwnPlaces \cup Calls \cup {"loop"}]
  /\ lock \in Threads \cup {None}
  /\ status \in Statuses

\* Globals start as zeros, and zero is SM_DEV_STATUS_OK.
Init ==
  /\ inserted \in BOOLEAN /\ mounted = FALSE
  /\ socket = <<>> /\ missed = FALSE /\ listening = FALSE
  /\ pc = [t \in Threads |-> IF t = "monitor" THEN "check" ELSE "loop"]
  /\ lock = None /\ isMounted = FALSE
  /\ present = FALSE /\ tsb = FALSE /\ ready = FALSE /\ status = "OK"
  /\ ok = FALSE /\ overlapped = FALSE

Goto(t, l) == pc' = [pc EXCEPT ![t] = l]

-----------------------------------------------------------------------------
\* The slot.  An event finds the monitor listening with room in its socket,
\* or is lost.
Swap(e) ==
  /\ inserted' = (e = "add")
  /\ inserted # inserted'
  /\ IF listening /\ Len(socket) < SocketSize
     THEN socket' = Append(socket, e) /\ UNCHANGED missed
     ELSE missed' = (missed \/ pc["monitor"] # "check") /\ UNCHANGED socket
  /\ UNCHANGED <<listening, mounted, pc, lock, isMounted, cardVars, ok, overlapped>>

-----------------------------------------------------------------------------
(* execute_Mount_Script and execute_Umount_Script.                         *)

\* Thread t enters a script call; the history variable notes whether it is alone.
Enter(t, call) ==
  /\ Goto(t, call)
  /\ overlapped' = (overlapped \/ \E u \in Threads \ {t} : pc[u] \in Calls)

\* Where the caller goes on after mounting; only the monitor uses the result.
MountReturns(t, r) ==
  /\ Goto(t, IF t = "monitor" THEN "mountDone" ELSE "loop")
  /\ ok' = IF t = "monitor" THEN r ELSE ok

Mount(t) ==
  /\ pc[t] = "mount"
  /\ lock = None
  /\ IF isMounted THEN MountReturns(t, TRUE) /\ UNCHANGED lock
     ELSE Goto(t, "mountScript") /\ lock' = t /\ UNCHANGED ok
  /\ UNCHANGED <<slotVars, mounted, isMounted, cardVars, overlapped>>

\* The script is run and the lock given back.
RunMount(t) ==
  /\ pc[t] = "mountScript"
  /\ \/ inserted /\ ~mounted /\ mounted' = TRUE /\ Goto(t, "mountFlag") /\ UNCHANGED ok
     \/ MountReturns(t, FALSE) /\ UNCHANGED mounted
  /\ lock' = None
  /\ UNCHANGED <<slotVars, isMounted, cardVars, overlapped>>

\* The flag is set when the lock is free again.
SetMounted(t) ==
  /\ pc[t] = "mountFlag"
  /\ isMounted' = TRUE
  /\ MountReturns(t, TRUE)
  /\ UNCHANGED <<slotVars, mounted, lock, cardVars, overlapped>>

\* Here the flag is read before the lock is taken.
Umount(t) ==
  /\ pc[t] = "umount"
  /\ Goto(t, IF isMounted THEN "umountLock" ELSE "loop")
  /\ UNCHANGED <<slotVars, mounted, lock, isMounted, cardVars, ok, overlapped>>

\* Fault of UmountLock: no lock.
UmountLock_NoLock(t) ==
  /\ pc[t] = "umountLock"
  /\ Goto(t, "umountScript")
  /\ UNCHANGED <<slotVars, mounted, lock, isMounted, cardVars, ok, overlapped>>

UmountLock(t) ==
  /\ pc[t] = "umountLock"
  /\ lock = None
  /\ lock' = t
  /\ Goto(t, "umountScript")
  /\ UNCHANGED <<slotVars, mounted, isMounted, cardVars, ok, overlapped>>

\* Faults of RunUmount: an early return with the lock, and a flag that is
\* cleared whatever the script returned.
RunUmount_KeepLock(t) ==
  /\ pc[t] = "umountScript"
  /\ \/ mounted /\ mounted' = FALSE /\ Goto(t, "umountFlag") /\ lock' = None
     \/ Goto(t, "loop") /\ UNCHANGED <<mounted, lock>>
  /\ UNCHANGED <<slotVars, isMounted, cardVars, ok, overlapped>>

RunUmount_IgnoreResult(t) ==
  /\ pc[t] = "umountScript"
  /\ mounted' \in {FALSE, mounted}
  /\ Goto(t, "umountFlag")
  /\ lock' = None
  /\ UNCHANGED <<slotVars, isMounted, cardVars, ok, overlapped>>

RunUmount(t) ==
  /\ pc[t] = "umountScript"
  /\ \/ mounted /\ mounted' = FALSE /\ Goto(t, "umountFlag")
     \/ Goto(t, "loop") /\ UNCHANGED mounted
  /\ lock' = None
  /\ UNCHANGED <<slotVars, isMounted, cardVars, ok, overlapped>>

ClearMounted(t) ==
  /\ pc[t] = "umountFlag"
  /\ isMounted' = FALSE
  /\ Goto(t, "loop")
  /\ UNCHANGED <<slotVars, mounted, lock, cardVars, ok, overlapped>>

-----------------------------------------------------------------------------
(* stMgr_Udev_Monitor, and before it waits for events what it does first.  *)

AfterAdd == IF listening THEN "loop" ELSE "startMonitor"

CheckSlot ==
  /\ pc["monitor"] = "check"
  /\ present' = inserted
  /\ Goto("monitor", IF inserted THEN "qualify" ELSE "startMonitor")
  /\ UNCHANGED <<slotVars, mounted, lock, isMounted, tsb, ready, status, ok, overlapped>>

\* The card's CID is read and the card taken note of, before anything is known
\* of what it is good for; the flags of the last one still stand.
ReadCid ==
  /\ pc["monitor"] = "readCid"
  /\ present' = TRUE
  /\ Goto("monitor", "qualify")
  /\ UNCHANGED <<slotVars, mounted, lock, isMounted, tsb, ready, status, ok, overlapped>>

\* Fault of Qualify: what cannot be read of the card is read again.
Qualify_Again ==
  /\ pc["monitor"] = "qualify"
  /\ inserted
  /\ \/ /\ tsb' = FALSE
        /\ status' = "NOT_QUALIFIED"
        /\ Goto("monitor", AfterAdd)
        /\ UNCHANGED overlapped
     \/ /\ tsb' = TRUE
        /\ Enter("monitor", "mount")
        /\ UNCHANGED status
  /\ UNCHANGED <<slotVars, mounted, lock, isMounted, present, ready, ok>>

\* A card whose CID cannot be read, one that is not qualified for a TSB, and
\* one that is.  None of it needs the card to be there still.
Qualify ==
  /\ pc["monitor"] = "qualify"
  /\ \/ /\ tsb' = FALSE
        /\ status' \in {status, "NOT_QUALIFIED"}
        /\ Goto("monitor", AfterAdd)
        /\ UNCHANGED overlapped
     \/ /\ tsb' = TRUE
        /\ Enter("monitor", "mount")
        /\ UNCHANGED status
  /\ UNCHANGED <<slotVars, mounted, lock, isMounted, present, ready, ok>>

\* Fault of MountDone: a failed mount leaves the TSB supported.
MountDone_KeepTSB ==
  /\ pc["monitor"] = "mountDone"
  /\ \/ /\ ok
        /\ tsb' = FALSE
        /\ status' = "READ_ONLY"
        /\ ready' = (ready /\ ~listening)
     \/ /\ ok
        /\ status' = IF listening THEN "OK" ELSE "READY"
        /\ ready' = TRUE
        /\ UNCHANGED tsb
     \/ ~ok /\ UNCHANGED <<tsb, ready, status>>
  /\ Goto("monitor", AfterAdd)
  /\ UNCHANGED <<slotVars, mounted, lock, isMounted, present, ok, overlapped>>

\* The file system may be read-only.
MountDone ==
  /\ pc["monitor"] = "mountDone"
  /\ \/ /\ ok
        /\ tsb' = FALSE
        /\ status' = "READ_ONLY"
        /\ ready' = (ready /\ ~listening)
     \/ /\ ok
        /\ status' = IF listening THEN "OK" ELSE "READY"
        /\ ready' = TRUE
        /\ UNCHANGED tsb
     \/ ~ok /\ tsb' = FALSE /\ UNCHANGED <<ready, status>>
  /\ Goto("monitor", AfterAdd)
  /\ UNCHANGED <<slotVars, mounted, lock, isMounted, present, ok, overlapped>>

StartMonitor ==
  /\ pc["monitor"] = "startMonitor"
  /\ listening' = TRUE
  /\ Goto("monitor", "loop")
  /\ UNCHANGED <<inserted, socket, missed, mounted, lock, isMounted, cardVars, ok, overlapped>>

ReceiveAdd ==
  /\ pc["monitor"] = "loop"
  /\ socket # <<>> /\ Head(socket) = "add"
  /\ socket' = Tail(socket)
  /\ Goto("monitor", IF present THEN "loop" ELSE "readCid")
  /\ UNCHANGED <<inserted, missed, listening, mounted, lock, isMounted, cardVars, ok, overlapped>>

\* Faults of ReceiveRemove: only a card that was mounted is taken to leave,
\* and a status no one has heard of.
ReceiveRemove_IfMounted ==
  /\ pc["monitor"] = "loop"
  /\ socket # <<>> /\ Head(socket) = "remove"
  /\ socket' = Tail(socket)
  /\ IF isMounted
     THEN /\ present' = FALSE /\ status' = "NOT_PRESENT" /\ ready' = FALSE
          /\ Enter("monitor", "umount")
     ELSE UNCHANGED <<pc, present, status, ready, overlapped>>
  /\ UNCHANGED <<inserted, missed, listening, mounted, lock, isMounted, tsb, ok>>

ReceiveRemove_Unknown ==
  /\ pc["monitor"] = "loop"
  /\ socket # <<>> /\ Head(socket) = "remove"
  /\ socket' = Tail(socket)
  /\ IF present
     THEN /\ present' = FALSE /\ status' = "UNKNOWN" /\ ready' = FALSE
          /\ Enter("monitor", "umount")
     ELSE UNCHANGED <<pc, present, status, ready, overlapped>>
  /\ UNCHANGED <<inserted, missed, listening, mounted, lock, isMounted, tsb, ok>>

ReceiveRemove ==
  /\ pc["monitor"] = "loop"
  /\ socket # <<>> /\ Head(socket) = "remove"
  /\ socket' = Tail(socket)
  /\ IF present
     THEN /\ present' = FALSE /\ status' = "NOT_PRESENT" /\ ready' = FALSE
          /\ Enter("monitor", "umount")
     ELSE UNCHANGED <<pc, present, status, ready, overlapped>>
  /\ UNCHANGED <<inserted, missed, listening, mounted, lock, isMounted, tsb, ok>>

\* _eventHandler: the box is switched off, or sent to deep sleep, and on.
PowerEvent(call) ==
  /\ pc["power"] = "loop"
  /\ Enter("power", call)
  /\ UNCHANGED <<slotVars, mounted, lock, isMounted, cardVars, ok>>

-----------------------------------------------------------------------------
ScriptCall(t) ==
  \/ Mount(t) \/ RunMount(t) \/ SetMounted(t)
  \/ Umount(t) \/ UmountLock(t) \/ RunUmount(t) \/ ClearMounted(t)

MonitorStep ==
  CheckSlot \/ ReadCid \/ Qualify \/ MountDone \/ StartMonitor \/ ReceiveAdd \/ ReceiveRemove

Next ==
  \/ \E e \in {"add", "remove"} : Swap(e)
  \/ \E call \in {"mount", "umount"} : PowerEvent(call)
  \/ MonitorStep
  \/ \E t \in Threads : ScriptCall(t)

Spec == Init /\ [][Next]_vars

(* Both threads run, the scripts end, and a thread that waits for the lock *)
(* does not lose it to the other for ever.                                 *)
FairTo(t) == WF_vars(ScriptCall(t)) /\ SF_vars(Mount(t)) /\ SF_vars(UmountLock(t))

FairCalls == \A t \in Threads : FairTo(t)

FairSpec == Spec /\ WF_vars(MonitorStep) /\ FairCalls

-----------------------------------------------------------------------------
\* Neither thread is in the middle of anything.
Quiet == \A t \in Threads : pc[t] = "loop"

(* The card's scripts never run side by side, though the flag that guards  *)
(* them is read and written outside the lock; and who waits for mountLock  *)
(* waits for a script of the other thread to end: no return of the script  *)
(* calls keeps the lock, and none takes it twice.                          *)
ScriptsTakeTurns ==
  LET Scripts == {"mountScript", "umountScript"}
  IN  /\ \A t, u \in Threads : {pc[t], pc[u]} \subseteq Scripts => t = u
      /\ \A t \in Threads :
           pc[t] \in {"mount", "umountLock"} /\ lock # None =>
             \E u \in Threads \ {t} : lock = u /\ pc[u] \in Scripts

(* A card that is offered for the TSB, or called ready, between two events *)
(* is present as a good one: getTSBStatus never returns the error of a     *)
(* mount that failed or of a card that left, and a ready card has a TSB.   *)
OfferedIsGood ==
  pc["monitor"] = "loop" /\ present =>
    /\ tsb \/ ready => status \in {"OK", "READY"}
    /\ ready => tsb

(* When every event has been handled the daemon knows whether there is a   *)
(* card, unless an event was lost, however the power came and went.        *)
PresenceFollowsSlot ==
  pc["monitor"] = "loop" /\ socket = <<>> /\ ~missed => (present <=> inserted)

(* isMounted is right in the end as long as the two threads have never     *)
(* been in the script calls at the same time.                              *)
MountedUnlessOverlapped == Quiet /\ ~overlapped => (isMounted <=> mounted)

\* The part of it in the script calls, of either thread.
CallWaitsForTheLockOnly(t) ==
  /\ pc[t] \in Calls \ {"mount", "umountLock"} => ENABLED <<ScriptCall(t)>>_vars
  /\ pc[t] = "mount" /\ lock = None => ENABLED <<Mount(t)>>_vars
  /\ pc[t] = "umountLock" /\ lock = None => ENABLED <<UmountLock(t)>>_vars

(* A handler waits for mountLock and for nothing else: at every other      *)
(* place, and at the lock when it is free, the thread has a step to take,  *)
(* whatever has become of the card in the meantime.                        *)
HandlersWaitForTheLockOnly ==
  /\ pc["monitor"] \in OwnPlaces => ENABLED <<MonitorStep>>_vars
  /\ \A t \in Threads : CallWaitsForTheLockOnly(t)

(* Every power event, and every card, is dealt with in the end.            *)
Finishes(t) == pc[t] # "loop" ~> pc[t] = "loop"

HandlersFinish == \A t \in Threads : Finishes(t)

(* sdCardReader.cpp:690, of isSDCardMounted: "If mounted, then return      *)
(* true; else if not mounted then report as false".  With nothing going on *)
(* it does.                                                                *)
MountedIsReported == Quiet => (isMounted <=> mounted)
=============================================================================
