---------------------------- MODULE StorageMain ----------------------------
(***************************************************************************)
(* rSTMgrMainClass of the refactored daemon                                *)
(* (refactored/mgr/rdkStorageMain.cpp): the device table, the mutex that   *)
(* guards it, and the threads that meet there.                             *)
(*                                                                         *)
(*   Hotplug  the thread that adds and removes devices.  It is the main    *)
(*            thread while rdkStorage_init enumerates and the udev monitor *)
(*            thread afterwards; the second is created when the first is   *)
(*            done, so there is one such caller at any time.               *)
(*   Workers  the health-monitor threads.  Each device that is added       *)
(*            cancels the current one and creates its successor.           *)
(*   Clients  the IARM threads on which the RPC handlers run.              *)
(*                                                                         *)
(* pthread_cancel is deferred: the target dies at its next cancellation    *)
(* point, with whatever it holds.  pthread_mutex_lock is not one; sleep    *)
(* is, and so is the I/O by which some media answer a health query.        *)
(***************************************************************************)
EXTENDS Naturals

CONSTANTS
  Paths,      \* device nodes, numbered in the order std::map keeps its keys
  Objects,    \* the rStorageMedia objects `new` can return, one per device
  TypeOf,     \* TypeOf[o]: the eSTMGRDeviceType object o is created for
  Clients,    \* the IARM threads
  Workers,    \* the thread identities pthread_create can return
  Hotplug,    \* the thread that adds and removes devices
  None        \* NULL: no thread, no object, no path

Threads == Clients \cup Workers \cup {Hotplug}

\* The types addNewMemoryDevice has a class for; it refuses the others
\* before it changes anything.
MediaTypes == {"NVRAM", "HDD", "SDCARD", "EMMCCARD"}

\* The media whose doDeviceHealthQuery does I/O (a sysfs read, smartctl
\* through popen), and those whose getHealth does (CMD56 to an SD card too).
QueryIO  == {"NVRAM", "HDD"}
HealthIO == {"NVRAM", "HDD", "SDCARD"}

ASSUME StorageMainAssumption ==
  /\ Paths \subseteq Nat
  /\ TypeOf \in [Objects -> MediaTypes]
  /\ Clients \cap Workers = {}
  /\ Hotplug \notin Clients \cup Workers
  /\ None \notin Threads \cup Paths \cup Objects
  /\ \A S \in SUBSET Objects : S # None

VARIABLES
  owner,      \* the thread that holds m_mainMutex, or None
  table,      \* m_storageDeviceObjects: table[p] is an object, or None
  heap,       \* heap[o]: "free" before `new`, "live", "deleted"
  hpc,        \* where the Hotplug thread stands
  hpath,      \* the device path it was called with
  hobj,       \* its pMemoryObj / pTemp
  tid,        \* stmgrHealthMonitorTID
  wpc,        \* wpc[w]: where health-monitor thread w stands
  wleft,      \* wleft[w]: the paths its loop over the table has yet to visit
  cancelled,  \* the threads pthread_cancel was called on
  cpc,        \* cpc[c]: where RPC thread c stands
  want,       \* want[c]: the devices its request enquires about
  cleft,      \* cleft[c]: the paths its loop over the table has yet to visit
  got,        \* got[c]: what it has found so far
  told        \* devices the event callback last heard of as present

hotplugVars == <<hpc, hpath, hobj, told>>
monitorVars == <<tid, wpc, wleft, cancelled>>
clientVars  == <<cpc, want, cleft, got>>
vars == <<owner, table, heap, hotplugVars, monitorVars, clientVars>>

HotplugPCs == {"idle", "addLock", "insert", "addUnlock", "cancel", "grace", "create",
               "announce", "delLock", "erase", "destroy", "delUnlock", "farewell"}
WorkerPCs  == {"unborn", "sleep", "queryLock", "query", "healthLock", "health", "dead"}
ClientPCs  == {"idle", "lock", "walk", "reply"}

\* getDeviceIds and getDeviceInfoList want every device, the enquiries that
\* take a device ID want that one.
Requests == {Objects} \cup {{o} : o \in Objects}

TypeOK ==
  /\ owner \in Threads \cup {None}
  /\ table \in [Paths -> Objects \cup {None}]
  /\ heap \in [Objects -> {"free", "live", "deleted"}]
  /\ hpc \in HotplugPCs
  /\ hpath \in Paths \cup {None}
  /\ hobj \in Objects \cup {None}
  /\ tid \in Workers \cup {None}
  /\ wpc \in [Workers -> WorkerPCs]
  /\ wleft \in [Workers -> SUBSET Paths]
  /\ cancelled \in SUBSET Workers
  /\ cpc \in [Clients -> ClientPCs]
  /\ want \in [Clients -> SUBSET Objects]
  /\ cleft \in [Clients -> SUBSET Paths]
  /\ got \in [Clients -> SUBSET Objects]
  /\ told \in SUBSET Objects

Init ==
  /\ owner = None
  /\ table = [p \in Paths |-> None]
  /\ heap = [o \in Objects |-> "free"]
  /\ hpc = "idle" /\ hpath = None /\ hobj = None /\ told = {}
  /\ tid = None
  /\ wpc = [w \in Workers |-> "unborn"]
  /\ wleft = [w \in Workers |-> {}]
  /\ cancelled = {}
  /\ cpc = [c \in Clients |-> "idle"]
  /\ want = [c \in Clients |-> {}]
  /\ cleft = [c \in Clients |-> {}]
  /\ got = [c \in Clients |-> {}]

-----------------------------------------------------------------------------
\* pthread_mutex_lock and pthread_mutex_unlock on m_mainMutex.
Acquire(t) == owner = None /\ owner' = t
Release(t) == owner = t /\ owner' = None

Keys   == {p \in Paths : table[p] # None}
Listed == {table[p] : p \in Keys}

\* p is the next key an iterator with the keys S ahead of it stands on.
IsNext(p, S) == p \in S /\ \A q \in S : p <= q

-----------------------------------------------------------------------------
(* addNewMemoryDevice.  Bounds: an object and a thread identity are left.  *)

\* The object is created and populated before the lock is taken.  Nothing
\* keeps the path from being in the table already.
NewDevice(p, o) ==
  /\ hpc = "idle"
  /\ heap[o] = "free"
  /\ \E w \in Workers : wpc[w] = "unborn"
  /\ heap' = [heap EXCEPT ![o] = "live"]
  /\ hpath' = p
  /\ hobj' = o
  /\ hpc' = "addLock"
  /\ UNCHANGED <<owner, table, told, monitorVars, clientVars>>

AddLock ==
  /\ hpc = "addLock"
  /\ Acquire(Hotplug)
  /\ hpc' = "insert"
  /\ UNCHANGED <<table, heap, hpath, hobj, told, monitorVars, clientVars>>

\* std::map::insert keeps the entry that is there; the event is filled from
\* the new object whichever way it went.
Insert ==
  /\ hpc = "insert"
  /\ table' = [table EXCEPT ![hpath] = IF @ = None THEN hobj ELSE @]
  /\ hpc' = "addUnlock"
  /\ UNCHANGED <<owner, heap, hpath, hobj, told, monitorVars, clientVars>>

\* Faults of AddUnlock: cancelling without asking whether there is a thread,
\* and creating the new thread without cancelling the old one.
AddUnlock_CancelAlways ==
  /\ hpc = "addUnlock"
  /\ Release(Hotplug)
  /\ hpc' = "cancel"
  /\ UNCHANGED <<table, heap, hpath, hobj, told, monitorVars, clientVars>>

AddUnlock_NeverCancel ==
  /\ hpc = "addUnlock"
  /\ Release(Hotplug)
  /\ hpc' = "create"
  /\ UNCHANGED <<table, heap, hpath, hobj, told, monitorVars, clientVars>>

AddUnlock ==
  /\ hpc = "addUnlock"
  /\ Release(Hotplug)
  /\ hpc' = IF tid # None THEN "cancel" ELSE "create"
  /\ UNCHANGED <<table, heap, hpath, hobj, told, monitorVars, clientVars>>

CancelMonitor ==
  /\ hpc = "cancel"
  /\ cancelled' = cancelled \cup {tid}
  /\ hpc' = "grace"
  /\ UNCHANGED <<owner, table, heap, hpath, hobj, told, tid, wpc, wleft, clientVars>>

\* Fault of AtCancelPoint: asynchronous cancellation, which strikes anywhere.
AtCancelPoint_Asynchronous(w) == wpc[w] \in {"sleep", "query", "health"}

\* Where a pending cancellation is acted upon at once: asleep, or in the I/O
\* of the object the loop is at.
AtCancelPoint(w) ==
  \/ wpc[w] = "sleep"
  \/ \E p \in wleft[w] :
       /\ IsNext(p, wleft[w])
       /\ \/ wpc[w] = "query"  /\ TypeOf[table[p]] \in QueryIO
          \/ wpc[w] = "health" /\ TypeOf[table[p]] \in HealthIO

\* sleep(5), taken to outlast whatever a cancelled thread can do on its own:
\* by then it is gone, or it waits for a mutex that another thread keeps.
Outlasted(w) ==
  \/ wpc[w] = "dead"
  \/ wpc[w] \in {"queryLock", "healthLock"} /\ owner # None

GraceOver ==
  /\ hpc = "grace"
  /\ \A w \in cancelled : Outlasted(w)
  /\ hpc' = "create"
  /\ UNCHANGED <<owner, table, heap, hpath, hobj, told, monitorVars, clientVars>>

CreateMonitor(w) ==
  /\ hpc = "create"
  /\ wpc[w] = "unborn"
  /\ wpc' = [wpc EXCEPT ![w] = "sleep"]
  /\ tid' = w
  /\ hpc' = "announce"
  /\ UNCHANGED <<owner, table, heap, hpath, hobj, told, wleft, cancelled, clientVars>>

\* notifyEvent, outside the lock.
AnnounceAdd ==
  /\ hpc = "announce"
  /\ told' = told \cup {hobj}
  /\ hpc' = "idle" /\ hpath' = None /\ hobj' = None
  /\ UNCHANGED <<owner, table, heap, monitorVars, clientVars>>

-----------------------------------------------------------------------------
(* deleteMemoryDevice.                                                     *)

RemoveDevice(p) ==
  /\ hpc = "idle"
  /\ hpath' = p
  /\ hpc' = "delLock"
  /\ UNCHANGED <<owner, table, heap, hobj, told, monitorVars, clientVars>>

DelLock ==
  /\ hpc = "delLock"
  /\ Acquire(Hotplug)
  /\ hpc' = "erase"
  /\ UNCHANGED <<table, heap, hpath, hobj, told, monitorVars, clientVars>>

Erase ==
  /\ hpc = "erase"
  /\ hobj' = table[hpath]
  /\ table' = [table EXCEPT ![hpath] = None]
  /\ hpc' = IF table[hpath] # None THEN "destroy" ELSE "delUnlock"
  /\ UNCHANGED <<owner, heap, hpath, told, monitorVars, clientVars>>

\* delete pTemp: the destructor runs under the lock.
Destroy ==
  /\ hpc = "destroy"
  /\ heap' = [heap EXCEPT ![hobj] = "deleted"]
  /\ hpc' = "delUnlock"
  /\ UNCHANGED <<owner, table, hpath, hobj, told, monitorVars, clientVars>>

\* Faults of DelUnlock: returning early, with the mutex, when the path is not
\* in the table; and forgetting that it was found.
DelUnlock_EarlyReturn ==
  /\ hpc = "delUnlock"
  /\ owner' = IF hobj # None THEN None ELSE owner
  /\ hpc' = IF hobj # None THEN "farewell" ELSE "idle"
  /\ hpath' = None
  /\ UNCHANGED <<table, heap, hobj, told, monitorVars, clientVars>>

DelUnlock_NoEvent ==
  /\ hpc = "delUnlock"
  /\ Release(Hotplug)
  /\ hpc' = "idle" /\ hpath' = None /\ hobj' = None
  /\ UNCHANGED <<table, heap, told, monitorVars, clientVars>>

DelUnlock ==
  /\ hpc = "delUnlock"
  /\ Release(Hotplug)
  /\ hpc' = IF hobj # None THEN "farewell" ELSE "idle"
  /\ hpath' = None
  /\ UNCHANGED <<table, heap, hobj, told, monitorVars, clientVars>>

AnnounceRemove ==
  /\ hpc = "farewell"
  /\ told' = told \ {hobj}
  /\ hpc' = "idle" /\ hobj' = None
  /\ UNCHANGED <<owner, table, heap, hpath, monitorVars, clientVars>>

-----------------------------------------------------------------------------
(* devHealthMonThreadEntryFunc: enquireHealthInfo under the lock, then     *)
(* getHealth on every device under the lock again.                         *)

WakeUp(w) ==
  /\ wpc[w] = "sleep"
  /\ w \notin cancelled
  /\ wpc' = [wpc EXCEPT ![w] = "queryLock"]
  /\ UNCHANGED <<owner, table, heap, hotplugVars, tid, wleft, cancelled, clientVars>>

MonitorLock(w) ==
  /\ Acquire(w)
  /\ wleft' = [wleft EXCEPT ![w] = Keys]
  /\ \/ wpc[w] = "queryLock"  /\ wpc' = [wpc EXCEPT ![w] = "query"]
     \/ wpc[w] = "healthLock" /\ wpc' = [wpc EXCEPT ![w] = "health"]
  /\ UNCHANGED <<table, heap, hotplugVars, tid, cancelled, clientVars>>

\* doDeviceHealthQuery or getHealth of the object the loop is at.
MonitorDevice(w) ==
  /\ wpc[w] \in {"query", "health"}
  /\ \E p \in wleft[w] : /\ IsNext(p, wleft[w])
                         /\ wleft' = [wleft EXCEPT ![w] = @ \ {p}]
  /\ UNCHANGED <<owner, table, heap, hotplugVars, tid, wpc, cancelled, clientVars>>

MonitorUnlock(w) ==
  /\ wleft[w] = {}
  /\ Release(w)
  /\ \/ wpc[w] = "query"  /\ wpc' = [wpc EXCEPT ![w] = "healthLock"]
     \/ wpc[w] = "health" /\ wpc' = [wpc EXCEPT ![w] = "sleep"]
  /\ UNCHANGED <<table, heap, hotplugVars, tid, wleft, cancelled, clientVars>>

\* A pending cancellation is acted upon; the mutex is not given back.
Die(w) ==
  /\ w \in cancelled
  /\ AtCancelPoint(w)
  /\ wpc' = [wpc EXCEPT ![w] = "dead"]
  /\ UNCHANGED <<owner, table, heap, hotplugVars, tid, wleft, cancelled, clientVars>>

-----------------------------------------------------------------------------
(* The enquiries: getDeviceIds, getDeviceInfo, getDeviceInfoList,          *)
(* getPartitionInfo, getHealth.                                            *)

Call(c, S) ==
  /\ cpc[c] = "idle"
  /\ want' = [want EXCEPT ![c] = S]
  /\ cpc' = [cpc EXCEPT ![c] = "lock"]
  /\ UNCHANGED <<owner, table, heap, hotplugVars, monitorVars, cleft, got>>

\* Fault of ClientLock: the handler reads the table without the lock.
ClientLock_NoLock(c) ==
  /\ cpc[c] = "lock"
  /\ cleft' = [cleft EXCEPT ![c] = Keys]
  /\ cpc' = [cpc EXCEPT ![c] = "walk"]
  /\ UNCHANGED <<owner, table, heap, hotplugVars, monitorVars, want, got>>

ClientLock(c) ==
  /\ cpc[c] = "lock"
  /\ Acquire(c)
  /\ cleft' = [cleft EXCEPT ![c] = Keys]
  /\ cpc' = [cpc EXCEPT ![c] = "walk"]
  /\ UNCHANGED <<table, heap, hotplugVars, monitorVars, want, got>>

\* Faults of Visit: breaking at the first match although more is wanted, and
\* a loop that stays where it is when the object is not the one wanted.
Visit_BreakAtFirst(c) ==
  /\ cpc[c] = "walk"
  /\ \E p \in cleft[c] :
       /\ IsNext(p, cleft[c])
       /\ got' = [got EXCEPT ![c] = @ \cup ({table[p]} \cap want[c])]
       /\ cleft' = [cleft EXCEPT ![c] = IF got'[c] # {} THEN {} ELSE @ \ {p}]
  /\ UNCHANGED <<owner, table, heap, hotplugVars, monitorVars, cpc, want>>

Visit_NoAdvance(c) ==
  /\ cpc[c] = "walk"
  /\ \E p \in cleft[c] :
       /\ IsNext(p, cleft[c])
       /\ got' = [got EXCEPT ![c] = @ \cup ({table[p]} \cap want[c])]
       /\ cleft' = [cleft EXCEPT ![c] = IF table[p] \in want[c] THEN {} ELSE @]
  /\ UNCHANGED <<owner, table, heap, hotplugVars, monitorVars, cpc, want>>

\* The loop takes what it wants from the object it is at, and breaks when it
\* wants nothing more.
Visit(c) ==
  /\ cpc[c] = "walk"
  /\ \E p \in cleft[c] :
       /\ IsNext(p, cleft[c])
       /\ got' = [got EXCEPT ![c] = @ \cup ({table[p]} \cap want[c])]
       /\ cleft' = [cleft EXCEPT ![c] = IF want[c] \subseteq got'[c] THEN {} ELSE @ \ {p}]
  /\ UNCHANGED <<owner, table, heap, hotplugVars, monitorVars, cpc, want>>

ClientUnlock(c) ==
  /\ cpc[c] = "walk"
  /\ cleft[c] = {}
  /\ Release(c)
  /\ cpc' = [cpc EXCEPT ![c] = "reply"]
  /\ UNCHANGED <<table, heap, hotplugVars, monitorVars, want, cleft, got>>

Return(c) ==
  /\ cpc[c] = "reply"
  /\ cpc' = [cpc EXCEPT ![c] = "idle"]
  /\ want' = [want EXCEPT ![c] = {}]
  /\ got' = [got EXCEPT ![c] = {}]
  /\ UNCHANGED <<owner, table, heap, hotplugVars, monitorVars, cleft>>

-----------------------------------------------------------------------------
HotplugStep ==
  \/ AddLock \/ Insert \/ AddUnlock \/ CancelMonitor \/ GraceOver
  \/ \E w \in Workers : CreateMonitor(w)
  \/ AnnounceAdd
  \/ DelLock \/ Erase \/ Destroy \/ DelUnlock \/ AnnounceRemove

WorkerStep(w) ==
  WakeUp(w) \/ MonitorLock(w) \/ MonitorDevice(w) \/ MonitorUnlock(w) \/ Die(w)

ClientStep(c) == ClientLock(c) \/ Visit(c) \/ ClientUnlock(c) \/ Return(c)

Next ==
  \/ \E p \in Paths : RemoveDevice(p) \/ \E o \in Objects : NewDevice(p, o)
  \/ HotplugStep
  \/ \E w \in Workers : WorkerStep(w)
  \/ \E c \in Clients : ClientStep(c) \/ \E S \in Requests : Call(c, S)

Spec == Init /\ [][Next]_vars

\* The steps of thread t, and those by which it takes the mutex.
StepOf(t) ==
  \/ t \in Clients /\ ClientStep(t)
  \/ t \in Workers /\ WorkerStep(t)
  \/ t = Hotplug /\ HotplugStep

LockOf(t) ==
  \/ t \in Clients /\ ClientLock(t)
  \/ t \in Workers /\ MonitorLock(t)
  \/ t = Hotplug /\ (AddLock \/ DelLock)

(* A thread that can run eventually does.  A thread that waits for the     *)
(* mutex competes with the others for it: strong fairness says that it     *)
(* does not lose every time.  Nothing obliges the kernel to report a       *)
(* device, nor a client to call.                                           *)
FairTo(t) == WF_vars(StepOf(t)) /\ SF_vars(LockOf(t))

Fairness == \A t \in Threads : FairTo(t)

FairSpec == Spec /\ Fairness

-----------------------------------------------------------------------------
Live == {o \in Objects : heap[o] = "live"}

\* A thread that was cancelled while it held the mutex, and still owns it.
Orphaned == owner \in Workers /\ wpc[owner] = "dead"

(* Whatever a loop over the table has yet to visit is still in the table   *)
(* and has not been deleted, in whichever order the threads run: the       *)
(* iterators of the RPC handlers and of the monitor threads stay valid     *)
(* and touch no freed object.                                              *)
Sound(S) == \A p \in S : table[p] \in Live

LoopsTouchLiveObjects ==
  /\ Sound(Keys)
  /\ \A c \in Clients : cleft[c] \subseteq Keys
  /\ \A w \in Workers : wpc[w] \in {"query", "health"} => wleft[w] \subseteq Keys
  /\ hpc = "destroy" => hobj \in Live \ Listed

(* Once addNewMemoryDevice or deleteMemoryDevice has returned, the event   *)
(* callback has been told of exactly the objects that exist, and no object *)
(* stands under two paths.                                                 *)
ListenersKnowWhatLives ==
  /\ hpc = "idle" => told = Live
  /\ \A p, q \in Keys : table[p] = table[q] => p = q

(* However many devices come and go, one health monitor at most is still   *)
(* meant to run, and stmgrHealthMonitorTID names it: no add loses track of *)
(* a thread it would have to cancel.                                       *)
Running == {w \in Workers : wpc[w] \notin {"unborn", "dead"} /\ w \notin cancelled}

OneMonitorIsMeantToRun == Running \subseteq {tid}

(* The mutex is lost for good only to a cancellation that strikes in the   *)
(* I/O of a medium's health query: a box whose media answer from memory    *)
(* (eMMC) cannot lose it.                                                  *)
OrphanedByBlockingMedia ==
  Orphaned => /\ owner \in cancelled
              /\ \E o \in Listed : TypeOf[o] \in QueryIO \cup HealthIO

\* Where thread t calls pthread_mutex_lock, and where it is in a function
\* that has to end or to come round again.
AtLock(t) ==
  \/ t \in Clients /\ cpc[t] = "lock"
  \/ t \in Workers /\ wpc[t] \in {"queryLock", "healthLock"}
  \/ t = Hotplug /\ hpc \in {"addLock", "delLock"}

Busy(t) ==
  \/ t \in Clients /\ cpc[t] # "idle"
  \/ t \in Workers /\ wpc[t] \notin {"unborn", "dead"}
  \/ t = Hotplug /\ hpc # "idle"

\* A loop that has the paths S ahead of it goes on, or ends with an unlock.
GoesOn(t, S) == IF S = {} THEN owner = t ELSE \E p \in S : IsNext(p, S)

\* Thread t has a step to take.
CanMove(t) ==
  \/ AtLock(t) /\ owner = None
  \/ /\ t \in Clients
     /\ cpc[t] = "reply" \/ (cpc[t] = "walk" /\ GoesOn(t, cleft[t]))
  \/ /\ t \in Workers
     /\ wpc[t] = "sleep" \/ (wpc[t] \in {"query", "health"} /\ GoesOn(t, wleft[t]))
  \/ /\ t = Hotplug
     /\ \/ hpc \in {"insert", "cancel", "announce", "erase", "destroy", "farewell"}
        \/ hpc \in {"addUnlock", "delUnlock"} /\ owner = t
        \/ hpc = "grace" /\ \A w \in cancelled : Outlasted(w)
        \/ hpc = "create" /\ \E w \in Workers : wpc[w] = "unborn"

\* The threads it waits for if it has none.
WaitsFor(t) ==
  {u \in Threads : (AtLock(t) /\ u = owner) \/ (t = Hotplug /\ hpc = "grace" /\ u \in cancelled)}

(* No deadlock: a thread that cannot go on waits for one that can, except  *)
(* at the lock of a mutex that is lost.  No loop gets stuck, no function   *)
(* ends with the mutex held, and an add that waits for the thread it       *)
(* cancelled holds nothing that thread needs.                              *)
NobodyWaitsInVain ==
  \A t \in Threads : Busy(t) =>
    \/ CanMove(t)
    \/ \E u \in WaitsFor(t) : CanMove(u)
    \/ AtLock(t) /\ Orphaned

(* CanMove is what the code waits for: m_mainMutex at a lock, the threads  *)
(* it cancelled in an add, and nothing else.                               *)
WaitsAtLocksOnly(t) ==
  /\ CanMove(t) <=> ENABLED <<StepOf(t)>>_vars
  /\ AtLock(t) /\ owner = None => ENABLED <<LockOf(t)>>_vars

ThreadsWaitAtLocksOnly == \A t \in Threads : WaitsAtLocksOnly(t)

(* Every enquiry is answered from the table as it stood at one moment of   *)
(* the call, although the handler visits the devices one after another:    *)
(* the step that unlocks is that moment.                                   *)
Table == INSTANCE DeviceTable WITH
  Devices  <- Objects,
  listed   <- Listed,
  asked    <- [c \in Clients |-> IF cpc[c] = "idle" THEN None ELSE want[c]],
  answered <- [c \in Clients |-> IF cpc[c] = "reply" THEN got[c] ELSE None]

ImplementsDeviceTable == Table!Spec

(* Unless the mutex is lost, every enquiry returns, every add and remove   *)
(* finishes, and whoever takes the mutex gives it back: no path through a  *)
(* handler, an add, a remove or a monitor round ends with it held, and no  *)
(* holder waits for another thread.                                        *)
GivesBack(t) == owner = t ~> owner # t \/ Orphaned
GetsAnswer(c) == cpc[c] = "lock" ~> cpc[c] = "idle" \/ Orphaned
HotplugEnds == hpc # "idle" ~> hpc = "idle" \/ Orphaned

CallsReturn ==
  /\ \A t \in Threads : GivesBack(t)
  /\ \A c \in Clients : GetsAnswer(c)
  /\ HotplugEnds

(* rdkStorageMain.cpp:128: "Start the Polling thread which does the health *)
(* Monitoring".  The thread that is not cancelled goes on polling.         *)
PollingGoesOn ==
  \A w \in Workers : tid = w ~> wpc[w] = "query" \/ w \in cancelled

=============================================================================
