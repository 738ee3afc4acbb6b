------------------------- MODULE StorageMainProofs -------------------------
(***************************************************************************)
(* What StorageMain guarantees for any number of device paths, devices,    *)
(* RPC clients and health-monitor threads.  The argument starts from who   *)
(* holds m_mainMutex where (LockInv); from it follows what the table, the  *)
(* heap and the listeners hold at each point of an add or a remove         *)
(* (HeapInv), what a loop over the table has ahead of it (WalkInv), which  *)
(* monitor thread is meant to run (MonitorInv) and how the mutex can be    *)
(* lost (OrphanedByBlockingMedia).  The last part follows each thread on   *)
(* its way through its function, and shows that every call comes to its    *)
(* end on a box that cannot lose the mutex.                                *)
(***************************************************************************)
EXTENDS StorageMain, WellFoundedInduction, TLAPS

\* The mutex is held exactly where the code is between its lock and unlock.
HotplugHolds == {"insert", "addUnlock", "erase", "destroy", "delUnlock"}

LockInv ==
  /\ owner = Hotplug <=> hpc \in HotplugHolds
  /\ \A c \in Clients : owner = c <=> cpc[c] = "walk"
  /\ \A w \in Workers : /\ wpc[w] \in {"query", "health"} => owner = w
                        /\ owner = w => wpc[w] \in {"query", "health", "dead"}

\* Where a new object is on its way into the table, or past it.
Adding == {"addLock", "insert", "addUnlock", "cancel", "grace", "create", "announce"}

\* The locals of addNewMemoryDevice and deleteMemoryDevice.
LocalsInv ==
  /\ hpc \in {"addLock", "insert", "delLock", "erase"} => hpath \in Paths
  /\ hpc \in Adding \cup {"destroy", "farewell"} => hobj \in Objects
  /\ hpc \in {"idle", "delLock", "erase"} => hobj = None
  /\ hpc = "cancel" => tid # None

HeapInv ==
  /\ \A p \in Keys : heap[table[p]] = "live"
  /\ \A p, q \in Keys : table[p] = table[q] => p = q
  /\ hpc \in Adding => hobj \in Live /\ told = Live \ {hobj}
  /\ hpc \in {"addLock", "insert"} => hobj \notin Listed
  /\ hpc \in {"idle", "delLock", "erase"} => told = Live
  /\ hpc = "destroy" => hobj \in Live \ Listed /\ told = Live
  /\ hpc = "delUnlock" => IF hobj = None THEN told = Live
                          ELSE hobj \notin Live /\ told = Live \cup {hobj}
  /\ hpc = "farewell" => hobj \in Objects \ Live /\ told = Live \cup {hobj}

WalkInv ==
  /\ \A c \in Clients : /\ cleft[c] \subseteq Keys
                        /\ cpc[c] # "walk" => cleft[c] = {}
  /\ \A w \in Workers : wpc[w] \in {"query", "health"} => wleft[w] \subseteq Keys

MonitorInv ==
  /\ Running \subseteq {tid}
  /\ hpc \in {"grace", "create"} => Running = {}

\* The types and the locals are preserved together.
TypedInv == TypeOK /\ LocalsInv

-----------------------------------------------------------------------------
(* The types and the locals of an add or a remove in progress: each step   *)
(* of the Hotplug thread finds the arguments the step before it left.      *)
LEMMA Typed == Spec => []TypedInv
<1> USE StorageMainAssumption DEF TypedInv, TypeOK, LocalsInv, Adding, Threads, HotplugPCs, WorkerPCs, ClientPCs
<1>1. Init => TypedInv
  BY DEF Init
<1>2. TypedInv /\ [Next]_vars => TypedInv'
  <2> SUFFICES ASSUME TypedInv, [Next]_vars PROVE TypedInv'
    OBVIOUS
  <2> USE DEF hotplugVars, monitorVars, clientVars
  <2>1. ASSUME NEW p \in Paths, NEW o \in Objects, NewDevice(p, o) PROVE TypedInv'
    BY <2>1 DEF NewDevice
  <2>2. ASSUME NEW p \in Paths, RemoveDevice(p) PROVE TypedInv'
    BY <2>2 DEF RemoveDevice
  <2>3. CASE HotplugStep
    <3>1. CASE AddLock
      BY <3>1 DEF AddLock, Acquire
    <3>2. CASE Insert
      BY <3>2 DEF Insert
    <3>3. CASE AddUnlock
      BY <3>3 DEF AddUnlock, Release
    <3>4. CASE CancelMonitor
      BY <3>4 DEF CancelMonitor
    <3>5. CASE GraceOver
      BY <3>5 DEF GraceOver
    <3>6. ASSUME NEW w \in Workers, CreateMonitor(w) PROVE TypedInv'
      BY <3>6 DEF CreateMonitor
    <3>7. CASE AnnounceAdd
      BY <3>7 DEF AnnounceAdd
    <3>8. CASE DelLock
      BY <3>8 DEF DelLock, Acquire
    <3>9. CASE Erase
      BY <3>9 DEF Erase
    <3>10. CASE Destroy
      BY <3>10 DEF Destroy
    <3>11. CASE DelUnlock
      BY <3>11 DEF DelUnlock, Release
    <3>12. CASE AnnounceRemove
      BY <3>12 DEF AnnounceRemove
    <3> QED
      BY <2>3, <3>1, <3>2, <3>3, <3>4, <3>5, <3>6, <3>7, <3>8, <3>9, <3>10, <3>11, <3>12
         DEF HotplugStep
  <2>4. ASSUME NEW w \in Workers, WorkerStep(w) PROVE TypedInv'
    <3>1. CASE WakeUp(w)
      BY <3>1 DEF WakeUp
    <3>2. CASE MonitorLock(w)
      BY <3>2 DEF MonitorLock, Acquire, Keys
    <3>3. CASE MonitorDevice(w)
      BY <3>3 DEF MonitorDevice
    <3>4. CASE MonitorUnlock(w)
      BY <3>4 DEF MonitorUnlock, Release
    <3>5. CASE Die(w)
      BY <3>5 DEF Die
    <3> QED
      BY <2>4, <3>1, <3>2, <3>3, <3>4, <3>5 DEF WorkerStep
  <2>5. ASSUME NEW c \in Clients, ClientStep(c) PROVE TypedInv'
    <3>1. CASE ClientLock(c)
      BY <3>1 DEF ClientLock, Acquire, Keys
    <3>2. CASE Visit(c)
      BY <3>2 DEF Visit
    <3>3. CASE ClientUnlock(c)
      BY <3>3 DEF ClientUnlock, Release
    <3>4. CASE Return(c)
      BY <3>4 DEF Return
    <3> QED
      BY <2>5, <3>1, <3>2, <3>3, <3>4 DEF ClientStep
  <2>6. ASSUME NEW c \in Clients, NEW S \in Requests, Call(c, S) PROVE TypedInv'
    BY <2>6 DEF Call, Requests
  <2>7. CASE UNCHANGED vars
    BY <2>7 DEF vars
  <2> QED
    BY <2>1, <2>2, <2>3, <2>4, <2>5, <2>6, <2>7 DEF Next
<1> QED
  BY <1>1, <1>2, PTL DEF Spec

(* Every variable keeps its type: the states of the model are states the   *)
(* program's data can represent, whatever the threads do.                  *)
THEOREM TypeCorrect == Spec => []TypeOK
<1>1. TypedInv => TypeOK
  BY DEF TypedInv
<1> QED
  BY <1>1, Typed, PTL

-----------------------------------------------------------------------------
\* What the steps of the other threads leave alone.
OthersFrame == UNCHANGED <<table, heap, hotplugVars, tid, cancelled>>

(* No RPC handler and no monitor thread changes the table or the heap.     *)
LEMMA OthersLeaveTheTable ==
  /\ \A w \in Workers : WorkerStep(w) => OthersFrame /\ UNCHANGED clientVars
  /\ \A c \in Clients : ClientStep(c) => OthersFrame /\ UNCHANGED monitorVars
  /\ \A c \in Clients, S \in Requests : Call(c, S) => OthersFrame /\ UNCHANGED <<owner, monitorVars>>
<1> USE DEF OthersFrame, monitorVars
<1>1. ASSUME NEW w \in Workers, WorkerStep(w) PROVE OthersFrame /\ UNCHANGED clientVars
  BY <1>1 DEF WorkerStep, WakeUp, MonitorLock, MonitorDevice, MonitorUnlock, Die
<1>2. ASSUME NEW c \in Clients, ClientStep(c) PROVE OthersFrame /\ UNCHANGED monitorVars
  BY <1>2 DEF ClientStep, ClientLock, Visit, ClientUnlock, Return
<1>3. ASSUME NEW c \in Clients, NEW S \in Requests, Call(c, S)
      PROVE  OthersFrame /\ UNCHANGED <<owner, monitorVars>>
  BY <1>3 DEF Call
<1> QED
  BY <1>1, <1>2, <1>3

(* The mutex is held by the thread whose code is between its lock and its  *)
(* unlock and by no other: two critical sections never overlap.            *)
THEOREM LockDiscipline == Spec => []LockInv
<1> USE StorageMainAssumption DEF LockInv, HotplugHolds, Threads
<1>1. Init => LockInv
  BY DEF Init
<1>2. TypedInv /\ LockInv /\ [Next]_vars => LockInv'
  <2> SUFFICES ASSUME TypedInv, LockInv, [Next]_vars PROVE LockInv'
    OBVIOUS
  <2> USE DEF hotplugVars, monitorVars, clientVars, TypedInv, TypeOK, HotplugPCs, WorkerPCs, ClientPCs
  <2>1. ASSUME NEW p \in Paths, NEW o \in Objects, NewDevice(p, o) PROVE LockInv'
    BY <2>1 DEF NewDevice
  <2>2. ASSUME NEW p \in Paths, RemoveDevice(p) PROVE LockInv'
    BY <2>2 DEF RemoveDevice
  <2>3. CASE HotplugStep
    <3>1. CASE AddLock
      BY <3>1 DEF AddLock, Acquire
    <3>2. CASE Insert
      BY <3>2 DEF Insert
    <3>3. CASE AddUnlock
      BY <3>3 DEF AddUnlock, Release
    <3>4. CASE CancelMonitor
      BY <3>4 DEF CancelMonitor
    <3>5. CASE GraceOver
      BY <3>5 DEF GraceOver
    <3>6. ASSUME NEW w \in Workers, CreateMonitor(w) PROVE LockInv'
      BY <3>6 DEF CreateMonitor
    <3>7. CASE AnnounceAdd
      BY <3>7 DEF AnnounceAdd
    <3>8. CASE DelLock
      BY <3>8 DEF DelLock, Acquire
    <3>9. CASE Erase
      BY <3>9 DEF Erase
    <3>10. CASE Destroy
      BY <3>10 DEF Destroy
    <3>11. CASE DelUnlock
      BY <3>11 DEF DelUnlock, Release
    <3>12. CASE AnnounceRemove
      BY <3>12 DEF AnnounceRemove
    <3> QED
      BY <2>3, <3>1, <3>2, <3>3, <3>4, <3>5, <3>6, <3>7, <3>8, <3>9, <3>10, <3>11, <3>12
         DEF HotplugStep
  <2>4. ASSUME NEW w \in Workers, WorkerStep(w) PROVE LockInv'
    <3>1. CASE WakeUp(w)
      BY <3>1 DEF WakeUp
    <3>2. CASE MonitorLock(w)
      BY <3>2 DEF MonitorLock, Acquire
    <3>3. CASE MonitorDevice(w)
      BY <3>3 DEF MonitorDevice
    <3>4. CASE MonitorUnlock(w)
      BY <3>4 DEF MonitorUnlock, Release
    <3>5. CASE Die(w)
      BY <3>5 DEF Die, AtCancelPoint
    <3> QED
      BY <2>4, <3>1, <3>2, <3>3, <3>4, <3>5 DEF WorkerStep
  <2>5. ASSUME NEW c \in Clients, ClientStep(c) PROVE LockInv'
    <3>1. CASE ClientLock(c)
      BY <3>1 DEF ClientLock, Acquire
    <3>2. CASE Visit(c)
      BY <3>2 DEF Visit
    <3>3. CASE ClientUnlock(c)
      BY <3>3 DEF ClientUnlock, Release
    <3>4. CASE Return(c)
      BY <3>4 DEF Return
    <3> QED
      BY <2>5, <3>1, <3>2, <3>3, <3>4 DEF ClientStep
  <2>6. ASSUME NEW c \in Clients, NEW S \in Requests, Call(c, S) PROVE LockInv'
    BY <2>6 DEF Call
  <2>7. CASE UNCHANGED vars
    BY <2>7 DEF vars
  <2> QED
    BY <2>1, <2>2, <2>3, <2>4, <2>5, <2>6, <2>7 DEF Next
<1> QED
  BY <1>1, <1>2, Typed, PTL DEF Spec

-----------------------------------------------------------------------------
(* At each point of an add or a remove, what the table, the heap and the   *)
(* listeners hold.                                                         *)
LEMMA HeapFollowsTable == Spec => []HeapInv
<1> USE DEF HeapInv, Adding, Keys, Listed, Live
<1>1. Init => HeapInv
  BY DEF Init
<1>2. TypedInv /\ HeapInv /\ [Next]_vars => HeapInv'
  <2> SUFFICES ASSUME TypedInv, HeapInv, [Next]_vars PROVE HeapInv'
    OBVIOUS
  <2> USE StorageMainAssumption DEF hotplugVars, TypedInv, TypeOK, LocalsInv, HotplugPCs
  <2>1. ASSUME NEW p \in Paths, NEW o \in Objects, NewDevice(p, o) PROVE HeapInv'
    BY <2>1 DEF NewDevice
  <2>2. ASSUME NEW p \in Paths, RemoveDevice(p) PROVE HeapInv'
    BY <2>2 DEF RemoveDevice
  <2>3. CASE HotplugStep
    <3>1. CASE AddLock
      BY <3>1 DEF AddLock, Acquire
    <3>2. CASE Insert
      BY <3>2 DEF Insert
    <3>3. CASE AddUnlock
      BY <3>3 DEF AddUnlock, Release
    <3>4. CASE CancelMonitor
      BY <3>4 DEF CancelMonitor
    <3>5. CASE GraceOver
      BY <3>5 DEF GraceOver
    <3>6. ASSUME NEW w \in Workers, CreateMonitor(w) PROVE HeapInv'
      BY <3>6 DEF CreateMonitor
    <3>7. CASE AnnounceAdd
      BY <3>7 DEF AnnounceAdd
    <3>8. CASE DelLock
      BY <3>8 DEF DelLock, Acquire
    <3>9. CASE Erase
      BY <3>9 DEF Erase
    <3>10. CASE Destroy
      BY <3>10 DEF Destroy
    <3>11. CASE DelUnlock
      BY <3>11 DEF DelUnlock, Release
    <3>12. CASE AnnounceRemove
      BY <3>12 DEF AnnounceRemove
    <3> QED
      BY <2>3, <3>1, <3>2, <3>3, <3>4, <3>5, <3>6, <3>7, <3>8, <3>9, <3>10, <3>11, <3>12
         DEF HotplugStep
  <2>4. ASSUME NEW w \in Workers, WorkerStep(w) PROVE HeapInv'
    BY <2>4, OthersLeaveTheTable DEF OthersFrame
  <2>5. ASSUME NEW c \in Clients, ClientStep(c) PROVE HeapInv'
    BY <2>5, OthersLeaveTheTable DEF OthersFrame
  <2>6. ASSUME NEW c \in Clients, NEW S \in Requests, Call(c, S) PROVE HeapInv'
    BY <2>6, OthersLeaveTheTable DEF OthersFrame
  <2>7. CASE UNCHANGED vars
    BY <2>7 DEF vars
  <2> QED
    BY <2>1, <2>2, <2>3, <2>4, <2>5, <2>6, <2>7 DEF Next
<1> QED
  BY <1>1, <1>2, Typed, PTL DEF Spec

(* The event callback has been told of exactly the objects that exist      *)
(* whenever no add or remove is in progress.                               *)
THEOREM ListenersInformed == Spec => []ListenersKnowWhatLives
<1>1. HeapInv => ListenersKnowWhatLives
  BY DEF HeapInv, ListenersKnowWhatLives
<1> QED
  BY <1>1, HeapFollowsTable, PTL

-----------------------------------------------------------------------------
(* A loop over the table never has a path ahead of it that is no longer    *)
(* there: the table changes only while its owner is the Hotplug thread,    *)
(* and then no loop is under way.                                          *)
LEMMA LoopsFollowTable == Spec => []WalkInv
<1> USE DEF WalkInv, Keys
<1>1. Init => WalkInv
  BY DEF Init
<1>2. TypedInv /\ LockInv /\ WalkInv /\ [Next]_vars => WalkInv'
  <2> SUFFICES ASSUME TypedInv, LockInv, WalkInv, [Next]_vars PROVE WalkInv'
    OBVIOUS
  <2> USE StorageMainAssumption DEF hotplugVars, monitorVars, clientVars, TypedInv, TypeOK, HotplugPCs, WorkerPCs, ClientPCs
  <2>1. ASSUME NEW p \in Paths, NEW o \in Objects, NewDevice(p, o) PROVE WalkInv'
    BY <2>1 DEF NewDevice
  <2>2. ASSUME NEW p \in Paths, RemoveDevice(p) PROVE WalkInv'
    BY <2>2 DEF RemoveDevice
  <2>3. CASE HotplugStep
    <3>1. CASE AddLock
      BY <3>1 DEF AddLock, Acquire
    <3>2. CASE Insert
      BY <3>2 DEF Insert, LocalsInv
    <3>3. CASE AddUnlock
      BY <3>3 DEF AddUnlock, Release
    <3>4. CASE CancelMonitor
      BY <3>4 DEF CancelMonitor
    <3>5. CASE GraceOver
      BY <3>5 DEF GraceOver
    <3>6. ASSUME NEW w \in Workers, CreateMonitor(w) PROVE WalkInv'
      BY <3>6 DEF CreateMonitor
    <3>7. CASE AnnounceAdd
      BY <3>7 DEF AnnounceAdd
    <3>8. CASE DelLock
      BY <3>8 DEF DelLock, Acquire
    <3>9. CASE Erase
      BY <3>9 DEF Erase, LockInv, HotplugHolds, Threads
    <3>10. CASE Destroy
      BY <3>10 DEF Destroy
    <3>11. CASE DelUnlock
      BY <3>11 DEF DelUnlock, Release
    <3>12. CASE AnnounceRemove
      BY <3>12 DEF AnnounceRemove
    <3> QED
      BY <2>3, <3>1, <3>2, <3>3, <3>4, <3>5, <3>6, <3>7, <3>8, <3>9, <3>10, <3>11, <3>12
         DEF HotplugStep
  <2>4. ASSUME NEW w \in Workers, WorkerStep(w) PROVE WalkInv'
    <3>1. CASE WakeUp(w)
      BY <3>1 DEF WakeUp
    <3>2. CASE MonitorLock(w)
      BY <3>2 DEF MonitorLock
    <3>3. CASE MonitorDevice(w)
      BY <3>3 DEF MonitorDevice
    <3>4. CASE MonitorUnlock(w)
      BY <3>4 DEF MonitorUnlock
    <3>5. CASE Die(w)
      BY <3>5 DEF Die
    <3> QED
      BY <2>4, <3>1, <3>2, <3>3, <3>4, <3>5 DEF WorkerStep
  <2>5. ASSUME NEW c \in Clients, ClientStep(c) PROVE WalkInv'
    <3>1. CASE ClientLock(c)
      BY <3>1 DEF ClientLock
    <3>2. CASE Visit(c)
      BY <3>2 DEF Visit
    <3>3. CASE ClientUnlock(c)
      BY <3>3 DEF ClientUnlock
    <3>4. CASE Return(c)
      BY <3>4 DEF Return
    <3> QED
      BY <2>5, <3>1, <3>2, <3>3, <3>4 DEF ClientStep
  <2>6. ASSUME NEW c \in Clients, NEW S \in Requests, Call(c, S) PROVE WalkInv'
    BY <2>6 DEF Call
  <2>7. CASE UNCHANGED vars
    BY <2>7 DEF vars
  <2> QED
    BY <2>1, <2>2, <2>3, <2>4, <2>5, <2>6, <2>7 DEF Next
<1> QED
  BY <1>1, <1>2, Typed, LockDiscipline, PTL DEF Spec

(* No thread touches a freed object, and no iterator outlives its entry,   *)
(* for any number of clients, monitors, adds and removes.                  *)
THEOREM NoUseAfterFree == Spec => []LoopsTouchLiveObjects
<1>1. TypedInv /\ HeapInv /\ WalkInv => LoopsTouchLiveObjects
  BY DEF TypedInv, TypeOK, HeapInv, WalkInv, LoopsTouchLiveObjects, Sound, Keys, Live, Listed
<1> QED
  BY <1>1, Typed, HeapFollowsTable, LoopsFollowTable, PTL

-----------------------------------------------------------------------------
(* Which monitor threads exist, which are cancelled and which one          *)
(* stmgrHealthMonitorTID names, at each point of an add.                   *)
LEMMA MonitorsFollowTID == Spec => []MonitorInv
<1> USE DEF MonitorInv, Running
<1>1. Init => MonitorInv
  BY DEF Init
<1>2. TypedInv /\ MonitorInv /\ [Next]_vars => MonitorInv'
  <2> SUFFICES ASSUME TypedInv, MonitorInv, [Next]_vars PROVE MonitorInv'
    OBVIOUS
  <2> USE StorageMainAssumption DEF hotplugVars, monitorVars, clientVars, TypedInv, TypeOK, HotplugPCs, WorkerPCs, ClientPCs
  <2>1. ASSUME NEW p \in Paths, NEW o \in Objects, NewDevice(p, o) PROVE MonitorInv'
    BY <2>1 DEF NewDevice
  <2>2. ASSUME NEW p \in Paths, RemoveDevice(p) PROVE MonitorInv'
    BY <2>2 DEF RemoveDevice
  <2>3. CASE HotplugStep
    <3>1. CASE AddLock
      BY <3>1 DEF AddLock, Acquire
    <3>2. CASE Insert
      BY <3>2 DEF Insert
    <3>3. CASE AddUnlock
      BY <3>3 DEF AddUnlock, Release, Threads
    <3>4. CASE CancelMonitor
      BY <3>4 DEF CancelMonitor
    <3>5. CASE GraceOver
      BY <3>5 DEF GraceOver
    <3>6. ASSUME NEW w \in Workers, CreateMonitor(w) PROVE MonitorInv'
      BY <3>6 DEF CreateMonitor
    <3>7. CASE AnnounceAdd
      BY <3>7 DEF AnnounceAdd
    <3>8. CASE DelLock
      BY <3>8 DEF DelLock, Acquire
    <3>9. CASE Erase
      BY <3>9 DEF Erase
    <3>10. CASE Destroy
      BY <3>10 DEF Destroy
    <3>11. CASE DelUnlock
      BY <3>11 DEF DelUnlock, Release
    <3>12. CASE AnnounceRemove
      BY <3>12 DEF AnnounceRemove
    <3> QED
      BY <2>3, <3>1, <3>2, <3>3, <3>4, <3>5, <3>6, <3>7, <3>8, <3>9, <3>10, <3>11, <3>12
         DEF HotplugStep
  <2>4. ASSUME NEW w \in Workers, WorkerStep(w) PROVE MonitorInv'
    <3>1. CASE WakeUp(w)
      BY <3>1 DEF WakeUp
    <3>2. CASE MonitorLock(w)
      BY <3>2 DEF MonitorLock
    <3>3. CASE MonitorDevice(w)
      BY <3>3 DEF MonitorDevice
    <3>4. CASE MonitorUnlock(w)
      BY <3>4 DEF MonitorUnlock
    <3>5. CASE Die(w)
      BY <3>5 DEF Die
    <3> QED
      BY <2>4, <3>1, <3>2, <3>3, <3>4, <3>5 DEF WorkerStep
  <2>5. ASSUME NEW c \in Clients, ClientStep(c) PROVE MonitorInv'
    BY <2>5, OthersLeaveTheTable DEF OthersFrame
  <2>6. ASSUME NEW c \in Clients, NEW S \in Requests, Call(c, S) PROVE MonitorInv'
    BY <2>6, OthersLeaveTheTable DEF OthersFrame
  <2>7. CASE UNCHANGED vars
    BY <2>7 DEF vars
  <2> QED
    BY <2>1, <2>2, <2>3, <2>4, <2>5, <2>6, <2>7 DEF Next
<1> QED
  BY <1>1, <1>2, Typed, PTL DEF Spec

(* However many devices are added, at most one monitor thread is meant to  *)
(* run and it is the one stmgrHealthMonitorTID names.                      *)
THEOREM OneMonitor == Spec => []OneMonitorIsMeantToRun
<1>1. MonitorInv => OneMonitorIsMeantToRun
  BY DEF MonitorInv, OneMonitorIsMeantToRun
<1> QED
  BY <1>1, MonitorsFollowTID, PTL

-----------------------------------------------------------------------------
(* The mutex is lost for good only to a cancellation that strikes in the   *)
(* I/O of a device of the table: where no such medium is listed, it never  *)
(* is.                                                                     *)
THEOREM OrphanNeedsBlockingMedia == Spec => []OrphanedByBlockingMedia
<1> USE DEF OrphanedByBlockingMedia, Orphaned, Listed, Keys
<1>1. Init => OrphanedByBlockingMedia
  BY StorageMainAssumption DEF Init, Threads
<1>2. TypedInv /\ LockInv /\ WalkInv /\ OrphanedByBlockingMedia /\ [Next]_vars
        => OrphanedByBlockingMedia'
  <2> SUFFICES ASSUME TypedInv, LockInv, WalkInv, OrphanedByBlockingMedia, [Next]_vars PROVE OrphanedByBlockingMedia'
    OBVIOUS
  <2> USE StorageMainAssumption DEF hotplugVars, monitorVars, clientVars, TypedInv, TypeOK, Threads
  <2>1. ASSUME NEW p \in Paths, NEW o \in Objects, NewDevice(p, o) PROVE OrphanedByBlockingMedia'
    BY <2>1 DEF NewDevice
  <2>2. ASSUME NEW p \in Paths, RemoveDevice(p) PROVE OrphanedByBlockingMedia'
    BY <2>2 DEF RemoveDevice
  <2>3. CASE HotplugStep
    <3>1. CASE AddLock
      BY <3>1 DEF AddLock, Acquire
    <3>2. CASE Insert
      BY <3>2 DEF Insert, LockInv, HotplugHolds
    <3>3. CASE AddUnlock
      BY <3>3 DEF AddUnlock, Release
    <3>4. CASE CancelMonitor
      BY <3>4 DEF CancelMonitor
    <3>5. CASE GraceOver
      BY <3>5 DEF GraceOver
    <3>6. ASSUME NEW w \in Workers, CreateMonitor(w) PROVE OrphanedByBlockingMedia'
      BY <3>6 DEF CreateMonitor
    <3>7. CASE AnnounceAdd
      BY <3>7 DEF AnnounceAdd
    <3>8. CASE DelLock
      BY <3>8 DEF DelLock, Acquire
    <3>9. CASE Erase
      BY <3>9 DEF Erase, LockInv, HotplugHolds
    <3>10. CASE Destroy
      BY <3>10 DEF Destroy
    <3>11. CASE DelUnlock
      BY <3>11 DEF DelUnlock, Release
    <3>12. CASE AnnounceRemove
      BY <3>12 DEF AnnounceRemove
    <3> QED
      BY <2>3, <3>1, <3>2, <3>3, <3>4, <3>5, <3>6, <3>7, <3>8, <3>9, <3>10, <3>11, <3>12
         DEF HotplugStep
  <2>4. ASSUME NEW w \in Workers, WorkerStep(w) PROVE OrphanedByBlockingMedia'
    <3>1. CASE WakeUp(w)
      BY <3>1 DEF WakeUp
    <3>2. CASE MonitorLock(w)
      BY <3>2 DEF MonitorLock, Acquire
    <3>3. CASE MonitorDevice(w)
      BY <3>3 DEF MonitorDevice
    <3>4. CASE MonitorUnlock(w)
      BY <3>4 DEF MonitorUnlock, Release
    <3>5. CASE Die(w)
      BY <3>5 DEF Die, AtCancelPoint, LockInv, WalkInv
    <3> QED
      BY <2>4, <3>1, <3>2, <3>3, <3>4, <3>5 DEF WorkerStep
  <2>5. ASSUME NEW c \in Clients, ClientStep(c) PROVE OrphanedByBlockingMedia'
    <3>1. CASE ClientLock(c)
      BY <3>1 DEF ClientLock, Acquire
    <3>2. CASE Visit(c)
      BY <3>2 DEF Visit
    <3>3. CASE ClientUnlock(c)
      BY <3>3 DEF ClientUnlock, Release
    <3>4. CASE Return(c)
      BY <3>4 DEF Return
    <3> QED
      BY <2>5, <3>1, <3>2, <3>3, <3>4 DEF ClientStep
  <2>6. ASSUME NEW c \in Clients, NEW S \in Requests, Call(c, S) PROVE OrphanedByBlockingMedia'
    BY <2>6 DEF Call
  <2>7. CASE UNCHANGED vars
    BY <2>7 DEF vars
  <2> QED
    BY <2>1, <2>2, <2>3, <2>4, <2>5, <2>6, <2>7 DEF Next
<1> QED
  BY <1>1, <1>2, Typed, LockDiscipline, LoopsFollowTable, PTL DEF Spec

-----------------------------------------------------------------------------
\* What a client has found and what it has ahead of it make up its answer.
AnswerInv ==
  \A c \in Clients :
    /\ cpc[c] = "walk" => got[c] \cup (want[c] \cap {table[p] : p \in cleft[c]}) = want[c] \cap Listed
    /\ cpc[c] \in {"idle", "lock"} => got[c] = {}

(* What an enquiry has found and what it will still find add up to what it *)
(* wants of the table: breaking off early loses nothing.                   *)
LEMMA AnswersAddUp == Spec => []AnswerInv
<1> USE DEF AnswerInv, Keys, Listed
<1>1. Init => AnswerInv
  BY DEF Init
<1>2. TypedInv /\ LockInv /\ WalkInv /\ AnswerInv /\ [Next]_vars => AnswerInv'
  <2> SUFFICES ASSUME TypedInv, LockInv, WalkInv, AnswerInv, [Next]_vars PROVE AnswerInv'
    OBVIOUS
  <2> USE StorageMainAssumption DEF hotplugVars, monitorVars, clientVars, TypedInv, TypeOK, ClientPCs
  <2>1. ASSUME NEW p \in Paths, NEW o \in Objects, NewDevice(p, o) PROVE AnswerInv'
    BY <2>1 DEF NewDevice
  <2>2. ASSUME NEW p \in Paths, RemoveDevice(p) PROVE AnswerInv'
    BY <2>2 DEF RemoveDevice
  <2>3. CASE HotplugStep
    <3>1. CASE AddLock
      BY <3>1 DEF AddLock, Acquire
    <3>2. CASE Insert
      BY <3>2 DEF Insert, LockInv, HotplugHolds, Threads
    <3>3. CASE AddUnlock
      BY <3>3 DEF AddUnlock, Release
    <3>4. CASE CancelMonitor
      BY <3>4 DEF CancelMonitor
    <3>5. CASE GraceOver
      BY <3>5 DEF GraceOver
    <3>6. ASSUME NEW w \in Workers, CreateMonitor(w) PROVE AnswerInv'
      BY <3>6 DEF CreateMonitor
    <3>7. CASE AnnounceAdd
      BY <3>7 DEF AnnounceAdd
    <3>8. CASE DelLock
      BY <3>8 DEF DelLock, Acquire
    <3>9. CASE Erase
      BY <3>9 DEF Erase, LockInv, HotplugHolds, Threads
    <3>10. CASE Destroy
      BY <3>10 DEF Destroy
    <3>11. CASE DelUnlock
      BY <3>11 DEF DelUnlock, Release
    <3>12. CASE AnnounceRemove
      BY <3>12 DEF AnnounceRemove
    <3> QED
      BY <2>3, <3>1, <3>2, <3>3, <3>4, <3>5, <3>6, <3>7, <3>8, <3>9, <3>10, <3>11, <3>12
         DEF HotplugStep
  <2>4. ASSUME NEW w \in Workers, WorkerStep(w) PROVE AnswerInv'
    BY <2>4, OthersLeaveTheTable DEF OthersFrame
  <2>5. ASSUME NEW c \in Clients, ClientStep(c) PROVE AnswerInv'
    <3>1. CASE ClientLock(c)
      BY <3>1 DEF ClientLock, Acquire
    <3>2. CASE Visit(c)
      BY <3>2 DEF Visit, WalkInv
    <3>3. CASE ClientUnlock(c)
      BY <3>3 DEF ClientUnlock, Release
    <3>4. CASE Return(c)
      BY <3>4 DEF Return
    <3> QED
      BY <2>5, <3>1, <3>2, <3>3, <3>4 DEF ClientStep
  <2>6. ASSUME NEW c \in Clients, NEW S \in Requests, Call(c, S) PROVE AnswerInv'
    BY <2>6 DEF Call
  <2>7. CASE UNCHANGED vars
    BY <2>7 DEF vars
  <2> QED
    BY <2>1, <2>2, <2>3, <2>4, <2>5, <2>6, <2>7 DEF Next
<1> QED
  BY <1>1, <1>2, Typed, LockDiscipline, LoopsFollowTable, PTL DEF Spec

-----------------------------------------------------------------------------
(* The refinement.  Inserting and erasing are the steps at which the set   *)
(* of devices changes; a call takes effect when its handler unlocks.       *)
IInv == TypedInv /\ LockInv /\ HeapInv /\ WalkInv /\ AnswerInv

Asked    == [c \in Clients |-> IF cpc[c] = "idle" THEN None ELSE want[c]]
Answered == [c \in Clients |-> IF cpc[c] = "reply" THEN got[c] ELSE None]

(* An insertion under a new path is the arrival of the device, any other   *)
(* insertion leaves the abstract table as it was.                          *)
LEMMA InsertArrives ==
  ASSUME IInv, Insert
  PROVE  UNCHANGED <<Asked, Answered>> /\ (Listed' = Listed \/ \E d \in Objects : Table!Arrive(d))
<1> USE StorageMainAssumption DEF IInv, TypedInv, TypeOK, LocalsInv, HeapInv, Adding, Insert, clientVars
<1>1. UNCHANGED <<Asked, Answered>>
  BY DEF Asked, Answered
<1>2. CASE table[hpath] # None
  <2>1. table' = table
    BY <1>2
  <2> QED
    BY <1>1, <2>1 DEF Listed, Keys
<1>3. CASE table[hpath] = None
  <2>1. Listed' = Listed \cup {hobj}
    BY <1>3 DEF Listed, Keys, Threads
  <2>2. hobj \in Objects /\ hobj \notin Listed
    OBVIOUS
  <2> QED
    BY <1>1, <2>1, <2>2 DEF Table!Arrive, Asked, Answered
<1> QED
  BY <1>2, <1>3

(* An erasure that finds its path is the departure of the device there.    *)
LEMMA EraseLeaves ==
  ASSUME IInv, Erase
  PROVE  UNCHANGED <<Asked, Answered>> /\ (Listed' = Listed \/ \E d \in Objects : Table!Leave(d))
<1> USE StorageMainAssumption DEF IInv, TypedInv, TypeOK, LocalsInv, HeapInv, Erase, clientVars
<1>1. UNCHANGED <<Asked, Answered>>
  BY DEF Asked, Answered
<1>2. CASE table[hpath] = None
  <2>1. table' = table
    BY <1>2
  <2> QED
    BY <1>1, <2>1 DEF Listed, Keys
<1>3. CASE table[hpath] # None
  <2> DEFINE d == table[hpath]
  <2>1. d \in Listed /\ d \in Objects
    BY <1>3 DEF Listed, Keys
  <2>2. Listed' = Listed \ {d}
    BY <1>3 DEF Listed, Keys
  <2> QED
    BY <1>1, <2>1, <2>2 DEF Table!Leave, Asked, Answered
<1> QED
  BY <1>2, <1>3

(* The enquiry's steps: calling asks, unlocking answers, returning         *)
(* collects, and the rest is invisible.                                    *)
LEMMA ClientStepsMap ==
  ASSUME IInv, NEW c \in Clients, ClientStep(c)
  PROVE  Table!Answer(c) \/ Table!Collect(c) \/ UNCHANGED <<Listed, Asked, Answered>>
<1> USE StorageMainAssumption DEF IInv, TypedInv, TypeOK, ClientPCs
<1>1. Listed' = Listed
  BY OthersLeaveTheTable DEF OthersFrame, Listed, Keys
<1>2. CASE ClientLock(c)
  BY <1>1, <1>2 DEF ClientLock, Asked, Answered
<1>3. CASE Visit(c)
  BY <1>1, <1>3 DEF Visit, Asked, Answered
<1>4. CASE ClientUnlock(c)
  <2>1. cpc[c] = "walk" /\ got[c] = want[c] \cap Listed
    BY <1>4 DEF ClientUnlock, AnswerInv
  <2>2. Answered' = [Answered EXCEPT ![c] = want[c] \cap Listed]
    BY <1>4, <2>1 DEF ClientUnlock, Answered
  <2>3. Asked' = Asked /\ Asked[c] = want[c] /\ want[c] # None /\ Answered[c] = None
    BY <1>4, <2>1 DEF ClientUnlock, Asked, Answered
  <2> QED
    BY <1>1, <2>2, <2>3 DEF Table!Answer, Asked, Answered
<1>5. CASE Return(c)
  <2>1. Answered[c] # None
    BY <1>5 DEF Return, Answered
  <2>2. Asked' = [Asked EXCEPT ![c] = None] /\ Answered' = [Answered EXCEPT ![c] = None]
    BY <1>5 DEF Return, Asked, Answered
  <2> QED
    BY <1>1, <2>1, <2>2 DEF Table!Collect, Asked, Answered
<1> QED
  BY <1>2, <1>3, <1>4, <1>5 DEF ClientStep

(* The RPC handlers, the hotplug thread and the monitors together behave   *)
(* as the device table of DeviceTable: every enquiry is answered from the  *)
(* set of devices at one moment.                                           *)
THEOREM Refinement == Spec => ImplementsDeviceTable
<1> USE StorageMainAssumption
<1>1. Init => Table!Init
  BY DEF Init, Table!Init, Listed, Keys
<1>2. IInv /\ [Next]_vars => [Table!Next]_<<Listed, Asked, Answered>>
  <2> SUFFICES ASSUME IInv, [Next]_vars
               PROVE  [Table!Next]_<<Listed, Asked, Answered>>
    OBVIOUS
  <2>1. ASSUME NEW p \in Paths, RemoveDevice(p) \/ \E o \in Objects : NewDevice(p, o)
        PROVE  UNCHANGED <<Listed, Asked, Answered>>
    BY <2>1 DEF RemoveDevice, NewDevice, clientVars, Listed, Keys, Asked, Answered
  <2>2. CASE HotplugStep
    <3>1. CASE Insert
      BY <3>1, InsertArrives DEF Table!Next
    <3>2. CASE Erase
      BY <3>2, EraseLeaves DEF Table!Next
    <3>3. CASE \/ AddLock \/ AddUnlock \/ CancelMonitor \/ GraceOver
               \/ \E w \in Workers : CreateMonitor(w)
               \/ AnnounceAdd \/ DelLock \/ Destroy \/ DelUnlock \/ AnnounceRemove
      BY <3>3 DEF AddLock, AddUnlock, CancelMonitor, GraceOver, CreateMonitor, AnnounceAdd,
                  DelLock, Destroy, DelUnlock, AnnounceRemove, clientVars,
                  Listed, Keys, Asked, Answered
    <3> QED
      BY <2>2, <3>1, <3>2, <3>3 DEF HotplugStep
  <2>3. ASSUME NEW w \in Workers, WorkerStep(w) PROVE UNCHANGED <<Listed, Asked, Answered>>
    BY <2>3, OthersLeaveTheTable DEF OthersFrame, clientVars, Listed, Keys, Asked, Answered
  <2>4. ASSUME NEW c \in Clients, ClientStep(c) PROVE [Table!Next]_<<Listed, Asked, Answered>>
    BY <2>4, ClientStepsMap DEF Table!Next
  <2>5. ASSUME NEW c \in Clients, NEW S \in Requests, Call(c, S)
        PROVE  Table!Ask(c, S)
    <3>1. Listed' = Listed
      BY <2>5, OthersLeaveTheTable DEF OthersFrame, Listed, Keys
    <3>2. Asked[c] = None /\ Asked' = [Asked EXCEPT ![c] = S] /\ Answered' = Answered
      BY <2>5 DEF Call, Asked, Answered, IInv, TypedInv, TypeOK
    <3> QED
      BY <3>1, <3>2 DEF Table!Ask, Asked, Answered
  <2>6. CASE UNCHANGED vars
    BY <2>6 DEF vars, clientVars, Listed, Keys, Asked, Answered
  <2> QED
    BY <2>1, <2>2, <2>3, <2>4, <2>5, <2>6 DEF Next, Table!Next
<1>3. Spec => []IInv
  BY Typed, LockDiscipline, HeapFollowsTable, LoopsFollowTable, AnswersAddUp, PTL DEF IInv
<1> QED
  BY <1>1, <1>2, <1>3, PTL DEF Spec, ImplementsDeviceTable, Table!Spec, Table!vars, Asked, Answered

-----------------------------------------------------------------------------
(* No deadlock.                                                            *)

\* Whom an add cancels was born, and the one it will create is not.
BornInv ==
  /\ \A w \in cancelled \cup {tid} : w # None => wpc[w] # "unborn"
  /\ hpc \in Adding \ {"announce"} => \E w \in Workers : wpc[w] = "unborn"

LEMMA BornFirst == Spec => []BornInv
<1> USE DEF BornInv
<1>1. Init => BornInv
  BY DEF Init, Adding
<1>2. TypedInv /\ BornInv /\ [Next]_vars => BornInv'
  <2> SUFFICES ASSUME TypedInv, BornInv, [Next]_vars PROVE BornInv'
    OBVIOUS
  <2> USE StorageMainAssumption DEF hotplugVars, monitorVars, TypedInv, TypeOK
  <2>1. ASSUME NEW p \in Paths, NEW o \in Objects, NewDevice(p, o) PROVE BornInv'
    BY <2>1 DEF NewDevice
  <2>2. ASSUME NEW p \in Paths, RemoveDevice(p) PROVE BornInv'
    BY <2>2 DEF RemoveDevice, Adding
  <2>3. CASE HotplugStep
    <3>1. CASE \/ AddLock \/ Insert \/ AddUnlock \/ GraceOver \/ AnnounceAdd
               \/ DelLock \/ Erase \/ Destroy \/ DelUnlock \/ AnnounceRemove
      <4>1. /\ UNCHANGED monitorVars
            /\ hpc' \in Adding \ {"announce"} => hpc \in Adding \ {"announce"}
        BY <3>1 DEF AddLock, Insert, AddUnlock, GraceOver, AnnounceAdd, DelLock, Erase, Destroy,
                    DelUnlock, AnnounceRemove, Adding
      <4> QED
        BY <4>1
    <3>2. CASE CancelMonitor
      BY <3>2 DEF CancelMonitor, Adding
    <3>3. ASSUME NEW w \in Workers, CreateMonitor(w) PROVE BornInv'
      BY <3>3 DEF CreateMonitor, Adding
    <3> QED
      BY <2>3, <3>1, <3>2, <3>3 DEF HotplugStep
  <2>4. ASSUME NEW w \in Workers, WorkerStep(w) PROVE BornInv'
    <3>1. /\ UNCHANGED <<hpc, tid, cancelled>> /\ wpc[w] # "unborn"
          /\ wpc' = wpc \/ \E at \in WorkerPCs \ {"unborn"} : wpc' = [wpc EXCEPT ![w] = at]
      BY <2>4 DEF WorkerStep, WakeUp, MonitorLock, MonitorDevice, MonitorUnlock, Die,
                  AtCancelPoint, WorkerPCs
    <3> QED
      BY <3>1
  <2>5. ASSUME NEW c \in Clients, ClientStep(c) PROVE BornInv'
    BY <2>5, OthersLeaveTheTable DEF OthersFrame
  <2>6. ASSUME NEW c \in Clients, NEW S \in Requests, Call(c, S) PROVE BornInv'
    BY <2>6, OthersLeaveTheTable DEF OthersFrame
  <2>7. CASE UNCHANGED vars
    BY <2>7 DEF vars
  <2> QED
    BY <2>1, <2>2, <2>3, <2>4, <2>5, <2>6, <2>7 DEF Next
<1> QED
  BY <1>1, <1>2, Typed, PTL DEF Spec

\* An iterator that is not at the end of the map stands on a key.
LEMMA SomeNext ==
  ASSUME NEW S \in SUBSET Paths, S # {}
  PROVE  \E p \in S : IsNext(p, S)
<1>1. S \subseteq Nat
  BY StorageMainAssumption
<1>2. PICK p \in S : \A q \in S : ~(<<q, p>> \in OpToRel(<, Nat))
  BY <1>1, WFMin, NatLessThanWellFounded
<1>3. \A q \in S : ~(q < p)
  BY <1>1, <1>2 DEF OpToRel
<1> QED
  BY <1>1, <1>3 DEF IsNext

\* The thread that holds the mutex can go on, unless it is dead.
LEMMA HolderCanMove ==
  ASSUME TypedInv, LockInv, owner # None, ~Orphaned
  PROVE  CanMove(owner) /\ owner \in Threads
<1> USE StorageMainAssumption DEF TypedInv, TypeOK, LockInv
<1>1. CASE owner \in Clients
  BY <1>1, SomeNext DEF CanMove, GoesOn, Threads
<1>2. CASE owner \in Workers
  <2>1. wpc[owner] \in {"query", "health"}
    BY <1>2 DEF Orphaned
  <2> QED
    BY <1>2, <2>1, SomeNext DEF CanMove, GoesOn, Threads
<1>3. CASE owner = Hotplug
  BY <1>3 DEF CanMove, HotplugHolds, Threads
<1> QED
  BY <1>1, <1>2, <1>3 DEF Threads

(* No deadlock but the lost mutex: every handler, add, remove and monitor  *)
(* round that cannot go on waits for a thread that can, for any number of  *)
(* them and any devices.  The grace of addNewMemoryDevice included, which  *)
(* waits for a thread while other threads wait for it.                     *)
THEOREM NoDeadlock == Spec => []NobodyWaitsInVain
<1>1. TypedInv /\ LockInv /\ BornInv => NobodyWaitsInVain
  <2> SUFFICES ASSUME TypedInv, LockInv, BornInv, NEW t \in Threads, Busy(t)
               PROVE  \/ CanMove(t)
                      \/ \E u \in WaitsFor(t) : CanMove(u)
                      \/ AtLock(t) /\ Orphaned
    BY DEF NobodyWaitsInVain
  <2> USE StorageMainAssumption DEF TypedInv, TypeOK, Threads
  <2>1. CASE AtLock(t)
    <3>1. CASE owner = None
      BY <2>1, <3>1 DEF CanMove
    <3>2. CASE owner # None /\ ~Orphaned
      BY <2>1, <3>2, HolderCanMove DEF WaitsFor
    <3> QED
      BY <2>1, <3>1, <3>2
  <2>2. CASE ~AtLock(t) /\ t \in Clients
    <3>1. cpc[t] \in {"walk", "reply"}
      BY <2>2 DEF AtLock, Busy, ClientPCs
    <3>2. cpc[t] = "walk" => owner = t
      BY <2>2 DEF LockInv
    <3> QED
      BY <2>2, <3>1, <3>2, SomeNext DEF CanMove, GoesOn
  <2>3. CASE ~AtLock(t) /\ t \in Workers
    <3>1. wpc[t] \in {"sleep", "query", "health"}
      BY <2>3 DEF AtLock, Busy, WorkerPCs
    <3>2. wpc[t] \in {"query", "health"} => owner = t
      BY <2>3 DEF LockInv
    <3> QED
      BY <2>3, <3>1, <3>2, SomeNext DEF CanMove, GoesOn
  <2>4. CASE ~AtLock(t) /\ t = Hotplug
    <3>1. CASE hpc # "grace"
      <4>1. hpc \in {"addUnlock", "delUnlock"} => owner = Hotplug
        BY DEF LockInv, HotplugHolds
      <4>2. hpc = "create" => \E w \in Workers : wpc[w] = "unborn"
        BY DEF BornInv, Adding
      <4>3. hpc \in HotplugPCs \ {"idle", "addLock", "delLock", "grace"}
        BY <2>4, <3>1 DEF AtLock, Busy
      <4> QED
        BY <2>4, <4>1, <4>2, <4>3 DEF CanMove, HotplugPCs
    <3>2. ASSUME hpc = "grace", NEW w \in cancelled, ~Outlasted(w)
          PROVE  w \in WaitsFor(t) /\ CanMove(w)
      <4>1. w \in Workers /\ wpc[w] \notin {"unborn", "dead"}
        BY <3>2 DEF BornInv, Outlasted
      <4>2. w \in WaitsFor(t)
        BY <2>4, <3>2, <4>1 DEF WaitsFor
      <4>3. CASE wpc[w] \in {"queryLock", "healthLock"}
        BY <3>2, <4>1, <4>2, <4>3 DEF Outlasted, CanMove, AtLock
      <4>4. CASE wpc[w] = "sleep"
        BY <4>1, <4>2, <4>4 DEF CanMove
      <4>5. CASE wpc[w] \in {"query", "health"}
        BY <4>1, <4>2, <4>5, SomeNext DEF CanMove, GoesOn, LockInv
      <4> QED
        BY <4>1, <4>3, <4>4, <4>5 DEF WorkerPCs
    <3>3. CASE hpc = "grace" /\ \A w \in cancelled : Outlasted(w)
      BY <2>4, <3>3 DEF CanMove
    <3> QED
      BY <3>1, <3>2, <3>3
  <2> QED
    BY <2>1, <2>2, <2>3, <2>4
<1> QED
  BY <1>1, Typed, LockDiscipline, BornFirst, PTL

-----------------------------------------------------------------------------
(* The way of each thread through its function.                            *)

\* What every invariant above says of the threads, together.
ThreadInv == TypedInv /\ LockInv /\ MonitorInv /\ BornInv

LEMMA SafeSpec == Spec => []ThreadInv /\ [][Next]_vars
<1>1. TypedInv /\ LockInv /\ MonitorInv /\ BornInv <=> ThreadInv
  BY DEF ThreadInv
<1> QED
  BY <1>1, Typed, LockDiscipline, MonitorsFollowTID, BornFirst, PTL DEF Spec

\* Thread t is where it was, unless it had nothing to do.
Unmoved(t) ==
  /\ owner' = t <=> owner = t
  /\ t \in Clients => (cpc[t] # "idle" => cpc'[t] = cpc[t]) /\ cleft'[t] = cleft[t]
  /\ t \in Workers => (wpc[t] # "unborn" => wpc'[t] = wpc[t]) /\ wleft'[t] = wleft[t]
  /\ t = Hotplug => (hpc # "idle" => hpc' = hpc)

\* No step of another thread moves t.
LEMMA OwnStepsOnly ==
  ASSUME ThreadInv, [Next]_vars, NEW t \in Threads
  PROVE  StepOf(t) \/ Unmoved(t)
<1> USE StorageMainAssumption DEF ThreadInv, TypedInv, TypeOK, LockInv, HotplugHolds, Threads, Unmoved,
        hotplugVars, monitorVars, clientVars
<1>1. ASSUME NEW p \in Paths, RemoveDevice(p) PROVE Unmoved(t)
  BY <1>1 DEF RemoveDevice
<1>2. ASSUME NEW p \in Paths, NEW o \in Objects, NewDevice(p, o) PROVE Unmoved(t)
  BY <1>2 DEF NewDevice
<1>3. ASSUME HotplugStep, t # Hotplug PROVE Unmoved(t)
  <2>1. CASE AddLock \/ DelLock
    BY <1>3, <2>1 DEF AddLock, DelLock, Acquire
  <2>2. CASE AddUnlock \/ DelUnlock
    BY <1>3, <2>2 DEF AddUnlock, DelUnlock, Release
  <2>3. CASE Insert \/ CancelMonitor \/ GraceOver \/ AnnounceAdd \/ Erase \/ Destroy \/ AnnounceRemove
    <3>1. UNCHANGED <<owner, wpc, wleft, cpc, cleft>>
      BY <2>3 DEF Insert, CancelMonitor, GraceOver, AnnounceAdd, Erase, Destroy, AnnounceRemove
    <3> QED
      BY <1>3, <3>1
  <2>4. ASSUME NEW w \in Workers, CreateMonitor(w) PROVE Unmoved(t)
    BY <1>3, <2>4 DEF CreateMonitor
  <2> QED
    BY <1>3, <2>1, <2>2, <2>3, <2>4 DEF HotplugStep
<1>4. ASSUME NEW w \in Workers, WorkerStep(w), t # w PROVE Unmoved(t)
  <2>1. hpc' = hpc /\ UNCHANGED clientVars
    BY <1>4, OthersLeaveTheTable DEF OthersFrame
  <2>2. \A u \in Workers \ {w} : wpc'[u] = wpc[u] /\ wleft'[u] = wleft[u]
    BY <1>4 DEF WorkerStep, WakeUp, MonitorLock, MonitorDevice, MonitorUnlock, Die
  <2>3. owner' = t <=> owner = t
    BY <1>4 DEF WorkerStep, WakeUp, MonitorLock, MonitorDevice, MonitorUnlock, Die, Acquire, Release
  <2> QED
    BY <1>4, <2>1, <2>2, <2>3
<1>5. ASSUME NEW c \in Clients, ClientStep(c), t # c PROVE Unmoved(t)
  <2>1. hpc' = hpc /\ UNCHANGED monitorVars
    BY <1>5, OthersLeaveTheTable DEF OthersFrame
  <2>2. \A u \in Clients \ {c} : cpc'[u] = cpc[u] /\ cleft'[u] = cleft[u]
    BY <1>5 DEF ClientStep, ClientLock, Visit, ClientUnlock, Return
  <2>3. owner' = t <=> owner = t
    BY <1>5 DEF ClientStep, ClientLock, Visit, ClientUnlock, Return, Acquire, Release
  <2> QED
    BY <1>5, <2>1, <2>2, <2>3
<1>6. ASSUME NEW c \in Clients, NEW S \in Requests, Call(c, S) PROVE Unmoved(t)
  BY <1>6 DEF Call
<1>7. CASE UNCHANGED vars
  BY <1>7 DEF vars
<1> QED
  BY <1>1, <1>2, <1>3, <1>4, <1>5, <1>6, <1>7 DEF Next, StepOf

\* A handler that walks the table has less of it ahead, or unlocks.
LEMMA ClientMoves ==
  ASSUME ThreadInv, NEW c \in Clients, StepOf(c)
  PROVE  /\ cpc[c] = "lock" => cpc'[c] = "walk" /\ LockOf(c)
         /\ cpc[c] = "walk" => \/ /\ cpc'[c] = "walk" /\ owner' = c
                                  /\ cleft'[c] \in (SUBSET cleft[c]) \ {cleft[c]}
                               \/ cpc'[c] = "reply" /\ owner' = None
         /\ cpc[c] = "reply" => cpc'[c] = "idle"
         /\ cpc[c] # "idle"
<1> USE StorageMainAssumption DEF ThreadInv, TypedInv, TypeOK, LockInv, Threads
<1>1. ClientStep(c)
  BY DEF StepOf
<1>2. CASE ClientLock(c)
  BY <1>2 DEF ClientLock, LockOf
<1>3. CASE Visit(c)
  BY <1>3 DEF Visit, IsNext
<1>4. CASE ClientUnlock(c)
  BY <1>4 DEF ClientUnlock, Release
<1>5. CASE Return(c)
  BY <1>5 DEF Return
<1> QED
  BY <1>1, <1>2, <1>3, <1>4, <1>5 DEF ClientStep

\* So does a monitor thread, unless it dies where it is.
LEMMA WorkerMoves ==
  ASSUME ThreadInv, NEW w \in Workers, StepOf(w)
  PROVE  /\ wpc[w] = "queryLock" => wpc'[w] = "query" /\ LockOf(w)
         /\ wpc[w] = "healthLock" => wpc'[w] = "health" /\ LockOf(w)
         /\ wpc[w] \in {"query", "health"} =>
              \/ /\ wpc'[w] = wpc[w] /\ owner' = w
                 /\ wleft'[w] \in (SUBSET wleft[w]) \ {wleft[w]}
              \/ wpc'[w] = (IF wpc[w] = "query" THEN "healthLock" ELSE "sleep") /\ owner' = None
              \/ wpc'[w] = "dead" /\ owner' = w
         /\ wpc[w] = "sleep" => wpc'[w] = IF w \in cancelled THEN "dead" ELSE "queryLock"
         /\ wpc[w] \notin {"unborn", "dead"}
<1> USE StorageMainAssumption DEF ThreadInv, TypedInv, TypeOK, LockInv, Threads
<1>1. WorkerStep(w)
  BY DEF StepOf
<1>2. CASE WakeUp(w)
  BY <1>2 DEF WakeUp
<1>3. CASE MonitorLock(w)
  BY <1>3 DEF MonitorLock, LockOf
<1>4. CASE MonitorDevice(w)
  BY <1>4 DEF MonitorDevice, IsNext
<1>5. CASE MonitorUnlock(w)
  BY <1>5 DEF MonitorUnlock, Release
<1>6. CASE Die(w)
  BY <1>6 DEF Die, AtCancelPoint
<1> QED
  BY <1>1, <1>2, <1>3, <1>4, <1>5, <1>6 DEF WorkerStep

\* Where an add or a remove goes on.
HotplugAfter == [
  addLock   |-> {"insert"},
  insert    |-> {"addUnlock"},
  addUnlock |-> {"cancel", "create"},
  cancel    |-> {"grace"},
  grace     |-> {"create"},
  create    |-> {"announce"},
  announce  |-> {"idle"},
  delLock   |-> {"erase"},
  erase     |-> {"destroy", "delUnlock"},
  destroy   |-> {"delUnlock"},
  delUnlock |-> {"farewell", "idle"},
  farewell  |-> {"idle"}]

LEMMA HotplugMoves ==
  ASSUME ThreadInv, StepOf(Hotplug)
  PROVE  hpc' \in HotplugAfter[hpc] /\ hpc # "idle" /\ (hpc \in {"addLock", "delLock"} => LockOf(Hotplug))
<1> USE StorageMainAssumption DEF ThreadInv, TypedInv, TypeOK, HotplugAfter
<1>1. HotplugStep
  BY DEF StepOf
<1>2. CASE AddLock \/ DelLock
  BY <1>2 DEF AddLock, DelLock, LockOf
<1>3. CASE AddUnlock \/ DelUnlock
  BY <1>3 DEF AddUnlock, DelUnlock
<1>4. CASE Insert \/ CancelMonitor \/ GraceOver \/ AnnounceAdd \/ Erase \/ Destroy \/ AnnounceRemove
  BY <1>4 DEF Insert, CancelMonitor, GraceOver, AnnounceAdd, Erase, Destroy, AnnounceRemove
<1>5. ASSUME NEW w \in Workers, CreateMonitor(w) PROVE hpc = "create" /\ hpc' = "announce"
  BY <1>5 DEF CreateMonitor
<1> QED
  BY <1>1, <1>2, <1>3, <1>4, <1>5 DEF HotplugStep

-----------------------------------------------------------------------------
(* Liveness.  The prover knows nothing of ENABLED: that a thread which can *)
(* move by CanMove has a step that is enabled is ThreadsWaitAtLocksOnly,   *)
(* which TLC checks.  Nor does it know induction over temporal formulas:   *)
(* the rule that a set which cannot shrink for ever comes to an end is a   *)
(* hypothesis, LoopsDescend for the loops over the table and GraceDescends *)
(* for the monitors a grace waits for.  What the rule asks for is proved.  *)

FairRun == FairSpec /\ []ThreadsWaitAtLocksOnly

\* Thread t is in its loop over the table, with the paths of Ahead(t) to go.
Walks(t) == owner = t /\ ~Orphaned
Ahead(t) == IF t \in Clients THEN cleft[t] ELSE wleft[t]

LessAhead(t, S) ==
  Walks(t) /\ Ahead(t) = S ~> ~Walks(t) \/ Ahead(t) \in (SUBSET S) \ {S}
Unlocks(t) == Walks(t) ~> ~Walks(t)

LoopDescends(t) == (\A S \in SUBSET Paths : LessAhead(t, S)) => Unlocks(t)
LoopsDescend == \A t \in Clients \cup Workers : LoopDescends(t)

\* The cancelled threads that have not ended yet.
Dying == {w \in cancelled : wpc[w] # "dead"}

FewerDying(S) ==
  hpc = "grace" /\ Dying = S ~> hpc # "grace" \/ Orphaned \/ Dying \in (SUBSET S) \ {S}
GraceEnds == hpc = "grace" ~> hpc # "grace" \/ Orphaned

GraceDescends == (\A S \in SUBSET Workers : FewerDying(S)) => GraceEnds

Sure == FairRun /\ LoopsDescend

CanStep(t) == ENABLED <<StepOf(t)>>_vars
CanLock(t) == ENABLED <<LockOf(t)>>_vars

\* What fairness and the locks say of each thread.
LEMMA EachThread ==
  ASSUME NEW t \in Threads
  PROVE  /\ FairRun => FairTo(t)
         /\ ThreadsWaitAtLocksOnly => (CanMove(t) => CanStep(t))
         /\ ThreadsWaitAtLocksOnly => (AtLock(t) /\ owner = None => CanLock(t))
<1>1. Fairness => FairTo(t)
  BY DEF Fairness
<1>2. FairRun => FairTo(t)
  BY <1>1, PTL DEF FairRun, FairSpec
<1>3. ThreadsWaitAtLocksOnly => WaitsAtLocksOnly(t)
  BY DEF ThreadsWaitAtLocksOnly
<1>4. WaitsAtLocksOnly(t) => (CanMove(t) => CanStep(t))
  BY DEF WaitsAtLocksOnly, CanStep, CanLock
<1>5. WaitsAtLocksOnly(t) => (AtLock(t) /\ owner = None => CanLock(t))
  BY DEF WaitsAtLocksOnly, CanStep, CanLock
<1> QED
  BY <1>2, <1>3, <1>4, <1>5

\* A step of a loop leaves less of it.
LEMMA LoopShrinks ==
  ASSUME NEW t \in Clients \cup Workers, NEW S \in SUBSET Paths
  PROVE  FairRun => LessAhead(t, S)
<1> DEFINE P == Walks(t) /\ Ahead(t) = S
           Q == ~Walks(t) \/ Ahead(t) \in (SUBSET S) \ {S}
<1> USE StorageMainAssumption
<1>1. t \in Threads
  BY DEF Threads
<1>2. ThreadInv /\ ThreadInv' /\ P /\ StepOf(t) => Q'
  <2> SUFFICES ASSUME ThreadInv, P, StepOf(t) PROVE Q'
    OBVIOUS
  <2>1. CASE t \in Clients
    <3>1. cpc[t] = "walk"
      BY <2>1 DEF ThreadInv, LockInv, Walks
    <3> QED
      BY <2>1, <3>1, ClientMoves DEF Walks, Ahead, Threads
  <2>2. CASE t \in Workers
    <3>1. wpc[t] \in {"query", "health"} /\ t \notin Clients
      BY <2>2 DEF ThreadInv, LockInv, Walks, Orphaned
    <3> QED
      BY <2>2, <3>1, WorkerMoves DEF Walks, Ahead, Threads, Orphaned
  <2> QED
    BY <2>1, <2>2
<1>3. ThreadInv /\ ThreadInv' /\ P /\ [Next]_vars => P' \/ Q'
  <2> SUFFICES ASSUME ThreadInv, P, [Next]_vars, ~StepOf(t) PROVE P' \/ Q'
    BY <1>2
  <2>1. Unmoved(t)
    BY <1>1, OwnStepsOnly
  <2> QED
    BY <2>1 DEF Unmoved, Ahead, Walks, Orphaned
<1>4. ThreadInv /\ P => CanMove(t)
  BY HolderCanMove, <1>1 DEF ThreadInv, Walks, Threads
<1>5. ThreadsWaitAtLocksOnly => (CanMove(t) => CanStep(t))
  BY <1>1, EachThread
<1>6. FairRun => FairTo(t)
  BY <1>1, EachThread
<1>7. ThreadInv /\ ThreadInv' /\ P /\ <<StepOf(t)>>_vars => Q'
  BY <1>2
<1> QED
  BY <1>3, <1>4, <1>5, <1>6, <1>7, SafeSpec, PTL DEF FairRun, FairSpec, FairTo, CanStep, LessAhead

HotplugLeaves(l) == hpc = l ~> hpc \in HotplugAfter[l]

LEMMA HotplugStays ==
  ASSUME NEW l \in HotplugPCs \ {"idle"}
  PROVE  ThreadInv /\ [Next]_vars /\ hpc = l => hpc' = l \/ hpc' \in HotplugAfter[l]
BY StorageMainAssumption, OwnStepsOnly, HotplugMoves DEF Unmoved, Threads

\* An add or a remove goes on where it waits for nobody.
LEMMA HotplugGoesOn ==
  ASSUME NEW l \in HotplugPCs \ {"idle", "addLock", "delLock", "grace"}
  PROVE  FairRun => HotplugLeaves(l)
<1> USE StorageMainAssumption
<1>1. PICK t \in Threads : t = Hotplug
  BY DEF Threads
<1>2. ThreadInv /\ [Next]_vars /\ hpc = l => (hpc = l)' \/ (hpc \in HotplugAfter[l])'
  BY HotplugStays
<1>3. ThreadInv /\ hpc = l /\ <<StepOf(t)>>_vars => (hpc \in HotplugAfter[l])'
  BY <1>1, HotplugMoves
<1>4. ThreadInv /\ hpc = l => CanMove(t)
  BY <1>1 DEF ThreadInv, LockInv, HotplugHolds, BornInv, Adding, CanMove, HotplugPCs
<1>5. ThreadsWaitAtLocksOnly => (CanMove(t) => CanStep(t))
  BY EachThread
<1>6. FairRun => FairTo(t)
  BY EachThread
<1> QED
  BY <1>2, <1>3, <1>4, <1>5, <1>6, SafeSpec, PTL DEF FairRun, FairSpec, FairTo, CanStep, HotplugLeaves

\* Whoever takes the mutex gives it back, unless it dies with it.
LEMMA HolderGivesBack ==
  ASSUME NEW t \in Threads
  PROVE  Sure => GivesBack(t)
<1>1. CASE t \in Clients \cup Workers
  <2>1. ASSUME NEW S \in SUBSET Paths PROVE FairRun => LessAhead(t, S)
    BY <1>1, LoopShrinks
  <2>2. FairRun => \A S \in SUBSET Paths : LessAhead(t, S)
    BY <2>1
  <2>3. LoopsDescend => LoopDescends(t)
    BY <1>1 DEF LoopsDescend
  <2>4. Sure => Unlocks(t)
    BY <2>2, <2>3 DEF Sure, LoopDescends
  <2>5. owner # t <=> ~(owner = t)
    OBVIOUS
  <2> QED
    BY <2>4, <2>5, PTL DEF Unlocks, Walks, GivesBack
<1>2. CASE t = Hotplug
  <2>1. FairRun => /\ HotplugLeaves("insert") /\ HotplugLeaves("addUnlock") /\ HotplugLeaves("erase")
                   /\ HotplugLeaves("destroy") /\ HotplugLeaves("delUnlock")
    BY HotplugGoesOn DEF HotplugPCs
  <2>2. ThreadInv => (owner = t <=> \/ hpc = "insert" \/ hpc = "addUnlock" \/ hpc = "erase"
                                    \/ hpc = "destroy" \/ hpc = "delUnlock")
    BY <1>2 DEF ThreadInv, LockInv, HotplugHolds
  <2>3. /\ hpc \in HotplugAfter["insert"] => hpc = "addUnlock"
        /\ hpc \in HotplugAfter["addUnlock"] => hpc = "cancel" \/ hpc = "create"
        /\ hpc \in HotplugAfter["erase"] => hpc = "destroy" \/ hpc = "delUnlock"
        /\ hpc \in HotplugAfter["destroy"] => hpc = "delUnlock"
        /\ hpc \in HotplugAfter["delUnlock"] => hpc = "farewell" \/ hpc = "idle"
    BY DEF HotplugAfter
  <2>4. ThreadInv /\ (hpc = "cancel" \/ hpc = "create" \/ hpc = "farewell" \/ hpc = "idle") => owner # t
    BY <1>2 DEF ThreadInv, LockInv, HotplugHolds
  <2> QED
    BY <2>1, <2>2, <2>3, <2>4, SafeSpec, PTL DEF Sure, FairRun, FairSpec, HotplugLeaves, GivesBack
<1> QED
  BY <1>1, <1>2 DEF Threads

\* The mutex is free, or will never be again.
Free == owner = None \/ Orphaned

ComesFree(t) == owner = t => <>Free
ComesFreeFromAll == \A t \in Threads : ComesFree(t)

\* The mutex passes from one thread to another only by being free.
LEMMA MutexIsHandedBack ==
  ThreadInv /\ [Next]_vars /\ owner # None => owner' = owner \/ owner' = None
<1> SUFFICES ASSUME ThreadInv, [Next]_vars, owner # None PROVE owner' = owner \/ owner' = None
  OBVIOUS
<1> USE DEF hotplugVars, monitorVars, clientVars, Acquire, Release
<1>1. ASSUME NEW p \in Paths, RemoveDevice(p) \/ \E o \in Objects : NewDevice(p, o)
      PROVE  owner' = owner
  BY <1>1 DEF RemoveDevice, NewDevice
<1>2. CASE HotplugStep
  BY <1>2 DEF HotplugStep, AddLock, Insert, AddUnlock, CancelMonitor, GraceOver, CreateMonitor,
     AnnounceAdd, DelLock, Erase, Destroy, DelUnlock, AnnounceRemove
<1>3. ASSUME NEW w \in Workers, WorkerStep(w) PROVE owner' = owner \/ owner' = None
  BY <1>3 DEF WorkerStep, WakeUp, MonitorLock, MonitorDevice, MonitorUnlock, Die
<1>4. ASSUME NEW c \in Clients, ClientStep(c) \/ \E S \in Requests : Call(c, S)
      PROVE  owner' = owner \/ owner' = None
  BY <1>4 DEF ClientStep, ClientLock, Visit, ClientUnlock, Return, Call
<1>5. CASE UNCHANGED vars
  BY <1>5 DEF vars
<1> QED
  BY <1>1, <1>2, <1>3, <1>4, <1>5 DEF Next

\* However many threads there are, the mutex is free again and again, or lost.
LEMMA MutexComesFree == Sure => []<>Free
<1>1. ASSUME NEW t \in Threads PROVE Sure => []ComesFree(t)
  <2>1. ThreadInv /\ [Next]_vars /\ owner = t => (owner = t)' \/ (owner = None)'
    BY StorageMainAssumption, MutexIsHandedBack
  <2>2. Sure => GivesBack(t)
    BY HolderGivesBack
  <2>3. owner # t <=> ~(owner = t)
    OBVIOUS
  <2> QED
    BY <2>1, <2>2, <2>3, SafeSpec, PTL DEF Sure, FairRun, FairSpec, ComesFree, GivesBack, Free
<1>2. Sure => \A t \in Threads : []ComesFree(t)
  BY <1>1
<1>3. (\A t \in Threads : []ComesFree(t)) => []ComesFreeFromAll
  BY DEF ComesFreeFromAll
<1>4. ThreadInv /\ ComesFreeFromAll => owner = None \/ <>Free
  <2> SUFFICES ASSUME ThreadInv, ComesFreeFromAll, owner # None PROVE <>Free
    OBVIOUS
  <2>1. PICK t \in Threads : owner = t
    BY DEF ThreadInv, TypedInv, TypeOK
  <2>2. ComesFree(t)
    BY DEF ComesFreeFromAll
  <2> QED
    BY <2>1, <2>2 DEF ComesFree
<1>5. owner = None => Free
  BY DEF Free
<1> QED
  BY <1>2, <1>3, <1>4, <1>5, SafeSpec, PTL DEF Sure, FairRun, FairSpec

GetsLock(t) == AtLock(t) ~> ~AtLock(t) \/ Orphaned

\* No thread waits for the mutex for ever, unless it is lost.
LEMMA NobodyStarves ==
  ASSUME NEW t \in Threads
  PROVE  Sure => GetsLock(t)
<1>1. ThreadInv /\ AtLock(t) /\ <<LockOf(t)>>_vars => ~AtLock(t)'
  BY StorageMainAssumption DEF ThreadInv, TypedInv, TypeOK, AtLock, LockOf, ClientLock, MonitorLock,
     AddLock, DelLock
<1>2. ThreadsWaitAtLocksOnly => (AtLock(t) /\ owner = None => CanLock(t))
  BY EachThread
<1>3. FairRun => FairTo(t)
  BY EachThread
<1> QED
  BY <1>1, <1>2, <1>3, MutexComesFree, SafeSpec, PTL DEF Sure, FairRun, FairSpec, FairTo, CanLock, GetsLock, Free

\* Every enquiry gets the lock, comes to the end of its loop and returns.
LEMMA EnquiriesReturn ==
  ASSUME NEW c \in Clients
  PROVE  Sure => GetsAnswer(c)
<1> USE StorageMainAssumption
<1>1. c \in Threads
  BY DEF Threads
<1>2. ThreadInv /\ [Next]_vars =>
        /\ cpc[c] = "lock" => (cpc[c] = "lock")' \/ (cpc[c] = "walk")'
        /\ cpc[c] = "walk" => (cpc[c] = "walk")' \/ (cpc[c] = "reply")'
        /\ cpc[c] = "reply" => (cpc[c] = "reply")' \/ (cpc[c] = "idle")'
  BY <1>1, OwnStepsOnly, ClientMoves DEF Unmoved
<1>3. ThreadInv => (cpc[c] = "lock" => AtLock(c)) /\ (cpc[c] = "walk" <=> owner = c)
  BY DEF ThreadInv, LockInv, AtLock
<1>4. ThreadInv /\ AtLock(c) => cpc[c] = "lock"
  BY DEF AtLock
<1>5. ThreadInv /\ cpc[c] = "reply" /\ <<StepOf(c)>>_vars => (cpc[c] = "idle")'
  BY ClientMoves
<1>6. cpc[c] = "reply" => CanMove(c)
  BY DEF CanMove
<1>7. ThreadsWaitAtLocksOnly => (CanMove(c) => CanStep(c))
  BY <1>1, EachThread
<1>8. FairRun => FairTo(c)
  BY <1>1, EachThread
<1>9. Sure => GetsLock(c)
  BY <1>1, NobodyStarves
<1>10. Sure => GivesBack(c)
  BY <1>1, HolderGivesBack
<1>11. owner # c <=> ~(owner = c)
  OBVIOUS
<1>12. Sure => (cpc[c] = "reply" ~> cpc[c] = "idle")
  BY <1>2, <1>5, <1>6, <1>7, <1>8, SafeSpec, PTL DEF Sure, FairRun, FairSpec, FairTo, CanStep
<1>13. Sure => (cpc[c] = "walk" ~> cpc[c] = "reply" \/ Orphaned)
  BY <1>2, <1>3, <1>10, <1>11, SafeSpec, PTL DEF Sure, FairRun, FairSpec, GivesBack
<1>14. Sure => (cpc[c] = "lock" ~> cpc[c] = "walk" \/ Orphaned)
  BY <1>2, <1>3, <1>4, <1>9, SafeSpec, PTL DEF Sure, FairRun, FairSpec, GetsLock
<1> QED
  BY <1>12, <1>13, <1>14, PTL DEF GetsAnswer

Dies(w) == w \in cancelled ~> wpc[w] = "dead" \/ Orphaned

\* Where a monitor thread that was cancelled goes on.
LEMMA CancelledGoesOn ==
  ASSUME ThreadInv, [Next]_vars, NEW w \in Workers, w \in cancelled
  PROVE  /\ w \in cancelled' /\ wpc[w] # "unborn"
         /\ wpc[w] = "queryLock" => wpc'[w] \in {"queryLock", "query"}
         /\ wpc[w] = "query" => wpc'[w] \in {"query", "healthLock", "dead"}
         /\ wpc[w] = "healthLock" => wpc'[w] \in {"healthLock", "health"}
         /\ wpc[w] = "health" => wpc'[w] \in {"health", "sleep", "dead"}
         /\ wpc[w] = "sleep" => wpc'[w] \in {"sleep", "dead"}
         /\ wpc[w] = "dead" => wpc'[w] = "dead"
<1> USE StorageMainAssumption
<1>1. w \in cancelled'
  <2>1. cancelled' = cancelled \/ CancelMonitor
    BY DEF Next, HotplugStep, WorkerStep, ClientStep, RemoveDevice, NewDevice, AddLock, Insert,
       AddUnlock, GraceOver, CreateMonitor, AnnounceAdd, DelLock, Erase, Destroy, DelUnlock,
       AnnounceRemove, WakeUp, MonitorLock, MonitorDevice, MonitorUnlock, Die, ClientLock, Visit,
       ClientUnlock, Return, Call, monitorVars, vars
  <2> QED
    BY <2>1 DEF CancelMonitor
<1>2. wpc[w] # "unborn"
  BY DEF ThreadInv, BornInv, TypedInv, TypeOK, Threads
<1>3. CASE StepOf(w)
  BY <1>1, <1>2, <1>3, WorkerMoves
<1>4. CASE Unmoved(w)
  BY <1>1, <1>2, <1>4 DEF Unmoved
<1> QED
  BY <1>3, <1>4, OwnStepsOnly DEF Threads

\* A cancelled thread comes to a cancellation point: asleep at the latest.
LEMMA CancelledDies ==
  ASSUME NEW w \in Workers
  PROVE  Sure => Dies(w)
<1> USE StorageMainAssumption
<1> DEFINE Gone == w \in cancelled
<1>1. w \in Threads
  BY DEF Threads
<1>2. ThreadInv /\ [Next]_vars /\ Gone =>
        /\ Gone'
        /\ wpc[w] = "queryLock" => (wpc[w] = "queryLock")' \/ (wpc[w] = "query")'
        /\ wpc[w] = "query" => (wpc[w] = "query")' \/ (wpc[w] = "healthLock")' \/ (wpc[w] = "dead")'
        /\ wpc[w] = "healthLock" => (wpc[w] = "healthLock")' \/ (wpc[w] = "health")'
        /\ wpc[w] = "health" => (wpc[w] = "health")' \/ (wpc[w] = "sleep")' \/ (wpc[w] = "dead")'
        /\ wpc[w] = "sleep" => (wpc[w] = "sleep")' \/ (wpc[w] = "dead")'
  BY CancelledGoesOn
<1>3. ThreadInv =>
        /\ wpc[w] = "queryLock" \/ wpc[w] = "healthLock" => AtLock(w)
        /\ AtLock(w) => wpc[w] = "queryLock" \/ wpc[w] = "healthLock"
        /\ wpc[w] = "query" \/ wpc[w] = "health" => owner = w
        /\ ~(wpc[w] = "queryLock" /\ wpc[w] = "query") /\ ~(wpc[w] = "healthLock" /\ wpc[w] = "health")
        /\ ~(wpc[w] = "query" /\ wpc[w] = "healthLock")
  BY <1>1 DEF ThreadInv, LockInv, AtLock
<1>4. ThreadInv /\ Gone /\ wpc[w] = "sleep" /\ <<StepOf(w)>>_vars => (wpc[w] = "dead")'
  BY WorkerMoves
<1>5. wpc[w] = "sleep" => CanMove(w)
  BY DEF CanMove
<1>6. ThreadsWaitAtLocksOnly => (CanMove(w) => CanStep(w))
  BY <1>1, EachThread
<1>7. FairRun => FairTo(w)
  BY <1>1, EachThread
<1>8. Sure => GetsLock(w)
  BY <1>1, NobodyStarves
<1>9. Sure => GivesBack(w)
  BY <1>1, HolderGivesBack
<1>10. owner # w <=> ~(owner = w)
  OBVIOUS
<1>11. ThreadInv /\ Gone => \/ wpc[w] = "queryLock" \/ wpc[w] = "query" \/ wpc[w] = "healthLock"
                            \/ wpc[w] = "health" \/ wpc[w] = "sleep" \/ wpc[w] = "dead"
  BY DEF ThreadInv, TypedInv, TypeOK, BornInv, WorkerPCs, Threads
<1>12. Sure => (Gone /\ wpc[w] = "sleep" ~> wpc[w] = "dead")
  BY <1>2, <1>4, <1>5, <1>6, <1>7, SafeSpec, PTL DEF Sure, FairRun, FairSpec, FairTo, CanStep
<1>13. Sure => (Gone /\ wpc[w] = "health" ~> (Gone /\ wpc[w] = "sleep") \/ wpc[w] = "dead" \/ Orphaned)
  BY <1>2, <1>3, <1>9, <1>10, SafeSpec, PTL DEF Sure, FairRun, FairSpec, GivesBack
<1>14. Sure => (Gone /\ wpc[w] = "healthLock" ~> (Gone /\ wpc[w] = "health") \/ Orphaned)
  BY <1>2, <1>3, <1>8, SafeSpec, PTL DEF Sure, FairRun, FairSpec, GetsLock
<1>15. Sure => (Gone /\ wpc[w] = "query" ~> (Gone /\ wpc[w] = "healthLock") \/ wpc[w] = "dead" \/ Orphaned)
  BY <1>2, <1>3, <1>9, <1>10, SafeSpec, PTL DEF Sure, FairRun, FairSpec, GivesBack
<1>16. Sure => (Gone /\ wpc[w] = "queryLock" ~> (Gone /\ wpc[w] = "query") \/ Orphaned)
  BY <1>2, <1>3, <1>8, SafeSpec, PTL DEF Sure, FairRun, FairSpec, GetsLock
<1> QED
  BY <1>11, <1>12, <1>13, <1>14, <1>15, <1>16, SafeSpec, PTL DEF Sure, FairRun, FairSpec, Dies

\* While an add waits for the threads it cancelled, none is added to them.
LEMMA GraceKeeps ==
  ASSUME ThreadInv, [Next]_vars, hpc = "grace"
  PROVE  Dying' \subseteq Dying /\ hpc' \in {"grace", "create"}
<1> USE StorageMainAssumption
<1>1. cancelled' = cancelled
  BY DEF Next, HotplugStep, WorkerStep, ClientStep, RemoveDevice, NewDevice, AddLock, Insert,
     AddUnlock, CancelMonitor, GraceOver, CreateMonitor, AnnounceAdd, DelLock, Erase, Destroy, DelUnlock,
     AnnounceRemove, WakeUp, MonitorLock, MonitorDevice, MonitorUnlock, Die, ClientLock, Visit,
     ClientUnlock, Return, Call, monitorVars, vars
<1>2. \A w \in cancelled : wpc[w] = "dead" => wpc'[w] = "dead"
  BY CancelledGoesOn DEF ThreadInv, TypedInv, TypeOK
<1>3. hpc' \in {"grace", "create"}
  BY OwnStepsOnly, HotplugMoves DEF Threads, Unmoved, HotplugAfter
<1> QED
  BY <1>1, <1>2, <1>3 DEF Dying

\* As long as one of them is left, one more of them dies, or the mutex is
\* lost; when none is left the grace is over.
LEMMA DyingDwindle ==
  ASSUME NEW S \in SUBSET Workers
  PROVE  Sure => FewerDying(S)
<1> USE StorageMainAssumption
<1> DEFINE P == hpc = "grace" /\ Dying = S
           Q == hpc # "grace" \/ Orphaned \/ Dying \in (SUBSET S) \ {S}
<1>1. ThreadInv /\ [Next]_vars /\ P => P' \/ Q'
  BY GraceKeeps
<1>2. CASE S = {}
  <2>1. PICK t \in Threads : t = Hotplug
    BY DEF Threads
  <2>2. ThreadInv /\ P => CanMove(t)
    BY <1>2, <2>1 DEF CanMove, Outlasted, Dying
  <2>3. ThreadsWaitAtLocksOnly => (CanMove(t) => CanStep(t))
    BY EachThread
  <2>4. FairRun => FairTo(t)
    BY EachThread
  <2>5. ThreadInv /\ P /\ <<StepOf(t)>>_vars => Q'
    BY <2>1, HotplugMoves DEF HotplugAfter
  <2> QED
    BY <1>1, <2>2, <2>3, <2>4, <2>5, SafeSpec, PTL
       DEF Sure, FairRun, FairSpec, FairTo, CanStep, FewerDying
<1>3. CASE S # {}
  <2>1. PICK w \in Workers : w \in S
    BY <1>3
  <2>2. P => w \in cancelled /\ ~(wpc[w] = "dead")
    BY <2>1 DEF Dying
  <2>3. Sure => Dies(w)
    BY CancelledDies
  <2> QED
    BY <1>1, <2>2, <2>3, SafeSpec, PTL DEF Sure, FairRun, FairSpec, Dies, FewerDying
<1> QED
  BY <1>2, <1>3

\* Every add and every remove ends.
LEMMA HotplugComesBack == Sure /\ GraceDescends => HotplugEnds
<1> USE StorageMainAssumption
<1>1. Sure /\ GraceDescends => GraceEnds
  <2>1. Sure => \A S \in SUBSET Workers : FewerDying(S)
    BY DyingDwindle
  <2> QED
    BY <2>1 DEF GraceDescends
<1>2. PICK t \in Threads : t = Hotplug
  BY DEF Threads
<1>3. Sure => GetsLock(t)
  BY NobodyStarves
<1>4. ThreadInv => (AtLock(t) <=> hpc = "addLock" \/ hpc = "delLock")
  BY <1>2 DEF AtLock, Threads
<1>5. ThreadInv /\ [Next]_vars =>
        /\ hpc = "addLock" => (hpc = "addLock")' \/ (hpc = "insert")'
        /\ hpc = "delLock" => (hpc = "delLock")' \/ (hpc = "erase")'
        /\ hpc = "grace" => (hpc = "grace")' \/ (hpc = "create")'
  BY HotplugStays DEF HotplugPCs, HotplugAfter
<1>6. /\ ~(hpc = "insert" /\ hpc = "addLock") /\ ~(hpc = "insert" /\ hpc = "delLock")
      /\ ~(hpc = "erase" /\ hpc = "addLock") /\ ~(hpc = "erase" /\ hpc = "delLock")
      /\ ~(hpc = "create" /\ hpc = "grace")
      /\ hpc # "grace" <=> ~(hpc = "grace")
  OBVIOUS
<1>7. FairRun => /\ HotplugLeaves("insert") /\ HotplugLeaves("addUnlock") /\ HotplugLeaves("cancel")
                 /\ HotplugLeaves("create") /\ HotplugLeaves("announce") /\ HotplugLeaves("erase")
                 /\ HotplugLeaves("destroy") /\ HotplugLeaves("delUnlock") /\ HotplugLeaves("farewell")
  BY HotplugGoesOn DEF HotplugPCs
<1>8. /\ hpc \in HotplugAfter["insert"] => hpc = "addUnlock"
      /\ hpc \in HotplugAfter["addUnlock"] => hpc = "cancel" \/ hpc = "create"
      /\ hpc \in HotplugAfter["cancel"] => hpc = "grace"
      /\ hpc \in HotplugAfter["create"] => hpc = "announce"
      /\ hpc \in HotplugAfter["announce"] => hpc = "idle"
      /\ hpc \in HotplugAfter["erase"] => hpc = "destroy" \/ hpc = "delUnlock"
      /\ hpc \in HotplugAfter["destroy"] => hpc = "delUnlock"
      /\ hpc \in HotplugAfter["delUnlock"] => hpc = "farewell" \/ hpc = "idle"
      /\ hpc \in HotplugAfter["farewell"] => hpc = "idle"
  BY DEF HotplugAfter
<1>9. Sure => (hpc = "delUnlock" \/ hpc = "farewell" ~> hpc = "idle")
  BY <1>7, <1>8, PTL DEF Sure, HotplugLeaves
<1>10. Sure => (hpc = "erase" \/ hpc = "destroy" ~> hpc = "idle")
  BY <1>7, <1>8, <1>9, PTL DEF Sure, HotplugLeaves
<1>11. Sure => (hpc = "create" \/ hpc = "announce" ~> hpc = "idle")
  BY <1>7, <1>8, PTL DEF Sure, HotplugLeaves
<1>12. Sure /\ GraceDescends => (hpc = "grace" ~> hpc = "idle" \/ Orphaned)
  BY <1>1, <1>5, <1>6, <1>11, SafeSpec, PTL DEF Sure, FairRun, FairSpec, GraceEnds
<1>13. Sure /\ GraceDescends =>
         (hpc = "insert" \/ hpc = "addUnlock" \/ hpc = "cancel" ~> hpc = "idle" \/ Orphaned)
  BY <1>7, <1>8, <1>11, <1>12, PTL DEF Sure, HotplugLeaves
<1>14. Sure => (hpc = "addLock" ~> hpc = "insert" \/ Orphaned)
  BY <1>3, <1>4, <1>5, <1>6, SafeSpec, PTL DEF Sure, FairRun, FairSpec, GetsLock
<1>15. Sure => (hpc = "delLock" ~> hpc = "erase" \/ Orphaned)
  BY <1>3, <1>4, <1>5, <1>6, SafeSpec, PTL DEF Sure, FairRun, FairSpec, GetsLock
<1>16. ThreadInv /\ hpc # "idle" =>
         \/ hpc = "addLock" \/ hpc = "insert" \/ hpc = "addUnlock" \/ hpc = "cancel" \/ hpc = "grace"
         \/ hpc = "create" \/ hpc = "announce" \/ hpc = "delLock" \/ hpc = "erase" \/ hpc = "destroy"
         \/ hpc = "delUnlock" \/ hpc = "farewell"
  BY DEF ThreadInv, TypedInv, TypeOK, HotplugPCs
<1> QED
  BY <1>9, <1>10, <1>11, <1>12, <1>13, <1>14, <1>15, <1>16, SafeSpec, PTL
     DEF Sure, FairRun, FairSpec, HotplugEnds

(* For any number of threads and devices: every holder gives the mutex     *)
(* back, every enquiry returns and every add and remove ends, unless a     *)
(* cancelled monitor has kept the mutex.  Nobody is passed over at it for  *)
(* ever, no loop and no function ends with it held, and an add whose grace *)
(* waits for the threads it cancelled waits for threads that die.          *)
THEOREM EverythingReturns ==
  FairSpec /\ []ThreadsWaitAtLocksOnly /\ LoopsDescend /\ GraceDescends => CallsReturn
<1>1. Sure => \A t \in Threads : GivesBack(t)
  BY HolderGivesBack
<1>2. Sure => \A c \in Clients : GetsAnswer(c)
  BY EnquiriesReturn
<1> QED
  BY <1>1, <1>2, HotplugComesBack DEF Sure, FairRun, CallsReturn
=============================================================================
