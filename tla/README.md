# Verification of the RDK storage manager

The storage manager is the daemon of a set-top box that finds the storage
devices (SD card, eMMC, hard disk, NVRAM flash), prepares them for a time-shift
buffer (TSB) or for recordings (DVR), watches their health and answers other
processes over the IARM bus. The repository holds two generations of it:

* `src/refactored/`, the current daemon: a class per kind of medium, a manager
  with a table of them, a thread for udev events and one for health;
* `src/src/`, the first generation: one SD card slot, global flags, and the same
  two sources of trouble, udev and the bus.

This directory models both in TLA+, checks the models with TLC and proves the
central properties with TLAPS. `PROJECT.json` relates every definition to the
source lines it stands for, and lists runs, findings, hazards and theorems.

## 1. Inventory

| Part | State | Operations | Interacts by |
|---|---|---|---|
| Device manager, `mgr/rdkStorageMain.cpp` | device table, `m_mainMutex`, the health monitor's thread id, the event callback | add, delete, enquiries, TSB and DVR calls, health round | called by discovery (add, delete) and by IARM threads; creates and cancels health threads; calls back with events |
| Media classes, `mgr/rdkStorage{Base,SDCard,eMMC,HardDisk,NVRAM}.cpp` | partitions, TSB/DVR flags and sizes, health | populate, set and get, health query | owned by the table, called under `m_mainMutex`; run mount scripts and smartctl |
| Discovery, `mgr/rdkStorage.cpp` | udev context, monitor thread | enumeration at start, one udev event at a time | calls add and delete |
| IARM server, `rpc/rdkStorageMgr_iarm_internal.cpp`, `main/main.cpp` | the singleton's pointer | registers the calls and the callback, forwards | bus threads call the manager |
| IARM client library, `rpc/rdkStorageMgr_iarm_external.cpp` | initialised flag, registered handlers, callback | forwards calls, passes events on | bus |
| SMART access, `mgr/smartmonUtiles.cpp` | last attributes | runs smartctl, parses | called by the hard disk |
| First generation, card slot: `utils/src/udevUtils.cpp`, `utils/src/sdCardReader.cpp` | presence, TSB, ready, mounted flags, `mountLock` | qualify, mount, unmount | monitor thread; power handler calls the same script functions |
| First generation, calls: `rpc/src/storageMgr.cpp` | configuration, TSB minutes | RPC handlers, power events | bus threads read the flags without a lock |
| Test clients, logging, build | - | - | - |

What is hard here, in the order of importance:

1. **Threads around the table.** RPC threads and health monitors walk the table
   in loops while the hotplug thread inserts and deletes; each add *cancels* the
   running monitor with `pthread_cancel`, wherever that is. Correct means: no
   loop reaches a deleted object, answers are from one moment, the mutex always
   comes back, one monitor is meant to run.
2. **Discovery.** The table must follow hardware that changes before, during
   and after the enumeration, with a socket of finite size and a thread that
   takes five seconds per event.
3. **What is on offer.** A medium's flags are set in the middle of steps that
   may fail; TSB calls pick a device anew each time. Correct means: what is
   enabled is supported, what is configured fits, an offer is honoured.
4. **The way to the clients.** IARM serves calls while the daemon is still
   starting, through a singleton that is created without a lock; the client
   library initialises itself on first use, by several threads. Correct means:
   an announced event reaches a listening client once, what it then asks for
   agrees with what it heard, and every call comes back.
5. **The card slot of the first generation.** Two threads share two script
   calls, a lock, and a flag that is used outside the lock; bus threads read
   all of it without one, and keep lengths worked out for an earlier card.
6. **Lives of the daemon.** systemd starts it again whenever it ends
   (`Restart=always`); the NVRAM medium leaves a file for the next life.

`PROJECT.json` lists these as hazards with the line where each bites; the
properties below were chosen from that list.

## 2. Modules

```
 StorageRPC    start, IARM server, client library
     |         MCStorageRPC, StorageRPCProofs, StorageRPCRefinement
     | implements it over a bus that loses calls; its own Insert, Erase and
     v answers are single steps because
 DeviceTable  <-- implemented by --  StorageMain      MCStorageMain, StorageMainProofs
     ^ its add and delete are single steps for the same reason
     |
 DeviceDiscovery            MCDeviceDiscovery, DeviceDiscoveryProofs
 TSBService                 MCTSBService, TSBServiceProofs
     | table of
     v
 StorageMedia (operators)
 FlashMedium                FlashMediumProofs

 LegacyCard                 LegacyCardProofs
     ^ extended by
 LegacyService              LegacyServiceProofs
```

**DeviceTable** is what the manager promises a client: devices come and go, and
an enquiry is answered from the set that is listed at one moment (`Spec`); over a
bus that fails, a call may also end without an answer (`LossySpec`). StorageMain
implements the first, StorageRPC the second, so that the promise holds from the
loop over `m_storageDeviceObjects` to the reply in the client's hands.

**StorageMain** is `rSTMgrMainClass` at the grain of what its threads can
observe: `hpc`, `wpc` and `cpc` are program counters of the hotplug thread, the
monitors and the clients; `owner` is `m_mainMutex`; `table` is
`m_storageDeviceObjects`; `heap` says which objects were created and deleted;
`tid` is `stmgrHealthMonitorTID`; `told` is what the event callback last heard.
Loops over the table advance one key per step (`cleft`, `wleft` are the
iterators). Cancellation is deferred, as pthreads has it by default: a
cancelled thread dies only at a cancellation point. `sleep` is one, and so is
the I/O by which a hard disk or the flash answers a health query; an eMMC
answers from memory. `pthread_mutex_lock` is none. A thread that dies keeps what
it holds.

**DeviceDiscovery** is `rdkStorage_init` and `deviceConnectRemoveMonitorfn`
in an environment of kernel, udevd and netlink socket. Adding to and deleting
from the table are single steps, which the proof that StorageMain implements
DeviceTable justifies. The class a device is given depends on who finds it: the
scan, the udev monitor or the search for the flash. `Takes` says which kinds of
device the kernel gives a node. `Restart` ends the daemon at any point and starts
it again, over a kernel and a udevd that go on.

**StorageMedia** holds operators only: what `populateDeviceDetails` of each
class makes of every outcome of partitioning, qualifying, mounting and
measuring (`SDMedia`, `EMMCMedia`, `HDDMedia`), and the setters of one medium.
Sizes are counted in minutes of recording; what is left of the division by the
frame rate is the width of the result (`UShort`), and differences wrap at
`ULongLong`. A medium has up to two partitions: `parts` are those a TSB can be put
on, `paths` those whose mount path was noted, which a hard disk does for none.

**TSBService** is the manager's TSB and DVR calls over a table of such media:
each goes to the first device in key order that supports what is asked for.
`offer` is the capacity the last enquiry told a client, forgotten when the table
changes.

**FlashMedium** is the NVRAM medium over lives of the daemon and boots of the
box: `medium` is the object of the present life, with libudev's cached attribute
and `m_eraseCount`; `tmp` is the file in /tmp, `log` the boot's log.

**StorageRPC** goes from `main` to a client's callback. `registered` counts the
calls that `stmgr_BeginIARMMode` has registered, one by one, while servers may
serve them; `getInstance` is three steps (look, construct, look again), so that
several instances can come to be, each with a `table` and a callback `pointer`;
`queue` and `inbox` are IARM's, towards the daemon and the client; `flag`,
`handlers` and `callback` are the client library's. The handlers are grouped by
what they need of the manager (`DeviceAnswers`, `TSBAnswers`, ...): the answer of
each is a set, because what the devices hold is another module's business.
`ListedNow`, `AskedFor` and `AnsweredWith` are what a client sees of DeviceTable: the
table of the manager in use, the devices its call is about, and those an answer
that says success is about.

**LegacyCard** is the first generation with `USE_DISK_CHECK`: the slot, the
event socket, the udev monitor thread from its first look at the slot through
reading the card's CID, the power handler, the scripts, `mountLock` and the
flags. `overlapped` is a history variable: the threads were once in the script
calls together.

**LegacyService** extends it by a bus thread that reads those flags one at a
time (`Asks` lists them per handler), the capacity measured after a mount, and
the length of the TSB that two handlers work out and keep. Its history variables
relate the flags to the slot: `here` says that what is mounted is on the card that
is in the slot, `clings` that the monitor failed to unmount it, `byPower` that the
power handler was the last to mount or unmount.

The definitions named `X_Something` before a definition `X` are faults a
programmer could have made in it; each property is shown to notice one
(`mutants` in `PROJECT.json`).

## 3. Runs

| Run | What is asked | Instance |
|---|---|---|
| `main_safety` | types, no use after free, listeners informed, one monitor, how the mutex is lost, no deadlock, refinement of DeviceTable | 2 clients, 2 successive monitors, a disk and an eMMC, 2 paths: 1.05 million states |
| `main_live` | the mutex comes back; calls, adds and removes end; `CanMove` is what ENABLED says of each thread | 1 client, 2 monitors, a card and an eMMC, 1 path: 24 thousand states |
| `main_polling` | *violated:* the monitor goes on polling | 1 client, 2 monitors, a disk and an eMMC, 1 path |
| `discovery_all` | types; the table is right about a node when nothing about it is on its way; the thread waits for events only; a node left alone catches up; also over restarts of the daemon | a card and an eMMC, a disk and a USB disk at two nodes, the flash at a third; socket of 2, one event in udevd: 0.7 million states |
| `discovery_gone` | *violated:* a device that is gone is removed | one card, queues of 2 |
| `tsb_all` | types, media keep their word (enabled is supported, OK has a partition, configured fits), an offer is honoured, and has a path unless the device is a disk | an eMMC beside a card or a disk of 0 to 2 partitions with every outcome: 125 thousand states |
| `nvram_all` | types; healthy was true, alarms are true, the chip is known once | limit 2, maximum 4, wear up to 6: 800 states |
| `rpc_all` | types; announced is on its way, heard once, listed when heard; crashes need an unset pointer; no call is forgotten, nobody waits for anything but the bus; an answer that says success is what the table held at one moment of the call; calls return, events are heard | 1 server thread, 2 client threads, one call of each group of handlers, one device: 0.29 million states |
| `rpc_unfit` | *violated:* a disqualified card is announced | the same |
| `legacy_all` | types, scripts exclude each other and are all that is waited for, offers are good, a handler waits for the lock only, presence follows the slot, the mounted flag is right without overlap, handlers end | socket of 3: 30 thousand states |
| `legacy_mounted` | *violated:* the mounted flag is right | the same |
| `legacy_service` | types; a length that was set fits, grants are true of the card in the slot (one called functioning has the capacity told, the mount path given is where it is mounted), with two exceptions | socket of 2, cards of 5 and 9 minutes, 5 swaps and power events: 5.39 million states |

**Bounds, and why they are enough.** Two monitors are needed and enough for one
to be cancelled while its successor starts; with three identities nothing new
can meet, since the hotplug thread is alone and waits. Two paths and two objects
give the shadowed insertion, a loop with a visit behind and one ahead of it, and
an exchange under one path; `main_safety`'s properties are proved for any number.
An object is created once: after its deletion its identity does not come back,
so a use after free cannot hide behind a reuse. In `discovery_all` a node can be
taken by two kinds of device in turn, a removal and an addition of one node
queue up behind an event of another, and the socket overflows; `missed` records
what was lost. In TSBService the lengths
surround `MinMinutes`, `UShort` is 8192 rather than 65536 (so that a capacity of
8192 wraps to nothing and one of 8195 to three), `ULongLong` is larger than any
sum in the run. In FlashMedium the wear reaches zero, both limits and beyond. In StorageRPC
one server thread beside Main is enough for two instances, two client threads for
a library initialised twice; a device comes and goes once, so that an event's
identity is its occasion. In LegacyService `UShort` is 8, so that a card of 9
minutes wraps to 1, and the configured length is between the cards' capacities
and above the default. A socket of three holds a
removal, an insertion and a removal; with LegacyService it is two.
`CHECK_DEADLOCK FALSE` is set where the system may really stop: StorageMain when
a mutex is orphaned or the bounded identities are used up, DeviceDiscovery
when there is only hardware that cannot be unplugged or the daemon waits, and
StorageRPC when nobody calls or the daemon has crashed.

**Fairness.** Threads that can run do (weak fairness), and a thread that waits
for a mutex gets it if it is free again and again (strong fairness on the
acquiring steps, thread by thread: `FairTo`): pthread mutexes are not fair, but the holders sleep for long
stretches between rounds. Scripts and udevd end. IARM hands queued calls to the
servers and fails a call whose server died; nothing is assumed to be lost while
the daemon lives. Nothing is assumed of the hardware
(it may never change again, or never stop), of power events, or of clients. The
daemon may be restarted for ever, but `CatchesUp` asks something of it only if it
is not.
`GraceOver` takes `sleep(5)` to outlast what a cancelled thread can do without
waiting for another; one that waits for the mutex survives it.

## 4. What the runs show to be wrong

* A monitor cancelled inside the I/O of a health query dies with `m_mainMutex`:
  its successor and every call wait for ever (`main_polling`).
  `OrphanedByBlockingMedia` shows that this is the only way to lose it.
* A device that leaves between enumeration and `udev_monitor_enable_receiving`
  stays listed (`discovery_gone`). `RightWhenQuiet` shows that this window
  and a full socket are the only causes.
* A card that is found unfit while it is populated says so through a callback
  that is set only afterwards, and that its constructor does not initialise
  (`rpc_unfit`): the event is lost, or a wild pointer is called.
  `CrashNeedsUnsetPointer` shows that the one other way to that call is a second
  instance made by an RPC during the start.
* In the first generation, `isMounted` is tested before and assigned after the
  lock, and can be wrong for good (`legacy_mounted`); `MountedUnlessOverlapped`
  shows that nothing else makes it wrong.

Also seen while modelling, without a run of their own. The models contain these
as the code has them, and the properties are stated so as to allow for them.

*Current daemon, table and discovery.* Adding under a path that is still in the
table announces an object that is never listed, and leaks it
(`rdkStorageMain.cpp:111`). A cancelled monitor can outlive the five seconds,
so two are alive at once (harmless, see `OneMonitorIsMeantToRun`). Device lists
fill arrays of ten without a bound. USB disks are enumerated and then refused,
against the comment at `rdkStorage.cpp:86`; an eMMC that is plugged later becomes
an SD card. The hard disk's destructor deletes the partitions and leaves them in
the list, from which the base class's deletes them again
(`rdkStorageHardDisk.cpp:34`, `rdkStorageBase.cpp:52`).

*Media and TSB.* An eMMC whose mount failed keeps its TSB enabled.
`(m_capacity - m_freeSpace) <= 0` is an unsigned comparison with used space
(`rdkStorageSDCard.cpp:684`): `DISK_FULL` is reported for an empty file system and
never for a full one, against `storageMgr.h:135`. With two partitions the
capacity is that of the last found and the path that of the first; a partition
can be missed because mtab is read once. `getTSBPartitionMountPath` returns
success without a path for a medium that has none; so it does for every hard disk,
whose partitions are stored without one (`rdkStorageHardDisk.cpp:376`), though it
offers sixty minutes. `OfferHasPath` leaves hard disks out. A capacity in minutes
wraps at 65536, so that a large card offers little or nothing
(`rdkStorageSDCard.cpp:666`). `setTSBMaxMinutes` succeeds
without any device. Free DVR space wraps below the 40 GB reserve. An SD card's
`getHealth` leaves the answer untouched and says success once the card refused
CMD56.

*NVRAM.* The line written to /tmp lacks the words by which it is found, so every
restart of the daemon forgets manufacturer and model until the next boot. libudev
caches `max_ec` for the one `udev_device` the medium keeps: health is frozen at
the first reading. A count of zero reads as not operational; one never read as
worn out. An unreadable `mtd_num` makes a string of NULL, which ends the daemon.
The first dynamic volume found decides whose erase count is read.

*Calls.* The test in the handler of `NotifyMGRAboutFailure` is inverted: reports
are dropped with success. An RPC served during the start can make a second
manager: one has the callback, the other may have the devices. The client's
library sets its flag before its handlers are registered: a second thread
calls without them, or registers them again and hears everything twice.
A capacity of smartctl that cannot be parsed throws (`std::stoull`) where nobody
catches.

*First generation.* The greatest length of the TSB is never reset when the card
is exchanged (`storageMgr.cpp:233`); a set before any get bypasses the configured
limit; a request beyond the greatest length sets it without counting as set; a
negative request passes the comparison (`:244`); the configured length replaces
any above the default, also a smaller one (`:203`); the frame rate in bytes
overflows an int from 35 Mbps on (`:197`). The power handler's mount does not
measure the card and tells nobody. When a card leaves and the script cannot
unmount it, `isMounted` and the TSB flag stay (`sdCardReader.cpp:674`):
`getMountPath` goes on giving the path of the card that left, and the next card is
"Already Mounted" (`:611`) and is called functioning with the capacity of the old
one. `GrantsAreTrue` excepts that case (`clings`), the power handler's mounts
(`byPower`), a lost event and an overlap of the scripts. Without any one of these
four, TLC finds the property violated: they are the only ways to a false grant.

## 5. Proofs

All theorems hold for any values of the constants that satisfy the named
assumptions. Only the five liveness theorems assume fairness, and only StorageRPC
assumes a finite set, that of the client's threads, because it counts them.

* `StorageMainAssumption`: paths are numbers, thread names are distinct, `None`
  is none of them.
* `DeviceDiscoveryAssumption`: nodes are numbers, queue sizes are numbers, every
  device has a kind, `None` is no device, class, or entry.
* `StorageMediaAssumption`, `TSBServiceAssumption`: widths and limits are
  numbers, the widths not zero; slots are numbers.
* `FlashMediumAssumption`: the limit is above zero and below the maximum.
* `StorageRPCAssumption`: the main thread is no server, the calls are registered in
  some order without repetition, the client's threads are finitely many, `None` is
  nothing else.
* `LegacyCardAssumption`, `LegacyServiceAssumption`: sizes are numbers, `None` is
  not a thread, the configured length fits its type.

**StorageMainProofs.** The argument is a chain of invariants, each used by
the next:

1. `TypedInv`: types, and the locals of an add or remove in progress
   (`TypeCorrect`).
2. `LockInv`: a thread is between its lock and unlock exactly when it owns the
   mutex, a dead monitor excepted (`LockDiscipline`). This is what makes one
   thread's view of the table immune to the others' steps.
3. `HeapInv`: what is listed is alive, under one path only; while an object is
   on its way in or out, exactly it is missing from or left in `told`
   (`ListenersInformed`). The listeners' property alone is not inductive: it
   is silent about the seven states of an add in which they are behind.
4. `WalkInv`: an iterator's remaining keys are keys of the table. With 3 it
   gives `NoUseAfterFree`.
5. `MonitorInv`: once the old monitor is cancelled, none runs until the new one
   is created (`OneMonitor`).
6. `OrphanNeedsBlockingMedia` is inductive with 1 to 4.
7. `AnswerInv`: what a client has found and what lies ahead of its iterator make
   up what it wants of the table. With the others it gives the step
   simulation and `Refinement`: StorageMain implements DeviceTable, the step that
   unlocks being the answer's moment.
8. `BornInv`: what is cancelled was created. With 1 to 5 it gives `NoDeadlock`,
   which is what `CallsReturn` has of safety. A thread at a
   lock waits for the owner, and the owner can always move (`HolderCanMove`): in a
   loop there is a least path ahead of it (`SomeNext`, from the well-founded order
   of numbers) or it unlocks, and it is never in the five seconds' grace, because
   `AddUnlock` comes first. A thread in the grace waits for cancelled monitors,
   which sleep, hold the mutex, or wait for it. The property is silent
   about fairness, and about a mutex that is lost.
9. `ClientMoves`, `WorkerMoves` and `HotplugMoves` say where each thread's step
   takes it, `OwnStepsOnly` and `Unmoved` that nobody else's does. With 8 they
   give `EverythingReturns`, see *Liveness* below.

**DeviceDiscoveryProofs.** `Shape` is the types and what goes with each place of
the thread (`TypeCorrect`). `QueueInv` says that the events on their way about a
node lead to what is plugged there (`Orderly`): no addition of another device
without a removal behind it, no removal of a device that came back without an
addition behind it. It holds of udevd's queue alone always, because a restart
begins again from there, and of socket and queue together unless an event was
lost. `BusInv` says that a disk whose bus is not yet in the database is still
to be announced, which is why the scan may pass it over; `BootInv` that before
the enumeration nothing but the flash is listed. `TableInv` carries what the
thread knows of a node, in the table, in hand or still to visit: right unless a
removal is on its way, complete unless an addition is. With no event on its way
and nothing in hand this is `RightWhenQuiet` (`TableIsRightWhenQuiet`), which is
not inductive itself since it is silent whenever an event is in flight. For
`TableCatchesUp`, `Within` is an event's place in a queue: while a node is left
alone, none about it joins udevd's queue, those there come nearer to its head with
each `Broadcast` (`UdevdComesNearer`), then those in the socket with each `Receive`
(`SocketComesNearer`); when both are through, nothing is left in hand for long
(`HandComesFree`), and the invariant says that the node is right.

**TSBServiceProofs.** `Good` is what is true of one medium from its creation on,
and each way to create or set one is a lemma that says it keeps `Good`
(`SDGood`, `EMMCGood`, `HDDGood`, `SetMinutesGood`, ...), for every outcome of the
hardware. `Sound` says it of the table, and that what a client was offered is
the capacity of the device that is first now; the enquiries' `First` exists
because the numbers are well ordered (`FirstIsThere`). From it follow
`MediaAreSound`, `PathForOffer` and `OfferHonoured`. For the second, `Good` says that
in every medium but a hard disk the partitions a TSB can be put on are those with a
path, and that there is one if a length is on offer.

**FlashMediumProofs.** `MediumInv` (until a reading succeeds the count is the
assumed maximum, then the reading, which the wear has passed or not), `ToldInv`
and `TmpInv` (who leaves the file knew the chip) are inductive together.

**LegacyCardProofs.** `TypeCorrect`; `LockInv` gives `ScriptsAlternate`, what
`HandlersFinish` has of safety: who owns `mountLock` is in a script; `GoodInv`
ties presence, TSB, ready and status to where the monitor thread stands and
gives `OfferIsGood` (the property speaks of the thread at rest and says nothing
of a card between qualification and mount, so it is not inductive); `FlagInv`
says that without overlap the flag lags behind the mount only at the two points
where its one writer is about to assign it, and gives `FlagIsRight`; `SlotInv`
says that the events in the socket lead from what the monitor believes to what
is in the slot (`Leads`), and gives `PresenceIsRight`. What the scripts return
is left open throughout. `PowerInv` and the `...Moves` lemmas say which way each
thread goes, for `HandlersReturn`.

**LegacyServiceProofs.** `ServiceHasCard` shows that LegacyService only adds to
LegacyCard, so that all of the above is true of it. `CapacityInv` and `PathInv`
carry the capacity and the mount through the steps between a script and the flag.
`HereInv` relates the mount to the slot: what is mounted and not `here` is to be
unmounted by the monitor, or its removal is in the socket still, unless one of the
exceptions happened. The property is silent while an event is under way, so it needs
both to be inductive; together they give `GrantsHold`. `LengthInv` bounds both lengths by the one
capacity there was or the configured one (`LengthIsRight`).

**StorageRPCProofs.** `PlaceInv`, `InstInv`, `CallInv`, `QueueInv` and `ServeInv` say
where each thread stands, that the manager in use was constructed, and that a call
is in the queue once or with one server; with them the types are inductive
(`TypeCorrect`). Then three arguments that share them:

* `InstInv` also says that once main is through, a manager that is alone has its
  callback, which gives `CrashNeedsUnsetPointer` and, with `OwedInv`,
  `AnnouncedIsOnItsWay`.
* `ToldInv`: who can have heard of a device finds it in some manager's table or gone
  for good (`PresentStays`), because it is announced after it is inserted;
  `AnswerInv`: while there is one manager, its table is covered by what was listed
  during each call. Together they give `HeardIsListed`, which by itself speaks only
  of answers that are already there.
* `CountInv`: the handlers registered are at most the threads that found the
  library uninitialised; `OnceInv`: what an event tells of happens once, and before
  that no copy of it exists, so that each is multiplied by the handlers once
  (`CopiesPosted`, `CopiesInTail`). This gives `HeardOnce`.

`CallInv` and `QueueInv` alone give `NoCallIsForgottenHolds`, what `CallsReturn` has of
safety: a call that waits is in the queue or has a server of its own. For the rest of it,
`CallMoves` and `ServerMoves` say where each step takes a call and a server. A call in
a server's hand is answered or the daemon dies (`ServerAnswers`); one in the queue
keeps its place when others join or are lost (`WaitersStay`), and comes nearer when
any one server, done with its own, takes the next (`DispatchIsNearer`,
`WaitComesNearer`): `EveryCallReturns`. An event keeps its place in the inbox while
more are posted and comes nearer with each that is dispatched (`EventsStay`,
`CallbackIsNearer`): `EveryEventIsHeard`.

**StorageRPCRefinement.** `ClientSeesTheTable`: while there is one manager, each step
maps to a step of DeviceTable over a lossy bus, or to a stutter. `Ground` is what
that needs of a state: the invariants above and `PluggedInv`, that a device is
listed only after it was plugged in and is inserted once, so that an insertion is an
arrival. Handling an enquiry is its answer's moment (`HandleAnswers`); the return to
the caller collects it. A call that the bus or a dying daemon fails, or whose
handler does, shows nothing until it returns, and that is its loss
(`ReturnCollects`). The condition of one manager is needed: with two, `g` can change
from one whose table is filled to another. `PunctualMakesOne` shows when it holds: if
no call that needs the manager is handed over before main made it (`Punctual`),
main's is the only look at the pointer that finds none. The code does not see to it
that a start is punctual; such a start is one that no call happens to race.
Nothing is concluded from it about the daemon as it starts. `OneManagerShowsTheTable`
states the result for a behaviour with one manager throughout, as
`DeviceTable!LossySpec`.

**Liveness.** `HandlersReturn` (LegacyCard), `EverythingReturns` (StorageMain),
`TableCatchesUp` (DeviceDiscovery), `EveryCallReturns` and `EveryEventIsHeard`
(StorageRPC) derive all the liveness properties that the runs check from the
fairness of the threads. They go the same way: a thread at a place has one step to take (the `...Moves`
lemmas), fairness takes it; a thread at a lock is let in if the lock comes free
again and again, which it does because whoever owns it is on a way that ends in an
unlock (`LockLeaves`, `LockComesFree`; `HolderGivesBack`, `MutexComesFree`). The
add's grace ends because a cancelled monitor only ever moves towards its death
(`CancelledDies`). Two things the prover cannot know are hypotheses:

* *ENABLED.* Fairness speaks of enabled steps. What is used of it is
  `HandlersWaitForTheLockOnly`, `ThreadsWaitAtLocksOnly`, `EventsAreWaitedForOnly`
  and `WaitingIsForTheBusOnly`: a thread at such a place has an enabled step. All
  are invariants that TLC checks, and what a fault in a guard, or a handler without
  an answer, would break. They do not say that anything is ever done.
* *Descent.* In StorageMain a loop's remaining paths and the cancelled
  monitors that live are sets that shrink; that a finite set cannot shrink for
  ever is induction over a temporal formula, which the prover does not have.
  `LoopsDescend` and `GraceDescends` state that rule for these sets, as an
  implication; it holds of every behaviour if `Paths` and `Workers` are finite, as
  they are. Its premise, that a loop of any remaining paths has fewer later or is
  over, is proved (`LoopShrinks`, `DyingDwindle`). In DeviceDiscovery the devices
  still to scan are such a set (`ScanDescends`; `ScanShrinks` proves its premise).
  An event's place in a queue, and a call's, is a number that gets smaller:
  `UdevdDrains`, `SocketDrains`, `QueueDescends` and `InboxDescends` say that what
  passes from among the first n + 1 to among the first n, for every n, is through in
  the end; they hold of every behaviour, since nothing is among the first 0. Their
  premises are `UdevdComesNearer`, `SocketComesNearer`, `WaitComesNearer` and
  `EventComesNearer`.

`EveryCallReturns` also asks for a server thread, without which IARM serves nothing.

**Only model-checked.** `ThreadsWaitAtLocksOnly`, `HandlersWaitForTheLockOnly`,
`EventsAreWaitedForOnly` and `WaitingIsForTheBusOnly`, because they speak of
ENABLED. Every other property of a passing run is stated by a theorem. No module uses RECURSIVE operators, so all of them
remain within the prover's reach.

## 6. Not modelled

* *SMART access* (`smartmonUtiles.cpp`) and the hard disk's identity: smartctl
  through popen and the parsing of its text. No state outlives a call, and no
  property tells the strings apart. That it blocks under the mutex, and is a
  cancellation point, is in StorageMain.
* *Identity attributes* of all media, the commands sent to the cards (CID, CMD56)
  beyond whether they succeed, the text of the mount scripts, logging, and
  configuration parsing.
* *The first generation without `USE_DISK_CHECK`*: a build of its own, whose
  mount code differs in how it calls mount(8) (and tests another variable than the
  one it assigned, `sdCardReader.cpp:521`). Its disk helpers are a stub and
  an empty file. The flag that enables the TSB there is stored and returned.
* *The test clients, type headers and build files* hold no behaviour of the daemon.

Simplifications worth knowing: the mount script that a destructor runs under
`m_mainMutex` is part of one step; an event the kernel loses is noted in
`missed`, and the properties about the table excuse that node from then on; a
medium's own events during `populateDeviceDetails` are in StorageRPC only. In
StorageRPC a crash ends the daemon, and its next life begins at `Init` again,
with the client anew: what a client makes of a daemon that is started again under it
is left out, while DeviceDiscovery and FlashMedium have the restart. NULL arguments, which every client stub refuses first, are left out.

## 7. Plan

1. *Restart in StorageRPC*: a client that goes on while the daemon is started
   again, with its handlers still registered and devices announced anew.
2. *The partitions' life cycle*: who deletes a partition, with the hard disk's
   two destructors.
