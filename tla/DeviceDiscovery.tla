-------------------------- MODULE DeviceDiscovery --------------------------
(***************************************************************************)
(* How the refactored daemon learns which devices there are                *)
(* (refactored/mgr/rdkStorage.cpp): rdkStorage_init enumerates sysfs, adds *)
(* what it finds one device at a time, and then creates the thread that    *)
(* listens to udev and handles one event every five seconds.               *)
(*                                                                         *)
(* Addition to and deletion from the device table are single steps here:   *)
(* StorageMain, with the proof that it implements DeviceTable, is why they *)
(* may be.  udevd passes an event on when it has applied its rules to it,  *)
(* to whoever listens by then and has room left in its netlink socket.     *)
(***************************************************************************)
EXTENDS Naturals, Sequences

CONSTANTS
  Paths,        \* device nodes, numbered in the order udev enumerates them
  Devices,      \* the pieces of hardware
  KindOf,       \* KindOf[d]: what sysfs says of device d, see Kinds
  Takes,        \* Takes[p]: the kinds of device the kernel gives node p
  EmmcNode,     \* EMMC_TSB_DEV_NODE: the one node an eMMC is looked for at
  SocketSize,   \* the events the netlink socket holds
  UdevdSize,    \* bound: events udevd has yet to apply its rules to
  None          \* no device, no entry

\* mmc devices of type "SD" and "MMC", disks on an scsi, ata or usb bus,
\* disks on no bus (RAM disks), and the UBI flash that holds the NVRAM.
Kinds == {"SD", "MMC", "ATA", "USB", "RAM", "UBI"}

\* "other" stands for the events the monitor receives and does nothing about:
\* changes, partitions, and those of the mmc subsystem itself.
Event == [act : {"add", "remove", "other"}, path : Paths, dev : Devices]
Place == [path : Paths, dev : Devices]
Types == {"NVRAM", "HDD", "SDCARD", "EMMCCARD"}
Entry == [dev : Devices, type : Types]
Found == [path : Paths, dev : Devices, type : Types]

ASSUME DeviceDiscoveryAssumption ==
  /\ Paths \subseteq Nat
  /\ KindOf \in [Devices -> Kinds] /\ Takes \in [Paths -> SUBSET Kinds]
  /\ SocketSize \in Nat /\ UdevdSize \in Nat
  /\ None \notin Devices \cup Types \cup Entry \cup Found

VARIABLES
  plugged,    \* plugged[p]: the device sysfs shows at node p, or None
  indb,       \* nodes whose properties (ID_BUS) are in the udev database
  udevd,      \* uevents udevd has yet to process, oldest first
  socket,     \* events in the monitor's netlink socket, oldest first
  listening,  \* udev_monitor_enable_receiving was called
  pc,         \* where the thread that adds and removes stands
  todo,       \* the enumerated devices the scan has yet to visit
  cur,        \* the device about to be added, with its type, or None
  table,      \* table[p]: device and type listed at node p, or None
  missed      \* nodes an event about which was lost since the enumeration

kernelVars == <<plugged, indb, udevd>>
daemonVars == <<pc, todo, cur, table>>
vars == <<kernelVars, socket, listening, daemonVars, missed>>

TypeOK ==
  /\ plugged \in [Paths -> Devices \cup {None}]
  /\ indb \in SUBSET Paths
  /\ udevd \in Seq(Event) /\ Len(udevd) <= UdevdSize
  /\ socket \in Seq(Event) /\ Len(socket) <= SocketSize
  /\ listening \in BOOLEAN
  /\ pc \in {"ubi", "enumerate", "scan", "scanAdd", "idle", "eventAdd", "pause"}
  /\ todo \in SUBSET Place
  /\ cur \in Found \cup {None}
  /\ table \in [Paths -> Entry \cup {None}]
  /\ missed \in SUBSET Paths

\* The box boots with any devices in place, each at one node.
Init ==
  /\ plugged \in [Paths -> Devices \cup {None}]
  /\ \A p \in Paths : plugged[p] # None => KindOf[plugged[p]] \in Takes[p]
  /\ \A p, q \in Paths : plugged[p] = plugged[q] /\ plugged[p] # None => p = q
  /\ indb = {p \in Paths : plugged[p] # None}
  /\ udevd = <<>> /\ socket = <<>> /\ listening = FALSE
  /\ pc = "ubi" /\ todo = {} /\ cur = None
  /\ table = [p \in Paths |-> None]
  /\ missed = {}

-----------------------------------------------------------------------------
(* The kernel and udevd.                                                   *)

\* A uevent about device d at node p.
Uevent(a, p, d) ==
  /\ Len(udevd) < UdevdSize
  /\ udevd' = Append(udevd, [act |-> a, path |-> p, dev |-> d])

Plug(p, d) ==
  /\ plugged[p] = None
  /\ KindOf[d] \in Takes[p] \ {"UBI"}
  /\ \A q \in Paths : plugged[q] # d
  /\ plugged' = [plugged EXCEPT ![p] = d]
  /\ indb' = indb \ {p}
  /\ Uevent("add", p, d)
  /\ UNCHANGED <<socket, listening, daemonVars, missed>>

Unplug(p) ==
  /\ plugged[p] # None
  /\ KindOf[plugged[p]] # "UBI"
  /\ plugged' = [plugged EXCEPT ![p] = None]
  /\ Uevent("remove", p, plugged[p])
  /\ UNCHANGED <<indb, socket, listening, daemonVars, missed>>

\* The monitor asks for block and mmc events, so it hears nothing of the flash.
Murmur(p) ==
  /\ plugged[p] # None
  /\ KindOf[plugged[p]] # "UBI"
  /\ Uevent("other", p, plugged[p])
  /\ UNCHANGED <<plugged, indb, socket, listening, daemonVars, missed>>

\* udevd is done with its oldest event.  What is lost while the enumeration
\* is still ahead does no harm: that one sees the outcome.
Broadcast ==
  /\ udevd # <<>>
  /\ LET e == Head(udevd)
         heard == listening /\ Len(socket) < SocketSize
     IN  /\ indb' = IF e.act = "add" /\ plugged[e.path] = e.dev
                    THEN indb \cup {e.path} ELSE indb
         /\ socket' = IF heard THEN Append(socket, e) ELSE socket
         /\ missed' = IF heard \/ e.act = "other" \/ pc \in {"ubi", "enumerate"}
                      THEN missed ELSE missed \cup {e.path}
  /\ udevd' = Tail(udevd)
  /\ UNCHANGED <<plugged, listening, daemonVars>>

-----------------------------------------------------------------------------
(* rdkStorage_init.                                                        *)

\* The flash is asked for by name, before the other devices.
CheckUbi ==
  /\ pc = "ubi"
  /\ pc' = "enumerate"
  /\ table' = [p \in Paths |->
       IF plugged[p] # None /\ KindOf[plugged[p]] = "UBI"
       THEN [dev |-> plugged[p], type |-> "NVRAM"] ELSE table[p]]
  /\ UNCHANGED <<kernelVars, socket, listening, todo, cur, missed>>

Enumerate ==
  /\ pc = "enumerate"
  /\ todo' = {x \in Place : plugged[x.path] = x.dev /\ KindOf[x.dev] # "UBI"}
  /\ pc' = "scan"
  /\ UNCHANGED <<kernelVars, socket, listening, cur, table, missed>>

\* Fault of ScanType: a class for USB, which addNewMemoryDevice has not got.
ScanType_Usb(p, d) ==
  CASE KindOf[d] = "SD" -> "SDCARD"
    [] KindOf[d] = "MMC" /\ p = EmmcNode -> "EMMCCARD"
    [] KindOf[d] \in {"ATA", "USB"} /\ p \in indb -> KindOf[d]
    [] OTHER -> None

\* The class the scan creates for device d at node p: none for an eMMC at
\* another node, for a disk udevd has not looked at, for a RAM disk, and
\* addNewMemoryDevice refuses USB.
ScanType(p, d) ==
  CASE KindOf[d] = "SD" -> "SDCARD"
    [] KindOf[d] = "MMC" /\ p = EmmcNode -> "EMMCCARD"
    [] KindOf[d] = "ATA" /\ p \in indb -> "HDD"
    [] OTHER -> None

\* Fault of ScanDevice: a device that is not there yet is asked for again.
ScanDevice_Again ==
  /\ pc = "scan"
  /\ \E x \in todo :
       /\ \A y \in todo : x.path <= y.path
       /\ plugged[x.path] = x.dev
       /\ todo' = todo \ {x}
       /\ LET t == ScanType(x.path, x.dev)
          IN  IF t # None
              THEN pc' = "scanAdd" /\ cur' = [path |-> x.path, dev |-> x.dev, type |-> t]
              ELSE UNCHANGED <<pc, cur>>
  /\ UNCHANGED <<kernelVars, socket, listening, table, missed>>

\* udev_device_new_from_syspath finds nothing if the device is gone by now.
\* The scan looks for the flash once more if CheckUbi found none; as flash
\* neither comes nor goes while the daemon runs, it finds none either.
ScanDevice ==
  /\ pc = "scan"
  /\ \E x \in todo :
       /\ \A y \in todo : x.path <= y.path
       /\ todo' = todo \ {x}
       /\ LET t == ScanType(x.path, x.dev)
          IN  IF plugged[x.path] = x.dev /\ t # None
              THEN pc' = "scanAdd" /\ cur' = [path |-> x.path, dev |-> x.dev, type |-> t]
              ELSE UNCHANGED <<pc, cur>>
  /\ UNCHANGED <<kernelVars, socket, listening, table, missed>>

\* addNewMemoryDevice, which takes its time (it mounts, and it grants a
\* cancelled health monitor five seconds).
AddCurrent ==
  /\ pc \in {"scanAdd", "eventAdd"}
  /\ table' = [table EXCEPT ![cur.path] =
                 IF @ = None THEN [dev |-> cur.dev, type |-> cur.type] ELSE @]
  /\ cur' = None
  /\ pc' = IF pc = "scanAdd" THEN "scan" ELSE "pause"
  /\ UNCHANGED <<kernelVars, socket, listening, todo, missed>>

\* The scan is done; the monitor thread is created and begins to listen.
StartMonitor ==
  /\ pc = "scan"
  /\ todo = {}
  /\ listening' = TRUE
  /\ pc' = "idle"
  /\ UNCHANGED <<kernelVars, socket, todo, cur, table, missed>>

-----------------------------------------------------------------------------
(* deviceConnectRemoveMonitorfn.                                           *)

\* The class an add event creates: any mmc device is an SD card, if its
\* parent is still in sysfs; what the event says of the bus is enough for
\* the others.
EventType(p, d) ==
  CASE KindOf[d] \in {"SD", "MMC"} /\ plugged[p] = d -> "SDCARD"
    [] KindOf[d] = "ATA" -> "HDD"
    [] OTHER -> None

\* Faults of Receive: the newest event first, and a loop that ends at an
\* event it has no use for.
Receive_Newest ==
  /\ pc = "idle"
  /\ socket # <<>>
  /\ socket' = SubSeq(socket, 1, Len(socket) - 1)
  /\ LET e == socket[Len(socket)]
         t == EventType(e.path, e.dev)
     IN  /\ IF e.act = "add" /\ t # None
            THEN pc' = "eventAdd" /\ cur' = [path |-> e.path, dev |-> e.dev, type |-> t]
            ELSE pc' = "pause" /\ UNCHANGED cur
         /\ table' = IF e.act = "remove" THEN [table EXCEPT ![e.path] = None] ELSE table
  /\ UNCHANGED <<kernelVars, listening, todo, missed>>

Receive_StopAtOther ==
  /\ pc = "idle"
  /\ socket # <<>>
  /\ Head(socket).act # "other"
  /\ socket' = Tail(socket)
  /\ LET e == Head(socket)
         t == EventType(e.path, e.dev)
     IN  /\ IF e.act = "add" /\ t # None
            THEN pc' = "eventAdd" /\ cur' = [path |-> e.path, dev |-> e.dev, type |-> t]
            ELSE pc' = "pause" /\ UNCHANGED cur
         /\ table' = IF e.act = "remove" THEN [table EXCEPT ![e.path] = None] ELSE table
  /\ UNCHANGED <<kernelVars, listening, todo, missed>>

Receive ==
  /\ pc = "idle"
  /\ socket # <<>>
  /\ socket' = Tail(socket)
  /\ LET e == Head(socket)
         t == EventType(e.path, e.dev)
     IN  /\ IF e.act = "add" /\ t # None
            THEN pc' = "eventAdd" /\ cur' = [path |-> e.path, dev |-> e.dev, type |-> t]
            ELSE pc' = "pause" /\ UNCHANGED cur
         /\ table' = IF e.act = "remove" THEN [table EXCEPT ![e.path] = None] ELSE table
  /\ UNCHANGED <<kernelVars, listening, todo, missed>>

\* sleep(5) after each event is over.
Resume ==
  /\ pc = "pause"
  /\ pc' = "idle"
  /\ UNCHANGED <<kernelVars, socket, listening, todo, cur, table, missed>>

-----------------------------------------------------------------------------
\* The daemon dies, wherever it stands, and systemd starts it again; its
\* socket dies with it, the kernel's and udevd's affairs go on.
Restart ==
  /\ pc # "ubi"
  /\ pc' = "ubi" /\ todo' = {} /\ cur' = None
  /\ table' = [p \in Paths |-> None]
  /\ listening' = FALSE /\ socket' = <<>>
  /\ missed' = {}
  /\ UNCHANGED kernelVars

-----------------------------------------------------------------------------
Scan    == CheckUbi \/ Enumerate \/ ScanDevice \/ StartMonitor
Monitor == Receive \/ Resume
Daemon  == Scan \/ AddCurrent \/ Monitor
Kernel  == \E p \in Paths : Unplug(p) \/ Murmur(p) \/ \E d \in Devices : Plug(p, d)

Next == Kernel \/ Broadcast \/ Daemon \/ Restart

Spec == Init /\ [][Next]_vars

(* udevd and the daemon's thread go on; nothing obliges the hardware.      *)
FairSpec == Spec /\ WF_vars(Broadcast) /\ WF_vars(Daemon)

-----------------------------------------------------------------------------
\* Events about node p that are still on their way.
InFlight(p) ==
  \E q \in {udevd, socket} :
    \E i \in 1..Len(q) : q[i].path = p /\ q[i].act # "other"

\* The table is right about node p: what it lists there is there, cards and
\* disks that are there are listed, and what no class serves is not.
Right(p) ==
  /\ table[p] # None => table[p].dev = plugged[p]
  /\ plugged[p] # None =>
       /\ KindOf[plugged[p]] \in {"SD", "ATA", "UBI"} => table[p] # None
       /\ KindOf[plugged[p]] \in {"USB", "RAM"} => table[p] = None

(* Once the monitor waits for events and none about a node is on its way,  *)
(* the table is right about that node, whatever was plugged, unplugged and *)
(* exchanged during the scan and during the events' handling, and however  *)
(* often the daemon was started again in between, unless an event about it *)
(* was lost since the enumeration.                                         *)
RightWhenQuiet ==
  \A p \in Paths : listening /\ pc # "eventAdd" /\ ~InFlight(p) /\ p \notin missed => Right(p)

(* udevd and the daemon's thread wait for events and for nothing else:     *)
(* whatever came and went in the meantime, neither the scan nor an event   *)
(* at the head of a queue leaves them without a next step.                 *)
EventsAreWaitedForOnly ==
  /\ udevd # <<>> => ENABLED <<Broadcast>>_vars
  /\ pc # "idle" \/ socket # <<>> => ENABLED <<Daemon>>_vars

(* The table catches up, five seconds at a time: a node at which nothing   *)
(* changes any more, and about which no event was lost, is right in the    *)
(* end and for good, if the daemon does not die again and again.           *)
Untouched(p) == plugged'[p] = plugged[p]

CatchesUp ==
  <>[][~Restart]_vars => \A p \in Paths :
    <>[][Untouched(p)]_vars /\ <>[](p \notin missed) => <>[]Right(p)

(* rdkStorage.cpp:169, in the thread rdkStorage_init starts when its scan  *)
(* is done: "Remove the device from monitoring".  A device that is gone is *)
(* not listed once every event has been handled.                           *)
GoneIsRemoved ==
  listening /\ pc = "idle" /\ udevd = <<>> /\ socket = <<>>
    => \A p \in Paths : plugged[p] = None => table[p] = None
=============================================================================
