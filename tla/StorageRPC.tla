----------------------------- MODULE StorageRPC -----------------------------
(***************************************************************************)
(* The way from the manager to its clients: the start of the daemon        *)
(* (refactored/main/main.cpp), its IARM server                             *)
(* (refactored/rpc/rdkStorageMgr_iarm_internal.cpp), the singleton behind  *)
(* it (rSTMgrMainClass::getInstance), and the client library               *)
(* (refactored/rpc/rdkStorageMgr_iarm_external.cpp) in one client process. *)
(*                                                                         *)
(*   Main     registers the calls, then the event callback, then           *)
(*            enumerates and watches the devices (rdkStorage_init and the  *)
(*            udev monitor thread it creates last).                        *)
(*   Servers  the threads IARM runs the RPC handlers on.  They serve as    *)
(*            soon as a call is registered, while Main is still starting.  *)
(*   Clients  threads of a process that uses the client library.           *)
(*                                                                         *)
(* What a call does inside the manager is a single step here and is taken  *)
(* apart in StorageMain (the table and its mutex) and TSBService (the      *)
(* settings).  A device is plugged in and pulled out at most once.         *)
(* Arguments are never NULL: each stub refuses that before anything else.  *)
(***************************************************************************)
EXTENDS Naturals, Sequences, SequencesExt, FiniteSets

CONSTANTS
  Main, Servers,   \* the threads of the daemon
  Clients,         \* the threads of the client process
  Devices,         \* devices that can be plugged in
  CallOrder,       \* the calls clients make, in the order they are registered
  CallsOf,         \* CallsOf[c]: those client thread c makes
  None

ManagerThreads == Servers \cup {Main}

\* At most one instance of rSTMgrMainClass per thread: named after its maker.
Instances == ManagerThreads

\* The four groups of RPC handlers, by what they need of the manager.
DeviceCalls == {"GetDeviceIDs", "GetDeviceInfo", "GetDeviceInfoList", "GetPartitionInfo"}
TSBCalls    == {"GetTSBStatus", "SetTSBMaxMinutes", "GetTSBMaxMinutes",
                "GetTSBCapacityInMinutes", "GetTSBCapacity", "GetTSBFreeSpace",
                "GetDVRCapacity", "GetDVRFreeSpace"}
FlagCalls   == {"GetIsTSBEnabled", "SetIsTSBEnabled", "GetIsDVREnabled", "SetIsDVREnabled"}
OtherCalls  == {"GetHealthInfo", "GetTSBPartitionMountPath", "NotifyMGRAboutFailure"}

\* The calls that name no device and answer with every one, those that name
\* one, and those that fail if no listed device supports a TSB.
ListCalls   == {"GetDeviceIDs", "GetDeviceInfoList"}
NamingCalls == {"GetDeviceInfo", "GetPartitionInfo", "GetHealthInfo"}
NeedsTSB    == {"SetIsTSBEnabled", "SetIsDVREnabled", "GetTSBPartitionMountPath"}

Calls == ToSet(CallOrder)

\* The events the manager can send, the first two of type STATUS_CHANGED, the
\* third of type TSB_ERROR.
Events == [dev : Devices, what : {"added", "removed", "unfit"}]

\* What a client thread asks of the library, and what it is answered.
Request == [name : Calls \cup {"Init"}, dev : Devices \cup {None}]
Reply   == [rc : {"SUCCESS", "GENERIC_FAILURE"}, devs : SUBSET Devices]

ASSUME StorageRPCAssumption ==
  /\ Main \notin Servers
  /\ CallOrder \in Seq(DeviceCalls \cup TSBCalls \cup FlagCalls \cup OtherCalls)
  /\ CallOrder # <<>> /\ IsInjective(CallOrder)
  /\ CallsOf \in [Clients -> SUBSET (Calls \cup {"Init"})]
  /\ IsFiniteSet(Clients)
  /\ None \notin ManagerThreads \cup Clients \cup Devices \cup Events \cup Request \cup Reply

VARIABLES
  registered,  \* how many calls of CallOrder are registered with IARM
  g,           \* g_instance
  made,        \* the instances that were constructed
  pointer,     \* pointer[i]: m_eventCallback of instance i
  table,       \* table[i]: the devices instance i lists
  crashed,     \* the daemon called a pointer nobody set
  pc,          \* pc[m]: where thread m of the daemon stands
  inst,        \* inst[m]: the instance it works on
  work,        \* work[m]: the device or the client it works for
  queue,       \* the clients whose calls IARM has yet to hand to a server
  flag,        \* gIsSTMGRInited of the client process
  handlers,    \* how often IARM hands each event to it
  callback,    \* whether g_eventCallbackFunction is set
  inbox,       \* the events it was handed and has not dispatched
  heard,       \* heard[e]: how often its callback was called with e
  cpc,         \* cpc[c]: where client thread c stands
  call,        \* call[c]: what it calls
  reply,       \* reply[c]: what it was answered
  plugged,     \* plugged[d]: what became of device d
  unfit,       \* devices whose medium was found unfit for a TSB
  owed,        \* history: events announced while the client was listening that
               \* it has not heard
  inits,       \* history: client threads that found the library uninitialised
  known,       \* history: known[c]: devices c had heard of when it asked for a list
  listed       \* history: listed[c]: devices that were listed during its call

busVars     == <<registered, queue>>
managerVars == <<g, made, pointer, table, crashed, pc, inst, work>>
libraryVars == <<flag, handlers, callback, inits>>
eventVars   == <<inbox, heard, owed>>
callVars    == <<cpc, call, reply, known, listed>>
deviceVars  == <<plugged, unfit>>
vars == <<busVars, managerVars, libraryVars, eventVars, callVars, deviceVars>>

\* What an uninitialised pointer can hold: nothing, an address it held in an
\* earlier life of the memory, or anything else.
Pointers == {"null", "server", "wild"}

ManagerPCs == {"register", "check", "construct", "reread", "setCallback",
               "idle", "handle", "insert", "announce"}
ClientPCs  == {"idle", "setFlag", "handlers", "send", "wait", "served", "done"}

TypeOK ==
  /\ registered \in 0..Len(CallOrder)
  /\ g \in Instances \cup {None}
  /\ made \subseteq Instances
  /\ pointer \in [Instances -> Pointers]
  /\ table \in [Instances -> SUBSET Devices]
  /\ pc \in [ManagerThreads -> ManagerPCs]
  /\ inst \in [ManagerThreads -> Instances \cup {None}]
  /\ work \in [ManagerThreads -> Clients \cup Events \cup {None}]
  /\ queue \in Seq(Clients)
  /\ handlers \in 0..Cardinality(Clients)
  /\ inbox \in Seq(Events)
  /\ heard \in [Events -> Nat]
  /\ cpc \in [Clients -> ClientPCs]
  /\ call \in [Clients -> Request \cup {None}]
  /\ reply \in [Clients -> Reply \cup {None}]
  /\ plugged \in [Devices -> {"never", "in", "out"}]
  /\ unfit \subseteq Devices
  /\ owed \subseteq Events
  /\ inits \subseteq Clients
  /\ known \in [Clients -> SUBSET Devices] /\ listed \in [Clients -> SUBSET Devices]
  /\ crashed \in BOOLEAN /\ flag \in BOOLEAN /\ callback \in BOOLEAN

Init ==
  /\ registered = 0 /\ queue = <<>>
  /\ g = None /\ made = {}
  /\ pointer = [i \in Instances |-> "null"]
  /\ table = [i \in Instances |-> {}]
  /\ crashed = FALSE
  /\ pc = [m \in ManagerThreads |-> IF m = Main THEN "register" ELSE "idle"]
  /\ inst = [m \in ManagerThreads |-> None]
  /\ work = [m \in ManagerThreads |-> None]
  /\ flag = FALSE /\ callback = FALSE /\ inits = {}
  /\ handlers = 0
  /\ inbox = <<>> /\ heard = [e \in Events |-> 0] /\ owed = {}
  /\ cpc = [c \in Clients |-> "idle"]
  /\ call = [c \in Clients |-> None]
  /\ reply = [c \in Clients |-> None]
  /\ known = [c \in Clients |-> {}] /\ listed = [c \in Clients |-> {}]
  /\ plugged = [d \in Devices |-> "never"] /\ unfit = {}

-----------------------------------------------------------------------------
(* Start of the daemon, and the singleton.                                 *)

\* stmgr_BeginIARMMode registers the calls one after another.
RegisterCall ==
  /\ pc[Main] = "register"
  /\ registered' = registered + 1
  /\ pc' = IF registered' = Len(CallOrder) THEN [pc EXCEPT ![Main] = "check"] ELSE pc
  /\ UNCHANGED <<queue, g, made, pointer, table, crashed, inst, work,
                 libraryVars, eventVars, callVars, deviceVars>>

\* What m wants its instance for.
Then(m) == IF m = Main THEN "setCallback" ELSE "handle"

\* getInstance takes no lock: it looks, creates, and looks again.
Look(m) ==
  IF g = None THEN pc' = [pc EXCEPT ![m] = "construct"] /\ UNCHANGED inst
  ELSE pc' = [pc EXCEPT ![m] = Then(m)] /\ inst' = [inst EXCEPT ![m] = g]

BeginRegistration ==
  /\ pc[Main] = "check"
  /\ Look(Main)
  /\ UNCHANGED <<busVars, g, made, pointer, table, crashed, work,
                 libraryVars, eventVars, callVars, deviceVars>>

\* The constructor leaves m_eventCallback as it finds it.
Construct(m) ==
  /\ pc[m] = "construct" /\ ~crashed
  /\ made' = made \cup {m}
  /\ \E p \in {"null", "wild"} : pointer' = [pointer EXCEPT ![m] = p]
  /\ g' = m
  /\ pc' = [pc EXCEPT ![m] = "reread"]
  /\ UNCHANGED <<busVars, table, crashed, inst, work,
                 libraryVars, eventVars, callVars, deviceVars>>

\* The return value may be read from memory again, or be what was stored.
ReturnInstance(m) ==
  /\ pc[m] = "reread" /\ ~crashed
  /\ \E i \in {m, g} : inst' = [inst EXCEPT ![m] = i]
  /\ pc' = [pc EXCEPT ![m] = Then(m)]
  /\ UNCHANGED <<busVars, g, made, pointer, table, crashed, work,
                 libraryVars, eventVars, callVars, deviceVars>>

\* Fault of SetCallback: the test for NULL is inverted.
SetCallback_Inverted ==
  /\ pc[Main] = "setCallback" /\ ~crashed
  /\ pc' = [pc EXCEPT ![Main] = "idle"]
  /\ inst' = [inst EXCEPT ![Main] = None]
  /\ UNCHANGED <<busVars, g, made, pointer, table, crashed, work,
                 libraryVars, eventVars, callVars, deviceVars>>

\* rdkStorage_RegisterEventCallback, the last step of stmgr_BeginIARMMode.
SetCallback ==
  /\ pc[Main] = "setCallback" /\ ~crashed
  /\ pointer' = [pointer EXCEPT ![inst[Main]] = "server"]
  /\ pc' = [pc EXCEPT ![Main] = "idle"]
  /\ inst' = [inst EXCEPT ![Main] = None]
  /\ UNCHANGED <<busVars, g, made, table, crashed, work,
                 libraryVars, eventVars, callVars, deviceVars>>

-----------------------------------------------------------------------------
(* Devices come and go, and listeners are told.                            *)

\* The client has its handlers registered and a callback to pass events to.
Listening == callback /\ handlers > 0

\* Fault of Post: an event is broadcast under two event types.
Post_Twice(p, e) ==
  /\ inbox' = IF p = "server" THEN inbox \o [k \in 1..(2 * handlers) |-> e] ELSE inbox
  /\ crashed' = (p = "wild")
  /\ owed' = IF Listening THEN owed \cup {e} ELSE owed
  /\ UNCHANGED heard

\* notifyEvent through the pointer p: stmgr_eventCallback broadcasts e on the
\* bus, which hands it to the handlers registered for its type.
Post(p, e) ==
  /\ inbox' = IF p = "server" THEN inbox \o [k \in 1..handlers |-> e] ELSE inbox
  /\ crashed' = (p = "wild")
  /\ owed' = IF Listening THEN owed \cup {e} ELSE owed
  /\ UNCHANGED heard

\* Fault of Populate: the device is announced before it is in the table.
Populate_AnnounceFirst(d) ==
  /\ pc[Main] = "idle" /\ ~crashed
  /\ plugged[d] = "never"
  /\ plugged' = [plugged EXCEPT ![d] = "in"]
  /\ inst' = [inst EXCEPT ![Main] = g]
  /\ work' = [work EXCEPT ![Main] = [dev |-> d, what |-> "added"]]
  /\ pc' = [pc EXCEPT ![Main] = "insert"]
  /\ Post(pointer[g], [dev |-> d, what |-> "added"])
  /\ UNCHANGED <<busVars, g, made, pointer, table, libraryVars, callVars, unfit>>

\* addNewMemoryDevice up to the lock.  A medium that finds itself unfit says
\* so while it is populated, through a pointer that is set only afterwards.
Populate(d) ==
  /\ pc[Main] = "idle" /\ ~crashed
  /\ plugged[d] = "never"
  /\ plugged' = [plugged EXCEPT ![d] = "in"]
  /\ inst' = [inst EXCEPT ![Main] = g]
  /\ work' = [work EXCEPT ![Main] = [dev |-> d, what |-> "added"]]
  /\ pc' = [pc EXCEPT ![Main] = "insert"]
  /\ \/ /\ unfit' = unfit \cup {d}
        /\ \E p \in Pointers : Post(p, [dev |-> d, what |-> "unfit"])
     \/ UNCHANGED <<eventVars, crashed, unfit>>
  /\ UNCHANGED <<busVars, g, made, pointer, table, libraryVars, callVars>>

\* The calls whose answers name devices.
Names(r) == r.name \notin {"Init", "NotifyMGRAboutFailure"}

\* What was listed at some moment of each call.
Relisted ==
  listed' = [c \in Clients |-> IF call[c] # None /\ Names(call[c])
                            THEN listed[c] \cup table'[g] ELSE {}]

Insert ==
  /\ pc[Main] = "insert" /\ ~crashed
  /\ table' = [table EXCEPT ![inst[Main]] = @ \cup {work[Main].dev}]
  /\ pc' = [pc EXCEPT ![Main] = "announce"]
  /\ Relisted
  /\ UNCHANGED <<busVars, g, made, pointer, crashed, inst, work,
                 libraryVars, eventVars, cpc, call, reply, known, deviceVars>>

\* deleteMemoryDevice: what is not found is not announced.
Erase(d) ==
  /\ pc[Main] = "idle" /\ ~crashed
  /\ plugged[d] = "in"
  /\ plugged' = [plugged EXCEPT ![d] = "out"]
  /\ IF d \in table[g]
     THEN /\ inst' = [inst EXCEPT ![Main] = g]
          /\ work' = [work EXCEPT ![Main] = [dev |-> d, what |-> "removed"]]
          /\ table' = [table EXCEPT ![g] = @ \ {d}]
          /\ pc' = [pc EXCEPT ![Main] = "announce"]
     ELSE UNCHANGED <<inst, work, table, pc>>
  /\ UNCHANGED <<busVars, g, made, pointer, crashed, libraryVars, eventVars, callVars, unfit>>

Announce ==
  /\ pc[Main] = "announce" /\ ~crashed
  /\ Post(pointer[inst[Main]], work[Main])
  /\ pc' = [pc EXCEPT ![Main] = "idle"]
  /\ inst' = [inst EXCEPT ![Main] = None]
  /\ work' = [work EXCEPT ![Main] = None]
  /\ UNCHANGED <<busVars, g, made, pointer, table, libraryVars, callVars, deviceVars>>

-----------------------------------------------------------------------------
(* The RPC handlers.  An answer names the devices it is about: those a      *)
(* list holds, the one that was asked for or that answered for its kind,    *)
(* none for 0, false or nothing.                                            *)

Ok(D)  == [rc |-> "SUCCESS", devs |-> D]
Failed == [rc |-> "IPCCORE_FAIL", devs |-> {}]

\* The devices of instance i that can answer for a TSB or for recordings;
\* which of them support it is TSBService's.
FirstOf(i) == {{d} : d \in table[i] \ unfit}

\* Fault of DeviceAnswers: the list is copied to the caller before it is filled.
DeviceAnswers_Blank(i, r) ==
  IF r.name \in ListCalls THEN {Ok({})}
  ELSE IF r.dev \in table[i] THEN {Ok({r.dev}), Failed} ELSE {Failed}

DeviceAnswers(i, r) ==
  IF r.name \in ListCalls THEN {Ok(table[i])}
  ELSE IF r.dev \in table[i] THEN {Ok({r.dev})} \cup (IF r.name = "GetPartitionInfo" THEN {Failed} ELSE {})
  ELSE {Failed}

\* Fault of TSBAnswers: the handler waits for a device that supports a TSB.
TSBAnswers_Wait(i, r) == {Ok(D) : D \in FirstOf(i)}

\* Without a device 0 or unknown, and success; a length may be refused.
TSBAnswers(i, r) ==
  {Ok({})} \cup {Ok(D) : D \in FirstOf(i)}
  \cup (IF r.name = "SetTSBMaxMinutes" /\ FirstOf(i) # {} THEN {Failed} ELSE {})

\* The getters cannot fail; the setters need a device.
FlagAnswers(i, r) ==
  {Ok(D) : D \in FirstOf(i)} \cup (IF r.name \in NeedsTSB THEN {Failed} ELSE {Ok({})})

HealthAnswers(i, r) ==
  IF r.name = "GetHealthInfo"
  THEN IF r.dev \in table[i] THEN {Ok({r.dev})} ELSE {Failed}
  ELSE {Failed} \cup {Ok(D) : D \in FirstOf(i)}

\* The report of a failure is looked at only if there is none.
NotifyAnswers == {Ok({})}

Answers(i, r) ==
  CASE r.name \in DeviceCalls -> DeviceAnswers(i, r)
    [] r.name \in TSBCalls    -> TSBAnswers(i, r)
    [] r.name \in FlagCalls   -> FlagAnswers(i, r)
    [] r.name = "NotifyMGRAboutFailure" -> NotifyAnswers
    [] OTHER -> HealthAnswers(i, r)

\* Fault of Dispatch: a call that comes before there is a manager is dropped.
Dispatch_NotReady(m) ==
  /\ pc[m] = "idle" /\ ~crashed
  /\ queue # <<>>
  /\ queue' = Tail(queue)
  /\ LET c == Head(queue)
     IN  /\ cpc' = [cpc EXCEPT ![c] = "served"]
         /\ IF g = None THEN UNCHANGED <<pc, inst, work>>
            ELSE Look(m) /\ work' = [work EXCEPT ![m] = c]
  /\ UNCHANGED <<registered, g, made, pointer, table, crashed,
                 libraryVars, eventVars, call, reply, known, listed, deviceVars>>

\* IARM hands the next call to a server thread that has none; the handler
\* begins with getInstance, that of NotifyMGRAboutFailure does not get there.
Dispatch(m) ==
  /\ pc[m] = "idle" /\ ~crashed
  /\ queue # <<>>
  /\ queue' = Tail(queue)
  /\ LET c == Head(queue)
     IN  /\ work' = [work EXCEPT ![m] = c]
         /\ cpc' = [cpc EXCEPT ![c] = "served"]
         /\ IF call[c].name = "NotifyMGRAboutFailure"
            THEN pc' = [pc EXCEPT ![m] = "handle"] /\ UNCHANGED inst
            ELSE Look(m)
  /\ UNCHANGED <<registered, g, made, pointer, table, crashed,
                 libraryVars, eventVars, call, reply, known, listed, deviceVars>>

\* What the client's stub makes of the result of its call: the flag getters
\* have no way to say that it failed, a report of a failure says nothing.
Deliver(r, res) ==
  IF r.name \in {"GetIsTSBEnabled", "GetIsDVREnabled", "NotifyMGRAboutFailure"}
  THEN [rc |-> "SUCCESS", devs |-> res.devs]
  ELSE [rc |-> IF res.rc = "SUCCESS" THEN "SUCCESS" ELSE "GENERIC_FAILURE", devs |-> res.devs]

Handle(m) ==
  /\ pc[m] = "handle" /\ ~crashed
  /\ LET c == work[m]
     IN  /\ \E res \in Answers(inst[m], call[c]) :
              reply' = [reply EXCEPT ![c] = Deliver(call[c], res)]
         /\ cpc' = [cpc EXCEPT ![c] = "done"]
  /\ pc' = [pc EXCEPT ![m] = "idle"]
  /\ inst' = [inst EXCEPT ![m] = None]
  /\ work' = [work EXCEPT ![m] = None]
  /\ UNCHANGED <<busVars, g, made, pointer, table, crashed,
                 libraryVars, eventVars, call, known, listed, deviceVars>>

-----------------------------------------------------------------------------
(* The client library.                                                     *)

\* What c has been told of and not been told, or could not be told, the end of.
HeardOf == {d \in Devices : heard[[dev |-> d, what |-> "added"]] > 0 /\ plugged[d] = "in"}

\* An API call of thread c: rdkStorage_init, or one that first sees to it
\* that the library is initialised.
Begin(c, r) ==
  /\ cpc[c] = "idle"
  /\ r.name \in CallsOf[c] /\ (r.name = "Init" => ~flag)
  /\ r.dev = None <=> r.name \notin NamingCalls
  /\ call' = [call EXCEPT ![c] = r]
  /\ known' = [known EXCEPT ![c] = IF r.name \in ListCalls THEN HeardOf ELSE {}]
  /\ listed' = [listed EXCEPT ![c] = IF Names(r) /\ g # None THEN table[g] ELSE {}]
  /\ cpc' = [cpc EXCEPT ![c] = IF flag THEN "send" ELSE "setFlag"]
  /\ UNCHANGED <<busVars, managerVars, libraryVars, eventVars, reply, deviceVars>>

\* Fault of SetFlag: it is never set.
SetFlag_Forgotten(c) ==
  /\ cpc[c] = "setFlag"
  /\ inits' = inits \cup {c}
  /\ cpc' = [cpc EXCEPT ![c] = "handlers"]
  /\ UNCHANGED <<busVars, managerVars, flag, handlers, callback, eventVars,
                 call, reply, known, listed, deviceVars>>

\* The flag is set before there is anything to it.
SetFlag(c) ==
  /\ cpc[c] = "setFlag"
  /\ flag' = TRUE
  /\ inits' = inits \cup {c}
  /\ cpc' = [cpc EXCEPT ![c] = "handlers"]
  /\ UNCHANGED <<busVars, managerVars, handlers, callback, eventVars,
                 call, reply, known, listed, deviceVars>>

\* The four handlers are registered one by one; an event meets only the one
\* for its type, and finds it registered or not.
RegisterHandlers(c) ==
  /\ cpc[c] = "handlers"
  /\ handlers' = handlers + 1
  /\ IF call[c].name = "Init"
     THEN cpc' = [cpc EXCEPT ![c] = "idle"] /\ call' = [call EXCEPT ![c] = None]
     ELSE cpc' = [cpc EXCEPT ![c] = "send"] /\ UNCHANGED call
  /\ UNCHANGED <<busVars, managerVars, flag, callback, inits, eventVars,
                 reply, known, listed, deviceVars>>

Served(name) == ~crashed /\ \E k \in 1..registered : CallOrder[k] = name

IARMFails(c) ==
  /\ reply' = [reply EXCEPT ![c] = Deliver(call[c], Failed)]
  /\ cpc' = [cpc EXCEPT ![c] = "done"]

\* IARM_Bus_Call: a call nobody has registered fails.
Send(c) ==
  /\ cpc[c] = "send"
  /\ IF Served(call[c].name)
     THEN /\ queue' = Append(queue, c)
          /\ cpc' = [cpc EXCEPT ![c] = "wait"]
          /\ UNCHANGED reply
     ELSE IARMFails(c) /\ UNCHANGED queue
  /\ UNCHANGED <<registered, managerVars, libraryVars, eventVars, call, known, listed, deviceVars>>

\* A call IARM could not deliver, or one the daemon did not live to answer.
LoseCall(c) ==
  /\ \/ /\ cpc[c] = "wait"
        /\ \E k \in 1..Len(queue) : queue[k] = c /\ queue' = RemoveAt(queue, k)
     \/ cpc[c] = "served" /\ crashed /\ UNCHANGED queue
  /\ IARMFails(c)
  /\ UNCHANGED <<registered, managerVars, libraryVars, eventVars, call, known, listed, deviceVars>>

Return(c) ==
  /\ cpc[c] = "done"
  /\ cpc' = [cpc EXCEPT ![c] = "idle"]
  /\ call' = [call EXCEPT ![c] = None]
  /\ reply' = [reply EXCEPT ![c] = None]
  /\ known' = [known EXCEPT ![c] = {}]
  /\ listed' = [listed EXCEPT ![c] = {}]
  /\ UNCHANGED <<busVars, managerVars, libraryVars, eventVars, deviceVars>>

\* rdkStorage_RegisterEventCallback of the client library; it initialises
\* nothing.
RegisterEventCallback ==
  /\ ~callback
  /\ callback' = TRUE
  /\ UNCHANGED <<busVars, managerVars, flag, handlers, inits, eventVars, callVars, deviceVars>>

\* Fault of DeviceCallback: one kind of event is taken for an unknown one.
DeviceCallback_Unknown ==
  /\ inbox # <<>>
  /\ inbox' = Tail(inbox)
  /\ IF callback /\ Head(inbox).what # "added"
     THEN /\ heard' = [heard EXCEPT ![Head(inbox)] = @ + 1]
          /\ owed' = owed \ {Head(inbox)}
     ELSE UNCHANGED <<heard, owed>>
  /\ UNCHANGED <<busVars, managerVars, libraryVars, callVars, deviceVars>>

\* _stmgr_deviceCallback, called by IARM in the client process.
DeviceCallback ==
  /\ inbox # <<>>
  /\ inbox' = Tail(inbox)
  /\ IF callback THEN /\ heard' = [heard EXCEPT ![Head(inbox)] = @ + 1]
                     /\ owed' = owed \ {Head(inbox)}
     ELSE UNCHANGED <<heard, owed>>
  /\ UNCHANGED <<busVars, managerVars, libraryVars, callVars, deviceVars>>

-----------------------------------------------------------------------------
MainStep       == RegisterCall \/ BeginRegistration \/ SetCallback \/ Insert \/ Announce
GetInstance(m) == Construct(m) \/ ReturnInstance(m)
ServerStep(m)  == Dispatch(m) \/ Handle(m)
ClientStep(c)  == SetFlag(c) \/ RegisterHandlers(c) \/ Send(c) \/ Return(c)

Next ==
  \/ MainStep
  \/ \E d \in Devices : Populate(d) \/ Erase(d)
  \/ \E m \in ManagerThreads : GetInstance(m)
  \/ \E m \in Servers : ServerStep(m)
  \/ \E c \in Clients : ClientStep(c) \/ LoseCall(c) \/ \E r \in Request : Begin(c, r)
  \/ RegisterEventCallback \/ DeviceCallback

Spec == Init /\ [][Next]_vars

\* Threads run when they can; nothing makes a device come or go, a client
\* call, or a call be lost while the daemon lives.
ServerGoesOn(m) == ServerStep(m) \/ GetInstance(m)
ClientGoesOn(c) == ClientStep(c) \/ (crashed /\ LoseCall(c))

FairToServer(m) == WF_vars(ServerGoesOn(m))
FairToClient(c) == WF_vars(ClientGoesOn(c))

FairToServers == \A m \in Servers : FairToServer(m)
FairToClients == \A c \in Clients : FairToClient(c)

Fairness ==
  /\ WF_vars(MainStep \/ GetInstance(Main))
  /\ FairToServers
  /\ FairToClients
  /\ WF_vars(DeviceCallback)

FairSpec == Spec /\ Fairness

-----------------------------------------------------------------------------
(* There is one manager.  Not so when getInstance is raced.                *)
OneInstance == \A i, j \in made : i = j

Unfit == [dev : Devices, what : {"unfit"}]

(* Whatever the manager announces while a client has its handlers and its  *)
(* callback registered is on its way to that callback, unless an RPC       *)
(* served during the start made a second manager, whose callback nobody    *)
(* registered.                                                             *)
AnnouncedIsOnItsWay == OneInstance => owed \ Unfit \subseteq ToSet(inbox)

(* An event is heard no more often than there were threads that found the  *)
(* client library uninitialised at the same time, and only after it        *)
(* happened.                                                               *)
HeardOnce ==
  \A e \in Events :
    LET n == heard[e] + Cardinality({k \in DOMAIN inbox : inbox[k] = e})
    IN  /\ n <= Cardinality(inits)
        /\ n > 0 => CASE e.what = "added"   -> plugged[e.dev] # "never"
                      [] e.what = "removed" -> plugged[e.dev] = "out"
                      [] OTHER -> e.dev \in unfit

(* A client that has heard that a device was added and then asks for the   *)
(* list finds it there, unless it was pulled out meanwhile; and what an    *)
(* answer names was in the table at some moment of the call.               *)
HeardIsListed ==
  OneInstance => \A c \in Clients :
    cpc[c] = "done" /\ reply[c] # None /\ reply[c].rc = "SUCCESS" =>
      /\ reply[c].devs \subseteq listed[c]
      /\ call[c].name \in ListCalls =>
           \A d \in known[c] : d \in reply[c].devs \/ plugged[d] = "out"

(* The daemon calls a pointer that nobody set only if two threads made a   *)
(* manager each, or a medium found itself unfit.                           *)
CrashNeedsUnsetPointer ==
  crashed => ~OneInstance \/ unfit # {}

(* While the daemon lives no call is forgotten: one that waits is in the   *)
(* queue, and one that was handed over is some server's, who works for     *)
(* nobody else.                                                            *)
NoCallIsForgotten ==
  \A c \in Clients :
    /\ cpc[c] = "wait" => c \in ToSet(queue)
    /\ cpc[c] = "served" /\ ~crashed => \E m \in Servers : pc[m] # "idle" /\ work[m] = c

\* Server thread m has a step to take if it has, or can get, something to do,
ServerWaitsForCallsOnly(m) ==
  ~crashed /\ (pc[m] # "idle" \/ queue # <<>>) => ENABLED <<ServerGoesOn(m)>>_vars

\* and thread c of the client, if it does not wait for the daemon.
ClientWaitsForTheDaemonOnly(c) ==
  cpc[c] # "idle" /\ (cpc[c] \in {"wait", "served"} => crashed) => ENABLED <<ClientGoesOn(c)>>_vars

(* A server waits for calls, a call for the daemon, and nobody for anything *)
(* else: every handler has an answer to every call, whatever the table      *)
(* holds and whichever instance it reads, no half of an initialisation      *)
(* keeps a client, and IARM gets rid of every call of a daemon that died.   *)
WaitingIsForTheBusOnly ==
  /\ \A m \in Servers : ServerWaitsForCallsOnly(m)
  /\ \A c \in Clients : ClientWaitsForTheDaemonOnly(c)
  /\ inbox # <<>> => ENABLED <<DeviceCallback>>_vars

(* Every API call returns, also when the daemon is gone.                   *)
Returns(c) == cpc[c] # "idle" ~> cpc[c] = "idle"

CallsReturn == \A c \in Clients : Returns(c)

(* What was announced to a listening client is heard in the end.           *)
IsHeard(e) == e \in owed ~> e \notin owed \/ ~OneInstance

AnnouncedIsHeard == \A e \in Events \ Unfit : IsHeard(e)

-----------------------------------------------------------------------------
(* What the client sees of the device table.  A list enquires about every  *)
(* device, a call that names one about that one; an answer that says       *)
(* success is what the table held, one that does not says nothing.         *)

ListedNow == IF g = None THEN {} ELSE table[g]

AskedFor ==
  [c \in Clients |->
     IF call[c] = None THEN None
     ELSE IF call[c].name \in ListCalls THEN Devices
     ELSE IF call[c].name \in NamingCalls THEN {call[c].dev} ELSE None]

AnsweredWith ==
  [c \in Clients |->
     IF AskedFor[c] # None /\ reply[c] # None /\ reply[c].rc = "SUCCESS"
     THEN reply[c].devs ELSE None]

Table == INSTANCE DeviceTable WITH
  Requests <- {Devices} \cup {{d} : d \in Devices},
  listed <- ListedNow, asked <- AskedFor, answered <- AnsweredWith

tableVars == <<ListedNow, AskedFor, AnsweredWith>>

(* From the handler on the bus to the reply in the client: an answer that  *)
(* says success is what the manager's table held at one moment of the      *)
(* call, whatever happens to devices, calls and the daemon meanwhile, as   *)
(* long as there is one manager (then this is Table!LossySpec).            *)
ImplementsDeviceTable ==
  Table!Init /\ [][OneInstance' => Table!Next \/ \E c \in Clients : Table!Lose(c)]_tableVars

-----------------------------------------------------------------------------
(* rdkStorageSDCard.cpp:280 and rdkStorageeMMC.cpp:196: "Notify Event for  *)
(* Disqualified tsb card".                                                 *)
UnfitIsAnnounced == OneInstance => owed \cap Unfit \subseteq ToSet(inbox)
=============================================================================
