------------------------ MODULE StorageRPCRefinement ------------------------
(***************************************************************************)
(* Proof that a client of StorageRPC sees the device table of DeviceTable  *)
(* over a bus that can lose calls, for any number of servers, clients and  *)
(* devices and any order in which the calls are registered.                *)
(***************************************************************************)
EXTENDS StorageRPCProofs

\* A device is listed after it was plugged in, and inserted once.
PluggedInv ==
  /\ \A i \in Instances : \A d \in table[i] : plugged[d] # "never"
  /\ pc[Main] = "insert" => \A i \in Instances : work[Main].dev \notin table[i]

\* What the refinement needs of a state before a step.
Ground == Inv /\ WorkInv /\ PluggedInv

-----------------------------------------------------------------------------
(* The invariant.                                                          *)

LEMMA PluggedStep == TypeOK /\ PlaceInv /\ WorkInv /\ PluggedInv /\ [Next]_vars => PluggedInv'
<1> SUFFICES ASSUME TypeOK, PlaceInv, WorkInv, PluggedInv, [Next]_vars PROVE PluggedInv'
  OBVIOUS
<1>1. /\ Main \in ManagerThreads /\ Main \notin Servers /\ Servers \subseteq ManagerThreads
      /\ plugged \in [Devices -> {"never", "in", "out"}]
      /\ table \in [Instances -> SUBSET Devices]
      /\ pc \in [ManagerThreads -> ManagerPCs]
  BY StorageRPCAssumption DEF ManagerThreads, TypeOK
<1>2. CASE \/ RegisterCall \/ BeginRegistration \/ SetCallback \/ Announce
           \/ Construct(Main) \/ ReturnInstance(Main)
  <2>1. pc'[Main] # "insert" /\ UNCHANGED <<table, plugged>>
    BY <1>1, <1>2
    DEF RegisterCall, BeginRegistration, Look, Then, SetCallback, Announce, Construct,
        ReturnInstance, deviceVars
  <2>2. QED
    BY <2>1 DEF PluggedInv
<1>3. CASE Insert
  <2>1. /\ pc'[Main] = "announce" /\ plugged' = plugged
        /\ table' = [table EXCEPT ![inst[Main]] = @ \cup {work[Main].dev}]
    BY <1>1, <1>3 DEF Insert, deviceVars
  <2>2. plugged[work[Main].dev] # "never"
    BY <1>3 DEF Insert, WorkInv
  <2>3. \A i \in Instances : table'[i] \subseteq table[i] \cup {work[Main].dev}
    BY <1>1, <2>1
  <2>4. QED
    BY <2>1, <2>2, <2>3 DEF PluggedInv
<1>4. ASSUME NEW d \in Devices, Populate(d) PROVE PluggedInv'
  <2>1. /\ work'[Main].dev = d /\ plugged[d] = "never" /\ table' = table
        /\ plugged' = [plugged EXCEPT ![d] = "in"]
    BY <1>1, <1>4 DEF Populate, TypeOK
  <2>2. QED
    BY <1>1, <2>1 DEF PluggedInv
<1>5. ASSUME NEW d \in Devices, Erase(d) PROVE PluggedInv'
  <2>1. /\ pc'[Main] # "insert" /\ plugged' = [plugged EXCEPT ![d] = "out"]
        /\ table' = table \/ table' = [table EXCEPT ![g] = @ \ {d}]
    BY <1>1, <1>5 DEF Erase
  <2>2. \A i \in Instances : table'[i] \subseteq table[i]
    BY <1>1, <2>1
  <2>3. \A x \in Devices : plugged[x] # "never" => plugged'[x] # "never"
    BY <1>1, <2>1
  <2>4. QED
    BY <1>1, <2>1, <2>2, <2>3 DEF PluggedInv
<1>6. ASSUME UNCHANGED <<pc[Main], work[Main], plugged, table>> PROVE PluggedInv'
  BY <1>6 DEF PluggedInv
<1>7. ASSUME NEW m \in Servers, ServerStep(m) \/ Construct(m) \/ ReturnInstance(m)
      PROVE  PluggedInv'
  <2>1. UNCHANGED <<pc[Main], work[Main], plugged, table>>
    BY <1>1, <1>7
    DEF ServerStep, Dispatch, Look, Handle, Construct, ReturnInstance, deviceVars, TypeOK
  <2>2. QED
    BY <1>6, <2>1
<1>8. CASE ClientSide \/ UNCHANGED vars
  BY <1>6, <1>8, ClientSideKeeps DEF vars, managerVars, deviceVars
<1>9. QED
  BY <1>2, <1>3, <1>4, <1>5, <1>7, <1>8, Sides DEF MainSide, MainStep, ServerSide

LEMMA GroundHolds == Spec => []Ground
<1>1. Init => Ground
  <2>1. Init => PluggedInv
    BY DEF Init, PluggedInv, Instances, ManagerThreads
  <2>2. QED
    BY <2>1, InvInit, OnceInit DEF Ground
<1>2. Ground /\ [Next]_vars => Ground'
  <2> SUFFICES ASSUME Ground, [Next]_vars PROVE Ground'
    OBVIOUS
  <2>1. TypeOK /\ PlaceInv
    BY DEF Ground, Inv
  <2>2. QED
    BY <2>1, InvNext, WorkStep, PluggedStep DEF Ground
<1>3. QED
  BY <1>1, <1>2, PTL DEF Spec

-----------------------------------------------------------------------------
(* The steps of the daemon and of devices.                                 *)

\* While there is one manager, who works on one works on it.
LEMMA TheInstance ==
  ASSUME InstInv, OneInstance, NEW m \in ManagerThreads, inst[m] # None
  PROVE  g # None /\ inst[m] = g
BY DEF InstInv, OneInstance

LEMMA TableUnchanged ==
  ASSUME UNCHANGED <<g, table>>
  PROVE  UNCHANGED ListedNow
BY DEF ListedNow

LEMMA CallsUnchanged ==
  ASSUME UNCHANGED <<call, reply>>
  PROVE  UNCHANGED <<AskedFor, AnsweredWith>>
BY DEF AskedFor, AnsweredWith

LEMMA InsertArrives ==
  ASSUME Ground, OneInstance, Insert
  PROVE  \E d \in Devices : Table!Arrive(d)
<1> DEFINE d == work[Main].dev
<1>1. /\ Main \in ManagerThreads /\ inst[Main] # None
      /\ table \in [Instances -> SUBSET Devices] /\ g \in Instances \cup {None}
  BY DEF Ground, Inv, InstInv, TypeOK, Insert, ManagerThreads
<1>2. g \in Instances /\ g # None /\ inst[Main] = g
  BY <1>1, TheInstance DEF Ground, Inv
<1>3. d \in Devices /\ d \notin table[g]
  BY <1>2 DEF Ground, Inv, PlaceInv, PluggedInv, Insert, Events
<1>4. table' = [table EXCEPT ![g] = @ \cup {d}] /\ g' = g /\ call' = call /\ reply' = reply
  BY <1>2 DEF Insert
<1> HIDE DEF d
<1>5. table'[g] = table[g] \cup {d}
  BY <1>1, <1>2, <1>4
<1>6. ListedNow = table[g] /\ ListedNow' = table[g] \cup {d}
  BY <1>2, <1>4, <1>5 DEF ListedNow
<1>7. UNCHANGED <<AskedFor, AnsweredWith>>
  BY <1>4, CallsUnchanged
<1>8. QED
  BY <1>3, <1>6, <1>7 DEF Table!Arrive

LEMMA EraseLeaves ==
  ASSUME Ground, NEW d \in Devices, Erase(d)
  PROVE  Table!Leave(d) \/ UNCHANGED tableVars
<1>1. /\ table \in [Instances -> SUBSET Devices] /\ g \in Instances \cup {None}
      /\ pc[Main] = "idle" /\ g # None
  BY DEF Ground, Inv, InstInv, TypeOK, Erase
<1>2. UNCHANGED <<AskedFor, AnsweredWith>> /\ g' = g
  BY CallsUnchanged DEF Erase, callVars
<1>3. CASE d \in table[g]
  <2>1. table' = [table EXCEPT ![g] = @ \ {d}]
    BY <1>3 DEF Erase
  <2>2. ListedNow = table[g] /\ ListedNow' = table[g] \ {d}
    BY <1>1, <1>2, <2>1 DEF ListedNow
  <2>3. QED
    BY <1>2, <1>3, <2>2 DEF Table!Leave
<1>4. CASE d \notin table[g]
  <2>1. table' = table
    BY <1>4 DEF Erase
  <2>2. QED
    BY <1>2, <2>1, TableUnchanged DEF tableVars
<1>5. QED
  BY <1>3, <1>4

\* The first manager begins with an empty table.
LEMMA ConstructStutters ==
  ASSUME Ground, (OneInstance)', NEW m \in ManagerThreads, Construct(m)
  PROVE  UNCHANGED tableVars
<1>1. /\ pc[m] = "construct" /\ made' = made \cup {m} /\ g' = m /\ table' = table
      /\ call' = call /\ reply' = reply
  BY DEF Construct, callVars
<1>2. m \notin made /\ m # None
  BY <1>1, StorageRPCAssumption DEF Ground, Inv, InstInv
<1>3. made = {}
  BY <1>1, <1>2 DEF OneInstance
<1>4. g = None /\ table[m] = {}
  BY <1>2, <1>3 DEF Ground, Inv, InstInv, ToldInv, Instances
<1>5. ListedNow' = ListedNow
  BY <1>1, <1>2, <1>4 DEF ListedNow
<1>6. QED
  BY <1>1, <1>5, CallsUnchanged DEF tableVars

-----------------------------------------------------------------------------
(* The steps of a call.                                                    *)

\* Each enquiry is about a set of devices.
LEMMA AskedType ==
  ASSUME TypeOK, NEW c \in Clients
  PROVE  /\ AskedFor[c] # None => call[c] # None /\ call[c].name \in ListCalls \cup NamingCalls
         /\ call[c] # None /\ call[c].name \in ListCalls => AskedFor[c] = Devices
         /\ call[c] # None /\ call[c].name \in NamingCalls => AskedFor[c] = {call[c].dev}
<1>1. ListCalls \cap NamingCalls = {}
  BY DEF ListCalls, NamingCalls
<1>2. QED
  BY <1>1 DEF AskedFor

\* What an answer that says success says of the table it comes from.
LEMMA NamingAnswers ==
  ASSUME NEW i, NEW r, r.name \in NamingCalls, NEW res \in Answers(i, r), res.rc = "SUCCESS"
  PROVE  r.dev \in table[i] /\ res.devs = {r.dev}
<1>1. Failed.rc # "SUCCESS" /\ Ok({r.dev}).devs = {r.dev} /\ r.name \notin ListCalls
      /\ r.name # "NotifyMGRAboutFailure"
  BY DEF Failed, Ok, NamingCalls, ListCalls
<1>2. CASE r.name \in DeviceCalls
  <2>1. res \in DeviceAnswers(i, r)
    BY <1>2 DEF Answers, DeviceCalls, TSBCalls, FlagCalls
  <2>2. (r.dev \in table[i] /\ res = Ok({r.dev})) \/ res = Failed
    BY <1>1, <2>1 DEF DeviceAnswers
  <2>3. QED
    BY <1>1, <2>2
<1>3. CASE r.name \notin DeviceCalls
  <2>1. r.name = "GetHealthInfo"
    BY <1>3 DEF NamingCalls, DeviceCalls
  <2>2. res \in HealthAnswers(i, r)
    BY <1>3, <2>1 DEF Answers, TSBCalls, FlagCalls
  <2>3. (r.dev \in table[i] /\ res = Ok({r.dev})) \/ res = Failed
    BY <2>1, <2>2 DEF HealthAnswers
  <2>4. QED
    BY <1>1, <2>3
<1>4. QED
  BY <1>2, <1>3

\* The stub says success of an enquiry only if the handler did.
LEMMA SuccessDelivered ==
  ASSUME NEW r, r.name \in ListCalls \cup NamingCalls, NEW res
  PROVE  /\ Deliver(r, res).devs = res.devs
         /\ Deliver(r, res).rc = "SUCCESS" <=> res.rc = "SUCCESS"
BY DEF Deliver, ListCalls, NamingCalls

\* Nothing a step does to other calls is seen of this one.
LEMMA CallKept ==
  ASSUME NEW c \in Clients, UNCHANGED <<call[c], reply[c]>>
  PROVE  UNCHANGED <<AskedFor[c], AnsweredWith[c]>>
<1>1. AskedFor'[c] = AskedFor[c]
  BY DEF AskedFor
<1>2. QED
  BY <1>1 DEF AnsweredWith

\* A reply that says no success, or to a call that is no enquiry, is no answer.
LEMMA NoAnswerStutters ==
  ASSUME NEW c \in Clients, NEW a, UNCHANGED <<g, table, call>>, reply[c] = None,
         reply' = [reply EXCEPT ![c] = a], TypeOK,
         AskedFor[c] = None \/ a.rc # "SUCCESS"
  PROVE  UNCHANGED tableVars
<1>1. AskedFor' = AskedFor
  BY DEF AskedFor
<1>2. ASSUME NEW x \in Clients PROVE AnsweredWith'[x] = AnsweredWith[x]
  <2>1. CASE x # c
    BY <1>1, <2>1, CallKept DEF TypeOK
  <2>2. CASE x = c
    BY <1>1, <2>2 DEF AnsweredWith, TypeOK
  <2>3. QED
    BY <2>1, <2>2
<1>3. AnsweredWith' = AnsweredWith
  BY <1>2 DEF AnsweredWith
<1>4. QED
  BY <1>1, <1>3, TableUnchanged DEF tableVars

LEMMA HandleAnswers ==
  ASSUME Ground, OneInstance, NEW m \in Servers, Handle(m)
  PROVE  (\E c \in Clients : Table!Answer(c)) \/ UNCHANGED tableVars
<1> DEFINE c == work[m]
<1>1. /\ c \in Clients /\ cpc[c] = "served" /\ m \in ManagerThreads /\ pc[m] = "handle"
      /\ call[c].name # "NotifyMGRAboutFailure" => inst[m] # None
      /\ reply[c] = None
  BY DEF Ground, Inv, Handle, PlaceInv, ServeInv, CallInv, ManagerThreads
<1>2. PICK res \in Answers(inst[m], call[c]) :
        reply' = [reply EXCEPT ![c] = Deliver(call[c], res)]
  BY DEF Handle
<1>3. UNCHANGED <<g, table, call>>
  BY DEF Handle
<1> HIDE DEF c
<1>4. TypeOK /\ InstInv
  BY DEF Ground, Inv
<1>5. PICK a : a = Deliver(call[c], res)
  OBVIOUS
<1>6. CASE AskedFor[c] = None \/ a.rc # "SUCCESS"
  BY <1>1, <1>2, <1>3, <1>4, <1>5, <1>6, NoAnswerStutters
<1>7. CASE AskedFor[c] # None /\ a.rc = "SUCCESS"
  <2>1. call[c] # None /\ call[c].name \in ListCalls \cup NamingCalls
    BY <1>1, <1>4, <1>7, AskedType
  <2>2. call[c].name # "NotifyMGRAboutFailure"
    BY <2>1 DEF ListCalls, NamingCalls
  <2>3. g # None /\ inst[m] = g /\ table[g] \subseteq Devices
    BY <1>1, <1>4, <2>2, TheInstance DEF TypeOK
  <2>4. a.devs = res.devs /\ res.rc = "SUCCESS"
    BY <1>5, <1>7, <2>1, SuccessDelivered
  <2>5. a.devs = AskedFor[c] \cap ListedNow
    <3>1. CASE call[c].name \in ListCalls
      BY <1>1, <1>2, <1>4, <2>1, <2>3, <2>4, <3>1, AskedType, AnswersNameListed DEF ListedNow
    <3>2. CASE call[c].name \in NamingCalls
      BY <1>1, <1>2, <1>4, <2>1, <2>3, <2>4, <3>2, AskedType, NamingAnswers DEF ListedNow
    <3>3. QED
      BY <2>1, <3>1, <3>2
  <2>6. AskedFor' = AskedFor /\ ListedNow' = ListedNow
    BY <1>3 DEF AskedFor, ListedNow
  <2>7. AnsweredWith[c] = None
    BY <1>1 DEF AnsweredWith
  <2>8. a # None
    BY <1>4, <1>5, <2>3, <2>4, <2>5, Delivered DEF ListedNow
  <2>9. AnsweredWith' = [AnsweredWith EXCEPT ![c] = AskedFor[c] \cap ListedNow]
    <3>1. /\ reply'[c] = a /\ \A x \in Clients \ {c} : reply'[x] = reply[x]
      BY <1>1, <1>2, <1>4, <1>5 DEF TypeOK
    <3>2. AnsweredWith'[c] = a.devs
      BY <1>1, <1>7, <2>6, <2>8, <3>1 DEF AnsweredWith
    <3>3. \A x \in Clients \ {c} : AnsweredWith'[x] = AnsweredWith[x]
      BY <1>3, <3>1, CallKept
    <3>4. QED
      BY <1>1, <2>5, <3>2, <3>3 DEF AnsweredWith
  <2>10. QED
    BY <1>1, <1>7, <2>6, <2>7, <2>9 DEF Table!Answer
<1>8. QED
  BY <1>6, <1>7

\* Both are functions of the client,
LEMMA Views ==
  /\ AskedFor = [c \in Clients |-> AskedFor[c]] /\ AnsweredWith = [c \in Clients |-> AnsweredWith[c]]
  /\ AskedFor' = [c \in Clients |-> AskedFor'[c]]
  /\ AnsweredWith' = [c \in Clients |-> AnsweredWith'[c]]
<1>1. AskedFor = [c \in Clients |-> AskedFor[c]] /\ AskedFor' = [c \in Clients |-> AskedFor'[c]]
  BY DEF AskedFor
<1>2. AnsweredWith = [c \in Clients |-> AnsweredWith[c]]
  BY DEF AnsweredWith
<1>3. AnsweredWith' = [c \in Clients |-> AnsweredWith'[c]]
  BY DEF AnsweredWith
<1>4. QED
  BY <1>1, <1>2, <1>3

\* which differ in one place at most.
LEMMA ChangedAt ==
  ASSUME NEW S, NEW f, NEW h, NEW c \in S,
         f = [x \in S |-> f[x]], h = [x \in S |-> h[x]],
         \A x \in S \ {c} : h[x] = f[x]
  PROVE  h = [f EXCEPT ![c] = h[c]] /\ (h[c] = f[c] => h = f)
OBVIOUS

\* A step that touches one call shows in that call alone.
LEMMA OneCallMoves ==
  ASSUME TypeOK, NEW c \in Clients, NEW r, NEW a,
         call' = [call EXCEPT ![c] = r], reply' = [reply EXCEPT ![c] = a]
  PROVE  /\ AskedFor' = [AskedFor EXCEPT ![c] = AskedFor'[c]]
         /\ AnsweredWith' = [AnsweredWith EXCEPT ![c] = AnsweredWith'[c]]
         /\ AskedFor'[c] = AskedFor[c] => AskedFor' = AskedFor
         /\ AnsweredWith'[c] = AnsweredWith[c] => AnsweredWith' = AnsweredWith
<1>1. \A x \in Clients \ {c} : call'[x] = call[x] /\ reply'[x] = reply[x]
  BY DEF TypeOK
<1>2. \A x \in Clients \ {c} : AskedFor'[x] = AskedFor[x] /\ AnsweredWith'[x] = AnsweredWith[x]
  BY <1>1, CallKept
<1>3. QED
  BY <1>2, Views, ChangedAt

LEMMA BeginAsks ==
  ASSUME Ground, NEW c \in Clients, NEW r \in Request, Begin(c, r)
  PROVE  \/ \E S \in {Devices} \cup {{d} : d \in Devices} : Table!Ask(c, S)
         \/ UNCHANGED tableVars
<1>1. /\ call[c] = None /\ reply[c] = None /\ TypeOK
      /\ call' = [call EXCEPT ![c] = r] /\ reply' = reply /\ UNCHANGED <<g, table>>
      /\ r.name \in NamingCalls => r.dev # None
  BY DEF Ground, Inv, CallInv, Begin, managerVars
<1>2. r # None /\ r.dev \in Devices \cup {None} /\ call'[c] = r /\ reply'[c] = None
  BY <1>1, StorageRPCAssumption DEF Request, TypeOK
<1>3. reply' = [reply EXCEPT ![c] = None]
  BY <1>1 DEF TypeOK
<1>4. /\ AskedFor' = [AskedFor EXCEPT ![c] = AskedFor'[c]]
      /\ AnsweredWith' = [AnsweredWith EXCEPT ![c] = AnsweredWith'[c]]
  BY <1>1, <1>3, OneCallMoves
<1>5. AskedFor[c] = None /\ AnsweredWith[c] = None /\ AnsweredWith'[c] = None
  BY <1>1, <1>2 DEF AskedFor, AnsweredWith
<1>6. AnsweredWith' = AnsweredWith /\ ListedNow' = ListedNow
  BY <1>1, <1>4, <1>5, TableUnchanged DEF AnsweredWith
<1>7. CASE r.name \in ListCalls \cup NamingCalls
  <2>1. AskedFor'[c] \in {Devices} \cup {{d} : d \in Devices}
    BY <1>1, <1>2, <1>7 DEF AskedFor
  <2>2. QED
    BY <1>4, <1>5, <1>6, <2>1 DEF Table!Ask
<1>8. CASE r.name \notin ListCalls \cup NamingCalls
  <2>1. AskedFor'[c] = None
    BY <1>2, <1>8 DEF AskedFor
  <2>2. AskedFor' = AskedFor
    BY <1>1, <1>3, <1>5, <2>1, OneCallMoves
  <2>3. QED
    BY <1>6, <2>2 DEF tableVars
<1>9. QED
  BY <1>7, <1>8

LEMMA LibraryStutters ==
  ASSUME Ground, NEW c \in Clients, SetFlag(c) \/ RegisterHandlers(c) \/ Send(c) \/ LoseCall(c)
  PROVE  UNCHANGED tableVars
<1>0. TypeOK /\ CallInv
  BY DEF Ground, Inv
<1>1. CASE SetFlag(c)
  BY <1>1, TableUnchanged, CallsUnchanged DEF SetFlag, managerVars, tableVars
<1>2. CASE RegisterHandlers(c)
  <2>1. UNCHANGED <<g, table, reply>> /\ reply[c] = None
    BY <1>0, <1>2 DEF RegisterHandlers, managerVars, CallInv
  <2>2. CASE call' = call
    BY <2>1, <2>2, TableUnchanged, CallsUnchanged DEF tableVars
  <2>3. CASE call[c].name = "Init" /\ call' = [call EXCEPT ![c] = None]
    <3>1. reply' = [reply EXCEPT ![c] = None] /\ call'[c] = None
      BY <1>0, <2>1, <2>3 DEF TypeOK
    <3>2. AskedFor[c] = None /\ AskedFor'[c] = None /\ AnsweredWith[c] = None /\ AnsweredWith'[c] = None
      BY <2>3, <3>1 DEF AskedFor, AnsweredWith, ListCalls, NamingCalls
    <3>3. AskedFor' = AskedFor /\ AnsweredWith' = AnsweredWith
      BY <1>0, <2>3, <3>1, <3>2, OneCallMoves
    <3>4. QED
      BY <2>1, <3>3, TableUnchanged DEF tableVars
  <2>4. QED
    BY <1>2, <2>2, <2>3 DEF RegisterHandlers
<1>3. CASE Send(c) \/ LoseCall(c)
  <2>1. UNCHANGED <<g, table, call>> /\ reply[c] = None
    BY <1>0, <1>3 DEF Send, LoseCall, managerVars, CallInv
  <2>2. CASE reply' = reply
    BY <2>1, <2>2, TableUnchanged, CallsUnchanged DEF tableVars
  <2>3. CASE reply' = [reply EXCEPT ![c] = Deliver(call[c], Failed)]
    <3>1. PICK a : a = Deliver(call[c], Failed)
      OBVIOUS
    <3>2. Failed.rc # "SUCCESS"
      BY DEF Failed
    <3>3. AskedFor[c] = None \/ a.rc # "SUCCESS"
      BY <1>0, <3>1, <3>2, AskedType, SuccessDelivered
    <3>4. QED
      BY <1>0, <2>1, <2>3, <3>1, <3>3, NoAnswerStutters
  <2>4. QED
    BY <1>3, <2>2, <2>3 DEF Send, LoseCall, IARMFails
<1>4. QED
  BY <1>1, <1>2, <1>3

LEMMA ReturnCollects ==
  ASSUME Ground, NEW c \in Clients, Return(c)
  PROVE  Table!Collect(c) \/ Table!Lose(c) \/ UNCHANGED tableVars
<1>1. /\ TypeOK /\ UNCHANGED <<g, table>>
      /\ call' = [call EXCEPT ![c] = None] /\ reply' = [reply EXCEPT ![c] = None]
  BY DEF Ground, Inv, Return, managerVars
<1>2. call'[c] = None /\ reply'[c] = None
  BY <1>1 DEF TypeOK
<1>3. AskedFor'[c] = None /\ AnsweredWith'[c] = None
  BY <1>2 DEF AskedFor, AnsweredWith
<1>4. /\ AskedFor' = [AskedFor EXCEPT ![c] = None]
      /\ AnsweredWith' = [AnsweredWith EXCEPT ![c] = None]
  BY <1>1, <1>3, OneCallMoves
<1>5. ListedNow' = ListedNow
  BY <1>1, TableUnchanged
<1>6. CASE AnsweredWith[c] # None
  BY <1>4, <1>5, <1>6 DEF Table!Collect
<1>7. CASE AnsweredWith[c] = None
  <2>1. AnsweredWith' = AnsweredWith
    BY <1>4, <1>7 DEF AnsweredWith
  <2>2. CASE AskedFor[c] # None
    BY <1>4, <1>5, <1>7, <2>1, <2>2 DEF Table!Lose
  <2>3. CASE AskedFor[c] = None
    BY <1>4, <1>5, <2>1, <2>3 DEF tableVars, AskedFor
  <2>4. QED
    BY <2>2, <2>3
<1>8. QED
  BY <1>6, <1>7

-----------------------------------------------------------------------------
(* Together.                                                               *)

LossyNext == Table!Next \/ \E c \in Clients : Table!Lose(c)

\* A manager that was made stays.
LEMMA OnceOne == OneInstance' /\ [Next]_vars => OneInstance
<1> SUFFICES ASSUME OneInstance', [Next]_vars PROVE OneInstance
  OBVIOUS
<1>1. made \subseteq made'
  <2>1. CASE MainSide
    BY <2>1 DEF MainSide, MainStep, RegisterCall, BeginRegistration, SetCallback, Insert, Announce,
                Populate, Erase, Construct, ReturnInstance
  <2>2. CASE ServerSide
    BY <2>2 DEF ServerSide, ServerStep, Dispatch, Handle, Construct, ReturnInstance
  <2>3. CASE ClientSide \/ UNCHANGED vars
    BY <2>3, ClientSideKeeps DEF vars, managerVars
  <2>4. QED
    BY <2>1, <2>2, <2>3, Sides
<1>2. QED
  BY <1>1 DEF OneInstance

LEMMA StepMaps ==
  Ground /\ [Next]_vars => [OneInstance' => LossyNext]_tableVars
<1> SUFFICES ASSUME Ground, OneInstance', [Next]_vars PROVE [LossyNext]_tableVars
  OBVIOUS
<1>0. OneInstance
  BY OnceOne
<1>1. CASE Insert
  BY <1>1, <1>0, InsertArrives DEF LossyNext, Table!Next
<1>2. ASSUME NEW d \in Devices, Erase(d) PROVE [LossyNext]_tableVars
  BY <1>2, <1>0, EraseLeaves DEF LossyNext, Table!Next
<1>3. ASSUME NEW m \in ManagerThreads, Construct(m) PROVE UNCHANGED tableVars
  BY <1>3, ConstructStutters
<1>4. ASSUME NEW m \in Servers, Handle(m) PROVE [LossyNext]_tableVars
  BY <1>4, <1>0, HandleAnswers DEF LossyNext, Table!Next
<1>5. ASSUME NEW c \in Clients, NEW r \in Request, Begin(c, r) PROVE [LossyNext]_tableVars
  BY <1>5, BeginAsks DEF LossyNext, Table!Next
<1>6. ASSUME NEW c \in Clients, SetFlag(c) \/ RegisterHandlers(c) \/ Send(c) \/ LoseCall(c)
      PROVE  UNCHANGED tableVars
  BY <1>6, LibraryStutters
<1>7. ASSUME NEW c \in Clients, Return(c) PROVE [LossyNext]_tableVars
  BY <1>7, ReturnCollects DEF LossyNext, Table!Next
<1>8. CASE \/ RegisterCall \/ BeginRegistration \/ SetCallback \/ Announce
           \/ \E d \in Devices : Populate(d)
           \/ \E m \in ManagerThreads : ReturnInstance(m)
           \/ \E m \in Servers : Dispatch(m)
           \/ RegisterEventCallback \/ DeviceCallback \/ UNCHANGED vars
  <2>1. UNCHANGED <<g, table, call, reply>>
    BY <1>8 DEF RegisterCall, BeginRegistration, SetCallback, Announce, Populate, ReturnInstance,
                Dispatch, RegisterEventCallback, DeviceCallback, vars, managerVars, callVars
  <2>2. QED
    BY <2>1, TableUnchanged, CallsUnchanged DEF tableVars
<1>9. QED
  BY <1>1, <1>2, <1>3, <1>4, <1>5, <1>6, <1>7, <1>8
  DEF Next, MainStep, GetInstance, ServerStep, ClientStep

(* As long as getInstance makes one manager, a client of the library sees  *)
(* the device table of DeviceTable over a bus that can lose calls: an      *)
(* enquiry that is answered with success is answered with what the table   *)
(* held at one moment of the call (the handlers of                         *)
(* rdkStorageMgr_iarm_internal.cpp and the stubs of                        *)
(* rdkStorageMgr_iarm_external.cpp).                                       *)
THEOREM ClientSeesTheTable == Spec => ImplementsDeviceTable
<1>1. Init => Table!Init
  BY DEF Init, Table!Init, ListedNow, AskedFor, AnsweredWith
<1>2. Ground /\ [Next]_vars
        => [OneInstance' => Table!Next \/ \E c \in Clients : Table!Lose(c)]_tableVars
  BY StepMaps DEF LossyNext
<1>3. QED
  BY <1>1, <1>2, GroundHolds, PTL DEF Spec, ImplementsDeviceTable

(* That is to say, the whole of it if there is never a second one.         *)
THEOREM OneManagerShowsTheTable == Spec /\ []OneInstance => Table!LossySpec
<1>1. [OneInstance' => Table!Next \/ \E c \in Clients : Table!Lose(c)]_tableVars /\ OneInstance'
        => [Table!Next \/ \E c \in Clients : Table!Lose(c)]_Table!vars
  BY DEF tableVars, Table!vars
<1>2. QED
  BY <1>1, ClientSeesTheTable, PTL DEF ImplementsDeviceTable, Table!LossySpec

-----------------------------------------------------------------------------
(* Where a second manager comes from.                                      *)

\* Each call that needs the manager is handed over when main has made it.
Punctual ==
  \A m \in Servers :
    Dispatch(m) => g # None \/ call[Head(queue)].name = "NotifyMGRAboutFailure"

PunctualSpec == Init /\ [][Next /\ Punctual]_vars

\* The manager is main's, and no server is about to make another.
MainsInv ==
  /\ made \subseteq {Main}
  /\ \A m \in Servers : pc[m] \notin {"construct", "reread"}

LEMMA MainsStep == TypeOK /\ MainsInv /\ [Next /\ Punctual]_vars => MainsInv'
<1> SUFFICES ASSUME TypeOK, MainsInv, [Next /\ Punctual]_vars PROVE MainsInv'
  OBVIOUS
<1>1. Main \notin Servers /\ Servers \subseteq ManagerThreads
  BY StorageRPCAssumption DEF ManagerThreads
<1>2. CASE MainSide
  <2>1. made' \subseteq made \cup {Main}
    BY <1>2 DEF MainSide, MainStep, RegisterCall, BeginRegistration, SetCallback, Insert, Announce,
                Populate, Erase, Construct, ReturnInstance
  <2>2. QED
    BY <1>2, <2>1, MainSideServers DEF MainsInv
<1>3. ASSUME NEW m \in Servers, Dispatch(m), Punctual PROVE MainsInv'
  <2>1. made' = made /\ pc' = [pc EXCEPT ![m] = "handle"]
    BY <1>1, <1>3 DEF Dispatch, Punctual, Look, Then
  <2>2. QED
    BY <2>1 DEF MainsInv, TypeOK
<1>4. ASSUME NEW m \in Servers, Handle(m) PROVE MainsInv'
  <2>1. made' = made /\ pc' = [pc EXCEPT ![m] = "idle"]
    BY <1>4 DEF Handle
  <2>2. QED
    BY <2>1 DEF MainsInv, TypeOK
<1>5. ASSUME NEW m \in Servers, Construct(m) \/ ReturnInstance(m) PROVE FALSE
  BY <1>5 DEF Construct, ReturnInstance, MainsInv
<1>6. CASE ClientSide \/ UNCHANGED vars
  BY <1>6, ClientSideKeeps DEF vars, managerVars, MainsInv
<1>7. CASE UNCHANGED vars
  BY <1>6, <1>7
<1>8. CASE Next /\ Punctual
  BY <1>2, <1>3, <1>4, <1>5, <1>6, <1>8, Sides DEF ServerSide, ServerStep
<1>9. QED
  BY <1>7, <1>8

(* A second manager is made only if IARM hands a call over before main has *)
(* made the first (rSTMgrMainClass::getInstance in rdkStorageMain.cpp, and *)
(* stmgr_BeginIARMMode, which registers the calls first).                  *)
THEOREM PunctualMakesOne == PunctualSpec => []OneInstance
<1>1. PunctualSpec => Spec
  BY PTL DEF PunctualSpec, Spec
<1>2. Init => MainsInv
  BY StorageRPCAssumption DEF Init, MainsInv, ManagerThreads
<1>3. MainsInv => OneInstance
  BY DEF MainsInv, OneInstance
<1>4. Spec => []TypeOK
  BY TypeCorrect
<1>5. QED
  BY <1>1, <1>2, <1>3, <1>4, MainsStep, PTL DEF PunctualSpec
=============================================================================
