-------------------------- MODULE StorageRPCProofs --------------------------
(***************************************************************************)
(* Proofs about StorageRPC, for any number of servers, clients and devices *)
(* and any order in which the calls are registered: what is sent, handled  *)
(* and answered is not lost or mixed up, and comes to its end.             *)
(***************************************************************************)
EXTENDS StorageRPC, SequenceTheorems, FiniteSetTheorems, TLAPS

-----------------------------------------------------------------------------
(* The inductive invariant.                                                *)

PlaceInv ==
  /\ pc[Main] \in ManagerPCs \ {"handle"}
  /\ \A m \in Servers : pc[m] \in {"idle", "construct", "reread", "handle"}
  /\ pc[Main] = "register" => registered < Len(CallOrder)
  /\ pc[Main] \in {"insert", "announce"} =>
       work[Main] \in Events /\ work[Main].what \in {"added", "removed"}
  /\ \A m \in Servers : pc[m] # "idle" => work[m] \in Clients

\* Who made an instance, who works on which, and what its callback is.
InstInv ==
  /\ g = None <=> made = {}
  /\ g # None => g \in made
  /\ \A m \in ManagerThreads :
       /\ inst[m] # None => inst[m] \in made
       /\ pc[m] = "reread" => m \in made
       /\ pc[m] = "construct" => m \notin made
  /\ pc[Main] \in {"setCallback", "insert", "announce"} => inst[Main] # None
  /\ pc[Main] \in {"idle", "insert", "announce"} =>
       made # {} /\ (OneInstance => \A i \in made : pointer[i] = "server")

\* Where a call stands, and what the client has of it.
CallInv ==
  \A c \in Clients :
    /\ call[c] = None <=> cpc[c] = "idle"
    /\ cpc[c] \in {"send", "wait", "served", "done"} => call[c].name # "Init"
    /\ reply[c] # None => cpc[c] = "done"

\* A call is in the queue once, or with one server.
QueueInv ==
  /\ \A k \in 1..Len(queue) : cpc[queue[k]] = "wait"
  /\ \A j, k \in 1..Len(queue) : queue[j] = queue[k] => j = k

ServeInv ==
  ~crashed =>
    /\ \A m \in Servers : pc[m] # "idle" =>
         /\ cpc[work[m]] = "served"
         /\ pc[m] = "handle" /\ call[work[m]].name # "NotifyMGRAboutFailure" => inst[m] # None
    /\ \A m, n \in Servers :
         pc[m] # "idle" /\ pc[n] # "idle" /\ work[m] = work[n] => m = n

\* The handlers were registered by threads that found the library
\* uninitialised, each once.
CountInv ==
  /\ \A c \in Clients :
       /\ cpc[c] = "setFlag" => c \notin inits
       /\ cpc[c] = "handlers" => c \in inits
       /\ c \in inits => flag
  /\ handlers = Cardinality({c \in inits : cpc[c] # "handlers"})

\* Device d is listed, or gone for good.
Present(d) == (\E i \in made : d \in table[i]) \/ plugged[d] = "out"

Added(d) == [dev |-> d, what |-> "added"]

\* An addition is told of when the device is listed.
ToldInv ==
  /\ \A i \in Instances \ made : table[i] = {}
  /\ pc[Main] = "announce" /\ work[Main].what = "added" =>
       work[Main].dev \in table[inst[Main]]
  /\ \A d \in Devices :
       heard[Added(d)] > 0 \/ Added(d) \in ToSet(inbox) => Present(d)
  /\ \A c \in Clients : \A d \in known[c] : Present(d)

\* The answers are about what was listed.
AnswerInv ==
  OneInstance => \A c \in Clients :
    /\ call[c] # None =>
         IF Names(call[c]) THEN \A i \in made : table[i] \subseteq listed[c] ELSE listed[c] = {}
    /\ reply[c] # None /\ reply[c].rc = "SUCCESS" =>
         /\ reply[c].devs \subseteq listed[c]
         /\ call[c].name \in ListCalls =>
              \A d \in known[c] : d \in reply[c].devs \/ plugged[d] = "out"

OwedInv ==
  /\ ~callback => owed = {}
  /\ AnnouncedIsOnItsWay

Inv == /\ TypeOK /\ PlaceInv /\ InstInv /\ CallInv /\ QueueInv /\ ServeInv
       /\ CountInv /\ ToldInv /\ AnswerInv /\ OwedInv /\ CrashNeedsUnsetPointer

-----------------------------------------------------------------------------
(* Queues.                                                                 *)

\* What a queue holds when its head is gone,
LEMMA ToSetTail ==
  ASSUME NEW S, NEW s \in Seq(S), s # <<>>
  PROVE  /\ Head(s) \in S /\ Tail(s) \in Seq(S) /\ Head(s) \in ToSet(s)
         /\ ToSet(Tail(s)) \subseteq ToSet(s)
         /\ \A x \in ToSet(s) : x = Head(s) \/ x \in ToSet(Tail(s))
<1> DEFINE r == Tail(s)
<1>1. /\ Len(s) \in Nat \ {0} /\ DOMAIN s = 1..Len(s) /\ Head(s) = s[1]
      /\ r \in Seq(S) /\ Len(r) = Len(s) - 1 /\ DOMAIN r = 1..Len(r)
      /\ \A i \in 1..Len(r) : r[i] = s[i + 1]
  BY HeadTailProperties, EmptySeq, LenProperties
<1> HIDE DEF r
<1>2. Head(s) \in ToSet(s)
  BY <1>1 DEF ToSet
<1>3. ASSUME NEW x \in ToSet(r) PROVE x \in ToSet(s)
  <2>1. PICK i \in 1..Len(r) : x = r[i]
    BY <1>1 DEF ToSet
  <2>2. i + 1 \in 1..Len(s) /\ x = s[i + 1]
    BY <1>1, <2>1
  <2>3. QED
    BY <1>1, <2>2 DEF ToSet
<1>4. ASSUME NEW x \in ToSet(s), x # Head(s) PROVE x \in ToSet(r)
  <2>1. PICK i \in 1..Len(s) : x = s[i]
    BY <1>1 DEF ToSet
  <2>2. i - 1 \in 1..Len(r) /\ (i - 1) + 1 = i
    BY <1>1, <1>4, <2>1
  <2>3. r[i - 1] = x
    BY <1>1, <2>1, <2>2
  <2>4. QED
    BY <1>1, <2>2, <2>3 DEF ToSet
<1>5. Head(s) \in S
  BY HeadTailProperties
<1>6. QED
  BY <1>1, <1>2, <1>3, <1>4, <1>5 DEF r

\* when copies of e came to its end,
LEMMA ToSetPosted ==
  ASSUME NEW S, NEW s \in Seq(S), NEW e \in S, NEW f \in Seq({e})
  PROVE  /\ s \o f \in Seq(S)
         /\ ToSet(s) \subseteq ToSet(s \o f)
         /\ ToSet(s \o f) \subseteq ToSet(s) \cup {e}
         /\ Len(f) > 0 => e \in ToSet(s \o f)
<1>0. PICK t : t = s \o f
  OBVIOUS
<1> DEFINE n == Len(f)
<1>1. f \in Seq(S) /\ n \in Nat /\ \A k \in 1..n : f[k] = e
  <2>1. n \in Nat /\ \A k \in 1..n : f[k] \in {e}
    BY LenProperties, ElementOfSeq
  <2>2. f \in Seq(S)
    BY SeqMonotonic
  <2>3. QED
    BY <2>1, <2>2
<1>2. /\ t \in Seq(S) /\ Len(t) = Len(s) + n /\ Len(s) \in Nat
      /\ \A i \in 1..(Len(s) + n) : t[i] = IF i <= Len(s) THEN s[i] ELSE f[i - Len(s)]
  BY <1>0, <1>1, ConcatProperties, LenProperties
<1>3. DOMAIN s = 1..Len(s) /\ DOMAIN t = 1..Len(t)
  BY <1>2, LenProperties
<1>4. ASSUME NEW i \in 1..Len(s) PROVE i \in DOMAIN t /\ t[i] = s[i]
  BY <1>2, <1>3
<1>5. ASSUME NEW i \in DOMAIN t PROVE t[i] = e \/ (i \in DOMAIN s /\ t[i] = s[i])
  <2>1. CASE i <= Len(s)
    BY <1>2, <1>3, <2>1
  <2>2. CASE ~(i <= Len(s))
    <3>1. i \in 1..(Len(s) + n) /\ i - Len(s) \in 1..n
      BY <1>2, <1>3, <2>2
    <3>2. t[i] = f[i - Len(s)]
      BY <1>2, <2>2, <3>1
    <3>3. QED
      BY <1>1, <3>1, <3>2
  <2>3. QED
    BY <2>1, <2>2
<1>6. ASSUME n > 0 PROVE Len(s) + n \in DOMAIN t /\ t[Len(s) + n] = e
  <2>1. /\ Len(s) + n \in DOMAIN t /\ (Len(s) + n) - Len(s) = n
        /\ t[Len(s) + n] = f[(Len(s) + n) - Len(s)]
    BY <1>2, <1>3, <1>6
  <2>2. QED
    BY <1>1, <1>6, <2>1
<1>7. QED
  BY <1>0, <1>2, <1>3, <1>4, <1>5, <1>6 DEF ToSet

\* and when the one at place k left it.
LEMMA RemoveAtProperties ==
  ASSUME NEW S, NEW s \in Seq(S), NEW k \in 1..Len(s)
  PROVE  /\ RemoveAt(s, k) \in Seq(S) /\ Len(RemoveAt(s, k)) = Len(s) - 1 /\ Len(s) \in Nat
         /\ \A i \in 1..(Len(s) - 1) :
              RemoveAt(s, k)[i] = IF i < k THEN s[i] ELSE s[i + 1]
<1> DEFINE a == SubSeq(s, 1, k - 1)
           b == SubSeq(s, k + 1, Len(s))
<1>1. Len(s) \in Nat /\ \A i \in 1..Len(s) : s[i] \in S
  BY LenProperties, ElementOfSeq
<1>2. /\ a \in Seq(S) /\ Len(a) = k - 1
      /\ \A i \in 1..(k - 1) : a[i] = s[i]
  <2>1. 1 \in Int /\ k - 1 \in Int /\ \A i \in 1..(k - 1) : s[i] \in S
    BY <1>1
  <2>2. /\ a \in Seq(S) /\ Len(a) = IF 1 <= k - 1 THEN (k - 1) - 1 + 1 ELSE 0
        /\ \A i \in 1..((k - 1) - 1 + 1) : a[i] = s[1 + i - 1]
    BY <2>1, SubSeqProperties
  <2> HIDE DEF a
  <2>3. QED
    BY <1>1, <2>2
<1>3. /\ b \in Seq(S) /\ Len(b) = Len(s) - k
      /\ \A i \in 1..(Len(s) - k) : b[i] = s[k + i]
  <2>1. k + 1 \in Int /\ Len(s) \in Int /\ \A i \in (k + 1)..Len(s) : s[i] \in S
    BY <1>1
  <2>2. /\ b \in Seq(S) /\ Len(b) = IF k + 1 <= Len(s) THEN Len(s) - (k + 1) + 1 ELSE 0
        /\ \A i \in 1..(Len(s) - (k + 1) + 1) : b[i] = s[(k + 1) + i - 1]
    BY <2>1, SubSeqProperties
  <2> HIDE DEF b
  <2>3. \A i \in Int : (k + 1) + i - 1 = k + i
    OBVIOUS
  <2>4. ASSUME NEW i \in 1..(Len(s) - k) PROVE b[i] = s[k + i]
    <3>1. i \in 1..(Len(s) - (k + 1) + 1) /\ i \in Int
      BY <1>1
    <3>2. QED
      BY <2>2, <2>3, <3>1
  <2>5. Len(b) = Len(s) - k
    BY <1>1, <2>2
  <2>6. QED
    BY <2>2, <2>4, <2>5
<1>4. RemoveAt(s, k) = a \o b
  BY DEF RemoveAt
<1> HIDE DEF a, b
<1>5. /\ a \o b \in Seq(S) /\ Len(a \o b) = Len(a) + Len(b)
      /\ \A i \in 1..(Len(a) + Len(b)) :
           (a \o b)[i] = IF i <= Len(a) THEN a[i] ELSE b[i - Len(a)]
  BY <1>2, <1>3, ConcatProperties
<1>6. ASSUME NEW i \in 1..(Len(s) - 1), ~(i < k) PROVE (a \o b)[i] = s[i + 1]
  <2>1. /\ (a \o b)[i] = b[i - Len(a)] /\ i - Len(a) \in 1..(Len(s) - k)
        /\ k + (i - Len(a)) = i + 1
    BY <1>1, <1>2, <1>3, <1>5, <1>6
  <2>2. QED
    BY <1>3, <2>1
<1>7. ASSUME NEW i \in 1..(Len(s) - 1), i < k PROVE (a \o b)[i] = s[i]
  BY <1>1, <1>2, <1>3, <1>5, <1>7
<1>8. QED
  BY <1>1, <1>2, <1>3, <1>4, <1>5, <1>6, <1>7

-----------------------------------------------------------------------------
(* The parts of the invariant, in every step.                              *)

\* What the client library does is no business of the manager.
ClientSide ==
  \/ \E c \in Clients : ClientStep(c) \/ LoseCall(c) \/ \E r \in Request : Begin(c, r)
  \/ RegisterEventCallback \/ DeviceCallback

LEMMA ClientSideKeeps ==
  ClientSide => UNCHANGED <<registered, managerVars, deviceVars>>
BY DEF ClientSide, ClientStep, SetFlag, RegisterHandlers, Send, Return, LoseCall, Begin,
       RegisterEventCallback, DeviceCallback, busVars

\* What main and the devices do is none of the clients', but for the history
\* of what was listed.
MainSide ==
  \/ MainStep \/ Construct(Main) \/ ReturnInstance(Main)
  \/ \E d \in Devices : Populate(d) \/ Erase(d)

LEMMA MainSideKeeps ==
  MainSide => UNCHANGED <<queue, libraryVars, cpc, call, reply, known>>
BY DEF MainSide, MainStep, RegisterCall, BeginRegistration, SetCallback, Insert, Announce,
       Construct, ReturnInstance, Populate, Erase, callVars, busVars

LEMMA MainSideServers ==
  ASSUME TypeOK, MainSide, NEW m \in Servers
  PROVE  pc'[m] = pc[m] /\ inst'[m] = inst[m] /\ work'[m] = work[m]
<1>1. m # Main /\ m \in ManagerThreads
  BY StorageRPCAssumption DEF ManagerThreads
<1>2. CASE MainStep
  BY <1>1, <1>2 DEF MainStep, RegisterCall, BeginRegistration, SetCallback, Insert, Announce,
                    Look, TypeOK
<1>3. CASE Construct(Main) \/ ReturnInstance(Main)
  BY <1>1, <1>3 DEF Construct, ReturnInstance, TypeOK
<1>4. ASSUME NEW d \in Devices, Populate(d) \/ Erase(d)
      PROVE  pc'[m] = pc[m] /\ inst'[m] = inst[m] /\ work'[m] = work[m]
  BY <1>1, <1>4 DEF Populate, Erase, TypeOK
<1>5. QED
  BY <1>2, <1>3, <1>4 DEF MainSide

\* A witness where the request does not matter.
SomeRequest == [name |-> "Init", dev |-> None]

ServerSide == \E m \in Servers : ServerStep(m) \/ Construct(m) \/ ReturnInstance(m)

LEMMA Sides == [Next]_vars => MainSide \/ ServerSide \/ ClientSide \/ UNCHANGED vars
BY DEF Next, MainSide, ServerSide, ClientSide, GetInstance, ManagerThreads

LEMMA InstStep == TypeOK /\ PlaceInv /\ InstInv /\ [Next]_vars => InstInv'
<1> SUFFICES ASSUME TypeOK, PlaceInv, InstInv, [Next]_vars PROVE InstInv'
  OBVIOUS
<1> USE DEF ManagerThreads, Instances
<1>1. Main \notin Servers /\ None \notin Instances
  BY StorageRPCAssumption
<1>2. CASE RegisterCall
  BY <1>1, <1>2 DEF RegisterCall, InstInv, TypeOK, OneInstance
<1>3. CASE BeginRegistration
  BY <1>1, <1>3 DEF BeginRegistration, Look, Then, InstInv, TypeOK, OneInstance
<1>4. CASE SetCallback
  <2>1. /\ inst[Main] \in made /\ pointer' = [pointer EXCEPT ![inst[Main]] = "server"]
        /\ made' = made /\ g' = g /\ pc' = [pc EXCEPT ![Main] = "idle"]
        /\ inst' = [inst EXCEPT ![Main] = None]
    BY <1>4 DEF SetCallback, InstInv
  <2>2. OneInstance => \A i \in made : pointer'[i] = "server"
    BY <2>1 DEF OneInstance, TypeOK
  <2>3. QED
    BY <1>1, <2>1, <2>2 DEF InstInv, TypeOK, OneInstance
<1>5. CASE Insert
  BY <1>1, <1>5 DEF Insert, InstInv, TypeOK, OneInstance
<1>6. CASE Announce
  BY <1>1, <1>6 DEF Announce, InstInv, TypeOK, OneInstance
<1>7. ASSUME NEW d \in Devices, Populate(d) PROVE InstInv'
  BY <1>1, <1>7 DEF Populate, InstInv, TypeOK, OneInstance
<1>8. ASSUME NEW d \in Devices, Erase(d) PROVE InstInv'
  BY <1>1, <1>8 DEF Erase, InstInv, TypeOK, OneInstance
<1>9. ASSUME NEW m \in ManagerThreads, Construct(m) PROVE InstInv'
  <2>1. /\ pc[m] = "construct" /\ m \notin made /\ made' = made \cup {m} /\ g' = m
        /\ pc' = [pc EXCEPT ![m] = "reread"] /\ inst' = inst
    BY <1>9 DEF Construct, InstInv
  <2>2. made # {} => ~OneInstance'
    BY <2>1 DEF OneInstance
  <2>3. QED
    BY <1>1, <2>1, <2>2 DEF InstInv, TypeOK
<1>10. ASSUME NEW m \in ManagerThreads, ReturnInstance(m) PROVE InstInv'
  BY <1>1, <1>10 DEF ReturnInstance, Then, InstInv, TypeOK, OneInstance
<1>11. ASSUME NEW m \in Servers, Dispatch(m) PROVE InstInv'
  BY <1>1, <1>11 DEF Dispatch, Look, Then, InstInv, TypeOK, OneInstance
<1>12. ASSUME NEW m \in Servers, Handle(m) PROVE InstInv'
  BY <1>1, <1>12 DEF Handle, InstInv, TypeOK, OneInstance
<1>13. CASE ClientSide \/ UNCHANGED vars
  BY <1>13, ClientSideKeeps DEF vars, managerVars, InstInv, OneInstance
<1>14. QED
  BY <1>2, <1>3, <1>4, <1>5, <1>6, <1>7, <1>8, <1>9, <1>10, <1>11, <1>12, <1>13
  DEF Next, MainStep, GetInstance, ServerStep, ClientSide

(* A wild pointer is called in an announcement, or by a medium that finds  *)
(* itself unfit.                                                           *)
LEMMA CrashStep ==
  TypeOK /\ InstInv /\ InstInv' /\ CrashNeedsUnsetPointer /\ [Next]_vars => CrashNeedsUnsetPointer'
<1> SUFFICES ASSUME TypeOK, InstInv, CrashNeedsUnsetPointer, [Next]_vars, crashed', OneInstance'
             PROVE  unfit' # {}
  BY DEF CrashNeedsUnsetPointer
<1>1. CASE Announce
  <2>1. crashed' = (pointer[inst[Main]] = "wild") /\ made' = made
    BY <1>1 DEF Announce, Post
  <2>2. OneInstance /\ inst[Main] \in made
    BY <1>1, <2>1 DEF OneInstance, Announce, InstInv, ManagerThreads
  <2>3. pointer[inst[Main]] = "server"
    BY <1>1, <2>2 DEF Announce, InstInv
  <2>4. QED
    BY <2>1, <2>3
<1>2. ASSUME NEW d \in Devices, Populate(d) PROVE unfit' # {}
  <2>1. CASE unfit' = unfit \cup {d}
    BY <2>1
  <2>2. CASE UNCHANGED <<eventVars, crashed, unfit>>
    BY <1>2, <2>2 DEF Populate
  <2>3. QED
    BY <1>2, <2>1, <2>2 DEF Populate
<1>3. ASSUME NEW m \in ManagerThreads, Construct(m) PROVE unfit' # {}
  BY <1>3 DEF Construct
<1>4. CASE \/ RegisterCall \/ BeginRegistration \/ SetCallback \/ Insert
           \/ \E d \in Devices : Erase(d)
           \/ \E m \in ManagerThreads : ReturnInstance(m)
           \/ \E m \in Servers : ServerStep(m)
           \/ ClientSide \/ UNCHANGED vars
  <2>1. UNCHANGED <<crashed, made, unfit>>
    BY <1>4, ClientSideKeeps
    DEF RegisterCall, BeginRegistration, SetCallback, Insert, Erase, ReturnInstance,
        ServerStep, Dispatch, Handle, vars, managerVars, deviceVars
  <2>2. QED
    BY <2>1 DEF CrashNeedsUnsetPointer, OneInstance
<1>5. QED
  BY <1>1, <1>2, <1>3, <1>4 DEF Next, MainStep, GetInstance, ClientSide

LEMMA CallStep == TypeOK /\ PlaceInv /\ CallInv /\ QueueInv /\ ServeInv /\ [Next]_vars => CallInv'
<1> SUFFICES ASSUME TypeOK, PlaceInv, CallInv, QueueInv, ServeInv, [Next]_vars PROVE CallInv'
  OBVIOUS
<1>1. CASE MainSide
  BY <1>1, MainSideKeeps DEF CallInv
<1>2. ASSUME NEW m \in Servers, ServerStep(m) \/ Construct(m) \/ ReturnInstance(m) PROVE CallInv'
  <2>1. CASE Dispatch(m)
    <3>1. /\ Head(queue) \in Clients /\ cpc[Head(queue)] = "wait"
          /\ cpc' = [cpc EXCEPT ![Head(queue)] = "served"] /\ UNCHANGED <<call, reply>>
      BY <2>1, HeadTailProperties, EmptySeq DEF Dispatch, TypeOK, QueueInv
    <3>2. QED
      BY <3>1 DEF CallInv, TypeOK
  <2>2. CASE Handle(m)
    <3>1. work[m] \in Clients /\ cpc[work[m]] = "served"
      BY <2>2 DEF Handle, PlaceInv, ServeInv
    <3>2. /\ cpc' = [cpc EXCEPT ![work[m]] = "done"] /\ call' = call
          /\ \E res : reply' = [reply EXCEPT ![work[m]] = res]
      BY <2>2 DEF Handle
    <3>3. QED
      BY <3>1, <3>2 DEF CallInv, TypeOK
  <2>3. CASE Construct(m) \/ ReturnInstance(m)
    BY <2>3 DEF Construct, ReturnInstance, callVars, CallInv
  <2>4. QED
    BY <1>2, <2>1, <2>2, <2>3 DEF ServerStep
<1>3. ASSUME NEW c \in Clients, NEW r \in Request, Begin(c, r) PROVE CallInv'
  BY <1>3, StorageRPCAssumption DEF Begin, CallInv, TypeOK
<1>4. ASSUME NEW c \in Clients, SetFlag(c) \/ RegisterHandlers(c) PROVE CallInv'
  BY <1>4 DEF SetFlag, RegisterHandlers, CallInv, TypeOK
<1>5. ASSUME NEW c \in Clients, Send(c) \/ LoseCall(c) PROVE CallInv'
  <2>1. /\ cpc[c] \in {"send", "wait", "served"} /\ call' = call
        /\ \/ cpc' = [cpc EXCEPT ![c] = "wait"] /\ reply' = reply
           \/ cpc' = [cpc EXCEPT ![c] = "done"] /\ \E res : reply' = [reply EXCEPT ![c] = res]
    BY <1>5 DEF Send, LoseCall, IARMFails
  <2>2. QED
    BY <2>1 DEF CallInv, TypeOK
<1>6. ASSUME NEW c \in Clients, Return(c) PROVE CallInv'
  BY <1>6 DEF Return, CallInv, TypeOK
<1>7. CASE RegisterEventCallback \/ DeviceCallback \/ UNCHANGED vars
  BY <1>7 DEF RegisterEventCallback, DeviceCallback, vars, callVars, CallInv
<1>8. QED
  BY <1>1, <1>2, <1>3, <1>4, <1>5, <1>6, <1>7, Sides DEF ServerSide, ClientSide, ClientStep

LEMMA QueueStep == TypeOK /\ PlaceInv /\ QueueInv /\ ServeInv /\ [Next]_vars => QueueInv'
<1> SUFFICES ASSUME TypeOK, PlaceInv, QueueInv, ServeInv, [Next]_vars PROVE QueueInv'
  OBVIOUS
<1>1. /\ Len(queue) \in Nat /\ \A k \in 1..Len(queue) : queue[k] \in Clients /\ cpc[queue[k]] = "wait"
      /\ \A j, k \in 1..Len(queue) : queue[j] = queue[k] => j = k
  BY LenProperties, ElementOfSeq DEF TypeOK, QueueInv
<1>2. ASSUME NEW m \in Servers, Dispatch(m) PROVE QueueInv'
  <2>1. /\ queue # <<>> /\ queue' = Tail(queue) /\ cpc' = [cpc EXCEPT ![Head(queue)] = "served"]
    BY <1>2 DEF Dispatch
  <2>2. /\ Len(queue) \in Nat \ {0} /\ Len(queue') = Len(queue) - 1 /\ Head(queue) = queue[1]
        /\ \A k \in 1..Len(queue') : queue'[k] = queue[k + 1]
    BY <2>1, HeadTailProperties, EmptySeq DEF TypeOK
  <2>3. ASSUME NEW k \in 1..Len(queue') PROVE k + 1 \in 1..Len(queue) /\ cpc'[queue'[k]] = "wait"
    <3>1. k + 1 \in 1..Len(queue) /\ 1 \in 1..Len(queue) /\ k + 1 # 1
      BY <2>2
    <3>2. queue[k + 1] # queue[1]
      BY <1>1, <3>1
    <3>3. QED
      BY <1>1, <2>1, <2>2, <3>1, <3>2 DEF TypeOK
  <2>4. ASSUME NEW j \in 1..Len(queue'), NEW k \in 1..Len(queue'), queue'[j] = queue'[k] PROVE j = k
    <3>1. j + 1 = k + 1
      BY <1>1, <2>2, <2>3, <2>4
    <3>2. QED
      BY <2>2, <3>1
  <2>5. QED
    BY <2>3, <2>4 DEF QueueInv
<1>3. ASSUME NEW c \in Clients, Send(c) PROVE QueueInv'
  <2>1. CASE queue' = Append(queue, c) /\ cpc' = [cpc EXCEPT ![c] = "wait"]
    <3>1. /\ Len(queue') = Len(queue) + 1 /\ queue'[Len(queue) + 1] = c
          /\ \A k \in 1..Len(queue) : queue'[k] = queue[k] /\ queue[k] # c
      BY <1>1, <1>3, <2>1, AppendProperties DEF TypeOK, Send
    <3>2. \A k \in 1..Len(queue') : k \in 1..Len(queue) \/ k = Len(queue) + 1
      BY <1>1, <3>1
    <3>3. QED
      BY <1>1, <2>1, <3>1, <3>2 DEF TypeOK, QueueInv
  <2>2. CASE queue' = queue /\ cpc' = [cpc EXCEPT ![c] = "done"]
    BY <1>1, <1>3, <2>2 DEF Send, TypeOK, QueueInv
  <2>3. QED
    BY <1>3, <2>1, <2>2 DEF Send, IARMFails
<1>4. ASSUME NEW c \in Clients, LoseCall(c) PROVE QueueInv'
  <2>1. cpc' = [cpc EXCEPT ![c] = "done"]
    BY <1>4 DEF LoseCall, IARMFails
  <2>2. CASE cpc[c] = "served" /\ UNCHANGED queue
    BY <1>1, <2>1, <2>2 DEF TypeOK, QueueInv
  <2>3. ASSUME NEW k \in 1..Len(queue), queue[k] = c, queue' = RemoveAt(queue, k) PROVE QueueInv'
    <3>1. /\ Len(queue') = Len(queue) - 1
          /\ \A i \in 1..(Len(queue) - 1) : queue'[i] = IF i < k THEN queue[i] ELSE queue[i + 1]
      BY <2>3, RemoveAtProperties DEF TypeOK
    <3> DEFINE at(i) == IF i < k THEN i ELSE i + 1
    <3>2. ASSUME NEW i \in 1..Len(queue')
          PROVE  at(i) \in 1..Len(queue) /\ at(i) # k /\ queue'[i] = queue[at(i)]
      BY <1>1, <3>1
    <3>3. \A i, j \in 1..Len(queue') : at(i) = at(j) => i = j
      BY <1>1, <3>1
    <3> HIDE DEF at
    <3>4. ASSUME NEW i \in 1..Len(queue') PROVE cpc'[queue'[i]] = "wait"
      <4>1. queue'[i] # c /\ queue'[i] \in Clients /\ cpc[queue'[i]] = "wait"
        BY <1>1, <2>3, <3>2
      <4>2. QED
        BY <2>1, <4>1 DEF TypeOK
    <3>5. ASSUME NEW i \in 1..Len(queue'), NEW j \in 1..Len(queue'), queue'[i] = queue'[j] PROVE i = j
      BY <1>1, <3>2, <3>3, <3>5
    <3>6. QED
      BY <3>4, <3>5 DEF QueueInv
  <2>4. QED
    BY <1>4, <2>2, <2>3 DEF LoseCall
<1>5. ASSUME NEW m \in Servers, Handle(m) PROVE QueueInv'
  <2>1. work[m] \in Clients /\ cpc[work[m]] = "served"
    BY <1>5 DEF Handle, PlaceInv, ServeInv
  <2>2. cpc' = [cpc EXCEPT ![work[m]] = "done"] /\ queue' = queue
    BY <1>5 DEF Handle, busVars
  <2>3. QED
    BY <1>1, <2>1, <2>2 DEF TypeOK, QueueInv
<1>6. ASSUME NEW c \in Clients, NEW r \in Request,
             Begin(c, r) \/ SetFlag(c) \/ RegisterHandlers(c) \/ Return(c)
      PROVE  QueueInv'
  <2>1. /\ queue' = queue /\ cpc[c] # "wait"
        /\ \A x \in Clients : x # c => cpc'[x] = cpc[x]
    BY <1>6 DEF Begin, SetFlag, RegisterHandlers, Return, busVars, TypeOK
  <2>2. QED
    BY <1>1, <2>1 DEF QueueInv
<1>7. ASSUME NEW m \in Servers, Construct(m) \/ ReturnInstance(m) PROVE QueueInv'
  BY <1>7 DEF Construct, ReturnInstance, busVars, callVars, QueueInv
<1>8. CASE MainSide \/ RegisterEventCallback \/ DeviceCallback \/ UNCHANGED vars
  <2>1. queue' = queue /\ cpc' = cpc
    BY <1>8, MainSideKeeps DEF RegisterEventCallback, DeviceCallback, vars, busVars, callVars
  <2>2. QED
    BY <2>1 DEF QueueInv
<1>9. SomeRequest \in Request
  BY DEF SomeRequest, Request
<1>10. QED
  BY <1>2, <1>3, <1>4, <1>5, <1>6, <1>7, <1>8, <1>9, Sides
  DEF ServerSide, ClientSide, ServerStep, ClientStep

LEMMA ServeStep ==
  TypeOK /\ PlaceInv /\ InstInv /\ QueueInv /\ CallInv /\ ServeInv /\ [Next]_vars => ServeInv'
<1> SUFFICES ASSUME TypeOK, PlaceInv, InstInv, QueueInv, CallInv, ServeInv, [Next]_vars, ~crashed'
             PROVE  /\ \A m \in Servers : pc'[m] # "idle" =>
                         /\ cpc'[work'[m]] = "served"
                         /\ pc'[m] = "handle" /\ call'[work'[m]].name # "NotifyMGRAboutFailure"
                              => inst'[m] # None
                    /\ \A m, n \in Servers :
                         pc'[m] # "idle" /\ pc'[n] # "idle" /\ work'[m] = work'[n] => m = n
  BY DEF ServeInv
<1>1. Main \notin Servers /\ Servers \subseteq ManagerThreads /\ None \notin Instances
      /\ None \notin Clients
  BY StorageRPCAssumption DEF ManagerThreads, Instances
<1>2. CASE MainSide
  <2>1. ~crashed
    BY <1>2 DEF MainSide, MainStep, RegisterCall, BeginRegistration, SetCallback, Insert, Announce,
                Populate, Erase, Construct, ReturnInstance
  <2>2. QED
    BY <1>2, <2>1, MainSideKeeps, MainSideServers DEF ServeInv
<1>3. ASSUME NEW m \in Servers, Dispatch(m)
      PROVE  /\ \A n \in Servers : pc'[n] # "idle" =>
                  /\ cpc'[work'[n]] = "served"
                  /\ pc'[n] = "handle" /\ call'[work'[n]].name # "NotifyMGRAboutFailure"
                       => inst'[n] # None
             /\ \A n, l \in Servers :
                  pc'[n] # "idle" /\ pc'[l] # "idle" /\ work'[n] = work'[l] => n = l
  <2> DEFINE c == Head(queue)
  <2>1. /\ ~crashed /\ pc[m] = "idle" /\ work' = [work EXCEPT ![m] = c]
        /\ cpc' = [cpc EXCEPT ![c] = "served"] /\ call' = call
        /\ IF call[c].name = "NotifyMGRAboutFailure"
           THEN pc' = [pc EXCEPT ![m] = "handle"] /\ UNCHANGED inst ELSE Look(m)
    BY <1>3 DEF Dispatch
  <2>2. c \in Clients /\ cpc[c] = "wait"
    BY <1>3, HeadTailProperties, EmptySeq DEF Dispatch, TypeOK, QueueInv
  <2> HIDE DEF c
  <2>3. ASSUME NEW n \in Servers, pc[n] # "idle"
        PROVE  work[n] \in Clients /\ cpc[work[n]] = "served" /\ work[n] # c
    BY <2>1, <2>2, <2>3 DEF PlaceInv, ServeInv
  <2>4. ASSUME NEW n \in Servers, n # m
        PROVE  pc'[n] = pc[n] /\ inst'[n] = inst[n] /\ work'[n] = work[n]
    BY <1>1, <2>1, <2>4 DEF Look, TypeOK
  <2>5. /\ work'[m] = c
        /\ pc'[m] = "handle" /\ call[c].name # "NotifyMGRAboutFailure" => inst'[m] # None
    BY <1>1, <2>1 DEF Look, TypeOK
  <2>6. QED
    BY <2>1, <2>2, <2>3, <2>4, <2>5 DEF ServeInv, TypeOK
<1>4. ASSUME NEW m \in Servers, Handle(m)
      PROVE  /\ \A n \in Servers : pc'[n] # "idle" =>
                  /\ cpc'[work'[n]] = "served"
                  /\ pc'[n] = "handle" /\ call'[work'[n]].name # "NotifyMGRAboutFailure"
                       => inst'[n] # None
             /\ \A n, l \in Servers :
                  pc'[n] # "idle" /\ pc'[l] # "idle" /\ work'[n] = work'[l] => n = l
  <2>1. /\ ~crashed /\ pc[m] = "handle" /\ work' = [work EXCEPT ![m] = None]
        /\ cpc' = [cpc EXCEPT ![work[m]] = "done"] /\ call' = call
        /\ pc' = [pc EXCEPT ![m] = "idle"] /\ inst' = [inst EXCEPT ![m] = None]
    BY <1>4 DEF Handle
  <2>2. QED
    BY <1>1, <2>1 DEF PlaceInv, ServeInv, TypeOK
<1>5. ASSUME NEW m \in Servers, Construct(m) \/ ReturnInstance(m)
      PROVE  /\ \A n \in Servers : pc'[n] # "idle" =>
                  /\ cpc'[work'[n]] = "served"
                  /\ pc'[n] = "handle" /\ call'[work'[n]].name # "NotifyMGRAboutFailure"
                       => inst'[n] # None
             /\ \A n, l \in Servers :
                  pc'[n] # "idle" /\ pc'[l] # "idle" /\ work'[n] = work'[l] => n = l
  <2>1. /\ ~crashed /\ UNCHANGED <<work, cpc, call>> /\ pc[m] # "idle"
        /\ \/ pc' = [pc EXCEPT ![m] = "reread"] /\ inst' = inst
           \/ /\ pc' = [pc EXCEPT ![m] = "handle"]
              /\ \E i \in Instances : inst' = [inst EXCEPT ![m] = i]
    BY <1>1, <1>5 DEF Construct, ReturnInstance, Then, callVars, InstInv, TypeOK, Instances
  <2>2. \A n \in Servers : n # m => pc'[n] = pc[n] /\ inst'[n] = inst[n]
    BY <1>1, <2>1 DEF TypeOK
  <2>3. pc'[m] = "handle" => inst'[m] # None
    BY <1>1, <2>1 DEF TypeOK
  <2>4. QED
    BY <2>1, <2>2, <2>3 DEF ServeInv
<1>6. ASSUME NEW c \in Clients, NEW r \in Request,
             Begin(c, r) \/ SetFlag(c) \/ RegisterHandlers(c) \/ Send(c) \/ Return(c) \/ LoseCall(c)
      PROVE  /\ \A n \in Servers : pc'[n] # "idle" =>
                  /\ cpc'[work'[n]] = "served"
                  /\ pc'[n] = "handle" /\ call'[work'[n]].name # "NotifyMGRAboutFailure"
                       => inst'[n] # None
             /\ \A n, l \in Servers :
                  pc'[n] # "idle" /\ pc'[l] # "idle" /\ work'[n] = work'[l] => n = l
  <2>1. UNCHANGED <<crashed, pc, work, inst>>
    BY <1>6 DEF Begin, SetFlag, RegisterHandlers, Send, Return, LoseCall, managerVars
  <2>2. /\ cpc[c] # "served"
        /\ \A x \in Clients : x # c => cpc'[x] = cpc[x] /\ call'[x] = call[x]
    BY <1>6, <2>1
    DEF Begin, SetFlag, RegisterHandlers, Send, Return, LoseCall, IARMFails, TypeOK
  <2>3. QED
    BY <2>1, <2>2 DEF PlaceInv, ServeInv
<1>7. CASE RegisterEventCallback \/ DeviceCallback \/ UNCHANGED vars
  BY <1>7 DEF RegisterEventCallback, DeviceCallback, vars, managerVars, callVars, ServeInv
<1>8. SomeRequest \in Request
  BY DEF SomeRequest, Request
<1>9. QED
  BY <1>2, <1>3, <1>4, <1>5, <1>6, <1>7, <1>8, Sides
  DEF ServerSide, ClientSide, ServerStep, ClientStep

LEMMA CountKept ==
  ASSUME CountInv, UNCHANGED <<flag, handlers, inits>>, TypeOK,
         \A c \in Clients : /\ cpc'[c] = "handlers" <=> cpc[c] = "handlers"
                            /\ cpc'[c] = "setFlag" => cpc[c] = "setFlag"
  PROVE  CountInv'
<1>1. {c \in inits : cpc'[c] # "handlers"} = {c \in inits : cpc[c] # "handlers"}
  BY DEF TypeOK
<1>2. QED
  BY <1>1 DEF CountInv

LEMMA CountStep ==
  TypeOK /\ PlaceInv /\ QueueInv /\ ServeInv /\ CountInv /\ [Next]_vars => CountInv'
<1> SUFFICES ASSUME TypeOK, PlaceInv, QueueInv, ServeInv, CountInv, [Next]_vars PROVE CountInv'
  OBVIOUS
<1>1. ASSUME NEW c \in Clients, NEW r \in Request, Begin(c, r) PROVE CountInv'
  <2>1. /\ UNCHANGED <<flag, handlers, inits>> /\ cpc[c] = "idle"
        /\ cpc' = [cpc EXCEPT ![c] = IF flag THEN "send" ELSE "setFlag"]
    BY <1>1 DEF Begin, libraryVars
  <2>2. {x \in inits : cpc'[x] # "handlers"} = {x \in inits : cpc[x] # "handlers"}
    BY <2>1 DEF TypeOK
  <2>3. QED
    BY <2>1, <2>2 DEF CountInv, TypeOK
<1>2. ASSUME NEW c \in Clients, SetFlag(c) PROVE CountInv'
  <2>1. /\ flag' = TRUE /\ handlers' = handlers /\ inits' = inits \cup {c} /\ c \notin inits
        /\ cpc' = [cpc EXCEPT ![c] = "handlers"]
    BY <1>2 DEF SetFlag, CountInv
  <2>2. {x \in inits' : cpc'[x] # "handlers"} = {x \in inits : cpc[x] # "handlers"}
    BY <2>1 DEF TypeOK
  <2>3. QED
    BY <2>1, <2>2 DEF CountInv, TypeOK
<1>3. ASSUME NEW c \in Clients, RegisterHandlers(c) PROVE CountInv'
  <2> DEFINE R == {x \in inits : cpc[x] # "handlers"}
  <2>1. /\ UNCHANGED <<flag, inits>> /\ handlers' = handlers + 1 /\ cpc[c] = "handlers" /\ c \in inits
        /\ cpc' = [cpc EXCEPT ![c] = "idle"] \/ cpc' = [cpc EXCEPT ![c] = "send"]
    BY <1>3 DEF RegisterHandlers, CountInv
  <2>2. {x \in inits' : cpc'[x] # "handlers"} = R \cup {c} /\ c \notin R
    BY <2>1 DEF TypeOK
  <2>3. IsFiniteSet(R)
    BY FS_Subset, StorageRPCAssumption DEF TypeOK
  <2>4. Cardinality(R \cup {c}) = Cardinality(R) + 1
    BY <2>2, <2>3, FS_AddElement
  <2>5. handlers = Cardinality(R)
    BY DEF CountInv
  <2> HIDE DEF R
  <2>6. handlers' = Cardinality({x \in inits' : cpc'[x] # "handlers"})
    BY <2>1, <2>2, <2>4, <2>5
  <2>7. QED
    BY <2>1, <2>6 DEF CountInv, TypeOK
<1>4. ASSUME NEW c \in Clients, Send(c) \/ Return(c) \/ LoseCall(c) PROVE CountInv'
  <2>1. /\ UNCHANGED <<flag, handlers, inits>> /\ cpc[c] \in {"send", "wait", "served", "done"}
        /\ \/ cpc' = [cpc EXCEPT ![c] = "wait"] \/ cpc' = [cpc EXCEPT ![c] = "done"]
           \/ cpc' = [cpc EXCEPT ![c] = "idle"]
    BY <1>4 DEF Send, Return, LoseCall, IARMFails, libraryVars
  <2>2. QED
    BY <2>1, CountKept DEF TypeOK
<1>5. ASSUME NEW m \in Servers, ServerStep(m) \/ Construct(m) \/ ReturnInstance(m) PROVE CountInv'
  <2>1. UNCHANGED <<flag, handlers, inits>>
    BY <1>5 DEF ServerStep, Dispatch, Handle, Construct, ReturnInstance, libraryVars
  <2>2. CASE Dispatch(m)
    <3>1. Head(queue) \in Clients /\ cpc[Head(queue)] = "wait"
      BY <2>2, HeadTailProperties, EmptySeq DEF Dispatch, TypeOK, QueueInv
    <3>2. cpc' = [cpc EXCEPT ![Head(queue)] = "served"]
      BY <2>2 DEF Dispatch
    <3>3. QED
      BY <2>1, <3>1, <3>2, CountKept DEF TypeOK
  <2>3. CASE Handle(m)
    <3>1. work[m] \in Clients /\ cpc[work[m]] = "served"
      BY <2>3 DEF Handle, PlaceInv, ServeInv
    <3>2. cpc' = [cpc EXCEPT ![work[m]] = "done"]
      BY <2>3 DEF Handle
    <3>3. QED
      BY <2>1, <3>1, <3>2, CountKept DEF TypeOK
  <2>4. CASE Construct(m) \/ ReturnInstance(m)
    <3>1. cpc' = cpc
      BY <2>4 DEF Construct, ReturnInstance, callVars
    <3>2. QED
      BY <2>1, <3>1, CountKept
  <2>5. QED
    BY <1>5, <2>2, <2>3, <2>4 DEF ServerStep
<1>6. CASE MainSide \/ RegisterEventCallback \/ DeviceCallback \/ UNCHANGED vars
  <2>1. UNCHANGED <<flag, handlers, inits, cpc>>
    BY <1>6, MainSideKeeps DEF RegisterEventCallback, DeviceCallback, vars, libraryVars, callVars
  <2>2. QED
    BY <2>1, CountKept
<1>7. QED
  BY <1>1, <1>2, <1>3, <1>4, <1>5, <1>6, Sides DEF ServerSide, ClientSide, ClientStep

LEMMA PlaceStep == TypeOK /\ PlaceInv /\ QueueInv /\ [Next]_vars => PlaceInv'
<1> SUFFICES ASSUME TypeOK, PlaceInv, QueueInv, [Next]_vars PROVE PlaceInv'
  OBVIOUS
<1>1. Main \notin Servers /\ Servers \subseteq ManagerThreads /\ Main \in ManagerThreads
  BY StorageRPCAssumption DEF ManagerThreads
<1>2. CASE MainSide
  <2>1. \A m \in Servers : pc'[m] = pc[m] /\ work'[m] = work[m]
    BY <1>2, MainSideServers
  <2>2. CASE RegisterCall
    <3>1. Len(CallOrder) \in Nat
      BY LenProperties, StorageRPCAssumption
    <3>2. pc[Main] = "register" /\ registered' = registered + 1 /\ work' = work
      BY <2>2 DEF RegisterCall
    <3>3. pc'[Main] = IF registered' = Len(CallOrder) THEN "check" ELSE "register"
      BY <1>1, <2>2 DEF RegisterCall, TypeOK
    <3>4. registered \in 0..Len(CallOrder) /\ registered < Len(CallOrder)
      BY <3>2 DEF PlaceInv, TypeOK
    <3>5. pc'[Main] = "register" => registered' < Len(CallOrder)
      BY <3>1, <3>2, <3>3, <3>4
    <3>6. pc'[Main] \in {"check", "register"}
      BY <3>3
    <3>7. QED
      BY <2>1, <3>5, <3>6 DEF PlaceInv, ManagerPCs
  <2>3. CASE BeginRegistration \/ SetCallback \/ Construct(Main) \/ ReturnInstance(Main)
    <3>1. pc'[Main] \in {"construct", "setCallback", "idle", "reread"}
      BY <1>1, <2>3 DEF BeginRegistration, Look, SetCallback, Construct, ReturnInstance, Then, TypeOK
    <3>2. QED
      BY <2>1, <3>1 DEF PlaceInv, ManagerPCs
  <2>4. CASE Insert
    <3>1. pc'[Main] = "announce" /\ work' = work /\ pc[Main] = "insert"
      BY <1>1, <2>4 DEF Insert, TypeOK
    <3>2. QED
      BY <2>1, <3>1 DEF PlaceInv, ManagerPCs
  <2>5. CASE Announce
    <3>1. pc'[Main] = "idle"
      BY <1>1, <2>5 DEF Announce, TypeOK
    <3>2. QED
      BY <2>1, <3>1 DEF PlaceInv, ManagerPCs
  <2>6. ASSUME NEW d \in Devices, Populate(d) PROVE PlaceInv'
    <3> DEFINE e == [dev |-> d, what |-> "added"]
    <3>1. pc'[Main] = "insert" /\ work'[Main] = e
      BY <1>1, <2>6 DEF Populate, TypeOK
    <3>2. e \in Events /\ e.what = "added"
      BY DEF Events
    <3> HIDE DEF e
    <3>3. QED
      BY <2>1, <3>1, <3>2 DEF PlaceInv, ManagerPCs
  <2>7. ASSUME NEW d \in Devices, Erase(d) PROVE PlaceInv'
    <3> DEFINE e == [dev |-> d, what |-> "removed"]
    <3>1. \/ pc'[Main] = "announce" /\ work'[Main] = e
          \/ pc' = pc /\ work' = work /\ registered' = registered
      BY <1>1, <2>7 DEF Erase, TypeOK, busVars
    <3>2. e \in Events /\ e.what = "removed"
      BY DEF Events
    <3> HIDE DEF e
    <3>3. QED
      BY <2>1, <3>1, <3>2 DEF PlaceInv, ManagerPCs
  <2>8. QED
    BY <1>2, <2>2, <2>3, <2>4, <2>5, <2>6, <2>7 DEF MainSide, MainStep
<1>3. ASSUME NEW m \in Servers, ServerStep(m) \/ Construct(m) \/ ReturnInstance(m) PROVE PlaceInv'
  <2>1. /\ registered' = registered /\ pc'[Main] = pc[Main] /\ work'[Main] = work[Main]
        /\ \A n \in Servers : n # m => pc'[n] = pc[n] /\ work'[n] = work[n]
    BY <1>1, <1>3
    DEF ServerStep, Dispatch, Handle, Construct, ReturnInstance, Look, busVars, TypeOK
  <2>2. \/ pc'[m] \in {"construct", "handle"} /\ work'[m] \in Clients
        \/ pc'[m] = "idle"
        \/ pc'[m] \in {"reread", "handle"} /\ work'[m] = work[m] /\ pc[m] # "idle"
    <3>1. CASE Dispatch(m)
      <4>1. Head(queue) \in Clients
        BY <3>1, HeadTailProperties DEF Dispatch, TypeOK
      <4>2. QED
        BY <1>1, <3>1, <4>1 DEF Dispatch, Look, Then, TypeOK
    <3>2. CASE Handle(m)
      BY <1>1, <3>2 DEF Handle, TypeOK
    <3>3. CASE Construct(m) \/ ReturnInstance(m)
      BY <1>1, <3>3 DEF Construct, ReturnInstance, Then, TypeOK
    <3>4. QED
      BY <1>3, <3>1, <3>2, <3>3 DEF ServerStep
  <2>3. QED
    BY <2>1, <2>2 DEF PlaceInv
<1>4. CASE ClientSide \/ UNCHANGED vars
  BY <1>4, ClientSideKeeps DEF vars, managerVars, busVars, PlaceInv
<1>5. QED
  BY <1>2, <1>3, <1>4, Sides DEF ServerSide

\* The types of what the manager keeps,
ManagerTypes ==
  /\ registered \in 0..Len(CallOrder)
  /\ g \in Instances \cup {None} /\ made \subseteq Instances
  /\ pointer \in [Instances -> Pointers]
  /\ table \in [Instances -> SUBSET Devices]
  /\ pc \in [ManagerThreads -> ManagerPCs]
  /\ inst \in [ManagerThreads -> Instances \cup {None}]
  /\ work \in [ManagerThreads -> Clients \cup Events \cup {None}]
  /\ plugged \in [Devices -> {"never", "in", "out"}] /\ unfit \subseteq Devices

\* what is on the bus,
BusTypes ==
  /\ queue \in Seq(Clients) /\ inbox \in Seq(Events)
  /\ heard \in [Events -> Nat] /\ owed \subseteq Events
  /\ crashed \in BOOLEAN

\* and what the clients keep.
ClientTypes ==
  /\ handlers \in 0..Cardinality(Clients) /\ inits \subseteq Clients
  /\ cpc \in [Clients -> ClientPCs]
  /\ call \in [Clients -> Request \cup {None}]
  /\ reply \in [Clients -> Reply \cup {None}]
  /\ known \in [Clients -> SUBSET Devices] /\ listed \in [Clients -> SUBSET Devices]
  /\ flag \in BOOLEAN /\ callback \in BOOLEAN

LEMMA TypesJoined == TypeOK <=> ManagerTypes /\ BusTypes /\ ClientTypes
BY DEF TypeOK, ManagerTypes, BusTypes, ClientTypes

LEMMA ManagerTypesStep == TypeOK /\ PlaceInv /\ InstInv /\ [Next]_vars => ManagerTypes'
<1> SUFFICES ASSUME TypeOK, PlaceInv, InstInv, [Next]_vars PROVE ManagerTypes'
  OBVIOUS
<1> USE DEF ManagerPCs
<1>1. ManagerTypes /\ Instances = ManagerThreads /\ Main \in ManagerThreads
      /\ Servers \subseteq ManagerThreads
  BY TypesJoined DEF Instances, ManagerThreads
<1>2. CASE RegisterCall
  <2>1. Len(CallOrder) \in Nat
    BY LenProperties, StorageRPCAssumption
  <2>2. QED
    BY <1>1, <1>2, <2>1 DEF RegisterCall, ManagerTypes, PlaceInv, deviceVars
<1>3. CASE BeginRegistration
  BY <1>1, <1>3 DEF BeginRegistration, Look, Then, ManagerTypes, busVars, deviceVars
<1>4. CASE SetCallback
  BY <1>1, <1>4 DEF SetCallback, ManagerTypes, Pointers, busVars, deviceVars
<1>5. CASE Insert
  <2>1. work[Main].dev \in Devices
    BY <1>5 DEF Insert, PlaceInv, Events
  <2>2. table' \in [Instances -> SUBSET Devices]
    BY <1>1, <1>5, <2>1 DEF Insert, ManagerTypes
  <2>3. QED
    BY <1>1, <1>5, <2>2 DEF Insert, ManagerTypes, busVars, deviceVars
<1>6. CASE Announce
  BY <1>1, <1>6 DEF Announce, ManagerTypes, busVars, deviceVars
<1>7. ASSUME NEW d \in Devices, Populate(d) PROVE ManagerTypes'
  <2> DEFINE e == [dev |-> d, what |-> "added"]
  <2>1. e \in Events
    BY DEF Events
  <2>2. work' = [work EXCEPT ![Main] = e] /\ (unfit' = unfit \/ unfit' = unfit \cup {d})
    BY <1>7 DEF Populate
  <2> HIDE DEF e
  <2>3. QED
    BY <1>1, <1>7, <2>1, <2>2 DEF Populate, ManagerTypes, busVars
<1>8. ASSUME NEW d \in Devices, Erase(d) PROVE ManagerTypes'
  <2> DEFINE e == [dev |-> d, what |-> "removed"]
  <2>1. e \in Events
    BY DEF Events
  <2>2. \/ /\ work' = [work EXCEPT ![Main] = e] /\ inst' = [inst EXCEPT ![Main] = g]
           /\ table' = [table EXCEPT ![g] = @ \ {d}] /\ pc' = [pc EXCEPT ![Main] = "announce"]
        \/ UNCHANGED <<inst, work, table, pc>>
    BY <1>8 DEF Erase
  <2> HIDE DEF e
  <2>3. QED
    BY <1>1, <1>8, <2>1, <2>2 DEF Erase, ManagerTypes, busVars
<1>9. ASSUME NEW m \in ManagerThreads, Construct(m) PROVE ManagerTypes'
  BY <1>1, <1>9 DEF Construct, ManagerTypes, Pointers, busVars, deviceVars
<1>10. ASSUME NEW m \in ManagerThreads, ReturnInstance(m) PROVE ManagerTypes'
  BY <1>1, <1>10 DEF ReturnInstance, Then, ManagerTypes, busVars, deviceVars
<1>11. ASSUME NEW m \in Servers, Dispatch(m) PROVE ManagerTypes'
  <2>1. Head(queue) \in Clients
    BY <1>11, HeadTailProperties DEF Dispatch, TypeOK
  <2>2. QED
    BY <1>1, <1>11, <2>1 DEF Dispatch, Look, Then, ManagerTypes, deviceVars
<1>12. ASSUME NEW m \in Servers, Handle(m) PROVE ManagerTypes'
  BY <1>1, <1>12 DEF Handle, ManagerTypes, busVars, deviceVars
<1>13. CASE ClientSide \/ UNCHANGED vars
  BY <1>1, <1>13, ClientSideKeeps DEF vars, busVars, managerVars, deviceVars, ManagerTypes
<1>14. QED
  BY <1>2, <1>3, <1>4, <1>5, <1>6, <1>7, <1>8, <1>9, <1>10, <1>11, <1>12, <1>13
  DEF Next, MainStep, GetInstance, ServerStep, ClientSide

\* What is announced is handed to the client once per handler.
LEMMA PostTypes ==
  ASSUME TypeOK, NEW p, NEW e \in Events, Post(p, e)
  PROVE  /\ BusTypes' <=> queue' \in Seq(Clients)
         /\ ToSet(inbox) \subseteq ToSet(inbox')
         /\ ToSet(inbox') \subseteq ToSet(inbox) \cup {e}
         /\ p = "server" /\ handlers > 0 => e \in ToSet(inbox')
         /\ heard' = heard /\ owed' \subseteq owed \cup {e}
         /\ ~Listening => owed' = owed
<1>1. handlers \in Nat
  BY FS_CardinalityType, StorageRPCAssumption DEF TypeOK
<1>2. /\ inbox' = IF p = "server" THEN inbox \o [k \in 1..handlers |-> e] ELSE inbox
      /\ crashed' = (p = "wild") /\ heard' = heard
      /\ owed' = IF Listening THEN owed \cup {e} ELSE owed
  BY DEF Post
<1>3. /\ inbox' \in Seq(Events)
      /\ ToSet(inbox) \subseteq ToSet(inbox')
      /\ ToSet(inbox') \subseteq ToSet(inbox) \cup {e}
      /\ p = "server" /\ handlers > 0 => e \in ToSet(inbox')
  <2>1. CASE p = "server"
    <3>1. PICK f : f = [k \in 1..handlers |-> e]
      OBVIOUS
    <3>2. f \in Seq({e})
      BY <1>1, <3>1
    <3>3. Len(f) = handlers
      BY <1>1, <3>1
    <3>4. inbox \in Seq(Events)
      BY DEF TypeOK
    <3>5. /\ inbox \o f \in Seq(Events) /\ ToSet(inbox) \subseteq ToSet(inbox \o f)
          /\ ToSet(inbox \o f) \subseteq ToSet(inbox) \cup {e}
          /\ Len(f) > 0 => e \in ToSet(inbox \o f)
      BY <3>2, <3>4, ToSetPosted
    <3>6. inbox' = inbox \o f
      BY <1>2, <2>1, <3>1
    <3>7. QED
      BY <3>3, <3>5, <3>6
  <2>2. CASE p # "server"
    BY <1>2, <2>2 DEF TypeOK
  <2>3. QED
    BY <2>1, <2>2
<1>4. crashed' \in BOOLEAN
  BY <1>2, Zenon
<1>5. owed' \subseteq owed \cup {e} /\ owed' \subseteq Events
  BY <1>2 DEF TypeOK
<1>6. QED
  BY <1>2, <1>3, <1>4, <1>5 DEF BusTypes, TypeOK

LEMMA BusTypesStep == TypeOK /\ PlaceInv /\ QueueInv /\ [Next]_vars => BusTypes'
<1> SUFFICES ASSUME TypeOK, PlaceInv, [Next]_vars PROVE BusTypes'
  OBVIOUS
<1>1. BusTypes
  BY TypesJoined
<1>2. CASE Announce
  <2>1. work[Main] \in Events /\ queue' = queue /\ Post(pointer[inst[Main]], work[Main])
    BY <1>2 DEF Announce, PlaceInv, busVars
  <2>2. QED
    BY <1>1, <2>1, PostTypes DEF BusTypes
<1>3. ASSUME NEW d \in Devices, Populate(d) PROVE BusTypes'
  <2>1. queue' = queue
    BY <1>3 DEF Populate, busVars
  <2>2. CASE UNCHANGED <<eventVars, crashed, unfit>>
    BY <1>1, <2>1, <2>2 DEF BusTypes, eventVars
  <2>3. ASSUME NEW p, Post(p, [dev |-> d, what |-> "unfit"]) PROVE BusTypes'
    <3>1. [dev |-> d, what |-> "unfit"] \in Events
      BY DEF Events
    <3>2. QED
      BY <1>1, <2>1, <2>3, <3>1, PostTypes DEF BusTypes
  <2>4. QED
    BY <1>3, <2>2, <2>3 DEF Populate
<1>4. ASSUME NEW m \in Servers, Dispatch(m) PROVE BusTypes'
  BY <1>1, <1>4, HeadTailProperties DEF Dispatch, BusTypes, eventVars
<1>5. ASSUME NEW c \in Clients, Send(c) PROVE BusTypes'
  <2>1. queue' \in Seq(Clients)
    <3>1. queue' = Append(queue, c) \/ queue' = queue
      BY <1>5 DEF Send
    <3>2. queue \in Seq(Clients)
      BY <1>1 DEF BusTypes
    <3>3. QED
      BY <3>1, <3>2, AppendProperties
  <2>2. UNCHANGED <<inbox, heard, owed, crashed>>
    BY <1>5 DEF Send, eventVars, managerVars
  <2>3. QED
    BY <1>1, <2>1, <2>2 DEF BusTypes
<1>6. ASSUME NEW c \in Clients, LoseCall(c) PROVE BusTypes'
  <2>1. queue' \in Seq(Clients)
    BY <1>1, <1>6, RemoveAtProperties DEF LoseCall, BusTypes
  <2>2. UNCHANGED <<inbox, heard, owed, crashed>>
    BY <1>6 DEF LoseCall, eventVars, managerVars
  <2>3. QED
    BY <1>1, <2>1, <2>2 DEF BusTypes
<1>7. CASE DeviceCallback
  <2>1. Head(inbox) \in Events /\ inbox' \in Seq(Events)
    BY <1>1, <1>7, ToSetTail DEF DeviceCallback, BusTypes
  <2>2. heard' \in [Events -> Nat] /\ owed' \subseteq Events
    <3>1. /\ heard' = heard \/ heard' = [heard EXCEPT ![Head(inbox)] = @ + 1]
          /\ owed' \subseteq owed
      BY <1>7 DEF DeviceCallback
    <3>2. heard \in [Events -> Nat] /\ owed \subseteq Events
      BY <1>1 DEF BusTypes
    <3>3. QED
      BY <2>1, <3>1, <3>2
  <2>3. queue' = queue /\ crashed' = crashed
    BY <1>7 DEF DeviceCallback, busVars, managerVars
  <2>4. QED
    BY <1>1, <2>1, <2>2, <2>3 DEF BusTypes
<1>8. CASE \/ RegisterCall \/ BeginRegistration \/ SetCallback \/ Insert
           \/ \E d \in Devices : Erase(d)
           \/ \E m \in ManagerThreads : Construct(m) \/ ReturnInstance(m)
           \/ \E m \in Servers : Handle(m)
           \/ \E c \in Clients : SetFlag(c) \/ RegisterHandlers(c) \/ Return(c)
           \/ \E c \in Clients, r \in Request : Begin(c, r)
           \/ RegisterEventCallback \/ UNCHANGED vars
  <2>1. UNCHANGED <<queue, inbox, heard, owed, crashed>>
    BY <1>8
    DEF RegisterCall, BeginRegistration, SetCallback, Insert, Erase, Construct, ReturnInstance,
        Handle, SetFlag, RegisterHandlers, Return, Begin, RegisterEventCallback,
        vars, busVars, eventVars, managerVars
  <2>2. QED
    BY <1>1, <2>1 DEF BusTypes
<1>9. QED
  BY <1>2, <1>3, <1>4, <1>5, <1>6, <1>7, <1>8
  DEF Next, MainStep, GetInstance, ServerStep, ClientStep

\* An answer names devices of the instance it comes from, a list all of them.
LEMMA AnswersNameListed ==
  ASSUME NEW i, NEW r, NEW res \in Answers(i, r)
  PROVE  /\ res.devs = {} \/ (r.name # "NotifyMGRAboutFailure" /\ res.devs \subseteq table[i])
         /\ res.rc = "SUCCESS" /\ r.name \in ListCalls => res.devs = table[i]
<1>1. CASE r.name \in DeviceCalls
  <2>1. res \in DeviceAnswers(i, r) /\ r.name # "NotifyMGRAboutFailure"
    <3>1. Answers(i, r) = DeviceAnswers(i, r)
      BY <1>1 DEF Answers, DeviceCalls, TSBCalls, FlagCalls
    <3>2. QED
      BY <1>1, <3>1 DEF DeviceCalls
  <2>2. CASE r.name \in ListCalls
    <3>1. res = Ok(table[i])
      BY <2>1, <2>2 DEF DeviceAnswers
    <3>2. QED
      BY <2>1, <3>1 DEF Ok
  <2>3. CASE r.name \notin ListCalls
    <3>1. (r.dev \in table[i] /\ res = Ok({r.dev})) \/ res = Failed
      BY <2>1, <2>3 DEF DeviceAnswers
    <3>2. QED
      BY <2>1, <2>3, <3>1 DEF Ok, Failed
  <2>4. QED
    BY <2>2, <2>3
<1> USE DEF Ok, Failed, FirstOf
<1>2. CASE r.name \in TSBCalls
  <2>1. r.name \notin DeviceCalls /\ r.name \notin FlagCalls /\ r.name \notin ListCalls
        /\ r.name # "NotifyMGRAboutFailure"
    BY <1>2 DEF DeviceCalls, TSBCalls, FlagCalls, ListCalls
  <2>2. Answers(i, r) = TSBAnswers(i, r)
    BY <1>2, <2>1, Zenon DEF Answers
  <2>3. res.devs = {} \/ res.devs \subseteq table[i]
    BY <2>2 DEF TSBAnswers
  <2>4. QED
    BY <2>1, <2>3
<1>3. CASE r.name \in FlagCalls
  <2>1. res \in FlagAnswers(i, r) /\ r.name \notin ListCalls /\ r.name # "NotifyMGRAboutFailure"
    BY <1>3 DEF Answers, DeviceCalls, TSBCalls, FlagCalls, ListCalls
  <2>2. res.devs = {} \/ res.devs \subseteq table[i]
    BY <2>1 DEF FlagAnswers
  <2>3. QED
    BY <2>1, <2>2
<1>4. CASE r.name = "NotifyMGRAboutFailure"
  BY <1>4 DEF Answers, DeviceCalls, TSBCalls, FlagCalls, NotifyAnswers, ListCalls
<1>5. CASE r.name \notin DeviceCalls \cup TSBCalls \cup FlagCalls \cup {"NotifyMGRAboutFailure"}
  <2>1. res \in HealthAnswers(i, r) /\ r.name \notin ListCalls
    BY <1>5 DEF Answers, DeviceCalls, ListCalls
  <2>2. res.devs = {} \/ res.devs \subseteq table[i]
    BY <2>1 DEF HealthAnswers
  <2>3. QED
    BY <1>5, <2>1, <2>2
<1>6. QED
  BY <1>1, <1>2, <1>3, <1>4, <1>5

LEMMA Delivered ==
  ASSUME NEW r, NEW res, res.devs \subseteq Devices
  PROVE  /\ Deliver(r, res) \in Reply /\ Deliver(r, res) # None
         /\ Deliver(r, res).devs = res.devs
         /\ r.name \in ListCalls /\ Deliver(r, res).rc = "SUCCESS" => res.rc = "SUCCESS"
<1>1. Deliver(r, res) \in Reply
  BY DEF Deliver, Reply
<1>2. QED
  BY <1>1, StorageRPCAssumption DEF Deliver, ListCalls

LEMMA FailureDelivered ==
  ASSUME NEW r
  PROVE  /\ Deliver(r, Failed) \in Reply /\ Deliver(r, Failed) # None
         /\ Deliver(r, Failed).devs = {}
         /\ r.name \in ListCalls => Deliver(r, Failed).rc # "SUCCESS"
<1>1. Failed.devs = {} /\ Failed.rc # "SUCCESS"
  BY DEF Failed
<1>2. QED
  BY <1>1, Delivered

\* What Handle(m) answers.
LEMMA Handled ==
  ASSUME TypeOK, PlaceInv, InstInv, CallInv, ServeInv, NEW m \in Servers, Handle(m)
  PROVE  \E c \in Clients, a \in Reply :
           /\ cpc[c] = "served" /\ cpc' = [cpc EXCEPT ![c] = "done"]
           /\ reply' = [reply EXCEPT ![c] = a]
           /\ \/ a.devs = {}
              \/ call[c].name # "NotifyMGRAboutFailure"
                 /\ \E i \in made : a.devs \subseteq table[i]
           /\ a.rc = "SUCCESS" /\ call[c].name \in ListCalls =>
                \E i \in made : a.devs = table[i]
<1> DEFINE c == work[m]
<1>1. c \in Clients /\ cpc[c] = "served" /\ m \in ManagerThreads
      /\ (call[c].name # "NotifyMGRAboutFailure" => inst[m] # None)
  BY DEF Handle, PlaceInv, ServeInv, ManagerThreads
<1>2. PICK res \in Answers(inst[m], call[c]) :
        reply' = [reply EXCEPT ![c] = Deliver(call[c], res)]
  BY DEF Handle
<1>3. cpc' = [cpc EXCEPT ![c] = "done"]
  BY DEF Handle
<1> HIDE DEF c
<1>4. call[c].name # "NotifyMGRAboutFailure" => inst[m] \in made /\ inst[m] \in Instances
  BY <1>1 DEF InstInv, TypeOK
<1>5. /\ res.devs = {} \/ (call[c].name # "NotifyMGRAboutFailure" /\ res.devs \subseteq table[inst[m]])
      /\ res.rc = "SUCCESS" /\ call[c].name \in ListCalls => res.devs = table[inst[m]]
  BY <1>2, AnswersNameListed
<1>6. res.devs \subseteq Devices
  BY <1>4, <1>5 DEF TypeOK
<1>7. PICK a \in Reply : a = Deliver(call[c], res)
  BY <1>6, Delivered
<1>8. /\ a.devs = res.devs
      /\ call[c].name \in ListCalls /\ a.rc = "SUCCESS" => res.rc = "SUCCESS"
  BY <1>6, <1>7, Delivered
<1>9. call[c].name \in ListCalls => call[c].name # "NotifyMGRAboutFailure"
  BY DEF ListCalls
<1>10. QED
  BY <1>1, <1>2, <1>3, <1>4, <1>5, <1>7, <1>8, <1>9

LEMMA ClientTypesStep == Inv /\ CountInv' /\ ManagerTypes' /\ [Next]_vars => ClientTypes'
<1> SUFFICES ASSUME Inv, CountInv', ManagerTypes', [Next]_vars PROVE ClientTypes'
  OBVIOUS
<1>1. ClientTypes /\ TypeOK /\ PlaceInv /\ InstInv /\ CallInv /\ QueueInv /\ ServeInv
  BY TypesJoined DEF Inv
<1>2. inits' \subseteq Clients => handlers' \in 0..Cardinality(Clients)
  <2> SUFFICES ASSUME inits' \subseteq Clients PROVE handlers' \in 0..Cardinality(Clients)
    OBVIOUS
  <2> DEFINE R == {c \in inits' : cpc'[c] # "handlers"}
  <2>1. handlers' = Cardinality(R) /\ R \in SUBSET Clients
    BY DEF CountInv
  <2> HIDE DEF R
  <2>2. Cardinality(R) \in Nat /\ Cardinality(R) <= Cardinality(Clients) /\ Cardinality(Clients) \in Nat
    BY <2>1, FS_Subset, FS_CardinalityType, StorageRPCAssumption
  <2>3. QED
    BY <2>1, <2>2
<1>3. CASE Insert
  <2>1. UNCHANGED <<libraryVars, cpc, call, reply, known>> /\ Relisted
    BY <1>3 DEF Insert
  <2>2. g # None /\ g \in Instances
    BY <1>1, <1>3 DEF Insert, InstInv, TypeOK
  <2>3. table'[g] \subseteq Devices
    BY <2>2 DEF ManagerTypes
  <2>4. listed' \in [Clients -> SUBSET Devices]
    BY <1>1, <2>1, <2>3 DEF Relisted, ClientTypes
  <2>5. QED
    BY <1>1, <2>1, <2>4 DEF ClientTypes, libraryVars
<1>4. ASSUME MainSide, ~Insert PROVE ClientTypes'
  <2>1. UNCHANGED <<libraryVars, callVars>>
    BY <1>4 DEF MainSide, MainStep, RegisterCall, BeginRegistration, SetCallback, Announce,
                Construct, ReturnInstance, Populate, Erase
  <2>2. QED
    BY <1>1, <2>1 DEF ClientTypes, libraryVars, callVars
<1>5. ASSUME NEW m \in Servers, Dispatch(m) PROVE ClientTypes'
  <2>1. Head(queue) \in Clients
    BY <1>1, <1>5, HeadTailProperties DEF Dispatch, TypeOK
  <2>2. UNCHANGED <<libraryVars, call, reply, known, listed>>
        /\ cpc' = [cpc EXCEPT ![Head(queue)] = "served"]
    BY <1>5 DEF Dispatch
  <2>3. QED
    BY <1>1, <2>1, <2>2 DEF ClientTypes, ClientPCs, libraryVars
<1>6. ASSUME NEW m \in Servers, Handle(m) PROVE ClientTypes'
  <2>1. PICK c \in Clients, a \in Reply :
          cpc' = [cpc EXCEPT ![c] = "done"] /\ reply' = [reply EXCEPT ![c] = a]
    BY <1>1, <1>6, Handled
  <2>2. UNCHANGED <<libraryVars, call, known, listed>>
    BY <1>6 DEF Handle
  <2>3. QED
    BY <1>1, <2>1, <2>2 DEF ClientTypes, ClientPCs, libraryVars
<1>7. ASSUME NEW m \in Servers, Construct(m) \/ ReturnInstance(m) PROVE ClientTypes'
  BY <1>1, <1>7 DEF Construct, ReturnInstance, ClientTypes, libraryVars, callVars
<1>8. ASSUME NEW c \in Clients, NEW r \in Request, Begin(c, r) PROVE ClientTypes'
  <2>1. HeardOf \subseteq Devices /\ (g # None => table[g] \subseteq Devices)
    BY <1>1 DEF HeardOf, InstInv, TypeOK
  <2>2. UNCHANGED <<libraryVars, reply>>
    BY <1>8 DEF Begin
  <2>3. /\ cpc' \in [Clients -> ClientPCs]
        /\ call' \in [Clients -> Request \cup {None}]
    BY <1>1, <1>8 DEF Begin, ClientTypes, ClientPCs
  <2>4. known' \in [Clients -> SUBSET Devices] /\ listed' \in [Clients -> SUBSET Devices]
    BY <1>1, <1>8, <2>1 DEF Begin, ClientTypes
  <2>5. QED
    BY <1>1, <2>2, <2>3, <2>4 DEF ClientTypes, libraryVars
<1>9. ASSUME NEW c \in Clients, SetFlag(c) \/ RegisterHandlers(c) PROVE ClientTypes'
  <2>1. inits' \subseteq Clients /\ flag' \in BOOLEAN /\ callback' = callback
    BY <1>1, <1>9 DEF SetFlag, RegisterHandlers, ClientTypes
  <2>2. /\ cpc' \in [Clients -> ClientPCs] /\ call' \in [Clients -> Request \cup {None}]
        /\ UNCHANGED <<reply, known, listed>>
    BY <1>1, <1>9 DEF SetFlag, RegisterHandlers, ClientTypes, ClientPCs
  <2>3. QED
    BY <1>1, <1>2, <2>1, <2>2 DEF ClientTypes
<1>10. ASSUME NEW c \in Clients, Send(c) \/ LoseCall(c) PROVE ClientTypes'
  <2>1. /\ UNCHANGED <<libraryVars, call, known, listed>>
        /\ \/ cpc' = [cpc EXCEPT ![c] = "wait"] /\ reply' = reply
           \/ /\ cpc' = [cpc EXCEPT ![c] = "done"]
              /\ reply' = [reply EXCEPT ![c] = Deliver(call[c], Failed)]
    BY <1>10 DEF Send, LoseCall, IARMFails
  <2>2. QED
    BY <1>1, <2>1, FailureDelivered DEF ClientTypes, ClientPCs, libraryVars
<1>11. ASSUME NEW c \in Clients, Return(c) PROVE ClientTypes'
  BY <1>1, <1>11 DEF Return, ClientTypes, ClientPCs, libraryVars
<1>12. CASE RegisterEventCallback \/ DeviceCallback \/ UNCHANGED vars
  <2>1. UNCHANGED <<callVars, flag, handlers, inits>> /\ callback' \in BOOLEAN
    BY <1>1, <1>12
    DEF RegisterEventCallback, DeviceCallback, vars, libraryVars, ClientTypes
  <2>2. QED
    BY <1>1, <2>1 DEF ClientTypes, callVars
<1>13. QED
  BY <1>3, <1>4, <1>5, <1>6, <1>7, <1>8, <1>9, <1>10, <1>11, <1>12, Sides
  DEF ServerSide, ClientSide, ServerStep, ClientStep

-----------------------------------------------------------------------------
(* What the client was told of, and what was listed.                       *)

LEMMA AddedEvent ==
  ASSUME NEW d \in Devices
  PROVE  /\ Added(d) \in Events /\ Added(d).dev = d /\ Added(d).what = "added"
         /\ \A x : Added(d) # [dev |-> x, what |-> "unfit"]
BY DEF Added, Events

\* A device leaves a table only when it is gone for good, and is gone for good.
LEMMA TablesKept ==
  ASSUME TypeOK, PlaceInv, InstInv, [Next]_vars
  PROVE  /\ made \subseteq made'
         /\ \A d \in Devices :
              /\ plugged[d] = "out" => plugged'[d] = "out"
              /\ \A i \in made : d \in table[i] => d \in table'[i] \/ plugged'[d] = "out"
<1>1. CASE Insert
  BY <1>1 DEF Insert, deviceVars, TypeOK
<1>2. ASSUME NEW d \in Devices, Populate(d)
      PROVE  /\ made' = made /\ table' = table
             /\ \A x \in Devices : plugged[x] = "out" => plugged'[x] = "out"
  BY <1>2 DEF Populate, TypeOK
<1>3. ASSUME NEW d \in Devices, Erase(d)
      PROVE  /\ made' = made
             /\ \A x \in Devices :
                  /\ plugged[x] = "out" => plugged'[x] = "out"
                  /\ \A i \in made : x \in table[i] => x \in table'[i] \/ plugged'[x] = "out"
  <2>1. /\ made' = made /\ plugged' = [plugged EXCEPT ![d] = "out"]
        /\ table' = table \/ table' = [table EXCEPT ![g] = @ \ {d}]
    BY <1>3 DEF Erase
  <2>2. /\ plugged \in [Devices -> {"never", "in", "out"}] /\ made \subseteq Instances
        /\ table \in [Instances -> SUBSET Devices]
    BY DEF TypeOK
  <2>3. \A x \in Devices : plugged'[x] = IF x = d THEN "out" ELSE plugged[x]
    BY <2>1, <2>2
  <2>4. \A i \in made : table'[i] = table[i] \/ table'[i] = table[i] \ {d}
    BY <2>1, <2>2
  <2>5. QED
    BY <2>1, <2>3, <2>4
<1>4. ASSUME NEW m \in ManagerThreads, Construct(m)
      PROVE  made \subseteq made' /\ UNCHANGED <<table, plugged>>
  BY <1>4 DEF Construct, deviceVars
<1>5. CASE \/ RegisterCall \/ BeginRegistration \/ SetCallback \/ Announce
           \/ \E m \in ManagerThreads : ReturnInstance(m)
           \/ \E m \in Servers : ServerStep(m)
           \/ ClientSide \/ UNCHANGED vars
  BY <1>5, ClientSideKeeps
  DEF RegisterCall, BeginRegistration, SetCallback, Announce, ReturnInstance,
      ServerStep, Dispatch, Handle, vars, managerVars, deviceVars
<1>6. QED
  BY <1>1, <1>2, <1>3, <1>4, <1>5 DEF Next, MainStep, GetInstance, ClientSide

LEMMA PresentStays ==
  ASSUME TypeOK, PlaceInv, InstInv, [Next]_vars, NEW d \in Devices, Present(d)
  PROVE  Present(d)'
BY TablesKept DEF Present

\* The client hears of an addition when it is announced, of a listed device.
LEMMA HeardStep ==
  ASSUME TypeOK, PlaceInv, InstInv, ToldInv, [Next]_vars, NEW d \in Devices,
         heard'[Added(d)] > 0 \/ Added(d) \in ToSet(inbox')
  PROVE  Present(d)
<1> DEFINE a == Added(d)
<1>1. /\ a \in Events /\ a.dev = d /\ a.what = "added"
      /\ \A x : a # [dev |-> x, what |-> "unfit"]
  BY AddedEvent
<1>2. heard[a] > 0 \/ a \in ToSet(inbox) => Present(d)
  BY DEF ToldInv
<1>3. heard'[a] > 0 \/ a \in ToSet(inbox')
  OBVIOUS
<1> HIDE DEF a
<1>4. CASE Announce
  <2>1. Post(pointer[inst[Main]], work[Main]) /\ work[Main] \in Events
    BY <1>4 DEF Announce, PlaceInv
  <2>2. heard' = heard /\ ToSet(inbox') \subseteq ToSet(inbox) \cup {work[Main]}
    BY <2>1, PostTypes
  <2>3. CASE a = work[Main]
    <3>1. d \in table[inst[Main]] /\ inst[Main] \in made
      BY <1>1, <1>4, <2>3 DEF Announce, ToldInv, InstInv, ManagerThreads
    <3>2. QED
      BY <3>1 DEF Present
  <2>4. QED
    BY <1>2, <1>3, <2>2, <2>3
<1>5. ASSUME NEW x \in Devices, Populate(x) PROVE Present(d)
  <2>1. CASE UNCHANGED <<eventVars, crashed, unfit>>
    BY <1>2, <1>3, <2>1 DEF eventVars
  <2>2. ASSUME NEW p, Post(p, [dev |-> x, what |-> "unfit"]) PROVE Present(d)
    <3>1. [dev |-> x, what |-> "unfit"] \in Events
      BY DEF Events
    <3>2. heard' = heard /\ ToSet(inbox') \subseteq ToSet(inbox) \cup {[dev |-> x, what |-> "unfit"]}
      BY <2>2, <3>1, PostTypes
    <3>3. QED
      BY <1>1, <1>2, <1>3, <3>2
  <2>3. QED
    BY <1>5, <2>1, <2>2 DEF Populate
<1>6. CASE DeviceCallback
  <2>1. inbox \in Seq(Events) /\ inbox # <<>> /\ inbox' = Tail(inbox)
    BY <1>6 DEF DeviceCallback, TypeOK
  <2>2. Head(inbox) \in ToSet(inbox) /\ ToSet(inbox') \subseteq ToSet(inbox)
    BY <2>1, ToSetTail
  <2>3. heard'[a] = heard[a] \/ Head(inbox) = a
    BY <1>1, <1>6 DEF DeviceCallback, TypeOK
  <2>4. QED
    BY <1>2, <1>3, <2>2, <2>3
<1>7. CASE \/ RegisterCall \/ BeginRegistration \/ SetCallback \/ Insert
           \/ \E x \in Devices : Erase(x)
           \/ \E m \in ManagerThreads : Construct(m) \/ ReturnInstance(m)
           \/ \E m \in Servers : ServerStep(m)
           \/ \E c \in Clients : ClientStep(c) \/ LoseCall(c) \/ \E r \in Request : Begin(c, r)
           \/ RegisterEventCallback \/ UNCHANGED vars
  <2>1. UNCHANGED <<inbox, heard>>
    BY <1>7
    DEF RegisterCall, BeginRegistration, SetCallback, Insert, Erase, Construct, ReturnInstance,
        ServerStep, Dispatch, Handle, ClientStep, SetFlag, RegisterHandlers, Return, Send, LoseCall,
        Begin, RegisterEventCallback, vars, eventVars
  <2>2. QED
    BY <1>2, <1>3, <2>1
<1>8. QED
  BY <1>4, <1>5, <1>6, <1>7 DEF Next, MainStep, GetInstance

\* Only Begin and Return change what a client is taken to know.
LEMMA KnownStep ==
  ASSUME TypeOK, ToldInv, [Next]_vars, NEW c \in Clients, NEW d \in known'[c], d \in Devices
  PROVE  Present(d)
<1>1. \A x \in known[c] : Present(x)
  BY DEF ToldInv
<1>2. ASSUME NEW x \in Clients, NEW r \in Request, Begin(x, r) PROVE Present(d)
  <2>1. d \in HeardOf => heard[Added(d)] > 0
    BY DEF HeardOf, Added
  <2>2. d \in known[c] \/ d \in HeardOf
    BY <1>2 DEF Begin, TypeOK
  <2>3. QED
    BY <1>1, <2>1, <2>2 DEF ToldInv
<1>3. ASSUME NEW x \in Clients, Return(x) PROVE Present(d)
  BY <1>1, <1>3 DEF Return, TypeOK
<1>4. CASE \/ MainSide \/ ServerSide
           \/ \E x \in Clients : SetFlag(x) \/ RegisterHandlers(x) \/ Send(x) \/ LoseCall(x)
           \/ RegisterEventCallback \/ DeviceCallback \/ UNCHANGED vars
  <2>1. known' = known
    BY <1>4, MainSideKeeps
    DEF ServerSide, ServerStep, Dispatch, Handle, Construct, ReturnInstance,
        SetFlag, RegisterHandlers, Send, LoseCall, RegisterEventCallback, DeviceCallback,
        vars, callVars
  <2>2. QED
    BY <1>1, <2>1
<1>5. QED
  BY <1>2, <1>3, <1>4, Sides DEF ClientSide, ClientStep

LEMMA ToldStep == Inv /\ InstInv' /\ TypeOK' /\ [Next]_vars => ToldInv'
<1> SUFFICES ASSUME Inv, InstInv', TypeOK', [Next]_vars PROVE ToldInv'
  OBVIOUS
<1>1. TypeOK /\ PlaceInv /\ InstInv /\ ToldInv /\ Main \notin Servers
  BY StorageRPCAssumption DEF Inv
<1>2. \A i \in Instances \ made' : table'[i] = {}
  <2>1. CASE Insert
    <3>1. inst[Main] \in made
      BY <1>1, <2>1 DEF Insert, InstInv, ManagerThreads
    <3>2. QED
      BY <1>1, <2>1, <3>1 DEF Insert, ToldInv, TypeOK
  <2>2. ASSUME NEW d \in Devices, Erase(d) PROVE \A i \in Instances \ made' : table'[i] = {}
    <3>1. g \in made
      BY <1>1, <2>2 DEF Erase, InstInv
    <3>2. /\ made' = made
          /\ table' = table \/ table' = [table EXCEPT ![g] = @ \ {d}]
      BY <2>2 DEF Erase
    <3>3. QED
      BY <1>1, <3>1, <3>2 DEF ToldInv, TypeOK
  <2>3. CASE \/ RegisterCall \/ BeginRegistration \/ SetCallback \/ Announce
             \/ \E d \in Devices : Populate(d)
             \/ \E m \in ManagerThreads : Construct(m) \/ ReturnInstance(m)
             \/ \E m \in Servers : ServerStep(m)
             \/ ClientSide \/ UNCHANGED vars
    <3>1. table' = table /\ made \subseteq made'
      BY <2>3, ClientSideKeeps
      DEF RegisterCall, BeginRegistration, SetCallback, Announce, Populate, Construct,
          ReturnInstance, ServerStep, Dispatch, Handle, vars, managerVars
    <3>2. QED
      BY <1>1, <3>1 DEF ToldInv
  <2>4. QED
    BY <2>1, <2>2, <2>3 DEF Next, MainStep, GetInstance, ClientSide
<1>3. pc'[Main] = "announce" /\ work'[Main].what = "added" => work'[Main].dev \in table'[inst'[Main]]
  <2>1. CASE Insert
    <3>1. inst[Main] \in Instances
      BY <1>1, <2>1 DEF Insert, InstInv, TypeOK, ManagerThreads
    <3>2. QED
      BY <1>1, <2>1, <3>1 DEF Insert, TypeOK
  <2>2. ASSUME NEW d \in Devices, Erase(d)
        PROVE  pc'[Main] # "announce" \/ work'[Main].what = "removed"
    BY <1>1, <2>2 DEF Erase, TypeOK, ManagerThreads
  <2>3. CASE \/ RegisterCall \/ BeginRegistration \/ SetCallback \/ Announce
             \/ \E d \in Devices : Populate(d)
             \/ Construct(Main) \/ ReturnInstance(Main)
    <3>1. pc'[Main] # "announce"
      BY <1>1, <2>3
      DEF RegisterCall, BeginRegistration, Look, Then, SetCallback, Announce, Populate, Construct,
          ReturnInstance, TypeOK, ManagerThreads
    <3>2. QED
      BY <3>1
  <2>4. ASSUME NEW m \in Servers, ServerStep(m) \/ Construct(m) \/ ReturnInstance(m)
        PROVE  UNCHANGED <<pc[Main], work[Main], inst[Main], table>>
    BY <1>1, <2>4 DEF ServerStep, Dispatch, Look, Handle, Construct, ReturnInstance, TypeOK, ManagerThreads
  <2>5. CASE ClientSide \/ UNCHANGED vars
    BY <1>1, <2>5, ClientSideKeeps DEF vars, managerVars, ToldInv
  <2>6. QED
    BY <1>1, <2>1, <2>2, <2>3, <2>4, <2>5, Sides DEF MainSide, MainStep, ServerSide, ToldInv
<1>4. ASSUME NEW d \in Devices, heard'[Added(d)] > 0 \/ Added(d) \in ToSet(inbox')
      PROVE  Present(d)'
  BY <1>1, <1>4, HeardStep, PresentStays
<1>5. ASSUME NEW c \in Clients, NEW d \in known'[c] PROVE Present(d)'
  <2>1. d \in Devices
    BY <1>5 DEF TypeOK
  <2>2. QED
    BY <1>1, <1>5, <2>1, KnownStep, PresentStays
<1>6. (ToSet(inbox))' = ToSet(inbox') /\ \A d : (Added(d))' = Added(d)
  BY DEF ToSet, Added
<1>7. QED
  BY <1>2, <1>3, <1>4, <1>5, <1>6 DEF ToldInv

-----------------------------------------------------------------------------
(* What is owed to the client, and what it is answered.                    *)

LEMMA OwedStep == Inv /\ [Next]_vars => OwedInv'
<1> SUFFICES ASSUME Inv, [Next]_vars PROVE OwedInv'
  OBVIOUS
<1>1. TypeOK /\ PlaceInv /\ InstInv /\ OwedInv
  BY DEF Inv
<1>2. CASE Announce
  <2>1. /\ Post(pointer[inst[Main]], work[Main]) /\ work[Main] \in Events
        /\ UNCHANGED <<callback, made, handlers>>
    BY <1>1, <1>2 DEF Announce, PlaceInv, libraryVars
  <2>2. /\ ToSet(inbox) \subseteq ToSet(inbox')
        /\ pointer[inst[Main]] = "server" /\ handlers > 0 => work[Main] \in ToSet(inbox')
        /\ owed' \subseteq owed \cup {work[Main]}
        /\ ~Listening => owed' = owed
    BY <1>1, <2>1, PostTypes
  <2>3. OneInstance => pointer[inst[Main]] = "server"
    BY <1>1, <1>2 DEF Announce, InstInv, ManagerThreads
  <2>4. Listening => handlers > 0 /\ callback
    BY DEF Listening
  <2>5. (OneInstance)' <=> OneInstance
    BY <2>1 DEF OneInstance
  <2>6. OneInstance => owed' \ Unfit \subseteq ToSet(inbox')
    BY <1>1, <2>2, <2>3, <2>4 DEF OwedInv, AnnouncedIsOnItsWay
  <2>7. ~callback' => owed' = {}
    BY <1>1, <2>1, <2>2, <2>4 DEF OwedInv
  <2>8. QED
    BY <2>5, <2>6, <2>7 DEF OwedInv, AnnouncedIsOnItsWay, Unfit, ToSet
<1>3. ASSUME NEW d \in Devices, NEW p, Post(p, [dev |-> d, what |-> "unfit"]), Populate(d)
      PROVE  OwedInv'
  <2> DEFINE e == [dev |-> d, what |-> "unfit"]
  <2>1. e \in Events /\ e \in Unfit /\ Post(p, e) /\ UNCHANGED <<callback, made>>
    BY <1>3 DEF Events, Unfit, Populate, libraryVars
  <2> HIDE DEF e
  <2>2. /\ ToSet(inbox) \subseteq ToSet(inbox') /\ owed' \subseteq owed \cup {e}
        /\ ~Listening => owed' = owed
    BY <1>1, <2>1, PostTypes
  <2>3. (OneInstance)' <=> OneInstance
    BY <2>1 DEF OneInstance
  <2>4. OneInstance => owed' \ Unfit \subseteq ToSet(inbox')
    BY <1>1, <2>1, <2>2 DEF OwedInv, AnnouncedIsOnItsWay
  <2>5. ~callback' => owed' = {}
    BY <1>1, <2>1, <2>2 DEF OwedInv, Listening
  <2>6. QED
    BY <2>3, <2>4, <2>5 DEF OwedInv, AnnouncedIsOnItsWay, Unfit, ToSet
<1>4. CASE DeviceCallback
  <2>1. /\ inbox \in Seq(Events) /\ inbox # <<>> /\ inbox' = Tail(inbox)
        /\ UNCHANGED <<callback, made>>
        /\ owed' = IF callback THEN owed \ {Head(inbox)} ELSE owed
    BY <1>1, <1>4 DEF DeviceCallback, TypeOK, libraryVars, managerVars
  <2>2. \A x \in ToSet(inbox) : x = Head(inbox) \/ x \in ToSet(inbox')
    BY <2>1, ToSetTail
  <2>3. (OneInstance)' <=> OneInstance
    BY <2>1 DEF OneInstance
  <2>4. OneInstance => owed' \ Unfit \subseteq ToSet(inbox')
    BY <1>1, <2>1, <2>2 DEF OwedInv, AnnouncedIsOnItsWay
  <2>5. ~callback' => owed' = {}
    BY <1>1, <2>1 DEF OwedInv
  <2>6. QED
    BY <2>3, <2>4, <2>5 DEF OwedInv, AnnouncedIsOnItsWay, Unfit, ToSet
<1>5. ASSUME UNCHANGED <<inbox, owed>>, callback' = callback \/ callback' = TRUE, made \subseteq made'
      PROVE  OwedInv'
  <2>1. (OneInstance)' => OneInstance
    BY <1>5 DEF OneInstance
  <2>2. QED
    BY <1>1, <1>5, <2>1 DEF OwedInv, AnnouncedIsOnItsWay, Unfit, ToSet
<1>6. ASSUME NEW d \in Devices, Populate(d) PROVE OwedInv'
  <2>1. CASE UNCHANGED <<eventVars, crashed, unfit>>
    BY <1>5, <1>6, <2>1 DEF Populate, eventVars, libraryVars
  <2>2. QED
    BY <1>3, <1>6, <2>1 DEF Populate
<1>7. CASE \/ RegisterCall \/ BeginRegistration \/ SetCallback \/ Insert
           \/ \E x \in Devices : Erase(x)
           \/ \E m \in ManagerThreads : Construct(m) \/ ReturnInstance(m)
           \/ \E m \in Servers : ServerStep(m)
           \/ \E c \in Clients : ClientStep(c) \/ LoseCall(c) \/ \E r \in Request : Begin(c, r)
           \/ RegisterEventCallback \/ UNCHANGED vars
  <2>1. UNCHANGED <<inbox, owed>> /\ (callback' = callback \/ callback' = TRUE) /\ made \subseteq made'
    BY <1>7
    DEF RegisterCall, BeginRegistration, SetCallback, Insert, Erase, Construct, ReturnInstance,
        ServerStep, Dispatch, Handle, ClientStep, SetFlag, RegisterHandlers, Return, Send, LoseCall,
        Begin, RegisterEventCallback, vars, eventVars, libraryVars, managerVars
  <2>2. QED
    BY <1>5, <2>1
<1>8. QED
  BY <1>2, <1>4, <1>6, <1>7 DEF Next, MainStep, GetInstance

\* A step that changes no call and lists nothing in an instance there is.
LEMMA AnswerKept ==
  ASSUME AnswerInv, UNCHANGED <<call, reply, known, listed>>, made \subseteq made',
         (OneInstance)' => \A i \in made' : \/ table'[i] = {}
                                            \/ i \in made /\ table'[i] \subseteq table[i],
         \A c \in Clients : \A d \in known[c] : plugged[d] = "out" => plugged'[d] = "out"
  PROVE  AnswerInv'
<1>1. (OneInstance)' => OneInstance
  BY DEF OneInstance
<1>2. SUFFICES ASSUME OneInstance, OneInstance', NEW c \in Clients
               PROVE  /\ call[c] # None =>
                           IF Names(call[c]) THEN \A i \in made' : table'[i] \subseteq listed[c]
                           ELSE listed[c] = {}
                      /\ reply[c] # None /\ reply[c].rc = "SUCCESS" =>
                           /\ reply[c].devs \subseteq listed[c]
                           /\ call[c].name \in ListCalls =>
                                \A d \in known[c] : d \in reply[c].devs \/ plugged'[d] = "out"
  BY <1>1 DEF AnswerInv, Names
<1>3. QED
  BY <1>2 DEF AnswerInv

LEMMA AnswerStep == Inv /\ TypeOK' /\ [Next]_vars => AnswerInv'
<1> SUFFICES ASSUME Inv, TypeOK', [Next]_vars PROVE AnswerInv'
  OBVIOUS
<1>1. /\ TypeOK /\ PlaceInv /\ InstInv /\ CallInv /\ QueueInv /\ ServeInv /\ ToldInv /\ AnswerInv
      /\ Main \in ManagerThreads /\ Main \notin Servers
  BY StorageRPCAssumption DEF Inv, ManagerThreads
<1>2. /\ made \subseteq made'
      /\ \A c \in Clients : \A d \in known[c] : plugged[d] = "out" => plugged'[d] = "out"
  BY <1>1, TablesKept DEF TypeOK
<1>3. (OneInstance)' => OneInstance
  BY <1>2 DEF OneInstance
<1>4. CASE Insert
  <2>1. /\ inst[Main] \in made /\ g \in made /\ made' = made /\ Relisted
        /\ UNCHANGED <<call, reply, known, cpc, plugged>>
        /\ table' = [table EXCEPT ![inst[Main]] = @ \cup {work[Main].dev}]
    BY <1>1, <1>4 DEF Insert, InstInv, deviceVars
  <2>2. \A c \in Clients :
          listed'[c] = IF call[c] # None /\ Names(call[c]) THEN listed[c] \cup table'[g] ELSE {}
    BY <2>1 DEF Relisted
  <2>3. SUFFICES ASSUME OneInstance, NEW c \in Clients
                 PROVE  /\ call[c] # None =>
                             IF Names(call[c]) THEN \A i \in made : table'[i] \subseteq listed'[c]
                             ELSE listed'[c] = {}
                        /\ reply[c] # None /\ reply[c].rc = "SUCCESS" =>
                             /\ reply[c].devs \subseteq listed'[c]
                             /\ call[c].name \in ListCalls =>
                                  \A d \in known[c] : d \in reply[c].devs \/ plugged[d] = "out"
    BY <1>3, <2>1 DEF AnswerInv, Names
  <2>4. \A i \in made : i = g
    BY <2>1, <2>3 DEF OneInstance
  <2>5. reply[c] # None => call[c] # None
    BY <1>1 DEF CallInv
  <2>6. QED
    BY <1>1, <2>2, <2>3, <2>4, <2>5 DEF AnswerInv
<1>5. ASSUME NEW d \in Devices, Erase(d) PROVE AnswerInv'
  <2>1. UNCHANGED <<call, reply, known, listed, made>>
    BY <1>5 DEF Erase, callVars
  <2>2. table' = table \/ table' = [table EXCEPT ![g] = @ \ {d}]
    BY <1>5 DEF Erase
  <2>3. table \in [Instances -> SUBSET Devices] /\ made \subseteq Instances
    BY <1>1 DEF TypeOK
  <2>4. \A i \in made : table'[i] \subseteq table[i]
    BY <2>2, <2>3
  <2>5. QED
    BY <1>1, <1>2, <2>1, <2>4, AnswerKept
<1>6. ASSUME NEW m \in ManagerThreads, Construct(m) PROVE AnswerInv'
  <2>1. UNCHANGED <<call, reply, known, listed, table>> /\ made' = made \cup {m} /\ m \notin made
    BY <1>1, <1>6 DEF Construct, callVars, InstInv
  <2>2. table[m] = {}
    BY <1>1, <2>1 DEF ToldInv, Instances
  <2>3. QED
    BY <1>1, <1>2, <2>1, <2>2, AnswerKept
<1>7. CASE \/ RegisterCall \/ BeginRegistration \/ SetCallback \/ Announce
           \/ \E d \in Devices : Populate(d)
           \/ \E m \in ManagerThreads : ReturnInstance(m)
           \/ \E m \in Servers : Dispatch(m)
           \/ \E c \in Clients : SetFlag(c)
           \/ RegisterEventCallback \/ DeviceCallback \/ UNCHANGED vars
  <2>1. UNCHANGED <<call, reply, known, listed, table, made>>
    BY <1>7
    DEF RegisterCall, BeginRegistration, SetCallback, Announce, Populate, ReturnInstance, Dispatch,
        SetFlag, RegisterEventCallback, DeviceCallback, vars, callVars, managerVars
  <2>2. QED
    BY <1>1, <1>2, <2>1, AnswerKept
<1>8. ASSUME NEW c \in Clients, UNCHANGED <<table, made, plugged>>,
             \A x \in Clients \ {c} :
               call'[x] = call[x] /\ reply'[x] = reply[x] /\ known'[x] = known[x] /\ listed'[x] = listed[x],
             OneInstance =>
               /\ call'[c] # None =>
                    IF Names(call'[c]) THEN \A i \in made : table[i] \subseteq listed'[c]
                    ELSE listed'[c] = {}
               /\ reply'[c] # None /\ reply'[c].rc = "SUCCESS" =>
                    /\ reply'[c].devs \subseteq listed'[c]
                    /\ call'[c].name \in ListCalls =>
                         \A d \in known'[c] : d \in reply'[c].devs \/ plugged[d] = "out"
      PROVE  AnswerInv'
  <2>1. SUFFICES ASSUME OneInstance, NEW x \in Clients
                 PROVE  /\ call'[x] # None =>
                             IF Names(call'[x]) THEN \A i \in made : table[i] \subseteq listed'[x]
                             ELSE listed'[x] = {}
                        /\ reply'[x] # None /\ reply'[x].rc = "SUCCESS" =>
                             /\ reply'[x].devs \subseteq listed'[x]
                             /\ call'[x].name \in ListCalls =>
                                  \A d \in known'[x] : d \in reply'[x].devs \/ plugged[d] = "out"
    BY <1>3, <1>8 DEF AnswerInv, Names
  <2>2. CASE x = c
    BY <1>8, <2>1, <2>2
  <2>3. CASE x # c
    BY <1>1, <1>8, <2>1, <2>3 DEF AnswerInv
  <2>4. QED
    BY <2>2, <2>3
<1>9. ASSUME NEW c \in Clients, NEW r \in Request, Begin(c, r) PROVE AnswerInv'
  <2>1. /\ UNCHANGED <<table, made, plugged, reply>> /\ reply[c] = None
        /\ call' = [call EXCEPT ![c] = r]
        /\ listed' = [listed EXCEPT ![c] = IF Names(r) /\ g # None THEN table[g] ELSE {}]
        /\ \E K : known' = [known EXCEPT ![c] = K]
    BY <1>1, <1>9 DEF Begin, managerVars, deviceVars, CallInv
  <2>2. OneInstance /\ Names(r) => \A i \in made : table[i] \subseteq listed'[c]
    BY <1>1, <2>1 DEF OneInstance, InstInv, TypeOK
  <2>3. ~Names(r) => listed'[c] = {}
    BY <1>1, <2>1 DEF TypeOK
  <2>4. call'[c] = r
    BY <1>1, <2>1 DEF TypeOK
  <2>5. \A x \in Clients \ {c} :
          call'[x] = call[x] /\ reply'[x] = reply[x] /\ known'[x] = known[x] /\ listed'[x] = listed[x]
    BY <1>1, <2>1 DEF TypeOK
  <2>6. QED
    BY <1>8, <2>1, <2>2, <2>3, <2>4, <2>5
<1>10. ASSUME NEW c \in Clients, RegisterHandlers(c) \/ Return(c) PROVE AnswerInv'
  <2>1. /\ UNCHANGED <<table, made, plugged>> /\ reply'[c] = None
        /\ call'[c] = None \/ (call'[c] = call[c] /\ listed'[c] = listed[c])
        /\ \A x \in Clients \ {c} :
             call'[x] = call[x] /\ reply'[x] = reply[x] /\ known'[x] = known[x] /\ listed'[x] = listed[x]
    BY <1>1, <1>10 DEF RegisterHandlers, Return, managerVars, deviceVars, TypeOK, CallInv
  <2>2. OneInstance /\ call'[c] # None =>
          IF Names(call'[c]) THEN \A i \in made : table[i] \subseteq listed'[c] ELSE listed'[c] = {}
    BY <1>1, <2>1 DEF AnswerInv
  <2>3. QED
    BY <1>8, <2>1, <2>2
<1>11. ASSUME NEW c \in Clients, Send(c) \/ LoseCall(c) PROVE AnswerInv'
  <2>1. /\ UNCHANGED <<table, made, plugged, call, known, listed>> /\ reply[c] = None
        /\ reply' = reply \/ reply' = [reply EXCEPT ![c] = Deliver(call[c], Failed)]
    BY <1>1, <1>11 DEF Send, LoseCall, IARMFails, managerVars, deviceVars, CallInv
  <2>2. reply'[c] # None => reply'[c].devs = {} /\ (call[c].name \in ListCalls => reply'[c].rc # "SUCCESS")
    BY <1>1, <2>1, FailureDelivered DEF TypeOK
  <2>3. \A x \in Clients \ {c} : reply'[x] = reply[x]
    BY <1>1, <2>1 DEF TypeOK
  <2>4. OneInstance /\ call[c] # None =>
          IF Names(call[c]) THEN \A i \in made : table[i] \subseteq listed[c] ELSE listed[c] = {}
    BY <1>1 DEF AnswerInv
  <2>5. QED
    BY <1>8, <2>1, <2>2, <2>3, <2>4
<1>12. ASSUME NEW m \in Servers, Handle(m) PROVE AnswerInv'
  <2>1. UNCHANGED <<table, made, plugged, call, known, listed>>
    BY <1>12 DEF Handle, deviceVars
  <2>2. PICK c \in Clients, a \in Reply :
          /\ cpc[c] = "served" /\ reply' = [reply EXCEPT ![c] = a]
          /\ \/ a.devs = {}
             \/ call[c].name # "NotifyMGRAboutFailure" /\ \E i \in made : a.devs \subseteq table[i]
          /\ a.rc = "SUCCESS" /\ call[c].name \in ListCalls => \E i \in made : a.devs = table[i]
    BY <1>1, <1>12, Handled
  <2>3. call[c] # None /\ call[c].name # "Init"
    BY <1>1, <2>2 DEF CallInv
  <2>4. OneInstance =>
          IF Names(call[c]) THEN \A i \in made : table[i] \subseteq listed[c] ELSE listed[c] = {}
    BY <1>1, <2>3 DEF AnswerInv
  <2>5. OneInstance => a.devs \subseteq listed[c]
    BY <2>2, <2>3, <2>4 DEF Names
  <2>6. ASSUME OneInstance, a.rc = "SUCCESS", call[c].name \in ListCalls, NEW d \in known[c]
        PROVE  d \in a.devs \/ plugged[d] = "out"
    <3>1. Present(d)
      BY <1>1 DEF ToldInv
    <3>2. PICK i \in made : a.devs = table[i]
      BY <2>2, <2>6
    <3>3. QED
      BY <2>6, <3>1, <3>2 DEF Present, OneInstance
  <2>7. reply'[c] = a /\ \A x \in Clients \ {c} : reply'[x] = reply[x]
    BY <1>1, <2>2 DEF TypeOK
  <2>8. QED
    BY <1>8, <2>1, <2>4, <2>5, <2>6, <2>7
<1>13. QED
  BY <1>4, <1>5, <1>6, <1>7, <1>9, <1>10, <1>11, <1>12
  DEF Next, MainStep, GetInstance, ServerStep, ClientStep

-----------------------------------------------------------------------------
(* How often an event is heard.                                            *)

Places(s, e) == {k \in DOMAIN s : s[k] = e}
Copies(s, e) == Cardinality(Places(s, e))

\* Heard, or on its way to be.
Count(e) == heard[e] + Copies(inbox, e)

\* What e tells of has not happened, or is about to be told.
NotYet(e) ==
  \/ pc[Main] \in {"insert", "announce"} /\ work[Main] = e
  \/ CASE e.what = "added"   -> plugged[e.dev] = "never"
       [] e.what = "removed" -> plugged[e.dev] # "out"
       [] OTHER -> plugged[e.dev] = "never" \/ e.dev \notin unfit

\* What main is about to tell of has happened.
WorkInv ==
  pc[Main] \in {"insert", "announce"} =>
    plugged[work[Main].dev] = IF work[Main].what = "added" THEN "in" ELSE "out"

OnceInv ==
  \A e \in Events : Count(e) <= Cardinality(inits) /\ (NotYet(e) => Count(e) = 0)

LEMMA PlacesFinite ==
  ASSUME NEW S, NEW s \in Seq(S), NEW e
  PROVE  /\ Len(s) \in Nat /\ DOMAIN s = 1..Len(s)
         /\ IsFiniteSet(Places(s, e)) /\ Copies(s, e) \in Nat
<1>1. Len(s) \in Nat /\ DOMAIN s = 1..Len(s)
  BY LenProperties
<1>2. IsFiniteSet(1..Len(s))
  BY <1>1, FS_Interval
<1>3. Places(s, e) \in SUBSET (1..Len(s))
  BY <1>1 DEF Places
<1>4. IsFiniteSet(Places(s, e))
  BY <1>2, <1>3, FS_Subset
<1>5. QED
  BY <1>1, <1>4, FS_CardinalityType DEF Copies

LEMMA CopiesInTail ==
  ASSUME NEW S, NEW s \in Seq(S), s # <<>>, NEW e
  PROVE  /\ Copies(Tail(s), e) <= Copies(s, e)
         /\ Head(s) = e => Copies(Tail(s), e) + 1 <= Copies(s, e)
<1> DEFINE r == Tail(s)
<1>1. /\ Len(s) \in Nat \ {0} /\ DOMAIN s = 1..Len(s) /\ Head(s) = s[1]
      /\ r \in Seq(S) /\ Len(r) = Len(s) - 1 /\ DOMAIN r = 1..Len(r)
      /\ \A i \in 1..Len(r) : r[i] = s[i + 1]
  BY HeadTailProperties, EmptySeq, LenProperties
<1>2. /\ IsFiniteSet(Places(s, e)) /\ IsFiniteSet(Places(r, e))
      /\ Copies(s, e) \in Nat /\ Copies(r, e) \in Nat
  BY <1>1, PlacesFinite
<1> HIDE DEF r
<1> DEFINE P == Places(r, e)
           Q == Places(s, e) \ {1}
           f == [k \in P |-> k + 1]
<1>3. \A k \in P : k \in 1..Len(r) /\ k + 1 \in Q
  BY <1>1 DEF Places
<1>4. f \in [P -> Q] /\ \A j, k \in P : f[j] = f[k] => j = k
  BY <1>1, <1>3
<1>5. f \in Injection(P, Q)
  BY <1>4 DEF Injection, IsInjective
<1> HIDE DEF P, Q, f
<1>6. /\ IsFiniteSet(Q)
      /\ Cardinality(Q) = IF 1 \in Places(s, e) THEN Cardinality(Places(s, e)) - 1
                          ELSE Cardinality(Places(s, e))
  BY <1>2, FS_RemoveElement DEF Q
<1>7. Cardinality(P) <= Cardinality(Q)
  BY <1>5, <1>6, FS_Injection
<1>8. Cardinality(P) = Copies(r, e) /\ Cardinality(Places(s, e)) = Copies(s, e)
  BY DEF P, Copies
<1>9. Head(s) = e => 1 \in Places(s, e)
  BY <1>1 DEF Places
<1>10. QED
  BY <1>2, <1>6, <1>7, <1>8, <1>9 DEF r

LEMMA CopiesPosted ==
  ASSUME NEW S, NEW s \in Seq(S), NEW e \in S, NEW f \in Seq({e}), NEW t, t = s \o f, NEW x
  PROVE  /\ x # e => Copies(t, x) <= Copies(s, x)
         /\ Copies(t, x) <= Copies(s, x) + Len(f)
<1> DEFINE n == Len(f)
           F == (Len(s) + 1)..(Len(s) + n)
<1>1. /\ n \in Nat /\ Len(s) \in Nat /\ DOMAIN s = 1..Len(s) /\ f \in Seq(S)
      /\ \A k \in 1..n : f[k] = e
  <2>1. n \in Nat /\ \A k \in 1..n : f[k] \in {e}
    BY LenProperties, ElementOfSeq
  <2>2. f \in Seq(S)
    BY SeqMonotonic
  <2>3. QED
    BY <2>1, <2>2, LenProperties
<1>2. /\ t \in Seq(S) /\ Len(t) = Len(s) + n
      /\ \A i \in 1..(Len(s) + n) : t[i] = IF i <= Len(s) THEN s[i] ELSE f[i - Len(s)]
  BY <1>1, ConcatProperties
<1>3. /\ IsFiniteSet(Places(s, x)) /\ Copies(s, x) \in Nat
      /\ IsFiniteSet(Places(t, x)) /\ Copies(t, x) \in Nat /\ DOMAIN t = 1..Len(t)
  BY <1>2, PlacesFinite
<1>4. ASSUME NEW i \in Places(t, x)
      PROVE  i \in Places(s, x) \/ (i \in F /\ x = e)
  <2>1. i \in 1..(Len(s) + n) /\ t[i] = x
    BY <1>2, <1>3 DEF Places
  <2>2. CASE i <= Len(s)
    BY <1>1, <1>2, <2>1, <2>2 DEF Places
  <2>3. CASE ~(i <= Len(s))
    <3>1. i \in F /\ i - Len(s) \in 1..n
      BY <1>1, <2>1, <2>3
    <3>2. t[i] = f[i - Len(s)]
      BY <1>2, <2>1, <2>3
    <3>3. QED
      BY <1>1, <2>1, <3>1, <3>2
  <2>4. QED
    BY <2>2, <2>3
<1>5. IsFiniteSet(F) /\ Cardinality(F) = n
  <2>1. Len(s) + 1 \in Int /\ Len(s) + n \in Int
    BY <1>1
  <2>2. IsFiniteSet(F) /\ Cardinality(F) = IF Len(s) + 1 > Len(s) + n THEN 0
                                           ELSE (Len(s) + n) - (Len(s) + 1) + 1
    BY <2>1, FS_Interval
  <2>3. QED
    BY <1>1, <2>2
<1> HIDE DEF F
<1>6. ASSUME x # e PROVE Copies(t, x) <= Copies(s, x)
  <2>1. Places(t, x) \in SUBSET Places(s, x)
    BY <1>4, <1>6
  <2>2. QED
    BY <1>3, <2>1, FS_Subset DEF Copies
<1>7. Copies(t, x) <= Copies(s, x) + n
  <2>1. Places(t, x) \in SUBSET (Places(s, x) \cup F)
    BY <1>4
  <2>2. /\ IsFiniteSet(Places(s, x) \cup F)
        /\ Cardinality(Places(s, x) \cup F)
             = Cardinality(Places(s, x)) + Cardinality(F) - Cardinality(Places(s, x) \cap F)
    BY <1>3, <1>5, FS_Union
  <2>3. Places(s, x) \cap F \in SUBSET F
    OBVIOUS
  <2>4. Cardinality(Places(s, x) \cap F) \in Nat
    BY <1>5, <2>3, FS_Subset, FS_CardinalityType
  <2>5. Cardinality(Places(t, x)) <= Cardinality(Places(s, x) \cup F)
    BY <2>1, <2>2, FS_Subset
  <2>6. Cardinality(Places(s, x)) \in Nat /\ Cardinality(Places(t, x)) \in Nat
    BY <1>3 DEF Copies
  <2>7. QED
    BY <1>1, <1>5, <2>2, <2>4, <2>5, <2>6 DEF Copies
<1>8. QED
  BY <1>6, <1>7

LEMMA CountType ==
  ASSUME TypeOK, NEW e \in Events
  PROVE  Count(e) \in Nat /\ heard[e] \in Nat /\ Copies(inbox, e) \in Nat
BY PlacesFinite DEF TypeOK, Count

\* The threads that found the library uninitialised become no fewer, and each
\* has registered the handlers at most once.
LEMMA InitsGrow ==
  ASSUME TypeOK, CountInv, TypeOK', [Next]_vars
  PROVE  /\ inits \subseteq inits' /\ Cardinality(inits) \in Nat /\ Cardinality(inits') \in Nat
         /\ Cardinality(inits) <= Cardinality(inits')
         /\ handlers \in Nat /\ handlers <= Cardinality(inits)
<1>1. IsFiniteSet(inits) /\ IsFiniteSet(inits')
  BY FS_Subset, StorageRPCAssumption DEF TypeOK
<1>2. inits \subseteq inits'
  <2>1. MainSide => inits' = inits
    BY MainSideKeeps DEF libraryVars
  <2>2. ServerSide => inits' = inits
    BY DEF ServerSide, ServerStep, Dispatch, Handle, Construct, ReturnInstance, libraryVars
  <2>3. ClientSide \/ UNCHANGED vars => inits \subseteq inits'
    BY DEF ClientSide, ClientStep, SetFlag, RegisterHandlers, Send, Return, LoseCall, Begin,
           RegisterEventCallback, DeviceCallback, libraryVars, vars
  <2>4. QED
    BY <2>1, <2>2, <2>3, Sides
<1>3. {c \in inits : cpc[c] # "handlers"} \in SUBSET inits
  OBVIOUS
<1>4. handlers = Cardinality({c \in inits : cpc[c] # "handlers"})
  BY DEF CountInv
<1>5. handlers <= Cardinality(inits) /\ handlers \in Nat
  <2> DEFINE R == {c \in inits : cpc[c] # "handlers"}
  <2>1. R \in SUBSET inits /\ handlers = Cardinality(R)
    BY <1>4
  <2> HIDE DEF R
  <2>2. QED
    BY <1>1, <2>1, FS_Subset, FS_CardinalityType
<1>6. Cardinality(inits) <= Cardinality(inits')
  BY <1>1, <1>2, FS_Subset
<1>7. QED
  BY <1>1, <1>2, <1>5, <1>6, FS_CardinalityType

\* What an announcement of e adds to what is on its way.
LEMMA CountPosted ==
  ASSUME TypeOK, CountInv, NEW p, NEW e \in Events, Post(p, e), NEW x \in Events
  PROVE  /\ (Count(x))' \in Nat
         /\ x # e => (Count(x))' <= Count(x)
         /\ (Count(x))' <= Count(x) + handlers
<1>1. handlers \in Nat /\ heard' = heard /\ inbox \in Seq(Events) /\ heard[x] \in Nat
  BY FS_CardinalityType, StorageRPCAssumption DEF TypeOK, Post
<1>2. (Count(x))' = heard'[x] + Copies(inbox', x)
  BY DEF Count, Copies, Places
<1>3. CASE p # "server"
  <2>1. inbox' = inbox
    BY <1>3 DEF Post
  <2>2. (Count(x))' = Count(x) /\ Count(x) \in Nat
    BY <1>1, <1>2, <2>1, CountType DEF Count
  <2>3. QED
    BY <1>1, <2>2
<1>4. CASE p = "server"
  <2>1. PICK f : f = [k \in 1..handlers |-> e]
    OBVIOUS
  <2>2. f \in Seq({e}) /\ Len(f) = handlers
    BY <1>1, <2>1
  <2>3. inbox' = inbox \o f
    BY <1>4, <2>1 DEF Post
  <2>4. /\ x # e => Copies(inbox', x) <= Copies(inbox, x)
        /\ Copies(inbox', x) <= Copies(inbox, x) + handlers
    <3>1. PICK t : t = inbox' /\ t = inbox \o f
      BY <2>3
    <3>2. /\ x # e => Copies(t, x) <= Copies(inbox, x)
          /\ Copies(t, x) <= Copies(inbox, x) + Len(f)
      BY <1>1, <2>2, <3>1, CopiesPosted
    <3>3. QED
      BY <2>2, <3>1, <3>2
  <2>5. inbox' \in Seq(Events)
    BY <1>1, <2>2, <2>3, ToSetPosted
  <2>6. Copies(inbox', x) \in Nat /\ Copies(inbox, x) \in Nat
    BY <1>1, <2>5, PlacesFinite
  <2>7. QED
    BY <1>1, <1>2, <2>4, <2>6 DEF Count
<1>5. QED
  BY <1>3, <1>4

LEMMA WorkStep == TypeOK /\ PlaceInv /\ WorkInv /\ [Next]_vars => WorkInv'
<1> SUFFICES ASSUME TypeOK, PlaceInv, WorkInv, [Next]_vars PROVE WorkInv'
  OBVIOUS
<1>1. Main \in ManagerThreads /\ Main \notin Servers /\ Servers \subseteq ManagerThreads
  BY StorageRPCAssumption DEF ManagerThreads
<1>2. CASE \/ RegisterCall \/ BeginRegistration \/ SetCallback \/ Announce
           \/ Construct(Main) \/ ReturnInstance(Main)
  <2>1. pc'[Main] \notin {"insert", "announce"}
    BY <1>1, <1>2
    DEF RegisterCall, BeginRegistration, Look, Then, SetCallback, Announce, Construct,
        ReturnInstance, TypeOK
  <2>2. QED
    BY <2>1 DEF WorkInv
<1>3. CASE Insert
  BY <1>1, <1>3 DEF Insert, deviceVars, WorkInv
<1>4. ASSUME NEW d \in Devices, Populate(d) PROVE WorkInv'
  <2>1. work'[Main].dev = d /\ work'[Main].what = "added" /\ plugged'[d] = "in"
    BY <1>1, <1>4 DEF Populate, TypeOK
  <2>2. QED
    BY <2>1 DEF WorkInv
<1>5. ASSUME NEW d \in Devices, Erase(d) PROVE WorkInv'
  <2>1. \/ pc'[Main] = "idle"
        \/ work'[Main].dev = d /\ work'[Main].what = "removed" /\ plugged'[d] = "out"
    BY <1>1, <1>5 DEF Erase, TypeOK
  <2>2. QED
    BY <2>1 DEF WorkInv
<1>6. ASSUME UNCHANGED <<pc[Main], work[Main], plugged>> PROVE WorkInv'
  BY <1>6 DEF WorkInv
<1>7. ASSUME NEW m \in Servers, ServerStep(m) \/ Construct(m) \/ ReturnInstance(m) PROVE WorkInv'
  <2>1. UNCHANGED <<pc[Main], work[Main], plugged>>
    BY <1>1, <1>7
    DEF ServerStep, Dispatch, Look, Handle, Construct, ReturnInstance, deviceVars, TypeOK
  <2>2. QED
    BY <1>6, <2>1
<1>8. CASE ClientSide \/ UNCHANGED vars
  BY <1>6, <1>8, ClientSideKeeps DEF vars, managerVars, deviceVars
<1>9. QED
  BY <1>2, <1>3, <1>4, <1>5, <1>7, <1>8, Sides DEF MainSide, MainStep, ServerSide

\* What has been told of stays told.
LEMMA NotYetStep ==
  ASSUME TypeOK, PlaceInv, [Next]_vars, NEW e \in Events, NotYet(e)'
  PROVE  NotYet(e)
<1>1. /\ Main \in ManagerThreads /\ Main \notin Servers /\ Servers \subseteq ManagerThreads
      /\ e.dev \in Devices /\ e.what \in {"added", "removed", "unfit"}
  BY StorageRPCAssumption DEF ManagerThreads, Events
<1>2. CASE UNCHANGED <<pc[Main], work[Main], plugged>> /\ unfit \subseteq unfit'
  BY <1>2 DEF NotYet
<1>3. CASE \/ RegisterCall \/ BeginRegistration \/ SetCallback \/ Announce
           \/ Construct(Main) \/ ReturnInstance(Main)
  <2>1. pc'[Main] \notin {"insert", "announce"} /\ plugged' = plugged /\ unfit' = unfit
    BY <1>1, <1>3
    DEF RegisterCall, BeginRegistration, Look, Then, SetCallback, Announce, Construct,
        ReturnInstance, TypeOK, deviceVars
  <2>2. QED
    BY <2>1 DEF NotYet
<1>4. CASE Insert
  BY <1>1, <1>4 DEF Insert, deviceVars, NotYet
<1>5. ASSUME NEW d \in Devices, Populate(d) PROVE NotYet(e)
  <2>1. /\ plugged[d] = "never" /\ plugged' = [plugged EXCEPT ![d] = "in"]
        /\ work'[Main].dev = d /\ work'[Main].what = "added"
        /\ unfit' = unfit \/ unfit' = unfit \cup {d}
    BY <1>1, <1>5 DEF Populate, TypeOK
  <2>2. plugged'[e.dev] = IF e.dev = d THEN "in" ELSE plugged[e.dev]
    BY <1>1, <2>1 DEF TypeOK
  <2>3. CASE work'[Main] = e
    BY <2>1, <2>3 DEF NotYet
  <2>4. CASE work'[Main] # e
    BY <1>1, <2>1, <2>2, <2>4 DEF NotYet
  <2>5. QED
    BY <2>3, <2>4
<1>6. ASSUME NEW d \in Devices, Erase(d) PROVE NotYet(e)
  <2>1. /\ plugged[d] = "in" /\ plugged' = [plugged EXCEPT ![d] = "out"] /\ unfit' = unfit
        /\ \/ work'[Main].dev = d /\ work'[Main].what = "removed"
           \/ pc'[Main] = "idle"
    BY <1>1, <1>6 DEF Erase, TypeOK
  <2>2. plugged'[e.dev] = IF e.dev = d THEN "out" ELSE plugged[e.dev]
    BY <1>1, <2>1 DEF TypeOK
  <2>3. CASE work'[Main] = e /\ pc'[Main] # "idle"
    BY <2>1, <2>3 DEF NotYet
  <2>4. CASE ~(work'[Main] = e /\ pc'[Main] # "idle")
    BY <1>1, <2>1, <2>2, <2>4 DEF NotYet
  <2>5. QED
    BY <2>3, <2>4
<1>7. ASSUME NEW m \in Servers, ServerStep(m) \/ Construct(m) \/ ReturnInstance(m) PROVE NotYet(e)
  <2>1. UNCHANGED <<pc[Main], work[Main], plugged, unfit>>
    BY <1>1, <1>7
    DEF ServerStep, Dispatch, Look, Handle, Construct, ReturnInstance, deviceVars, TypeOK
  <2>2. QED
    BY <1>2, <2>1
<1>8. CASE ClientSide \/ UNCHANGED vars
  BY <1>2, <1>8, ClientSideKeeps DEF vars, managerVars, deviceVars
<1>9. QED
  BY <1>3, <1>4, <1>5, <1>6, <1>7, <1>8, Sides DEF MainSide, MainStep, ServerSide

LEMMA OnceStep ==
  TypeOK /\ PlaceInv /\ CountInv /\ WorkInv /\ OnceInv /\ TypeOK' /\ [Next]_vars => OnceInv'
<1> SUFFICES ASSUME TypeOK, PlaceInv, CountInv, WorkInv, OnceInv, TypeOK', [Next]_vars,
                    NEW x \in Events
             PROVE  /\ (Count(x))' <= Cardinality(inits')
                    /\ NotYet(x)' => (Count(x))' = 0
  BY DEF OnceInv
<1>1. /\ Cardinality(inits) \in Nat /\ Cardinality(inits') \in Nat
      /\ Cardinality(inits) <= Cardinality(inits')
      /\ handlers \in Nat /\ handlers <= Cardinality(inits)
  BY InitsGrow
<1>2. Count(x) \in Nat /\ Count(x) <= Cardinality(inits) /\ (NotYet(x) => Count(x) = 0)
  BY CountType DEF OnceInv
<1>3. NotYet(x)' => NotYet(x)
  BY NotYetStep
<1>4. ASSUME (Count(x))' \in Nat, (Count(x))' <= Count(x)
      PROVE  (Count(x))' <= Cardinality(inits') /\ (NotYet(x)' => (Count(x))' = 0)
  BY <1>1, <1>2, <1>3, <1>4
<1>5. ASSUME (Count(x))' \in Nat, (Count(x))' <= Count(x) + handlers, NotYet(x), ~NotYet(x)'
      PROVE  (Count(x))' <= Cardinality(inits') /\ (NotYet(x)' => (Count(x))' = 0)
  BY <1>1, <1>2, <1>5
<1>6. CASE Announce
  <2>1. /\ Post(pointer[inst[Main]], work[Main]) /\ work[Main] \in Events
        /\ work[Main].what \in {"added", "removed"} /\ pc[Main] = "announce"
    BY <1>6 DEF Announce, PlaceInv
  <2>2. /\ (Count(x))' \in Nat /\ (x # work[Main] => (Count(x))' <= Count(x))
        /\ (Count(x))' <= Count(x) + handlers
    BY <2>1, CountPosted
  <2>3. CASE x = work[Main]
    <3>1. NotYet(x)
      BY <2>1, <2>3 DEF NotYet
    <3>2. pc'[Main] = "idle" /\ plugged' = plugged
      BY <1>6 DEF Announce, deviceVars, TypeOK, ManagerThreads
    <3>3. ~NotYet(x)'
      BY <2>1, <2>3, <3>2 DEF NotYet, WorkInv
    <3>4. QED
      BY <1>5, <2>2, <3>1, <3>3
  <2>4. QED
    BY <1>4, <2>2, <2>3
<1>7. CASE DeviceCallback
  <2>1. /\ inbox \in Seq(Events) /\ inbox # <<>> /\ inbox' = Tail(inbox)
        /\ heard \in [Events -> Nat] /\ inbox' \in Seq(Events)
        /\ heard' = heard \/ heard' = [heard EXCEPT ![Head(inbox)] = @ + 1]
    BY <1>7 DEF DeviceCallback, TypeOK
  <2>2. /\ Copies(inbox', x) <= Copies(inbox, x)
        /\ Head(inbox) = x => Copies(inbox', x) + 1 <= Copies(inbox, x)
    BY <2>1, CopiesInTail
  <2>3. Copies(inbox, x) \in Nat /\ Copies(inbox', x) \in Nat
    BY <2>1, PlacesFinite
  <2>4. /\ heard[x] \in Nat /\ heard'[x] \in Nat
        /\ heard'[x] = heard[x] \/ (Head(inbox) = x /\ heard'[x] = heard[x] + 1)
    BY <2>1
  <2>5. (Count(x))' = heard'[x] + Copies(inbox', x)
    BY DEF Count, Copies, Places
  <2>6. Count(x) = heard[x] + Copies(inbox, x)
    BY DEF Count
  <2>7. (Count(x))' \in Nat /\ (Count(x))' <= Count(x)
    BY <2>2, <2>3, <2>4, <2>5, <2>6
  <2>8. QED
    BY <1>4, <2>7
<1>8. ASSUME UNCHANGED <<inbox, heard>>
      PROVE  (Count(x))' <= Cardinality(inits') /\ (NotYet(x)' => (Count(x))' = 0)
  <2>1. (Count(x))' = Count(x)
    BY <1>8 DEF Count, Copies, Places
  <2>2. QED
    BY <1>2, <1>4, <2>1
<1>9. ASSUME NEW d \in Devices, Populate(d)
      PROVE  (Count(x))' <= Cardinality(inits') /\ (NotYet(x)' => (Count(x))' = 0)
  <2>1. CASE UNCHANGED <<eventVars, crashed, unfit>>
    BY <1>8, <2>1 DEF eventVars
  <2>2. ASSUME NEW p, Post(p, [dev |-> d, what |-> "unfit"]), unfit' = unfit \cup {d}
        PROVE  (Count(x))' <= Cardinality(inits') /\ (NotYet(x)' => (Count(x))' = 0)
    <3> DEFINE e == [dev |-> d, what |-> "unfit"]
    <3>1. e \in Events /\ e.dev = d /\ e.what = "unfit" /\ Post(p, e)
      BY <2>2 DEF Events
    <3> HIDE DEF e
    <3>2. /\ (Count(x))' \in Nat /\ (x # e => (Count(x))' <= Count(x))
          /\ (Count(x))' <= Count(x) + handlers
      BY <3>1, CountPosted
    <3>3. CASE x = e
      <4>1. plugged[d] = "never" /\ plugged'[d] = "in" /\ work'[Main].what = "added"
        BY <1>9 DEF Populate, TypeOK, ManagerThreads
      <4>2. NotYet(x)
        BY <3>1, <3>3, <4>1 DEF NotYet
      <4>3. ~NotYet(x)'
        BY <2>2, <3>1, <3>3, <4>1 DEF NotYet
      <4>4. QED
        BY <1>5, <3>2, <4>2, <4>3
    <3>4. QED
      BY <1>4, <3>2, <3>3
  <2>3. QED
    BY <1>9, <2>1, <2>2 DEF Populate
<1>10. CASE \/ RegisterCall \/ BeginRegistration \/ SetCallback \/ Insert
            \/ \E d \in Devices : Erase(d)
            \/ \E m \in ManagerThreads : Construct(m) \/ ReturnInstance(m)
            \/ \E m \in Servers : ServerStep(m)
            \/ \E c \in Clients : ClientStep(c) \/ LoseCall(c) \/ \E r \in Request : Begin(c, r)
            \/ RegisterEventCallback \/ UNCHANGED vars
  <2>1. UNCHANGED <<inbox, heard>>
    BY <1>10
    DEF RegisterCall, BeginRegistration, SetCallback, Insert, Erase, Construct, ReturnInstance,
        ServerStep, Dispatch, Handle, ClientStep, SetFlag, RegisterHandlers, Return, Send, LoseCall,
        Begin, RegisterEventCallback, vars, eventVars
  <2>2. QED
    BY <1>8, <2>1
<1>11. QED
  BY <1>6, <1>7, <1>9, <1>10 DEF Next, MainStep, GetInstance

-----------------------------------------------------------------------------
(* The invariant, and what follows from it.                                *)

LEMMA InvInit == Init => Inv
<1> SUFFICES ASSUME Init PROVE Inv
  OBVIOUS
<1>1. TypeOK
  <2>1. ManagerTypes
    BY DEF Init, ManagerTypes, ManagerPCs, Pointers, Instances, ManagerThreads
  <2>2. BusTypes
    BY EmptySeq DEF Init, BusTypes
  <2>3. ClientTypes
    <3>1. handlers \in 0..Cardinality(Clients)
      <4>1. Cardinality(Clients) \in Nat
        BY FS_CardinalityType, StorageRPCAssumption
      <4>2. QED
        BY <4>1 DEF Init
    <3>2. flag \in BOOLEAN /\ callback \in BOOLEAN
      BY DEF Init
    <3>3. QED
      BY <3>1, <3>2 DEF Init, ClientTypes, ClientPCs
  <2>4. QED
    BY <2>1, <2>2, <2>3, TypesJoined
<1>2. Main \notin Servers /\ Main \in ManagerThreads /\ Servers \subseteq ManagerThreads
  BY StorageRPCAssumption DEF ManagerThreads
<1>3. 0 < Len(CallOrder)
  BY StorageRPCAssumption, EmptySeq
<1>4. PlaceInv
  BY <1>2, <1>3 DEF Init, PlaceInv, ManagerPCs
<1>5. InstInv
  BY <1>2 DEF Init, InstInv
<1>6. CallInv /\ ServeInv /\ QueueInv
  BY <1>2 DEF Init, CallInv, ServeInv, QueueInv
<1>7. CountInv
  <2>1. {c \in {} : cpc[c] # "handlers"} = {}
    OBVIOUS
  <2>2. QED
    BY <2>1, FS_EmptySet DEF Init, CountInv
<1>8. ToldInv
  <2>1. ToSet(inbox) = {}
    BY DEF Init, ToSet
  <2>2. \A d \in Devices : heard[Added(d)] = 0
    BY AddedEvent DEF Init
  <2>3. QED
    BY <1>2, <2>1, <2>2 DEF Init, ToldInv
<1>9. AnswerInv /\ OwedInv /\ CrashNeedsUnsetPointer
  BY DEF Init, AnswerInv, OwedInv, AnnouncedIsOnItsWay, CrashNeedsUnsetPointer
<1>10. QED
  BY <1>1, <1>4, <1>5, <1>6, <1>7, <1>8, <1>9 DEF Inv

LEMMA InvNext == Inv /\ [Next]_vars => Inv'
<1> SUFFICES ASSUME Inv, [Next]_vars PROVE Inv'
  OBVIOUS
<1>1. TypeOK /\ PlaceInv /\ InstInv /\ CallInv /\ QueueInv /\ ServeInv /\ CountInv
      /\ CrashNeedsUnsetPointer
  BY DEF Inv
<1>2. PlaceInv' /\ InstInv' /\ CallInv' /\ QueueInv' /\ ServeInv' /\ CountInv'
  BY <1>1, PlaceStep, InstStep, CallStep, QueueStep, ServeStep, CountStep
<1>3. ManagerTypes' /\ BusTypes'
  BY <1>1, ManagerTypesStep, BusTypesStep
<1>4. ClientTypes'
  BY <1>2, <1>3, ClientTypesStep
<1>5. TypeOK'
  BY <1>3, <1>4, TypesJoined DEF TypeOK, ManagerTypes, BusTypes, ClientTypes
<1>6. ToldInv' /\ AnswerInv' /\ OwedInv' /\ CrashNeedsUnsetPointer'
  BY <1>1, <1>2, <1>5, ToldStep, AnswerStep, OwedStep, CrashStep
<1>7. QED
  BY <1>2, <1>5, <1>6 DEF Inv

LEMMA InvHolds == Spec => []Inv
BY InvInit, InvNext, PTL DEF Spec

LEMMA OnceInit == Init => WorkInv /\ OnceInv
<1> SUFFICES ASSUME Init PROVE WorkInv /\ OnceInv
  OBVIOUS
<1>1. WorkInv
  BY DEF Init, WorkInv, ManagerThreads
<1>2. ASSUME NEW e \in Events PROVE Count(e) = 0
  <2>1. Places(inbox, e) = {} /\ heard[e] = 0
    BY DEF Init, Places
  <2>2. QED
    BY <2>1, FS_EmptySet DEF Count, Copies
<1>3. Cardinality(inits) = 0
  BY FS_EmptySet DEF Init
<1>4. QED
  BY <1>1, <1>2, <1>3 DEF OnceInv

LEMMA OnceHolds == Spec => [](Inv /\ OnceInv)
<1>1. Init => Inv /\ WorkInv /\ OnceInv
  BY InvInit, OnceInit
<1>2. Inv /\ WorkInv /\ OnceInv /\ [Next]_vars => (Inv /\ WorkInv /\ OnceInv)'
  <2> SUFFICES ASSUME Inv, WorkInv, OnceInv, [Next]_vars PROVE (Inv /\ WorkInv /\ OnceInv)'
    OBVIOUS
  <2>1. Inv' /\ TypeOK' /\ TypeOK /\ PlaceInv /\ CountInv
    BY InvNext DEF Inv
  <2>2. QED
    BY <2>1, WorkStep, OnceStep
<1>3. QED
  BY <1>1, <1>2, PTL DEF Spec

(* The variables have their types in every reachable state: no more        *)
(* handlers are registered with the bus than there are client threads      *)
(* (rdkStorage_init and the unlocked flag of the client library), and what *)
(* main and the servers work for is always something.                      *)
THEOREM TypeCorrect == Spec => []TypeOK
<1>1. Inv => TypeOK
  BY DEF Inv
<1>2. QED
  BY <1>1, InvHolds, PTL

(* The daemon calls a pointer that nobody set only if getInstance made two *)
(* managers (rdkStorageMain.cpp) or a medium found itself unfit while it   *)
(* was populated, before its callback is set (rdkStorageBase.cpp).         *)
THEOREM CrashNeedsUnsetPointerHolds == Spec => []CrashNeedsUnsetPointer
<1>1. Inv => CrashNeedsUnsetPointer
  BY DEF Inv
<1>2. QED
  BY <1>1, InvHolds, PTL

(* Whatever the manager announces while a client has its handlers and its  *)
(* callback registered is on its way to that callback, unless a second     *)
(* manager was made (notifyEvent, stmgr_eventCallback and                  *)
(* _stmgr_deviceCallback).                                                 *)
THEOREM AnnouncedIsOnItsWayHolds == Spec => []AnnouncedIsOnItsWay
<1>1. Inv => AnnouncedIsOnItsWay
  BY DEF Inv, OwedInv
<1>2. QED
  BY <1>1, InvHolds, PTL

(* A client that was told of a device and asks for the list finds it       *)
(* there, unless it was pulled out meanwhile, and an answer names only     *)
(* what was in the table at some moment of its call: addNewMemoryDevice    *)
(* announces after it lists, the handlers answer from the table.           *)
THEOREM HeardIsListedHolds == Spec => []HeardIsListed
<1>1. Inv => HeardIsListed
  BY DEF Inv, AnswerInv, HeardIsListed
<1>2. QED
  BY <1>1, InvHolds, PTL

(* An event is heard no more often than there were threads that found the  *)
(* client library uninitialised at the same time, and only after what it   *)
(* tells of has happened (rdkStorage_init of the client library, notifyEvent). *)
THEOREM HeardOnceHolds == Spec => []HeardOnce
<1>1. TypeOK /\ OnceInv => HeardOnce
  <2> SUFFICES ASSUME TypeOK, OnceInv, NEW e \in Events
               PROVE  LET n == heard[e] + Cardinality({k \in DOMAIN inbox : inbox[k] = e})
                      IN  /\ n <= Cardinality(inits)
                          /\ n > 0 => CASE e.what = "added"   -> plugged[e.dev] # "never"
                                        [] e.what = "removed" -> plugged[e.dev] = "out"
                                        [] OTHER -> e.dev \in unfit
    BY DEF HeardOnce
  <2>1. Count(e) = heard[e] + Cardinality({k \in DOMAIN inbox : inbox[k] = e})
    BY DEF Count, Copies, Places
  <2>2. Count(e) <= Cardinality(inits) /\ (Count(e) > 0 => ~NotYet(e))
    BY DEF OnceInv
  <2>3. ~NotYet(e) => CASE e.what = "added"   -> plugged[e.dev] # "never"
                        [] e.what = "removed" -> plugged[e.dev] = "out"
                        [] OTHER -> e.dev \in unfit
    BY DEF NotYet
  <2>4. QED
    BY <2>1, <2>2, <2>3
<1>2. Inv => TypeOK
  BY DEF Inv
<1>3. QED
  BY <1>1, <1>2, OnceHolds, PTL

-----------------------------------------------------------------------------
(* No call is forgotten.                                                   *)

LEMMA KeptStep == TypeOK /\ PlaceInv /\ QueueInv /\ ServeInv /\ NoCallIsForgotten /\ [Next]_vars
                    => NoCallIsForgotten'
<1> SUFFICES ASSUME TypeOK, PlaceInv, QueueInv, ServeInv, NoCallIsForgotten, [Next]_vars
             PROVE  NoCallIsForgotten'
  OBVIOUS
<1>1. /\ Main \notin Servers /\ Servers \subseteq ManagerThreads
      /\ queue \in Seq(Clients) /\ cpc \in [Clients -> ClientPCs]
      /\ pc \in [ManagerThreads -> ManagerPCs]
      /\ work \in [ManagerThreads -> Clients \cup Events \cup {None}]
  BY StorageRPCAssumption DEF ManagerThreads, TypeOK
<1>2. ASSUME UNCHANGED <<queue, cpc>>, crashed => crashed',
             \A m \in Servers : pc'[m] # "idle" <=> pc[m] # "idle",
             \A m \in Servers : work'[m] = work[m]
      PROVE  NoCallIsForgotten'
  BY <1>2 DEF NoCallIsForgotten
<1>3. CASE MainSide
  <2>1. crashed => crashed'
    BY <1>3 DEF MainSide, MainStep, RegisterCall, BeginRegistration, SetCallback, Insert, Announce,
                Populate, Erase, Construct, ReturnInstance
  <2>2. QED
    BY <1>2, <1>3, <2>1, MainSideKeeps, MainSideServers
<1>4. ASSUME NEW m \in Servers, Dispatch(m) PROVE NoCallIsForgotten'
  <2>1. PICK c \in Clients : c = Head(queue)
    BY <1>1, <1>4, ToSetTail DEF Dispatch
  <2>2. /\ pc[m] = "idle" /\ ~crashed' /\ ~crashed /\ queue' = Tail(queue) /\ queue # <<>>
        /\ cpc' = [cpc EXCEPT ![c] = "served"] /\ work' = [work EXCEPT ![m] = c]
    BY <1>4, <2>1 DEF Dispatch
  <2>3. pc'[m] # "idle" /\ \A n \in Servers : n # m => pc'[n] = pc[n]
    BY <1>1, <1>4 DEF Dispatch, Look, Then
  <2>4. ASSUME NEW x \in Clients, cpc'[x] = "wait" PROVE x \in ToSet(queue')
    BY <1>1, <2>1, <2>2, <2>4, ToSetTail DEF NoCallIsForgotten
  <2>5. ASSUME NEW x \in Clients, cpc'[x] = "served"
        PROVE  \E n \in Servers : pc'[n] # "idle" /\ work'[n] = x
    <3>1. CASE x = c
      BY <1>1, <2>2, <2>3, <3>1
    <3>2. CASE x # c
      <4>1. PICK n \in Servers : pc[n] # "idle" /\ work[n] = x
        BY <1>1, <2>2, <2>5, <3>2 DEF NoCallIsForgotten
      <4>2. QED
        BY <1>1, <2>2, <2>3, <4>1
    <3>3. QED
      BY <3>1, <3>2
  <2>6. QED
    BY <2>4, <2>5 DEF NoCallIsForgotten
<1>5. ASSUME NEW m \in Servers, Handle(m) PROVE NoCallIsForgotten'
  <2>1. PICK c \in Clients : c = work[m]
    BY <1>5 DEF Handle, PlaceInv
  <2>2. /\ ~crashed /\ UNCHANGED <<queue, crashed>> /\ cpc' = [cpc EXCEPT ![c] = "done"]
        /\ pc' = [pc EXCEPT ![m] = "idle"] /\ work' = [work EXCEPT ![m] = None]
    BY <1>5, <2>1 DEF Handle, busVars
  <2>3. ASSUME NEW x \in Clients, cpc'[x] = "served"
        PROVE  \E n \in Servers : pc'[n] # "idle" /\ work'[n] = x
    <3>1. x # c /\ cpc[x] = "served"
      BY <1>1, <2>2, <2>3
    <3>2. PICK n \in Servers : pc[n] # "idle" /\ work[n] = x
      BY <2>2, <3>1 DEF NoCallIsForgotten
    <3>3. n # m
      BY <2>1, <3>1, <3>2
    <3>4. QED
      BY <1>1, <2>2, <3>2, <3>3
  <2>4. \A x \in Clients : cpc'[x] = "wait" => cpc[x] = "wait"
    BY <1>1, <2>2
  <2>5. QED
    BY <2>2, <2>3, <2>4 DEF NoCallIsForgotten
<1>6. ASSUME NEW m \in Servers, Construct(m) \/ ReturnInstance(m) PROVE NoCallIsForgotten'
  <2>1. /\ UNCHANGED <<queue, cpc, crashed, work>> /\ pc[m] # "idle"
        /\ \E at \in {"reread", "handle"} : pc' = [pc EXCEPT ![m] = at]
    BY <1>1, <1>6 DEF Construct, ReturnInstance, Then, busVars, callVars
  <2>2. \A n \in Servers : pc'[n] # "idle" <=> pc[n] # "idle"
    BY <1>1, <2>1
  <2>3. QED
    BY <1>2, <2>1, <2>2
<1>7. ASSUME NEW c \in Clients, Send(c) PROVE NoCallIsForgotten'
  <2>1. UNCHANGED <<crashed, pc, work>> /\ cpc[c] = "send"
    BY <1>7 DEF Send, managerVars
  <2>2. CASE queue' = Append(queue, c) /\ cpc' = [cpc EXCEPT ![c] = "wait"]
    <3>1. ToSet(queue) \subseteq ToSet(queue') /\ c \in ToSet(queue')
      <4>1. PICK n : n = Len(queue)
        OBVIOUS
      <4>2. n \in Nat /\ DOMAIN queue = 1..n
        BY <1>1, <4>1, LenProperties
      <4>3. /\ DOMAIN queue' = 1..(n + 1) /\ queue'[n + 1] = c
            /\ \A k \in 1..n : queue'[k] = queue[k]
        BY <1>1, <2>2, <4>1, AppendProperties, LenProperties
      <4>4. QED
        BY <4>2, <4>3 DEF ToSet
    <3>2. QED
      BY <1>1, <2>1, <2>2, <3>1 DEF NoCallIsForgotten
  <2>3. CASE queue' = queue /\ cpc' = [cpc EXCEPT ![c] = "done"]
    BY <1>1, <2>1, <2>3 DEF NoCallIsForgotten
  <2>4. QED
    BY <1>7, <2>2, <2>3 DEF Send, IARMFails
<1>8. ASSUME NEW c \in Clients, LoseCall(c) PROVE NoCallIsForgotten'
  <2>1. UNCHANGED <<crashed, pc, work>> /\ cpc' = [cpc EXCEPT ![c] = "done"]
    BY <1>8 DEF LoseCall, IARMFails, managerVars
  <2>2. ASSUME NEW x \in Clients, x # c, x \in ToSet(queue) PROVE x \in ToSet(queue')
    <3>1. CASE queue' = queue
      BY <2>2, <3>1
    <3>2. ASSUME NEW k \in 1..Len(queue), queue[k] = c, queue' = RemoveAt(queue, k)
          PROVE  x \in ToSet(queue')
      <4>1. /\ queue' \in Seq(Clients) /\ Len(queue') = Len(queue) - 1 /\ Len(queue) \in Nat
            /\ \A i \in 1..(Len(queue) - 1) :
                 queue'[i] = IF i < k THEN queue[i] ELSE queue[i + 1]
        BY <1>1, <3>2, RemoveAtProperties
      <4>2. DOMAIN queue' = 1..Len(queue') /\ DOMAIN queue = 1..Len(queue)
        BY <1>1, <4>1, LenProperties
      <4>3. PICK j \in 1..Len(queue) : queue[j] = x
        BY <2>2, <4>2 DEF ToSet
      <4>4. PICK i : i = IF j < k THEN j ELSE j - 1
        OBVIOUS
      <4>5. j # k
        BY <2>2, <3>2, <4>3
      <4>6. i \in 1..Len(queue') /\ queue'[i] = queue[j]
        BY <4>1, <4>4, <4>5
      <4>7. QED
        BY <4>2, <4>3, <4>6 DEF ToSet
    <3>3. QED
      BY <1>8, <3>1, <3>2 DEF LoseCall
  <2>3. \A x \in Clients : cpc'[x] \in {"wait", "served"} => x # c /\ cpc'[x] = cpc[x]
    BY <1>1, <2>1
  <2>4. QED
    BY <2>1, <2>2, <2>3 DEF NoCallIsForgotten
<1>9. ASSUME NEW c \in Clients, NEW r \in Request,
             Begin(c, r) \/ SetFlag(c) \/ RegisterHandlers(c) \/ Return(c)
      PROVE  NoCallIsForgotten'
  <2>1. /\ UNCHANGED <<queue, crashed, pc, work>>
        /\ \A x \in Clients : cpc'[x] \in {"wait", "served"} => cpc'[x] = cpc[x]
    BY <1>1, <1>9 DEF Begin, SetFlag, RegisterHandlers, Return, busVars, managerVars
  <2>2. QED
    BY <2>1 DEF NoCallIsForgotten
<1>10. CASE RegisterEventCallback \/ DeviceCallback \/ UNCHANGED vars
  BY <1>2, <1>10 DEF RegisterEventCallback, DeviceCallback, vars, busVars, managerVars, callVars
<1>11. SomeRequest \in Request
  BY DEF SomeRequest, Request
<1>12. QED
  BY <1>3, <1>4, <1>5, <1>6, <1>7, <1>8, <1>9, <1>10, <1>11, Sides
  DEF ServerSide, ClientSide, ServerStep, ClientStep

(* The daemon as long as it lives forgets no call: what waits is in the    *)
(* queue, what was handed over some server works on, whatever others start *)
(* and give up meanwhile (the handlers of rdkStorageMgr_iarm_internal.cpp, *)
(* IARM_Bus_Call in rdkStorageMgr_iarm_external.cpp).                      *)
THEOREM NoCallIsForgottenHolds == Spec => []NoCallIsForgotten
<1>1. Init => NoCallIsForgotten
  BY DEF Init, NoCallIsForgotten
<1>2. Inv => TypeOK /\ PlaceInv /\ QueueInv /\ ServeInv
  BY DEF Inv
<1>3. QED
  BY <1>1, <1>2, InvHolds, KeptStep, PTL DEF Spec
-----------------------------------------------------------------------------
(* Liveness.  The prover knows nothing of ENABLED: that nobody waits for    *)
(* anything but the bus is WaitingIsForTheBusOnly, which TLC checks.  Nor   *)
(* does it know induction over temporal formulas: that what comes nearer    *)
(* and nearer to the head of a queue leaves it is a hypothesis              *)
(* (QueueDescends for the calls, InboxDescends for the events); that it     *)
(* comes nearer is proved.                                                  *)

FairRun == FairSpec /\ []WaitingIsForTheBusOnly

Safe == Inv /\ NoCallIsForgotten

CanServe(m)  == ENABLED <<ServerGoesOn(m)>>_vars
CanGoOn(c)   == ENABLED <<ClientGoesOn(c)>>_vars
CanDispatch  == ENABLED <<DeviceCallback>>_vars

LEMMA SafeRun == FairRun => []Safe /\ [][Next]_vars
  BY InvHolds, NoCallIsForgottenHolds, PTL DEF FairRun, FairSpec, Spec, Safe

\* Fairness, and what may be waited for, thread by thread.
LEMMA ServerIsFair ==
  ASSUME NEW m \in Servers
  PROVE  /\ FairRun => FairToServer(m)
         /\ WaitingIsForTheBusOnly => (~crashed /\ (pc[m] # "idle" \/ queue # <<>>) => CanServe(m))
<1>1. FairToServers => FairToServer(m)
  BY DEF FairToServers
<1>2. FairRun => FairToServer(m)
  BY <1>1, PTL DEF FairRun, FairSpec, Fairness
<1>3. WaitingIsForTheBusOnly => ServerWaitsForCallsOnly(m)
  BY DEF WaitingIsForTheBusOnly
<1>4. ServerWaitsForCallsOnly(m) => (~crashed /\ (pc[m] # "idle" \/ queue # <<>>) => CanServe(m))
  BY DEF ServerWaitsForCallsOnly, CanServe
<1> QED
  BY <1>2, <1>3, <1>4

LEMMA ClientIsFair ==
  ASSUME NEW c \in Clients
  PROVE  /\ FairRun => FairToClient(c)
         /\ WaitingIsForTheBusOnly =>
              (cpc[c] # "idle" /\ (cpc[c] \in {"wait", "served"} => crashed) => CanGoOn(c))
<1>1. FairToClients => FairToClient(c)
  BY DEF FairToClients
<1>2. FairRun => FairToClient(c)
  BY <1>1, PTL DEF FairRun, FairSpec, Fairness
<1>3. WaitingIsForTheBusOnly => ClientWaitsForTheDaemonOnly(c)
  BY DEF WaitingIsForTheBusOnly
<1>4. ClientWaitsForTheDaemonOnly(c) =>
        (cpc[c] # "idle" /\ (cpc[c] \in {"wait", "served"} => crashed) => CanGoOn(c))
  BY DEF ClientWaitsForTheDaemonOnly, CanGoOn
<1> QED
  BY <1>2, <1>3, <1>4

\* Where the next step of a call, anybody's, can take it,
ClientAfter ==
  [l \in ClientPCs |-> CASE l = "idle"     -> {"setFlag", "send"}
                         [] l = "setFlag"  -> {"handlers"}
                         [] l = "handlers" -> {"send", "idle"}
                         [] l = "send"     -> {"wait", "done"}
                         [] l = "wait"     -> {"served", "done"}
                         [] l = "served"   -> {"done"}
                         [] l = "done"     -> {"idle"}]

\* which is the client's own step, or the daemon's answering the call.
LEMMA CallMoves ==
  ASSUME Safe, [Next]_vars, NEW c \in Clients
  PROVE  /\ cpc'[c] = cpc[c] \/ cpc'[c] \in ClientAfter[cpc[c]]
         /\ crashed => crashed' /\ (cpc[c] = "wait" => cpc'[c] # "served")
<1>1. /\ Main \notin Servers /\ Servers \subseteq ManagerThreads
      /\ queue \in Seq(Clients) /\ cpc \in [Clients -> ClientPCs] /\ cpc[c] \in ClientPCs
  BY StorageRPCAssumption DEF ManagerThreads, Safe, Inv, TypeOK
<1> USE DEF ClientAfter
<1>2. CASE MainSide
  <2>1. crashed => crashed'
    BY <1>2 DEF MainSide, MainStep, RegisterCall, BeginRegistration, SetCallback, Insert, Announce,
                Populate, Erase, Construct, ReturnInstance
  <2> QED
    BY <1>2, <2>1, MainSideKeeps
<1>3. ASSUME NEW m \in Servers, Dispatch(m)
      PROVE  /\ cpc'[c] = cpc[c] \/ (cpc[c] = "wait" /\ cpc'[c] = "served")
             /\ ~crashed
  <2>1. queue # <<>> /\ cpc' = [cpc EXCEPT ![Head(queue)] = "served"] /\ ~crashed
    BY <1>3 DEF Dispatch
  <2>2. 1 \in 1..Len(queue) /\ Head(queue) = queue[1]
    BY <1>1, <2>1, HeadTailProperties, EmptySeq
  <2>3. cpc[Head(queue)] = "wait"
    BY <2>2 DEF Safe, Inv, QueueInv
  <2> QED
    BY <1>1, <2>1, <2>3
<1>4. ASSUME NEW m \in Servers, Handle(m)
      PROVE  /\ cpc'[c] = cpc[c] \/ (cpc[c] = "served" /\ cpc'[c] = "done")
             /\ ~crashed
  <2>1. pc[m] = "handle" /\ ~crashed /\ cpc' = [cpc EXCEPT ![work[m]] = "done"]
    BY <1>4 DEF Handle
  <2>2. cpc[work[m]] = "served"
    BY <2>1 DEF Safe, Inv, ServeInv
  <2> QED
    BY <1>1, <2>1, <2>2
<1>5. ASSUME NEW m \in Servers, Construct(m) \/ ReturnInstance(m)
      PROVE  cpc' = cpc /\ crashed' = crashed
  BY <1>5 DEF Construct, ReturnInstance, callVars
<1>6. ASSUME NEW a \in Clients, SetFlag(a) \/ RegisterHandlers(a) \/ Send(a) \/ Return(a)
      PROVE  /\ cpc'[c] = cpc[c] \/ cpc'[c] \in ClientAfter[cpc[c]]
             /\ crashed' = crashed /\ (cpc[c] = "wait" => cpc'[c] # "served")
  BY <1>1, <1>6 DEF SetFlag, RegisterHandlers, Send, Return, IARMFails, managerVars
<1>7. ASSUME NEW a \in Clients, LoseCall(a)
      PROVE  /\ cpc'[c] = cpc[c] \/ cpc'[c] \in ClientAfter[cpc[c]]
             /\ crashed' = crashed /\ (cpc[c] = "wait" => cpc'[c] # "served")
  BY <1>1, <1>7 DEF LoseCall, IARMFails, managerVars
<1>8. ASSUME NEW a \in Clients, NEW r \in Request, Begin(a, r)
      PROVE  /\ cpc'[c] = cpc[c] \/ cpc'[c] \in ClientAfter[cpc[c]]
             /\ crashed' = crashed /\ (cpc[c] = "wait" => cpc'[c] # "served")
  BY <1>1, <1>8 DEF Begin, managerVars
<1>9. CASE RegisterEventCallback \/ DeviceCallback \/ UNCHANGED vars
  BY <1>9 DEF RegisterEventCallback, DeviceCallback, vars, managerVars, callVars
<1>10. ASSUME NEW m \in Servers, ServerStep(m) \/ Construct(m) \/ ReturnInstance(m)
       PROVE  /\ cpc'[c] = cpc[c] \/ cpc'[c] \in ClientAfter[cpc[c]]
              /\ crashed => crashed' /\ (cpc[c] = "wait" => cpc'[c] # "served")
  <2>1. CASE Dispatch(m)
    BY <1>1, <1>3, <2>1
  <2>2. CASE Handle(m)
    BY <1>1, <1>4, <2>2
  <2>3. CASE Construct(m) \/ ReturnInstance(m)
    BY <1>5, <2>3
  <2> QED
    BY <1>10, <2>1, <2>2, <2>3 DEF ServerStep
<1> QED
  BY <1>2, <1>6, <1>7, <1>8, <1>9, <1>10, Sides DEF ServerSide, ClientSide, ClientStep

LEMMA OwnCallMoves ==
  ASSUME Safe, NEW c \in Clients, ClientGoesOn(c)
  PROVE  cpc'[c] \in ClientAfter[cpc[c]] /\ cpc[c] # "idle" /\ cpc'[c] # "served"
<1>1. cpc \in [Clients -> ClientPCs]
  BY DEF Safe, Inv, TypeOK
<1> QED
  BY <1>1 DEF ClientGoesOn, ClientStep, SetFlag, RegisterHandlers, Send, Return, LoseCall, IARMFails,
              ClientAfter, ClientPCs

\* The same of a server; what it has in hand it keeps until it has answered.
ServerAfter ==
  [l \in {"idle", "construct", "reread", "handle"} |->
     CASE l = "idle"      -> {"construct", "handle"}
       [] l = "construct" -> {"reread"}
       [] l = "reread"    -> {"handle"}
       [] l = "handle"    -> {"idle"}]

LEMMA ServerMoves ==
  ASSUME Safe, NEW m \in Servers, ServerGoesOn(m)
  PROVE  /\ pc'[m] \in ServerAfter[pc[m]]
         /\ pc[m] = "idle" => Dispatch(m)
         /\ pc[m] \in {"construct", "reread"} => work' = work
         /\ pc[m] = "handle" => cpc'[work[m]] = "done"
<1>1. /\ m # Main /\ m \in ManagerThreads
      /\ pc \in [ManagerThreads -> ManagerPCs] /\ cpc \in [Clients -> ClientPCs]
      /\ pc[m] \in {"idle", "construct", "reread", "handle"}
      /\ pc[m] # "idle" => work[m] \in Clients
  BY StorageRPCAssumption DEF ManagerThreads, Safe, Inv, TypeOK, PlaceInv
<1> USE DEF ServerAfter, Then
<1>2. CASE Dispatch(m)
  BY <1>1, <1>2 DEF Dispatch, Look
<1>3. CASE Handle(m)
  <2>1. /\ pc[m] = "handle" /\ pc' = [pc EXCEPT ![m] = "idle"]
        /\ cpc' = [cpc EXCEPT ![work[m]] = "done"]
    BY <1>3 DEF Handle
  <2> QED
    BY <1>1, <2>1
<1>4. CASE Construct(m)
  BY <1>1, <1>4 DEF Construct
<1>5. CASE ReturnInstance(m)
  BY <1>1, <1>5 DEF ReturnInstance
<1> QED
  BY <1>2, <1>3, <1>4, <1>5 DEF ServerGoesOn, ServerStep, GetInstance

LEMMA ServerStays ==
  ASSUME Safe, [Next]_vars, NEW m \in Servers
  PROVE  ServerGoesOn(m) \/ (pc'[m] = pc[m] /\ work'[m] = work[m])
<1>1. /\ m # Main /\ m \in ManagerThreads /\ Servers \subseteq ManagerThreads
      /\ pc \in [ManagerThreads -> ManagerPCs]
      /\ work \in [ManagerThreads -> Clients \cup Events \cup {None}]
  BY StorageRPCAssumption DEF ManagerThreads, Safe, Inv, TypeOK
<1>2. CASE MainSide
  BY <1>2, MainSideServers DEF Safe, Inv
<1>3. ASSUME NEW n \in Servers, ServerStep(n) \/ Construct(n) \/ ReturnInstance(n), n # m
      PROVE  pc'[m] = pc[m] /\ work'[m] = work[m]
  BY <1>1, <1>3 DEF ServerStep, Dispatch, Handle, Construct, ReturnInstance, Look
<1>4. CASE ClientSide \/ UNCHANGED vars
  BY <1>4, ClientSideKeeps DEF managerVars, vars
<1> QED
  BY <1>2, <1>3, <1>4, Sides DEF ServerSide, ServerGoesOn, GetInstance

\* x is among the first n in the queue s; it is nobody's head only if n = 0,
Within(s, x, n) == \E i \in 1..n : i <= Len(s) /\ s[i] = x

\* it comes nearer when the head leaves,
LEMMA WithinTail ==
  ASSUME NEW S, NEW s \in Seq(S), s # <<>>, NEW x, NEW n \in Nat, Within(s, x, n + 1), Head(s) # x
  PROVE  Within(Tail(s), x, n)
<1>1. /\ Len(s) \in Nat /\ Head(s) = s[1]
      /\ Len(Tail(s)) = Len(s) - 1 /\ \A i \in 1..Len(Tail(s)) : Tail(s)[i] = s[i + 1]
  BY HeadTailProperties, LenProperties, EmptySeq
<1>2. PICK i \in 1..(n + 1) : i <= Len(s) /\ s[i] = x
  BY DEF Within
<1>3. i - 1 \in 1..n /\ i - 1 <= Len(Tail(s)) /\ i - 1 \in 1..Len(Tail(s)) /\ (i - 1) + 1 = i
  BY <1>1, <1>2
<1>4. Tail(s)[i - 1] = x
  BY <1>1, <1>2, <1>3
<1> QED
  BY <1>3, <1>4 DEF Within

\* keeps its place when something comes to the end,
LEMMA WithinLonger ==
  ASSUME NEW S, NEW s \in Seq(S), NEW t \in Seq(S), NEW x, NEW n \in Nat, Within(s, x, n)
  PROVE  Within(s \o t, x, n)
<1>1. PICK i \in 1..n : i <= Len(s) /\ s[i] = x
  BY DEF Within
<1>2. /\ Len(s) \in Nat /\ Len(t) \in Nat /\ Len(s \o t) = Len(s) + Len(t)
      /\ \A k \in 1..(Len(s) + Len(t)) : (s \o t)[k] = IF k <= Len(s) THEN s[k] ELSE t[k - Len(s)]
  BY ConcatProperties, LenProperties
<1>3. i <= Len(s \o t) /\ (s \o t)[i] = x
  BY <1>1, <1>2
<1> QED
  BY <1>3 DEF Within

LEMMA WithinAppend ==
  ASSUME NEW S, NEW s \in Seq(S), NEW y \in S, NEW x, NEW n \in Nat, Within(s, x, n)
  PROVE  Within(Append(s, y), x, n)
<1>1. PICK i \in 1..n : i <= Len(s) /\ s[i] = x
  BY DEF Within
<1>2. /\ Len(s) \in Nat /\ Len(Append(s, y)) = Len(s) + 1
      /\ \A k \in 1..Len(s) : Append(s, y)[k] = s[k]
  BY AppendProperties, LenProperties
<1>3. i <= Len(Append(s, y)) /\ Append(s, y)[i] = x
  BY <1>1, <1>2
<1> QED
  BY <1>3 DEF Within

\* and does not fall back when another one is taken out.
LEMMA WithinRemoved ==
  ASSUME NEW S, NEW s \in Seq(S), NEW k \in 1..Len(s), NEW x, s[k] # x, NEW n \in Nat, Within(s, x, n)
  PROVE  Within(RemoveAt(s, k), x, n)
<1>1. PICK i \in 1..n : i <= Len(s) /\ s[i] = x
  BY DEF Within
<1>2. PICK t : t = RemoveAt(s, k)
  OBVIOUS
<1>3. /\ Len(s) \in Nat /\ Len(t) = Len(s) - 1
      /\ \A j \in 1..(Len(s) - 1) : t[j] = IF j < k THEN s[j] ELSE s[j + 1]
  BY <1>2, RemoveAtProperties
<1>4. CASE i < k
  <2>1. i \in 1..(Len(s) - 1) /\ t[i] = x
    BY <1>1, <1>3, <1>4
  <2> QED
    BY <1>2, <1>3, <2>1 DEF Within
<1>5. CASE i > k
  <2>1. i - 1 \in 1..(Len(s) - 1) /\ ~(i - 1 < k) /\ (i - 1) + 1 = i /\ i - 1 \in 1..n
    BY <1>1, <1>3, <1>5
  <2>2. t[i - 1] = x
    BY <1>1, <1>3, <2>1
  <2> QED
    BY <1>2, <1>3, <2>1, <2>2 DEF Within
<1> QED
  BY <1>1, <1>3, <1>4, <1>5

LEMMA WithinSome ==
  ASSUME NEW S, NEW s \in Seq(S), NEW x \in ToSet(s)
  PROVE  \E n \in Nat : Within(s, x, n)
<1>1. Len(s) \in Nat /\ DOMAIN s = 1..Len(s)
  BY LenProperties
<1>2. PICK i \in DOMAIN s : s[i] = x
  BY DEF ToSet
<1>3. i \in Nat /\ Within(s, x, i)
  BY <1>1, <1>2 DEF Within
<1> QED
  BY <1>3

\* c is among the next n that IARM has a server for, or somebody saw to it.
Waits(c, n) == cpc[c] = "wait" /\ Within(queue, c, n)
SeenTo(c)   == crashed \/ cpc[c] = "served" \/ cpc[c] = "done"

LEMMA WaitersStay ==
  ASSUME Safe, [Next]_vars, NEW c \in Clients, NEW n \in Nat, Waits(c, n)
  PROVE  Waits(c, n)' \/ SeenTo(c)'
<1>1. /\ Main \notin Servers /\ queue \in Seq(Clients) /\ cpc \in [Clients -> ClientPCs]
      /\ cpc[c] = "wait" /\ Within(queue, c, n)
  BY StorageRPCAssumption DEF Waits, Safe, Inv, TypeOK
<1>2. cpc'[c] \in {"wait", "served", "done"}
  BY <1>1, CallMoves DEF ClientAfter
<1>3. SUFFICES ASSUME cpc'[c] = "wait" PROVE Within(queue', c, n)
  BY <1>2 DEF Waits, SeenTo
<1>4. CASE queue' = queue
  BY <1>1, <1>4
<1>5. ASSUME NEW m \in Servers, Dispatch(m) PROVE Within(queue', c, n)
  <2>1. /\ queue # <<>> /\ queue' = Tail(queue)
        /\ cpc' = [cpc EXCEPT ![Head(queue)] = "served"]
    BY <1>5 DEF Dispatch
  <2>2. Head(queue) # c
    BY <1>1, <1>3, <2>1
  <2>3. PICK i \in 1..n : i <= Len(queue) /\ queue[i] = c
    BY <1>1 DEF Within
  <2>4. n - 1 \in Nat /\ (n - 1) + 1 = n
    BY <2>3
  <2>5. Within(queue, c, (n - 1) + 1) /\ queue \in Seq(Clients)
    BY <1>1, <2>4
  <2>6. Within(Tail(queue), c, n - 1)
    BY <2>1, <2>2, <2>4, <2>5, WithinTail
  <2>7. Within(queue', c, n - 1)
    BY <2>1, <2>6
  <2> QED
    BY <2>4, <2>7 DEF Within
<1>6. ASSUME NEW a \in Clients, Send(a) PROVE Within(queue', c, n)
  <2>1. queue' = queue \/ queue' = Append(queue, a)
    BY <1>6 DEF Send
  <2>2. Within(Append(queue, a), c, n)
    <3>1. queue \in Seq(Clients) /\ Within(queue, c, n)
      BY <1>1
    <3> QED
      BY <3>1, WithinAppend
  <2>3. CASE queue' = queue
    BY <1>4, <2>3
  <2>4. CASE queue' = Append(queue, a)
    BY <2>2, <2>4
  <2> QED
    BY <2>1, <2>3, <2>4
<1>7. ASSUME NEW a \in Clients, LoseCall(a) PROVE Within(queue', c, n)
  <2>1. a # c
    BY <1>1, <1>3, <1>7 DEF LoseCall, IARMFails
  <2>2. CASE queue' # queue
    <3>1. PICK k \in 1..Len(queue) : queue[k] = a /\ queue' = RemoveAt(queue, k)
      BY <1>7, <2>2 DEF LoseCall
    <3>2. queue \in Seq(Clients) /\ Within(queue, c, n) /\ queue[k] # c
      BY <1>1, <2>1, <3>1
    <3>3. Within(RemoveAt(queue, k), c, n)
      BY <3>2, WithinRemoved
    <3> QED
      BY <3>1, <3>3
  <2> QED
    BY <1>4, <2>2
<1>8. CASE MainSide
  BY <1>4, <1>8, MainSideKeeps
<1>9. ASSUME NEW m \in Servers, Handle(m) \/ Construct(m) \/ ReturnInstance(m) PROVE queue' = queue
  BY <1>9 DEF Handle, Construct, ReturnInstance, busVars
<1>10. ASSUME NEW a \in Clients, SetFlag(a) \/ RegisterHandlers(a) \/ Return(a) PROVE queue' = queue
  BY <1>10 DEF SetFlag, RegisterHandlers, Return, busVars
<1>11. ASSUME NEW a \in Clients, NEW r \in Request, Begin(a, r) PROVE queue' = queue
  BY <1>11 DEF Begin, busVars
<1>12. CASE RegisterEventCallback \/ DeviceCallback \/ UNCHANGED vars
  BY <1>4, <1>12 DEF RegisterEventCallback, DeviceCallback, vars, busVars
<1> QED
  BY <1>4, <1>5, <1>6, <1>7, <1>8, <1>9, <1>10, <1>11, <1>12, Sides
     DEF ServerSide, ServerStep, ClientSide, ClientStep

LEMMA DispatchIsNearer ==
  ASSUME Safe, NEW m \in Servers, Dispatch(m), NEW c \in Clients, NEW n \in Nat, Waits(c, n + 1)
  PROVE  Waits(c, n)' \/ SeenTo(c)'
<1>1. queue \in Seq(Clients) /\ cpc \in [Clients -> ClientPCs]
  BY DEF Safe, Inv, TypeOK
<1>2. /\ queue # <<>> /\ queue' = Tail(queue)
      /\ cpc' = [cpc EXCEPT ![Head(queue)] = "served"]
  BY DEF Dispatch
<1>3. CASE Head(queue) = c
  BY <1>1, <1>2, <1>3 DEF SeenTo
<1>4. CASE Head(queue) # c
  <2>1. Within(queue, c, n + 1) /\ cpc'[c] = "wait"
    BY <1>1, <1>2, <1>4 DEF Waits
  <2>2. Within(Tail(queue), c, n)
    BY <1>1, <1>2, <1>4, <2>1, WithinTail
  <2> QED
    BY <1>2, <2>1, <2>2 DEF Waits
<1> QED
  BY <1>3, <1>4

\* Event e, announced to a listening client, is among its next n.
Comes(e, n) == e \in owed /\ Within(inbox, e, n)

LEMMA PostKeepsPlaces ==
  ASSUME TypeOK, NEW p, NEW f \in Events, Post(p, f), NEW e, NEW n \in Nat, Within(inbox, e, n)
  PROVE  Within(inbox', e, n)
<1>1. inbox \in Seq(Events) /\ handlers \in Nat
  BY FS_CardinalityType, StorageRPCAssumption DEF TypeOK
<1>2. PICK t : t = [k \in 1..handlers |-> f]
  OBVIOUS
<1>3. t \in Seq(Events)
  BY <1>1, <1>2
<1>4. inbox' = inbox \o t \/ inbox' = inbox
  BY <1>2 DEF Post
<1>5. Within(inbox \o t, e, n)
  BY <1>1, <1>3, WithinLonger
<1> QED
  BY <1>4, <1>5

LEMMA EventsStay ==
  ASSUME Safe, [Next]_vars, NEW e \in Events, NEW n \in Nat, Comes(e, n)
  PROVE  \/ DeviceCallback
         \/ Comes(e, n)' \/ (e \notin owed)'
<1>1. TypeOK /\ Within(inbox, e, n)
  BY DEF Safe, Inv, Comes
<1>2. CASE Announce
  <2>1. work[Main] \in Events /\ Post(pointer[inst[Main]], work[Main])
    BY <1>2 DEF Announce, Safe, Inv, PlaceInv
  <2> QED
    BY <1>1, <2>1, PostKeepsPlaces DEF Comes
<1>3. ASSUME NEW d \in Devices, Populate(d) PROVE Comes(e, n)' \/ (e \notin owed)'
  <2>1. CASE UNCHANGED eventVars
    BY <1>1, <2>1 DEF eventVars, Comes
  <2>2. CASE ~UNCHANGED eventVars
    <3>1. [dev |-> d, what |-> "unfit"] \in Events
      BY DEF Events
    <3>2. PICK p \in Pointers : Post(p, [dev |-> d, what |-> "unfit"])
      BY <1>3, <2>2 DEF Populate
    <3> QED
      BY <1>1, <3>1, <3>2, PostKeepsPlaces DEF Comes
  <2> QED
    BY <2>1, <2>2
<1>4. CASE \/ RegisterCall \/ BeginRegistration \/ SetCallback \/ Insert
           \/ \E x \in Devices : Erase(x)
           \/ \E m \in ManagerThreads : Construct(m) \/ ReturnInstance(m)
           \/ \E m \in Servers : ServerStep(m)
           \/ \E c \in Clients : ClientStep(c) \/ LoseCall(c) \/ \E r \in Request : Begin(c, r)
           \/ RegisterEventCallback \/ UNCHANGED vars
  <2>1. UNCHANGED <<inbox, owed>>
    BY <1>4
    DEF RegisterCall, BeginRegistration, SetCallback, Insert, Erase, Construct, ReturnInstance,
        ServerStep, Dispatch, Handle, ClientStep, SetFlag, RegisterHandlers, Return, Send, LoseCall,
        Begin, RegisterEventCallback, vars, eventVars
  <2> QED
    BY <2>1 DEF Comes, Within
<1> QED
  BY <1>2, <1>3, <1>4 DEF Next, MainStep, GetInstance

LEMMA CallbackIsNearer ==
  ASSUME Safe, DeviceCallback, NEW e \in Events, NEW n \in Nat, Comes(e, n + 1)
  PROVE  Comes(e, n)' \/ (e \notin owed)'
<1>1. inbox \in Seq(Events) /\ callback
  BY DEF Safe, Inv, TypeOK, OwedInv, Comes
<1>2. inbox # <<>> /\ inbox' = Tail(inbox) /\ owed' = owed \ {Head(inbox)}
  BY <1>1 DEF DeviceCallback
<1>3. CASE Head(inbox) = e
  BY <1>2, <1>3
<1>4. CASE Head(inbox) # e
  <2>1. Within(inbox, e, n + 1) /\ e \in owed'
    BY <1>2, <1>4 DEF Comes
  <2>2. Within(Tail(inbox), e, n)
    BY <1>1, <1>2, <1>4, <2>1, WithinTail
  <2> QED
    BY <1>2, <2>1, <2>2 DEF Comes
<1> QED
  BY <1>3, <1>4

\* A client thread goes on, the daemon willing or not.
Leaves(c, l) == cpc[c] = l ~> cpc[c] \in ClientAfter[l]

LEMMA ClientLeaves ==
  ASSUME NEW c \in Clients, NEW l \in {"setFlag", "handlers", "send", "done"}
  PROVE  FairRun => Leaves(c, l)
<1> DEFINE P == cpc[c] = l
           Q == cpc[c] \in ClientAfter[l]
<1>1. Safe /\ [Next]_vars /\ P => P' \/ Q'
  BY CallMoves
<1>2. Safe /\ P /\ <<ClientGoesOn(c)>>_vars => Q'
  BY OwnCallMoves
<1>3. P => cpc[c] # "idle" /\ (cpc[c] \in {"wait", "served"} => crashed)
  OBVIOUS
<1>4. WaitingIsForTheBusOnly => (P => CanGoOn(c))
  BY <1>3, ClientIsFair
<1>5. FairRun => FairToClient(c)
  BY ClientIsFair
<1> QED
  BY <1>1, <1>2, <1>4, <1>5, SafeRun, PTL DEF FairRun, FairToClient, CanGoOn, Leaves

\* A call of a daemon that died comes back.
LEMMA CallsOfTheDeadReturn ==
  ASSUME NEW c \in Clients
  PROVE  FairRun => (crashed /\ (cpc[c] = "wait" \/ cpc[c] = "served") ~> cpc[c] = "done")
<1> DEFINE P == crashed /\ (cpc[c] = "wait" \/ cpc[c] = "served")
           Q == cpc[c] = "done"
<1>1. Safe /\ [Next]_vars /\ P => P' \/ Q'
  BY CallMoves DEF ClientAfter, ClientPCs
<1>2. Safe /\ P /\ <<ClientGoesOn(c)>>_vars => Q'
  BY OwnCallMoves DEF ClientAfter, ClientPCs
<1>3. P => cpc[c] # "idle" /\ (cpc[c] \in {"wait", "served"} => crashed)
  OBVIOUS
<1>4. WaitingIsForTheBusOnly => (P => CanGoOn(c))
  BY <1>3, ClientIsFair
<1>5. FairRun => FairToClient(c)
  BY ClientIsFair
<1> QED
  BY <1>1, <1>2, <1>4, <1>5, SafeRun, PTL DEF FairRun, FairToClient, CanGoOn

\* A server that has a call in hand answers it, if the daemon lives.
Serves(m, c)   == pc[m] # "idle" /\ work[m] = c
Answered(c)    == crashed \/ cpc[c] = "done"
ComesTo(m, c)  == Serves(m, c) ~> Answered(c)

InHand(m, c, l)        == pc[m] = l /\ work[m] = c
HandGoesOn(m, c, l, k) == InHand(m, c, l) ~> crashed \/ InHand(m, c, k)

LEMMA ServerAnswers ==
  ASSUME NEW m \in Servers, NEW c \in Clients
  PROVE  FairRun => ComesTo(m, c)
<1>1. ASSUME NEW l \in {"construct", "reread"}, NEW k, ServerAfter[l] = {k}
      PROVE  FairRun => HandGoesOn(m, c, l, k)
  <2> DEFINE P == InHand(m, c, l)
             Q == crashed \/ InHand(m, c, k)
  <2>1. Safe /\ [Next]_vars /\ P => P' \/ Q'
    BY <1>1, ServerMoves, ServerStays DEF InHand
  <2>2. Safe /\ P /\ <<ServerGoesOn(m)>>_vars => Q'
    BY <1>1, ServerMoves DEF InHand
  <2>3. P => Q \/ (~crashed /\ (pc[m] # "idle" \/ queue # <<>>))
    BY DEF InHand
  <2>4. WaitingIsForTheBusOnly => (P => Q \/ CanServe(m))
    BY <2>3, ServerIsFair
  <2>5. FairRun => FairToServer(m)
    BY ServerIsFair
  <2> HIDE DEF P, Q
  <2>6. FairRun => (P ~> Q)
    BY <2>1, <2>2, <2>4, <2>5, SafeRun, PTL DEF FairRun, FairToServer, CanServe
  <2> QED
    BY <2>6 DEF P, Q, HandGoesOn
<1>2. FairRun => (InHand(m, c, "handle") ~> Answered(c))
  <2> DEFINE P == InHand(m, c, "handle")
             Q == Answered(c)
  <2>1. Safe /\ [Next]_vars /\ P => P' \/ Q'
    BY ServerMoves, ServerStays DEF Answered, InHand
  <2>2. Safe /\ P /\ <<ServerGoesOn(m)>>_vars => Q'
    BY ServerMoves DEF Answered, InHand
  <2>3. P => Q \/ (~crashed /\ (pc[m] # "idle" \/ queue # <<>>))
    BY DEF Answered, InHand
  <2>4. WaitingIsForTheBusOnly => (P => Q \/ CanServe(m))
    BY <2>3, ServerIsFair
  <2>5. FairRun => FairToServer(m)
    BY ServerIsFair
  <2> HIDE DEF P, Q
  <2>6. FairRun => (P ~> Q)
    BY <2>1, <2>2, <2>4, <2>5, SafeRun, PTL DEF FairRun, FairToServer, CanServe
  <2> QED
    BY <2>6 DEF P, Q
<1>3. ServerAfter["construct"] = {"reread"} /\ ServerAfter["reread"] = {"handle"}
  BY DEF ServerAfter
<1>4. FairRun => HandGoesOn(m, c, "construct", "reread")
  BY <1>1, <1>3
<1>5. FairRun => HandGoesOn(m, c, "reread", "handle")
  BY <1>1, <1>3
<1>6. Safe /\ Serves(m, c) =>
        InHand(m, c, "construct") \/ InHand(m, c, "reread") \/ InHand(m, c, "handle")
  BY DEF Serves, InHand, Safe, Inv, PlaceInv
<1>7. crashed => Answered(c)
  BY DEF Answered
<1> QED
  BY <1>2, <1>4, <1>5, <1>6, <1>7, SafeRun, PTL DEF ComesTo, HandGoesOn

\* What is served is answered, whoever serves it,
AllCome(c) == \A m \in Servers : Serves(m, c) => <>Answered(c)

LEMMA ServedReturns ==
  ASSUME NEW c \in Clients
  PROVE  FairRun => (cpc[c] = "served" ~> cpc[c] = "done")
<1>1. FairRun => \A m \in Servers : ComesTo(m, c)
  BY ServerAnswers
<1>2. (\A m \in Servers : [](Serves(m, c) => <>Answered(c))) => []AllCome(c)
  BY DEF AllCome
<1>3. ASSUME NEW m \in Servers PROVE ComesTo(m, c) => [](Serves(m, c) => <>Answered(c))
  BY PTL DEF ComesTo
<1>4. FairRun => []AllCome(c)
  BY <1>1, <1>2, <1>3
<1>5. Safe => (cpc[c] = "served" => crashed \/ \E m \in Servers : Serves(m, c))
  BY DEF Safe, NoCallIsForgotten, Serves
<1> DEFINE R == <>Answered(c)
<1>6. ASSUME NEW m \in Servers PROVE AllCome(c) => (Serves(m, c) => R)
  BY DEF AllCome
<1> HIDE DEF R
<1>7. Safe /\ AllCome(c) => (cpc[c] = "served" => crashed \/ R)
  BY <1>5, <1>6
<1>8. Safe /\ AllCome(c) => (cpc[c] = "served" => crashed \/ <>Answered(c))
  BY <1>7 DEF R
<1>9. Answered(c) => crashed \/ cpc[c] = "done"
  BY DEF Answered
<1>10. Safe /\ [Next]_vars => (cpc[c] = "served" => (cpc[c] = "served")' \/ (cpc[c] = "done")')
  BY CallMoves DEF ClientAfter, ClientPCs
<1> QED
  BY <1>4, <1>8, <1>9, <1>10, SafeRun, CallsOfTheDeadReturn, PTL

\* and what waits comes nearer, as a server that is free takes the next.
WaitNears(c, n) == Waits(c, n + 1) ~> SeenTo(c) \/ Waits(c, n)
WaitEnds(c, n)  == Waits(c, n) ~> SeenTo(c)

QueueDescends == \A c \in Clients :
  (\A n \in Nat : WaitNears(c, n)) => (\A n \in Nat : WaitEnds(c, n))

Nearer(c, n)               == SeenTo(c) \/ Waits(c, n)
QueuedAt(m, c, n, l)       == Waits(c, n + 1) /\ pc[m] = l
QueueGoesOn(m, c, n, l, k) == QueuedAt(m, c, n, l) ~> Nearer(c, n) \/ QueuedAt(m, c, n, k)

LEMMA WaitComesNearer ==
  ASSUME NEW m \in Servers, NEW c \in Clients, NEW n \in Nat
  PROVE  FairRun => WaitNears(c, n)
<1> DEFINE Q == Nearer(c, n)
<1>1. Safe /\ [Next]_vars /\ Waits(c, n + 1) => Waits(c, n + 1)' \/ SeenTo(c)'
  BY WaitersStay
<1>2. Waits(c, n + 1) => queue # <<>>
  BY EmptySeq DEF Waits, Within
<1>3. FairRun => FairToServer(m)
  BY ServerIsFair
<1>4. WaitingIsForTheBusOnly => (Waits(c, n + 1) => Q \/ CanServe(m))
  BY <1>2, ServerIsFair DEF SeenTo, Nearer
<1>5. ASSUME NEW l \in {"construct", "reread", "handle"}, NEW k, ServerAfter[l] = {k}
      PROVE  FairRun => QueueGoesOn(m, c, n, l, k)
  <2> DEFINE P == QueuedAt(m, c, n, l)
             K == Q \/ QueuedAt(m, c, n, k)
  <2>1. Safe /\ [Next]_vars /\ P => P' \/ K'
    BY <1>1, <1>5, ServerMoves, ServerStays DEF QueuedAt, Nearer
  <2>2. Safe /\ [Next]_vars /\ P /\ <<ServerGoesOn(m)>>_vars => K'
    BY <1>1, <1>5, ServerMoves DEF QueuedAt, Nearer
  <2>3. WaitingIsForTheBusOnly => (P => K \/ CanServe(m))
    BY <1>4 DEF QueuedAt
  <2> HIDE DEF P, K
  <2>4. FairRun => (P ~> K)
    BY <1>3, <2>1, <2>2, <2>3, SafeRun, PTL DEF FairRun, FairToServer, CanServe
  <2> QED
    BY <2>4 DEF P, K, QueueGoesOn
<1>6. FairRun => (QueuedAt(m, c, n, "idle") ~> Q)
  <2> DEFINE P == QueuedAt(m, c, n, "idle")
  <2>1. ASSUME Safe, P, ServerGoesOn(m) PROVE Q'
    BY <2>1, ServerMoves, DispatchIsNearer DEF QueuedAt, Nearer
  <2>2. Safe /\ [Next]_vars /\ P => P' \/ Q'
    BY <1>1, <2>1, ServerStays DEF QueuedAt, Nearer
  <2>3. Safe /\ P /\ <<ServerGoesOn(m)>>_vars => Q'
    BY <2>1
  <2>4. WaitingIsForTheBusOnly => (P => Q \/ CanServe(m))
    BY <1>4 DEF QueuedAt
  <2> HIDE DEF P, Q
  <2>5. FairRun => (P ~> Q)
    BY <1>3, <2>2, <2>3, <2>4, SafeRun, PTL DEF FairRun, FairToServer, CanServe
  <2> QED
    BY <2>5 DEF P
<1>7. /\ ServerAfter["construct"] = {"reread"} /\ ServerAfter["reread"] = {"handle"}
      /\ ServerAfter["handle"] = {"idle"}
  BY DEF ServerAfter
<1>8. FairRun => QueueGoesOn(m, c, n, "construct", "reread")
  BY <1>5, <1>7
<1>9. FairRun => QueueGoesOn(m, c, n, "reread", "handle")
  BY <1>5, <1>7
<1>10. FairRun => QueueGoesOn(m, c, n, "handle", "idle")
  BY <1>5, <1>7
<1>11. Safe /\ Waits(c, n + 1) => \/ QueuedAt(m, c, n, "construct") \/ QueuedAt(m, c, n, "reread")
                                  \/ QueuedAt(m, c, n, "handle") \/ QueuedAt(m, c, n, "idle")
  BY DEF QueuedAt, Safe, Inv, PlaceInv
<1>12. FairRun => (Waits(c, n + 1) ~> Q)
  BY <1>6, <1>8, <1>9, <1>10, <1>11, SafeRun, PTL DEF QueueGoesOn, Q
<1> QED
  BY <1>12, PTL DEF WaitNears, Nearer

AllEnd(c) == \A n \in Nat : Waits(c, n) => <>SeenTo(c)

LEMMA WaitingReturns ==
  ASSUME Servers # {}, NEW c \in Clients
  PROVE  FairRun /\ QueueDescends => (cpc[c] = "wait" ~> cpc[c] = "done")
<1>1. PICK m \in Servers : TRUE
  OBVIOUS
<1>2. FairRun => \A n \in Nat : WaitNears(c, n)
  BY <1>1, WaitComesNearer
<1>3. FairRun /\ QueueDescends => \A n \in Nat : WaitEnds(c, n)
  BY <1>2 DEF QueueDescends
<1>4. ASSUME NEW n \in Nat PROVE WaitEnds(c, n) => [](Waits(c, n) => <>SeenTo(c))
  BY PTL DEF WaitEnds
<1>5. (\A n \in Nat : [](Waits(c, n) => <>SeenTo(c))) => []AllEnd(c)
  BY DEF AllEnd
<1>6. FairRun /\ QueueDescends => []AllEnd(c)
  BY <1>3, <1>4, <1>5
<1>7. Safe => (cpc[c] = "wait" => \E n \in Nat : Waits(c, n))
  <2> SUFFICES ASSUME Safe, cpc[c] = "wait" PROVE \E n \in Nat : Waits(c, n)
    OBVIOUS
  <2>1. c \in ToSet(queue) /\ queue \in Seq(Clients)
    BY DEF Safe, Inv, TypeOK, NoCallIsForgotten
  <2>2. PICK n \in Nat : Within(queue, c, n)
    BY <2>1, WithinSome
  <2> QED
    BY <2>2 DEF Waits
<1> DEFINE R == <>SeenTo(c)
<1>8. ASSUME NEW n \in Nat PROVE AllEnd(c) => (Waits(c, n) => R)
  BY DEF AllEnd
<1> HIDE DEF R
<1>9. Safe /\ AllEnd(c) => (cpc[c] = "wait" => R)
  BY <1>7, <1>8
<1>10. Safe /\ AllEnd(c) => (cpc[c] = "wait" => <>SeenTo(c))
  BY <1>9 DEF R
<1>11. SeenTo(c) => crashed \/ cpc[c] = "served" \/ cpc[c] = "done"
  BY DEF SeenTo
<1>12. Safe /\ [Next]_vars =>
         (cpc[c] = "wait" => (cpc[c] = "wait")' \/ (cpc[c] = "served")' \/ (cpc[c] = "done")')
  BY CallMoves DEF ClientAfter, ClientPCs
<1> QED
  BY <1>6, <1>10, <1>11, <1>12, SafeRun, CallsOfTheDeadReturn, ServedReturns, PTL

(* For any number of clients and servers, of which there is at least one:  *)
(* every API call returns, initialised by whichever thread, queued behind  *)
(* however many others, served before or after the manager is made, and    *)
(* with the daemon dead at any moment.                                     *)
THEOREM EveryCallReturns ==
  FairSpec /\ []WaitingIsForTheBusOnly /\ QueueDescends /\ Servers # {} => CallsReturn
<1> SUFFICES ASSUME Servers # {}
             PROVE  FairSpec /\ []WaitingIsForTheBusOnly /\ QueueDescends => CallsReturn
  OBVIOUS
<1>1. ASSUME NEW c \in Clients PROVE FairRun /\ QueueDescends => Returns(c)
  <2>1. FairRun => Leaves(c, "setFlag")
    BY ClientLeaves
  <2>2. FairRun => Leaves(c, "handlers")
    BY ClientLeaves
  <2>3. FairRun => Leaves(c, "send")
    BY ClientLeaves
  <2>4. FairRun => Leaves(c, "done")
    BY ClientLeaves
  <2>5. /\ cpc[c] \in ClientAfter["setFlag"] => cpc[c] = "handlers"
        /\ cpc[c] \in ClientAfter["handlers"] => cpc[c] = "send" \/ cpc[c] = "idle"
        /\ cpc[c] \in ClientAfter["send"] => cpc[c] = "wait" \/ cpc[c] = "done"
        /\ cpc[c] \in ClientAfter["done"] => cpc[c] = "idle"
    BY DEF ClientAfter, ClientPCs
  <2>6. Safe /\ cpc[c] # "idle" =>
          \/ cpc[c] = "setFlag" \/ cpc[c] = "handlers" \/ cpc[c] = "send" \/ cpc[c] = "wait"
          \/ cpc[c] = "served" \/ cpc[c] = "done"
    BY DEF Safe, Inv, TypeOK, ClientPCs
  <2> QED
    BY <2>1, <2>2, <2>3, <2>4, <2>5, <2>6, SafeRun, WaitingReturns, ServedReturns, PTL DEF Returns, Leaves
<1> QED
  BY <1>1 DEF FairRun, CallsReturn

\* An event that is owed comes nearer with each that is dispatched.
EventNears(e, n) == Comes(e, n + 1) ~> (e \notin owed \/ ~OneInstance) \/ Comes(e, n)
EventEnds(e, n)  == Comes(e, n) ~> e \notin owed \/ ~OneInstance

InboxDescends == \A e \in Events :
  (\A n \in Nat : EventNears(e, n)) => (\A n \in Nat : EventEnds(e, n))

LEMMA EventComesNearer ==
  ASSUME NEW e \in Events, NEW n \in Nat
  PROVE  FairRun => EventNears(e, n)
<1> DEFINE P == Comes(e, n + 1)
           Q == (e \notin owed \/ ~OneInstance) \/ Comes(e, n)
<1>1. ASSUME Safe, P, DeviceCallback PROVE Q'
  BY <1>1, CallbackIsNearer
<1>2. Safe /\ [Next]_vars /\ P => P' \/ Q'
  BY <1>1, EventsStay
<1>3. Safe /\ P /\ <<DeviceCallback>>_vars => Q'
  BY <1>1
<1>4. P => inbox # <<>>
  BY EmptySeq DEF Comes, Within
<1>5. WaitingIsForTheBusOnly => (P => CanDispatch)
  BY <1>4 DEF WaitingIsForTheBusOnly, CanDispatch
<1> HIDE DEF P, Q
<1>6. FairRun => (P ~> Q)
  BY <1>2, <1>3, <1>5, SafeRun, PTL DEF FairRun, FairSpec, Fairness, CanDispatch
<1> QED
  BY <1>6 DEF EventNears, P, Q

AllHeard(e) == \A n \in Nat : Comes(e, n) => <>(e \notin owed \/ ~OneInstance)

(* For any number of devices, events and handlers: what the manager        *)
(* announces while the client listens reaches its callback, however many   *)
(* events are before it, unless a second manager was made.                 *)
THEOREM EveryEventIsHeard ==
  FairSpec /\ []WaitingIsForTheBusOnly /\ InboxDescends => AnnouncedIsHeard
<1>1. ASSUME NEW e \in Events \ Unfit PROVE FairRun /\ InboxDescends => IsHeard(e)
  <2> DEFINE G == e \notin owed \/ ~OneInstance
             R == <>G
  <2>1. FairRun => \A n \in Nat : EventNears(e, n)
    BY EventComesNearer
  <2>2. FairRun /\ InboxDescends => \A n \in Nat : EventEnds(e, n)
    BY <2>1 DEF InboxDescends
  <2>3. ASSUME NEW n \in Nat PROVE EventEnds(e, n) => [](Comes(e, n) => <>(e \notin owed \/ ~OneInstance))
    BY PTL DEF EventEnds
  <2>4. (\A n \in Nat : [](Comes(e, n) => <>(e \notin owed \/ ~OneInstance))) => []AllHeard(e)
    BY DEF AllHeard
  <2>5. FairRun /\ InboxDescends => []AllHeard(e)
    BY <2>2, <2>3, <2>4
  <2>6. ASSUME NEW n \in Nat PROVE AllHeard(e) => (Comes(e, n) => R)
    BY DEF AllHeard
  <2>7. Safe => (e \in owed => ~OneInstance \/ \E n \in Nat : Comes(e, n))
    <3> SUFFICES ASSUME Safe, e \in owed, OneInstance PROVE \E n \in Nat : Comes(e, n)
      OBVIOUS
    <3>1. inbox \in Seq(Events) /\ e \in ToSet(inbox)
      BY DEF Safe, Inv, TypeOK, OwedInv, AnnouncedIsOnItsWay
    <3>2. PICK n \in Nat : Within(inbox, e, n)
      BY <3>1, WithinSome
    <3> QED
      BY <3>2 DEF Comes
  <2> HIDE DEF R
  <2>8. Safe /\ AllHeard(e) => (e \in owed => ~OneInstance \/ R)
    BY <2>6, <2>7
  <2>9. Safe /\ AllHeard(e) => (e \in owed => ~OneInstance \/ <>(e \notin owed \/ ~OneInstance))
    BY <2>8 DEF R
  <2> QED
    BY <2>5, <2>9, SafeRun, PTL DEF IsHeard
<1> QED
  BY <1>1 DEF FairRun, AnnouncedIsHeard
=============================================================================
