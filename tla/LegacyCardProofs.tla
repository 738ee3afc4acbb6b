-------------------------- MODULE LegacyCardProofs --------------------------
(***************************************************************************)
(* Proofs about LegacyCard: its types, the lock around the scripts, what a *)
(* card on offer is worth, and the flag isMounted as long as the threads   *)
(* keep out of each other's way.  None of them needs to know what the      *)
(* scripts return, nor how large the socket is.  Then, that the events     *)
(* under way lead from what the daemon believes of the slot to what is in  *)
(* it.  Last, that every handler ends: a thread goes through its calls     *)
(* step by step, and a lock it waits for is given back again and again.    *)
(***************************************************************************)
EXTENDS LegacyCard, TLAPS

Scripts == {"mountScript", "umountScript"}
Umounting == {"umount", "umountLock", "umountScript", "umountFlag"}
Mounting == {"mount", "mountScript", "mountFlag", "mountDone"}
Good == {"OK", "READY"}

\* Whoever is in a script owns the lock, and nobody else does.
LockInv == \A t \in Threads : lock = t <=> pc[t] \in Scripts

\* Where the monitor thread stands says what it knows of the card.
GoodInv ==
  /\ ready => present /\ tsb /\ status \in Good /\ pc["monitor"] \in {"loop", "startMonitor"}
  /\ present /\ tsb /\ pc["monitor"] \in {"loop", "startMonitor"} => status \in Good
  /\ pc["monitor"] \in {"check", "readCid"} \cup Umounting => ~present
  /\ pc["monitor"] = "qualify" => present
  /\ pc["monitor"] \in Mounting => present /\ tsb

\* The flag lags behind the mount only while its one writer is about to
\* assign it.
FlagInv ==
  ~overlapped =>
    /\ \A t, u \in Threads : pc[t] \in Calls /\ pc[u] \in Calls => t = u
    /\ \A t \in Threads :
         /\ pc[t] = "mountScript" => ~isMounted
         /\ pc[t] \in {"umountLock", "umountScript"} => isMounted
         /\ pc[t] = "mountFlag" => mounted /\ ~isMounted
         /\ pc[t] = "umountFlag" => ~mounted /\ isMounted
    /\ (\A t \in Threads : pc[t] \notin {"mountFlag", "umountFlag"}) => (isMounted <=> mounted)

-----------------------------------------------------------------------------
(* Types.                                                                  *)

\* What an event does to the socket keeps it a queue of events.
LEMMA SocketTyped ==
  ASSUME NEW S, NEW q \in Seq(S), NEW e \in S
  PROVE  /\ Append(q, e) \in Seq(S) /\ Len(Append(q, e)) = Len(q) + 1
         /\ q # <<>> => Tail(q) \in Seq(S) /\ Len(Tail(q)) = Len(q) - 1
  OBVIOUS

\* Every step keeps every variable in its type.
LEMMA TypeStep == TypeOK /\ [Next]_vars => TypeOK'
<1> SUFFICES ASSUME TypeOK, [Next]_vars PROVE TypeOK'
  OBVIOUS
<1> USE LegacyCardAssumption DEF TypeOK, Threads, Statuses, Calls, OwnPlaces
<1>1. ASSUME NEW e \in {"add", "remove"}, Swap(e) PROVE TypeOK'
  <2>1. inserted' \in BOOLEAN
    BY <1>1, Zenon DEF Swap
  <2>2. missed' \in BOOLEAN /\ socket' \in Seq({"add", "remove"}) /\ Len(socket') <= SocketSize
    <3>1. CASE listening /\ Len(socket) < SocketSize
      BY <1>1, <3>1, SocketTyped DEF Swap
    <3>2. CASE ~(listening /\ Len(socket) < SocketSize)
      <4>1. missed' \in BOOLEAN
        BY <1>1, <3>2, Zenon DEF Swap
      <4>2. QED
        BY <1>1, <3>2, <4>1 DEF Swap
    <3>3. QED
      BY <3>1, <3>2
  <2>3. QED
    BY <1>1, <2>1, <2>2 DEF Swap, cardVars
<1>2. ASSUME NEW call \in {"mount", "umount"}, PowerEvent(call) PROVE TypeOK'
  BY <1>2 DEF PowerEvent, Enter, Goto, slotVars, cardVars
<1>3. CASE MonitorStep
  <2>1. CASE CheckSlot
    BY <2>1 DEF CheckSlot, Goto, slotVars
  <2>2. CASE Qualify
    BY <2>2 DEF Qualify, Enter, Goto, AfterAdd, slotVars
  <2>3. CASE MountDone
    BY <2>3 DEF MountDone, Goto, AfterAdd, slotVars
  <2>4. CASE StartMonitor
    BY <2>4 DEF StartMonitor, Goto, cardVars
  <2>5. CASE ReceiveAdd
    BY <2>5, SocketTyped DEF ReceiveAdd, Goto, cardVars
  <2>6. CASE ReceiveRemove
    <3>1. socket' \in Seq({"add", "remove"}) /\ Len(socket') <= SocketSize
      BY <2>6, SocketTyped DEF ReceiveRemove
    <3>2. CASE present
      <4>1. overlapped' \in BOOLEAN
        BY <2>6, <3>2, Zenon DEF ReceiveRemove, Enter
      <4>2. QED
        BY <2>6, <3>1, <3>2, <4>1 DEF ReceiveRemove, Enter, Goto
    <3>3. CASE ~present
      BY <2>6, <3>1, <3>3 DEF ReceiveRemove
    <3>4. QED
      BY <3>2, <3>3
  <2>7. CASE ReadCid
    BY <2>7 DEF ReadCid, Goto, slotVars
  <2>8. QED
    BY <1>3, <2>1, <2>2, <2>3, <2>4, <2>5, <2>6, <2>7 DEF MonitorStep
<1>4. ASSUME NEW t \in Threads, ScriptCall(t) PROVE TypeOK'
  <2>1. CASE Mount(t)
    BY <2>1 DEF Mount, MountReturns, Goto, slotVars, cardVars
  <2>2. CASE RunMount(t)
    BY <2>2 DEF RunMount, MountReturns, Goto, slotVars, cardVars
  <2>3. CASE SetMounted(t)
    BY <2>3 DEF SetMounted, MountReturns, Goto, slotVars, cardVars
  <2>4. CASE Umount(t)
    BY <2>4 DEF Umount, Goto, slotVars, cardVars
  <2>5. CASE UmountLock(t)
    BY <2>5 DEF UmountLock, Goto, slotVars, cardVars
  <2>6. CASE RunUmount(t)
    BY <2>6 DEF RunUmount, Goto, slotVars, cardVars
  <2>7. CASE ClearMounted(t)
    BY <2>7 DEF ClearMounted, Goto, slotVars, cardVars
  <2>8. QED
    BY <1>4, <2>1, <2>2, <2>3, <2>4, <2>5, <2>6, <2>7 DEF ScriptCall
<1>5. CASE UNCHANGED vars
  BY <1>5 DEF vars, slotVars, cardVars
<1>6. QED
  BY <1>1, <1>2, <1>3, <1>4, <1>5 DEF Next

LEMMA InitTyped == Init => TypeOK
<1> SUFFICES ASSUME Init PROVE TypeOK
  OBVIOUS
<1>1. socket \in Seq({"add", "remove"}) /\ Len(socket) <= SocketSize
  BY LegacyCardAssumption DEF Init
<1>2. {inserted, mounted, missed, listening, isMounted} \subseteq BOOLEAN
  BY DEF Init
<1>3. {present, tsb, ready, ok, overlapped} \subseteq BOOLEAN
  BY DEF Init
<1>4. QED
  BY <1>1, <1>2, <1>3 DEF Init, TypeOK, Threads, Statuses, Calls, OwnPlaces

(* Every global of the first-generation daemon keeps its type, and the     *)
(* socket its bound.                                                       *)
THEOREM TypeCorrect == Spec => []TypeOK
BY InitTyped, TypeStep, PTL DEF Spec

-----------------------------------------------------------------------------
(* The lock around the scripts.                                            *)

\* A thread enters a script as it takes the lock and leaves as it gives it up.
LEMMA LockStep == TypeOK /\ LockInv /\ [Next]_vars => LockInv'
<1> SUFFICES ASSUME TypeOK, LockInv, [Next]_vars PROVE LockInv'
  OBVIOUS
<1> USE LegacyCardAssumption DEF LockInv, Threads, Scripts
<1>1. pc \in [Threads -> OwnPlaces \cup Calls \cup {"loop"}]
  BY DEF TypeOK
<1>2. ASSUME NEW e \in {"add", "remove"}, Swap(e) PROVE LockInv'
  BY <1>2 DEF Swap
<1>3. ASSUME NEW call \in {"mount", "umount"}, PowerEvent(call) PROVE LockInv'
  BY <1>1, <1>3 DEF PowerEvent, Enter, Goto
<1>4. CASE MonitorStep
  <2>1. CASE CheckSlot
    BY <1>1, <2>1 DEF CheckSlot, Goto
  <2>2. CASE Qualify
    BY <1>1, <2>2 DEF Qualify, Enter, Goto, AfterAdd
  <2>3. CASE MountDone
    BY <1>1, <2>3 DEF MountDone, Goto, AfterAdd
  <2>4. CASE StartMonitor
    BY <1>1, <2>4 DEF StartMonitor, Goto
  <2>5. CASE ReceiveAdd
    BY <1>1, <2>5 DEF ReceiveAdd, Goto
  <2>6. CASE ReceiveRemove
    BY <1>1, <2>6 DEF ReceiveRemove, Enter, Goto
  <2>7. CASE ReadCid
    BY <1>1, <2>7 DEF ReadCid, Goto
  <2>8. QED
    BY <1>4, <2>1, <2>2, <2>3, <2>4, <2>5, <2>6, <2>7 DEF MonitorStep
<1>5. ASSUME NEW t \in Threads, ScriptCall(t) PROVE LockInv'
  <2>1. CASE Mount(t)
    BY <1>1, <2>1 DEF Mount, MountReturns, Goto
  <2>2. CASE RunMount(t)
    BY <1>1, <2>2 DEF RunMount, MountReturns, Goto
  <2>3. CASE SetMounted(t)
    BY <1>1, <2>3 DEF SetMounted, MountReturns, Goto
  <2>4. CASE Umount(t)
    BY <1>1, <2>4 DEF Umount, Goto
  <2>5. CASE UmountLock(t)
    BY <1>1, <2>5 DEF UmountLock, Goto
  <2>6. CASE RunUmount(t)
    BY <1>1, <2>6 DEF RunUmount, Goto
  <2>7. CASE ClearMounted(t)
    BY <1>1, <2>7 DEF ClearMounted, Goto
  <2>8. QED
    BY <1>5, <2>1, <2>2, <2>3, <2>4, <2>5, <2>6, <2>7 DEF ScriptCall
<1>6. CASE UNCHANGED vars
  BY <1>6 DEF vars
<1>7. QED
  BY <1>2, <1>3, <1>4, <1>5, <1>6 DEF Next

(* The mount script and the unmount script never run side by side, though  *)
(* the flag that decides whether they run is used outside the lock.  A     *)
(* thread that waits for mountLock waits for the other one's script and    *)
(* for nothing else, so that both of them never wait: what HandlersFinish  *)
(* has of safety.                                                          *)
THEOREM ScriptsAlternate == Spec => []ScriptsTakeTurns
<1>1. Init => LockInv
  BY LegacyCardAssumption DEF Init, LockInv, Threads, Scripts
<1>2. TypeOK /\ LockInv => ScriptsTakeTurns
  <2> SUFFICES ASSUME TypeOK, LockInv PROVE ScriptsTakeTurns
    OBVIOUS
  <2>1. \A t, u \in Threads : {pc[t], pc[u]} \subseteq Scripts => t = u
    BY DEF LockInv, Threads, Scripts
  <2>2. ASSUME NEW t \in Threads, pc[t] \in {"mount", "umountLock"}, lock # None
        PROVE  \E u \in Threads \ {t} : lock = u /\ pc[u] \in Scripts
    <3>1. lock \in Threads
      BY <2>2 DEF TypeOK
    <3>2. pc[lock] \in Scripts
      BY <3>1 DEF LockInv
    <3>3. lock # t
      BY <2>2, <3>2 DEF Scripts
    <3>4. QED
      BY <3>1, <3>2, <3>3
  <2>3. QED
    BY <2>1, <2>2 DEF ScriptsTakeTurns, Scripts
<1>3. QED
  BY <1>1, <1>2, LockStep, TypeCorrect, PTL DEF Spec

-----------------------------------------------------------------------------
(* What a card on offer is worth.                                          *)

\* The script calls and the slot leave what the monitor thread knows alone;
\* of where it stands they change no more than its place in a script call.
LEMMA GoodCall ==
  ASSUME TypeOK, GoodInv, NEW t \in Threads, ScriptCall(t)
  PROVE  GoodInv'
<1> USE DEF GoodInv, Threads, Umounting, Mounting, Good, cardVars
<1>1. pc \in [Threads -> OwnPlaces \cup Calls \cup {"loop"}]
  BY DEF TypeOK
<1>2. CASE Mount(t)
  BY <1>1, <1>2 DEF Mount, MountReturns, Goto
<1>3. CASE RunMount(t)
  BY <1>1, <1>3 DEF RunMount, MountReturns, Goto
<1>4. CASE SetMounted(t)
  BY <1>1, <1>4 DEF SetMounted, MountReturns, Goto
<1>5. CASE Umount(t)
  BY <1>1, <1>5 DEF Umount, Goto
<1>6. CASE UmountLock(t)
  BY <1>1, <1>6 DEF UmountLock, Goto
<1>7. CASE RunUmount(t)
  BY <1>1, <1>7 DEF RunUmount, Goto
<1>8. CASE ClearMounted(t)
  BY <1>1, <1>8 DEF ClearMounted, Goto
<1>9. QED
  BY <1>2, <1>3, <1>4, <1>5, <1>6, <1>7, <1>8 DEF ScriptCall

\* Each step of the monitor thread leaves the flags as its place demands.
LEMMA GoodStep == TypeOK /\ GoodInv /\ [Next]_vars => GoodInv'
<1> SUFFICES ASSUME TypeOK, GoodInv, [Next]_vars PROVE GoodInv'
  OBVIOUS
<1> USE DEF GoodInv, Threads, Umounting, Mounting, Good
<1>1. pc \in [Threads -> OwnPlaces \cup Calls \cup {"loop"}]
  BY DEF TypeOK
<1>2. ASSUME NEW e \in {"add", "remove"}, Swap(e) PROVE GoodInv'
  BY <1>2 DEF Swap, cardVars
<1>3. ASSUME NEW call \in {"mount", "umount"}, PowerEvent(call) PROVE GoodInv'
  BY <1>1, <1>3 DEF PowerEvent, Enter, Goto, cardVars
<1>4. CASE MonitorStep
  <2>1. CASE CheckSlot
    BY <1>1, <2>1 DEF CheckSlot, Goto
  <2>2. CASE Qualify
    BY <1>1, <2>2 DEF Qualify, Enter, Goto, AfterAdd
  <2>3. CASE MountDone
    <3>1. pc["monitor"] = "mountDone" /\ present /\ tsb /\ ~ready
      BY <2>3 DEF MountDone
    <3>2. pc'["monitor"] \in {"loop", "startMonitor"} /\ present' = present
      BY <1>1, <2>3 DEF MountDone, Goto, AfterAdd
    <3>3. \/ ~tsb' /\ ~ready'
          \/ tsb' /\ ready' /\ (status' = "OK" \/ status' = "READY")
      BY <2>3, <3>1, Zenon DEF MountDone
    <3>4. QED
      BY <3>1, <3>2, <3>3
  <2>4. CASE StartMonitor
    BY <1>1, <2>4 DEF StartMonitor, Goto, cardVars
  <2>5. CASE ReceiveAdd
    BY <1>1, <2>5 DEF ReceiveAdd, Goto, cardVars
  <2>6. CASE ReceiveRemove
    <3>1. CASE present
      BY <1>1, <2>6, <3>1 DEF ReceiveRemove, Enter, Goto
    <3>2. CASE ~present
      BY <1>1, <2>6, <3>2 DEF ReceiveRemove
    <3>3. QED
      BY <3>1, <3>2
  <2>7. CASE ReadCid
    BY <1>1, <2>7 DEF ReadCid, Goto
  <2>8. QED
    BY <1>4, <2>1, <2>2, <2>3, <2>4, <2>5, <2>6, <2>7 DEF MonitorStep
<1>5. CASE UNCHANGED vars
  BY <1>5 DEF vars, cardVars
<1>6. QED
  BY <1>2, <1>3, <1>4, <1>5, GoodCall DEF Next

(* Between two events a card that is offered for the TSB, or called ready, *)
(* is a good one: a mount that failed and a card that left are never on    *)
(* offer.                                                                  *)
THEOREM OfferIsGood == Spec => []OfferedIsGood
<1>1. Init => GoodInv
  BY DEF Init, GoodInv, Threads, Umounting, Mounting
<1>2. GoodInv => OfferedIsGood
  BY DEF GoodInv, OfferedIsGood, Good
<1>3. QED
  BY <1>1, <1>2, GoodStep, TypeCorrect, PTL DEF Spec

-----------------------------------------------------------------------------
(* The flag, while the threads have kept out of each other's way.          *)

\* Once they have overlapped it stays noted.
LEMMA FlagCall ==
  ASSUME TypeOK, FlagInv, NEW t \in Threads, ScriptCall(t)
  PROVE  FlagInv'
<1> USE DEF FlagInv, Threads, Calls
<1>1. pc \in [Threads -> OwnPlaces \cup Calls \cup {"loop"}]
  BY DEF TypeOK
<1>2. CASE Mount(t)
  BY <1>1, <1>2 DEF Mount, MountReturns, Goto
<1>3. CASE RunMount(t)
  BY <1>1, <1>3 DEF RunMount, MountReturns, Goto
<1>4. CASE SetMounted(t)
  BY <1>1, <1>4 DEF SetMounted, MountReturns, Goto
<1>5. CASE Umount(t)
  BY <1>1, <1>5 DEF Umount, Goto
<1>6. CASE UmountLock(t)
  BY <1>1, <1>6 DEF UmountLock, Goto
<1>7. CASE RunUmount(t)
  BY <1>1, <1>7 DEF RunUmount, Goto
<1>8. CASE ClearMounted(t)
  BY <1>1, <1>8 DEF ClearMounted, Goto
<1>9. QED
  BY <1>2, <1>3, <1>4, <1>5, <1>6, <1>7, <1>8 DEF ScriptCall

\* A thread that enters the calls is alone in them, or the overlap is noted.
LEMMA FlagStep == TypeOK /\ FlagInv /\ [Next]_vars => FlagInv'
<1> SUFFICES ASSUME TypeOK, FlagInv, [Next]_vars PROVE FlagInv'
  OBVIOUS
<1> USE DEF FlagInv, Threads, Calls
<1>1. pc \in [Threads -> OwnPlaces \cup Calls \cup {"loop"}]
  BY DEF TypeOK
<1>2. ASSUME NEW e \in {"add", "remove"}, Swap(e) PROVE FlagInv'
  BY <1>2 DEF Swap
<1>3. ASSUME NEW call \in {"mount", "umount"}, PowerEvent(call) PROVE FlagInv'
  BY <1>1, <1>3 DEF PowerEvent, Enter, Goto
<1>4. CASE MonitorStep
  <2>1. CASE CheckSlot
    BY <1>1, <2>1 DEF CheckSlot, Goto, slotVars
  <2>2. CASE Qualify
    BY <1>1, <2>2 DEF Qualify, Enter, Goto, AfterAdd, slotVars
  <2>3. CASE MountDone
    BY <1>1, <2>3 DEF MountDone, Goto, AfterAdd, slotVars
  <2>4. CASE StartMonitor
    BY <1>1, <2>4 DEF StartMonitor, Goto
  <2>5. CASE ReceiveAdd
    BY <1>1, <2>5 DEF ReceiveAdd, Goto
  <2>6. CASE ReceiveRemove
    <3>1. CASE present
      <4>1. pc' = [pc EXCEPT !["monitor"] = "umount"] /\ mounted' = mounted /\ isMounted' = isMounted
        BY <2>6, <3>1 DEF ReceiveRemove, Enter, Goto
      <4>2. ~overlapped' => ~overlapped /\ pc["power"] \notin Calls
        BY <2>6, <3>1, Zenon DEF ReceiveRemove, Enter
      <4>3. pc["monitor"] = "loop"
        BY <2>6 DEF ReceiveRemove
      <4>4. CASE overlapped'
        BY <4>4
      <4>5. CASE ~overlapped'
        <5>1. \A t \in Threads : pc[t] \notin Calls /\ pc'[t] \in {pc[t], "umount"}
          BY <1>1, <4>1, <4>2, <4>3, <4>5
        <5>2. pc'["power"] = pc["power"] /\ pc'["monitor"] = "umount"
          BY <1>1, <4>1
        <5>3. isMounted <=> mounted
          BY <4>2, <4>5, <5>1
        <5>4. QED
          BY <4>1, <5>1, <5>2, <5>3
      <4>6. QED
        BY <4>4, <4>5
    <3>2. CASE ~present
      BY <1>1, <2>6, <3>2 DEF ReceiveRemove
    <3>3. QED
      BY <3>1, <3>2
  <2>7. CASE ReadCid
    BY <1>1, <2>7 DEF ReadCid, Goto, slotVars
  <2>8. QED
    BY <1>4, <2>1, <2>2, <2>3, <2>4, <2>5, <2>6, <2>7 DEF MonitorStep
<1>5. CASE UNCHANGED vars
  BY <1>5 DEF vars
<1>6. QED
  BY <1>2, <1>3, <1>4, <1>5, FlagCall DEF Next

(* As long as the monitor thread and the power handler have never been in  *)
(* the script calls together, isMounted is right whenever both are idle.   *)
THEOREM FlagIsRight == Spec => []MountedUnlessOverlapped
<1>1. Init => FlagInv
  BY DEF Init, FlagInv, Threads, Calls
<1>2. FlagInv => MountedUnlessOverlapped
  BY DEF FlagInv, MountedUnlessOverlapped, Quiet, Threads
<1>3. QED
  BY <1>1, <1>2, FlagStep, TypeCorrect, PTL DEF Spec

-----------------------------------------------------------------------------
(* The slot and what the daemon believes of it.                            *)

Kinds == {"add", "remove"}
EventOf(b) == IF b THEN "add" ELSE "remove"

\* The events of q lead from the state that event a left to that of event b.
Leads(a, q, b) ==
  /\ q = <<>> => a = b
  /\ q # <<>> => q[1] # a /\ q[Len(q)] = b
  /\ \A i \in 1..(Len(q) - 1) : q[i] # q[i + 1]

\* A card whose "add" was received is believed to be there.
Believed == pc["monitor"] = "readCid" \/ present

SlotInv ==
  /\ ~listening => socket = <<>>
  /\ pc["monitor"] = "check" => ~listening
  /\ pc["monitor"] = "readCid" => ~present
  /\ ~missed /\ pc["monitor"] # "check" => Leads(EventOf(Believed), socket, EventOf(inserted))

\* An event that differs from the last state goes to the end of the queue.
LEMMA LeadsOn ==
  ASSUME NEW q \in Seq(Kinds), NEW a \in Kinds, NEW b \in Kinds, NEW e \in Kinds,
         Leads(a, q, b), e # b
  PROVE  Leads(a, Append(q, e), e)
<1> DEFINE r == Append(q, e)
<1>1. /\ Len(q) \in Nat /\ Len(r) = Len(q) + 1 /\ r # <<>>
      /\ \A i \in 1..Len(q) : r[i] = q[i]
      /\ r[Len(q) + 1] = e
  OBVIOUS
<1>2. CASE q = <<>>
  BY <1>1, <1>2 DEF Leads
<1>3. CASE q # <<>>
  <2>1. Len(q) >= 1
    BY <1>3
  <2>2. r[1] # a /\ r[Len(r)] = e
    BY <1>1, <1>3, <2>1 DEF Leads
  <2>3. ASSUME NEW i \in 1..(Len(r) - 1) PROVE r[i] # r[i + 1]
    <3>1. CASE i = Len(q)
      BY <1>1, <1>3, <2>1, <3>1 DEF Leads
    <3>2. CASE i # Len(q)
      <4>1. i \in 1..(Len(q) - 1) /\ i + 1 \in 1..Len(q)
        BY <1>1, <3>2
      <4>2. QED
        BY <1>1, <4>1 DEF Leads
    <3>3. QED
      BY <3>1, <3>2
  <2>4. QED
    BY <1>1, <2>2, <2>3 DEF Leads
<1>4. QED
  BY <1>2, <1>3

LEMMA EmptyQueue ==
  ASSUME NEW q \in Seq(Kinds)
  PROVE  q = <<>> <=> Len(q) = 0
  OBVIOUS

\* The first event of the queue is taken from it and believed.
LEMMA LeadsFrom ==
  ASSUME NEW q \in Seq(Kinds), NEW a \in Kinds, NEW b \in Kinds,
         Leads(a, q, b), q # <<>>
  PROVE  Leads(Head(q), Tail(q), b)
<1> SUFFICES ASSUME NEW r, r = Tail(q) PROVE Leads(Head(q), r, b)
  OBVIOUS
<1>1. /\ Len(q) \in Nat \ {0} /\ Len(r) = Len(q) - 1 /\ Head(q) = q[1]
      /\ \A i \in 1..Len(r) : r[i] = q[i + 1]
  OBVIOUS
<1>2. r \in Seq(Kinds) /\ (r = <<>> <=> Len(r) = 0)
  <2>1. r \in Seq(Kinds)
    OBVIOUS
  <2>2. QED
    BY <2>1, EmptyQueue
<1>3. CASE Len(q) = 1
  <2>1. r = <<>> /\ Len(r) = 0 /\ q[1] = b
    BY <1>1, <1>2, <1>3 DEF Leads
  <2>2. QED
    BY <1>1, <2>1 DEF Leads
<1>4. CASE Len(q) > 1
  <2>1. r[1] # q[1] /\ r[Len(r)] = b /\ r # <<>>
    <3>1. r[1] = q[2] /\ q[1] # q[2]
      BY <1>1, <1>4 DEF Leads
    <3>2. r[Len(r)] = q[Len(q)] /\ q[Len(q)] = b
      BY <1>1, <1>4 DEF Leads
    <3>3. r # <<>>
      BY <1>1, <1>2, <1>4
    <3>4. QED
      BY <3>1, <3>2, <3>3
  <2>2. ASSUME NEW i \in 1..(Len(r) - 1) PROVE r[i] # r[i + 1]
    <3>1. i + 1 \in 1..(Len(q) - 1) /\ r[i] = q[i + 1] /\ r[i + 1] = q[(i + 1) + 1]
      BY <1>1
    <3>2. QED
      BY <3>1 DEF Leads
  <2>3. QED
    BY <1>1, <2>1, <2>2 DEF Leads
<1>5. QED
  BY <1>1, <1>3, <1>4

\* A step that moves neither the slot, the queue nor the belief.
LEMMA SlotKept ==
  ASSUME SlotInv, UNCHANGED <<inserted, socket, missed>>,
         listening' = listening \/ (listening' /\ pc["monitor"] # "check"),
         pc["monitor"] # "check", pc'["monitor"] \notin {"check", "readCid"},
         Believed' <=> Believed
  PROVE  SlotInv'
<1>1. EventOf(Believed)' = EventOf(Believed) /\ EventOf(inserted)' = EventOf(inserted)
  BY DEF EventOf
<1>2. QED
  BY <1>1 DEF SlotInv, Leads

\* Each step of the monitor thread moves its belief with the queue.
LEMMA SlotStep == TypeOK /\ GoodInv /\ SlotInv /\ [Next]_vars => SlotInv'
<1> SUFFICES ASSUME TypeOK, GoodInv, SlotInv, [Next]_vars PROVE SlotInv'
  OBVIOUS
<1> USE DEF Threads, Calls
<1>1. /\ pc \in [Threads -> OwnPlaces \cup Calls \cup {"loop"}]
      /\ socket \in Seq(Kinds)
  BY DEF TypeOK, Kinds
<1>2. \A b : EventOf(b) \in Kinds
  BY DEF EventOf, Kinds
<1>3. ASSUME NEW e \in {"add", "remove"}, Swap(e) PROVE SlotInv'
  <2>1. pc' = pc /\ listening' = listening /\ (Believed' <=> Believed)
    BY <1>3 DEF Swap, cardVars, Believed
  <2>2. e = EventOf(inserted') /\ e # EventOf(inserted) /\ e \in Kinds
    <3>1. (inserted' <=> e = "add") /\ (inserted' <=> ~inserted)
      BY <1>3, Zenon DEF Swap, TypeOK
    <3>2. QED
      BY <3>1 DEF EventOf, Kinds
  <2>3. CASE listening /\ Len(socket) < SocketSize
    <3>1. socket' = Append(socket, e) /\ missed' = missed
      BY <1>3, <2>3 DEF Swap
    <3>2. CASE ~missed /\ pc["monitor"] # "check"
      <4>1. Leads(EventOf(Believed), socket', e)
        BY <1>1, <1>2, <2>2, <3>1, <3>2, LeadsOn DEF SlotInv
      <4>2. EventOf(Believed') = EventOf(Believed)
        BY <2>1 DEF EventOf
      <4>3. QED
        BY <2>1, <2>2, <2>3, <4>1, <4>2, <1>3 DEF SlotInv, Swap, cardVars
    <3>3. CASE missed \/ pc["monitor"] = "check"
      BY <1>3, <2>1, <2>3, <3>1, <3>3 DEF SlotInv, Swap, cardVars
    <3>4. QED
      BY <3>2, <3>3
  <2>4. CASE ~(listening /\ Len(socket) < SocketSize)
    <3>1. socket' = socket
      BY <1>3, <2>4 DEF Swap
    <3>2. pc["monitor"] # "check" => missed'
      BY <1>3, <2>4, Zenon DEF Swap
    <3>3. QED
      BY <1>3, <2>1, <3>1, <3>2 DEF SlotInv, Swap, cardVars
  <2>5. QED
    BY <2>3, <2>4
<1>4. ASSUME NEW call \in {"mount", "umount"}, PowerEvent(call) PROVE SlotInv'
  BY <1>1, <1>4 DEF PowerEvent, Enter, Goto, slotVars, cardVars, SlotInv, Leads, Believed, EventOf
<1>5. CASE MonitorStep
  <2>1. CASE CheckSlot
    <3>1. present' = inserted /\ inserted' = inserted /\ socket' = socket /\ listening' = listening
      BY <2>1 DEF CheckSlot, slotVars
    <3>2. pc'["monitor"] \in {"qualify", "startMonitor"} /\ socket = <<>>
      BY <1>1, <2>1 DEF CheckSlot, Goto, SlotInv
    <3>3. EventOf(Believed') = EventOf(inserted')
      BY <3>1, <3>2 DEF Believed, EventOf
    <3>4. QED
      BY <3>1, <3>2, <3>3 DEF SlotInv, Leads, Believed, EventOf
  <2>2. CASE Qualify
    <3>1. pc'["monitor"] \notin {"check", "readCid"} /\ pc["monitor"] = "qualify"
      BY <1>1, <2>2 DEF Qualify, Enter, Goto, AfterAdd
    <3>2. QED
      BY <2>2, <3>1, SlotKept DEF Qualify, slotVars, Believed
  <2>3. CASE MountDone
    <3>1. pc'["monitor"] \notin {"check", "readCid"} /\ pc["monitor"] = "mountDone"
      BY <1>1, <2>3 DEF MountDone, Goto, AfterAdd
    <3>2. QED
      BY <2>3, <3>1, SlotKept DEF MountDone, slotVars, Believed
  <2>4. CASE StartMonitor
    <3>1. pc'["monitor"] = "loop" /\ pc["monitor"] = "startMonitor"
      BY <1>1, <2>4 DEF StartMonitor, Goto
    <3>2. UNCHANGED <<inserted, socket, missed, present>> /\ listening'
      BY <2>4, Zenon DEF StartMonitor, cardVars
    <3>3. EventOf(Believed') = EventOf(Believed) /\ EventOf(inserted') = EventOf(inserted)
      BY <3>1, <3>2 DEF Believed, EventOf
    <3>4. QED
      BY <3>1, <3>2, <3>3 DEF SlotInv, Leads, Believed, EventOf
  <2>5. CASE ReceiveAdd
    <3>1. socket # <<>> /\ Head(socket) = "add" /\ socket' = Tail(socket) /\ pc["monitor"] = "loop"
      BY <2>5 DEF ReceiveAdd
    <3>2. UNCHANGED <<inserted, missed, listening, present>>
      BY <2>5 DEF ReceiveAdd, cardVars
    <3>3. pc'["monitor"] = IF present THEN "loop" ELSE "readCid"
      BY <1>1, <2>5 DEF ReceiveAdd, Goto
    <3>4. EventOf(Believed') = "add" /\ EventOf(inserted') = EventOf(inserted)
      BY <3>1, <3>2, <3>3 DEF Believed, EventOf
    <3>5. ~missed => Leads("add", socket', EventOf(inserted))
      BY <1>1, <1>2, <3>1, LeadsFrom DEF SlotInv
    <3>6. listening
      BY <3>1 DEF SlotInv
    <3>7. QED
      BY <3>1, <3>2, <3>3, <3>4, <3>5, <3>6 DEF SlotInv
  <2>6. CASE ReceiveRemove
    <3>1. socket # <<>> /\ Head(socket) = "remove" /\ socket' = Tail(socket) /\ pc["monitor"] = "loop"
      BY <2>6 DEF ReceiveRemove
    <3>2. UNCHANGED <<inserted, missed, listening>>
      BY <2>6 DEF ReceiveRemove
    <3>3. pc'["monitor"] \in {"loop", "umount"} /\ ~present'
      <4>1. CASE present
        BY <1>1, <2>6, <4>1 DEF ReceiveRemove, Enter, Goto
      <4>2. CASE ~present
        BY <1>1, <2>6, <3>1, <4>2 DEF ReceiveRemove
      <4>3. QED
        BY <4>1, <4>2
    <3>4. EventOf(Believed') = "remove" /\ EventOf(inserted') = EventOf(inserted)
      BY <3>2, <3>3 DEF Believed, EventOf
    <3>5. ~missed => Leads("remove", socket', EventOf(inserted))
      BY <1>1, <1>2, <3>1, LeadsFrom DEF SlotInv
    <3>6. listening
      BY <3>1 DEF SlotInv
    <3>7. QED
      BY <3>1, <3>2, <3>3, <3>4, <3>5, <3>6 DEF SlotInv
  <2>7. CASE ReadCid
    <3>1. pc'["monitor"] = "qualify" /\ pc["monitor"] = "readCid" /\ present'
      BY <1>1, <2>7, Zenon DEF ReadCid, Goto
    <3>2. QED
      BY <2>7, <3>1, SlotKept DEF ReadCid, slotVars, Believed
  <2>8. QED
    BY <1>5, <2>1, <2>2, <2>3, <2>4, <2>5, <2>6, <2>7 DEF MonitorStep
<1>6. ASSUME NEW t \in Threads, ScriptCall(t) PROVE SlotInv'
  <2>1. UNCHANGED <<inserted, socket, missed, listening, present>>
    BY <1>6 DEF ScriptCall, Mount, RunMount, SetMounted, Umount, UmountLock, RunUmount,
                ClearMounted, slotVars, cardVars
  <2>2. pc'["monitor"] = pc["monitor"] \/ {pc["monitor"], pc'["monitor"]} \cap {"check", "readCid"} = {}
    BY <1>1, <1>6 DEF ScriptCall, Mount, RunMount, SetMounted, Umount, UmountLock, RunUmount,
                      ClearMounted, MountReturns, Goto
  <2>3. QED
    BY <2>1, <2>2 DEF SlotInv, Leads, Believed, EventOf
<1>7. CASE UNCHANGED vars
  BY <1>7 DEF vars, slotVars, cardVars, SlotInv, Leads, Believed, EventOf
<1>8. QED
  BY <1>3, <1>4, <1>5, <1>6, <1>7 DEF Next

(* Once the monitor thread has received every event it knows whether there *)
(* is a card in the slot, provided the kernel dropped none.                *)
THEOREM PresenceIsRight == Spec => []PresenceFollowsSlot
<1>1. Init => SlotInv /\ GoodInv
  BY DEF Init, SlotInv, GoodInv, Threads, Umounting, Mounting
<1>2. TypeOK /\ SlotInv => PresenceFollowsSlot
  <2> SUFFICES ASSUME TypeOK, SlotInv, pc["monitor"] = "loop", socket = <<>>, ~missed
               PROVE  present <=> inserted
    BY DEF PresenceFollowsSlot
  <2>1. EventOf(Believed) = EventOf(inserted)
    BY DEF SlotInv, Leads
  <2>2. QED
    BY <2>1 DEF EventOf, Believed
<1>3. QED
  BY <1>1, <1>2, GoodStep, SlotStep, TypeCorrect, PTL DEF Spec

-----------------------------------------------------------------------------
(* The way of a thread through a handler.                                  *)

\* Where a thread that is not idle may be next.
After == [
  check        |-> {"qualify", "startMonitor"},
  readCid      |-> {"qualify"},
  qualify      |-> {"mount", "startMonitor", "loop"},
  startMonitor |-> {"loop"},
  mount        |-> {"mountScript", "mountDone", "loop"},
  mountScript  |-> {"mountFlag", "mountDone", "loop"},
  mountFlag    |-> {"mountDone", "loop"},
  mountDone    |-> {"startMonitor", "loop"},
  umount       |-> {"umountLock", "loop"},
  umountLock   |-> {"umountScript"},
  umountScript |-> {"umountFlag", "loop"},
  umountFlag   |-> {"loop"}]

\* The power handler is idle or in a script call.
PowerInv == pc["power"] \in Calls \cup {"loop"}

LEMMA PowerStep == TypeOK /\ PowerInv /\ [Next]_vars => PowerInv'
<1> SUFFICES ASSUME TypeOK, PowerInv, [Next]_vars PROVE PowerInv'
  OBVIOUS
<1> USE DEF PowerInv, Threads, Calls
<1>1. pc \in [Threads -> OwnPlaces \cup Calls \cup {"loop"}]
  BY DEF TypeOK
<1>2. ASSUME NEW e \in {"add", "remove"}, Swap(e) PROVE PowerInv'
  BY <1>2 DEF Swap
<1>3. ASSUME NEW call \in {"mount", "umount"}, PowerEvent(call) PROVE PowerInv'
  BY <1>1, <1>3 DEF PowerEvent, Enter, Goto
<1>4. CASE MonitorStep
  BY <1>1, <1>4 DEF MonitorStep, CheckSlot, ReadCid, Qualify, MountDone, StartMonitor,
                    ReceiveAdd, ReceiveRemove, Enter, Goto
<1>5. ASSUME NEW t \in Threads, ScriptCall(t) PROVE PowerInv'
  BY <1>1, <1>5 DEF ScriptCall, Mount, RunMount, SetMounted, Umount, UmountLock, RunUmount,
                    ClearMounted, MountReturns, Goto
<1>6. CASE UNCHANGED vars
  BY <1>6 DEF vars
<1>7. QED
  BY <1>2, <1>3, <1>4, <1>5, <1>6 DEF Next

\* A step within a script call moves its thread, and no other.
LEMMA CallMoves ==
  ASSUME TypeOK, NEW t \in Threads, ScriptCall(t)
  PROVE  /\ pc[t] \in Calls /\ pc'[t] \in After[pc[t]] /\ pc'[t] # pc[t]
         /\ \A u \in Threads \ {t} : pc'[u] = pc[u]
<1> USE DEF Threads, Calls, After
<1>1. pc \in [Threads -> OwnPlaces \cup Calls \cup {"loop"}]
  BY DEF TypeOK
<1>2. CASE Mount(t)
  <2>1. PICK l \in {"mountScript", "mountDone", "loop"} : pc' = [pc EXCEPT ![t] = l]
    BY <1>2 DEF Mount, MountReturns, Goto
  <2>2. QED
    BY <1>1, <1>2, <2>1 DEF Mount
<1>3. CASE RunMount(t)
  <2>1. PICK l \in {"mountFlag", "mountDone", "loop"} : pc' = [pc EXCEPT ![t] = l]
    BY <1>3 DEF RunMount, MountReturns, Goto
  <2>2. QED
    BY <1>1, <1>3, <2>1 DEF RunMount
<1>4. CASE SetMounted(t)
  BY <1>1, <1>4 DEF SetMounted, MountReturns, Goto
<1>5. CASE Umount(t)
  BY <1>1, <1>5 DEF Umount, Goto
<1>6. CASE UmountLock(t)
  BY <1>1, <1>6 DEF UmountLock, Goto
<1>7. CASE RunUmount(t)
  BY <1>1, <1>7 DEF RunUmount, Goto
<1>8. CASE ClearMounted(t)
  BY <1>1, <1>8 DEF ClearMounted, Goto
<1>9. QED
  BY <1>2, <1>3, <1>4, <1>5, <1>6, <1>7, <1>8 DEF ScriptCall

\* A step of the monitor thread itself moves it, and no other.
LEMMA MonitorMoves ==
  ASSUME TypeOK, MonitorStep
  PROVE  /\ pc["monitor"] \in OwnPlaces \cup {"loop"}
         /\ pc["monitor"] # "loop" =>
              pc'["monitor"] \in After[pc["monitor"]] /\ pc'["monitor"] # pc["monitor"]
         /\ pc'["power"] = pc["power"]
<1> USE DEF Threads, Calls, After, OwnPlaces
<1>1. pc \in [Threads -> OwnPlaces \cup Calls \cup {"loop"}]
  BY DEF TypeOK
<1>2. CASE CheckSlot
  BY <1>1, <1>2 DEF CheckSlot, Goto
<1>3. CASE ReadCid
  BY <1>1, <1>3 DEF ReadCid, Goto
<1>4. CASE Qualify
  BY <1>1, <1>4 DEF Qualify, Enter, Goto, AfterAdd
<1>5. CASE MountDone
  BY <1>1, <1>5 DEF MountDone, Goto, AfterAdd
<1>6. CASE StartMonitor
  BY <1>1, <1>6 DEF StartMonitor, Goto
<1>7. CASE ReceiveAdd
  BY <1>1, <1>7 DEF ReceiveAdd, Goto
<1>8. CASE ReceiveRemove
  BY <1>1, <1>8 DEF ReceiveRemove, Enter, Goto
<1>9. QED
  BY <1>2, <1>3, <1>4, <1>5, <1>6, <1>7, <1>8 DEF MonitorStep

\* A thread in a handler stays where it is or goes on.
LEMMA HandlerGoesOn ==
  ASSUME TypeOK, [Next]_vars, NEW t \in Threads, pc[t] # "loop"
  PROVE  pc'[t] = pc[t] \/ pc'[t] \in After[pc[t]]
<1>1. ASSUME NEW e \in {"add", "remove"}, Swap(e) PROVE pc'[t] = pc[t]
  BY <1>1 DEF Swap
<1>2. ASSUME NEW call \in {"mount", "umount"}, PowerEvent(call) PROVE pc'[t] = pc[t]
  BY <1>2 DEF PowerEvent, Enter, Goto, Threads, TypeOK
<1>3. CASE MonitorStep
  BY <1>3, MonitorMoves DEF Threads
<1>4. ASSUME NEW u \in Threads, ScriptCall(u) PROVE pc'[t] = pc[t] \/ pc'[t] \in After[pc[t]]
  BY <1>4, CallMoves
<1>5. CASE UNCHANGED vars
  BY <1>5 DEF vars
<1>6. QED
  BY <1>1, <1>2, <1>3, <1>4, <1>5 DEF Next

-----------------------------------------------------------------------------
(* Liveness.  The prover knows nothing of ENABLED; what it must know of it *)
(* is HandlersWaitForTheLockOnly, a state predicate that TLC checks.       *)

Leaves(t, l) == pc[t] = l ~> pc[t] \in After[l]

Comes(t, l) == pc[t] = l ~> pc[t] = "loop"

Frees(t) == lock = t ~> lock = None

SafeInv == TypeOK /\ LockInv /\ PowerInv

LEMMA SafeSpec == Spec => []SafeInv /\ [][Next]_vars
<1>1. Init => SafeInv
  BY InitTyped, LegacyCardAssumption DEF Init, SafeInv, LockInv, PowerInv, Threads, Scripts
<1>2. SafeInv /\ [Next]_vars => SafeInv'
  BY TypeStep, LockStep, PowerStep DEF SafeInv
<1>3. QED
  BY <1>1, <1>2, PTL DEF Spec

\* The fairness of one thread, from that of all.
LEMMA FairToEach ==
  ASSUME NEW t \in Threads
  PROVE  FairSpec => FairTo(t)
<1>1. FairCalls => FairTo(t)
  BY DEF FairCalls
<1>2. QED
  BY <1>1, PTL DEF FairSpec

LEMMA Waits ==
  ASSUME NEW t \in Threads
  PROVE  HandlersWaitForTheLockOnly => CallWaitsForTheLockOnly(t)
BY DEF HandlersWaitForTheLockOnly

\* In a script call, but not at the lock, a thread goes on.
LEMMA CallLeaves ==
  ASSUME NEW t \in Threads, NEW l \in Calls \ {"mount", "umountLock"}
  PROVE  FairSpec /\ []HandlersWaitForTheLockOnly => Leaves(t, l)
<1>1. SafeInv /\ [Next]_vars /\ pc[t] = l => (pc[t] = l)' \/ (pc[t] \in After[l])'
  BY HandlerGoesOn DEF SafeInv, Calls
<1>2. SafeInv /\ pc[t] = l /\ <<ScriptCall(t)>>_vars => (pc[t] \in After[l])'
  BY CallMoves DEF SafeInv
<1>3. HandlersWaitForTheLockOnly => (pc[t] = l => ENABLED <<ScriptCall(t)>>_vars)
  BY Waits DEF CallWaitsForTheLockOnly
<1>4. FairSpec => FairTo(t)
  BY FairToEach
<1>5. QED
  BY <1>1, <1>2, <1>3, <1>4, SafeSpec, PTL DEF FairSpec, FairTo, Leaves

\* The monitor thread goes on where it is in no script call.
LEMMA MonitorLeaves ==
  ASSUME NEW l \in OwnPlaces
  PROVE  FairSpec /\ []HandlersWaitForTheLockOnly => Leaves("monitor", l)
<1>1. SafeInv /\ [Next]_vars /\ pc["monitor"] = l =>
        (pc["monitor"] = l)' \/ (pc["monitor"] \in After[l])'
  BY HandlerGoesOn DEF SafeInv, OwnPlaces, Threads
<1>2. SafeInv /\ pc["monitor"] = l /\ <<MonitorStep>>_vars => (pc["monitor"] \in After[l])'
  BY MonitorMoves DEF SafeInv, OwnPlaces
<1>3. HandlersWaitForTheLockOnly => (pc["monitor"] = l => ENABLED <<MonitorStep>>_vars)
  BY DEF HandlersWaitForTheLockOnly
<1>4. QED
  BY <1>1, <1>2, <1>3, SafeSpec, PTL DEF FairSpec, Leaves

\* Whoever has the lock is in a script, and gives it back after it.
LEMMA LockComesFree ==
  ASSUME NEW u \in Threads
  PROVE  FairSpec /\ []HandlersWaitForTheLockOnly => Frees(u)
<1>1. SafeInv /\ [Next]_vars /\ lock = u => (lock = u)' \/ (lock = None)'
  BY LegacyCardAssumption DEF SafeInv, LockInv, Next, vars, Swap, PowerEvent, MonitorStep, CheckSlot,
     ReadCid, Qualify, MountDone, StartMonitor, ReceiveAdd, ReceiveRemove, ScriptCall, Mount,
     RunMount, SetMounted, Umount, UmountLock, RunUmount, ClearMounted, Threads
<1>2. SafeInv /\ lock = u => pc[u] \in Scripts
  BY DEF SafeInv, LockInv
<1>3. SafeInv /\ lock = u /\ <<ScriptCall(u)>>_vars => (lock = None)'
  BY <1>2, LegacyCardAssumption DEF ScriptCall, Mount,
     RunMount, SetMounted, Umount, UmountLock, RunUmount, ClearMounted, Scripts
<1>4. HandlersWaitForTheLockOnly => (SafeInv /\ lock = u => ENABLED <<ScriptCall(u)>>_vars)
  <2>1. SafeInv /\ lock = u => pc[u] \in Calls \ {"mount", "umountLock"}
    BY <1>2 DEF Scripts, Calls
  <2>2. CallWaitsForTheLockOnly(u) =>
          (pc[u] \in Calls \ {"mount", "umountLock"} => ENABLED <<ScriptCall(u)>>_vars)
    BY DEF CallWaitsForTheLockOnly
  <2>3. QED
    BY <2>1, <2>2, Waits
<1>5. FairSpec => FairTo(u)
  BY FairToEach
<1>6. QED
  BY <1>1, <1>3, <1>4, <1>5, SafeSpec, PTL DEF FairSpec, FairTo, Frees

\* A thread that waits for the lock gets it: the other gives it back again
\* and again.
LEMMA LockLeaves ==
  ASSUME NEW t \in Threads, NEW l \in {"mount", "umountLock"}
  PROVE  FairSpec /\ []HandlersWaitForTheLockOnly => Leaves(t, l)
<1>1. SafeInv /\ [Next]_vars /\ pc[t] = l => (pc[t] = l)' \/ (pc[t] \in After[l])'
  BY HandlerGoesOn DEF SafeInv
<1>2. SafeInv => lock = None \/ lock = "monitor" \/ lock = "power"
  BY DEF SafeInv, TypeOK, Threads
<1>3. FairSpec /\ []HandlersWaitForTheLockOnly => Frees("monitor")
  BY LockComesFree DEF Threads
<1>4. FairSpec /\ []HandlersWaitForTheLockOnly => Frees("power")
  BY LockComesFree DEF Threads
<1>5. FairSpec => FairTo(t)
  BY FairToEach
<1>6. CASE l = "mount"
  <2>1. SafeInv /\ pc[t] = l /\ <<Mount(t)>>_vars => (pc[t] \in After[l])'
    BY CallMoves DEF SafeInv, ScriptCall
  <2>2. HandlersWaitForTheLockOnly => (pc[t] = l /\ lock = None => ENABLED <<Mount(t)>>_vars)
    BY <1>6, Waits DEF CallWaitsForTheLockOnly
  <2>3. QED
    BY <1>1, <1>2, <1>3, <1>4, <1>5, <2>1, <2>2, SafeSpec, PTL DEF FairSpec, FairTo, Leaves, Frees
<1>7. CASE l = "umountLock"
  <2>1. SafeInv /\ pc[t] = l /\ <<UmountLock(t)>>_vars => (pc[t] \in After[l])'
    BY CallMoves DEF SafeInv, ScriptCall
  <2>2. HandlersWaitForTheLockOnly => (pc[t] = l /\ lock = None => ENABLED <<UmountLock(t)>>_vars)
    BY <1>7, Waits DEF CallWaitsForTheLockOnly
  <2>3. QED
    BY <1>1, <1>2, <1>3, <1>4, <1>5, <2>1, <2>2, SafeSpec, PTL DEF FairSpec, FairTo, Leaves, Frees
<1>8. QED
  BY <1>6, <1>7

\* From every place in a handler a thread comes back to its loop.
LEMMA ThreadComes ==
  ASSUME NEW t \in Threads
  PROVE  FairSpec /\ []HandlersWaitForTheLockOnly => Finishes(t)
<1> DEFINE Sure == FairSpec /\ []HandlersWaitForTheLockOnly
<1>1. Sure => Leaves(t, "mount")
  BY LockLeaves
<1>2. Sure => Leaves(t, "umountLock")
  BY LockLeaves
<1>3. Sure => /\ Leaves(t, "mountScript") /\ Leaves(t, "mountFlag") /\ Leaves(t, "umount")
              /\ Leaves(t, "umountScript") /\ Leaves(t, "umountFlag")
  BY CallLeaves DEF Calls
<1>4. /\ After["mount"] = {"mountScript", "mountDone", "loop"}
      /\ After["mountScript"] = {"mountFlag", "mountDone", "loop"}
      /\ After["mountFlag"] = {"mountDone", "loop"}
      /\ After["umount"] = {"umountLock", "loop"}
      /\ After["umountLock"] = {"umountScript"}
      /\ After["umountScript"] = {"umountFlag", "loop"}
      /\ After["umountFlag"] = {"loop"}
      /\ After["mountDone"] = {"startMonitor", "loop"}
      /\ After["startMonitor"] = {"loop"}
      /\ After["qualify"] = {"mount", "startMonitor", "loop"}
      /\ After["check"] = {"qualify", "startMonitor"}
      /\ After["readCid"] = {"qualify"}
  BY DEF After
<1>5. /\ pc[t] \in After["mount"] => pc[t] = "mountScript" \/ pc[t] = "mountDone" \/ pc[t] = "loop"
      /\ pc[t] \in After["mountScript"] => pc[t] = "mountFlag" \/ pc[t] = "mountDone" \/ pc[t] = "loop"
      /\ pc[t] \in After["mountFlag"] => pc[t] = "mountDone" \/ pc[t] = "loop"
      /\ pc[t] \in After["umount"] => pc[t] = "umountLock" \/ pc[t] = "loop"
      /\ pc[t] \in After["umountLock"] => pc[t] = "umountScript"
      /\ pc[t] \in After["umountScript"] => pc[t] = "umountFlag" \/ pc[t] = "loop"
      /\ pc[t] \in After["umountFlag"] => pc[t] = "loop"
      /\ pc[t] \in After["mountDone"] => pc[t] = "startMonitor" \/ pc[t] = "loop"
      /\ pc[t] \in After["startMonitor"] => pc[t] = "loop"
      /\ pc[t] \in After["qualify"] => pc[t] = "mount" \/ pc[t] = "startMonitor" \/ pc[t] = "loop"
      /\ pc[t] \in After["check"] => pc[t] = "qualify" \/ pc[t] = "startMonitor"
      /\ pc[t] \in After["readCid"] => pc[t] = "qualify"
  BY <1>4
<1>6. Sure => /\ Comes(t, "umountFlag") /\ Comes(t, "umountScript") /\ Comes(t, "umountLock")
              /\ Comes(t, "umount")
  BY <1>2, <1>3, <1>5, PTL DEF Leaves, Comes
<1>7. CASE t = "monitor"
  <2>1. Sure => /\ Leaves(t, "check") /\ Leaves(t, "readCid") /\ Leaves(t, "qualify")
                /\ Leaves(t, "startMonitor") /\ Leaves(t, "mountDone")
    BY <1>7, MonitorLeaves DEF OwnPlaces
  <2>2. SafeInv /\ pc[t] # "loop" =>
          \/ pc[t] = "check" \/ pc[t] = "readCid" \/ pc[t] = "qualify" \/ pc[t] = "startMonitor"
          \/ pc[t] = "mountDone" \/ pc[t] = "mount" \/ pc[t] = "mountScript" \/ pc[t] = "mountFlag"
          \/ pc[t] = "umount" \/ pc[t] = "umountLock" \/ pc[t] = "umountScript"
          \/ pc[t] = "umountFlag"
    BY DEF SafeInv, TypeOK, OwnPlaces, Calls
  <2>3. Sure => Comes(t, "startMonitor") /\ Comes(t, "mountDone")
    BY <1>5, <2>1, PTL DEF Leaves, Comes
  <2>4. Sure => Comes(t, "mountFlag") /\ Comes(t, "mountScript") /\ Comes(t, "mount")
    BY <1>1, <1>3, <1>5, <2>3, PTL DEF Leaves, Comes
  <2>5. Sure => Comes(t, "qualify") /\ Comes(t, "readCid") /\ Comes(t, "check")
    BY <1>5, <2>1, <2>3, <2>4, PTL DEF Leaves, Comes
  <2>6. QED
    BY <1>6, <2>2, <2>3, <2>4, <2>5, SafeSpec, PTL DEF FairSpec, Comes, Finishes
<1>8. CASE t = "power"
  <2>1. SafeInv => ~(pc[t] = "mountDone")
    BY <1>8 DEF SafeInv, PowerInv, Calls
  <2>2. SafeInv /\ pc[t] # "loop" =>
          \/ pc[t] = "mount" \/ pc[t] = "mountScript" \/ pc[t] = "mountFlag"
          \/ pc[t] = "umount" \/ pc[t] = "umountLock" \/ pc[t] = "umountScript"
          \/ pc[t] = "umountFlag"
    BY <1>8 DEF SafeInv, PowerInv, Calls
  <2>3. Sure => Comes(t, "mountFlag") /\ Comes(t, "mountScript") /\ Comes(t, "mount")
    BY <1>1, <1>3, <1>5, <2>1, SafeSpec, PTL DEF FairSpec, Leaves, Comes
  <2>4. QED
    BY <1>6, <2>2, <2>3, SafeSpec, PTL DEF FairSpec, Comes, Finishes
<1>9. QED
  BY <1>7, <1>8 DEF Threads

(* Every power event, and every card that comes or goes, is dealt with in  *)
(* the end, provided that a thread is kept waiting by mountLock only: the  *)
(* lock comes back, no thread is passed over at it for ever, and no way    *)
(* through a handler leads back to where it began.                         *)
THEOREM HandlersReturn == FairSpec /\ []HandlersWaitForTheLockOnly => HandlersFinish
<1>1. FairSpec /\ []HandlersWaitForTheLockOnly => \A t \in Threads : Finishes(t)
  BY ThreadComes
<1>2. QED
  BY <1>1 DEF HandlersFinish
=============================================================================
