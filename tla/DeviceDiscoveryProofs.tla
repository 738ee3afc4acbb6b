----------------------- MODULE DeviceDiscoveryProofs -----------------------
(***************************************************************************)
(* Proofs about discovery, for any nodes and devices and sockets of any    *)
(* size: what the events on their way and the thread have yet to do to a   *)
(* node makes the table right about it, unless one was lost; and that they *)
(* do it in the end.                                                       *)
(***************************************************************************)
EXTENDS DeviceDiscovery, SequenceTheorems, TLAPS

-----------------------------------------------------------------------------
(* Queues of events.  None is ever about the flash.                        *)

RealEvent   == {e \in Event : KindOf[e.dev] # "UBI"}
Removes(p)  == {e \in Event : e.path = p /\ e.act = "remove"}
Adds(p)     == {e \in Event : e.path = p /\ e.act = "add"}
AddsOf(p,d) == {e \in Adds(p) : e.dev = d}

Has(s, E) == \E i \in 1..Len(s) : s[i] \in E
Later(s, i, E) == \E j \in 1..Len(s) : i < j /\ s[j] \in E

\* The events of s about p, and those of t after them, lead to d being there:
\* an addition of another device is followed by a removal, a removal by an
\* addition if d is one.
Orderly(s, t, p, d) ==
  \A i \in 1..Len(s) :
    /\ s[i] \in Adds(p) => s[i].dev = d \/ Later(s, i, Removes(p)) \/ Has(t, Removes(p))
    /\ s[i] \in Removes(p) => d = None \/ Later(s, i, Adds(p)) \/ Has(t, Adds(p))

\* An event at the end is one more event the queue has,
LEMMA HasAppend ==
  ASSUME NEW S, NEW s \in Seq(S), NEW e \in S, NEW E
  PROVE  Has(Append(s, e), E) <=> Has(s, E) \/ e \in E
<1>1. /\ Len(s) \in Nat /\ Len(Append(s, e)) = Len(s) + 1
      /\ \A i \in 1..Len(s) : Append(s, e)[i] = s[i]
      /\ Append(s, e)[Len(s) + 1] = e
  BY AppendProperties, LenProperties
<1> DEFINE r == Append(s, e)
<1> HIDE DEF r
<1>2. \A i \in 1..(Len(s) + 1) : i = Len(s) + 1 \/ i \in 1..Len(s)
  BY <1>1
<1>3. QED
  BY <1>1, <1>2 DEF Has, r

\* and the head is one less when it goes.
LEMMA HasTail ==
  ASSUME NEW S, NEW s \in Seq(S), s # <<>>, NEW E
  PROVE  Has(s, E) <=> Head(s) \in E \/ Has(Tail(s), E)
<1> DEFINE r == Tail(s)
<1>1. /\ Len(s) \in Nat \ {0} /\ Len(r) = Len(s) - 1 /\ Head(s) = s[1]
      /\ \A i \in 1..Len(r) : r[i] = s[i + 1]
  BY HeadTailProperties, EmptySeq
<1> HIDE DEF r
<1>2. ASSUME Has(s, E) PROVE s[1] \in E \/ Has(r, E)
  <2>1. PICK i \in 1..Len(s) : s[i] \in E
    BY <1>2 DEF Has
  <2>2. CASE i = 1
    BY <2>1, <2>2
  <2>3. CASE i # 1
    <3>1. i - 1 \in 1..Len(r) /\ r[i - 1] = s[(i - 1) + 1] /\ (i - 1) + 1 = i
      BY <1>1, <2>3
    <3>2. QED
      BY <2>1, <3>1 DEF Has
  <2>4. QED
    BY <2>2, <2>3
<1>3. ASSUME Has(r, E) PROVE Has(s, E)
  <2>1. PICK i \in 1..Len(r) : r[i] \in E
    BY <1>3 DEF Has
  <2>2. i + 1 \in 1..Len(s) /\ s[i + 1] \in E
    BY <1>1, <2>1
  <2>3. QED
    BY <2>2 DEF Has
<1>4. 1 \in 1..Len(s)
  BY <1>1
<1>5. QED
  BY <1>1, <1>2, <1>3, <1>4 DEF Has, r

\* A queue that loses its head stays orderly, and the rest makes up for the head.
LEMMA OrderlyTail ==
  ASSUME NEW S, NEW s \in Seq(S), s # <<>>, NEW t, NEW p, NEW d, Orderly(s, t, p, d)
  PROVE  /\ Orderly(Tail(s), t, p, d)
         /\ Head(s) \in Adds(p) =>
              Head(s).dev = d \/ Has(Tail(s), Removes(p)) \/ Has(t, Removes(p))
         /\ Head(s) \in Removes(p) =>
              d = None \/ Has(Tail(s), Adds(p)) \/ Has(t, Adds(p))
<1> DEFINE r == Tail(s)
<1>1. /\ Len(s) \in Nat \ {0} /\ Len(r) = Len(s) - 1 /\ Head(s) = s[1]
      /\ \A i \in 1..Len(r) : r[i] = s[i + 1]
  BY HeadTailProperties, EmptySeq
<1> HIDE DEF r
<1>2. ASSUME NEW E, NEW i \in 0..Len(r), Later(s, i + 1, E) PROVE Later(r, i, E)
  <2>1. PICK j \in 1..Len(s) : i + 1 < j /\ s[j] \in E
    BY <1>2 DEF Later
  <2>2. /\ j - 1 \in 1..Len(r) /\ i < j - 1
        /\ r[j - 1] = s[(j - 1) + 1] /\ (j - 1) + 1 = j
    BY <1>1, <2>1
  <2>3. QED
    BY <2>1, <2>2 DEF Later
<1>3. Orderly(r, t, p, d)
  <2> SUFFICES ASSUME NEW i \in 1..Len(r)
               PROVE  /\ r[i] \in Adds(p) =>
                           r[i].dev = d \/ Later(r, i, Removes(p)) \/ Has(t, Removes(p))
                      /\ r[i] \in Removes(p) =>
                           d = None \/ Later(r, i, Adds(p)) \/ Has(t, Adds(p))
    BY DEF Orderly
  <2>1. i + 1 \in 1..Len(s) /\ r[i] = s[i + 1] /\ i \in 0..Len(r)
    BY <1>1
  <2>2. QED
    BY <1>2, <2>1 DEF Orderly
<1>4. ASSUME NEW E, Later(s, 1, E) PROVE Has(r, E)
  <2>1. 0 \in 0..Len(r) /\ 0 + 1 = 1
    BY <1>1
  <2>2. Later(r, 0, E)
    BY <1>2, <1>4, <2>1
  <2>3. QED
    BY <2>2 DEF Later, Has
<1>5. 1 \in 1..Len(s)
  BY <1>1
<1>6. QED
  BY <1>1, <1>3, <1>4, <1>5 DEF Orderly, r

\* An empty queue.
LEMMA NothingAhead ==
  ASSUME NEW t, NEW p, NEW d
  PROVE  Orderly(<<>>, t, p, d) /\ \A E : ~Has(<<>>, E)
<1>1. Len(<<>>) = 0 /\ 1..0 = {}
  OBVIOUS
<1>2. QED
  BY <1>1 DEF Orderly, Has

\* What can happen at node p when d is there, and c is there afterwards, with
\* the event e that tells of it.
Happens(p, d, c, e) ==
  \/ c = d /\ e \notin Adds(p) /\ e \notin Removes(p)
  \/ c # None /\ d = None /\ e \in AddsOf(p, c)
  \/ c = None /\ e \in Removes(p)

\* A queue goes on being orderly when what happens to the device goes to its
\* end,
LEMMA OrderlyAppend ==
  ASSUME NEW s \in Seq(RealEvent), NEW e \in RealEvent,
         NEW p \in Paths, NEW d, NEW c, Orderly(s, <<>>, p, d), Happens(p, d, c, e)
  PROVE  Orderly(Append(s, e), <<>>, p, c)
<1>1. /\ Len(s) \in Nat /\ Len(Append(s, e)) = Len(s) + 1
      /\ \A i \in 1..Len(s) : Append(s, e)[i] = s[i] /\ s[i] \in Event
      /\ Append(s, e)[Len(s) + 1] = e
  BY AppendProperties, LenProperties, ElementOfSeq DEF RealEvent
<1> DEFINE r == Append(s, e)
<1> HIDE DEF r
<1>2. ASSUME NEW i \in 1..Len(s), NEW E, e \in E PROVE Later(r, i, E)
  <2>1. Len(s) + 1 \in 1..Len(r) /\ i < Len(s) + 1 /\ r[Len(s) + 1] \in E
    BY <1>1, <1>2 DEF r
  <2>2. QED
    BY <2>1 DEF Later
<1>3. ASSUME NEW i \in 1..Len(s), NEW E, Later(s, i, E) PROVE Later(r, i, E)
  BY <1>1, <1>3 DEF Later, r
<1>4. ASSUME NEW i \in 1..Len(s)
      PROVE  /\ r[i] \in Adds(p) => r[i].dev = c \/ Later(r, i, Removes(p))
             /\ r[i] \in Removes(p) => c = None \/ Later(r, i, Adds(p))
  <2>1. r[i] = s[i] /\ s[i] \in Event
    BY <1>1 DEF r
  <2>2. /\ s[i] \in Adds(p) => s[i].dev = d \/ Later(s, i, Removes(p))
        /\ s[i] \in Removes(p) => d = None \/ Later(s, i, Adds(p))
    BY NothingAhead DEF Orderly
  <2>3. CASE c = d /\ e \notin Adds(p) /\ e \notin Removes(p)
    BY <1>3, <2>1, <2>2, <2>3
  <2>4. CASE c # None /\ d = None /\ e \in AddsOf(p, c)
    <3>1. s[i].dev # None
      BY <2>1, DeviceDiscoveryAssumption DEF Event
    <3>2. e \in Adds(p)
      BY <2>4 DEF AddsOf
    <3>3. QED
      BY <1>2, <1>3, <2>1, <2>2, <2>4, <3>1, <3>2
  <2>5. CASE c = None /\ e \in Removes(p)
    BY <1>2, <2>1, <2>5
  <2>6. QED
    BY <2>3, <2>4, <2>5 DEF Happens
<1>5. /\ e \in Adds(p) => e.dev = c
      /\ e \in Removes(p) => c = None
  BY DEF Happens, AddsOf, Adds, Removes
<1>6. \A i \in 1..Len(r) : i \in 1..Len(s) \/ r[i] = e
  BY <1>1 DEF r
<1>7. QED
  BY <1>4, <1>5, <1>6 DEF Orderly, r

\* or to the end of the queue behind it.
LEMMA OrderlyBehind ==
  ASSUME NEW s \in Seq(RealEvent), NEW t \in Seq(RealEvent), NEW e \in RealEvent,
         NEW p \in Paths, NEW d, NEW c, Orderly(s, t, p, d), Happens(p, d, c, e)
  PROVE  Orderly(s, Append(t, e), p, c)
<1>1. ASSUME NEW E PROVE Has(Append(t, e), E) <=> Has(t, E) \/ e \in E
  BY HasAppend
<1> SUFFICES ASSUME NEW i \in 1..Len(s)
             PROVE  /\ s[i] \in Adds(p) =>
                         \/ s[i].dev = c
                         \/ Later(s, i, Removes(p)) \/ Has(Append(t, e), Removes(p))
                    /\ s[i] \in Removes(p) =>
                         \/ c = None
                         \/ Later(s, i, Adds(p)) \/ Has(Append(t, e), Adds(p))
  BY DEF Orderly
<1>2. /\ s[i] \in Adds(p) => s[i].dev = d \/ Later(s, i, Removes(p)) \/ Has(t, Removes(p))
      /\ s[i] \in Removes(p) => d = None \/ Later(s, i, Adds(p)) \/ Has(t, Adds(p))
  BY DEF Orderly
<1>3. s[i].dev # None
  <2>1. s[i] \in Event
    BY ElementOfSeq DEF RealEvent
  <2>2. QED
    BY <2>1, DeviceDiscoveryAssumption DEF Event
<1>4. e \in AddsOf(p, c) => e \in Adds(p)
  BY DEF AddsOf
<1>5. QED
  BY <1>1, <1>2, <1>3, <1>4 DEF Happens

\* Two queues stay orderly when the oldest event of the second passes to the
\* first,
LEMMA OrderlyPassed ==
  ASSUME NEW S, NEW s \in Seq(S), NEW t \in Seq(S), t # <<>>, NEW p, NEW d,
         Orderly(s, t, p, d), Orderly(t, <<>>, p, d)
  PROVE  Orderly(Append(s, Head(t)), Tail(t), p, d)
<1> DEFINE e == Head(t)
           r == Append(s, e)
<1>1. /\ Len(s) \in Nat /\ Len(r) = Len(s) + 1
      /\ \A i \in 1..Len(s) : r[i] = s[i]
      /\ r[Len(s) + 1] = e
  <2>1. e \in S
    BY HeadTailProperties
  <2> HIDE DEF e
  <2>2. QED
    BY <2>1, AppendProperties, LenProperties
<1>2. /\ e \in Adds(p) => e.dev = d \/ Has(Tail(t), Removes(p))
      /\ e \in Removes(p) => d = None \/ Has(Tail(t), Adds(p))
  BY OrderlyTail, NothingAhead
<1>3. ASSUME NEW E PROVE Has(t, E) <=> e \in E \/ Has(Tail(t), E)
  BY HasTail
<1> HIDE DEF e, r
<1>4. ASSUME NEW i \in 1..Len(s), NEW E, e \in E PROVE Later(r, i, E)
  <2>1. Len(s) + 1 \in 1..Len(r) /\ i < Len(s) + 1 /\ r[Len(s) + 1] \in E
    BY <1>1, <1>4
  <2>2. QED
    BY <2>1 DEF Later
<1>5. ASSUME NEW i \in 1..Len(s), NEW E, Later(s, i, E) PROVE Later(r, i, E)
  BY <1>1, <1>5 DEF Later
<1>6. ASSUME NEW i \in 1..Len(s)
      PROVE  /\ r[i] \in Adds(p) =>
                  r[i].dev = d \/ Later(r, i, Removes(p)) \/ Has(Tail(t), Removes(p))
             /\ r[i] \in Removes(p) =>
                  d = None \/ Later(r, i, Adds(p)) \/ Has(Tail(t), Adds(p))
  <2>1. r[i] = s[i]
    BY <1>1
  <2>2. /\ s[i] \in Adds(p) => s[i].dev = d \/ Later(s, i, Removes(p)) \/ Has(t, Removes(p))
        /\ s[i] \in Removes(p) => d = None \/ Later(s, i, Adds(p)) \/ Has(t, Adds(p))
    BY DEF Orderly
  <2>3. QED
    BY <1>3, <1>4, <1>5, <2>1, <2>2
<1>7. \A i \in 1..Len(r) : i \in 1..Len(s) \/ r[i] = e
  BY <1>1
<1>8. Orderly(r, Tail(t), p, d)
  BY <1>2, <1>6, <1>7 DEF Orderly
<1>9. QED
  BY <1>8 DEF e, r

\* or when it is lost and was not about p.
LEMMA OrderlyLost ==
  ASSUME NEW S, NEW s, NEW t \in Seq(S), t # <<>>, NEW p, NEW d, Orderly(s, t, p, d),
         Head(t) \notin Adds(p), Head(t) \notin Removes(p)
  PROVE  Orderly(s, Tail(t), p, d)
<1>1. /\ Has(t, Adds(p)) <=> Has(Tail(t), Adds(p))
      /\ Has(t, Removes(p)) <=> Has(Tail(t), Removes(p))
  BY HasTail
<1>2. QED
  BY <1>1 DEF Orderly

-----------------------------------------------------------------------------
(* Types, and what goes with the place at which the thread stands.         *)

PlaceInv ==
  /\ udevd \in Seq(RealEvent) /\ socket \in Seq(RealEvent)
  /\ listening <=> pc \in {"idle", "eventAdd", "pause"}
  /\ ~listening => socket = <<>>
  /\ cur # None <=> pc \in {"scanAdd", "eventAdd"}
  /\ cur # None => KindOf[cur.dev] \in {"SD", "MMC", "ATA"}
  /\ todo # {} => pc \in {"scan", "scanAdd"}
  /\ \A x \in todo : KindOf[x.dev] # "UBI"

Shape == TypeOK /\ PlaceInv

LEMMA EmptyQueue ==
  /\ <<>> \in Seq(Event) /\ <<>> \in Seq(RealEvent)
  /\ Len(<<>>) = 0
OBVIOUS

\* Types and places, at the start and in every step.
LEMMA InitShape == Init => Shape
<1> SUFFICES ASSUME Init PROVE Shape
  OBVIOUS
<1>1. /\ udevd \in Seq(Event) /\ udevd \in Seq(RealEvent) /\ Len(udevd) <= UdevdSize
      /\ socket \in Seq(Event) /\ socket \in Seq(RealEvent) /\ Len(socket) <= SocketSize
  <2>1. /\ udevd = <<>> /\ socket = <<>>
        /\ 0 <= UdevdSize /\ 0 <= SocketSize
    BY DeviceDiscoveryAssumption DEF Init
  <2>2. QED
    BY <2>1, EmptyQueue
<1>2. table \in [Paths -> Entry \cup {None}]
  BY DEF Init
<1>3. TypeOK
  BY <1>1, <1>2 DEF Init, TypeOK
<1>4. PlaceInv
  BY <1>1 DEF Init, PlaceInv
<1>5. QED
  BY <1>3, <1>4 DEF Shape

\* What is found, and what is listed, is not None;
LEMMA FoundIsSome ==
  ASSUME NEW p \in Paths, NEW d \in Devices, NEW t \in Types
  PROVE  /\ [path |-> p, dev |-> d, type |-> t] \in Found
         /\ [path |-> p, dev |-> d, type |-> t] # None
         /\ [dev |-> d, type |-> t] \in Entry
         /\ [dev |-> d, type |-> t] # None
BY DeviceDiscoveryAssumption DEF Found, Entry

\* what has a class is of a kind that is served as one.
LEMMA TypesFound ==
  ASSUME NEW p \in Paths, NEW d \in Devices
  PROVE  /\ ScanType(p, d) # None => ScanType(p, d) \in Types /\ KindOf[d] \in {"SD", "MMC", "ATA"}
         /\ EventType(p, d) # None => EventType(p, d) \in Types /\ KindOf[d] \in {"SD", "MMC", "ATA"}
BY DEF ScanType, EventType, Types

\* Cards and disks that are there have a class, disks of the scan once udevd
\* has looked at them.
LEMMA ServedHaveTypes ==
  ASSUME NEW p \in Paths, NEW d \in Devices
  PROVE  /\ KindOf[d] = "SD" \/ (KindOf[d] = "ATA" /\ p \in indb) => ScanType(p, d) \in Types
         /\ (KindOf[d] = "SD" /\ plugged[p] = d) \/ KindOf[d] = "ATA" => EventType(p, d) \in Types
BY DEF ScanType, EventType, Types

\* udevd's queue takes one more real event if it has room.
LEMMA AppendShape ==
  ASSUME Shape, NEW a \in {"add", "remove", "other"}, NEW p \in Paths, NEW d \in Devices,
         KindOf[d] # "UBI", Uevent(a, p, d)
  PROVE  /\ [act |-> a, path |-> p, dev |-> d] \in RealEvent
         /\ udevd' = Append(udevd, [act |-> a, path |-> p, dev |-> d])
         /\ udevd' \in Seq(RealEvent) /\ udevd' \in Seq(Event) /\ Len(udevd') <= UdevdSize
<1> DEFINE e == [act |-> a, path |-> p, dev |-> d]
<1>1. e \in Event /\ e \in RealEvent
  BY DEF RealEvent, Event
<1>2. udevd' = Append(udevd, e) /\ Len(udevd) < UdevdSize
  BY DEF Uevent
<1> HIDE DEF e
<1>3. /\ udevd' \in Seq(RealEvent) /\ udevd' \in Seq(Event)
      /\ Len(udevd') = Len(udevd) + 1 /\ Len(udevd) \in Nat
  BY <1>1, <1>2, AppendProperties, LenProperties DEF Shape, PlaceInv, TypeOK
<1>4. QED
  BY <1>1, <1>2, <1>3, DeviceDiscoveryAssumption DEF e

LEMMA ShapeStep == Shape /\ [Next]_vars => Shape'
<1> SUFFICES ASSUME Shape, [Next]_vars PROVE Shape'
  OBVIOUS
<1> USE DEF kernelVars, daemonVars
<1>1. ASSUME NEW p \in Paths, NEW d \in Devices, Plug(p, d) PROVE Shape'
  <2>1. KindOf[d] # "UBI" /\ Uevent("add", p, d)
    BY <1>1 DEF Plug
  <2>2. /\ udevd' \in Seq(RealEvent) /\ udevd' \in Seq(Event) /\ Len(udevd') <= UdevdSize
    BY <2>1, AppendShape
  <2>3. QED
    BY <1>1, <2>2 DEF Plug, Shape, TypeOK, PlaceInv
<1>2. ASSUME NEW p \in Paths, Unplug(p) PROVE Shape'
  <2>1. plugged[p] \in Devices /\ KindOf[plugged[p]] # "UBI" /\ Uevent("remove", p, plugged[p])
    BY <1>2 DEF Unplug, Shape, TypeOK
  <2>2. /\ udevd' \in Seq(RealEvent) /\ udevd' \in Seq(Event) /\ Len(udevd') <= UdevdSize
    BY <2>1, AppendShape
  <2>3. QED
    BY <1>2, <2>2 DEF Unplug, Shape, TypeOK, PlaceInv
<1>3. ASSUME NEW p \in Paths, Murmur(p) PROVE Shape'
  <2>1. plugged[p] \in Devices /\ KindOf[plugged[p]] # "UBI" /\ Uevent("other", p, plugged[p])
    BY <1>3 DEF Murmur, Shape, TypeOK
  <2>2. /\ udevd' \in Seq(RealEvent) /\ udevd' \in Seq(Event) /\ Len(udevd') <= UdevdSize
    BY <2>1, AppendShape
  <2>3. QED
    BY <1>3, <2>2 DEF Murmur, Shape, TypeOK, PlaceInv
<1>4. CASE Broadcast
  <2>1. /\ Head(udevd) \in RealEvent /\ Head(udevd) \in Event
        /\ Tail(udevd) \in Seq(RealEvent) /\ Tail(udevd) \in Seq(Event)
        /\ Len(Tail(udevd)) = Len(udevd) - 1 /\ Len(udevd) \in Nat
    BY <1>4, HeadTailProperties, LenProperties DEF Broadcast, Shape, TypeOK, PlaceInv
  <2>2. Len(udevd') <= UdevdSize
    BY <1>4, <2>1, DeviceDiscoveryAssumption DEF Broadcast, Shape, TypeOK
  <2>3. /\ socket' \in Seq(RealEvent) /\ socket' \in Seq(Event) /\ Len(socket') <= SocketSize
        /\ ~listening => socket' = <<>>
    <3>1. CASE listening /\ Len(socket) < SocketSize
      <4>1. socket' = Append(socket, Head(udevd))
        BY <1>4, <3>1 DEF Broadcast
      <4>2. QED
        BY <2>1, <3>1, <4>1, AppendProperties, LenProperties, DeviceDiscoveryAssumption
        DEF Shape, TypeOK, PlaceInv
    <3>2. CASE ~(listening /\ Len(socket) < SocketSize)
      BY <1>4, <3>2 DEF Broadcast, Shape, TypeOK, PlaceInv
    <3>3. QED
      BY <3>1, <3>2
  <2>4. Head(udevd).path \in Paths
    BY <2>1 DEF Event
  <2>5. indb' \subseteq Paths /\ missed' \subseteq Paths
    BY <1>4, <2>4 DEF Broadcast, Shape, TypeOK
  <2>6. QED
    BY <1>4, <2>1, <2>2, <2>3, <2>5 DEF Broadcast, Shape, TypeOK, PlaceInv
<1>5. CASE CheckUbi
  <2>1. \A p \in Paths : plugged[p] # None => [dev |-> plugged[p], type |-> "NVRAM"] \in Entry
    BY DEF Shape, TypeOK, Entry, Types
  <2>2. table' \in [Paths -> Entry \cup {None}]
    BY <1>5, <2>1 DEF CheckUbi, Shape, TypeOK
  <2>3. QED
    BY <1>5, <2>2 DEF CheckUbi, Shape, TypeOK, PlaceInv
<1>6. CASE Enumerate
  BY <1>6 DEF Enumerate, Shape, TypeOK, PlaceInv
<1>7. CASE ScanDevice
  <2>1. PICK x \in todo :
          /\ todo' = todo \ {x}
          /\ LET t == ScanType(x.path, x.dev)
             IN  IF plugged[x.path] = x.dev /\ t # None
                 THEN pc' = "scanAdd" /\ cur' = [path |-> x.path, dev |-> x.dev, type |-> t]
                 ELSE UNCHANGED <<pc, cur>>
    BY <1>7 DEF ScanDevice
  <2>2. x.path \in Paths /\ x.dev \in Devices
    BY DEF Shape, TypeOK, Place
  <2>3. CASE plugged[x.path] = x.dev /\ ScanType(x.path, x.dev) # None
    <3> DEFINE f == [path |-> x.path, dev |-> x.dev, type |-> ScanType(x.path, x.dev)]
    <3>1. f \in Found /\ f # None /\ KindOf[f.dev] \in {"SD", "MMC", "ATA"}
      BY <2>2, <2>3, FoundIsSome, TypesFound
    <3>2. cur' = f /\ pc' = "scanAdd"
      BY <2>1, <2>3
    <3> HIDE DEF f
    <3>3. QED
      BY <1>7, <2>1, <3>1, <3>2 DEF ScanDevice, Shape, TypeOK, PlaceInv
  <2>4. CASE ~(plugged[x.path] = x.dev /\ ScanType(x.path, x.dev) # None)
    BY <1>7, <2>1, <2>4 DEF ScanDevice, Shape, TypeOK, PlaceInv
  <2>5. QED
    BY <2>3, <2>4
<1>8. CASE AddCurrent
  <2>1. cur \in Found /\ cur # None
    BY <1>8 DEF AddCurrent, Shape, TypeOK, PlaceInv
  <2>2. cur.path \in Paths /\ [dev |-> cur.dev, type |-> cur.type] \in Entry
    BY <2>1 DEF Found, Entry
  <2>3. table' \in [Paths -> Entry \cup {None}]
    BY <1>8, <2>2 DEF AddCurrent, Shape, TypeOK
  <2>4. QED
    BY <1>8, <2>3 DEF AddCurrent, Shape, TypeOK, PlaceInv
<1>9. CASE StartMonitor
  BY <1>9 DEF StartMonitor, Shape, TypeOK, PlaceInv
<1>10. CASE Receive
  <2> DEFINE e == Head(socket)
  <2>1. /\ e \in RealEvent /\ Tail(socket) \in Seq(RealEvent) /\ Tail(socket) \in Seq(Event)
        /\ Len(Tail(socket)) = Len(socket) - 1 /\ Len(socket) \in Nat
    BY <1>10, HeadTailProperties, LenProperties DEF Receive, Shape, TypeOK, PlaceInv
  <2>2. Len(socket') <= SocketSize /\ socket' = Tail(socket)
    BY <1>10, <2>1, DeviceDiscoveryAssumption DEF Receive, Shape, TypeOK
  <2>3. e.path \in Paths /\ e.dev \in Devices
    BY <2>1 DEF RealEvent, Event
  <2>4. table' \in [Paths -> Entry \cup {None}]
    BY <1>10, <2>3 DEF Receive, Shape, TypeOK
  <2>5. listening /\ cur = None /\ todo = {}
    BY <1>10 DEF Receive, Shape, PlaceInv
  <2>6. CASE e.act = "add" /\ EventType(e.path, e.dev) # None
    <3> DEFINE f == [path |-> e.path, dev |-> e.dev, type |-> EventType(e.path, e.dev)]
    <3>1. f \in Found /\ f # None /\ KindOf[f.dev] \in {"SD", "MMC", "ATA"}
      BY <2>3, <2>6, FoundIsSome, TypesFound
    <3>2. cur' = f /\ pc' = "eventAdd"
      BY <1>10, <2>6 DEF Receive
    <3> HIDE DEF f, e
    <3>3. QED
      BY <1>10, <2>1, <2>2, <2>4, <2>5, <3>1, <3>2 DEF Receive, Shape, TypeOK, PlaceInv
  <2>7. CASE ~(e.act = "add" /\ EventType(e.path, e.dev) # None)
    <3>1. cur' = cur /\ pc' = "pause"
      BY <1>10, <2>7 DEF Receive
    <3> HIDE DEF e
    <3>2. QED
      BY <1>10, <2>1, <2>2, <2>4, <2>5, <3>1 DEF Receive, Shape, TypeOK, PlaceInv
  <2>8. QED
    BY <2>6, <2>7
<1>11. CASE Resume
  BY <1>11 DEF Resume, Shape, TypeOK, PlaceInv
<1>12. CASE Restart
  <2>1. /\ socket' \in Seq(Event) /\ socket' \in Seq(RealEvent) /\ Len(socket') <= SocketSize
    <3>1. socket' = <<>> /\ 0 <= SocketSize
      BY <1>12, DeviceDiscoveryAssumption DEF Restart
    <3>2. QED
      BY <3>1, EmptyQueue
  <2>2. table' \in [Paths -> Entry \cup {None}]
    BY <1>12 DEF Restart
  <2>3. TypeOK'
    BY <1>12, <2>1, <2>2 DEF Restart, Shape, TypeOK
  <2>4. PlaceInv'
    BY <1>12, <2>1 DEF Restart, Shape, PlaceInv
  <2>5. QED
    BY <2>3, <2>4 DEF Shape
<1>13. CASE UNCHANGED vars
  BY <1>13 DEF vars, Shape, TypeOK, PlaceInv
<1>14. QED
  BY <1>1, <1>2, <1>3, <1>4, <1>5, <1>6, <1>7, <1>8, <1>9, <1>10, <1>11, <1>12, <1>13
  DEF Next, Kernel, Daemon, Scan, Monitor

-----------------------------------------------------------------------------
(* What the queues have yet to tell, and what the thread has yet to do.    *)

QueueInv ==
  \A p \in Paths :
    /\ Orderly(udevd, <<>>, p, plugged[p])
    /\ p \notin missed => Orderly(socket, udevd, p, plugged[p])

\* The properties of a device are in the database, or udevd is yet to look at
\* it and will tell of it then.
BusInv ==
  \A p \in Paths :
    plugged[p] # None /\ p \notin indb => Has(udevd, AddsOf(p, plugged[p]))

\* Before the enumeration the table lists nothing but the flash.
BootInv ==
  \A p \in Paths :
    /\ pc = "ubi" => table[p] = None
    /\ pc = "enumerate" =>
         /\ table[p] # None => table[p].dev = plugged[p] /\ KindOf[plugged[p]] = "UBI"
         /\ plugged[p] # None /\ KindOf[plugged[p]] = "UBI" => table[p] # None

Coming(E) == Has(socket, E) \/ Has(udevd, E)

\* The thread has a device of node p before it.
Pending(p) == (cur # None /\ cur.path = p) \/ \E x \in todo : x.path = p

\* What the thread knows of node p is right unless a removal is on its way,
\* and it knows of what must be listed unless an addition is.
Knows(p) ==
  ~Coming(Removes(p)) =>
    /\ table[p] # None => table[p].dev = plugged[p] /\ KindOf[plugged[p]] \notin {"USB", "RAM"}
    /\ cur # None /\ cur.path = p => cur.dev = plugged[p]
    /\ \A x \in todo : x.path = p => x.dev = plugged[p]
    /\ plugged[p] # None /\ KindOf[plugged[p]] \in {"SD", "ATA", "UBI"} /\ ~Coming(Adds(p))
         => table[p] # None \/ Pending(p)

TableInv ==
  pc \notin {"ubi", "enumerate"} => \A p \in Paths \ missed : Knows(p)

Inv == Shape /\ QueueInv /\ BusInv /\ BootInv /\ TableInv

\* What an action of the kernel does to either queue and to the nodes.
LEMMA KernelStep ==
  ASSUME Shape, Kernel
  PROVE  /\ UNCHANGED <<socket, listening, daemonVars, missed>>
         /\ \E e \in RealEvent :
              /\ udevd' = Append(udevd, e)
              /\ \A p \in Paths : Happens(p, plugged[p], plugged'[p], e)
<1>1. ASSUME NEW p \in Paths, NEW d \in Devices, Plug(p, d)
      PROVE  \E e \in RealEvent :
               /\ udevd' = Append(udevd, e)
               /\ \A q \in Paths : Happens(q, plugged[q], plugged'[q], e)
  <2> DEFINE e == [act |-> "add", path |-> p, dev |-> d]
  <2>1. KindOf[d] # "UBI" /\ Uevent("add", p, d)
    BY <1>1 DEF Plug
  <2>2. e \in RealEvent /\ e \in Event /\ udevd' = Append(udevd, e)
    BY <2>1, AppendShape DEF RealEvent
  <2>3. plugged[p] = None /\ plugged'[p] = d /\ d # None
    BY <1>1, DeviceDiscoveryAssumption DEF Plug, Shape, TypeOK
  <2>4. \A q \in Paths : q # p => plugged'[q] = plugged[q]
    BY <1>1 DEF Plug, Shape, TypeOK
  <2>5. e.act = "add" /\ e.path = p /\ e.dev = d
    OBVIOUS
  <2> HIDE DEF e
  <2>6. \A q \in Paths : Happens(q, plugged[q], plugged'[q], e)
    BY <2>2, <2>3, <2>4, <2>5 DEF Happens, AddsOf, Adds, Removes
  <2>7. QED
    BY <2>2, <2>6
<1>2. ASSUME NEW p \in Paths, Unplug(p)
      PROVE  \E e \in RealEvent :
               /\ udevd' = Append(udevd, e)
               /\ \A q \in Paths : Happens(q, plugged[q], plugged'[q], e)
  <2> DEFINE e == [act |-> "remove", path |-> p, dev |-> plugged[p]]
  <2>1. plugged[p] \in Devices /\ KindOf[plugged[p]] # "UBI" /\ Uevent("remove", p, plugged[p])
    BY <1>2 DEF Unplug, Shape, TypeOK
  <2>2. e \in RealEvent /\ e \in Event /\ udevd' = Append(udevd, e)
    BY <2>1, AppendShape DEF RealEvent
  <2>3. plugged'[p] = None /\ \A q \in Paths : q # p => plugged'[q] = plugged[q]
    BY <1>2 DEF Unplug, Shape, TypeOK
  <2>4. e.act = "remove" /\ e.path = p
    OBVIOUS
  <2> HIDE DEF e
  <2>5. \A q \in Paths : Happens(q, plugged[q], plugged'[q], e)
    BY <2>2, <2>3, <2>4 DEF Happens, Adds, Removes
  <2>6. QED
    BY <2>2, <2>5
<1>3. ASSUME NEW p \in Paths, Murmur(p)
      PROVE  \E e \in RealEvent :
               /\ udevd' = Append(udevd, e)
               /\ \A q \in Paths : Happens(q, plugged[q], plugged'[q], e)
  <2> DEFINE e == [act |-> "other", path |-> p, dev |-> plugged[p]]
  <2>1. plugged[p] \in Devices /\ KindOf[plugged[p]] # "UBI" /\ Uevent("other", p, plugged[p])
    BY <1>3 DEF Murmur, Shape, TypeOK
  <2>2. e \in RealEvent /\ udevd' = Append(udevd, e)
    BY <2>1, AppendShape
  <2>3. plugged' = plugged
    BY <1>3 DEF Murmur
  <2>4. e.act = "other"
    OBVIOUS
  <2> HIDE DEF e
  <2>5. \A q \in Paths : Happens(q, plugged[q], plugged'[q], e)
    BY <2>3, <2>4 DEF Happens, Adds, Removes
  <2>6. QED
    BY <2>2, <2>5
<1>4. UNCHANGED <<socket, listening, daemonVars, missed>>
  BY DEF Kernel, Plug, Unplug, Murmur
<1>5. QED
  BY <1>1, <1>2, <1>3, <1>4 DEF Kernel

\* An event that is lost was about another node, about nothing that matters,
\* or early enough.
LEMMA BroadcastStep ==
  ASSUME Shape, Broadcast
  PROVE  /\ UNCHANGED <<plugged, listening, daemonVars>>
         /\ udevd # <<>> /\ udevd' = Tail(udevd)
         /\ \/ socket' = Append(socket, Head(udevd)) /\ missed' = missed
            \/ socket' = socket /\ pc \in {"ubi", "enumerate"} /\ missed' = missed
            \/ /\ socket' = socket /\ missed \subseteq missed'
               /\ \A p \in Paths \ missed' :
                    Head(udevd) \notin Adds(p) /\ Head(udevd) \notin Removes(p)
<1>1. UNCHANGED <<plugged, listening, daemonVars>> /\ udevd # <<>> /\ udevd' = Tail(udevd)
  BY DEF Broadcast
<1>2. CASE listening /\ Len(socket) < SocketSize
  BY <1>1, <1>2 DEF Broadcast
<1>3. CASE ~(listening /\ Len(socket) < SocketSize)
  <2>1. socket' = socket
    BY <1>3 DEF Broadcast
  <2>2. CASE Head(udevd).act = "other"
    BY <1>1, <2>1, <2>2 DEF Broadcast, Adds, Removes
  <2>3. CASE pc \in {"ubi", "enumerate"}
    BY <1>1, <2>1, <2>3 DEF Broadcast
  <2>4. CASE Head(udevd).act # "other" /\ pc \notin {"ubi", "enumerate"}
    <3>1. missed' = missed \cup {Head(udevd).path}
      BY <1>3, <2>4 DEF Broadcast
    <3>2. QED
      BY <1>1, <2>1, <3>1 DEF Adds, Removes
  <2>5. QED
    BY <2>2, <2>3, <2>4
<1>4. QED
  BY <1>2, <1>3

\* Each part of the invariant, in every step.
LEMMA QueueStep == Shape /\ Shape' /\ QueueInv /\ [Next]_vars => QueueInv'
<1> SUFFICES ASSUME Shape, Shape', QueueInv, [Next]_vars, NEW p \in Paths
             PROVE  /\ Orderly(udevd', <<>>, p, plugged'[p])
                    /\ p \notin missed' => Orderly(socket', udevd', p, plugged'[p])
  BY DEF QueueInv
<1>1. /\ Orderly(udevd, <<>>, p, plugged[p])
      /\ p \notin missed => Orderly(socket, udevd, p, plugged[p])
      /\ udevd \in Seq(RealEvent) /\ socket \in Seq(RealEvent)
  BY DEF QueueInv, Shape, PlaceInv
<1>2. CASE Kernel
  <2>1. PICK e \in RealEvent :
          udevd' = Append(udevd, e) /\ Happens(p, plugged[p], plugged'[p], e)
    BY <1>2, KernelStep
  <2>2. Orderly(udevd', <<>>, p, plugged'[p])
    BY <1>1, <2>1, OrderlyAppend
  <2>3. socket' = socket /\ missed' = missed
    BY <1>2, KernelStep
  <2>4. ASSUME p \notin missed PROVE Orderly(socket, udevd', p, plugged'[p])
    BY <1>1, <2>1, <2>4, OrderlyBehind
  <2>5. QED
    BY <2>2, <2>3, <2>4
<1>3. CASE Broadcast
  <2>1. udevd # <<>> /\ udevd' = Tail(udevd) /\ plugged' = plugged
    BY <1>3, BroadcastStep
  <2>2. Orderly(udevd', <<>>, p, plugged'[p])
    BY <1>1, <2>1, OrderlyTail
  <2>3. CASE socket' = Append(socket, Head(udevd)) /\ missed' = missed
    <3>1. p \notin missed => Orderly(Append(socket, Head(udevd)), Tail(udevd), p, plugged[p])
      BY <1>1, <2>1, OrderlyPassed
    <3>2. QED
      BY <2>1, <2>2, <2>3, <3>1
  <2>4. CASE socket' = socket /\ pc \in {"ubi", "enumerate"}
    <3>1. socket' = <<>>
      BY <2>4 DEF Shape, PlaceInv
    <3>2. QED
      BY <2>2, <3>1, NothingAhead
  <2>5. CASE /\ socket' = socket /\ missed \subseteq missed'
             /\ \A q \in Paths \ missed' :
                  Head(udevd) \notin Adds(q) /\ Head(udevd) \notin Removes(q)
    <3>1. p \notin missed' => Orderly(socket, Tail(udevd), p, plugged[p])
      BY <1>1, <2>1, <2>5, OrderlyLost
    <3>2. QED
      BY <2>1, <2>2, <2>5, <3>1
  <2>6. QED
    BY <1>3, <2>3, <2>4, <2>5, BroadcastStep
<1>4. CASE Receive
  <2>1. socket # <<>> /\ socket' = Tail(socket) /\ UNCHANGED <<udevd, plugged, missed>>
    BY <1>4 DEF Receive, kernelVars
  <2>2. p \notin missed => Orderly(Tail(socket), udevd, p, plugged[p])
    BY <1>1, <2>1, OrderlyTail
  <2>3. QED
    BY <1>1, <2>1, <2>2
<1>5. CASE Restart
  <2>1. socket' = <<>> /\ UNCHANGED <<udevd, plugged>>
    BY <1>5 DEF Restart, kernelVars
  <2>2. QED
    BY <1>1, <2>1, NothingAhead
<1>6. CASE Scan \/ AddCurrent \/ Resume \/ UNCHANGED vars
  <2>1. UNCHANGED <<udevd, socket, plugged, missed>>
    BY <1>6 DEF Scan, CheckUbi, Enumerate, ScanDevice, StartMonitor, AddCurrent, Resume,
                vars, kernelVars
  <2>2. QED
    BY <1>1, <2>1
<1>7. QED
  BY <1>2, <1>3, <1>4, <1>5, <1>6 DEF Next, Daemon, Monitor

LEMMA BusStep == Shape /\ BusInv /\ [Next]_vars => BusInv'
<1> SUFFICES ASSUME Shape, BusInv, [Next]_vars, NEW p \in Paths,
                    plugged'[p] # None, p \notin indb'
             PROVE  Has(udevd', AddsOf(p, plugged'[p]))
  BY DEF BusInv
<1>1. /\ plugged[p] # None /\ p \notin indb => Has(udevd, AddsOf(p, plugged[p]))
      /\ udevd \in Seq(RealEvent)
  BY DEF BusInv, Shape, PlaceInv
<1>2. CASE Kernel
  <2>1. PICK e \in RealEvent :
          udevd' = Append(udevd, e) /\ Happens(p, plugged[p], plugged'[p], e)
    BY <1>2, KernelStep
  <2>2. ASSUME NEW E PROVE Has(udevd', E) <=> Has(udevd, E) \/ e \in E
    BY <1>1, <2>1, HasAppend
  <2>3. CASE plugged'[p] = plugged[p]
    <3>1. p \notin indb
      BY <1>2, <2>3 DEF Kernel, Plug, Unplug, Murmur, Shape, TypeOK
    <3>2. QED
      BY <1>1, <2>2, <2>3, <3>1
  <2>4. CASE e \in AddsOf(p, plugged'[p])
    BY <2>2, <2>4
  <2>5. QED
    BY <2>1, <2>3, <2>4 DEF Happens
<1>3. CASE Broadcast
  <2>1. udevd # <<>> /\ udevd' = Tail(udevd) /\ plugged' = plugged
    BY <1>3, BroadcastStep
  <2>2. indb \subseteq indb' /\ Head(udevd) \notin AddsOf(p, plugged[p])
    BY <1>3 DEF Broadcast, AddsOf, Adds
  <2>3. QED
    BY <1>1, <2>1, <2>2, HasTail
<1>4. CASE Daemon \/ Restart \/ UNCHANGED vars
  <2>1. UNCHANGED <<udevd, plugged, indb>>
    BY <1>4 DEF Daemon, Scan, Monitor, CheckUbi, Enumerate, ScanDevice, StartMonitor,
                AddCurrent, Receive, Resume, Restart, vars, kernelVars
  <2>2. QED
    BY <1>1, <2>1
<1>5. QED
  BY <1>2, <1>3, <1>4 DEF Next

LEMMA BootStep == Shape /\ Shape' /\ BootInv /\ [Next]_vars => BootInv'
<1> SUFFICES ASSUME Shape, Shape', BootInv, [Next]_vars, NEW p \in Paths
             PROVE  /\ pc' = "ubi" => table'[p] = None
                    /\ pc' = "enumerate" =>
                         /\ table'[p] # None =>
                              table'[p].dev = plugged'[p] /\ KindOf[plugged'[p]] = "UBI"
                         /\ plugged'[p] # None /\ KindOf[plugged'[p]] = "UBI" => table'[p] # None
  BY DEF BootInv
<1>1. /\ pc = "ubi" => table[p] = None
      /\ pc = "enumerate" =>
           /\ table[p] # None => table[p].dev = plugged[p] /\ KindOf[plugged[p]] = "UBI"
           /\ plugged[p] # None /\ KindOf[plugged[p]] = "UBI" => table[p] # None
  BY DEF BootInv
<1>2. table[p] # None => table[p].dev # None
  BY DeviceDiscoveryAssumption DEF Shape, TypeOK, Entry
<1>3. CASE Kernel
  <2>1. pc' = pc /\ table' = table
    BY <1>3, KernelStep DEF daemonVars
  <2>2. \/ plugged'[p] = plugged[p]
        \/ plugged[p] = None /\ KindOf[plugged'[p]] # "UBI"
        \/ plugged'[p] = None /\ KindOf[plugged[p]] # "UBI"
    BY <1>3 DEF Kernel, Plug, Unplug, Murmur, Shape, TypeOK
  <2>3. QED
    BY <1>1, <1>2, <2>1, <2>2
<1>4. CASE CheckUbi
  <2>1. /\ pc = "ubi" /\ pc' = "enumerate" /\ plugged' = plugged
        /\ table'[p] = IF plugged[p] # None /\ KindOf[plugged[p]] = "UBI"
                       THEN [dev |-> plugged[p], type |-> "NVRAM"] ELSE table[p]
    BY <1>4 DEF CheckUbi, kernelVars
  <2>2. CASE plugged[p] # None /\ KindOf[plugged[p]] = "UBI"
    <3>1. [dev |-> plugged[p], type |-> "NVRAM"] # None
      BY <2>2, FoundIsSome DEF Shape, TypeOK, Types
    <3>2. QED
      BY <2>1, <2>2, <3>1
  <2>3. CASE ~(plugged[p] # None /\ KindOf[plugged[p]] = "UBI")
    BY <1>1, <2>1, <2>3
  <2>4. QED
    BY <2>2, <2>3
<1>5. CASE Restart
  BY <1>5 DEF Restart
<1>6. CASE Broadcast \/ UNCHANGED vars
  <2>1. UNCHANGED <<pc, table, plugged>>
    BY <1>6, BroadcastStep DEF vars, kernelVars, daemonVars
  <2>2. QED
    BY <1>1, <2>1
<1>7. CASE Enumerate \/ ScanDevice \/ StartMonitor \/ AddCurrent \/ Monitor
  <2>1. pc' \notin {"ubi", "enumerate"}
    BY <1>7 DEF Enumerate, ScanDevice, StartMonitor, AddCurrent, Monitor, Receive, Resume
  <2>2. QED
    BY <2>1
<1>8. QED
  BY <1>3, <1>4, <1>5, <1>6, <1>7 DEF Next, Daemon, Scan

\* What the thread knows stays right while nothing becomes of it but an event.
LEMMA KnowsKept ==
  ASSUME NEW p \in Paths, Knows(p), UNCHANGED daemonVars, plugged'[p] = plugged[p],
         Coming(Removes(p)) => Coming(Removes(p))', Coming(Adds(p)) => Coming(Adds(p))'
  PROVE  Knows(p)'
BY DEF Knows, Pending, daemonVars

\* Knows(p), in the steps of each actor.
LEMMA TableKernel ==
  ASSUME Shape, Kernel, NEW p \in Paths, Knows(p)
  PROVE  Knows(p)'
<1>1. PICK e \in RealEvent :
        udevd' = Append(udevd, e) /\ Happens(p, plugged[p], plugged'[p], e)
  BY KernelStep
<1>2. UNCHANGED <<socket, daemonVars>>
  BY KernelStep
<1>3. ASSUME NEW E PROVE Has(udevd', E) <=> Has(udevd, E) \/ e \in E
  BY <1>1, HasAppend DEF Shape, PlaceInv
<1>4. /\ Coming(Removes(p))' <=> Coming(Removes(p)) \/ e \in Removes(p)
      /\ Coming(Adds(p))' <=> Coming(Adds(p)) \/ e \in Adds(p)
  BY <1>2, <1>3 DEF Coming
<1>5. CASE plugged'[p] = plugged[p]
  BY <1>2, <1>4, <1>5, KnowsKept
<1>6. CASE plugged[p] = None /\ e \in AddsOf(p, plugged'[p])
  <2>1. Coming(Adds(p))'
    BY <1>4, <1>6 DEF AddsOf
  <2>2. /\ table[p] # None => table[p].dev # None
        /\ cur # None => cur.dev # None
        /\ \A x \in todo : x.dev # None
    BY DeviceDiscoveryAssumption DEF Shape, TypeOK, Entry, Found, Place
  <2>3. QED
    BY <1>2, <1>4, <1>6, <2>1, <2>2 DEF Knows, daemonVars
<1>7. CASE e \in Removes(p)
  BY <1>4, <1>7 DEF Knows
<1>8. QED
  BY <1>1, <1>5, <1>6, <1>7 DEF Happens

LEMMA TableBroadcast ==
  ASSUME Shape, Broadcast, NEW p \in Paths, p \notin missed', pc \notin {"ubi", "enumerate"},
         Knows(p)
  PROVE  Knows(p)'
<1>1. UNCHANGED <<plugged, daemonVars>> /\ udevd # <<>> /\ udevd' = Tail(udevd)
  BY BroadcastStep
<1>2. ASSUME NEW E PROVE Has(udevd, E) <=> Head(udevd) \in E \/ Has(udevd', E)
  BY <1>1, HasTail DEF Shape, PlaceInv
<1>3. Head(udevd) \in RealEvent
  BY <1>1, HeadTailProperties DEF Shape, PlaceInv
<1>4. ASSUME NEW E, E = Removes(p) \/ E = Adds(p)
      PROVE  Has(socket, E) \/ Has(udevd, E) => Has(socket', E) \/ Has(udevd', E)
  <2>1. CASE socket' = Append(socket, Head(udevd))
    <3>1. Has(socket', E) <=> Has(socket, E) \/ Head(udevd) \in E
      BY <1>3, <2>1, HasAppend DEF Shape, PlaceInv
    <3>2. QED
      BY <1>2, <3>1
  <2>2. CASE socket' = socket /\ Head(udevd) \notin Adds(p) /\ Head(udevd) \notin Removes(p)
    BY <1>2, <1>4, <2>2
  <2>3. QED
    BY <2>1, <2>2, BroadcastStep
<1>5. /\ Coming(Removes(p)) => Coming(Removes(p))'
      /\ Coming(Adds(p)) => Coming(Adds(p))'
  BY <1>4 DEF Coming
<1>6. QED
  BY <1>1, <1>5, KnowsKept

LEMMA TableEnumerate ==
  ASSUME Shape, BootInv, Enumerate, NEW p \in Paths
  PROVE  Knows(p)'
<1>1. /\ pc = "enumerate" /\ UNCHANGED <<plugged, cur, table>>
      /\ todo' = {x \in Place : plugged[x.path] = x.dev /\ KindOf[x.dev] # "UBI"}
  BY DEF Enumerate, kernelVars
<1>2. cur = None
  BY <1>1 DEF Shape, PlaceInv
<1>3. /\ table[p] # None => table[p].dev = plugged[p] /\ KindOf[plugged[p]] = "UBI"
      /\ plugged[p] # None /\ KindOf[plugged[p]] = "UBI" => table[p] # None
  BY <1>1 DEF BootInv
<1>4. ASSUME plugged[p] # None, KindOf[plugged[p]] # "UBI" PROVE \E x \in todo' : x.path = p
  <2>1. [path |-> p, dev |-> plugged[p]] \in Place
    BY <1>4 DEF Shape, TypeOK, Place
  <2>2. [path |-> p, dev |-> plugged[p]] \in todo'
    BY <1>1, <1>4, <2>1
  <2>3. QED
    BY <2>2
<1>5. QED
  BY <1>1, <1>2, <1>3, <1>4 DEF Knows, Pending

LEMMA TableScanDevice ==
  ASSUME Shape, BusInv, ScanDevice, NEW p \in Paths, Knows(p)
  PROVE  Knows(p)'
<1>1. PICK x \in todo :
        /\ todo' = todo \ {x}
        /\ LET t == ScanType(x.path, x.dev)
           IN  IF plugged[x.path] = x.dev /\ t # None
               THEN pc' = "scanAdd" /\ cur' = [path |-> x.path, dev |-> x.dev, type |-> t]
               ELSE UNCHANGED <<pc, cur>>
  BY DEF ScanDevice
<1>2. /\ UNCHANGED <<socket, udevd, plugged, table>> /\ cur = None
      /\ x.path \in Paths /\ x.dev \in Devices /\ x.dev # None /\ KindOf[x.dev] # "UBI"
  BY DeviceDiscoveryAssumption DEF ScanDevice, kernelVars, Shape, TypeOK, PlaceInv, Place
<1>3. Coming(Removes(p))' = Coming(Removes(p)) /\ Coming(Adds(p))' = Coming(Adds(p))
  BY <1>2 DEF Coming
<1>4. CASE plugged[x.path] = x.dev /\ ScanType(x.path, x.dev) # None
  <2>1. cur' = [path |-> x.path, dev |-> x.dev, type |-> ScanType(x.path, x.dev)]
    BY <1>1, <1>4
  <2>2. cur' # None
    BY <1>2, <1>4, <2>1, FoundIsSome, TypesFound
  <2>3. cur'.path = x.path /\ cur'.dev = x.dev
    BY <2>1
  <2>4. QED
    BY <1>1, <1>2, <1>3, <1>4, <2>2, <2>3 DEF Knows, Pending
<1>5. CASE ~(plugged[x.path] = x.dev /\ ScanType(x.path, x.dev) # None)
  <2>1. cur' = cur
    BY <1>1, <1>5
  <2>2. ASSUME x.path = p, plugged[p] = x.dev, KindOf[x.dev] \in {"SD", "ATA", "UBI"}
        PROVE  Coming(Adds(p))
    <3>1. ScanType(p, x.dev) = None
      BY <1>5, <2>2
    <3>2. p \notin indb
      BY <1>2, <2>2, <3>1, ServedHaveTypes, DeviceDiscoveryAssumption
    <3>3. Has(udevd, AddsOf(p, x.dev))
      BY <1>2, <2>2, <3>2 DEF BusInv
    <3>4. QED
      BY <3>3 DEF Has, AddsOf, Coming
  <2>3. QED
    BY <1>1, <1>2, <1>3, <2>1, <2>2 DEF Knows, Pending
<1>6. QED
  BY <1>4, <1>5

LEMMA TableAddCurrent ==
  ASSUME Shape, AddCurrent, NEW p \in Paths, Knows(p)
  PROVE  Knows(p)'
<1>1. /\ UNCHANGED <<socket, udevd, plugged, todo>> /\ cur' = None
      /\ cur # None /\ cur \in Found /\ KindOf[cur.dev] \in {"SD", "MMC", "ATA"}
  BY DEF AddCurrent, kernelVars, Shape, TypeOK, PlaceInv
<1>2. Coming(Removes(p))' = Coming(Removes(p)) /\ Coming(Adds(p))' = Coming(Adds(p))
  BY <1>1 DEF Coming
<1>3. CASE cur.path # p
  <2>1. table'[p] = table[p]
    BY <1>3 DEF AddCurrent, Shape, TypeOK
  <2>2. QED
    BY <1>1, <1>2, <1>3, <2>1 DEF Knows, Pending
<1>4. CASE cur.path = p
  <2> DEFINE f == [dev |-> cur.dev, type |-> cur.type]
  <2>1. table'[p] = IF table[p] = None THEN f ELSE table[p]
    BY <1>4 DEF AddCurrent, Shape, TypeOK
  <2>2. f # None /\ f.dev = cur.dev
    BY <1>1, FoundIsSome DEF Found
  <2> HIDE DEF f
  <2>3. QED
    BY <1>1, <1>2, <1>4, <2>1, <2>2 DEF Knows, Pending
<1>5. QED
  BY <1>3, <1>4

LEMMA TableReceive ==
  ASSUME Shape, QueueInv, Receive, NEW p \in Paths, p \notin missed, Knows(p)
  PROVE  Knows(p)'
<1> DEFINE e == Head(socket)
           f == [path |-> e.path, dev |-> e.dev, type |-> EventType(e.path, e.dev)]
<1>1. /\ socket # <<>> /\ socket' = Tail(socket) /\ UNCHANGED <<udevd, plugged, todo>>
      /\ pc = "idle"
      /\ IF e.act = "add" /\ EventType(e.path, e.dev) # None THEN cur' = f ELSE cur' = cur
      /\ table' = IF e.act = "remove" THEN [table EXCEPT ![e.path] = None] ELSE table
  BY DEF Receive, kernelVars
<1>2. cur = None /\ todo = {}
  BY <1>1 DEF Shape, PlaceInv
<1>3. e \in RealEvent /\ e \in Event /\ e.path \in Paths /\ e.dev \in Devices /\ KindOf[e.dev] # "UBI"
  BY <1>1, HeadTailProperties DEF Shape, PlaceInv, RealEvent, Event
<1>4. ASSUME NEW E PROVE Has(socket, E) <=> e \in E \/ Has(socket', E)
  BY <1>1, HasTail DEF Shape, PlaceInv
<1>5. /\ Coming(Removes(p)) <=> e \in Removes(p) \/ Coming(Removes(p))'
      /\ Coming(Adds(p)) <=> e \in Adds(p) \/ Coming(Adds(p))'
  BY <1>1, <1>4 DEF Coming
<1>6. /\ e \in Adds(p) => e.dev = plugged[p] \/ Coming(Removes(p))'
      /\ e \in Removes(p) => plugged[p] = None \/ Coming(Adds(p))'
  <2>1. Orderly(socket, udevd, p, plugged[p]) /\ socket \in Seq(RealEvent)
    BY DEF QueueInv, Shape, PlaceInv
  <2>2. /\ e \in Adds(p) =>
             e.dev = plugged[p] \/ Has(Tail(socket), Removes(p)) \/ Has(udevd, Removes(p))
        /\ e \in Removes(p) =>
             plugged[p] = None \/ Has(Tail(socket), Adds(p)) \/ Has(udevd, Adds(p))
    BY <1>1, <2>1, OrderlyTail
  <2>3. QED
    BY <1>1, <2>2 DEF Coming
<1>7. EventType(e.path, e.dev) # None => f # None /\ f.path = e.path /\ f.dev = e.dev
  BY <1>3, FoundIsSome, TypesFound
<1>8. e.act = "add" /\ e.path = p /\ e.dev = plugged[p] /\ EventType(p, e.dev) = None
        => KindOf[plugged[p]] \notin {"SD", "ATA", "UBI"}
  BY <1>3, ServedHaveTypes, DeviceDiscoveryAssumption
<1>9. CASE e \in Removes(p)
  <2>1. table'[p] = None /\ cur' = None
    BY <1>1, <1>2, <1>3, <1>9 DEF Removes, Shape, TypeOK
  <2>2. QED
    BY <1>1, <1>2, <1>6, <1>9, <2>1 DEF Knows
<1>10. CASE e \in Adds(p)
  <2>1. e.act = "add" /\ e.path = p /\ e \notin Removes(p) /\ table' = table
    BY <1>1, <1>10 DEF Adds, Removes
  <2> HIDE DEF e, f
  <2>2. QED
    BY <1>1, <1>2, <1>5, <1>6, <1>7, <1>8, <1>10, <2>1 DEF Knows, Pending
<1>11. CASE e \notin Adds(p) /\ e \notin Removes(p)
  <2>1. table'[p] = table[p]
    BY <1>1, <1>3, <1>11 DEF Removes, Shape, TypeOK
  <2>2. cur' # None => cur'.path # p
    BY <1>1, <1>2, <1>3, <1>7, <1>11 DEF Adds
  <2> HIDE DEF e, f
  <2>3. QED
    BY <1>1, <1>2, <1>5, <1>11, <2>1, <2>2 DEF Knows, Pending
<1>12. QED
  BY <1>9, <1>10, <1>11

LEMMA TableStep == Inv /\ Shape' /\ [Next]_vars => TableInv'
<1> SUFFICES ASSUME Inv, Shape', [Next]_vars,
                    pc' \notin {"ubi", "enumerate"}, NEW p \in Paths, p \notin missed'
             PROVE  Knows(p)'
  BY DEF TableInv
<1>1. Shape /\ QueueInv /\ BusInv /\ BootInv
  BY DEF Inv
<1>2. ASSUME pc \notin {"ubi", "enumerate"}, p \notin missed PROVE Knows(p)
  BY <1>2 DEF Inv, TableInv
<1>3. CASE Kernel
  BY <1>1, <1>2, <1>3, KernelStep, TableKernel DEF daemonVars
<1>4. CASE Broadcast
  <2>1. pc' = pc /\ p \notin missed
    BY <1>1, <1>4, BroadcastStep DEF daemonVars
  <2>2. QED
    BY <1>1, <1>2, <1>4, <2>1, TableBroadcast
<1>5. CASE Enumerate
  BY <1>1, <1>5, TableEnumerate
<1>6. CASE ScanDevice
  BY <1>1, <1>2, <1>6, TableScanDevice DEF ScanDevice
<1>7. CASE AddCurrent
  BY <1>1, <1>2, <1>7, TableAddCurrent DEF AddCurrent
<1>8. CASE Receive
  BY <1>1, <1>2, <1>8, TableReceive DEF Receive
<1>9. CASE StartMonitor \/ Resume \/ UNCHANGED vars
  <2>1. /\ UNCHANGED <<socket, udevd, plugged, todo, cur, table, missed>>
        /\ pc \notin {"ubi", "enumerate"}
    BY <1>9 DEF StartMonitor, Resume, vars, kernelVars, daemonVars
  <2>2. QED
    BY <1>2, <2>1 DEF Knows, Pending, Coming
<1>10. CASE CheckUbi \/ Restart
  BY <1>10 DEF CheckUbi, Restart
<1>11. QED
  BY <1>3, <1>4, <1>5, <1>6, <1>7, <1>8, <1>9, <1>10 DEF Next, Daemon, Scan, Monitor

LEMMA InitInv == Init => Inv
<1> SUFFICES ASSUME Init PROVE Inv
  OBVIOUS
<1>1. Shape
  BY InitShape
<1>2. /\ udevd = <<>> /\ socket = <<>> /\ pc = "ubi"
      /\ \A p \in Paths : table[p] = None /\ (plugged[p] # None => p \in indb)
  BY DEF Init
<1>3. QueueInv
  BY <1>2, NothingAhead DEF QueueInv
<1>4. BusInv /\ BootInv /\ TableInv
  BY <1>2 DEF BusInv, BootInv, TableInv
<1>5. QED
  BY <1>1, <1>3, <1>4 DEF Inv

\* The whole invariant.
LEMMA InvHolds == Spec => []Inv
<1>1. Inv /\ [Next]_vars => Inv'
  <2> SUFFICES ASSUME Inv, [Next]_vars PROVE Inv'
    OBVIOUS
  <2>1. Shape /\ QueueInv /\ BusInv /\ BootInv
    BY DEF Inv
  <2>2. Shape'
    BY <2>1, ShapeStep
  <2>3. QED
    BY <2>1, <2>2, QueueStep, BusStep, BootStep, TableStep DEF Inv
<1>2. QED
  BY <1>1, InitInv, PTL DEF Spec

(* Once the monitor waits for events and none about a node is on its way,  *)
(* the table is right about that node, unless an event about it was lost:  *)
(* for any number of nodes and devices of any kinds, for any sizes of the  *)
(* queues, with the daemon dying anywhere and as often as it likes.        *)
THEOREM TableIsRightWhenQuiet == Spec => []RightWhenQuiet
<1>1. Inv => RightWhenQuiet
  <2> SUFFICES ASSUME Inv, NEW p \in Paths,
                      listening, pc # "eventAdd", ~InFlight(p), p \notin missed
               PROVE  Right(p)
    BY DEF RightWhenQuiet
  <2>1. /\ pc \in {"idle", "pause"} /\ cur = None /\ todo = {}
    BY DEF Inv, Shape, PlaceInv
  <2>2. Knows(p)
    BY <2>1 DEF Inv, TableInv
  <2>3. ~Coming(Removes(p)) /\ ~Coming(Adds(p))
    BY DEF InFlight, Coming, Has, Removes, Adds
  <2>4. ~Pending(p)
    BY <2>1 DEF Pending
  <2>5. QED
    BY <2>2, <2>3, <2>4 DEF Knows, Right
<1>2. QED
  BY <1>1, InvHolds, PTL

(* Every variable keeps its type: neither queue grows past its bound, and  *)
(* what is added has one of the types there are.                           *)
THEOREM TypeCorrect == Spec => []TypeOK
<1>1. Spec => []Shape
  BY InitShape, ShapeStep, PTL DEF Spec
<1>2. Shape => TypeOK
  BY DEF Shape
<1>3. QED
  BY <1>1, <1>2, PTL
-----------------------------------------------------------------------------
(* Liveness.  The prover knows nothing of ENABLED: that udevd and the      *)
(* daemon's thread wait for nothing but events is EventsAreWaitedForOnly,  *)
(* which TLC checks.  Nor does it know induction over temporal formulas.   *)
(* That a scan of fewer and fewer devices ends, and that an event which    *)
(* nears the head of its queue leaves it, are hypotheses (ScanDescends,    *)
(* UdevdDrains, SocketDrains); that the devices get fewer and the events   *)
(* come nearer is proved.                                                  *)

FairRun == FairSpec /\ []EventsAreWaitedForOnly

CanBroadcast == ENABLED <<Broadcast>>_vars
CanServe     == ENABLED <<Daemon>>_vars

Scanning == pc \in {"scan", "scanAdd"}

FewerToScan(S) == Scanning /\ todo = S ~> ~Scanning \/ todo \in (SUBSET S) \ {S}
ScanEnds       == Scanning ~> ~Scanning

ScanDescends == (\A S \in SUBSET Place : FewerToScan(S)) => ScanEnds

\* What a node that comes to rest looks like, and the events about node p in
\* queue q that are not among the first n.
Settled(p, d) == plugged[p] = d /\ p \notin missed
Within(q, p, n) == \A i \in 1..Len(q) : q[i].path = p /\ q[i].act # "other" => i <= n

InUdevd(p, d, n)  == Settled(p, d) /\ Within(udevd, p, n)
InSocket(p, d, n) == InUdevd(p, d, 0) /\ Within(socket, p, n)

UdevdNears(p, d, n) == InUdevd(p, d, n + 1) ~> ~Settled(p, d) \/ InUdevd(p, d, n)
UdevdEnds(p, d, n)  == InUdevd(p, d, n) ~> ~Settled(p, d) \/ InUdevd(p, d, 0)
UdevdDrains == \A p \in Paths, d \in Devices \cup {None} :
  (\A n \in Nat : UdevdNears(p, d, n)) => (\A n \in Nat : UdevdEnds(p, d, n))

SocketNears(p, d, n) == InSocket(p, d, n + 1) ~> ~InUdevd(p, d, 0) \/ InSocket(p, d, n)
SocketEnds(p, d, n)  == InSocket(p, d, n) ~> ~InUdevd(p, d, 0) \/ InSocket(p, d, 0)
SocketDrains == \A p \in Paths, d \in Devices \cup {None} :
  (\A n \in Nat : SocketNears(p, d, n)) => (\A n \in Nat : SocketEnds(p, d, n))

LEMMA SafeSpec == Spec => []Inv /\ [][Next]_vars
  BY InvHolds, PTL DEF Spec

\* The same of any rest of the run.
Running ==
  []Inv /\ [][Next]_vars /\ []EventsAreWaitedForOnly /\ WF_vars(Broadcast) /\ WF_vars(Daemon)

LEMMA FairRunIsRunning == FairRun => Running
  BY SafeSpec, PTL DEF FairRun, FairSpec, Running

LEMMA WhatCanGoOn ==
  /\ EventsAreWaitedForOnly => (udevd # <<>> => CanBroadcast)
  /\ EventsAreWaitedForOnly => (pc # "idle" \/ socket # <<>> => CanServe)
BY DEF EventsAreWaitedForOnly, CanBroadcast, CanServe

\* The kernel and udevd leave the thread where it is.
LEMMA OthersLeaveTheThread ==
  ASSUME Kernel \/ Broadcast
  PROVE  UNCHANGED <<listening, daemonVars>>
<1>1. CASE Broadcast
  BY <1>1 DEF Broadcast
<1>2. CASE Kernel
  BY <1>2 DEF Kernel, Unplug, Murmur, Plug, Uevent
<1> QED
  BY <1>1, <1>2

\* Each visit of the scan leaves fewer devices to visit.
LEMMA ScanShrinks ==
  ASSUME NEW S \in SUBSET Place
  PROVE  FairRun => FewerToScan(S)
<1> DEFINE P == pc = "scan" /\ todo = S
           A == pc = "scanAdd" /\ todo = S
           Q == ~Scanning \/ todo \in (SUBSET S) \ {S}
<1>1. ASSUME Inv, P, Daemon PROVE Q'
  <2>1. CASE ScanDevice
    BY <1>1, <2>1 DEF ScanDevice
  <2>2. CASE StartMonitor
    BY <2>2 DEF StartMonitor, Scanning
  <2> QED
    BY <1>1, <2>1, <2>2
       DEF Daemon, Scan, Monitor, CheckUbi, Enumerate, AddCurrent, Receive, Resume
<1>2. ASSUME Inv, A, Daemon PROVE P'
  BY <1>2 DEF Daemon, Scan, Monitor, CheckUbi, Enumerate, ScanDevice, StartMonitor, AddCurrent, Receive, Resume
<1>3. ASSUME [Next]_vars, ~Daemon PROVE UNCHANGED <<pc, todo>> \/ ~Scanning'
  <2>1. CASE Kernel \/ Broadcast
    BY <2>1, OthersLeaveTheThread DEF daemonVars
  <2>2. CASE Restart
    BY <2>2 DEF Restart, Scanning
  <2> QED
    BY <1>3, <2>1, <2>2 DEF Next, vars, daemonVars
<1>4. Inv /\ P /\ [Next]_vars => P' \/ Q'
  BY <1>1, <1>3
<1>5. Inv /\ A /\ [Next]_vars => A' \/ P' \/ Q'
  BY <1>2, <1>3
<1>6. Inv /\ P /\ <<Daemon>>_vars => Q'
  BY <1>1
<1>7. Inv /\ A /\ <<Daemon>>_vars => P'
  BY <1>2
<1>8. P \/ A => pc # "idle" \/ socket # <<>>
  OBVIOUS
<1>9. Scanning /\ todo = S => P \/ A
  BY DEF Scanning
<1> HIDE DEF P, A, Q
<1>10. FairRun => (P \/ A ~> Q)
  BY <1>4, <1>5, <1>6, <1>7, <1>8, WhatCanGoOn, SafeSpec, PTL DEF FairRun, FairSpec, CanServe
<1> QED
  BY <1>9, <1>10, PTL DEF FewerToScan, Q

\* A daemon that does not die comes to listen.
LEMMA BootEnds ==
  Running /\ ScanEnds /\ [][~Restart]_vars => <>[]listening
<1>3. ASSUME Inv, [Next]_vars, [~Restart]_vars, ~Daemon PROVE UNCHANGED <<pc, listening>>
  <2>1. CASE Kernel \/ Broadcast
    BY <2>1, OthersLeaveTheThread DEF daemonVars
  <2> QED
    BY <1>3, <2>1 DEF Next, vars, daemonVars
<1>4. ASSUME Inv, Daemon
      PROVE  /\ pc = "ubi" => pc' = "enumerate"
             /\ pc = "enumerate" => pc' = "scan"
             /\ Scanning => Scanning' \/ listening'
             /\ listening => listening'
  BY <1>4 DEF Inv, Shape, PlaceInv, Scanning, Daemon, Scan, Monitor, CheckUbi, Enumerate, ScanDevice,
              StartMonitor, AddCurrent, Receive, Resume
<1>5. Inv /\ pc = "ubi" /\ [Next]_vars /\ [~Restart]_vars => (pc = "ubi")' \/ (pc = "enumerate")'
  BY <1>3, <1>4
<1>6. Inv /\ pc = "enumerate" /\ [Next]_vars /\ [~Restart]_vars => (pc = "enumerate")' \/ Scanning'
  BY <1>3, <1>4 DEF Scanning
<1>7. Inv /\ Scanning /\ [Next]_vars /\ [~Restart]_vars => Scanning' \/ listening'
  BY <1>3, <1>4 DEF Scanning
<1>8. Inv /\ listening /\ [Next]_vars /\ [~Restart]_vars => listening'
  BY <1>3, <1>4
<1>9. Inv /\ pc = "ubi" /\ <<Daemon>>_vars => (pc = "enumerate")'
  BY <1>4
<1>10. Inv /\ pc = "enumerate" /\ <<Daemon>>_vars => Scanning'
  BY <1>4 DEF Scanning
<1>11. Inv => pc = "ubi" \/ pc = "enumerate" \/ Scanning \/ listening
  BY DEF Inv, Shape, TypeOK, PlaceInv, Scanning
<1>12. /\ pc = "ubi" => pc # "idle" \/ socket # <<>>
       /\ pc = "enumerate" => pc # "idle" \/ socket # <<>>
  OBVIOUS
<1>13. Running /\ [][~Restart]_vars => (pc = "ubi" ~> pc = "enumerate")
  BY <1>5, <1>9, <1>12, WhatCanGoOn, PTL DEF Running, CanServe
<1>14. Running /\ [][~Restart]_vars => (pc = "enumerate" ~> Scanning)
  BY <1>6, <1>10, <1>12, WhatCanGoOn, PTL DEF Running, CanServe
<1>15. Running /\ ScanEnds /\ [][~Restart]_vars => (Scanning ~> listening)
  BY <1>7, PTL DEF Running, ScanEnds
<1> QED
  BY <1>8, <1>11, <1>13, <1>14, <1>15, PTL DEF Running

\* The head of a queue goes, and everything behind it comes nearer;
LEMMA WithinTail ==
  ASSUME NEW s \in Seq(Event), s # <<>>, NEW p, NEW n \in Nat
  PROVE  /\ Within(s, p, n + 1) => Within(Tail(s), p, n)
         /\ Within(s, p, 0) => Within(Tail(s), p, 0) /\ (Head(s).path # p \/ Head(s).act = "other")
<1> DEFINE r == Tail(s)
<1>1. /\ Len(s) \in Nat \ {0} /\ Len(r) = Len(s) - 1 /\ Head(s) = s[1]
      /\ \A i \in 1..Len(r) : r[i] = s[i + 1]
  BY HeadTailProperties, EmptySeq
<1> HIDE DEF r
<1>2. Within(s, p, n + 1) => Within(r, p, n)
  BY <1>1 DEF Within
<1>3. Within(s, p, 0) => Within(r, p, 0)
  BY <1>1 DEF Within
<1>4. 1 \in 1..Len(s)
  BY <1>1
<1>5. Within(s, p, 0) => Head(s).path # p \/ Head(s).act = "other"
  BY <1>1, <1>4 DEF Within
<1> QED
  BY <1>2, <1>3, <1>5 DEF r

\* an event about another node, or one the monitor has no use for, may join it.
LEMMA WithinAppend ==
  ASSUME NEW s \in Seq(Event), NEW e \in Event, NEW p, NEW n \in Nat,
         e.path # p \/ e.act = "other", Within(s, p, n)
  PROVE  Within(Append(s, e), p, n)
<1>1. /\ Len(s) \in Nat /\ Len(Append(s, e)) = Len(s) + 1
      /\ \A i \in 1..Len(s) : Append(s, e)[i] = s[i]
      /\ Append(s, e)[Len(s) + 1] = e
  BY AppendProperties, LenProperties
<1> DEFINE r == Append(s, e)
<1> HIDE DEF r
<1>2. \A i \in 1..(Len(s) + 1) : i = Len(s) + 1 \/ i \in 1..Len(s)
  BY <1>1
<1> QED
  BY <1>1, <1>2 DEF Within, r

LEMMA WithinEmpty ==
  ASSUME NEW p, NEW n
  PROVE  Within(<<>>, p, n)
<1>1. Len(<<>>) = 0 /\ 1..0 = {}
  OBVIOUS
<1> QED
  BY <1>1 DEF Within

\* What the kernel has to say while node p is settled is not about p.
LEMMA SettledIsQuiet ==
  ASSUME Inv, Kernel, NEW p \in Paths, NEW d \in Devices \cup {None}, Settled(p, d)
  PROVE  \/ ~Settled(p, d)'
         \/ /\ \E e \in Event : udevd' = Append(udevd, e) /\ (e.path # p \/ e.act = "other")
            /\ UNCHANGED <<socket, listening, daemonVars>>
<1> USE DeviceDiscoveryAssumption DEF Settled
<1>1. plugged \in [Paths -> Devices \cup {None}] /\ plugged[p] = d
  BY DEF Inv, Shape, TypeOK
<1>2. ASSUME NEW q \in Paths, NEW c \in Devices, Plug(q, c)
      PROVE  plugged'[p] # d \/ q # p
  BY <1>1, <1>2 DEF Plug
<1>3. ASSUME NEW q \in Paths, Unplug(q)
      PROVE  plugged'[p] # d \/ q # p
  BY <1>1, <1>3 DEF Unplug
<1>4. ASSUME NEW q \in Paths, NEW c \in Devices, NEW a \in {"add", "remove", "other"}, Uevent(a, q, c),
             q # p \/ a = "other"
      PROVE  \E e \in Event : udevd' = Append(udevd, e) /\ (e.path # p \/ e.act = "other")
  <2> DEFINE e == [act |-> a, path |-> q, dev |-> c]
  <2>1. e \in Event /\ udevd' = Append(udevd, e) /\ (e.path # p \/ e.act = "other")
    BY <1>4 DEF Event, Uevent
  <2> QED
    BY <2>1
<1>5. ASSUME NEW q \in Paths, NEW c \in Devices, Plug(q, c)
      PROVE  plugged'[p] # d \/ \E e \in Event : udevd' = Append(udevd, e) /\ (e.path # p \/ e.act = "other")
  BY <1>2, <1>4, <1>5 DEF Plug
<1>6. ASSUME NEW q \in Paths, Unplug(q) \/ Murmur(q) PROVE plugged[q] \in Devices
  BY <1>1, <1>6 DEF Unplug, Murmur
<1>7. ASSUME NEW q \in Paths, Unplug(q)
      PROVE  plugged'[p] # d \/ \E e \in Event : udevd' = Append(udevd, e) /\ (e.path # p \/ e.act = "other")
  BY <1>3, <1>4, <1>6, <1>7 DEF Unplug
<1>8. ASSUME NEW q \in Paths, Murmur(q)
      PROVE  \E e \in Event : udevd' = Append(udevd, e) /\ (e.path # p \/ e.act = "other")
  BY <1>4, <1>6, <1>8 DEF Murmur
<1>9. UNCHANGED <<socket, listening, daemonVars>>
  BY DEF Kernel, Plug, Unplug, Murmur
<1> QED
  BY <1>5, <1>7, <1>8, <1>9 DEF Kernel

\* While p is settled its events in udevd's queue come nearer to the head.
LEMMA UdevdComesNearer ==
  ASSUME NEW p \in Paths, NEW d \in Devices \cup {None}, NEW n \in Nat
  PROVE  FairRun => UdevdNears(p, d, n)
<1> DEFINE P == InUdevd(p, d, n + 1)
           Q == ~Settled(p, d) \/ InUdevd(p, d, n)
<1> USE DEF InUdevd
<1>1. ASSUME Inv, P, Broadcast PROVE Q'
  <2>1. udevd \in Seq(Event) /\ udevd # <<>> /\ udevd' = Tail(udevd)
    BY <1>1 DEF Broadcast, Inv, Shape, TypeOK
  <2>2. Within(udevd', p, n)
    BY <1>1, <2>1, WithinTail
  <2> QED
    BY <2>2
<1>2. ASSUME Inv, P, [Next]_vars, ~Broadcast PROVE P' \/ Q'
  <2>1. CASE Kernel
    <3>1. CASE ~Settled(p, d)'
      BY <3>1
    <3>2. CASE Settled(p, d)'
      <4>1. PICK e \in Event : udevd' = Append(udevd, e) /\ (e.path # p \/ e.act = "other")
        BY <1>2, <2>1, <3>2, SettledIsQuiet
      <4>2. udevd \in Seq(Event)
        BY <1>2 DEF Inv, Shape, TypeOK
      <4>3. Within(udevd', p, n + 1)
        BY <1>2, <4>1, <4>2, WithinAppend
      <4> QED
        BY <3>2, <4>3
    <3> QED
      BY <3>1, <3>2
  <2>2. CASE Daemon \/ UNCHANGED vars
    <3>1. UNCHANGED <<plugged, udevd, missed>>
      BY <2>2 DEF Daemon, Scan, Monitor, CheckUbi, Enumerate, ScanDevice, StartMonitor, AddCurrent, Receive,
                  Resume, vars, kernelVars
    <3> QED
      BY <1>2, <3>1 DEF Settled, Within
  <2>3. CASE Restart
    BY <1>2, <2>3 DEF Restart, kernelVars, Settled, Within
  <2> QED
    BY <1>2, <2>1, <2>2, <2>3 DEF Next
<1>3. Inv /\ P /\ [Next]_vars => P' \/ Q'
  BY <1>1, <1>2
<1>4. Inv /\ P /\ <<Broadcast>>_vars => Q'
  BY <1>1
<1>5. P => Q \/ udevd # <<>>
  BY WithinEmpty
<1> HIDE DEF P, Q
<1>6. FairRun => (P ~> Q)
  BY <1>3, <1>4, <1>5, WhatCanGoOn, SafeSpec, PTL DEF FairRun, FairSpec, CanBroadcast
<1> QED
  BY <1>6 DEF UdevdNears, P, Q

\* Once p is settled and udevd has nothing more to tell of it, so it remains.
LEMMA UdevdIsThrough ==
  ASSUME Inv, [Next]_vars, NEW p \in Paths, NEW d \in Devices \cup {None}, InUdevd(p, d, 0)
  PROVE  ~Settled(p, d)' \/ InUdevd(p, d, 0)'
<1> USE DEF InUdevd
<1>0. udevd \in Seq(Event) /\ 0 \in Nat
  BY DEF Inv, Shape, TypeOK
<1>1. CASE Broadcast
  <2>1. udevd # <<>> /\ udevd' = Tail(udevd)
    BY <1>1 DEF Broadcast
  <2> QED
    BY <1>0, <2>1, WithinTail
<1>2. CASE Kernel /\ Settled(p, d)'
  <2>1. PICK e \in Event : udevd' = Append(udevd, e) /\ (e.path # p \/ e.act = "other")
    BY <1>2, SettledIsQuiet
  <2>2. Within(udevd', p, 0)
    BY <1>0, <2>1, WithinAppend
  <2> QED
    BY <1>2, <2>2
<1>3. CASE Daemon \/ UNCHANGED vars \/ Restart
  <2>1. UNCHANGED <<plugged, udevd>>
    BY <1>3 DEF Daemon, Scan, Monitor, CheckUbi, Enumerate, ScanDevice, StartMonitor, AddCurrent, Receive,
                Resume, vars, kernelVars, Restart
  <2> QED
    BY <2>1 DEF Within
<1> QED
  BY <1>1, <1>2, <1>3 DEF Next

\* Then its events in the socket come nearer to the head, one in five seconds.
LEMMA SocketComesNearer ==
  ASSUME NEW p \in Paths, NEW d \in Devices \cup {None}, NEW n \in Nat
  PROVE  FairRun => SocketNears(p, d, n)
<1> DEFINE P == InSocket(p, d, n + 1)
           Q == ~InUdevd(p, d, 0) \/ InSocket(p, d, n)
           At(l) == P /\ pc = l
<1> USE DEF InSocket
<1>0. Inv => /\ udevd \in Seq(Event) /\ socket \in Seq(Event) /\ 0 \in Nat
             /\ ~listening => socket = <<>>
             /\ listening <=> pc \in {"idle", "eventAdd", "pause"}
  BY DEF Inv, Shape, TypeOK, PlaceInv
<1>1. ASSUME Inv, P, [Next]_vars, ~Daemon PROVE (P' /\ pc' = pc) \/ Q'
  <2>1. CASE Kernel
    BY <1>1, <2>1 DEF Kernel, Plug, Unplug, Murmur, daemonVars
  <2>2. CASE Broadcast
    <3>1. udevd # <<>> /\ pc' = pc /\ (socket' = socket \/ socket' = Append(socket, Head(udevd)))
      BY <2>2 DEF Broadcast, daemonVars
    <3>2. Head(udevd) \in Event /\ (Head(udevd).path # p \/ Head(udevd).act = "other")
      BY <1>0, <1>1, <3>1, WithinTail, HeadTailProperties DEF InUdevd
    <3>3. socket \in Seq(Event) /\ n + 1 \in Nat /\ Within(socket, p, n + 1)
      BY <1>0, <1>1
    <3>4. Within(Append(socket, Head(udevd)), p, n + 1)
      BY <3>2, <3>3, WithinAppend
    <3>5. Within(socket', p, n + 1)
      BY <3>1, <3>3, <3>4
    <3> QED
      BY <1>1, <3>1, <3>5
  <2>3. CASE Restart
    <3>1. Within(socket', p, n)
      BY <2>3, WithinEmpty DEF Restart
    <3> QED
      BY <3>1
  <2>4. CASE UNCHANGED vars
    <3>1. UNCHANGED <<socket, pc>>
      BY <2>4 DEF vars, daemonVars
    <3> QED
      BY <1>1, <3>1 DEF Within
  <2> QED
    BY <1>1, <2>1, <2>2, <2>3, <2>4 DEF Next
<1>2. ASSUME Inv, At("idle"), Daemon PROVE Q'
  <2>1. Receive
    BY <1>2 DEF Daemon, Scan, Monitor, CheckUbi, Enumerate, ScanDevice, StartMonitor, AddCurrent, Resume
  <2>2. socket # <<>> /\ socket' = Tail(socket)
    BY <2>1 DEF Receive
  <2>3. Within(socket', p, n)
    BY <1>0, <1>2, <2>2, WithinTail
  <2> QED
    BY <2>3
<1>3. ASSUME Inv, At("pause") \/ At("eventAdd"), Daemon
      PROVE  /\ P' \/ ~InUdevd(p, d, 0)'
             /\ pc = "pause" => pc' = "idle"
             /\ pc = "eventAdd" => pc' = "pause"
  <2>1. Resume \/ AddCurrent
    BY <1>3 DEF Daemon, Scan, Monitor, CheckUbi, Enumerate, ScanDevice, StartMonitor, Receive
  <2>2. /\ socket' = socket
        /\ pc = "pause" => pc' = "idle"
        /\ pc = "eventAdd" => pc' = "pause"
    BY <2>1 DEF Resume, AddCurrent
  <2> QED
    BY <1>3, <2>2 DEF Within
<1>4. ASSUME Inv, P PROVE At("idle") \/ At("pause") \/ At("eventAdd") \/ Q
  <2>1. CASE listening
    BY <1>0, <1>4, <2>1
  <2>2. CASE ~listening
    BY <1>0, <1>4, <2>2, WithinEmpty
  <2> QED
    BY <2>1, <2>2
<1>5. /\ Inv /\ At("idle") /\ [Next]_vars => At("idle")' \/ Q'
      /\ Inv /\ At("pause") /\ [Next]_vars => At("pause")' \/ At("idle")' \/ Q'
      /\ Inv /\ At("eventAdd") /\ [Next]_vars => At("eventAdd")' \/ At("pause")' \/ Q'
  BY <1>1, <1>2, <1>3
<1>6. /\ Inv /\ At("idle") /\ <<Daemon>>_vars => Q'
      /\ Inv /\ At("pause") /\ <<Daemon>>_vars => At("idle")' \/ Q'
      /\ Inv /\ At("eventAdd") /\ <<Daemon>>_vars => At("pause")' \/ Q'
  BY <1>2, <1>3
<1>7. /\ At("idle") => Q \/ (pc # "idle" \/ socket # <<>>)
      /\ At("pause") => pc # "idle" \/ socket # <<>>
      /\ At("eventAdd") => pc # "idle" \/ socket # <<>>
  BY WithinEmpty
<1>8. Inv /\ P => At("idle") \/ At("pause") \/ At("eventAdd") \/ Q
  BY <1>4
<1> DEFINE Idle == At("idle")
           Pause == At("pause")
           Adding == At("eventAdd")
<1>9. /\ Inv /\ Idle /\ [Next]_vars => Idle' \/ Q'
      /\ Inv /\ Pause /\ [Next]_vars => Pause' \/ Idle' \/ Q'
      /\ Inv /\ Adding /\ [Next]_vars => Adding' \/ Pause' \/ Q'
      /\ Inv /\ Idle /\ <<Daemon>>_vars => Q'
      /\ Inv /\ Pause /\ <<Daemon>>_vars => Idle' \/ Q'
      /\ Inv /\ Adding /\ <<Daemon>>_vars => Pause' \/ Q'
      /\ Idle => Q \/ (pc # "idle" \/ socket # <<>>)
      /\ Pause => pc # "idle" \/ socket # <<>>
      /\ Adding => pc # "idle" \/ socket # <<>>
      /\ Inv /\ P => Idle \/ Pause \/ Adding \/ Q
  BY <1>5, <1>6, <1>7, <1>8
<1> HIDE DEF P, Q, Idle, Pause, Adding
<1>10. FairRun => (Idle ~> Q)
  BY <1>9, WhatCanGoOn, SafeSpec, PTL DEF FairRun, FairSpec, CanServe
<1>11. FairRun => (Pause ~> Idle \/ Q)
  BY <1>9, WhatCanGoOn, SafeSpec, PTL DEF FairRun, FairSpec, CanServe
<1>12. FairRun => (Adding ~> Pause \/ Q)
  BY <1>9, WhatCanGoOn, SafeSpec, PTL DEF FairRun, FairSpec, CanServe
<1>13. FairRun => (P ~> Q)
  BY <1>9, <1>10, <1>11, <1>12, SafeSpec, PTL DEF FairRun, FairSpec
<1> QED
  BY <1>13 DEF SocketNears, P, Q

\* The thread is about to add a device at node p.
Held(p) == cur # None /\ cur.path = p

\* Nothing about p is on its way, and the daemon listens for what may come.
Quiet(p, d) == listening /\ InSocket(p, d, 0)

LEMMA QuietIsRight ==
  ASSUME Inv, NEW p \in Paths, NEW d \in Devices \cup {None}, Quiet(p, d), ~Held(p)
  PROVE  Right(p)
<1>1. pc \notin {"ubi", "enumerate"} /\ todo = {} /\ p \notin missed
  BY DEF Inv, Shape, PlaceInv, Quiet, InSocket, InUdevd, Settled
<1>2. Knows(p)
  BY <1>1 DEF Inv, TableInv
<1>3. ~Coming(Removes(p)) /\ ~Coming(Adds(p))
  <2>1. Len(socket) \in Nat /\ Len(udevd) \in Nat
    BY LenProperties DEF Inv, Shape, TypeOK
  <2> QED
    BY <2>1 DEF Quiet, InSocket, InUdevd, Within, Coming, Has, Removes, Adds
<1>4. ~Pending(p)
  BY <1>1 DEF Pending, Held
<1> QED
  BY <1>2, <1>3, <1>4 DEF Knows, Right

\* Once nothing about p is on its way, so it remains while p is settled.
LEMMA SocketIsThrough ==
  ASSUME Inv, [Next]_vars, NEW p \in Paths, NEW d \in Devices \cup {None}, InSocket(p, d, 0)
  PROVE  ~Settled(p, d)' \/ InSocket(p, d, 0)'
<1> USE DEF InSocket
<1>1. ~Settled(p, d)' \/ InUdevd(p, d, 0)'
  BY UdevdIsThrough
<1>2. udevd \in Seq(Event) /\ socket \in Seq(Event) /\ 0 \in Nat
  BY DEF Inv, Shape, TypeOK
<1>3. CASE Broadcast
  <2>1. udevd # <<>> /\ (socket' = socket \/ socket' = Append(socket, Head(udevd)))
    BY <1>3 DEF Broadcast
  <2>2. Head(udevd) \in Event /\ (Head(udevd).path # p \/ Head(udevd).act = "other")
    BY <1>2, <2>1, WithinTail, HeadTailProperties DEF InUdevd
  <2> QED
    BY <1>1, <1>2, <2>1, <2>2, WithinAppend
<1>4. CASE Receive
  <2>1. socket # <<>> /\ socket' = Tail(socket)
    BY <1>4 DEF Receive
  <2> QED
    BY <1>1, <1>2, <2>1, WithinTail
<1>5. CASE Restart
  BY <1>1, <1>5, WithinEmpty DEF Restart
<1>6. CASE Kernel \/ Scan \/ AddCurrent \/ Resume \/ UNCHANGED vars
  <2>1. UNCHANGED socket
    BY <1>6 DEF Kernel, Plug, Unplug, Murmur, Scan, CheckUbi, Enumerate, ScanDevice, StartMonitor, AddCurrent,
                Resume, vars
  <2> QED
    BY <1>1, <2>1 DEF Within
<1> QED
  BY <1>3, <1>4, <1>5, <1>6 DEF Next, Daemon, Monitor

\* What is at hand when p falls quiet is added, and nothing of p follows it.
LEMMA HandComesFree ==
  ASSUME NEW p \in Paths, NEW d \in Devices \cup {None}
  PROVE  Running /\ [][~Restart]_vars /\ []Quiet(p, d) => <>[]~Held(p)
<1>0. Inv /\ Quiet(p, d) => /\ pc \in {"idle", "eventAdd", "pause"} /\ socket \in Seq(Event)
                            /\ (Held(p) => pc = "eventAdd")
                            /\ (pc # "eventAdd" => ~Held(p) /\ cur = None)
  BY DEF Inv, Shape, TypeOK, PlaceInv, Quiet, Held
<1>1. ASSUME Inv, Quiet(p, d), [Next]_vars, [~Restart]_vars, ~Daemon PROVE cur' = cur
  <2>1. CASE Kernel \/ Broadcast
    BY <2>1, OthersLeaveTheThread DEF daemonVars
  <2> QED
    BY <1>1, <2>1 DEF Next, vars, daemonVars
<1>2. ASSUME Inv, Quiet(p, d), Daemon
      PROVE  /\ Held(p) => ~Held(p)'
             /\ ~Held(p) => ~Held(p)'
  <2>1. CASE AddCurrent
    BY <2>1 DEF AddCurrent, Held
  <2>2. CASE Resume
    BY <1>0, <1>2, <2>2 DEF Resume, Held
  <2>3. CASE Receive
    <3>1. socket # <<>> /\ pc = "idle"
      BY <2>3 DEF Receive
    <3>2. Head(socket).path # p \/ Head(socket).act = "other"
      BY <1>0, <1>2, <3>1, WithinTail DEF Quiet, InSocket
    <3>3. \/ cur' = cur
          \/ /\ cur' = [path |-> Head(socket).path, dev |-> Head(socket).dev,
                         type |-> EventType(Head(socket).path, Head(socket).dev)]
             /\ Head(socket).act = "add"
      BY <2>3 DEF Receive
    <3> QED
      BY <1>0, <1>2, <3>1, <3>2, <3>3 DEF Held
  <2> QED
    BY <1>0, <1>2, <2>1, <2>2, <2>3 DEF Daemon, Scan, Monitor, CheckUbi, Enumerate, ScanDevice, StartMonitor
<1>3. Inv /\ Quiet(p, d) /\ [Next]_vars /\ [~Restart]_vars /\ ~Held(p) => ~Held(p)'
  BY <1>1, <1>2 DEF Held
<1>4. Inv /\ Quiet(p, d) /\ <<Daemon>>_vars => ~Held(p)'
  BY <1>2
<1>5. Inv /\ Quiet(p, d) /\ Held(p) => pc # "idle" \/ socket # <<>>
  BY <1>0
<1> QED
  BY <1>3, <1>4, <1>5, WhatCanGoOn, PTL DEF Running, CanServe

Drains == ScanDescends /\ UdevdDrains /\ SocketDrains

\* Both queues are through with a node that is settled, whoever is there.
Ends(p, d) == UdevdEnds(p, d, UdevdSize) /\ SocketEnds(p, d, SocketSize)
EndsForAll(p) == \A d \in Devices \cup {None} : Ends(p, d)

LEMMA QueuesEnd ==
  ASSUME NEW p \in Paths
  PROVE  FairRun /\ Drains => []EndsForAll(p)
<1>1. ASSUME NEW d \in Devices \cup {None} PROVE FairRun /\ Drains => []Ends(p, d)
  <2>1. FairRun => \A n \in Nat : UdevdNears(p, d, n)
    BY UdevdComesNearer
  <2>2. FairRun => \A n \in Nat : SocketNears(p, d, n)
    BY SocketComesNearer
  <2>3. FairRun /\ Drains => \A n \in Nat : UdevdEnds(p, d, n)
    BY <2>1 DEF Drains, UdevdDrains
  <2>4. FairRun /\ Drains => \A n \in Nat : SocketEnds(p, d, n)
    BY <2>2 DEF Drains, SocketDrains
  <2>5. FairRun /\ Drains => UdevdEnds(p, d, UdevdSize)
    BY <2>3, DeviceDiscoveryAssumption
  <2>6. FairRun /\ Drains => SocketEnds(p, d, SocketSize)
    BY <2>4, DeviceDiscoveryAssumption
  <2> QED
    BY <2>5, <2>6, PTL DEF Ends, UdevdEnds, SocketEnds
<1>2. FairRun /\ Drains => \A d \in Devices \cup {None} : []Ends(p, d)
  BY <1>1
<1>3. (\A d \in Devices \cup {None} : []Ends(p, d)) => []EndsForAll(p)
  BY DEF EndsForAll
<1> QED
  BY <1>2, <1>3

LEMMA ScanComesToItsEnd == FairRun /\ Drains => ScanEnds
<1>1. FairRun => \A S \in SUBSET Place : FewerToScan(S)
  BY ScanShrinks
<1> QED
  BY <1>1 DEF Drains, ScanDescends

\* What remains of the run when the daemon has died for the last time and p is
\* left alone.
LastRun(p) ==
  /\ Running /\ ScanEnds
  /\ [][~Restart]_vars /\ [][Untouched(p)]_vars /\ [](p \notin missed)

\* Whoever is at p then, p is right in the end.
LEMMA SettledCatchesUp ==
  ASSUME NEW p \in Paths, NEW d \in Devices \cup {None}
  PROVE  LastRun(p) /\ Ends(p, d) => (plugged[p] = d => <>[]Right(p))
<1>1. plugged[p] = d /\ [Untouched(p)]_vars => (plugged[p] = d)'
  BY DEF Untouched, vars, kernelVars
<1>2. plugged[p] = d /\ p \notin missed => Settled(p, d)
  BY DEF Settled
<1>3. LastRun(p) /\ plugged[p] = d => []Settled(p, d)
  BY <1>1, <1>2, PTL DEF LastRun
<1>4. Inv /\ Settled(p, d) => InUdevd(p, d, UdevdSize)
  BY DeviceDiscoveryAssumption, LenProperties DEF Inv, Shape, TypeOK, InUdevd, Within
<1>5. Inv /\ InUdevd(p, d, 0) => InSocket(p, d, SocketSize)
  BY DeviceDiscoveryAssumption, LenProperties DEF Inv, Shape, TypeOK, InSocket, Within
<1>6. Inv /\ [Next]_vars /\ InUdevd(p, d, 0) => ~Settled(p, d)' \/ InUdevd(p, d, 0)'
  BY UdevdIsThrough
<1>7. Inv /\ [Next]_vars /\ InSocket(p, d, 0) => ~Settled(p, d)' \/ InSocket(p, d, 0)'
  BY SocketIsThrough
<1>8. Running /\ Ends(p, d) /\ []Settled(p, d) => <>[]InUdevd(p, d, 0)
  BY <1>4, <1>6, PTL DEF Running, Ends, UdevdEnds
<1>9. Running /\ Ends(p, d) /\ []Settled(p, d) => <>[]InSocket(p, d, 0)
  BY <1>5, <1>7, <1>8, PTL DEF Running, Ends, SocketEnds
<1>10. LastRun(p) => <>[]listening
  BY BootEnds, PTL DEF LastRun
<1>11. listening /\ InSocket(p, d, 0) => Quiet(p, d)
  BY DEF Quiet
<1>12. LastRun(p) /\ Ends(p, d) /\ plugged[p] = d => <>[]Quiet(p, d)
  BY <1>3, <1>9, <1>10, <1>11, PTL DEF LastRun
<1>13. Running /\ [][~Restart]_vars /\ []Quiet(p, d) => <>[]~Held(p)
  BY HandComesFree
<1>14. LastRun(p) /\ Ends(p, d) /\ plugged[p] = d => <>[]~Held(p)
  BY <1>12, <1>13, PTL DEF LastRun, Running
<1>15. Inv /\ Quiet(p, d) /\ ~Held(p) => Right(p)
  BY QuietIsRight
<1> QED
  BY <1>12, <1>14, <1>15, PTL DEF LastRun, Running

LEMMA NodeCatchesUp ==
  ASSUME NEW p \in Paths
  PROVE  FairRun /\ Drains /\ <>[][~Restart]_vars =>
           (<>[][Untouched(p)]_vars /\ <>[](p \notin missed) => <>[]Right(p))
<1> DEFINE R == <>[]Right(p)
<1>1. ASSUME NEW d \in Devices \cup {None}
      PROVE  LastRun(p) /\ Ends(p, d) => (plugged[p] = d => R)
  BY SettledCatchesUp
<1>2. Inv => \E d \in Devices \cup {None} : plugged[p] = d
  BY DEF Inv, Shape, TypeOK
<1> HIDE DEF R
<1>3. LastRun(p) /\ EndsForAll(p) /\ Inv => R
  BY <1>1, <1>2 DEF EndsForAll
<1>4. LastRun(p) => Inv
  BY PTL DEF LastRun, Running
<1>5. LastRun(p) /\ EndsForAll(p) => <>[]Right(p)
  BY <1>3, <1>4 DEF R
<1> QED
  BY <1>5, QueuesEnd, ScanComesToItsEnd, FairRunIsRunning, PTL DEF LastRun, Running, ScanEnds

(* A node at which nothing changes any more is right in the end and for    *)
(* good, whatever the kernel goes on saying of other nodes, with the       *)
(* daemon dying any number of times before: for any nodes, devices and     *)
(* sizes of the queues.  The scan gets through the devices it has found,   *)
(* and each event about the node to the head of udevd's queue and of the   *)
(* socket, where the thread takes it, one in five seconds.                 *)
THEOREM TableCatchesUp ==
  FairSpec /\ []EventsAreWaitedForOnly /\ ScanDescends /\ UdevdDrains /\ SocketDrains => CatchesUp
<1>1. ASSUME NEW p \in Paths
      PROVE  FairRun /\ Drains /\ <>[][~Restart]_vars =>
               (<>[][Untouched(p)]_vars /\ <>[](p \notin missed) => <>[]Right(p))
  BY NodeCatchesUp
<1> QED
  BY <1>1 DEF FairRun, Drains, CatchesUp
=============================================================================
