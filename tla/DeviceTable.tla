---------------------------- MODULE DeviceTable ----------------------------
(***************************************************************************)
(* What the daemon promises its RPC clients about the set of storage       *)
(* devices: the set changes one device at a time, and every enquiry is     *)
(* answered from the set as it stood at one moment between the call and    *)
(* its return.  There are no locks, threads, objects or device paths here. *)
(* StorageMain is shown to implement Spec, for the callers inside the      *)
(* daemon, and StorageRPC to implement LossySpec, for clients on the bus.  *)
(***************************************************************************)
CONSTANTS
  Devices,    \* the storage devices that can ever be listed
  Clients,    \* the callers of the RPC interface
  Requests,   \* the sets of devices a call can enquire about
  None        \* "nothing", no set of devices: no call, no answer yet

VARIABLES
  listed,     \* the devices the daemon knows at this moment
  asked,      \* asked[c]: the devices client c enquires about, or None
  answered    \* answered[c]: which of them the daemon lists, or None

vars == <<listed, asked, answered>>

TypeOK ==
  /\ listed \subseteq Devices
  /\ asked \in [Clients -> Requests \cup {None}]
  /\ answered \in [Clients -> SUBSET Devices \cup {None}]

Init ==
  /\ listed = {}
  /\ asked = [c \in Clients |-> None]
  /\ answered = [c \in Clients |-> None]

\* A device arrives.
Arrive(d) ==
  /\ d \notin listed
  /\ listed' = listed \cup {d}
  /\ UNCHANGED <<asked, answered>>

\* A device leaves.
Leave(d) ==
  /\ d \in listed
  /\ listed' = listed \ {d}
  /\ UNCHANGED <<asked, answered>>

\* Client c calls, enquiring about the devices in S.
Ask(c, S) ==
  /\ asked[c] = None
  /\ asked' = [asked EXCEPT ![c] = S]
  /\ UNCHANGED <<listed, answered>>

\* The one moment at which the call takes effect.
Answer(c) ==
  /\ asked[c] # None
  /\ answered[c] = None
  /\ answered' = [answered EXCEPT ![c] = asked[c] \cap listed]
  /\ UNCHANGED <<listed, asked>>

\* The call returns.
Collect(c) ==
  /\ answered[c] # None
  /\ asked' = [asked EXCEPT ![c] = None]
  /\ answered' = [answered EXCEPT ![c] = None]
  /\ UNCHANGED listed

Next ==
  \/ \E d \in Devices : Arrive(d) \/ Leave(d)
  \/ \E c \in Clients : \/ \E S \in Requests : Ask(c, S)
                        \/ Answer(c)
                        \/ Collect(c)

Spec == Init /\ [][Next]_vars

\* On a bus that can fail, the call of client c ends without an answer.
Lose(c) ==
  /\ asked[c] # None
  /\ answered[c] = None
  /\ asked' = [asked EXCEPT ![c] = None]
  /\ UNCHANGED <<listed, answered>>

\* What a client sees of the table over such a bus.
LossySpec == Init /\ [][Next \/ \E c \in Clients : Lose(c)]_vars
=============================================================================
