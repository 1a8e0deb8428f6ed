--------------------------- MODULE ServiceBrowser ---------------------------
(***************************************************************************)
(* What an NdnSd object (src/src/ndn-sd/ndn-sd.cpp) promises to a user who *)
(* browses and resolves with it, whatever happens to handles, sockets and  *)
(* descriptors, to the loop of run() and to the callbacks in it.           *)
(*                                                                         *)
(* Which of the objects with the name of a service goes when the service   *)
(* is lost on one of its interfaces is left open: the code takes one that  *)
(* may have been found on another interface.                               *)
(***************************************************************************)
EXTENDS Integers, FiniteSets

CONSTANTS
    Name,     \* service instance names (uuids)
    Uuid,     \* the name of the object that browses
    Iface,    \* network interfaces
    MaxId,    \* bound on request ids
    MaxCopy   \* bound on live objects of one name and interface

VARIABLES
    browsing,   \* browse requests
    present,    \* browse request -> the services reported as present
    listed,     \* browse request -> the objects it has listed
    resolving,  \* resolve request -> the object it is for, or NoSd
    resolved    \* objects in state Resolved

vars == <<browsing, present, listed, resolving, resolved>>

Id == 1 .. MaxId
Service == Name \X Iface
Sd == [name : Name, iface : Iface, copy : 1 .. MaxCopy]
NoSd == [name |-> Uuid]
ServiceOf(sd) == <<sd.name, sd.iface>>

Listed == UNION {listed[i] : i \in Id}
InUse(sd) == sd \in Listed \/ \E i \in Id : resolving[i] = sd

StartBrowsing(id) ==
    /\ id \notin browsing
    /\ browsing' = browsing \cup {id}
    /\ UNCHANGED <<present, listed, resolving, resolved>>

(* Requests end: one is cancelled, or all of them with the object.         *)
StopBrowsing(ids) ==
    /\ ids \subseteq browsing
    /\ browsing' = browsing \ ids
    /\ present' = [i \in Id |-> IF i \in ids THEN {} ELSE present[i]]
    /\ listed' = [i \in Id |-> IF i \in ids THEN {} ELSE listed[i]]
    /\ UNCHANGED <<resolving, resolved>>

(* A service appears: an object that no one has seen is listed for it,     *)
(* unless it is the object's own.                                          *)
Appear(id, service) ==
    /\ id \in browsing
    /\ service \notin present[id]
    /\ present' = [present EXCEPT ![id] = @ \cup {service}]
    /\ IF service[1] = Uuid
       THEN UNCHANGED <<listed, resolved>>
       ELSE \E sd \in Sd :
              /\ ServiceOf(sd) = service
              /\ ~InUse(sd)
              /\ listed' = [listed EXCEPT ![id] = @ \cup {sd}]
              /\ resolved' = resolved \ {sd}
    /\ UNCHANGED <<browsing, resolving>>

(* A service is lost: an object with its name is not listed any more.      *)
Disappear(id, service) ==
    /\ id \in browsing
    /\ service \in present[id]
    /\ present' = [present EXCEPT ![id] = @ \ {service}]
    /\ IF service[1] = Uuid
       THEN UNCHANGED listed
       ELSE \E sd \in listed[id] :
              /\ sd.name = service[1]
              /\ listed' = [listed EXCEPT ![id] = @ \ {sd}]
    /\ UNCHANGED <<browsing, resolving, resolved>>

StartResolving(id, sd) ==
    /\ sd \in Listed
    /\ resolving[id] = NoSd
    /\ resolving' = [resolving EXCEPT ![id] = sd]
    /\ UNCHANGED <<browsing, present, listed, resolved>>

(* A reply may come more than once, also when the object is gone.          *)
Resolve(id) ==
    /\ resolving[id] # NoSd
    /\ resolved' = resolved \cup {resolving[id]}
    /\ UNCHANGED <<browsing, present, listed, resolving>>

(* A resolve request ends only after an answer.                            *)
StopResolving(id) ==
    /\ resolving[id] \in resolved
    /\ resolving' = [resolving EXCEPT ![id] = NoSd]
    /\ UNCHANGED <<browsing, present, listed, resolved>>

Init ==
    /\ browsing = {}
    /\ present = [i \in Id |-> {}]
    /\ listed = [i \in Id |-> {}]
    /\ resolving = [i \in Id |-> NoSd]
    /\ resolved = {}

Next ==
    \/ \E id \in Id : StartBrowsing(id)
    \/ \E ids \in SUBSET browsing : StopBrowsing(ids)
    \/ \E id \in Id, service \in Service : Appear(id, service)
    \/ \E id \in Id, service \in Service : Disappear(id, service)
    \/ \E id \in Id, sd \in Sd : StartResolving(id, sd)
    \/ \E id \in Id : Resolve(id)
    \/ \E id \in Id : StopResolving(id)

Spec == Init /\ [][Next]_vars

-----------------------------------------------------------------------------
TypeOK ==
    /\ browsing \subseteq Id
    /\ present \in [Id -> SUBSET Service]
    /\ listed \in [Id -> SUBSET Sd]
    /\ resolving \in [Id -> Sd \cup {NoSd}]
    /\ resolved \subseteq Sd

(* No object is in the lists of two requests.                              *)
ListsAreDisjoint ==
    \A i, j \in Id : i # j => listed[i] \cap listed[j] = {}

(* A request lists as many objects of a name as there are interfaces on    *)
(* which the name is present, and none of its own name.                    *)
ListsFollowPresence ==
    \A i \in Id, n \in Name :
        Cardinality({sd \in listed[i] : sd.name = n})
          = IF n = Uuid THEN 0
            ELSE Cardinality({s \in present[i] : s[1] = n})

=============================================================================
