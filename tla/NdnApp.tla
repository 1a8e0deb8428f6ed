------------------------------- MODULE NdnApp -------------------------------
(***************************************************************************)
(* ndnapp::App (src/src/ndnapp/ndnapp.cpp): it browses for other instances *)
(* over TCP and over UDP, one NdnSd each, resolves what they discover, and *)
(* keeps a face and a route of the microforwarder for what is resolved.    *)
(*                                                                         *)
(* One thread calls processEvents(), which runs the two NdnSd in turn; an  *)
(* exception out of one run() skips what is left of the pass.  Of an NdnSd *)
(* this module keeps what NdnSd.tla shows of a browse request: the objects *)
(* in discovered_, the resolve requests, and the daemon's reports.  The    *)
(* microforwarder (ndn-ind-tools) is external: it opens and closes faces.  *)
(***************************************************************************)
EXTENDS Integers, Sequences, FiniteSets, SequencesExt

CONSTANTS
    Name,             \* uuids of the other instances
    Iface,            \* network interfaces
    MaxCopy,          \* bound on objects made for one service
    MaxFaces,         \* bound on faces open for one object
    Protocols,        \* the protocols the application is configured with
    FilterInterface,  \* filterInterface_
    Faults            \* which failures occur

Proto == {"TCP", "UDP"}

ASSUME BoundAssumption == {MaxCopy, MaxFaces} \subseteq Nat \ {0}
ASSUME ProtocolsAssumption == Protocols \subseteq Proto
ASSUME FilterAssumption == FilterInterface \in BOOLEAN
ASSUME FaultAssumption ==
    Faults \subseteq {"channel", "resolve", "emptyPrefix", "addFace", "addRoute"}

VARIABLES
    \* The daemon and the two NdnSd.
    told,          \* protocol -> services last reported as present
    discovered,    \* protocol -> discovered_ of its browse request
    resolving,     \* objects with an open resolve request
    \* The application.
    pc,            \* "start", "idle", "stopped", or the NdnSd being run
    protocolPort,  \* protocolPort_: a port is bound, or there is none (0)
    announced,     \* protocol -> announce() was called
    discoveredInstances,  \* discoveredInstances_
    faces,         \* the keys of faces_
    \* The microforwarder.
    mfdFaces,      \* how many faces are open for an object
    threw          \* history: objects for which a face was opened, and the
                   \* resolve callback then threw

sdVars == <<told, discovered, resolving>>
faceVars == <<faces, mfdFaces, threw>>
vars == <<sdVars, pc, protocolPort, announced, discoveredInstances, faceVars>>

Service == Name \X Iface
(* A discovered object, that is a shared_ptr: faces_ keeps it alive.       *)
Sd == [proto : Proto, name : Name, iface : Iface, copy : 1 .. MaxCopy]
ServiceOf(sd) == <<sd.name, sd.iface>>

(* getDiscoveredNodes()                                                    *)
DiscoveredNodes == UNION {ToSet(discovered[p]) : p \in Proto}
Present(sd) == ServiceOf(sd) \in told[sd.proto]

-----------------------------------------------------------------------------
(* configure(): setupMicroforwarder() and setupNdnSd().                    *)

(* addChannel gives a port, or nothing, which is only logged.              *)
Channels ==
    {port \in [Proto -> {0, 1}] :
       \A p \in Proto :
         /\ port[p] = 1 => p \in Protocols
         /\ port[p] = 0 => p \notin Protocols \/ "channel" \in Faults}

(* Both protocols are browsed; those configured are announced, on port 0   *)
(* when their channel has none.                                            *)
Configure ==
    /\ pc = "start"
    /\ protocolPort' \in Channels
    /\ announced' = [p \in Proto |-> p \in Protocols]
    /\ pc' = "idle"
    /\ UNCHANGED <<sdVars, discoveredInstances, faceVars>>

(* addChannel throws: configure() does, and main() does not catch it.      *)
ConfigureThrows ==
    /\ pc = "start"
    /\ "channel" \in Faults
    /\ pc' = "stopped"
    /\ UNCHANGED <<sdVars, protocolPort, announced, discoveredInstances,
                   faceVars>>

-----------------------------------------------------------------------------
(* processEvents(): the microforwarder, then run(1) of each NdnSd.         *)

ProcessEvents ==
    /\ pc = "idle"
    /\ pc' = "TCP"
    /\ UNCHANGED <<sdVars, protocolPort, announced, discoveredInstances,
                   faceVars>>

RunReturns ==
    /\ pc \in Proto
    /\ pc' = IF pc = "TCP" THEN "UDP" ELSE "idle"
    /\ UNCHANGED <<sdVars, protocolPort, announced, discoveredInstances,
                   faceVars>>

(* Objects no one points to.                                               *)
Unused(sd) ==
    sd \notin DiscoveredNodes \cup resolving \cup faces

(* The Added branch of the browse callback, for an object just listed.     *)
\* Mutant: interface filtering forgets to look at the flag.
AlwaysFilters(sd) ==
    IF sd.name \in discoveredInstances
    THEN UNCHANGED <<discoveredInstances, resolving>>
    ELSE /\ discoveredInstances' = discoveredInstances \cup {sd.name}
         /\ resolving' = resolving \cup {sd}
OnAdded(sd) ==
    IF FilterInterface /\ sd.name \in discoveredInstances
    THEN UNCHANGED <<discoveredInstances, resolving>>
    ELSE /\ discoveredInstances' = discoveredInstances \cup {sd.name}
         /\ \/ resolving' = resolving \cup {sd}
            \/ "resolve" \in Faults /\ UNCHANGED resolving

Added(service) ==
    /\ pc \in Proto
    /\ service \notin told[pc]
    /\ told' = [told EXCEPT ![pc] = @ \cup {service}]
    /\ \E k \in 1 .. MaxCopy :
         LET sd == [proto |-> pc, name |-> service[1], iface |-> service[2],
                    copy |-> k]
         IN  /\ Unused(sd)
             /\ discovered' = [discovered EXCEPT ![pc] = Append(@, sd)]
             /\ OnAdded(sd)
    /\ UNCHANGED <<pc, protocolPort, announced, faceVars>>

(* removeRoute(): the face last opened goes, its entry in faces_ stays.    *)
\* Mutants: faces_ is not asked; the faces of all objects with that uuid go.
RemoveUnknownRoute(sd) == mfdFaces' = [mfdFaces EXCEPT ![sd] = @ - 1]
RemoveAllRoutes(sd) ==
    mfdFaces' = [d \in Sd |-> IF d.name = sd.name THEN 0 ELSE mfdFaces[d]]
RemoveRoute(sd) ==
    mfdFaces' = IF sd \in faces
                THEN [mfdFaces EXCEPT ![sd] = @ - 1]
                ELSE mfdFaces

(* The Removed branch of the browse callback.                              *)
\* Mutant: the uuid stays.
RemoveRouteOnly(sd) == RemoveRoute(sd) /\ UNCHANGED discoveredInstances
OnRemoved(sd) ==
    IF sd.name \in discoveredInstances
    THEN /\ RemoveRoute(sd)
         /\ discoveredInstances' = discoveredInstances \ {sd.name}
    ELSE UNCHANGED <<mfdFaces, discoveredInstances>>

(* The NdnSd removes the first object it lists under the service's name.   *)
Removed(service) ==
    LET list == discovered[pc]
    IN  /\ pc \in Proto
        /\ service \in told[pc]
        /\ told' = [told EXCEPT ![pc] = @ \ {service}]
        /\ \E k \in DOMAIN list :
             /\ list[k].name = service[1]
             /\ \A j \in 1 .. k - 1 : list[j].name # service[1]
             /\ discovered' = [discovered EXCEPT ![pc] = RemoveAt(list, k)]
             /\ OnRemoved(list[k])
        /\ UNCHANGED <<pc, resolving, protocolPort, announced, faces, threw>>

(* addRoute() as far as the new face and its entry in faces_, which takes  *)
(* the place of an earlier one.                                            *)
OpenFace(sd) ==
    /\ mfdFaces[sd] < MaxFaces
    /\ mfdFaces' = [mfdFaces EXCEPT ![sd] = @ + 1]
    /\ faces' = faces \cup {sd}

(* addRoute() returns: a face for an object whose prefix is not empty,     *)
(* whether or not the microforwarder takes the route.                      *)
AddRoute(sd) ==
    /\ \/ OpenFace(sd)
       \/ "emptyPrefix" \in Faults /\ UNCHANGED <<mfdFaces, faces>>
    /\ UNCHANGED threw

(* addRoute() throws: in addFace, or for the prefix or the route of a face *)
(* that is open by then.                                                   *)
AddRouteThrows(sd) ==
    \/ "addFace" \in Faults /\ UNCHANGED faceVars
    \/ /\ "addRoute" \in Faults
       /\ OpenFace(sd)
       /\ threw' = threw \cup {sd}

(* The resolve callback; the NdnSd removes the request when it returns.    *)
\* Mutant: the request stays.
RequestStays(sd) == UNCHANGED resolving
RequestDone(sd) == resolving' = resolving \ {sd}

Resolved(sd) ==
    /\ pc = sd.proto
    /\ sd \in resolving
    /\ AddRoute(sd)
    /\ RequestDone(sd)
    /\ UNCHANGED <<told, discovered, pc, protocolPort, announced,
                   discoveredInstances>>

(* It throws: the request stays, for the next reply, and the exception     *)
(* leaves run() and processEvents().                                       *)
ResolvedThrows(sd) ==
    /\ pc = sd.proto
    /\ sd \in resolving
    /\ AddRouteThrows(sd)
    /\ pc' = "idle"
    /\ UNCHANGED <<sdVars, protocolPort, announced, discoveredInstances>>

Stopped == pc = "stopped" /\ UNCHANGED vars

Init ==
    /\ told = [p \in Proto |-> {}]
    /\ discovered = [p \in Proto |-> <<>>]
    /\ resolving = {}
    /\ pc = "start"
    /\ protocolPort = [p \in Proto |-> 0]
    /\ announced = [p \in Proto |-> FALSE]
    /\ discoveredInstances = {}
    /\ faces = {}
    /\ mfdFaces = [sd \in Sd |-> 0]
    /\ threw = {}

Next ==
    \/ Configure
    \/ ConfigureThrows
    \/ ProcessEvents
    \/ RunReturns
    \/ \E service \in Service : Added(service)
    \/ \E service \in Service : Removed(service)
    \/ \E sd \in Sd : Resolved(sd)
    \/ \E sd \in Sd : ResolvedThrows(sd)
    \/ Stopped

Spec == Init /\ [][Next]_vars

(* main() calls processEvents() in a loop, run(1) returns, and the daemon  *)
(* answers the resolve request of a service that is present; its reply     *)
(* waits until the NdnSd is run.                                           *)
Fairness ==
    /\ WF_vars(Configure)
    /\ WF_vars(ProcessEvents)
    /\ WF_vars(RunReturns)
    /\ \A sd \in Sd : SF_vars(Present(sd) /\ Resolved(sd))

FairSpec == Spec /\ Fairness

-----------------------------------------------------------------------------
(* The variables have the types the code gives them.                       *)
TypeOK ==
    /\ told \in [Proto -> SUBSET Service]
    /\ discovered \in [Proto -> Seq(Sd)]
    /\ resolving \subseteq Sd
    /\ pc \in {"start", "idle", "stopped"} \cup Proto
    /\ protocolPort \in [Proto -> {0, 1}]
    /\ announced \in [Proto -> BOOLEAN]
    /\ discoveredInstances \subseteq Name
    /\ faces \subseteq Sd
    /\ mfdFaces \in [Sd -> Nat]
    /\ threw \subseteq Sd

(* An uuid is in discoveredInstances_ only while one of its objects is     *)
(* listed: an instance that left is not taken for a duplicate when it      *)
(* comes back ("iface filtering: skip duplicate").                         *)
KnownInstancesAreListed ==
    discoveredInstances \subseteq {sd.name : sd \in DiscoveredNodes}

(* Every open face is of an object that faces_ has, so that the removal of *)
(* the object can close it, and no second one is opened for an object      *)
(* unless the callback that opened the first went on to throw: faces_ has  *)
(* one id, and a second face would hide the first from the removal.        *)
FacesAreKnown ==
    \A sd \in Sd :
        /\ mfdFaces[sd] > 0 => sd \in faces
        /\ mfdFaces[sd] > 1 => sd \in threw

(* The face of an object stays as long as the object is listed, whatever   *)
(* happens to other objects of the same instance.                          *)
ListedObjectsKeepTheirFace ==
    [][\A sd \in DiscoveredNodes \cap DiscoveredNodes' :
         mfdFaces[sd] > 0 => mfdFaces'[sd] > 0]_vars

(* Without interface filtering, a listed object whose service is present   *)
(* gets a face.                                                            *)
PresentObjectsGetAFace ==
    \A sd \in Sd :
        sd \in DiscoveredNodes /\ Present(sd)
          ~> mfdFaces[sd] > 0 \/ sd \notin DiscoveredNodes \/ ~Present(sd)

-----------------------------------------------------------------------------
(* What the repository says of the program and the code does not do.       *)

(* "automatic link-local NDN connectivity" (README.md:9): an instance that *)
(* stays present on some protocol and interface gets a face.               *)
PresentInstancesGetAFace ==
    \A n \in Name :
        LET IsPresent == \E p \in Proto, i \in Iface : <<n, i>> \in told[p]
            HasFace == \E sd \in Sd : sd.name = n /\ mfdFaces[sd] > 0
        IN  IsPresent ~> HasFace \/ ~IsPresent

=============================================================================
