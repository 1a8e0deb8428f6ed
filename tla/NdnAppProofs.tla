---------------------------- MODULE NdnAppProofs ----------------------------
(***************************************************************************)
(* What the application keeps of what it discovers, for any instances,     *)
(* interfaces and protocols, with or without interface filtering, whatever *)
(* fails.                                                                  *)
(***************************************************************************)
EXTENDS NdnApp, ListFacts, TLAPS

(* A list has no object twice, and objects of its own protocol only.       *)
ListsAreProper ==
    \A p \in Proto :
      /\ IsInjective(discovered[p])
      /\ \A sd \in ToSet(discovered[p]) : sd.proto = p

(* An object that is being resolved has no face yet, unless its callback   *)
(* threw; a listed one that was given a face still has one.                *)
RouteInv ==
    /\ TypeOK
    /\ ListsAreProper
    /\ KnownInstancesAreListed
    /\ FacesAreKnown
    /\ threw \subseteq faces
    /\ \A sd \in resolving \ threw : mfdFaces[sd] = 0 /\ sd \notin faces
    /\ \A sd \in DiscoveredNodes \cap faces : mfdFaces[sd] > 0

LEMMA InitRoute == Init => RouteInv
<1> SUFFICES ASSUME Init PROVE RouteInv
  OBVIOUS
<1>1. discovered \in [Proto -> Seq(Sd)] /\ \A p \in Proto : discovered[p] = <<>>
  BY DEF Init
<1>2. TypeOK
  BY <1>1 DEF Init, TypeOK, Proto
<1>3. ListsAreProper
  BY <1>1 DEF ListsAreProper, IsInjective, ToSet
<1> QED
  BY <1>2, <1>3 DEF Init, RouteInv, KnownInstancesAreListed, FacesAreKnown

(* The steps that touch no list, face or request.                          *)
LEMMA RouteUnchanged ==
    ASSUME RouteInv, TypeOK',
           UNCHANGED <<discovered, resolving, discoveredInstances, faces,
                       mfdFaces, threw>>
    PROVE  RouteInv'
BY DEF RouteInv, ListsAreProper, KnownInstancesAreListed, FacesAreKnown,
       DiscoveredNodes

LEMMA OtherRoute ==
    ASSUME RouteInv,
           \/ Configure \/ ConfigureThrows \/ ProcessEvents \/ RunReturns
           \/ UNCHANGED vars
    PROVE  RouteInv'
<1> USE DEF RouteInv, TypeOK, sdVars, faceVars
<1>1. CASE Configure
  <2>1. protocolPort' \in [Proto -> {0, 1}] /\ announced' \in [Proto -> BOOLEAN]
    BY <1>1 DEF Configure, Channels
  <2> QED
    BY <1>1, <2>1, RouteUnchanged DEF Configure
<1>2. CASE ConfigureThrows
  BY <1>2, RouteUnchanged DEF ConfigureThrows
<1>3. CASE ProcessEvents
  BY <1>3, RouteUnchanged DEF ProcessEvents, Proto
<1>4. CASE RunReturns
  BY <1>4, RouteUnchanged DEF RunReturns, Proto
<1>5. CASE UNCHANGED vars
  BY <1>5, RouteUnchanged DEF vars
<1> QED
  BY <1>1, <1>2, <1>3, <1>4, <1>5

-----------------------------------------------------------------------------
(* What Added and Removed do to the lists.                                 *)

LEMMA ListSet ==
    ASSUME RouteInv, NEW p \in Proto
    PROVE  /\ discovered[p] \in Seq(Sd)
           /\ IsInjective(discovered[p])
           /\ ToSet(discovered[p]) = {sd \in DiscoveredNodes : sd.proto = p}
           /\ ToSet(discovered[p]) \subseteq Sd
<1>1. discovered[p] \in Seq(Sd) /\ IsInjective(discovered[p])
  BY DEF RouteInv, TypeOK, ListsAreProper
<1>2. ToSet(discovered[p]) = {sd \in DiscoveredNodes : sd.proto = p}
  BY DEF RouteInv, ListsAreProper, DiscoveredNodes
<1>3. ToSet(discovered[p]) \subseteq Sd
  BY <1>1 DEF ToSet
<1> QED
  BY <1>1, <1>2, <1>3

(* A list is replaced by one without duplicates.                           *)
LEMMA ReplaceList ==
    ASSUME RouteInv, NEW p \in Proto, NEW l \in Seq(Sd), IsInjective(l),
           \A sd \in ToSet(l) : sd.proto = p,
           discovered' = [discovered EXCEPT ![p] = l]
    PROVE  /\ ListsAreProper'
           /\ discovered' \in [Proto -> Seq(Sd)]
           /\ DiscoveredNodes' =
                {sd \in DiscoveredNodes : sd.proto # p} \cup ToSet(l)
<1>1. discovered' \in [Proto -> Seq(Sd)]
      /\ \A q \in Proto : discovered'[q] = IF q = p THEN l ELSE discovered[q]
  BY DEF RouteInv, TypeOK
<1>2. ListsAreProper'
  BY <1>1 DEF ListsAreProper, RouteInv
<1>3. DiscoveredNodes' = {sd \in DiscoveredNodes : sd.proto # p} \cup ToSet(l)
  BY <1>1 DEF DiscoveredNodes, RouteInv, ListsAreProper
<1> QED
  BY <1>1, <1>2, <1>3

LEMMA AddedList ==
    ASSUME RouteInv, NEW service \in Service, Added(service)
    PROVE  \E sd \in Sd :
             /\ sd.proto = pc /\ Unused(sd) /\ OnAdded(sd)
             /\ DiscoveredNodes' = DiscoveredNodes \cup {sd}
             /\ ListsAreProper'
             /\ discovered' \in [Proto -> Seq(Sd)]
<1>1. pc \in Proto
  BY DEF Added
<1>2. PICK k \in 1 .. MaxCopy :
        LET sd == [proto |-> pc, name |-> service[1], iface |-> service[2],
                   copy |-> k]
        IN  /\ Unused(sd)
            /\ discovered' = [discovered EXCEPT ![pc] = Append(@, sd)]
            /\ OnAdded(sd)
  BY DEF Added
<1> DEFINE sd == [proto |-> pc, name |-> service[1], iface |-> service[2],
                  copy |-> k]
<1>3. sd \in Sd /\ sd.proto = pc
  BY <1>1 DEF Sd, Service
<1>4. Unused(sd) /\ OnAdded(sd)
      /\ discovered' = [discovered EXCEPT ![pc] = Append(@, sd)]
  BY <1>2
<1> HIDE DEF sd
<1> DEFINE l == Append(discovered[pc], sd)
<1>5. /\ discovered[pc] \in Seq(Sd) /\ IsInjective(discovered[pc])
      /\ ToSet(discovered[pc]) = {d \in DiscoveredNodes : d.proto = pc}
      /\ sd \notin DiscoveredNodes
  BY <1>1, <1>4, ListSet DEF Unused
<1>6. /\ l \in Seq(Sd) /\ IsInjective(l)
      /\ ToSet(l) = ToSet(discovered[pc]) \cup {sd}
  BY <1>3, <1>5, AppendSet
<1>7. discovered' = [discovered EXCEPT ![pc] = l]
  BY <1>4
<1> HIDE DEF l
<1>8. /\ ListsAreProper' /\ discovered' \in [Proto -> Seq(Sd)]
      /\ DiscoveredNodes' =
           {d \in DiscoveredNodes : d.proto # pc} \cup ToSet(l)
  BY <1>1, <1>3, <1>5, <1>6, <1>7, ReplaceList
<1>9. DiscoveredNodes' = DiscoveredNodes \cup {sd}
  BY <1>5, <1>6, <1>8
<1> QED
  BY <1>3, <1>4, <1>8, <1>9

LEMMA RemovedList ==
    ASSUME RouteInv, NEW service \in Service, Removed(service)
    PROVE  \E sd \in DiscoveredNodes :
             /\ sd \in Sd /\ OnRemoved(sd)
             /\ DiscoveredNodes' = DiscoveredNodes \ {sd}
             /\ ListsAreProper'
             /\ discovered' \in [Proto -> Seq(Sd)]
<1>1. pc \in Proto
  BY DEF Removed
<1>2. PICK k \in DOMAIN discovered[pc] :
        /\ discovered' = [discovered EXCEPT ![pc] = RemoveAt(discovered[pc], k)]
        /\ OnRemoved(discovered[pc][k])
  BY DEF Removed
<1> DEFINE sd == discovered[pc][k]
           l == RemoveAt(discovered[pc], k)
<1>3. /\ discovered[pc] \in Seq(Sd) /\ IsInjective(discovered[pc])
      /\ ToSet(discovered[pc]) = {d \in DiscoveredNodes : d.proto = pc}
  BY <1>1, ListSet
<1>4. sd \in Sd /\ sd \in DiscoveredNodes /\ sd.proto = pc
  BY <1>3 DEF ToSet
<1>5. /\ l \in Seq(Sd) /\ IsInjective(l)
      /\ ToSet(l) = ToSet(discovered[pc]) \ {sd}
  BY <1>3, RemoveAtSet
<1>6. discovered' = [discovered EXCEPT ![pc] = l] /\ OnRemoved(sd)
  BY <1>2
<1> HIDE DEF sd, l
<1>7. /\ ListsAreProper' /\ discovered' \in [Proto -> Seq(Sd)]
      /\ DiscoveredNodes' =
           {d \in DiscoveredNodes : d.proto # pc} \cup ToSet(l)
  BY <1>1, <1>3, <1>5, <1>6, ReplaceList
<1>8. DiscoveredNodes' = DiscoveredNodes \ {sd}
  BY <1>3, <1>4, <1>5, <1>7
<1> QED
  BY <1>4, <1>6, <1>7, <1>8

-----------------------------------------------------------------------------
(* The steps of discovery.                                                 *)

LEMMA AddedRoute ==
    ASSUME RouteInv, NEW service \in Service, Added(service)
    PROVE  RouteInv'
<1>1. PICK sd \in Sd :
        /\ sd.proto = pc /\ Unused(sd) /\ OnAdded(sd)
        /\ DiscoveredNodes' = DiscoveredNodes \cup {sd}
        /\ ListsAreProper' /\ discovered' \in [Proto -> Seq(Sd)]
  BY AddedList
<1>2. /\ told' = [told EXCEPT ![pc] = @ \cup {service}]
      /\ pc \in Proto
      /\ UNCHANGED <<pc, protocolPort, announced, faces, mfdFaces, threw>>
  BY DEF Added, faceVars
<1>3. /\ discoveredInstances' \in {discoveredInstances,
                                   discoveredInstances \cup {sd.name}}
      /\ resolving' \in {resolving, resolving \cup {sd}}
  BY <1>1 DEF OnAdded
<1>4. sd.name \in Name
  BY DEF Sd
<1>5. TypeOK'
  BY <1>1, <1>2, <1>3, <1>4 DEF RouteInv, TypeOK
<1>6. sd \notin faces /\ mfdFaces[sd] = 0 /\ sd \notin DiscoveredNodes
  BY <1>1 DEF Unused, RouteInv, TypeOK, FacesAreKnown
<1>7. KnownInstancesAreListed'
  BY <1>1, <1>3 DEF RouteInv, KnownInstancesAreListed
<1>8. FacesAreKnown'
  BY <1>2 DEF RouteInv, FacesAreKnown
<1> QED
  BY <1>1, <1>2, <1>3, <1>5, <1>6, <1>7, <1>8 DEF RouteInv

(* What is closed with an object is one face of it, if it has one.         *)
LEMMA OnRemovedFaces ==
    ASSUME RouteInv, NEW sd \in DiscoveredNodes, sd \in Sd, OnRemoved(sd)
    PROVE  /\ mfdFaces' \in [Sd -> Nat]
           /\ \A d \in Sd : d # sd => mfdFaces'[d] = mfdFaces[d]
           /\ mfdFaces'[sd] <= mfdFaces[sd]
           /\ discoveredInstances' = discoveredInstances \ {sd.name}
<1>1. mfdFaces \in [Sd -> Nat]
  BY DEF RouteInv, TypeOK
<1>2. CASE sd.name \in discoveredInstances /\ sd \in faces
  <2>1. mfdFaces[sd] > 0 /\ mfdFaces' = [mfdFaces EXCEPT ![sd] = @ - 1]
    BY <1>2 DEF OnRemoved, RemoveRoute, RouteInv
  <2> QED
    BY <1>1, <1>2, <2>1 DEF OnRemoved
<1>3. CASE ~(sd.name \in discoveredInstances /\ sd \in faces)
  <2>1. mfdFaces' = mfdFaces /\ discoveredInstances' = discoveredInstances \ {sd.name}
    BY <1>3 DEF OnRemoved, RemoveRoute
  <2> QED
    BY <1>1, <2>1
<1> QED
  BY <1>2, <1>3

LEMMA RemovedRoute ==
    ASSUME RouteInv, NEW service \in Service, Removed(service)
    PROVE  RouteInv'
<1>1. PICK sd \in DiscoveredNodes :
        /\ sd \in Sd /\ OnRemoved(sd)
        /\ DiscoveredNodes' = DiscoveredNodes \ {sd}
        /\ ListsAreProper' /\ discovered' \in [Proto -> Seq(Sd)]
  BY RemovedList
<1>2. /\ told' = [told EXCEPT ![pc] = @ \ {service}]
      /\ pc \in Proto
      /\ UNCHANGED <<pc, resolving, protocolPort, announced, faces, threw>>
  BY DEF Removed
<1>3. /\ mfdFaces' \in [Sd -> Nat]
      /\ \A d \in Sd : d # sd => mfdFaces'[d] = mfdFaces[d]
      /\ mfdFaces'[sd] <= mfdFaces[sd]
      /\ discoveredInstances' = discoveredInstances \ {sd.name}
  BY <1>1, OnRemovedFaces
<1>4. TypeOK'
  BY <1>1, <1>2, <1>3 DEF RouteInv, TypeOK
<1>5. KnownInstancesAreListed'
  BY <1>1, <1>3 DEF RouteInv, KnownInstancesAreListed
<1>6. FacesAreKnown'
  <2>1. ASSUME NEW d \in Sd PROVE mfdFaces'[d] <= mfdFaces[d]
    BY <1>3 DEF RouteInv, TypeOK
  <2>2. ASSUME NEW d \in Sd
        PROVE  /\ mfdFaces'[d] > 0 => d \in faces'
               /\ mfdFaces'[d] > 1 => d \in threw'
    <3>1. mfdFaces[d] \in Nat /\ mfdFaces'[d] \in Nat
      BY <1>3 DEF RouteInv, TypeOK
    <3> QED
      BY <1>2, <2>1, <3>1 DEF RouteInv, FacesAreKnown
  <2> QED
    BY <2>2 DEF FacesAreKnown
<1>7. \A d \in resolving' \ threw' : mfdFaces'[d] = 0 /\ d \notin faces'
  BY <1>1, <1>2, <1>3 DEF RouteInv, TypeOK
<1>8. \A d \in DiscoveredNodes' \cap faces' : mfdFaces'[d] > 0
  BY <1>1, <1>2, <1>3 DEF RouteInv, TypeOK
<1>9. threw' \subseteq faces'
  BY <1>2 DEF RouteInv
<1> QED
  BY <1>1, <1>4, <1>5, <1>6, <1>7, <1>8, <1>9 DEF RouteInv

(* A face is opened for an object that has none, or whose callback threw   *)
(* before this or throws now.                                              *)
LEMMA OpenedFace ==
    ASSUME RouteInv, NEW sd \in Sd, sd \in resolving, OpenFace(sd),
           resolving' \in {resolving, resolving \ {sd}},
           threw' \in {threw, threw \cup {sd}},
           sd \in threw' \/ sd \notin resolving',
           UNCHANGED <<told, discovered, protocolPort, announced,
                       discoveredInstances>>,
           pc' \in {pc, "idle"}
    PROVE  RouteInv'
<1>1. /\ mfdFaces \in [Sd -> Nat] /\ faces \subseteq Sd
      /\ mfdFaces' = [mfdFaces EXCEPT ![sd] = @ + 1]
      /\ faces' = faces \cup {sd}
  BY DEF RouteInv, TypeOK, OpenFace
<1>2. /\ mfdFaces' \in [Sd -> Nat] /\ mfdFaces'[sd] = mfdFaces[sd] + 1
      /\ \A d \in Sd : d # sd => mfdFaces'[d] = mfdFaces[d]
  BY <1>1
<1>3. TypeOK'
  BY <1>1, <1>2 DEF RouteInv, TypeOK
<1>4. DiscoveredNodes' = DiscoveredNodes /\ ListsAreProper'
  BY DEF DiscoveredNodes, RouteInv, ListsAreProper
<1>5. KnownInstancesAreListed'
  BY <1>4 DEF RouteInv, KnownInstancesAreListed
<1>6. mfdFaces[sd] = 0 \/ sd \in threw
  BY DEF RouteInv
<1>7. FacesAreKnown'
  BY <1>1, <1>2, <1>6 DEF RouteInv, FacesAreKnown
<1>8. \A d \in resolving' \ threw' : mfdFaces'[d] = 0 /\ d \notin faces'
  BY <1>1, <1>2 DEF RouteInv, TypeOK
<1>9. \A d \in DiscoveredNodes' \cap faces' : mfdFaces'[d] > 0
  BY <1>1, <1>2, <1>4 DEF RouteInv
<1>10. threw' \subseteq faces'
  BY <1>1 DEF RouteInv
<1> QED
  BY <1>3, <1>4, <1>5, <1>7, <1>8, <1>9, <1>10 DEF RouteInv

LEMMA ResolvedRoute ==
    ASSUME RouteInv, NEW sd \in Sd, Resolved(sd)
    PROVE  RouteInv'
<1>1. /\ sd \in resolving /\ resolving' = resolving \ {sd} /\ AddRoute(sd)
      /\ UNCHANGED <<told, discovered, pc, protocolPort, announced,
                     discoveredInstances, threw>>
  BY DEF Resolved, RequestDone, AddRoute
<1>2. CASE UNCHANGED <<mfdFaces, faces>>
  BY <1>1, <1>2 DEF RouteInv, TypeOK, ListsAreProper, FacesAreKnown,
                    KnownInstancesAreListed, DiscoveredNodes
<1>3. CASE OpenFace(sd)
  BY <1>1, <1>3, OpenedFace
<1> QED
  BY <1>1, <1>2, <1>3 DEF AddRoute

LEMMA ResolvedThrowsRoute ==
    ASSUME RouteInv, NEW sd \in Sd, ResolvedThrows(sd)
    PROVE  RouteInv'
<1>1. /\ sd \in resolving /\ AddRouteThrows(sd) /\ pc' = "idle"
      /\ UNCHANGED <<told, discovered, resolving, protocolPort, announced,
                     discoveredInstances>>
  BY DEF ResolvedThrows, sdVars
<1>2. CASE UNCHANGED faceVars
  BY <1>1, <1>2, RouteUnchanged DEF RouteInv, TypeOK, faceVars
<1>3. CASE OpenFace(sd) /\ threw' = threw \cup {sd}
  BY <1>1, <1>3, OpenedFace
<1> QED
  BY <1>1, <1>2, <1>3 DEF AddRouteThrows

LEMMA NextRoute == RouteInv /\ [Next]_vars => RouteInv'
BY OtherRoute, AddedRoute, RemovedRoute, ResolvedRoute, ResolvedThrowsRoute
   DEF Next, Stopped

-----------------------------------------------------------------------------
(* The two NdnSd of the application keep what ServiceBrowser promises: a   *)
(* list has as many objects of a name as there are interfaces on which the *)
(* name is present, so that a removal always finds one.                    *)
CountedAlike ==
    \A p \in Proto, n \in Name : SameCount(ToSet(discovered[p]), told[p], n)

PresenceInv ==
    /\ RouteInv
    /\ \A p \in Proto : IsFiniteSet(told[p])
    /\ CountedAlike

LEMMA FiniteLists ==
    ASSUME RouteInv, NEW p \in Proto
    PROVE  IsFiniteSet(ToSet(discovered[p]))
BY ListSet, FiniteToSet

LEMMA InitPresence == Init => PresenceInv
<1> SUFFICES ASSUME Init PROVE PresenceInv
  OBVIOUS
<1>1. \A p \in Proto : told[p] = {} /\ ToSet(discovered[p]) = {}
  BY DEF Init, ToSet
<1>2. \A n : Named({}, n) = {} /\ PresentAs({}, n) = {}
  BY DEF Named, PresentAs
<1>3. \A p \in Proto : IsFiniteSet(told[p])
  BY <1>1, FS_EmptySet
<1>4. CountedAlike
  BY <1>1, <1>2 DEF CountedAlike, SameCount
<1> QED
  BY <1>3, <1>4, InitRoute DEF PresenceInv

(* A reply on one protocol changes nothing on the other.                   *)
LEMMA OtherProtocolPresence ==
    ASSUME PresenceInv, NEW p \in Proto,
           \A q \in Proto \ {p} : /\ told'[q] = told[q]
                                  /\ ToSet(discovered'[q]) = ToSet(discovered[q]),
           RouteInv', IsFiniteSet(told'[p]),
           \A n \in Name : SameCount(ToSet(discovered'[p]), told'[p], n)
    PROVE  PresenceInv'
<1>1. \A q \in Proto : IsFiniteSet(told'[q])
  BY DEF PresenceInv
<1>2. ASSUME NEW q \in Proto, NEW n \in Name
      PROVE  SameCount(ToSet(discovered'[q]), told'[q], n)
  <2>1. CASE q = p
    BY <2>1
  <2>2. CASE q # p
    BY <2>2 DEF PresenceInv, CountedAlike
  <2> QED
    BY <2>1, <2>2
<1> QED
  BY <1>1, <1>2 DEF PresenceInv, CountedAlike

LEMMA AddedPresence ==
    ASSUME PresenceInv, NEW service \in Service, Added(service)
    PROVE  PresenceInv'
<1> USE DEF PresenceInv
<1>1. RouteInv' /\ RouteInv
  BY AddedRoute
<1>2. PICK sd \in Sd :
        /\ sd.proto = pc /\ sd.name = service[1] /\ Unused(sd)
        /\ discovered' = [discovered EXCEPT ![pc] = Append(@, sd)]
  <2>1. PICK k \in 1 .. MaxCopy :
          LET sd == [proto |-> pc, name |-> service[1], iface |-> service[2],
                     copy |-> k]
          IN  /\ Unused(sd)
              /\ discovered' = [discovered EXCEPT ![pc] = Append(@, sd)]
    BY DEF Added
  <2> DEFINE sd == [proto |-> pc, name |-> service[1], iface |-> service[2],
                    copy |-> k]
  <2>2. sd \in Sd /\ sd.proto = pc /\ sd.name = service[1]
    BY DEF Added, Sd, Service
  <2> QED
    BY <2>1, <2>2
<1>3. /\ pc \in Proto /\ service \notin told[pc]
      /\ told' = [told EXCEPT ![pc] = @ \cup {service}]
      /\ told \in [Proto -> SUBSET Service]
      /\ discovered \in [Proto -> Seq(Sd)]
  BY DEF Added, RouteInv, TypeOK
<1>4. /\ discovered[pc] \in Seq(Sd)
      /\ ToSet(discovered'[pc]) = ToSet(discovered[pc]) \cup {sd}
      /\ sd \notin ToSet(discovered[pc])
  BY <1>1, <1>2, <1>3, AppendSet, ListSet DEF Unused
<1>5. told'[pc] = told[pc] \cup {service}
  BY <1>3
<1>6. IsFiniteSet(told[pc]) /\ IsFiniteSet(told'[pc])
      /\ IsFiniteSet(ToSet(discovered[pc]))
  BY <1>1, <1>3, <1>5, FS_AddElement, FiniteLists
<1>7. \A n \in Name : SameCount(ToSet(discovered'[pc]), told'[pc], n)
  BY <1>2, <1>3, <1>4, <1>5, <1>6, OneMore DEF CountedAlike
<1> QED
  BY <1>1, <1>2, <1>3, <1>6, <1>7, OtherProtocolPresence

LEMMA RemovedPresence ==
    ASSUME PresenceInv, NEW service \in Service, Removed(service)
    PROVE  PresenceInv'
<1> USE DEF PresenceInv
<1>1. RouteInv' /\ RouteInv
  BY RemovedRoute
<1>2. PICK k \in DOMAIN discovered[pc] :
        /\ discovered[pc][k].name = service[1]
        /\ discovered' = [discovered EXCEPT ![pc] = RemoveAt(discovered[pc], k)]
  BY DEF Removed
<1> DEFINE sd == discovered[pc][k]
<1>3. /\ pc \in Proto /\ service \in told[pc]
      /\ told' = [told EXCEPT ![pc] = @ \ {service}]
      /\ told \in [Proto -> SUBSET Service]
      /\ discovered \in [Proto -> Seq(Sd)]
  BY DEF Removed, RouteInv, TypeOK
<1>4. /\ discovered[pc] \in Seq(Sd) /\ IsInjective(discovered[pc])
      /\ ToSet(discovered'[pc]) = ToSet(discovered[pc]) \ {sd}
      /\ sd \in ToSet(discovered[pc])
  <2>1. discovered[pc] \in Seq(Sd) /\ IsInjective(discovered[pc])
    BY <1>1, <1>3, ListSet
  <2>2. discovered'[pc] = RemoveAt(discovered[pc], k)
    BY <1>2, <1>3
  <2>3. ToSet(RemoveAt(discovered[pc], k)) = ToSet(discovered[pc]) \ {sd}
    BY <2>1, RemoveAtSet
  <2>4. sd \in ToSet(discovered[pc])
    BY DEF ToSet
  <2> QED
    BY <2>1, <2>2, <2>3, <2>4
<1>5. told'[pc] = told[pc] \ {service}
  BY <1>3
<1>6. IsFiniteSet(told[pc]) /\ IsFiniteSet(told'[pc])
      /\ IsFiniteSet(ToSet(discovered[pc]))
  BY <1>1, <1>3, <1>5, FS_Subset, FiniteLists
<1>7. \A n \in Name : SameCount(ToSet(discovered'[pc]), told'[pc], n)
  <2> HIDE DEF sd
  <2>1. sd.name = service[1]
    BY <1>2 DEF sd
  <2> QED
    BY <1>3, <1>4, <1>5, <1>6, <2>1, OneLess DEF CountedAlike
<1> QED
  BY <1>1, <1>2, <1>3, <1>6, <1>7, OtherProtocolPresence

LEMMA NextPresence == PresenceInv /\ [Next]_vars => PresenceInv'
<1> SUFFICES ASSUME PresenceInv, [Next]_vars PROVE PresenceInv'
  OBVIOUS
<1>1. RouteInv'
  BY NextRoute DEF PresenceInv
<1>2. CASE UNCHANGED <<told, discovered>>
  BY <1>1, <1>2 DEF PresenceInv, CountedAlike
<1> QED
  BY <1>2, AddedPresence, RemovedPresence
  DEF Next, Configure, ConfigureThrows, ProcessEvents, RunReturns, Resolved,
      ResolvedThrows, Stopped, vars, sdVars

-----------------------------------------------------------------------------
(* The variables have their types.                                         *)
THEOREM TypeCorrect == Spec => []TypeOK
<1>1. RouteInv => TypeOK
  BY DEF RouteInv
<1> QED
  BY <1>1, InitRoute, NextRoute, PTL DEF Spec

(* An uuid is known only while an object of it is listed, in whatever      *)
(* order services come and go on protocols and interfaces: an instance     *)
(* that left is not filtered out when it comes back.                       *)
THEOREM KnownInstancesAreAlwaysListed == Spec => []KnownInstancesAreListed
<1>1. RouteInv => KnownInstancesAreListed
  BY DEF RouteInv
<1> QED
  BY <1>1, InitRoute, NextRoute, PTL DEF Spec

(* faces_ has every object with an open face, and an object has no second  *)
(* one unless its resolve callback threw after it had opened one.          *)
THEOREM FacesAreAlwaysKnown == Spec => []FacesAreKnown
<1>1. RouteInv => FacesAreKnown
  BY DEF RouteInv
<1> QED
  BY <1>1, InitRoute, NextRoute, PTL DEF Spec

(* No step takes the face of an object that stays listed.                  *)
THEOREM ListedObjectsAlwaysKeepTheirFace == Spec => ListedObjectsKeepTheirFace
<1> DEFINE Keeps == \A sd \in DiscoveredNodes \cap DiscoveredNodes' :
                      mfdFaces[sd] > 0 => mfdFaces'[sd] > 0
<1>1. ASSUME RouteInv, [Next]_vars PROVE Keeps
  <2>1. DiscoveredNodes \subseteq Sd
    BY <1>1, ListSet DEF DiscoveredNodes
  <2>2. CASE UNCHANGED mfdFaces
    BY <2>2
  <2>3. ASSUME NEW service \in Service, Removed(service) PROVE Keeps
    <3>1. PICK sd \in DiscoveredNodes :
            /\ sd \in Sd /\ OnRemoved(sd)
            /\ DiscoveredNodes' = DiscoveredNodes \ {sd}
      BY <1>1, <2>3, RemovedList
    <3>2. \A d \in Sd : d # sd => mfdFaces'[d] = mfdFaces[d]
      BY <1>1, <3>1, OnRemovedFaces
    <3> QED
      BY <2>1, <3>1, <3>2
  <2>4. ASSUME NEW sd \in Sd, OpenFace(sd) PROVE Keeps
    <3>1. \A d \in Sd : mfdFaces'[d] \in {mfdFaces[d], mfdFaces[d] + 1}
      BY <1>1, <2>4 DEF OpenFace, RouteInv, TypeOK
    <3>2. ASSUME NEW d \in Sd, mfdFaces[d] > 0 PROVE mfdFaces'[d] > 0
      <4>1. mfdFaces[d] \in Nat
        BY <1>1 DEF RouteInv, TypeOK
      <4> QED
        BY <3>1, <3>2, <4>1
    <3> QED
      BY <2>1, <3>2
  <2>5. ASSUME NEW sd \in Sd, Resolved(sd) \/ ResolvedThrows(sd) PROVE Keeps
    BY <2>2, <2>4, <2>5 DEF Resolved, AddRoute, ResolvedThrows, AddRouteThrows,
                            faceVars
  <2> QED
    BY <1>1, <2>2, <2>3, <2>5
    DEF Next, Configure, ConfigureThrows, ProcessEvents, RunReturns, Added,
        Stopped, vars, faceVars
<1>2. RouteInv /\ [Next]_vars => [Keeps]_vars
  BY <1>1
<1> QED
  BY <1>2, InitRoute, NextRoute, PTL DEF Spec, ListedObjectsKeepTheirFace

(* What the application's lists show agrees with what the daemon reported  *)
(* over each protocol, also after replies that throw and faces that fail:  *)
(* as many objects of an uuid as interfaces it is present on.              *)
THEOREM ListsAlwaysFollowPresence ==
    Spec => [](\A p \in Proto, n \in Name :
                 Cardinality({k \in DOMAIN discovered[p] :
                                discovered[p][k].name = n})
                   = Cardinality({s \in told[p] : s[1] = n}))
<1> DEFINE Follows ==
      \A p \in Proto, n \in Name :
        Cardinality({k \in DOMAIN discovered[p] : discovered[p][k].name = n})
          = Cardinality({s \in told[p] : s[1] = n})
<1>1. PresenceInv => Follows
  <2> SUFFICES ASSUME PresenceInv, NEW p \in Proto, NEW n \in Name
               PROVE  Cardinality({k \in DOMAIN discovered[p] :
                                     discovered[p][k].name = n})
                        = Cardinality({s \in told[p] : s[1] = n})
    OBVIOUS
  <2>1. discovered[p] \in Seq(Sd) /\ IsInjective(discovered[p])
    BY ListSet DEF PresenceInv
  <2>2. SameCount(ToSet(discovered[p]), told[p], n)
    BY DEF PresenceInv, CountedAlike
  <2>3. Cardinality({k \in DOMAIN discovered[p] :
                      discovered[p][k].name = n})
          = Cardinality({sd \in ToSet(discovered[p]) : sd.name = n})
    BY <2>1, CountNamed
  <2> QED
    BY <2>2, <2>3 DEF SameCount, Named, PresentAs
<1> QED
  BY <1>1, InitPresence, NextPresence, PTL DEF Spec

(* A service that is lost always has an object to be removed for it, the   *)
(* first with its name: no removal is without effect on the lists.         *)
THEOREM RemovalsAlwaysFindAnObject ==
    Spec => [](\A p \in Proto : \A service \in told[p] :
                 \E k \in DOMAIN discovered[p] :
                   /\ discovered[p][k].name = service[1]
                   /\ \A j \in 1 .. k - 1 : discovered[p][j].name # service[1])
<1> DEFINE Finds ==
      \A p \in Proto : \A service \in told[p] :
        \E k \in DOMAIN discovered[p] :
          /\ discovered[p][k].name = service[1]
          /\ \A j \in 1 .. k - 1 : discovered[p][j].name # service[1]
<1>1. PresenceInv => Finds
  <2> SUFFICES ASSUME PresenceInv, NEW p \in Proto, NEW service \in told[p]
               PROVE  \E k \in DOMAIN discovered[p] :
                        /\ discovered[p][k].name = service[1]
                        /\ \A j \in 1 .. k - 1 :
                             discovered[p][j].name # service[1]
    OBVIOUS
  <2>1. /\ discovered[p] \in Seq(Sd) /\ IsFiniteSet(ToSet(discovered[p]))
        /\ IsFiniteSet(told[p])
    BY ListSet, FiniteLists DEF PresenceInv
  <2>2. service[1] \in Name
    BY DEF PresenceInv, RouteInv, TypeOK, Service
  <2>3. \E sd \in ToSet(discovered[p]) : sd.name = service[1]
    BY <2>1, <2>2, SomeNamed DEF PresenceInv, CountedAlike
  <2>4. PICK j \in DOMAIN discovered[p] : discovered[p][j].name = service[1]
    BY <2>3 DEF ToSet
  <2> QED
    BY <2>1, <2>4, FirstNamed
<1> QED
  BY <1>1, InitPresence, NextPresence, PTL DEF Spec

=============================================================================
