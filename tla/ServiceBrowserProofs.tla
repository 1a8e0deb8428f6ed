------------------------ MODULE ServiceBrowserProofs ------------------------
(***************************************************************************)
(* What follows from ServiceBrowser, for any names, interfaces and numbers *)
(* of requests and objects.                                                *)
(***************************************************************************)
EXTENDS ServiceBrowser, ListFacts, TLAPS

(* Only requests that browse have something present and listed.            *)
BrowserInv ==
    /\ TypeOK
    /\ \A i \in Id \ browsing : present[i] = {} /\ listed[i] = {}
    /\ \A i \in Id : IsFiniteSet(present[i]) /\ IsFiniteSet(listed[i])
    /\ ListsAreDisjoint
    /\ ListsFollowPresence

(* The lists and what is present of one request agree.                     *)
Agree(objects, services) ==
    \A n \in Name : IF n = Uuid THEN Cardinality(Named(objects, n)) = 0
                    ELSE SameCount(objects, services, n)

LEMMA InvAgrees ==
    BrowserInv => \A i \in Id : Agree(listed[i], present[i])
BY DEF BrowserInv, ListsFollowPresence, Agree, SameCount, Named, PresentAs

LEMMA OneMoreAgrees ==
    ASSUME NEW objects, NEW services, IsFiniteSet(objects), IsFiniteSet(services),
           Agree(objects, services),
           NEW sd, sd \notin objects, sd.name # Uuid,
           NEW s, s \notin services, s[1] = sd.name
    PROVE  Agree(objects \cup {sd}, services \cup {s})
<1>1. Named(objects \cup {sd}, Uuid) = Named(objects, Uuid)
  BY DEF Named
<1> QED
  BY <1>1, OneMore DEF Agree

LEMMA OneLessAgrees ==
    ASSUME NEW objects, NEW services, IsFiniteSet(objects), IsFiniteSet(services),
           Agree(objects, services),
           NEW sd \in objects, sd.name # Uuid,
           NEW s \in services, s[1] = sd.name
    PROVE  Agree(objects \ {sd}, services \ {s})
<1>1. Named(objects \ {sd}, Uuid) = Named(objects, Uuid)
  BY DEF Named
<1> QED
  BY <1>1, OneLess DEF Agree

(* The object's own service changes no list.                               *)
LEMMA OwnAgrees ==
    ASSUME NEW objects, NEW services, Agree(objects, services),
           NEW t, \A s : s[1] # Uuid => (s \in services <=> s \in t)
    PROVE  Agree(objects, t)
<1>1. \A n \in Name \ {Uuid} : PresentAs(t, n) = PresentAs(services, n)
  BY DEF PresentAs
<1> QED
  BY <1>1 DEF Agree, SameCount

-----------------------------------------------------------------------------
LEMMA InitBrowser == Init => BrowserInv
<1> SUFFICES ASSUME Init PROVE BrowserInv
  OBVIOUS
<1>1. TypeOK
  BY DEF Init, TypeOK
<1>2. \A i \in Id : present[i] = {} /\ listed[i] = {}
  BY DEF Init
<1>3. \A n : Cardinality(Named({}, n)) = 0 /\ Cardinality(PresentAs({}, n)) = 0
  BY FS_EmptySet DEF Named, PresentAs
<1>4. ListsFollowPresence
  BY <1>2, <1>3 DEF ListsFollowPresence, Named, PresentAs
<1> QED
  BY <1>1, <1>2, <1>4, FS_EmptySet DEF BrowserInv, ListsAreDisjoint

(* A step that changes what is present and listed of one request.          *)
LEMMA OneRequest ==
    ASSUME BrowserInv, TypeOK', NEW id \in browsing, browsing' = browsing,
           \A i \in Id : i # id =>
             present'[i] = present[i] /\ listed'[i] = listed[i],
           listed'[id] \cap Listed \subseteq listed[id],
           IsFiniteSet(present'[id]), IsFiniteSet(listed'[id]),
           Agree(listed'[id], present'[id])
    PROVE  BrowserInv'
<1>1. \A i \in Id \ browsing' : present'[i] = {} /\ listed'[i] = {}
  BY DEF BrowserInv, TypeOK
<1>2. \A i \in Id : IsFiniteSet(present'[i]) /\ IsFiniteSet(listed'[i])
  BY DEF BrowserInv
<1>3. ListsAreDisjoint'
  <2>1. ASSUME NEW i \in Id, i # id PROVE listed'[id] \cap listed[i] = {}
    BY <2>1 DEF BrowserInv, TypeOK, ListsAreDisjoint, Listed
  <2> QED
    BY <2>1 DEF BrowserInv, ListsAreDisjoint
<1>4. ListsFollowPresence'
  <2>1. \A i \in Id : Agree(listed'[i], present'[i])
    BY InvAgrees
  <2> QED
    BY <2>1 DEF ListsFollowPresence, Agree, SameCount, Named, PresentAs
<1> QED
  BY <1>1, <1>2, <1>3, <1>4 DEF BrowserInv

LEMMA AppearBrowser ==
    ASSUME BrowserInv, NEW id \in Id, NEW service \in Service,
           Appear(id, service)
    PROVE  BrowserInv'
<1>1. /\ id \in browsing /\ service \notin present[id]
      /\ present' = [present EXCEPT ![id] = @ \cup {service}]
      /\ UNCHANGED <<browsing, resolving>>
  BY DEF Appear
<1>2. /\ present' \in [Id -> SUBSET Service]
      /\ present'[id] = present[id] \cup {service}
      /\ \A i \in Id : i # id => present'[i] = present[i]
  BY <1>1 DEF BrowserInv, TypeOK
<1>3. IsFiniteSet(present[id]) /\ IsFiniteSet(listed[id])
      /\ IsFiniteSet(present'[id]) /\ Agree(listed[id], present[id])
  BY <1>2, InvAgrees, FS_AddElement DEF BrowserInv
<1>4. CASE service[1] = Uuid
  <2>1. UNCHANGED <<listed, resolved>>
    BY <1>4 DEF Appear
  <2>2. Agree(listed[id], present'[id])
    BY <1>2, <1>3, <1>4, OwnAgrees
  <2>3. TypeOK'
    BY <1>1, <1>2, <2>1 DEF BrowserInv, TypeOK
  <2> QED
    BY <1>1, <1>2, <1>3, <2>1, <2>2, <2>3, OneRequest
<1>5. ASSUME NEW sd \in Sd, ServiceOf(sd) = service, service[1] # Uuid,
             ~InUse(sd),
             listed' = [listed EXCEPT ![id] = @ \cup {sd}],
             resolved' = resolved \ {sd}
      PROVE  BrowserInv'
  <2>1. /\ listed' \in [Id -> SUBSET Sd]
        /\ listed'[id] = listed[id] \cup {sd}
        /\ \A i \in Id : i # id => listed'[i] = listed[i]
    BY <1>5 DEF BrowserInv, TypeOK
  <2>2. sd \notin Listed /\ service[1] = sd.name
    BY <1>5 DEF InUse, ServiceOf
  <2>3. sd \notin listed[id]
    BY <2>2 DEF Listed
  <2>4. Agree(listed'[id], present'[id])
    BY <1>1, <1>2, <1>3, <1>5, <2>1, <2>2, <2>3, OneMoreAgrees
  <2>5. IsFiniteSet(listed'[id])
    BY <1>3, <2>1, FS_AddElement
  <2>6. listed'[id] \cap Listed \subseteq listed[id]
    BY <2>1, <2>2
  <2>7. TypeOK'
    BY <1>1, <1>2, <1>5, <2>1 DEF BrowserInv, TypeOK
  <2> QED
    BY <1>1, <1>2, <1>3, <2>1, <2>4, <2>5, <2>6, <2>7, OneRequest
<1> QED
  BY <1>4, <1>5 DEF Appear

LEMMA DisappearBrowser ==
    ASSUME BrowserInv, NEW id \in Id, NEW service \in Service,
           Disappear(id, service)
    PROVE  BrowserInv'
<1>1. /\ id \in browsing /\ service \in present[id]
      /\ present' = [present EXCEPT ![id] = @ \ {service}]
      /\ UNCHANGED <<browsing, resolving, resolved>>
  BY DEF Disappear
<1>2. /\ present' \in [Id -> SUBSET Service]
      /\ present'[id] = present[id] \ {service}
      /\ \A i \in Id : i # id => present'[i] = present[i]
  BY <1>1 DEF BrowserInv, TypeOK
<1>3. IsFiniteSet(present[id]) /\ IsFiniteSet(listed[id])
      /\ IsFiniteSet(present'[id]) /\ Agree(listed[id], present[id])
  BY <1>2, InvAgrees, FS_RemoveElement DEF BrowserInv
<1>4. CASE service[1] = Uuid
  <2>1. UNCHANGED listed
    BY <1>4 DEF Disappear
  <2>2. Agree(listed[id], present'[id])
    BY <1>2, <1>3, <1>4, OwnAgrees
  <2>3. TypeOK'
    BY <1>1, <1>2, <2>1 DEF BrowserInv, TypeOK
  <2> QED
    BY <1>1, <1>2, <1>3, <2>1, <2>2, <2>3, OneRequest
<1>5. ASSUME NEW sd \in listed[id], sd.name = service[1], service[1] # Uuid,
             listed' = [listed EXCEPT ![id] = @ \ {sd}]
      PROVE  BrowserInv'
  <2>1. /\ listed' \in [Id -> SUBSET Sd]
        /\ listed'[id] = listed[id] \ {sd}
        /\ \A i \in Id : i # id => listed'[i] = listed[i]
    BY <1>5 DEF BrowserInv, TypeOK
  <2>2. Agree(listed'[id], present'[id])
    BY <1>1, <1>2, <1>3, <1>5, <2>1, OneLessAgrees
  <2>3. IsFiniteSet(listed'[id])
    BY <1>3, <2>1, FS_RemoveElement
  <2>4. TypeOK'
    BY <1>1, <1>2, <2>1 DEF BrowserInv, TypeOK
  <2> QED
    BY <1>1, <1>2, <1>3, <2>1, <2>2, <2>3, <2>4, OneRequest
<1> QED
  BY <1>4, <1>5 DEF Disappear

LEMMA StopBrowsingBrowser ==
    ASSUME BrowserInv, NEW ids \in SUBSET browsing, StopBrowsing(ids)
    PROVE  BrowserInv'
<1>1. /\ browsing' = browsing \ ids
      /\ \A i \in Id : present'[i] = IF i \in ids THEN {} ELSE present[i]
      /\ \A i \in Id : listed'[i] = IF i \in ids THEN {} ELSE listed[i]
  BY DEF StopBrowsing
<1>2. TypeOK'
  BY DEF StopBrowsing, BrowserInv, TypeOK
<1>3. \A i \in Id \ browsing' : present'[i] = {} /\ listed'[i] = {}
  BY <1>1 DEF BrowserInv
<1>4. \A i \in Id : IsFiniteSet(present'[i]) /\ IsFiniteSet(listed'[i])
  BY <1>1, FS_EmptySet DEF BrowserInv
<1>5. ListsAreDisjoint'
  BY <1>1 DEF BrowserInv, ListsAreDisjoint
<1>6. ListsFollowPresence'
  <2>1. Agree({}, {})
    BY FS_EmptySet DEF Agree, SameCount, Named, PresentAs
  <2>2. \A i \in Id : Agree(listed'[i], present'[i])
    BY <1>1, <2>1, InvAgrees
  <2> QED
    BY <2>2 DEF ListsFollowPresence, Agree, SameCount, Named, PresentAs
<1> QED
  BY <1>2, <1>3, <1>4, <1>5, <1>6 DEF BrowserInv

LEMMA NextBrowser == BrowserInv /\ [Next]_vars => BrowserInv'
<1> SUFFICES ASSUME BrowserInv, [Next]_vars PROVE BrowserInv'
  OBVIOUS
<1> USE DEF BrowserInv, TypeOK, ListsAreDisjoint, ListsFollowPresence
<1>1. ASSUME NEW id \in Id, StartBrowsing(id) PROVE BrowserInv'
  BY <1>1 DEF StartBrowsing
<1>2. ASSUME NEW id \in Id, NEW sd \in Sd, StartResolving(id, sd)
      PROVE  BrowserInv'
  BY <1>2 DEF StartResolving
<1>3. ASSUME NEW id \in Id, Resolve(id) PROVE BrowserInv'
  BY <1>3 DEF Resolve
<1>4. ASSUME NEW id \in Id, StopResolving(id) PROVE BrowserInv'
  BY <1>4 DEF StopResolving
<1>5. CASE UNCHANGED vars
  BY <1>5 DEF vars
<1> QED
  BY <1>1, <1>2, <1>3, <1>4, <1>5, StopBrowsingBrowser, AppearBrowser,
     DisappearBrowser DEF Next

(* The lists of a browser follow what is reported as present, whatever     *)
(* requests are started, cancelled and answered.                           *)
THEOREM ListsAlwaysFollowPresence == Spec => []ListsFollowPresence
<1>1. BrowserInv => ListsFollowPresence
  BY DEF BrowserInv
<1> QED
  BY <1>1, InitBrowser, NextBrowser, PTL DEF Spec

(* And no object is in the lists of two requests.                          *)
THEOREM ListsAlwaysDisjoint == Spec => []ListsAreDisjoint
<1>1. BrowserInv => ListsAreDisjoint
  BY DEF BrowserInv
<1> QED
  BY <1>1, InitBrowser, NextBrowser, PTL DEF Spec

=============================================================================
