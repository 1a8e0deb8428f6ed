-------------------------- MODULE NdnSdRefinement --------------------------
(***************************************************************************)
(* NdnSd implements ServiceBrowser, for any handles, descriptors, names,   *)
(* interfaces and numbers of requests, whatever callbacks do and whatever  *)
(* fails.  Each step of NdnSd is shown to be the step of ServiceBrowser it *)
(* stands for, or to change nothing a user of the lists sees.              *)
(***************************************************************************)
EXTENDS NdnSdProofs, ListFacts

(* The mapping of NdnSd!Browser.                                           *)
Browsing == Live(brequests)
Present == [i \in Id |-> IF brequests[i] = NoRef
                         THEN {} ELSE told[brequests[i]]]
Lists == [i \in Id |-> ToSet(discovered[i])]

Abstract == INSTANCE ServiceBrowserProofs WITH
    browsing <- Browsing,
    present <- Present,
    listed <- Lists

(* Sets are counted alike in both modules.                                 *)
LEMMA SameCounting ==
    \A S : /\ Abstract!IsFiniteSet(S) = IsFiniteSet(S)
           /\ Abstract!Cardinality(S) = Cardinality(S)
<1>1. \A S : Abstract!IsFiniteSet(S) = IsFiniteSet(S)
  BY DEF IsFiniteSet, Abstract!IsFiniteSet
<1>2. \A S : Abstract!Cardinality(S) = Cardinality(S)
  BY DEF Cardinality, Abstract!Cardinality
<1> QED
  BY <1>1, <1>2

(* An object that is nothing is none of the discovered ones.               *)
LEMMA NoSdIsNoObject == NoSd \notin Sd
<1>1. \A sd \in Sd : DOMAIN sd = {"name", "iface", "copy"}
  BY DEF Sd
<1>2. DOMAIN NoSd = {"name"}
  BY DEF NoSd
<1> QED
  BY <1>1, <1>2

-----------------------------------------------------------------------------
(* Requests.  A list belongs to a live browse request and has no object    *)
(* twice; a resolve request has an object as long as it has a handle, and  *)
(* that object is resolved while the callback that reports it runs.        *)
RequestInv ==
    /\ \A i \in Id : brequests[i] = NoRef => discovered[i] = <<>>
    /\ \A i \in Id : IsInjective(discovered[i])
    /\ \A i \in Id : rrequests[i] = NoRef <=> resolving[i] = NoSd
    /\ resolved \subseteq Sd
    /\ reporting # 0 => /\ pc = "callback"
                        /\ resolving[reporting] \in resolved

RefineInv == HandleInv /\ RequestInv /\ Abstract!BrowserInv

LEMMA InitRefine == Init => RefineInv
<1> SUFFICES ASSUME Init PROVE RefineInv
  OBVIOUS
<1>1. \A i \in Id : IsInjective(discovered[i]) /\ ToSet(discovered[i]) = {}
  BY DEF Init, IsInjective, ToSet
<1>2. RequestInv
  BY <1>1 DEF Init, RequestInv
<1>3. Abstract!Init
  BY <1>1 DEF Init, Abstract!Init, Browsing, Present, Lists, Live, Id, NoSd,
     Abstract!Id, Abstract!NoSd
<1> QED
  BY <1>2, <1>3, InitHandles, Abstract!InitBrowser DEF RefineInv

-----------------------------------------------------------------------------
(* Steps.  A step that leaves the requests and what is present for them as *)
(* they are is a stuttering step.                                          *)
LEMMA Stutters ==
    ASSUME RefineInv, UNCHANGED <<brequests, discovered, resolving, resolved>>,
           \A i \in Live(brequests) :
             told'[brequests[i]] = told[brequests[i]]
    PROVE  UNCHANGED Abstract!vars
<1>1. Present' = Present
  BY DEF Present, Live
<1> QED
  BY <1>1 DEF Abstract!vars, Browsing, Lists, Live

LEMMA RequestsUnchanged ==
    ASSUME RequestInv, UNCHANGED reqs,
           reporting' = 0 \/ UNCHANGED <<reporting, pc>>
    PROVE  RequestInv'
BY DEF RequestInv, reqs

(* The registration and the loop are not seen in the lists.                *)
LEMMA OtherSteps ==
    ASSUME RefineInv,
           \/ AnnounceValid \/ AnnounceInvalid \/ ResumeAnnounce
           \/ ResumeAnnounceRefused \/ \E b \in BOOLEAN : Run(b)
           \/ RunLoop \/ CallbackReturns \/ CallbackThrows
           \/ \E r \in Ref : DaemonReplies(r)
           \/ UNCHANGED vars
    PROVE  UNCHANGED Abstract!vars /\ RequestInv'
<1>1. UNCHANGED <<reqs, told>>
  BY DEF AnnounceValid, AnnounceInvalid, ResumeAnnounce, ResumeAnnounceRefused,
         Register, Open, Run, RunLoop, SelectReady, SelectTimeout, SelectError,
         Visit, LoopEnds, LoopUndefined, ProcessError, ProcessReturns,
         CallbackReturns, CallbackThrows, DaemonReplies, vars, lib, reqs
<1>2. reporting' = 0 \/ UNCHANGED <<reporting, pc>>
  BY DEF AnnounceValid, AnnounceInvalid, ResumeAnnounce, ResumeAnnounceRefused,
         Register, Run, RunLoop, SelectReady, SelectTimeout, SelectError,
         Visit, LoopEnds, LoopUndefined, ProcessError, ProcessReturns,
         CallbackReturns, CallbackThrows, DaemonReplies, vars, loop,
         RefineInv, RequestInv
<1> QED
  BY <1>1, <1>2, Stutters, RequestsUnchanged DEF reqs, RefineInv

LEMMA BrowseStep ==
    ASSUME RefineInv, Browse
    PROVE  Abstract!Next /\ RequestInv'
<1>1. PICK r \in Ref, f \in Fd, id \in Id :
         /\ Open(r, f)
         /\ IsNextId(brequests, id)
         /\ brequests' = [brequests EXCEPT ![id] = r]
         /\ discovered' = [discovered EXCEPT ![id] = <<>>]
  BY DEF Browse
<1>2. told[r] = {} /\ told' = told
  BY <1>1, OpenWatches DEF Open, RefineInv
<1>3. id \notin Live(brequests)
  BY <1>1 DEF IsNextId, Id
<1>4. /\ Browsing' = Browsing \cup {id}
      /\ \A i \in Id : brequests'[i] = IF i = id THEN r ELSE brequests[i]
  BY <1>1, <1>3, HandleAssumption
  DEF Browsing, Live, RefineInv, HandleInv, TypeOK
<1>5. Present' = Present
  BY <1>2, <1>3, <1>4 DEF Present, Live
<1>6. discovered' = discovered
  BY <1>1, <1>3 DEF Live, RefineInv, RequestInv, HandleInv, TypeOK
<1>7. UNCHANGED <<resolving, resolved, rrequests, reporting, pc>>
  BY DEF Browse, loop
<1>8. Abstract!StartBrowsing(id)
  BY <1>3, <1>4, <1>5, <1>6, <1>7 DEF Abstract!StartBrowsing, Browsing, Lists
<1>9. RequestInv'
  BY <1>4, <1>6, <1>7, <1>3 DEF RefineInv, RequestInv, Live
<1> QED
  BY <1>8, <1>9 DEF Abstract!Next, Abstract!Id, Id

(* Removing browse requests takes away their lists and no other's.         *)
LEMMA StopBrowsingStep ==
    ASSUME RefineInv, NEW ids \in SUBSET Browsing,
           NEW R \in SUBSET Allocated,
           \A i \in ids : brequests[i] \in R,
           \A i \in Browsing \ ids : brequests[i] \notin R,
           Release(R),
           brequests' = [i \in Id |-> IF i \in ids THEN NoRef ELSE brequests[i]],
           discovered' = [i \in Id |-> IF i \in ids THEN <<>> ELSE discovered[i]],
           UNCHANGED <<rrequests, resolving, resolved, reporting>>,
           reporting # 0 => UNCHANGED pc
    PROVE  Abstract!Next /\ RequestInv'
<1>1. \A q \in Ref : told'[q] = IF q \in R THEN {} ELSE told[q]
  BY ReleaseWatches DEF RefineInv
<1>2. Browsing' = Browsing \ ids
  BY DEF Browsing, Live
<1>3. Present' = [i \in Id |-> IF i \in ids THEN {} ELSE Present[i]]
  BY <1>1 DEF Present, Browsing, Live, RefineInv, HandleInv, TypeOK
<1>4. IsInjective(<<>>) /\ ToSet(<<>>) = {}
  BY DEF IsInjective, ToSet
<1>5. Lists' = [i \in Id |-> IF i \in ids THEN {} ELSE Lists[i]]
  BY <1>4 DEF Lists
<1>6. Abstract!StopBrowsing(ids)
  BY <1>2, <1>3, <1>5 DEF Abstract!StopBrowsing, Abstract!Id, Id
<1>7. RequestInv'
  BY <1>4 DEF RefineInv, RequestInv
<1> QED
  BY <1>6, <1>7 DEF Abstract!Next

LEMMA CancelStep ==
    ASSUME RefineInv, NEW id \in Id, Cancel(id)
    PROVE  Abstract!Next /\ RequestInv'
<1>1. /\ id \in Browsing /\ Release({brequests[id]})
      /\ UNCHANGED <<rrequests, resolving, resolved, reporting, pc>>
  BY DEF Cancel, Browsing, Live
<1>2. \A i \in Browsing \ {id} : brequests[i] \notin {brequests[id]}
  BY <1>1 DEF RefineInv, HandleInv, OwnersAreDistinct, Browsing
<1>3. brequests' = [i \in Id |-> IF i \in {id} THEN NoRef ELSE brequests[i]]
  BY DEF Cancel, RefineInv, HandleInv, TypeOK
<1>4. discovered' = [i \in Id |-> IF i \in {id} THEN <<>> ELSE discovered[i]]
  BY DEF Cancel, RefineInv, HandleInv, TypeOK
<1>5. {brequests[id]} \in SUBSET Allocated
  BY <1>1 DEF Browsing, RefineInv, HandleInv, Owned
<1> QED
  BY <1>1, <1>2, <1>3, <1>4, <1>5, StopBrowsingStep

LEMMA DestroyStep ==
    ASSUME RefineInv, Destroy
    PROVE  Abstract!Next /\ RequestInv'
<1> DEFINE R == {brequests[i] : i \in Live(brequests)} \cup Registration
<1>1. /\ Release(R) /\ pc = "user"
      /\ UNCHANGED <<rrequests, resolving, resolved, reporting>>
  BY DEF Destroy
<1>2. \A i \in Browsing : brequests[i] \in R
  BY DEF Browsing
<1>3. brequests' =
        [i \in Id |-> IF i \in Browsing THEN NoRef ELSE brequests[i]]
  BY DEF Destroy, Browsing, Live
<1>4. discovered' =
        [i \in Id |-> IF i \in Browsing THEN <<>> ELSE discovered[i]]
  BY DEF Destroy, Browsing, Live, RefineInv, RequestInv
<1>5. reporting = 0
  BY <1>1 DEF RefineInv, RequestInv
<1>6. R \in SUBSET Allocated
  BY DEF RefineInv, HandleInv, Owned
<1> QED
  BY <1>1, <1>2, <1>3, <1>4, <1>5, <1>6, StopBrowsingStep

LEMMA ResolveStep ==
    ASSUME RefineInv, NEW sd \in Sd, Resolve(sd)
    PROVE  Abstract!Next /\ RequestInv'
<1>1. PICK r \in Ref, f \in Fd, id \in Id :
         /\ Open(r, f)
         /\ IsNextId(rrequests, id)
         /\ rrequests' = [rrequests EXCEPT ![id] = r]
         /\ resolving' = [resolving EXCEPT ![id] = sd]
  BY DEF Resolve
<1>2. rrequests[id] = NoRef /\ resolving[id] = NoSd
  BY <1>1 DEF IsNextId, Id, Live, RefineInv, RequestInv
<1>3. UNCHANGED <<told, brequests, discovered, resolved, reporting, pc>>
  BY <1>1 DEF Resolve, Open, loop
<1>4. UNCHANGED <<Browsing, Present, Lists>>
  BY <1>3 DEF Browsing, Present, Lists, Live
<1>5. sd \in Abstract!Listed
  BY DEF Resolve, DiscoveredServices, Abstract!Listed, Lists, Abstract!Id, Id
<1>6. Abstract!StartResolving(id, sd)
  BY <1>1, <1>2, <1>3, <1>4, <1>5
  DEF Abstract!StartResolving, Abstract!NoSd, NoSd
<1>7. /\ \A i \in Id : rrequests'[i] = IF i = id THEN r ELSE rrequests[i]
      /\ \A i \in Id : resolving'[i] = IF i = id THEN sd ELSE resolving[i]
      /\ reporting # id
      /\ reporting \in Id \cup {0}
  BY <1>1, <1>2 DEF RefineInv, RequestInv, HandleInv, TypeOK, Id
<1>8. r # NoRef /\ sd # NoSd
  BY HandleAssumption, NoSdIsNoObject
<1>9. RequestInv'
  BY <1>3, <1>7, <1>8 DEF RefineInv, RequestInv
<1> QED
  BY <1>6, <1>9 DEF Abstract!Next, Abstract!Id, Id, Abstract!Sd, Sd

(* What a reply finds: the library hands over the handle of a live request *)
(* or of the registration.                                                 *)
LEMMA ReplyFinds ==
    ASSUME RefineInv, ReplyArrives
    PROVE  /\ cur \in Ref /\ cur # NoRef
           /\ reporting = 0
           /\ UNCHANGED <<rrequests, resolving>>
BY HandleAssumption
DEF ReplyArrives, RefineInv, HandleInv, RequestInv, TypeOK

LEMMA ResolveReplyStep ==
    ASSUME RefineInv, NEW id \in Id, ResolveReply(id)
    PROVE  Abstract!Next /\ RequestInv'
<1>1. /\ rrequests[id] = cur
      /\ resolved' = resolved \cup {resolving[id]}
      /\ pc' = "callback" /\ reporting' = id
      /\ UNCHANGED <<told, brequests, discovered, rrequests, resolving>>
      /\ cur # NoRef
  BY ReplyFinds DEF ResolveReply
<1>2. resolving[id] # NoSd /\ resolving[id] \in Sd
  BY <1>1 DEF RefineInv, RequestInv, HandleInv, TypeOK
<1>3. UNCHANGED <<Browsing, Present, Lists>>
  BY <1>1 DEF Browsing, Present, Lists, Live
<1>4. Abstract!Resolve(id)
  BY <1>1, <1>2, <1>3 DEF Abstract!Resolve, Abstract!NoSd, NoSd
<1>5. RequestInv'
  BY <1>1, <1>2 DEF RefineInv, RequestInv
<1> QED
  BY <1>4, <1>5 DEF Abstract!Next, Abstract!Id, Id

LEMMA ResolvedReturnsStep ==
    ASSUME RefineInv, ResolvedReturns
    PROVE  Abstract!Next /\ RequestInv'
<1>1. /\ reporting \in Id /\ reporting # 0
      /\ Release({rrequests[reporting]})
      /\ rrequests' = [rrequests EXCEPT ![reporting] = NoRef]
      /\ resolving' = [resolving EXCEPT ![reporting] = NoSd]
      /\ reporting' = 0
      /\ UNCHANGED <<brequests, discovered, resolved>>
  BY DEF ResolvedReturns, RefineInv, HandleInv, TypeOK
<1>2. /\ rrequests[reporting] # NoRef
      /\ resolving[reporting] \in resolved
  BY <1>1 DEF RefineInv, HandleInv, RequestInv
<1>3. \A i \in Live(brequests) : brequests[i] # rrequests[reporting]
  BY <1>1, <1>2 DEF Live, RefineInv, HandleInv, OwnersAreDistinct
<1>4. \A i \in Live(brequests) : told'[brequests[i]] = told[brequests[i]]
  <2>1. {rrequests[reporting]} \in SUBSET Allocated
    BY <1>1, <1>2 DEF Live, RefineInv, HandleInv, Owned
  <2>2. \A q \in Ref : told'[q] = IF q \in {rrequests[reporting]}
                                THEN {} ELSE told[q]
    BY <1>1, <2>1, ReleaseWatches DEF RefineInv
  <2> QED
    BY <1>3, <2>2 DEF Live, RefineInv, HandleInv, TypeOK
<1>5. UNCHANGED <<Browsing, Present, Lists>>
  BY <1>1, <1>4 DEF Browsing, Present, Lists, Live
<1>6. Abstract!StopResolving(reporting)
  BY <1>1, <1>2, <1>5 DEF Abstract!StopResolving, Abstract!NoSd, NoSd
<1>7. RequestInv'
  BY <1>1 DEF RefineInv, RequestInv, HandleInv, TypeOK
<1> QED
  BY <1>1, <1>6, <1>7 DEF Abstract!Next, Abstract!Id, Id

LEMMA SilentReplies ==
    ASSUME RefineInv, RegisterReply \/ ReplyError
    PROVE  UNCHANGED Abstract!vars /\ RequestInv'
<1>1. /\ UNCHANGED <<told, brequests, discovered, resolved>>
      /\ UNCHANGED <<rrequests, resolving>>
      /\ reporting' = 0
  BY ReplyFinds DEF RegisterReply, ReplyError, CallUser
<1> QED
  BY <1>1, Stutters, RequestsUnchanged DEF reqs, RefineInv

(* What is present changes for the request of the reply only.              *)
LEMMA PresentFollowsTold ==
    ASSUME RefineInv, ReplyArrives, NEW id \in Id, brequests[id] = cur,
           UNCHANGED brequests, NEW services,
           told' = [told EXCEPT ![cur] = services]
    PROVE  /\ id \in Browsing /\ Browsing' = Browsing
           /\ Present[id] = told[cur]
           /\ Present' = [Present EXCEPT ![id] = services]
<1>1. id \in Live(brequests) /\ Browsing' = Browsing
  BY ReplyFinds DEF Live, Browsing
<1>2. \A i \in Live(brequests) : i # id => brequests[i] # cur
  BY <1>1 DEF RefineInv, HandleInv, OwnersAreDistinct
<1>3. \A i \in Id : Present'[i] = IF i = id THEN services ELSE Present[i]
  BY <1>1, <1>2 DEF Present, Live, RefineInv, HandleInv, TypeOK
<1> QED
  BY <1>1, <1>3 DEF Present, Browsing, Live

LEMMA BrowseAddStep ==
    ASSUME RefineInv, NEW id \in Id, NEW service \in Service,
           BrowseAdd(id, service)
    PROVE  Abstract!Next /\ RequestInv'
<1> DEFINE Made(k) == [name |-> service[1], iface |-> service[2], copy |-> k]
<1>1. /\ ReplyArrives /\ brequests[id] = cur /\ UNCHANGED brequests
      /\ service \notin told[cur]
      /\ told' = [told EXCEPT ![cur] = told[cur] \cup {service}]
  BY DEF BrowseAdd
<1>2. /\ id \in Browsing /\ Browsing' = Browsing
      /\ service \notin Present[id]
      /\ Present' = [Present EXCEPT ![id] = @ \cup {service}]
  BY <1>1, PresentFollowsTold
<1>3. /\ reporting = 0 /\ reporting' = 0
      /\ UNCHANGED <<rrequests, resolving>>
      /\ brequests[id] # NoRef
  BY <1>1, ReplyFinds DEF BrowseAdd, CallUser
<1>4. CASE service[1] = Uuid
  <2>1. UNCHANGED <<discovered, resolved>>
    BY <1>4 DEF BrowseAdd
  <2>2. Abstract!Appear(id, service)
    BY <1>2, <1>3, <1>4, <2>1 DEF Abstract!Appear, Lists
  <2>3. RequestInv'
    BY <1>1, <1>3, <2>1 DEF RefineInv, RequestInv
  <2> QED
    BY <2>2, <2>3 DEF Abstract!Next, Abstract!Id, Id, Abstract!Service, Service
<1>5. CASE service[1] # Uuid
  <2>1. PICK k \in 1 .. MaxCopy :
          /\ Made(k) \notin DiscoveredServices
          /\ \A i \in Id : resolving[i] # Made(k)
          /\ discovered' = [discovered EXCEPT ![id] = Append(@, Made(k))]
          /\ resolved' = resolved \ {Made(k)}
    BY <1>5 DEF BrowseAdd
  <2> DEFINE sd == Made(k)
  <2>2. sd \in Sd /\ Abstract!ServiceOf(sd) = service
    BY DEF Sd, Service, Abstract!ServiceOf
  <2> HIDE DEF sd
  <2>3. sd \notin DiscoveredServices /\ \A i \in Id : resolving[i] # sd
    BY <2>1 DEF sd
  <2>4. ~Abstract!InUse(sd)
    BY <2>3 DEF Abstract!InUse, Abstract!Listed, DiscoveredServices, Lists,
       Abstract!Id, Id
  <2>5. /\ discovered[id] \in Seq(Sd) /\ IsInjective(discovered[id])
        /\ sd \notin ToSet(discovered[id])
    BY <2>3 DEF RefineInv, RequestInv, HandleInv, TypeOK, DiscoveredServices
  <2>6. /\ ToSet(Append(discovered[id], sd)) = ToSet(discovered[id]) \cup {sd}
        /\ IsInjective(Append(discovered[id], sd))
    BY <2>2, <2>5, AppendSet
  <2>7. \A i \in Id : discovered'[i] =
          IF i = id THEN Append(discovered[id], sd) ELSE discovered[i]
    BY <2>1 DEF RefineInv, HandleInv, TypeOK, sd
  <2>8. Lists' = [Lists EXCEPT ![id] = @ \cup {sd}]
    BY <2>6, <2>7 DEF Lists
  <2>9. Abstract!Appear(id, service)
    BY <1>2, <1>3, <1>5, <2>1, <2>2, <2>4, <2>8
    DEF Abstract!Appear, Abstract!Sd, Sd, sd
  <2>10. RequestInv'
    BY <1>1, <1>3, <2>1, <2>6, <2>7 DEF RefineInv, RequestInv
  <2> QED
    BY <2>9, <2>10 DEF Abstract!Next, Abstract!Id, Id, Abstract!Service, Service
<1> QED
  BY <1>4, <1>5

(* A list of a live request has an object of every name present for it but *)
(* the object's own.                                                       *)
LEMMA ListHasName ==
    ASSUME RefineInv, NEW id \in Id, NEW service \in Present[id],
           service \in Service
    PROVE  (\E sd \in Lists[id] : sd.name = service[1]) <=> service[1] # Uuid
<1> DEFINE n == service[1]
           objects == {sd \in Lists[id] : sd.name = n}
           services == {s \in Present[id] : s[1] = n}
<1>1. n \in Name
  BY DEF Service
<1>2. Cardinality(objects) = IF n = Uuid THEN 0 ELSE Cardinality(services)
  BY <1>1, SameCounting
  DEF RefineInv, Abstract!BrowserInv, Abstract!ListsFollowPresence,
      Abstract!Id, Id
<1>3. IsFiniteSet(Lists[id]) /\ IsFiniteSet(Present[id])
  BY SameCounting DEF RefineInv, Abstract!BrowserInv, Abstract!Id, Id
<1>4. IsFiniteSet(objects) /\ IsFiniteSet(services) /\ services # {}
  BY <1>3, FS_Subset
<1>5. Cardinality(services) # 0 /\ (Cardinality(objects) = 0 <=> objects = {})
  BY <1>4, FS_EmptySet
<1> QED
  BY <1>2, <1>5

LEMMA BrowseRemoveStep ==
    ASSUME RefineInv, NEW id \in Id, NEW service \in Service,
           BrowseRemove(id, service)
    PROVE  Abstract!Next /\ RequestInv'
<1> DEFINE list == discovered[id]
<1>1. /\ ReplyArrives /\ brequests[id] = cur /\ UNCHANGED brequests
      /\ service \in told[cur]
      /\ told' = [told EXCEPT ![cur] = told[cur] \ {service}]
      /\ UNCHANGED resolved
  BY DEF BrowseRemove
<1>2. /\ id \in Browsing /\ Browsing' = Browsing
      /\ service \in Present[id]
      /\ Present' = [Present EXCEPT ![id] = @ \ {service}]
  BY <1>1, PresentFollowsTold
<1>3. /\ reporting = 0 /\ reporting' = 0
      /\ UNCHANGED <<rrequests, resolving>>
      /\ brequests[id] # NoRef
  BY <1>1, ReplyFinds DEF BrowseRemove, CallUser
<1>4. /\ list \in Seq(Sd) /\ IsInjective(list)
      /\ Lists[id] = ToSet(list)
  BY DEF RefineInv, RequestInv, HandleInv, TypeOK, Lists
<1>5. (\E j \in DOMAIN list : list[j].name = service[1]) <=> service[1] # Uuid
  BY <1>2, <1>4, ListHasName DEF ToSet
<1>6. CASE \A k \in DOMAIN list : ~IsFirstNamed(list, service[1], k)
  <2>1. UNCHANGED discovered
    BY <1>6 DEF BrowseRemove
  <2>2. service[1] = Uuid
    <3>1. ASSUME NEW j \in DOMAIN list, list[j].name = service[1] PROVE FALSE
      <4>1. PICK k \in DOMAIN list :
              /\ list[k].name = service[1]
              /\ \A i \in 1 .. k - 1 : list[i].name # service[1]
        BY <1>4, <3>1, FirstNamed
      <4>2. \A i \in DOMAIN list : i < k => i \in 1 .. k - 1
        BY <1>4
      <4> QED
        BY <1>6, <4>1, <4>2 DEF IsFirstNamed
    <3> QED
      BY <1>5, <3>1
  <2>3. Abstract!Disappear(id, service)
    BY <1>1, <1>2, <1>3, <2>1, <2>2 DEF Abstract!Disappear, Lists
  <2>4. RequestInv'
    BY <1>1, <1>3, <2>1 DEF RefineInv, RequestInv
  <2> QED
    BY <2>3, <2>4 DEF Abstract!Next, Abstract!Id, Id, Abstract!Service, Service
<1>7. ASSUME NEW k \in DOMAIN list, IsFirstNamed(list, service[1], k),
             discovered' = [discovered EXCEPT ![id] = RemoveAt(list, k)]
      PROVE  Abstract!Next /\ RequestInv'
  <2>1. service[1] # Uuid /\ list[k] \in Lists[id] /\ list[k].name = service[1]
    BY <1>4, <1>5, <1>7 DEF IsFirstNamed, ToSet
  <2>2. /\ IsInjective(RemoveAt(list, k))
        /\ ToSet(RemoveAt(list, k)) = ToSet(list) \ {list[k]}
    BY <1>4, RemoveAtSet
  <2>3. \A i \in Id : discovered'[i] =
          IF i = id THEN RemoveAt(list, k) ELSE discovered[i]
    BY <1>7 DEF RefineInv, HandleInv, TypeOK
  <2>4. Lists' = [Lists EXCEPT ![id] = @ \ {list[k]}]
    BY <1>4, <2>2, <2>3 DEF Lists
  <2>5. Abstract!Disappear(id, service)
    BY <1>1, <1>2, <1>3, <2>1, <2>4 DEF Abstract!Disappear
  <2>6. RequestInv'
    BY <1>1, <1>3, <2>2, <2>3 DEF RefineInv, RequestInv
  <2> QED
    BY <2>5, <2>6 DEF Abstract!Next, Abstract!Id, Id, Abstract!Service, Service
<1> QED
  BY <1>6, <1>7 DEF BrowseRemove

-----------------------------------------------------------------------------
LEMMA NextStep == RefineInv /\ [Next]_vars =>
                    [Abstract!Next]_(Abstract!vars) /\ RequestInv'
<1> SUFFICES ASSUME RefineInv, [Next]_vars
             PROVE  [Abstract!Next]_(Abstract!vars) /\ RequestInv'
  OBVIOUS
<1>1. CASE UserCall
  BY <1>1, OtherSteps, BrowseStep, CancelStep, ResolveStep, DestroyStep
  DEF UserCall
<1>2. CASE Reply
  BY <1>2, BrowseAddStep, BrowseRemoveStep, ResolveReplyStep, SilentReplies
  DEF Reply
<1>3. CASE Callback
  BY <1>3, OtherSteps, ResolvedReturnsStep DEF Callback
<1>4. CASE RunLoop \/ (\E r \in Ref : DaemonReplies(r)) \/ UNCHANGED vars
  BY <1>4, OtherSteps
<1> QED
  BY <1>1, <1>2, <1>3, <1>4 DEF Next, Stopped

LEMMA NextRefine == RefineInv /\ [Next]_vars => RefineInv'
<1> SUFFICES ASSUME RefineInv, [Next]_vars PROVE RefineInv'
  OBVIOUS
<1>1. HandleInv'
  BY NextHandles DEF RefineInv
<1>2. [Abstract!Next]_(Abstract!vars) /\ RequestInv'
  BY NextStep
<1>3. Abstract!BrowserInv'
  BY <1>2, Abstract!NextBrowser DEF RefineInv
<1> QED
  BY <1>1, <1>2, <1>3 DEF RefineInv

-----------------------------------------------------------------------------
(* The two instances of ServiceBrowser are one.                            *)
LEMMA InitBrowses == Init => Browser!Init
<1>1. ToSet(<<>>) = {}
  BY DEF ToSet
<1> QED
  BY <1>1 DEF Init, Browser!Init, Live, Browser!Id, Id, Browser!NoSd, NoSd

LEMMA NextBrowses ==
    [Abstract!Next]_(Abstract!vars) => [Browser!Next]_(Browser!vars)
<1> USE DEF Browsing, Present, Lists, Abstract!Id, Browser!Id,
            Abstract!Service, Browser!Service, Abstract!Sd, Browser!Sd,
            Abstract!NoSd, Browser!NoSd
<1>1. ASSUME NEW id \in Browser!Id
      PROVE  /\ Abstract!StartBrowsing(id) => Browser!StartBrowsing(id)
             /\ Abstract!Resolve(id) => Browser!Resolve(id)
             /\ Abstract!StopResolving(id) => Browser!StopResolving(id)
  BY DEF Abstract!StartBrowsing, Browser!StartBrowsing, Abstract!Resolve,
         Browser!Resolve, Abstract!StopResolving, Browser!StopResolving
<1>2. ASSUME NEW ids PROVE Abstract!StopBrowsing(ids) => Browser!StopBrowsing(ids)
  BY DEF Abstract!StopBrowsing, Browser!StopBrowsing
<1>3. ASSUME NEW id, NEW sd
      PROVE  Abstract!StartResolving(id, sd) => Browser!StartResolving(id, sd)
  BY DEF Abstract!StartResolving, Browser!StartResolving, Abstract!Listed,
         Browser!Listed
<1>4. ASSUME NEW id, NEW service
      PROVE  /\ Abstract!Appear(id, service) => Browser!Appear(id, service)
             /\ Abstract!Disappear(id, service) =>
                  Browser!Disappear(id, service)
  BY DEF Abstract!Appear, Browser!Appear, Abstract!Disappear,
         Browser!Disappear, Abstract!InUse, Browser!InUse, Abstract!Listed,
         Browser!Listed, Abstract!ServiceOf, Browser!ServiceOf
<1>5. UNCHANGED Abstract!vars => UNCHANGED Browser!vars
  BY DEF Abstract!vars, Browser!vars
<1>6. Abstract!Next => Browser!Next
  BY <1>1, <1>2, <1>3, <1>4 DEF Abstract!Next, Browser!Next
<1> QED
  BY <1>5, <1>6

(* Handles, the loop of run() and the callbacks in it cannot be told from  *)
(* the lists: every behaviour of the object is one of ServiceBrowser, also *)
(* when callbacks cancel other requests or announce again.                 *)
THEOREM AlwaysImplementsServiceBrowser == Spec => ImplementsServiceBrowser
<1>1. RefineInv /\ [Next]_vars => [Browser!Next]_(Browser!vars)
  BY NextStep, NextBrowses
<1> QED
  BY <1>1, InitRefine, NextRefine, InitBrowses, PTL
  DEF Spec, ImplementsServiceBrowser, Browser!Spec

(* discovered_ holds as many objects of a name as there are interfaces on  *)
(* which the daemon says it is present.                                    *)
THEOREM DiscoveredAlwaysCounts == Spec => []DiscoveredCounts
<1>1. RefineInv => DiscoveredCounts
  <2> SUFFICES ASSUME RefineInv, NEW i \in Live(brequests),
                      NEW n \in Name \ {Uuid}
               PROVE  Cardinality({k \in DOMAIN discovered[i] :
                                     discovered[i][k].name = n})
                        = Cardinality({s \in told[brequests[i]] : s[1] = n})
    BY DEF DiscoveredCounts
  <2>1. /\ i \in Id /\ Lists[i] = ToSet(discovered[i])
        /\ Present[i] = told[brequests[i]]
    BY DEF Live, Lists, Present
  <2>2. discovered[i] \in Seq(Sd) /\ IsInjective(discovered[i])
    BY <2>1 DEF RefineInv, RequestInv, HandleInv, TypeOK
  <2>3. Cardinality({k \in DOMAIN discovered[i] : discovered[i][k].name = n})
          = Cardinality({sd \in ToSet(discovered[i]) : sd.name = n})
    BY <2>2, CountNamed
  <2>4. Cardinality({sd \in Lists[i] : sd.name = n})
          = Cardinality({s \in Present[i] : s[1] = n})
    BY <2>1, SameCounting
    DEF RefineInv, Abstract!BrowserInv, Abstract!ListsFollowPresence,
        Abstract!Id, Id
  <2> QED
    BY <2>1, <2>3, <2>4
<1> QED
  BY <1>1, InitRefine, NextRefine, PTL DEF Spec

=============================================================================
