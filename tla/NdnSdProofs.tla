---------------------------- MODULE NdnSdProofs ----------------------------
(***************************************************************************)
(* What NdnSd guarantees for every number of handles, descriptors, names,  *)
(* interfaces and requests.                                                *)
(***************************************************************************)
EXTENDS NdnSd, TLAPS

-----------------------------------------------------------------------------
(* Facts about the operators.                                              *)

(* vector::erase leaves a vector of the same element type.                 *)
LEMMA RemoveAtType ==
    ASSUME NEW S, NEW s \in Seq(S), NEW k \in DOMAIN s
    PROVE  RemoveAt(s, k) \in Seq(S)
BY DEF RemoveAt

(* Leaving run() resets its locals to values of their types.               *)
LEMMA LeaveRunType ==
    LeaveRun => /\ pc' = "user"
                /\ forever' \in BOOLEAN
                /\ ready' \subseteq Fd
                /\ nextIt' \in Fd \cup {End, Dangling}
                /\ cur' \in Ref \cup {NoRef}
BY DEF LeaveRun

(* Opening a handle keeps the types of what it touches.                    *)
LEMMA OpenType ==
    ASSUME TypeOK, NEW r \in Ref, NEW f \in Fd, Open(r, f)
    PROVE  /\ sockfd' \in [Ref -> Fd \cup {Closed}]
           /\ fdServiceRefMap' \in [Fd -> Ref \cup {NoRef}]
           /\ readable' \subseteq Ref
           /\ told' \in [Ref -> SUBSET Service]
BY DEF Open, TypeOK

(* So does releasing handles.                                              *)
LEMMA ReleaseType ==
    ASSUME TypeOK, NEW R, Release(R)
    PROVE  /\ sockfd' \in [Ref -> Fd \cup {Closed}]
           /\ fdServiceRefMap' \in [Fd -> Ref \cup {NoRef}]
           /\ readable' \subseteq Ref
           /\ told' \in [Ref -> SUBSET Service]
           /\ nextIt' \in Fd \cup {End, Dangling}
           /\ cur' \in Ref \cup {NoRef}
BY DEF Release, Unwatch, Deallocate, TypeOK

-----------------------------------------------------------------------------
(* Type correctness.                                                       *)

LEMMA InitType == Init => TypeOK
<1> SUFFICES ASSUME Init PROVE TypeOK
  OBVIOUS
<1>1. discovered \in [Id -> Seq(Sd)]
  BY DEF Init
<1>2. told \in [Ref -> SUBSET Service]
  BY DEF Init
<1> QED
  BY <1>1, <1>2 DEF Init, TypeOK, Closed, End

(* Calls of the user.                                                      *)
LEMMA UserCallType == TypeOK /\ UserCall => TypeOK'
<1> SUFFICES ASSUME TypeOK, UserCall PROVE TypeOK'
  OBVIOUS
<1>1. CASE AnnounceValid
  BY <1>1, OpenType DEF AnnounceValid, Register, TypeOK, reqs, loop
<1>2. CASE AnnounceInvalid
  BY <1>2 DEF AnnounceInvalid, TypeOK, lib, reqs, loop
<1>3. CASE ResumeAnnounce
  BY <1>3, OpenType DEF ResumeAnnounce, Register, TypeOK, reqs, loop
<1>4. CASE ResumeAnnounceRefused
  BY <1>4 DEF ResumeAnnounceRefused, TypeOK, lib, reqs, loop
<1>5. CASE Browse
  <2>1. PICK r \in Ref, f \in Fd, id \in Id :
           /\ Open(r, f)
           /\ brequests' = [brequests EXCEPT ![id] = r]
           /\ discovered' = [discovered EXCEPT ![id] = <<>>]
    BY <1>5 DEF Browse
  <2> QED
    BY <1>5, <2>1, OpenType DEF Browse, TypeOK, reg, loop
<1>6. ASSUME NEW id \in Id, Cancel(id) PROVE TypeOK'
  BY <1>6, ReleaseType DEF Cancel, TypeOK, reg
<1>7. ASSUME NEW sd \in Sd, Resolve(sd) PROVE TypeOK'
  <2>1. PICK r \in Ref, f \in Fd, id \in Id :
           /\ Open(r, f)
           /\ rrequests' = [rrequests EXCEPT ![id] = r]
           /\ resolving' = [resolving EXCEPT ![id] = sd]
    BY <1>7 DEF Resolve
  <2> QED
    BY <1>7, <2>1, OpenType DEF Resolve, TypeOK, reg, loop
<1>8. CASE Destroy
  BY <1>8, ReleaseType DEF Destroy, TypeOK
<1>9. ASSUME NEW b \in BOOLEAN, Run(b) PROVE TypeOK'
  BY <1>9 DEF Run, TypeOK, lib, reg, reqs
<1> QED
  BY <1>1, <1>2, <1>3, <1>4, <1>5, <1>6, <1>7, <1>8, <1>9 DEF UserCall

(* Steps of the loop in run().                                             *)
LEMMA RunLoopType == TypeOK /\ RunLoop => TypeOK'
<1> SUFFICES ASSUME TypeOK, RunLoop PROVE TypeOK'
  OBVIOUS
<1>1. CASE SelectReady
  BY <1>1 DEF SelectReady, ReadableFds, TypeOK, lib, reg, reqs
<1>2. CASE SelectTimeout
  BY <1>2, LeaveRunType DEF SelectTimeout, TypeOK, lib, reg, reqs
<1>3. CASE SelectError
  BY <1>3, LeaveRunType DEF SelectError, TypeOK, lib, reg, reqs
<1>4. CASE Visit
  BY <1>4 DEF Visit, TypeOK, lib, reg, reqs
<1>5. CASE LoopEnds
  BY <1>5, LeaveRunType DEF LoopEnds, TypeOK, lib, reg, reqs
<1>6. CASE LoopUndefined
  BY <1>6 DEF LoopUndefined, TypeOK, lib, reg, reqs
<1>7. CASE ProcessError
  BY <1>7, LeaveRunType DEF ProcessError, TypeOK, lib, reg, reqs
<1>8. CASE ProcessReturns
  BY <1>8 DEF ProcessReturns, TypeOK, lib, reg, reqs
<1> QED
  BY <1>1, <1>2, <1>3, <1>4, <1>5, <1>6, <1>7, <1>8 DEF RunLoop

(* The reply callbacks.                                                    *)
LEMMA ReplyType == TypeOK /\ Reply => TypeOK'
<1> SUFFICES ASSUME TypeOK, Reply PROVE TypeOK'
  OBVIOUS
<1>1. ASSUME NEW id \in Id, NEW service \in Service, BrowseAdd(id, service)
      PROVE  TypeOK'
  <2>1. /\ told' \in [Ref -> SUBSET Service]
        /\ readable' \subseteq Ref
        /\ pc' \in {"callback", "return"}
    BY <1>1 DEF BrowseAdd, ReplyArrives, CallUser, TypeOK
  <2>2. /\ discovered' \in [Id -> Seq(Sd)]
        /\ resolved' \subseteq Sd \cup {NoSd}
    <3>1. CASE service[1] = Uuid
      BY <1>1, <3>1 DEF BrowseAdd, TypeOK
    <3>2. CASE service[1] # Uuid
      <4> DEFINE Made(k) ==
            [name |-> service[1], iface |-> service[2], copy |-> k]
      <4>1. PICK k \in 1 .. MaxCopy :
              /\ discovered' = [discovered EXCEPT ![id] = Append(@, Made(k))]
              /\ resolved' = resolved \ {Made(k)}
        BY <1>1, <3>2 DEF BrowseAdd
      <4>2. Made(k) \in Sd
        BY DEF Sd, Service
      <4> HIDE DEF Made
      <4> QED
        BY <4>1, <4>2 DEF TypeOK
    <3> QED
      BY <3>1, <3>2
  <2> QED
    BY <1>1, <2>1, <2>2 DEF BrowseAdd, ReplyArrives, CallUser, TypeOK, reg
<1>2. ASSUME NEW id \in Id, NEW service \in Service, BrowseRemove(id, service)
      PROVE  TypeOK'
  <2>1. /\ told' \in [Ref -> SUBSET Service]
        /\ readable' \subseteq Ref
        /\ pc' \in {"callback", "return"}
        /\ UNCHANGED reporting
    BY <1>2 DEF BrowseRemove, ReplyArrives, CallUser, TypeOK
  <2>2. discovered' \in [Id -> Seq(Sd)]
    <3>1. CASE UNCHANGED discovered
      BY <3>1 DEF TypeOK
    <3>2. ASSUME NEW k \in DOMAIN discovered[id],
                 discovered' = [discovered EXCEPT ![id] =
                                  RemoveAt(discovered[id], k)]
          PROVE  discovered' \in [Id -> Seq(Sd)]
      <4>1. discovered[id] \in Seq(Sd)
        BY DEF TypeOK
      <4>2. RemoveAt(discovered[id], k) \in Seq(Sd)
        BY <4>1, RemoveAtType
      <4> QED
        BY <3>2, <4>2 DEF TypeOK
    <3> QED
      BY <1>2, <3>1, <3>2 DEF BrowseRemove
  <2> QED
    BY <1>2, <2>1, <2>2 DEF BrowseRemove, ReplyArrives, TypeOK, reg
<1>3. ASSUME NEW id \in Id, ResolveReply(id) PROVE TypeOK'
  BY <1>3 DEF ResolveReply, ReplyArrives, TypeOK, reg
<1>4. CASE RegisterReply
  BY <1>4 DEF RegisterReply, ReplyArrives, CallUser, TypeOK
<1>5. CASE ReplyError
  BY <1>5 DEF ReplyError, ReplyArrives, CallUser, TypeOK, reg
<1> QED
  BY <1>1, <1>2, <1>3, <1>4, <1>5 DEF Reply

(* The ends of the callbacks.                                              *)
LEMMA CallbackType == TypeOK /\ Callback => TypeOK'
<1> SUFFICES ASSUME TypeOK, Callback PROVE TypeOK'
  OBVIOUS
<1>1. CASE ResolvedReturns
  BY <1>1, ReleaseType DEF ResolvedReturns, TypeOK, reg
<1>2. CASE CallbackReturns
  BY <1>2 DEF CallbackReturns, TypeOK, lib, reg, reqs
<1>3. CASE CallbackThrows
  BY <1>3, LeaveRunType DEF CallbackThrows, TypeOK, lib, reg, reqs
<1> QED
  BY <1>1, <1>2, <1>3 DEF Callback

LEMMA NextType == TypeOK /\ [Next]_vars => TypeOK'
<1> SUFFICES ASSUME TypeOK, [Next]_vars PROVE TypeOK'
  OBVIOUS
<1>1. ASSUME NEW r \in Ref, DaemonReplies(r) PROVE TypeOK'
  BY <1>1 DEF DaemonReplies, TypeOK, reg, reqs, loop
<1>2. CASE UNCHANGED vars
  BY <1>2 DEF TypeOK, vars, lib, reg, reqs, loop
<1> QED
  BY <1>1, <1>2, UserCallType, RunLoopType, ReplyType, CallbackType
  DEF Next, Stopped

(* Every variable keeps the type the code gives it.                        *)
THEOREM TypeCorrect == Spec => []TypeOK
BY InitType, NextType, PTL DEF Spec

-----------------------------------------------------------------------------
(* Handles and requests.  A handle with an owner is open, has no other     *)
(* owner and is watched; nothing is present for a handle that is closed,   *)
(* and the resolve request whose callback runs is there.  An error         *)
(* callback of announce() that announces again leaks a registration.       *)
NothingLeaks ==
    /\ Allocated \subseteq Owned
    /\ announcing => state = "Created"

HandleInv ==
    /\ TypeOK
    /\ OwnersAreDistinct
    /\ Owned \subseteq Allocated
    /\ RunLoopWatchesHandles
    /\ \A r \in Ref : sockfd[r] = Closed => told[r] = {}
    /\ reporting # 0 => rrequests[reporting] # NoRef
    /\ "reannounce" \notin Reentrant => NothingLeaks

handleVars == <<sockfd, state, advertisedRef, announcing, brequests, rrequests,
                fdServiceRefMap>>

(* A step that touches none of it keeps the invariant.                     *)
LEMMA HandlesUnchanged ==
    ASSUME HandleInv, TypeOK', UNCHANGED handleVars,
           reporting' # 0 => rrequests[reporting'] # NoRef,
           \A r \in Ref : sockfd[r] = Closed => told'[r] = {}
    PROVE  HandleInv'
<1>1. UNCHANGED <<Allocated, Owned, OwnersAreDistinct, RunLoopWatchesHandles>>
  BY DEF RunLoopWatchesHandles, Allocated, Owned, OwnersAreDistinct, Live,
         Registration, handleVars
<1> QED
  BY <1>1 DEF HandleInv, NothingLeaks, handleVars

(* The handle that Open opens had no owner, and the map still watches      *)
(* exactly the open handles.                                               *)
LEMMA OpenWatches ==
    ASSUME HandleInv, NEW r \in Ref, NEW f \in Fd, Open(r, f)
    PROVE  /\ RunLoopWatchesHandles'
           /\ r \notin Allocated /\ r \notin Owned
           /\ Allocated' = Allocated \cup {r}
           /\ told[r] = {} /\ told' = told
           /\ \A q \in Ref : sockfd'[q] = Closed => told'[q] = {}
<1>1. f # Closed
  BY FdAssumption DEF Closed
<1>2. \A q \in Ref : sockfd'[q] = IF q = r THEN f ELSE sockfd[q]
  BY DEF Open, HandleInv, TypeOK
<1>3. \A g \in Fd : fdServiceRefMap'[g] = IF g = f THEN r
                                          ELSE fdServiceRefMap[g]
  BY DEF Open, HandleInv, TypeOK
<1>4. /\ r \notin Allocated /\ r \notin Owned
      /\ \A q \in Ref : sockfd[q] # f
  BY DEF Open, Allocated, HandleInv
<1>5. Allocated' = Allocated \cup {r}
  BY <1>1, <1>2 DEF Allocated
<1>6. \A q \in Allocated' : fdServiceRefMap'[sockfd'[q]] = q
  BY <1>2, <1>3, <1>4, <1>5
  DEF HandleInv, RunLoopWatchesHandles, Allocated, TypeOK
<1>7. ASSUME NEW g \in Fd, fdServiceRefMap'[g] # NoRef
      PROVE  sockfd'[fdServiceRefMap'[g]] = g
  <2>1. CASE g = f
    BY <2>1, <1>2, <1>3
  <2>2. CASE g # f
    <3>1. /\ fdServiceRefMap'[g] = fdServiceRefMap[g]
          /\ fdServiceRefMap[g] \in Ref
          /\ sockfd[fdServiceRefMap[g]] = g
      BY <2>2, <1>3, <1>7 DEF HandleInv, RunLoopWatchesHandles, TypeOK
    <3>2. g # Closed
      BY FdAssumption DEF Closed
    <3>3. fdServiceRefMap[g] # r
      BY <1>4, <3>1, <3>2 DEF Allocated
    <3> QED
      BY <1>2, <3>1, <3>3
  <2> QED
    BY <2>1, <2>2
<1>8. /\ told[r] = {} /\ told' = told
      /\ \A q \in Ref : sockfd'[q] = Closed => told'[q] = {}
  BY <1>1, <1>2 DEF Open, HandleInv
<1> QED
  BY <1>4, <1>5, <1>6, <1>7, <1>8 DEF RunLoopWatchesHandles

(* Releasing open handles leaves the others watched.                       *)
LEMMA ReleaseWatches ==
    ASSUME HandleInv, NEW R \in SUBSET Allocated, Release(R)
    PROVE  /\ RunLoopWatchesHandles'
           /\ Allocated' = Allocated \ R
           /\ \A q \in Ref : told'[q] = IF q \in R THEN {} ELSE told[q]
           /\ \A q \in Ref : sockfd'[q] = Closed => told'[q] = {}
<1>1. \A q \in Ref : sockfd'[q] = IF q \in R THEN Closed ELSE sockfd[q]
  BY DEF Release, Deallocate
<1>2. \A g \in Fd : fdServiceRefMap'[g] = IF \E r \in R : sockfd[r] = g
                                          THEN NoRef ELSE fdServiceRefMap[g]
  BY DEF Release, Unwatch
<1>3. Allocated' = Allocated \ R
  BY <1>1 DEF Allocated
<1>4. ASSUME NEW q \in Allocated' PROVE fdServiceRefMap'[sockfd'[q]] = q
  <2>1. q \in Allocated /\ q \notin R /\ sockfd'[q] = sockfd[q]
    BY <1>1, <1>3 DEF Allocated
  <2>2. sockfd[q] \in Fd /\ fdServiceRefMap[sockfd[q]] = q
    BY <2>1 DEF HandleInv, RunLoopWatchesHandles, Allocated, TypeOK
  <2>3. ~ \E r \in R : sockfd[r] = sockfd[q]
    BY <2>1, <2>2 DEF HandleInv, RunLoopWatchesHandles
  <2> QED
    BY <1>2, <2>1, <2>2, <2>3
<1>5. ASSUME NEW g \in Fd, fdServiceRefMap'[g] # NoRef
      PROVE  sockfd'[fdServiceRefMap'[g]] = g
  <2>1. fdServiceRefMap'[g] = fdServiceRefMap[g]
    BY <1>2, <1>5
  <2>2. fdServiceRefMap[g] \in Ref /\ sockfd[fdServiceRefMap[g]] = g
    BY <1>5, <2>1 DEF HandleInv, RunLoopWatchesHandles, TypeOK
  <2>3. fdServiceRefMap[g] \notin R
    BY <1>2, <1>5, <2>2
  <2> QED
    BY <1>1, <2>1, <2>2, <2>3
<1>6. \A q \in Ref : told'[q] = IF q \in R THEN {} ELSE told[q]
  BY DEF Release, Deallocate
<1> QED
  BY <1>1, <1>3, <1>4, <1>5, <1>6 DEF RunLoopWatchesHandles, HandleInv

(* The tail of announce() gives the new handle to the registration.        *)
LEMMA RegisterHandles ==
    ASSUME HandleInv, TypeOK', NEW valid, Register(valid),
           "reannounce" \notin Reentrant =>
             state = "Created" /\ announcing' = FALSE
    PROVE  HandleInv'
<1>1. PICK r \in Ref, f \in Fd : Open(r, f) /\ advertisedRef' = r
  BY DEF Register
<1>2. /\ RunLoopWatchesHandles' /\ r \notin Owned
      /\ Allocated' = Allocated \cup {r}
      /\ \A q \in Ref : sockfd'[q] = Closed => told'[q] = {}
  BY <1>1, OpenWatches
<1>3. /\ UNCHANGED <<brequests, rrequests, reporting>>
      /\ Registration' = {r}
      /\ state = "Created" => Registration = {}
  BY <1>1 DEF Register, Registration, reqs, loop
<1>4. OwnersAreDistinct'
  BY <1>2, <1>3 DEF HandleInv, Owned, OwnersAreDistinct, Live
<1>5. /\ Owned' \subseteq Owned \cup {r}
      /\ state = "Created" => Owned' = Owned \cup {r}
  BY <1>3 DEF Owned, Live
<1> QED
  BY <1>2, <1>3, <1>4, <1>5 DEF HandleInv, NothingLeaks

(* A request that is opened gets the new handle ...                        *)
LEMMA BrowseHandles ==
    ASSUME HandleInv, TypeOK', Browse
    PROVE  HandleInv'
<1>1. PICK r \in Ref, f \in Fd, id \in Id :
         /\ Open(r, f)
         /\ IsNextId(brequests, id)
         /\ brequests' = [brequests EXCEPT ![id] = r]
  BY DEF Browse
<1>2. /\ RunLoopWatchesHandles' /\ r \notin Owned
      /\ Allocated' = Allocated \cup {r}
      /\ \A q \in Ref : sockfd'[q] = Closed => told'[q] = {}
  BY <1>1, OpenWatches
<1>3. id \notin Live(brequests)
  BY <1>1 DEF IsNextId, Id
<1>4. /\ Live(brequests') = Live(brequests) \cup {id}
      /\ brequests'[id] = r
      /\ \A i \in Live(brequests) : brequests'[i] = brequests[i]
  BY <1>1, <1>3, HandleAssumption DEF Live, HandleInv, TypeOK
<1>5. UNCHANGED <<rrequests, Registration, state, announcing, reporting>>
  BY DEF Browse, reg, loop, Registration
<1>6. Owned' = Owned \cup {r} /\ OwnersAreDistinct'
  BY <1>2, <1>4, <1>5 DEF HandleInv, Owned, OwnersAreDistinct
<1> QED
  BY <1>2, <1>5, <1>6 DEF HandleInv, NothingLeaks

LEMMA ResolveHandles ==
    ASSUME HandleInv, TypeOK', NEW sd \in Sd, Resolve(sd)
    PROVE  HandleInv'
<1>1. PICK r \in Ref, f \in Fd, id \in Id :
         /\ Open(r, f)
         /\ IsNextId(rrequests, id)
         /\ rrequests' = [rrequests EXCEPT ![id] = r]
  BY DEF Resolve
<1>2. /\ RunLoopWatchesHandles' /\ r \notin Owned
      /\ Allocated' = Allocated \cup {r}
      /\ \A q \in Ref : sockfd'[q] = Closed => told'[q] = {}
  BY <1>1, OpenWatches
<1>3. id \notin Live(rrequests)
  BY <1>1 DEF IsNextId, Id
<1>4. /\ Live(rrequests') = Live(rrequests) \cup {id}
      /\ rrequests'[id] = r
      /\ \A i \in Live(rrequests) : rrequests'[i] = rrequests[i]
  BY <1>1, <1>3, HandleAssumption DEF Live, HandleInv, TypeOK
<1>5. UNCHANGED <<brequests, Registration, state, announcing, reporting>>
  BY DEF Resolve, reg, loop, Registration
<1>6. Owned' = Owned \cup {r} /\ OwnersAreDistinct'
  BY <1>2, <1>4, <1>5 DEF HandleInv, Owned, OwnersAreDistinct
<1>7. reporting' # 0 => rrequests'[reporting'] # NoRef
  BY <1>4, <1>5 DEF HandleInv, TypeOK, Live
<1> QED
  BY <1>2, <1>5, <1>6, <1>7 DEF HandleInv, NothingLeaks

(* ... and one that ends takes no other request's with it.                 *)
LEMMA CancelHandles ==
    ASSUME HandleInv, TypeOK', NEW id \in Id, Cancel(id)
    PROVE  HandleInv'
<1>1. id \in Live(brequests) /\ Release({brequests[id]})
  BY DEF Cancel, Live
<1>2. {brequests[id]} \in SUBSET Allocated
  BY <1>1 DEF HandleInv, Owned
<1>3. /\ RunLoopWatchesHandles' /\ Allocated' = Allocated \ {brequests[id]}
      /\ \A q \in Ref : sockfd'[q] = Closed => told'[q] = {}
  BY <1>1, <1>2, ReleaseWatches
<1>4. /\ Live(brequests') = Live(brequests) \ {id}
      /\ \A i \in Live(brequests') : brequests'[i] = brequests[i]
  BY DEF Live, Cancel, HandleInv, TypeOK
<1>5. UNCHANGED <<rrequests, Registration, state, announcing, reporting>>
  BY DEF Cancel, reg, Registration
<1>6. Owned' = Owned \ {brequests[id]} /\ OwnersAreDistinct'
  BY <1>1, <1>4, <1>5 DEF HandleInv, Owned, OwnersAreDistinct
<1> QED
  BY <1>3, <1>5, <1>6 DEF HandleInv, NothingLeaks

LEMMA DestroyHandles ==
    ASSUME HandleInv, TypeOK', Destroy
    PROVE  HandleInv'
<1> DEFINE R == {brequests[i] : i \in Live(brequests)} \cup Registration
<1>1. R \in SUBSET Allocated
  BY DEF HandleInv, Owned
<1>2. /\ RunLoopWatchesHandles' /\ Allocated' = Allocated \ R
      /\ \A q \in Ref : sockfd'[q] = Closed => told'[q] = {}
  BY <1>1, ReleaseWatches DEF Destroy
<1>3. /\ Live(brequests') = {} /\ Registration' = {}
      /\ UNCHANGED <<rrequests, announcing, reporting>>
      /\ state' = "Created"
  BY DEF Destroy, Live, Registration
<1>4. Owned' = Owned \ R /\ OwnersAreDistinct'
  BY <1>3 DEF HandleInv, Owned, OwnersAreDistinct
<1> QED
  BY <1>2, <1>3, <1>4 DEF HandleInv, NothingLeaks

LEMMA ResolvedReturnsHandles ==
    ASSUME HandleInv, TypeOK', ResolvedReturns
    PROVE  HandleInv'
<1> DEFINE r == rrequests[reporting]
<1>1. reporting \in Live(rrequests) /\ Release({r})
  BY DEF ResolvedReturns, HandleInv, TypeOK, Live
<1>2. {r} \in SUBSET Allocated
  BY <1>1 DEF HandleInv, Owned
<1>3. /\ RunLoopWatchesHandles' /\ Allocated' = Allocated \ {r}
      /\ \A q \in Ref : sockfd'[q] = Closed => told'[q] = {}
  BY <1>1, <1>2, ReleaseWatches
<1>4. /\ Live(rrequests') = Live(rrequests) \ {reporting}
      /\ \A i \in Live(rrequests') : rrequests'[i] = rrequests[i]
  BY DEF ResolvedReturns, Live, HandleInv, TypeOK
<1>5. /\ UNCHANGED <<brequests, Registration, state, announcing>>
      /\ reporting' = 0
  BY DEF ResolvedReturns, reg, Registration
<1>6. Owned' = Owned \ {r} /\ OwnersAreDistinct'
  BY <1>1, <1>4, <1>5 DEF HandleInv, Owned, OwnersAreDistinct
<1> QED
  BY <1>3, <1>5, <1>6 DEF HandleInv, NothingLeaks

LEMMA UserCallHandles ==
    ASSUME HandleInv, TypeOK', UserCall
    PROVE  HandleInv'
<1>1. CASE AnnounceValid
  BY <1>1, RegisterHandles DEF AnnounceValid, HandleInv, TypeOK
<1>2. CASE AnnounceInvalid
  <2>1. /\ UNCHANGED <<Allocated, Owned, OwnersAreDistinct,
                       RunLoopWatchesHandles>>
        /\ state' = "Created"
        /\ UNCHANGED <<sockfd, told, reporting, rrequests>>
    BY <1>2 DEF AnnounceInvalid, RunLoopWatchesHandles, Allocated, Owned,
       OwnersAreDistinct, Live, Registration, lib, reqs, loop
  <2> QED
    BY <2>1 DEF HandleInv, NothingLeaks
<1>3. CASE ResumeAnnounce
  BY <1>3, RegisterHandles DEF ResumeAnnounce, HandleInv, NothingLeaks
<1>4. CASE ResumeAnnounceRefused
  <2>1. /\ UNCHANGED <<Allocated, Owned, OwnersAreDistinct,
                       RunLoopWatchesHandles>>
        /\ announcing' = FALSE
        /\ UNCHANGED <<sockfd, told, reporting, rrequests>>
    BY <1>4 DEF ResumeAnnounceRefused, RunLoopWatchesHandles, Allocated, Owned,
       OwnersAreDistinct, Live, Registration, lib, reqs, loop
  <2> QED
    BY <2>1 DEF HandleInv, NothingLeaks
<1>5. ASSUME NEW b \in BOOLEAN, Run(b) PROVE HandleInv'
  BY <1>5, HandlesUnchanged DEF Run, handleVars, lib, reg, reqs, HandleInv
<1> QED
  BY <1>1, <1>2, <1>3, <1>4, <1>5, BrowseHandles, CancelHandles,
     ResolveHandles, DestroyHandles
  DEF UserCall

LEMMA RunLoopHandles ==
    ASSUME HandleInv, TypeOK', RunLoop PROVE HandleInv'
<1>1. UNCHANGED handleVars /\ UNCHANGED <<told, reporting>>
  BY DEF RunLoop, SelectReady, SelectTimeout, SelectError, Visit, LoopEnds,
         LoopUndefined, ProcessError, ProcessReturns, handleVars, lib, reg,
         reqs
<1> QED
  BY <1>1, HandlesUnchanged DEF HandleInv, handleVars

(* What a reply tells is told to a handle that is open.                    *)
LEMMA ReplyHandles ==
    ASSUME HandleInv, TypeOK', Reply PROVE HandleInv'
<1>1. cur \in Ref /\ UNCHANGED <<sockfd, rrequests, fdServiceRefMap>>
  BY DEF Reply, BrowseAdd, BrowseRemove, ResolveReply, RegisterReply,
         ReplyError, ReplyArrives, HandleInv, TypeOK
<1>2. ASSUME NEW id \in Id, brequests[id] = cur,
             NEW services, told' = [told EXCEPT ![cur] = services],
             UNCHANGED <<reg, brequests, reporting>>
      PROVE  HandleInv'
  <2>1. sockfd[cur] # Closed
    BY <1>1, <1>2, HandleAssumption DEF HandleInv, Owned, Live, Allocated
  <2>2. \A r \in Ref : sockfd[r] = Closed => told'[r] = {}
    BY <1>2, <2>1 DEF HandleInv, TypeOK
  <2> QED
    BY <1>1, <1>2, <2>2, HandlesUnchanged DEF HandleInv, handleVars, reg
<1>3. ASSUME NEW id \in Id, NEW service \in Service, BrowseAdd(id, service)
      PROVE  HandleInv'
  BY <1>2, <1>3 DEF BrowseAdd, CallUser
<1>4. ASSUME NEW id \in Id, NEW service \in Service, BrowseRemove(id, service)
      PROVE  HandleInv'
  BY <1>2, <1>4 DEF BrowseRemove, CallUser
<1>5. ASSUME NEW id \in Id, ResolveReply(id) PROVE HandleInv'
  <2>1. UNCHANGED handleVars /\ UNCHANGED told /\ reporting' = id
    BY <1>5 DEF ResolveReply, ReplyArrives, handleVars, reg
  <2>2. rrequests[id] # NoRef
    BY <1>1, <1>5, HandleAssumption DEF ResolveReply
  <2> QED
    BY <2>1, <2>2, HandlesUnchanged DEF HandleInv
<1>6. CASE RegisterReply
  <2>1. /\ UNCHANGED <<brequests, announcing, told, reporting, Registration>>
        /\ state # "Created"
    BY <1>6 DEF RegisterReply, CallUser, Registration
  <2>2. UNCHANGED <<Allocated, Owned, OwnersAreDistinct, RunLoopWatchesHandles>>
    BY <1>1, <2>1 DEF RunLoopWatchesHandles, Allocated, Owned,
       OwnersAreDistinct, Live
  <2> QED
    BY <1>1, <2>1, <2>2 DEF HandleInv, NothingLeaks
<1>7. CASE ReplyError
  BY <1>7, HandlesUnchanged DEF ReplyError, ReplyArrives, CallUser,
                                handleVars, reg, HandleInv
<1> QED
  BY <1>3, <1>4, <1>5, <1>6, <1>7 DEF Reply

LEMMA CallbackHandles ==
    ASSUME HandleInv, TypeOK', Callback PROVE HandleInv'
<1>1. CASE CallbackReturns
  BY <1>1, HandlesUnchanged
  DEF CallbackReturns, handleVars, lib, reg, reqs, HandleInv
<1>2. CASE CallbackThrows
  BY <1>2, HandlesUnchanged
  DEF CallbackThrows, handleVars, lib, reg, reqs, HandleInv
<1> QED
  BY <1>1, <1>2, ResolvedReturnsHandles DEF Callback

LEMMA InitHandles == Init => HandleInv
<1> SUFFICES ASSUME Init PROVE HandleInv
  OBVIOUS
<1>1. Allocated = {} /\ Owned = {} /\ OwnersAreDistinct
  BY DEF Init, Allocated, Owned, OwnersAreDistinct, Live, Registration
<1>2. RunLoopWatchesHandles
  BY <1>1 DEF Init, RunLoopWatchesHandles
<1> QED
  BY <1>1, <1>2, InitType DEF Init, HandleInv, NothingLeaks

LEMMA NextHandles == HandleInv /\ [Next]_vars => HandleInv'
<1> SUFFICES ASSUME HandleInv, [Next]_vars PROVE HandleInv'
  OBVIOUS
<1>1. TypeOK'
  BY NextType DEF HandleInv
<1>2. ASSUME NEW r \in Ref, DaemonReplies(r) PROVE HandleInv'
  BY <1>1, <1>2, HandlesUnchanged
  DEF DaemonReplies, handleVars, reg, reqs, loop, HandleInv
<1>3. CASE UNCHANGED vars
  BY <1>1, <1>3, HandlesUnchanged
  DEF vars, handleVars, lib, reg, reqs, loop, HandleInv
<1> QED
  BY <1>1, <1>2, <1>3, UserCallHandles, RunLoopHandles, ReplyHandles,
     CallbackHandles
  DEF Next, Stopped

(* Whatever callbacks cancel and whatever fails, the open handles are the  *)
(* live requests' and the registration's, one owner each.                  *)
THEOREM HandlesAlwaysMatchRequests ==
    ASSUME "reannounce" \notin Reentrant
    PROVE  Spec => []HandlesMatchRequests
<1>1. HandleInv => HandlesMatchRequests
  BY DEF HandleInv, NothingLeaks, HandlesMatchRequests
<1> QED
  BY <1>1, InitHandles, NextHandles, PTL DEF Spec

(* A callback that announces again can only leak: even then no request and *)
(* no registration shares its handle or keeps one that was deallocated.    *)
THEOREM OwnersAlwaysHoldTheirHandles ==
    Spec => [](OwnersAreDistinct /\ Owned \subseteq Allocated)
<1>1. HandleInv => OwnersAreDistinct /\ Owned \subseteq Allocated
  BY DEF HandleInv
<1> QED
  BY <1>1, InitHandles, NextHandles, PTL DEF Spec

(* And fdServiceRefMap_ watches exactly the handles that are open.         *)
THEOREM RunLoopAlwaysWatchesHandles == Spec => []RunLoopWatchesHandles
<1>1. HandleInv => RunLoopWatchesHandles
  BY DEF HandleInv
<1> QED
  BY <1>1, InitHandles, NextHandles, PTL DEF Spec

-----------------------------------------------------------------------------
(* The loop over fdServiceRefMap_.  When callbacks cancel only their own   *)
(* request, the one handle that can go away during a pass is the one being *)
(* processed, and its descriptor lies behind the iterator; so the iterator *)
(* and every descriptor still to be visited keep their entries, and the    *)
(* replies that select() saw on them stay unread until they are visited.   *)
InLoop == {"loop", "process", "callback", "return"}

Behind(r) == r \in Allocated /\ (nextIt = End \/ sockfd[r] < nextIt)

LoopInv ==
    /\ pc # "undefined"
    /\ nextIt # Dangling
    /\ pc \notin InLoop => nextIt = End
    /\ nextIt # End => fdServiceRefMap[nextIt] # NoRef
    /\ nextIt # End => \A f \in ready : f >= nextIt =>
         fdServiceRefMap[f] # NoRef /\ fdServiceRefMap[f] \in readable
    /\ readable \subseteq Allocated
    /\ pc = "process" => cur \in readable
    /\ cur # NoRef => pc \in InLoop \ {"loop"} /\ Behind(cur)
    /\ reporting # 0 => pc = "callback" /\ cur = rrequests[reporting]

(* Opening a handle in user code: it was not open, so it is neither the    *)
(* one being processed nor one still to be visited.                        *)
LEMMA OpenLoop ==
    ASSUME HandleInv, LoopInv, HandleInv', NEW r \in Ref, NEW f \in Fd,
           Open(r, f), UNCHANGED loop,
           reporting # 0 => rrequests'[reporting] = rrequests[reporting]
    PROVE  LoopInv'
<1> USE DEF loop
<1>1. Allocated' = Allocated \cup {r} /\ r \notin Allocated
  BY OpenWatches DEF HandleInv
<1>2. TypeOK /\ r # NoRef
  BY HandleAssumption DEF HandleInv
<1>3. nextIt # End => nextIt \in Fd /\ fdServiceRefMap'[nextIt] # NoRef
  BY <1>2 DEF Open, TypeOK, LoopInv
<1>4. ASSUME nextIt # End, NEW g \in ready, g >= nextIt
      PROVE  fdServiceRefMap'[g] # NoRef /\ fdServiceRefMap'[g] \in readable'
  <2>1. /\ g \in Fd /\ fdServiceRefMap[g] \in readable
        /\ fdServiceRefMap[g] # NoRef
    BY <1>2, <1>4 DEF LoopInv, TypeOK
  <2>2. sockfd[fdServiceRefMap[g]] = g /\ fdServiceRefMap[g] \in Ref
    BY <1>2, <2>1 DEF HandleInv, RunLoopWatchesHandles, TypeOK
  <2>3. g # f
    BY <2>2 DEF Open
  <2> QED
    BY <1>2, <2>1, <2>3 DEF Open, TypeOK
<1>5. cur # NoRef => Behind(cur)'
  BY <1>1, <1>2 DEF LoopInv, Behind, Open, TypeOK, Allocated
<1>6. readable' \subseteq Allocated'
  BY <1>1 DEF Open, LoopInv
<1>7. pc = "process" => cur \in readable'
  BY DEF Open, LoopInv
<1> QED
  BY <1>3, <1>4, <1>5, <1>6, <1>7 DEF LoopInv

(* Releasing the handle that is being processed, in its callback.          *)
LEMMA ReleaseCurrent ==
    ASSUME HandleInv, LoopInv, cur # NoRef, Release({cur})
    PROVE  /\ nextIt' = nextIt
           /\ cur' = NoRef
           /\ readable' \subseteq Allocated'
           /\ nextIt # End => fdServiceRefMap'[nextIt] # NoRef
           /\ nextIt # End => \A f \in ready : f >= nextIt =>
                fdServiceRefMap'[f] # NoRef /\ fdServiceRefMap'[f] \in readable'
<1>1. /\ TypeOK /\ cur \in Ref /\ cur \in Allocated
      /\ sockfd[cur] \in Fd /\ sockfd[cur] \in Nat
      /\ nextIt # End => sockfd[cur] < nextIt
      /\ nextIt # End => nextIt \in Fd /\ nextIt \in Nat
  <2>1. TypeOK /\ cur \in Ref /\ Behind(cur) /\ nextIt # Dangling
    BY DEF HandleInv, LoopInv, TypeOK
  <2>2. cur \in Allocated /\ (nextIt # End => sockfd[cur] < nextIt)
    BY <2>1 DEF Behind
  <2>3. sockfd[cur] \in Fd
    BY <2>1, <2>2 DEF Allocated, TypeOK
  <2>4. nextIt # End => nextIt \in Fd
    BY <2>1 DEF TypeOK
  <2> QED
    BY <2>1, <2>2, <2>3, <2>4, FdAssumption
<1>2. nextIt' = nextIt /\ cur' = NoRef
  BY <1>1 DEF Release, Unwatch, Deallocate, End
<1>3. readable' \subseteq Allocated'
  <2>1. Allocated' = Allocated \ {cur}
    BY <1>1, ReleaseWatches DEF HandleInv
  <2> QED
    BY <2>1 DEF Release, Deallocate, LoopInv
<1>4. ASSUME nextIt # End, NEW f \in Fd, f >= nextIt
      PROVE  f # sockfd[cur] /\ fdServiceRefMap'[f] = fdServiceRefMap[f]
  <2>1. f \in Nat /\ sockfd[cur] # f
    BY <1>1, <1>4, FdAssumption
  <2> QED
    BY <1>4, <2>1 DEF Release, Unwatch
<1>5. nextIt # End => fdServiceRefMap'[nextIt] # NoRef
  BY <1>1, <1>4 DEF LoopInv
<1>6. ASSUME nextIt # End, NEW f \in ready, f >= nextIt
      PROVE  fdServiceRefMap'[f] # NoRef /\ fdServiceRefMap'[f] \in readable'
  <2>1. /\ f \in Fd /\ fdServiceRefMap[f] # NoRef
        /\ fdServiceRefMap[f] \in readable
    BY <1>1, <1>6 DEF LoopInv, TypeOK
  <2>2. sockfd[fdServiceRefMap[f]] = f
    BY <2>1 DEF HandleInv, RunLoopWatchesHandles
  <2>3. fdServiceRefMap[f] # cur /\ fdServiceRefMap'[f] = fdServiceRefMap[f]
    BY <1>4, <1>6, <2>1, <2>2
  <2> QED
    BY <2>1, <2>3 DEF Release, Deallocate
<1> QED
  BY <1>2, <1>3, <1>5, <1>6

(* Releasing handles between two runs.                                     *)
LEMMA ReleaseOutside ==
    ASSUME HandleInv, LoopInv, pc = "user", NEW R \in SUBSET Allocated,
           Release(R)
    PROVE  nextIt' = End /\ cur' = NoRef /\ readable' \subseteq Allocated'
<1>1. TypeOK /\ nextIt = End /\ cur = NoRef
  BY DEF HandleInv, LoopInv, InLoop
<1>2. nextIt' = End
  BY <1>1 DEF Release, Unwatch, End, Closed
<1>3. cur' = NoRef
  BY <1>1 DEF Release, Deallocate
<1>4. Allocated' = Allocated \ R
  BY ReleaseWatches DEF HandleInv
<1> QED
  BY <1>2, <1>3, <1>4 DEF Release, Deallocate, LoopInv

LEMMA UserCallLoop ==
    ASSUME "cancelOther" \notin Reentrant, HandleInv, HandleInv', LoopInv,
           UserCall
    PROVE  LoopInv'
<1>1. CASE AnnounceValid
  BY <1>1, OpenLoop DEF AnnounceValid, Register, reqs, loop
<1>2. CASE AnnounceInvalid
  BY <1>2 DEF AnnounceInvalid, LoopInv, Behind, Allocated, lib, reqs, loop
<1>3. CASE ResumeAnnounce
  BY <1>3, OpenLoop DEF ResumeAnnounce, Register, reqs, loop
<1>4. CASE ResumeAnnounceRefused
  BY <1>4 DEF ResumeAnnounceRefused, LoopInv, Behind, Allocated, lib, reqs,
              loop
<1>5. CASE Browse
  BY <1>5, OpenLoop DEF Browse, loop
<1>6. ASSUME NEW id \in Id, Cancel(id) PROVE LoopInv'
  <2>1. /\ {brequests[id]} \in SUBSET Allocated
        /\ Release({brequests[id]})
        /\ brequests[id] # NoRef
        /\ UNCHANGED <<pc, ready, reporting, rrequests>>
        /\ pc \in {"user", "callback"}
    BY <1>6 DEF Cancel, HandleInv, Owned, Live,
                InUserCode
  <2>2. CASE pc = "user"
    <3>1. nextIt' = End /\ cur' = NoRef /\ readable' \subseteq Allocated'
      BY <2>1, <2>2, ReleaseOutside
    <3>2. reporting' = 0
      BY <2>1, <2>2 DEF LoopInv
    <3> QED
      BY <2>1, <2>2, <3>1, <3>2 DEF LoopInv, InLoop, End, Dangling
  <2>3. CASE pc = "callback"
    <3>1. brequests[id] = cur /\ cur # NoRef
      BY <1>6, <2>1, <2>3 DEF Cancel, MayCancel
    <3>2. reporting = 0
      BY <2>1, <3>1 DEF LoopInv, HandleInv,
                        OwnersAreDistinct, Live, TypeOK
    <3> QED
      BY <2>1, <2>3, <3>1, <3>2, ReleaseCurrent DEF LoopInv, InLoop
  <2> QED
    BY <2>1, <2>2, <2>3
<1>7. ASSUME NEW sd \in Sd, Resolve(sd) PROVE LoopInv'
  <2>1. PICK r \in Ref, f \in Fd, id \in Id :
           /\ Open(r, f)
           /\ IsNextId(rrequests, id)
           /\ rrequests' = [rrequests EXCEPT ![id] = r]
    BY <1>7 DEF Resolve
  <2>2. id \notin Live(rrequests)
    BY <2>1 DEF IsNextId, Id
  <2>3. reporting # 0 => rrequests'[reporting] = rrequests[reporting]
    BY <2>1, <2>2 DEF HandleInv, TypeOK, Live
  <2> QED
    BY <1>7, <2>1, <2>3, OpenLoop DEF Resolve
<1>8. CASE Destroy
  <2> DEFINE R == {brequests[i] : i \in Live(brequests)} \cup Registration
  <2>1. R \in SUBSET Allocated
    BY DEF HandleInv, Owned
  <2>2. nextIt' = End /\ cur' = NoRef /\ readable' \subseteq Allocated'
    BY <1>8, <2>1, ReleaseOutside DEF Destroy
  <2> QED
    BY <1>8, <2>2 DEF Destroy, LoopInv, InLoop, End, Dangling
<1>9. ASSUME NEW b \in BOOLEAN, Run(b) PROVE LoopInv'
  BY <1>9 DEF Run, LoopInv, Behind, Allocated, InLoop, lib, reg, reqs
<1> QED
  BY <1>1, <1>2, <1>3, <1>4, <1>5, <1>6, <1>7, <1>8, <1>9 DEF UserCall

LEMMA LeaveRunLoop ==
    ASSUME LoopInv, LeaveRun, UNCHANGED <<sockfd, readable>>,
           reporting' = 0
    PROVE  LoopInv'
BY DEF LoopInv, LeaveRun, InLoop, Allocated, End, Dangling

LEMMA RunLoopLoop ==
    ASSUME HandleInv, LoopInv, RunLoop
    PROVE  LoopInv'
<1> USE DEF lib, reg, reqs
<1>1. CASE SelectReady
  <2>1. PICK n \in Fd : Follows(-1, n) /\ nextIt' = n
    BY <1>1 DEF SelectReady
  <2>2. fdServiceRefMap[n] # NoRef /\ n # Dangling
    BY <2>1, FdAssumption DEF Follows, End, Dangling
  <2>3. cur = NoRef /\ reporting = 0
    BY <1>1 DEF SelectReady, LoopInv, InLoop
  <2> QED
    BY <1>1, <2>1, <2>2, <2>3 DEF SelectReady, ReadableFds, LoopInv, InLoop,
                                  Allocated
<1>2. CASE SelectTimeout
  BY <1>2, LeaveRunLoop DEF SelectTimeout, LoopInv
<1>3. CASE SelectError
  BY <1>3, LeaveRunLoop DEF SelectError, LoopInv
<1>4. CASE Visit
  <2>1. PICK n \in Fd \cup {End} : Follows(nextIt, n) /\ nextIt' = n
    BY <1>4 DEF Visit
  <2>2. /\ nextIt \in Fd /\ nextIt # End /\ nextIt \in Nat
        /\ n # Dangling /\ n \in Int
        /\ n # End => n > nextIt /\ n \in Fd /\ fdServiceRefMap[n] # NoRef
    BY <1>4, <2>1, FdAssumption DEF Visit, Follows, End, Dangling
  <2>3. n # End => \A f \in ready : f >= n =>
          fdServiceRefMap[f] # NoRef /\ fdServiceRefMap[f] \in readable
    BY <2>2, FdAssumption DEF LoopInv, HandleInv, TypeOK
  <2>4. reporting = 0 /\ cur = NoRef
    BY <1>4 DEF Visit, LoopInv
  <2>5. CASE nextIt \in ready
    <3> DEFINE r == fdServiceRefMap[nextIt]
    <3>1. r \in readable /\ r # NoRef /\ r \in Allocated
      BY <2>2, <2>5 DEF LoopInv
    <3>2. sockfd[r] = nextIt
      BY <2>2, <3>1 DEF HandleInv, RunLoopWatchesHandles
    <3>3. cur' = r /\ Behind(cur)'
      BY <1>4, <2>1, <2>2, <2>5, <3>1, <3>2 DEF Visit, Behind, Allocated
    <3> QED
      BY <1>4, <2>1, <2>2, <2>3, <2>4, <2>5, <3>1, <3>3
      DEF Visit, LoopInv, InLoop, Allocated
  <2>6. CASE nextIt \notin ready
    BY <1>4, <2>1, <2>2, <2>3, <2>4, <2>6 DEF Visit, LoopInv, InLoop, Allocated
  <2> QED
    BY <2>5, <2>6
<1>5. CASE LoopEnds
  <2>1. reporting = 0 /\ cur = NoRef
    BY <1>5 DEF LoopEnds, LoopInv
  <2>2. CASE forever
    BY <1>5, <2>1, <2>2 DEF LoopEnds, LoopInv, InLoop, Allocated
  <2>3. CASE ~forever
    BY <1>5, <2>1, <2>3, LeaveRunLoop DEF LoopEnds
  <2> QED
    BY <2>2, <2>3
<1>6. CASE LoopUndefined
  BY <1>6 DEF LoopUndefined, LoopInv
<1>7. CASE ProcessError
  BY <1>7, LeaveRunLoop DEF ProcessError, LoopInv
<1>8. CASE ProcessReturns
  BY <1>8 DEF ProcessReturns, LoopInv, InLoop, Allocated
<1> QED
  BY <1>1, <1>2, <1>3, <1>4, <1>5, <1>6, <1>7, <1>8 DEF RunLoop

(* A reply consumes what the current socket held; sockets still to be      *)
(* visited are others.                                                     *)
LEMMA ReplyArrivesLoop ==
    ASSUME HandleInv, LoopInv, ReplyArrives,
           pc' \in {"callback", "return"},
           \/ reporting' = reporting
           \/ pc' = "callback" /\ cur = rrequests[reporting']
    PROVE  LoopInv'
<1>1. UNCHANGED <<sockfd, fdServiceRefMap, ready, nextIt, cur, rrequests>>
      /\ readable' = readable \ {cur}
  BY DEF ReplyArrives
<1>2. cur # NoRef /\ cur \in Ref /\ Behind(cur) /\ reporting = 0
      /\ sockfd[cur] \in Fd
  BY HandleAssumption DEF ReplyArrives, LoopInv, HandleInv, TypeOK, Behind,
                          Allocated
<1>3. ASSUME nextIt # End, NEW f \in ready, f >= nextIt
      PROVE  fdServiceRefMap[f] # NoRef /\ fdServiceRefMap[f] \in readable'
  <2>1. /\ f \in Fd /\ fdServiceRefMap[f] # NoRef
        /\ fdServiceRefMap[f] \in readable
        /\ sockfd[fdServiceRefMap[f]] = f
    BY <1>3 DEF LoopInv, HandleInv, TypeOK, RunLoopWatchesHandles
  <2>2. sockfd[cur] # f
    BY <1>2, <1>3, <2>1, FdAssumption DEF Behind, HandleInv, TypeOK, Dangling,
                                          LoopInv
  <2> QED
    BY <1>1, <2>1, <2>2
<1>4. Behind(cur)'
  BY <1>1, <1>2 DEF Behind, Allocated
<1>5. readable' \subseteq Allocated'
  BY <1>1 DEF LoopInv, Allocated
<1> QED
  BY <1>1, <1>2, <1>3, <1>4, <1>5 DEF LoopInv, InLoop

LEMMA ReplyLoop ==
    ASSUME HandleInv, LoopInv, Reply
    PROVE  LoopInv'
<1>1. ASSUME NEW id \in Id, NEW service \in Service, BrowseAdd(id, service)
      PROVE  LoopInv'
  BY <1>1, ReplyArrivesLoop DEF BrowseAdd, CallUser
<1>2. ASSUME NEW id \in Id, NEW service \in Service, BrowseRemove(id, service)
      PROVE  LoopInv'
  BY <1>2, ReplyArrivesLoop DEF BrowseRemove, CallUser
<1>3. ASSUME NEW id \in Id, ResolveReply(id) PROVE LoopInv'
  BY <1>3, ReplyArrivesLoop DEF ResolveReply
<1>4. CASE RegisterReply
  BY <1>4, ReplyArrivesLoop DEF RegisterReply, CallUser
<1>5. CASE ReplyError
  BY <1>5, ReplyArrivesLoop DEF ReplyError, CallUser
<1> QED
  BY <1>1, <1>2, <1>3, <1>4, <1>5 DEF Reply

LEMMA CallbackLoop ==
    ASSUME HandleInv, LoopInv, Callback
    PROVE  LoopInv'
<1>1. CASE ResolvedReturns
  <2>1. cur # NoRef /\ Release({cur})
    BY <1>1 DEF ResolvedReturns, LoopInv, HandleInv
  <2> QED
    BY <1>1, <2>1, ReleaseCurrent DEF ResolvedReturns, LoopInv, InLoop
<1>2. CASE CallbackReturns
  BY <1>2 DEF CallbackReturns, LoopInv, InLoop, Behind, Allocated, lib, reqs
<1>3. CASE CallbackThrows
  BY <1>3, LeaveRunLoop DEF CallbackThrows, lib
<1> QED
  BY <1>1, <1>2, <1>3 DEF Callback

LEMMA InitLoop == Init => LoopInv
BY DEF Init, LoopInv, InLoop, End, Dangling

LEMMA NextLoop ==
    ASSUME "cancelOther" \notin Reentrant, HandleInv, LoopInv, [Next]_vars
    PROVE  HandleInv' /\ LoopInv'
<1>1. HandleInv'
  BY NextHandles
<1>2. ASSUME NEW r \in Ref, DaemonReplies(r) PROVE LoopInv'
  <2>1. /\ UNCHANGED <<rrequests, fdServiceRefMap, loop, Allocated>>
        /\ readable' = readable \cup {r} /\ r \in Allocated
    BY <1>2 DEF DaemonReplies, Allocated, reqs
  <2>2. UNCHANGED sockfd
    BY <1>2 DEF DaemonReplies
  <2> QED
    BY <2>1, <2>2 DEF LoopInv, Behind, loop
<1>3. CASE UNCHANGED vars
  BY <1>1, <1>3 DEF LoopInv, Behind, Allocated, vars, lib, reg, reqs, loop
<1> QED
  BY <1>1, <1>2, <1>3, UserCallLoop, RunLoopLoop, ReplyLoop, CallbackLoop
  DEF Next, Stopped

(* If callbacks cancel only their own request, run() never uses an         *)
(* iterator to an erased element.                                          *)
THEOREM IteratorAlwaysValid ==
    ASSUME "cancelOther" \notin Reentrant
    PROVE  Spec => []IteratorIsValid
<1>1. HandleInv /\ LoopInv /\ [Next]_vars => (HandleInv /\ LoopInv)'
  BY NextLoop
<1>2. LoopInv => IteratorIsValid
  BY DEF LoopInv, IteratorIsValid
<1> QED
  BY <1>1, <1>2, InitHandles, InitLoop, PTL DEF Spec

(* And it never waits in DNSServiceProcessResult for a reply that is not   *)
(* there.                                                                  *)
THEOREM RunNeverBlocks ==
    ASSUME "cancelOther" \notin Reentrant
    PROVE  Spec => []NeverBlocks
<1>1. HandleInv /\ LoopInv /\ [Next]_vars => (HandleInv /\ LoopInv)'
  BY NextLoop
<1>2. LoopInv => NeverBlocks
  BY DEF LoopInv, NeverBlocks
<1> QED
  BY <1>1, <1>2, InitHandles, InitLoop, PTL DEF Spec

-----------------------------------------------------------------------------
(* Request ids.  Only Browse and Resolve give an id a handle, and the id   *)
(* is above those of the live requests.                                    *)
KeepHandles ==
    \A i \in Id :
      /\ brequests[i] # NoRef => brequests'[i] \in {brequests[i], NoRef}
      /\ rrequests[i] # NoRef => rrequests'[i] \in {rrequests[i], NoRef}

LEMMA NextKeepsHandles == TypeOK /\ [Next]_vars => KeepHandles
<1> SUFFICES ASSUME TypeOK, [Next]_vars PROVE KeepHandles
  OBVIOUS
<1>1. CASE Browse
  <2>1. PICK r \in Ref, id \in Id :
           /\ IsNextId(brequests, id)
           /\ brequests' = [brequests EXCEPT ![id] = r]
    BY <1>1 DEF Browse
  <2>2. id \notin Live(brequests) /\ UNCHANGED rrequests
    BY <1>1, <2>1 DEF IsNextId, Id, Browse
  <2> QED
    BY <2>1, <2>2 DEF KeepHandles, Live, TypeOK
<1>2. ASSUME NEW sd \in Sd, Resolve(sd) PROVE KeepHandles
  <2>1. PICK r \in Ref, id \in Id :
           /\ IsNextId(rrequests, id)
           /\ rrequests' = [rrequests EXCEPT ![id] = r]
    BY <1>2 DEF Resolve
  <2>2. id \notin Live(rrequests) /\ UNCHANGED brequests
    BY <1>2, <2>1 DEF IsNextId, Id, Resolve
  <2> QED
    BY <2>1, <2>2 DEF KeepHandles, Live, TypeOK
<1>3. ASSUME NEW id \in Id, Cancel(id) PROVE KeepHandles
  BY <1>3 DEF Cancel, KeepHandles, TypeOK
<1>4. CASE Destroy
  BY <1>4 DEF Destroy, KeepHandles
<1>5. CASE ResolvedReturns
  BY <1>5 DEF ResolvedReturns, KeepHandles, TypeOK
<1>6. CASE UNCHANGED <<brequests, rrequests>>
  BY <1>6 DEF KeepHandles
<1>7. CASE AnnounceValid \/ ResumeAnnounce
  BY <1>6, <1>7 DEF AnnounceValid, ResumeAnnounce, Register, reqs
<1>8. CASE AnnounceInvalid \/ ResumeAnnounceRefused \/ CallbackReturns
           \/ CallbackThrows \/ \E b \in BOOLEAN : Run(b)
  BY <1>6, <1>8 DEF AnnounceInvalid, ResumeAnnounceRefused, CallbackReturns,
     CallbackThrows, Run, reqs
<1>9. CASE RunLoop
  BY <1>6, <1>9 DEF RunLoop, SelectReady, SelectTimeout, SelectError, Visit,
     LoopEnds, LoopUndefined, ProcessError, ProcessReturns, reqs
<1>10. CASE Reply
  BY <1>6, <1>10 DEF Reply, BrowseAdd, BrowseRemove, ResolveReply,
     RegisterReply, ReplyError, ReplyArrives
<1>11. CASE Stopped \/ UNCHANGED vars \/ \E r \in Ref : DaemonReplies(r)
  BY <1>6, <1>11 DEF Stopped, vars, DaemonReplies, reqs
<1> QED
  BY <1>1, <1>2, <1>3, <1>4, <1>5, <1>7, <1>8, <1>9, <1>10, <1>11
  DEF Next, UserCall, Callback

(* The id of a live request is never given to another one.                 *)
THEOREM LiveRequestsAlwaysKeepTheirHandles ==
    Spec => LiveRequestsKeepTheirHandles
<1>1. TypeOK /\ [Next]_vars => [KeepHandles]_vars
  BY NextKeepsHandles
<1> QED
  BY <1>1, TypeCorrect, PTL DEF Spec, LiveRequestsKeepTheirHandles, KeepHandles

=============================================================================
