------------------------------- MODULE NdnSd -------------------------------
(***************************************************************************)
(* One NdnSd object of src/src/ndn-sd/ndn-sd.cpp: the requests it has      *)
(* opened with the DNS-SD client library, the map from their sockets to    *)
(* their references, the services its browse requests have discovered, its *)
(* own registration, and run(), the select loop that lets the library call *)
(* the reply callbacks, out of which user code calls back into the object. *)
(*                                                                         *)
(* The object is used from one thread.  What interleaves is the daemon,    *)
(* which may have a reply ready on any socket at any moment, and the user, *)
(* whose calls come between two run()s or from inside a callback of one.   *)
(*                                                                         *)
(* Calls the library refuses, or that name an unknown request or service,  *)
(* run an error callback with nothing left to do after it and change no    *)
(* variable: they are stuttering steps.                                    *)
(***************************************************************************)
EXTENDS Integers, Sequences, FiniteSets, SequencesExt

CONSTANTS
    Ref,        \* DNSServiceRef handles (recycled after a deallocation)
    NoRef,      \* no handle
    Fd,         \* socket descriptors of the library, 0 and up
    Name,       \* service instance names (uuids)
    Uuid,       \* uuid_ of this object
    Iface,      \* network interfaces
    MaxId,      \* bound on request ids
    MaxCopy,    \* bound on live NdnSd objects of one name and interface
    Reentrant,  \* what callbacks do beyond cancelling their own request
    Faults      \* which failures occur while the loop runs

ASSUME HandleAssumption == NoRef \notin Ref
ASSUME FdAssumption == Fd \subseteq Nat
ASSUME UuidAssumption == Uuid \in Name
ASSUME BoundAssumption == MaxId \in Nat \ {0} /\ MaxCopy \in Nat \ {0}
ASSUME ReentrantAssumption == Reentrant \subseteq {"cancelOther", "reannounce"}
ASSUME FaultAssumption ==
    Faults \subseteq {"throw", "processError", "selectError"}

VARIABLES
    \* The DNS-SD library and the daemon behind it.
    sockfd,           \* DNSServiceRefSockFD of a live handle, or Closed
    readable,         \* handles with a reply waiting in their socket
    told,             \* what a browse operation last reported as present
    \* The registration of this object.
    state,            \* state_
    paramsOk,         \* parameters_ hold a prefix and a port
    advertisedRef,    \* advertisedRef_
    announcing,       \* an announce() is inside its bad-parameter callback
    \* The requests.
    brequests,        \* browse request id -> its serviceRef_, or NoRef
    discovered,       \* browse request id -> its discovered_
    rrequests,        \* resolve request id -> its serviceRef_, or NoRef
    resolving,        \* resolve request id -> its sd_, or NoSd
    resolved,         \* discovered objects in state Resolved
    \* run().
    fdServiceRefMap,  \* fdServiceRefMap_: descriptor -> handle, or NoRef
    pc,               \* where the thread is
    forever,          \* run() was called without a timeout
    ready,            \* the descriptors select() left in readfds
    nextIt,           \* the loop's iterator nextIt
    cur,              \* the handle being processed (NoRef once it is freed)
    reporting         \* resolve request whose callback is running, or 0

lib  == <<sockfd, readable, told>>
reg  == <<state, paramsOk, advertisedRef, announcing>>
reqs == <<brequests, discovered, rrequests, resolving, resolved>>
loop == <<pc, forever, ready, nextIt, cur, reporting>>
vars == <<lib, reg, reqs, fdServiceRefMap, loop>>

Id == 1 .. MaxId
Closed == -1                \* the descriptor of a handle that is not live
End == -1                   \* the end() iterator of fdServiceRefMap_
Dangling == -2              \* an iterator whose element was erased
Service == Name \X Iface    \* what the daemon reports on
(* A discovered NdnSd object: the service it was made for and which of     *)
(* the objects made for that service it is.                                *)
Sd == [name : Name, iface : Iface, copy : 1 .. MaxCopy]
NoSd == [name |-> Uuid]

Live(requests) == {i \in Id : requests[i] # NoRef}
Registration ==
    IF state \in {"Registering", "Registered"} THEN {advertisedRef} ELSE {}

-----------------------------------------------------------------------------
(* Handles and the descriptor map.                                         *)

(* The library opens handle r on a free descriptor, and addRefToRunLoop    *)
(* enters it in the map.                                                   *)
Open(r, f) ==
    /\ sockfd[r] = Closed
    /\ \A q \in Ref : sockfd[q] # f
    /\ sockfd' = [sockfd EXCEPT ![r] = f]
    /\ fdServiceRefMap' = [fdServiceRefMap EXCEPT ![f] = r]
    /\ UNCHANGED <<readable, told>>

(* removeRefFromRunloop for the handles R: their entries leave the map,    *)
(* which invalidates an iterator to one of them.                           *)
\* Mutant: the entry stays.
UnwatchNothing(R) == UNCHANGED <<fdServiceRefMap, nextIt>>
Unwatch(R) ==
    /\ fdServiceRefMap' =
         [f \in Fd |-> IF \E r \in R : sockfd[r] = f
                       THEN NoRef ELSE fdServiceRefMap[f]]
    /\ nextIt' = IF \E r \in R : sockfd[r] # Closed /\ sockfd[r] = nextIt
                 THEN Dangling ELSE nextIt

(* DNSServiceRefDeallocate for the handles R: the library closes their     *)
(* sockets and drops what they hold.                                       *)
Deallocate(R) ==
    /\ sockfd' = [r \in Ref |-> IF r \in R THEN Closed ELSE sockfd[r]]
    /\ readable' = readable \ R
    /\ told' = [r \in Ref |-> IF r \in R THEN {} ELSE told[r]]
    /\ cur' = IF cur \in R THEN NoRef ELSE cur

(* removeRequest()                                                         *)
\* Mutant: the handle stays open.
UnwatchOnly(R) == Unwatch(R) /\ UNCHANGED <<sockfd, readable, told, cur>>
Release(R) == Unwatch(R) /\ Deallocate(R)

(* rbegin()->first + 1, or 1 for an empty map; the assert that follows it  *)
(* in the code is that this id is free.                                    *)
\* Mutant: size() + 1.
IsSizePlusOne(requests, id) == id = Cardinality(Live(requests)) + 1
IsNextId(requests, id) ==
    /\ \A i \in Live(requests) : i < id
    /\ id = 1 \/ id - 1 \in Live(requests)

(* ++it: n is the position after descriptor f in the ordered map.          *)
\* Mutants: the iterator is not advanced; the loop ends after one turn.
StaysAt(f, n) ==
    LET later == {g \in Fd : g >= f /\ fdServiceRefMap[g] # NoRef}
    IN  \/ n = End /\ later = {}
        \/ n \in later /\ \A g \in later : n <= g
FollowsOnce(f, n) ==
    IF f >= 0 THEN n = End
    ELSE n \in Fd /\ fdServiceRefMap[n] # NoRef
         /\ \A g \in Fd : fdServiceRefMap[g] # NoRef => n <= g
Follows(f, n) ==
    LET later == {g \in Fd : g > f /\ fdServiceRefMap[g] # NoRef}
    IN  \/ n = End /\ later = {}
        \/ n \in later /\ \A g \in later : n <= g

-----------------------------------------------------------------------------
(* The user's calls, made outside run() or from one of its callbacks.      *)

InUserCode == pc \in {"user", "callback"}

(* The tail of announce(): DNSServiceRegister succeeds.                    *)
\* Mutant: the state of a discovered object.
RegisterAsResolved(valid) ==
    /\ \E r \in Ref, f \in Fd : Open(r, f) /\ advertisedRef' = r
    /\ state' = "Resolved"
    /\ paramsOk' = valid
    /\ UNCHANGED <<reqs, loop>>
Register(valid) ==
    /\ \E r \in Ref, f \in Fd : Open(r, f) /\ advertisedRef' = r
    /\ state' = "Registering"
    /\ paramsOk' = valid
    /\ UNCHANGED <<reqs, loop>>

(* announce() with a prefix and a port.                                    *)
AnnounceValid ==
    /\ InUserCode
    /\ state = "Created"
    /\ announcing => "reannounce" \in Reentrant
    /\ Register(TRUE)
    /\ UNCHANGED announcing

(* announce() without a prefix or a port: the error callback runs, the     *)
(* user may call into the object from there (a second invalid announce     *)
(* inside the first is left out), ...                                      *)
AnnounceInvalid ==
    /\ InUserCode
    /\ state = "Created"
    /\ ~announcing
    /\ announcing' = TRUE
    /\ UNCHANGED <<lib, state, paramsOk, advertisedRef, reqs,
                   fdServiceRefMap, loop>>

(* ... and announce() goes on: no return follows the callback.             *)
ResumeAnnounce ==
    /\ announcing
    /\ announcing' = FALSE
    /\ Register(FALSE)

(* The same when DNSServiceRegister refuses the request.                   *)
ResumeAnnounceRefused ==
    /\ announcing
    /\ announcing' = FALSE
    /\ UNCHANGED <<lib, state, paramsOk, advertisedRef, reqs,
                   fdServiceRefMap, loop>>

(* browse()                                                                *)
Browse ==
    /\ InUserCode
    /\ \E r \in Ref, f \in Fd, id \in Id :
         /\ Open(r, f)
         /\ IsNextId(brequests, id)
         /\ brequests' = [brequests EXCEPT ![id] = r]
         /\ discovered' = [discovered EXCEPT ![id] = <<>>]
    /\ UNCHANGED <<reg, rrequests, resolving, resolved, loop>>

(* Callbacks of a browse request may cancel it; other requests only where  *)
(* Reentrant says so.                                                      *)
MayCancel(id) ==
    \/ pc = "user"
    \/ brequests[id] = cur
    \/ "cancelOther" \in Reentrant

(* cancel()                                                                *)
Cancel(id) ==
    /\ InUserCode
    /\ brequests[id] # NoRef
    /\ MayCancel(id)
    /\ Release({brequests[id]})
    /\ brequests' = [brequests EXCEPT ![id] = NoRef]
    /\ discovered' = [discovered EXCEPT ![id] = <<>>]
    /\ UNCHANGED <<reg, rrequests, resolving, resolved,
                   pc, forever, ready, reporting>>

(* The services getDiscoveredServices() returns.                           *)
DiscoveredServices == UNION {ToSet(discovered[i]) : i \in Id}

(* resolve() of an object found in the discovered lists.                   *)
Resolve(sd) ==
    /\ InUserCode
    /\ sd \in DiscoveredServices
    /\ \E r \in Ref, f \in Fd, id \in Id :
         /\ Open(r, f)
         /\ IsNextId(rrequests, id)
         /\ rrequests' = [rrequests EXCEPT ![id] = r]
         /\ resolving' = [resolving EXCEPT ![id] = sd]
    /\ UNCHANGED <<reg, brequests, discovered, resolved, loop>>

(* ~NdnSd(): every browse request is removed, and the registration; the    *)
(* resolve requests are not.                                               *)
Destroy ==
    /\ pc = "user"
    /\ ~announcing
    /\ Release({brequests[i] : i \in Live(brequests)} \cup Registration)
    /\ brequests' = [i \in Id |-> NoRef]
    /\ discovered' = [i \in Id |-> <<>>]
    /\ state' = "Created"
    /\ pc' = "destroyed"
    /\ UNCHANGED <<paramsOk, advertisedRef, announcing, rrequests, resolving,
                   resolved, forever, ready, reporting>>

-----------------------------------------------------------------------------
(* run()                                                                   *)

(* Leaving run(): its locals end with it.                                  *)
LeaveRun ==
    /\ pc' = "user"
    /\ forever' = FALSE
    /\ ready' = {}
    /\ nextIt' = End
    /\ cur' = NoRef

Run(timeoutIsZero) ==
    /\ pc = "user"
    /\ ~announcing
    /\ pc' = "select"
    /\ forever' = timeoutIsZero
    /\ UNCHANGED <<lib, reg, reqs, fdServiceRefMap, ready, nextIt, cur,
                   reporting>>

(* The descriptors of the map whose sockets have data.                     *)
\* Mutant: every descriptor that is watched.
WatchedFds == {f \in Fd : fdServiceRefMap[f] # NoRef}
ReadableFds ==
    {f \in Fd : fdServiceRefMap[f] # NoRef /\ fdServiceRefMap[f] \in readable}

(* select() > 0: readfds keeps the readable ones, `it' starts at cbegin(). *)
SelectReady ==
    /\ pc = "select"
    /\ ReadableFds # {}
    /\ ready' = ReadableFds
    /\ \E n \in Fd : Follows(-1, n) /\ nextIt' = n
    /\ pc' = "loop"
    /\ UNCHANGED <<lib, reg, reqs, fdServiceRefMap, forever, cur, reporting>>

SelectTimeout ==
    /\ pc = "select"
    /\ ~forever
    /\ ReadableFds = {}
    /\ LeaveRun
    /\ UNCHANGED <<lib, reg, reqs, fdServiceRefMap, reporting>>

SelectError ==
    /\ pc = "select"
    /\ "selectError" \in Faults
    /\ LeaveRun
    /\ UNCHANGED <<lib, reg, reqs, fdServiceRefMap, reporting>>

(* One turn of the for loop on a valid iterator: `nextIt' is advanced past *)
(* `it' before the library is asked to process the descriptor of `it'.     *)
Visit ==
    /\ pc = "loop"
    /\ nextIt \in Fd
    /\ \E n \in Fd \cup {End} : Follows(nextIt, n) /\ nextIt' = n
    /\ IF nextIt \in ready
       THEN pc' = "process" /\ cur' = fdServiceRefMap[nextIt]
       ELSE UNCHANGED <<pc, cur>>
    /\ UNCHANGED <<lib, reg, reqs, fdServiceRefMap, forever, ready, reporting>>

(* it = cend(): once more around `while', or return 0.                     *)
LoopEnds ==
    /\ pc = "loop"
    /\ nextIt = End
    /\ IF forever
       THEN pc' = "select" /\ ready' = {} /\ UNCHANGED <<forever, nextIt, cur>>
       ELSE LeaveRun
    /\ UNCHANGED <<lib, reg, reqs, fdServiceRefMap, reporting>>

(* An iterator whose element was erased is read: anything may follow.      *)
LoopUndefined ==
    /\ pc = "loop"
    /\ nextIt = Dangling
    /\ pc' = "undefined"
    /\ UNCHANGED <<lib, reg, reqs, fdServiceRefMap, forever, ready, nextIt,
                   cur, reporting>>

(* DNSServiceProcessResult fails: run() returns its error.                 *)
ProcessError ==
    /\ pc = "process"
    /\ "processError" \in Faults
    /\ LeaveRun
    /\ UNCHANGED <<lib, reg, reqs, fdServiceRefMap, reporting>>

(* DNSServiceProcessResult returns once it has handled a reply and sees no *)
(* other, or its handle was deallocated meanwhile.                         *)
ProcessReturns ==
    /\ pc = "return"
    /\ pc' = "loop"
    /\ cur' = NoRef
    /\ UNCHANGED <<lib, reg, reqs, fdServiceRefMap, forever, ready, nextIt,
                   reporting>>

-----------------------------------------------------------------------------
(* The reply callbacks, called by DNSServiceProcessResult(cur).  It blocks *)
(* until a reply is there, and handles those that follow it at once.       *)

ReplyArrives ==
    /\ pc \in {"process", "return"}
    /\ cur \in readable
    /\ readable' = readable \ {cur}
    /\ UNCHANGED <<rrequests, resolving, fdServiceRefMap, sockfd, forever,
                   ready, nextIt, cur>>

(* A callback with no user callback to run just returns.                   *)
CallUser(announces) ==
    /\ pc' = IF announces THEN "callback" ELSE "return"
    /\ UNCHANGED reporting

(* browseReply with kDNSServiceFlagsAdd                                    *)
BrowseAdd(id, service) ==
    LET Made(k) == [name |-> service[1], iface |-> service[2], copy |-> k]
    IN  /\ ReplyArrives
        /\ brequests[id] = cur
        /\ service \notin told[cur]
        /\ told' = [told EXCEPT ![cur] = @ \cup {service}]
        /\ IF service[1] = Uuid
           THEN UNCHANGED <<discovered, resolved>>
           ELSE \E k \in 1 .. MaxCopy :
                  /\ Made(k) \notin DiscoveredServices
                  /\ \A i \in Id : resolving[i] # Made(k)
                  /\ discovered' = [discovered EXCEPT ![id] = Append(@, Made(k))]
                  /\ resolved' = resolved \ {Made(k)}
        /\ CallUser(service[1] # Uuid)
        /\ UNCHANGED <<reg, brequests>>

(* The positions find_if may return: the first entry with that name.       *)
\* Mutant: whatever is first.
IsFirst(list, name, k) == k \in DOMAIN list /\ k = 1
IsFirstNamed(list, name, k) ==
    /\ k \in DOMAIN list
    /\ list[k].name = name
    /\ \A j \in DOMAIN list : j < k => list[j].name # name

(* browseReply without the flag: the interface it is for plays no part.    *)
BrowseRemove(id, service) ==
    LET list == discovered[id]
        Found(k) == IsFirstNamed(list, service[1], k)
    IN  /\ ReplyArrives
        /\ brequests[id] = cur
        /\ service \in told[cur]
        /\ told' = [told EXCEPT ![cur] = @ \ {service}]
        /\ \/ \E k \in DOMAIN list :
                /\ Found(k)
                /\ discovered' = [discovered EXCEPT ![id] = RemoveAt(list, k)]
                /\ CallUser(TRUE)
           \/ /\ \A k \in DOMAIN list : ~Found(k)
              /\ CallUser(FALSE)
              /\ UNCHANGED discovered
        /\ UNCHANGED <<reg, brequests, resolved>>

(* browseReply, resolveReply and registerReply with an error, and a resolve *)
(* reply without a prefix: the error callback, and nothing else.           *)
ReplyError ==
    /\ ReplyArrives
    /\ CallUser(TRUE)
    /\ UNCHANGED <<reg, told, brequests, discovered, resolved>>

(* resolveReply with a prefix, up to the call of onAnnouncement_ ...       *)
ResolveReply(id) ==
    /\ ReplyArrives
    /\ rrequests[id] = cur
    /\ resolved' = resolved \cup {resolving[id]}
    /\ pc' = "callback"
    /\ reporting' = id
    /\ UNCHANGED <<reg, told, brequests, discovered>>

(* ... and what it does once that callback has returned: the request goes. *)
ResolvedReturns ==
    /\ pc = "callback"
    /\ ~announcing
    /\ reporting # 0
    /\ Release({rrequests[reporting]})
    /\ rrequests' = [rrequests EXCEPT ![reporting] = NoRef]
    /\ resolving' = [resolving EXCEPT ![reporting] = NoSd]
    /\ pc' = "return"
    /\ reporting' = 0
    /\ UNCHANGED <<reg, brequests, discovered, resolved, forever, ready>>

(* registerReply without an error                                          *)
RegisterReply ==
    /\ ReplyArrives
    /\ cur \in Registration
    /\ state' = "Registered"
    /\ CallUser(TRUE)
    /\ UNCHANGED <<paramsOk, advertisedRef, announcing, told, brequests,
                   discovered, resolved>>

(* Any other user callback returns, or throws a runtime_error, which the   *)
(* reply callback catches.                                                 *)
CallbackReturns ==
    /\ pc = "callback"
    /\ ~announcing
    /\ reporting = 0
    /\ pc' = "return"
    /\ UNCHANGED <<lib, reg, reqs, fdServiceRefMap, forever, ready, nextIt,
                   cur, reporting>>

(* An exception that is not caught (any that onAnnouncement_ throws in     *)
(* resolveReply, one that is no runtime_error elsewhere) leaves run().     *)
CallbackThrows ==
    /\ pc = "callback"
    /\ ~announcing
    /\ "throw" \in Faults
    /\ LeaveRun
    /\ reporting' = 0
    /\ UNCHANGED <<lib, reg, reqs, fdServiceRefMap>>

-----------------------------------------------------------------------------
(* The daemon has a reply for an operation.                                *)
DaemonReplies(r) ==
    /\ sockfd[r] # Closed
    /\ r \notin readable
    /\ pc \notin {"undefined", "destroyed"}
    /\ readable' = readable \cup {r}
    /\ UNCHANGED <<sockfd, told, reg, reqs, fdServiceRefMap, loop>>

(* Not progress but no deadlock either: the object is gone, or what        *)
(* follows is undefined, or run() without a timeout has nothing to wait    *)
(* for and stays in select().                                              *)
Stopped ==
    /\ \/ pc \in {"undefined", "destroyed"}
       \/ pc = "select" /\ \A f \in Fd : fdServiceRefMap[f] = NoRef
    /\ UNCHANGED vars

Init ==
    /\ sockfd = [r \in Ref |-> Closed]
    /\ readable = {}
    /\ told = [r \in Ref |-> {}]
    /\ state = "Created"
    /\ paramsOk = FALSE
    /\ advertisedRef = NoRef
    /\ announcing = FALSE
    /\ brequests = [i \in Id |-> NoRef]
    /\ discovered = [i \in Id |-> <<>>]
    /\ rrequests = [i \in Id |-> NoRef]
    /\ resolving = [i \in Id |-> NoSd]
    /\ resolved = {}
    /\ fdServiceRefMap = [f \in Fd |-> NoRef]
    /\ pc = "user"
    /\ forever = FALSE
    /\ ready = {}
    /\ nextIt = End
    /\ cur = NoRef
    /\ reporting = 0

UserCall ==
    \/ AnnounceValid
    \/ AnnounceInvalid
    \/ ResumeAnnounce
    \/ ResumeAnnounceRefused
    \/ Browse
    \/ \E id \in Id : Cancel(id)
    \/ \E sd \in Sd : Resolve(sd)
    \/ Destroy
    \/ \E timeoutIsZero \in BOOLEAN : Run(timeoutIsZero)

RunLoop ==
    \/ SelectReady
    \/ SelectTimeout
    \/ SelectError
    \/ Visit
    \/ LoopEnds
    \/ LoopUndefined
    \/ ProcessError
    \/ ProcessReturns

Reply ==
    \/ \E id \in Id, service \in Service : BrowseAdd(id, service)
    \/ \E id \in Id, service \in Service : BrowseRemove(id, service)
    \/ \E id \in Id : ResolveReply(id)
    \/ RegisterReply
    \/ ReplyError

Callback ==
    \/ ResolvedReturns
    \/ CallbackReturns
    \/ CallbackThrows

Next ==
    \/ UserCall
    \/ RunLoop
    \/ Reply
    \/ Callback
    \/ \E r \in Ref : DaemonReplies(r)
    \/ Stopped

Spec == Init /\ [][Next]_vars

(* The thread takes its next step in run(), and a waiting reply is         *)
(* delivered when the library reads the socket.  Strong fairness where     *)
(* something else may always come first: the library does not find another *)
(* reply on the same socket for ever, and neither a callback nor the user  *)
(* between two run()s makes endless calls into the object.                 *)
Fairness ==
    /\ WF_vars(SelectReady)
    /\ WF_vars(SelectTimeout)
    /\ WF_vars(Visit)
    /\ WF_vars(LoopEnds)
    /\ SF_vars(ProcessReturns)
    /\ WF_vars(Reply)
    /\ SF_vars(ResolvedReturns)
    /\ SF_vars(CallbackReturns)
    /\ WF_vars(ResumeAnnounce \/ ResumeAnnounceRefused)
    /\ SF_vars(\E timeoutIsZero \in BOOLEAN : Run(timeoutIsZero))

FairSpec == Spec /\ Fairness

-----------------------------------------------------------------------------
(* The variables have the types the code gives them.                       *)
TypeOK ==
    /\ sockfd \in [Ref -> Fd \cup {Closed}]
    /\ readable \subseteq Ref
    /\ told \in [Ref -> SUBSET Service]
    /\ state \in {"Created", "Registering", "Registered"}
    /\ paramsOk \in BOOLEAN
    /\ advertisedRef \in Ref \cup {NoRef}
    /\ announcing \in BOOLEAN
    /\ brequests \in [Id -> Ref \cup {NoRef}]
    /\ discovered \in [Id -> Seq(Sd)]
    /\ rrequests \in [Id -> Ref \cup {NoRef}]
    /\ resolving \in [Id -> Sd \cup {NoSd}]
    /\ resolved \subseteq Sd \cup {NoSd}
    /\ fdServiceRefMap \in [Fd -> Ref \cup {NoRef}]
    /\ pc \in {"user", "select", "loop", "process", "callback", "return",
               "undefined", "destroyed"}
    /\ forever \in BOOLEAN
    /\ ready \subseteq Fd
    /\ nextIt \in Fd \cup {End, Dangling}
    /\ cur \in Ref \cup {NoRef}
    /\ reporting \in Id \cup {0}

Allocated == {r \in Ref : sockfd[r] # Closed}

(* A handle has at most one owner: one request, or the registration.       *)
OwnersAreDistinct ==
    /\ \A i, j \in Live(brequests) : brequests[i] = brequests[j] => i = j
    /\ \A i, j \in Live(rrequests) : rrequests[i] = rrequests[j] => i = j
    /\ \A i \in Live(brequests), j \in Live(rrequests) :
         brequests[i] # rrequests[j]
    /\ \A i \in Live(brequests) : brequests[i] \notin Registration
    /\ \A i \in Live(rrequests) : rrequests[i] \notin Registration

Owned ==
    {brequests[i] : i \in Live(brequests)}
    \cup {rrequests[i] : i \in Live(rrequests)}
    \cup Registration

(* Whatever the user and the callbacks do, the handles that are open are   *)
(* those of the live requests and of the registration, each with one       *)
(* owner: none leaks, none is used after its deallocation, and a reply     *)
(* always finds the request it is for (browseReply and resolveReply use    *)
(* the raw pointer they registered).                                       *)
HandlesMatchRequests == Allocated = Owned /\ OwnersAreDistinct

(* fdServiceRefMap_ watches exactly the open handles, each under its own   *)
(* descriptor, although descriptors are reused: addRefToRunLoop and        *)
(* removeRefFromRunloop are paired with each open and deallocation.        *)
RunLoopWatchesHandles ==
    /\ \A r \in Allocated : fdServiceRefMap[sockfd[r]] = r
    /\ \A f \in Fd : fdServiceRefMap[f] # NoRef =>
                        sockfd[fdServiceRefMap[f]] = f

(* The iterator run() keeps across the callbacks is good when it is used   *)
(* ("fdServiceRefMap can be modified from within this loop").              *)
IteratorIsValid ==
    /\ pc # "undefined"
    /\ nextIt # Dangling
    /\ pc \in {"loop", "process", "callback", "return"} /\ nextIt # End =>
         fdServiceRefMap[nextIt] # NoRef

(* run() hands the library only handles that are open and have a reply,    *)
(* so DNSServiceProcessResult does not block the thread, although the map  *)
(* changes between select() and the visit of a descriptor.                 *)
NeverBlocks == pc = "process" => cur \in readable

(* discovered_ of a live request holds, for each name but the object's     *)
(* own, as many entries as there are interfaces on which the daemon says   *)
(* it is present.                                                          *)
DiscoveredCounts ==
    \A i \in Live(brequests) : \A n \in Name \ {Uuid} :
        Cardinality({k \in DOMAIN discovered[i] : discovered[i][k].name = n})
          = Cardinality({s \in told[brequests[i]] : s[1] = n})

(* A live request keeps its handle: an id is not given to a new request    *)
(* while an older one has it (the asserts after rbegin() + 1).             *)
LiveRequestsKeepTheirHandles ==
    [][\A i \in Id :
         /\ brequests[i] # NoRef => brequests'[i] \in {brequests[i], NoRef}
         /\ rrequests[i] # NoRef => rrequests'[i] \in {rrequests[i], NoRef}]_vars

(* A reply that waits in a socket is read, or its request goes away: no    *)
(* request starves behind the others' traffic or a full pass of the loop,  *)
(* unless run() is left again and again before its end: by an error, which *)
(* skips the descriptors after the one that fails, or by an exception.     *)
RepliesAreRead ==
    <>[][~(SelectError \/ ProcessError \/ CallbackThrows)]_vars =>
      \A r \in Ref : r \in readable ~> r \notin readable \/ pc = "destroyed"

(* run() with a timeout returns ("timeout or till the first read").        *)
RunReturns == pc # "user" /\ ~forever ~> pc \in {"user", "destroyed"}

(* The object keeps what ServiceBrowser promises of its requests: handles, *)
(* the loop and the callbacks in it cannot be told from the lists, which   *)
(* are sets there, and what the daemon reported is kept per request, not   *)
(* per handle.                                                             *)
Browser == INSTANCE ServiceBrowser WITH
    browsing <- Live(brequests),
    present <- [i \in Id |-> IF brequests[i] = NoRef
                            THEN {} ELSE told[brequests[i]]],
    listed <- [i \in Id |-> ToSet(discovered[i])]

ImplementsServiceBrowser == Browser!Spec

-----------------------------------------------------------------------------
(* What the repository says of the program and the code does not do.       *)

(* "fdServiceRefMap can be modified from within this loop (in callbacks"   *)
(* (ndn-sd.cpp:198): the loop never reads an erased iterator.              *)
LoopIsDefined == pc # "undefined"

(* "cancel all requests" (the destructor, ndn-sd.cpp:159).                 *)
DestructorCancelsAllRequests == pc = "destroyed" => Allocated = {}

(* "success callback should've not get fired" for an announcement without  *)
(* a prefix or a port (ndnsd-test.cpp:675 and 853).                        *)
OnlyValidAnnouncementsSucceed == state = "Registered" => paramsOk

(* "returns all discovered services" (getDiscoveredServices,               *)
(* ndn-sd.hpp:109): those the daemon reports as present, by interface.     *)
DiscoveredServicesArePresent ==
    \A i \in Live(brequests) :
        {<<sd.name, sd.iface>> : sd \in ToSet(discovered[i])}
          = {s \in told[brequests[i]] : s[1] # Uuid}

=============================================================================
