# TLA+ models of ndn-sd

This directory holds TLA+ specifications of the program in `src/`, the TLC
configurations that check them on small instances, and theorems about them that
TLAPS proves for every instance. Paths below are relative to the repository
(`ndn-sd.cpp` is `src/ndn-sd/ndn-sd.cpp`, `ndnapp.cpp` is
`src/ndnapp/ndnapp.cpp`, and so on).

## 1. The system

| Component | State | Operations | Interacts with |
|---|---|---|---|
| **NdnSd** (`ndn-sd.cpp`) | `state_`, `parameters_`, `advertisedRef_`; `brequests_` with a `discovered_` list each; `rrequests_`; `fdServiceRefMap_` | `announce`, `browse`, `cancel`, `resolve`, `run`, destructor; reply callbacks `browseReply`, `resolveReply`, `registerReply` | calls the DNS-SD client library, which calls the reply callbacks from inside `run()`; these call user callbacks, which call the object again |
| **Types and TXT records** (`ndn-sd.cpp`) | none | `makeRegType`, `parseProtocol`, `isMaxTxtSizeExceeded`, TXT encoding | `announce`, `resolveReply` |
| **App** (`ndnapp.cpp`) | `protocolPort_`, `ndnsds_`, `discoveredInstances_`, `faces_` | `configure`, `processEvents`, browse and resolve callbacks, `addRoute`, `removeRoute` | one NdnSd per protocol; the microforwarder |
| **Certificate auto-renewal** (`ndnapp.cpp`) | timers of the face | `setupCertificateAutoRenew` | IdentityManager |
| **IdentityManager** (`identity-manager.cpp`) | signing, application and instance identity, two key chains | `setup`, `createNewAppIdentity`, `createNewInstanceIdentity`, `generateSignedIdentity`, `loadSafeBag` | ndn-ind key chains |
| **ndnshare** (`main.cpp`) | the `run` flag, the queues of two schedulers | the main loop, the commands of the terminal thread, the handler of SIGINT | App and FileshareClient, from two threads |
| **FileshareClient** (`fileshare.cpp`) | a namespace, progress of each fetch | `onObjectNeeded`, `fetch`, `writeData` | cnl-cpp |
| MIME table, UUIDs, logging | none | lookups and formatting | |
| DNS-SD library and daemon, microforwarder | external | | |

At this commit `main.cpp` constructs `App` with three arguments where
`ndnapp.hpp` asks for five, so ndnshare is read as the intended user of App.

What is hard about it:

* **Re-entrance.** `run()` iterates over `fdServiceRefMap_` and, in the middle
  of the loop, calls code that adds to it and removes from it. User callbacks
  run between two statements of `announce` and `resolveReply`.
* **Recycling.** Handles and descriptors are given out again by the library and
  the system, request ids by `rbegin()->first + 1`.
* **Ordering.** A service may leave before its resolve request is answered, and
  come back on another interface or protocol. Several objects (one per protocol
  and interface) stand for one instance, and App keeps some of its state per
  instance and some per object.
* **Two threads.** The terminal's thread posts to the queue of the main thread,
  reads the application's state without a lock, and is joined at the end; the
  signal handler interrupts either of them.
* **Failure.** User callbacks throw, some where the code catches and one where
  it does not; `select` and `DNSServiceProcessResult` fail; faces and channels
  fail.

What makes each component correct:

* NdnSd: handles, requests and the descriptor map agree at every moment; `run()`
  never uses an erased entry, never blocks on a socket without data, reads every
  reply in the end and returns; the discovered list follows the daemon.
* App: what it remembers of an instance agrees with what is listed; an open face
  can be closed; the fate of one object does not touch another's face; what is
  present gets a face, and what is gone does not keep one.
* IdentityManager and auto-renewal: each level is issued a certificate by the
  level above, which is valid until its renewal is due, whatever earlier starts
  left behind and however late a renewal is called.
* ndnshare: posted commands are executed, events keep being processed, and the
  process ends when it is told to.
* FileshareClient: the progress of a fetch is right in whatever order segments
  arrive, a fetched object is stored under its own name, and what is published
  under a file's name is that file.
* TXT records: what `announce` accepts is what `resolveReply` reads, and the
  data of a resolved object are of one announcement.

## 2. Modules

`NdnSd` implements `ServiceBrowser`; `TxtRecord` refines what `NdnSd` leaves out
of announcements and replies; `NdnApp` uses two NdnSd; `IdentityManager` stands
alone; `NdnShare` extends `Fileshare` and is the thread that calls `NdnApp`.

### `NdnSd.tla` — one NdnSd object

The thread is the variable `pc`: `user` between two calls of `run()`, `select`,
`loop` and `process` in `run()`, `callback` while a user callback runs inside
the library's read, `return` when it has returned. Everything the public
interface allows in `user` is also allowed in `callback`, which is how
re-entrance is modelled; `announcing` marks that an `announce` is suspended in
its bad-parameter callback.

| Definition | Code |
|---|---|
| `AnnounceValid`, `AnnounceInvalid`, `ResumeAnnounce`, `ResumeAnnounceRefused` | `announce`, cut where the error callback runs in the middle of it |
| `Browse`, `Cancel`, `Resolve`, `Destroy` | `browse`, `cancel`, `resolve`, `~NdnSd` |
| `Open`, `Unwatch`, `Release` | `addRefToRunLoop`, `removeRefFromRunloop`, `removeRequest` |
| `Run`, `SelectReady`, `SelectTimeout`, `SelectError`, `Visit`, `LoopEnds`, `ProcessError`, `ProcessReturns` | `run`, statement by statement around the library's calls |
| `LoopUndefined` | the loop reads an erased node: the model stops there, since anything may follow |
| `BrowseAdd`, `BrowseRemove`, `ResolveReply` / `ResolvedReturns`, `RegisterReply`, `ReplyError` | the reply callbacks; `resolveReply` is cut where its callback runs |
| `CallbackReturns`, `CallbackThrows` | the end of a user callback |
| `DaemonReplies`, `ReplyArrives`, `Deallocate` | external: the daemon and the library |

`told` is what a browse operation last reported as present: it is what the
properties compare `discovered_` with. A discovered object is a record of the
service it was made for and a number that tells two objects of one service
apart (`sd` pointers are compared by identity in `resolve`).

Abstracted: names, domains, ports and TXT data; an invalid announcement is one
value. Calls that the library refuses, or that name an unknown request, run an
error callback in tail position and change nothing: they are stuttering steps.
Not modelled: `run()` called from a callback, an object destroyed inside its own
callback, and a second invalid `announce` inside the error callback of a first.

`Browser` is `ServiceBrowser` with the refinement mapping: a request is browsed
when it has a handle, `present` is what the daemon told that handle (of a request
that is cancelled, nothing), and `listed` is `discovered_` as a set. Handles,
sockets, descriptors, the registration, `pc` and the loop have no counterpart:
`Run`, `SelectReady`, `Visit` and the rest are stuttering steps.

Constants that are switches rather than sizes:

* `Reentrant`: `"cancelOther"` lets a callback cancel a request other than its
  own, `"reannounce"` lets the error callback of `announce` announce again.
  `browse`, `resolve`, a first `announce` and cancelling one's own request are
  always allowed in callbacks. The switches exist because two flaws (section 4)
  need them: without them the other properties are checked on the rest.
* `Faults`: a callback throws out of `run()`, the library's read fails, `select`
  fails.

### `ServiceBrowser.tla` — what NdnSd promises

The abstract specification of browsing and resolving, without handles, sockets or
a loop: which requests are browsed, the services reported to each, the objects it
lists, what is being resolved and what is resolved. A service that appears is
given an object no one holds; one that disappears takes an object of its name
with it (which one is left open: the code takes one of any interface); a request
that ends loses its list, and nothing else of it changes; a resolve request ends
only after an answer. `ListsAreDisjoint` and `ListsFollowPresence` state what
follows from it.

### `TxtRecord.tla` — the data of a service

A value is its length and the announcement it is of. `Announce` is `announce`
from its size check to the registration, `SetValue` the library's 8-bit length
and 255-byte entries, `ResolveReply` and `ResolveReplyWithoutPrefix` the two ways
through `resolveReply`, `GetAddress`, `GetPrefix` and `GetCertificate` the getters
that hide what is not resolved. A service may go and be announced again with
other parameters under the same name; the daemon answers a request once and after
each change, and the reply that waits may be older than the announcement. One
object of the peer is followed, with one request at a time: several are the
subject of `NdnSd.tla`.

### `Fileshare.tla` — FileshareClient

`ObjectNeeded` and `ObjectNeededThrows` are `onObjectNeeded`; `Fetch`,
`SegmentReceived` (the state callback) and `ObjectFetched` with `WriteData` a
fetch, of which several may be under way at a time, also of one name;
`PrefixRegisterFails` the callback that makes `processEvents` throw. The content
of a file is the user's, that of an object, broken by a write that failed, or a
directory. External (cnl-cpp): segments arrive once each, in any order, an
object is reported after its last segment, and what is published is not asked
for again.

### `NdnShare.tla` — the main loop and the terminal

`pc` is the main thread: `loop` (its head), `exec`, then the task, which is
`fetch` or `packets` and `discovery` (the two halves of `App::processEvents`),
and `join`. `terminal` is the thread of the command line. Both read `run`.

| Definition | Code |
|---|---|
| `PostEvents`, `ExecOne`, `LeaveLoop`, `Join` | the main loop and what follows it |
| `ExecFetch`, `ExecFetchThrows` | the task of a fetch command; nothing between it and the scope of the joinable thread catches |
| `Packet`, `PacketThrows`, `PacketsEnd`, `Discover`, `EventsEnd` | `processEvents`, which catches; `Packet` is any step of `Fileshare` that a packet causes |
| `FetchCommand`, `ReadNodes` / `NodesAreRead`, `Exit`, `RunEnds` | the commands and the end of the thread's loop; `faces` and `routes` read as `nodes` does |
| `Interrupt`, `InterruptLogging` | `signal_handler`, and the case that it interrupts a thread which is logging |

External (cli): `Post` appends, `ExecOne` waits for a task and executes the
first, `Run` executes until `Stop`. `Discover` stands for the callbacks of App
that change the lists the terminal reads; what they do is `NdnApp.tla`. A read
that overlaps with it is undefined behaviour: the model only records that it was
not of one state (`isReadWhole`). `reliable` selects, per behaviour, whether
writes fail, files cannot be read, a fetch throws, the prefix is not registered
and a signal finds a thread logging.

### `NdnApp.tla` — the application's routes

`pc` tells which NdnSd `processEvents` is running. Of each NdnSd the module
keeps what `NdnSd.tla` shows of one browse request: `told`, `discovered` and the
objects with an open resolve request. `Added`, `Removed` and `Resolved` are one
reply each, with the App's callback and everything it calls (`resolve`,
`addRoute`, `removeRoute`). `ResolvedThrows` is the callback when `addRoute`
throws, which leaves `run()`, skips the rest of `processEvents` and keeps the
request for the next reply. `AddRouteThrows` has the two places: `addFace`, when
nothing has changed yet, and ndnapp.cpp:284, where the peer's prefix is parsed and
the route is added, when the face is open and its id in `faces_`. The next reply
then opens another face and overwrites the id (`OpenFace`). `mfdFaces` counts the
faces the microforwarder has open for an object, whatever `faces_` says; `threw`
is a history variable, the objects with a face whose callback threw.
`Faults` covers a channel that is not bound or throws, a refused resolve
request, an empty prefix, a face and a route that fail.

### `IdentityManager.tla` — identities and renewals

One process that may end anywhere (`Stop`: a crash, the user, or an exception
out of `setup`) and start again over the same key chain under the same or
another signing identity. `pc` is the place `setup` has reached (`app`, `sign`,
`instance`), `running` when `configure` has set its timers, or `off`.

| Definition | Code |
|---|---|
| `SetupSigningIdentity`, `LoadSafeBag` | `setup` up to the signing identity; `loadSafeBag` returns null for every file (its result goes to a shadowing local), so a path is taken for a name |
| `SetupAppIdentity`, `IsAppIdentity`, `CreateAppIdentity` | `setupAppIdentity` with `getIdentity`, up to `createIdentityV2` in `createSignedIdentity` |
| `SignAppIdentity`, `AddAppCertificate`, `Cert` | the rest of `createSignedIdentity`: the process may end between the two |
| `SetupInstanceIdentity`, `CreateNewInstanceIdentity` | the instance identity, in a key chain that is in memory and fresh at each start |
| `SetupTimers`, `RenewalTime` | `setupCertificateAutoRenew` |
| `RenewApp`, `RenewInstance` | the two renewal routines, each called once; one that throws stops where it is |
| `IsDue` | external: the Face calls what is due, in the order of the times, when it is processed |
| `Tick` | external: time, which waits for no timer |

An identity has two certificates: the default one of its key (`appCert`,
`instCert`), which the getters return, and the one the level above issued for it
(`appIssued`, `instIssued`). `interrupted` is a history variable, the identities
whose creation a process did not finish. External assumptions on ndn-ind:
`createIdentityV2` of a new name makes a key with a self-signed default
certificate that is valid from now on, and changes nothing for an existing name;
`addCertificate` makes a certificate the default only of a key that has none. So
the default certificates stay the self-signed ones: nothing in `src/` calls
`setDefaultCertificate`. A timer of the Face is called late or never, since
neither `App::processEvents` nor `main` processes the Face. `sign` succeeds in
`setup` or throws out of it (`Stop`); `setup` takes no time against lifetimes.
Not modelled: `generateSignedIdentity` (App does not use it), what `memCache_`
holds (it is given the certificates of the start only), a signing identity's own
certificate and the removal of identities by other programs.

### Proof and instance modules

| Module | Extends | Holds |
|---|---|---|
| `NdnSdProofs` | `NdnSd` | handles, requests, the descriptor map and the loop of `run()` |
| `ServiceBrowserProofs` | `ServiceBrowser`, `ListFacts` | what follows from the abstract specification |
| `NdnSdRefinement` | `NdnSdProofs`, `ListFacts` | that `NdnSd` implements `ServiceBrowser`, and `DiscoveredCounts` |
| `TxtRecordProofs` | `TxtRecord` | what a peer reads |
| `NdnAppProofs` | `NdnApp`, `ListFacts` | lists, known instances and faces of App |
| `IdentityManagerProofs` | `IdentityManager` | certificates and renewals |
| `NdnShareProofs` | `NdnShare` | main loop, fetches, files |
| `ListFacts` | the library | lemmas about lists without duplicates: what erasing, appending and finding do to a list, its set of objects and the number of objects of a name |

`MCNdnSd`, `MCNdnApp`, `MCIdentityManager` and `MCNdnShare` define the values and
symmetries of the runs; `TxtRecord` needs none.

## 3. What the runs check

| Run | Question | Instance |
|---|---|---|
| `requests` | `HandlesMatchRequests`, `RunLoopWatchesHandles`, `LiveRequestsKeepTheirHandles`, `TypeOK` when callbacks cancel anything and everything fails | 3 handles and descriptors, 2 ids of each kind, one other name |
| `discovery` | `ImplementsServiceBrowser` and `DiscoveredCounts` with callbacks that cancel, resolve and throw | 2 handles, 2 interfaces, 2 objects per service |
| `progress` | `IteratorIsValid`, `NeverBlocks`, `RepliesAreRead`, `RunReturns` under `FairSpec`, when callbacks cancel only their own request | 2 handles, 2 ids of each kind, every fault |
| `routes` | `KnownInstancesAreListed`, `FacesAreKnown`, `ListedObjectsKeepTheirFace`, `TypeOK` with interface filtering and every fault | one instance, one interface, two protocols, 2 objects per service, 2 faces per object |
| `routing` | `PresentObjectsGetAFace`, `ListedObjectsKeepTheirFace` under `FairSpec` without filtering, where several objects of one instance get faces | one instance, two interfaces, two protocols, no failure |
| `identity` | `AppIsSigned`, `InstanceIsValidUntilRenewal`, `InstanceFollowsApp`, `TypeOK`, with ends and restarts anywhere and renewals that throw, come late or never | two signing identities, 8 ticks |
| `txt` | `ValuesArriveWhole`, `CertificateIsOfPrefix`, `AddressIsOfPrefix`, `ResolveRequestsEnd`, `TypeOK` under `FairSpec` | prefixes of 0, 40, 252 and 253 bytes, certificates of 0, 252, 300 and 960, three announcements |
| `ndnshare` | `BacklogIsCommands`, `ProgressIsRight`, `FetchedFilesStay`, `PublishedIsOwnOrFetched`, `CommandsAreExecuted`, `EventsKeepRunning`, `ShutsDown`, `TypeOK` under `FairSpec` | three objects, two of them stored in one file, one of two segments; two commands |

Bounds. Three handles are the smallest number with a request before, at and
after the current one in the loop; two of them are enough to exchange a
descriptor. Ids go one beyond the smallest number that makes a reused id
meet a live one. Two interfaces make two entries of one name. Two objects per
service let one leave, stay referenced by its resolve request or by `faces_`,
and come back; two faces per object (`MaxFaces`) are one more than `faces_` has
room for. Handles are symmetric in the safety runs of NdnSd (nothing
orders them; descriptors are ordered and are not symmetric); liveness runs use
no symmetry. In `identity` a tick is a quarter of an hour: the window is one
tick and the instance's lifetime four, as in the code; a year is shortened to
five ticks, longer than the instance's hour. Starts up to tick 3 and a clock up
to tick 8 let an interrupted start leave its certificate, and a later start
under either identity take it and run to all of its renewals.

In `txt`, 252 is the longest value that fits, 253 the first that is refused, 300
is one whose length wraps, and 40 + 960 is the first sum that `announce` refuses;
three announcements let a peer hold data of a first, get an unreadable reply of a
second and a good one of a third. In `ndnshare`, two commands make a backlog in
which order matters; two objects of one file and one of another let fetches
overwrite each other and not the third; two segments can be swapped. The
commands are bounded, the turns of the loop are not.

Fairness. One thread runs the loop and its caller calls it again, as `main`
does. Weak fairness stands for a thread that takes its next step; strong
fairness is used for the steps that compete with calls a callback or the user
may make: they do not make endlessly many before they return. No fairness is
assumed of the daemon: `DaemonReplies` need not happen. In `NdnApp`, strong
fairness of `Resolved` for a present service says that the daemon answers and
that its reply, which waits in the socket, is read when its NdnSd runs: the
second half is `RepliesAreRead`.

In `IdentityManager` there is none: the Face that holds the timers is processed by
no code of the repository, so that no renewal has to come, and no liveness is
claimed. Its properties hold at whatever time a renewal comes. `reliable` selects,
per behaviour, whether a renewal may throw.

In `NdnSd`, `RepliesAreRead` assumes that errors and exceptions stop at some
time, since each of them ends the pass before its end. In `TxtRecord`, weak
fairness of the daemon's answer and of the two replies: `ResolveRequestsEnd` is
about a service that stays announced, and about callbacks that return. In
`NdnShare`, weak fairness of each thread's next step, of the end of a turn of
events (what has arrived is finite) and of a read of the nodes. Nothing makes
packets arrive, commands be typed or the program be ended.

Each property has a mutated definition of the code (`Mutant` in the modules)
under which the run finds it violated: for example a release that forgets the
descriptor map, an id computed from the map's size, a loop that does not advance
its iterator before the read, a removal that does not compare names.

## 4. Where the code and its documentation disagree

Each of these runs ends in a counterexample.

| Run | Property | What happens |
|---|---|---|
| `iterator` | `LoopIsDefined` | advancing `nextIt` first (ndn-sd.cpp:198) protects against the removal of the current entry only; a callback that cancels the next one leaves `nextIt` on an erased node |
| `filtered_instance` | `PresentInstancesGetAFace` | with filtering, the object that was skipped is not resolved when the one that was not skipped goes (ndnapp.cpp:152, 196) |
| `certificate` | `CertificatesAreAnnounced` | "allows peers to announce their data prefix certificate" (README.md:8): the length of a TXT value has 8 bits (ndn-sd.cpp:286), and a peer gets 136 bytes of a certificate of 392, the length of the one in ndnsd-test.cpp:951 |
| `nodes` | `NodesAreReadWhole` | "Print all discovered nodes" (main.cpp:323) walks the lists while the other thread changes them |

Six more statements of the repository do not hold. Their formulas are kept in
the modules; each is violated within seconds when it is added to a run that
passes:

| Formula | Add to | What happens |
|---|---|---|
| `DestructorCancelsAllRequests` (INVARIANT) | `requests` | "cancel all requests" (ndn-sd.cpp:159) leaves the resolve requests |
| `OnlyValidAnnouncementsSucceed` (INVARIANT) | `requests` | no return follows the bad-parameter callback (ndn-sd.cpp:260); ndnsd-test.cpp:675 and 853 say the success callback is not called |
| `DiscoveredServicesArePresent` (INVARIANT) | `discovery` | entries are removed by name only (ndn-sd.cpp:622): the wrong interface's goes |
| `RenewsBeforeExpiry` (INVARIANT) | `identity` | the renewal logs "expires in {} seconds" with the window (ndnapp.cpp:82), but its time is computed from the start of validity (ndnapp.cpp:77): a fresh certificate is replaced after one window |
| `AppIsValidUntilRenewal` (INVARIANT) | `identity` | "setup cert auto-renew" (ndnapp.cpp:63): the delay grows with the age of the certificate, so that one of an earlier start ends before its renewal is due (started at 0 and again at 3, it ends at 5 and is renewed at 7) |
| `CertificatesInUseAreIssued` (INVARIANT) | `identity` | "Using app certificate {}" (identity-manager.cpp:138, 164), after the level above has issued one: what the getters return is the self-signed certificate of the key (under the assumption on `addCertificate` of section 2) |

More consequences of the code, which no document denies:

* `requests` with `Reentrant = {"reannounce"}` violates `HandlesMatchRequests`.
  `state_` is checked at ndn-sd.cpp:236, before the bad-parameter callback, and
  not after it: a callback that announces again, with good parameters, makes the
  outer call register a second time and overwrite `advertisedRef_`.
* `progress` with `Reentrant = {"cancelOther"}` and three handles violates
  `NeverBlocks`. `readfds` is read once per pass: a descriptor freed and given
  to a new request in a callback is read although it has no data, and `run()`
  does not return at its timeout.
* In `routes`, a face can be open for an object that is in no list: a resolve
  reply that arrives after the removal opens a face that nothing closes
  (ndn-sd.cpp:627 has a TODO for it).
* In `routes`, two faces can be open for one object: the first opened by a
  callback that then threw at ndnapp.cpp:284, the second by the next reply.
  `faces_` has the second only, and `removeRoute` closes no other.
* In `identity`, an application identity whose creation was interrupted is taken
  as it is found (identity-manager.cpp:133). Its renewal signs it, if the Face is
  ever processed.
* `ShutsDown` and `CommandsAreExecuted` are stated for behaviours without
  failures. Without `reliable` they fail: a fetch command that throws unwinds
  past a joinable thread, so that the process terminates and the catch at
  main.cpp:374 is never reached, and a SIGINT that interrupts a thread inside the
  logger makes that thread wait for its own mutex.
* The queue of the main loop never gets shorter than the commands posted so far
  (`BacklogIsCommands`): each command delays every later turn of events and every
  later command by one turn, for good.
* `onObject` logs `totalSegments_+1` segments (fileshare.cpp:104), where
  `ProgressIsRight` says that `totalSegments_` is already their number.

## 5. What is proved

`NdnSdProofs.tla`, for any sets of handles, descriptors, names and interfaces
and any bounds, under the assumptions `NdnSd.tla` names for its constants (there
is a null handle, descriptors are natural numbers, ...):

| Theorem | Property | Extra assumption |
|---|---|---|
| `TypeCorrect` | `TypeOK` | |
| `LiveRequestsAlwaysKeepTheirHandles` | `LiveRequestsKeepTheirHandles` | |
| `RunLoopAlwaysWatchesHandles` | `RunLoopWatchesHandles` | |
| `OwnersAlwaysHoldTheirHandles` | an open handle has one owner at most, and no owner's handle is closed | |
| `HandlesAlwaysMatchRequests` | `HandlesMatchRequests` | `"reannounce" \notin Reentrant` |
| `IteratorAlwaysValid` | `IteratorIsValid` | `"cancelOther" \notin Reentrant` |
| `RunNeverBlocks` | `NeverBlocks` | `"cancelOther" \notin Reentrant` |

The assumptions are the switches of section 4: the counterexamples there show
that they are needed. None of the theorems assumes anything of `Faults`.

*Handles.* `HandlesMatchRequests` is not inductive: that a newly opened handle
has no owner needs the map to agree with the handles, that releasing one request
leaves the others' handles alone needs the owners to be distinct, and that the
end of a resolve callback releases the right request needs `reporting` to name a
live one. `HandleInv` is the conjunction, and it is inductive for any callbacks.
Only one part of it depends on the switch: `NothingLeaks`, that every open handle
has an owner. It needs to know that while `announce` is suspended the object is
not registered, which is what `"reannounce"` breaks. So a callback that announces
again leaks a handle, and breaks nothing else of it: the owners keep theirs, and the
descriptor map still watches exactly the open ones (the leaked one too).

*The loop.* `LoopInv` adds what the loop knows: the current handle is open and
is not the one `nextIt` stands on, the descriptors in `ready` from `nextIt` on
belong to handles that still have their reply, and callbacks remove nothing but
the current handle. `ready` cannot be said of every descriptor: those already
visited may have been freed and given to new requests.

`NdnSdRefinement.tla`, for the same constants, any callbacks and any faults:

| Theorem | Property |
|---|---|
| `AlwaysImplementsServiceBrowser` | `ImplementsServiceBrowser` |
| `DiscoveredAlwaysCounts` | `DiscoveredCounts` |

*Refinement.* Each action of `NdnSd` has a lemma that it is a step of
`ServiceBrowser` under the mapping of section 2, or a stutter. What the steps need is
`RefineInv`: `HandleInv` (two requests never have one handle, so what the daemon
tells one is present for that one only), `RequestInv` (a list belongs to a live
request and has no object twice, a resolve request has a handle exactly as long as
it has an object, and that object is resolved while it is reported), and the
invariant `BrowserInv` of the abstract specification at the mapped variables. The
last is not proved a second time: since a step of `NdnSd` is a step of
`ServiceBrowser`, it is inherited. It is needed for the removal: `browseReply`
erases the first entry with the name, if any, and `Disappear` requires that there
is one. There is, because the list has as many objects of the name as the daemon
has reported interfaces. `Abstract` is the instance of `ServiceBrowserProofs` that
the lemmas are about; its `Next` and the one of `NdnSd!Browser` are shown to agree
before the theorem is stated. That neither switch is assumed away says that what a
user sees of the lists does not depend on the two flaws.

`ServiceBrowserProofs.tla`, for any names, interfaces and numbers of requests:
`ListsAlwaysFollowPresence` and `ListsAlwaysDisjoint`, the two invariants
`ServiceBrowser.tla` states. `BrowserInv` adds that only requests that browse have
something listed and present, and that both are finite, without which their
cardinalities mean nothing.

`TxtRecordProofs.tla`, for any sets of lengths of prefixes and certificates and any
number of announcements (`LengthAssumption`, `AbsentAssumption`, `BoundAssumption`):

| Theorem | Property |
|---|---|
| `TypeCorrect` | `TypeOK` |
| `ValuesAlwaysArriveWhole` | `ValuesArriveWhole` |
| `CertificateIsAlwaysOfPrefix` | `CertificateIsOfPrefix` |
| `AddressIsAlwaysOfPrefix` | `AddressIsOfPrefix` |

*Records.* `RecordInv` says that the record registered, the reply that waits and
each value of the object come from some announcement through `SetValue`
(`RecordOf`, `IsPrefix`, `IsCert`), so that values of two announcements can be
mixed and nothing else can be read. `ObjectInv` then says which mixtures there
are. The getters show them only when the object is resolved; the invariant has
to say so of the fields themselves.

`NdnAppProofs.tla`, for any instances, interfaces, protocols configured and number
of objects, with or without filtering, with every fault of the model:

| Theorem | Property |
|---|---|
| `TypeCorrect` | `TypeOK` |
| `KnownInstancesAreAlwaysListed` | `KnownInstancesAreListed` |
| `FacesAreAlwaysKnown` | `FacesAreKnown` |
| `ListedObjectsAlwaysKeepTheirFace` | `ListedObjectsKeepTheirFace` |
| `ListsAlwaysFollowPresence` | per protocol, as many objects of an uuid are listed as interfaces it is present on |
| `RemovalsAlwaysFindAnObject` | a service that is present has a first object of its name |

*Routes.* `FacesAreKnown` is not inductive: a resolve reply opens a face whether
or not there is one, so `RouteInv` says that an object being resolved has none and
is not in `faces_` yet, unless its callback threw, and that a listed object in
`faces_` still has a face (a removal closes one face of an object that is in
`faces_`, and takes it off the list in the same step). Both rest on an object being
new when it is listed, and on a list having no object twice, so that what is erased
is gone. `OpenedFace` is the step that the callbacks which return and those which
throw have in common. `PresenceInv`
connects this module with the two above: it keeps only what a browse request
shows, and that is what `ServiceBrowser` promises of one.

`IdentityManagerProofs.tla`, for any set of signing identities, any lifetimes of
application and self-signed certificates and any instance lifetime longer than
the renewal window (`LifetimeAssumption`; an hour against a quarter in the code):

| Theorem | Property |
|---|---|
| `TypeCorrect` | `TypeOK` |
| `AppIsAlwaysSigned` | `AppIsSigned` |
| `InstanceAlwaysValidUntilRenewal` | `InstanceIsValidUntilRenewal` |
| `InstanceAlwaysFollowsApp` | `InstanceFollowsApp` |

*Certificates.* Who signed an application's certificate has to be known of every
identity in the key chain, since a later start may take any of them: `CertInv` says
so, and that no certificate is from the future, which `InstanceFollowsApp` needs
when a start takes an old one. `SignedInv` says which identities have none: those
in `interrupted`, and the one that `setup` is about to sign. `TimerInv` ties the
instance's timer to the certificate it stands for: it is not set beyond its end.
A late renewal of the application replaces that certificate while the timer stays;
this only moves the end forward, because no instance certificate ends later than a
lifetime from now.

`NdnShareProofs.tla`, for any objects with any number of segments, any files and
any number of commands (`LastNameAssumption`, `LastSegmentAssumption`,
`EventsAssumption`, `CommandsAssumption`), with every fault of the model:

| Theorem | Property |
|---|---|
| `TypeCorrect` | `TypeOK` |
| `BacklogIsAlwaysCommands` | `BacklogIsCommands` |
| `ProgressIsAlwaysRight` | `ProgressIsRight` |
| `PublishedIsAlwaysOwnOrFetched` | `PublishedIsOwnOrFetched` |
| `FetchedFilesAlwaysStay` | `FetchedFilesStay` |

*Main loop.* `TypeInv` adds that the task executed in `fetch` is a command.
`PeerSteps` then says what any step of the two threads does to FileshareClient:
nothing, one `Fetch`, or what one packet makes it do.

*Fetches.* `ProgressIsRight` is not inductive: `CountInv` says that what is
counted is the number of segments that have arrived, all of them segments of the
object, and that the total is known exactly when segment 0 is among them.
`FilesInv` says of the directory what `PublishedIsOwnOrFetched` says of what is
published, since the one is where the other is read from. `HeldInv` states
`FetchedFilesStay` per file; it rests on `FetchesStay`: no step takes back that a
fetch is complete or changes its object.

*Model-checked only.* The liveness properties: `RepliesAreRead`, `RunReturns`,
`PresentObjectsGetAFace`, `ResolveRequestsEnd`, `CommandsAreExecuted`,
`EventsKeepRunning` and `ShutsDown`. They rest on fairness, and the provers here
reason neither about it nor about ENABLED. Every invariant and every action
property of the passing runs has a theorem.

*What the theorems take from the models.* They hold for every value of the
constants and not for more than the modules describe: the abstractions of section
2 and the external assumptions on the daemon, ndn-ind and cnl-cpp are theirs too.

## 6. Plan

1. Safety halves of the liveness properties, as invariants: a reply that waits
   has its descriptor in the map and, within a pass, ahead of `nextIt` or read
   already; a posted command is in the queue until it is executed.
2. That the part of `NdnApp` that stands for one NdnSd is a step of
   `ServiceBrowser` for the requests App opens. `PresenceInv` is its first half:
   the resolve requests of `NdnApp` have no ids, so that a mapping has to choose
   them.

## 7. Not modelled

* `makeRegType` and `parseProtocol` turn a protocol into a text and back, and
  `dnsSdErrorMessage`, `getVersion`, the MIME table, the UUID generator, the
  logging macros and `printAppInfo` are tables and texts: they have no state, and
  no step depends on them.
* `generateSignedIdentity` is a second way into `createSignedIdentity` that App
  does not use; the content of `memCache_` is read by nothing in the repository.
* The parsing of the command line, the `log` and `files` commands, and the
  embedded keys of `main.cpp`, which are not used.
* Names that need escaping: `onObjectNeeded` looks up and publishes the escaped
  name, so such a file is not found under its own. That is one conversion, with
  no state behind it.
* The DNS-SD daemon and library, the microforwarder, ndn-ind, cnl-cpp and cli are
  external: the models hold what the code relies on.
