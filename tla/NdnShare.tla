------------------------------ MODULE NdnShare ------------------------------
(***************************************************************************)
(* ndnshare (src/src/ndnshare/main.cpp): its main loop, which executes one *)
(* task of a queue per turn, the terminal's thread, which posts commands   *)
(* to the queue or reads the application's state by itself, and SIGINT.    *)
(*                                                                         *)
(* The schedulers (cli::LoopScheduler) are external: Post appends a task,  *)
(* ExecOne waits for one and executes the first, Run executes them until   *)
(* Stop.  The application (NdnApp.tla) is its turn in processEvents: first *)
(* the packets that have arrived, then what its NdnSd discover.            *)
(***************************************************************************)
EXTENDS Fileshare

CONSTANTS
    Events,      \* the task that processes events
    MaxCommands  \* bound on the commands posted

ASSUME EventsAssumption == Events \notin Object
ASSUME CommandsAssumption == MaxCommands \in Nat

VARIABLES
    run,         \* the flag both threads test
    queue,       \* the tasks of sessionLoop: Events, or the object to fetch
    posted,      \* the commands posted so far
    pc,          \* where the main thread is
    task,        \* the command it executes in "fetch"
    terminal,    \* where the terminal's thread is
    isStopped,   \* runLoop is stopped
    isReadWhole  \* nothing has changed the nodes while they are read

loopVars == <<run, queue, posted, pc, task>>
terminalVars == <<terminal, isStopped, isReadWhole>>
vars == <<peerVars, loopVars, terminalVars>>

Task == Object \cup {Events}

-----------------------------------------------------------------------------
(* The main thread.                                                        *)

(* Mutants: events are posted only to an empty queue, before which ExecOne *)
(* is called; the thread is joined without Stop.                           *)
ExecBeforePost ==
    /\ pc = "loop"
    /\ run
    /\ queue' = IF posted > 0 THEN queue ELSE Append(queue, Events)
    /\ pc' = "exec"
    /\ UNCHANGED <<peerVars, run, posted, task, terminalVars>>
LeaveLoopUnstopped ==
    /\ pc = "loop"
    /\ ~run
    /\ pc' = "join"
    /\ UNCHANGED <<peerVars, run, queue, posted, task, terminalVars>>

PostEvents ==
    /\ pc = "loop"
    /\ run
    /\ queue' = Append(queue, Events)
    /\ pc' = "exec"
    /\ UNCHANGED <<peerVars, run, posted, task, terminalVars>>

(* Mutant: the last task is executed first.                                *)
ExecLast ==
    /\ pc = "exec"
    /\ queue # <<>>
    /\ LET last == queue[Len(queue)]
       IN  /\ pc' = IF last = Events THEN "packets" ELSE "fetch"
           /\ task' = last
    /\ queue' = SubSeq(queue, 1, Len(queue) - 1)
    /\ UNCHANGED <<peerVars, run, posted, terminalVars>>

ExecOne ==
    /\ pc = "exec"
    /\ queue # <<>>
    /\ pc' = IF Head(queue) = Events THEN "packets" ELSE "fetch"
    /\ task' = Head(queue)
    /\ queue' = Tail(queue)
    /\ UNCHANGED <<peerVars, run, posted, terminalVars>>

ExecFetch ==
    /\ pc = "fetch"
    /\ Fetch(task)
    /\ pc' = "loop"
    /\ UNCHANGED <<run, queue, posted, task, terminalVars>>

(* No task but processEvents catches: the exception leaves the scope of a  *)
(* thread that is joinable, which ends the process.                        *)
ExecFetchThrows ==
    /\ pc = "fetch"
    /\ ~reliable
    /\ pc' = "terminated"
    /\ UNCHANGED <<peerVars, run, queue, posted, task, terminalVars>>

(* processEvents: any number of packets, then what is discovered.          *)
Packet ==
    /\ pc = "packets"
    /\ PacketArrives
    /\ UNCHANGED <<loopVars, terminalVars>>

(* Mutant: the exception is not caught.                                    *)
PacketThrowsOut ==
    /\ pc = "packets"
    /\ \E file \in File : ObjectNeededThrows(file)
    /\ pc' = "terminated"
    /\ UNCHANGED <<run, queue, posted, task, terminalVars>>

(* The exception is caught; the rest of the turn is skipped.               *)
PacketThrows ==
    /\ pc = "packets"
    /\ \E file \in File : ObjectNeededThrows(file)
    /\ pc' = "loop"
    /\ UNCHANGED <<run, queue, posted, task, terminalVars>>

PacketsEnd ==
    /\ pc = "packets"
    /\ pc' = "discovery"
    /\ UNCHANGED <<peerVars, run, queue, posted, task, terminalVars>>

(* The nodes, faces and routes change, also while the terminal reads them. *)
Discover ==
    /\ pc = "discovery"
    /\ isReadWhole' = (isReadWhole /\ terminal # "reading")
    /\ UNCHANGED <<peerVars, loopVars, terminal, isStopped>>

(* App::processEvents() returns or throws.  FileshareClient's throws once  *)
(* the prefix could not be registered; all of it is caught and logged.     *)
EventsEnd ==
    /\ pc = "discovery"
    /\ pc' = "loop"
    /\ UNCHANGED <<peerVars, run, queue, posted, task, terminalVars>>

LeaveLoop ==
    /\ pc = "loop"
    /\ ~run
    /\ isStopped' = TRUE
    /\ pc' = "join"
    /\ UNCHANGED <<peerVars, run, queue, posted, task, terminal, isReadWhole>>

Join ==
    /\ pc = "join"
    /\ terminal = "done"
    /\ pc' = "exited"
    /\ UNCHANGED <<peerVars, run, queue, posted, task, terminalVars>>

-----------------------------------------------------------------------------
(* The terminal's thread, in a task of its scheduler or waiting for one.   *)

ReadsCommand == terminal = "waiting" /\ ~isStopped

FetchCommand(o) ==
    /\ ReadsCommand
    /\ posted < MaxCommands
    /\ queue' = Append(queue, o)
    /\ posted' = posted + 1
    /\ UNCHANGED <<peerVars, run, pc, task, terminalVars>>

(* nodes, faces and routes.                                                *)
ReadNodes ==
    /\ ReadsCommand
    /\ terminal' = "reading"
    /\ UNCHANGED <<peerVars, loopVars, isStopped, isReadWhole>>

(* A command that throws is logged and Run called again.                   *)
NodesAreRead ==
    /\ terminal = "reading"
    /\ terminal' = "waiting"
    /\ isReadWhole' = TRUE
    /\ UNCHANGED <<peerVars, loopVars, isStopped>>

Exit ==
    /\ ReadsCommand
    /\ run' = FALSE
    /\ UNCHANGED <<peerVars, queue, posted, pc, task, terminalVars>>

(* An exception ends the thread when run is no longer set.                 *)
RunEnds ==
    /\ terminal = "waiting"
    /\ ~run
    /\ isStopped \/ ~reliable
    /\ terminal' = "done"
    /\ UNCHANGED <<peerVars, loopVars, isStopped, isReadWhole>>

(* signal_handler()                                                        *)
Interrupt ==
    /\ run' = FALSE
    /\ UNCHANGED <<peerVars, queue, posted, pc, task, terminalVars>>

(* It logs: a thread that was logging waits for the mutex it holds.        *)
InterruptLogging ==
    /\ ~reliable
    /\ run' = FALSE
    /\ \/ /\ pc \in {"fetch", "packets", "discovery"}
          /\ pc' = "stuck"
          /\ UNCHANGED terminal
       \/ /\ terminal = "waiting"
          /\ terminal' = "stuck"
          /\ UNCHANGED pc
    /\ UNCHANGED <<peerVars, queue, posted, task, isStopped, isReadWhole>>

-----------------------------------------------------------------------------
Init ==
    /\ FileshareInit
    /\ run = TRUE
    /\ queue = <<>>
    /\ posted = 0
    /\ pc = "loop"
    /\ task = Events
    /\ terminal = "waiting"
    /\ isStopped = FALSE
    /\ isReadWhole = TRUE

MainThread ==
    \/ PostEvents
    \/ ExecOne
    \/ ExecFetch
    \/ ExecFetchThrows
    \/ Packet
    \/ PacketThrows
    \/ PacketsEnd
    \/ Discover
    \/ EventsEnd
    \/ LeaveLoop
    \/ Join

Alive == pc \notin {"exited", "terminated"}

Terminal ==
    /\ Alive
    /\ \/ \E o \in Object : FetchCommand(o)
       \/ ReadNodes
       \/ NodesAreRead
       \/ Exit
       \/ RunEnds

Signal == Alive /\ (Interrupt \/ InterruptLogging)

Next == MainThread \/ Terminal \/ Signal

Spec == Init /\ [][Next]_vars

(* Both threads take their next step, and a turn of events ends.           *)
Fairness ==
    /\ WF_vars(PostEvents \/ ExecOne \/ ExecFetch \/ LeaveLoop \/ Join)
    /\ WF_vars(PacketsEnd \/ PacketThrows)
    /\ WF_vars(EventsEnd)
    /\ WF_vars(Terminal /\ terminal = "reading")
    /\ WF_vars(Alive /\ RunEnds)

FairSpec == Spec /\ Fairness

-----------------------------------------------------------------------------
(* The variables have the types the code gives them.                       *)
TypeOK ==
    /\ FileshareTypeOK
    /\ run \in BOOLEAN
    /\ queue \in Seq(Task)
    /\ posted \in 0 .. MaxCommands
    /\ pc \in {"loop", "exec", "fetch", "packets", "discovery", "join",
               "stuck", "exited", "terminated"}
    /\ task \in Task
    /\ terminal \in {"waiting", "reading", "done", "stuck"}
    /\ isStopped \in BOOLEAN
    /\ isReadWhole \in BOOLEAN

(* One task is posted and one executed per turn: each command ever posted  *)
(* keeps the queue longer by one, and ExecOne always finds a task.         *)
BacklogIsCommands ==
    Len(queue) = posted + (IF pc = "exec" THEN 1 ELSE 0)

(* A command is executed in the end, however much is posted to the queue,  *)
(* unless the process ends.                                                *)
CommandsAreExecuted ==
    \A n \in 1 .. MaxCommands :
      reliable /\ posted >= n ~> Len(fetches) >= n \/ ~run

(* Events are processed again and again, whatever they throw.              *)
EventsKeepRunning ==
    [](reliable => <>(pc = "packets" \/ ~run))

(* When run is no longer set the process ends, wherever its threads are.   *)
ShutsDown == reliable /\ ~run ~> pc = "exited"

-----------------------------------------------------------------------------
(* "Print all discovered nodes" (main.cpp:323): the list does not change   *)
(* while it is printed.                                                    *)
NodesAreReadWhole == terminal = "reading" => isReadWhole

=============================================================================
