--------------------------- MODULE NdnShareProofs ---------------------------
(***************************************************************************)
(* Theorems about NdnShare and Fileshare: types, the backlog of the main   *)
(* loop, the progress of fetches, and what is published.                   *)
(***************************************************************************)
EXTENDS NdnShare, FiniteSetTheorems, TLAPS

-----------------------------------------------------------------------------
(* Types.                                                                  *)

LEMMA CountSegmentKeepsType ==
    ASSUME NEW f \in FetchProgress, NEW s \in Segments(f.object)
    PROVE  CountSegment(f, s) \in FetchProgress
<1>1. LastSegment[f.object] + 1 \in Nat
  BY LastSegmentAssumption DEF FetchProgress
<1>2. f.arrived \cup {s} \in SUBSET UNION {Segments(o) : o \in Object}
  BY DEF FetchProgress
<1>3. f.receivedCount + 1 \in Nat
  BY DEF FetchProgress
<1> QED
  BY <1>1, <1>2, <1>3 DEF CountSegment, FetchProgress

LEMMA PacketKeepsTypes ==
    ASSUME FileshareTypeOK, PacketArrives
    PROVE  FileshareTypeOK'
<1>1. CASE PrefixRegisterFails
  BY <1>1 DEF PrefixRegisterFails, FileshareTypeOK
<1>2. ASSUME NEW file \in File, ObjectNeeded(file)
      PROVE  FileshareTypeOK'
  BY <1>2 DEF ObjectNeeded, FileshareTypeOK
<1>3. ASSUME NEW i \in DOMAIN fetches,
             NEW s \in Segments(fetches[i].object), SegmentReceived(i, s)
      PROVE  FileshareTypeOK'
  <2>1. fetches[i] \in FetchProgress
    BY DEF FileshareTypeOK
  <2>2. CountSegment(fetches[i], s) \in FetchProgress
    BY <2>1, CountSegmentKeepsType
  <2>3. fetches' \in Seq(FetchProgress)
    BY <1>3, <2>2 DEF SegmentReceived, FileshareTypeOK
  <2> QED
    BY <1>3, <2>3 DEF SegmentReceived, FileshareTypeOK
<1>4. ASSUME NEW i \in DOMAIN fetches, ObjectFetched(i)
      PROVE  FileshareTypeOK'
  <2>1. fetches[i] \in FetchProgress
    BY DEF FileshareTypeOK
  <2>2. [fetches[i] EXCEPT !.isFetched = TRUE] \in FetchProgress
    BY <2>1 DEF FetchProgress
  <2>3. fetches' \in Seq(FetchProgress)
    BY <1>4, <2>2 DEF ObjectFetched, FileshareTypeOK
  <2>4. fetches[i].object \in Content /\ Broken \in Content
    BY <2>1 DEF FetchProgress, Content
  <2>5. disk' \in [File -> Content]
    BY <1>4, <2>4 DEF ObjectFetched, WriteData, FileshareTypeOK
  <2> QED
    BY <1>4, <2>3, <2>5 DEF ObjectFetched, FileshareTypeOK
<1> QED
  BY <1>1, <1>2, <1>3, <1>4 DEF PacketArrives

LEMMA FetchKeepsTypes ==
    ASSUME FileshareTypeOK, NEW o \in Object, Fetch(o)
    PROVE  FileshareTypeOK'
<1> DEFINE f == [object |-> o, arrived |-> {}, receivedCount |-> 0,
                 totalSegments |-> 0, isFetched |-> FALSE]
<1>1. f \in FetchProgress
  BY DEF FetchProgress
<1>2. fetches' = Append(fetches, f)
  BY DEF Fetch
<1> QED
  BY <1>1, <1>2 DEF Fetch, FileshareTypeOK

LEMMA TypesHoldAtFirst == Init => TypeOK
<1> SUFFICES ASSUME Init PROVE TypeOK
  OBVIOUS
<1>1. disk \in [File -> Content] /\ published \in [File -> Content]
  BY DEF Init, FileshareInit, Content
<1>2. fetches \in Seq(FetchProgress)
  BY DEF Init, FileshareInit
<1>3. FileshareTypeOK
  BY <1>1, <1>2 DEF Init, FileshareInit, FileshareTypeOK
<1>4. posted \in 0 .. MaxCommands
  BY CommandsAssumption DEF Init
<1>5. queue \in Seq(Task) /\ task \in Task
  BY DEF Init, Task
<1> QED
  BY <1>3, <1>4, <1>5 DEF Init, TypeOK

(* In "fetch" the task is a command.                                       *)
TypeInv == TypeOK /\ (pc = "fetch" => task \in Object)

LEMMA TypesAreKept == TypeInv /\ [Next]_vars => TypeInv'
<1> SUFFICES ASSUME TypeInv, [Next]_vars PROVE TypeInv'
  OBVIOUS
<1> USE DEF TypeInv, TypeOK, Task
<1>0. UNCHANGED peerVars => FileshareTypeOK'
  BY DEF peerVars, FileshareTypeOK
<1>1. CASE PostEvents
  BY <1>1, <1>0 DEF PostEvents, terminalVars
<1>2. CASE ExecOne
  BY <1>2, <1>0, EventsAssumption DEF ExecOne, terminalVars
<1>3. CASE ExecFetch
  BY <1>3, FetchKeepsTypes DEF ExecFetch, terminalVars
<1>4. CASE ExecFetchThrows
  BY <1>4, <1>0 DEF ExecFetchThrows, terminalVars
<1>5. CASE Packet
  BY <1>5, PacketKeepsTypes DEF Packet, loopVars, terminalVars
<1>6. CASE PacketThrows
  BY <1>6, <1>0 DEF PacketThrows, ObjectNeededThrows, terminalVars
<1>7. CASE PacketsEnd
  BY <1>7, <1>0 DEF PacketsEnd, terminalVars
<1>8. CASE Discover
  BY <1>8, <1>0 DEF Discover, loopVars
<1>9. CASE EventsEnd
  BY <1>9, <1>0 DEF EventsEnd, terminalVars
<1>10. CASE LeaveLoop
  BY <1>10, <1>0 DEF LeaveLoop
<1>11. CASE Join
  BY <1>11, <1>0 DEF Join, terminalVars
<1>12. CASE Terminal
  <2>1. ASSUME NEW o \in Object, FetchCommand(o) PROVE TypeInv'
    BY <2>1, <1>0, CommandsAssumption DEF FetchCommand, terminalVars
  <2>2. CASE ReadNodes
    BY <2>2, <1>0 DEF ReadNodes, loopVars
  <2>3. CASE NodesAreRead
    BY <2>3, <1>0 DEF NodesAreRead, loopVars
  <2>4. CASE Exit
    BY <2>4, <1>0 DEF Exit, terminalVars
  <2>5. CASE RunEnds
    BY <2>5, <1>0 DEF RunEnds, loopVars
  <2> QED
    BY <1>12, <2>1, <2>2, <2>3, <2>4, <2>5 DEF Terminal
<1>13. CASE Signal
  <2>1. CASE Interrupt
    BY <2>1, <1>0 DEF Interrupt, terminalVars
  <2>2. CASE InterruptLogging
    BY <2>2, <1>0 DEF InterruptLogging
  <2> QED
    BY <1>13, <2>1, <2>2 DEF Signal
<1>14. CASE UNCHANGED vars
  BY <1>14, <1>0 DEF vars, loopVars, terminalVars
<1> QED
  BY <1>1, <1>2, <1>3, <1>4, <1>5, <1>6, <1>7, <1>8, <1>9, <1>10, <1>11,
     <1>12, <1>13, <1>14 DEF Next, MainThread

(* The variables keep the types the code gives them, whatever packets      *)
(* arrive and wherever the threads are interrupted.                        *)
THEOREM TypeCorrect == Spec => []TypeOK
<1>1. Init => TypeInv
  BY TypesHoldAtFirst DEF TypeInv, Init
<1>2. TypeInv => TypeOK
  BY DEF TypeInv
<1> QED
  BY <1>1, <1>2, TypesAreKept, PTL DEF Spec

-----------------------------------------------------------------------------
(* The queue of the main loop.                                             *)

LEMMA BacklogIsKept ==
    TypeOK /\ BacklogIsCommands /\ [Next]_vars => BacklogIsCommands'
<1> SUFFICES ASSUME TypeOK, BacklogIsCommands, [Next]_vars
             PROVE  BacklogIsCommands'
  OBVIOUS
<1> USE DEF BacklogIsCommands
<1>0. queue \in Seq(Task) /\ posted \in Nat
  BY CommandsAssumption DEF TypeOK
<1>1. CASE PostEvents
  <2>1. Len(queue') = Len(queue) + 1
    BY <1>0, <1>1 DEF PostEvents, Task
  <2> QED
    BY <1>0, <1>1, <2>1 DEF PostEvents
<1>2. CASE ExecOne
  <2>1. Len(queue') = Len(queue) - 1
    BY <1>0, <1>2 DEF ExecOne
  <2> QED
    BY <1>0, <1>2, <2>1 DEF ExecOne
<1>3. ASSUME NEW o \in Object, FetchCommand(o)
      PROVE  BacklogIsCommands'
  <2>1. Len(queue') = Len(queue) + 1
    BY <1>0, <1>3 DEF FetchCommand, Task
  <2> QED
    BY <1>0, <1>3, <2>1 DEF FetchCommand
<1>4. ASSUME UNCHANGED <<queue, posted>>, pc # "exec", pc' # "exec"
      PROVE  BacklogIsCommands'
  BY <1>4
<1>5. ASSUME UNCHANGED <<queue, posted, pc>>
      PROVE  BacklogIsCommands'
  BY <1>5
<1>6. CASE ExecFetch \/ ExecFetchThrows \/ PacketThrows \/ PacketsEnd
           \/ EventsEnd \/ LeaveLoop \/ Join
  BY <1>4, <1>6 DEF ExecFetch, ExecFetchThrows, PacketThrows, PacketsEnd,
                    EventsEnd, LeaveLoop, Join
<1>7. CASE Packet \/ Discover \/ UNCHANGED vars
  BY <1>5, <1>7 DEF Packet, Discover, vars, loopVars
<1>8. CASE ReadNodes \/ NodesAreRead \/ Exit \/ RunEnds \/ Interrupt
  BY <1>5, <1>8 DEF ReadNodes, NodesAreRead, Exit, RunEnds, Interrupt, loopVars
<1>9. CASE InterruptLogging
  BY <1>4, <1>5, <1>9 DEF InterruptLogging
<1> QED
  BY <1>1, <1>2, <1>3, <1>6, <1>7, <1>8, <1>9
     DEF Next, MainThread, Terminal, Signal

(* The queue is as long as the number of commands ever posted, plus the    *)
(* task of the turn: it never gets shorter, and ExecOne never waits.       *)
THEOREM BacklogIsAlwaysCommands == Spec => []BacklogIsCommands
<1>1. Init => BacklogIsCommands
  BY DEF Init, BacklogIsCommands
<1> QED
  BY <1>1, BacklogIsKept, TypeCorrect, PTL DEF Spec

-----------------------------------------------------------------------------
(* What a step does to the files and the fetches.                          *)

LEMMA PeerSteps ==
    ASSUME TypeInv, [Next]_vars
    PROVE  UNCHANGED peerVars \/ (\E o \in Object : Fetch(o)) \/ PacketArrives
<1>1. CASE UNCHANGED vars
  BY <1>1 DEF vars
<1>2. CASE MainThread
  BY <1>2 DEF MainThread, TypeInv, PostEvents, ExecOne, ExecFetch,
              ExecFetchThrows, Packet, PacketThrows, ObjectNeededThrows,
              PacketsEnd, Discover, EventsEnd, LeaveLoop, Join
<1>3. CASE Terminal
  BY <1>3 DEF Terminal, FetchCommand, ReadNodes, NodesAreRead, Exit, RunEnds
<1>4. CASE Signal
  BY <1>4 DEF Signal, Interrupt, InterruptLogging
<1> QED
  BY <1>1, <1>2, <1>3, <1>4 DEF Next

LEMMA FetchesStay ==
    ASSUME TypeInv, [Next]_vars, NEW j \in DOMAIN fetches
    PROVE  /\ j \in DOMAIN fetches'
           /\ fetches'[j].object = fetches[j].object
           /\ fetches[j].isFetched => fetches'[j].isFetched
<1>0. fetches \in Seq(FetchProgress) /\ fetches[j] \in FetchProgress
  BY DEF TypeInv, TypeOK, FileshareTypeOK
<1>1. CASE UNCHANGED fetches
  BY <1>1
<1>2. ASSUME NEW o \in Object, Fetch(o)
      PROVE  j \in DOMAIN fetches' /\ fetches'[j] = fetches[j]
  BY <1>0, <1>2 DEF Fetch
<1>3. ASSUME NEW i \in DOMAIN fetches,
             NEW s \in Segments(fetches[i].object), SegmentReceived(i, s)
      PROVE  /\ j \in DOMAIN fetches'
             /\ fetches'[j].object = fetches[j].object
             /\ fetches[j].isFetched => fetches'[j].isFetched
  <2>1. j \in DOMAIN fetches'
        /\ fetches'[j] = IF j = i THEN CountSegment(fetches[j], s) ELSE fetches[j]
    BY <1>0, <1>3 DEF SegmentReceived
  <2> QED
    BY <1>0, <2>1 DEF CountSegment, FetchProgress
<1>4. ASSUME NEW i \in DOMAIN fetches, ObjectFetched(i)
      PROVE  /\ j \in DOMAIN fetches'
             /\ fetches'[j].object = fetches[j].object
             /\ fetches[j].isFetched => fetches'[j].isFetched
  <2>1. j \in DOMAIN fetches'
        /\ fetches'[j] = IF j = i THEN [fetches[j] EXCEPT !.isFetched = TRUE]
                                  ELSE fetches[j]
    BY <1>0, <1>4 DEF ObjectFetched
  <2> QED
    BY <1>0, <2>1 DEF FetchProgress
<1> QED
  BY <1>1, <1>2, <1>3, <1>4, PeerSteps
     DEF peerVars, PacketArrives, PrefixRegisterFails, ObjectNeeded

(* A fetch that completes stores its object, unless there is a directory.  *)
LEMMA FetchIsStored ==
    ASSUME TypeInv, [Next]_vars, NEW i \in DOMAIN fetches, ObjectFetched(i)
    PROVE  /\ fetches'[i].isFetched
           /\ DOMAIN fetches' = DOMAIN fetches
           /\ \A j \in DOMAIN fetches : j # i => fetches'[j] = fetches[j]
           /\ \A file \in File :
                file # LastName[fetches[i].object] => disk'[file] = disk[file]
           /\ reliable => LET file == LastName[fetches[i].object]
                          IN  IF disk[file] = Directory
                              THEN disk' = disk
                              ELSE disk'[file] = fetches[i].object
<1>0. /\ fetches \in Seq(FetchProgress) /\ fetches[i] \in FetchProgress
      /\ disk \in [File -> Content]
      /\ LastName[fetches[i].object] \in File
  <2>1. /\ fetches \in Seq(FetchProgress) /\ fetches[i] \in FetchProgress
        /\ disk \in [File -> Content]
    BY DEF TypeInv, TypeOK, FileshareTypeOK
  <2>2. fetches[i].object \in Object
    BY <2>1 DEF FetchProgress
  <2> QED
    BY <2>1, <2>2, LastNameAssumption
<1>1. /\ DOMAIN fetches' = DOMAIN fetches
      /\ fetches'[i] = [fetches[i] EXCEPT !.isFetched = TRUE]
      /\ \A j \in DOMAIN fetches : j # i => fetches'[j] = fetches[j]
  BY <1>0 DEF ObjectFetched
<1>2. fetches'[i].isFetched
  BY <1>0, <1>1 DEF FetchProgress
<1>3. \A file \in File :
        file # LastName[fetches[i].object] => disk'[file] = disk[file]
  BY <1>0 DEF ObjectFetched, WriteData
<1>4. reliable => IF disk[LastName[fetches[i].object]] = Directory
                  THEN disk' = disk
                  ELSE disk'[LastName[fetches[i].object]] = fetches[i].object
  BY <1>0 DEF ObjectFetched, WriteData
<1> QED
  BY <1>1, <1>2, <1>3, <1>4

-----------------------------------------------------------------------------
(* The progress of a fetch: what is counted is what has arrived.           *)

ProgressInv(f) ==
    /\ f.arrived \subseteq Segments(f.object)
    /\ f.receivedCount = Cardinality(f.arrived)
    /\ f.totalSegments = IF 0 \in f.arrived THEN LastSegment[f.object] + 1 ELSE 0
    /\ f.isFetched => f.arrived = Segments(f.object)

CountInv == \A i \in DOMAIN fetches : ProgressInv(fetches[i])

LEMMA SegmentsCardinality ==
    ASSUME NEW o \in Object
    PROVE  /\ IsFiniteSet(Segments(o))
           /\ Cardinality(Segments(o)) = LastSegment[o] + 1
           /\ LastSegment[o] \in Nat
           /\ 0 \in Segments(o)
<1>1. LastSegment[o] \in Nat
  BY LastSegmentAssumption
<1> QED
  BY <1>1, FS_Interval DEF Segments

LEMMA CountSegmentCounts ==
    ASSUME NEW f \in FetchProgress, ProgressInv(f),
           NEW s \in Segments(f.object), s \notin f.arrived
    PROVE  ProgressInv(CountSegment(f, s))
<1> DEFINE g == CountSegment(f, s)
<1>1. /\ g.object = f.object
      /\ g.arrived = f.arrived \cup {s}
      /\ g.receivedCount = f.receivedCount + 1
      /\ g.totalSegments = IF s = 0 THEN LastSegment[f.object] + 1
                                    ELSE f.totalSegments
      /\ g.isFetched = f.isFetched
  BY DEF CountSegment, FetchProgress
<1>2. f.object \in Object
  BY DEF FetchProgress
<1>3. IsFiniteSet(f.arrived)
  BY <1>2, SegmentsCardinality, FS_Subset DEF ProgressInv
<1>4. Cardinality(g.arrived) = Cardinality(f.arrived) + 1
  BY <1>1, <1>3, FS_AddElement
<1>5. g.arrived \subseteq Segments(g.object)
  BY <1>1 DEF ProgressInv
<1>6. g.totalSegments = IF 0 \in g.arrived THEN LastSegment[g.object] + 1 ELSE 0
  BY <1>1 DEF ProgressInv
<1>7. ~f.isFetched
  BY DEF ProgressInv
<1> HIDE DEF g
<1>8. ProgressInv(g)
  BY <1>1, <1>4, <1>5, <1>6, <1>7 DEF ProgressInv
<1> QED
  BY <1>8 DEF g

LEMMA CountIsKept == TypeInv /\ CountInv /\ [Next]_vars => CountInv'
<1> SUFFICES ASSUME TypeInv, CountInv, [Next]_vars,
                    NEW j \in DOMAIN fetches'
             PROVE  ProgressInv(fetches'[j])
  BY DEF CountInv, ProgressInv, Segments
<1>0. fetches \in Seq(FetchProgress)
  BY DEF TypeInv, TypeOK, FileshareTypeOK
<1>1. CASE UNCHANGED fetches
  BY <1>1 DEF CountInv
<1>2. ASSUME NEW o \in Object, Fetch(o)
      PROVE  ProgressInv(fetches'[j])
  <2> DEFINE f == [object |-> o, arrived |-> {}, receivedCount |-> 0,
                   totalSegments |-> 0, isFetched |-> FALSE]
  <2>1. fetches' = Append(fetches, f)
    BY <1>2 DEF Fetch
  <2>2. ProgressInv(f)
    BY FS_EmptySet DEF ProgressInv
  <2> HIDE DEF f
  <2>3. fetches'[j] = f \/ (j \in DOMAIN fetches /\ fetches'[j] = fetches[j])
    BY <1>0, <2>1
  <2> QED
    BY <2>2, <2>3 DEF CountInv
<1>3. ASSUME NEW i \in DOMAIN fetches,
             NEW s \in Segments(fetches[i].object), SegmentReceived(i, s)
      PROVE  ProgressInv(fetches'[j])
  <2>1. fetches[i] \in FetchProgress /\ ProgressInv(fetches[i])
    BY <1>0 DEF CountInv
  <2>2. ProgressInv(CountSegment(fetches[i], s))
    BY <1>3, <2>1, CountSegmentCounts DEF SegmentReceived
  <2>3. fetches'[j] = IF j = i THEN CountSegment(fetches[i], s) ELSE fetches[j]
    BY <1>0, <1>3 DEF SegmentReceived
  <2>4. j \in DOMAIN fetches
    BY <1>0, <1>3 DEF SegmentReceived
  <2> QED
    BY <2>2, <2>3, <2>4 DEF CountInv
<1>4. ASSUME NEW i \in DOMAIN fetches, ObjectFetched(i)
      PROVE  ProgressInv(fetches'[j])
  <2>1. fetches[i] \in FetchProgress /\ ProgressInv(fetches[i])
    BY <1>0 DEF CountInv
  <2>2. ProgressInv([fetches[i] EXCEPT !.isFetched = TRUE])
    BY <1>4, <2>1 DEF ObjectFetched, ProgressInv, FetchProgress
  <2>3. j \in DOMAIN fetches
    BY <1>0, <1>4 DEF ObjectFetched
  <2>4. fetches'[j] = IF j = i THEN [fetches[i] EXCEPT !.isFetched = TRUE]
                               ELSE fetches[j]
    BY <1>0, <1>4, <2>3 DEF ObjectFetched
  <2> QED
    BY <2>2, <2>3, <2>4 DEF CountInv
<1>5. UNCHANGED fetches
      \/ (\E o \in Object : Fetch(o))
      \/ (\E i \in DOMAIN fetches :
            \E s \in Segments(fetches[i].object) : SegmentReceived(i, s))
      \/ (\E i \in DOMAIN fetches : ObjectFetched(i))
  BY PeerSteps DEF peerVars, PacketArrives, PrefixRegisterFails, ObjectNeeded
<1> QED
  BY <1>1, <1>2, <1>3, <1>4, <1>5

LEMMA CountIsProgress == TypeInv /\ CountInv => ProgressIsRight
<1> SUFFICES ASSUME TypeInv, CountInv, NEW i \in DOMAIN fetches
             PROVE  /\ fetches[i].totalSegments # 0
                         => fetches[i].receivedCount <= fetches[i].totalSegments
                    /\ fetches[i].isFetched
                         => fetches[i].receivedCount = fetches[i].totalSegments
  BY DEF ProgressIsRight
<1>1. fetches[i] \in FetchProgress /\ ProgressInv(fetches[i])
  BY DEF TypeInv, TypeOK, FileshareTypeOK, CountInv
<1> DEFINE f == fetches[i]
<1>2. f.object \in Object
  BY <1>1 DEF FetchProgress
<1>3. Cardinality(f.arrived) <= LastSegment[f.object] + 1
  BY <1>1, <1>2, SegmentsCardinality, FS_Subset DEF ProgressInv
<1>4. f.isFetched => Cardinality(f.arrived) = LastSegment[f.object] + 1
                     /\ 0 \in f.arrived
  BY <1>1, <1>2, SegmentsCardinality DEF ProgressInv
<1> QED
  BY <1>1, <1>3, <1>4 DEF ProgressInv

(* The progress shown of a fetch never exceeds its total and reaches it    *)
(* with the last segment, for any sizes and any order of segments.         *)
THEOREM ProgressIsAlwaysRight == Spec => []ProgressIsRight
<1>1. Init => TypeInv /\ CountInv
  BY TypesHoldAtFirst DEF TypeInv, Init, FileshareInit, CountInv
<1>2. TypeInv /\ CountInv /\ [Next]_vars => TypeInv' /\ CountInv'
  BY TypesAreKept, CountIsKept
<1> QED
  BY <1>1, <1>2, CountIsProgress, PTL DEF Spec

-----------------------------------------------------------------------------
(* What is published: what the directory held when it was asked for.       *)

IsFetchOf(f, file) == f.isFetched /\ LastName[f.object] = file

IsStored(file) == \E i \in DOMAIN fetches : IsFetchOf(fetches[i], file)

(* Also what may be published next is the user's or was stored by a fetch. *)
FilesInv ==
    \A file \in File :
      /\ published[file] \in {Own, NoFile} \/ IsStored(file)
      /\ disk[file] \in {Own, NoFile, Directory} \/ IsStored(file)

LEMMA StoredStays ==
    ASSUME TypeInv, [Next]_vars, NEW file \in File, IsStored(file)
    PROVE  IsStored(file)'
<1> PICK j \in DOMAIN fetches : IsFetchOf(fetches[j], file)
  BY DEF IsStored
<1>1. j \in DOMAIN fetches' /\ IsFetchOf(fetches'[j], file)
  BY FetchesStay DEF IsFetchOf
<1> QED
  BY <1>1 DEF IsStored, IsFetchOf

LEMMA FilesAreKept == TypeInv /\ FilesInv /\ [Next]_vars => FilesInv'
<1> SUFFICES ASSUME TypeInv, FilesInv, [Next]_vars, NEW file \in File
             PROVE  /\ published'[file] \in {Own, NoFile} \/ IsStored(file)'
                    /\ disk'[file] \in {Own, NoFile, Directory}
                         \/ IsStored(file)'
  BY DEF FilesInv
<1>0. /\ fetches \in Seq(FetchProgress)
      /\ disk \in [File -> Content] /\ published \in [File -> Content]
  BY DEF TypeInv, TypeOK, FileshareTypeOK
<1>1. IsStored(file) => IsStored(file)'
  BY StoredStays
<1>2. CASE UNCHANGED <<disk, published>>
  BY <1>1, <1>2 DEF FilesInv
<1>3. ASSUME NEW asked \in File, ObjectNeeded(asked)
      PROVE  /\ disk' = disk
             /\ published'[file] = published[file] \/ published'[file] = disk[file]
             /\ published'[file] # published[file] => disk[file] # Directory
  BY <1>0, <1>3 DEF ObjectNeeded
<1>4. ASSUME NEW i \in DOMAIN fetches, ObjectFetched(i)
      PROVE  /\ published' = published
             /\ disk'[file] = disk[file] \/ IsStored(file)'
  <2>1. CASE LastName[fetches[i].object] = file
    <3>1. /\ i \in DOMAIN fetches' /\ fetches'[i].isFetched
          /\ fetches'[i].object = fetches[i].object
      BY <1>4, FetchesStay, FetchIsStored
    <3> QED
      BY <1>4, <2>1, <3>1 DEF IsStored, IsFetchOf, ObjectFetched
  <2>2. CASE LastName[fetches[i].object] # file
    BY <1>4, <2>2, FetchIsStored DEF ObjectFetched
  <2> QED
    BY <2>1, <2>2
<1>5. UNCHANGED <<disk, published>>
      \/ (\E asked \in File : ObjectNeeded(asked))
      \/ (\E i \in DOMAIN fetches : ObjectFetched(i))
  BY PeerSteps
     DEF peerVars, Fetch, PacketArrives, PrefixRegisterFails, SegmentReceived
<1> QED
  BY <1>1, <1>2, <1>3, <1>4, <1>5 DEF FilesInv

(* What is published under a file's name is the user's unless a fetch has  *)
(* stored something under it, whatever is fetched and asked for, and when. *)
THEOREM PublishedIsAlwaysOwnOrFetched == Spec => []PublishedIsOwnOrFetched
<1>1. Init => TypeInv /\ FilesInv
  BY TypesHoldAtFirst DEF TypeInv, Init, FileshareInit, FilesInv
<1>2. TypeInv /\ FilesInv /\ [Next]_vars => TypeInv' /\ FilesInv'
  BY TypesAreKept, FilesAreKept
<1>3. FilesInv => PublishedIsOwnOrFetched
  BY DEF FilesInv, PublishedIsOwnOrFetched, IsStored, IsFetchOf
<1> QED
  BY <1>1, <1>2, <1>3, PTL DEF Spec

-----------------------------------------------------------------------------
(* What fetches have stored.                                               *)

(* The file is a directory, or holds what a fetch has stored under it.     *)
IsHeld(file) ==
    \/ disk[file] = Directory
    \/ \E j \in DOMAIN fetches :
         IsFetchOf(fetches[j], file) /\ fetches[j].object = disk[file]

LEMMA HeldStays ==
    ASSUME TypeInv, reliable, [Next]_vars, NEW file \in File, IsHeld(file)
    PROVE  IsHeld(file)'
<1>0. disk \in [File -> Content]
  BY DEF TypeInv, TypeOK, FileshareTypeOK
<1>1. ASSUME disk'[file] = disk[file] PROVE IsHeld(file)'
  <2>1. CASE disk[file] = Directory
    BY <1>1, <2>1 DEF IsHeld
  <2>2. ASSUME NEW j \in DOMAIN fetches, IsFetchOf(fetches[j], file),
               fetches[j].object = disk[file]
        PROVE  IsHeld(file)'
    <3>1. /\ j \in DOMAIN fetches' /\ IsFetchOf(fetches'[j], file)
          /\ fetches'[j].object = disk'[file]
      BY <1>1, <2>2, FetchesStay DEF IsFetchOf
    <3> QED
      BY <3>1 DEF IsHeld, IsFetchOf
  <2> QED
    BY <2>1, <2>2 DEF IsHeld
<1>2. ASSUME NEW i \in DOMAIN fetches, ObjectFetched(i), disk'[file] # disk[file]
      PROVE  IsHeld(file)'
  <2>1. LastName[fetches[i].object] = file /\ disk[file] # Directory
    BY <1>2, FetchIsStored
  <2>2. /\ i \in DOMAIN fetches' /\ IsFetchOf(fetches'[i], file)
        /\ fetches'[i].object = disk'[file]
    BY <1>2, <2>1, FetchesStay, FetchIsStored DEF IsFetchOf
  <2> QED
    BY <2>2 DEF IsHeld, IsFetchOf
<1> QED
  BY <1>1, <1>2, PeerSteps
     DEF peerVars, Fetch, PacketArrives, PrefixRegisterFails, ObjectNeeded,
         SegmentReceived

HeldInv == reliable => \A file \in File : IsStored(file) => IsHeld(file)

LEMMA HeldIsKept == TypeInv /\ HeldInv /\ [Next]_vars => HeldInv'
<1> SUFFICES ASSUME TypeInv, HeldInv, [Next]_vars, reliable',
                    NEW file \in File, IsStored(file)'
             PROVE  IsHeld(file)'
  BY DEF HeldInv
<1>0. fetches \in Seq(FetchProgress)
  BY DEF TypeInv, TypeOK, FileshareTypeOK
<1>1. reliable
  BY PeerSteps DEF peerVars, Fetch, PacketArrives, PrefixRegisterFails,
                   ObjectNeeded, SegmentReceived, ObjectFetched
<1>2. CASE IsStored(file)
  BY <1>1, <1>2, HeldStays DEF HeldInv
<1>3. PICK j \in DOMAIN fetches' : IsFetchOf(fetches'[j], file)
  BY DEF IsStored, IsFetchOf
<1>4. CASE UNCHANGED fetches
  BY <1>3, <1>4, <1>2 DEF IsStored
<1>5. ASSUME NEW o \in Object, Fetch(o)
      PROVE  IsStored(file)
  <2> DEFINE f == [object |-> o, arrived |-> {}, receivedCount |-> 0,
                   totalSegments |-> 0, isFetched |-> FALSE]
  <2>1. fetches' = Append(fetches, f) /\ ~f.isFetched
    BY <1>5 DEF Fetch
  <2> HIDE DEF f
  <2>2. fetches'[j] = f \/ (j \in DOMAIN fetches /\ fetches'[j] = fetches[j])
    BY <1>0, <2>1
  <2> QED
    BY <1>3, <2>1, <2>2 DEF IsStored, IsFetchOf
<1>6. ASSUME NEW i \in DOMAIN fetches,
             NEW s \in Segments(fetches[i].object), SegmentReceived(i, s)
      PROVE  IsStored(file)
  <2>1. fetches[j] \in FetchProgress /\ j \in DOMAIN fetches
        /\ fetches'[j] = IF j = i THEN CountSegment(fetches[j], s) ELSE fetches[j]
    BY <1>0, <1>6 DEF SegmentReceived
  <2>2. IsFetchOf(fetches[j], file)
    BY <1>3, <2>1 DEF CountSegment, FetchProgress, IsFetchOf
  <2> QED
    BY <2>1, <2>2 DEF IsStored
<1>7. ASSUME NEW i \in DOMAIN fetches, ObjectFetched(i), ~IsStored(file)
      PROVE  IsHeld(file)'
  <2>1. j = i
    BY <1>3, <1>7, FetchIsStored DEF IsStored
  <2>2. LastName[fetches[i].object] = file /\ fetches'[i].object = fetches[i].object
    BY <1>3, <1>7, <2>1, FetchesStay DEF IsFetchOf
  <2>3. disk'[file] = Directory \/ disk'[file] = fetches'[j].object
    BY <1>1, <1>7, <2>1, <2>2, FetchIsStored
  <2> QED
    BY <1>3, <2>3 DEF IsHeld, IsFetchOf
<1> QED
  BY <1>2, <1>4, <1>5, <1>6, <1>7, PeerSteps
     DEF peerVars, PacketArrives, PrefixRegisterFails, ObjectNeeded

LEMMA HeldIsFetched == TypeInv /\ HeldInv => FetchedFilesStay
<1> SUFFICES ASSUME TypeInv, HeldInv, reliable,
                    NEW i \in DOMAIN fetches, fetches[i].isFetched,
                    NEW file, file = LastName[fetches[i].object]
             PROVE  \/ disk[file] = Directory
                    \/ \E j \in DOMAIN fetches :
                         /\ fetches[j].isFetched
                         /\ fetches[j].object = disk[file]
                         /\ LastName[fetches[j].object] = file
  BY DEF FetchedFilesStay
<1>1. fetches[i] \in FetchProgress
  BY DEF TypeInv, TypeOK, FileshareTypeOK
<1>2. fetches[i].object \in Object
  BY <1>1 DEF FetchProgress
<1>3. file \in File
  BY <1>2, LastNameAssumption
<1>4. IsStored(file)
  BY DEF IsStored, IsFetchOf
<1> QED
  BY <1>3, <1>4 DEF HeldInv, IsHeld, IsFetchOf

(* When nothing fails, what a fetch has stored stays in the directory      *)
(* until another fetch with the same last component replaces it.           *)
THEOREM FetchedFilesAlwaysStay == Spec => []FetchedFilesStay
<1>1. Init => TypeInv /\ HeldInv
  BY TypesHoldAtFirst DEF TypeInv, Init, FileshareInit, HeldInv, IsStored
<1>2. TypeInv /\ HeldInv /\ [Next]_vars => TypeInv' /\ HeldInv'
  BY TypesAreKept, HeldIsKept
<1> QED
  BY <1>1, <1>2, HeldIsFetched, PTL DEF Spec

=============================================================================
