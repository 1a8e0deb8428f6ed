----------------------------- MODULE Fileshare -----------------------------
(***************************************************************************)
(* FileshareClient (src/src/ndnshare/fileshare.cpp): it publishes the      *)
(* files of a directory when a peer asks for them, and stores the objects  *)
(* it fetches from peers in the same directory, under the last component   *)
(* of their name.                                                          *)
(*                                                                         *)
(* Its functions are called by the main thread (NdnShare.tla): fetch() by  *)
(* a command, the others by the microforwarder as packets arrive.  The     *)
(* namespaces (cnl-cpp) are external: they ask for an object once, fetch   *)
(* segments in any order and report an object when it is complete.  Names  *)
(* need no escaping.                                                       *)
(***************************************************************************)
EXTENDS Integers, Sequences

CONSTANTS
    Object,       \* names that are fetched
    File,         \* file names, which are the last components of names
    LastName,     \* object -> the last component of its name
    LastSegment,  \* object -> its FinalBlockID
    Own,          \* the content of a file of the user
    NoFile,       \* no content
    Broken,       \* the content of a file that was partly written
    Directory     \* the content of a directory

ASSUME LastNameAssumption == LastName \in [Object -> File]
ASSUME LastSegmentAssumption == LastSegment \in [Object -> Nat]
ASSUME ContentAssumption == Object \cap {Own, NoFile, Broken, Directory} = {}

VARIABLES
    disk,       \* rootPath_: file -> its content
    published,  \* file -> what is published for it in prefix_, or NoFile
    prefixRegisterFailure,  \* prefixRegisterFailure_
    fetches,    \* the fetches that were started
    reliable    \* nothing fails in this behaviour

peerVars == <<disk, published, prefixRegisterFailure, fetches, reliable>>

Content == Object \cup {Own, NoFile, Broken, Directory}
Segments(o) == 0 .. LastSegment[o]

-----------------------------------------------------------------------------
PrefixRegisterFails ==
    /\ ~reliable
    /\ prefixRegisterFailure' = TRUE
    /\ UNCHANGED <<disk, published, fetches, reliable>>

(* onObjectNeeded(), which reads the file as it is now; when there is none *)
(* or the read fails, it only logs.                                        *)
ObjectNeeded(file) ==
    /\ published[file] = NoFile
    /\ disk[file] \notin {NoFile, Directory}
    /\ published' = [published EXCEPT ![file] = disk[file]]
    /\ UNCHANGED <<disk, prefixRegisterFailure, fetches, reliable>>

(* tellg() of what cannot be read gives no size for a vector.              *)
ObjectNeededThrows(file) ==
    /\ published[file] = NoFile
    /\ \/ disk[file] = Directory
       \/ ~reliable /\ disk[file] # NoFile
    /\ UNCHANGED peerVars

Fetch(o) ==
    /\ fetches' = Append(fetches, [object |-> o,
                                   arrived |-> {},
                                   receivedCount |-> 0,
                                   totalSegments |-> 0,
                                   isFetched |-> FALSE])
    /\ UNCHANGED <<disk, published, prefixRegisterFailure, reliable>>

(* Mutants: segments are counted once their number is known; the segments  *)
(* that are missing are counted.                                           *)
CountSegmentIfTotal(f, s) ==
    LET total == IF s = 0 THEN LastSegment[f.object] + 1 ELSE f.totalSegments
    IN  [f EXCEPT !.arrived = @ \cup {s},
                  !.receivedCount = IF total # 0 THEN @ + 1 ELSE @,
                  !.totalSegments = total]

CountSegmentDown(f, s) ==
    [f EXCEPT !.arrived = @ \cup {s},
              !.receivedCount = @ + 1,
              !.totalSegments = IF s = 0 THEN LastSegment[f.object] ELSE @ - 1]

(* The state callback: only segment 0 is asked for the number of segments. *)
CountSegment(f, s) ==
    [f EXCEPT !.arrived = @ \cup {s},
              !.receivedCount = @ + 1,
              !.totalSegments = IF s = 0 THEN LastSegment[f.object] + 1 ELSE @]

SegmentReceived(i, s) ==
    /\ s \notin fetches[i].arrived
    /\ fetches' = [fetches EXCEPT ![i] = CountSegment(@, s)]
    /\ UNCHANGED <<disk, published, prefixRegisterFailure, reliable>>

(* Mutant: a file that exists is not written.                              *)
WriteNewData(file, data) ==
    disk' = [disk EXCEPT ![file] = IF @ = NoFile THEN data ELSE @]

(* writeData(): a directory is not opened; a write may fail half-way, or   *)
(* not even open the file.                                                 *)
WriteData(file, data) ==
    \/ /\ disk[file] # Directory
       /\ disk' = [disk EXCEPT ![file] = data]
    \/ /\ disk[file] = Directory \/ ~reliable
       /\ UNCHANGED disk
    \/ /\ disk[file] # Directory /\ ~reliable
       /\ disk' = [disk EXCEPT ![file] = Broken]

(* Mutant: the callback takes the name of the last call of fetch(), as it  *)
(* would if it captured it by reference.                                   *)
ObjectFetchedAsLast(i) ==
    /\ fetches[i].arrived = Segments(fetches[i].object)
    /\ ~fetches[i].isFetched
    /\ fetches' = [fetches EXCEPT ![i].isFetched = TRUE]
    /\ WriteData(LastName[fetches[Len(fetches)].object], fetches[i].object)
    /\ UNCHANGED <<published, prefixRegisterFailure, reliable>>

(* onObject, when the object is complete.                                  *)
ObjectFetched(i) ==
    /\ fetches[i].arrived = Segments(fetches[i].object)
    /\ ~fetches[i].isFetched
    /\ fetches' = [fetches EXCEPT ![i].isFetched = TRUE]
    /\ WriteData(LastName[fetches[i].object], fetches[i].object)
    /\ UNCHANGED <<published, prefixRegisterFailure, reliable>>

FileshareInit ==
    /\ disk \in [File -> {Own, NoFile, Directory}]
    /\ published = [file \in File |-> NoFile]
    /\ prefixRegisterFailure = FALSE
    /\ fetches = <<>>
    /\ reliable \in BOOLEAN

(* What packets make it do.                                                *)
PacketArrives ==
    \/ PrefixRegisterFails
    \/ \E file \in File : ObjectNeeded(file)
    \/ \E i \in DOMAIN fetches :
         \E s \in Segments(fetches[i].object) : SegmentReceived(i, s)
    \/ \E i \in DOMAIN fetches : ObjectFetched(i)

-----------------------------------------------------------------------------
FetchProgress ==
    [object : Object, arrived : SUBSET UNION {Segments(o) : o \in Object},
     receivedCount : Nat, totalSegments : Nat, isFetched : BOOLEAN]

FileshareTypeOK ==
    /\ disk \in [File -> Content]
    /\ published \in [File -> Content]
    /\ prefixRegisterFailure \in BOOLEAN
    /\ fetches \in Seq(FetchProgress)
    /\ reliable \in BOOLEAN

(* In whatever order segments arrive, the progress shown never goes beyond *)
(* the total, and reaches it with the last segment (fileshare.cpp:119).    *)
ProgressIsRight ==
    \A i \in DOMAIN fetches :
      LET f == fetches[i]
      IN  /\ f.totalSegments # 0 => f.receivedCount <= f.totalSegments
          /\ f.isFetched => f.receivedCount = f.totalSegments

(* What a fetch has stored stays, unless another fetch of the same last    *)
(* component (or of the same object) replaces it.                          *)
FetchedFilesStay ==
    reliable =>
      \A i \in DOMAIN fetches :
        fetches[i].isFetched =>
          LET file == LastName[fetches[i].object]
          IN  \/ disk[file] = Directory
              \/ \E j \in DOMAIN fetches :
                   /\ fetches[j].isFetched
                   /\ fetches[j].object = disk[file]
                   /\ LastName[fetches[j].object] = file

(* What is published under a file's name is the user's, unless a fetch has *)
(* stored something under that name: then peers may get that in its place. *)
PublishedIsOwnOrFetched ==
    \A file \in File :
      published[file] \in {Own, NoFile}
        \/ \E i \in DOMAIN fetches :
             /\ fetches[i].isFetched
             /\ LastName[fetches[i].object] = file

=============================================================================
