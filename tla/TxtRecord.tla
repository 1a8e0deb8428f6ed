----------------------------- MODULE TxtRecord -----------------------------
(***************************************************************************)
(* The data of a service (src/src/ndn-sd/ndn-sd.cpp): what announce() puts *)
(* into its TXT record, and what resolveReply() makes of it at a peer that *)
(* has discovered the service and resolves it.                             *)
(*                                                                         *)
(* A prefix or a certificate is its length and the announcement it is of.  *)
(* A service that goes is announced again under the same name, with other  *)
(* parameters, by a new NdnSd: the peer may keep its object all the while. *)
(* One object of the peer is followed, with one resolve request at a time; *)
(* the reply that waits in its socket may be older than the announcement   *)
(* the daemon knows of.                                                    *)
(***************************************************************************)
EXTENDS Integers, Sequences

CONSTANTS
    PrefixLength,     \* sizes of prefix_ that are announced
    CertLength,       \* sizes of cert_ that are announced
    MaxAnnouncements  \* bound on announcements

MaxTxtRecordSize == 1000  \* MAX_TXT_RECORD_SIZE
MaxValue == 252           \* what fits behind a key of one letter in an entry

ASSUME LengthAssumption == PrefixLength \cup CertLength \subseteq Nat
ASSUME BoundAssumption == MaxAnnouncements \in Nat

VARIABLES
    announced,  \* the parameters of each accepted announcement
    record,     \* what is registered with the daemon, or NoRecord
    mayThrow,   \* the peer's callback throws in this behaviour
    resolving,  \* the peer has a resolve request
    sent,       \* the announcement the daemon last sent to it
    reply,      \* the record that waits in its socket, or NoRecord
    sd          \* the object the peer has discovered

vars == <<announced, record, mayThrow, resolving, sent, reply, sd>>

Parameters == [prefix : PrefixLength, cert : CertLength]
Announcement == 1 .. MaxAnnouncements
Absent == -1  \* the length of an entry that is not in a record
NoRecord == [from |-> 0]
Nothing == [from |-> 0, length |-> 0]
ASSUME AbsentAssumption == Absent \notin Nat

-----------------------------------------------------------------------------
(* isMaxTxtSizeExceeded()                                                  *)
IsMaxTxtSizeExceeded(size) == size + 4 > MaxTxtRecordSize

(* Mutant: no value is refused.                                            *)
SetAnyValue(length) == length % 256

(* TXTRecordSetValue: the length is a uint8_t, and a value that makes its  *)
(* entry longer than 255 bytes is refused, which announce() ignores.       *)
SetValue(length) ==
    IF length % 256 <= MaxValue THEN length % 256 ELSE Absent

(* The empty certificate has no entry; the empty prefix has one.           *)
CertEntry(length) == IF length = 0 THEN Absent ELSE SetValue(length)

Announce(p) ==
    /\ record = NoRecord
    /\ Len(announced) < MaxAnnouncements
    /\ ~IsMaxTxtSizeExceeded(p.prefix + p.cert)
    /\ announced' = Append(announced, p)
    /\ record' = [from |-> Len(announced'),
                  prefix |-> SetValue(p.prefix),
                  cert |-> CertEntry(p.cert)]
    /\ UNCHANGED <<mayThrow, resolving, sent, reply, sd>>

(* The announcing object is destroyed.                                     *)
Withdraw ==
    /\ record # NoRecord
    /\ record' = NoRecord
    /\ UNCHANGED <<announced, mayThrow, resolving, sent, reply, sd>>

Resolve ==
    /\ ~resolving
    /\ resolving' = TRUE
    /\ sent' = 0
    /\ reply' = NoRecord
    /\ UNCHANGED <<announced, record, mayThrow, sd>>

(* The daemon answers a request once, and again after each change.         *)
DaemonReplies ==
    /\ resolving
    /\ reply = NoRecord
    /\ record # NoRecord
    /\ sent # record.from
    /\ reply' = record
    /\ sent' = record.from
    /\ UNCHANGED <<announced, record, mayThrow, resolving, sd>>

Value(from, length) == [from |-> from, length |-> length]

(* Mutants: each entry is taken for the other; a certificate is only set   *)
(* when there is none yet; the address of a resolved object is not set.    *)
ReadSwapped ==
    sd' = [state |-> "Resolved",
           address |-> reply.from,
           prefix |-> Value(reply.from, reply.cert),
           cert |-> Value(reply.from, reply.prefix)]
ReadFirstCert ==
    sd' = [state |-> "Resolved",
           address |-> reply.from,
           prefix |-> Value(reply.from, reply.prefix),
           cert |-> IF reply.cert = Absent \/ sd.cert # Nothing
                    THEN sd.cert
                    ELSE Value(reply.from, reply.cert)]
ReadValuesOnly ==
    sd' = [state |-> "Resolved",
           address |-> IF sd.state = "Resolved" THEN sd.address ELSE reply.from,
           prefix |-> Value(reply.from, reply.prefix),
           cert |-> IF reply.cert = Absent
                    THEN sd.cert
                    ELSE Value(reply.from, reply.cert)]

(* The object's interface, port and names, its prefix, and its certificate *)
(* if the record has one.                                                  *)
ReadRecord ==
    sd' = [state |-> "Resolved",
           address |-> reply.from,
           prefix |-> Value(reply.from, reply.prefix),
           cert |-> IF reply.cert = Absent
                    THEN sd.cert
                    ELSE Value(reply.from, reply.cert)]

(* Mutant: the request is removed if a certificate was found.              *)
ResolveReplyWithCert ==
    /\ reply # NoRecord
    /\ reply.prefix # Absent
    /\ ReadRecord
    /\ resolving' = (reply.cert = Absent \/ mayThrow)
    /\ reply' = NoRecord
    /\ UNCHANGED <<announced, record, mayThrow, sent>>

(* The request is removed when its callback returns.                       *)
ResolveReply ==
    /\ reply # NoRecord
    /\ reply.prefix # Absent
    /\ ReadRecord
    /\ \/ resolving' = FALSE
       \/ mayThrow /\ UNCHANGED resolving
    /\ reply' = NoRecord
    /\ UNCHANGED <<announced, record, mayThrow, sent>>

(* Without a prefix it is an error, and the request stays.                 *)
ResolveReplyWithoutPrefix ==
    /\ reply # NoRecord
    /\ reply.prefix = Absent
    /\ sd' = [sd EXCEPT !.address = reply.from]
    /\ reply' = NoRecord
    /\ UNCHANGED <<announced, record, mayThrow, resolving, sent>>

(* What the peer reads of its object: nothing before it is resolved.       *)
GetAddress == IF sd.state = "Resolved" THEN sd.address ELSE 0
GetPrefix == IF sd.state = "Resolved" THEN sd.prefix ELSE Nothing
GetCertificate == IF sd.state = "Resolved" THEN sd.cert ELSE Nothing

Init ==
    /\ announced = <<>>
    /\ record = NoRecord
    /\ mayThrow \in BOOLEAN
    /\ resolving = FALSE
    /\ sent = 0
    /\ reply = NoRecord
    /\ sd = [state |-> "Discovered", address |-> 0, prefix |-> Nothing,
             cert |-> Nothing]

Next ==
    \/ \E p \in Parameters : Announce(p)
    \/ Withdraw
    \/ Resolve
    \/ DaemonReplies
    \/ ResolveReply
    \/ ResolveReplyWithoutPrefix

Spec == Init /\ [][Next]_vars

(* The daemon answers, and the peer keeps calling run().                   *)
Fairness ==
    /\ WF_vars(DaemonReplies)
    /\ WF_vars(ResolveReply)
    /\ WF_vars(ResolveReplyWithoutPrefix)

FairSpec == Spec /\ Fairness

-----------------------------------------------------------------------------
Length == 0 .. MaxValue
ValueOf == [from : 0 .. MaxAnnouncements, length : Length]
Record ==
    [from : Announcement, prefix : Length \cup {Absent},
     cert : Length \cup {Absent}]

(* The variables have the types the code gives them.                       *)
TypeOK ==
    /\ announced \in Seq(Parameters)
    /\ Len(announced) <= MaxAnnouncements
    /\ record \in Record \cup {NoRecord}
    /\ mayThrow \in BOOLEAN
    /\ resolving \in BOOLEAN
    /\ sent \in 0 .. MaxAnnouncements
    /\ reply \in Record \cup {NoRecord}
    /\ sd.state \in {"Discovered", "Resolved"}
    /\ sd.address \in 0 .. MaxAnnouncements
    /\ sd.prefix \in ValueOf
    /\ sd.cert \in ValueOf

(* What a peer reads of an announcement, perhaps an old one, is what was   *)
(* announced, as long as it fits in an entry: the size check of announce() *)
(* is on the sum and allows more, and only what is more is cut.            *)
Arrives(length, value) ==
    length <= MaxValue => value.length = length
ValuesArriveWhole ==
    /\ GetPrefix # Nothing =>
         Arrives(announced[GetPrefix.from].prefix, GetPrefix)
    /\ GetCertificate # Nothing =>
         Arrives(announced[GetCertificate.from].cert, GetCertificate)

(* An object's certificate is of the announcement its prefix is of, if     *)
(* that announcement had one that fits: a reply to a repeated request      *)
(* replaces both (ndn-sd.cpp:691-700).                                     *)
CertificateIsOfPrefix ==
    GetPrefix # Nothing /\ announced[GetPrefix.from].cert \in 1 .. MaxValue
      => GetCertificate.from = GetPrefix.from

(* Port and host name are of the announcement the prefix is of, unless one *)
(* whose prefix does not fit came in between (ndn-sd.cpp:680-685).         *)
AddressIsOfPrefix ==
    GetPrefix # Nothing =>
      \/ GetAddress = GetPrefix.from
      \/ announced[GetAddress].prefix > MaxValue

(* While callbacks return, resolve requests end once a service whose       *)
(* prefix fits stays announced, whatever its earlier announcements were.   *)
ResolveRequestsEnd ==
    ~mayThrow /\ <>[](record # NoRecord /\ announced[record.from].prefix <= MaxValue)
      => []<>~resolving

-----------------------------------------------------------------------------
(* "It allows peers to announce their data prefix certificate for          *)
(* authentication by other peers" (README.md:8): a resolved object has the *)
(* certificate that was announced with its prefix.                         *)
CertificatesAreAnnounced ==
    GetPrefix # Nothing /\ announced[GetPrefix.from].cert # 0 =>
      GetCertificate
        = Value(GetPrefix.from, announced[GetPrefix.from].cert)

=============================================================================
