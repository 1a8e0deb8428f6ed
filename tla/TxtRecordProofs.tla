-------------------------- MODULE TxtRecordProofs --------------------------
(***************************************************************************)
(* What reaches a peer of the TXT record of a service, for any sizes of    *)
(* prefixes and certificates and any number of announcements.              *)
(***************************************************************************)
EXTENDS TxtRecord, TLAPS

Accepted == 1 .. Len(announced)

(* Each value is that of an announcement that was made: of the record that *)
(* is registered, of the one that waits for the peer, of the peer's object.*)
RecordOf(k) == [from |-> k,
                prefix |-> SetValue(announced[k].prefix),
                cert |-> CertEntry(announced[k].cert)]
IsRecord(r) == r = NoRecord \/ \E k \in Accepted : r = RecordOf(k)

IsValue(v, k, entry) ==
    k \in Accepted /\ entry # Absent /\ v = Value(k, entry)
IsPrefix(v) == IsValue(v, v.from, SetValue(announced[v.from].prefix))
IsCert(v) == IsValue(v, v.from, CertEntry(announced[v.from].cert))

SdType ==
    sd = [state |-> sd.state, address |-> sd.address, prefix |-> sd.prefix,
          cert |-> sd.cert]

ObjectInv ==
    /\ sd.prefix = Nothing \/ IsPrefix(sd.prefix)
    /\ sd.cert = Nothing \/ IsCert(sd.cert)
    /\ sd.state = "Resolved" =>
         LET k == sd.prefix.from
         IN  /\ IsPrefix(sd.prefix)
             /\ announced[k].cert \in 1 .. MaxValue => sd.cert.from = k
             /\ sd.address = k \/ (/\ sd.address \in Accepted
                                   /\ announced[sd.address].prefix > MaxValue)

RecordInv ==
    /\ announced \in Seq(Parameters)
    /\ Len(announced) <= MaxAnnouncements
    /\ IsRecord(record)
    /\ IsRecord(reply)
    /\ sent \in 0 .. Len(announced)
    /\ mayThrow \in BOOLEAN
    /\ resolving \in BOOLEAN
    /\ SdType
    /\ sd.state \in {"Discovered", "Resolved"}
    /\ sd.address \in 0 .. Len(announced)
    /\ ObjectInv

-----------------------------------------------------------------------------
(* The 8-bit length of an entry.                                           *)

LEMMA SetValueType ==
    ASSUME NEW length \in Nat
    PROVE  /\ SetValue(length) \in Length \cup {Absent}
           /\ length <= MaxValue => SetValue(length) = length
           /\ SetValue(length) = Absent => length > MaxValue
BY DEF SetValue, Length, MaxValue, Absent

LEMMA CertEntryType ==
    ASSUME NEW length \in Nat
    PROVE  /\ CertEntry(length) \in Length \cup {Absent}
           /\ length \in 1 .. MaxValue => CertEntry(length) = length
           /\ CertEntry(length) = Absent => length \notin 1 .. MaxValue
           /\ CertEntry(length) # Absent => length # 0
BY SetValueType DEF CertEntry, MaxValue, Absent

LEMMA AcceptedLengths ==
    ASSUME announced \in Seq(Parameters), NEW k \in Accepted
    PROVE  announced[k].prefix \in Nat /\ announced[k].cert \in Nat
<1>1. announced[k] \in Parameters
  BY DEF Accepted
<1> QED
  BY <1>1, LengthAssumption DEF Parameters

-----------------------------------------------------------------------------
(* Steps.                                                                  *)

LEMMA InitRecord == Init => RecordInv
<1> SUFFICES ASSUME Init PROVE RecordInv
  OBVIOUS
<1>1. announced \in Seq(Parameters) /\ Len(announced) = 0
  BY DEF Init
<1>2. /\ sd.state = "Discovered" /\ sd.address = 0
      /\ sd.prefix = Nothing /\ sd.cert = Nothing
  BY DEF Init
<1>3. SdType
  BY <1>2 DEF Init, SdType
<1>4. ObjectInv
  BY <1>2 DEF ObjectInv
<1>5. IsRecord(record) /\ IsRecord(reply)
  BY DEF Init, IsRecord
<1>6. mayThrow \in BOOLEAN /\ resolving \in BOOLEAN
  BY DEF Init
<1>7. /\ Len(announced) <= MaxAnnouncements
      /\ sent \in 0 .. Len(announced) /\ sd.address \in 0 .. Len(announced)
  BY <1>1, <1>2, BoundAssumption DEF Init
<1> QED
  BY <1>1, <1>2, <1>3, <1>4, <1>5, <1>6, <1>7 DEF RecordInv

(* What was announced stays so: nothing that refers to it changes.         *)
LEMMA AnnouncementsStay ==
    ASSUME RecordInv, NEW p \in Parameters, announced' = Append(announced, p)
    PROVE  /\ announced' \in Seq(Parameters)
           /\ Len(announced') = Len(announced) + 1
           /\ announced'[Len(announced')] = p
           /\ Accepted \subseteq Accepted'
           /\ \A k \in Accepted : announced'[k] = announced[k]
BY DEF RecordInv, Accepted

LEMMA AnnounceRecord ==
    ASSUME RecordInv, NEW p \in Parameters, Announce(p)
    PROVE  RecordInv'
<1>1. /\ announced' = Append(announced, p)
      /\ UNCHANGED <<mayThrow, resolving, sent, reply, sd>>
      /\ Len(announced) < MaxAnnouncements
  BY DEF Announce
<1>2. /\ announced' \in Seq(Parameters)
      /\ Len(announced') = Len(announced) + 1
      /\ announced'[Len(announced')] = p
      /\ Accepted \subseteq Accepted'
      /\ \A k \in Accepted : announced'[k] = announced[k]
  BY <1>1, AnnouncementsStay
<1>3. Len(announced) \in Nat /\ Len(announced') \in Nat
  BY <1>2 DEF RecordInv
<1>4. Len(announced') <= MaxAnnouncements
  BY <1>1, <1>2, <1>3, BoundAssumption
<1>5. IsRecord(record)'
  <2>1. record' = RecordOf(Len(announced))'
    BY <1>2 DEF Announce, RecordOf
  <2>2. Len(announced') \in Accepted'
    BY <1>2, <1>3 DEF Accepted
  <2> QED
    BY <2>1, <2>2 DEF IsRecord
<1>6. IsRecord(reply)'
  BY <1>1, <1>2 DEF RecordInv, IsRecord, RecordOf
<1>7. ObjectInv'
  <2>1. sd.prefix = Nothing \/ IsPrefix(sd.prefix)'
    BY <1>1, <1>2 DEF RecordInv, ObjectInv, IsPrefix, IsValue
  <2>2. sd.cert = Nothing \/ IsCert(sd.cert)'
    BY <1>1, <1>2 DEF RecordInv, ObjectInv, IsCert, IsValue
  <2>3. ASSUME sd.state = "Resolved"
        PROVE  LET k == sd.prefix.from
               IN  /\ IsPrefix(sd.prefix)'
                   /\ announced'[k].cert \in 1 .. MaxValue => sd.cert.from = k
                   /\ sd.address = k
                        \/ (/\ sd.address \in Accepted'
                            /\ announced'[sd.address].prefix > MaxValue)
    <3>1. sd.prefix.from \in Accepted /\ IsPrefix(sd.prefix)'
      BY <1>1, <1>2, <2>3 DEF RecordInv, ObjectInv, IsPrefix, IsValue
    <3> QED
      BY <1>2, <2>3, <3>1 DEF RecordInv, ObjectInv
  <2> QED
    BY <1>1, <2>1, <2>2, <2>3 DEF ObjectInv
<1>8. SdType'
  BY <1>1 DEF RecordInv, SdType
<1> QED
  BY <1>1, <1>2, <1>3, <1>4, <1>5, <1>6, <1>7, <1>8 DEF RecordInv

(* The steps that leave announcements and the object alone.                *)
LEMMA OtherRecord ==
    ASSUME RecordInv, UNCHANGED <<announced, mayThrow, sd>>,
           record' \in {record, NoRecord}, reply' \in {reply, record, NoRecord},
           resolving' \in BOOLEAN, sent' \in 0 .. Len(announced)
    PROVE  RecordInv'
<1>1. IsRecord(record)' /\ IsRecord(reply)'
  BY DEF RecordInv, IsRecord, RecordOf, Accepted
<1>2. ObjectInv'
  BY DEF RecordInv, ObjectInv, IsPrefix, IsCert, IsValue, Accepted
<1>3. SdType'
  BY DEF RecordInv, SdType
<1> QED
  BY <1>1, <1>2, <1>3 DEF RecordInv

LEMMA RecordFields ==
    ASSUME RecordInv, NEW r, r # NoRecord, IsRecord(r)
    PROVE  /\ r.from \in Accepted
           /\ r.prefix = SetValue(announced[r.from].prefix)
           /\ r.cert = CertEntry(announced[r.from].cert)
           /\ announced[r.from].prefix \in Nat
           /\ announced[r.from].cert \in Nat
<1>1. PICK k \in Accepted : r = RecordOf(k)
  BY DEF IsRecord
<1>2. r.from = k
  BY <1>1 DEF RecordOf
<1> QED
  BY <1>1, <1>2, AcceptedLengths DEF RecordInv, RecordOf

(* The object takes all it has from one record, the certificate too when   *)
(* the announcement had one that fits.                                     *)
LEMMA ResolveRecord ==
    ASSUME RecordInv, ResolveReply
    PROVE  RecordInv'
<1> DEFINE k == reply.from
<1>1. /\ k \in Accepted
      /\ reply.prefix = SetValue(announced[k].prefix)
      /\ reply.cert = CertEntry(announced[k].cert)
      /\ announced[k].prefix \in Nat /\ announced[k].cert \in Nat
  BY RecordFields DEF ResolveReply, RecordInv
<1>2. /\ UNCHANGED <<announced, record, mayThrow, sent>>
      /\ reply' = NoRecord /\ resolving' \in BOOLEAN
      /\ reply.prefix # Absent
  BY DEF ResolveReply, RecordInv
<1>3. /\ sd'.state = "Resolved"
      /\ sd'.address = k
      /\ sd'.prefix = Value(k, reply.prefix)
      /\ sd'.cert = IF reply.cert = Absent THEN sd.cert
                                           ELSE Value(k, reply.cert)
      /\ SdType'
  BY DEF ResolveReply, ReadRecord, SdType
<1>4. sd'.prefix.from = k
  BY <1>3 DEF Value
<1>5. IsPrefix(sd.prefix)'
  BY <1>1, <1>2, <1>3, <1>4 DEF IsPrefix, IsValue, Accepted
<1>6. sd'.cert = Nothing \/ IsCert(sd.cert)'
  <2>1. CASE reply.cert = Absent
    BY <1>2, <1>3, <2>1 DEF RecordInv, ObjectInv, IsCert, IsValue, Accepted
  <2>2. CASE reply.cert # Absent
    <3>1. sd'.cert = Value(k, reply.cert) /\ sd'.cert.from = k
      BY <1>3, <2>2 DEF Value
    <3> QED
      BY <1>1, <1>2, <2>2, <3>1 DEF IsCert, IsValue, Accepted
  <2> QED
    BY <2>1, <2>2
<1>7. announced[k].cert \in 1 .. MaxValue => sd'.cert.from = k
  <2>1. announced[k].cert \in 1 .. MaxValue => reply.cert # Absent
    BY <1>1, CertEntryType
  <2> QED
    BY <1>3, <2>1 DEF Value
<1>8. ObjectInv'
  BY <1>2, <1>3, <1>4, <1>5, <1>6, <1>7 DEF ObjectInv
<1>9. IsRecord(record)' /\ IsRecord(reply)'
  BY <1>2 DEF RecordInv, IsRecord, RecordOf, Accepted
<1>10. sd'.address \in 0 .. Len(announced)
  BY <1>1, <1>3 DEF Accepted, RecordInv
<1> QED
  BY <1>2, <1>3, <1>8, <1>9, <1>10 DEF RecordInv

(* Without a prefix only the address changes: the announcement had one     *)
(* that does not fit.                                                      *)
LEMMA ResolveWithoutPrefixRecord ==
    ASSUME RecordInv, ResolveReplyWithoutPrefix
    PROVE  RecordInv'
<1> DEFINE k == reply.from
<1>1. /\ k \in Accepted
      /\ reply.prefix = SetValue(announced[k].prefix)
      /\ announced[k].prefix \in Nat
  BY RecordFields DEF ResolveReplyWithoutPrefix, RecordInv
<1>2. /\ UNCHANGED <<announced, record, mayThrow, resolving, sent>>
      /\ reply' = NoRecord
      /\ announced[k].prefix > MaxValue
  BY <1>1, SetValueType DEF ResolveReplyWithoutPrefix
<1>3. sd' = [state |-> sd.state, address |-> k, prefix |-> sd.prefix,
             cert |-> sd.cert]
  BY DEF ResolveReplyWithoutPrefix, RecordInv, SdType
<1>4. /\ sd'.state = sd.state /\ sd'.address = k
      /\ sd'.prefix = sd.prefix /\ sd'.cert = sd.cert
      /\ SdType'
  BY <1>3 DEF SdType
<1>5. ObjectInv'
  BY <1>1, <1>2, <1>4 DEF RecordInv, ObjectInv, IsPrefix, IsCert, IsValue,
                          Accepted
<1>6. IsRecord(record)' /\ IsRecord(reply)'
  BY <1>2 DEF RecordInv, IsRecord, RecordOf, Accepted
<1>7. sd'.address \in 0 .. Len(announced)
  BY <1>1, <1>4 DEF Accepted, RecordInv
<1> QED
  BY <1>2, <1>4, <1>5, <1>6, <1>7 DEF RecordInv

LEMMA NextRecord == RecordInv /\ [Next]_vars => RecordInv'
<1> SUFFICES ASSUME RecordInv, [Next]_vars PROVE RecordInv'
  OBVIOUS
<1>1. sent \in 0 .. Len(announced) /\ 0 \in 0 .. Len(announced)
      /\ resolving \in BOOLEAN
  BY DEF RecordInv
<1>2. CASE Withdraw
  BY <1>1, <1>2, OtherRecord DEF Withdraw
<1>3. CASE Resolve
  BY <1>1, <1>3, OtherRecord DEF Resolve
<1>4. CASE DaemonReplies
  <2>1. record.from \in 0 .. Len(announced)
    BY <1>4, RecordFields DEF DaemonReplies, RecordInv, Accepted
  <2> QED
    BY <1>1, <1>4, <2>1, OtherRecord DEF DaemonReplies
<1>5. CASE UNCHANGED vars
  BY <1>1, <1>5, OtherRecord DEF vars
<1> QED
  BY <1>2, <1>3, <1>4, <1>5, AnnounceRecord, ResolveRecord,
     ResolveWithoutPrefixRecord DEF Next

-----------------------------------------------------------------------------
(* What the invariant says of an object's values.                          *)

LEMMA ValueTypes ==
    ASSUME RecordInv
    PROVE  sd.prefix \in ValueOf /\ sd.cert \in ValueOf
<1>1. Nothing \in ValueOf
  BY BoundAssumption DEF Nothing, ValueOf, Length, MaxValue
<1>2. ASSUME NEW k \in Accepted, NEW entry \in Length
      PROVE  Value(k, entry) \in ValueOf
  BY <1>2, BoundAssumption DEF Value, ValueOf, Accepted, RecordInv
<1>3. sd.prefix = Nothing \/ sd.prefix \in ValueOf
  BY <1>2, AcceptedLengths, SetValueType
  DEF RecordInv, ObjectInv, IsPrefix, IsValue
<1>4. sd.cert = Nothing \/ sd.cert \in ValueOf
  BY <1>2, AcceptedLengths, CertEntryType
  DEF RecordInv, ObjectInv, IsCert, IsValue
<1> QED
  BY <1>1, <1>3, <1>4

LEMMA RecordType ==
    ASSUME RecordInv, NEW r, IsRecord(r)
    PROVE  r \in Record \cup {NoRecord}
<1>1. ASSUME NEW k \in Accepted PROVE RecordOf(k) \in Record
  <2>1. k \in Announcement
    BY BoundAssumption DEF Accepted, Announcement, RecordInv
  <2>2. /\ SetValue(announced[k].prefix) \in Length \cup {Absent}
        /\ CertEntry(announced[k].cert) \in Length \cup {Absent}
    BY AcceptedLengths, SetValueType, CertEntryType DEF RecordInv
  <2> QED
    BY <2>1, <2>2 DEF RecordOf, Record
<1> QED
  BY <1>1 DEF IsRecord

LEMMA InvType == RecordInv => TypeOK
<1> SUFFICES ASSUME RecordInv PROVE TypeOK
  OBVIOUS
<1>1. record \in Record \cup {NoRecord} /\ reply \in Record \cup {NoRecord}
  BY RecordType DEF RecordInv
<1>2. sent \in 0 .. MaxAnnouncements /\ sd.address \in 0 .. MaxAnnouncements
  BY BoundAssumption DEF RecordInv
<1> QED
  BY <1>1, <1>2, ValueTypes DEF RecordInv, TypeOK

LEMMA InvWhole == RecordInv => ValuesArriveWhole
<1> SUFFICES ASSUME RecordInv PROVE ValuesArriveWhole
  OBVIOUS
<1>1. ASSUME sd.prefix # Nothing
      PROVE  Arrives(announced[sd.prefix.from].prefix, sd.prefix)
  <2>1. IsPrefix(sd.prefix)
    BY <1>1 DEF RecordInv, ObjectInv
  <2>2. /\ sd.prefix.length = SetValue(announced[sd.prefix.from].prefix)
        /\ announced[sd.prefix.from].prefix \in Nat
    BY <2>1, AcceptedLengths DEF IsPrefix, IsValue, Value, RecordInv
  <2> QED
    BY <2>2, SetValueType DEF Arrives
<1>2. ASSUME sd.cert # Nothing
      PROVE  Arrives(announced[sd.cert.from].cert, sd.cert)
  <2>1. IsCert(sd.cert)
    BY <1>2 DEF RecordInv, ObjectInv
  <2>2. /\ sd.cert.length = CertEntry(announced[sd.cert.from].cert)
        /\ CertEntry(announced[sd.cert.from].cert) # Absent
        /\ announced[sd.cert.from].cert \in Nat
    BY <2>1, AcceptedLengths DEF IsCert, IsValue, Value, RecordInv
  <2> QED
    BY <2>2, CertEntryType DEF Arrives
<1> QED
  BY <1>1, <1>2 DEF ValuesArriveWhole, GetPrefix, GetCertificate

-----------------------------------------------------------------------------
(* The variables have their types, for any sizes and any announcements.    *)
THEOREM TypeCorrect == Spec => []TypeOK
BY InitRecord, NextRecord, InvType, PTL DEF Spec

(* What a peer reads of a value of at most 252 bytes is what was announced.*)
THEOREM ValuesAlwaysArriveWhole == Spec => []ValuesArriveWhole
BY InitRecord, NextRecord, InvWhole, PTL DEF Spec

(* A resolved object has the certificate of the announcement its prefix is *)
(* of, if that had one that fits, after any sequence of replies.           *)
THEOREM CertificateIsAlwaysOfPrefix == Spec => []CertificateIsOfPrefix
<1>1. RecordInv => CertificateIsOfPrefix
  BY DEF RecordInv, ObjectInv, CertificateIsOfPrefix, GetPrefix, GetCertificate
<1> QED
  BY <1>1, InitRecord, NextRecord, PTL DEF Spec

(* So are its port and host name, unless an announcement whose prefix does *)
(* not fit came in between.                                                *)
THEOREM AddressIsAlwaysOfPrefix == Spec => []AddressIsOfPrefix
<1>1. RecordInv => AddressIsOfPrefix
  BY DEF RecordInv, ObjectInv, AddressIsOfPrefix, GetPrefix, GetAddress
<1> QED
  BY <1>1, InitRecord, NextRecord, PTL DEF Spec

=============================================================================
