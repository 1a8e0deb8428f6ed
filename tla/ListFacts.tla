----------------------------- MODULE ListFacts -----------------------------
(***************************************************************************)
(* Facts about the lists of discovered objects: vectors without duplicates *)
(* to which browseReply (src/src/ndn-sd/ndn-sd.cpp) appends an object and  *)
(* from which it erases one.                                               *)
(***************************************************************************)
EXTENDS Integers, Sequences, SequencesExt, FiniteSetTheorems, FunctionTheorems,
        WellFoundedInduction, TLAPS

(* What erasing the k-th element leaves.                                   *)
LEMMA RemoveAtElements ==
    ASSUME NEW S, NEW s \in Seq(S), NEW k \in DOMAIN s
    PROVE  LET t == RemoveAt(s, k)
           IN  /\ t \in Seq(S)
               /\ Len(t) = Len(s) - 1
               /\ \A i \in DOMAIN t : t[i] = IF i < k THEN s[i] ELSE s[i + 1]
<1> DEFINE before == SubSeq(s, 1, k - 1)
           after == SubSeq(s, k + 1, Len(s))
<1>1. k \in 1 .. Len(s) /\ Len(s) \in Nat
  OBVIOUS
<1>2. /\ before \in Seq(S) /\ Len(before) = k - 1
      /\ \A i \in 1 .. k - 1 : before[i] = s[i]
  BY <1>1
<1>3. /\ after \in Seq(S) /\ Len(after) = Len(s) - k
      /\ \A i \in 1 .. Len(s) - k : after[i] = s[i + k]
  BY <1>1
<1> HIDE DEF before, after
<1>4. RemoveAt(s, k) = before \o after
  BY DEF RemoveAt, before, after
<1>5. /\ before \o after \in Seq(S)
      /\ Len(before \o after) = Len(s) - 1
      /\ \A i \in DOMAIN (before \o after) :
           (before \o after)[i] = IF i <= k - 1 THEN before[i]
                                                ELSE after[i - (k - 1)]
  BY <1>1, <1>2, <1>3
<1> DEFINE t == before \o after
<1>6. ASSUME NEW i \in DOMAIN t PROVE t[i] = IF i < k THEN s[i] ELSE s[i + 1]
  <2>1. i \in 1 .. Len(s) - 1
    BY <1>5
  <2>2. CASE i < k
    BY <1>1, <1>2, <1>5, <2>1, <2>2
  <2>3. CASE i >= k
    <3>1. t[i] = after[i - (k - 1)] /\ i - (k - 1) \in 1 .. Len(s) - k
      BY <1>1, <1>5, <2>1, <2>3
    <3> QED
      BY <1>1, <1>3, <2>1, <2>3, <3>1
  <2> QED
    BY <1>1, <2>1, <2>2, <2>3
<1> QED
  BY <1>4, <1>5, <1>6

(* An object that is erased is gone from a list without duplicates.        *)
LEMMA RemoveAtSet ==
    ASSUME NEW S, NEW s \in Seq(S), IsInjective(s), NEW k \in DOMAIN s
    PROVE  /\ RemoveAt(s, k) \in Seq(S)
           /\ IsInjective(RemoveAt(s, k))
           /\ ToSet(RemoveAt(s, k)) = ToSet(s) \ {s[k]}
<1> DEFINE t == RemoveAt(s, k)
<1>1. /\ t \in Seq(S) /\ Len(t) = Len(s) - 1
      /\ \A i \in DOMAIN t : t[i] = IF i < k THEN s[i] ELSE s[i + 1]
  BY RemoveAtElements
<1>2. /\ k \in 1 .. Len(s) /\ Len(s) \in Nat
      /\ DOMAIN s = 1 .. Len(s) /\ DOMAIN t = 1 .. Len(s) - 1
  BY <1>1
<1> HIDE DEF t
<1>3. ASSUME NEW i \in DOMAIN t, NEW j \in DOMAIN t, t[i] = t[j]
      PROVE  i = j
  <2> DEFINE i0 == IF i < k THEN i ELSE i + 1
             j0 == IF j < k THEN j ELSE j + 1
  <2>1. i0 \in DOMAIN s /\ j0 \in DOMAIN s
    BY <1>2
  <2>2. s[i0] = s[j0]
    BY <1>1, <1>3
  <2>3. i0 = j0
    BY <2>1, <2>2 DEF IsInjective
  <2> QED
    BY <1>2, <2>3
<1>4. ASSUME NEW i \in DOMAIN t PROVE t[i] \in ToSet(s) \ {s[k]}
  BY <1>1, <1>2 DEF IsInjective, ToSet
<1>5. ASSUME NEW i \in DOMAIN s, i # k PROVE s[i] \in ToSet(t)
  <2>1. CASE i < k
    <3>1. i \in DOMAIN t /\ t[i] = s[i]
      BY <1>1, <1>2, <2>1
    <3> QED
      BY <3>1 DEF ToSet
  <2>2. CASE i > k
    <3>1. i - 1 \in DOMAIN t /\ t[i - 1] = s[i]
      BY <1>1, <1>2, <2>2
    <3> QED
      BY <3>1 DEF ToSet
  <2> QED
    BY <1>2, <1>5, <2>1, <2>2
<1>6. ToSet(t) = ToSet(s) \ {s[k]}
  BY <1>4, <1>5 DEF ToSet
<1> QED
  BY <1>1, <1>3, <1>6 DEF IsInjective, t

(* A new object is appended.                                               *)
LEMMA AppendSet ==
    ASSUME NEW S, NEW s \in Seq(S), NEW e \in S
    PROVE  /\ Append(s, e) \in Seq(S)
           /\ ToSet(Append(s, e)) = ToSet(s) \cup {e}
           /\ IsInjective(s) /\ e \notin ToSet(s) => IsInjective(Append(s, e))
<1> DEFINE t == Append(s, e)
<1>1. /\ t \in Seq(S) /\ Len(s) \in Nat
      /\ DOMAIN s = 1 .. Len(s) /\ DOMAIN t = 1 .. Len(s) + 1
      /\ \A i \in DOMAIN s : t[i] = s[i]
      /\ t[Len(s) + 1] = e
  OBVIOUS
<1> HIDE DEF t
<1>2. \A i \in DOMAIN t : i \in DOMAIN s \/ i = Len(s) + 1
  BY <1>1
<1>3. ToSet(t) = ToSet(s) \cup {e}
  <2>1. ToSet(t) \subseteq ToSet(s) \cup {e}
    BY <1>1, <1>2 DEF ToSet
  <2>2. \A i \in DOMAIN s : s[i] \in ToSet(t)
    BY <1>1 DEF ToSet
  <2>3. e \in ToSet(t)
    BY <1>1 DEF ToSet
  <2> QED
    BY <2>1, <2>2, <2>3 DEF ToSet
<1>4. IsInjective(s) /\ e \notin ToSet(s) => IsInjective(t)
  BY <1>1, <1>2 DEF IsInjective, ToSet
<1> QED
  BY <1>1, <1>3, <1>4 DEF t

(* In a list without duplicates as many entries have a name as objects do. *)
LEMMA CountNamed ==
    ASSUME NEW S, NEW s \in Seq(S), IsInjective(s), NEW n
    PROVE  LET entries == {k \in DOMAIN s : s[k].name = n}
               objects == {e \in ToSet(s) : e.name = n}
           IN  /\ IsFiniteSet(objects)
               /\ Cardinality(entries) = Cardinality(objects)
<1> DEFINE entries == {k \in DOMAIN s : s[k].name = n}
           objects == {e \in ToSet(s) : e.name = n}
           f == [k \in entries |-> s[k]]
<1>1. IsFiniteSet(entries)
  <2>1. IsFiniteSet(1 .. Len(s)) /\ DOMAIN s = 1 .. Len(s)
    BY FS_Interval
  <2> QED
    BY <2>1, FS_Subset
<1>2. f \in [entries -> objects]
  BY DEF ToSet
<1>3. \A i, j \in entries : f[i] = f[j] => i = j
  BY DEF IsInjective
<1>4. \A e \in objects : \E i \in entries : f[i] = e
  BY DEF ToSet
<1> HIDE DEF f, entries, objects
<1>5. f \in Bijection(entries, objects)
  BY <1>2, <1>3, <1>4, Fun_IsBij
<1>6. IsFiniteSet(objects) /\ Cardinality(objects) = Cardinality(entries)
  <2>1. ExistsBijection(entries, objects)
    BY <1>5 DEF ExistsBijection
  <2> QED
    BY <1>1, <2>1, FS_Bijection
<1> QED
  BY <1>6 DEF entries, objects

(* A list has finitely many objects.                                       *)
LEMMA FiniteToSet ==
    ASSUME NEW S, NEW s \in Seq(S)
    PROVE  IsFiniteSet(ToSet(s))
<1>1. IsFiniteSet(1 .. Len(s)) /\ DOMAIN s = 1 .. Len(s)
  BY FS_Interval
<1> DEFINE f == [i \in 1 .. Len(s) |-> s[i]]
<1>2. /\ f \in [1 .. Len(s) -> ToSet(s)]
      /\ \A e \in ToSet(s) : \E i \in 1 .. Len(s) : f[i] = e
  BY <1>1 DEF ToSet
<1>3. f \in Surjection(1 .. Len(s), ToSet(s))
  BY <1>2, Fun_IsSurj
<1> QED
  BY <1>1, <1>3, FS_Surjection

(* A list that has an object of a name has a first one.                    *)
LEMMA FirstNamed ==
    ASSUME NEW S, NEW s \in Seq(S), NEW n, NEW j \in DOMAIN s, s[j].name = n
    PROVE  \E k \in DOMAIN s : /\ s[k].name = n
                              /\ \A i \in 1 .. k - 1 : s[i].name # n
<1> DEFINE T == {i \in DOMAIN s : s[i].name = n}
<1>1. T \subseteq Nat /\ T # {}
  OBVIOUS
<1>2. PICK k \in T : \A i \in T : <<i, k>> \notin OpToRel(<, Nat)
  BY <1>1, NatLessThanWellFounded, WFMin, Zenon
<1>3. \A i \in T : ~(i < k)
  BY <1>1, <1>2 DEF OpToRel
<1> QED
  BY <1>3

-----------------------------------------------------------------------------
(* Objects and the services (name and interface) they are listed for.      *)
Named(objects, n) == {sd \in objects : sd.name = n}
PresentAs(services, n) == {s \in services : s[1] = n}

SameCount(objects, services, n) ==
    Cardinality(Named(objects, n)) = Cardinality(PresentAs(services, n))

(* One more object and one more service of the same name ...               *)
LEMMA OneMore ==
    ASSUME NEW objects, NEW services, IsFiniteSet(objects), IsFiniteSet(services),
           NEW sd, sd \notin objects, NEW s, s \notin services, s[1] = sd.name,
           NEW n, SameCount(objects, services, n)
    PROVE  SameCount(objects \cup {sd}, services \cup {s}, n)
<1>1. IsFiniteSet(Named(objects, n)) /\ IsFiniteSet(PresentAs(services, n))
  BY FS_Subset DEF Named, PresentAs
<1>2. CASE n = sd.name
  <2>1. /\ Named(objects \cup {sd}, n) = Named(objects, n) \cup {sd}
        /\ PresentAs(services \cup {s}, n) = PresentAs(services, n) \cup {s}
        /\ sd \notin Named(objects, n) /\ s \notin PresentAs(services, n)
    BY <1>2 DEF Named, PresentAs
  <2>2. Cardinality(Named(objects, n) \cup {sd})
          = Cardinality(Named(objects, n)) + 1
    BY <1>1, <2>1, FS_AddElement
  <2>3. Cardinality(PresentAs(services, n) \cup {s})
          = Cardinality(PresentAs(services, n)) + 1
    BY <1>1, <2>1, FS_AddElement
  <2> QED
    BY <2>1, <2>2, <2>3 DEF SameCount
<1>3. CASE n # sd.name
  <2>1. /\ Named(objects \cup {sd}, n) = Named(objects, n)
        /\ PresentAs(services \cup {s}, n) = PresentAs(services, n)
    BY <1>3 DEF Named, PresentAs
  <2> QED
    BY <2>1 DEF SameCount
<1> QED
  BY <1>2, <1>3

(* ... and one less.                                                       *)
LEMMA OneLess ==
    ASSUME NEW objects, NEW services, IsFiniteSet(objects), IsFiniteSet(services),
           NEW sd \in objects, NEW s \in services, s[1] = sd.name,
           NEW n, SameCount(objects, services, n)
    PROVE  SameCount(objects \ {sd}, services \ {s}, n)
<1>1. IsFiniteSet(Named(objects, n)) /\ IsFiniteSet(PresentAs(services, n))
  BY FS_Subset DEF Named, PresentAs
<1>2. CASE n = sd.name
  <2>1. /\ Named(objects \ {sd}, n) = Named(objects, n) \ {sd}
        /\ PresentAs(services \ {s}, n) = PresentAs(services, n) \ {s}
        /\ sd \in Named(objects, n) /\ s \in PresentAs(services, n)
    BY <1>2 DEF Named, PresentAs
  <2>2. Cardinality(Named(objects, n) \ {sd})
          = Cardinality(Named(objects, n)) - 1
    BY <1>1, <2>1, FS_RemoveElement
  <2>3. Cardinality(PresentAs(services, n) \ {s})
          = Cardinality(PresentAs(services, n)) - 1
    BY <1>1, <2>1, FS_RemoveElement
  <2> QED
    BY <2>1, <2>2, <2>3 DEF SameCount
<1>3. CASE n # sd.name
  <2>1. /\ Named(objects \ {sd}, n) = Named(objects, n)
        /\ PresentAs(services \ {s}, n) = PresentAs(services, n)
    BY <1>3 DEF Named, PresentAs
  <2> QED
    BY <2>1 DEF SameCount
<1> QED
  BY <1>2, <1>3

(* A service that is present has an object of its name.                    *)
LEMMA SomeNamed ==
    ASSUME NEW objects, NEW services, IsFiniteSet(objects), IsFiniteSet(services),
           NEW s \in services, SameCount(objects, services, s[1])
    PROVE  \E sd \in objects : sd.name = s[1]
<1>1. /\ IsFiniteSet(Named(objects, s[1]))
      /\ IsFiniteSet(PresentAs(services, s[1]))
      /\ PresentAs(services, s[1]) # {}
  BY FS_Subset DEF Named, PresentAs
<1>2. Cardinality(PresentAs(services, s[1])) # 0
  BY <1>1, FS_EmptySet
<1>3. Named(objects, s[1]) # {}
  BY <1>1, <1>2, FS_EmptySet DEF SameCount
<1> QED
  BY <1>3 DEF Named

=============================================================================
