-------------------------- MODULE Identifiers_proofs --------------------------
(***************************************************************************)
(* A provider id leads back to the instance it was made for, whatever the  *)
(* names of regions and instances are; and of a list of volume sources,    *)
(* however long it is, every EBS volume is named at its place.             *)
(***************************************************************************)
EXTENDS Identifiers, FiniteSetTheorems, SequenceTheorems, WellFoundedInduction, TLAPS

\* A response in hand is the one its request calls for, if that is about a
\* provider id of the driver's own making.
Inv ==
    \/ response = NoResponse
    \/ \A region, instanceID \in Names :
           request = [providerID |-> encodeInstanceID(region, instanceID)]
           => response = [code |-> "OK", decoded |-> <<region, instanceID>>]

\* decodeRegionAndInstanceID undoes encodeInstanceID.
LEMMA DecodeEncode ==
    ASSUME NEW region, NEW instanceID
    PROVE  /\ Len(encodeInstanceID(region, instanceID)) = 5
           /\ decodeRegionAndInstanceID(encodeInstanceID(region, instanceID))
                  = <<region, instanceID>>
<1> DEFINE id == <<"aws:", "", "", region, instanceID>>
<1>1. Len(id) = 5
  OBVIOUS
<1>2. id[4] = region /\ id[5] = instanceID
  OBVIOUS
<1> HIDE DEF id
<1>3. Len(id) - 1 = 4
  BY <1>1
<1>4. encodeInstanceID(region, instanceID) = id
  BY DEF encodeInstanceID, id
<1> QED
  BY <1>1, <1>2, <1>3, <1>4 DEF decodeRegionAndInstanceID

\* So no two instances are given the same provider id.
THEOREM ProviderIDsDiffer ==
    ASSUME NEW r1, NEW i1, NEW r2, NEW i2,
           encodeInstanceID(r1, i1) = encodeInstanceID(r2, i2)
    PROVE  r1 = r2 /\ i1 = i2
BY DEF encodeInstanceID

LEMMA DecodeProviderIDKeepsInv ==
    ASSUME DecodeProviderID
    PROVE  Inv'
<1> SUFFICES ASSUME NEW region \in Names, NEW instanceID \in Names,
                    request' = [providerID |-> encodeInstanceID(region, instanceID)]
             PROVE  response' = [code |-> "OK", decoded |-> <<region, instanceID>>]
  BY DEF Inv
<1>1. request.providerID = encodeInstanceID(region, instanceID)
  BY DEF DecodeProviderID
<1>2. ~(Len(request.providerID) < 2)
  BY <1>1, DecodeEncode
<1> QED
  BY <1>1, <1>2, DecodeEncode DEF DecodeProviderID

\* A listing of volumes is not asked about a provider id.
LEMMA GetVolumeIDsKeepsInv ==
    ASSUME GetVolumeIDs
    PROVE  Inv'
<1> SUFFICES ASSUME NEW region \in Names, NEW instanceID \in Names,
                    request' = [providerID |-> encodeInstanceID(region, instanceID)]
             PROVE  FALSE
  BY DEF Inv
<1>1. DOMAIN request = {"providerID"}
  BY DEF GetVolumeIDs
<1> QED
  BY <1>1 DEF GetVolumeIDs

\* Whatever the names of regions and instances are, the provider id of an
\* instance is decoded to the region and instance it was made for.
THEOREM ProviderIDCorrect == Spec => []ProviderIDNamesInstance
<1>1. Init => Inv
  BY DEF Init, Inv
<1>2. Inv /\ [Next]_vars => Inv'
  <2> SUFFICES ASSUME Inv, [Next]_vars
               PROVE  Inv'
    OBVIOUS
  <2>1. CASE UNCHANGED vars
    BY <2>1 DEF Inv, vars
  <2>2. CASE Answered
    BY <2>2 DEF Answered, Inv, vars
  <2> QED
    BY <2>1, <2>2, GetVolumeIDsKeepsInv, DecodeProviderIDKeepsInv DEF Next
<1>3. Inv => ProviderIDNamesInstance
  BY DEF Inv, ProviderIDNamesInstance
<1> QED
  BY <1>1, <1>2, <1>3, PTL DEF Spec

---------------------------------------------------------------------------
(* Induction over a set of naturals.                                       *)

LEMMA LeastElement ==
    ASSUME NEW S \in SUBSET Nat, S # {}
    PROVE  \E n \in S : \A m \in S : n <= m
<1> DEFINE R == OpToRel(<, Nat)
<1>1. IsWellFoundedOn(R, Nat)
  BY NatLessThanWellFounded
<1>2. \A x, y \in Nat : x < y => <<x, y>> \in R
  BY DEF OpToRel
<1> HIDE DEF R
<1>3. PICK n \in S : \A m \in S : <<m, n>> \notin R
  BY <1>1, WFMin
<1>4. \A m \in S : ~(m < n)
  BY <1>2, <1>3
<1> QED
  BY <1>4

LEMMA Induction ==
    ASSUME NEW S \in SUBSET Nat, 0 \in S, \A n \in S : n + 1 \in S
    PROVE  S = Nat
<1> SUFFICES ASSUME S # Nat
             PROVE  FALSE
  OBVIOUS
<1> DEFINE T == Nat \ S
<1>1. T \in SUBSET Nat /\ T # {}
  OBVIOUS
<1> HIDE DEF T
<1>2. PICK n \in T : \A m \in T : n <= m
  BY <1>1, LeastElement
<1>3. n \in Nat /\ n # 0 /\ n \notin S
  BY <1>2 DEF T
<1>4. n - 1 \in Nat /\ ~(n <= n - 1)
  BY <1>3
<1>5. n - 1 \in S
  BY <1>2, <1>4 DEF T
<1>6. (n - 1) + 1 = n
  BY <1>3
<1> QED
  BY <1>3, <1>5, <1>6

LEMMA MinMax ==
    ASSUME NEW L \in Nat, NEW S \in SUBSET (1..L), S # {}
    PROVE  /\ Min(S) \in S /\ \A x \in S : Min(S) <= x
           /\ Max(S) \in S /\ \A x \in S : x <= Max(S)
<1>1. \E n \in S : \A m \in S : n <= m
  BY LeastElement
<1>2. Min(S) \in S /\ \A x \in S : Min(S) <= x
  BY <1>1 DEF Min
<1> DEFINE Bounds == {n \in Nat : \A x \in S : x <= n}
<1>3. L \in Bounds
  OBVIOUS
<1>4. PICK b \in Bounds : \A n \in Bounds : b <= n
  BY <1>3, LeastElement
<1>5. b \in S
  <2> SUFFICES ASSUME b \notin S
               PROVE  FALSE
    OBVIOUS
  <2>1. \A x \in S : x <= b - 1
    BY <1>4
  <2>2. b - 1 \in Nat
    <3>1. PICK x \in S : TRUE
      OBVIOUS
    <3> QED
      BY <2>1, <3>1
  <2> QED
    BY <1>4, <2>1, <2>2
<1>6. \E n \in S : \A m \in S : n >= m
  BY <1>4, <1>5
<1>7. Max(S) \in S /\ \A x \in S : Max(S) >= x
  BY <1>6 DEF Max
<1> QED
  BY <1>2, <1>7

---------------------------------------------------------------------------
(* One volume source.                                                      *)

\* What is between the first and the last of some places is one part exactly
\* when there is one place.
LEMMA Between ==
    ASSUME NEW S, NEW s \in Seq(S), NEW places \in SUBSET DOMAIN s, places # {}
    PROVE  /\ Len(SubSeq(s, Min(places), Max(places))) = 1 =>
                 \E i \in places : /\ places = {i}
                                  /\ SubSeq(s, Min(places), Max(places))[1] = s[i]
           /\ \A i \in places :
                 places = {i} => /\ Len(SubSeq(s, Min(places), Max(places))) = 1
                                 /\ SubSeq(s, Min(places), Max(places))[1] = s[i]
<1> DEFINE lo == Min(places)
           hi == Max(places)
           t == SubSeq(s, lo, hi)
<1>1. Len(s) \in Nat /\ DOMAIN s = 1..Len(s) /\ \A i \in 1..Len(s) : s[i] \in S
  OBVIOUS
<1>2. /\ lo \in places /\ \A x \in places : lo <= x
      /\ hi \in places /\ \A x \in places : x <= hi
  BY <1>1, MinMax
<1> HIDE DEF lo, hi
<1>3. /\ lo \in 1..Len(s) /\ hi \in 1..Len(s) /\ lo <= hi
      /\ \A i \in lo..hi : s[i] \in S
  BY <1>1, <1>2
<1>4. Len(t) = hi - lo + 1 /\ t[1] = s[lo]
  BY <1>3, SubSeqProperties
<1> HIDE DEF t
<1>5. ASSUME Len(t) = 1
      PROVE  places = {lo}
  <2>1. hi = lo
    <3>1. lo \in Int /\ hi \in Int
      BY <1>1, <1>3
    <3>2. hi - lo + 1 = 1
      BY <1>4, <1>5
    <3> QED
      BY <3>1, <3>2
  <2>2. \A x \in places : x \in Int /\ lo <= x /\ x <= lo
    BY <1>1, <1>2, <2>1
  <2>3. \A x \in places : x = lo
    BY <1>3, <2>2
  <2> QED
    BY <1>2, <2>3
<1>6. ASSUME NEW i \in places, places = {i}
      PROVE  lo = i /\ hi = i
  BY <1>2, <1>6
<1>7. \A i \in places : places = {i} => Len(t) = 1 /\ t[1] = s[i]
  BY <1>3, <1>4, <1>6
<1> QED
  BY <1>2, <1>4, <1>5, <1>7 DEF t, lo, hi

\* The places of a path that are not empty.
Filled(path) == {i \in DOMAIN path : path[i] # ""}

\* A path is trimmed to one part exactly when all its parts but one are empty.
LEMMA TrimToOne ==
    ASSUME NEW path \in Seq(Part)
    PROVE  /\ Len(Trim(path)) = 1 =>
                 \E i \in DOMAIN path : Filled(path) = {i} /\ Trim(path)[1] = path[i]
           /\ \A i \in DOMAIN path :
                 Filled(path) = {i} => Len(Trim(path)) = 1 /\ Trim(path)[1] = path[i]
<1>1. Filled(path) \in SUBSET DOMAIN path
  BY DEF Filled
<1>2. Filled(path) = {} => Len(Trim(path)) # 1
  <2>1. Filled(path) = {} => Trim(path) = <<>>
    BY DEF Trim, Filled
  <2>2. Len(<<>>) = 0
    OBVIOUS
  <2> QED
    BY <2>1, <2>2
<1>3. CASE Filled(path) # {}
  <2>1. Trim(path) = SubSeq(path, Min(Filled(path)), Max(Filled(path)))
    BY <1>3 DEF Trim, Filled
  <2>2. /\ Len(Trim(path)) = 1 =>
              \E i \in Filled(path) : Filled(path) = {i} /\ Trim(path)[1] = path[i]
        /\ \A i \in Filled(path) :
              Filled(path) = {i} => Len(Trim(path)) = 1 /\ Trim(path)[1] = path[i]
    <3> DEFINE places == Filled(path)
    <3>1. places \in SUBSET DOMAIN path /\ places # {}
      BY <1>1, <1>3
    <3>2. Trim(path) = SubSeq(path, Min(places), Max(places))
      BY <2>1
    <3> HIDE DEF places
    <3>3. /\ Len(Trim(path)) = 1 =>
                \E i \in places : places = {i} /\ Trim(path)[1] = path[i]
          /\ \A i \in places :
                places = {i} => Len(Trim(path)) = 1 /\ Trim(path)[1] = path[i]
      <4>1. /\ Len(SubSeq(path, Min(places), Max(places))) = 1 =>
                  \E i \in places : /\ places = {i}
                                   /\ SubSeq(path, Min(places), Max(places))[1] = path[i]
            /\ \A i \in places :
                  places = {i} => /\ Len(SubSeq(path, Min(places), Max(places))) = 1
                                  /\ SubSeq(path, Min(places), Max(places))[1] = path[i]
        BY <3>1, Between
      <4> QED
        BY <3>2, <4>1
    <3> QED
      BY <3>3 DEF places
  <2> QED
    BY <1>1, <2>2
<1>4. CASE Filled(path) = {}
  BY <1>2, <1>4
<1> QED
  BY <1>3, <1>4

\* So a URL names what its path is trimmed to.
LEMMA UrlNamesTrimmed ==
    ASSUME NEW id \in [parses : BOOLEAN, path : Seq(Part)], NEW v
    PROVE  UrlNames(id, v) <=> /\ id.parses /\ v \in Volumes
                               /\ Len(Trim(id.path)) = 1 /\ Trim(id.path)[1] = v
<1> DEFINE path == id.path
           Alone(i) == path[i] # "" /\ \A j \in DOMAIN path \ {i} : path[j] = ""
<1>1. path \in Seq(Part)
  OBVIOUS
<1>2. ASSUME NEW i \in DOMAIN path
      PROVE  Filled(path) = {i} <=> Alone(i)
  <2>1. \A j : j \in Filled(path) <=> j \in DOMAIN path /\ path[j] # ""
    BY DEF Filled
  <2> HIDE DEF path
  <2>2. ASSUME Filled(path) = {i}
        PROVE  Alone(i)
    BY <1>2, <2>1, <2>2
  <2>3. ASSUME Alone(i)
        PROVE  Filled(path) = {i}
    <3>1. \A j : j \in Filled(path) <=> j = i
      BY <1>2, <2>1, <2>3
    <3> QED
      BY <3>1
  <2> QED
    BY <2>2, <2>3
<1>3. v \in Volumes => v # ""
  BY PartsAssumption
<1>4. UrlNames(id, v) <=> /\ id.parses /\ v \in Volumes
                          /\ \E i \in DOMAIN path : Alone(i) /\ path[i] = v
  BY <1>3 DEF UrlNames
<1> HIDE DEF path, Alone
<1>5. (\E i \in DOMAIN path : Alone(i) /\ path[i] = v)
         <=> Len(Trim(path)) = 1 /\ Trim(path)[1] = v
  BY <1>1, <1>2, TrimToOne
<1> QED
  BY <1>4, <1>5 DEF path

\* A source counts exactly when it names a volume, and then it is that one.
LEMMA CountedIsNamed ==
    ASSUME NEW spec \in PVSpec
    PROVE  /\ IsCounted(spec) <=> VolumesOf(spec) # {}
           /\ IsCounted(spec) => VolumeOf(spec) \in VolumesOf(spec)
<1>1. CASE spec \in [ebs : VolumeID]
  <2> DEFINE id == spec.ebs
  <2>1. "ebs" \in DOMAIN spec /\ "driver" \notin DOMAIN spec /\ id \in VolumeID
    BY <1>1
  <2>2. CASE id \in [name : Part]
    <3>1. "name" \in DOMAIN id /\ id.name \in Part
      BY <2>2
    <3> QED
      BY <2>1, <3>1 DEF IsCounted, VolumesOf, VolumeOf, Translates,
         kubernetesVolumeIDToEBSVolumeID
  <2>3. CASE id \in [parses : BOOLEAN, path : Seq(Part)]
    <3>1. "name" \notin DOMAIN id /\ id.path \in Seq(Part)
      BY <2>3
    <3>2. VolumesOf(spec) = {v \in Part : UrlNames(id, v)}
      BY <2>1, <3>1 DEF VolumesOf
    <3>3. /\ IsCounted(spec) <=> id.parses /\ Len(Trim(id.path)) = 1
                                 /\ Trim(id.path)[1] \in Volumes
          /\ VolumeOf(spec) = Trim(id.path)[1]
      BY <2>1, <3>1 DEF IsCounted, VolumeOf, Translates, kubernetesVolumeIDToEBSVolumeID
    <3>4. \A v : UrlNames(id, v) <=> /\ id.parses /\ v \in Volumes
                                     /\ Len(Trim(id.path)) = 1 /\ Trim(id.path)[1] = v
      BY <2>3, UrlNamesTrimmed
    <3>5. Volumes \subseteq Part
      BY DEF Part
    <3> QED
      BY <3>2, <3>3, <3>4, <3>5
  <2> QED
    BY <2>1, <2>2, <2>3 DEF VolumeID
<1>2. CASE spec \in [driver : {"ebs.csi.aws.com", "other"}, handle : Part]
  <2>1. /\ "ebs" \notin DOMAIN spec /\ "driver" \in DOMAIN spec
        /\ spec.handle \in Part
    BY <1>2
  <2> QED
    BY <2>1 DEF IsCounted, VolumesOf, VolumeOf
<1>3. CASE spec \in {[other |-> TRUE]}
  <2>1. "ebs" \notin DOMAIN spec /\ "driver" \notin DOMAIN spec
    BY <1>3
  <2> QED
    BY <2>1 DEF IsCounted, VolumesOf
<1> QED
  BY <1>1, <1>2, <1>3 DEF PVSpec

---------------------------------------------------------------------------
(* The loop over the sources.                                              *)

\* f[i] is what the loop has gathered after i of n specs.
IsLoop(f, specs, n) ==
    f = [i \in 0..n |-> IF i = 0 THEN <<>>
                        ELSE IF IsCounted(specs[i])
                             THEN Append(f[i - 1], VolumeOf(specs[i]))
                             ELSE f[i - 1]]

LEMMA LoopStep ==
    ASSUME NEW f, NEW specs, NEW n \in Nat, IsLoop(f, specs, n)
    PROVE  \E g : IsLoop(g, specs, n + 1)
<1> DEFINE Step(i, before) == IF IsCounted(specs[i])
                              THEN Append(before, VolumeOf(specs[i]))
                              ELSE before
           g == [i \in 0..(n + 1) |-> IF i = n + 1 THEN Step(n + 1, f[n]) ELSE f[i]]
<1> HIDE DEF Step
<1>1. f = [i \in 0..n |-> IF i = 0 THEN <<>> ELSE Step(i, f[i - 1])]
  BY DEF IsLoop, Step
<1>2. \A i \in 0..n : f[i] = IF i = 0 THEN <<>> ELSE Step(i, f[i - 1])
  BY <1>1
<1>3. ASSUME NEW i \in 0..(n + 1)
      PROVE  g[i] = IF i = 0 THEN <<>> ELSE Step(i, g[i - 1])
  <2>1. CASE i = n + 1
    BY <2>1
  <2>2. CASE i \in 0..n
    <3>1. g[i] = f[i] /\ (i # 0 => g[i - 1] = f[i - 1])
      BY <2>2
    <3> QED
      BY <1>2, <2>2, <3>1
  <2> QED
    BY <2>1, <2>2
<1>4. g = [i \in 0..(n + 1) |-> g[i]]
  OBVIOUS
<1> HIDE DEF g
<1>5. g = [i \in 0..(n + 1) |-> IF i = 0 THEN <<>> ELSE Step(i, g[i - 1])]
  BY <1>3, <1>4
<1>6. IsLoop(g, specs, n + 1)
  BY <1>5 DEF IsLoop, Step
<1> QED
  BY <1>6

LEMMA LoopExists ==
    ASSUME NEW specs, NEW L \in Nat
    PROVE  \E f : IsLoop(f, specs, L)
<1> DEFINE S == {n \in Nat : \E f : IsLoop(f, specs, n)}
<1>1. 0 \in S
  <2>1. IsLoop([i \in 0..0 |-> <<>>], specs, 0)
    <3>1. 0..0 = {0}
      OBVIOUS
    <3> QED
      BY <3>1 DEF IsLoop
  <2> QED
    BY <2>1
<1>2. \A n \in S : n + 1 \in S
  BY LoopStep
<1> HIDE DEF S
<1>3. S \in SUBSET Nat
  BY DEF S
<1>4. S = Nat
  BY <1>1, <1>2, <1>3, Induction
<1> QED
  BY <1>4 DEF S

\* GetVolumeIDs answers what its loop has gathered in the end.
LEMMA VolumeIDsOfLoop ==
    ASSUME NEW specs, Len(specs) \in Nat
    PROVE  \E f : IsLoop(f, specs, Len(specs)) /\ VolumeIDs(specs) = f[Len(specs)]
<1> DEFINE after == CHOOSE f : IsLoop(f, specs, Len(specs))
<1>1. IsLoop(after, specs, Len(specs))
  BY LoopExists
<1>2. VolumeIDs(specs) = after[Len(specs)]
  BY DEF VolumeIDs, IsLoop
<1> QED
  BY <1>1, <1>2

\* The places among the first n at which there is a source that counts.
Counted(specs, n) == {i \in 1..n : IsCounted(specs[i])}

\* What holds of the loop after n specs.
Gathered(found, specs, n) ==
    /\ found \in Seq(Part)
    /\ Len(found) = Cardinality(Counted(specs, n))
    /\ \A i \in Counted(specs, n) :
          found[Cardinality(Counted(specs, i))] \in VolumesOf(specs[i])

LEMMA CountedIsFinite ==
    ASSUME NEW specs, NEW n \in Nat
    PROVE  /\ IsFiniteSet(Counted(specs, n))
           /\ Cardinality(Counted(specs, n)) \in Nat
           /\ \A i \in Counted(specs, n) :
                 Cardinality(Counted(specs, i)) \in 1..Cardinality(Counted(specs, n))
<1>1. \A k \in Nat : IsFiniteSet(Counted(specs, k))
  <2> TAKE k \in Nat
  <2>1. IsFiniteSet(1..k) /\ Counted(specs, k) \in SUBSET (1..k)
    BY FS_Interval DEF Counted
  <2> QED
    BY <2>1, FS_Subset
<1>2. ASSUME NEW i \in Counted(specs, n)
      PROVE  Cardinality(Counted(specs, i)) \in 1..Cardinality(Counted(specs, n))
  <2>1. i \in Nat /\ i \in Counted(specs, i)
        /\ Counted(specs, i) \in SUBSET Counted(specs, n)
    BY DEF Counted
  <2>2. Cardinality(Counted(specs, i)) \in Nat /\ Cardinality(Counted(specs, i)) # 0
    BY <1>1, <2>1, FS_EmptySet, FS_CardinalityType
  <2>3. Cardinality(Counted(specs, i)) <= Cardinality(Counted(specs, n))
    BY <1>1, <2>1, FS_Subset
  <2>4. Cardinality(Counted(specs, n)) \in Nat
    BY <1>1, FS_CardinalityType
  <2> QED
    BY <2>2, <2>3, <2>4
<1> QED
  BY <1>1, <1>2, FS_CardinalityType

\* A source that counts is appended, any other is passed over.
LEMMA GatheredStep ==
    ASSUME NEW specs \in Seq(PVSpec), NEW n \in Nat, n + 1 \in 1..Len(specs),
           NEW found, Gathered(found, specs, n)
    PROVE  Gathered(IF IsCounted(specs[n + 1])
                    THEN Append(found, VolumeOf(specs[n + 1]))
                    ELSE found,
                    specs, n + 1)
<1>1. specs[n + 1] \in PVSpec
  OBVIOUS
<1>2. CASE ~IsCounted(specs[n + 1])
  <2>1. Counted(specs, n + 1) = Counted(specs, n)
    BY <1>2 DEF Counted
  <2> QED
    BY <1>2, <2>1 DEF Gathered
<1>3. CASE IsCounted(specs[n + 1])
  <2> DEFINE v == VolumeOf(specs[n + 1])
             c == Cardinality(Counted(specs, n))
  <2>1. v \in VolumesOf(specs[n + 1]) /\ v \in Part
    BY <1>1, <1>3, CountedIsNamed DEF VolumesOf
  <2>2. /\ Counted(specs, n + 1) = Counted(specs, n) \cup {n + 1}
        /\ n + 1 \notin Counted(specs, n)
    BY <1>3 DEF Counted
  <2>3. Cardinality(Counted(specs, n + 1)) = c + 1 /\ c \in Nat
    BY <2>2, CountedIsFinite, FS_AddElement
  <2>4. found \in Seq(Part) /\ Len(found) = c
    BY DEF Gathered
  <2> HIDE DEF v, c
  <2>5. /\ Append(found, v) \in Seq(Part) /\ Len(Append(found, v)) = c + 1
        /\ Append(found, v)[c + 1] = v
        /\ \A k \in 1..c : Append(found, v)[k] = found[k]
    BY <2>1, <2>3, <2>4, AppendProperties
  <2>6. ASSUME NEW i \in Counted(specs, n + 1)
        PROVE  Append(found, v)[Cardinality(Counted(specs, i))] \in VolumesOf(specs[i])
    <3>1. CASE i = n + 1
      BY <2>1, <2>3, <2>5, <3>1
    <3>2. CASE i \in Counted(specs, n)
      <4>1. Cardinality(Counted(specs, i)) \in 1..c
        BY <3>2, CountedIsFinite DEF c
      <4>2. found[Cardinality(Counted(specs, i))] \in VolumesOf(specs[i])
        BY <3>2 DEF Gathered
      <4> QED
        BY <2>5, <4>1, <4>2
    <3> QED
      BY <2>2, <2>6, <3>1, <3>2
  <2> QED
    BY <1>3, <2>3, <2>5, <2>6 DEF Gathered, v
<1> QED
  BY <1>2, <1>3

LEMMA VolumeIDsGathered ==
    ASSUME NEW specs \in Seq(PVSpec)
    PROVE  Gathered(VolumeIDs(specs), specs, Len(specs))
<1>1. Len(specs) \in Nat
  OBVIOUS
<1>2. PICK f : IsLoop(f, specs, Len(specs)) /\ VolumeIDs(specs) = f[Len(specs)]
  BY <1>1, VolumeIDsOfLoop
<1> DEFINE S == {n \in Nat : n <= Len(specs) => Gathered(f[n], specs, n)}
<1>3. 0 \in S
  <2>1. f[0] = <<>>
    BY <1>1, <1>2 DEF IsLoop
  <2>2. Counted(specs, 0) = {}
    BY DEF Counted
  <2>3. Cardinality({}) = 0
    BY FS_EmptySet
  <2>4. <<>> \in Seq(Part) /\ Len(<<>>) = 0
    OBVIOUS
  <2>5. Gathered(f[0], specs, 0)
    BY <2>1, <2>2, <2>3, <2>4 DEF Gathered
  <2> QED
    BY <2>5
<1>4. ASSUME NEW n \in S
      PROVE  n + 1 \in S
  <2> SUFFICES ASSUME n + 1 <= Len(specs)
               PROVE  Gathered(f[n + 1], specs, n + 1)
    OBVIOUS
  <2>1. n \in Nat /\ n + 1 \in 1..Len(specs) /\ Gathered(f[n], specs, n)
    BY <1>1
  <2>2. f[n + 1] = IF IsCounted(specs[n + 1])
                   THEN Append(f[n], VolumeOf(specs[n + 1]))
                   ELSE f[n]
    <3>1. n + 1 \in 0..Len(specs) /\ n + 1 # 0 /\ (n + 1) - 1 = n
      BY <1>1, <2>1
    <3> QED
      BY <1>2, <3>1 DEF IsLoop
  <2> QED
    BY <2>1, <2>2, GatheredStep
<1> HIDE DEF S
<1>5. S \in SUBSET Nat
  BY DEF S
<1>6. Len(specs) \in S
  BY <1>1, <1>3, <1>4, <1>5, Induction
<1> QED
  BY <1>1, <1>2, <1>6 DEF S

\* However many volumes a node has: MCM is given one id for each EBS volume, of
\* that volume, in the order of the sources (core.go:674-707, util.go:83-104).
THEOREM VolumesNamed == Spec => []EveryVolumeNamed
<1> DEFINE Kept == /\ request \in Requests
                   /\ response # NoResponse /\ "pvSpecs" \in DOMAIN request =>
                         response.volumeIDs = VolumeIDs(request.pvSpecs)
<1>1. Init => Kept
  BY DEF Init
<1>2. Kept /\ [Next]_vars => Kept'
  <2> SUFFICES ASSUME Kept, [Next]_vars
               PROVE  Kept'
    OBVIOUS
  <2>1. CASE GetVolumeIDs
    BY <2>1 DEF GetVolumeIDs
  <2>2. CASE DecodeProviderID
    <3>1. "pvSpecs" \notin DOMAIN request
      <4>1. request \in [pvSpecs : Seq(PVSpec)] \/ request \in [providerID : ProviderID]
        BY RequestsAssumption
      <4> QED
        BY <2>2, <4>1 DEF DecodeProviderID
    <3> QED
      BY <2>2, <3>1 DEF DecodeProviderID
  <2>3. CASE UNCHANGED vars
    BY <2>3 DEF vars
  <2> QED
    BY <2>1, <2>2, <2>3 DEF Next, Answered
<1>3. Kept => EveryVolumeNamed
  <2> SUFFICES ASSUME Kept, response # NoResponse, "pvSpecs" \in DOMAIN request
               PROVE  EveryVolumeNamed
    BY DEF EveryVolumeNamed
  <2> DEFINE specs == request.pvSpecs
             ebs == {i \in DOMAIN specs : VolumesOf(specs[i]) # {}}
             rank(i) == Cardinality({j \in ebs : j <= i})
             found == response.volumeIDs
  <2>1. specs \in Seq(PVSpec)
    <3>1. request \in [pvSpecs : Seq(PVSpec)] \/ request \in [providerID : ProviderID]
      BY RequestsAssumption
    <3> QED
      BY <3>1
  <2>2. Gathered(found, specs, Len(specs))
    BY <2>1, VolumeIDsGathered
  <2> HIDE DEF specs, found
  <2>3. /\ Len(specs) \in Nat /\ DOMAIN specs = 1..Len(specs)
        /\ \A i \in 1..Len(specs) : specs[i] \in PVSpec
    BY <2>1
  <2>4. ebs = Counted(specs, Len(specs))
    BY <2>3, CountedIsNamed DEF Counted
  <2>5. \A i \in ebs : {j \in ebs : j <= i} = Counted(specs, i)
    BY <2>3, <2>4 DEF Counted
  <2> HIDE DEF ebs
  <2>6. Len(found) = Cardinality(ebs) /\ \A i \in ebs : found[rank(i)] \in VolumesOf(specs[i])
    BY <2>2, <2>4, <2>5 DEF Gathered
  <2> QED
    BY <2>6 DEF EveryVolumeNamed, specs, found, ebs
<1> QED
  BY <1>1, <1>2, <1>3, PTL DEF Spec
==============================================================================
