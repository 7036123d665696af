------------------------- MODULE ProviderSpec_proofs -------------------------
(***************************************************************************)
(* For every class, secret and image: what a class that passes validation  *)
(* becomes.  CreateMachine is one step, so that the theorems are about the *)
(* three readings of one class: the one validation has, the one the        *)
(* request is built from and the one by which instances are found again.   *)
(***************************************************************************)
EXTENDS ProviderSpec, FiniteSetTheorems, TLAPS

---------------------------------------------------------------------------
(* The reply tells which checks the class, the secret and the image passed. *)

OfInputs == \E input \in Inputs : spec = input.spec /\ secret = input.secret

Passed ==
    /\ ~Rejected
    /\ image # Nil
    /\ ~BlockDevicesFail(spec.blockDevices, image.root)
    /\ Placement(spec) # Malformed

\* An answer of CreateMachine is decided by the inputs alone: the request is
\* sent exactly when every check is passed (core.go:67-267).
Decided ==
    /\ OfInputs
    /\ \/ reply = NoReply
       \/ reply.code \in {"InvalidArgument", "NotFound", "Internal"} /\ ~Passed
       \/ /\ reply = [code |-> "OK", credentials |-> NewConfig(secret),
                      request |-> Request]
          /\ Passed

\* Every state's reply is the one its inputs call for.
THEOREM DecidedAlways == Spec => []Decided
<1>1. Init => Decided
  BY DEF Init, Decided, OfInputs
<1>2. Decided /\ [Next]_vars => Decided'
  <2> SUFFICES ASSUME Decided, [Next]_vars
               PROVE  Decided'
    OBVIOUS
  <2>1. CASE CreateMachine
    <3>1. OfInputs' /\ (Passed' <=> Passed) /\ Request' = Request
      BY <2>1 DEF CreateMachine, Decided, OfInputs, Passed, Rejected, Placement, Request
    <3>2. NewConfig(secret)' = NewConfig(secret)
      BY <2>1 DEF CreateMachine, NewConfig
    <3>3. CASE Passed
      <4>1. reply' = [code |-> "OK", credentials |-> NewConfig(secret),
                      request |-> Request]
        BY <2>1, <3>3 DEF CreateMachine, Passed
      <4> QED
        BY <3>1, <3>2, <3>3, <4>1 DEF Decided
    <3>4. CASE ~Passed
      <4>1. \/ reply' = [code |-> "InvalidArgument"]
            \/ reply' = [code |-> "NotFound"]
            \/ reply' = [code |-> "Internal"]
        BY <2>1, <3>4 DEF CreateMachine, Passed, Fails
      <4> QED
        BY <3>1, <3>4, <4>1 DEF Decided
    <3> QED
      BY <3>3, <3>4
  <2>2. CASE UNCHANGED vars
    BY <2>2 DEF vars, Decided, OfInputs, Passed, Rejected, Placement, Request, NewConfig
  <2> QED
    BY <2>1, <2>2 DEF Next, Answered
<1> QED
  BY <1>1, <1>2, PTL DEF Spec

\* What an OK says of the inputs and of the request.
LEMMA OKPassed ==
    ASSUME Decided, OK
    PROVE  /\ Passed
           /\ reply.request = Request
           /\ reply.credentials = NewConfig(secret)
           /\ spec \in AWSProviderSpec
           /\ secret \in Secret
<1>1. reply.code = "OK"
  BY DEF OK
<1>2. reply # NoReply
  BY <1>1 DEF NoReply
<1>3. /\ reply = [code |-> "OK", credentials |-> NewConfig(secret), request |-> Request]
      /\ Passed
  BY <1>1, <1>2 DEF Decided
<1>4. spec \in AWSProviderSpec /\ secret \in Secret
  BY InputsAssumption DEF Decided, OfInputs
<1> QED
  BY <1>3, <1>4

\* The disks and interfaces of a class, one by one.
LEMMA Sections ==
    ASSUME spec \in AWSProviderSpec
    PROVE  /\ spec.blockDevices \in Seq(AWSBlockDeviceMappingSpec)
           /\ spec.networkInterfaces \in Seq(AWSNetworkInterfaceSpec)
           /\ spec.iam \in AWSIAMProfileSpec
           /\ spec.capacityReservation \in Optional(AWSCapacityReservationTargetSpec)
           /\ spec.cpu \in Optional(CPUOptions)
BY DEF AWSProviderSpec

LEMMA SequenceTypes ==
    ASSUME NEW S, NEW s \in Seq(S)
    PROVE  /\ Len(s) \in Nat
           /\ DOMAIN s = 1..Len(s)
           /\ \A i \in DOMAIN s : s[i] \in S
OBVIOUS

LEMMA Entries ==
    ASSUME spec \in AWSProviderSpec
    PROVE  /\ \A i \in DOMAIN spec.blockDevices :
                 spec.blockDevices[i] \in AWSBlockDeviceMappingSpec
           /\ \A i \in DOMAIN spec.networkInterfaces :
                 spec.networkInterfaces[i] \in AWSNetworkInterfaceSpec
BY Sections, SequenceTypes

---------------------------------------------------------------------------
(* Credentials and tags.                                                   *)

\* The keys of which the client takes one of each pair.
KeyNames == {"providerAccessKeyId", "accessKeyID",
             "providerSecretAccessKey", "secretAccessKey"}

\* Of a pair that passes validation the client takes a blank.
LEMMA BlankTaken ==
    ASSUME NEW first \in STRING, NEW second \in STRING, NotEmpty(first) \/ NotEmpty(second)
    PROVE  extractCredentialsFromData(first, second) = "" <=> Blank(first, second)
BY DEF NotEmpty, extractCredentialsFromData, Blank

\* Whatever the secret: one that passes validation is used, except exactly those
\* of which a key that counts has no value (validation.go:273, cpi/aws.go:27-95).
THEOREM SecretExtent == Spec => []UsedUnlessBlank
<1>1. Decided => UsedUnlessBlank
  <2> SUFFICES ASSUME Decided, OK
               PROVE  NewConfig(secret) = "default" <=>
                         /\ secret.workloadIdentityTokenFile = "absent"
                         /\ \/ Blank(secret.providerAccessKeyId, secret.accessKeyID)
                            \/ Blank(secret.providerSecretAccessKey, secret.secretAccessKey)
    BY OKPassed DEF UsedUnlessBlank
  <2>1. CASE secret.workloadIdentityTokenFile # "absent"
    BY <2>1 DEF NewConfig
  <2>2. CASE secret.workloadIdentityTokenFile = "absent"
    <3>1. ValidateSecret(secret) /\ secret \in Secret
      BY OKPassed DEF Passed, Rejected
    <3>2. /\ NotEmpty(secret.providerAccessKeyId) \/ NotEmpty(secret.accessKeyID)
          /\ \/ NotEmpty(secret.providerSecretAccessKey)
             \/ NotEmpty(secret.secretAccessKey)
      BY <2>2, <3>1 DEF ValidateSecret
    <3>3. \A k \in KeyNames : secret[k] \in STRING
      BY <3>1 DEF Secret, KeyNames
    <3>4. extractCredentialsFromData(secret.providerAccessKeyId, secret.accessKeyID) = ""
          <=> Blank(secret.providerAccessKeyId, secret.accessKeyID)
      BY <3>2, <3>3, BlankTaken DEF KeyNames
    <3>5. extractCredentialsFromData(secret.providerSecretAccessKey,
                                     secret.secretAccessKey) = ""
          <=> Blank(secret.providerSecretAccessKey, secret.secretAccessKey)
      BY <3>2, <3>3, BlankTaken DEF KeyNames
    <3> QED
      BY <2>2, <3>4, <3>5 DEF NewConfig
  <2> QED
    BY <2>1, <2>2
<1> QED
  BY <1>1, DecidedAlways, PTL

\* In particular, unless a key of a pair is there without a value, a client never
\* falls back on credentials of the process.
THEOREM SecretIsUsed ==
    ASSUME \A input \in Inputs, k \in KeyNames : input.secret[k] \notin {"", " "}
    PROVE  Spec => []CredentialsAreOfSecret
<1>1. Decided /\ UsedUnlessBlank => CredentialsAreOfSecret
  <2> SUFFICES ASSUME Decided
               PROVE  /\ ~Blank(secret.providerAccessKeyId, secret.accessKeyID)
                      /\ ~Blank(secret.providerSecretAccessKey, secret.secretAccessKey)
    BY DEF UsedUnlessBlank, CredentialsAreOfSecret
  <2>1. \A k \in KeyNames : secret[k] \notin {"", " "}
    BY DEF Decided, OfInputs
  <2> QED
    BY <2>1 DEF KeyNames, Blank
<1> QED
  BY <1>1, DecidedAlways, SecretExtent, PTL

\* For any set of tags, cluster keys and role keys: what is launched passes
\* every filter that the random order of the tags may give, and carries the
\* machine's name (core_util.go:108-130, 266-292, core.go:574-612).
THEOREM FoundAgain == Spec => []LaunchedIsFound
<1>1. Decided => LaunchedIsFound
  <2> SUFFICES ASSUME Decided, OK, NEW filter \in Filters(spec.tags)
               PROVE  Found(generateTags(spec.tags), filter)
    BY OKPassed DEF LaunchedIsFound, Request
  <2> DEFINE tags == spec.tags
             found == generateTags(tags)
  <2>1. tags \cap ClusterKeys # {} /\ tags \cap (RoleKeys \ ClusterKeys) # {}
    BY OKPassed DEF Passed, Rejected, ValidateAWSProviderSpec, validateSpecTags
  <2>2. /\ filter.cluster \in tags \cap ClusterKeys
        /\ filter.role \in tags \cap (RoleKeys \ ClusterKeys)
    BY <2>1 DEF Filters, Picked
  <2>3. \A k \in tags \ {"Name"} : [key |-> k, value |-> "class"] \in found
    BY DEF generateTags
  <2>4. filter.cluster # "Name" /\ filter.role # "Name"
    BY <2>2, NameAssumption
  <2>5. \E t \in found : t.key = filter.cluster
    <3>1. [key |-> filter.cluster, value |-> "class"] \in found
      BY <2>2, <2>3, <2>4
    <3> QED
      BY <3>1
  <2>6. \E t \in found : t.key = filter.role
    <3>1. [key |-> filter.role, value |-> "class"] \in found
      BY <2>2, <2>3, <2>4
    <3> QED
      BY <3>1
  <2>7. {t.value : t \in {u \in found : u.key = "Name"}} = {"machine"}
    <3> DEFINE name == [key |-> "Name", value |-> "machine"]
    <3>1. name \in found /\ \A t \in found : t.key = "Name" => t = name
      BY DEF generateTags
    <3>2. {u \in found : u.key = "Name"} = {name}
      BY <3>1
    <3> HIDE DEF found, name
    <3>3. name.value = "machine"
      BY DEF name
    <3>4. {t.value : t \in {name}} = {name.value}
      OBVIOUS
    <3> QED
      BY <3>2, <3>3, <3>4
  <2> QED
    BY <2>5, <2>6, <2>7 DEF Found
<1> QED
  BY <1>1, DecidedAlways, PTL

---------------------------------------------------------------------------
(* Disks and interfaces.                                                   *)

\* A disk of the request is the class's, with iops exactly when it gives some.
LEMMA RequestedDisk ==
    ASSUME Decided, OK, NEW i \in DOMAIN Request.blockDevices
    PROVE  LET d == Request.blockDevices[i]
               s == spec.blockDevices[i]
           IN  /\ i \in DOMAIN spec.blockDevices
               /\ d.type = s.type /\ d.size = s.size /\ d.throughput = s.throughput
               /\ d.size \in Nat \ {0}
               /\ d.iops \in Optional(Nat \ {0})
               /\ d.iops # Nil <=> s.iops # 0
               /\ d.type = "io1" => d.iops # Nil
               /\ d.deleteOnTermination \in BOOLEAN
<1> DEFINE d == Request.blockDevices[i]
           s == spec.blockDevices[i]
<1>1. i \in DOMAIN spec.blockDevices
  BY DEF Request, generateBlockDevices
<1>2. /\ d.type = s.type /\ d.size = s.size /\ d.throughput = s.throughput
      /\ d.iops = Iops(s) /\ d.deleteOnTermination = IsDeleted(s)
  BY <1>1 DEF Request, generateBlockDevices
<1>3. s.size \in Int /\ s.iops \in Int /\ s.deleteOnTermination \in Optional(BOOLEAN)
  BY <1>1, OKPassed, Entries DEF AWSBlockDeviceMappingSpec
<1>4. s.size > 0 /\ s.iops >= 0 /\ (s.type = "io1" => s.iops >= 1)
  <2>1. ValidDisk(spec.blockDevices, i)
    BY <1>1, OKPassed DEF Passed, Rejected, ValidateAWSProviderSpec, validateBlockDevices
  <2> QED
    BY <2>1, <1>3 DEF ValidDisk
<1>5. d.deleteOnTermination \in BOOLEAN
  BY <1>2, <1>3 DEF IsDeleted, Optional
<1> HIDE DEF d, s
<1>6. d.iops = IF s.iops > 0 THEN s.iops ELSE Nil
  BY <1>2 DEF Iops
<1>7. d.size \in Nat \ {0} /\ d.iops \in Optional(Nat \ {0})
  BY <1>2, <1>3, <1>4, <1>6 DEF Optional
<1>8. d.iops # Nil <=> s.iops # 0
  BY <1>3, <1>4, <1>6, NilAssumption
<1>9. d.type = "io1" => d.iops # Nil
  BY <1>2, <1>3, <1>4, <1>8
<1> QED
  BY <1>1, <1>2, <1>5, <1>7, <1>8, <1>9 DEF d, s

\* An interface of the request is the class's, but for three fields.
LEMMA RequestedInterface ==
    ASSUME spec \in AWSProviderSpec, NEW i \in DOMAIN spec.networkInterfaces
    PROVE  LET nis == spec.networkInterfaces
               ni == NetworkInterfaces(nis)[i]
           IN  /\ ni.device = DeviceIndex(nis, i)
               /\ ni.card = nis[i].card
               /\ ni.publicIP = nis[i].publicIP
               /\ ni.ipv6AddressCount = nis[i].ipv6AddressCount
               /\ ni.primaryIpv6 = PrimaryIpv6(nis[i])
               /\ ni.deleteOnTermination = IsDeleted(nis[i])
<1>1. spec.networkInterfaces[i] \in AWSNetworkInterfaceSpec
  BY Entries
<1> DEFINE nis == spec.networkInterfaces
           ni == [nis[i] EXCEPT !.device = DeviceIndex(nis, i),
                                !.primaryIpv6 = PrimaryIpv6(nis[i]),
                                !.deleteOnTermination = IsDeleted(nis[i])]
<1>2. NetworkInterfaces(nis)[i] = ni
  BY DEF NetworkInterfaces
<1>3. /\ ni.device = DeviceIndex(nis, i)
      /\ ni.card = nis[i].card
      /\ ni.publicIP = nis[i].publicIP
      /\ ni.ipv6AddressCount = nis[i].ipv6AddressCount
      /\ ni.primaryIpv6 = PrimaryIpv6(nis[i])
      /\ ni.deleteOnTermination = IsDeleted(nis[i])
  BY <1>1 DEF AWSNetworkInterfaceSpec
<1> QED
  BY <1>2, <1>3

\* Of several disks one alone takes the root device, and a single one does.
LEMMA RootDisk ==
    ASSUME Decided, OK, ~Shadowed
    PROVE  /\ DOMAIN reply.request.blockDevices = DOMAIN spec.blockDevices
           /\ \A i, j \in DOMAIN spec.blockDevices :
                 i # j => reply.request.blockDevices[i].device
                            # reply.request.blockDevices[j].device
           /\ \E r \in DOMAIN spec.blockDevices :
                 reply.request.blockDevices[r].device = image.root
<1> DEFINE disks == spec.blockDevices
           device(i) == reply.request.blockDevices[i].device
<1>1. disks \in Seq(AWSBlockDeviceMappingSpec) /\ disks # <<>>
  BY OKPassed, Sections DEF Passed, BlockDevicesFail
<1>2. validateBlockDevices(disks)
  BY OKPassed DEF Passed, Rejected, ValidateAWSProviderSpec
<1>3. /\ DOMAIN reply.request.blockDevices = DOMAIN disks
      /\ \A i \in DOMAIN disks : device(i) = DeviceName(disks, i, image.root)
  BY OKPassed DEF Request, generateBlockDevices
<1>4. Len(disks) \in Nat /\ Len(disks) # 0 /\ DOMAIN disks = 1..Len(disks)
  BY <1>1, SequenceTypes
<1> HIDE DEF disks, device
<1> DEFINE Goal == /\ \A i, j \in DOMAIN disks : i # j => device(i) # device(j)
                   /\ \E r \in DOMAIN disks : device(r) = image.root
<1>5. ASSUME Len(disks) = 1 PROVE Goal
  <2>1. DOMAIN disks = {1} /\ device(1) = image.root
    BY <1>3, <1>4, <1>5 DEF DeviceName
  <2> QED
    BY <2>1
<1>6. ASSUME Len(disks) > 1 PROVE Goal
  <2>1. \A i \in DOMAIN disks : disks[i].name # image.root
    BY <1>6 DEF Shadowed, disks
  <2>2. \A i, j \in DOMAIN disks : i # j => disks[i].name # disks[j].name
    BY <1>2 DEF validateBlockDevices
  <2>3. \A i \in DOMAIN disks :
           device(i) = IF disks[i].name = "/root" THEN image.root ELSE disks[i].name
    BY <1>3, <1>4, <1>6 DEF DeviceName
  <2>4. \E r \in DOMAIN disks : disks[r].name = "/root"
    BY <1>2, <1>6 DEF validateBlockDevices
  <2> QED
    BY <2>1, <2>2, <2>3, <2>4
<1> QED
  <2>1. Goal
    BY <1>4, <1>5, <1>6
  <2> QED
    BY <1>3, <2>1 DEF disks, device

\* For any number of disks: unless a data disk is Shadowed, one disk is the
\* root volume (validation.go:80-133, core_util.go:218-264).
THEOREM RootVolume == Spec => []OneRootVolume
<1>1. Decided => OneRootVolume
  <2> SUFFICES ASSUME Decided, OK, ~Shadowed
               PROVE  Cardinality({i \in DOMAIN reply.request.blockDevices :
                          reply.request.blockDevices[i].device = image.root}) = 1
    BY DEF OneRootVolume
  <2>1. PICK r \in DOMAIN spec.blockDevices :
           reply.request.blockDevices[r].device = image.root
    BY RootDisk
  <2>2. {i \in DOMAIN reply.request.blockDevices :
           reply.request.blockDevices[i].device = image.root} = {r}
    BY <2>1, RootDisk
  <2> QED
    BY <2>2, FS_Singleton
<1> QED
  BY <1>1, DecidedAlways, PTL

---------------------------------------------------------------------------
(* The request as a whole.                                                 *)

\* As many interfaces as the class has.
LEMMA AsMany ==
    ASSUME NEW S, NEW s \in Seq(S), NEW e(_)
    PROVE  Len([i \in DOMAIN s |-> e(i)]) = Len(s)
<1> DEFINE t == [i \in DOMAIN s |-> e(i)]
           T == {e(i) : i \in DOMAIN s}
<1>1. DOMAIN t = 1..Len(s) /\ Len(s) \in Nat
  BY SequenceTypes
<1>2. t \in [1..Len(s) -> T]
  BY <1>1
<1> HIDE DEF t, T
<1>3. t \in Seq(T)
  BY <1>1, <1>2
<1> QED
  BY <1>1, <1>3, SequenceTypes DEF t

\* Interfaces without an index take their places, and no two on one card are
\* the same unless the class's own indexes clash; one of them is eth0, and the
\* only one that may have a public address.
LEMMA DistinctIndexes ==
    ASSUME Decided, OK, SuitsEC2
    PROVE  LET rnis == Request.networkInterfaces
           IN  /\ \A i, j \in DOMAIN rnis :
                     i # j => rnis[i].device # rnis[j].device \/ Card(rnis[i]) # Card(rnis[j])
               /\ \E i \in DOMAIN rnis : rnis[i].device = 0
               /\ \A i \in DOMAIN rnis :
                     rnis[i].publicIP = TRUE => rnis[i].device = 0 /\ Len(rnis) = 1
<1> DEFINE nis == spec.networkInterfaces
           rnis == NetworkInterfaces(nis)
           index(i) == IF nis[i].device = Nil THEN i - 1 ELSE nis[i].device
<1>1. Request.networkInterfaces = rnis /\ DOMAIN rnis = DOMAIN nis
  BY DEF Request, NetworkInterfaces
<1>2. nis \in Seq(AWSNetworkInterfaceSpec) /\ nis # <<>>
  BY OKPassed, Sections DEF Passed, Rejected, ValidateAWSProviderSpec,
                            validateNetworkInterfaces
<1>3. DOMAIN nis = 1..Len(nis) /\ Len(nis) \in Nat /\ 1 \in DOMAIN nis
  BY <1>2, SequenceTypes
<1>4. \A i \in DOMAIN nis : /\ rnis[i].device = index(i)
                            /\ Card(rnis[i]) = Card(nis[i])
                            /\ rnis[i].publicIP = nis[i].publicIP
  BY OKPassed, RequestedInterface DEF DeviceIndex, Card
<1>5. Len(rnis) = Len(nis)
  BY <1>2, AsMany DEF NetworkInterfaces
<1> HIDE DEF rnis
<1>6. ASSUME NEW i \in DOMAIN nis, NEW j \in DOMAIN nis, i # j,
             Card(nis[i]) = Card(nis[j])
      PROVE  index(i) # index(j)
  <2>0. /\ nis[i].device # index(j)
        /\ nis[j].device # index(i)
    BY <1>6 DEF SuitsEC2, Clashing
  <2>1. CASE nis[i].device # Nil
    BY <2>0, <2>1
  <2>2. CASE nis[j].device # Nil
    BY <2>0, <2>2
  <2>3. CASE nis[i].device = Nil /\ nis[j].device = Nil
    BY <1>3, <1>6, <2>3
  <2> QED
    BY <2>1, <2>2, <2>3
<1>7. \E i \in DOMAIN nis : rnis[i].device = 0
  <2>1. nis[1].device = Nil \/ \E i \in DOMAIN nis : nis[i].device = 0
    BY DEF SuitsEC2
  <2>2. CASE nis[1].device = Nil
    BY <1>3, <1>4, <2>2
  <2>3. CASE \E i \in DOMAIN nis : nis[i].device = 0
    BY <1>4, <2>3, NilAssumption
  <2> QED
    BY <2>1, <2>2, <2>3
<1>8. ASSUME NEW i \in DOMAIN nis, rnis[i].publicIP = TRUE
      PROVE  rnis[i].device = 0 /\ Len(rnis) = 1
  <2>1. Len(nis) = 1
    BY <1>4, <1>8 DEF SuitsEC2
  <2>2. \A k \in DOMAIN nis : k = i
    BY <1>3, <2>1
  <2> QED
    BY <1>5, <1>7, <2>1, <2>2
<1>9. ASSUME NEW i \in DOMAIN nis, NEW j \in DOMAIN nis, i # j
      PROVE  rnis[i].device # rnis[j].device \/ Card(rnis[i]) # Card(rnis[j])
  <2> HIDE DEF nis, index
  <2> QED
    BY <1>4, <1>6, <1>9
<1> HIDE DEF nis, index
<1> QED
  BY <1>1, <1>7, <1>8, <1>9

\* For any class, whatever the number of its disks and interfaces: one that
\* passes validation becomes a request whose parts fit each other, unless it is
\* one of those that validation leaves for EC2 to refuse
\* (validation.go:80-375, core_util.go:218-264, core.go:104-267).
THEOREM Accepted == Spec => []RequestIsAccepted
<1>1. Decided => RequestIsAccepted
  <2> SUFFICES ASSUME Decided, OK, SuitsEC2
               PROVE  EC2Accepts(Request)
    BY OKPassed DEF RequestIsAccepted
  <2> DEFINE r == Request
  <2>0. ValidateAWSProviderSpec(spec)
    BY OKPassed DEF Passed, Rejected
  <2>1. r.iam # Nil
    <3>1. spec.iam # {}
      BY <2>0, FS_EmptySet DEF ValidateAWSProviderSpec
    <3>2. "name" \in spec.iam \/ "arn" \in spec.iam
      BY <3>1, OKPassed, Sections DEF AWSIAMProfileSpec
    <3> QED
      <4>1. r.iam = IamInstanceProfile(spec.iam)
        BY DEF Request
      <4>2. "name" # Nil /\ "arn" # Nil
        BY NilAssumption
      <4> QED
        BY <3>2, <4>1, <4>2 DEF IamInstanceProfile
  <2>2. r.market \in Optional(MarketTypes)
    <3>1. spec.market \in Optional(MarketTypes)
      BY <2>0 DEF ValidateAWSProviderSpec, validateInstanceMarketOptions
    <3> QED
      BY <3>1 DEF Request, MarketOptions, MarketTypes, Optional
  <2>3. r.cpu # Nil => (r.cpu.cores = Nil <=> r.cpu.threads = Nil)
    <3>1. spec.cpu # Nil => (spec.cpu.cores = Nil <=> spec.cpu.threads = Nil)
      BY <2>0 DEF ValidateAWSProviderSpec, validateCPUOptions
    <3>2. spec.cpu # Nil => spec.cpu \in CPUOptions
      BY OKPassed, Sections DEF Optional
    <3> QED
      BY <3>1, <3>2 DEF Request, CpuOptions, CPUOptions
  <2>4. r.capacityReservation # Nil =>
          LET c == r.capacityReservation IN
          /\ c.target.id = Nil \/ c.target.group = Nil
          /\ c.preference # Nil => c.target.id = Nil /\ c.target.group = Nil
    <3>1. r.capacityReservation = CapacityReservation(spec.capacityReservation)
      BY DEF Request
    <3>2. validateCapacityReservations(spec.capacityReservation)
      BY <2>0 DEF ValidateAWSProviderSpec
    <3> HIDE DEF r
    <3> QED
      BY <3>1, <3>2 DEF CapacityReservation, validateCapacityReservations
  <2>5. HostIsDedicated(r.placement)
    <3>1. r.placement = Placement(spec)
      BY DEF Request
    <3>2. validatePlacement(spec.placement)
      BY <2>0 DEF ValidateAWSProviderSpec
    <3>3. spec.placement = Nil => HostIsDedicated(annotation)
      BY DEF SuitsEC2
    <3> HIDE DEF r
    <3> QED
      BY <3>1, <3>2, <3>3 DEF validatePlacement, Placement, HostIsDedicated
  <2>6. \A i, j \in DOMAIN r.blockDevices :
           i # j => r.blockDevices[i].device # r.blockDevices[j].device
    <3>1. ~Shadowed
      BY DEF SuitsEC2
    <3> QED
      BY <3>1, OKPassed, RootDisk
  <2>7. ASSUME NEW i \in DOMAIN r.blockDevices
        PROVE  /\ SuitsType(r.blockDevices[i], r.blockDevices[i].iops # Nil)
               /\ r.blockDevices[i].iops # Nil => r.blockDevices[i].iops > 0
               /\ r.blockDevices[i].type = "io1" => r.blockDevices[i].iops # Nil
    <3> DEFINE d == r.blockDevices[i]
               s == spec.blockDevices[i]
    <3>1. /\ i \in DOMAIN spec.blockDevices
          /\ d.type = s.type /\ d.size = s.size /\ d.throughput = s.throughput
          /\ d.iops \in Optional(Nat \ {0})
          /\ d.iops # Nil <=> s.iops # 0
          /\ d.type = "io1" => d.iops # Nil
      BY RequestedDisk
    <3>2. SuitsType(s, s.iops # 0)
      BY <3>1 DEF SuitsEC2
    <3> HIDE DEF d, s
    <3>3. SuitsType(d, d.iops # Nil)
      BY <3>1, <3>2 DEF SuitsType
    <3>4. d.iops # Nil => d.iops > 0
      BY <3>1 DEF Optional
    <3> QED
      BY <3>1, <3>3, <3>4 DEF d
  <2>8. \A i \in DOMAIN r.networkInterfaces :
           r.networkInterfaces[i].primaryIpv6 # Nil =>
               r.networkInterfaces[i].ipv6AddressCount # Nil
    <3>1. /\ r.networkInterfaces = NetworkInterfaces(spec.networkInterfaces)
          /\ DOMAIN r.networkInterfaces = DOMAIN spec.networkInterfaces
      BY DEF Request, NetworkInterfaces
    <3>2. \A i \in DOMAIN spec.networkInterfaces :
             PrimaryIpv6(spec.networkInterfaces[i]) # Nil =>
                 spec.networkInterfaces[i].ipv6AddressCount # Nil
      BY DEF PrimaryIpv6
    <3> QED
      BY <3>1, <3>2, OKPassed, RequestedInterface
  <2>9. LET nis == r.networkInterfaces
        IN  /\ \A i, j \in DOMAIN nis :
                  i # j => nis[i].device # nis[j].device \/ Card(nis[i]) # Card(nis[j])
            /\ \E i \in DOMAIN nis : nis[i].device = 0
            /\ \A i \in DOMAIN nis :
                  nis[i].publicIP = TRUE => nis[i].device = 0 /\ Len(nis) = 1
    BY DistinctIndexes
  <2> HIDE DEF r
  <2>10. EC2Accepts(r)
    BY <2>1, <2>2, <2>3, <2>4, <2>5, <2>6, <2>7, <2>8, <2>9 DEF EC2Accepts
  <2> QED
    BY <2>10 DEF r
<1> QED
  BY <1>1, DecidedAlways, PTL

\* Every reply is one of the method's, and a request has values that EC2 can read.
THEOREM TypeCorrect == Spec => []TypeOK
<1>1. Decided => TypeOK
  <2> SUFFICES ASSUME Decided
               PROVE  TypeOK
    OBVIOUS
  <2>1. reply.code \in {"none", "OK", "InvalidArgument", "NotFound", "Internal"}
    BY DEF Decided, NoReply
  <2>2. ASSUME OK, NEW i \in DOMAIN reply.request.blockDevices
        PROVE  /\ reply.request.blockDevices[i].size \in Nat \ {0}
               /\ reply.request.blockDevices[i].iops \in Optional(Nat \ {0})
               /\ reply.request.blockDevices[i].deleteOnTermination \in BOOLEAN
    BY <2>2, OKPassed, RequestedDisk
  <2> QED
    BY <2>1, <2>2 DEF TypeOK
<1> QED
  BY <1>1, DecidedAlways, PTL
=============================================================================
