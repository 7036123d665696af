---------------------------- MODULE ProviderSpec ----------------------------
(***************************************************************************)
(* What CreateMachine makes of a machine class, a secret and an image: the *)
(* validation of pkg/aws/apis/validation, the choice of credentials in     *)
(* pkg/cpi and the RunInstances request of core.go and core_util.go.       *)
(*                                                                         *)
(* All of it is a function of its inputs; the one nondeterminism is the    *)
(* order in which Go ranges over the map of tags.  Strings are members of  *)
(* small sets, and a field whose value nothing depends on is left out.     *)
(***************************************************************************)
EXTENDS Integers, Sequences, FiniteSets

CONSTANTS
    Nil,          \* a nil pointer, or a string that is not set
    Inputs,       \* the pairs of a provider spec and a secret considered
    Images,       \* answers of DescribeImages: Nil, or an image
    Annotations,  \* the placement annotation: Nil, Malformed or a placement
    Malformed,    \* an annotation that is not JSON
    ClusterKeys,  \* tag keys that contain kubernetes.io/cluster/
    RoleKeys,     \* tag keys that contain kubernetes.io/role/
    DataNames     \* device names that match DataDeviceNameFormat

ASSUME NilAssumption == Nil \notin Int \cup {"name", "arn"} /\ Malformed # Nil
ASSUME NameAssumption ==
    /\ "Name" \notin ClusterKeys \cup RoleKeys
    /\ "/root" \notin DataNames

---------------------------------------------------------------------------
(* aws_provider_spec.go: the fields something depends on.                  *)

Optional(S) == S \cup {Nil}

AWSBlockDeviceMappingSpec ==
    [name : Optional(STRING), type : STRING, size : Int, iops : Int,
     throughput : Optional(Int), deleteOnTermination : Optional(BOOLEAN)]

\* Which of the two names of a profile are set.
AWSIAMProfileSpec == SUBSET {"name", "arn"}

AWSCapacityReservationTargetSpec ==
    [preference : Optional(STRING), id : Optional(STRING), group : Optional(STRING)]

\* groups are the ids of the security groups, Nil the empty string.
AWSNetworkInterfaceSpec ==
    [subnet : Optional(STRING), groups : SUBSET Optional(STRING),
     type : Optional(STRING), device : Optional(Int), card : Optional(Int),
     publicIP : Optional(BOOLEAN), ipv6AddressCount : Optional(Int),
     primaryIpv6 : Optional(BOOLEAN), deleteOnTermination : Optional(BOOLEAN)]

AWSPlacementSpec ==
    [tenancy : Optional(STRING), affinity : Optional(STRING),
     host : Optional(STRING), partition : Optional(Int)]

InstanceMetadataOptions ==
    [hops : Optional(Int), endpoint : Optional(STRING), tokens : Optional(STRING),
     ipv6 : Optional(STRING)]

CPUOptions ==
    [amdSevSnp : Optional(STRING), cores : Optional(Int), threads : Optional(Int)]

\* named: the AMI, the region and the machine type are set.
AWSProviderSpec ==
    [named : BOOLEAN, iam : AWSIAMProfileSpec,
     blockDevices : Seq(AWSBlockDeviceMappingSpec),
     capacityReservation : Optional(AWSCapacityReservationTargetSpec),
     networkInterfaces : Seq(AWSNetworkInterfaceSpec),
     placement : Optional(AWSPlacementSpec),
     market : Optional(STRING), spotPrice : Optional(STRING), tags : SUBSET STRING,
     metadata : Optional(InstanceMetadataOptions), cpu : Optional(CPUOptions)]

\* A key of the secret: absent, or its value.
Secret == [{"userData", "workloadIdentityTokenFile", "roleARN",
            "providerAccessKeyId", "providerSecretAccessKey",
            "accessKeyID", "secretAccessKey"} -> STRING]

ASSUME InputsAssumption ==
    \A input \in Inputs : input.spec \in AWSProviderSpec /\ input.secret \in Secret

VARIABLES
    spec,        \* the class's provider spec
    secret,      \* the secret: a value for each key
    image,       \* the image of the class
    annotation,  \* the machine's placement annotation
    reply        \* what CreateMachine did up to RunInstances

vars == <<spec, secret, image, annotation, reply>>

NoReply == [code |-> "none"]

Init ==
    /\ \E input \in Inputs : spec = input.spec /\ secret = input.secret
    /\ image \in Images
    /\ annotation \in Annotations
    /\ reply = NoReply

---------------------------------------------------------------------------
(* validation.go.                                                          *)

AtLeast(n, x) == x = Nil \/ x >= n

ValidDisk(disks, i) ==
    LET d == disks[i] IN
    /\ d.type \in {"gp2", "gp3", "io1", "st1", "sc1", "standard"}
    /\ d.size > 0
    /\ d.iops >= (IF d.type = "io1" THEN 1 ELSE 0)
    /\ AtLeast(1, d.throughput)
    /\ Len(disks) > 1 => d.name \in DataNames \cup {"/root"}

\* Mutant of validateBlockDevices: the names are not compared.
validateBlockDevices_AnyNames(disks) ==
    /\ \A i \in DOMAIN disks : ValidDisk(disks, i)
    /\ Len(disks) > 1 => \E i \in DOMAIN disks : disks[i].name = "/root"

\* One of several disks is the root device; a single one may have any name.
validateBlockDevices(disks) ==
    /\ \A i \in DOMAIN disks : ValidDisk(disks, i)
    /\ Len(disks) > 1 => \E i \in DOMAIN disks : disks[i].name = "/root"
    /\ \A i, j \in DOMAIN disks : i # j => disks[i].name # disks[j].name

validateCapacityReservations(c) ==
    c # Nil => IF c.preference # Nil
               THEN c.id = Nil /\ c.group = Nil
               ELSE c.id = Nil \/ c.group = Nil

validateNetworkInterfaces(interfaces) ==
    /\ interfaces # <<>>
    /\ \A i \in DOMAIN interfaces :
          LET n == interfaces[i] IN
          /\ n.subnet # Nil
          /\ n.groups # {} /\ Nil \notin n.groups
          /\ n.type \in Optional({"interface", "efa", "efa-only"})
          /\ AtLeast(0, n.device) /\ AtLeast(0, n.card)

validatePlacement(p) ==
    p # Nil => /\ p.tenancy \in Optional({"default", "dedicated", "host"})
               /\ p.affinity \in Optional({"default", "host"})
               /\ p.host # Nil => p.tenancy = "host"
               /\ AtLeast(1, p.partition)

MarketTypes == {"spot", "capacity-block", "interruptible-capacity-reservation"}
validateInstanceMarketOptions(market) == market \in Optional(MarketTypes)

\* A key that contains both prefixes is the cluster's only.
validateSpecTags(tags) ==
    tags \cap ClusterKeys # {} /\ (tags \cap RoleKeys) \ ClusterKeys # {}

validateInstanceMetadata(m) ==
    m # Nil => /\ m.hops \in Optional(0..64)
               /\ m.endpoint \in Optional({"disabled", "enabled"})
               /\ m.tokens \in Optional({"required", "optional"})
               /\ m.ipv6 \in Optional({"disabled", "enabled"})

validateCPUOptions(cpu) ==
    cpu # Nil => /\ cpu.amdSevSnp \in Optional({"disabled", "enabled"})
                 /\ cpu.cores = Nil <=> cpu.threads = Nil
                 /\ cpu.threads \in Optional({1, 2})

NotEmpty(value) == value \notin {"absent", ""}

\* Mutant of ValidateSecret: either half of the key pair will do.
ValidateSecret_Either(s) ==
    /\ NotEmpty(s.userData)
    /\ IF s.workloadIdentityTokenFile # "absent"
       THEN NotEmpty(s.workloadIdentityTokenFile) /\ NotEmpty(s.roleARN)
       ELSE \/ NotEmpty(s.providerAccessKeyId) \/ NotEmpty(s.accessKeyID)
            \/ NotEmpty(s.providerSecretAccessKey) \/ NotEmpty(s.secretAccessKey)

\* With a workload identity the access keys are not looked at.
ValidateSecret(s) ==
    /\ NotEmpty(s.userData)
    /\ IF s.workloadIdentityTokenFile # "absent"
       THEN NotEmpty(s.workloadIdentityTokenFile) /\ NotEmpty(s.roleARN)
       ELSE /\ NotEmpty(s.providerAccessKeyId) \/ NotEmpty(s.accessKeyID)
            /\ NotEmpty(s.providerSecretAccessKey) \/ NotEmpty(s.secretAccessKey)

ValidateAWSProviderSpec(s) ==
    /\ s.named
    /\ Cardinality(s.iam) = 1
    /\ validateBlockDevices(s.blockDevices)
    /\ validateCapacityReservations(s.capacityReservation)
    /\ validateNetworkInterfaces(s.networkInterfaces)
    /\ validatePlacement(s.placement)
    /\ validateInstanceMarketOptions(s.market)
    /\ validateSpecTags(s.tags)
    /\ validateInstanceMetadata(s.metadata)
    /\ validateCPUOptions(s.cpu)

---------------------------------------------------------------------------
(* The EC2 client and the request.                                         *)

\* The first key that exists, without the space around its value.
extractCredentialsFromData(first, second) ==
    LET value == IF first # "absent" THEN first ELSE second
    IN  IF value \in {"absent", "", " "} THEN "" ELSE value

\* Where the client's credentials are from; "default" is whatever the
\* process finds in its environment.
NewConfig(s) ==
    IF s.workloadIdentityTokenFile # "absent"
    THEN "workloadIdentity"
    ELSE IF /\ extractCredentialsFromData(s.providerAccessKeyId, s.accessKeyID) # ""
            /\ extractCredentialsFromData(s.providerSecretAccessKey,
                                          s.secretAccessKey) # ""
         THEN "keys"
         ELSE "default"

\* Mutant of DeviceName: only a disk named /root replaces the root device.
DeviceName_RootOnly(disks, i, root) ==
    IF disks[i].name = "/root" THEN root ELSE disks[i].name

\* /root, or the only disk, takes the place of the image's root device.
DeviceName(disks, i, root) ==
    IF disks[i].name = "/root" \/ Len(disks) = 1 THEN root ELSE disks[i].name

\* Mutant of Iops: zero is passed on.
Iops_Zero(disk) == disk.iops

Iops(disk) == IF disk.iops > 0 THEN disk.iops ELSE Nil

\* A disk or an interface goes with its instance unless the class keeps it.
IsDeleted(x) == IF x.deleteOnTermination = Nil THEN TRUE ELSE x.deleteOnTermination

generateBlockDevices(disks, root) ==
    [i \in DOMAIN disks |->
        [device |-> DeviceName(disks, i, root), type |-> disks[i].type,
         size |-> disks[i].size, iops |-> Iops(disks[i]),
         throughput |-> disks[i].throughput, deleteOnTermination |-> IsDeleted(disks[i])]]

\* No disk is an error, and so is a root disk without a name to take.
BlockDevicesFail(disks, root) ==
    \/ disks = <<>>
    \/ /\ root = Nil
       /\ Len(disks) = 1 \/ \E i \in DOMAIN disks : disks[i].name = "/root"

\* Mutant of generateTags: the class's own Name tag is kept.
generateTags_KeepName(tags) ==
    {[key |-> k, value |-> "class"] : k \in tags}
    \cup {[key |-> "Name", value |-> "machine"]}

\* The class's tags and, instead of a Name among them, the machine's.
generateTags(tags) ==
    {[key |-> k, value |-> "class"] : k \in tags \ {"Name"}}
    \cup {[key |-> "Name", value |-> "machine"]}

\* Mutant of DeviceIndex: the first place is one.
DeviceIndex_FromOne(interfaces, i) ==
    IF interfaces[i].device = Nil THEN i ELSE interfaces[i].device

\* An interface's place in the class, unless the class says otherwise.
DeviceIndex(interfaces, i) ==
    IF interfaces[i].device = Nil THEN i - 1 ELSE interfaces[i].device

\* The first IPv6 address is the primary one unless the class says otherwise.
PrimaryIpv6(n) ==
    IF n.ipv6AddressCount = Nil THEN Nil
    ELSE IF n.primaryIpv6 = Nil THEN TRUE ELSE n.primaryIpv6

NetworkInterfaces(interfaces) ==
    [i \in DOMAIN interfaces |->
        [interfaces[i] EXCEPT !.device = DeviceIndex(interfaces, i),
                              !.primaryIpv6 = PrimaryIpv6(interfaces[i]),
                              !.deleteOnTermination = IsDeleted(interfaces[i])]]

IamInstanceProfile(iam) == IF "name" \in iam THEN "name"
                           ELSE IF "arn" \in iam THEN "arn" ELSE Nil

\* A target is sent even when the class gives a preference and no target.
CapacityReservation(c) ==
    IF c = Nil THEN Nil
    ELSE [preference |-> c.preference, target |-> [id |-> c.id, group |-> c.group]]

MarketOptions(s) ==
    IF s.market = Nil /\ s.spotPrice # Nil THEN "spot" ELSE s.market

CpuOptions(cpu) ==
    IF cpu # Nil /\ (cpu.cores = Nil \/ cpu.threads = Nil)
    THEN [cpu EXCEPT !.cores = Nil, !.threads = Nil]
    ELSE cpu

\* The class's placement, or else the one of the annotation.
Placement(s) == IF s.placement # Nil THEN s.placement ELSE annotation

Request ==
    [blockDevices |-> generateBlockDevices(spec.blockDevices, image.root),
     tags |-> generateTags(spec.tags),
     networkInterfaces |-> NetworkInterfaces(spec.networkInterfaces),
     iam |-> IamInstanceProfile(spec.iam), metadata |-> spec.metadata,
     market |-> MarketOptions(spec),
     capacityReservation |-> CapacityReservation(spec.capacityReservation),
     placement |-> Placement(spec),
     cpu |-> CpuOptions(spec.cpu)]

---------------------------------------------------------------------------

Fails(code) == reply' = [code |-> code]

Rejected == ~ValidateAWSProviderSpec(spec) \/ ~ValidateSecret(secret)

\* CreateMachine up to RunInstances, in the order of its checks.
CreateMachine ==
    /\ reply = NoReply
    /\ \/ Rejected /\ Fails("InvalidArgument")
       \/ ~Rejected /\ image = Nil /\ Fails("NotFound")
       \/ /\ ~Rejected /\ image # Nil
          /\ \/ /\ BlockDevicesFail(spec.blockDevices, image.root)
                /\ Fails("InvalidArgument")
             \/ /\ ~BlockDevicesFail(spec.blockDevices, image.root)
                /\ Placement(spec) = Malformed
                /\ Fails("Internal")
             \/ /\ ~BlockDevicesFail(spec.blockDevices, image.root)
                /\ Placement(spec) # Malformed
                /\ reply' = [code |-> "OK", credentials |-> NewConfig(secret),
                             request |-> Request]
    /\ UNCHANGED <<spec, secret, image, annotation>>

Answered == reply # NoReply /\ UNCHANGED vars

Next == CreateMachine \/ Answered

Spec == Init /\ [][Next]_vars

---------------------------------------------------------------------------
(* The tags by which instances are found again.                            *)

\* The keys of the cluster and the role that ranging over the tags may leave
\* in hand, Nil if there is none: ListMachines, getMachineInstancesByTagsAndStatus
Picked(tags, S) == IF tags \cap S = {} THEN {Nil} ELSE tags \cap S
Filters(tags) ==
    [cluster : Picked(tags, ClusterKeys), role : Picked(tags, RoleKeys \ ClusterKeys)]

\* An instance with these tags passes the filter and is listed by the name of
\* the machine, by whatever tag Name comes first.
Found(found, filter) ==
    /\ \E t \in found : t.key = filter.cluster
    /\ \E t \in found : t.key = filter.role
    /\ {t.value : t \in {u \in found : u.key = "Name"}} = {"machine"}

---------------------------------------------------------------------------
(* Safety.                                                                 *)

OK == reply.code = "OK"

\* The replies CreateMachine may give, with values that a request may hold
\* (core_util.go:236-256).
TypeOK ==
    /\ reply.code \in {"none", "OK", "InvalidArgument", "NotFound", "Internal"}
    /\ OK => \A i \in DOMAIN reply.request.blockDevices :
                 LET d == reply.request.blockDevices[i] IN
                 /\ d.size \in Nat \ {0} /\ d.iops \in Optional(Nat \ {0})
                 /\ d.deleteOnTermination \in BOOLEAN

\* A data disk has the name of the image's root device, which the class does not
\* know: the formats of validation.go allow /dev/sda and /dev/xvda.
Shadowed ==
    Len(spec.blockDevices) > 1
        /\ \E i \in DOMAIN spec.blockDevices : spec.blockDevices[i].name = image.root

\* A device index of the class is that of another of its interfaces on the same
\* card, or the place of one without an index: validation compares none.
Card(n) == IF n.card = Nil THEN 0 ELSE n.card
Clashing ==
    LET nis == spec.networkInterfaces IN
        \E i, j \in DOMAIN nis :
            /\ i # j /\ Card(nis[i]) = Card(nis[j])
            /\ nis[i].device = (IF nis[j].device = Nil THEN j - 1 ELSE nis[j].device)

\* The sizes a volume of a type may have (aws_provider_spec.go:206-208).
VolumeSizes(type) ==
    CASE type = "gp2" -> 1..16384
      [] type = "io1" -> 4..16384
      [] type \in {"st1", "sc1"} -> 500..16384
      [] type = "standard" -> 1..1024
      [] OTHER -> Nat \ {0}

\* What a volume's type allows, of a disk of a class or of a request: iops for
\* some types only, throughput for one (aws_provider_spec.go:173-189).
SuitsType(disk, hasIops) ==
    /\ disk.size \in VolumeSizes(disk.type)
    /\ hasIops => disk.type \in {"io1", "gp3"}
    /\ disk.throughput # Nil => disk.type = "gp3" /\ disk.throughput \in 125..1000

HostIsDedicated(placement) ==
    placement # Nil /\ placement.host # Nil => placement.tenancy = "host"

\* What EC2 asks of the parts of a request together, as far as the repository
\* says so (aws_provider_spec.go:139-150, 168-208, 234-238, 275-279,
\* validation.go:80-156, 244-260, 334).  A field that is right or wrong by itself and
\* sent as it is, is validation's alone; snapshots and quotas are left out.
EC2Accepts(r) ==
    LET disks == r.blockDevices
        nis == r.networkInterfaces
    IN
    /\ \A i \in DOMAIN disks :
          /\ SuitsType(disks[i], disks[i].iops # Nil)
          /\ disks[i].iops # Nil => disks[i].iops > 0
          /\ disks[i].type = "io1" => disks[i].iops # Nil
    /\ \A i, j \in DOMAIN disks : i # j => disks[i].device # disks[j].device
    /\ \A i, j \in DOMAIN nis :
          i # j => nis[i].device # nis[j].device \/ Card(nis[i]) # Card(nis[j])
    /\ \E i \in DOMAIN nis : nis[i].device = 0
    /\ \A i \in DOMAIN nis :
          /\ nis[i].publicIP = TRUE => nis[i].device = 0 /\ Len(nis) = 1
          /\ nis[i].primaryIpv6 # Nil => nis[i].ipv6AddressCount # Nil
    /\ r.iam # Nil
    /\ r.market \in Optional(MarketTypes)
    /\ r.cpu # Nil => (r.cpu.cores = Nil <=> r.cpu.threads = Nil)
    /\ r.capacityReservation # Nil =>
          LET c == r.capacityReservation IN
          /\ c.target.id = Nil \/ c.target.group = Nil
          /\ c.preference # Nil => c.target.id = Nil /\ c.target.group = Nil
    /\ HostIsDedicated(r.placement)

\* What validation does not look at and leaves for EC2 to refuse: volumes that
\* do not suit their types, Shadowed disks and Clashing interfaces, interfaces
\* none of which is eth0 or of which one of several has a public address, and
\* the annotation that stands in for a placement.
SuitsEC2 ==
    LET disks == spec.blockDevices
        nis == spec.networkInterfaces
    IN
    /\ \A i \in DOMAIN disks : SuitsType(disks[i], disks[i].iops # 0)
    /\ ~Shadowed
    /\ ~Clashing
    /\ nis[1].device = Nil \/ \E i \in DOMAIN nis : nis[i].device = 0
    /\ \A i \in DOMAIN nis : nis[i].publicIP = TRUE => Len(nis) = 1
    /\ spec.placement = Nil => HostIsDedicated(annotation)

\* Of a class that passes validation EC2 refuses the request for no other reason
\* than those validation leaves to it: what validation checks and what the
\* request makes of the class fit each other (core.go:104-267).
RequestIsAccepted == OK /\ SuitsEC2 => EC2Accepts(reply.request)

\* A class that passes validation gives a request at all, given an image with
\* a root device (validation.go:88, core_util.go:225).
ValidHasRequest ==
    /\ reply # NoReply /\ ~Rejected
    /\ image # Nil /\ image.root # Nil /\ Placement(spec) # Malformed
    => OK

\* Exactly one disk of the class becomes the image's root volume, unless a data
\* disk is Shadowed.
OneRootVolume ==
    OK /\ ~Shadowed =>
        Cardinality({i \in DOMAIN reply.request.blockDevices :
                        reply.request.blockDevices[i].device = image.root}) = 1

\* What CreateMachine launches every later call finds, by the machine's name:
\* whichever keys the random order of the map of tags picks, then or later.
LaunchedIsFound ==
    OK => \A filter \in Filters(spec.tags) : Found(reply.request.tags, filter)

\* A secret that passes validation is what the client uses: it never falls
\* back on credentials of the process itself (validation.go:272).
CredentialsAreOfSecret == OK => reply.credentials # "default"

\* Of a pair of keys the one that counts has no value.
Blank(first, second) == first \in {"", " "} \/ (first = "absent" /\ second = " ")

\* As far as that is so: a secret that passes validation is not used when a key
\* that counts is Blank and no workload identity is there, and used otherwise
\* (cpi/aws.go:27-95).
UsedUnlessBlank ==
    OK => (reply.credentials = "default" <=>
              /\ secret.workloadIdentityTokenFile = "absent"
              /\ \/ Blank(secret.providerAccessKeyId, secret.accessKeyID)
                 \/ Blank(secret.providerSecretAccessKey, secret.secretAccessKey))
============================================================================
