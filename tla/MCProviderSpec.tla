--------------------------- MODULE MCProviderSpec ---------------------------
(* ProviderSpec with a plain class, and classes and secrets that differ from *)
(* a plain one in one section, which takes every value of interest.          *)
EXTENDS ProviderSpec, TLC

Disk(name) == [name |-> name, type |-> "gp3", size |-> 1, iops |-> 0,
               throughput |-> Nil, deleteOnTermination |-> Nil]

Interface(device, card) ==
    [subnet |-> "subnet", groups |-> {"group"}, type |-> Nil, device |-> device,
     card |-> card, publicIP |-> Nil, ipv6AddressCount |-> Nil,
     primaryIpv6 |-> Nil, deleteOnTermination |-> Nil]

Plain ==
    [named |-> TRUE, iam |-> {"name"}, blockDevices |-> <<Disk("/root")>>,
     capacityReservation |-> Nil, networkInterfaces |-> <<Interface(Nil, Nil)>>,
     placement |-> Nil, market |-> Nil, spotPrice |-> Nil,
     tags |-> {"cluster1", "role1"}, metadata |-> Nil, cpu |-> Nil]

With(section, values) == {[Plain EXCEPT ![section] = x] : x \in values}

Names == {"/root", "/dev/sdb", "/dev/sdc", "data", Nil}
OneDisk ==
    {<<d>> : d \in [name : {"/root", "data", Nil},
                    type : {"gp2", "gp3", "io1", "standard", "floppy"},
                    size : {-1, 0, 1, 4, 1025}, iops : -1..1,
                    throughput : {Nil, 0, 1, 125},
                    deleteOnTermination : {Nil, FALSE}]}
SomeDisks ==
    {<<Disk(a), Disk(b)>> : a, b \in Names}
    \cup {<<Disk(a), Disk(b), Disk(c)>> : a, b, c \in Names}

OneInterface ==
    {<<n>> : n \in [subnet : {Nil, "subnet"}, groups : SUBSET {Nil, "group"},
                    type : {Nil, "interface", "efa", "modem"}, device : {Nil, -1, 0, 2},
                    card : {Nil, -1, 1}, publicIP : {Nil, TRUE},
                    ipv6AddressCount : {Nil}, primaryIpv6 : {Nil},
                    deleteOnTermination : {Nil}]}
Addressed ==
    {<<[Interface(Nil, Nil) EXCEPT !.ipv6AddressCount = c, !.primaryIpv6 = p,
                                   !.deleteOnTermination = d]>> :
        c \in {Nil, 1}, p \in Optional(BOOLEAN), d \in Optional(BOOLEAN)}
SomeInterfaces ==
    {<<Interface(a, Nil), Interface(b, c), Interface(d, 1)>> :
        a, b, d \in {Nil, 0, 1, 2}, c \in {Nil, 0, 1}}
    \cup {<<[Interface(a, Nil) EXCEPT !.publicIP = p], Interface(b, Nil)>> :
            a, b \in {Nil, 0, 1}, p \in BOOLEAN}

WithDisks ==
    With("blockDevices", OneDisk \cup SomeDisks)
    \cup With("named", {FALSE}) \cup With("iam", SUBSET {"name", "arn"})
    \cup With("networkInterfaces",
              {<<>>} \cup OneInterface \cup Addressed \cup SomeInterfaces)
    \cup With("capacityReservation",
              [preference : {Nil, "open"}, id : {Nil, "id"}, group : {Nil, "arn"}])
    \cup With("placement",
              [tenancy : {Nil, "default", "host", "shared"}, affinity : {Nil, "host", "guest"},
               host : {Nil, "h1"}, partition : {Nil, 0, 1}])
    \cup With("market", MarketTypes \cup {"bazaar"})
    \cup {[Plain EXCEPT !.market = m, !.spotPrice = ""] : m \in {Nil, "capacity-block"}}
    \cup With("tags", SUBSET {"cluster1", "cluster2", "both", "role1", "role2", "Name"})
    \cup With("metadata", [hops : {Nil, -1, 0, 64, 65}, endpoint : {Nil, "enabled", "on"},
                           tokens : {Nil, "required", "some"}, ipv6 : {Nil, "enabled", "on"}])
    \cup With("cpu", [amdSevSnp : {Nil, "enabled", "on"}, cores : {Nil, 2},
                      threads : {Nil, 1, 2, 3}])

SecretOf(keyValues) ==
    [providerAccessKeyId : keyValues, accessKeyID : keyValues,
     providerSecretAccessKey : keyValues, secretAccessKey : keyValues,
     workloadIdentityTokenFile : {"absent", "", "file"}, roleARN : {"absent", "", "arn"},
     userData : {"absent", "", "data"}]

\* A key may be there without a value, or with space for one.
AllSecrets == SecretOf({"absent", "", " ", "key"})
PlainSecret ==
    {[providerAccessKeyId |-> "key", accessKeyID |-> "absent",
      providerSecretAccessKey |-> "key", secretAccessKey |-> "absent",
      workloadIdentityTokenFile |-> "absent", roleARN |-> "absent", userData |-> "data"]}

\* Every class, one without block devices too.
DiskInputs ==
    [spec : WithDisks \cup With("blockDevices", {<<>>}), secret : PlainSecret]
\* Every secret.
KeyInputs == [spec : {Plain}, secret : AllSecrets]
RequestInputs == DiskInputs \cup KeyInputs

\* The last one's root device has the name of a data disk.
AllImages == {Nil, [root |-> Nil], [root |-> "/dev/sda1"], [root |-> "/dev/sdb"]}
AllAnnotations ==
    {Nil, Malformed}
    \cup [tenancy : {Nil, "host"}, affinity : {Nil}, host : {Nil, "h1"}, partition : {Nil}]
============================================================================
