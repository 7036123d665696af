# A verification of machine-controller-manager-provider-aws

The program is the AWS driver of Gardener's machine controller manager (MCM).
MCM owns *machine objects* and calls five driver methods; the driver turns each
call into a handful of EC2 requests. It keeps no state of its own: between two
calls everything it knows is in the machine object (`Spec.ProviderID`) and in
EC2 (the tag `Name`). That makes the code short and its correctness hard to
see: EC2 is eventually consistent, any request may fail after it took effect,
the process may end between any two requests, and several calls run at once.

Paths below are relative to the repository; `core.go` and `core_util.go` are in
`src/pkg/aws`.

## The system

| Component | State it keeps | Operations | Hard behaviour |
|---|---|---|---|
| Driver methods (`core.go`, `core_util.go`, `util.go`) | none; a call has the request it was given and what it read so far | `CreateMachine`, `InitializeMachine`, `DeleteMachine`, `GetMachineStatus`, `ListMachines` | answers that are lost, time-outs, partial failure of a loop, a description that is old when it is used, concurrent calls |
| Network setup (second half of `InitializeMachine` and `GetMachineStatus`) | none; the interfaces as read at the start of the call | disable source/destination checks, assign IPv6 prefixes | a retry after half of it was done, relative amounts computed from an old read |
| Provider spec, validation, request (`apis/`, `core.go:67-267`, `core_util.go:218-292`) | none, pure | `ValidateAWSProviderSpec`, `ValidateSecret`, `generateBlockDevices`, `generateTags`, ... | three readings of one class that have to agree |
| Credentials (`src/pkg/cpi`) | none | `NewConfig` | validation and extraction look at the keys of the secret differently |
| Paged listings (`core.go:591-670`, `core_util.go:103-155`) | the paginator's token and what the pages so far have shown | `ListMachines`, `getMachineInstancesByTagsAndStatus` | instances that come, go and get visible between two pages, errors half-way, tokens that EC2 repeats |
| Volume ids, provider ids (`core.go:674-`, `util.go`) | none, pure | `GetVolumeIDs`, `kubernetesVolumeIDToEBSVolumeID`, encoding and decoding of provider ids | lists of mixed sources, ids in three forms |
| Error codes (`src/pkg/aws/errors`) | none, pure | `GetMCMErrorCodeForCreateMachine`, `...ForTerminateInstances`, `IsInstanceIDNotFound` | one error code that means success in one method and failure in another |
| Metrics (`src/pkg/instrument`) | counters | record a call | nothing reads them back |
| Mock client, integration tests (`src/pkg/mockclient`, `src/test`) | test doubles | - | outside the program |
| EC2 (external) | instances, their tags, state and interfaces | `RunInstances`, `DescribeInstances`, `TerminateInstances`, `ModifyNetworkInterfaceAttribute`, `AssignIpv6Addresses`, `DescribeImages` | eventual consistency, requests carried out after their caller gave up |
| MCM (external, linked in by `src/cmd/machine-controller`) | machine objects | one worker per machine; a safety controller that deletes orphans | both run beside each other, and are retried for ever |

The components interact by calls only. MCM's worker of a machine calls
`GetMachineStatus`, then `CreateMachine` if there is no instance or
`InitializeMachine` if there is one that is not set up, and `DeleteMachine` when
the object is deleted. The safety controller calls `ListMachines`, compares the
answer with the objects, and calls `DeleteMachine` for what it takes for
orphans. While it drains a node, MCM calls `GetVolumeIDs` and waits for the
volumes it names. The shared state is EC2's.

What makes each of them correct:

* *Driver methods*: never terminate an instance a machine uses; never report
  another machine's instance as a machine's own; a deletion that succeeds
  leaves nothing behind; whatever was launched and is not used is terminated in
  the end; never launch a second instance that a careful look would have
  avoided; never choose one of several by chance.
* *Listings*: they end, hide nothing that EC2 knew all along, show nothing that
  was gone before, and are never half an answer.
* *Network setup*: a machine taken for initialized has its checks off and its
  prefixes, exactly as many as the class asks for, and becomes initialized
  whatever failed on the way.
* *Validation and request*: what passes validation gives a request, EC2
  refuses it only for what validation leaves to EC2, and the instance can be
  found again.
* *Credentials*: a secret that passes validation is used.
* *Identifiers*: each EBS volume of a node is named once; a provider id leads
  back to the instance it was made for.

## The modules

`A <- B` means B extends A.

```
MachineBacking                     what the driver promises (abstract)
EC2 <- Listing                     what a listing promises (abstract)
EC2 <- Paging                      a listing page by page
         <- Paging_proofs          it keeps Listing's promise
EC2, Errors <- MachineDriver       five methods, their callers, faults
                 <- MCMachineDriver
                 <- MachineDriver_proofs
                      <- MachineDriver_refinement   it implements MachineBacking
                      <- MachineDriver_history      what calls knew and did
                           <- MachineDriver_ready   what is ready is set up
NetworkSetup <- MCNetworkSetup, NetworkSetup_proofs
ProviderSpec <- MCProviderSpec, ProviderSpec_proofs
Identifiers  <- MCIdentifiers, Identifiers_proofs
```

`MachineDriver` takes from a listing what `Listings` in `EC2` allows and no
more; `Listing` is that promise as a state machine, and `Paging` implements it.
So the paged code is put together with its callers without a model that has the
pages of every call in its state. `NetworkSetup` likewise opens the one step in
which `MachineDriver` sets up the interfaces of an instance, and
`ProviderSpec` what it has as a launched instance with a tag `Name`.

**`EC2`** is the service as the code relies on it. An instance is `free`,
`live` (what the state filter of `core.go:628-637` lets through), `terminated`
by the driver or `lost` otherwise. After a change it is *unsettled*: a listing
may or may not have it, a request by id may or may not answer
`InvalidInstanceID.NotFound`, and two answers may disagree. The code says as
much at `core_util.go:304-306` and waits because of it at `core.go:288-325`. A
listing takes a while: when it begins, `Opened` notes what all of EC2 agrees
on (`must`, the instances that run; `gone`, those that do not), and its answer,
any time later, has all of `must` that EC2 still agrees runs, nothing of `gone`,
and any of the others. `Curtailed` gives up `must`: EC2 has repeated a token and
the listing ends early.

**`Paging`** is the loop over the paginator. EC2 goes through the instances in
an order of its own, cuts pages where it likes, even empty ones in terms of
what they show, and between two pages anything may happen to any instance. The
paginator drops a token it has just used (`StopOnDuplicateToken`), and an error
on any page discards the pages before it.

**`MachineDriver`** has one step per EC2 request of `CreateMachine`,
`InitializeMachine`, `DeleteMachine`, `GetMachineStatus` and `ListMachines`; a
listing is two, its beginning and its answer.
A call is `op` (the method), `pc` (its next request), `req` (name and provider
id it was given), `vm` and `ids` (instances in hand). `CallFails` is every error
return before or at a request, with the code that `Errors` makes of what EC2
may say at that point (`Refusals`, `Failures`); `RunInstances` may launch and
still fail (a lost answer, an answer without an id), and may be carried out when
its caller has long given up (`RequestOutlivesCall`, `LateLaunch`);
`TerminationUnanswered` is a termination whose answer is lost;
`AwaitTimesOut` is the end of
`retryWithExponentialBackOff`; `TerminateInstance` counts NotFound as success,
as `core_util.go:294-321` does. The rest is external, and modelled from what
the driver is called with and what its status codes are for: a worker per
machine (`StartStatus`, `StatusAnswered`, ...), which uses the object as it
read it and whose update fails if the object changed since; the orphan
collector, which acts on a list that gets old while it works; deletion
requests at any time; crashes, which end every call and leave the objects;
instances that disappear.

What the class wants to be set on an instance's interfaces is `Setup`: the checks
to disable (`Checks`), of which `PrimaryCheck` is the first interface's and so the
instance's own, and the prefixes to assign. `lacks` in `EC2` is what of it is not
set yet on each instance. A description may show what lacks now or lacked before
(`ShownLacking`). `GetMachineStatus` answers OK when it is shown nothing lacking;
`InitializeMachine` sets what it is shown lacking, but no check at all when the
instance's own is shown off (`ToSet`, the gate of `core.go:355`), and may stop
after any part of it: the loop over the checks goes on after an error, and the
prefixes come when all checks went well. The requests of one `InitializeMachine`
are one step, because only the machine's own worker, which makes one call at a
time, reads or changes what they are about, and `NetworkSetup` has them one by
one. A retry is a new call that is shown what the earlier one left.

`window` is what `Opened` noted for each call. A step reads it only to bind the
answer of the listing in progress. With `Remembers` it stays afterwards as history,
for the properties that compare an outcome with what could be known at its
beginning; the other runs forget it, which changes no other variable.

**`Errors`** is the reading of EC2's error codes, an error without a code
included.

**`MachineBacking`** is the same system with no request, call, list or lag: an
instance belongs to one machine from its launch, is adopted at most once by
that machine, and is removed only when the machine is being deleted or gone, or
is ready with another instance. `Backing == INSTANCE MachineBacking WITH ...` in
`MachineDriver` is the refinement mapping.

**`NetworkSetup`** has the loops over the interfaces, one request a
step, with failure, a lost answer, an old description or a crash at each. A
failed `ModifyNetworkInterfaceAttribute` does not end its loop
(`core_util.go:98`), a failed `AssignIpv6Addresses` ends the call
(`core.go:386-391`). A device index is what `CreateMachine` chose, and is used
as a position in the class's list, as `core.go:369-378` does. `consistent` is
chosen once: whether this EC2 ever shows an old description.

**`ProviderSpec`** has validation, the choice of credentials and the
`RunInstances` request as operators over records, in the order in which
`CreateMachine` calls them. Go's random order over the map of tags is the set
of keys it may leave in hand (`Filters`). A pattern or a substring is a set of
names.

**`Identifiers`** has `GetVolumeIDs` and the provider ids. A string with slashes
is the sequence of the parts between them; whether a URL parses is a field
of it. The loop over the volume sources is a recursive function of how many of
them it has passed (`VolumeIDs`).

## What is checked

| Run | Instance | Shows |
|---|---|---|
| `MachineDriver_safety` | 2 machines, 2 instances, 1 fault, one check to disable, tokens may repeat (2.3 million states) | `InUseNeverTerminated`, `ProviderIDIsOwn`, the inductive `Inv`, and that every step is one of `MachineBacking` |
| `MachineDriver_duplicates` | 1 machine, 2 instances, 2 faults, two checks and a prefix to set (1.1 million) | `DeleteIsComplete`, `NoNeedlessDuplicate`, `AmbiguousNotAdopted`, the inductive `HistoryInv`; `AnswerIsTrue`, `ReadyIsSetUp` |
| `MachineDriver_liveness` | 1 machine, 2 instances, 1 fault, one check to disable (138,000) | `OrphansCollected`, `DeletionEnds` |
| `Paging` | 3 places, 2 machines, tokens may repeat | `ImplementsListing`, its inductive `Inv`, `ListingIsBounded` |
| `NetworkSetup_setup` | 3 interfaces, one EFA, 1 crash, EC2 consistent or not (6,000) | `ReadyHasPrefixes`, `StatusIsSound`, `InitializeIsSound` on any EC2; `NoExcessWhenConsistent`, `AsksForTheRest`, `EventuallyReady` on a consistent one; the inductive `Inv` |
| `ProviderSpec_request` | 3,258 classes and 6,912 secrets, 4 images, 6 annotations (488,000) | `RequestIsAccepted`, `OneRootVolume`, `LaunchedIsFound`, `UsedUnlessBlank` |
| `Identifiers` | all lists of up to 3 of 15 volume sources, ids of up to 5 parts (7,000) | `EveryVolumeNamed`, `ProviderIDNamesInstance` |
| `NetworkSetup_excess`, `_checks`, `_index`, `ProviderSpec_keys`, `_disks` | | the five disagreements below: TLC finds each |

**Bounds.** `MaxFaults` bounds crashes, lost instances and late launches
together, because
each is a fault the system recovers from on its own. One can hit any step of any
call and its retry; the smaller `MachineDriver_duplicates` has two, which can hit a
call and its retry as well. Two instances are the fewest that give an
instance in use beside an orphan, a duplicate to choose between, and a loop of
terminations that can stop half-way. With two machines, two instances back one
each, or both were launched for one of them. Machines and instances are
interchangeable, and symmetry is used in the safety runs only. Failed
requests are not bounded at all. Two checks, one of them the instance's own, and
a prefix are the fewest with which a call can stop before the gate, behind
it, and between the checks and the prefixes; in the other two runs, whose
properties do not read it, the setup is one check. `Repeats` is on where a property must hold
although a listing ends early (`MachineDriver_safety`, `Paging`) and off for the
properties that are about what a complete listing shows. Three places in EC2's
order are the fewest that give a first, a middle and a last page. In
`NetworkSetup` three interfaces are the
fewest with an EFA interface between two that are set up; `Slots`, EC2's
limit on an interface, is twice the most the class asks for, so that an excess
has room to show. In
`ProviderSpec` a class differs from a plain one in one section; the sections do
not read each other, save for the market type and the spot price, which vary
together. Annotations and images vary with all of them. Three volume
sources are the fewest with one that is passed over between two that are
counted.

**Deadlock** is checked in every run. A machine that is gone leaves the
collector listing; an initialized one (`Finished`) and an answered request
(`Answered`) stay as they are.

**Fairness.** EC2 settles in the end (`WF` of `InstanceSettles`, `CatchUp`).
Every call returns: the requests have time-outs and `AwaitVisible` a maximal
time (`WF` of `Progress \/ CallFails \/ AwaitTimesOut`, of `Progress \/
RequestFails`). MCM's queue is retried for ever and its safety controller runs
periodically (`WF` of the worker's turn and of `StartListing`,
`CollectorHandles`, `CollectorAnswered`), and a creation
that never ends is given up (`WF` of the deletion of a machine that is still
creating). That a request which is repeated for ever is carried out in the end
is assumed (`SF`) only where a property depends on it: for the two listings
and the
termination of a deletion, and for the description and the setup of an interface.
In particular nothing is assumed of `RunInstances`, so liveness does not
depend on creations that go well.

**Qualifications** the properties carry, and why. `AnswerIsTrue` and
`ReadyIsSetUp` except, of what `InitializeMachine` answers for, the checks it
does not see: once the instance's own is off, those of the other interfaces stay
on for good when an attempt stopped between them (`LacksOnlyHidden`;
`NetworkSetup_checks` shows how). An OK of `GetMachineStatus` has no such exception.
`ReadyIsSetUp` is about
machines that never had a second instance: with two, `InitializeMachine` takes
the first and `GetMachineStatus` refuses both. A lookup by provider id
finds a terminated instance that EC2 still remembers, which shows no interface
to compare and so counts as set up; both properties speak of live instances, and
of the set-up as the driver reads it from the class: that it may read another
interface's entry is `NetworkSetup_index`'s to show.
`DeleteIsComplete`, `NoNeedlessDuplicate` and `AmbiguousNotAdopted` speak of the
instances all of EC2 knew when the call began, and hold when EC2 repeats no
token: a listing that is cut short (`core.go:635`, `core_util.go:147`) may miss any.
`NoExcessWhenConsistent`, `AsksForTheRest` and `EventuallyReady` hold when EC2
shows what is. `UsedUnlessBlank` names the
secrets for which the last disagreement below refutes what the code's
comment says.
`OneRootVolume` and `RequestIsAccepted` except a data disk that was given the
name of the image's root device (`Shadowed`), which validation cannot know and
the data device format allows. `EC2Accepts` is what the repository says EC2 asks
of the parts of a request together, the comments of `aws_provider_spec.go` on
sizes, iops and throughput of each volume type included. Not all of it is
validation's to check (`aws_provider_spec.go:179`: "Validation of IOPS ... is done
on aws side"), so `RequestIsAccepted` is about the classes of which what validation
does not look at is right (`SuitsEC2`): volumes suit their types, no disk is
`Shadowed`, no device indexes collide with each other or with those filled in
(`Clashing`), one interface is the first one, a public address comes with a single
interface, and a placement from the annotation names a host only with tenancy
`host`. What it says is that there is no
other reason: iops of zero are left out and an io1 disk has some, names and indexes
stay apart when some of them are replaced, primary IPv6 addresses, CPU options,
capacity reservations and hosts come with what they need. `EC2Accepts` leaves out
quotas, keys, snapshots and their sizes, and what concerns one field alone that is
sent as it is. `ReadyHasPrefixes`, `NoExcessWhenConsistent` and
the prefixes of `StatusIsSound` are for classes of which each interface is looked
up at its own entry (`LooksUpItsOwn`); `NetworkSetup_index` shows why.

## Disagreements found

1. `NetworkSetup_excess` (`NoExcessPrefixes`): the prefixes to add are the class's count less what
   one description showed. After a lost answer, a retry that is shown an old
   interface adds the whole count again; then the difference is negative, EC2
   refuses it, and the machine stays Uninitialized.
2. `NetworkSetup_checks` (`ReadyHasChecksOff`): `disableSrcAndDestCheck` runs only while the
   instance's own attribute is enabled (`core.go:355`). If the first interface
   went well and a later one failed, the retry skips them all and answers OK.
3. `NetworkSetup_index` (`ReadyHasPrefixes`): a device index that the class sets is used as a
   position in its list; with several network cards an interface is compared
   with another's entry and never gets its prefixes. `WrongEntriesWrongPrefixes`
   proves that this is so for every such class, and always.
4. `ProviderSpec_disks` (`ValidHasRequest`): an empty list of block devices passes validation,
   whose comment says EC2 makes a root volume, and fails in
   `generateBlockDevices` under the same comment.
5. `ProviderSpec_keys` (`CredentialsAreOfSecret`): an empty or blank first key of a pair hides a good
   second one, and so does a blank that is the only one. `ValidateSecret` is
   content, `NewConfig` silently returns the default configuration.
   `SecretExtent` proves that this happens to no other valid secret.

`KmsKeyID`, `EbsOptimized` and `Monitoring` of a class are accepted and read by
nothing; there is no behaviour of them to model.

## What is proved

**`MachineDriver`.** The theorems hold for any sets of machines and instances,
any `MaxFaults`, with or without repeated tokens and history,
any `Setup` and `Checks`,
from `NoVMAssumption`, `NoMachineAssumption` (the values that mean "none" are
not instances or machines), `CollectorAssumption`, `ChecksAssumption`, `FaultsAssumption`,
`RepeatsAssumption` and `RemembersAssumption`.

* `TypeCorrect == Spec => []TypeOK` (`MachineDriver_proofs`). The four ways in
  which a call's state changes (`Call`, `Goto`, `Return`, `Hangup`) are lemmas,
  and so is each of EC2's changes; `TypeStep` has one step per action.
* `Invariance == Spec => []Inv`, from which `InUseSafe` and
  `ProviderIDCorrect`. `InUseNeverTerminated` is not inductive: whether a
  termination is safe was decided when the call began, possibly long before.
  `Inv` therefore says of every call in progress that it may still go on. The
  call of a machine's own worker is about the object as it still is and about
  instances with its tag (`CallIsOwn`), because nobody else writes the provider
  id, and a deletion only starts when the phase is `deleting`, which only ever
  becomes `gone`. What the collector still has to terminate was abandoned when
  it checked (`CollectorDeletesAbandoned`) and stays so, because the provider id is
  written once and only while `creating`. Two more conjuncts tie tags to
  launches and the list to what was launched.
* `Refinement == Spec => ImplementsBacking` (`MachineDriver_refinement`): the
  initial states map to initial states, and under `Inv` every step is one of
  `MachineBacking` or a stutter. `RunInstances` is `Launch`, with or without its
  answer, and so is `LateLaunch`; `TerminateInstance` is `Remove` when the instance was live; `Adopt`,
  `BecomeReady`, `RequestDeletion`, `DeleteAnswered` and `InstanceLost` are
  `Adopt`, `BecomeReady`, `Retire`, `Finish` and `Lose`; all else stutters.
* `HistoryInvariance == Spec => []HistoryInv` (`MachineDriver_history`), from
  which `DeletionComplete`, `DuplicatesNotNeedless` and `NotAdoptedByChance`.
  They compare the end of a call with EC2 at its beginning, requests and
  other calls' steps ago. `StillKnown` carries the beginning along: an instance of
  `must` that still runs is still settled, because only a change unsettles it and
  every change but a launch ends it. `HasFoundOut` says what each request has made
  of that: a listing shows what is left of `must`, so an empty one leaves nothing
  of it, one with a single instance at most that one; and what a deletion has yet
  to remove is in `ids`, because EC2 answers NotFound for a settled instance only
  when it is gone.
* `AnswersTrue == Spec => []AnswerIsTrue` and `ReadySetUp == Spec =>
  []ReadyIsSetUp` (`MachineDriver_ready`), by the inductive `ReadyInv`
  (`ReadyInvariance`). An old description never shows less lacking than there is,
  because what is set stays set; so an OK of `GetMachineStatus` is true, and what
  `InitializeMachine` does not set it would not set if it saw more
  (`HiddenIsHidden`). Between the answer and the step by which the machine becomes
  ready other calls run and duplicates may be launched: `ReadyInv` ties the
  answer to the instance the machine still has, given `Inv`: what was found has
  the machine's tag, and if there never was another with it, it is the provider
  id's. `ReadyComplete` draws the line: when the only check to disable is the
  instance's own, or that one is not among them, nothing lacks at all.

**`Paging`** (`Paging_proofs`), for any number of instances and machines, from
`LastAssumption` and `RepeatsAssumption`. `Invariance == Spec => []Inv`: what all
of EC2 agreed on when the listing began it does not unlearn (an instance in
`must` that still runs is still settled, one in `gone` stays gone), so that
every page shows, of the places it covers, all of `must` that still runs and
nothing of `gone`; and a page moves the token on by at least one place.
`TypeCorrect` is a part of it, and `Bounded == Spec => []ListingIsBounded` follows
from the last one.
`Refinement == Spec => ImplementsListing`: the begin, return, failure and hangup
of the loop are `Listing`'s steps, a repeated token is `Curtail`, any other page
stutters.

**`NetworkSetup`** (`NetworkSetup_proofs`), for a class with any number of
interfaces, any `Slots` and `MaxCrashes`. `TypeCorrect`, `Invariance`,
`InitializeSound` and `NoRequestRefused` need nothing but the
assumptions on the constants. `ReadyHasPrefixes` is not inductive: when a call answers, the work was done
requests, retries and crashes ago. `Invariance` therefore carries what was seen
(`Behind`: an old description never shows more prefixes or fewer checks than
there are, because prefixes only grow and checks only go off; `ReadIsFresh`: a
consistent EC2's description is still right for the interfaces the loop has not
reached) and what the loops have done (`ChecksDone`, `PrefixesDone`,
`ChecksPassed`: all interfaces before the present one are set up, or an error is
remembered). It says so of the entries that the methods look up (`LookedUp`),
right or wrong, and therefore of every class, not only of those like
the run's. `NoRequestRefused` is the safety half
of `EventuallyReady`: the number asked for is never one that EC2 refuses
at every retry. For classes that are looked up rightly (`LooksUpItsOwn`, among them
by `PlacedLooksUpItsOwn` those that set no device index), what is looked up is what
the class asks for: `PrefixesCorrect`, `NoExcess`, `StatusSound`. For all others
`WrongEntriesWrongPrefixes` says that no machine gets ready with the right prefixes.

**`Identifiers`** (`Identifiers_proofs`): `ProviderIDCorrect`, for any names of
regions and instances, and that two instances never share a provider id
(`ProviderIDsDiffer`). `VolumesNamed == Spec => []EveryVolumeNamed`, for lists of
any length and ids of any number of parts. It is an induction over the loop of
`GetVolumeIDs`: after the first `n` sources there is one id for each of them that
names a volume, at its place (`GatheredStep`). Trimming slashes is another one
over the parts of a URL (`TrimToOne`, `UrlNamesTrimmed`): what is left is one part
exactly when the others are empty. The library's induction theorems take an
operator, which no backend here instantiates; `Induction` is the same for a set
of numbers, from the least element that `WFMin` gives (`LeastElement`), and is used
with a set comprehension. `VolumeIDsOfLoop` and `LoopExists` take the recursive
function apart in the same way.

**`ProviderSpec`** (`ProviderSpec_proofs`), for every class, secret, image and
annotation, from `NilAssumption`, `NameAssumption` and `InputsAssumption`. The
run's classes differ from a plain one in one section; here all may differ at
once, with any number of disks, interfaces and tags. `DecidedAlways` says that
the reply follows from the inputs, and the theorems are then about the operators:
`Accepted` (EC2 refuses nothing but what is left to it; `RequestedDisk`, `RootDisk`
and `DistinctIndexes` are its hard parts, and the second is the source of
`RootVolume`) and `FoundAgain`. `SecretExtent` says of every valid
secret whether the last disagreement above concerns it, and
`SecretIsUsed` follows for secrets of which no key of a pair is there
without a value.

Model-checked only: liveness (`OrphansCollected`, `DeletionEnds`,
`EventuallyReady`), which is out of the prover's reach. Every other property of a
passing run is a theorem.

## What is not modelled

* Time. A time-out may happen at any moment, and
  `retryWithExponentialBackOff` repeating permanent errors for five minutes
  shows as nothing but a time-out.
* MCM beyond how it calls the driver: node drain, machine sets, health checks,
  and objects read from a cache older than the worker's own last write. The
  collector's check of the objects is one step with its decision.
* The contents of a set-up that the driver reads wrongly from the class, in
  `MachineDriver`: `Setup` is what it reads. `NetworkSetup` has the class itself.
* A class whose region is changed while its machines run: `MachineDriver` has
  one region.
* A negative `Ipv6PrefixCount`, which validation lets through and for which no
  number of prefixes is ever right.
* Fields of the request that are copied as they are and that no rule and no
  other field depends on: key name, user data, encryption and
  snapshot of a disk, description of an interface.
* Metrics, which nothing reads back; the mock client and the integration tests,
  which are not the program.

## Plan

Done: `EC2`, `Errors`, `MachineDriver`, `MachineBacking`, `Listing`, `Paging`,
`NetworkSetup`, `ProviderSpec` and `Identifiers`, each with its proofs. Left: a region of its own for each class, so that a class
edited while its machines run can be said to find them still, and an MCM that
reads objects older than its own last write, as the two assumptions of
`MachineDriver` that are most in want of a check.
