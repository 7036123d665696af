--------------------------- MODULE NetworkSetup ---------------------------
(***************************************************************************)
(* The second half of InitializeMachine and of GetMachineStatus: what they *)
(* do to, and ask of, the network interfaces of the one instance that      *)
(* backs a machine.  MachineDriver treats all this as one step.            *)
(*                                                                         *)
(* Interface i is the i-th of the class's networkInterfaces, and EC2 has   *)
(* created them with the device indexes CreateMachine chose.  MCM's worker *)
(* looks the status up, initializes when it is Uninitialized and retries   *)
(* both until one of them says OK; a crash ends the call.                  *)
(*                                                                         *)
(* EC2 is external.  It may show the interfaces as they were a while ago   *)
(* (unless consistent), it may do what it was asked and answer with an     *)
(* error, it has room for Slots prefixes on an interface, and the          *)
(* instance's own SourceDestCheck is that of its interface with device     *)
(* index 0.                                                                *)
(***************************************************************************)
EXTENDS Integers, Sequences

CONSTANTS
    Interfaces,     \* providerSpec.NetworkInterfaces
    None,           \* a nil pointer in one of them
    DisableChecks,  \* srcAndDstChecksEnabled is set, to false
    Consistency,    \* what may be known of EC2: TRUE, it always shows what is
    Slots,          \* EC2's limit on the prefixes of an interface
    MaxCrashes      \* bound on crashes

ASSUME InterfacesAssumption ==
    /\ Interfaces \in Seq([device : Nat \cup {None}, efa : BOOLEAN,
                           prefixes : Nat \cup {None}])
    /\ Interfaces # <<>>  \* by validation
    /\ None \notin Nat
ASSUME SwitchesAssumption == DisableChecks \in BOOLEAN /\ Consistency \subseteq BOOLEAN
ASSUME BoundsAssumption == Slots \in Nat /\ MaxCrashes \in Nat

VARIABLES
    consistent, \* EC2 always shows what is; it never changes
    eni,      \* the interfaces' checks and prefixes
    shown,    \* the interfaces as a lagging endpoint still shows them
    pc,       \* what the worker does next
    target,   \* the interfaces as InitializeMachine read them
    at,       \* the interface its loop is at
    lastErr,  \* a ModifyNetworkInterfaceAttribute failed in this call
    ready,    \* MCM takes the machine for initialized
    crashes

vars == <<consistent, eni, shown, pc, target, at, lastErr, ready, crashes>>
callVars == <<pc, target, at, lastErr, ready>>

N == Len(Interfaces)
Enis == [check : [1..N -> BOOLEAN], prefixes : [1..N -> 0..Slots]]

TypeOK ==
    /\ consistent \in Consistency
    /\ eni \in Enis /\ shown \in Enis /\ target \in Enis
    /\ pc \in {"status", "describe", "modify", "assign"}
    /\ at \in 1..(IF pc = "modify" THEN N + 1 ELSE N)
    /\ lastErr \in BOOLEAN /\ ready \in BOOLEAN
    /\ crashes \in 0..MaxCrashes

\* A new interface is checked and has no prefixes.
NewEnis == [check |-> [i \in 1..N |-> TRUE], prefixes |-> [i \in 1..N |-> 0]]

Init ==
    /\ consistent \in Consistency
    /\ eni = NewEnis /\ shown = NewEnis /\ target = NewEnis
    /\ pc = "status"
    /\ at = 1
    /\ lastErr = FALSE
    /\ ready = FALSE
    /\ crashes = 0

---------------------------------------------------------------------------

\* CreateMachine: the device index of an interface is its place in the class
\* unless the class says otherwise.
DeviceIndex(i) ==
    IF Interfaces[i].device = None THEN i - 1 ELSE Interfaces[i].device

\* Mutant of PrefixCount: an interface is taken for its neighbour.
PrefixCount_OffByOne(i) ==
    IF DeviceIndex(i) \in 1..N THEN Interfaces[DeviceIndex(i)].prefixes ELSE None

\* InitializeMachine and GetMachineStatus look the class's entry up by the
\* device index, and pass over an interface whose index is beyond the list.
PrefixCount(i) ==
    IF DeviceIndex(i) < N THEN Interfaces[DeviceIndex(i) + 1].prefixes ELSE None

PrefixesDiffer(i, found) ==
    PrefixCount(i) # None /\ found.prefixes[i] # PrefixCount(i)

\* What a DescribeInstances may show.
Shown == IF consistent THEN {eni} ELSE {eni, shown}

\* The instance's SourceDestCheck.
InstanceCheck(found) ==
    \A i \in 1..N : DeviceIndex(i) = 0 => found.check[i]

\* Mutant of HasCheck: only the instance's own attribute is looked at.
HasCheck_OfInstance(found) == InstanceCheck(found)

\* GetMachineStatus: a check is still enabled where it can be disabled.
HasCheck(found) == \E i \in 1..N : ~Interfaces[i].efa /\ found.check[i]

---------------------------------------------------------------------------

\* MCM is told OK and is done with the machine, or begins anew.
Done == ready' = TRUE /\ pc' = "status" /\ at' = 1
Failed == ready' = FALSE /\ pc' = "status" /\ at' = 1

GetMachineStatus ==
    /\ pc = "status" /\ ~ready
    /\ \E found \in Shown :
          IF \/ DisableChecks /\ HasCheck(found)
             \/ \E i \in 1..N : PrefixesDiffer(i, found)
          THEN pc' = "describe" /\ UNCHANGED <<ready, at>>
          ELSE Done
    /\ UNCHANGED <<consistent, eni, shown, target, lastErr, crashes>>

\* Mutant of Describe: a retry goes by what an earlier call has read.
Describe_Cached ==
    /\ pc = "describe"
    /\ lastErr' = FALSE
    /\ pc' = IF DisableChecks /\ InstanceCheck(target) THEN "modify" ELSE "assign"
    /\ UNCHANGED <<consistent, eni, shown, target, at, ready, crashes>>

\* InitializeMachine reads the instance once and goes by that to its end.
Describe ==
    /\ pc = "describe"
    /\ target' \in Shown
    /\ lastErr' = FALSE
    /\ pc' = IF DisableChecks /\ InstanceCheck(target') THEN "modify" ELSE "assign"
    /\ UNCHANGED <<consistent, eni, shown, at, ready, crashes>>

\* Any request of the call fails and changes nothing.  A failed modification
\* does not end the loop it is in, any other failure ends the call.
RequestFails ==
    /\ \/ pc \in {"describe", "assign"} /\ Failed /\ UNCHANGED lastErr
       \/ /\ pc = "modify"
          /\ \/ at = 1 /\ Failed /\ UNCHANGED lastErr  \* its DescribeInstances
             \/ /\ at <= N /\ ~Interfaces[at].efa
                /\ lastErr' = TRUE /\ at' = at + 1 /\ UNCHANGED <<pc, ready>>
    /\ UNCHANGED <<consistent, eni, shown, target, crashes>>

\* disableSrcAndDestCheck: one interface after the other, EFA ones excepted.
ModifyNetworkInterfaceAttribute ==
    /\ pc = "modify" /\ at <= N
    /\ at' = at + 1
    /\ IF Interfaces[at].efa
       THEN UNCHANGED <<eni, lastErr>>
       ELSE /\ eni' = [eni EXCEPT !.check[at] = FALSE]
            /\ lastErr' \in {lastErr, TRUE}  \* the answer may be lost
    /\ UNCHANGED <<consistent, shown, pc, target, ready, crashes>>

\* Mutant of ChecksModified: the error of the loop is dropped.
ChecksModified_NoError ==
    /\ pc = "modify" /\ at = N + 1
    /\ pc' = "assign" /\ at' = 1 /\ UNCHANGED ready
    /\ UNCHANGED <<consistent, eni, shown, target, lastErr, crashes>>

\* Its loop is over; the last error, if any, fails InitializeMachine.
ChecksModified ==
    /\ pc = "modify" /\ at = N + 1
    /\ IF lastErr THEN Failed ELSE pc' = "assign" /\ at' = 1 /\ UNCHANGED ready
    /\ UNCHANGED <<consistent, eni, shown, target, lastErr, crashes>>

\* Mutant of Missing: the operands are swapped.
Missing_Swapped(i) == target.prefixes[i] - PrefixCount(i)

\* How many prefixes InitializeMachine asks EC2 to add, by what it read.
Missing(i) == PrefixCount(i) - target.prefixes[i]

\* Mutant of AssignNext: the loop runs once too often.
AssignNext_TooFar == IF at <= N THEN at' = at + 1 /\ UNCHANGED <<pc, ready>> ELSE Done

\* The next interface, or the end of InitializeMachine.
AssignNext == IF at < N THEN at' = at + 1 /\ UNCHANGED <<pc, ready>> ELSE Done

\* EC2 refuses a count that is not positive and one it has no room for.
AssignIpv6Addresses ==
    /\ pc = "assign"
    /\ IF ~PrefixesDiffer(at, target)
       THEN AssignNext /\ UNCHANGED eni
       ELSE IF Missing(at) > 0 /\ eni.prefixes[at] + Missing(at) <= Slots
            THEN /\ eni' = [eni EXCEPT !.prefixes[at] = @ + Missing(at)]
                 /\ AssignNext \/ Failed  \* the answer may be lost
            ELSE Failed /\ UNCHANGED eni
    /\ UNCHANGED <<consistent, shown, target, lastErr, crashes>>

Crash ==
    /\ crashes < MaxCrashes
    /\ crashes' = crashes + 1
    /\ pc # "status" /\ Failed
    /\ UNCHANGED <<consistent, eni, shown, target, lastErr>>

CatchUp ==
    /\ shown # eni
    /\ shown' = eni
    /\ UNCHANGED <<consistent, eni, callVars, crashes>>

\* The worker has nothing left to do.
Finished == ready /\ UNCHANGED vars

Progress ==
    \/ GetMachineStatus
    \/ Describe
    \/ ModifyNetworkInterfaceAttribute
    \/ ChecksModified
    \/ AssignIpv6Addresses

Next == Progress \/ RequestFails \/ Crash \/ CatchUp \/ Finished

Spec == Init /\ [][Next]_vars

\* EC2 catches up, every call returns, MCM retries, and a request that is
\* repeated for ever is carried out and answered in the end.
Fairness ==
    /\ WF_vars(CatchUp)
    /\ WF_vars(Progress \/ RequestFails)
    /\ SF_vars(Describe)
    /\ \A i \in 1..N :
          /\ SF_vars(at = i /\ ModifyNetworkInterfaceAttribute /\ lastErr' = FALSE)
          /\ SF_vars(at = i /\ AssignIpv6Addresses /\ (ready' \/ at' > i))

FairSpec == Spec /\ Fairness

---------------------------------------------------------------------------
(* Safety.                                                                 *)

ChecksOff == DisableChecks => \A i \in 1..N : Interfaces[i].efa \/ ~eni.check[i]

\* The number of prefixes the class asks for on interface i itself.
Asked(i) == IF Interfaces[i].prefixes = None THEN 0 ELSE Interfaces[i].prefixes

PrefixesThere == \A i \in 1..N : eni.prefixes[i] >= Asked(i)

\* Retries, lost answers and crashes between two assignments never give an
\* interface more prefixes than the class asks for (aws_provider_spec.go:245).
NoExcessPrefixes == \A i \in 1..N : eni.prefixes[i] <= Asked(i)

\* So it is while EC2 shows what is.
NoExcessWhenConsistent == consistent => NoExcessPrefixes

\* While EC2 shows what is, InitializeMachine never asks for a number that is
\* zero or negative, nor for more than brings an interface to its count: no retry
\* after a lost answer or a crash ends in a request that EC2 has to refuse for
\* ever (core.go:374-391).
AsksForTheRest ==
    consistent /\ pc = "assign" /\ PrefixesDiffer(at, target) =>
        Missing(at) > 0 /\ eni.prefixes[at] + Missing(at) = PrefixCount(at)

\* A machine that MCM takes for initialized has all its prefixes.
ReadyHasPrefixes == ready => PrefixesThere

\* With srcAndDstChecksEnabled false the checks are disabled on a machine that
\* MCM takes for initialized (aws_provider_spec.go:93, core_util.go:64).
ReadyHasChecksOff == ready => ChecksOff

\* GetMachineStatus answers OK only for an instance that is set up, although
\* it may have been shown an old state of it.
StatusIsSound ==
    [][pc = "status" /\ ~ready /\ ready' => ChecksOff /\ PrefixesThere]_vars

\* An InitializeMachine that read the instance's check as enabled answers OK
\* only when it has disabled every check: no failure in its loop is forgotten
\* because a later interface went well.
InitializeIsSound ==
    [][pc = "assign" /\ ready' /\ InstanceCheck(target) /\ DisableChecks =>
          ChecksOff]_vars

\* The number of prefixes of the entry that the methods take for interface i's.
LookedUp(i) == IF PrefixCount(i) = None THEN 0 ELSE PrefixCount(i)

\* The methods ask for interface i what the class asks for it.
LooksUpItsOwn == \A i \in 1..N : LookedUp(i) = Asked(i)

\* No class index says otherwise: an interface is looked up at its place.
Placed == \A i \in 1..N : DeviceIndex(i) = i - 1

\* What was seen of the interfaces is what they are or were.
Behind(seen) ==
    \A i \in 1..N : /\ seen.prefixes[i] <= eni.prefixes[i]
                    /\ eni.check[i] => seen.check[i]

\* What a consistent EC2 showed is still so where InitializeMachine has not been.
ReadIsFresh ==
    consistent /\ pc \in {"modify", "assign"} =>
        \A i \in 1..N : (pc = "modify" \/ at <= i) => target.prefixes[i] = eni.prefixes[i]

LoopsBeginAtOne == pc \in {"status", "describe"} => at = 1

\* Its loops have done their work on the interfaces before the one they are at,
\* or know that they failed.
ChecksDone ==
    pc = "modify" => lastErr \/ \A i \in 1..(at - 1) : Interfaces[i].efa \/ ~eni.check[i]
PrefixesDone ==
    pc = "assign" => \A i \in 1..(at - 1) : eni.prefixes[i] >= LookedUp(i)
ChecksPassed == pc = "assign" /\ InstanceCheck(target) => ChecksOff

\* What they bring about is what they look up, right or wrong.
NoExcessLookedUp == consistent => \A i \in 1..N : eni.prefixes[i] <= LookedUp(i)
ReadyHasLookedUp == ready => \A i \in 1..N : eni.prefixes[i] >= LookedUp(i)

\* The inductive invariant behind the properties above: an old read, a lost
\* answer or a retry never makes InitializeMachine or GetMachineStatus believe
\* that something is done which is not.
Inv ==
    /\ TypeOK
    /\ Behind(shown) /\ Behind(target)
    /\ ReadIsFresh /\ LoopsBeginAtOne /\ ChecksDone /\ PrefixesDone /\ ChecksPassed
    /\ NoExcessLookedUp /\ ReadyHasLookedUp

---------------------------------------------------------------------------
(* Liveness.                                                               *)

\* While EC2 shows what is, the machine is initialized in the end, whatever
\* failed half-way.
EventuallyReady == consistent => <>ready
==========================================================================
