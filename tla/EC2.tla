------------------------------- MODULE EC2 -------------------------------
(***************************************************************************)
(* EC2 as the driver sees it.  The service is external: what follows is    *)
(* what pkg/aws relies on and guards against, no more.                     *)
(*                                                                         *)
(* EC2 is eventually consistent.  After an instance is launched or         *)
(* terminated it is "unsettled": an answer may or may not show the change, *)
(* and two answers may disagree (core_util.go:304-306, core.go:288-309,    *)
(* errors/codes.go, InstanceIDNotFound).  Settle ends that.                *)
(*                                                                         *)
(* An instance that the filter pending/running/stopping/stopped lets       *)
(* through is "live"; one the driver terminated is "terminated"; one that  *)
(* went away on its own (spot reclaim, hardware, a human) is "lost".       *)
(*                                                                         *)
(* Setup is what the driver's own reading of the class asks for: a check   *)
(* to disable and a number of prefixes to reach, of an interface.  That    *)
(* it may look the prefixes up in another interface's entry, and assign    *)
(* too many, is in NetworkSetup.                                           *)
(***************************************************************************)

CONSTANTS
    VM,         \* the instance ids EC2 may hand out
    Machine,    \* machine names, the values of the tag "Name"
    NoVM,       \* "", no instance id and so no provider id
    NoMachine,  \* the tag of an instance that does not exist yet
    Setup       \* what the class wants to be set on an instance's interfaces

ASSUME NoVMAssumption == NoVM \notin VM
ASSUME NoMachineAssumption == NoMachine \notin Machine

VARIABLES
    life,       \* life[v]: the state of instance v
    name,       \* name[v]: its tag "Name"
    settled,    \* settled[v]: every endpoint agrees about v
    lacks       \* lacks[v]: what of Setup is not set on v, all of it once v has ended:
                \* its interfaces go with it

ec2Vars == <<life, name, settled, lacks>>

LifeState == {"free", "live", "terminated", "lost"}

EC2TypeOK ==
    /\ life \in [VM -> LifeState]
    /\ name \in [VM -> Machine \cup {NoMachine}]
    /\ settled \in [VM -> BOOLEAN]
    /\ lacks \in [VM -> SUBSET Setup]

EC2Init ==
    /\ life = [v \in VM |-> "free"]
    /\ name = [v \in VM |-> NoMachine]
    /\ settled = [v \in VM |-> TRUE]
    /\ lacks = [v \in VM |-> Setup]

Launched == {v \in VM : life[v] # "free"}
Named(m) == {v \in VM : name[v] = m}
Settled(v) == life[v] = "live" /\ settled[v]

---------------------------------------------------------------------------
(* What a request may answer.                                              *)

\* One page of DescribeInstances, filtered by tags and by instance state: S is
\* what the tags let through on that page.
Views(S) == {view \in SUBSET S :
                \A v \in S : settled[v] => (v \in view <=> life[v] = "live")}

\* A listing takes a while, page after page.  What binds its answer is what all
\* of EC2 agreed on when it began: the instances that run and those that are
\* gone.
Windows == [must : SUBSET VM, gone : SUBSET VM]
NoWindow == [must |-> {}, gone |-> {}]
Opened(S) == [must |-> {v \in S : Settled(v)},
              gone |-> {v \in S : settled[v] /\ life[v] # "live"}]

\* A token was repeated: the listing may end early and miss anything.
Curtailed(window) == [window EXCEPT !.must = {}]

\* What a listing over S, begun with that window, may answer now.
Listings(S, window) ==
    {view \in SUBSET (S \ window.gone) :
        \A v \in S \cap window.must : Settled(v) => v \in view}

\* Mutant of TagViews: the filter on tag:Name is missing.
TagViews_AnyName(m, window) == Listings(Launched, window)

\* An instance tagged m, in a state the filter lets through.
TagViews(m, window) == Listings(Named(m), window)

\* The class's cluster and role tags only: the instances of every machine.
ListViews(window) == Listings(Launched, window)

\* A request that names one instance id: EC2 may know the id, and may say
\* InvalidInstanceID.NotFound.  A terminated instance is known for a while.
MaySee(v) == life[v] # "free"
MayMiss(v) == ~Settled(v)

---------------------------------------------------------------------------
(* What changes EC2.                                                       *)

\* RunInstances with MinCount = MaxCount = 1 and the tag Name = m.
Launch(m, v) ==
    /\ life[v] = "free"
    /\ life' = [life EXCEPT ![v] = "live"]
    /\ name' = [name EXCEPT ![v] = m]
    /\ settled' = [settled EXCEPT ![v] = FALSE]
    /\ UNCHANGED lacks

\* TerminateInstances accepts an instance that is already gone.
Terminate(v) ==
    /\ MaySee(v)
    /\ IF life[v] = "live"
       THEN /\ life' = [life EXCEPT ![v] = "terminated"]
            /\ settled' = [settled EXCEPT ![v] = FALSE]
            /\ lacks' = [lacks EXCEPT ![v] = Setup]
       ELSE UNCHANGED <<life, settled, lacks>>
    /\ UNCHANGED name

\* AssignIpv6Addresses and ModifyNetworkInterfaceAttribute, those for S.
Configure(v, S) ==
    /\ life[v] = "live"
    /\ lacks' = [lacks EXCEPT ![v] = @ \ S]
    /\ UNCHANGED <<life, name, settled>>

Settle(v) ==
    /\ ~settled[v]
    /\ settled' = [settled EXCEPT ![v] = TRUE]
    /\ UNCHANGED <<life, name, lacks>>

Lose(v) ==
    /\ life[v] = "live"
    /\ life' = [life EXCEPT ![v] = "lost"]
    /\ settled' = [settled EXCEPT ![v] = FALSE]
    /\ lacks' = [lacks EXCEPT ![v] = Setup]
    /\ UNCHANGED name

\* Any of it but Configure, at any time, by anyone.
InstancesChange ==
    \E v \in VM : \/ Settle(v) \/ Lose(v) \/ Terminate(v)
                 \/ \E m \in Machine : Launch(m, v)
==========================================================================
