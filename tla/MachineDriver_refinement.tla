----------------------- MODULE MachineDriver_refinement -----------------------
(***************************************************************************)
(* MachineDriver implements MachineBacking, for any machines, instances    *)
(* and number of faults: its initial states are initial states there, and  *)
(* by Inv every step of a call, a caller or EC2 is a step there or leaves  *)
(* everything visible there as it is.                                      *)
(***************************************************************************)
EXTENDS MachineDriver_proofs

LEMMA BackingInit == Init => Backing!Init
<1> SUFFICES ASSUME Init PROVE Backing!Init
  OBVIOUS
<1>1. \A m \in Machine : Named(m) = {}
  BY NoMachineAssumption DEF Init, EC2Init, Named
<1>2. {v \in VM : life[v] = "live"} = {} /\ {v \in VM : life[v] = "terminated"} = {}
  BY DEF Init, EC2Init
<1> QED
  BY <1>1, <1>2 DEF Init, Backing!Init

\* What MachineBacking sees is in four of the variables.
LEMMA Stutters ==
    ASSUME UNCHANGED <<life, name, phase, providerID>>
    PROVE  UNCHANGED Backing!vars
BY DEF Backing!vars, Named

\* A step that leaves EC2's instances alone leaves the sets of them alone.
LEMMA InstancesKept ==
    ASSUME UNCHANGED <<life, name>>
    PROVE  /\ [m \in Machine |-> Named(m)]' = [m \in Machine |-> Named(m)]
           /\ {v \in VM : life[v] = "live"}' = {v \in VM : life[v] = "live"}
           /\ {v \in VM : life[v] = "terminated"}' = {v \in VM : life[v] = "terminated"}
BY DEF Named

\* An instance that EC2 launches for machine m is one no machine had before.
LEMMA LaunchBacked ==
    ASSUME Inv, NEW m \in Machine, NEW v \in VM, Launch(m, v),
           UNCHANGED <<phase, providerID>>
    PROVE  Backing!Launch(m, v)
<1>1. /\ life[v] = "free" /\ name[v] = NoMachine
      /\ life' = [life EXCEPT ![v] = "live"] /\ name' = [name EXCEPT ![v] = m]
  BY DEF Launch, Inv
<1>2. \A u \in VM : /\ u # v => life'[u] = life[u] /\ name'[u] = name[u]
                    /\ life'[v] = "live" /\ name'[v] = m
  BY <1>1 DEF Inv, TypeOK, EC2TypeOK
<1>3. v \notin UNION {Named(n) : n \in Machine}
  BY <1>1, NoMachineAssumption DEF Named
<1>4. \A n \in Machine : Named(n)' = IF n = m THEN Named(n) \cup {v} ELSE Named(n)
  BY <1>1, <1>2, NoMachineAssumption DEF Named
<1>5. [n \in Machine |-> Named(n)]'
      = [[n \in Machine |-> Named(n)] EXCEPT ![m] = @ \cup {v}]
  BY <1>4
<1>6. {u \in VM : life[u] = "live"}' = {u \in VM : life[u] = "live"} \cup {v}
  BY <1>2
<1>7. {u \in VM : life[u] = "terminated"}' = {u \in VM : life[u] = "terminated"}
  BY <1>1, <1>2
<1> QED
  BY <1>3, <1>5, <1>6, <1>7 DEF Backing!Launch

\* RunInstances launches an instance for the machine whose worker called.
LEMMA RunInstancesLaunches ==
    ASSUME Inv, NEW w \in Worker, RunInstances(w)
    PROVE  \E m \in Machine, v \in VM : Backing!Launch(m, v)
<1>1. PICK v \in VM : Launch(req[w].machine, v)
  BY DEF RunInstances
<1>2. w \in Machine
  BY DEF Inv, CollectorDeletesAbandoned, RunInstances, At, Worker
<1>3. req[w].machine = w
  <2>1. CallIsOwn(w) /\ op[w] = "create"
    BY <1>2 DEF Inv, RunInstances, At
  <2> QED
    BY <2>1 DEF CallIsOwn, RequestOf
<1>4. Backing!Launch(w, v)
  BY <1>1, <1>2, <1>3, LaunchBacked DEF RunInstances, objVars
<1> QED
  BY <1>2, <1>4

\* So does a request whose call ended before.
LEMMA LateLaunchLaunches ==
    ASSUME Inv, NEW m \in Machine, NEW v \in VM, LateLaunch(m, v)
    PROVE  Backing!Launch(m, v)
BY LaunchBacked DEF LateLaunch, objVars

\* A termination removes an abandoned instance, or nothing, whatever becomes of
\* its answer.
LEMMA TerminateInstanceRemoves ==
    ASSUME Inv, NEW w \in Worker, TerminateInstance(w) \/ TerminationUnanswered(w)
    PROVE  \/ \E m \in Machine, v \in VM : Backing!Remove(m, v)
           \/ UNCHANGED Backing!vars
<1>0. TypeOK /\ EC2TypeOK /\ CallsTypeOK /\ CollectorDeletesAbandoned
  BY TypeParts DEF Inv
<1>1. PICK v \in ids[w] : Terminate(v) \/ UNCHANGED ec2Vars
  BY TerminationIs
<1>2. v \in VM /\ Abandoned(v)
  <2>1. v \in VM
    BY <1>0 DEF CallsTypeOK
  <2>2. CASE w = Collector
    BY <1>0, <2>1, <2>2 DEF CollectorDeletesAbandoned
  <2>3. CASE w \in Machine
    BY <2>1, <2>3, TerminationIs DEF Inv, CallIsOwn, Named, Abandoned
  <2> QED
    BY <2>1, <2>2, <2>3 DEF Worker
<1>3. UNCHANGED <<name, phase, providerID>>
  BY <1>1, TerminationIs DEF Terminate, ec2Vars, objVars
<1>4. CASE life' = life
  BY <1>3, <1>4, Stutters
<1>5. CASE life[v] = "live" /\ life' = [life EXCEPT ![v] = "terminated"]
  <2>1. \A u \in VM : (u # v => life'[u] = life[u]) /\ life'[v] = "terminated"
    BY <1>0, <1>2, <1>5 DEF EC2TypeOK
  <2>2. {u \in VM : life[u] = "live"}' = {u \in VM : life[u] = "live"} \ {v}
    BY <1>2, <2>1
  <2>3. {u \in VM : life[u] = "terminated"}'
        = {u \in VM : life[u] = "terminated"} \cup {v}
    BY <1>2, <2>1
  <2>4. [n \in Machine |-> Named(n)]' = [n \in Machine |-> Named(n)]
    BY <1>3 DEF Named
  <2>5. PICK m \in Machine : m = name[v]
    BY <1>2 DEF Abandoned
  <2>6. v \in Named(m) \cap {u \in VM : life[u] = "live"}
    BY <1>2, <1>5, <2>5 DEF Named
  <2>7. \/ phase[m] \in {"deleting", "gone"}
        \/ phase[m] = "ready" /\ providerID[m] # v
    BY <1>2, <2>5 DEF Abandoned
  <2>8. Backing!Remove(m, v)
    BY <1>3, <2>2, <2>3, <2>4, <2>6, <2>7 DEF Backing!Remove
  <2> QED
    BY <1>2, <2>8
<1> QED
  BY <1>1, <1>4, <1>5 DEF Terminate, ec2Vars

\* A worker's turn writes a provider id, ends a phase, or is not visible.
LEMMA WorkerTurnBacked ==
    ASSUME Inv, NEW m \in Machine, WorkerTurn(m)
    PROVE  \/ \E v \in VM : Backing!Adopt(m, v)
           \/ Backing!BecomeReady(m) \/ Backing!Finish(m)
           \/ UNCHANGED Backing!vars
<1>0. /\ TypeOK /\ CallsTypeOK /\ ObjectsTypeOK /\ CallIsOwn(m) /\ m \in Worker
  BY TypeParts DEF Inv, Worker
<1>1. UNCHANGED <<life, name>>
  BY DEF WorkerTurn, StartStatus, StartDelete, StatusAnswered, CreateAnswered,
         InitAnswered, DeleteAnswered, ec2Vars
<1>2. ASSUME UNCHANGED <<phase, providerID>> PROVE UNCHANGED Backing!vars
  BY <1>1, <1>2, Stutters
<1>3. ASSUME Adopt(m), op[m] # "none", req[m].providerID = NoVM
      PROVE  (\E v \in VM : Backing!Adopt(m, v)) \/ UNCHANGED Backing!vars
  <2>1. providerID[m] = NoVM /\ phase' = phase
    BY <1>0, <1>3 DEF CallIsOwn, RequestOf, Adopt
  <2>2. CASE phase[m] = "creating" /\ vm[m] # NoVM
    <3>1. vm[m] \in VM /\ vm[m] \in Named(m)
      BY <1>0, <2>2 DEF CallIsOwn, CallsTypeOK
    <3>2. providerID' = [providerID EXCEPT ![m] = vm[m]]
      BY <1>3, <2>2 DEF Adopt
    <3>3. Backing!Adopt(m, vm[m])
      BY <1>1, <2>1, <2>2, <3>1, <3>2, InstancesKept DEF Backing!Adopt
    <3> QED
      BY <3>1, <3>3
  <2>3. CASE ~(phase[m] = "creating" /\ vm[m] # NoVM)
    <3>1. providerID' = providerID
      BY <1>0, <1>3, <2>1, <2>3 DEF Adopt, ObjectsTypeOK
    <3> QED
      BY <1>2, <2>1, <3>1
  <2> QED
    BY <2>2, <2>3
<1>4. ASSUME BecomeReady(m), providerID[m] # NoVM
      PROVE  Backing!BecomeReady(m) \/ UNCHANGED Backing!vars
  <2>1. CASE phase[m] = "creating"
    BY <1>1, <1>4, <2>1, InstancesKept DEF BecomeReady, Backing!BecomeReady
  <2>2. CASE phase[m] # "creating"
    BY <1>2, <1>4, <2>2 DEF BecomeReady
  <2> QED
    BY <2>1, <2>2
<1>5. CASE StartStatus(m) \/ StartDelete(m)
  BY <1>2, <1>5 DEF StartStatus, StartDelete, objVars
<1>6. CASE StatusAnswered(m)
  <2>1. op[m] = "status" /\ req[m].providerID = providerID[m]
    BY <1>0, <1>6 DEF StatusAnswered, At, CallIsOwn, RequestOf
  <2>2. \/ UNCHANGED objVars
        \/ Adopt(m) /\ req[m].providerID = NoVM
        \/ BecomeReady(m) /\ req[m].providerID # NoVM
    BY <1>6 DEF StatusAnswered
  <2> QED
    BY <1>2, <1>3, <1>4, <2>1, <2>2 DEF objVars
<1>7. CASE CreateAnswered(m)
  <2>1. op[m] = "create" /\ req[m].providerID = NoVM
    BY <1>0, <1>7 DEF CreateAnswered, At, CallIsOwn, RequestOf
  <2>2. UNCHANGED objVars \/ Adopt(m)
    BY <1>7 DEF CreateAnswered
  <2> QED
    BY <1>2, <1>3, <2>1, <2>2 DEF objVars
<1>8. CASE InitAnswered(m)
  <2>1. providerID[m] # NoVM
    BY <1>0, <1>8 DEF InitAnswered, At, CallIsOwn
  <2>2. UNCHANGED objVars \/ BecomeReady(m)
    BY <1>8 DEF InitAnswered
  <2> QED
    BY <1>2, <1>4, <2>1, <2>2 DEF objVars
<1>9. CASE DeleteAnswered(m)
  <2>1. phase[m] = "deleting" /\ providerID' = providerID
    BY <1>0, <1>9 DEF DeleteAnswered, At, CallIsOwn
  <2>2. CASE phase' = phase
    BY <1>2, <2>1, <2>2
  <2>3. CASE phase' = [phase EXCEPT ![m] = "gone"]
    BY <1>1, <2>1, <2>3, InstancesKept DEF Backing!Finish
  <2> QED
    BY <1>9, <2>2, <2>3 DEF DeleteAnswered
<1> QED
  BY <1>5, <1>6, <1>7, <1>8, <1>9 DEF WorkerTurn

LEMMA RequestDeletionRetires ==
    ASSUME NEW m \in Machine, RequestDeletion(m)
    PROVE  Backing!Retire(m)
BY InstancesKept DEF RequestDeletion, Backing!Retire, ec2Vars

LEMMA InstanceLostLoses ==
    ASSUME Inv, NEW v \in VM, InstanceLost(v)
    PROVE  Backing!Lose(v)
<1>1. /\ life[v] = "live" /\ life' = [life EXCEPT ![v] = "lost"]
      /\ UNCHANGED <<name, phase, providerID>>
  BY DEF InstanceLost, Lose, objVars
<1>2. \A u \in VM : (u # v => life'[u] = life[u]) /\ life'[v] = "lost"
  BY <1>1 DEF Inv, TypeOK, EC2TypeOK
<1>3. {u \in VM : life[u] = "live"}' = {u \in VM : life[u] = "live"} \ {v}
  BY <1>2
<1>4. {u \in VM : life[u] = "terminated"}' = {u \in VM : life[u] = "terminated"}
  BY <1>1, <1>2
<1>5. [n \in Machine |-> Named(n)]' = [n \in Machine |-> Named(n)]
  BY <1>1 DEF Named
<1> QED
  BY <1>1, <1>3, <1>4, <1>5 DEF Backing!Lose

\* Every other step is not visible.
LEMMA OthersStutter ==
    ASSUME \/ \E w \in Worker :
                 \/ GetMatchingInstances(w) \/ GetInstanceByID(w)
                 \/ InitializeMachine(w) \/ AwaitVisible(w) \/ DeleteByTags(w)
                 \/ CallFails(w) \/ AwaitTimesOut(w)
                 \/ ListMachines(w) \/ RequestOutlivesCall(w)
           \/ StartListing \/ CollectorAnswered \/ Crash
           \/ \E v \in VM : CollectorHandles(v) \/ InstanceSettles(v)
           \/ UNCHANGED vars
    PROVE  UNCHANGED Backing!vars
<1>1. UNCHANGED <<life, name, phase, providerID>>
  BY DEF GetMatchingInstances, GetInstanceByID, InitializeMachine, AwaitVisible,
         DeleteByTags, CallFails, AwaitTimesOut, ListMachines, CollectorAnswered,
         StartListing, RequestOutlivesCall,
         Crash, CollectorHandles, InstanceSettles, Configure, Settle,
         vars, ec2Vars, objVars
<1> QED
  BY <1>1, Stutters

LEMMA BackingStep == Inv /\ [Next]_vars => [Backing!Next]_Backing!vars
<1> SUFFICES ASSUME Inv, [Next]_vars PROVE Backing!Next \/ UNCHANGED Backing!vars
  OBVIOUS
<1>1. ASSUME NEW w \in Worker, Progress(w) \/ CallFails(w) \/ AwaitTimesOut(w)
      PROVE  Backing!Next \/ UNCHANGED Backing!vars
  <2>1. CASE RunInstances(w)
    BY <2>1, RunInstancesLaunches DEF Backing!Next
  <2>2. CASE TerminateInstance(w)
    BY <2>2, TerminateInstanceRemoves DEF Backing!Next
  <2> QED
    BY <1>1, <2>1, <2>2, OthersStutter DEF Progress
<1>2. ASSUME NEW m \in Machine, WorkerTurn(m) \/ RequestDeletion(m)
      PROVE  Backing!Next \/ UNCHANGED Backing!vars
  BY <1>2, WorkerTurnBacked, RequestDeletionRetires DEF Backing!Next
<1>3. ASSUME NEW v \in VM, InstanceLost(v) PROVE Backing!Next
  BY <1>3, InstanceLostLoses DEF Backing!Next
<1>4. ASSUME NEW m \in Machine, NEW v \in VM, LateLaunch(m, v) PROVE Backing!Next
  BY <1>4, LateLaunchLaunches DEF Backing!Next
<1>5. ASSUME NEW w \in Worker, TerminationUnanswered(w)
      PROVE  Backing!Next \/ UNCHANGED Backing!vars
  BY <1>5, TerminateInstanceRemoves DEF Backing!Next
<1> QED
  BY <1>1, <1>2, <1>3, <1>4, <1>5, OthersStutter DEF Next

\* The driver under MCM, with every interleaving, retry, crash and stale
\* answer, keeps the promise MachineBacking states: an instance belongs to one
\* machine from its launch, is adopted at most once and only by that machine,
\* and is removed only when that machine has no use for it.
THEOREM Refinement == Spec => ImplementsBacking
<1>1. Spec => []Inv
  BY Invariance
<1>2. Init => Backing!Init
  BY BackingInit
<1>3. Inv /\ [Next]_vars => [Backing!Next]_Backing!vars
  BY BackingStep
<1> QED
  BY <1>1, <1>2, <1>3, PTL DEF Spec, ImplementsBacking, Backing!Spec
==========================================================================
