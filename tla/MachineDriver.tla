--------------------------- MODULE MachineDriver ---------------------------
(***************************************************************************)
(* The driver of pkg/aws/core.go and core_util.go, driven by the machine   *)
(* controller manager (MCM) it is linked into, against EC2.                *)
(*                                                                         *)
(* A call of a driver method is a sequence of EC2 requests and each        *)
(* request is one step, so that what other calls, EC2 and a crash do       *)
(* between two requests is explored.  Only those that set up the           *)
(* interfaces of an instance are one step together, which may stop         *)
(* anywhere: nobody but its machine's worker ever looks at them, and       *)
(* NetworkSetup has them one by one.  The callers are external: one MCM    *)
(* worker per machine object, which never runs two calls for one machine   *)
(* at a time, and the orphan collector of MCM's safety controller, which   *)
(* runs beside all of them.  The objects survive a crash, calls do not.    *)
(***************************************************************************)
EXTENDS EC2, Errors, Naturals

CONSTANTS
    Collector,  \* the orphan collector
    Checks,     \* of Setup, the source/destination checks to disable: one for
                \* each interface but EFA ones, if any are to be disabled
    PrimaryCheck,  \* that of the first interface, which is the instance's own
    MaxFaults,  \* bound on crashes, lost instances and late launches, together
    Repeats,    \* EC2 may repeat a token and so end a listing early
    Remembers   \* window holds what binds no listing, too, as history

ASSUME CollectorAssumption == Collector \notin Machine
ASSUME ChecksAssumption == Checks \subseteq Setup
ASSUME FaultsAssumption == MaxFaults \in Nat
ASSUME RepeatsAssumption == Repeats \in BOOLEAN
ASSUME RemembersAssumption == Remembers \in BOOLEAN

VARIABLES
    phase,       \* phase[m]: the life cycle of machine object m
    providerID,  \* providerID[m]: its Spec.ProviderID
    op,          \* op[w]: the driver method w is calling
    pc,          \* pc[w]: the next request of that call
    req,         \* req[w]: the machine name and provider id it was given
    vm,          \* vm[w]: the instance the call works on, then its answer
    ids,         \* ids[w]: the instances DeleteMachine still has to terminate
    code,        \* code[w]: the status code of the finished call
    listed,      \* what ListMachines gave the collector and is not handled yet
    faults,      \* crashes, lost instances and late launches so far
    late,        \* machines with a RunInstances request that outlived its call
    window       \* window[w]: what all of EC2 agreed on when the call began, of
                 \* the instances it is about

callVars == <<op, pc, req, vm, ids, code, window>>
objVars == <<phase, providerID>>
faultVars == <<faults, late>>
vars == <<ec2Vars, callVars, objVars, listed, faultVars>>

Worker == Machine \cup {Collector}

\* "Internal" stands for InvalidArgument, too, and for the NotFound CreateMachine
\* answers when there is no image: the callers treat these alike.
Code == {"OK", "NotFound", "Uninitialized", "OutOfRange", "ResourceExhausted",
         "Internal"}
Op == {"none", "status", "create", "init", "delete", "list"}
Step == {"idle", "tags", "byID", "run", "await", "apply", "terminate", "done"}
Request == [machine : Machine \cup {NoMachine}, providerID : VM \cup {NoVM}]
NoRequest == [machine |-> NoMachine, providerID |-> NoVM]

TypeOK ==
    /\ EC2TypeOK
    /\ phase \in [Machine -> {"creating", "ready", "deleting", "gone"}]
    /\ providerID \in [Machine -> VM \cup {NoVM}]
    /\ op \in [Worker -> Op]
    /\ pc \in [Worker -> Step]
    /\ req \in [Worker -> Request]
    /\ vm \in [Worker -> VM \cup {NoVM}]
    /\ ids \in [Worker -> SUBSET VM]
    /\ code \in [Worker -> Code]
    /\ listed \in SUBSET VM
    /\ faults \in 0..MaxFaults
    /\ late \in SUBSET (Machine \cup {NoMachine})
    /\ window \in [Worker -> Windows]

Init ==
    /\ EC2Init
    /\ phase = [m \in Machine |-> "creating"]
    /\ providerID = [m \in Machine |-> NoVM]
    /\ op = [w \in Worker |-> "none"]
    /\ pc = [w \in Worker |-> "idle"]
    /\ req = [w \in Worker |-> NoRequest]
    /\ vm = [w \in Worker |-> NoVM]
    /\ ids = [w \in Worker |-> {}]
    /\ code = [w \in Worker |-> "OK"]
    /\ listed = {}
    /\ faults = 0
    /\ late = {}
    /\ window = [w \in Worker |-> NoWindow]

---------------------------------------------------------------------------
(* Calling a method and answering a call.                                  *)

\* The call is at request s of method o.
At(w, o, s) == op[w] = o /\ pc[w] = s

\* Method o is called; S is what it has to terminate, if anything.
Call(w, o, s, r, S) ==
    /\ op' = [op EXCEPT ![w] = o]
    /\ pc' = [pc EXCEPT ![w] = s]
    /\ req' = [req EXCEPT ![w] = r]
    /\ ids' = [ids EXCEPT ![w] = S]
    /\ vm' = [vm EXCEPT ![w] = NoVM]
    /\ UNCHANGED code

\* The call is about the instances S.  With repeated tokens only those that are
\* gone bind the answer of its listing (see Listing and Paging).
Begun(w, S) ==
    window' = [window EXCEPT ![w] = IF Repeats THEN Curtailed(Opened(S)) ELSE Opened(S)]

\* All of EC2 knew the instances S when the call began; history.
Remember(w, S) ==
    window' = [window EXCEPT ![w] = [NoWindow EXCEPT !.must = IF Remembers THEN S ELSE {}]]

\* Its listing, if it made one, is over.
Listed(w) == Remember(w, window[w].must)

\* The call goes on to request s, with instance v in hand.
Goto(w, s, v) ==
    /\ pc' = [pc EXCEPT ![w] = s]
    /\ vm' = [vm EXCEPT ![w] = v]
    /\ Listed(w)
    /\ UNCHANGED <<op, req, ids, code>>

\* The method returns code c and, in the response, instance v.
Return(w, c, v) ==
    /\ pc' = [pc EXCEPT ![w] = "done"]
    /\ code' = [code EXCEPT ![w] = c]
    /\ vm' = [vm EXCEPT ![w] = v]
    /\ ids' = [ids EXCEPT ![w] = {}]
    /\ Listed(w)
    /\ UNCHANGED <<op, req>>

\* The caller has dealt with the answer.
Hangup(w) ==
    /\ op' = [op EXCEPT ![w] = "none"]
    /\ pc' = [pc EXCEPT ![w] = "idle"]
    /\ req' = [req EXCEPT ![w] = NoRequest]
    /\ vm' = [vm EXCEPT ![w] = NoVM]
    /\ ids' = [ids EXCEPT ![w] = {}]
    /\ code' = [code EXCEPT ![w] = "OK"]
    /\ window' = [window EXCEPT ![w] = NoWindow]

\* The request of machine object m, as its worker read it.
RequestOf(m) == [machine |-> m, providerID |-> providerID[m]]

\* Mutant of CallFails: an error of EC2 is reported as NotFound.
CallFails_AsNotFound(w) ==
    /\ pc[w] \in {"tags", "byID", "run", "apply", "terminate"}
    /\ Return(w, "NotFound", NoVM)
    /\ UNCHANGED <<ec2Vars, objVars, listed, faultVars>>

\* What EC2 may answer instead when it is asked about instance v.
Refusals(v) == {err \in EC2Error : err = InstanceIDNotFound => MayMiss(v)}

\* The codes of the errors in which the request that w's call is at, or what the
\* method does before its first request, may end the call: a class or secret
\* that does not decode or validate, a configuration without credentials, an
\* image, block device or placement that cannot be used, or an error of EC2.
Failures(w) ==
    CASE pc[w] = "tags" ->
             IF op[w] = "init" THEN {"Internal", "Uninitialized"} ELSE {"Internal"}
      [] pc[w] = "byID" -> {"Internal"}
      [] pc[w] = "run" -> {GetMCMErrorCodeForCreateMachine(err) : err \in EC2Error}
      [] pc[w] = "apply" -> {"Uninitialized"}
      [] pc[w] = "terminate" ->
             {GetMCMErrorCodeForTerminateInstances(err) :
                 err \in UNION {Refusals(v) : v \in ids[w]}} \ {"NotFound"}
      [] OTHER -> {}

\* It leaves things as they are.
CallFails(w) ==
    /\ \E c \in Failures(w) : Return(w, c, NoVM)
    /\ UNCHANGED <<ec2Vars, objVars, listed, faultVars>>

---------------------------------------------------------------------------
(* GetMachineStatus and InitializeMachine find the machine's instances the *)
(* same way: by tags and, if there are none, by provider id.               *)

\* What a description of v may show as not set: what is not, and what was not
\* a while ago.  An instance that is gone may show no interface to look at.
ShownLacking(v) ==
    IF life[v] = "live" THEN {S \in SUBSET Setup : lacks[v] \subseteq S} ELSE SUBSET Setup

\* Mutant of StatusOf: the checks and prefixes are not compared.
StatusOf_Unchecked(w, found) ==
    \/ /\ \E u, v \in found : u # v
       /\ Return(w, "OutOfRange", NoVM)
    \/ \E v \in found : found = {v} /\ Return(w, "OK", v)

\* Mutant of StatusOf: the first of several instances is taken.
StatusOf_First(w, found) ==
    \E v \in found :
        \E S \in ShownLacking(v) :
            Return(w, IF S = {} THEN "OK" ELSE "Uninitialized", v)

\* GetMachineStatus with the instances it found.
StatusOf(w, found) ==
    \/ /\ \E u, v \in found : u # v
       /\ Return(w, "OutOfRange", NoVM)
    \/ \E v \in found :
          /\ found = {v}
          /\ \E S \in ShownLacking(v) :
                Return(w, IF S = {} THEN "OK" ELSE "Uninitialized", v)

\* What InitializeMachine sets when it is shown that S lacks: the prefixes it
\* sees lacking and all the checks, but no check when the instance's own is off.
ToSet(S) == (S \ Checks) \cup (IF PrimaryCheck \in Checks \ S THEN {} ELSE Checks)

\* InitializeMachine with the instances it found: it takes the first one.
InitializeOne(w, found) ==
    \E v \in found : \E S \in ShownLacking(v) :
        IF ToSet(S) = {} THEN Return(w, "OK", v) ELSE Goto(w, "apply", v)

Matched(w, found) ==
    \/ op[w] = "status" /\ StatusOf(w, found)
    \/ op[w] = "init" /\ InitializeOne(w, found)

\* Mutant of NotMatched: EC2's error code is passed on as it is.
NotMatched_RawCode(w) == Return(w, "InvalidInstanceID.NotFound", NoVM)

\* InitializeMachine reports a missing instance as Uninitialized.
NotMatched(w) ==
    Return(w, IF op[w] = "init" THEN "Uninitialized" ELSE "NotFound", NoVM)

GetMatchingInstances(w) ==
    /\ op[w] \in {"status", "init"} /\ pc[w] = "tags"
    /\ \E view \in TagViews(req[w].machine, window[w]) :
          \/ view # {} /\ Matched(w, view)
          \/ /\ view = {}
             /\ IF req[w].providerID = NoVM
                THEN NotMatched(w)
                ELSE Goto(w, "byID", req[w].providerID)
    /\ UNCHANGED <<ec2Vars, objVars, listed, faultVars>>

\* By id there is no filter on the state: an instance that is terminated but
\* not yet forgotten is found, too.
GetInstanceByID(w) ==
    /\ op[w] \in {"status", "init"} /\ pc[w] = "byID"
    /\ \/ MaySee(vm[w]) /\ Matched(w, {vm[w]})
       \/ /\ MayMiss(vm[w]) \/ \E err \in Refusals(vm[w]) : IsInstanceIDNotFound(err)
          /\ NotMatched(w)
    /\ UNCHANGED <<ec2Vars, objVars, listed, faultVars>>

\* Mutant of InitializeMachine: the error of the loop over the checks is dropped.
InitializeMachine_NoError(w) ==
    /\ At(w, "init", "apply")
    /\ \E S \in ShownLacking(vm[w]) :
          \E done \in SUBSET ToSet(S) :
              /\ Configure(vm[w], done)
              /\ \/ ToSet(S) \ Checks \subseteq done /\ Return(w, "OK", vm[w])
                 \/ Return(w, "Uninitialized", NoVM)
    /\ UNCHANGED <<objVars, listed, faultVars>>

\* It makes the requests by what it has just read, which only calls for this
\* machine change.  Those for the checks go on after one that failed, the first
\* prefix comes when all of them went well; OK is the answer when all that
\* there was to set is set, and was answered.
InitializeMachine(w) ==
    /\ At(w, "init", "apply")
    /\ \E S \in ShownLacking(vm[w]) :
          \E done \in SUBSET ToSet(S) :
              /\ done \subseteq Checks \/ ToSet(S) \cap Checks \subseteq done
              /\ Configure(vm[w], done)
              /\ \/ done = ToSet(S) /\ Return(w, "OK", vm[w])
                 \/ Return(w, "Uninitialized", NoVM)
    /\ UNCHANGED <<objVars, listed, faultVars>>

---------------------------------------------------------------------------
(* CreateMachine.                                                          *)

\* RunInstances launches an instance; the answer may be lost or hold no id,
\* and then the method fails although the instance exists.
RunInstances(w) ==
    /\ At(w, "create", "run")
    /\ \E v \in VM :
          /\ Launch(req[w].machine, v)
          /\ \/ Goto(w, "await", v)
             \/ Return(w, "Internal", NoVM)
    /\ UNCHANGED <<objVars, listed, faultVars>>

\* The new instance is described by id until EC2 shows it.  It must have a
\* private DNS name by then, or the method fails.
AwaitVisible(w) ==
    /\ At(w, "create", "await")
    /\ MaySee(vm[w])
    /\ \/ Return(w, "OK", vm[w])
       \/ Return(w, "Internal", NoVM)
    /\ UNCHANGED <<ec2Vars, objVars, listed, faultVars>>

\* retryWithExponentialBackOff gives up after maxElapsedTimeInBackoff.
AwaitTimesOut(w) ==
    /\ At(w, "create", "await")
    /\ Return(w, "Internal", NoVM)
    /\ UNCHANGED <<ec2Vars, objVars, listed, faultVars>>

---------------------------------------------------------------------------
(* DeleteMachine.                                                          *)

\* Mutant of DeleteMachine: the provider id is not looked at.
DeleteMachine_ByTags(w, r) ==
    /\ Call(w, "delete", "tags", r, {})
    /\ Begun(w, Named(r.machine))

\* With a provider id that one instance is terminated; without, whatever the
\* tags find, which is looked up first.
DeleteMachine(w, r) ==
    IF r.providerID # NoVM
    THEN /\ Call(w, "delete", "terminate", r, {r.providerID})
         /\ Remember(w, Opened({r.providerID}).must)
    ELSE /\ Call(w, "delete", "tags", r, {})
         /\ Begun(w, Named(r.machine))

\* Mutant of DeleteByTags: nothing found is an error.
DeleteByTags_MustFind(w) ==
    /\ At(w, "delete", "tags")
    /\ \E view \in TagViews(req[w].machine, window[w]) :
          IF view = {}
          THEN Return(w, "NotFound", NoVM)
          ELSE /\ pc' = [pc EXCEPT ![w] = "terminate"]
               /\ ids' = [ids EXCEPT ![w] = view]
               /\ Listed(w)
               /\ UNCHANGED <<op, req, vm, code>>
    /\ UNCHANGED <<ec2Vars, objVars, listed, faultVars>>

\* Nothing found is success.
DeleteByTags(w) ==
    /\ At(w, "delete", "tags")
    /\ \E view \in TagViews(req[w].machine, window[w]) :
          IF view = {}
          THEN Return(w, "OK", NoVM)
          ELSE /\ pc' = [pc EXCEPT ![w] = "terminate"]
               /\ ids' = [ids EXCEPT ![w] = view]
               /\ Listed(w)
               /\ UNCHANGED <<op, req, vm, code>>
    /\ UNCHANGED <<ec2Vars, objVars, listed, faultVars>>

\* Mutant of Terminated: the method returns from inside the loop.
Terminated_FirstOnly(w, v) == Return(w, "OK", NoVM)

\* The loop goes on to the next instance, or the method ends.
Terminated(w, v) ==
    IF ids[w] = {v}
    THEN Return(w, "OK", NoVM)
    ELSE /\ ids' = [ids EXCEPT ![w] = @ \ {v}]
         /\ UNCHANGED <<op, pc, req, vm, code, window>>

\* Mutant of TerminateInstance: the request is a dry run.
TerminateInstance_DryRun(w) ==
    /\ At(w, "delete", "terminate")
    /\ \E v \in ids[w] : Terminated(w, v)
    /\ UNCHANGED <<ec2Vars, objVars, listed, faultVars>>

\* terminateInstance: an instance that EC2 does not know counts as
\* terminated; any other error ends the loop (CallFails).
TerminateInstance(w) ==
    /\ At(w, "delete", "terminate")
    /\ \E v \in ids[w] :
          /\ \/ Terminate(v)
             \/ /\ \E err \in Refusals(v) :
                      GetMCMErrorCodeForTerminateInstances(err) = "NotFound"
                /\ UNCHANGED ec2Vars
          /\ Terminated(w, v)
    /\ UNCHANGED <<objVars, listed, faultVars>>

\* EC2 terminates the instance and its answer is lost: an error without a code.
TerminationUnanswered(w) ==
    /\ At(w, "delete", "terminate")
    /\ \E v \in ids[w] : Terminate(v)
    /\ Return(w, GetMCMErrorCodeForTerminateInstances("none"), NoVM)
    /\ UNCHANGED <<objVars, listed, faultVars>>

---------------------------------------------------------------------------
(* MCM's worker of machine m (external): what it calls and what it does    *)
(* with the answers.                                                       *)

\* A machine that is not ready has its status looked up first.
StartStatus(m) ==
    /\ pc[m] = "idle" /\ phase[m] = "creating"
    /\ Call(m, "status", "tags", RequestOf(m), {})
    /\ Begun(m, Named(m))
    /\ UNCHANGED <<ec2Vars, objVars, listed, faultVars>>

StartDelete(m) ==
    /\ pc[m] = "idle" /\ phase[m] = "deleting"
    /\ DeleteMachine(m, RequestOf(m))
    /\ UNCHANGED <<ec2Vars, objVars, listed, faultVars>>

\* The provider id is written once.  The write fails, and is forgotten, when
\* the object was changed since the worker read it.
Adopt(m) ==
    /\ providerID' = IF phase[m] = "creating"
                     THEN [providerID EXCEPT ![m] = vm[m]]
                     ELSE providerID
    /\ Hangup(m)
    /\ UNCHANGED phase

BecomeReady(m) ==
    /\ phase' = IF phase[m] = "creating"
                THEN [phase EXCEPT ![m] = "ready"]
                ELSE phase
    /\ Hangup(m)
    /\ UNCHANGED providerID

\* The worker acts on the answer with the object as it read it: a machine
\* that is being deleted by now still has its instance created.
StatusAnswered(m) ==
    /\ At(m, "status", "done")
    /\ CASE code[m] = "NotFound" /\ req[m].providerID = NoVM ->
               Call(m, "create", "run", req[m], {}) /\ UNCHANGED <<objVars, window>>
         [] code[m] \in {"OK", "Uninitialized"} /\ req[m].providerID = NoVM ->
               Adopt(m)
         [] code[m] = "Uninitialized" /\ req[m].providerID # NoVM ->
               /\ Call(m, "init", "tags", req[m], {}) /\ Begun(m, Named(m))
               /\ UNCHANGED objVars
         [] code[m] = "OK" /\ req[m].providerID # NoVM ->
               BecomeReady(m)
         [] OTHER -> Hangup(m) /\ UNCHANGED objVars
    /\ UNCHANGED <<ec2Vars, listed, faultVars>>

CreateAnswered(m) ==
    /\ At(m, "create", "done")
    /\ IF code[m] = "OK" THEN Adopt(m) ELSE Hangup(m) /\ UNCHANGED objVars
    /\ UNCHANGED <<ec2Vars, listed, faultVars>>

InitAnswered(m) ==
    /\ At(m, "init", "done")
    /\ IF code[m] = "OK" THEN BecomeReady(m) ELSE Hangup(m) /\ UNCHANGED objVars
    /\ UNCHANGED <<ec2Vars, listed, faultVars>>

\* With the instance gone the finalizers are removed, and the object with it.
DeleteAnswered(m) ==
    /\ At(m, "delete", "done")
    /\ phase' = IF code[m] = "OK" THEN [phase EXCEPT ![m] = "gone"] ELSE phase
    /\ Hangup(m)
    /\ UNCHANGED <<ec2Vars, providerID, listed, faultVars>>

\* Someone deletes the object, or its creation took too long.
RequestDeletion(m) ==
    /\ phase[m] \in {"creating", "ready"}
    /\ phase' = [phase EXCEPT ![m] = "deleting"]
    /\ UNCHANGED <<ec2Vars, callVars, providerID, listed, faultVars>>

---------------------------------------------------------------------------
(* The orphan collector (external).                                        *)

StartListing ==
    /\ pc[Collector] = "idle" /\ listed = {}
    /\ Call(Collector, "list", "tags", NoRequest, {})
    /\ Begun(Collector, Launched)
    /\ UNCHANGED <<ec2Vars, objVars, listed, faultVars>>

\* ListMachines answers what its pages have shown.
ListMachines(w) ==
    /\ At(w, "list", "tags")
    /\ listed' \in ListViews(window[w])
    /\ Hangup(w)
    /\ UNCHANGED <<ec2Vars, objVars, faultVars>>

\* An instance is an orphan when no machine object has its name, or one has
\* another provider id and is not just being created.
Orphan(v) ==
    LET m == name[v] IN
        \/ phase[m] = "gone"
        \/ phase[m] # "creating" /\ providerID[m] # v

\* DeleteMachine is called with the name and the provider id that were listed.
CollectorHandles(v) ==
    /\ pc[Collector] = "idle" /\ v \in listed
    /\ listed' = listed \ {v}
    /\ IF Orphan(v)
       THEN DeleteMachine(Collector, [machine |-> name[v], providerID |-> v])
       ELSE UNCHANGED callVars
    /\ UNCHANGED <<ec2Vars, objVars, faultVars>>

CollectorAnswered ==
    /\ pc[Collector] = "done"
    /\ Hangup(Collector)
    /\ UNCHANGED <<ec2Vars, objVars, listed, faultVars>>

---------------------------------------------------------------------------
(* Faults, and EC2 on its own.                                             *)

\* The process ends: every call in it, and the collector's list, is lost.
Crash ==
    /\ faults < MaxFaults
    /\ faults' = faults + 1
    /\ op' = [w \in Worker |-> "none"]
    /\ pc' = [w \in Worker |-> "idle"]
    /\ req' = [w \in Worker |-> NoRequest]
    /\ vm' = [w \in Worker |-> NoVM]
    /\ ids' = [w \in Worker |-> {}]
    /\ code' = [w \in Worker |-> "OK"]
    /\ window' = [w \in Worker |-> NoWindow]
    /\ listed' = {}
    /\ UNCHANGED <<ec2Vars, objVars, late>>

InstanceLost(v) ==
    /\ faults < MaxFaults
    /\ faults' = faults + 1
    /\ Lose(v)
    /\ UNCHANGED <<callVars, objVars, listed, late>>

\* RunInstances is given up while EC2 has yet to carry it out: the client's
\* patience ends, or the process does right after.
RequestOutlivesCall(w) ==
    /\ At(w, "create", "run")
    /\ faults < MaxFaults
    /\ faults' = faults + 1
    /\ late' = late \cup {req[w].machine}
    /\ Return(w, "Internal", NoVM)
    /\ UNCHANGED <<ec2Vars, objVars, listed>>

LateLaunch(m, v) ==
    /\ m \in late
    /\ late' = late \ {m}
    /\ Launch(m, v)
    /\ UNCHANGED <<callVars, objVars, listed, faults>>

InstanceSettles(v) ==
    /\ Settle(v)
    /\ UNCHANGED <<callVars, objVars, listed, faultVars>>

---------------------------------------------------------------------------

\* The steps of a driver method that EC2 answers as asked.
Progress(w) ==
    \/ GetMatchingInstances(w)
    \/ GetInstanceByID(w)
    \/ InitializeMachine(w)
    \/ RunInstances(w)
    \/ AwaitVisible(w)
    \/ DeleteByTags(w)
    \/ TerminateInstance(w)
    \/ ListMachines(w)

\* What MCM's worker does between two driver calls.
WorkerTurn(m) ==
    \/ StartStatus(m)
    \/ StartDelete(m)
    \/ StatusAnswered(m)
    \/ CreateAnswered(m)
    \/ InitAnswered(m)
    \/ DeleteAnswered(m)

Next ==
    \/ \E w \in Worker : Progress(w) \/ CallFails(w) \/ AwaitTimesOut(w)
    \/ \E m \in Machine : WorkerTurn(m) \/ RequestDeletion(m)
    \/ StartListing
    \/ \E v \in VM : CollectorHandles(v)
    \/ CollectorAnswered
    \/ Crash
    \/ \E v \in VM : InstanceLost(v) \/ InstanceSettles(v)
    \/ \E w \in Worker : RequestOutlivesCall(w) \/ TerminationUnanswered(w)
    \/ \E m \in Machine, v \in VM : LateLaunch(m, v)

Spec == Init /\ [][Next]_vars

\* EC2 settles, every call returns and MCM keeps working.  Creation is given
\* up in the end.  Of the requests only those a deletion is made of, and the
\* collector's listing, must be answered well when they are made again and
\* again, as MCM's retries do.
Fairness ==
    /\ \A v \in VM : WF_vars(InstanceSettles(v))
    /\ \A w \in Worker :
          /\ WF_vars(Progress(w) \/ CallFails(w) \/ AwaitTimesOut(w))
          /\ SF_vars(TerminateInstance(w))
    /\ \A m \in Machine :
          /\ SF_vars(DeleteByTags(m))
          /\ WF_vars(WorkerTurn(m))
          /\ WF_vars(phase[m] = "creating" /\ RequestDeletion(m))
    /\ WF_vars(StartListing) /\ WF_vars(CollectorAnswered)
    /\ SF_vars(ListMachines(Collector))
    /\ \A v \in VM : WF_vars(CollectorHandles(v))

FairSpec == Spec /\ Fairness

---------------------------------------------------------------------------
(* Safety.                                                                 *)

\* Instance v is, or may still become, the one that backs its machine.
InUse(v) ==
    /\ name[v] \in Machine
    /\ \/ phase[name[v]] = "creating"
       \/ phase[name[v]] = "ready" /\ providerID[name[v]] = v

\* No interleaving of deletions by provider id, deletions by tags, the
\* collector and crashed calls ever terminates an instance that backs a
\* machine nobody asked to delete, or that a machine in creation may adopt.
InUseNeverTerminated == \A v \in VM : life[v] = "terminated" => ~InUse(v)

\* The provider id a machine was given, by CreateMachine or by
\* GetMachineStatus, names an instance that carries the machine's own tag,
\* whatever crashed, was retried or answered late in between.
ProviderIDIsOwn ==
    \A m \in Machine :
        providerID[m] # NoVM => providerID[m] \in Named(m) \cap Launched

\* Its machine has no use for instance v, and never will again.
Abandoned(v) ==
    /\ name[v] \in Machine
    /\ \/ phase[name[v]] \in {"deleting", "gone"}
       \/ phase[name[v]] = "ready" /\ providerID[name[v]] # v

\* The call of machine m's worker is about m as it is and about m's instances.
CallIsOwn(m) ==
    /\ op[m] # "list"
    /\ op[m] # "none" => req[m] = RequestOf(m)
    /\ vm[m] # NoVM => vm[m] \in Named(m)
    /\ ids[m] \subseteq Named(m)
    /\ op[m] = "delete" => phase[m] = "deleting"
    /\ op[m] \in {"status", "create", "init"} => phase[m] \in {"creating", "deleting"}
    /\ op[m] = "create" => providerID[m] = NoVM
    /\ op[m] = "init" => providerID[m] # NoVM

\* The collector lists and deletes by provider id, and what it deletes stays
\* abandoned between its check and the request.
CollectorDeletesAbandoned ==
    /\ op[Collector] \in {"none", "list", "delete"}
    /\ op[Collector] = "delete" => pc[Collector] \in {"terminate", "done"}
    /\ \A v \in ids[Collector] : Abandoned(v)

\* The inductive invariant behind InUseNeverTerminated and ProviderIDIsOwn: no
\* call in progress is about an instance it must not touch, however long ago
\* it began.
Inv ==
    /\ TypeOK
    /\ \A v \in VM : life[v] = "free" <=> name[v] = NoMachine
    /\ listed \subseteq Launched
    /\ \A m \in Machine : CallIsOwn(m)
    /\ CollectorDeletesAbandoned
    /\ ProviderIDIsOwn
    /\ InUseNeverTerminated

\* DeleteMachine answers success only when every instance that it was asked
\* to remove, and that all of EC2 knew when the call began, is gone: no loop
\* ends early, no failed termination is passed over.
DeleteIsComplete ==
    \A w \in Worker :
        At(w, "delete", "done") /\ code[w] = "OK" =>
            \A v \in window[w].must : life[v] # "live"

\* CreateMachine is called only for a machine that had no instance when its
\* status was looked up, or none that all of EC2 knew: duplicates come from
\* eventual consistency and from nothing else.
NoNeedlessDuplicate ==
    \A m \in Machine :
        At(m, "create", "run") => \A v \in window[m].must : life[v] # "live"

\* GetMachineStatus never names one instance for a machine that has two which
\* all of EC2 knows: MCM must not adopt one of them by chance.
AmbiguousNotAdopted ==
    \A m \in Machine :
        At(m, "status", "done") /\ code[m] \in {"OK", "Uninitialized"} =>
            \A u, v \in window[m].must : life[u] = "live" /\ life[v] = "live" => u = v

\* What all of EC2 knew when w's call began it has not unlearned.
StillKnown(w) ==
    \A v \in window[w].must : life[v] # "free" /\ (life[v] = "live" => settled[v])

\* None of it is left.
NoneLeft(w) == \A v \in window[w].must : life[v] # "live"

\* All of it that is left is one instance.
OneLeft(w) ==
    \A u, v \in window[w].must : life[u] = "live" /\ life[v] = "live" => u = v

\* What w's call has found out by the request it is at.
HasFoundOut(w) ==
    /\ op[w] = "status" => pc[w] \in {"tags", "byID", "done"}
    /\ op[w] \in {"status", "delete"} /\ pc[w] = "tags" =>
          window[w].must \subseteq Named(req[w].machine)
    /\ At(w, "delete", "terminate") =>
          \A v \in window[w].must : life[v] = "live" => v \in ids[w]
    /\ \/ At(w, "status", "byID")
       \/ At(w, "status", "done") /\ code[w] = "NotFound"
       \/ At(w, "create", "run")
       \/ At(w, "delete", "done") /\ code[w] = "OK"
       => NoneLeft(w)
    /\ At(w, "status", "done") /\ code[w] \in {"OK", "Uninitialized"} => OneLeft(w)

\* The inductive invariant behind the three properties above: what a call was
\* sure of when it began stays so, whatever other calls, EC2 and late launches
\* do meanwhile, and each request narrows down what is left of it.
HistoryInv == \A w \in Worker : StillKnown(w) /\ HasFoundOut(w)

\* All that v lacks is what InitializeMachine would not set if it saw it: checks
\* of other interfaces once the instance's own is off (core.go:355).
LacksOnlyHidden(v) == lacks[v] \cap ToSet(lacks[v]) = {}

\* An OK is true of the instance it names, however many there are, whatever old
\* description it went by and wherever an earlier attempt stopped: with
\* GetMachineStatus nothing lacks, with InitializeMachine nothing but checks
\* behind its gate (core.go:355, 363-386, 528-567).
AnswerIsTrue ==
    \A m \in Machine :
        LET v == vm[m] IN
            /\ At(m, "status", "done") /\ code[m] = "OK" /\ life[v] = "live" =>
                  lacks[v] = {}
            /\ At(m, "init", "done") /\ code[m] = "OK" /\ life[v] = "live" =>
                  LacksOnlyHidden(v)

\* A machine that has become ready runs with what its class wants to be set, but
\* for the checks that InitializeMachine hides from itself, as long as it never
\* had a second instance: the answer by which MCM took it for ready, of either
\* method, was about the instance it has.
ReadyIsSetUp ==
    \A m \in Machine :
        LET v == providerID[m] IN
            phase[m] = "ready" /\ Named(m) = {v} /\ life[v] = "live" =>
                LacksOnlyHidden(v)

\* Every step of the calls, the callers and EC2 is one that MachineBacking
\* allows, or invisible to it.
Backing == INSTANCE MachineBacking WITH
    owned <- [m \in Machine |-> Named(m)],
    live <- {v \in VM : life[v] = "live"},
    removed <- {v \in VM : life[v] = "terminated"}

ImplementsBacking == Backing!Spec

---------------------------------------------------------------------------
(* Liveness.                                                               *)

\* An instance whose CreateMachine timed out, crashed or lost its answer,
\* a duplicate of one, and one whose termination EC2 answered with NotFound,
\* do not stay: every instance that is not in use by a machine is terminated,
\* or comes to be used (core.go:308, core_util.go:304-306).
OrphansCollected ==
    \A v \in VM :
        life[v] = "live" ~>
            life[v] # "live" \/ (phase[name[v]] = "ready" /\ InUse(v))

\* A deletion that was asked for ends, however often it fails or is lost.
DeletionEnds == \A m \in Machine : phase[m] = "deleting" ~> phase[m] = "gone"
==========================================================================
