----------------------- MODULE MachineDriver_proofs -----------------------
(***************************************************************************)
(* What holds of MachineDriver for any machines, instances and faults.     *)
(***************************************************************************)
EXTENDS MachineDriver, TLAPS

---------------------------------------------------------------------------
(* Type correctness.                                                       *)

\* The state of the calls, the part of TypeOK that every step writes.
CallsTypeOK ==
    /\ op \in [Worker -> Op]
    /\ pc \in [Worker -> Step]
    /\ req \in [Worker -> Request]
    /\ vm \in [Worker -> VM \cup {NoVM}]
    /\ ids \in [Worker -> SUBSET VM]
    /\ code \in [Worker -> Code]
    /\ window \in [Worker -> Windows]

\* The four ways in which a call's state changes keep its type.
LEMMA CallType ==
    ASSUME CallsTypeOK, NEW w \in Worker, NEW o \in Op, NEW s \in Step,
           NEW r \in Request, NEW S \in SUBSET VM, Call(w, o, s, r, S),
           window' \in [Worker -> Windows]
    PROVE  CallsTypeOK'
BY DEF CallsTypeOK, Call

\* Windows are typed whatever the call is about, and when they end.
LEMMA WindowType ==
    ASSUME CallsTypeOK, NEW w \in Worker,
           Listed(w) \/ \E S \in SUBSET VM : Remember(w, S) \/ Begun(w, S)
    PROVE  window' \in [Worker -> Windows]
<1>1. \A S \in SUBSET VM : Opened(S) \in Windows /\ Curtailed(Opened(S)) \in Windows
  BY DEF Opened, Curtailed, Windows
<1>2. \A S \in SUBSET VM : [NoWindow EXCEPT !.must = IF Remembers THEN S ELSE {}] \in Windows
  BY DEF NoWindow, Windows
<1>3. window[w].must \in SUBSET VM
  BY DEF CallsTypeOK, Windows
<1> QED
  BY <1>1, <1>2, <1>3 DEF CallsTypeOK, Listed, Remember, Begun

\* The listings answer instances of those they are about.
LEMMA TagViewsAre ==
    ASSUME NEW m, NEW x
    PROVE  TagViews(m, x) \subseteq SUBSET Named(m)
BY DEF TagViews, Listings

LEMMA GotoType ==
    ASSUME CallsTypeOK, NEW w \in Worker, NEW s \in Step,
           NEW v \in VM \cup {NoVM}, Goto(w, s, v)
    PROVE  CallsTypeOK'
BY WindowType DEF CallsTypeOK, Goto

LEMMA ReturnType ==
    ASSUME CallsTypeOK, NEW w \in Worker, NEW c \in Code,
           NEW v \in VM \cup {NoVM}, Return(w, c, v)
    PROVE  CallsTypeOK'
BY WindowType DEF CallsTypeOK, Return, Step

LEMMA HangupType ==
    ASSUME CallsTypeOK, NEW w \in Worker, Hangup(w)
    PROVE  CallsTypeOK'
<1>1. window' \in [Worker -> Windows]
  BY DEF CallsTypeOK, Hangup, Windows, NoWindow
<1> QED
  BY <1>1 DEF CallsTypeOK, Hangup, Op, Step, Request, NoRequest, Code

\* EC2's steps keep its type.
LEMMA EC2Type ==
    ASSUME EC2TypeOK, NEW v \in VM, NEW m \in Machine \cup {NoMachine},
           \/ Launch(m, v) \/ Terminate(v) \/ \E S : Configure(v, S)
           \/ Settle(v) \/ Lose(v) \/ UNCHANGED ec2Vars
    PROVE  EC2TypeOK'
BY DEF EC2TypeOK, LifeState, Launch, Terminate, Configure, Settle, Lose, ec2Vars

\* TypeOK, with the state of EC2, of the calls and of the objects apart.
ObjectsTypeOK ==
    /\ phase \in [Machine -> {"creating", "ready", "deleting", "gone"}]
    /\ providerID \in [Machine -> VM \cup {NoVM}]
    /\ listed \in SUBSET VM
    /\ faults \in 0..MaxFaults
    /\ late \in SUBSET (Machine \cup {NoMachine})

LEMMA TypeParts == TypeOK <=> EC2TypeOK /\ CallsTypeOK /\ ObjectsTypeOK
BY DEF TypeOK, CallsTypeOK, ObjectsTypeOK

\* GetMachineStatus and InitializeMachine answer, or go on, within the types.
LEMMA MatchedType ==
    ASSUME CallsTypeOK, NEW w \in Worker, NEW found \in SUBSET (VM \cup {NoVM}),
           Matched(w, found)
    PROVE  CallsTypeOK'
<1>1. CASE StatusOf(w, found)
  <2>1. CASE Return(w, "OutOfRange", NoVM)
    BY <2>1, ReturnType DEF Code
  <2>2. ASSUME NEW v \in found,
               Return(w, "OK", v) \/ Return(w, "Uninitialized", v)
        PROVE  CallsTypeOK'
    BY <2>2, ReturnType DEF Code
  <2> QED
    BY <1>1, <2>1, <2>2 DEF StatusOf
<1>2. CASE InitializeOne(w, found)
  BY <1>2, ReturnType, GotoType DEF InitializeOne, Code, Step
<1> QED
  BY <1>1, <1>2 DEF Matched

LEMMA NotMatchedType ==
    ASSUME CallsTypeOK, NEW w \in Worker, NotMatched(w)
    PROVE  CallsTypeOK'
<1> DEFINE c == IF op[w] = "init" THEN "Uninitialized" ELSE "NotFound"
<1>1. c \in Code
  BY DEF Code
<1> QED
  BY <1>1, ReturnType DEF NotMatched

LEMMA DeleteMachineType ==
    ASSUME CallsTypeOK, NEW w \in Worker, NEW r \in Request, DeleteMachine(w, r)
    PROVE  CallsTypeOK'
<1>1. window' \in [Worker -> Windows]
  <2>1. r.providerID # NoVM => Opened({r.providerID}).must \in SUBSET VM
    BY DEF Opened, Request
  <2>2. Named(r.machine) \in SUBSET VM
    BY DEF Named
  <2>3. \E S \in SUBSET VM : Remember(w, S) \/ Begun(w, S)
    BY <2>1, <2>2 DEF DeleteMachine
  <2> QED
    BY <2>3, WindowType
<1>2. CASE r.providerID # NoVM
  <2>1. {r.providerID} \in SUBSET VM
    BY <1>2 DEF Request
  <2>2. Call(w, "delete", "terminate", r, {r.providerID})
    BY <1>2 DEF DeleteMachine
  <2> QED
    BY <1>1, <2>1, <2>2, CallType DEF Op, Step
<1>3. CASE r.providerID = NoVM
  <2>1. Call(w, "delete", "tags", r, {})
    BY <1>3 DEF DeleteMachine
  <2> QED
    BY <1>1, <2>1, CallType DEF Op, Step
<1> QED
  BY <1>2, <1>3

\* A termination in w's call, whatever becomes of its answer: the instance is
\* one the call was to terminate, and the call goes on with fewer or returns.
LEMMA TerminationIs ==
    ASSUME NEW w, TerminateInstance(w) \/ TerminationUnanswered(w)
    PROVE  /\ \E v \in ids[w] :
                 /\ Terminate(v) \/ UNCHANGED ec2Vars
                 /\ Terminated(w, v) \/ Return(w, "Internal", NoVM)
           /\ op[w] = "delete" /\ pc[w] = "terminate"
           /\ UNCHANGED <<objVars, listed, faultVars>>
<1>1. CASE TerminateInstance(w)
  BY <1>1 DEF TerminateInstance, At
<1>2. CASE TerminationUnanswered(w)
  <2>1. Return(w, "Internal", NoVM)
    BY <1>2 DEF TerminationUnanswered, GetMCMErrorCodeForTerminateInstances,
                InstanceIDNotFound
  <2> QED
    BY <1>2, <2>1 DEF TerminationUnanswered, At
<1> QED
  BY <1>1, <1>2

\* A call that fails does so with one of MCM's codes.
LEMMA FailuresAreCodes == ASSUME NEW w PROVE Failures(w) \subseteq Code
BY DEF Failures, Code, GetMCMErrorCodeForCreateMachine,
       GetMCMErrorCodeForTerminateInstances

\* Every step keeps the types.
LEMMA TypeStep == TypeOK /\ [Next]_vars => TypeOK'
<1> SUFFICES ASSUME TypeOK, [Next]_vars
             PROVE  EC2TypeOK' /\ CallsTypeOK' /\ ObjectsTypeOK'
  BY TypeParts DEF TypeOK, EC2TypeOK, CallsTypeOK, ObjectsTypeOK
<1>0. EC2TypeOK /\ CallsTypeOK /\ ObjectsTypeOK
  BY TypeParts
<1>0a. UNCHANGED <<objVars, listed, faultVars>> => ObjectsTypeOK'
  BY <1>0 DEF ObjectsTypeOK, objVars, faultVars
<1>0b. UNCHANGED callVars => CallsTypeOK'
  BY <1>0 DEF CallsTypeOK, callVars
<1>0c. UNCHANGED ec2Vars => EC2TypeOK'
  BY <1>0 DEF EC2TypeOK, ec2Vars
<1>1. ASSUME NEW w \in Worker, GetMatchingInstances(w)
      PROVE  EC2TypeOK' /\ CallsTypeOK' /\ ObjectsTypeOK'
  <2>1. PICK view \in TagViews(req[w].machine, window[w]) :
          \/ view # {} /\ Matched(w, view)
          \/ /\ view = {}
             /\ IF req[w].providerID = NoVM
                THEN NotMatched(w)
                ELSE Goto(w, "byID", req[w].providerID)
    BY <1>1 DEF GetMatchingInstances
  <2>2. view \in SUBSET VM
    BY TagViewsAre DEF Named
  <2>3. req[w].providerID \in VM \cup {NoVM}
    BY <1>0 DEF CallsTypeOK, Request
  <2>4. CallsTypeOK'
    BY <1>0, <2>1, <2>2, <2>3, MatchedType, NotMatchedType, GotoType DEF Step
  <2> QED
    BY <1>1, <1>0a, <1>0c, <2>4 DEF GetMatchingInstances
<1>2. ASSUME NEW w \in Worker, GetInstanceByID(w)
      PROVE  EC2TypeOK' /\ CallsTypeOK' /\ ObjectsTypeOK'
  <2>1. {vm[w]} \in SUBSET (VM \cup {NoVM})
    BY <1>0 DEF CallsTypeOK
  <2>2. CallsTypeOK'
    BY <1>0, <1>2, <2>1, MatchedType, NotMatchedType DEF GetInstanceByID
  <2> QED
    BY <1>2, <1>0a, <1>0c, <2>2 DEF GetInstanceByID
<1>3. ASSUME NEW w \in Worker, InitializeMachine(w)
      PROVE  EC2TypeOK' /\ CallsTypeOK' /\ ObjectsTypeOK'
  <2>1. PICK done : /\ Configure(vm[w], done)
                    /\ Return(w, "OK", vm[w]) \/ Return(w, "Uninitialized", NoVM)
    BY <1>3 DEF InitializeMachine
  <2>2. CallsTypeOK'
    BY <1>0, <2>1, ReturnType DEF CallsTypeOK, Code
  <2>3. EC2TypeOK'
    BY <1>0, <2>1 DEF Configure, EC2TypeOK
  <2> QED
    BY <1>3, <1>0a, <2>2, <2>3 DEF InitializeMachine
<1>4. ASSUME NEW w \in Worker, RunInstances(w)
      PROVE  EC2TypeOK' /\ CallsTypeOK' /\ ObjectsTypeOK'
  <2>1. PICK v \in VM : /\ Launch(req[w].machine, v)
                        /\ Goto(w, "await", v) \/ Return(w, "Internal", NoVM)
    BY <1>4 DEF RunInstances
  <2>2. req[w].machine \in Machine \cup {NoMachine}
    BY <1>0 DEF CallsTypeOK, Request
  <2>3. EC2TypeOK'
    BY <1>0, <2>1, <2>2, EC2Type
  <2>4. CallsTypeOK'
    BY <1>0, <2>1, GotoType, ReturnType DEF Step, Code
  <2> QED
    BY <1>4, <1>0a, <2>3, <2>4 DEF RunInstances
<1>5. ASSUME NEW w \in Worker, AwaitVisible(w) \/ AwaitTimesOut(w)
      PROVE  EC2TypeOK' /\ CallsTypeOK' /\ ObjectsTypeOK'
  <2>1. vm[w] \in VM \cup {NoVM}
    BY <1>0 DEF CallsTypeOK
  <2>2. CallsTypeOK'
    BY <1>0, <1>5, <2>1, ReturnType DEF AwaitVisible, AwaitTimesOut, Code
  <2> QED
    BY <1>5, <1>0a, <1>0c, <2>2 DEF AwaitVisible, AwaitTimesOut
<1>6. ASSUME NEW w \in Worker, DeleteByTags(w)
      PROVE  EC2TypeOK' /\ CallsTypeOK' /\ ObjectsTypeOK'
  <2>1. PICK view \in TagViews(req[w].machine, window[w]) :
          \/ Return(w, "OK", NoVM)
          \/ /\ pc' = [pc EXCEPT ![w] = "terminate"]
             /\ ids' = [ids EXCEPT ![w] = view]
             /\ Listed(w)
             /\ UNCHANGED <<op, req, vm, code>>
    BY <1>6 DEF DeleteByTags
  <2>2. view \in SUBSET VM
    BY TagViewsAre DEF Named
  <2>3. CallsTypeOK'
    BY <1>0, <2>1, <2>2, ReturnType, WindowType DEF CallsTypeOK, Code, Step
  <2> QED
    BY <1>6, <1>0a, <1>0c, <2>3 DEF DeleteByTags
<1>7. ASSUME NEW w \in Worker, TerminateInstance(w) \/ TerminationUnanswered(w)
      PROVE  EC2TypeOK' /\ CallsTypeOK' /\ ObjectsTypeOK'
  <2>1. PICK v \in ids[w] : /\ Terminate(v) \/ UNCHANGED ec2Vars
                            /\ Terminated(w, v) \/ Return(w, "Internal", NoVM)
    BY <1>7, TerminationIs
  <2>2. v \in VM
    BY <1>0 DEF CallsTypeOK
  <2>3. EC2TypeOK'
    BY <1>0, <1>0c, <2>1, <2>2, EC2Type
  <2>4. ASSUME Return(w, "OK", NoVM) \/ Return(w, "Internal", NoVM)
        PROVE  CallsTypeOK'
    BY <1>0, <2>4, ReturnType DEF Code
  <2>5. ASSUME ids' = [ids EXCEPT ![w] = @ \ {v}],
               UNCHANGED <<op, pc, req, vm, code, window>>
        PROVE  CallsTypeOK'
    BY <1>0, <2>5 DEF CallsTypeOK
  <2> QED
    BY <1>7, TerminationIs, <1>0a, <2>1, <2>3, <2>4, <2>5 DEF Terminated
<1>8. ASSUME NEW w \in Worker, CallFails(w)
      PROVE  EC2TypeOK' /\ CallsTypeOK' /\ ObjectsTypeOK'
  <2>1. PICK c \in Code : Return(w, c, NoVM)
    BY <1>8, FailuresAreCodes DEF CallFails
  <2>2. CallsTypeOK'
    BY <1>0, <2>1, ReturnType
  <2> QED
    BY <1>8, <1>0a, <1>0c, <2>2 DEF CallFails
<1>9. ASSUME NEW m \in Machine, WorkerTurn(m)
      PROVE  EC2TypeOK' /\ CallsTypeOK' /\ ObjectsTypeOK'
  <2>0. m \in Worker /\ RequestOf(m) \in Request /\ req[m] \in Request
        /\ vm[m] \in VM \cup {NoVM}
    BY <1>0 DEF Worker, RequestOf, Request, ObjectsTypeOK, CallsTypeOK
  <2>1. CASE StartStatus(m)
    <3>1. window' \in [Worker -> Windows]
      BY <1>0, <2>0, <2>1, WindowType DEF StartStatus, Named
    <3>2. CallsTypeOK'
      BY <1>0, <2>0, <2>1, <3>1, CallType DEF StartStatus, Op, Step
    <3> QED
      BY <2>1, <1>0a, <1>0c, <3>2 DEF StartStatus
  <2>2. CASE StartDelete(m)
    BY <1>0, <2>0, <2>2, <1>0a, <1>0c, DeleteMachineType DEF StartDelete
  <2>3. CASE Hangup(m) /\ UNCHANGED <<ec2Vars, objVars, listed, faultVars>>
    BY <1>0, <2>0, <2>3, <1>0a, <1>0c, HangupType
  <2>4. CASE Adopt(m) /\ UNCHANGED <<ec2Vars, listed, faultVars>>
    <3>1. ObjectsTypeOK'
      BY <1>0, <2>0, <2>4 DEF Adopt, ObjectsTypeOK, faultVars
    <3> QED
      BY <1>0, <2>0, <2>4, <1>0c, <3>1, HangupType DEF Adopt
  <2>5. CASE BecomeReady(m) /\ UNCHANGED <<ec2Vars, listed, faultVars>>
    <3>1. ObjectsTypeOK'
      BY <1>0, <2>5 DEF BecomeReady, ObjectsTypeOK, faultVars
    <3> QED
      BY <1>0, <2>0, <2>5, <1>0c, <3>1, HangupType DEF BecomeReady
  <2>6. ASSUME NEW o \in {"create", "init"}, NEW s \in {"run", "tags"},
               Call(m, o, s, req[m], {}),
               UNCHANGED window \/ Begun(m, Named(m)),
               UNCHANGED <<ec2Vars, objVars, listed, faultVars>>
        PROVE  EC2TypeOK' /\ CallsTypeOK' /\ ObjectsTypeOK'
    <3>1. window' \in [Worker -> Windows] /\ o \in Op /\ s \in Step
      BY <1>0, <2>0, <2>6, WindowType DEF CallsTypeOK, Op, Step, Named
    <3>2. CallsTypeOK'
      BY <1>0, <2>0, <2>6, <3>1, CallType
    <3> QED
      BY <2>6, <1>0a, <1>0c, <3>2
  <2>7. CASE StatusAnswered(m)
    BY <2>7, <2>3, <2>4, <2>5, <2>6 DEF StatusAnswered
  <2>8. CASE CreateAnswered(m)
    BY <2>8, <2>3, <2>4 DEF CreateAnswered
  <2>9. CASE InitAnswered(m)
    BY <2>9, <2>3, <2>5 DEF InitAnswered
  <2>10. CASE DeleteAnswered(m)
    <3>1. ObjectsTypeOK'
      BY <1>0, <2>10 DEF DeleteAnswered, ObjectsTypeOK, faultVars
    <3> QED
      BY <1>0, <2>0, <2>10, <1>0c, <3>1, HangupType DEF DeleteAnswered
  <2> QED
    BY <1>9, <2>1, <2>2, <2>7, <2>8, <2>9, <2>10 DEF WorkerTurn
<1>10. ASSUME NEW m \in Machine, RequestDeletion(m)
       PROVE  EC2TypeOK' /\ CallsTypeOK' /\ ObjectsTypeOK'
  BY <1>0, <1>10, <1>0b, <1>0c DEF RequestDeletion, ObjectsTypeOK, faultVars
<1>11. ASSUME NEW w \in Worker, ListMachines(w)
       PROVE  EC2TypeOK' /\ CallsTypeOK' /\ ObjectsTypeOK'
  <2>1. listed' \in SUBSET VM
    BY <1>11 DEF ListMachines, ListViews, Listings, Launched
  <2>2. CallsTypeOK'
    BY <1>0, <1>11, HangupType DEF ListMachines
  <2> QED
    BY <1>0, <1>11, <1>0c, <2>1, <2>2 DEF ListMachines, ObjectsTypeOK, objVars, faultVars
<1>11a. CASE StartListing
  <2>1. Collector \in Worker /\ NoRequest \in Request /\ Launched \in SUBSET VM
    BY DEF Worker, Request, NoRequest, Launched
  <2>2. window' \in [Worker -> Windows]
    BY <1>0, <1>11a, <2>1, WindowType DEF StartListing
  <2>3. CallsTypeOK'
    BY <1>0, <1>11a, <2>1, <2>2, CallType DEF StartListing, Op, Step
  <2> QED
    BY <1>11a, <1>0a, <1>0c, <2>3 DEF StartListing
<1>12. ASSUME NEW v \in VM, CollectorHandles(v)
       PROVE  EC2TypeOK' /\ CallsTypeOK' /\ ObjectsTypeOK'
  <2> DEFINE r == [machine |-> name[v], providerID |-> v]
  <2>1. r \in Request /\ Collector \in Worker
    BY <1>0 DEF Request, EC2TypeOK, Worker
  <2>2. ObjectsTypeOK'
    BY <1>0, <1>12 DEF CollectorHandles, ObjectsTypeOK, objVars, faultVars
  <2>3. CASE DeleteMachine(Collector, r)
    BY <1>0, <1>12, <1>0c, <2>1, <2>2, <2>3, DeleteMachineType DEF CollectorHandles
  <2> QED
    BY <1>12, <1>0b, <1>0c, <2>2, <2>3 DEF CollectorHandles
<1>13. CASE CollectorAnswered
  BY <1>0, <1>13, <1>0a, <1>0c, HangupType DEF CollectorAnswered, Worker
<1>14. CASE Crash
  <2>0. window' \in [Worker -> Windows]
    BY <1>14 DEF Crash, Windows, NoWindow
  <2>1. CallsTypeOK'
    BY <1>14, <2>0 DEF Crash, CallsTypeOK, Op, Step, Request, NoRequest, Code
  <2>2. ObjectsTypeOK'
    BY <1>0, <1>14, FaultsAssumption DEF Crash, ObjectsTypeOK, objVars
  <2> QED
    BY <1>14, <1>0c, <2>1, <2>2 DEF Crash
<1>15. ASSUME NEW v \in VM, InstanceLost(v)
       PROVE  EC2TypeOK' /\ CallsTypeOK' /\ ObjectsTypeOK'
  <2>1. EC2TypeOK'
    BY <1>0, <1>15 DEF InstanceLost, Lose, EC2TypeOK, LifeState
  <2>2. ObjectsTypeOK'
    BY <1>0, <1>15, FaultsAssumption DEF InstanceLost, ObjectsTypeOK, objVars
  <2> QED
    BY <1>15, <1>0b, <2>1, <2>2 DEF InstanceLost
<1>15a. ASSUME NEW w \in Worker, RequestOutlivesCall(w)
        PROVE  EC2TypeOK' /\ CallsTypeOK' /\ ObjectsTypeOK'
  <2>1. CallsTypeOK'
    BY <1>0, <1>15a, ReturnType DEF RequestOutlivesCall, Code
  <2>2. ObjectsTypeOK'
    BY <1>0, <1>15a, FaultsAssumption
       DEF RequestOutlivesCall, ObjectsTypeOK, CallsTypeOK, Request, objVars
  <2> QED
    BY <1>15a, <1>0c, <2>1, <2>2 DEF RequestOutlivesCall
<1>15b. ASSUME NEW m \in Machine, NEW v \in VM, LateLaunch(m, v)
        PROVE  EC2TypeOK' /\ CallsTypeOK' /\ ObjectsTypeOK'
  <2>1. EC2TypeOK'
    BY <1>0, <1>15b, EC2Type DEF LateLaunch
  <2>2. ObjectsTypeOK'
    BY <1>0, <1>15b DEF LateLaunch, ObjectsTypeOK, objVars
  <2> QED
    BY <1>15b, <1>0b, <2>1, <2>2 DEF LateLaunch
<1>16. ASSUME NEW v \in VM, InstanceSettles(v)
       PROVE  EC2TypeOK' /\ CallsTypeOK' /\ ObjectsTypeOK'
  <2>1. EC2TypeOK'
    BY <1>0, <1>16 DEF InstanceSettles, Settle, EC2TypeOK
  <2> QED
    BY <1>16, <1>0a, <1>0b, <2>1 DEF InstanceSettles
<1>17. CASE UNCHANGED vars
  BY <1>17, <1>0a, <1>0b, <1>0c DEF vars
<1> QED
  BY <1>1, <1>2, <1>3, <1>4, <1>5, <1>6, <1>7, <1>8, <1>9, <1>10, <1>11, <1>11a,
     <1>12, <1>13, <1>14, <1>15, <1>15a, <1>15b, <1>16, <1>17 DEF Next, Progress

\* Init satisfies the types.
LEMMA TypeInit == Init => TypeOK
<1>1. Init => window \in [Worker -> Windows]
  BY DEF Init, Windows, NoWindow
<1> QED
  BY <1>1, FaultsAssumption DEF Init, TypeOK, EC2Init, EC2TypeOK, LifeState, Op, Step,
     Request, NoRequest, Code

\* Every variable has its type in every reachable state: in particular every
\* answer of a method carries one of MCM's status codes, and never the code
\* EC2 gave.
THEOREM TypeCorrect == Spec => []TypeOK
BY TypeInit, TypeStep, PTL DEF Spec

---------------------------------------------------------------------------
(* The inductive invariant.                                                *)

\* A step of worker w leaves the calls of the others alone.
OthersKeep(w) ==
    \A n \in Worker \ {w} :
        /\ op'[n] = op[n] /\ pc'[n] = pc[n] /\ req'[n] = req[n]
        /\ vm'[n] = vm[n] /\ ids'[n] = ids[n] /\ code'[n] = code[n]

LEMMA CallKeepsOthers ==
    ASSUME CallsTypeOK, NEW w \in Worker,
           \/ \E o, s, r, S : Call(w, o, s, r, S)
           \/ \E s, v : Goto(w, s, v)
           \/ \E c, v : Return(w, c, v)
           \/ Hangup(w)
    PROVE  OthersKeep(w)
<1>1. ASSUME NEW o, NEW s, NEW r, NEW S, Call(w, o, s, r, S) PROVE OthersKeep(w)
  BY <1>1 DEF CallsTypeOK, OthersKeep, Call
<1>2. ASSUME NEW s, NEW v, Goto(w, s, v) PROVE OthersKeep(w)
  BY <1>2 DEF CallsTypeOK, OthersKeep, Goto
<1>3. ASSUME NEW c, NEW v, Return(w, c, v) PROVE OthersKeep(w)
  BY <1>3 DEF CallsTypeOK, OthersKeep, Return
<1>4. ASSUME Hangup(w) PROVE OthersKeep(w)
  BY <1>4 DEF CallsTypeOK, OthersKeep, Hangup
<1> QED
  BY <1>1, <1>2, <1>3, <1>4

\* A step of w's call that changes no instance's state or tag and no object
\* keeps Inv if w's own call is in order afterwards.
LEMMA CallStepInv ==
    ASSUME Inv, TypeOK', UNCHANGED <<life, name, phase, providerID>>,
           listed' \subseteq Launched, NEW w \in Worker, OthersKeep(w),
           w \in Machine => CallIsOwn(w)',
           w = Collector => CollectorDeletesAbandoned'
    PROVE  Inv'
<1>1. ASSUME NEW m \in Machine PROVE CallIsOwn(m)'
  <2>1. CASE m = w
    BY <2>1
  <2>2. CASE m # w
    <3>1. CallIsOwn(m) /\ m \in Worker \ {w}
      BY <2>2 DEF Inv, Worker
    <3> QED
      BY <3>1 DEF OthersKeep, CallIsOwn, RequestOf, Named
  <2> QED
    BY <2>1, <2>2
<1>2. CollectorDeletesAbandoned'
  <2>1. CASE Collector # w
    <3>1. CollectorDeletesAbandoned /\ Collector \in Worker \ {w}
      BY <2>1 DEF Inv, Worker
    <3> QED
      BY <3>1 DEF OthersKeep, CollectorDeletesAbandoned, Abandoned
  <2> QED
    BY <2>1
<1>3. ProviderIDIsOwn' /\ InUseNeverTerminated'
  BY DEF Inv, ProviderIDIsOwn, InUseNeverTerminated, InUse, Named, Launched
<1> QED
  BY <1>1, <1>2, <1>3 DEF Inv, Launched

\* A call that goes on or returns with one of its machine's instances in hand
\* is still in order.
LEMMA MovesOn ==
    ASSUME Inv, NEW m \in Machine, NEW v \in VM \cup {NoVM},
           v # NoVM => v \in Named(m),
           UNCHANGED <<name, phase, providerID>>,
           \/ \E s : Goto(m, s, v)
           \/ \E c : Return(m, c, v)
    PROVE  CallIsOwn(m)'
<1>0. m \in Worker /\ CallsTypeOK /\ CallIsOwn(m)
  BY TypeParts DEF Worker, Inv
<1>1. vm'[m] = v /\ op'[m] = op[m] /\ req'[m] = req[m] /\ ids'[m] \subseteq ids[m]
  BY <1>0 DEF Goto, Return, CallsTypeOK
<1> QED
  BY <1>0, <1>1 DEF CallIsOwn, RequestOf, Named

\* So is one that was hung up.
LEMMA HungUp ==
    ASSUME Inv, NEW m \in Machine, Hangup(m)
    PROVE  CallIsOwn(m)'
<1>0. m \in Worker /\ CallsTypeOK
  BY TypeParts DEF Worker, Inv
<1>1. op'[m] = "none" /\ vm'[m] = NoVM /\ ids'[m] = {}
  BY <1>0 DEF Hangup, CallsTypeOK
<1> QED
  BY <1>1 DEF CallIsOwn

\* What the tags find for the request of a machine's worker is the machine's.
LEMMA ViewIsOwn ==
    ASSUME Inv, NEW m \in Machine, op[m] # "none",
           NEW view \in TagViews(req[m].machine, window[m])
    PROVE  view \subseteq Named(m)
<1>1. CallIsOwn(m)
  BY DEF Inv
<1>2. req[m] = RequestOf(m)
  BY <1>1 DEF CallIsOwn
<1>3. req[m].machine = m
  BY <1>2 DEF RequestOf
<1> QED
  BY <1>3, TagViewsAre

\* Matched, like Goto and Return, takes one of the instances found.
LEMMA MatchedMovesOn ==
    ASSUME NEW w, NEW found, Matched(w, found)
    PROVE  \E v \in found \cup {NoVM} : \/ \E s : Goto(w, s, v)
                                        \/ \E c : Return(w, c, v)
BY DEF Matched, StatusOf, InitializeOne

\* The steps of GetMachineStatus, InitializeMachine, CreateMachine and
\* DeleteMachine that only read EC2, or only configure an instance.
LEMMA ReadStepInv ==
    ASSUME Inv, TypeOK', NEW w \in Worker,
           \/ GetMatchingInstances(w) \/ GetInstanceByID(w) \/ InitializeMachine(w)
           \/ AwaitVisible(w) \/ AwaitTimesOut(w) \/ DeleteByTags(w) \/ CallFails(w)
           \/ RequestOutlivesCall(w)
    PROVE  Inv'
<1>0. TypeOK /\ CallsTypeOK /\ CollectorDeletesAbandoned
  BY TypeParts DEF Inv
<1>1. UNCHANGED <<life, name, phase, providerID, listed>>
  BY DEF GetMatchingInstances, GetInstanceByID, InitializeMachine, AwaitVisible,
         AwaitTimesOut, DeleteByTags, CallFails, RequestOutlivesCall, Configure,
         ec2Vars, objVars
<1>2. listed' \subseteq Launched
  BY <1>1 DEF Inv
<1>3. ASSUME w \in Machine, NEW v \in VM \cup {NoVM}, v # NoVM => v \in Named(w),
             (\E s : Goto(w, s, v)) \/ (\E c : Return(w, c, v))
      PROVE  Inv'
  <2>1. CallIsOwn(w)'
    BY <1>1, <1>3, MovesOn
  <2>2. OthersKeep(w)
    BY <1>0, <1>3, CallKeepsOthers
  <2>3. w # Collector
    BY <1>3, CollectorAssumption
  <2> QED
    BY <1>1, <1>2, <2>1, <2>2, <2>3, CallStepInv
<1>4. ASSUME w \in Machine, NEW found, found \subseteq Named(w), Matched(w, found)
      PROVE  Inv'
  <2>1. PICK v \in found \cup {NoVM} : (\E s : Goto(w, s, v)) \/ (\E c : Return(w, c, v))
    BY <1>4, MatchedMovesOn
  <2>2. v \in VM \cup {NoVM} /\ (v # NoVM => v \in Named(w))
    BY <1>4 DEF Named
  <2> QED
    BY <1>3, <1>4, <2>1, <2>2
<1>5. ASSUME w \in Machine, NotMatched(w) PROVE Inv'
  BY <1>3, <1>5 DEF NotMatched
<1>6. w = Collector => CallFails(w)
  BY <1>0 DEF CollectorDeletesAbandoned, At, GetMatchingInstances, GetInstanceByID,
              InitializeMachine, AwaitVisible, AwaitTimesOut, DeleteByTags,
              RequestOutlivesCall
<1>7. CASE w = Collector
  <2>1. PICK c : Return(w, c, NoVM)
    BY <1>6, <1>7 DEF CallFails
  <2>2. op'[w] = op[w] /\ pc'[w] = "done" /\ ids'[w] = {}
    BY <1>0, <2>1 DEF Return, CallsTypeOK
  <2>3. CollectorDeletesAbandoned'
    BY <1>0, <1>7, <2>2 DEF CollectorDeletesAbandoned
  <2>4. OthersKeep(w)
    BY <1>0, <2>1, CallKeepsOthers
  <2> QED
    BY <1>1, <1>2, <1>7, <2>3, <2>4, CollectorAssumption, CallStepInv
<1>8. CASE w \in Machine
  <2>0. CallIsOwn(w)
    BY <1>8 DEF Inv
  <2>1. CASE GetMatchingInstances(w)
    <3>1. PICK view \in TagViews(req[w].machine, window[w]) :
            \/ view # {} /\ Matched(w, view)
            \/ /\ view = {}
               /\ IF req[w].providerID = NoVM
                  THEN NotMatched(w)
                  ELSE Goto(w, "byID", req[w].providerID)
      BY <2>1 DEF GetMatchingInstances
    <3>2. op[w] # "none"
      BY <2>1 DEF GetMatchingInstances
    <3>3. view \subseteq Named(w)
      BY <1>8, <3>2, ViewIsOwn
    <3>4. req[w].providerID = providerID[w]
      BY <2>0, <3>2 DEF CallIsOwn, RequestOf
    <3>5. req[w].providerID \in VM \cup {NoVM}
          /\ (req[w].providerID # NoVM => req[w].providerID \in Named(w))
      BY <1>8, <3>4 DEF Inv, TypeOK, ProviderIDIsOwn
    <3> QED
      BY <1>3, <1>4, <1>5, <1>8, <3>1, <3>3, <3>5
  <2>2. CASE GetInstanceByID(w)
    <3>1. CASE vm[w] = NoVM
      <4>1. Matched(w, {NoVM}) \/ NotMatched(w)
        BY <2>2, <3>1 DEF GetInstanceByID
      <4>2. CASE Matched(w, {NoVM})
        <5>1. (\E s : Goto(w, s, NoVM)) \/ (\E c : Return(w, c, NoVM))
          BY <4>2, MatchedMovesOn
        <5> QED
          BY <1>3, <1>8, <5>1
      <4> QED
        BY <1>5, <1>8, <4>1, <4>2
    <3>2. CASE vm[w] # NoVM
      <4>1. {vm[w]} \subseteq Named(w)
        BY <2>0, <3>2 DEF CallIsOwn
      <4> QED
        BY <1>4, <1>5, <1>8, <2>2, <4>1 DEF GetInstanceByID
    <3> QED
      BY <3>1, <3>2
  <2>3. CASE InitializeMachine(w) \/ AwaitVisible(w) \/ AwaitTimesOut(w)
    <3>1. vm[w] \in VM \cup {NoVM} /\ (vm[w] # NoVM => vm[w] \in Named(w))
      BY <1>0, <2>0 DEF CallIsOwn, CallsTypeOK
    <3> QED
      BY <1>3, <1>8, <2>3, <3>1 DEF InitializeMachine, AwaitVisible, AwaitTimesOut
  <2>4. CASE DeleteByTags(w)
    <3>1. PICK view \in TagViews(req[w].machine, window[w]) :
            IF view = {}
            THEN Return(w, "OK", NoVM)
            ELSE /\ pc' = [pc EXCEPT ![w] = "terminate"]
                 /\ ids' = [ids EXCEPT ![w] = view]
                 /\ Listed(w)
                 /\ UNCHANGED <<op, req, vm, code>>
      BY <2>4 DEF DeleteByTags
    <3>2. CASE Return(w, "OK", NoVM)
      BY <1>3, <1>8, <3>2
    <3>3. CASE /\ pc' = [pc EXCEPT ![w] = "terminate"]
               /\ ids' = [ids EXCEPT ![w] = view]
               /\ UNCHANGED <<op, req, vm, code>>
      <4>1. op[w] # "none"
        BY <2>4 DEF DeleteByTags, At
      <4>2. view \subseteq Named(w)
        BY <1>8, <4>1, ViewIsOwn
      <4>3. CallIsOwn(w)'
        BY <1>0, <1>1, <2>0, <3>3, <4>2 DEF CallIsOwn, RequestOf, Named, CallsTypeOK
      <4>4. OthersKeep(w)
        BY <1>0, <3>3 DEF OthersKeep, CallsTypeOK
      <4>5. w # Collector
        BY <1>8, CollectorAssumption
      <4> QED
        BY <1>1, <1>2, <4>3, <4>4, <4>5, CallStepInv
    <3> QED
      BY <3>1, <3>2, <3>3
  <2>5. CASE CallFails(w)
    BY <1>3, <1>8, <2>5 DEF CallFails
  <2>6. CASE RequestOutlivesCall(w)
    BY <1>3, <1>8, <2>6 DEF RequestOutlivesCall
  <2> QED
    BY <2>1, <2>2, <2>3, <2>4, <2>5, <2>6
<1> QED
  BY <1>7, <1>8 DEF Worker

\* A new instance of some machine disturbs nothing that is not about a call.
LEMMA LaunchKeeps ==
    ASSUME Inv, NEW m \in Machine, NEW v \in VM, Launch(m, v),
           UNCHANGED <<phase, providerID, listed>>
    PROVE  /\ \A n \in Machine : Named(n) \subseteq Named(n)'
           /\ v \in Named(m)'
           /\ \A u \in VM : Abandoned(u) => Abandoned(u)'
           /\ ProviderIDIsOwn' /\ InUseNeverTerminated'
           /\ (\A u \in VM : life[u] = "free" <=> name[u] = NoMachine)'
           /\ (listed \subseteq Launched)'
<1>1. /\ life[v] = "free" /\ name[v] = NoMachine
      /\ life' = [life EXCEPT ![v] = "live"] /\ name' = [name EXCEPT ![v] = m]
  BY DEF Launch, Inv
<1>2. \A u \in VM : /\ u # v => life'[u] = life[u] /\ name'[u] = name[u]
                    /\ life'[v] = "live" /\ name'[v] = m
  BY <1>1 DEF Inv, TypeOK, EC2TypeOK
<1>3. \A n \in Machine : Named(n) \subseteq Named(n)'
  BY <1>1, <1>2, NoMachineAssumption DEF Named
<1>4. Launched \subseteq Launched'
  BY <1>2 DEF Launched
<1>5. v \in Named(m)'
  BY <1>2 DEF Named
<1>6. \A u \in VM : Abandoned(u) => Abandoned(u)'
  BY <1>1, <1>2, NoMachineAssumption DEF Abandoned
<1>7. ProviderIDIsOwn'
  BY <1>3, <1>4 DEF Inv, ProviderIDIsOwn
<1>8. InUseNeverTerminated'
  BY <1>1, <1>2 DEF Inv, InUseNeverTerminated, InUse
<1>9. (\A u \in VM : life[u] = "free" <=> name[u] = NoMachine)'
  BY <1>2, NoMachineAssumption DEF Inv
<1>10. (listed \subseteq Launched)'
  BY <1>4 DEF Inv
<1> QED
  BY <1>3, <1>5, <1>6, <1>7, <1>8, <1>9, <1>10

\* RunInstances: only a creation gets there, whose machine may adopt the new
\* instance or is being deleted.
LEMMA LaunchStepInv ==
    ASSUME Inv, TypeOK', NEW w \in Worker, RunInstances(w)
    PROVE  Inv'
<1>1. PICK v \in VM : /\ Launch(req[w].machine, v)
                      /\ Goto(w, "await", v) \/ Return(w, "Internal", NoVM)
  BY DEF RunInstances
<1>2. w \in Machine /\ w # Collector
  BY CollectorAssumption DEF Inv, CollectorDeletesAbandoned, RunInstances, At, Worker
<1>3. TypeOK /\ CallsTypeOK /\ CallIsOwn(w)
  BY <1>2, TypeParts DEF Inv
<1>4. req[w].machine = w /\ UNCHANGED <<phase, providerID, listed>>
  BY <1>3 DEF RunInstances, At, CallIsOwn, RequestOf, objVars
<1>5. /\ \A n \in Machine : Named(n) \subseteq Named(n)'
      /\ v \in Named(w)'
      /\ \A u \in VM : Abandoned(u) => Abandoned(u)'
      /\ ProviderIDIsOwn' /\ InUseNeverTerminated'
      /\ (\A u \in VM : life[u] = "free" <=> name[u] = NoMachine)'
      /\ (listed \subseteq Launched)'
  BY <1>1, <1>2, <1>4, LaunchKeeps
<1>6. OthersKeep(w)
  BY <1>1, <1>3, CallKeepsOthers
<1>7. CallIsOwn(w)'
  <2>1. vm'[w] \in {v, NoVM} /\ op'[w] = op[w] /\ req'[w] = req[w]
        /\ ids'[w] \subseteq ids[w]
    BY <1>1, <1>3 DEF Goto, Return, CallsTypeOK
  <2> QED
    BY <1>2, <1>3, <1>4, <1>5, <2>1 DEF CallIsOwn, RequestOf
<1>8. ASSUME NEW m \in Machine, m # w PROVE CallIsOwn(m)'
  <2>1. CallIsOwn(m) /\ m \in Worker \ {w}
    BY <1>8 DEF Inv, Worker
  <2> QED
    BY <1>4, <1>5, <1>6, <2>1 DEF OthersKeep, CallIsOwn, RequestOf
<1>9. CollectorDeletesAbandoned'
  <2>1. Collector \in Worker \ {w} /\ CollectorDeletesAbandoned
    BY <1>2 DEF Inv, Worker
  <2>2. op'[Collector] = op[Collector] /\ pc'[Collector] = pc[Collector]
        /\ ids'[Collector] = ids[Collector] /\ ids[Collector] \subseteq VM
    BY <1>3, <1>6, <2>1 DEF OthersKeep, CallsTypeOK
  <2> QED
    BY <1>5, <2>1, <2>2 DEF CollectorDeletesAbandoned
<1> QED
  BY <1>5, <1>7, <1>8, <1>9 DEF Inv

\* A launch nobody waits for any more is in nobody's hands.
LEMMA LateLaunchInv ==
    ASSUME Inv, TypeOK', NEW m \in Machine, NEW v \in VM, LateLaunch(m, v)
    PROVE  Inv'
<1>1. /\ Launch(m, v) /\ UNCHANGED <<phase, providerID, listed>>
      /\ UNCHANGED <<op, pc, req, vm, ids, code>>
  BY DEF LateLaunch, callVars, objVars
<1>2. /\ \A n \in Machine : Named(n) \subseteq Named(n)'
      /\ \A u \in VM : Abandoned(u) => Abandoned(u)'
      /\ ProviderIDIsOwn' /\ InUseNeverTerminated'
      /\ (\A u \in VM : life[u] = "free" <=> name[u] = NoMachine)'
      /\ (listed \subseteq Launched)'
  BY <1>1, LaunchKeeps
<1>3. ASSUME NEW n \in Machine PROVE CallIsOwn(n)'
  BY <1>1, <1>2 DEF Inv, CallIsOwn, RequestOf
<1>4. CollectorDeletesAbandoned'
  <2>1. CollectorDeletesAbandoned /\ ids[Collector] \subseteq VM
    BY TypeParts DEF Inv, CallsTypeOK, Worker
  <2> QED
    BY <1>1, <1>2, <2>1 DEF CollectorDeletesAbandoned
<1> QED
  BY <1>2, <1>3, <1>4 DEF Inv

\* A termination: whoever asks for it, the instance is abandoned.
LEMMA TerminateStepInv ==
    ASSUME Inv, TypeOK', NEW w \in Worker,
           TerminateInstance(w) \/ TerminationUnanswered(w)
    PROVE  Inv'
<1>1. PICK v \in ids[w] : /\ Terminate(v) \/ UNCHANGED ec2Vars
                          /\ Terminated(w, v) \/ Return(w, "Internal", NoVM)
  BY TerminationIs
<1>2. TypeOK /\ CallsTypeOK /\ EC2TypeOK /\ CollectorDeletesAbandoned
  BY TypeParts DEF Inv
<1>3. v \in VM
  BY <1>2 DEF CallsTypeOK
<1>4. Abandoned(v)
  <2>1. CASE w = Collector
    BY <1>2, <2>1 DEF CollectorDeletesAbandoned
  <2>2. CASE w \in Machine
    <3>1. CallIsOwn(w) /\ op[w] = "delete"
      BY <2>2, TerminationIs DEF Inv
    <3> QED
      BY <2>2, <3>1 DEF CallIsOwn, Named, Abandoned
  <2> QED
    BY <2>1, <2>2 DEF Worker
<1>5. /\ UNCHANGED <<name, phase, providerID, listed>>
      /\ life' = life \/ (life[v] = "live" /\ life' = [life EXCEPT ![v] = "terminated"])
  BY <1>1, TerminationIs DEF Terminate, ec2Vars, objVars
<1>6. \A u \in VM : /\ life'[u] = "free" <=> life[u] = "free"
                    /\ life'[u] = "terminated" => life[u] = "terminated" \/ u = v
  BY <1>2, <1>3, <1>5 DEF EC2TypeOK
<1>7. /\ op'[w] = op[w] /\ req'[w] = req[w] /\ vm'[w] \in {vm[w], NoVM}
      /\ pc'[w] \in {pc[w], "done"} /\ ids'[w] \subseteq ids[w]
      /\ OthersKeep(w)
  <2>1. CASE Return(w, "OK", NoVM) \/ Return(w, "Internal", NoVM)
    BY <1>2, <2>1, CallKeepsOthers DEF Return, CallsTypeOK
  <2>2. CASE /\ ids' = [ids EXCEPT ![w] = @ \ {v}]
             /\ UNCHANGED <<op, pc, req, vm, code, window>>
    BY <1>2, <2>2 DEF OthersKeep, CallsTypeOK
  <2> QED
    BY <1>1, <2>1, <2>2 DEF Terminated
<1>8. ASSUME NEW m \in Machine PROVE CallIsOwn(m)'
  <2>1. CallIsOwn(m) /\ m \in Worker
    BY DEF Inv, Worker
  <2> QED
    BY <1>5, <1>7, <2>1 DEF OthersKeep, CallIsOwn, RequestOf, Named
<1>9. CollectorDeletesAbandoned'
  BY <1>2, <1>5, <1>7 DEF OthersKeep, CollectorDeletesAbandoned, Abandoned, Worker
<1>10. ProviderIDIsOwn'
  BY <1>5, <1>6 DEF Inv, TypeOK, ProviderIDIsOwn, Named, Launched
<1>11. InUseNeverTerminated'
  BY <1>3, <1>4, <1>5, <1>6 DEF Inv, InUseNeverTerminated, InUse, Abandoned
<1>12. /\ (\A u \in VM : life[u] = "free" <=> name[u] = NoMachine)'
       /\ (listed \subseteq Launched)'
  BY <1>5, <1>6 DEF Inv, Launched
<1> QED
  BY <1>8, <1>9, <1>10, <1>11, <1>12 DEF Inv

\* A step that only changes objects: phases advance, and a provider id is
\* written while its machine is in creation.
Advances(m) ==
    /\ \/ phase' = phase
       \/ /\ phase[m] \in {"creating", "ready"}
          /\ phase' = [phase EXCEPT ![m] = "deleting"]
       \/ /\ phase[m] = "creating"
          /\ phase' = [phase EXCEPT ![m] = "ready"]
       \/ /\ phase[m] = "deleting"
          /\ phase' = [phase EXCEPT ![m] = "gone"]
    /\ \/ providerID' = providerID
       \/ /\ phase[m] = "creating"
          /\ \E v \in Named(m) \cup {NoVM} : providerID' = [providerID EXCEPT ![m] = v]

\* If m's own call is in order after such a step, Inv is kept.
LEMMA ObjectStepInv ==
    ASSUME Inv, TypeOK', NEW m \in Machine, Advances(m), OthersKeep(m),
           UNCHANGED <<life, name, listed>>, CallIsOwn(m)'
    PROVE  Inv'
<1>1. TypeOK /\ ObjectsTypeOK /\ CallsTypeOK /\ CollectorDeletesAbandoned
  BY TypeParts DEF Inv
<1>2. \A n \in Machine \ {m} : phase'[n] = phase[n] /\ providerID'[n] = providerID[n]
  BY <1>1 DEF Advances, ObjectsTypeOK
<1>3. ASSUME NEW n \in Machine PROVE CallIsOwn(n)'
  <2>1. CASE n # m
    <3>1. CallIsOwn(n) /\ n \in Worker \ {m}
      BY <2>1 DEF Inv, Worker
    <3> QED
      BY <1>2, <2>1, <3>1 DEF OthersKeep, CallIsOwn, RequestOf, Named
  <2> QED
    BY <2>1
<1>4. ASSUME NEW v \in VM, Abandoned(v) PROVE Abandoned(v)'
  BY <1>1, <1>2, <1>4 DEF Abandoned, Advances, ObjectsTypeOK
<1>5. CollectorDeletesAbandoned'
  <2>1. Collector \in Worker \ {m}
    BY CollectorAssumption DEF Worker
  <2>2. ids'[Collector] = ids[Collector] /\ ids[Collector] \subseteq VM
    BY <1>1, <2>1 DEF OthersKeep, CallsTypeOK
  <2> QED
    BY <1>1, <1>4, <2>1, <2>2 DEF OthersKeep, CollectorDeletesAbandoned
<1>6. ProviderIDIsOwn'
  <2>1. ASSUME NEW v \in Named(m) \cup {NoVM}, v # NoVM PROVE v \in Named(m) \cap Launched
    BY <2>1, NoMachineAssumption DEF Inv, Named, Launched
  <2> QED
    BY <1>1, <1>2, <2>1 DEF Inv, ProviderIDIsOwn, Advances, ObjectsTypeOK, Named, Launched
<1>7. InUseNeverTerminated'
  <2>1. ASSUME NEW v \in VM, life[v] = "terminated", name[v] \in Machine
        PROVE  Abandoned(v)
    BY <1>1, <2>1 DEF Inv, InUseNeverTerminated, InUse, Abandoned, ObjectsTypeOK
  <2>2. ASSUME NEW v \in VM, life[v] = "terminated", name[v] \in Machine
        PROVE  Abandoned(v)'
    BY <1>4, <2>1, <2>2
  <2> QED
    BY <2>2 DEF InUseNeverTerminated, InUse, Abandoned
<1> QED
  BY <1>3, <1>5, <1>6, <1>7 DEF Inv, Launched

\* MCM's worker, between two calls.
LEMMA WorkerTurnInv ==
    ASSUME Inv, TypeOK', NEW m \in Machine, WorkerTurn(m)
    PROVE  Inv'
<1>0. /\ TypeOK /\ CallsTypeOK /\ ObjectsTypeOK /\ CallIsOwn(m)
      /\ m \in Worker /\ m # Collector
  BY TypeParts, CollectorAssumption DEF Inv, Worker
<1>1. UNCHANGED <<life, name, listed>> /\ listed' \subseteq Launched
  BY DEF WorkerTurn, StartStatus, StartDelete, StatusAnswered, CreateAnswered,
         InitAnswered, DeleteAnswered, ec2Vars, Inv
<1>2. ASSUME NEW o, NEW s, NEW S, S \subseteq Named(m),
             Call(m, o, s, RequestOf(m), S), UNCHANGED objVars,
             o # "list", o = "delete" => phase[m] = "deleting",
             o \in {"status", "create", "init"} => phase[m] \in {"creating", "deleting"},
             o = "create" => providerID[m] = NoVM,
             o = "init" => providerID[m] # NoVM
      PROVE  Inv'
  <2>1. op'[m] = o /\ req'[m] = RequestOf(m) /\ vm'[m] = NoVM /\ ids'[m] = S
    BY <1>0, <1>2 DEF Call, CallsTypeOK
  <2>2. CallIsOwn(m)'
    BY <1>1, <1>2, <2>1 DEF CallIsOwn, RequestOf, Named, objVars
  <2>3. OthersKeep(m)
    BY <1>0, <1>2, CallKeepsOthers
  <2> QED
    BY <1>0, <1>1, <1>2, <2>2, <2>3, CallStepInv DEF objVars
<1>3. ASSUME Hangup(m), Advances(m) PROVE Inv'
  <2>1. CallIsOwn(m)' /\ OthersKeep(m)
    BY <1>0, <1>3, HungUp, CallKeepsOthers
  <2> QED
    BY <1>1, <1>3, <2>1, ObjectStepInv
<1>4. ASSUME Adopt(m) PROVE Inv'
  <2>1. vm[m] \in Named(m) \cup {NoVM}
    BY <1>0 DEF CallIsOwn
  <2>2. Advances(m)
    BY <1>4, <2>1 DEF Adopt, Advances
  <2> QED
    BY <1>3, <1>4, <2>2 DEF Adopt
<1>5. ASSUME BecomeReady(m) PROVE Inv'
  BY <1>3, <1>5 DEF BecomeReady, Advances
<1>6. ASSUME Hangup(m), UNCHANGED objVars PROVE Inv'
  BY <1>3, <1>6 DEF Advances, objVars
<1>7. CASE StartStatus(m)
  BY <1>2, <1>7 DEF StartStatus
<1>8. CASE StartDelete(m)
  <2>1. DeleteMachine(m, RequestOf(m)) /\ phase[m] = "deleting" /\ UNCHANGED objVars
    BY <1>8 DEF StartDelete
  <2>2. RequestOf(m).providerID = providerID[m]
    BY DEF RequestOf
  <2>3. providerID[m] # NoVM => {providerID[m]} \subseteq Named(m)
    BY DEF Inv, ProviderIDIsOwn
  <2>4. CASE providerID[m] # NoVM
    <3>1. Call(m, "delete", "terminate", RequestOf(m), {providerID[m]})
      BY <2>1, <2>2, <2>4 DEF DeleteMachine
    <3> QED
      BY <1>2, <2>1, <2>3, <2>4, <3>1
  <2>5. CASE providerID[m] = NoVM
    <3>1. Call(m, "delete", "tags", RequestOf(m), {})
      BY <2>1, <2>2, <2>5 DEF DeleteMachine
    <3> QED
      BY <1>2, <2>1, <3>1
  <2> QED
    BY <2>4, <2>5
<1>9. CASE StatusAnswered(m)
  <2>1. op[m] = "status" /\ req[m] = RequestOf(m) /\ phase[m] \in {"creating", "deleting"}
        /\ req[m].providerID = providerID[m]
    BY <1>0, <1>9 DEF StatusAnswered, At, CallIsOwn, RequestOf
  <2>2. \/ /\ req[m].providerID = NoVM
           /\ Call(m, "create", "run", req[m], {}) /\ UNCHANGED objVars
        \/ Adopt(m)
        \/ /\ req[m].providerID # NoVM
           /\ Call(m, "init", "tags", req[m], {}) /\ UNCHANGED objVars
        \/ BecomeReady(m)
        \/ Hangup(m) /\ UNCHANGED objVars
    BY <1>9 DEF StatusAnswered
  <2>3. CASE /\ req[m].providerID = NoVM
             /\ Call(m, "create", "run", req[m], {}) /\ UNCHANGED objVars
    BY <1>2, <2>1, <2>3
  <2>4. CASE /\ req[m].providerID # NoVM
             /\ Call(m, "init", "tags", req[m], {}) /\ UNCHANGED objVars
    BY <1>2, <2>1, <2>4
  <2> QED
    BY <1>4, <1>5, <1>6, <2>2, <2>3, <2>4
<1>10. CASE CreateAnswered(m)
  BY <1>4, <1>6, <1>10 DEF CreateAnswered
<1>11. CASE InitAnswered(m)
  BY <1>5, <1>6, <1>11 DEF InitAnswered
<1>12. CASE DeleteAnswered(m)
  <2>1. phase[m] = "deleting"
    BY <1>0, <1>12 DEF DeleteAnswered, At, CallIsOwn
  <2> QED
    BY <1>3, <1>12, <2>1 DEF DeleteAnswered, Advances
<1> QED
  BY <1>7, <1>8, <1>9, <1>10, <1>11, <1>12 DEF WorkerTurn

\* The collector, between two calls: what it finds to be an orphan has been
\* abandoned, and stays so.
LEMMA CollectorTurnInv ==
    ASSUME Inv, TypeOK',
           \/ StartListing \/ ListMachines(Collector)
           \/ \E v \in VM : CollectorHandles(v)
           \/ CollectorAnswered
    PROVE  Inv'
<1>0. /\ TypeOK /\ CallsTypeOK /\ ObjectsTypeOK /\ CollectorDeletesAbandoned
      /\ Collector \in Worker /\ Collector \notin Machine
  BY TypeParts, CollectorAssumption DEF Inv, Worker
<1>1. UNCHANGED <<life, name, phase, providerID>>
  BY DEF StartListing, ListMachines, CollectorHandles, CollectorAnswered, ec2Vars, objVars
<1>2. CASE StartListing \/ ListMachines(Collector)
  <2>1. listed' \subseteq Launched
    BY <1>2 DEF StartListing, ListMachines, ListViews, Listings, Inv
  <2>2. OthersKeep(Collector)
    BY <1>0, <1>2, CallKeepsOthers DEF StartListing, ListMachines
  <2>3. op'[Collector] \in {"none", "list"} /\ ids'[Collector] = {}
    BY <1>0, <1>2 DEF StartListing, ListMachines, Call, Hangup, CallsTypeOK
  <2>4. CollectorDeletesAbandoned'
    BY <2>3 DEF CollectorDeletesAbandoned
  <2> QED
    BY <1>0, <1>1, <2>1, <2>2, <2>4, CallStepInv
<1>3. ASSUME NEW v \in VM, CollectorHandles(v) PROVE Inv'
  <2> DEFINE r == [machine |-> name[v], providerID |-> v]
  <2>1. listed' \subseteq Launched /\ v \in Launched
    BY <1>3 DEF Inv, CollectorHandles
  <2>2. CASE ~Orphan(v)
    <3>1. OthersKeep(Collector) /\ CollectorDeletesAbandoned'
      BY <1>0, <1>1, <1>3, <2>2
         DEF CollectorHandles, callVars, OthersKeep, CollectorDeletesAbandoned, Abandoned
    <3> QED
      BY <1>0, <1>1, <2>1, <3>1, CallStepInv
  <2>3. CASE Orphan(v)
    <3>1. v # NoVM
      BY NoVMAssumption
    <3>2. Call(Collector, "delete", "terminate", r, {v})
      BY <1>3, <2>3, <3>1 DEF CollectorHandles, DeleteMachine
    <3>3. name[v] \in Machine
      BY <1>0, <2>1 DEF Inv, Launched, TypeOK, EC2TypeOK
    <3>4. Abandoned(v)
      BY <1>0, <2>3, <3>3 DEF Orphan, Abandoned, ObjectsTypeOK
    <3>5. op'[Collector] = "delete" /\ pc'[Collector] = "terminate"
          /\ ids'[Collector] = {v}
      BY <1>0, <3>2 DEF Call, CallsTypeOK
    <3>6. CollectorDeletesAbandoned'
      BY <1>1, <3>4, <3>5 DEF CollectorDeletesAbandoned, Abandoned
    <3>7. OthersKeep(Collector)
      BY <1>0, <3>2, CallKeepsOthers
    <3> QED
      BY <1>0, <1>1, <2>1, <3>6, <3>7, CallStepInv
  <2> QED
    BY <2>2, <2>3
<1>4. CASE CollectorAnswered
  <2>1. listed' \subseteq Launched
    BY <1>4 DEF CollectorAnswered, Inv
  <2>2. op'[Collector] = "none" /\ ids'[Collector] = {}
    BY <1>0, <1>4 DEF CollectorAnswered, Hangup, CallsTypeOK
  <2>3. CollectorDeletesAbandoned' /\ OthersKeep(Collector)
    BY <1>0, <1>4, <2>2, CallKeepsOthers DEF CollectorAnswered, CollectorDeletesAbandoned
  <2> QED
    BY <1>0, <1>1, <2>1, <2>3, CallStepInv
<1> QED
  BY <1>2, <1>3, <1>4

\* Faults, EC2 on its own, and a deletion that is requested.
LEMMA OtherStepInv ==
    ASSUME Inv, TypeOK',
           \/ \E m \in Machine : RequestDeletion(m)
           \/ Crash
           \/ \E v \in VM : InstanceLost(v) \/ InstanceSettles(v)
           \/ UNCHANGED vars
    PROVE  Inv'
<1>0. TypeOK /\ CallsTypeOK /\ EC2TypeOK /\ CollectorDeletesAbandoned
  BY TypeParts DEF Inv
<1>1. ASSUME NEW m \in Machine, RequestDeletion(m) PROVE Inv'
  <2>1. CallIsOwn(m) /\ Advances(m) /\ OthersKeep(m) /\ UNCHANGED <<life, name, listed>>
    BY <1>1 DEF Inv, RequestDeletion, Advances, OthersKeep, callVars, ec2Vars
  <2>2. phase'[m] = "deleting" /\ providerID' = providerID
    BY <1>0, <1>1 DEF RequestDeletion, TypeOK
  <2>3. UNCHANGED callVars
    BY <1>1 DEF RequestDeletion
  <2>4. CallIsOwn(m)'
    BY <2>1, <2>2, <2>3 DEF CallIsOwn, RequestOf, Named, callVars
  <2> QED
    BY <2>1, <2>4, ObjectStepInv
<1>2. CASE Crash
  <2>1. UNCHANGED <<life, name, phase, providerID>> /\ listed' = {}
    BY <1>2 DEF Crash, ec2Vars, objVars
  <2>2. \A w \in Worker : op'[w] = "none" /\ vm'[w] = NoVM /\ ids'[w] = {}
    BY <1>2 DEF Crash
  <2>3. \A m \in Machine : CallIsOwn(m)'
    BY <2>2 DEF CallIsOwn, Worker
  <2>4. CollectorDeletesAbandoned'
    BY <2>2 DEF CollectorDeletesAbandoned, Worker
  <2>5. ProviderIDIsOwn' /\ InUseNeverTerminated'
    BY <2>1 DEF Inv, ProviderIDIsOwn, InUseNeverTerminated, InUse, Named, Launched
  <2> QED
    BY <2>1, <2>3, <2>4, <2>5 DEF Inv
<1>3. ASSUME NEW v \in VM, InstanceLost(v) \/ InstanceSettles(v) \/ UNCHANGED vars
      PROVE  Inv'
  <2>1. /\ UNCHANGED <<callVars, name, phase, providerID, listed>>
        /\ life' = life \/ (life[v] = "live" /\ life' = [life EXCEPT ![v] = "lost"])
    BY <1>3 DEF InstanceLost, InstanceSettles, Lose, Settle, vars, ec2Vars, objVars
  <2>2. \A u \in VM : /\ life'[u] = "free" <=> life[u] = "free"
                      /\ life'[u] = "terminated" => life[u] = "terminated"
    BY <1>0, <2>1 DEF EC2TypeOK
  <2>3. \A m \in Machine : CallIsOwn(m)'
    BY <2>1 DEF Inv, CallIsOwn, RequestOf, Named, callVars
  <2>4. CollectorDeletesAbandoned'
    BY <1>0, <2>1 DEF CollectorDeletesAbandoned, Abandoned, callVars
  <2>5. ProviderIDIsOwn'
    BY <2>1, <2>2 DEF Inv, ProviderIDIsOwn, Named, Launched
  <2>6. InUseNeverTerminated'
    BY <2>1, <2>2 DEF Inv, InUseNeverTerminated, InUse
  <2>7. /\ (\A u \in VM : life[u] = "free" <=> name[u] = NoMachine)'
        /\ (listed \subseteq Launched)'
    BY <2>1, <2>2 DEF Inv, Launched
  <2> QED
    BY <2>3, <2>4, <2>5, <2>6, <2>7 DEF Inv
<1>4. CASE UNCHANGED vars
  <2>1. UNCHANGED <<ec2Vars, callVars, objVars, listed>>
    BY <1>4 DEF vars
  <2>2. \A m \in Machine : CallIsOwn(m)'
    BY <2>1 DEF Inv, CallIsOwn, RequestOf, Named, ec2Vars, callVars, objVars
  <2>3. CollectorDeletesAbandoned'
    BY <1>0, <2>1
       DEF CollectorDeletesAbandoned, Abandoned, ec2Vars, callVars, objVars
  <2>4. ProviderIDIsOwn' /\ InUseNeverTerminated'
    BY <2>1 DEF Inv, ProviderIDIsOwn, InUseNeverTerminated, InUse, Named,
                Launched, ec2Vars, objVars
  <2> QED
    BY <2>1, <2>2, <2>3, <2>4 DEF Inv, Launched, ec2Vars
<1> QED
  BY <1>1, <1>2, <1>3, <1>4

LEMMA InvInit == Init => Inv
<1> SUFFICES ASSUME Init PROVE Inv
  OBVIOUS
<1>1. TypeOK
  BY TypeInit
<1>2. \A w \in Worker : op[w] = "none" /\ vm[w] = NoVM /\ ids[w] = {}
  BY DEF Init
<1>3. \A m \in Machine : CallIsOwn(m)
  BY <1>2 DEF CallIsOwn, Worker
<1>4. CollectorDeletesAbandoned
  BY <1>2 DEF CollectorDeletesAbandoned, Worker
<1>5. ProviderIDIsOwn /\ InUseNeverTerminated
  BY DEF Init, EC2Init, ProviderIDIsOwn, InUseNeverTerminated
<1>6. (\A v \in VM : life[v] = "free" <=> name[v] = NoMachine) /\ listed \subseteq Launched
  BY DEF Init, EC2Init
<1> QED
  BY <1>1, <1>3, <1>4, <1>5, <1>6 DEF Inv

LEMMA InvStep == Inv /\ [Next]_vars => Inv'
<1> SUFFICES ASSUME Inv, [Next]_vars PROVE Inv'
  OBVIOUS
<1>1. TypeOK'
  BY TypeStep DEF Inv
<1>2. ASSUME NEW w \in Worker, Progress(w) \/ CallFails(w) \/ AwaitTimesOut(w)
      PROVE  Inv'
  <2>1. CASE ListMachines(w)
    <3>1. w = Collector
      BY <2>1 DEF Inv, CallIsOwn, ListMachines, At, Worker
    <3> QED
      BY <1>1, <2>1, <3>1, CollectorTurnInv
  <2> QED
    BY <1>1, <1>2, <2>1, ReadStepInv, LaunchStepInv, TerminateStepInv DEF Progress
<1>3. ASSUME NEW m \in Machine, WorkerTurn(m) PROVE Inv'
  BY <1>1, <1>3, WorkerTurnInv
<1>4. ASSUME \/ StartListing \/ CollectorAnswered
             \/ \E v \in VM : CollectorHandles(v)
      PROVE  Inv'
  BY <1>1, <1>4, CollectorTurnInv
<1>5. ASSUME \/ \E m \in Machine : RequestDeletion(m)
             \/ Crash
             \/ \E v \in VM : InstanceLost(v) \/ InstanceSettles(v)
             \/ UNCHANGED vars
      PROVE  Inv'
  BY <1>1, <1>5, OtherStepInv
<1>6. ASSUME \/ \E w \in Worker : RequestOutlivesCall(w) \/ TerminationUnanswered(w)
             \/ \E m \in Machine, v \in VM : LateLaunch(m, v)
      PROVE  Inv'
  BY <1>1, <1>6, ReadStepInv, TerminateStepInv, LateLaunchInv
<1> QED
  BY <1>2, <1>3, <1>4, <1>5, <1>6 DEF Next

\* The invariant below holds in every reachable state.
THEOREM Invariance == Spec => []Inv
BY InvInit, InvStep, PTL DEF Spec

\* DeleteMachine never terminates an instance that backs a machine nobody
\* asked to delete or that a machine in creation may still adopt, whoever
\* calls it, with whatever request, and whatever happens in between.
THEOREM InUseSafe == Spec => []InUseNeverTerminated
<1>1. Inv => InUseNeverTerminated
  BY DEF Inv
<1> QED
  BY <1>1, Invariance, PTL

\* The provider id CreateMachine or GetMachineStatus gave a machine is that of
\* an instance launched for this machine.
THEOREM ProviderIDCorrect == Spec => []ProviderIDIsOwn
<1>1. Inv => ProviderIDIsOwn
  BY DEF Inv
<1> QED
  BY <1>1, Invariance, PTL
==========================================================================
