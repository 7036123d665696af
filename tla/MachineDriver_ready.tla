------------------------- MODULE MachineDriver_ready -------------------------
(***************************************************************************)
(* What MCM takes for set up is set up, but for the checks that the driver *)
(* hides from itself, for any machines, instances, interfaces and faults.  *)
(***************************************************************************)
EXTENDS MachineDriver_history

---------------------------------------------------------------------------
(* What the steps leave alone.                                             *)

\* The requests of a call.
RequestStep(w) ==
    \/ Progress(w) \/ CallFails(w) \/ AwaitTimesOut(w)
    \/ RequestOutlivesCall(w) \/ TerminationUnanswered(w)

LEMMA RequestKeeps ==
    ASSUME TypeOK, NEW w \in Worker, RequestStep(w)
    PROVE  EC2Moves /\ OthersKeep(w) /\ UNCHANGED objVars
<1>0. CallsTypeOK
  BY TypeParts
<1>1. CASE GetMatchingInstances(w) \/ GetInstanceByID(w)
  <2>1. (\E found : Matched(w, found)) \/ NotMatched(w) \/ \E s, v : Goto(w, s, v)
    BY <1>1 DEF GetMatchingInstances, GetInstanceByID
  <2>2. (\E s, v : Goto(w, s, v)) \/ \E c, v : Return(w, c, v)
    BY <2>1, MatchedMovesOn DEF NotMatched
  <2> QED
    BY <1>0, <1>1, <2>2, CallKeepsOthers DEF GetMatchingInstances, GetInstanceByID, EC2Moves
<1>2. CASE InitializeMachine(w)
  <2>1. EC2Moves /\ \E c, v : Return(w, c, v)
    BY <1>2, SetUpIs
  <2> QED
    BY <1>0, <1>2, <2>1, CallKeepsOthers DEF InitializeMachine
<1>3. CASE RunInstances(w)
  <2>1. req[w].machine \in Machine \cup {NoMachine}
    BY DEF TypeOK, Request
  <2> QED
    BY <1>0, <1>3, <2>1, CallKeepsOthers DEF RunInstances, EC2Moves
<1>4. CASE AwaitVisible(w) \/ AwaitTimesOut(w) \/ CallFails(w) \/ RequestOutlivesCall(w)
  BY <1>0, <1>4, CallKeepsOthers
     DEF AwaitVisible, AwaitTimesOut, CallFails, RequestOutlivesCall, EC2Moves
<1>5. CASE DeleteByTags(w)
  <2>1. OthersKeep(w)
    <3>1. CASE Return(w, "OK", NoVM)
      BY <1>0, <3>1, CallKeepsOthers
    <3>2. CASE \E view : /\ pc' = [pc EXCEPT ![w] = "terminate"]
                         /\ ids' = [ids EXCEPT ![w] = view]
                         /\ UNCHANGED <<op, req, vm, code>>
      BY <1>0, <3>2 DEF CallsTypeOK, OthersKeep
    <3> QED
      BY <1>5, <3>1, <3>2 DEF DeleteByTags
  <2> QED
    BY <1>5, <2>1 DEF DeleteByTags, EC2Moves
<1>6. CASE TerminateInstance(w) \/ TerminationUnanswered(w)
  <2>1. PICK v \in ids[w] : /\ Terminate(v) \/ UNCHANGED ec2Vars
                            /\ Terminated(w, v) \/ Return(w, "Internal", NoVM)
    BY <1>6, TerminationIs
  <2>2. v \in VM
    BY <1>0 DEF CallsTypeOK
  <2>3. OthersKeep(w)
    <3>1. CASE Return(w, "OK", NoVM) \/ Return(w, "Internal", NoVM)
      BY <1>0, <3>1, CallKeepsOthers
    <3>2. CASE /\ ids' = [ids EXCEPT ![w] = ids[w] \ {v}]
               /\ UNCHANGED <<op, pc, req, vm, code>>
      BY <1>0, <3>2 DEF CallsTypeOK, OthersKeep
    <3> QED
      BY <2>1, <3>1, <3>2 DEF Terminated
  <2> QED
    BY <1>6, <2>1, <2>2, <2>3, TerminationIs DEF EC2Moves
<1>7. CASE ListMachines(w)
  BY <1>0, <1>7, CallKeepsOthers DEF ListMachines, EC2Moves
<1> QED
  BY <1>1, <1>2, <1>3, <1>4, <1>5, <1>6, <1>7 DEF RequestStep, Progress

\* A machine's worker writes no other object, and leaves EC2 to its calls.
LEMMA TurnKeeps ==
    ASSUME TypeOK, NEW n \in Machine, WorkerTurn(n)
    PROVE  /\ EC2Moves /\ OthersKeep(n)
           /\ \A m \in Machine \ {n} : /\ phase'[m] = phase[m]
                                       /\ providerID'[m] = providerID[m]
<1>0. n \in Worker /\ CallsTypeOK /\ ObjectsTypeOK
  BY TypeParts DEF Worker
<1>1. EC2Moves
  BY DEF WorkerTurn, StartStatus, StartDelete, StatusAnswered, CreateAnswered,
         InitAnswered, DeleteAnswered, EC2Moves
<1>2. (\E o, s, r, S : Call(n, o, s, r, S)) \/ Hangup(n)
  BY DEF WorkerTurn, StartStatus, StartDelete, DeleteMachine, StatusAnswered,
         CreateAnswered, InitAnswered, DeleteAnswered, Adopt, BecomeReady
<1>3. OthersKeep(n)
  BY <1>0, <1>2, CallKeepsOthers
<1>4. \A m \in Machine \ {n} : phase'[m] = phase[m] /\ providerID'[m] = providerID[m]
  BY <1>0 DEF ObjectsTypeOK, WorkerTurn, StartStatus, StartDelete, StatusAnswered,
              CreateAnswered, InitAnswered, DeleteAnswered, Adopt, BecomeReady, objVars
<1> QED
  BY <1>1, <1>3, <1>4

---------------------------------------------------------------------------
(* What InitializeMachine leaves out.                                      *)

\* It leaves out nothing but what is behind its gate, and what it leaves out it
\* would leave out again, when less is lacking.
LEMMA HiddenIsHidden ==
    ASSUME NEW L, NEW M
    PROVE  /\ L \subseteq M => (L \ ToSet(M)) \cap ToSet(L \ ToSet(M)) = {}
           /\ L \subseteq M /\ M \cap ToSet(M) = {} => L \cap ToSet(L) = {}
BY DEF ToSet

---------------------------------------------------------------------------
(* The invariant.                                                          *)

\* The call of machine m works on an instance, or has answered with one.
Answers(m) ==
    \/ pc[m] \in {"byID", "apply"}
    \/ pc[m] = "done" /\ op[m] \in {"status", "init"} /\ code[m] = "OK"

\* The inductive invariant behind AnswerIsTrue and ReadyIsSetUp: an OK stays true
\* until MCM acts on it, and is about an instance of the machine's own.
ReadyInv ==
    /\ AnswerIsTrue
    /\ ReadyIsSetUp
    /\ \A m \in Machine : Answers(m) => vm[m] # NoVM

\* What it says of machine m, in three parts.
TrueOf(m) ==
    LET v == vm[m] IN
        /\ At(m, "status", "done") /\ code[m] = "OK" /\ life[v] = "live" =>
              lacks[v] = {}
        /\ At(m, "init", "done") /\ code[m] = "OK" /\ life[v] = "live" =>
              LacksOnlyHidden(v)

SetUpOf(m) ==
    LET v == providerID[m] IN
        phase[m] = "ready" /\ Named(m) = {v} /\ life[v] = "live" => LacksOnlyHidden(v)

ReadyInvOf(m) == TrueOf(m) /\ SetUpOf(m) /\ (Answers(m) => vm[m] # NoVM)

LEMMA ReadyParts == ReadyInv <=> \A m \in Machine : ReadyInvOf(m)
BY DEF ReadyInv, ReadyInvOf, AnswerIsTrue, TrueOf, ReadyIsSetUp, SetUpOf

\* What EC2 does to one of a machine's instances.
LEMMA OwnKept ==
    ASSUME Inv, EC2Moves, NEW m \in Machine, NEW v \in Named(m)
    PROVE  /\ v \in VM /\ v \in Named(m)'
           /\ life'[v] = "live" => life[v] = "live" /\ lacks'[v] \subseteq lacks[v]
           /\ life'[v] = "live" /\ LacksOnlyHidden(v) => LacksOnlyHidden(v)'
<1>1. v \in VM /\ EC2TypeOK /\ life[v] # "free"
  BY NoMachineAssumption DEF Named, Inv, TypeOK
<1>2. /\ name'[v] = name[v]
      /\ life'[v] = "live" => life[v] = "live" /\ lacks'[v] \subseteq lacks[v]
  BY <1>1, InstanceKeeps
<1>3. life'[v] = "live" /\ LacksOnlyHidden(v) => LacksOnlyHidden(v)'
  BY <1>2, HiddenIsHidden DEF LacksOnlyHidden, ToSet
<1> QED
  BY <1>1, <1>2, <1>3 DEF Named

\* A machine that was ready, with that instance, stays set up.
LEMMA SetUpKept ==
    ASSUME Inv, EC2Moves, NEW m \in Machine, SetUpOf(m),
           phase'[m] = "ready" => phase[m] = "ready" /\ providerID'[m] = providerID[m]
    PROVE  SetUpOf(m)'
<1> DEFINE p == providerID[m]
<1> SUFFICES ASSUME phase'[m] = "ready", Named(m)' = {p}, life'[p] = "live"
             PROVE  LacksOnlyHidden(p)'
  BY DEF SetUpOf, LacksOnlyHidden, ToSet
<1>1. p \in Named(m)
  BY NoVMAssumption DEF Inv, ProviderIDIsOwn, Named
<1>2. Named(m) = {p}
  BY <1>1, OwnKept
<1> QED
  BY <1>1, <1>2, OwnKept DEF SetUpOf

\* An answer stays true while MCM has not acted on it.
LEMMA TrueKept ==
    ASSUME Inv, EC2Moves, NEW m \in Machine, TrueOf(m), Answers(m) => vm[m] # NoVM,
           Answers(m)' => /\ op'[m] = op[m] /\ pc'[m] = pc[m]
                          /\ code'[m] = code[m] /\ vm'[m] = vm[m]
    PROVE  TrueOf(m)' /\ (Answers(m)' => vm'[m] # NoVM)
<1> SUFFICES ASSUME Answers(m)'
             PROVE  TrueOf(m)' /\ vm'[m] # NoVM
  BY DEF TrueOf, Answers, At
<1>1. Answers(m) /\ vm[m] \in Named(m)
  <2>1. Answers(m)
    BY DEF Answers
  <2> QED
    BY <2>1 DEF Inv, CallIsOwn
<1>2. /\ life'[vm[m]] = "live" => /\ life[vm[m]] = "live"
                                  /\ lacks'[vm[m]] \subseteq lacks[vm[m]]
      /\ life'[vm[m]] = "live" /\ LacksOnlyHidden(vm[m]) => LacksOnlyHidden(vm[m])'
  BY <1>1, OwnKept
<1>3. vm'[m] # NoVM
  BY <1>1
<1>4. At(m, "status", "done")' /\ code'[m] = "OK" /\ life'[vm'[m]] = "live" =>
          lacks'[vm'[m]] = {}
  BY <1>2 DEF TrueOf, At
<1>5. At(m, "init", "done")' /\ code'[m] = "OK" /\ life'[vm'[m]] = "live" =>
          LacksOnlyHidden(vm[m])'
  BY <1>2 DEF TrueOf, At
<1> QED
  BY <1>3, <1>4, <1>5 DEF TrueOf, LacksOnlyHidden, ToSet

\* Where a step makes nothing ready and gives m's call no answer.
LEMMA ReadyKept ==
    ASSUME Inv, ReadyInv, EC2Moves, NEW m \in Machine,
           phase'[m] = "ready" => phase[m] = "ready" /\ providerID'[m] = providerID[m],
           Answers(m)' => /\ op'[m] = op[m] /\ pc'[m] = pc[m]
                          /\ code'[m] = code[m] /\ vm'[m] = vm[m]
    PROVE  ReadyInvOf(m)'
<1>1. TrueOf(m) /\ SetUpOf(m) /\ (Answers(m) => vm[m] # NoVM)
  BY ReadyParts DEF ReadyInvOf
<1> QED
  BY <1>1, SetUpKept, TrueKept DEF ReadyInvOf

LEMMA OtherCallReady ==
    ASSUME Inv, ReadyInv, EC2Moves, NEW m \in Machine, NEW w \in Worker, w # m,
           OthersKeep(w), phase'[m] = phase[m], providerID'[m] = providerID[m]
    PROVE  ReadyInvOf(m)'
<1>1. m \in Worker \ {w}
  BY DEF Worker
<1> QED
  BY <1>1, ReadyKept DEF OthersKeep

\* The answers of the two methods that find instances.
LEMMA MatchedReady ==
    ASSUME Inv, ReadyInv, UNCHANGED <<ec2Vars, objVars>>, NEW m \in Machine,
           NEW found \in SUBSET Named(m), Matched(m, found)
    PROVE  ReadyInvOf(m)'
<1>0. m \in Worker /\ TypeOK /\ CallsTypeOK /\ EC2Moves
  BY TypeParts DEF Inv, Worker, EC2Moves
<1>1. phase'[m] = phase[m] /\ providerID'[m] = providerID[m] /\ lacks' = lacks /\ life' = life
  BY DEF objVars, ec2Vars
<1>2. SetUpOf(m)'
  BY <1>0, <1>1, ReadyParts, SetUpKept DEF ReadyInvOf
<1>3. ASSUME NEW v \in found, Return(m, "OK", v),
             life[v] = "live" =>
                 IF op[m] = "status" THEN lacks[v] = {} ELSE LacksOnlyHidden(v)
      PROVE  ReadyInvOf(m)'
  <2>1. vm'[m] = v /\ v \in VM /\ op'[m] = op[m]
    BY <1>0, <1>3 DEF CallsTypeOK, Return, Named
  <2>2. LacksOnlyHidden(v)' <=> LacksOnlyHidden(v)
    BY <1>1 DEF LacksOnlyHidden, ToSet
  <2>3. TrueOf(m)'
    BY <1>1, <1>3, <2>1, <2>2 DEF TrueOf, At, LacksOnlyHidden, ToSet
  <2> QED
    BY <1>2, <2>1, <2>3, NoVMAssumption DEF ReadyInvOf
<1>4. ASSUME NEW c, NEW v, c # "OK", Return(m, c, v) PROVE ReadyInvOf(m)'
  <2>1. pc'[m] = "done" /\ code'[m] = c
    BY <1>0, <1>4 DEF CallsTypeOK, Return
  <2> QED
    BY <1>2, <1>4, <2>1 DEF ReadyInvOf, TrueOf, Answers, At
<1>5. ASSUME NEW v \in found, Goto(m, "apply", v) PROVE ReadyInvOf(m)'
  <2>1. pc'[m] = "apply" /\ vm'[m] = v /\ v \in VM
    BY <1>0, <1>5 DEF CallsTypeOK, Goto, Named
  <2> QED
    BY <1>2, <2>1, NoVMAssumption DEF ReadyInvOf, TrueOf, At
<1>6. CASE op[m] = "status" /\ StatusOf(m, found)
  <2>1. ASSUME NEW v \in found, NEW S \in ShownLacking(v),
               Return(m, IF S = {} THEN "OK" ELSE "Uninitialized", v)
        PROVE  ReadyInvOf(m)'
    <3>1. CASE S = {}
      <4>1. life[v] = "live" => lacks[v] = {}
        BY <2>1, <3>1 DEF ShownLacking
      <4> QED
        BY <1>3, <1>6, <2>1, <3>1, <4>1
    <3>2. CASE S # {}
      BY <1>4, <2>1, <3>2
    <3> QED
      BY <3>1, <3>2
  <2> QED
    BY <1>4, <1>6, <2>1 DEF StatusOf
<1>7. CASE op[m] = "init" /\ InitializeOne(m, found)
  <2>0. PICK v \in found : \E S \in ShownLacking(v) :
          IF ToSet(S) = {} THEN Return(m, "OK", v) ELSE Goto(m, "apply", v)
    BY <1>7 DEF InitializeOne
  <2>1. PICK S \in ShownLacking(v) :
          IF ToSet(S) = {} THEN Return(m, "OK", v) ELSE Goto(m, "apply", v)
    BY <2>0
  <2>2. CASE ToSet(S) = {}
    <3>1. life[v] = "live" => LacksOnlyHidden(v)
      <4>1. life[v] = "live" => lacks[v] \subseteq S
        BY <2>1 DEF ShownLacking
      <4>2. S \cap ToSet(S) = {}
        BY <2>2
      <4> QED
        BY <4>1, <4>2, HiddenIsHidden DEF LacksOnlyHidden
    <3> QED
      BY <1>3, <1>7, <2>1, <2>2, <3>1
  <2>3. CASE ToSet(S) # {}
    BY <1>5, <2>1, <2>3
  <2> QED
    BY <2>2, <2>3
<1> QED
  BY <1>6, <1>7 DEF Matched

\* InitializeMachine, with whatever it was shown and wherever it stopped.
LEMMA SetUpReady ==
    ASSUME Inv, ReadyInv, NEW m \in Machine, InitializeMachine(m)
    PROVE  ReadyInvOf(m)'
<1>0. m \in Worker /\ TypeOK /\ CallsTypeOK /\ EC2TypeOK /\ CallIsOwn(m)
  BY TypeParts DEF Inv, Worker
<1>1. /\ EC2Moves /\ phase'[m] = phase[m] /\ providerID'[m] = providerID[m]
      /\ op[m] = "init" /\ pc[m] = "apply"
  BY <1>0, SetUpIs DEF InitializeMachine, objVars, At
<1>2. vm[m] \in VM /\ vm[m] # NoVM
  BY <1>0, <1>1, ReadyParts DEF ReadyInvOf, Answers, CallsTypeOK
<1>3. SetUpOf(m)'
  BY <1>1, ReadyParts, SetUpKept DEF ReadyInvOf
<1>4. PICK S, done :
        /\ S \in ShownLacking(vm[m])
        /\ Configure(vm[m], done)
        /\ \/ done = ToSet(S) /\ Return(m, "OK", vm[m])
           \/ Return(m, "Uninitialized", NoVM)
  BY DEF InitializeMachine
<1>5. CASE done = ToSet(S) /\ Return(m, "OK", vm[m])
  <2>1. lacks[vm[m]] \subseteq S /\ lacks'[vm[m]] = lacks[vm[m]] \ ToSet(S)
    BY <1>0, <1>2, <1>4, <1>5 DEF ShownLacking, Configure, EC2TypeOK
  <2>2. vm'[m] = vm[m] /\ op'[m] = "init"
    BY <1>0, <1>1, <1>5 DEF Return, CallsTypeOK
  <2>3. LacksOnlyHidden(vm[m])'
    BY <2>1, <2>2, HiddenIsHidden DEF LacksOnlyHidden, ToSet
  <2>4. TrueOf(m)'
    BY <2>2, <2>3 DEF TrueOf, At, LacksOnlyHidden, ToSet
  <2> QED
    BY <1>2, <1>3, <2>2, <2>4 DEF ReadyInvOf
<1>6. CASE Return(m, "Uninitialized", NoVM)
  <2>1. code'[m] = "Uninitialized" /\ pc'[m] = "done"
    BY <1>0, <1>6 DEF Return, CallsTypeOK
  <2> QED
    BY <1>3, <2>1 DEF ReadyInvOf, TrueOf, Answers, At
<1> QED
  BY <1>4, <1>5, <1>6

\* A step of m's own call.
LEMMA OwnRequestReady ==
    ASSUME Inv, ReadyInv, NEW m \in Machine, RequestStep(m)
    PROVE  ReadyInvOf(m)'
<1>0. m \in Worker /\ TypeOK /\ CallsTypeOK /\ CallIsOwn(m)
  BY TypeParts DEF Inv, Worker
<1>1. EC2Moves /\ phase'[m] = phase[m] /\ providerID'[m] = providerID[m]
  BY <1>0, RequestKeeps DEF objVars
<1>2. ASSUME NEW c, NEW v, Return(m, c, v),
             c # "OK" \/ op[m] \notin {"status", "init"}
      PROVE  ReadyInvOf(m)'
  <2>1. pc'[m] = "done" /\ code'[m] = c /\ op'[m] = op[m]
    BY <1>0, <1>2 DEF CallsTypeOK, Return
  <2>2. ~Answers(m)'
    BY <1>2, <2>1 DEF Answers
  <2> QED
    BY <1>1, <2>2, ReadyKept
<1>3. ASSUME NEW s, NEW v, Goto(m, s, v), s # "done",
             s \in {"byID", "apply"} => v # NoVM
      PROVE  ReadyInvOf(m)'
  <2>1. pc'[m] = s /\ vm'[m] = v
    BY <1>0, <1>3 DEF CallsTypeOK, Goto
  <2>2. SetUpOf(m)'
    BY <1>1, ReadyParts, SetUpKept DEF ReadyInvOf
  <2> QED
    BY <1>3, <2>1, <2>2 DEF ReadyInvOf, TrueOf, Answers, At
<1>4. CASE GetMatchingInstances(m)
  <2>1. PICK view \in TagViews(req[m].machine, window[m]) :
          \/ Matched(m, view)
          \/ NotMatched(m)
          \/ /\ req[m].providerID # NoVM
             /\ Goto(m, "byID", req[m].providerID)
    BY <1>4 DEF GetMatchingInstances
  <2>2. view \subseteq Named(m)
    BY <1>4, ViewIsOwn DEF GetMatchingInstances
  <2>3. CASE Matched(m, view)
    BY <1>4, <2>2, <2>3, MatchedReady DEF GetMatchingInstances
  <2> QED
    BY <1>2, <1>3, <2>1, <2>3 DEF NotMatched
<1>5. CASE GetInstanceByID(m)
  <2>1. {vm[m]} \in SUBSET Named(m)
    BY <1>0, <1>5 DEF GetInstanceByID, ReadyInv, Answers, CallIsOwn
  <2>2. CASE Matched(m, {vm[m]})
    BY <1>5, <2>1, <2>2, MatchedReady DEF GetInstanceByID
  <2> QED
    BY <1>2, <1>5, <2>2 DEF GetInstanceByID, NotMatched
<1>6. CASE InitializeMachine(m)
  BY <1>6, SetUpReady
<1>7. CASE RunInstances(m) \/ AwaitVisible(m) \/ AwaitTimesOut(m) \/ RequestOutlivesCall(m)
  BY <1>2, <1>3, <1>7
     DEF RunInstances, AwaitVisible, AwaitTimesOut, RequestOutlivesCall, At
<1>8. CASE CallFails(m)
  <2>1. PICK c \in Failures(m) : Return(m, c, NoVM)
    BY <1>8 DEF CallFails
  <2>2. c # "OK"
    BY <2>1 DEF Failures, GetMCMErrorCodeForCreateMachine, GetMCMErrorCodeForTerminateInstances
  <2> QED
    BY <1>2, <2>1, <2>2
<1>9. CASE DeleteByTags(m) \/ TerminateInstance(m) \/ TerminationUnanswered(m)
  <2>1. op[m] = "delete"
    BY <1>9, TerminationIs DEF DeleteByTags, At
  <2>2. op'[m] = op[m] /\ pc'[m] \in {"terminate", "done"}
    <3>1. CASE DeleteByTags(m)
      BY <1>0, <3>1 DEF CallsTypeOK, DeleteByTags, Return, At
    <3>2. CASE TerminateInstance(m) \/ TerminationUnanswered(m)
      BY <1>0, <3>2, TerminationIs DEF CallsTypeOK, Terminated, Return
    <3> QED
      BY <1>9, <3>1, <3>2
  <2>3. ~Answers(m)'
    BY <2>1, <2>2 DEF Answers
  <2> QED
    BY <1>1, <2>3, ReadyKept
<1>10. CASE ListMachines(m)
  BY <1>0, <1>10 DEF ListMachines, At, CallIsOwn
<1> QED
  BY <1>4, <1>5, <1>6, <1>7, <1>8, <1>9, <1>10 DEF RequestStep, Progress

\* A turn of m's own worker.
LEMMA OwnTurnReady ==
    ASSUME Inv, ReadyInv, NEW m \in Machine, WorkerTurn(m)
    PROVE  ReadyInvOf(m)'
<1>0. m \in Worker /\ TypeOK /\ CallsTypeOK /\ ObjectsTypeOK /\ CallIsOwn(m) /\ EC2Moves
  BY TypeParts, TurnKeeps DEF Inv, Worker
<1>1. ASSUME NEW o, NEW s, NEW r, NEW S, Call(m, o, s, r, S),
             s \in {"tags", "run", "terminate"}, UNCHANGED objVars
      PROVE  ReadyInvOf(m)'
  <2>1. pc'[m] = s
    BY <1>0, <1>1 DEF CallsTypeOK, Call
  <2> QED
    BY <1>0, <1>1, <2>1, ReadyKept DEF objVars, Answers
<1>2. ASSUME Hangup(m),
             phase'[m] = "ready" => phase[m] = "ready" /\ providerID'[m] = providerID[m]
      PROVE  ReadyInvOf(m)'
  <2>1. pc'[m] = "idle"
    BY <1>0, <1>2 DEF CallsTypeOK, Hangup
  <2> QED
    BY <1>0, <1>2, <2>1, ReadyKept DEF Answers
<1>3. ASSUME Adopt(m) PROVE ReadyInvOf(m)'
  <2>1. phase'[m] = "ready" => phase[m] = "ready" /\ providerID'[m] = providerID[m]
    BY <1>0, <1>3 DEF Adopt
  <2> QED
    BY <1>2, <1>3, <2>1 DEF Adopt
<1>4. ASSUME BecomeReady(m), UNCHANGED ec2Vars,
             At(m, "status", "done") \/ At(m, "init", "done"), code[m] = "OK"
      PROVE  ReadyInvOf(m)'
  <2>1. pc'[m] = "idle" /\ providerID'[m] = providerID[m]
    BY <1>0, <1>4 DEF CallsTypeOK, BecomeReady, Hangup
  <2>2. SetUpOf(m)'
    <3> DEFINE p == providerID[m]
    <3> SUFFICES ASSUME Named(m)' = {p}, life'[p] = "live"
                 PROVE  LacksOnlyHidden(p)'
      BY <2>1 DEF SetUpOf, LacksOnlyHidden, ToSet
    <3>1. Named(m) = {p} /\ life[p] = "live" /\ lacks' = lacks
      BY <1>4 DEF Named, ec2Vars
    <3>2. vm[m] # NoVM
      BY <1>4, ReadyParts DEF ReadyInvOf, Answers, At
    <3>3. vm[m] = p
      BY <1>0, <3>1, <3>2 DEF CallIsOwn
    <3>4. lacks[p] = {} \/ LacksOnlyHidden(p)
      BY <1>4, <3>1, <3>3, ReadyParts DEF ReadyInvOf, TrueOf
    <3> QED
      BY <2>1, <3>1, <3>4 DEF LacksOnlyHidden, ToSet
  <2> QED
    BY <2>1, <2>2 DEF ReadyInvOf, TrueOf, Answers, At
<1>5. ASSUME Hangup(m), UNCHANGED objVars PROVE ReadyInvOf(m)'
  BY <1>2, <1>5 DEF objVars
<1>6. CASE StartStatus(m) \/ StartDelete(m)
  BY <1>1, <1>6 DEF StartStatus, StartDelete, DeleteMachine
<1>7. CASE StatusAnswered(m)
  <2>1. CASE BecomeReady(m) /\ code[m] = "OK"
    BY <1>4, <1>7, <2>1 DEF StatusAnswered
  <2>2. \/ Call(m, "create", "run", req[m], {}) /\ UNCHANGED objVars
        \/ Call(m, "init", "tags", req[m], {}) /\ UNCHANGED objVars
        \/ Adopt(m)
        \/ BecomeReady(m) /\ code[m] = "OK"
        \/ Hangup(m) /\ UNCHANGED objVars
    BY <1>7 DEF StatusAnswered
  <2> QED
    BY <1>1, <1>3, <1>5, <2>1, <2>2
<1>8. CASE CreateAnswered(m)
  BY <1>3, <1>5, <1>8 DEF CreateAnswered
<1>9. CASE InitAnswered(m)
  BY <1>4, <1>5, <1>9 DEF InitAnswered
<1>10. CASE DeleteAnswered(m)
  <2>1. phase'[m] = "ready" => phase[m] = "ready"
    BY <1>0, <1>10 DEF DeleteAnswered, ObjectsTypeOK
  <2> QED
    BY <1>2, <1>10, <2>1 DEF DeleteAnswered
<1> QED
  BY <1>6, <1>7, <1>8, <1>9, <1>10 DEF WorkerTurn

\* Everything else.
LEMMA OtherStepReady ==
    ASSUME Inv, ReadyInv, NEW m \in Machine,
           \/ StartListing \/ CollectorAnswered
           \/ \E v \in VM : CollectorHandles(v)
           \/ \E n \in Machine : RequestDeletion(n)
           \/ Crash
           \/ \E v \in VM : InstanceLost(v) \/ InstanceSettles(v)
           \/ \E n \in Machine, v \in VM : LateLaunch(n, v)
           \/ UNCHANGED vars
    PROVE  ReadyInvOf(m)'
<1>0. TypeOK /\ CallsTypeOK /\ ObjectsTypeOK
  BY TypeParts DEF Inv
<1>1. CASE StartListing \/ CollectorAnswered \/ \E v \in VM : CollectorHandles(v)
  <2>1. Collector \in Worker /\ Collector # m
    BY CollectorAssumption DEF Worker
  <2>2. EC2Moves /\ phase'[m] = phase[m] /\ providerID'[m] = providerID[m]
    BY <1>1 DEF StartListing, CollectorAnswered, CollectorHandles, EC2Moves, objVars
  <2>3. \/ \E o, s, r, S : Call(Collector, o, s, r, S)
        \/ Hangup(Collector)
        \/ UNCHANGED callVars
    BY <1>1 DEF StartListing, CollectorAnswered, CollectorHandles, DeleteMachine
  <2>4. OthersKeep(Collector)
    <3>1. CASE UNCHANGED callVars
      BY <3>1 DEF callVars, OthersKeep
    <3> QED
      BY <1>0, <2>1, <2>3, <3>1, CallKeepsOthers
  <2> QED
    BY <2>1, <2>2, <2>4, OtherCallReady
<1>2. CASE Crash
  <2>1. /\ pc'[m] = "idle" /\ phase'[m] = phase[m] /\ providerID'[m] = providerID[m]
        /\ EC2Moves
    BY <1>2 DEF Crash, Worker, EC2Moves, objVars
  <2> QED
    BY <2>1, ReadyKept DEF Answers
<1>3. CASE \/ \E n \in Machine : RequestDeletion(n)
           \/ \E v \in VM : InstanceLost(v) \/ InstanceSettles(v)
           \/ \E n \in Machine, v \in VM : LateLaunch(n, v)
           \/ UNCHANGED vars
  <2>1. UNCHANGED callVars /\ EC2Moves /\ providerID'[m] = providerID[m]
    BY <1>3 DEF RequestDeletion, InstanceLost, InstanceSettles, LateLaunch, vars, objVars,
                EC2Moves
  <2>2. phase'[m] = "ready" => phase[m] = "ready"
    BY <1>0, <1>3 DEF ObjectsTypeOK, RequestDeletion, InstanceLost, InstanceSettles,
                      LateLaunch, vars, objVars
  <2> QED
    BY <2>1, <2>2, ReadyKept DEF callVars
<1> QED
  BY <1>1, <1>2, <1>3

LEMMA ReadyStep == Inv /\ ReadyInv /\ [Next]_vars => ReadyInv'
<1> SUFFICES ASSUME Inv, ReadyInv, [Next]_vars, NEW m \in Machine
             PROVE  ReadyInvOf(m)'
  BY ReadyParts DEF ReadyInv, AnswerIsTrue, ReadyIsSetUp, ReadyInvOf, TrueOf, SetUpOf
<1>0. TypeOK /\ m \in Worker
  BY DEF Inv, Worker
<1>1. ASSUME NEW w \in Worker, RequestStep(w) PROVE ReadyInvOf(m)'
  <2>1. CASE w = m
    BY <1>1, <2>1, OwnRequestReady
  <2>2. CASE w # m
    BY <1>0, <1>1, <2>2, RequestKeeps, OtherCallReady DEF objVars
  <2> QED
    BY <2>1, <2>2
<1>2. ASSUME NEW n \in Machine, WorkerTurn(n) PROVE ReadyInvOf(m)'
  <2>1. CASE n = m
    BY <1>2, <2>1, OwnTurnReady
  <2>2. CASE n # m
    BY <1>0, <1>2, <2>2, TurnKeeps, OtherCallReady DEF Worker
  <2> QED
    BY <2>1, <2>2
<1>3. CASE \/ StartListing \/ CollectorAnswered
           \/ \E v \in VM : CollectorHandles(v)
           \/ \E n \in Machine : RequestDeletion(n)
           \/ Crash
           \/ \E v \in VM : InstanceLost(v) \/ InstanceSettles(v)
           \/ \E n \in Machine, v \in VM : LateLaunch(n, v)
           \/ UNCHANGED vars
  BY <1>3, OtherStepReady
<1> QED
  BY <1>1, <1>2, <1>3 DEF Next, RequestStep

LEMMA ReadyInit == Init => ReadyInv
BY DEF Init, ReadyInv, AnswerIsTrue, ReadyIsSetUp, Answers, At, Worker

THEOREM ReadyInvariance == Spec => []ReadyInv
BY ReadyInit, ReadyStep, Invariance, PTL DEF Spec

\* An OK of GetMachineStatus or InitializeMachine is true of the instance it names,
\* from the answer until MCM has acted on it.
THEOREM AnswersTrue == Spec => []AnswerIsTrue
<1>1. ReadyInv => AnswerIsTrue
  BY DEF ReadyInv
<1> QED
  BY <1>1, ReadyInvariance, PTL

\* A machine that has become ready, and never had a second instance, lacks nothing
\* but checks that InitializeMachine hides from itself.
THEOREM ReadySetUp == Spec => []ReadyIsSetUp
<1>1. ReadyInv => ReadyIsSetUp
  BY DEF ReadyInv
<1> QED
  BY <1>1, ReadyInvariance, PTL

\* It lacks nothing.
ReadyLacksNothing ==
    \A m \in Machine :
        LET v == providerID[m] IN
            phase[m] = "ready" /\ Named(m) = {v} /\ life[v] = "live" => lacks[v] = {}

\* And it lacks nothing at all where the gate hides nothing: with one check to
\* disable, or with a first interface that is an EFA one, whose check stays on.
THEOREM ReadyComplete ==
    ASSUME Checks \subseteq {PrimaryCheck} \/ PrimaryCheck \notin Checks
    PROVE  Spec => []ReadyLacksNothing
<1>1. \A L : L \cap ToSet(L) = {} => L = {}
  BY DEF ToSet
<1>2. ReadyIsSetUp => ReadyLacksNothing
  BY <1>1 DEF ReadyIsSetUp, ReadyLacksNothing, LacksOnlyHidden
<1> QED
  BY <1>2, ReadySetUp, PTL
==============================================================================
