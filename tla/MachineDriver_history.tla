------------------------ MODULE MachineDriver_history ------------------------
(***************************************************************************)
(* What a call knew when it began, and what became of it: the properties   *)
(* of MachineDriver that compare an outcome with the state of EC2 at the   *)
(* beginning of the call, for any number of machines, instances and faults *)
(* and whatever happens in between.                                        *)
(***************************************************************************)
EXTENDS MachineDriver_proofs

---------------------------------------------------------------------------
(* What EC2 does to an instance that exists.                               *)

EC2Moves ==
    \/ UNCHANGED ec2Vars
    \/ \E v \in VM : Terminate(v) \/ (\E S : Configure(v, S)) \/ Settle(v) \/ Lose(v)
    \/ \E v \in VM, m \in Machine \cup {NoMachine} : Launch(m, v)

\* It keeps its name and what is set on it, and once it is gone or settled it stays so
\* as far as a listing is concerned.
LEMMA InstanceKeeps ==
    ASSUME EC2TypeOK, EC2Moves, NEW v \in VM, life[v] # "free"
    PROVE  /\ life'[v] # "free" /\ name'[v] = name[v]
           /\ life'[v] = "live" => /\ life[v] = "live" /\ (settled[v] => settled'[v])
                                  /\ lacks'[v] \subseteq lacks[v]
<1> DEFINE Kept == /\ life'[v] # "free" /\ name'[v] = name[v]
                   /\ life'[v] = "live" => /\ life[v] = "live" /\ (settled[v] => settled'[v])
                                          /\ lacks'[v] \subseteq lacks[v]
<1>1. CASE UNCHANGED ec2Vars
  BY <1>1 DEF ec2Vars
<1>2. ASSUME NEW u \in VM, Terminate(u) \/ Lose(u) PROVE Kept
  BY <1>2 DEF EC2TypeOK, Terminate, Lose
<1>3. ASSUME NEW u \in VM, (\E S : Configure(u, S)) \/ Settle(u) PROVE Kept
  BY <1>3 DEF EC2TypeOK, Configure, Settle
<1>4. ASSUME NEW u \in VM, NEW m \in Machine \cup {NoMachine}, Launch(m, u) PROVE Kept
  BY <1>4 DEF EC2TypeOK, Launch
<1> QED
  BY <1>1, <1>2, <1>3, <1>4 DEF EC2Moves

LEMMA StillKnownKept ==
    ASSUME TypeOK, EC2Moves, NEW w \in Worker, StillKnown(w),
           window'[w].must \subseteq window[w].must
    PROVE  /\ StillKnown(w)'
           /\ NoneLeft(w) => NoneLeft(w)'
           /\ OneLeft(w) => OneLeft(w)'
<1>1. EC2TypeOK /\ window[w].must \subseteq VM
  BY DEF TypeOK, Windows
<1>2. \A v \in window'[w].must :
         /\ v \in window[w].must /\ life'[v] # "free"
         /\ life'[v] = "live" => life[v] = "live" /\ settled'[v]
  BY <1>1, InstanceKeeps DEF StillKnown
<1> QED
  BY <1>2 DEF StillKnown, NoneLeft, OneLeft

---------------------------------------------------------------------------
(* The ways in which a call moves on.                                      *)

\* Nothing of the call changes.
CallKept(w) ==
    /\ op'[w] = op[w] /\ pc'[w] = pc[w] /\ req'[w] = req[w]
    /\ ids'[w] = ids[w] /\ code'[w] = code[w] /\ window'[w] = window[w]

\* A step of the call of w changes no other call.
OnlyCall(w) == \A u \in Worker \ {w} : CallKept(u)

LEMMA KeptHistory ==
    ASSUME TypeOK, EC2Moves, NEW w \in Worker, StillKnown(w), HasFoundOut(w), CallKept(w)
    PROVE  StillKnown(w)' /\ HasFoundOut(w)'
<1>1. /\ StillKnown(w)'
      /\ NoneLeft(w) => NoneLeft(w)'
      /\ OneLeft(w) => OneLeft(w)'
  BY StillKnownKept DEF CallKept
<1>2. EC2TypeOK /\ window[w].must \subseteq VM
  BY DEF TypeOK, Windows
<1>3. \A v \in window[w].must :
         /\ name'[v] = name[v]
         /\ life'[v] = "live" => life[v] = "live"
  BY <1>2, InstanceKeeps DEF StillKnown
<1>4. window[w].must \subseteq Named(req[w].machine) =>
         window'[w].must \subseteq Named(req[w].machine)'
  BY <1>2, <1>3 DEF CallKept, Named
<1>5. At(w, "delete", "terminate")' =>
         \A v \in window'[w].must : life'[v] = "live" => v \in ids'[w]
  BY <1>3 DEF CallKept, HasFoundOut, At
<1> QED
  BY <1>1, <1>4, <1>5 DEF CallKept, HasFoundOut, At

LEMMA CallHistory ==
    ASSUME TypeOK, HistoryInv, EC2Moves, NEW w \in Worker, OnlyCall(w),
           StillKnown(w)', HasFoundOut(w)'
    PROVE  HistoryInv'
<1> SUFFICES ASSUME NEW u \in Worker PROVE StillKnown(u)' /\ HasFoundOut(u)'
  BY DEF HistoryInv
<1>1. CASE u = w
  BY <1>1
<1>2. CASE u # w
  BY <1>2, KeptHistory DEF HistoryInv, OnlyCall
<1> QED
  BY <1>1, <1>2

LEMMA NoCallHistory ==
    ASSUME TypeOK, HistoryInv, EC2Moves, UNCHANGED callVars
    PROVE  HistoryInv'
<1> SUFFICES ASSUME NEW w \in Worker PROVE StillKnown(w)' /\ HasFoundOut(w)'
  BY DEF HistoryInv
<1>1. CallKept(w)
  BY DEF CallKept, callVars
<1> QED
  BY <1>1, KeptHistory DEF HistoryInv

\* The window of a listing that is over is that of its beginning, or nothing.
LEMMA ListedIs ==
    ASSUME TypeOK, NEW w \in Worker, Listed(w)
    PROVE  /\ window'[w].must \subseteq window[w].must
           /\ \A u \in Worker \ {w} : window'[u] = window[u]
BY DEF TypeOK, Listed, Remember, NoWindow, Windows

LEMMA ReturnHistory ==
    ASSUME TypeOK, HistoryInv, EC2Moves, NEW w \in Worker, NEW c, NEW v, Return(w, c, v),
           \/ op[w] = "status" /\ c = "NotFound"
           \/ op[w] = "delete" /\ c = "OK"
           => NoneLeft(w)',
           op[w] = "status" /\ c \in {"OK", "Uninitialized"} => OneLeft(w)
    PROVE  HistoryInv'
<1>1. /\ op'[w] = op[w] /\ pc'[w] = "done" /\ code'[w] = c
      /\ OnlyCall(w)
      /\ window'[w].must \subseteq window[w].must
  BY ListedIs DEF TypeOK, Return, OnlyCall, CallKept
<1>2. StillKnown(w)' /\ (OneLeft(w) => OneLeft(w)')
  BY <1>1, StillKnownKept DEF HistoryInv
<1>3. HasFoundOut(w)'
  BY <1>1, <1>2 DEF HasFoundOut, At
<1> QED
  BY <1>1, <1>2, <1>3, CallHistory

LEMMA GotoHistory ==
    ASSUME TypeOK, HistoryInv, EC2Moves, NEW w \in Worker, NEW s, NEW v, Goto(w, s, v),
           s \in {"byID", "apply", "await"}, op[w] # "delete",
           op[w] = "status" => s = "byID" /\ NoneLeft(w)
    PROVE  HistoryInv'
<1>1. /\ op'[w] = op[w] /\ pc'[w] = s
      /\ OnlyCall(w)
      /\ window'[w].must \subseteq window[w].must
  BY ListedIs DEF TypeOK, Goto, OnlyCall, CallKept
<1>2. StillKnown(w)' /\ (NoneLeft(w) => NoneLeft(w)')
  BY <1>1, StillKnownKept DEF HistoryInv
<1>3. HasFoundOut(w)'
  BY <1>1, <1>2 DEF HasFoundOut, At
<1> QED
  BY <1>1, <1>2, <1>3, CallHistory

LEMMA HangupHistory ==
    ASSUME TypeOK, HistoryInv, EC2Moves, NEW w \in Worker, Hangup(w)
    PROVE  HistoryInv'
<1>1. /\ op'[w] = "none" /\ window'[w].must = {} /\ OnlyCall(w)
  BY DEF TypeOK, Hangup, NoWindow, OnlyCall, CallKept
<1>2. StillKnown(w)' /\ HasFoundOut(w)'
  BY <1>1 DEF StillKnown, HasFoundOut, At
<1> QED
  BY <1>1, <1>2, CallHistory

\* A call that begins knows of its instances those that all of EC2 knows.
LEMMA BeginHistory ==
    ASSUME TypeOK, HistoryInv, UNCHANGED ec2Vars, NEW w \in Worker,
           NEW o, NEW s, NEW r, NEW S, NEW K \in SUBSET VM, Call(w, o, s, r, S),
           Begun(w, K) \/ Remember(w, Opened(K).must),
           o = "status" => s = "tags",
           o \in {"status", "delete"} /\ s = "tags" => K \subseteq Named(r.machine),
           o = "delete" /\ s = "terminate" => K \subseteq S,
           s \in {"tags", "terminate"}
    PROVE  HistoryInv'
<1>1. /\ op'[w] = o /\ pc'[w] = s /\ req'[w] = r /\ ids'[w] = S
      /\ OnlyCall(w)
  BY DEF TypeOK, Call, Begun, Remember, OnlyCall, CallKept
<1>2. window'[w].must \subseteq {v \in K : Settled(v)}
  BY DEF TypeOK, Begun, Remember, Opened, Curtailed, NoWindow
<1>3. EC2Moves
  BY DEF EC2Moves
<1>4. StillKnown(w)'
  BY <1>2 DEF StillKnown, Settled, ec2Vars
<1>5. HasFoundOut(w)'
  BY <1>1, <1>2 DEF HasFoundOut, At, Named, ec2Vars
<1> QED
  BY <1>1, <1>3, <1>4, <1>5, CallHistory

---------------------------------------------------------------------------
(* The steps of a call.                                                    *)

\* A listing by tags shows what all of EC2 knew and is left of it.
LEMMA ListingShows ==
    ASSUME TypeOK, HistoryInv, NEW w \in Worker, op[w] \in {"status", "delete"},
           pc[w] = "tags", NEW view \in TagViews(req[w].machine, window[w])
    PROVE  \A v \in window[w].must : life[v] = "live" => v \in view
<1>1. StillKnown(w) /\ window[w].must \subseteq Named(req[w].machine)
  BY DEF HistoryInv, HasFoundOut
<1> QED
  BY <1>1 DEF StillKnown, Settled, TagViews, Listings

LEMMA MatchedHistory ==
    ASSUME TypeOK, HistoryInv, UNCHANGED ec2Vars, NEW w \in Worker, NEW found,
           Matched(w, found),
           op[w] = "status" => \A v \in found : found = {v} => OneLeft(w)
    PROVE  HistoryInv'
<1>0. EC2Moves
  BY DEF EC2Moves
<1>1. CASE op[w] = "status" /\ StatusOf(w, found)
  <2>1. CASE Return(w, "OutOfRange", NoVM)
    BY <1>0, <1>1, <2>1, ReturnHistory
  <2>2. ASSUME NEW v \in found, found = {v},
               Return(w, "OK", v) \/ Return(w, "Uninitialized", v)
        PROVE  HistoryInv'
    <3>1. OneLeft(w)
      BY <1>1, <2>2
    <3> QED
      BY <1>0, <1>1, <2>2, <3>1, ReturnHistory
  <2> QED
    BY <1>1, <2>1, <2>2 DEF StatusOf
<1>2. CASE op[w] = "init" /\ InitializeOne(w, found)
  BY <1>0, <1>2, ReturnHistory, GotoHistory DEF InitializeOne
<1> QED
  BY <1>1, <1>2 DEF Matched

LEMMA NotMatchedHistory ==
    ASSUME TypeOK, HistoryInv, UNCHANGED ec2Vars, NEW w \in Worker, NotMatched(w),
           op[w] \in {"status", "init"}, op[w] = "status" => NoneLeft(w)
    PROVE  HistoryInv'
<1> DEFINE c == IF op[w] = "init" THEN "Uninitialized" ELSE "NotFound"
<1>0. EC2Moves
  BY DEF EC2Moves
<1>1. Return(w, c, NoVM)
  BY DEF NotMatched
<1>2. window'[w].must \subseteq window[w].must
  BY <1>1, ListedIs DEF Return
<1>3. NoneLeft(w) => NoneLeft(w)'
  BY <1>0, <1>2, StillKnownKept DEF HistoryInv
<1> QED
  BY <1>0, <1>1, <1>3, ReturnHistory

LEMMA LookupHistory ==
    ASSUME TypeOK, HistoryInv, NEW w \in Worker,
           GetMatchingInstances(w) \/ GetInstanceByID(w)
    PROVE  HistoryInv'
<1>0. op[w] \in {"status", "init"} /\ UNCHANGED ec2Vars /\ EC2Moves
  BY DEF GetMatchingInstances, GetInstanceByID, EC2Moves
<1>1. CASE GetMatchingInstances(w)
  <2>1. PICK view \in TagViews(req[w].machine, window[w]) :
          \/ view # {} /\ Matched(w, view)
          \/ /\ view = {}
             /\ IF req[w].providerID = NoVM
                THEN NotMatched(w)
                ELSE Goto(w, "byID", req[w].providerID)
    BY <1>1 DEF GetMatchingInstances
  <2>2. op[w] = "status" => \A v \in window[w].must : life[v] = "live" => v \in view
    BY <1>1, ListingShows DEF GetMatchingInstances
  <2>3. CASE Matched(w, view)
    <3>1. op[w] = "status" => \A v \in view : view = {v} => OneLeft(w)
      BY <2>2 DEF OneLeft
    <3> QED
      BY <1>0, <2>3, <3>1, MatchedHistory
  <2>4. CASE view = {}
    <3>1. op[w] = "status" => NoneLeft(w)
      BY <2>2, <2>4 DEF NoneLeft
    <3>2. CASE NotMatched(w)
      BY <1>0, <3>1, <3>2, NotMatchedHistory
    <3>3. CASE Goto(w, "byID", req[w].providerID)
      BY <1>0, <3>1, <3>3, GotoHistory
    <3>4. NotMatched(w) \/ Goto(w, "byID", req[w].providerID) \/ view # {}
      BY <2>1
    <3> QED
      BY <2>4, <3>2, <3>3, <3>4
  <2> QED
    BY <2>1, <2>3, <2>4
<1>2. CASE GetInstanceByID(w)
  <2>1. op[w] = "status" => NoneLeft(w)
    BY <1>2 DEF GetInstanceByID, HistoryInv, HasFoundOut, At
  <2>2. CASE Matched(w, {vm[w]})
    BY <1>0, <2>1, <2>2, MatchedHistory DEF NoneLeft, OneLeft
  <2>3. CASE NotMatched(w)
    BY <1>0, <2>1, <2>3, NotMatchedHistory
  <2> QED
    BY <1>2, <2>2, <2>3 DEF GetInstanceByID
<1> QED
  BY <1>1, <1>2

LEMMA CreateHistory ==
    ASSUME TypeOK, HistoryInv, NEW w \in Worker,
           \/ RunInstances(w) \/ AwaitVisible(w) \/ AwaitTimesOut(w)
           \/ RequestOutlivesCall(w)
    PROVE  HistoryInv'
<1>1. op[w] = "create"
  BY DEF RunInstances, AwaitVisible, AwaitTimesOut, RequestOutlivesCall, At
<1>2. EC2Moves
  <2>1. req[w].machine \in Machine \cup {NoMachine}
    BY DEF TypeOK, Request
  <2> QED
    BY <2>1 DEF RunInstances, AwaitVisible, AwaitTimesOut, RequestOutlivesCall, EC2Moves
<1>3. (\E v : Goto(w, "await", v)) \/ (\E c, v : Return(w, c, v))
  BY DEF RunInstances, AwaitVisible, AwaitTimesOut, RequestOutlivesCall
<1> QED
  BY <1>1, <1>2, <1>3, ReturnHistory, GotoHistory

\* What InitializeMachine sets, in one go, and how it ends.
LEMMA SetUpIs ==
    ASSUME TypeOK, NEW w \in Worker, InitializeMachine(w)
    PROVE  /\ EC2Moves /\ op[w] = "init"
           /\ \E c \in {"OK", "Uninitialized"} : \E v : Return(w, c, v)
<1>1. PICK done : /\ Configure(vm[w], done)
                  /\ Return(w, "OK", vm[w]) \/ Return(w, "Uninitialized", NoVM)
  BY DEF InitializeMachine
<1>2. EC2TypeOK
  BY DEF TypeOK
<1>3. vm[w] \notin VM => UNCHANGED ec2Vars
  BY <1>1, <1>2 DEF Configure, EC2TypeOK, ec2Vars
<1> QED
  BY <1>1, <1>3 DEF InitializeMachine, At, EC2Moves

LEMMA FailureHistory ==
    ASSUME TypeOK, HistoryInv, NEW w \in Worker,
           CallFails(w) \/ InitializeMachine(w) \/ TerminationUnanswered(w)
    PROVE  HistoryInv'
<1>1. CASE InitializeMachine(w)
  BY <1>1, SetUpIs, ReturnHistory
<1>2. CASE CallFails(w)
  <2>1. EC2Moves
    BY <1>2 DEF CallFails, EC2Moves
  <2>2. PICK c \in Failures(w) : Return(w, c, NoVM)
    BY <1>2 DEF CallFails
  <2>3. c \notin {"OK", "NotFound"}
    BY <2>2 DEF Failures, GetMCMErrorCodeForCreateMachine, GetMCMErrorCodeForTerminateInstances
  <2>4. op[w] = "status" => c # "Uninitialized"
    BY <2>2 DEF Failures, HistoryInv, HasFoundOut
  <2> QED
    BY <2>1, <2>2, <2>3, <2>4, ReturnHistory
<1>3. CASE TerminationUnanswered(w)
  <2>1. /\ op[w] = "delete" /\ Return(w, "Internal", NoVM)
        /\ \E v \in ids[w] : Terminate(v)
    BY <1>3 DEF TerminationUnanswered, At, GetMCMErrorCodeForTerminateInstances,
                InstanceIDNotFound
  <2>2. EC2Moves
    BY <2>1 DEF TypeOK, EC2Moves
  <2> QED
    BY <2>1, <2>2, ReturnHistory
<1> QED
  BY <1>1, <1>2, <1>3

LEMMA DeleteHistory ==
    ASSUME TypeOK, HistoryInv, NEW w \in Worker, DeleteByTags(w) \/ TerminateInstance(w)
    PROVE  HistoryInv'
<1>0. op[w] = "delete" /\ StillKnown(w) /\ HasFoundOut(w)
  BY DEF DeleteByTags, TerminateInstance, At, HistoryInv
<1>1. CASE DeleteByTags(w)
  <2>0. UNCHANGED ec2Vars /\ EC2Moves
    BY <1>1 DEF DeleteByTags, EC2Moves
  <2>1. PICK view \in TagViews(req[w].machine, window[w]) :
          IF view = {}
          THEN Return(w, "OK", NoVM)
          ELSE /\ pc' = [pc EXCEPT ![w] = "terminate"]
               /\ ids' = [ids EXCEPT ![w] = view]
               /\ Listed(w)
               /\ UNCHANGED <<op, req, vm, code>>
    BY <1>1 DEF DeleteByTags
  <2>2. \A v \in window[w].must : life[v] = "live" => v \in view
    BY <1>1, ListingShows DEF DeleteByTags, At
  <2>3. Listed(w)
    BY <2>1 DEF Return
  <2>4. window'[w].must \subseteq window[w].must
    BY <2>3, ListedIs
  <2>5. CASE view = {}
    <3>1. NoneLeft(w)'
      BY <2>0, <2>2, <2>4, <2>5, StillKnownKept, <1>0 DEF NoneLeft
    <3> QED
      BY <1>0, <2>0, <2>1, <2>5, <3>1, ReturnHistory
  <2>6. CASE view # {}
    <3>1. /\ op'[w] = "delete" /\ pc'[w] = "terminate" /\ ids'[w] = view
          /\ OnlyCall(w)
      BY <1>0, <2>1, <2>3, <2>6, ListedIs DEF TypeOK, OnlyCall, CallKept
    <3>2. StillKnown(w)'
      BY <1>0, <2>0, <2>4, StillKnownKept
    <3>3. HasFoundOut(w)'
      BY <2>0, <2>2, <2>4, <3>1 DEF HasFoundOut, At, ec2Vars
    <3> QED
      BY <2>0, <3>1, <3>2, <3>3, CallHistory
  <2> QED
    BY <2>5, <2>6
<1>2. CASE TerminateInstance(w)
  <2>1. PICK v \in ids[w] :
          /\ \/ Terminate(v)
             \/ /\ \E err \in Refusals(v) :
                      GetMCMErrorCodeForTerminateInstances(err) = "NotFound"
                /\ UNCHANGED ec2Vars
          /\ Terminated(w, v)
    BY <1>2 DEF TerminateInstance
  <2>2. v \in VM /\ EC2TypeOK /\ window[w].must \subseteq VM
    BY DEF TypeOK, Windows
  <2>3. EC2Moves
    BY <2>1, <2>2 DEF EC2Moves
  <2>4. v \in window[w].must => life'[v] # "live"
    <3>1. CASE Terminate(v)
      BY <2>2, <3>1 DEF Terminate, EC2TypeOK
    <3>2. CASE /\ \E err \in Refusals(v) :
                      GetMCMErrorCodeForTerminateInstances(err) = "NotFound"
               /\ UNCHANGED ec2Vars
      <4>1. MayMiss(v)
        BY <3>2 DEF Refusals, GetMCMErrorCodeForTerminateInstances
      <4> QED
        BY <1>0, <3>2, <4>1 DEF MayMiss, Settled, StillKnown, ec2Vars
    <3> QED
      BY <2>1, <3>1, <3>2
  <2>5. \A u \in window[w].must : life'[u] = "live" => u \in ids[w] \ {v}
    <3>1. \A u \in window[w].must : life'[u] = "live" => life[u] = "live"
      BY <1>0, <2>2, <2>3, InstanceKeeps DEF StillKnown
    <3> QED
      BY <1>0, <1>2, <2>4, <3>1 DEF HasFoundOut, TerminateInstance
  <2>6. CASE ids[w] = {v}
    <3>1. Return(w, "OK", NoVM)
      BY <2>1, <2>6 DEF Terminated
    <3>2. NoneLeft(w)'
      BY <2>5, <2>6, <3>1, ListedIs DEF Return, NoneLeft
    <3> QED
      BY <1>0, <2>3, <3>1, <3>2, ReturnHistory
  <2>7. CASE ids[w] # {v}
    <3>1. /\ ids' = [ids EXCEPT ![w] = ids[w] \ {v}]
          /\ UNCHANGED <<op, pc, req, vm, code, window>>
      BY <2>1, <2>7 DEF Terminated
    <3>2. ids'[w] = ids[w] \ {v} /\ OnlyCall(w)
      BY <3>1 DEF TypeOK, OnlyCall, CallKept
    <3>3. StillKnown(w)'
      BY <1>0, <2>3, <3>1, StillKnownKept
    <3>4. HasFoundOut(w)'
      BY <1>2, <2>5, <3>1, <3>2 DEF TerminateInstance, HasFoundOut, At
    <3> QED
      BY <2>3, <3>2, <3>3, <3>4, CallHistory
  <2> QED
    BY <2>6, <2>7
<1> QED
  BY <1>1, <1>2

---------------------------------------------------------------------------
(* The steps between two calls.                                            *)

LEMMA DeleteMachineHistory ==
    ASSUME TypeOK, HistoryInv, UNCHANGED ec2Vars, NEW w \in Worker, NEW r \in Request,
           DeleteMachine(w, r)
    PROVE  HistoryInv'
<1>1. CASE r.providerID # NoVM
  <2>1. {r.providerID} \in SUBSET VM
    BY <1>1 DEF Request
  <2>2. /\ Call(w, "delete", "terminate", r, {r.providerID})
        /\ Remember(w, Opened({r.providerID}).must)
    BY <1>1 DEF DeleteMachine
  <2> QED
    BY <2>1, <2>2, BeginHistory
<1>2. CASE r.providerID = NoVM
  <2>1. Named(r.machine) \in SUBSET VM
    BY DEF Named
  <2>2. Call(w, "delete", "tags", r, {}) /\ Begun(w, Named(r.machine))
    BY <1>2 DEF DeleteMachine
  <2> QED
    BY <2>1, <2>2, BeginHistory
<1> QED
  BY <1>1, <1>2

LEMMA WorkerTurnHistory ==
    ASSUME TypeOK, HistoryInv, NEW m \in Machine, WorkerTurn(m)
    PROVE  HistoryInv'
<1>0. /\ m \in Worker /\ RequestOf(m) \in Request /\ Named(m) \in SUBSET VM
      /\ RequestOf(m).machine = m
  BY DEF Worker, RequestOf, TypeOK, Request, Named
<1>1. UNCHANGED ec2Vars /\ EC2Moves
  BY DEF WorkerTurn, StartStatus, StartDelete, StatusAnswered, CreateAnswered,
         InitAnswered, DeleteAnswered, EC2Moves
<1>2. CASE StartStatus(m)
  <2>1. Call(m, "status", "tags", RequestOf(m), {}) /\ Begun(m, Named(m))
    BY <1>2 DEF StartStatus
  <2> QED
    BY <1>0, <1>1, <2>1, BeginHistory
<1>3. CASE StartDelete(m)
  BY <1>0, <1>1, <1>3, DeleteMachineHistory DEF StartDelete
<1>4. ASSUME Hangup(m) PROVE HistoryInv'
  BY <1>0, <1>1, <1>4, HangupHistory
<1>5. CASE StatusAnswered(m)
  <2>1. CASE Call(m, "init", "tags", req[m], {}) /\ Begun(m, Named(m))
    BY <1>0, <1>1, <2>1, BeginHistory
  <2>2. CASE /\ code[m] = "NotFound" /\ Call(m, "create", "run", req[m], {})
             /\ UNCHANGED window
    <3>1. /\ op'[m] = "create" /\ pc'[m] = "run" /\ window'[m] = window[m]
          /\ OnlyCall(m)
      BY <1>0, <2>2 DEF TypeOK, Call, OnlyCall, CallKept
    <3>2. StillKnown(m) /\ NoneLeft(m)
      BY <1>0, <1>5, <2>2 DEF HistoryInv, HasFoundOut, StatusAnswered
    <3>3. StillKnown(m)' /\ NoneLeft(m)'
      BY <1>0, <1>1, <3>1, <3>2, StillKnownKept
    <3>4. HasFoundOut(m)'
      BY <3>1, <3>3 DEF HasFoundOut, At
    <3> QED
      BY <1>0, <1>1, <3>1, <3>3, <3>4, CallHistory
  <2>3. \/ Call(m, "init", "tags", req[m], {}) /\ Begun(m, Named(m))
        \/ /\ code[m] = "NotFound" /\ Call(m, "create", "run", req[m], {})
           /\ UNCHANGED window
        \/ Hangup(m)
    BY <1>5 DEF StatusAnswered, Adopt, BecomeReady
  <2> QED
    BY <1>4, <2>1, <2>2, <2>3
<1>6. CASE CreateAnswered(m) \/ InitAnswered(m) \/ DeleteAnswered(m)
  <2>1. Hangup(m)
    BY <1>6 DEF CreateAnswered, InitAnswered, DeleteAnswered, Adopt, BecomeReady
  <2> QED
    BY <1>4, <2>1
<1> QED
  BY <1>2, <1>3, <1>5, <1>6 DEF WorkerTurn

LEMMA CollectorHistory ==
    ASSUME TypeOK, HistoryInv,
           \/ StartListing \/ CollectorAnswered
           \/ \E w \in Worker : ListMachines(w)
           \/ \E v \in VM : CollectorHandles(v)
    PROVE  HistoryInv'
<1>0. Collector \in Worker /\ UNCHANGED ec2Vars /\ EC2Moves
  BY DEF Worker, StartListing, CollectorAnswered, ListMachines, CollectorHandles, EC2Moves
<1>1. CASE StartListing
  <2>1. Call(Collector, "list", "tags", NoRequest, {}) /\ Begun(Collector, Launched)
    BY <1>1 DEF StartListing
  <2>2. Launched \in SUBSET VM
    BY DEF Launched
  <2> QED
    BY <1>0, <2>1, <2>2, BeginHistory
<1>2. CASE CollectorAnswered \/ \E w \in Worker : ListMachines(w)
  BY <1>0, <1>2, HangupHistory DEF CollectorAnswered, ListMachines
<1>3. ASSUME NEW v \in VM, CollectorHandles(v) PROVE HistoryInv'
  <2> DEFINE r == [machine |-> name[v], providerID |-> v]
  <2>1. r \in Request
    BY DEF TypeOK, EC2TypeOK, Request
  <2>2. CASE DeleteMachine(Collector, r)
    BY <1>0, <2>1, <2>2, DeleteMachineHistory
  <2>3. CASE UNCHANGED callVars
    BY <1>0, <2>3, NoCallHistory
  <2> QED
    BY <1>3, <2>2, <2>3 DEF CollectorHandles
<1> QED
  BY <1>1, <1>2, <1>3

LEMMA OtherHistory ==
    ASSUME TypeOK, HistoryInv,
           \/ \E m \in Machine : RequestDeletion(m)
           \/ Crash
           \/ \E v \in VM : InstanceLost(v) \/ InstanceSettles(v)
           \/ \E m \in Machine, v \in VM : LateLaunch(m, v)
           \/ UNCHANGED vars
    PROVE  HistoryInv'
<1>1. CASE Crash
  <2>1. \A w \in Worker : op'[w] = "none" /\ window'[w].must = {}
    BY <1>1 DEF Crash, NoWindow
  <2> QED
    BY <2>1 DEF HistoryInv, StillKnown, HasFoundOut, At
<1>2. CASE ~Crash
  <2>1. UNCHANGED callVars
    BY <1>2 DEF RequestDeletion, InstanceLost, InstanceSettles, LateLaunch, vars
  <2>2. EC2Moves
    BY <1>2 DEF RequestDeletion, InstanceLost, InstanceSettles, LateLaunch, vars, EC2Moves
  <2> QED
    BY <2>1, <2>2, NoCallHistory
<1> QED
  BY <1>1, <1>2

LEMMA HistoryStep == TypeOK /\ HistoryInv /\ [Next]_vars => HistoryInv'
<1> SUFFICES ASSUME TypeOK, HistoryInv, [Next]_vars PROVE HistoryInv'
  OBVIOUS
<1>1. ASSUME NEW w \in Worker, Progress(w) \/ CallFails(w) \/ AwaitTimesOut(w)
      PROVE  HistoryInv'
  BY <1>1, LookupHistory, CreateHistory, FailureHistory, DeleteHistory, CollectorHistory
     DEF Progress
<1>2. ASSUME NEW m \in Machine, WorkerTurn(m) PROVE HistoryInv'
  BY <1>2, WorkerTurnHistory
<1>3. CASE StartListing \/ CollectorAnswered \/ \E v \in VM : CollectorHandles(v)
  BY <1>3, CollectorHistory
<1>4. CASE \E w \in Worker : RequestOutlivesCall(w) \/ TerminationUnanswered(w)
  BY <1>4, CreateHistory, FailureHistory
<1>5. CASE \/ \E m \in Machine : RequestDeletion(m)
           \/ Crash
           \/ \E v \in VM : InstanceLost(v) \/ InstanceSettles(v)
           \/ \E m \in Machine, v \in VM : LateLaunch(m, v)
           \/ UNCHANGED vars
  BY <1>5, OtherHistory
<1> QED
  BY <1>1, <1>2, <1>3, <1>4, <1>5 DEF Next

LEMMA HistoryInit == Init => HistoryInv
BY DEF Init, NoWindow, HistoryInv, StillKnown, HasFoundOut, At

\* What a call was sure of when it began is so until it ends, and each of its
\* requests narrows down what is left of it.
THEOREM HistoryInvariance == Spec => []HistoryInv
BY HistoryInit, HistoryStep, TypeCorrect, PTL DEF Spec

\* A DeleteMachine that answers OK has removed every instance it was asked to
\* remove and all of EC2 knew.
THEOREM DeletionComplete == Spec => []DeleteIsComplete
<1>1. HistoryInv => DeleteIsComplete
  BY DEF HistoryInv, HasFoundOut, NoneLeft, DeleteIsComplete
<1> QED
  BY <1>1, HistoryInvariance, PTL

\* CreateMachine is called only when nothing is left of the instances that all of
\* EC2 knew when the status was looked up.
THEOREM DuplicatesNotNeedless == Spec => []NoNeedlessDuplicate
<1>1. HistoryInv => NoNeedlessDuplicate
  BY DEF HistoryInv, HasFoundOut, NoneLeft, NoNeedlessDuplicate, Worker
<1> QED
  BY <1>1, HistoryInvariance, PTL

\* GetMachineStatus names no instance for a machine that has two.
THEOREM NotAdoptedByChance == Spec => []AmbiguousNotAdopted
<1>1. HistoryInv => AmbiguousNotAdopted
  BY DEF HistoryInv, HasFoundOut, OneLeft, AmbiguousNotAdopted, Worker
<1> QED
  BY <1>1, HistoryInvariance, PTL
==============================================================================
