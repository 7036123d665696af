------------------------- MODULE NetworkSetup_proofs -------------------------
(***************************************************************************)
(* For a class with any number of interfaces, on any EC2: what a step of   *)
(* the two methods leaves done, and that they answer OK only when it is.   *)
(***************************************************************************)
EXTENDS NetworkSetup, TLAPS

---------------------------------------------------------------------------
(* The class.                                                              *)

LEMMA ClassTypes ==
    /\ N \in Nat \ {0}
    /\ \A i \in 1..N : /\ Interfaces[i].device \in Nat \cup {None}
                       /\ Interfaces[i].efa \in BOOLEAN
                       /\ Interfaces[i].prefixes \in Nat \cup {None}
<1> DEFINE Interface == [device : Nat \cup {None}, efa : BOOLEAN,
                         prefixes : Nat \cup {None}]
<1>1. Interfaces \in Seq(Interface) /\ Interfaces # <<>>
  BY InterfacesAssumption
<1> HIDE DEF Interface
<1>2. Len(Interfaces) \in Nat /\ Len(Interfaces) # 0
  BY <1>1
<1>3. \A i \in 1..Len(Interfaces) : Interfaces[i] \in Interface
  BY <1>1
<1> QED
  BY <1>2, <1>3 DEF N, Interface

LEMMA NType == N \in Nat \ {0} /\ 1 \in 1..N
BY ClassTypes

LEMMA AskedTypes ==
    \A i \in 1..N : /\ DeviceIndex(i) \in Nat
                    /\ PrefixCount(i) \in Nat \cup {None}
                    /\ LookedUp(i) \in Nat /\ Asked(i) \in Nat
<1> SUFFICES ASSUME NEW i \in 1..N
             PROVE  /\ DeviceIndex(i) \in Nat
                    /\ PrefixCount(i) \in Nat \cup {None}
                    /\ LookedUp(i) \in Nat /\ Asked(i) \in Nat
  OBVIOUS
<1>1. DeviceIndex(i) \in Nat
  BY ClassTypes DEF DeviceIndex
<1>2. DeviceIndex(i) < N => DeviceIndex(i) + 1 \in 1..N
  BY <1>1, ClassTypes
<1>3. PrefixCount(i) \in Nat \cup {None}
  BY <1>2, ClassTypes DEF PrefixCount
<1> QED
  BY <1>1, <1>3, ClassTypes DEF LookedUp, Asked

---------------------------------------------------------------------------
(* What the steps change on the interfaces.                                *)

LEMMA EniTypes ==
    ASSUME NEW e \in Enis
    PROVE  /\ e.check \in [1..N -> BOOLEAN]
           /\ e.prefixes \in [1..N -> 0..Slots]
           /\ \A i \in 1..N : e.prefixes[i] \in Nat
<1>1. e.check \in [1..N -> BOOLEAN] /\ e.prefixes \in [1..N -> 0..Slots]
  BY DEF Enis
<1>2. 0..Slots \subseteq Nat
  BY BoundsAssumption
<1> QED
  BY <1>1, <1>2

LEMMA NewEnisType == NewEnis \in Enis
BY BoundsAssumption DEF NewEnis, Enis

\* One check is disabled, or none.
LEMMA Modified ==
    ASSUME TypeOK, ModifyNetworkInterfaceAttribute
    PROVE  /\ at \in 1..N
           /\ eni' \in Enis
           /\ eni'.prefixes = eni.prefixes
           /\ \A i \in 1..N : eni'.check[i] => eni.check[i]
           /\ Interfaces[at].efa \/ ~eni'.check[at]
<1>0. at \in 1..N
  BY ClassTypes DEF TypeOK, ModifyNetworkInterfaceAttribute
<1>e. /\ eni \in Enis /\ eni.check \in [1..N -> BOOLEAN]
      /\ eni.prefixes \in [1..N -> 0..Slots]
  BY EniTypes DEF TypeOK
<1>1. CASE Interfaces[at].efa
  BY <1>0, <1>1, <1>e DEF ModifyNetworkInterfaceAttribute
<1>2. CASE ~Interfaces[at].efa
  <2>1. eni' = [eni EXCEPT !.check[at] = FALSE]
    BY <1>2 DEF ModifyNetworkInterfaceAttribute
  <2>2. /\ eni'.check = [eni.check EXCEPT ![at] = FALSE]
        /\ eni'.prefixes = eni.prefixes
    BY <2>1, <1>e DEF Enis
  <2>3. eni' \in Enis
    BY <2>1, <1>e DEF Enis
  <2> QED
    BY <1>0, <1>e, <2>2, <2>3
<1> QED
  BY <1>1, <1>2

\* One interface gets what it lacked, by what was read, or none does.
LEMMA Assigned ==
    ASSUME TypeOK, AssignIpv6Addresses
    PROVE  /\ at \in 1..N
           /\ eni' \in Enis
           /\ eni'.check = eni.check
           /\ \/ eni' = eni
              \/ /\ PrefixesDiffer(at, target)
                 /\ PrefixCount(at) \in Nat
                 /\ PrefixCount(at) > target.prefixes[at]
                 /\ eni'.prefixes = [eni.prefixes EXCEPT ![at] =
                                        eni.prefixes[at] + (PrefixCount(at) - target.prefixes[at])]
<1>0. at \in 1..N
  BY ClassTypes DEF TypeOK, AssignIpv6Addresses
<1>e. /\ eni \in Enis /\ eni.check \in [1..N -> BOOLEAN]
      /\ eni.prefixes \in [1..N -> 0..Slots] /\ eni.prefixes[at] \in Nat
      /\ target.prefixes[at] \in Nat
  BY <1>0, EniTypes DEF TypeOK
<1>1. CASE ~PrefixesDiffer(at, target)
  BY <1>0, <1>1, <1>e DEF AssignIpv6Addresses
<1>2. CASE PrefixesDiffer(at, target) /\ ~(Missing(at) > 0 /\ eni.prefixes[at] + Missing(at) <= Slots)
  BY <1>0, <1>2, <1>e DEF AssignIpv6Addresses
<1>3. CASE PrefixesDiffer(at, target) /\ Missing(at) > 0 /\ eni.prefixes[at] + Missing(at) <= Slots
  <2>1. PrefixCount(at) \in Nat
    BY <1>0, <1>3, AskedTypes DEF PrefixesDiffer
  <2>2. Missing(at) = PrefixCount(at) - target.prefixes[at]
    BY DEF Missing
  <2>3. eni' = [eni EXCEPT !.prefixes[at] = eni.prefixes[at] + Missing(at)]
    BY <1>3 DEF AssignIpv6Addresses
  <2>4. eni.prefixes[at] + Missing(at) \in 0..Slots
    BY <1>3, <1>e, <2>1, <2>2, BoundsAssumption
  <2>5. /\ eni'.check = eni.check
        /\ eni'.prefixes = [eni.prefixes EXCEPT ![at] = eni.prefixes[at] + Missing(at)]
    BY <2>3, <1>e DEF Enis
  <2>6. eni' \in Enis
    BY <2>3, <2>4, <1>e DEF Enis
  <2>7. PrefixCount(at) > target.prefixes[at]
    BY <1>3, <1>e, <2>1, <2>2
  <2> QED
    BY <1>0, <1>3, <2>1, <2>2, <2>5, <2>6, <2>7
<1> QED
  BY <1>1, <1>2, <1>3

---------------------------------------------------------------------------
(* Types.                                                                  *)

LEMMA TypeInit == Init => TypeOK
<1> SUFFICES ASSUME Init
             PROVE  TypeOK
  OBVIOUS
<1>1. at \in 1..(IF pc = "modify" THEN N + 1 ELSE N)
  BY NType DEF Init
<1>2. crashes \in 0..MaxCrashes
  BY BoundsAssumption DEF Init
<1> QED
  BY <1>1, <1>2, NewEnisType DEF Init, TypeOK

LEMMA TypeStep == TypeOK /\ [Next]_vars => TypeOK'
<1> SUFFICES ASSUME TypeOK, [Next]_vars
             PROVE  TypeOK'
  OBVIOUS
<1> USE NType
<1>1. CASE GetMachineStatus
  BY <1>1 DEF GetMachineStatus, Done, TypeOK
<1>2. CASE Describe
  <2>1. target' \in Enis
    BY <1>2 DEF Describe, Shown, TypeOK
  <2>2. pc = "describe" /\ pc' \in {"modify", "assign"} /\ at' = at /\ at \in 1..N
    BY <1>2 DEF Describe, TypeOK
  <2>3. at' \in 1..(IF pc' = "modify" THEN N + 1 ELSE N)
    BY <2>2
  <2> QED
    BY <1>2, <2>1, <2>2, <2>3 DEF Describe, TypeOK
<1>3. CASE ModifyNetworkInterfaceAttribute
  <2>1. eni' \in Enis /\ at \in 1..N
    BY <1>3, Modified
  <2>2. lastErr' \in BOOLEAN
    BY <1>3 DEF ModifyNetworkInterfaceAttribute, TypeOK
  <2> QED
    BY <1>3, <2>1, <2>2 DEF ModifyNetworkInterfaceAttribute, TypeOK
<1>4. CASE ChecksModified
  BY <1>4 DEF ChecksModified, Failed, TypeOK
<1>5. CASE AssignIpv6Addresses
  <2>1. eni' \in Enis /\ at \in 1..N
    BY <1>5, Assigned
  <2>2. (AssignNext \/ Failed) /\ pc = "assign"
    BY <1>5 DEF AssignIpv6Addresses
  <2>3. /\ pc' \in {"status", "assign"} /\ at' \in 1..N /\ ready' \in BOOLEAN
    <3>1. CASE Failed
      BY <3>1 DEF Failed
    <3>2. CASE AssignNext /\ at < N
      BY <2>1, <2>2, <3>2 DEF AssignNext, TypeOK
    <3>3. CASE AssignNext /\ ~(at < N)
      BY <3>3 DEF AssignNext, Done
    <3> QED
      BY <2>2, <3>1, <3>2, <3>3
  <2> QED
    BY <1>5, <2>1, <2>3 DEF AssignIpv6Addresses, TypeOK
<1>6. CASE RequestFails
  <2>1. CASE Failed /\ UNCHANGED lastErr
    BY <1>6, <2>1 DEF RequestFails, Failed, TypeOK
  <2>2. CASE pc = "modify" /\ at <= N /\ lastErr' = TRUE /\ at' = at + 1 /\ UNCHANGED <<pc, ready>>
    BY <1>6, <2>2 DEF RequestFails, TypeOK
  <2> QED
    BY <1>6, <2>1, <2>2 DEF RequestFails
<1>7. CASE Crash
  <2>1. crashes' \in 0..MaxCrashes
    BY <1>7, BoundsAssumption DEF Crash, TypeOK
  <2> QED
    BY <1>7, <2>1 DEF Crash, Failed, TypeOK
<1>8. CASE CatchUp
  BY <1>8 DEF CatchUp, callVars, TypeOK
<1>9. CASE UNCHANGED vars
  BY <1>9 DEF vars, TypeOK
<1> QED
  BY <1>1, <1>2, <1>3, <1>4, <1>5, <1>6, <1>7, <1>8, <1>9
     DEF Next, Progress, Finished

\* Every state is well typed, whatever the class and EC2's limit are.
THEOREM TypeCorrect == Spec => []TypeOK
<1> QED
  BY TypeInit, TypeStep, PTL DEF Spec

---------------------------------------------------------------------------
(* The invariant.                                                          *)

LEMMA Numbers ==
    ASSUME TypeOK, NEW i \in 1..N
    PROVE  /\ eni.prefixes[i] \in Nat /\ shown.prefixes[i] \in Nat
           /\ target.prefixes[i] \in Nat
           /\ eni.check[i] \in BOOLEAN /\ shown.check[i] \in BOOLEAN
           /\ target.check[i] \in BOOLEAN
<1>1. eni \in Enis /\ shown \in Enis /\ target \in Enis
  BY DEF TypeOK
<1> QED
  BY <1>1, EniTypes

\* Prefixes are only added and checks only disabled.
LEMMA Grows ==
    ASSUME TypeOK, [Next]_vars, NEW i \in 1..N
    PROVE  eni'.prefixes[i] >= eni.prefixes[i] /\ (eni'.check[i] => eni.check[i])
<1>1. CASE ModifyNetworkInterfaceAttribute
  BY <1>1, Modified, Numbers
<1>2. CASE AssignIpv6Addresses
  <2>1. CASE eni' = eni
    BY <2>1, Numbers
  <2>2. CASE eni' # eni
    <3>1. /\ at \in 1..N /\ eni'.check = eni.check
          /\ PrefixCount(at) \in Nat /\ PrefixCount(at) > target.prefixes[at]
          /\ eni'.prefixes = [eni.prefixes EXCEPT ![at] =
                                 eni.prefixes[at] + (PrefixCount(at) - target.prefixes[at])]
      BY <1>2, <2>2, Assigned
    <3>2. eni.prefixes \in [1..N -> 0..Slots]
      BY EniTypes DEF TypeOK
    <3>3. /\ eni.prefixes[at] \in Nat /\ target.prefixes[at] \in Nat
          /\ eni.prefixes[i] \in Nat
      BY <3>1, Numbers
    <3>4. eni'.prefixes[i] = IF i = at
                             THEN eni.prefixes[at] + (PrefixCount(at) - target.prefixes[at])
                             ELSE eni.prefixes[i]
      BY <3>1, <3>2
    <3> QED
      BY <3>1, <3>3, <3>4
  <2> QED
    BY <2>1, <2>2
<1>3. CASE UNCHANGED eni
  BY <1>3, Numbers
<1> QED
  BY <1>1, <1>2, <1>3
     DEF Next, Progress, GetMachineStatus, Describe, ChecksModified, RequestFails,
         Crash, CatchUp, Finished, vars

\* So what was true of them stays true, and what was seen stays behind.
LEMMA Lasting ==
    ASSUME TypeOK, [Next]_vars
    PROVE  /\ ChecksOff => ChecksOff'
           /\ PrefixesThere => PrefixesThere'
           /\ Behind(shown) => \A i \in 1..N : /\ shown.prefixes[i] <= eni'.prefixes[i]
                                               /\ eni'.check[i] => shown.check[i]
           /\ Behind(target) => \A i \in 1..N : /\ target.prefixes[i] <= eni'.prefixes[i]
                                                /\ eni'.check[i] => target.check[i]
<1>1. TypeOK'
  BY TypeStep
<1>2. \A i \in 1..N : /\ eni.prefixes[i] \in Nat /\ eni'.prefixes[i] \in Nat
                      /\ shown.prefixes[i] \in Nat /\ target.prefixes[i] \in Nat
                      /\ Asked(i) \in Nat
  <2> SUFFICES ASSUME NEW i \in 1..N
               PROVE  /\ eni.prefixes[i] \in Nat /\ eni'.prefixes[i] \in Nat
                      /\ shown.prefixes[i] \in Nat /\ target.prefixes[i] \in Nat
                      /\ Asked(i) \in Nat
    OBVIOUS
  <2>1. eni' \in Enis
    BY <1>1 DEF TypeOK
  <2> QED
    BY <2>1, Numbers, AskedTypes, EniTypes
<1>3. \A i \in 1..N : eni'.prefixes[i] >= eni.prefixes[i] /\ (eni'.check[i] => eni.check[i])
  BY Grows
<1>4. ChecksOff => ChecksOff'
  BY <1>3 DEF ChecksOff
<1>5. PrefixesThere => PrefixesThere'
  BY <1>2, <1>3 DEF PrefixesThere
<1>6. Behind(shown) => \A i \in 1..N : /\ shown.prefixes[i] <= eni'.prefixes[i]
                                       /\ eni'.check[i] => shown.check[i]
  BY <1>2, <1>3 DEF Behind
<1>7. Behind(target) => \A i \in 1..N : /\ target.prefixes[i] <= eni'.prefixes[i]
                                        /\ eni'.check[i] => target.check[i]
  BY <1>2, <1>3 DEF Behind
<1> QED
  BY <1>4, <1>5, <1>6, <1>7

LEMMA BehindStep ==
    ASSUME TypeOK, Behind(shown), Behind(target), [Next]_vars
    PROVE  Behind(shown)' /\ Behind(target)'
<1>1. \A i \in 1..N : /\ shown.prefixes[i] <= eni'.prefixes[i]
                      /\ eni'.check[i] => shown.check[i]
  BY Lasting
<1>2. \A i \in 1..N : /\ target.prefixes[i] <= eni'.prefixes[i]
                      /\ eni'.check[i] => target.check[i]
  BY Lasting
<1>3. \A i \in 1..N : eni.prefixes[i] <= eni.prefixes[i]
  BY Numbers
<1>4. shown' = shown \/ (shown' = eni /\ eni' = eni)
  BY DEF Next, Progress, GetMachineStatus, Describe, ModifyNetworkInterfaceAttribute,
         ChecksModified, AssignIpv6Addresses, RequestFails, Crash, CatchUp, Finished, vars
<1>5. target' = target \/ (target' \in {eni, shown} /\ eni' = eni)
  BY DEF Next, Progress, GetMachineStatus, Describe, ModifyNetworkInterfaceAttribute,
         ChecksModified, AssignIpv6Addresses, RequestFails, Crash, CatchUp, Finished, vars,
         callVars, Shown
<1>6. Behind(shown)'
  BY <1>1, <1>3, <1>4 DEF Behind
<1>7. Behind(target)'
  BY <1>1, <1>2, <1>3, <1>5 DEF Behind
<1> QED
  BY <1>6, <1>7

LEMMA InvInit ==
    ASSUME Init
    PROVE  Inv
<1>1. TypeOK
  BY TypeInit
<1>2. \A i \in 1..N : NewEnis.prefixes[i] = 0
  BY DEF NewEnis
<1>3. Behind(shown) /\ Behind(target)
  BY <1>2 DEF Init, Behind
<1>4. NoExcessLookedUp
  BY <1>2, AskedTypes DEF Init, NoExcessLookedUp
<1> QED
  BY <1>1, <1>3, <1>4
     DEF Init, Inv, ReadIsFresh, LoopsBeginAtOne, ChecksDone, PrefixesDone, ChecksPassed, ReadyHasLookedUp

\* An interface that was seen with what its entry says has what was asked for.
LEMMA SeenIsThere ==
    ASSUME TypeOK, NEW seen \in {eni, shown, target}, Behind(seen),
           NEW i \in 1..N, ~PrefixesDiffer(i, seen)
    PROVE  eni.prefixes[i] >= LookedUp(i)
<1>1. seen.prefixes[i] \in Nat /\ eni.prefixes[i] \in Nat
  BY Numbers
<1>2. seen.prefixes[i] <= eni.prefixes[i]
  BY DEF Behind
<1> QED
  BY <1>1, <1>2 DEF PrefixesDiffer, LookedUp

\* After its turn of the loop an interface has what was asked for, and no more
\* if what was read is still so.
LEMMA AssignedIsThere ==
    ASSUME TypeOK, Behind(target), AssignIpv6Addresses,
           PrefixesDiffer(at, target) => eni' # eni
    PROVE  /\ eni'.prefixes[at] >= LookedUp(at)
           /\ \A i \in 1..N \ {at} : eni'.prefixes[i] = eni.prefixes[i]
           /\ target.prefixes[at] = eni.prefixes[at] /\ eni.prefixes[at] <= LookedUp(at)
                 => eni'.prefixes[at] <= LookedUp(at)
<1>0. at \in 1..N
  BY Assigned
<1>1. CASE eni' = eni
  <2>1. ~PrefixesDiffer(at, target)
    BY <1>1
  <2> QED
    BY <1>0, <1>1, <2>1, SeenIsThere
<1>2. CASE eni' # eni
  <2>1. /\ PrefixesDiffer(at, target)
        /\ PrefixCount(at) \in Nat
        /\ eni'.prefixes = [eni.prefixes EXCEPT ![at] =
                               eni.prefixes[at] + (PrefixCount(at) - target.prefixes[at])]
    BY <1>2, Assigned
  <2>2. LookedUp(at) = PrefixCount(at)
    BY <2>1 DEF PrefixesDiffer, LookedUp
  <2>3. eni.prefixes \in [1..N -> 0..Slots]
    BY EniTypes DEF TypeOK
  <2>4. /\ eni'.prefixes[at] = eni.prefixes[at] + (PrefixCount(at) - target.prefixes[at])
        /\ \A i \in 1..N \ {at} : eni'.prefixes[i] = eni.prefixes[i]
    BY <1>0, <2>1, <2>3
  <2>5. /\ eni.prefixes[at] \in Nat /\ target.prefixes[at] \in Nat
        /\ target.prefixes[at] <= eni.prefixes[at]
    BY <1>0, Numbers DEF Behind
  <2> QED
    BY <2>1, <2>2, <2>4, <2>5
<1> QED
  BY <1>1, <1>2

\* The conjuncts that are left when types and what was seen are settled.
Work == ReadIsFresh /\ LoopsBeginAtOne /\ ChecksDone /\ PrefixesDone
        /\ ChecksPassed /\ NoExcessLookedUp /\ ReadyHasLookedUp

\* A call that ends in failure claims nothing.
LEMMA FailureKeepsWork ==
    ASSUME Inv, Failed, UNCHANGED <<consistent, eni>>
    PROVE  Work'
<1>1. NoExcessLookedUp'
  BY DEF Inv, NoExcessLookedUp
<1> QED
  BY <1>1
     DEF Failed, Work, ReadIsFresh, LoopsBeginAtOne, ChecksDone, PrefixesDone,
         ChecksPassed, ReadyHasLookedUp

LEMMA StatusKeepsWork ==
    ASSUME Inv, GetMachineStatus
    PROVE  Work'
<1>1. pc' \in {"describe", "status"} /\ UNCHANGED <<consistent, eni>>
  BY DEF GetMachineStatus, Done
<1>2. ReadyHasLookedUp'
  <2>1. CASE ready' = ready
    BY <1>1, <2>1 DEF Inv, ReadyHasLookedUp
  <2>2. CASE ready' # ready
    <3>1. PICK found \in Shown : \A i \in 1..N : ~PrefixesDiffer(i, found)
      BY <2>2 DEF GetMachineStatus
    <3>2. found \in {eni, shown, target}
      BY DEF Shown
    <3>3. Behind(found)
      BY <3>2, Numbers DEF Shown, Inv, Behind
    <3>4. \A i \in 1..N : eni.prefixes[i] >= LookedUp(i)
      BY <3>1, <3>2, <3>3, SeenIsThere DEF Inv
    <3> QED
      BY <1>1, <3>4 DEF ReadyHasLookedUp
  <2> QED
    BY <2>1, <2>2
<1>3. NoExcessLookedUp'
  BY <1>1 DEF Inv, NoExcessLookedUp
<1>4. at' = 1
  BY DEF GetMachineStatus, Done, Inv, LoopsBeginAtOne
<1> QED
  BY <1>1, <1>2, <1>3, <1>4
     DEF Work, ReadIsFresh, LoopsBeginAtOne, ChecksDone, PrefixesDone, ChecksPassed

LEMMA DescribeKeepsWork ==
    ASSUME Inv, Describe
    PROVE  Work'
<1>1. /\ pc' = IF DisableChecks /\ InstanceCheck(target') THEN "modify" ELSE "assign"
      /\ UNCHANGED <<consistent, eni, ready>>
  BY DEF Describe
<1>2. at' = 1
  BY DEF Describe, Inv, LoopsBeginAtOne
<1>3. ReadIsFresh'
  BY <1>1 DEF Describe, Shown, ReadIsFresh
<1>4. LoopsBeginAtOne' /\ ChecksDone' /\ PrefixesDone'
  BY <1>1, <1>2 DEF LoopsBeginAtOne, ChecksDone, PrefixesDone
<1>5. ChecksPassed'
  BY <1>1 DEF ChecksPassed, ChecksOff
<1>6. NoExcessLookedUp' /\ ReadyHasLookedUp'
  BY <1>1 DEF Inv, NoExcessLookedUp, ReadyHasLookedUp
<1> QED
  BY <1>3, <1>4, <1>5, <1>6 DEF Work

LEMMA ModifyKeepsWork ==
    ASSUME Inv, ModifyNetworkInterfaceAttribute
    PROVE  Work'
<1>1. /\ at \in 1..N /\ eni'.prefixes = eni.prefixes
      /\ \A i \in 1..N : eni'.check[i] => eni.check[i]
      /\ Interfaces[at].efa \/ ~eni'.check[at]
  BY Modified DEF Inv
<1>2. /\ pc = "modify" /\ pc' = "modify" /\ at' = at + 1
      /\ UNCHANGED <<consistent, target, ready>>
  BY DEF ModifyNetworkInterfaceAttribute
<1>3. lastErr => lastErr'
  BY DEF ModifyNetworkInterfaceAttribute, Inv, TypeOK
<1>4. ReadIsFresh'
  BY <1>1, <1>2 DEF Inv, ReadIsFresh
<1>5. ChecksDone'
  <2>1. 1..((at + 1) - 1) = (1..(at - 1)) \cup {at} /\ 1..(at - 1) \subseteq 1..N
    BY <1>1, NType
  <2>2. lastErr' \/ \A i \in 1..(at - 1) : Interfaces[i].efa \/ ~eni'.check[i]
    BY <1>1, <1>2, <1>3, <2>1 DEF Inv, ChecksDone
  <2> QED
    BY <1>1, <1>2, <2>1, <2>2 DEF ChecksDone
<1>6. NoExcessLookedUp' /\ ReadyHasLookedUp'
  BY <1>1, <1>2 DEF Inv, NoExcessLookedUp, ReadyHasLookedUp
<1> QED
  BY <1>2, <1>4, <1>5, <1>6 DEF Work, LoopsBeginAtOne, PrefixesDone, ChecksPassed

LEMMA ModifiedKeepsWork ==
    ASSUME Inv, ChecksModified
    PROVE  Work'
<1>1. CASE lastErr
  BY <1>1, FailureKeepsWork DEF ChecksModified
<1>2. CASE ~lastErr
  <2>1. /\ pc = "modify" /\ pc' = "assign" /\ at = N + 1 /\ at' = 1
        /\ UNCHANGED <<consistent, eni, target, ready>>
    BY <1>2 DEF ChecksModified
  <2>2. ChecksOff
    BY <1>2, <2>1, NType DEF Inv, ChecksDone, ChecksOff
  <2>3. ReadIsFresh'
    BY <2>1 DEF Inv, ReadIsFresh
  <2>4. LoopsBeginAtOne' /\ ChecksDone' /\ PrefixesDone'
    BY <2>1 DEF LoopsBeginAtOne, ChecksDone, PrefixesDone
  <2>5. ChecksPassed'
    BY <2>1, <2>2 DEF ChecksPassed, ChecksOff
  <2>6. NoExcessLookedUp' /\ ReadyHasLookedUp'
    BY <2>1 DEF Inv, NoExcessLookedUp, ReadyHasLookedUp
  <2> QED
    BY <2>3, <2>4, <2>5, <2>6 DEF Work
<1> QED
  BY <1>1, <1>2

LEMMA AssignKeepsWork ==
    ASSUME Inv, AssignIpv6Addresses
    PROVE  Work'
<1>0. TypeOK /\ Behind(target) /\ at \in 1..N /\ pc = "assign" /\ UNCHANGED <<consistent, target>>
  BY Assigned DEF Inv, AssignIpv6Addresses
<1>1. CASE Failed /\ eni' = eni
  BY <1>0, <1>1, FailureKeepsWork
<1>2. CASE PrefixesDiffer(at, target) => eni' # eni
  <2>1. /\ eni'.prefixes[at] >= LookedUp(at)
        /\ \A i \in 1..N \ {at} : eni'.prefixes[i] = eni.prefixes[i]
        /\ target.prefixes[at] = eni.prefixes[at] /\ eni.prefixes[at] <= LookedUp(at)
              => eni'.prefixes[at] <= LookedUp(at)
    BY <1>0, <1>2, AssignedIsThere
  <2>2. NoExcessLookedUp'
    <3> SUFFICES ASSUME consistent, NEW i \in 1..N
                 PROVE  eni'.prefixes[i] <= LookedUp(i)
      BY <1>0 DEF NoExcessLookedUp
    <3>1. eni.prefixes[i] <= LookedUp(i)
      BY DEF Inv, NoExcessLookedUp
    <3>2. target.prefixes[at] = eni.prefixes[at]
      BY <1>0 DEF Inv, ReadIsFresh
    <3> QED
      BY <2>1, <3>1, <3>2
  <2>3. \A i \in 1..at : eni'.prefixes[i] >= LookedUp(i)
    BY <1>0, <2>1, NType DEF Inv, PrefixesDone
  <2>4. eni'.check = eni.check
    BY <1>0, Assigned
  <2>5. AssignNext \/ Failed
    BY <1>0 DEF AssignIpv6Addresses
  <2>6. CASE AssignNext /\ at < N
    <3>1. at' = at + 1 /\ pc' = pc /\ ready' = ready
      BY <2>6 DEF AssignNext
    <3>2. ReadIsFresh'
      BY <1>0, <2>1, <3>1 DEF Inv, ReadIsFresh
    <3>3. PrefixesDone'
      BY <1>0, <2>3, <3>1, NType DEF PrefixesDone
    <3>4. ChecksPassed'
      BY <1>0, <2>4, <3>1 DEF Inv, ChecksPassed, ChecksOff, InstanceCheck
    <3>5. ReadyHasLookedUp'
      <4> SUFFICES ASSUME ready, NEW i \in 1..N
                   PROVE  eni'.prefixes[i] >= LookedUp(i)
        BY <3>1 DEF ReadyHasLookedUp
      <4>1. eni.prefixes[i] >= LookedUp(i)
        BY DEF Inv, ReadyHasLookedUp
      <4> QED
        BY <2>1, <4>1
    <3> QED
      BY <1>0, <2>2, <3>1, <3>2, <3>3, <3>4, <3>5 DEF Work, LoopsBeginAtOne, ChecksDone
  <2>7. CASE AssignNext /\ ~(at < N)
    <3>1. ready' /\ pc' = "status" /\ at' = 1 /\ at = N
      BY <1>0, <2>7, NType DEF AssignNext, Done
    <3>2. ReadyHasLookedUp'
      BY <2>3, <3>1 DEF ReadyHasLookedUp
    <3> QED
      BY <2>2, <3>1, <3>2
         DEF Work, ReadIsFresh, LoopsBeginAtOne, ChecksDone, PrefixesDone, ChecksPassed
  <2>8. CASE Failed
    BY <2>2, <2>8
       DEF Failed, Work, ReadIsFresh, LoopsBeginAtOne, ChecksDone, PrefixesDone,
           ChecksPassed, ReadyHasLookedUp
  <2> QED
    BY <2>5, <2>6, <2>7, <2>8
<1>3. ASSUME PrefixesDiffer(at, target), eni' = eni
      PROVE  Failed
  <2> SUFFICES ASSUME Missing(at) > 0,
                      eni' = [eni EXCEPT !.prefixes[at] = eni.prefixes[at] + Missing(at)]
               PROVE  FALSE
    BY <1>3 DEF AssignIpv6Addresses
  <2>1. /\ eni.prefixes[at] \in Nat /\ target.prefixes[at] \in Nat
        /\ eni \in Enis /\ eni.prefixes \in [1..N -> 0..Slots]
    BY <1>0, Numbers, EniTypes DEF TypeOK
  <2>2. PrefixCount(at) \in Nat
    BY <1>0, <1>3, AskedTypes DEF PrefixesDiffer
  <2>3. eni'.prefixes = [eni.prefixes EXCEPT ![at] = eni.prefixes[at] + Missing(at)]
    BY <1>0, <2>1 DEF Enis
  <2>4. eni'.prefixes[at] = eni.prefixes[at] + Missing(at)
    BY <1>0, <2>1, <2>3
  <2>5. Missing(at) \in Int
    BY <2>1, <2>2 DEF Missing
  <2>6. eni'.prefixes[at] = eni.prefixes[at]
    BY <1>3
  <2> HIDE DEF Missing
  <2> QED
    BY <2>1, <2>4, <2>5, <2>6
<1> QED
  BY <1>0, <1>1, <1>2, <1>3

LEMMA InvStep ==
    ASSUME Inv, [Next]_vars
    PROVE  Inv'
<1>1. TypeOK'
  BY TypeStep DEF Inv
<1>2. Behind(shown)' /\ Behind(target)'
  BY BehindStep DEF Inv
<1>3. Work'
  <2>1. CASE GetMachineStatus
    BY <2>1, StatusKeepsWork
  <2>2. CASE Describe
    BY <2>2, DescribeKeepsWork
  <2>3. CASE ModifyNetworkInterfaceAttribute
    BY <2>3, ModifyKeepsWork
  <2>4. CASE ChecksModified
    BY <2>4, ModifiedKeepsWork
  <2>5. CASE AssignIpv6Addresses
    BY <2>5, AssignKeepsWork
  <2>6. CASE RequestFails
    <3>1. CASE Failed
      BY <2>6, <3>1, FailureKeepsWork DEF RequestFails
    <3>2. CASE ~Failed
      <4>1. /\ pc = "modify" /\ pc' = "modify" /\ lastErr'
            /\ UNCHANGED <<consistent, eni, target, ready>>
        BY <2>6, <3>2 DEF RequestFails
      <4> QED
        BY <4>1
           DEF Inv, Work, ReadIsFresh, LoopsBeginAtOne, ChecksDone, PrefixesDone,
               ChecksPassed, NoExcessLookedUp,
               ReadyHasLookedUp
    <3> QED
      BY <3>1, <3>2
  <2>7. CASE Crash
    BY <2>7, FailureKeepsWork DEF Crash
  <2>8. CASE UNCHANGED <<consistent, eni, callVars>>
    BY <2>8
       DEF callVars, Inv, Work, ReadIsFresh, LoopsBeginAtOne, ChecksDone, PrefixesDone,
           ChecksPassed, ChecksOff, NoExcessLookedUp,
           ReadyHasLookedUp
  <2> QED
    BY <2>1, <2>2, <2>3, <2>4, <2>5, <2>6, <2>7, <2>8
       DEF Next, Progress, CatchUp, Finished, vars, callVars
<1> QED
  BY <1>1, <1>2, <1>3 DEF Inv, Work

\* Inv is an inductive invariant, for every class: what the methods take for
\* done is done, at the entries they look up.
THEOREM Invariance == Spec => []Inv
<1>1. Inv /\ [Next]_vars => Inv'
  BY InvStep
<1> QED
  BY <1>1, InvInit, PTL DEF Spec

\* While EC2 shows what is, every number of prefixes that InitializeMachine asks
\* for is what the interface lacks, whatever was lost or tried before.
THEOREM NoRequestRefused == Spec => []AsksForTheRest
<1>1. Inv => AsksForTheRest
  <2> SUFFICES ASSUME Inv, consistent, pc = "assign", PrefixesDiffer(at, target)
               PROVE  Missing(at) > 0 /\ eni.prefixes[at] + Missing(at) = PrefixCount(at)
    BY DEF AsksForTheRest
  <2>1. at \in 1..N
    BY NType DEF Inv, TypeOK
  <2>2. target.prefixes[at] = eni.prefixes[at] /\ eni.prefixes[at] <= LookedUp(at)
    BY <2>1 DEF Inv, ReadIsFresh, NoExcessLookedUp
  <2>3. PrefixCount(at) # None /\ target.prefixes[at] # PrefixCount(at)
    BY DEF PrefixesDiffer
  <2>4. eni.prefixes[at] \in Nat /\ PrefixCount(at) \in Nat
    BY <2>1, <2>3, Numbers, AskedTypes DEF Inv
  <2> QED
    BY <2>2, <2>3, <2>4 DEF LookedUp, Missing
<1> QED
  BY <1>1, Invariance, PTL

\* InitializeMachine answers OK, after it saw the check enabled, only when every
\* check is disabled, whatever device indexes the class sets.
THEOREM InitializeSound == Spec => InitializeIsSound
<1>1. Inv /\ [Next]_vars =>
          [pc = "assign" /\ ready' /\ InstanceCheck(target) /\ DisableChecks => ChecksOff]_vars
  BY DEF Inv, ChecksPassed
<1> QED
  BY <1>1, Invariance, PTL DEF Spec, InitializeIsSound

---------------------------------------------------------------------------
(* Classes for which the methods look up the right entries.                *)

\* Classes that leave the device indexes to CreateMachine are among them.
LEMMA PlacedLooksUpItsOwn == Placed => LooksUpItsOwn
<1> SUFFICES ASSUME Placed, NEW i \in 1..N
             PROVE  LookedUp(i) = Asked(i)
  BY DEF LooksUpItsOwn
<1>1. DeviceIndex(i) = i - 1
  BY DEF Placed
<1>2. PrefixCount(i) = Interfaces[i].prefixes
  BY <1>1, ClassTypes DEF PrefixCount
<1> QED
  BY <1>2 DEF LookedUp, Asked

\* A machine that MCM takes for initialized has all its prefixes, however many
\* interfaces it has and whatever old state EC2 showed.
THEOREM PrefixesCorrect ==
    ASSUME LooksUpItsOwn
    PROVE  Spec => []ReadyHasPrefixes
<1>1. Inv => ReadyHasPrefixes
  BY DEF Inv, ReadyHasLookedUp, ReadyHasPrefixes, PrefixesThere, LooksUpItsOwn
<1> QED
  BY <1>1, Invariance, PTL

\* While EC2 shows what is, no interface gets more than the class asks for.
THEOREM NoExcess ==
    ASSUME LooksUpItsOwn
    PROVE  Spec => []NoExcessWhenConsistent
<1>1. Inv => NoExcessWhenConsistent
  BY DEF Inv, NoExcessLookedUp, NoExcessWhenConsistent, NoExcessPrefixes, LooksUpItsOwn
<1> QED
  BY <1>1, Invariance, PTL

\* For any other class it is not a matter of timing: with EC2 showing what is,
\* no machine ever gets ready with the prefixes its class asks for.
THEOREM WrongEntriesWrongPrefixes ==
    ASSUME ~LooksUpItsOwn
    PROVE  Spec => [](consistent /\ ready => \E i \in 1..N : eni.prefixes[i] # Asked(i))
<1>1. Inv => (consistent /\ ready => \E i \in 1..N : eni.prefixes[i] # Asked(i))
  <2> SUFFICES ASSUME Inv, consistent, ready
               PROVE  \E i \in 1..N : eni.prefixes[i] # Asked(i)
    OBVIOUS
  <2>1. PICK i \in 1..N : LookedUp(i) # Asked(i)
    BY DEF LooksUpItsOwn
  <2>2. eni.prefixes[i] <= LookedUp(i) /\ eni.prefixes[i] >= LookedUp(i)
    BY DEF Inv, NoExcessLookedUp, ReadyHasLookedUp
  <2>3. eni.prefixes[i] \in Nat /\ LookedUp(i) \in Nat
    BY Numbers, AskedTypes DEF Inv
  <2> QED
    BY <2>1, <2>2, <2>3
<1> QED
  BY <1>1, Invariance, PTL

\* GetMachineStatus answers OK only for what is so.
THEOREM StatusSound ==
    ASSUME LooksUpItsOwn
    PROVE  Spec => StatusIsSound
<1>1. Inv /\ [Next]_vars =>
          [pc = "status" /\ ~ready /\ ready' => ChecksOff /\ PrefixesThere]_vars
  <2> SUFFICES ASSUME Inv, [Next]_vars, pc = "status", ~ready, ready'
               PROVE  ChecksOff /\ PrefixesThere
    OBVIOUS
  <2>1. GetMachineStatus
    BY DEF Next, Progress, Describe, ModifyNetworkInterfaceAttribute, ChecksModified,
           AssignIpv6Addresses, RequestFails, Failed, Crash, CatchUp, callVars, Finished,
           vars
  <2>2. PICK found \in Shown : /\ ~(DisableChecks /\ HasCheck(found))
                               /\ \A i \in 1..N : ~PrefixesDiffer(i, found)
    BY <2>1 DEF GetMachineStatus
  <2>3. found \in {eni, shown, target} /\ Behind(found)
    BY Numbers DEF Shown, Inv, Behind
  <2>4. PrefixesThere
    BY <2>2, <2>3, SeenIsThere DEF Inv, PrefixesThere, LooksUpItsOwn
  <2>5. ChecksOff
    BY <2>2, <2>3 DEF HasCheck, Behind, ChecksOff
  <2> QED
    BY <2>4, <2>5
<1> QED
  BY <1>1, Invariance, PTL DEF Spec, StatusIsSound
==============================================================================
