--------------------------- MODULE Paging_proofs ---------------------------
(***************************************************************************)
(* A listing read page by page keeps the promise of Listing, and ends, for *)
(* any number of instances and machines and wherever EC2 cuts the pages.   *)
(***************************************************************************)
EXTENDS Paging, TLAPS

\* An instance is never without a machine's name once it was launched.
Tagged == \A v \in VM : life[v] = "free" <=> name[v] = NoMachine

\* All of EC2 knows that v runs, or v is gone.
Known(v) == life[v] # "free" /\ (life[v] = "live" => settled[v])

\* All of EC2 knows that v is gone.
Gone(v) == settled[v] /\ life[v] \notin {"free", "live"}

---------------------------------------------------------------------------
(* What changes EC2 changes one instance, and never back.                  *)

\* How instance u may look after the change of one instance.
Kept(u) ==
    /\ life[u] # "free" => name'[u] = name[u] /\ life'[u] # "free"
    /\ Known(u) => Known(u)'
    /\ Gone(u) => Gone(u)'
    /\ life[u] # "free" /\ life'[u] = "live" => life[u] = "live"

LEMMA LaunchKeeps ==
    ASSUME EC2TypeOK, Tagged, NEW m \in Machine, NEW v \in VM, Launch(m, v)
    PROVE  EC2TypeOK' /\ Tagged' /\ \A u \in VM : Kept(u)
<1>1. EC2TypeOK'
  BY DEF EC2TypeOK, LifeState, Launch
<1>2. /\ life' = [life EXCEPT ![v] = "live"] /\ name' = [name EXCEPT ![v] = m]
      /\ settled' = [settled EXCEPT ![v] = FALSE] /\ life[v] = "free"
  BY DEF Launch
<1>3. Tagged'
  BY <1>2, NoMachineAssumption DEF Tagged, EC2TypeOK
<1>4. \A u \in VM : Kept(u)
  BY <1>2 DEF Kept, Known, Gone, EC2TypeOK
<1> QED
  BY <1>1, <1>3, <1>4

LEMMA EndKeeps ==
    ASSUME EC2TypeOK, Tagged, NEW v \in VM, Terminate(v) \/ Lose(v)
    PROVE  EC2TypeOK' /\ Tagged' /\ \A u \in VM : Kept(u)
<1>1. \/ /\ life[v] = "live" /\ settled' = [settled EXCEPT ![v] = FALSE]
         /\ \/ life' = [life EXCEPT ![v] = "terminated"]
            \/ life' = [life EXCEPT ![v] = "lost"]
         /\ lacks' = [lacks EXCEPT ![v] = Setup]
         /\ UNCHANGED name
      \/ UNCHANGED ec2Vars
  BY DEF Terminate, Lose, ec2Vars
<1>2. EC2TypeOK'
  BY <1>1 DEF EC2TypeOK, LifeState, ec2Vars
<1>3. Tagged'
  BY <1>1 DEF Tagged, EC2TypeOK, ec2Vars
<1>4. \A u \in VM : Kept(u)
  BY <1>1 DEF Kept, Known, Gone, EC2TypeOK, ec2Vars
<1> QED
  BY <1>2, <1>3, <1>4

LEMMA SettleKeeps ==
    ASSUME EC2TypeOK, Tagged, NEW v \in VM, Settle(v)
    PROVE  EC2TypeOK' /\ Tagged' /\ \A u \in VM : Kept(u)
BY DEF EC2TypeOK, Settle, Tagged, Kept, Known, Gone

LEMMA ChangeKeeps ==
    ASSUME EC2TypeOK, Tagged, InstancesChange
    PROVE  EC2TypeOK' /\ Tagged' /\ \A u \in VM : Kept(u)
BY LaunchKeeps, EndKeeps, SettleKeeps DEF InstancesChange

\* The filters are about names, which do not change.
LEMMA MatchingGrows ==
    ASSUME NEW a \in Machine \cup {NoMachine}, Tagged, \A u \in VM : Kept(u)
    PROVE  /\ Matching(a) \cap Launched \subseteq Matching(a)'
           /\ \A u \in Matching(a)' : life[u] # "free" => u \in Matching(a)
BY DEF Matching, Launched, Named, Kept

\* Only launched instances have a machine's name.
LEMMA MatchingLaunched ==
    ASSUME NEW a \in Machine \cup {NoMachine}, Tagged
    PROVE  Matching(a) \subseteq Launched
BY NoMachineAssumption DEF Matching, Launched, Named, Tagged

---------------------------------------------------------------------------
(* The invariant.                                                          *)

LEMMA InvInit == Init => Inv
<1> SUFFICES ASSUME Init PROVE Inv
  OBVIOUS
<1>1. TypeOK
  BY LastAssumption DEF Init, EC2Init, TypeOK, EC2TypeOK, LifeState, NoToken,
                        NoWindow, Windows
<1> QED
  BY <1>1, LastAssumption DEF Init, EC2Init, Inv, firstPage, NoToken, NoWindow

LEMMA WindowOpens ==
    ASSUME NEW a \in Machine \cup {NoMachine}, Tagged
    PROVE  /\ Opened(Matching(a)) \in Windows
           /\ \A v \in Opened(Matching(a)).must : Known(v)
           /\ \A v \in Opened(Matching(a)).gone : Gone(v)
<1>1. Matching(a) \subseteq Launched
  BY MatchingLaunched
<1> QED
  BY <1>1 DEF Opened, Windows, Launched, Settled, Known, Gone

LEMMA InvBegin ==
    ASSUME Inv, NEW m \in Machine \cup {NoMachine}, Begin(m)
    PROVE  Inv'
<1>1. /\ window' \in Windows
      /\ \A v \in window'.must : Known(v)
      /\ \A v \in window'.gone : Gone(v)
  BY WindowOpens DEF Inv, Tagged, Begin
<1>2. /\ stage = "idle" /\ stage' = "open" /\ asked' = m
      /\ UNCHANGED <<life, name, settled, lacks, pageCount, token, instances>>
  BY DEF Begin, ec2Vars
<1>3. token = NoToken /\ pageCount = 0 /\ instances = {}
  BY <1>2 DEF Inv, firstPage
<1>4. TypeOK'
  BY <1>1, <1>2, <1>3 DEF Inv, TypeOK, EC2TypeOK
<1>5. \A v \in VM : Known(v)' = Known(v) /\ Gone(v)' = Gone(v)
  BY <1>2 DEF Known, Gone
<1>6. window'.must \subseteq VM /\ window'.gone \subseteq VM
  BY <1>1 DEF Windows
<1>7. \A v \in VM : ~Passed(v)'
  BY <1>2, <1>3 DEF Passed, firstPage
<1>8. Matching(asked)' \subseteq VM
  BY <1>2 DEF Matching, Launched, Named
<1> QED
  BY <1>1, <1>2, <1>3, <1>4, <1>5, <1>6, <1>7, <1>8, LastAssumption
  DEF Inv, Known, Gone, firstPage, NoToken

LEMMA PageTypes ==
    ASSUME Inv, NextPage
    PROVE  /\ UNCHANGED <<life, name, settled, lacks, stage, asked>>
           /\ stage = "open" /\ HasMorePages
           /\ pageCount' = pageCount + 1
           /\ window' \in {window, Curtailed(window)}
           /\ \E k \in (token + 1)..Last :
                 /\ \E page \in Views({v \in Matching(asked) : token < v /\ v <= k}) :
                       instances' = instances \cup page
                 /\ \/ k = Last /\ token' = NoToken /\ window' = window
                    \/ token' = k /\ k # Last /\ window' = window
                    \/ token' = NoToken /\ window' = Curtailed(window)
<1>1. token \in 0..(Last - 1) /\ Last \in Nat
  BY LastAssumption DEF Inv, TypeOK
<1>2. PICK k \in (token + 1)..Last :
          /\ \E page \in Views({v \in Matching(asked) : token < v /\ v <= k}) :
                instances' = Gathered(page)
          /\ \E answered \in Tokens(k) :
                /\ token' = NextToken(answered)
                /\ window' = IF answered = token /\ token # NoToken
                             THEN Curtailed(window)
                             ELSE window
  BY DEF NextPage
<1>3. PICK answered \in Tokens(k) :
          /\ token' = NextToken(answered)
          /\ window' = IF answered = token /\ token # NoToken
                       THEN Curtailed(window)
                       ELSE window
  BY <1>2
<1>4. \/ k = Last /\ token' = NoToken /\ window' = window
      \/ token' = k /\ k # Last /\ window' = window
      \/ token' = NoToken /\ window' = Curtailed(window)
  BY <1>1, <1>3 DEF Tokens, NextToken, NoToken
<1>5. window' \in {window, Curtailed(window)}
  BY <1>3
<1> QED
  BY <1>2, <1>4, <1>5 DEF NextPage, ec2Vars, Gathered

\* A page shows what the filter lets through, nothing that is gone, and
\* everything between its two tokens that all of EC2 knows.
LEMMA InvNextPage ==
    ASSUME Inv, NextPage
    PROVE  Inv'
<1>1. /\ UNCHANGED <<life, name, settled, lacks, stage, asked>>
      /\ stage = "open" /\ HasMorePages
      /\ pageCount' = pageCount + 1
      /\ window' \in {window, Curtailed(window)}
  BY PageTypes
<1>2. PICK k \in (token + 1)..Last :
          /\ \E page \in Views({v \in Matching(asked) : token < v /\ v <= k}) :
                instances' = instances \cup page
          /\ \/ k = Last /\ token' = NoToken /\ window' = window
             \/ token' = k /\ k # Last /\ window' = window
             \/ token' = NoToken /\ window' = Curtailed(window)
  BY PageTypes
<1>3. PICK page \in Views({v \in Matching(asked) : token < v /\ v <= k}) :
          instances' = instances \cup page
  BY <1>2
<1>4. /\ token \in 0..(Last - 1) /\ Last \in Nat /\ pageCount \in Nat
      /\ VM = 1..Last /\ window \in Windows /\ k \in 1..Last
  BY LastAssumption DEF Inv, TypeOK
<1>5. /\ window'.gone = window.gone
      /\ window'.must \in {window.must, {}}
      /\ window' \in Windows
      /\ window' = Curtailed(window) => window'.must = {}
  BY <1>1, <1>4 DEF Curtailed, Windows
<1>6. /\ page \subseteq Matching(asked) /\ Matching(asked) \subseteq VM
      /\ \A v \in page : settled[v] => life[v] = "live"
      /\ \A v \in Matching(asked) :
            token < v /\ v <= k /\ Settled(v) => v \in page
  BY <1>3 DEF Views, Matching, Launched, Named, Settled
<1>7. /\ Matching(asked)' = Matching(asked)
      /\ \A v \in VM : Settled(v)' = Settled(v)
  BY <1>1 DEF Matching, Launched, Named, Settled
<1>8. token' \in 0..(Last - 1)
  BY <1>2, <1>4 DEF NoToken
<1>9. TypeOK'
  <2>1. instances' \in SUBSET VM
    BY <1>3, <1>4, <1>6 DEF Inv, TypeOK
  <2>2. pageCount' \in Nat /\ stage' = "open"
    BY <1>1, <1>4
  <2> QED
    BY <1>1, <1>5, <1>8, <2>1, <2>2 DEF Inv, TypeOK, EC2TypeOK
<1>10. pageCount' <= IF token' = NoToken THEN Last ELSE token'
  <2>1. pageCount <= token
    BY <1>1, <1>4 DEF Inv, HasMorePages, firstPage, NoToken
  <2>2. pageCount' <= k /\ k <= Last
    BY <1>1, <1>4, <2>1
  <2>3. token' \in {NoToken, k}
    BY <1>2
  <2> QED
    BY <1>1, <1>4, <2>2, <2>3 DEF NoToken
<1>11. ~firstPage'
  BY <1>1, <1>4 DEF firstPage
<1>12. instances' \cap window'.gone = {} /\ instances' \subseteq Matching(asked)'
  BY <1>3, <1>5, <1>6, <1>7 DEF Inv
<1>13. ASSUME NEW v \in Matching(asked)' \cap window'.must, Settled(v)', Passed(v)'
       PROVE  v \in instances'
  <2>1. v \in Matching(asked) /\ v \in VM /\ Settled(v) /\ v \in window.must
    BY <1>5, <1>6, <1>7, <1>13
  <2>2. window' = window
    BY <1>2, <1>5, <1>13
  <2>3. v <= k
    BY <1>2, <1>4, <1>5, <1>11, <1>13, <2>1 DEF Passed, NoToken
  <2>4. CASE token < v
    BY <1>3, <1>6, <2>1, <2>3, <2>4
  <2>5. CASE v <= token
    <3>1. Passed(v)
      BY <1>1, <1>4, <2>1, <2>5 DEF Passed, HasMorePages, firstPage, Inv, NoToken
    <3> QED
      BY <1>1, <1>3, <2>1, <3>1 DEF Inv
  <2> QED
    BY <1>4, <2>1, <2>4, <2>5
<1> QED
  BY <1>1, <1>5, <1>9, <1>10, <1>11, <1>12, <1>13 DEF Inv, firstPage

\* The ends of a listing, and of the call.
LEMMA InvEnds ==
    ASSUME Inv, PageFails \/ Return \/ Hangup
    PROVE  Inv'
<1>1. UNCHANGED <<life, name, settled, lacks>>
  BY DEF PageFails, Return, Hangup, ec2Vars
<1>2. \A a \in Machine \cup {NoMachine} : Matching(a)' = Matching(a)
  BY <1>1 DEF Matching, Launched, Named
<1>3. CASE PageFails \/ Return
  <2>1. /\ UNCHANGED <<asked, pageCount, token, window>>
        /\ stage' \in {"done", "failed"}
        /\ instances' \in {instances, {}}
        /\ stage' = "failed" => instances' = {}
    BY <1>3 DEF PageFails, Return
  <2>2. TypeOK'
    BY <1>1, <2>1 DEF Inv, TypeOK, EC2TypeOK
  <2>3. instances' \subseteq Matching(asked)'
    BY <1>2, <2>1 DEF Inv, TypeOK
  <2> QED
    BY <1>1, <2>1, <2>2, <2>3 DEF Inv, firstPage
<1>4. CASE Hangup
  <2>1. /\ stage' = "idle" /\ asked' = NoMachine /\ pageCount' = 0
        /\ token' = NoToken /\ instances' = {} /\ window' = NoWindow
    BY <1>4 DEF Hangup
  <2>2. TypeOK'
    BY <1>1, <2>1, LastAssumption
    DEF Inv, TypeOK, EC2TypeOK, NoWindow, Windows, NoToken
  <2> QED
    BY <1>1, <2>1, <2>2, LastAssumption DEF Inv, firstPage, NoWindow, NoToken
<1> QED
  BY <1>3, <1>4

LEMMA InvChange ==
    ASSUME Inv, InstancesChange, UNCHANGED callVars
    PROVE  Inv'
<1>1. EC2TypeOK /\ Tagged /\ asked \in Machine \cup {NoMachine}
  BY DEF Inv, TypeOK, Tagged
<1>2. EC2TypeOK' /\ Tagged' /\ \A u \in VM : Kept(u)
  BY <1>1, ChangeKeeps
<1>3. UNCHANGED <<stage, asked, pageCount, token, instances, window>>
  BY DEF callVars
<1>4. window \in Windows /\ window.must \subseteq VM /\ window.gone \subseteq VM
  BY DEF Inv, TypeOK, Windows
<1>5. TypeOK'
  BY <1>2, <1>3 DEF Inv, TypeOK
<1>6. /\ Matching(asked) \subseteq Matching(asked)'
      /\ \A u \in Matching(asked)' : life[u] # "free" => u \in Matching(asked)
  <2>1. Matching(asked) \subseteq Launched
    BY <1>1, MatchingLaunched
  <2> QED
    BY <1>1, <1>2, <1>3, <2>1, MatchingGrows
<1>7. ASSUME stage = "open", NEW v \in Matching(asked)' \cap window.must,
             Settled(v)', Passed(v)
      PROVE  v \in instances
  <2>1. v \in VM /\ Known(v) /\ life[v] # "free"
    BY <1>4, <1>7 DEF Inv, Known
  <2>2. Settled(v)
    BY <1>2, <1>7, <2>1 DEF Kept, Settled, Known
  <2> QED
    BY <1>6, <1>7, <2>1, <2>2 DEF Inv
<1>8. /\ \A v \in window.must : life'[v] # "free" /\ (life'[v] = "live" => settled'[v])
      /\ \A v \in window.gone : settled'[v] /\ life'[v] \notin {"free", "live"}
  BY <1>2, <1>4 DEF Inv, Kept, Known, Gone
<1> QED
  BY <1>2, <1>3, <1>5, <1>6, <1>7, <1>8 DEF Inv, firstPage, Passed, Tagged

LEMMA InvStep == Inv /\ [Next]_vars => Inv'
<1> SUFFICES ASSUME Inv, [Next]_vars PROVE Inv'
  OBVIOUS
<1>1. CASE UNCHANGED vars
  <2>1. UNCHANGED <<life, name, settled, lacks, stage, asked, pageCount, token,
                    instances, window>>
    BY <1>1 DEF vars, ec2Vars, callVars
  <2> QED
    BY <2>1 DEF Inv, TypeOK, EC2TypeOK, firstPage, Matching, Launched, Named,
                Passed, Settled
<1> QED
  BY <1>1, InvBegin, InvNextPage, InvEnds, InvChange DEF Next

\* What the pages so far have shown is right at every moment: see Inv.
THEOREM Invariance == Spec => []Inv
  BY InvInit, InvStep, PTL DEF Spec

\* Every state is well typed, for any number of instances, pages and machines.
THEOREM TypeCorrect == Spec => []TypeOK
<1>1. Inv => TypeOK
  BY DEF Inv
<1> QED
  BY <1>1, Invariance, PTL

\* A listing reads at most Last pages, however EC2 cuts them and even when it
\* repeats a token: the loop over the paginator's pages ends.
THEOREM Bounded == Spec => []ListingIsBounded
<1>1. Inv => ListingIsBounded
  BY LastAssumption DEF Inv, TypeOK, ListingIsBounded, NoToken
<1> QED
  BY <1>1, Invariance, PTL

---------------------------------------------------------------------------
(* The refinement.                                                         *)

LEMMA PromiseInit == Init => Promise!Init
BY DEF Init, Promise!Init, Promise!EC2Init, EC2Init, Promise!NoWindow, NoWindow

\* With no pages left, what was read is one of the answers Listing allows.
LEMMA PromiseReturn ==
    ASSUME Inv, Return
    PROVE  Promise!Answer
<1>1. /\ stage = "open" /\ stage' = "done" /\ ~firstPage /\ token = NoToken
      /\ UNCHANGED <<ec2Vars, asked, instances, window>>
  BY DEF Return, HasMorePages
<1>2. \A v \in VM : Passed(v)
  BY <1>1 DEF Passed
<1>3. Matching(asked) \subseteq VM
  BY DEF Matching, Launched, Named
<1>4. instances \in Listings(Matching(asked), window)
  BY <1>1, <1>2, <1>3 DEF Inv, Listings
<1>5. Promise!Listings(Promise!Matching(asked), window) = Listings(Matching(asked), window)
  BY DEF Promise!Listings, Listings, Promise!Matching, Matching,
         Promise!Launched, Launched, Promise!Named, Named, Promise!Settled, Settled
<1> QED
  BY <1>1, <1>4, <1>5 DEF Promise!Answer, ec2Vars, Promise!ec2Vars

\* A page is not visible there, or curtails the listing.
LEMMA PromiseNextPage ==
    ASSUME Inv, NextPage
    PROVE  Promise!Curtail \/ UNCHANGED Promise!vars
<1>1. /\ UNCHANGED <<life, name, settled, lacks, stage, asked>>
      /\ stage = "open"
  BY PageTypes
<1>2. \/ window' = window
      \/ Repeats /\ window' = Curtailed(window)
  <2>1. token \in 0..(Last - 1)
    BY DEF Inv, TypeOK
  <2>2. PICK k \in (token + 1)..Last :
            \E answered \in Tokens(k) :
                window' = IF answered = token /\ token # NoToken
                          THEN Curtailed(window)
                          ELSE window
    BY DEF NextPage
  <2>3. token \in Tokens(k) /\ token # NoToken => Repeats
    BY <2>1, <2>2, LastAssumption DEF Tokens, NoToken
  <2> QED
    BY <2>2, <2>3
<1>3. Promise!Curtailed(window) = Curtailed(window)
  BY DEF Promise!Curtailed, Curtailed
<1>4. (IF stage = "done" THEN instances ELSE {})' = IF stage = "done" THEN instances ELSE {}
  BY <1>1
<1> QED
  BY <1>1, <1>2, <1>3, <1>4 DEF Promise!Curtail, Promise!vars, Promise!ec2Vars,
     Promise!listingVars

\* Beginning, failing and taking the answer are the same on both sides.
LEMMA PromiseCall ==
    ASSUME Inv
    PROVE  /\ \A m \in Machine \cup {NoMachine} : Begin(m) => Promise!Begin(m)
           /\ PageFails => Promise!Fail
           /\ Hangup => Promise!Take
<1>1. \A m \in Machine \cup {NoMachine} :
          Promise!Opened(Promise!Matching(m)) = Opened(Matching(m))
  BY DEF Promise!Opened, Opened, Promise!Matching, Matching, Promise!Launched,
         Launched, Promise!Named, Named, Promise!Settled, Settled
<1>2. ASSUME NEW m \in Machine \cup {NoMachine}, Begin(m) PROVE Promise!Begin(m)
  BY <1>1, <1>2 DEF Begin, Promise!Begin, ec2Vars, Promise!ec2Vars
<1>3. PageFails => Promise!Fail
  BY DEF PageFails, Promise!Fail, ec2Vars, Promise!ec2Vars
<1>4. Hangup => Promise!Take
  BY DEF Hangup, Promise!Take, ec2Vars, Promise!ec2Vars, NoWindow, Promise!NoWindow
<1> QED
  BY <1>2, <1>3, <1>4

LEMMA PromiseChange ==
    ASSUME InstancesChange, UNCHANGED callVars
    PROVE  Promise!InstancesChange /\ UNCHANGED Promise!listingVars
<1>1. Promise!InstancesChange
  BY DEF InstancesChange, Promise!InstancesChange, Settle, Promise!Settle, Lose,
         Promise!Lose, Terminate, Promise!Terminate, MaySee, Promise!MaySee,
         Launch, Promise!Launch
<1> QED
  BY <1>1 DEF callVars, Promise!listingVars

LEMMA PromiseStep == Inv /\ [Next]_vars => [Promise!Next]_Promise!vars
<1> SUFFICES ASSUME Inv, [Next]_vars
             PROVE  Promise!Next \/ UNCHANGED Promise!vars
  OBVIOUS
<1>1. CASE UNCHANGED vars
  BY <1>1 DEF vars, callVars, ec2Vars, Promise!vars, Promise!ec2Vars, Promise!listingVars
<1>2. ASSUME NEW m \in Machine \cup {NoMachine}, Begin(m) PROVE Promise!Next
  BY <1>2, PromiseCall DEF Promise!Next
<1>3. CASE NextPage
  BY <1>3, PromiseNextPage DEF Promise!Next
<1>4. CASE PageFails \/ Hangup
  BY <1>4, PromiseCall DEF Promise!Next
<1>5. CASE Return
  BY <1>5, PromiseReturn DEF Promise!Next
<1>6. CASE InstancesChange /\ UNCHANGED callVars
  BY <1>6, PromiseChange DEF Promise!Next
<1> QED
  BY <1>1, <1>2, <1>3, <1>4, <1>5, <1>6 DEF Next

\* The loop over the paginator's pages keeps the promise the rest of the driver
\* is modelled on, wherever EC2 cuts the pages and whatever happens to the
\* instances between them.
THEOREM Refinement == Spec => ImplementsListing
  BY PromiseInit, PromiseStep, Invariance, PTL DEF Spec, ImplementsListing, Promise!Spec
==========================================================================
