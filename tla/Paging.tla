------------------------------- MODULE Paging -------------------------------
(***************************************************************************)
(* How ListMachines and getMachineInstancesByTagsAndStatus list instances: *)
(* page after page through the paginator of the AWS SDK, while instances   *)
(* are launched, terminated and lost, and EC2 makes up its mind.           *)
(*                                                                         *)
(* EC2 goes through the instances in an order of its own, which is that of *)
(* their numbers here; a new instance may take any place in it.  A token   *)
(* is the place up to which the pages so far have come.                    *)
(***************************************************************************)
EXTENDS EC2, Integers

CONSTANTS
    Last,       \* the last place in EC2's order
    Repeats     \* EC2 may answer with the token it was given

ASSUME LastAssumption == Last \in Nat \ {0} /\ VM = 1..Last
ASSUME RepeatsAssumption == Repeats \in BOOLEAN

VARIABLES
    stage,      \* of the listing: idle, open, done, failed
    asked,      \* the machine it is about, or NoMachine for all of them
    pageCount,  \* the pages read so far
    token,      \* the paginator's nextToken
    instances,  \* what the pages so far have shown
    window      \* history: what all of EC2 agreed on when the listing began

callVars == <<stage, asked, pageCount, token, instances, window>>
vars == <<ec2Vars, callVars>>

NoToken == 0    \* nil

TypeOK ==
    /\ EC2TypeOK
    /\ stage \in {"idle", "open", "done", "failed"}
    /\ asked \in Machine \cup {NoMachine}
    /\ pageCount \in Nat
    /\ token \in 0..(Last - 1)
    /\ instances \in SUBSET VM
    /\ window \in Windows
    /\ stage \in {"idle", "failed"} => instances = {}

Init ==
    /\ EC2Init
    /\ stage = "idle"
    /\ asked = NoMachine
    /\ pageCount = 0
    /\ token = NoToken
    /\ instances = {}
    /\ window = NoWindow

---------------------------------------------------------------------------

\* The filters of the two methods: with and without the machine's name.
Matching(m) == IF m = NoMachine THEN Launched ELSE Named(m)

Begin(m) ==
    /\ stage = "idle" /\ stage' = "open"
    /\ asked' = m
    /\ window' = Opened(Matching(m))
    /\ UNCHANGED <<ec2Vars, pageCount, token, instances>>

firstPage == pageCount = 0

HasMorePages == firstPage \/ token # NoToken

\* Mutant of NextToken: the option StopOnDuplicateToken is not set.
NextToken_Trusting(answered) == answered

\* The paginator drops a token it has just used.
NextToken(answered) == IF answered = token THEN NoToken ELSE answered

\* What EC2 may say after a page that ends at place k: the token of that
\* place, no token after the last one, or the token of the request again.
Tokens(k) ==
    {IF k = Last THEN NoToken ELSE k} \cup {t \in {token} : Repeats /\ t # NoToken}

\* Mutant of Gathered: a page takes the place of the pages before it.
Gathered_Last(page) == page

Gathered(page) == instances \cup page

\* A page goes on from the token, for as long as EC2 likes.
NextPage ==
    /\ stage = "open" /\ HasMorePages
    /\ \E k \in (token + 1)..Last :
          /\ \E page \in Views({v \in Matching(asked) : token < v /\ v <= k}) :
                instances' = Gathered(page)
          /\ \E answered \in Tokens(k) :
                /\ token' = NextToken(answered)
                /\ window' = IF answered = token /\ token # NoToken
                             THEN Curtailed(window)
                             ELSE window
    /\ pageCount' = pageCount + 1
    /\ UNCHANGED <<ec2Vars, stage, asked>>

\* Mutant of PageFails: the loop ends and what was read is answered.
PageFails_Break ==
    /\ stage = "open" /\ HasMorePages
    /\ stage' = "done"
    /\ UNCHANGED <<ec2Vars, asked, pageCount, token, instances, window>>

\* Mutant of PageFails: what was read is answered beside the error.
PageFails_Partial ==
    /\ stage = "open" /\ HasMorePages
    /\ stage' = "failed"
    /\ UNCHANGED <<ec2Vars, asked, pageCount, token, instances, window>>

\* An error on any page fails the method, and the pages before it are lost.
PageFails ==
    /\ stage = "open" /\ HasMorePages
    /\ stage' = "failed" /\ instances' = {}
    /\ UNCHANGED <<ec2Vars, asked, pageCount, token, window>>

Return ==
    /\ stage = "open" /\ ~HasMorePages
    /\ stage' = "done"
    /\ UNCHANGED <<ec2Vars, asked, pageCount, token, instances, window>>

\* The caller has the answer.
Hangup ==
    /\ stage \in {"done", "failed"} /\ stage' = "idle"
    /\ asked' = NoMachine
    /\ pageCount' = 0
    /\ token' = NoToken
    /\ instances' = {}
    /\ window' = NoWindow
    /\ UNCHANGED ec2Vars

Next ==
    \/ \E m \in Machine \cup {NoMachine} : Begin(m)
    \/ NextPage \/ PageFails \/ Return \/ Hangup
    \/ InstancesChange /\ UNCHANGED callVars

Spec == Init /\ [][Next]_vars

---------------------------------------------------------------------------
(* Properties.                                                             *)

\* Instance v lies on one of the pages read so far.
Passed(v) == ~firstPage /\ (token = NoToken \/ v <= token)

\* The inductive invariant behind ImplementsListing.  What all of EC2 agreed on
\* when the listing began it has not unlearned, and of what it still agrees on
\* the pages so far have missed nothing, wherever they were cut and whatever
\* was launched, terminated or lost between them.
Inv ==
    /\ TypeOK
    /\ \A v \in VM : life[v] = "free" <=> name[v] = NoMachine
    /\ stage = "idle" => firstPage
    /\ firstPage => token = NoToken /\ instances = {}
    /\ \A v \in window.must : life[v] # "free" /\ (life[v] = "live" => settled[v])
    /\ \A v \in window.gone : settled[v] /\ life[v] \notin {"free", "live"}
    /\ pageCount <= IF token = NoToken THEN Last ELSE token
    /\ instances \subseteq Matching(asked)
    /\ instances \cap window.gone = {}
    /\ stage = "open" =>
          \A v \in Matching(asked) \cap window.must :
              Settled(v) /\ Passed(v) => v \in instances

\* A listing read page by page, over instances that come and go between the
\* pages, keeps the promise MachineDriver relies on: it hides no instance that
\* EC2 knew all along, shows none that was gone before it began, and is never
\* half an answer (core.go:640, core_util.go:151).
Promise == INSTANCE Listing WITH answer <- IF stage = "done" THEN instances ELSE {}

ImplementsListing == Promise!Spec

\* A listing reads no more pages than there are places in EC2's order, so it
\* ends, even when EC2 answers a token with the same token.
ListingIsBounded == pageCount <= Last
==========================================================================
