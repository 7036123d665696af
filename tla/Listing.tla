------------------------------ MODULE Listing ------------------------------
(***************************************************************************)
(* What a listing of instances promises its caller: whatever happens to    *)
(* the instances while it goes on, it shows none that was gone when it     *)
(* began and every one that all of EC2 knew from its beginning to its end; *)
(* of the others it shows any.  Or it fails and shows nothing.             *)
(*                                                                         *)
(* MachineDriver relies on no more than this, and Paging provides it.      *)
(***************************************************************************)
EXTENDS EC2

CONSTANT Repeats    \* EC2 may repeat a token

VARIABLES
    stage,      \* of the listing: idle, open, done, failed
    asked,      \* the machine it is about, or NoMachine for all of them
    window,     \* what all of EC2 agreed on when it began
    answer      \* what it shows

listingVars == <<stage, asked, window, answer>>
vars == <<ec2Vars, listingVars>>

\* The instances whose tags match.
Matching(m) == IF m = NoMachine THEN Launched ELSE Named(m)

Init ==
    /\ EC2Init
    /\ stage = "idle"
    /\ asked = NoMachine
    /\ window = NoWindow
    /\ answer = {}

Begin(m) ==
    /\ stage = "idle" /\ stage' = "open"
    /\ asked' = m
    /\ window' = Opened(Matching(m))
    /\ UNCHANGED <<ec2Vars, answer>>

Curtail ==
    /\ Repeats /\ stage = "open"
    /\ window' = Curtailed(window)
    /\ UNCHANGED <<ec2Vars, stage, asked, answer>>

Answer ==
    /\ stage = "open" /\ stage' = "done"
    /\ answer' \in Listings(Matching(asked), window)
    /\ UNCHANGED <<ec2Vars, asked, window>>

Fail ==
    /\ stage = "open" /\ stage' = "failed"
    /\ UNCHANGED <<ec2Vars, asked, window, answer>>

Take ==
    /\ stage \in {"done", "failed"} /\ stage' = "idle"
    /\ asked' = NoMachine
    /\ window' = NoWindow
    /\ answer' = {}
    /\ UNCHANGED ec2Vars

Next ==
    \/ \E m \in Machine \cup {NoMachine} : Begin(m)
    \/ Curtail \/ Answer \/ Fail \/ Take
    \/ InstancesChange /\ UNCHANGED listingVars

Spec == Init /\ [][Next]_vars
==========================================================================
