-------------------------- MODULE MachineBacking --------------------------
(***************************************************************************)
(* What the driver promises the machine controller manager about the       *)
(* instances that back machine objects, with no request, no call and no    *)
(* eventual consistency in sight: an instance belongs to one machine from  *)
(* the start, a machine adopts one of its own instances at most once, and  *)
(* the driver removes an instance only when its machine has no use for it. *)
(***************************************************************************)
CONSTANTS VM, Machine, NoVM

VARIABLES
    phase,       \* the life cycle of each machine object
    providerID,  \* the instance each machine adopted, or NoVM
    owned,       \* the instances ever launched for each machine
    live,        \* the instances that run
    removed      \* the instances the driver terminated

vars == <<phase, providerID, owned, live, removed>>

Init ==
    /\ phase = [m \in Machine |-> "creating"]
    /\ providerID = [m \in Machine |-> NoVM]
    /\ owned = [m \in Machine |-> {}]
    /\ live = {}
    /\ removed = {}

\* A machine's creation, or a request that outlived it, launches an
\* instance that no machine had before.
Launch(m, v) ==
    /\ \A n \in Machine : v \notin owned[n]
    /\ owned' = [owned EXCEPT ![m] = @ \cup {v}]
    /\ live' = live \cup {v}
    /\ UNCHANGED <<phase, providerID, removed>>

Adopt(m, v) ==
    /\ phase[m] = "creating" /\ providerID[m] = NoVM
    /\ v \in owned[m]
    /\ providerID' = [providerID EXCEPT ![m] = v]
    /\ UNCHANGED <<phase, owned, live, removed>>

BecomeReady(m) ==
    /\ phase[m] = "creating" /\ providerID[m] # NoVM
    /\ phase' = [phase EXCEPT ![m] = "ready"]
    /\ UNCHANGED <<providerID, owned, live, removed>>

Retire(m) ==
    /\ phase[m] \in {"creating", "ready"}
    /\ phase' = [phase EXCEPT ![m] = "deleting"]
    /\ UNCHANGED <<providerID, owned, live, removed>>

Finish(m) ==
    /\ phase[m] = "deleting"
    /\ phase' = [phase EXCEPT ![m] = "gone"]
    /\ UNCHANGED <<providerID, owned, live, removed>>

\* The driver terminates an instance of a machine that is being deleted or
\* is gone, or a duplicate of the one a ready machine adopted.
Remove(m, v) ==
    /\ \/ phase[m] \in {"deleting", "gone"}
       \/ phase[m] = "ready" /\ providerID[m] # v
    /\ v \in owned[m] \cap live
    /\ live' = live \ {v}
    /\ removed' = removed \cup {v}
    /\ UNCHANGED <<phase, providerID, owned>>

\* An instance may end without the driver.
Lose(v) ==
    /\ v \in live
    /\ live' = live \ {v}
    /\ UNCHANGED <<phase, providerID, owned, removed>>

\* Most of what the driver does changes nothing here.
Unseen == UNCHANGED vars

Next ==
    \/ Unseen
    \/ \E m \in Machine :
          \/ BecomeReady(m) \/ Retire(m) \/ Finish(m)
          \/ \E v \in VM : Launch(m, v) \/ Adopt(m, v) \/ Remove(m, v)
    \/ \E v \in VM : Lose(v)

Spec == Init /\ [][Next]_vars
==========================================================================
