----------------------------- MODULE WorkerLease -----------------------------
(***************************************************************************)
(* What a pool of workers promises to the runs it serves: a worker is leased*)
(* to one run at a time.  A run leases an idle worker or one started for it,*)
(* and gives it back, or the worker is retired with it; other workers may be*)
(* stocked at any time.  PoolLease says how the pool implements this.       *)
(***************************************************************************)
EXTENDS Integers

CONSTANT Runs

VARIABLES
    made,   \* how many workers were made
    idle,   \* those nobody leases
    lease   \* lease[r]: the worker run r leases, 0 for none

vars == <<made, idle, lease>>

TypeOK ==
    /\ made \in Nat
    /\ idle \subseteq 1..made
    /\ lease \in [Runs -> 0..made]

Init == made = 0 /\ idle = {} /\ lease = [r \in Runs |-> 0]

Stock ==
    /\ made' \in Nat
    /\ made' >= made
    /\ idle' = idle \union (made + 1)..made'
    /\ UNCHANGED lease

\* Workers that are made and never offered to anybody.
Waste ==
    /\ made' \in Nat
    /\ made' >= made
    /\ UNCHANGED <<idle, lease>>

Take(r) ==
    /\ lease[r] = 0
    /\ \E w \in idle :
        /\ lease' = [lease EXCEPT ![r] = w]
        /\ idle' = idle \ {w}
    /\ UNCHANGED made

TakeNew(r) ==
    /\ lease[r] = 0
    /\ lease' = [lease EXCEPT ![r] = made + 1]
    /\ made' = made + 1
    /\ UNCHANGED idle

GiveBack(r) ==
    /\ lease[r] # 0
    /\ lease' = [lease EXCEPT ![r] = 0]
    /\ idle' = idle \union {lease[r]}
    /\ UNCHANGED made

\* The worker goes with the run; another takes its place.
Retire(r) ==
    /\ lease[r] # 0
    /\ lease' = [lease EXCEPT ![r] = 0]
    /\ made' = made + 1
    /\ idle' = idle \union {made'}

Next ==
    \/ Stock \/ Waste
    \/ \E r \in Runs : Take(r) \/ TakeNew(r) \/ GiveBack(r) \/ Retire(r)

Spec == Init /\ [][Next]_vars

\* No worker is leased twice, and none that is leased is offered to others.
LeaseExclusive ==
    /\ \A r, q \in Runs : r # q /\ lease[r] # 0 => lease[r] # lease[q]
    /\ \A r \in Runs : lease[r] \notin idle
=============================================================================
