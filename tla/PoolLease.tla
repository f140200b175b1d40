------------------------------ MODULE PoolLease ------------------------------
(***************************************************************************)
(* The pool as an implementation of WorkerLease.  A run leases the worker on*)
(* its ticket until it gives the slot back; the idle workers are those of   *)
(* the available slots.                                                     *)
(***************************************************************************)
EXTENDS PoolExecutor

Idle == {slots[i].handle : i \in {j \in DOMAIN slots : slots[j].available}}

LeaseOf == [r \in Runs |-> IF r \in Outstanding THEN ticket[r].handle ELSE 0]

Lease == INSTANCE WorkerLease WITH made <- created, idle <- Idle, lease <- LeaseOf

\* For a client that keeps MaxOutstanding <= InitialSize and aborts with care,
\* every step of the pool is a step of the lease protocol.
ImplementsLease == Lease!Spec
=============================================================================
