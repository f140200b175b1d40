------------------------- MODULE WorkerLeaseProofs -------------------------
(***************************************************************************)
(* The lease protocol keeps its promise.                                    *)
(***************************************************************************)
EXTENDS WorkerLease, TLAPS

LInv == TypeOK /\ LeaseExclusive

LEMMA InitLInv == Init => LInv
  BY DEF Init, LInv, TypeOK, LeaseExclusive

LEMMA NextLInv == LInv /\ [Next]_vars => LInv'
<1> SUFFICES ASSUME LInv, [Next]_vars PROVE LInv'
  OBVIOUS
<1> USE DEF LInv, TypeOK, LeaseExclusive
<1>1. CASE Stock
  BY <1>1 DEF Stock
<1>2. CASE Waste
  BY <1>2 DEF Waste
<1>3. ASSUME NEW r \in Runs, Take(r) PROVE LInv'
  BY <1>3 DEF Take
<1>4. ASSUME NEW r \in Runs, TakeNew(r) PROVE LInv'
  <2>1. made + 1 \notin idle /\ \A q \in Runs : lease[q] # made + 1
    OBVIOUS
  <2> QED
    BY <1>4, <2>1 DEF TakeNew
<1>5. ASSUME NEW r \in Runs, GiveBack(r) PROVE LInv'
  <2>1. lease[r] \in 1..made /\ UNCHANGED made
    BY <1>5 DEF GiveBack
  <2>2. \A q \in Runs : lease'[q] = IF q = r THEN 0 ELSE lease[q]
    BY <1>5 DEF GiveBack
  <2>3. idle' = idle \union {lease[r]}
    BY <1>5 DEF GiveBack
  <2>4. TypeOK'
    <3>1. made' = made /\ made \in Nat
      BY <2>1
    <3>2. idle' \subseteq 1..made'
      BY <2>1, <2>3
    <3>3. lease' \in [Runs -> 0..made]
      <4>1. 0 \in 0..made
        BY <3>1
      <4> QED
        BY <1>5, <4>1 DEF GiveBack
    <3> QED
      BY <3>1, <3>2, <3>3
  <2>5. 0 \notin idle /\ 0 \notin idle'
    BY <2>1, <2>3
  <2>6. \A q \in Runs : lease'[q] \notin idle'
    BY <2>1, <2>2, <2>3, <2>5
  <2> QED
    BY <2>2, <2>4, <2>6
<1>6. ASSUME NEW r \in Runs, Retire(r) PROVE LInv'
  BY <1>6 DEF Retire
<1>7. CASE UNCHANGED vars
  BY <1>7 DEF vars
<1> QED
  BY <1>1, <1>2, <1>3, <1>4, <1>5, <1>6, <1>7 DEF Next

\* A worker is leased to one run at a time and is not offered meanwhile.
THEOREM LeasesAreExclusive == Spec => []LeaseExclusive
<1>1. LInv => LeaseExclusive
  BY DEF LInv
<1> QED
  BY <1>1, InitLInv, NextLInv, PTL DEF Spec
=============================================================================
