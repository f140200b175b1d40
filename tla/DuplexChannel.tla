---------------------------- MODULE DuplexChannel ----------------------------
(***************************************************************************)
(* What a session with a channel worker promises: two first-in first-out    *)
(* streams, each ending once.  The client's requests reach the worker       *)
(* function in order, and it learns that there are no more after the last;  *)
(* its responses reach the client in order, and the client learns that there*)
(* are no more after the last.  Requests and responses are numbered; those  *)
(* that nobody reads any more may be lost.  Nothing is promised any more    *)
(* once the session shares its worker, or its worker was terminated, or if  *)
(* some of its data is null or refused.                                     *)
(***************************************************************************)
EXTENDS Naturals

VARIABLES
    sent,       \* how many requests the client has sent
    closed,     \* whether it has dropped its sender
    taken,      \* how many requests the worker function has received
    made,       \* how many responses it has sent
    returned,   \* whether it has returned
    delivered,  \* how many responses have arrived
    ended,      \* whether the client's receiver is disconnected
    alone       \* the session has its worker to itself, the worker lives, and the
                \* session's data can be told from the end of a stream and posted

state == <<sent, closed, taken, made, returned, delivered, ended>>
vars == <<state, alone>>

Init ==
    /\ sent = 0 /\ taken = 0 /\ made = 0 /\ delivered = 0
    /\ ~closed /\ ~returned /\ ~ended
    /\ alone = TRUE

Send ==
    /\ ~closed
    /\ sent' = sent + 1
    /\ UNCHANGED <<closed, taken, made, returned, delivered, ended>>

Close ==
    /\ ~closed
    /\ closed' = TRUE
    /\ UNCHANGED <<sent, taken, made, returned, delivered, ended>>

Take ==
    /\ ~returned
    /\ taken < sent
    /\ taken' = taken + 1
    /\ UNCHANGED <<sent, closed, made, returned, delivered, ended>>

Make ==
    /\ ~returned
    /\ made' = made + 1
    /\ UNCHANGED <<sent, closed, taken, returned, delivered, ended>>

Return ==
    /\ ~returned
    /\ returned' = TRUE
    /\ UNCHANGED <<sent, closed, taken, made, delivered, ended>>

Deliver ==
    /\ ~ended
    /\ delivered < made
    /\ delivered' = delivered + 1
    /\ UNCHANGED <<sent, closed, taken, made, returned, ended>>

\* Only after every response.
End ==
    /\ ~ended
    /\ returned
    /\ delivered = made
    /\ ended' = TRUE
    /\ UNCHANGED <<sent, closed, taken, made, returned, delivered>>

Progress == Send \/ Close \/ Take \/ Make \/ Return \/ Deliver \/ End

\* The promise ends once and for all, not in the middle of a step of its own.
Void == alone /\ ~alone' /\ UNCHANGED <<sent, closed>>

AfterVoid == ~alone /\ ~alone'

Next ==
    \/ alone /\ Progress /\ UNCHANGED alone
    \/ Void
    \/ AfterVoid

Spec == Init /\ [][Next]_vars
=============================================================================
