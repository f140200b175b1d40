-------------------------- MODULE MCChannelSession --------------------------
(***************************************************************************)
(* Instances of ChannelSession for TLC: what the data of two sessions is.   *)
(***************************************************************************)
EXTENDS ChannelDuplex

Plain == [nullRequests |-> {}, refusedRequests |-> {},
          nullResponses |-> {}, refusedResponses |-> {}]

OnlyPlain == {Plain}

Second(n) == [session |-> 2, n |-> n]
First(n) == [session |-> 1, n |-> n]

\* The init data, a request or a response of the first session is null or refused; of the
\* second one nothing is, or something else.
MCPayloads ==
    {Plain,
     [Plain EXCEPT !.nullRequests = {First(0)}],
     [Plain EXCEPT !.nullResponses = {First(1)}],
     [Plain EXCEPT !.nullRequests = {First(1)}, !.nullResponses = {Second(1)}],
     [Plain EXCEPT !.refusedRequests = {First(1)}, !.nullRequests = {Second(0)}],
     [Plain EXCEPT !.refusedResponses = {First(1)}, !.refusedRequests = {Second(1)}]}
=============================================================================
