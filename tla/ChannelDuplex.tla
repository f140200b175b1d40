---------------------------- MODULE ChannelDuplex ----------------------------
(***************************************************************************)
(* A session of ChannelSession as a DuplexChannel, as long as it has a      *)
(* worker of its own.                                                       *)
(***************************************************************************)
EXTENDS ChannelSession

\* The worker of session s, if it was opened, is still there.
Mine(s) == s <= opened /\ on[s] = worker

TakenBy(s) == IF Mine(s) THEN Len(taken) ELSE 0

MadeFor(s) == IF Mine(s) THEN made ELSE 0

\* No data of session s, nor of the responses to it, is null or refused.
PlainSession(s) ==
    \A m \in payload.nullRequests \union payload.refusedRequests
             \union payload.nullResponses \union payload.refusedResponses : m.session # s

OwnWorker(s) == s <= opened => Reaches(s) /\ Alone(s) /\ PlainSession(s)

Duplex(s) == INSTANCE DuplexChannel WITH
    sent      <- sent[s],
    closed    <- sender[s] = "dropped",
    taken     <- TakenBy(s),
    made      <- MadeFor(s),
    returned  <- Mine(s) /\ Over,
    delivered <- Len(answers[s]),
    ended     <- opened >= s /\ ~receiving[s],
    alone     <- OwnWorker(s)

\* The first session, and the last one on a worker that replaced another, are
\* duplex channels, if no data of theirs is null or refused: in particular the client
\* is told the end only after the last response.
ImplementsDuplex ==
    /\ Duplex(1)!Init /\ [][Duplex(1)!Next]_(Duplex(1)!vars)
    /\ Duplex(Sessions)!Init /\ [][Duplex(Sessions)!Next]_(Duplex(Sessions)!vars)
=============================================================================
