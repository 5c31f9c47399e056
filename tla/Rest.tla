---------------------------------- MODULE Rest ---------------------------------
(***************************************************************************)
(* POST /api/v1/results (SubmitResults of controllers/ping.go), the way in *)
(* for miners without a stream, beside the gRPC gateway that uses the same *)
(* nonces.                                                                 *)
(*                                                                         *)
(* A request is a goroutine: several run at once, on one RabbitMQ channel  *)
(* that nobody opens again while the process lives.  The requests are of   *)
(* one owner, whose key the rate limit is for.  A client that goes away    *)
(* cancels the context, and each later call to Redis fails.                *)
(***************************************************************************)
EXTENDS AntiCheat, Sequences, FiniteSets, SequencesExt

CONSTANTS
    Requests,     \* goroutines
    Tasks,        \* nonces
    Batches       \* the job_id of each result: a nonce or anything else

ASSUME RestConstants == \A b \in Batches : b # <<>> /\ b \in Seq(ToSet(b))

VARIABLES
    live,         \* task_nonce: keys
    handler,      \* what each request is at
    ownerRate,    \* ratelimit:node:<RunnerPubkey>
    let,          \* submissions let through in each of the last RateWindow
                  \* seconds, this one first (history)
    chanUp,       \* the channel of the controllers is open
    reported      \* for each id the messages about it in monitor_updates

restVars == <<live, handler, ownerRate, let, chanUp, reported>>

Ids == Tasks \cup UNION {ToSet(b) : b \in Batches}

Idle == [batch |-> <<>>, i |-> 0, w |-> 0]

RestInit ==
    /\ live = Tasks
    /\ handler = [h \in Requests |-> Idle]
    /\ ownerRate = NoKey
    /\ let = [s \in 0..(RateWindow - 1) |-> 0]
    /\ chanUp = TRUE
    /\ reported = [t \in Ids |-> 0]

-----------------------------------------------------------------------------
(* SubmitResults.                                                          *)

\* CheckRateLimit comes before all else.
Submit(h, b) ==
    /\ handler[h] = Idle /\ WithinRate(ownerRate)
    /\ handler' = [handler EXCEPT ![h] = [batch |-> b, i |-> 1, w |-> 0]]
    /\ ownerRate' = RateKey(ownerRate)
    /\ let' = [let EXCEPT ![0] = @ + 1]
    /\ UNCHANGED <<live, chanUp, reported>>

\* 429, also when Redis fails, before the INCR (no change) or after it.
TooMany ==
    /\ \/ ~WithinRate(ownerRate) /\ ownerRate' = RateKey(ownerRate)
       \/ ownerRate' = Incr(ownerRate, RateMax)
    /\ UNCHANGED <<live, handler, let, chanUp, reported>>

\* GET without DEL.
Consumed_Get(t) == live

\* ValidateTaskNonce: GET and DEL in one script.
Consumed(t) == live \ {t}

\* validResults := req.Results[:0], so append writes into the batch itself.
Keep(h) ==
    LET b == handler[h] IN
    /\ b.i \in 1..Len(b.batch) /\ b.batch[b.i] \in live
    /\ live' = Consumed(b.batch[b.i])
    /\ handler' = [handler EXCEPT ![h] =
                     [batch |-> [b.batch EXCEPT ![b.w + 1] = b.batch[b.i]],
                      i |-> b.i + 1, w |-> b.w + 1]]
    /\ UNCHANGED <<ownerRate, let, chanUp, reported>>

\* No such nonce, or Redis fails, before the script has run or after it.
Drop(h) ==
    LET b == handler[h] IN
    /\ b.i \in 1..Len(b.batch)
    /\ \/ b.batch[b.i] \notin live /\ UNCHANGED live
       \/ b.batch[b.i] \in live /\ live' \in {live, Consumed(b.batch[b.i])}
    /\ handler' = [handler EXCEPT ![h].i = @ + 1]
    /\ UNCHANGED <<ownerRate, let, chanUp, reported>>

Valid(h) == SubSeq(handler[h].batch, 1, handler[h].w)

\* 422 without a valid result, 503 if the publish fails, else 202.  Nobody
\* gives the nonces back.
Respond(h) ==
    /\ handler[h].i > Len(handler[h].batch) /\ handler[h] # Idle
    /\ \/ Valid(h) # <<>> /\ chanUp
          /\ reported' = [t \in Ids |-> reported[t]
                              + Cardinality({k \in DOMAIN Valid(h) : Valid(h)[k] = t})]
       \/ UNCHANGED reported
    /\ handler' = [handler EXCEPT ![h] = Idle]
    /\ UNCHANGED <<live, ownerRate, let, chanUp>>

-----------------------------------------------------------------------------
(* What happens around it.                                                 *)

\* handleProbeResult takes the nonce; the result passes the other layers and
\* is published, or not.
GrpcTakes(t) ==
    /\ t \in live
    /\ live' = Consumed(t)
    /\ reported' \in {reported, [reported EXCEPT ![t] = @ + 1]}
    /\ UNCHANGED <<handler, ownerRate, let, chanUp>>

\* External: the nonce runs out.
NonceEnds(t) ==
    /\ t \in live
    /\ live' = live \ {t}
    /\ UNCHANGED <<handler, ownerRate, let, chanUp, reported>>

\* External: the broker closes the channel.
ChannelCloses ==
    /\ chanUp
    /\ chanUp' = FALSE
    /\ UNCHANGED <<live, handler, ownerRate, let, reported>>

\* The process dies with its requests and starts with a new channel.
RestReboot ==
    /\ handler' = [h \in Requests |-> Idle]
    /\ chanUp' = TRUE
    /\ UNCHANGED <<live, ownerRate, let, reported>>

\* External: the clock.
RestSecond ==
    /\ ownerRate' = Lapsed(ownerRate)
    /\ let' = [s \in DOMAIN let |-> IF s = 0 THEN 0 ELSE let[s - 1]]
    /\ UNCHANGED <<live, handler, chanUp, reported>>

RestNext ==
    \/ \E h \in Requests : (\E b \in Batches : Submit(h, b)) \/ Keep(h) \/ Drop(h) \/ Respond(h)
    \/ \E t \in Tasks : GrpcTakes(t) \/ NonceEnds(t)
    \/ TooMany \/ ChannelCloses \/ RestReboot \/ RestSecond

RestSpec == RestInit /\ [][RestNext]_restVars

-----------------------------------------------------------------------------
(* Properties.                                                             *)

(* A nonce brings one result to the exchange, whichever of the two ways it *)
(* takes and however often a batch, concurrent requests or a stream repeat *)
(* it, and a result without a nonce brings none: the batch that is sent is *)
(* what ValidateTaskNonce has let through (ping.go:130-138).               *)
RestOnce ==
    \A t \in Ids : reported[t] <= IF t \in Tasks THEN 1 ELSE 0

(* The limit is per fixed window, which starts with a submission: over any *)
(* RateWindow seconds it lets fewer than twice RateMax through, also when  *)
(* an INCR has gone without its EXPIRE (validator.go:102).                 *)
SubmissionsBounded ==
    SumFunction(let) < 2 * RateMax
=============================================================================
