------------------------------ MODULE Requests ------------------------------
(***************************************************************************)
(* HTTPCollector.request and the Reddit override of it: the HTTP requests  *)
(* of one call of collect() after the other, with their retries, the       *)
(* semaphore they share, the deadline of the call and the renewal of a     *)
(* rejected token.                                                         *)
(*                                                                         *)
(* Time is counted down: left is what the deadline leaves, nap what a      *)
(* sleep still takes.  An answer may take any time, up to the timeout of   *)
(* the client, which is one of the answers.                                *)
(***************************************************************************)
EXTENDS Integers, Sequences, FiniteSets

CONSTANTS
  Total,        \* requests of a call
  Modes,        \* the collectors to check, see ModeAssumption
  Capacity,     \* max_concurrency
  MaxAttempts,  \* of RetryPolicy
  Backoffs,     \* what base_delay, doubling and jitter can give
  MaxDelay,     \* of RetryPolicy
  RetryAfters,  \* the delays a server asks for
  Deadlines,    \* time a call is given; None for no deadline
  Revocations,  \* how often the server revokes the token
  None

Numbers == 1..Total

(* "fanout": Hacker News, which gathers its requests.  "oauth" and         *)
(* "static": Reddit, one request after the other, which can obtain a new   *)
(* token in the first case only.                                           *)
ASSUME ModeAssumption == Modes \subseteq {"fanout", "oauth", "static"}

ASSUME RequestsAssumption ==
  /\ Total \in Nat \ {0} /\ Capacity \in Nat \ {0} /\ MaxAttempts \in Nat \ {0}
  /\ MaxDelay \in Nat
  /\ Backoffs \subseteq 0..MaxDelay /\ Backoffs # {}
  /\ RetryAfters \subseteq Nat
  /\ Deadlines \subseteq Nat \cup {None} /\ Deadlines # {}
  /\ Revocations \in Nat
  /\ None \notin Nat

VARIABLES
  mode,     \* the collector
  left,     \* time to the deadline
  closed,   \* collect() has raised an error and closed its client
  permits,  \* free permits of the semaphore
  queue,    \* who waits for one, in the order of asyncio.Semaphore
  phase,    \* "new", "queued", "sent", "asleep", "done" or "failed"
  leg,      \* "login", "api", "token" (to renew) or "again" (with the new token)
  attempt,  \* of this leg
  nap,      \* what is left of the sleep
  asked,    \* what is left of the Retry-After of the last answer
  sends,    \* HTTP requests sent for this request, logins not counted
  bearer,   \* the token of the call and of each request, by its number
  token,    \* the token the collector caches
  valid     \* the oldest token the server accepts

work   == <<queue, phase, leg, attempt, nap, asked, sends>>
tokens == <<bearer, token, valid>>
vars   == <<mode, left, closed, permits, work, tokens>>

Lesser(a, b) == IF a <= b THEN a ELSE b

Waiting == {r \in Numbers : phase[r] \in {"queued", "sent", "asleep"}}
Sent == {r \in Numbers : phase[r] = "sent"}

(* The call is over, and so is every task it started. *)
Idle == Waiting = {} /\ (closed \/ \A r \in Numbers : phase[r] = "done")

(* _ensure_deadline *)
Late == left = 0

Init ==
  /\ mode \in Modes
  /\ left \in Deadlines
  /\ closed = FALSE
  /\ permits = Capacity
  /\ queue = << >>
  /\ phase = [r \in Numbers |-> "new"]
  /\ leg = [r \in Numbers |-> "api"]
  /\ attempt = [r \in Numbers |-> 1]
  /\ nap = [r \in Numbers |-> 0]
  /\ asked = [r \in Numbers |-> 0]
  /\ sends = [r \in Numbers |-> 0]
  /\ bearer = [r \in Numbers |-> 0]
  /\ token = 0
  /\ valid = 0

-----------------------------------------------------------------------------
(* The beginning of an attempt, and the end of the request by an error. *)
Queue(r) ==
  /\ phase' = [phase EXCEPT ![r] = IF Late THEN "failed" ELSE "queued"]
  /\ queue' = IF Late THEN queue ELSE Append(queue, r)
  /\ closed' = (closed \/ Late)

Fail(r) ==
  /\ phase' = [phase EXCEPT ![r] = "failed"]
  /\ closed' = TRUE

(* gather starts every request at once; otherwise one follows the other,   *)
(* with the token that was read at the start of the call.  That token may  *)
(* be missing or too old to be used at all.                                *)
Begin(r) ==
  /\ phase[r] = "new"
  /\ ~closed
  /\ mode = "fanout" \/ \A q \in 1..(r - 1) : phase[q] = "done"
  /\ Queue(r)
  /\ \/ UNCHANGED leg
     \/ mode = "oauth" /\ r = 1 /\ leg' = [leg EXCEPT ![r] = "login"]
  /\ UNCHANGED <<mode, left, permits, attempt, nap, asked, sends, tokens>>

(* Variant: the deadline is not looked at again. *)
AcquireUnchecked(r) ==
  /\ queue # << >> /\ r = Head(queue)
  /\ permits > 0
  /\ queue' = Tail(queue)
  /\ \/ /\ closed
        /\ Fail(r)
        /\ UNCHANGED <<permits, sends>>
     \/ /\ ~closed
        /\ phase' = [phase EXCEPT ![r] = "sent"]
        /\ permits' = permits - 1
        /\ sends' = [sends EXCEPT ![r] = IF leg[r] = "login" THEN @ ELSE @ + 1]
        /\ UNCHANGED closed
  /\ UNCHANGED <<mode, left, leg, attempt, nap, asked, tokens>>

(* The deadline is looked at again inside the semaphore, and a client that *)
(* was closed meanwhile refuses the request.                               *)
Acquire(r) ==
  /\ queue # << >> /\ r = Head(queue)
  /\ permits > 0
  /\ queue' = Tail(queue)
  /\ \/ /\ Late \/ closed
        /\ Fail(r)
        /\ UNCHANGED <<permits, sends>>
     \/ /\ ~Late /\ ~closed
        /\ phase' = [phase EXCEPT ![r] = "sent"]
        /\ permits' = permits - 1
        /\ sends' = [sends EXCEPT ![r] = IF leg[r] = "login" THEN @ ELSE @ + 1]
        /\ UNCHANGED closed
  /\ UNCHANGED <<mode, left, leg, attempt, nap, asked, tokens>>

(* Variant: the permit is kept. *)
KeepPermit(r) == phase[r] = "sent" /\ UNCHANGED permits

(* The permit is given back before the answer is looked at. *)
Release(r) == phase[r] = "sent" /\ permits' = permits + 1

-----------------------------------------------------------------------------
Accepted(r) == mode = "fanout" \/ bearer[r] >= valid

(* A status below 400 of the API. *)
Succeed(r) ==
  /\ Release(r)
  /\ leg[r] \in {"api", "again"} /\ Accepted(r)
  /\ phase' = [phase EXCEPT ![r] = "done"]
  /\ asked' = [asked EXCEPT ![r] = 0]
  /\ UNCHANGED <<mode, left, queue, closed, leg, attempt, nap, sends, tokens>>

(* A new token.  A login gives it to the whole call, a renewal to the one  *)
(* request that was rejected, which is made once more.                     *)
Renew(r) ==
  /\ Release(r)
  /\ token' = valid
  /\ \/ /\ leg[r] = "login"
        /\ bearer' = [q \in Numbers |-> valid]
        /\ leg' = [leg EXCEPT ![r] = "api"]
     \/ /\ leg[r] = "token"
        /\ bearer' = [bearer EXCEPT ![r] = valid]
        /\ leg' = [leg EXCEPT ![r] = "again"]
  /\ attempt' = [attempt EXCEPT ![r] = 1]
  /\ Queue(r)
  /\ asked' = [asked EXCEPT ![r] = 0]
  /\ UNCHANGED <<mode, left, nap, sends, valid>>

(* Variant: a request is renewed whenever it is rejected. *)
MayRenewAlways(r) == mode = "oauth"

(* _should_reauthenticate: neither the token request nor the second try. *)
MayRenew(r) == mode = "oauth" /\ leg[r] = "api"

(* 401: the bearer token is not accepted. *)
Reject(r) ==
  /\ Release(r)
  /\ leg[r] \in {"api", "again"} /\ ~Accepted(r)
  /\ \/ /\ ~MayRenew(r)
        /\ Fail(r)
        /\ UNCHANGED <<queue, leg, attempt>>
     \/ /\ MayRenew(r)
        /\ leg' = [leg EXCEPT ![r] = "token"]
        /\ attempt' = [attempt EXCEPT ![r] = 1]
        /\ Queue(r)
  /\ asked' = [asked EXCEPT ![r] = 0]
  /\ UNCHANGED <<mode, left, nap, sends, tokens>>

(* Any other status that is not retried; also a token request refused. *)
Refuse(r) ==
  /\ Release(r)
  /\ Fail(r)
  /\ asked' = [asked EXCEPT ![r] = 0]
  /\ UNCHANGED <<mode, left, queue, leg, attempt, nap, sends, tokens>>

(* Variant: a sleep may last until the deadline. *)
FitsBarely(delay) == left = None \/ delay <= left

(* _sleep_for_retry: the sleep leaves time for another request. *)
Fits(delay) == left = None \/ delay < left

(* The end of the attempts, or a sleep before the next one. *)
Retry(r, delay) ==
  IF attempt[r] >= MaxAttempts \/ ~Fits(delay)
  THEN /\ Fail(r)
       /\ UNCHANGED nap
  ELSE /\ phase' = [phase EXCEPT ![r] = "asleep"]
       /\ nap' = [nap EXCEPT ![r] = delay]
       /\ UNCHANGED closed

(* Variant: the server is not listened to. *)
RetryDelayOwn(after) == Backoffs

(* _retry_delay: what the server asks for, within reason, or the backoff. *)
RetryDelay(after) ==
  IF after = None THEN Backoffs ELSE {Lesser(after, MaxDelay)}

(* A status that is retried, a rate limit among them. *)
Busy(r, after) ==
  /\ Release(r)
  /\ \E delay \in RetryDelay(after) : Retry(r, delay)
  /\ asked' = [asked EXCEPT ![r] = IF after = None THEN 0
                                   ELSE Lesser(after, MaxDelay)]
  /\ UNCHANGED <<mode, left, queue, leg, attempt, sends, tokens>>

(* The client timed out or the connection broke; the only answer there is  *)
(* once the client was closed.                                             *)
Lose(r) ==
  /\ Release(r)
  /\ \E delay \in RetryDelay(None) : Retry(r, delay)
  /\ asked' = [asked EXCEPT ![r] = 0]
  /\ UNCHANGED <<mode, left, queue, leg, attempt, sends, tokens>>

Wake(r) ==
  /\ phase[r] = "asleep"
  /\ nap[r] = 0
  /\ attempt' = [attempt EXCEPT ![r] = @ + 1]
  /\ Queue(r)
  /\ UNCHANGED <<mode, left, permits, leg, nap, asked, sends, tokens>>

-----------------------------------------------------------------------------
Less(time) == IF time = 0 THEN 0 ELSE time - 1

Tick ==
  /\ Waiting # {}
  /\ left' = IF left = None THEN None ELSE Less(left)
  /\ nap' = [r \in Numbers |-> Less(nap[r])]
  /\ asked' = [r \in Numbers |-> Less(asked[r])]
  /\ UNCHANGED <<mode, closed, permits, queue, phase, leg, attempt, sends, tokens>>

(* The server stops to accept the tokens it gave out. *)
Revoke ==
  /\ mode # "fanout"
  /\ valid = token /\ valid < Revocations
  /\ valid' = token + 1
  /\ UNCHANGED <<mode, left, closed, permits, work, bearer, token>>

(* The next call of collect(), with the cached token. *)
NextCall ==
  /\ Idle
  /\ left' \in Deadlines
  /\ closed' = FALSE
  /\ phase' = [r \in Numbers |-> "new"]
  /\ leg' = [r \in Numbers |-> "api"]
  /\ attempt' = [r \in Numbers |-> 1]
  /\ nap' = [r \in Numbers |-> 0]
  /\ asked' = [r \in Numbers |-> 0]
  /\ sends' = [r \in Numbers |-> 0]
  /\ bearer' = [r \in Numbers |-> token]
  /\ UNCHANGED <<mode, permits, queue, token, valid>>

Answer(r) ==
  \/ /\ ~closed
     /\ \/ Succeed(r)
        \/ Renew(r)
        \/ Reject(r)
        \/ Refuse(r)
        \/ \E after \in RetryAfters \cup {None} : Busy(r, after)
  \/ Lose(r)

Next ==
  \/ \E r \in Numbers : Begin(r) \/ Acquire(r) \/ Answer(r) \/ Wake(r)
  \/ Tick
  \/ Revoke
  \/ NextCall

Spec == Init /\ [][Next]_vars

(* Tasks that can run do, the client times out and the clock goes on; the  *)
(* server owes nothing.                                                    *)
FairSpec ==
  /\ Spec
  /\ \A r \in Numbers : WF_vars(Begin(r)) /\ WF_vars(Acquire(r))
                        /\ WF_vars(Lose(r)) /\ WF_vars(Wake(r))
  /\ WF_vars(Tick)

-----------------------------------------------------------------------------
TypeOK ==
  /\ mode \in Modes
  /\ left \in Nat \cup {None}
  /\ closed \in BOOLEAN
  /\ permits \in 0..Capacity
  /\ queue \in Seq(Numbers)
  /\ phase \in [Numbers -> {"new", "queued", "sent", "asleep", "done", "failed"}]
  /\ leg \in [Numbers -> {"login", "api", "token", "again"}]
  /\ attempt \in [Numbers -> 1..MaxAttempts]
  /\ nap \in [Numbers -> 0..MaxDelay]
  /\ asked \in [Numbers -> 0..MaxDelay]
  /\ sends \in [Numbers -> Nat]
  /\ bearer \in [Numbers -> 0..token]
  /\ token \in 0..valid
  /\ valid \in 0..Revocations

(* Every permit of the semaphore is either free or held by the one request *)
(* that is being sent with it.                                             *)
PermitsAccounted == permits + Cardinality(Sent) = Capacity

(* Who waits for a permit has one place in the queue. *)
QueueIsWaiting ==
  /\ \A r \in Numbers : phase[r] = "queued" <=> \E k \in DOMAIN queue : queue[k] = r
  /\ \A j, k \in DOMAIN queue : queue[j] = queue[k] => j = k

(* Whoever sleeps wakes up before the deadline, so that no worker is left  *)
(* asleep beyond its collection budget.                                    *)
SleepFits ==
  \A r \in Numbers : phase[r] = "asleep" /\ left # None => nap[r] < left \/ nap[r] = 0

(* Nothing is sent at or after the deadline, however long the request had  *)
(* to wait for a permit.                                                   *)
NothingSentLate ==
  [][\A r \in Numbers : phase[r] # "sent" /\ phase'[r] = "sent" => left # 0]_vars

(* A request is not sent again before the time the server asked for is     *)
(* over, as far as max_delay allows it.                                    *)
RetryAfterHonoured ==
  [][\A r \in Numbers : phase[r] # "sent" /\ phase'[r] = "sent" => asked[r] = 0]_vars

(* One request costs a bounded number of them: the attempts of the         *)
(* request, those of at most one renewal and of one repetition.            *)
EffortBounded ==
  \A r \in Numbers :
    sends[r] <= (IF mode = "oauth" THEN 3 ELSE 1) * MaxAttempts

-----------------------------------------------------------------------------
(* The state of a request that was not begun, and of one that sleeps. *)
PhasesAgree ==
  \A r \in Numbers :
    /\ phase[r] = "new" => leg[r] = "api" /\ attempt[r] = 1 /\ sends[r] = 0
    /\ phase[r] = "asleep" => attempt[r] < MaxAttempts

(* What the server asked for is over when a request is sent, and a request *)
(* that sleeps does so for at least as long.                               *)
NapCoversAsked ==
  \A r \in Numbers :
    /\ phase[r] \in {"new", "queued", "sent"} => asked[r] = 0
    /\ phase[r] = "asleep" => asked[r] <= nap[r]

(* What a request has cost at most when a leg of it begins. *)
Spent(r) == IF leg[r] = "token" THEN MaxAttempts
            ELSE IF leg[r] = "again" THEN 2 * MaxAttempts
            ELSE 0

(* The attempts of this leg that were sent, and what the earlier ones have *)
(* cost; a login is not counted, and only oauth has further legs.          *)
SendsAddUp ==
  \A r \in Numbers :
    /\ sends[r] <= Spent(r) + attempt[r]
    /\ phase[r] = "queued" => sends[r] < Spent(r) + attempt[r]
    /\ leg[r] = "login" => sends[r] = 0
    /\ leg[r] # "api" => mode = "oauth"

(* The inductive invariant. *)
Inv ==
  /\ TypeOK /\ PermitsAccounted /\ QueueIsWaiting
  /\ PhasesAgree /\ NapCoversAsked /\ SendsAddUp
  /\ SleepFits

(* Every call of collect() comes to its end, and so does every request it  *)
(* started, whatever the server answers.                                   *)
EveryCallEnds == []<>Idle
=============================================================================
