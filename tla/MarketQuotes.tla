---------------------------- MODULE MarketQuotes ----------------------------
(* MarketDataCoordinator.get_or_compute with the breaker-protected fetches *)
(* of MarketService behind it: requests for a key share one upstream fetch *)
(* through a registered future, queue on the key's lock, retry once, and   *)
(* answer from the cache while it is fresh.                                *)
(*                                                                         *)
(* A request's steps are the stretches between the awaits that may really  *)
(* suspend (the cache behind Redis, the key's lock, the future, the        *)
(* upstream call, the backoff).  The steps of a request are                *)
(*   asked    the cache had nothing fresh; it looks for a flight next      *)
(*   follow   it awaits the future of the flight it found                  *)
(*   queued   it waits for the key's lock                                  *)
(*   recheck  it holds the lock and reads the cache again                  *)
(*   fetch    it starts the fetcher, calling: the provider has the call,   *)
(*   backoff  the pause between two attempts                               *)
(* Payloads are left out: a cached value is fresh or it is not.            *)
EXTENDS CircuitBreaker, FiniteSets, SequencesExt

CONSTANTS
    Requests, Keys,
    KeyOf,          \* the key each consumer asks for, again and again
    FallbackKeys,   \* keys fetched with fallback=: a failure returns a value
    MaxRetries

ASSUME QuotesAssumption ==
    /\ KeyOf \in [Requests -> Keys]
    /\ FallbackKeys \subseteq Keys
    /\ MaxRetries \in Nat

VARIABLES
    step,       \* where each request is in get_or_compute
    attempt,    \* the retries its flight has used
    fresh,      \* the keys whose cached value is within its TTL
    line,       \* per key, the FIFO of the asyncio.Lock: the owner comes first
    flight,     \* per key, _in_flight[key]: none, pending or cancelled
    orphans,    \* the followers, set by set, of futures nobody will complete
    breaker     \* the breaker of the one MarketService the fetches go through

qvars == <<step, attempt, fresh, line, flight, orphans, breaker>>

Steps == {"idle", "asked", "follow", "queued", "recheck", "fetch", "calling", "backoff"}
Leading == {"fetch", "calling", "backoff"}

Orphaned(r) == \E o \in orphans : r \in o
Followers(k) == {r \in Requests : KeyOf[r] = k /\ step[r] = "follow" /\ ~Orphaned(r)}
Leaders(k) == {r \in Requests : KeyOf[r] = k /\ step[r] \in Leading}

\* The steps after everyone in R has returned (or was thrown out) and the
\* lock went to the next in line, if r held it.
Returned(R) == [q \in Requests |-> IF q \in R THEN "idle" ELSE step[q]]
HandedOn(r, st) ==
    LET rest == Tail(line[KeyOf[r]]) IN
    IF rest = <<>> THEN st ELSE [st EXCEPT ![Head(rest)] = "recheck"]
Released(r) == [line EXCEPT ![KeyOf[r]] = Tail(@)]

-----------------------------------------------------------------------------
(* A request that does not lead a flight                                   *)

\* The fast path answers from a fresh cache; only a miss changes anything.
Ask(r) ==
    /\ step[r] = "idle" /\ KeyOf[r] \notin fresh
    /\ step' = [step EXCEPT ![r] = "asked"]
    /\ UNCHANGED <<attempt, fresh, line, flight, orphans, breaker>>

\* Awaiting a future that was cancelled raises CancelledError, which is not
\* an Exception: the request ends instead of taking the lock.
Join(r) ==
    /\ step[r] = "asked" /\ flight[KeyOf[r]] # "none"
    /\ step' = [step EXCEPT ![r] = IF flight[KeyOf[r]] = "pending" THEN "follow" ELSE "idle"]
    /\ UNCHANGED <<attempt, fresh, line, flight, orphans, breaker>>

\* Fault: the lock is not exclusive.
QueueBarging(r) ==
    LET k == KeyOf[r] IN
    /\ step[r] = "asked" /\ flight[k] = "none"
    /\ step' = [step EXCEPT ![r] = "recheck"]
    /\ line' = [line EXCEPT ![k] = Append(@, r)]
    /\ UNCHANGED <<attempt, fresh, flight, orphans, breaker>>

Queue(r) ==
    LET k == KeyOf[r] IN
    /\ step[r] = "asked" /\ flight[k] = "none"
    /\ step' = [step EXCEPT ![r] = IF line[k] = <<>> THEN "recheck" ELSE "queued"]
    /\ line' = [line EXCEPT ![k] = Append(@, r)]
    /\ UNCHANGED <<attempt, fresh, flight, orphans, breaker>>

\* Under the lock the cache may have become fresh meanwhile.
Reuse(r) ==
    /\ step[r] = "recheck" /\ KeyOf[r] \in fresh
    /\ step' = HandedOn(r, Returned({r}))
    /\ line' = Released(r)
    /\ UNCHANGED <<attempt, fresh, flight, orphans, breaker>>

Lead(r) ==
    /\ step[r] = "recheck" /\ KeyOf[r] \notin fresh
    /\ step' = [step EXCEPT ![r] = "fetch"]
    /\ attempt' = [attempt EXCEPT ![r] = 0]
    /\ flight' = [flight EXCEPT ![KeyOf[r]] = "pending"]
    /\ UNCHANGED <<fresh, line, orphans, breaker>>

-----------------------------------------------------------------------------
(* The leader of a flight                                                  *)

\* The flight ends with a value, fetched, DEGRADED or UNAVAILABLE: the future
\* is completed, its followers return, it is unregistered, the lock released.
\* Fault: a failed flight is unregistered without completing its future.
LandedSilently(r, ok) ==
    LET k == KeyOf[r] IN
    /\ step' = HandedOn(r, Returned({r} \cup (IF ok THEN Followers(k) ELSE {})))
    /\ line' = Released(r)
    /\ flight' = [flight EXCEPT ![k] = "none"]
    /\ fresh' = IF ok THEN fresh \cup {k} ELSE fresh
    /\ UNCHANGED <<attempt, orphans>>

Landed(r, ok) ==
    LET k == KeyOf[r] IN
    /\ step' = HandedOn(r, Returned({r} \cup Followers(k)))
    /\ line' = Released(r)
    /\ flight' = [flight EXCEPT ![k] = "none"]
    /\ fresh' = IF ok THEN fresh \cup {k} ELSE fresh
    /\ UNCHANGED <<attempt, orphans>>

\* One attempt failed: a pause and another, or the flight ends without value.
AttemptFailed(r) ==
    IF attempt[r] < MaxRetries
    THEN /\ attempt' = [attempt EXCEPT ![r] = @ + 1]
         /\ step' = [step EXCEPT ![r] = "backoff"]
         /\ UNCHANGED <<fresh, line, flight, orphans>>
    ELSE Landed(r, FALSE)

\* Where the key has a fallback, the breaker turns a failure into a value.
Failed(r) == IF KeyOf[r] \in FallbackKeys THEN Landed(r, TRUE) ELSE AttemptFailed(r)

Retry(r) ==
    /\ step[r] = "backoff"
    /\ step' = [step EXCEPT ![r] = "fetch"]
    /\ UNCHANGED <<attempt, fresh, line, flight, orphans, breaker>>

\* CircuitBreaker.call: refused while open, else the provider has the call.
Call(r) ==
    /\ step[r] = "fetch"
    /\ breaker' = Probed(breaker)
    /\ IF breaker'.state = "OPEN" THEN Failed(r)
       ELSE /\ step' = [step EXCEPT ![r] = "calling"]
            /\ UNCHANGED <<attempt, fresh, line, flight, orphans>>

Succeed(r) ==
    /\ step[r] = "calling"
    /\ breaker' = OnSuccess(breaker)
    /\ Landed(r, TRUE)

Fail(r) ==
    /\ step[r] = "calling"
    /\ breaker' = OnFailure(breaker)
    /\ Failed(r)

\* A ValueError passes the breaker and the fallback by; the 8 s timeout of the
\* coordinator cancels the call, which the breaker does not see either.
RejectOrTimeOut(r) ==
    /\ step[r] = "calling"
    /\ AttemptFailed(r)
    /\ UNCHANGED breaker

-----------------------------------------------------------------------------
(* A caller's own timeout (wait_for around get_quote, 6 s in api/signals)  *)
(* cancels the request where it waits.                                     *)

\* The leader's `finally` unregisters the future and leaves it pending.
CancelLeader(r) ==
    LET k == KeyOf[r] IN
    /\ step[r] \in {"calling", "backoff"}
    /\ step' = HandedOn(r, Returned({r}))
    /\ line' = Released(r)
    /\ flight' = [flight EXCEPT ![k] = "none"]
    /\ orphans' = IF Followers(k) = {} THEN orphans ELSE orphans \cup {Followers(k)}
    /\ UNCHANGED <<attempt, fresh, breaker>>

\* A follower awaits the future itself: cancelling it cancels the future, and
\* the others that await it get the CancelledError.
CancelFollower(r) ==
    LET k == KeyOf[r] IN
    /\ r \in Followers(k)
    /\ step' = Returned(Followers(k))
    /\ flight' = [flight EXCEPT ![k] = "cancelled"]
    /\ UNCHANGED <<attempt, fresh, line, orphans, breaker>>

CancelOrphans(o) ==
    /\ o \in orphans
    /\ step' = Returned(o)
    /\ orphans' = orphans \ {o}
    /\ UNCHANGED <<attempt, fresh, line, flight, breaker>>

\* While it reads the cache under the lock, or between being handed the lock and
\* resuming.  (Before it asks for the lock, it goes as if it had not come.)
CancelRecheck(r) ==
    /\ step[r] = "recheck"
    /\ step' = HandedOn(r, Returned({r}))
    /\ line' = Released(r)
    /\ UNCHANGED <<attempt, fresh, flight, orphans, breaker>>

CancelQueued(r) ==
    /\ step[r] = "queued"
    /\ step' = Returned({r})
    /\ \E i \in DOMAIN line[KeyOf[r]] :
         /\ line[KeyOf[r]][i] = r
         /\ line' = [line EXCEPT ![KeyOf[r]] = RemoveAt(@, i)]
    /\ UNCHANGED <<attempt, fresh, flight, orphans, breaker>>

-----------------------------------------------------------------------------
(* Time                                                                    *)

Expire(k) ==
    /\ k \in fresh
    /\ fresh' = fresh \ {k}
    /\ UNCHANGED <<step, attempt, line, flight, orphans, breaker>>

Quiet ==
    /\ breaker.quiet < RecoveryTimeout
    /\ breaker' = Aged(breaker)
    /\ UNCHANGED <<step, attempt, fresh, line, flight, orphans>>

\* The health endpoint reads the breaker's status, which may make it half open.
ReadStatus ==
    /\ breaker' = Probed(breaker)
    /\ UNCHANGED <<step, attempt, fresh, line, flight, orphans>>

QInit ==
    /\ step = [r \in Requests |-> "idle"]
    /\ attempt = [r \in Requests |-> 0]
    /\ fresh = {}
    /\ line = [k \in Keys |-> <<>>]
    /\ flight = [k \in Keys |-> "none"]
    /\ orphans = {}
    /\ breaker = NewBreaker

\* What a request does by itself, and how an attempt at the provider ends.
Proceed(r) == Ask(r) \/ Join(r) \/ Queue(r) \/ Reuse(r) \/ Lead(r) \/ Retry(r) \/ Call(r)
Answer(r) == Succeed(r) \/ Fail(r) \/ RejectOrTimeOut(r)

QNext ==
    \/ \E r \in Requests :
         \/ Proceed(r)
         \/ Answer(r)
         \/ CancelLeader(r) \/ CancelFollower(r) \/ CancelQueued(r) \/ CancelRecheck(r)
    \/ \E o \in orphans : CancelOrphans(o)
    \/ \E k \in Keys : Expire(k)
    \/ Quiet
    \/ ReadStatus

QSpec == QInit /\ [][QNext]_qvars

\* The event loop runs every task that can go on, an attempt ends within its
\* 8 s, the consumers poll (the scanner, the dashboards), values expire and
\* time passes.  No cancellation is fair; callers give up after seconds, and so
\* not every one in the instant it reads the cache under the lock.
QFairness ==
    /\ \A r \in Requests : WF_qvars(Proceed(r)) /\ WF_qvars(Answer(r))
    /\ SF_qvars(\E r \in Requests : Lead(r))
    /\ \A k \in Keys : WF_qvars(Expire(k))
    /\ WF_qvars(Quiet)

QFairSpec == QSpec /\ QFairness

-----------------------------------------------------------------------------
(* Properties *)

QTypeOK ==
    /\ step \in [Requests -> Steps]
    /\ attempt \in [Requests -> 0..MaxRetries]
    /\ fresh \subseteq Keys
    /\ line \in [Keys -> Seq(Requests)]
    /\ flight \in [Keys -> {"none", "pending", "cancelled"}]
    /\ orphans \subseteq SUBSET Requests
    /\ breaker \in BreakerRecord

\* Single flight: a registered future has exactly one request fetching for it,
\* and an unregistered key none, whoever was cancelled or overtaken: whatever
\* its state, the requests that wait for it have not been left behind.
SingleFlight ==
    \A k \in Keys :
        /\ \A r, q \in Leaders(k) : r = q
        /\ flight[k] = "none" <=> Leaders(k) = {}
        /\ Followers(k) # {} => flight[k] = "pending"

\* A request ends, by a fresh cache, its own flight or the one it joined,
\* unless the leader it followed was cancelled under it.
AnsweredUnlessAbandoned ==
    \A r \in Requests : (step[r] # "idle") ~> (step[r] = "idle" \/ Orphaned(r))

\* An open breaker lets a probe through some time after the failures stop, in
\* spite of calls admitted earlier that fail late, and of cancelled callers.
BreakerRecovers == (breaker.state = "OPEN") ~> (breaker.state # "OPEN")

\* "If in-flight failed, proceed to acquire lock and retry": a follower is
\* answered, or goes on by itself.
FollowersGoOn == \A r \in Requests : (step[r] = "follow") ~> (step[r] # "follow")
=============================================================================
