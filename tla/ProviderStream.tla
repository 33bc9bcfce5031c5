--------------------------- MODULE ProviderStream ---------------------------
(* The upstream of the market data: the FYERS provider with its data       *)
(* socket (providers/fyers_ws.py) and its REST poller (providers/fyers.py),*)
(* the registry that holds one provider object, and the restarts of        *)
(* core/service_lifecycle.py after a new token or new settings.            *)
(*                                                                         *)
(* A restart holds the process-wide lock and suspends while the old        *)
(* provider's socket and then its poller end; any request may look up, and *)
(* so create, a provider meanwhile.  Provider objects that are at rest and *)
(* referred to by nobody are reused.                                       *)
(*                                                                         *)
(* Left out: single symbols (the quotes of the socket stand for all of     *)
(* them), prices and the sanity gate, a configuration that selects another *)
(* broker, the shutdown, and that an old provider whose token has expired  *)
(* borrows the new one while its restart waits for the lock.               *)
EXTENDS Naturals

CONSTANTS
    Providers,      \* identities of provider objects
    NoProvider,
    Restarters      \* the requests that restart the stream

ASSUME NoProviderAssumption == NoProvider \notin Providers

VARIABLES
    config,     \* the runtime broker configuration, by the token it has
    current,    \* _provider_instance
    previous,   \* _previous_provider
    stream,     \* the provider objects
    stage,      \* where each restart is; the stages of Holding have the lock
    open,       \* the market is open
    stale,      \* no tick came for a while
    quiet       \* the age of the last frame of the socket, up to IdleLimit

svars == <<config, current, previous, stream, stage, open, stale, quiet>>

\* "none" is no usable token, and that of "expired" one the broker no longer
\* accepts.
Tokens == {"good", "expired", "none"}

\* IDLE_FRAME_TIMEOUT_S, as the end of a clock that only counts two steps.
IdleLimit == 2

\* A socket is down between two connections, and up once it is authenticated,
\* whether its subscription was accepted or not.  It is chatty when the last
\* frame that came was one that carried no tick.
StreamRecord ==
    [token : Tokens, running : BOOLEAN,
     poller : {"none", "asleep", "asking"},
     socket : {"none", "down", "up", "chatty", "closing"}]

AtRest == [token |-> "none", running |-> FALSE, poller |-> "none", socket |-> "none"]
NewStream == [AtRest EXCEPT !.token = config]

Upstream(s) == s.poller # "none" \/ s.socket # "none"
Healthy(s) == s.socket \in {"up", "chatty"}

Holding == {"socket", "poller"}
LockFree == \A r \in Restarters : stage[r] \notin Holding

-----------------------------------------------------------------------------
(* start_stream and the restart                                            *)

\* start_stream: without a usable token, or when a request already learned
\* that the token has expired, only the flag is set.  The socket may be
\* disabled, or its start fail; the poller does without it.
Started(s) ==
    LET skipped == [s EXCEPT !.running = TRUE]
        begun == {[s EXCEPT !.running = TRUE, !.poller = "asleep", !.socket = socket] :
                    socket \in {"down", "none"}}
    IN  CASE s.running \/ s.token = "none" -> {skipped}
          [] s.token = "expired" -> {skipped} \cup begun
          [] OTHER -> begun

\* get_provider() and start_stream(), which do not suspend: the singleton as
\* it is, or a new object from the configuration of the moment.
StartCurrent(singleton, streams) ==
    \E p \in Providers :
        /\ IF singleton = NoProvider THEN streams[p] = AtRest ELSE p = singleton
        /\ current' = p
        /\ \E new \in Started(IF singleton = NoProvider THEN NewStream ELSE streams[p]) :
             stream' = [streams EXCEPT ![p] = new]

\* ensure_provider_stream, at start-up and from POST /tokens/refresh.
Ensure ==
    /\ LockFree
    /\ StartCurrent(current, stream)
    /\ UNCHANGED <<config, previous, stage, open, stale, quiet>>

\* Any request: get_provider() creates the singleton and starts nothing.
LookUp ==
    /\ current = NoProvider
    /\ \E p \in Providers \ {previous} :
         /\ stream[p] = AtRest
         /\ current' = p
         /\ stream' = [stream EXCEPT ![p] = NewStream]
    /\ UNCHANGED <<config, previous, stage, open, stale, quiet>>

\* apply_app_settings, then the wait for the lock.
Reconfigure(r) ==
    /\ stage[r] = "idle"
    /\ config' \in Tokens
    /\ stage' = [stage EXCEPT ![r] = "waiting"]
    /\ UNCHANGED <<current, previous, stream, open, stale, quiet>>

\* Fault: the previous provider is stopped before the live one has become it.
BeginUnreset(r) ==
    /\ stage[r] = "waiting" /\ LockFree
    /\ previous' = current
    /\ StartCurrent(NoProvider, stream)
    /\ stage' = [stage EXCEPT ![r] = "idle"]
    /\ UNCHANGED <<config, open, stale, quiet>>

\* reset_provider and the beginning of stop_stream: the singleton becomes the
\* previous provider.  One that was never started needs no stop, and the
\* restart goes on to its start at once.
Begin(r) ==
    /\ stage[r] = "waiting" /\ LockFree
    /\ IF current # NoProvider /\ stream[current].running
       THEN LET s == [stream[current] EXCEPT !.running = FALSE] IN
            /\ previous' = current /\ current' = NoProvider
            /\ IF s.socket = "none"
               THEN /\ stage' = [stage EXCEPT ![r] = "poller"]
                    /\ stream' = [stream EXCEPT ![current] = s]
               ELSE /\ stage' = [stage EXCEPT ![r] = "socket"]
                    /\ stream' = [stream EXCEPT ![current] = [s EXCEPT !.socket = "closing"]]
       ELSE /\ previous' = NoProvider
            /\ stage' = [stage EXCEPT ![r] = "idle"]
            /\ StartCurrent(NoProvider,
                 [p \in Providers |-> IF p = current THEN AtRest ELSE stream[p]])
    /\ UNCHANGED <<config, open, stale, quiet>>

SocketStopped(r) ==
    /\ stage[r] = "socket"
    /\ stream' = [stream EXCEPT ![previous].socket = "none"]
    /\ stage' = [stage EXCEPT ![r] = "poller"]
    /\ UNCHANGED <<config, current, previous, open, stale, quiet>>

\* The cancelled poller has ended: stop_stream returns, and the provider of
\* now is looked up and started.
Finish(r) ==
    /\ stage[r] = "poller"
    /\ stage' = [stage EXCEPT ![r] = "idle"]
    /\ previous' = NoProvider
    /\ StartCurrent(current, [stream EXCEPT ![previous] = AtRest])
    /\ UNCHANGED <<config, open, stale, quiet>>

-----------------------------------------------------------------------------
(* The poller and the socket of a provider                                 *)

Becomes(p, s) ==
    /\ stream' = [stream EXCEPT ![p] = s]
    /\ UNCHANGED <<config, current, previous, stage, open>>

\* The poller steps aside while the socket is healthy and the market open.
Poll(p) ==
    LET s == stream[p] IN
    /\ s.poller = "asleep" /\ s.running
    /\ ~(Healthy(s) /\ open)
    /\ Becomes(p, [s EXCEPT !.poller = "asking"])
    /\ UNCHANGED <<stale, quiet>>

PollSucceeds(p) ==
    LET s == stream[p] IN
    /\ s.poller = "asking" /\ s.token = "good"
    /\ Becomes(p, [s EXCEPT !.poller = "asleep"])
    /\ stale' = FALSE /\ UNCHANGED quiet

\* An error, or no quotes: the poller backs off, or parks until a new token.
PollFails(p) ==
    LET s == stream[p] IN
    /\ s.poller = "asking"
    /\ Becomes(p, [s EXCEPT !.poller = "asleep"])
    /\ UNCHANGED <<stale, quiet>>

\* The loop ends by its flag before it is cancelled.
PollerEnds(p) ==
    LET s == stream[p] IN
    /\ s.poller = "asleep" /\ ~s.running
    /\ Becomes(p, [s EXCEPT !.poller = "none"])
    /\ UNCHANGED <<stale, quiet>>

\* _run_once up to the answer to the authentication and the subscription,
\* which is not waited for and only logged when it is a refusal.
Connect(p) ==
    LET s == stream[p] IN
    /\ s.socket = "down" /\ s.token = "good"
    /\ Becomes(p, [s EXCEPT !.socket = "up"])
    /\ quiet' = 0 /\ UNCHANGED stale

\* Nothing promises a quote: the subscription may have been refused, or the
\* snapshot that scales the updates have been lost.
SocketQuote(p) ==
    LET s == stream[p] IN
    /\ Healthy(s)
    /\ Becomes(p, [s EXCEPT !.socket = "up"])
    /\ stale' = FALSE /\ quiet' = 0

\* A control frame, an update that cannot be scaled, a record without a price
\* or with one the sanity gate rejects: the clock of the idle socket starts
\* anew although no tick comes of it.
SocketFrame(p) ==
    LET s == stream[p] IN
    /\ Healthy(s)
    /\ Becomes(p, [s EXCEPT !.socket = "chatty"])
    /\ quiet' = 0 /\ UNCHANGED stale

\* The server closes; _run_forever connects again after a backoff.
Drop(p) ==
    LET s == stream[p] IN
    /\ Healthy(s)
    /\ Becomes(p, [s EXCEPT !.socket = "down"])
    /\ UNCHANGED <<stale, quiet>>

\* Fault: the silence of the closed market counts, that of the open one not.
IdleAfterHours(p) ==
    LET s == stream[p] IN
    /\ Healthy(s) /\ quiet = IdleLimit /\ ~open
    /\ Becomes(p, [s EXCEPT !.socket = "down"])
    /\ UNCHANGED <<stale, quiet>>

\* _idle_too_long: no frame of any type for 45 seconds, and the market open.
IdleTimeout(p) ==
    LET s == stream[p] IN
    /\ Healthy(s) /\ quiet = IdleLimit /\ open
    /\ Becomes(p, [s EXCEPT !.socket = "down"])
    /\ UNCHANGED <<stale, quiet>>

-----------------------------------------------------------------------------
(* The surroundings                                                        *)

TokenExpires ==
    /\ config = "good" \/ \E p \in Providers : stream[p].token = "good"
    /\ config' = IF config = "good" THEN "expired" ELSE config
    /\ stream' = [p \in Providers |->
                    IF stream[p].token = "good" THEN [stream[p] EXCEPT !.token = "expired"]
                    ELSE stream[p]]
    /\ UNCHANGED <<current, previous, stage, open, stale, quiet>>

MarketTurns ==
    /\ open' = ~open
    /\ UNCHANGED <<config, current, previous, stream, stage, stale, quiet>>

GoesStale ==
    /\ stale' = TRUE
    /\ UNCHANGED <<config, current, previous, stream, stage, open, quiet>>

TimePasses ==
    /\ quiet < IdleLimit
    /\ quiet' = quiet + 1
    /\ UNCHANGED <<config, current, previous, stream, stage, open, stale>>

-----------------------------------------------------------------------------
SInit ==
    /\ config \in Tokens
    /\ current = NoProvider /\ previous = NoProvider
    /\ stream = [p \in Providers |-> AtRest]
    /\ stage = [r \in Restarters |-> "idle"]
    /\ open = FALSE /\ stale = TRUE /\ quiet = 0

SNext ==
    \/ Ensure \/ LookUp
    \/ \E r \in Restarters : Reconfigure(r) \/ Begin(r) \/ SocketStopped(r) \/ Finish(r)
    \/ \E p \in Providers :
         \/ Poll(p) \/ PollSucceeds(p) \/ PollFails(p) \/ PollerEnds(p)
         \/ Connect(p) \/ SocketQuote(p) \/ SocketFrame(p) \/ Drop(p) \/ IdleTimeout(p)
    \/ TokenExpires \/ MarketTurns \/ GoesStale \/ TimePasses

SSpec == SInit /\ [][SNext]_svars

\* The start-up ensures the stream, restarts go on, the watchdog of the idle
\* socket fires, time passes.  A poller that wakes every second meets a
\* socket that is down again and again, since each connection costs it its
\* backoff and three round trips; of the polls not all fail.
SFairness ==
    /\ WF_svars(Ensure)
    /\ WF_svars(\E r \in Restarters : Begin(r) \/ SocketStopped(r) \/ Finish(r))
    /\ WF_svars(\E p \in Providers : IdleTimeout(p))
    /\ SF_svars(\E p \in Providers : Poll(p))
    /\ SF_svars(\E p \in Providers : PollSucceeds(p))
    /\ WF_svars(TimePasses)

SFairSpec == SSpec /\ SFairness

-----------------------------------------------------------------------------
(* Properties *)

STypeOK ==
    /\ config \in Tokens
    /\ current \in Providers \cup {NoProvider}
    /\ previous \in Providers \cup {NoProvider}
    /\ stream \in [Providers -> StreamRecord]
    /\ stage \in [Restarters -> {"idle", "waiting"} \cup Holding]
    /\ open \in BOOLEAN /\ stale \in BOOLEAN /\ quiet \in 0..IdleLimit

\* One upstream per process: only the singleton has a poller or a socket,
\* and while a restart stops the previous provider only that one; whatever
\* requests create or reconfigure a provider meanwhile.
OneUpstream ==
    \A p \in Providers :
        Upstream(stream[p]) => p = (IF LockFree THEN current ELSE previous)

\* While the market is open and the configured token good, ticks come again,
\* however often the socket drops, falls silent or is refused its
\* subscription, and whatever restarts were under way; unless the socket
\* goes on sending frames that carry no tick.
FeedResumes ==
    \/ []<>(quiet = 0 /\ \E p \in Providers : stream[p].socket = "chatty")
    \/ (stale /\ open /\ config = "good") ~> (~stale \/ ~open \/ config # "good")
=============================================================================
