------------------------- MODULE MCInfrastructure ---------------------------
(* Four parts of the data side that share no state, explored in one run:  *)
(* each behaviour is one of a single part, the others staying at rest.     *)
(* Of the consumers of quotes, two ask for one quote and one for the list  *)
(* of all of them, which has a fallback.                                   *)
EXTENDS DataSide, TLC

CONSTANTS a, b, c, p1, p2, r1, r2

MCKeyOf == (a :> "quote") @@ (b :> "quote") @@ (c :> "quotes")

VARIABLE part
vars == <<part, qvars, gvars, tvars, svars>>

Init ==
    /\ part \in {"quotes", "gate", "feed", "stream"}
    /\ QInit /\ GInit /\ TInit /\ SInit
    /\ part = "stream" \/ config = "none"

OfQuotes(A) == part = "quotes" /\ A /\ UNCHANGED <<part, gvars, tvars, svars>>
OfGate(A) == part = "gate" /\ A /\ UNCHANGED <<part, qvars, tvars, svars>>
OfFeed(A) == part = "feed" /\ A /\ UNCHANGED <<part, qvars, gvars, svars>>
OfStream(A) == part = "stream" /\ A /\ UNCHANGED <<part, qvars, gvars, tvars>>

Next == OfQuotes(QNext) \/ OfGate(GNext) \/ OfFeed(TNext) \/ OfStream(SNext)

\* QFairness of the quotes part, SFairness of the stream part.
Spec ==
    /\ Init /\ [][Next]_vars
    /\ \A r \in Requests :
         WF_vars(OfQuotes(Proceed(r))) /\ WF_vars(OfQuotes(Answer(r)))
    /\ SF_vars(OfQuotes(\E r \in Requests : Lead(r)))
    /\ \A k \in Keys : WF_vars(OfQuotes(Expire(k)))
    /\ WF_vars(OfQuotes(Quiet))
    /\ WF_vars(OfStream(Ensure))
    /\ WF_vars(OfStream(\E r \in Restarters : Begin(r) \/ SocketStopped(r) \/ Finish(r)))
    /\ WF_vars(OfStream(\E p \in Providers : IdleTimeout(p)))
    /\ SF_vars(OfStream(\E p \in Providers : Poll(p)))
    /\ SF_vars(OfStream(\E p \in Providers : PollSucceeds(p)))
    /\ WF_vars(OfStream(TimePasses))
=============================================================================
