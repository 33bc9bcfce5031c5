------------------------------ MODULE DataSide ------------------------------
(* The four parts of the data side side by side.  They meet only through   *)
(* values the models leave out: a quote that a request fetches or a tick   *)
(* that a provider delivers is the same whatever state the others are in,  *)
(* so they share no variable.                                              *)
EXTENDS MarketQuotes, FeedGate, TickFeed, ProviderStream

DataSpec == QSpec /\ GSpec /\ TSpec /\ SSpec

\* Every part keeps to the states its classes can be in; above all the
\* breaker's counters stay within their thresholds (circuit_breaker.py:106-146).
InfraTypeOK == QTypeOK /\ GTypeOK /\ TTypeOK /\ STypeOK
=============================================================================
