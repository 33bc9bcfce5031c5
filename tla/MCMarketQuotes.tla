--------------------------- MODULE MCMarketQuotes ---------------------------
(* Three consumers of one quote.                                           *)
EXTENDS MarketQuotes

CONSTANTS a, b, c

MCKeyOf == [r \in Requests |-> "quote"]
=============================================================================
