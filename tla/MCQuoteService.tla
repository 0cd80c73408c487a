---------------------------- MODULE MCQuoteService ----------------------------
(***************************************************************************)
(* Small instances of QuoteService: one symbol, the two providers of       *)
(* default-eastmoney with the retry of the default settings, one pool      *)
(* thread that a hung provider takes out of service.                       *)
(***************************************************************************)
EXTENDS QuoteService

CONSTANTS c1, c2, s1

MCSymbols == {s1}
MCChain   == <<"eastmoney", "yfinance">>
MCCovers  == [s \in MCSymbols |-> {"yfinance"}]
=============================================================================
