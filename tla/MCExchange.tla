----------------------------- MODULE MCExchange -----------------------------
(***************************************************************************)
(* The order requests of the model-checking runs of Exchange.               *)
(***************************************************************************)
EXTENDS Exchange

CONSTANTS g1

Buy == [type |-> "MARKET", side |-> "BUY", qty |-> 4, px |-> None, stop |-> None,
        trail |-> None, percent |-> FALSE, visible |-> None, tif |-> "GTC",
        postOnly |-> FALSE, expire |-> None, oco |-> NoGroup, sl |-> None,
        tp |-> None, listed |-> TRUE]
Sell == [Buy EXCEPT !.side = "SELL"]
Limit(r, px) == [r EXCEPT !.type = "LIMIT", !.px = px]
InGroup(r) == [r EXCEPT !.oco = g1]

StopLimitBuy == [Buy EXCEPT !.type = "STOP_LIMIT", !.stop = 110, !.px = 110]
TrailingSell == [Sell EXCEPT !.type = "TRAILING_STOP", !.trail = 10]
IcebergBuy == [Buy EXCEPT !.type = "ICEBERG", !.visible = 1, !.qty = 3]
GtdBuy == [Limit(Buy, 100) EXCEPT !.tif = "GTD", !.expire = 1]

\* Every order type, in and out of the group, and requests that submit_order
\* rejects, cancels at once, or raises on.
OrderRequests ==
    {InGroup(Buy), InGroup(Limit(Sell, 110)), InGroup(StopLimitBuy),
     InGroup(TrailingSell), InGroup(IcebergBuy), GtdBuy,
     [Limit(Buy, 110) EXCEPT !.tif = "FOK", !.oco = g1],
     [Limit(Buy, 90) EXCEPT !.tif = "IOC"],
     [Limit(Buy, 110) EXCEPT !.postOnly = TRUE]}

\* Requests that move the position: opening, extending, closing in part or in
\* full, flipping, with and without default stops.
MoneyRequests ==
    {Buy, [Sell EXCEPT !.qty = 6], [Buy EXCEPT !.qty = 2, !.sl = 0, !.tp = 0],
     [Sell EXCEPT !.type = "ICEBERG", !.visible = 2, !.qty = 5, !.px = 100]}

\* 5x with a fee of 1% and a slippage of 2%, and 2x free of both.
StartTerms == [leverage |-> 5, fee |-> 10, slip |-> 20]
OneTerms == {StartTerms}
OtherTerms == {StartTerms, [leverage |-> 2, fee |-> 0, slip |-> 0]}

FokRequests == {[Limit(Buy, 110) EXCEPT !.tif = "FOK"]}
OcoIcebergRequests == {InGroup(IcebergBuy), InGroup(Limit(Sell, 110))}
IcebergRequests == {IcebergBuy}
RestingRequests == {Buy, Limit(Buy, 90)}
=============================================================================
