------------------------------ MODULE MCDetector ------------------------------
(***************************************************************************)
(* Two symbols on two fed exchanges and one exchange that the detector     *)
(* knows and nothing feeds.  The first symbol has been given its ids on    *)
(* the fed exchanges beforehand.                                           *)
(***************************************************************************)
EXTENDS Detector

MCKnown == <<"binance", "bybit", "okx">>
MCFeed == {<<"bybit", "AUSDT">>, <<"okx", "A-USDT-SWAP">>,
           <<"bybit", "BUSDT">>, <<"okx", "B-USDT-SWAP">>}
MCNormalized == [r \in {f[2] : f \in MCFeed} |->
                    IF r \in {"AUSDT", "A-USDT-SWAP"} THEN "AUSDT" ELSE "BUSDT"]
MCKeys == {"binance", "bybit", "okx"} \X {"AUSDT", "BUSDT"}
MCPreallocated == [k \in MCKeys |->
                    CASE k = <<"bybit", "AUSDT">> -> 1
                      [] k = <<"okx", "AUSDT">> -> 2
                      [] OTHER -> 0]

(* From 1001 to 1006 is 49.95 basis points; a crossed quote; no bid.       *)
MCQuotes == {NoQuote, [bid |-> 1000, ask |-> 1001], [bid |-> 1006, ask |-> 1007],
             [bid |-> 1010, ask |-> 1001], [bid |-> 0, ask |-> 1001]}
=============================================================================
