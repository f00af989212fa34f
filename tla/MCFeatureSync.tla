----------------------------- MODULE MCFeatureSync -----------------------------
(* Constants for checking FeatureSync with TLC. *)
EXTENDS FeatureSync

CONSTANTS w1, w2        \* a tracked wallet, and one that an import may add

MCSources == <<1, 2>>
MCName == <<"profile", "wallet">>
MCEvm == <<"profile_solana", "evm">>
MCSolana == <<"profile_evm", "solana">>

\* Two trades in the first block of source 2, one in the second; source 1 has one trade.
Trade(source, at, block, rank, wallet, large) ==
    [source |-> source, at |-> at, block |-> block, rank |-> rank, wallet |-> wallet,
     large |-> large]

MCTrades == {Trade(1, 1, 1, 1, w1, TRUE), Trade(2, 1, 1, 2, w1, FALSE),
             Trade(2, 2, 1, 3, w1, TRUE), Trade(2, 3, 2, 4, w2, TRUE)}

MCSpans == <<1, 2>>

\* A file of one trade, and one of quotes, the newer first and once again, that ends with a
\* trade without a side and a quote without a mid price.
Unsided   == Trade(2, 4, 3, 5, w1, TRUE)
TradeFile == <<Trade(2, 2, 1, 3, w1, TRUE)>>
QuoteFile == <<Quote(2), Quote(1), Quote(2), Unsided, Quote(3)>>
MCUnclear == {Unsided, Quote(3)}

MCTracked == {w1}
MCLeaderboard == {w2}
MCDeployments == {
    [running |-> {"live", "project"}, kind |-> MCEvm, file |-> <<>>],
    [running |-> {"live", "project"}, kind |-> MCSolana, file |-> <<>>],
    [running |-> {"live", "backfill"}, kind |-> MCEvm, file |-> TradeFile],
    [running |-> {"backfill"}, kind |-> MCEvm, file |-> QuoteFile],
    [running |-> {"backfill", "sync", "project"}, kind |-> MCEvm, file |-> TradeFile]}

\* What build_live_sources makes: sources of profiles only.
MCProfiles == {
    [running |-> {"live"}, kind |-> <<"profile_solana", "profile_evm">>, file |-> <<>>]}
================================================================================
