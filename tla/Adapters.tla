-------------------------------- MODULE Adapters --------------------------------
(***************************************************************************)
(* The execution adapters: one call of prepare and execute after another,  *)
(* on the EVM (evm_adapter.py, evm_rpc.py, evm_odos.py), on Solana         *)
(* (solana_adapter.py, solana_rpc.py, solana_jupiter.py), on paper         *)
(* (dex_executor.py, cex_bridge.py), or with the Solana adapter while live *)
(* execution is off, and the choice between them (factory.py).  What comes *)
(* first is the part of the risk engine that looks at the deployment: the  *)
(* switches, the credentials and the balance (portfolio/).                 *)
(*                                                                         *)
(* A call is a sequence of requests.  Those that only read are one step    *)
(* for each decision taken on their answers.  A signed transaction is      *)
(* "flying" from the moment its bytes are first sent; whether it reaches   *)
(* a pool, is mined, reverts or vanishes is the chain's business, also     *)
(* after the call has ended.                                               *)
(*                                                                         *)
(* How much a swap sells is left out.  What it needs is an allowance of    *)
(* its own: an entry sells the quote token of the route and an exit the    *)
(* token itself, to the spender that the assembled swap names.  The        *)
(* adapter only ever approves 2 ** 256 - 1, so an allowance is there or it *)
(* is not; one of another amount, made by other hands, counts as none.     *)
(***************************************************************************)
EXTENDS Integers, Sequences, FiniteSets, FiniteSetsExt

CONSTANTS
    Spenders,           \* the contracts an assembled swap may name as its spender
    MaxTries,           \* transport attempts of one request, over both retry loops
    MaxPolls,           \* status requests of solana_rpc.confirm_submission
    Credentials,        \* the sets of credentials a deployment may have
    NativePrices,       \* prices of the chain's own token
    Funds,              \* what the wallet holds of it at first
    MinBalance,         \* live.rollout.min_available_balance_usd
    MaxCalls            \* bound: calls made in all

ASSUME AdaptersAssumption ==
    /\ MaxTries \in Nat \ {0}
    /\ MaxPolls \in Nat \ {0}
    /\ Credentials \subseteq SUBSET {"solana", "evm", "okx", "binance"}
    /\ NativePrices \subseteq Nat
    /\ Funds \in Nat
    /\ MinBalance \in Nat
    /\ MaxCalls \in Nat

VARIABLES
    settings,           \* the venue of the intents, and what AppSettings says
    \* the call
    pc,                 \* the step that comes next, "idle" between calls
    action,             \* intent.action
    spender,            \* the spender of the assembled swap
    tries,              \* failed transport attempts of the request at hand
    polls,              \* status requests made
    \* the chain
    txs,                \* transactions ever sent, in the order they were signed
    allowance,          \* the pairs <<token, spender>> the wallet has approved
    funds,              \* the wallet's balance of the chain's own token
    \* the caller
    position,           \* the caller's position is open
    calls,              \* calls begun
    filled,             \* the calls answered FILLED or PARTIAL_FILL
    paperFills          \* fills that exist on paper only

call   == <<pc, action, spender, tries, polls>>
chain  == <<txs, allowance, funds>>
caller == <<position, calls, filled, paperFills>>
vars   == <<settings, call, chain, caller>>

Venues   == {"solana_stub", "solana_primary", "evm_primary", "binance_paper"}
Settings == [venue : Venues, paper : BOOLEAN, live : BOOLEAN, trading : BOOLEAN,
             preflight : BOOLEAN, credentials : Credentials]
Actions  == {"BUY", "EXIT"}
NoOne    == "no spender"
Pairs    == {"quote", "token"} \X (Spenders \cup {NoOne})
Statuses == {"flying", "pooled", "mined", "reverted", "gone"}
Steps    == {"idle", "prepare", "build", "paper", "stub", "allowance", "approval", "send_approval",
             "confirm_approval", "sign", "send", "confirm"}

-----------------------------------------------------------------------------
(* Which adapter, and which of its modes. *)

LiveTrading == settings.live /\ settings.trading

LiveExecutionOnPaper == LiveTrading

\* SolanaDexAdapter._live_execution_enabled
LiveExecution == LiveTrading /\ ~settings.paper

\* build_dex_adapter for the venue of the intent, build_cex_adapter
Executor ==
    CASE settings.venue = "binance_paper" -> "paper"
      [] settings.venue = "solana_stub" -> "solana"
      [] settings.venue = "solana_primary" -> IF settings.paper THEN "paper" ELSE "solana"
      [] settings.venue = "evm_primary" -> IF settings.paper THEN "paper" ELSE "evm"

\* What execute is going to do.
Mode == IF Executor = "solana" /\ ~LiveExecution THEN "stub" ELSE Executor

Dex == settings.venue # "binance_paper"

\* The credentials of Solana or of OKX stand for those of every chain.
HasDexCredentials == settings.credentials \cap {"solana", "okx"} # {}
HasCredentials    == IF Dex THEN HasDexCredentials ELSE "binance" \in settings.credentials

\* The builders of the providers: without the preflight nobody asks for a balance.
BalanceIsAsked == LiveTrading /\ settings.preflight

None == -1

\* get_native_token_price_usd: a price, or nothing usable in any of its attempts.
NativePrice == NativePrices \cup {None}

\* get_available_balance: the wallet's native token in USD, never that of a CEX.
AvailableBalance ==
    IF Dex THEN {IF price = None THEN None ELSE funds * price : price \in NativePrice} ELSE {None}

\* What the risk engine asks of the deployment, of entries and exits alike.
Permitted ==
    /\ settings.live => settings.trading
    /\ LiveTrading => HasCredentials
    /\ BalanceIsAsked => \E balance \in AvailableBalance : balance # None /\ balance > MinBalance

-----------------------------------------------------------------------------
(* The chain. *)

Swaps     == {i \in DOMAIN txs : txs[i].kind = "swap"}
Done(i)   == txs[i].status \in {"mined", "reverted"}
Pooled(n) == \E i \in DOMAIN txs : txs[i].status = "pooled" /\ txs[i].nonce = n
Mined     == Cardinality({i \in DOMAIN txs : Done(i)})

\* eth_getTransactionCount(pending): what is mined and what the pool adds to it without a gap.
TransactionCount ==
    Min({n \in Mined .. Mined + Len(txs) : ~Pooled(n)})

\* The transaction this call has signed for kind.
Current(kind) == CHOOSE i \in DOMAIN txs : txs[i].call = calls /\ txs[i].kind = kind

SetStatus(i, s) == txs' = [txs EXCEPT ![i].status = s]

\* A pool takes a transaction whose nonce is open (a Solana transaction has none).
Accepts(i) == Mode = "evm" => (txs[i].nonce >= Mined /\ ~Pooled(txs[i].nonce))

-----------------------------------------------------------------------------
(* Beginning and end of a call. *)

Init ==
    /\ settings \in Settings
    /\ pc = "idle"
    /\ action = "BUY"
    /\ spender = NoOne
    /\ tries = 0
    /\ polls = 0
    /\ txs = <<>>
    /\ allowance \in SUBSET ({"quote", "token"} \X Spenders)
    /\ funds = Funds
    /\ position = FALSE
    /\ calls = 0
    /\ filled = {}
    /\ paperFills = 0

\* To the next request of the call.
Goto(step) ==
    /\ pc' = step
    /\ tries' = 0
    /\ polls' = 0

\* The call is over, without a report.
Ends ==
    /\ Goto("idle")
    /\ UNCHANGED <<settings, action, spender, caller>>

\* The call is over with a report, which the caller books whatever its status.
Reports(status) ==
    /\ Goto("idle")
    /\ position' = (action = "BUY")
    /\ filled' = IF status = "FAILED" THEN filled ELSE filled \cup {calls}
    /\ UNCHANGED <<settings, action, spender, chain, calls>>

\* The caller has an entry, or an exit of its open position.
Call ==
    /\ pc = "idle"
    /\ calls < MaxCalls
    /\ Permitted
    /\ calls' = calls + 1
    /\ action' = IF position THEN "EXIT" ELSE "BUY"
    /\ spender' = NoOne
    /\ Goto("prepare")
    /\ UNCHANGED <<settings, chain, position, filled, paperFills>>

\* prepare: the route, the credentials and a first quote, all of which only read.
Prepare(next) ==
    /\ pc = "prepare"
    /\ Goto(next)
    /\ UNCHANGED <<settings, action, spender, chain, caller>>

PreparePaper  == Mode = "paper" /\ Prepare("paper")
PrepareSolana ==
    \/ Mode = "stub" /\ Prepare("stub")
    \/ Mode = "solana" /\ "solana" \in settings.credentials /\ Prepare("build")
PrepareEvm    == Mode = "evm" /\ "evm" \in settings.credentials /\ Prepare("build")

\* No route for the intent, or no key for its chain.
NoRoute ==
    /\ pc = "prepare"
    /\ Ends
    /\ UNCHANGED chain

NoSolanaRoute == Mode = "solana" /\ NoRoute
NoEvmRoute    == Mode = "evm" /\ NoRoute

-----------------------------------------------------------------------------
(* Adapters without a chain. *)

\* The dice of a paper executor: in full, in part or not at all.
PaperReports ==
    /\ pc = "paper"
    /\ \E status \in {"FILLED", "PARTIAL_FILL", "FAILED"} :
         /\ Reports(status)
         /\ paperFills' = paperFills + (IF status = "FAILED" THEN 0 ELSE 1)

DexPaperReports == Dex /\ PaperReports
CexPaperReports == ~Dex /\ PaperReports

\* The Solana adapter sends a text that is no transaction, and calls what comes back a
\* simulated fill.
StubReports ==
    /\ pc = "stub"
    /\ Reports("FILLED")
    /\ paperFills' = paperFills + 1

-----------------------------------------------------------------------------
(* Building and signing a swap. *)

\* The amount, a quote for it and the transaction that was assembled from the quote, which
\* names a spender on the EVM (_approval_spender).
Build(next) ==
    /\ pc = "build"
    /\ Goto(next)
    /\ UNCHANGED <<settings, action, chain, caller>>

BuildJupiter == Mode = "solana" /\ Build("sign") /\ UNCHANGED spender
BuildOdos    == Mode = "evm" /\ Build("allowance") /\ spender' \in Spenders

\* An exit needs a price, and the venue has none.
NoPrice ==
    /\ pc = "build"
    /\ action = "EXIT"
    /\ Ends
    /\ UNCHANGED chain

\* _build_swap_request: an entry sells the quote contract, an exit the token contract.
SellToken == IF action = "BUY" THEN "quote" ELSE "token"

\* _approval_requirement
Approval == <<SellToken, spender>>

\* Sign with the nonce the node gives, and send the bytes for the first time.
SignAndSend(kind) ==
    txs' = Append(txs, [call |-> calls, kind |-> kind, status |-> "flying",
                        nonce |-> IF Mode = "evm" THEN TransactionCount ELSE 0,
                        approval |-> Approval])

CheckAllowanceOfWallet ==
    /\ pc = "allowance"
    /\ Goto(IF allowance # {} THEN "sign" ELSE "approval")
    /\ UNCHANGED <<settings, action, spender, chain, caller>>

\* allowance(wallet, spender) of the token that is sold
CheckAllowance ==
    /\ pc = "allowance"
    /\ Goto(IF Approval \in allowance THEN "sign" ELSE "approval")
    /\ UNCHANGED <<settings, action, spender, chain, caller>>

\* approve(spender, 2 ** 256 - 1)
SignApproval ==
    /\ pc = "approval"
    /\ SignAndSend("approve")
    /\ Goto("send_approval")
    /\ UNCHANGED <<settings, action, spender, allowance, funds, caller>>

SignSwap ==
    /\ pc = "sign"
    /\ SignAndSend("swap")
    /\ Goto("send")
    /\ UNCHANGED <<settings, action, spender, allowance, funds, caller>>

-----------------------------------------------------------------------------
(* Sending and confirming. *)

Kind == IF pc \in {"send_approval", "confirm_approval"} THEN "approve" ELSE "swap"

\* The node answers with the transaction's hash.
Sent ==
    /\ pc \in {"send_approval", "send"}
    /\ txs[Current(Kind)].status \in {"pooled", "mined", "reverted"}
    /\ Goto(IF pc = "send" THEN "confirm" ELSE "confirm_approval")
    /\ UNCHANGED <<settings, action, spender, chain, caller>>

\* It refuses the transaction: the bytes go no further.
SendRefused ==
    /\ pc \in {"send_approval", "send"}
    /\ LET i == Current(Kind) IN txs[i].status = "flying" /\ SetStatus(i, "gone")
    /\ UNCHANGED <<allowance, funds>>
    /\ Ends

\* No answer: the same request again, the same bytes if it is a transaction.
LostOnceTooOften ==
    /\ pc \notin {"idle", "paper"}
    /\ tries < MaxTries
    /\ tries' = tries + 1
    /\ UNCHANGED <<settings, pc, action, spender, polls, chain, caller>>

LostSigningAgain ==
    /\ pc = "send"
    /\ tries + 1 < MaxTries
    /\ tries' = tries + 1
    /\ SignAndSend("swap")
    /\ UNCHANGED <<settings, pc, action, spender, polls, allowance, funds, caller>>

Lost ==
    /\ pc \notin {"idle", "paper"}
    /\ tries + 1 < MaxTries
    /\ tries' = tries + 1
    /\ UNCHANGED <<settings, pc, action, spender, polls, chain, caller>>

NoAnswer ==
    /\ pc \notin {"idle", "paper"}
    /\ tries + 1 = MaxTries
    /\ Ends
    /\ UNCHANGED chain

\* An answer that is not valid or says no, also that the node knows the transaction
\* already, from an attempt whose answer was lost.
InvalidAnswer ==
    /\ pc \notin {"idle", "paper"}
    /\ Ends
    /\ UNCHANGED chain

InvalidEvmAnswer    == Mode = "evm" /\ InvalidAnswer
InvalidSolanaAnswer == Executor = "solana" /\ InvalidAnswer

\* One look at the receipt: an approval that is not mined yet raises.
ConfirmApproval ==
    /\ pc = "confirm_approval"
    /\ txs[Current("approve")].status = "mined"
    /\ Goto("sign")
    /\ UNCHANGED <<settings, action, spender, chain, caller>>

\* The swap is seen mined, and is reported for the whole notional.
ConfirmAnyReceipt ==
    /\ pc = "confirm"
    /\ Done(Current("swap"))
    /\ Reports("FILLED")
    /\ UNCHANGED paperFills

Confirm ==
    /\ pc = "confirm"
    /\ txs[Current("swap")].status = "mined"
    /\ Reports("FILLED")
    /\ UNCHANGED paperFills

\* solana_rpc.confirm_submission asks again while the signature is not confirmed.
PollAgainForEver ==
    /\ pc = "confirm"
    /\ Mode = "solana"
    /\ ~Done(Current("swap"))
    /\ polls' = (polls + 1) % MaxPolls
    /\ tries' = 0
    /\ UNCHANGED <<settings, pc, action, spender, chain, caller>>

PollAgain ==
    /\ pc = "confirm"
    /\ Mode = "solana"
    /\ ~Done(Current("swap"))
    /\ polls + 1 < MaxPolls
    /\ polls' = polls + 1
    /\ tries' = 0
    /\ UNCHANGED <<settings, pc, action, spender, chain, caller>>

\* getSignatureStatuses tells of an error.
FailedOnChain ==
    /\ pc = "confirm"
    /\ Mode = "solana"
    /\ txs[Current("swap")].status = "reverted"
    /\ Ends
    /\ UNCHANGED chain

\* Not mined, or reverted, at the one look the EVM adapter takes; not confirmed at the
\* last of the Solana adapter's.
Unconfirmed ==
    /\ \/ pc = "confirm_approval" /\ txs[Current("approve")].status # "mined"
       \/ pc = "confirm" /\ Mode = "evm" /\ txs[Current("swap")].status # "mined"
       \/ /\ pc = "confirm" /\ Mode = "solana" /\ ~Done(Current("swap"))
          /\ polls + 1 = MaxPolls
    /\ Ends
    /\ UNCHANGED chain

\* The process dies in the call.
Die ==
    /\ pc # "idle"
    /\ Ends
    /\ UNCHANGED chain

-----------------------------------------------------------------------------
(* What the chain does with a transaction. *)

Pool(i) ==
    /\ txs[i].status = "flying"
    /\ Accepts(i)
    /\ SetStatus(i, "pooled")
    /\ UNCHANGED <<allowance, funds>>

\* In the order of nonces and for a fee; a swap reverts without its allowance, and may for
\* its slippage.
Mine(i) ==
    /\ txs[i].status = "pooled"
    /\ funds > 0
    /\ funds' = funds - 1
    /\ Mode = "evm" => txs[i].nonce = Mined
    /\ \/ /\ txs[i].kind = "swap" /\ Mode = "evm" => txs[i].approval \in allowance
          /\ SetStatus(i, "mined")
          /\ allowance' = IF txs[i].kind = "approve" THEN allowance \cup {txs[i].approval}
                          ELSE allowance
       \/ SetStatus(i, "reverted") /\ UNCHANGED allowance

\* A pool forgets it, though copies are left, or none.
Forget(i) ==
    /\ \/ txs[i].status = "pooled" /\ SetStatus(i, "flying")
       \/ txs[i].status = "flying" /\ SetStatus(i, "gone")
    /\ UNCHANGED <<allowance, funds>>

Chain ==
    /\ \E i \in DOMAIN txs : Pool(i) \/ Mine(i) \/ Forget(i)
    /\ UNCHANGED <<settings, call, caller>>

Adapter ==
    \/ PreparePaper \/ PrepareSolana \/ PrepareEvm \/ NoSolanaRoute \/ NoEvmRoute
    \/ DexPaperReports \/ CexPaperReports \/ StubReports
    \/ BuildJupiter \/ BuildOdos \/ NoPrice
    \/ CheckAllowance \/ SignApproval \/ SignSwap
    \/ Sent \/ SendRefused \/ Lost \/ NoAnswer
    \/ InvalidEvmAnswer \/ InvalidSolanaAnswer
    \/ ConfirmApproval \/ Confirm \/ PollAgain \/ FailedOnChain \/ Unconfirmed

Next == Call \/ Adapter \/ Die \/ Chain

\* An adapter goes on with a call it has begun; the chain need not do anything.
Fairness == WF_vars(Adapter)

Spec == Init /\ [][Next]_vars /\ Fairness

-----------------------------------------------------------------------------
(* Properties. *)

TypeOK ==
    /\ settings \in Settings
    /\ pc \in Steps
    /\ action \in Actions
    /\ spender \in Spenders \cup {NoOne}
    /\ tries \in 0 .. MaxTries - 1
    /\ polls \in 0 .. MaxPolls - 1
    /\ txs \in Seq([call : Nat, kind : {"approve", "swap"}, status : Statuses, nonce : Nat,
                    approval : Pairs])
    /\ allowance \subseteq Pairs
    /\ funds \in 0 .. Funds
    /\ position \in BOOLEAN
    /\ calls \in 0 .. MaxCalls
    /\ filled \subseteq 1 .. calls
    /\ paperFills \in Nat

\* Refinement: what the pipeline worker takes for granted about a call.  The orders a
\* call leaves behind are the swaps it has signed, which the same bytes sent twice do
\* not double, and the fills on paper.
Ended(i) == pc = "idle" \/ txs[i].call # calls
Orders == paperFills + Cardinality({i \in Swaps : Ended(i)})
Venue == INSTANCE VenueCall WITH calls <- calls, inCall <- pc # "idle", fills <- Orders
ImplementsVenueCall == Venue!Spec

\* A live report is FILLED only when that call's own swap was mined, though attempts
\* share nonces and old transactions come back.
FilledIsMined ==
    Mode \in {"evm", "solana"} =>
        \A c \in filled : \E i \in Swaps : txs[i].call = c /\ txs[i].status = "mined"

\* No swap is signed on the EVM before an allowance of its own is on the chain, for the
\* token it sells and the spender it names: an approval that is still pending stops the
\* call, the approval of an entry does nothing for the exit, and that of a call that died
\* serves a later one.
SwapAfterApproval == Mode = "evm" => \A i \in Swaps : txs[i].approval \in allowance

\* With venues.paper_execution_enabled nothing is ever signed, whatever the other
\* switches say and through whichever adapter.
PaperNeverSigns == settings.paper => txs = <<>>

\* Every call ends: its requests have timeouts, and both retry loops and the polling are
\* bounded.
CallEnds == pc # "idle" ~> pc = "idle"
================================================================================
