---------------------------- MODULE AdaptersProofs -----------------------------
(***************************************************************************)
(* Theorems about Adapters, for every deployment, any number of calls,     *)
(* retries and polls, whatever the chain does with the transactions: what  *)
(* is signed, what a FILLED report stands for, and that a call of an       *)
(* adapter is what the pipeline takes it for (VenueCall).                  *)
(***************************************************************************)
EXTENDS Adapters, CommonLemmas, SequenceTheorems

-----------------------------------------------------------------------------
(* The inductive invariant. *)

BeforeSwap == {"prepare", "paper", "stub", "build", "allowance", "approval", "send_approval",
               "confirm_approval", "sign"}

BeforeApproval == {"prepare", "paper", "stub", "build", "allowance", "approval"}

\* A step belongs to one mode, and only the modes with a chain sign anything.
ModeInv ==
    /\ pc = "paper" => Mode = "paper"
    /\ pc = "stub" => Mode = "stub"
    /\ pc \in {"allowance", "approval", "send_approval", "confirm_approval"} => Mode = "evm"
    /\ pc \in {"build", "sign", "send", "confirm"} => Mode \in {"evm", "solana"}
    /\ txs # <<>> => Mode \in {"evm", "solana"}

\* A call signs a transaction of each kind at most once, at its step.
TxsInv ==
    /\ pc # "idle" => calls >= 1
    /\ \A i \in DOMAIN txs : txs[i].call <= calls
    /\ \A i, j \in DOMAIN txs : txs[i].call = txs[j].call /\ txs[i].kind = txs[j].kind => i = j
    /\ \A i \in DOMAIN txs : txs[i].call = calls =>
         /\ pc \in BeforeSwap => txs[i].kind = "approve"
         /\ pc \notin BeforeApproval
    /\ pc \in {"send_approval", "confirm_approval"} =>
         \E i \in DOMAIN txs : txs[i].call = calls /\ txs[i].kind = "approve"
    /\ pc \in {"send", "confirm"} =>
         \E i \in DOMAIN txs : txs[i].call = calls /\ txs[i].kind = "swap"

\* An approval that is mined is an allowance, which is there when a swap that needs it is
\* signed, and stays; a call that waits for an approval has asked for its own.
AllowanceInv ==
    /\ \A i \in DOMAIN txs :
         txs[i].kind = "approve" /\ txs[i].status = "mined" => txs[i].approval \in allowance
    /\ pc \in {"send_approval", "confirm_approval"} =>
         \A i \in DOMAIN txs :
            txs[i].call = calls /\ txs[i].kind = "approve" => txs[i].approval = Approval
    /\ Mode = "evm" /\ pc = "sign" => Approval \in allowance
    /\ SwapAfterApproval

Inv == TypeOK /\ ModeInv /\ TxsInv /\ AllowanceInv /\ FilledIsMined

-----------------------------------------------------------------------------
(* The operators of the model. *)

Transactions ==
    [call : Nat, kind : {"approve", "swap"}, status : Statuses, nonce : Nat, approval : Pairs]

\* The four ways to execute a call (build_dex_adapter, build_cex_adapter), two of which sign
\* nothing and are all that is left with paper execution on.
LEMMA Modes ==
  ASSUME TypeOK
  PROVE  /\ Mode \in {"paper", "stub", "solana", "evm"}
         /\ settings.paper => Mode \in {"paper", "stub"}
         /\ Mode \in {"stub", "solana"} <=> Executor = "solana"
         /\ Executor \in {"paper", "solana", "evm"}
<1>1. settings.venue \in Venues /\ settings.paper \in BOOLEAN
  BY DEF TypeOK, Settings
<1>2. Executor \in {"paper", "solana", "evm"}
  BY <1>1 DEF Executor, Venues
<1>3. ASSUME settings.paper
      PROVE  Executor = "paper" \/ (Executor = "solana" /\ ~ LiveExecution)
  <2>1. ~ LiveExecution
    BY <1>3 DEF LiveExecution
  <2>2. Executor \in {"paper", "solana"}
    BY <1>1, <1>3 DEF Executor, Venues
  <2>3. QED
    BY <2>1, <2>2
<1>4. CASE Executor = "solana"
  BY <1>3, <1>4 DEF Mode
<1>5. CASE Executor # "solana"
  BY <1>2, <1>3, <1>5 DEF Mode
<1>6. QED
  BY <1>2, <1>4, <1>5

\* Nobody changes the settings of a running process, so the mode stays.
LEMMA ModeStays ==
  ASSUME settings' = settings
  PROVE  Mode' = Mode /\ Executor' = Executor
  BY DEF Mode, Executor, LiveExecution, LiveTrading

\* The count of mined transactions is one.
LEMMA MinedIsNat ==
  ASSUME TypeOK
  PROVE  Mined \in Nat
<1>1. DOMAIN txs = 1 .. Len(txs) /\ Len(txs) \in Nat
  BY DEF TypeOK
<1>2. IsFiniteSet(DOMAIN txs)
  BY <1>1, FS_Interval
<1>3. IsFiniteSet({i \in DOMAIN txs : Done(i)})
  BY <1>2, FS_Subset
<1>4. QED
  BY <1>3, FS_CardinalityType DEF Mined

\* A node has a nonce to give (eth_getTransactionCount): with as many transactions as there
\* ever were, one nonce more is not in the pool.
LEMMA NonceIsNat ==
  ASSUME TypeOK
  PROVE  TransactionCount \in Nat
<1> DEFINE Candidate == Mined .. Mined + Len(txs)
<1> DEFINE Free == {n \in Candidate : ~ Pooled(n)}
<1> DEFINE Holder == [n \in Candidate |->
                        CHOOSE i \in DOMAIN txs : txs[i].status = "pooled" /\ txs[i].nonce = n]
<1>1. Mined \in Nat
  BY MinedIsNat
<1>2. DOMAIN txs = 1 .. Len(txs) /\ Len(txs) \in Nat
  BY DEF TypeOK
<1>3. Free # {}
  <2>1. SUFFICES ASSUME \A n \in Candidate : Pooled(n)
                 PROVE  FALSE
    OBVIOUS
  <2>2. ASSUME NEW n \in Candidate
        PROVE  Holder[n] \in DOMAIN txs /\ txs[Holder[n]].nonce = n
    <3>1. \E i \in DOMAIN txs : txs[i].status = "pooled" /\ txs[i].nonce = n
      BY <2>1, Zenon DEF Pooled
    <3>2. QED
      BY <3>1, Zenon
  <2>3. Holder \in [Candidate -> DOMAIN txs]
    <3>1. \A n \in Candidate : Holder[n] \in DOMAIN txs
      BY <2>2, Zenon
    <3>2. QED
      BY <3>1, Zenon
  <2>4. /\ IsFiniteSet(Candidate) /\ IsFiniteSet(DOMAIN txs)
        /\ Cardinality(DOMAIN txs) = Len(txs) /\ Cardinality(Candidate) = Len(txs) + 1
    <3>1. IsFiniteSet(1 .. Len(txs)) /\ Cardinality(1 .. Len(txs)) = Len(txs)
      <4>1. /\ IsFiniteSet(1 .. Len(txs))
            /\ Cardinality(1 .. Len(txs)) = IF 1 > Len(txs) THEN 0 ELSE Len(txs) - 1 + 1
        BY <1>2, FS_Interval
      <4>2. QED
        BY <1>2, <4>1
    <3>2. /\ IsFiniteSet(Mined .. Mined + Len(txs))
          /\ Cardinality(Mined .. Mined + Len(txs)) = Len(txs) + 1
      BY <1>1, <1>2, FS_Interval
    <3>3. QED
      BY <1>2, <3>1, <3>2
  <2>5. Cardinality(DOMAIN txs) < Cardinality(Candidate)
    BY <1>2, <2>4
  <2> HIDE DEF Candidate, Holder
  <2>6. \E m, n \in Candidate : m # n /\ Holder[m] = Holder[n]
    BY <2>3, <2>4, <2>5, FS_PigeonHole
  <2>7. QED
    BY <2>2, <2>6, Zenon
<1>4. Free \in SUBSET Nat
  BY <1>1, <1>2
<1>5. Min(Free) \in Free
  BY <1>3, <1>4, MinIsLeast, Zenon
<1>6. QED
  BY <1>4, <1>5, Zenon DEF TransactionCount

\* What a swap needs (_approval_requirement) is a token and a spender.
LEMMA ApprovalIsPair ==
  ASSUME TypeOK
  PROVE  Approval \in Pairs
  BY DEF TypeOK, Approval, SellToken, Pairs

\* What a CHOOSE of the call's own transaction gives, once there is one to choose.
LEMMA CurrentIs ==
  ASSUME NEW kind, \E i \in DOMAIN txs : txs[i].call = calls /\ txs[i].kind = kind
  PROVE  /\ Current(kind) \in DOMAIN txs
         /\ txs[Current(kind)].call = calls /\ txs[Current(kind)].kind = kind
  BY Zenon DEF Current

\* A transaction gets another status, and nothing else of any transaction changes.
LEMMA StatusIs ==
  ASSUME TypeOK, NEW i \in DOMAIN txs, NEW s \in Statuses, SetStatus(i, s)
  PROVE  /\ txs' \in Seq(Transactions)
         /\ DOMAIN txs' = DOMAIN txs
         /\ \A j \in DOMAIN txs :
              /\ txs'[j].call = txs[j].call /\ txs'[j].kind = txs[j].kind
              /\ txs'[j].approval = txs[j].approval
              /\ txs'[j].status = IF j = i THEN s ELSE txs[j].status
<1>1. txs \in Seq(Transactions)
  BY DEF TypeOK, Transactions
<1>2. \A j \in DOMAIN txs : txs[j] \in Transactions
  BY <1>1
<1>3. txs' = [txs EXCEPT ![i] = [txs[i] EXCEPT !.status = s]]
  BY DEF SetStatus
<1>4. [txs[i] EXCEPT !.status = s] \in Transactions
  BY <1>2 DEF Transactions
<1>5. txs' \in Seq(Transactions)
  BY <1>1, <1>3, <1>4
<1>6. DOMAIN txs' = DOMAIN txs
  BY <1>3
<1>7. ASSUME NEW j \in DOMAIN txs
      PROVE  /\ txs'[j].call = txs[j].call /\ txs'[j].kind = txs[j].kind
             /\ txs'[j].approval = txs[j].approval
             /\ txs'[j].status = IF j = i THEN s ELSE txs[j].status
  <2>1. txs[j] \in Transactions
    BY <1>2
  <2>2. CASE j = i
    BY <1>3, <2>1, <2>2 DEF Transactions
  <2>3. CASE j # i
    BY <1>3, <2>3
  <2>4. QED
    BY <2>2, <2>3
<1>8. QED
  BY <1>5, <1>6, <1>7

\* A transaction is added behind the others, which stay as they are.
LEMMA SignedIs ==
  ASSUME TypeOK, NEW kind \in {"approve", "swap"}, SignAndSend(kind)
  PROVE  /\ txs' \in Seq(Transactions)
         /\ DOMAIN txs' = DOMAIN txs \cup {Len(txs) + 1}
         /\ Len(txs) + 1 \notin DOMAIN txs
         /\ \A j \in DOMAIN txs : txs'[j] = txs[j]
         /\ txs'[Len(txs) + 1].call = calls
         /\ txs'[Len(txs) + 1].kind = kind
         /\ txs'[Len(txs) + 1].status = "flying"
         /\ txs'[Len(txs) + 1].approval = Approval
<1> DEFINE nonce == IF Mode = "evm" THEN TransactionCount ELSE 0
<1> DEFINE tx == [call |-> calls, kind |-> kind, status |-> "flying",
                  nonce |-> nonce, approval |-> Approval]
<1>1. nonce \in Nat
  BY NonceIsNat
<1>2. Approval \in Pairs
  BY ApprovalIsPair
<1>3. txs' = Append(txs, tx)
  BY DEF SignAndSend
<1> HIDE DEF nonce
<1>4. tx \in Transactions
  BY <1>1, <1>2 DEF TypeOK, Transactions, Statuses
<1>5. tx.call = calls /\ tx.kind = kind /\ tx.status = "flying" /\ tx.approval = Approval
  OBVIOUS
<1> HIDE DEF tx
<1>6. txs \in Seq(Transactions)
  BY DEF TypeOK, Transactions
<1>7. /\ txs' \in Seq(Transactions)
      /\ Len(txs') = Len(txs) + 1
      /\ \A j \in 1 .. Len(txs) : txs'[j] = txs[j]
      /\ txs'[Len(txs) + 1] = tx
  BY <1>3, <1>4, <1>6, AppendProperties
<1>8. /\ DOMAIN txs = 1 .. Len(txs) /\ DOMAIN txs' = 1 .. Len(txs) + 1 /\ Len(txs) \in Nat
  BY <1>6, <1>7
<1>9. QED
  BY <1>5, <1>7, <1>8

-----------------------------------------------------------------------------
(* Types and modes. *)

\* A call goes on with its next request, or ends: both count anew.
LEMMA GotoTypes ==
  ASSUME NEW step \in Steps, Goto(step)
  PROVE  pc' = step /\ pc' \in Steps /\ tries' \in 0 .. MaxTries - 1 /\ polls' \in 0 .. MaxPolls - 1
  BY AdaptersAssumption DEF Goto

\* What a step that leaves the chain and the caller alone has to show.
LEMMA QuietTypes ==
  ASSUME TypeOK, UNCHANGED <<settings, action, chain, caller>>, pc' \in Steps,
         spender' \in Spenders \cup {NoOne}, tries' \in 0 .. MaxTries - 1,
         polls' \in 0 .. MaxPolls - 1
  PROVE  TypeOK'
  BY DEF TypeOK, chain, caller

\* A report ends the call, and adds it to those that were answered.
LEMMA ReportTypes ==
  ASSUME TypeOK, calls >= 1, NEW status, Reports(status), paperFills' \in Nat
  PROVE  TypeOK'
<1>1. pc' \in Steps /\ tries' \in 0 .. MaxTries - 1 /\ polls' \in 0 .. MaxPolls - 1
  BY GotoTypes DEF Reports, Steps
<1>2. UNCHANGED <<settings, action, spender, txs, allowance, funds, calls>>
  BY DEF Reports, chain
<1>3. position' \in BOOLEAN
  BY DEF Reports
<1>4. filled' \subseteq 1 .. calls
  <2>1. calls \in 1 .. calls
    BY DEF TypeOK
  <2>2. filled' \subseteq filled \cup {calls}
    BY DEF Reports
  <2>3. QED
    BY <2>1, <2>2 DEF TypeOK
<1>5. QED
  BY <1>1, <1>2, <1>3, <1>4 DEF TypeOK

\* Every step keeps the types.
LEMMA TypesKept ==
  ASSUME TypeOK, TxsInv, [Next]_vars
  PROVE  TypeOK'
<1> USE DEF Steps
<1>1. CASE Call
  <2>1. pc' \in Steps /\ tries' \in 0 .. MaxTries - 1 /\ polls' \in 0 .. MaxPolls - 1
    BY <1>1, GotoTypes DEF Call
  <2>2. calls' \in 0 .. MaxCalls /\ filled \subseteq 1 .. calls'
    BY <1>1, AdaptersAssumption DEF Call, TypeOK
  <2>3. action' \in Actions /\ spender' \in Spenders \cup {NoOne}
    BY <1>1 DEF Call, Actions
  <2>4. QED
    BY <1>1, <2>1, <2>2, <2>3 DEF Call, TypeOK, chain
<1>2. CASE PreparePaper \/ PrepareSolana \/ PrepareEvm
  BY <1>2, GotoTypes, QuietTypes
     DEF PreparePaper, PrepareSolana, PrepareEvm, Prepare, TypeOK
<1>3. CASE UNCHANGED chain /\ Ends
  BY <1>3, GotoTypes, QuietTypes DEF Ends, TypeOK
<1>4. CASE PaperReports
  <2>1. PICK status :
           Reports(status) /\ paperFills' = paperFills + (IF status = "FAILED" THEN 0 ELSE 1)
    BY <1>4 DEF PaperReports
  <2>2. calls >= 1 /\ paperFills' \in Nat
    BY <1>4, <2>1 DEF PaperReports, TypeOK, TxsInv
  <2>3. QED
    BY <2>1, <2>2, ReportTypes
<1>5. CASE StubReports \/ Confirm
  <2>1. Reports("FILLED")
    BY <1>5 DEF StubReports, Confirm
  <2>2. calls >= 1 /\ paperFills' \in Nat
    BY <1>5 DEF StubReports, Confirm, TypeOK, TxsInv
  <2>3. QED
    BY <2>1, <2>2, ReportTypes
<1>6. CASE BuildJupiter \/ BuildOdos
  <2>1. spender' \in Spenders \cup {NoOne}
    BY <1>6 DEF BuildJupiter, BuildOdos, TypeOK
  <2>2. pc' \in Steps /\ tries' \in 0 .. MaxTries - 1 /\ polls' \in 0 .. MaxPolls - 1
    BY <1>6, GotoTypes DEF BuildJupiter, BuildOdos, Build
  <2>3. UNCHANGED <<settings, action, chain, caller>>
    BY <1>6 DEF BuildJupiter, BuildOdos, Build
  <2>4. QED
    BY <2>1, <2>2, <2>3, QuietTypes
<1>7. CASE CheckAllowance
  BY <1>7, GotoTypes, QuietTypes DEF CheckAllowance, TypeOK
<1>8. CASE SignApproval
  <2>1. txs' \in Seq(Transactions)
    BY <1>8, SignedIs DEF SignApproval
  <2>2. pc' \in Steps /\ tries' \in 0 .. MaxTries - 1 /\ polls' \in 0 .. MaxPolls - 1
    BY <1>8, GotoTypes DEF SignApproval
  <2>3. QED
    BY <1>8, <2>1, <2>2 DEF SignApproval, TypeOK, Transactions, caller
<1>9. CASE SignSwap
  <2>1. txs' \in Seq(Transactions)
    BY <1>9, SignedIs DEF SignSwap
  <2>2. pc' \in Steps /\ tries' \in 0 .. MaxTries - 1 /\ polls' \in 0 .. MaxPolls - 1
    BY <1>9, GotoTypes DEF SignSwap
  <2>3. QED
    BY <1>9, <2>1, <2>2 DEF SignSwap, TypeOK, Transactions, caller
<1>10. CASE Sent
  BY <1>10, GotoTypes, QuietTypes DEF Sent, TypeOK
<1>11. CASE SendRefused
  <2>1. Current(Kind) \in DOMAIN txs
    <3>1. \E i \in DOMAIN txs : txs[i].call = calls /\ txs[i].kind = Kind
      BY <1>11 DEF SendRefused, Kind, TxsInv
    <3>2. QED
      BY <3>1, CurrentIs
  <2>2. txs' \in Seq(Transactions)
    BY <1>11, <2>1, StatusIs DEF SendRefused, Statuses
  <2>3. pc' \in Steps /\ tries' \in 0 .. MaxTries - 1 /\ polls' \in 0 .. MaxPolls - 1
    BY <1>11, GotoTypes DEF SendRefused, Ends
  <2>4. QED
    BY <1>11, <2>2, <2>3 DEF SendRefused, Ends, TypeOK, Transactions, caller
<1>12. CASE Lost
  BY <1>12, AdaptersAssumption, QuietTypes DEF Lost, TypeOK
<1>13. CASE ConfirmApproval
  BY <1>13, GotoTypes, QuietTypes DEF ConfirmApproval, TypeOK
<1>14. CASE PollAgain
  BY <1>14, AdaptersAssumption, QuietTypes DEF PollAgain, TypeOK
<1>15. CASE Chain
  <2>1. PICK i \in DOMAIN txs : Pool(i) \/ Mine(i) \/ Forget(i)
    BY <1>15 DEF Chain
  <2>2. PICK s \in Statuses : SetStatus(i, s)
    BY <2>1 DEF Pool, Mine, Forget, Statuses
  <2>3. txs' \in Seq(Transactions)
    BY <2>2, StatusIs
  <2>4. funds' = funds \/ (funds > 0 /\ funds' = funds - 1)
    BY <2>1 DEF Pool, Mine, Forget
  <2>5. funds' \in 0 .. Funds
    BY <2>4, AdaptersAssumption DEF TypeOK
  <2>6. txs[i].approval \in Pairs
    <3>1. txs \in Seq(Transactions)
      BY DEF TypeOK, Transactions
    <3>2. txs[i] \in Transactions
      BY <3>1
    <3>3. QED
      BY <3>2 DEF Transactions
  <2>7. allowance' \subseteq Pairs
    BY <2>1, <2>6 DEF Pool, Mine, Forget, TypeOK
  <2>8. QED
    BY <1>15, <2>3, <2>5, <2>7 DEF Chain, TypeOK, Transactions, call, caller
<1>16. CASE UNCHANGED vars
  BY <1>16 DEF vars, call, chain, caller, TypeOK
<1>17. QED
  BY <1>1, <1>2, <1>3, <1>4, <1>5, <1>6, <1>7, <1>8, <1>9, <1>10, <1>11, <1>12, <1>13, <1>14,
     <1>15, <1>16
     DEF Next, Adapter, Die, NoSolanaRoute, NoEvmRoute, NoRoute, DexPaperReports, CexPaperReports,
         NoPrice, NoAnswer, InvalidEvmAnswer, InvalidSolanaAnswer, InvalidAnswer, FailedOnChain,
         Unconfirmed

\* Every step goes on in its mode (prepare and execute of one adapter).
LEMMA ModesKept ==
  ASSUME Inv, [Next]_vars
  PROVE  ModeInv'
<1> USE DEF Inv, ModeInv
<1>1. settings' = settings
  BY DEF Next, vars, Call, Adapter, Die, Chain, Ends, Reports, PreparePaper, PrepareSolana,
         PrepareEvm, Prepare, NoSolanaRoute, NoEvmRoute, NoRoute, DexPaperReports,
         CexPaperReports, PaperReports, StubReports, BuildJupiter, BuildOdos, Build, NoPrice,
         CheckAllowance, SignApproval, SignSwap, Sent, SendRefused, Lost, NoAnswer,
         InvalidEvmAnswer, InvalidSolanaAnswer, InvalidAnswer, ConfirmApproval, Confirm,
         PollAgain, FailedOnChain, Unconfirmed
<1>2. Mode' = Mode
  BY <1>1, ModeStays
<1>3. CASE pc' = "idle" /\ (txs = <<>> => txs' = <<>>)
  BY <1>2, <1>3
<1>4. CASE pc' = pc /\ (txs = <<>> => txs' = <<>>)
  BY <1>2, <1>4
<1>5. CASE Call
  BY <1>2, <1>5 DEF Call, Goto, chain
<1>6. CASE PreparePaper \/ PrepareSolana \/ PrepareEvm \/ BuildJupiter \/ BuildOdos
  BY <1>2, <1>6 DEF PreparePaper, PrepareSolana, PrepareEvm, Prepare, BuildJupiter, BuildOdos,
                    Build, Goto, chain
<1>7. CASE CheckAllowance \/ ConfirmApproval
  BY <1>2, <1>7 DEF CheckAllowance, ConfirmApproval, Goto, chain
<1>8. CASE SignApproval \/ SignSwap
  BY <1>2, <1>8 DEF SignApproval, SignSwap, Goto
<1>9. CASE Sent
  BY <1>2, <1>9 DEF Sent, Goto, chain
<1>10. CASE SendRefused
  <2>1. txs = <<>> => txs' = <<>>
    BY <1>10 DEF SendRefused, SetStatus
  <2>2. QED
    BY <1>3, <1>10, <2>1 DEF SendRefused, Ends, Goto
<1>11. CASE Chain
  <2>1. txs # <<>>
    BY <1>11 DEF Chain
  <2>2. QED
    BY <1>4, <1>11, <2>1 DEF Chain, call
<1>12. CASE \/ PaperReports \/ StubReports \/ Confirm \/ (Ends /\ UNCHANGED chain)
  BY <1>3, <1>12 DEF PaperReports, StubReports, Confirm, Reports, Ends, Goto, chain
<1>13. CASE Lost \/ PollAgain \/ UNCHANGED vars
  BY <1>4, <1>13 DEF Lost, PollAgain, chain, call, vars
<1>14. QED
  BY <1>5, <1>6, <1>7, <1>8, <1>9, <1>10, <1>11, <1>12, <1>13
     DEF Next, Adapter, Die, NoSolanaRoute, NoEvmRoute, NoRoute, DexPaperReports, CexPaperReports,
         NoPrice, NoAnswer, InvalidEvmAnswer, InvalidSolanaAnswer, InvalidAnswer, FailedOnChain,
         Unconfirmed

-----------------------------------------------------------------------------
(* What a step does to the transactions of a call.  It begins the call, or *)
(* signs for it, or neither: then it "goes".                               *)

\* The transactions stay, and what is mined stays mined.
Kept ==
    /\ DOMAIN txs' = DOMAIN txs
    /\ \A i \in DOMAIN txs :
         /\ txs'[i].call = txs[i].call /\ txs'[i].kind = txs[i].kind
         /\ txs'[i].approval = txs[i].approval
         /\ txs[i].status = "mined" => txs'[i].status = "mined"
         /\ txs'[i].kind = "approve" /\ txs'[i].status = "mined" =>
              txs[i].approval \in allowance' \/ txs[i].status = "mined"

\* No step of a call follows that needs a transaction it has not signed, or an allowance that
\* is not there.
Onward ==
    /\ pc' # "idle" => pc # "idle"
    /\ pc' \in BeforeSwap => pc \in BeforeSwap
    /\ pc' \in BeforeApproval => pc \in BeforeApproval
    /\ pc' \in {"send_approval", "confirm_approval"} =>
         pc \in {"send_approval", "confirm_approval"} /\ Approval' = Approval
    /\ pc' \in {"send", "confirm"} => pc \in {"send", "confirm"}
    /\ Mode = "evm" /\ pc' = "sign" =>
         (pc = "sign" /\ Approval' = Approval) \/ Approval' \in allowance'

\* An answer other than a failure comes from a swap that was mined, if there is a chain.
Answered ==
    \/ filled' = filled
    \/ /\ filled' = filled \cup {calls}
       /\ Mode \in {"evm", "solana"} =>
            \E i \in DOMAIN txs :
               txs[i].kind = "swap" /\ txs[i].call = calls /\ txs[i].status = "mined"

\* Only the end of a call without a chain leaves a fill on paper.
OnPaper ==
    \/ paperFills' = paperFills
    \/ /\ paperFills' = paperFills + 1
       /\ pc # "idle" /\ pc' = "idle" /\ Mode \notin {"evm", "solana"}

Goes ==
    /\ Kept /\ Onward /\ Answered /\ OnPaper
    /\ allowance \subseteq allowance'
    /\ calls' = calls /\ Mode' = Mode

\* A step that ends the call without an answer, or leaves it where it is.
LEMMA EndsGoes ==
  ASSUME TypeOK, UNCHANGED <<settings, calls, filled, paperFills, txs, allowance>>,
         UNCHANGED <<action, spender>>, pc' \in {"idle", pc}
  PROVE  Goes
<1>1. Mode' = Mode
  BY ModeStays
<1>2. Kept /\ Answered
  BY DEF Kept, Answered
<1>3. Onward
  BY DEF Onward, BeforeSwap, BeforeApproval, Approval, SellToken
<1>4. QED
  BY <1>1, <1>2, <1>3 DEF Goes, OnPaper

\* The chain, or a node, gives a transaction another status.
LEMMA StatusGoes ==
  ASSUME TypeOK, NEW i \in DOMAIN txs, NEW s \in Statuses, SetStatus(i, s),
         txs[i].status # "mined", allowance \subseteq allowance',
         txs[i].kind = "approve" /\ s = "mined" => txs[i].approval \in allowance',
         UNCHANGED <<settings, calls, filled, paperFills, action, spender>>, pc' \in {"idle", pc}
  PROVE  Goes
<1>1. Mode' = Mode
  BY ModeStays
<1>2. Kept
  BY StatusIs DEF Kept
<1>3. Onward
  BY DEF Onward, BeforeSwap, BeforeApproval, Approval, SellToken
<1>4. QED
  BY <1>1, <1>2, <1>3 DEF Goes, Answered, OnPaper

\* The report of a call that has no chain, or whose swap was mined.
LEMMA ReportGoes ==
  ASSUME TypeOK, NEW status, Reports(status), OnPaper,
         Mode \in {"evm", "solana"} =>
            \E i \in DOMAIN txs :
               txs[i].kind = "swap" /\ txs[i].call = calls /\ txs[i].status = "mined"
  PROVE  Goes
<1>1. UNCHANGED <<settings, txs, allowance, calls>> /\ pc' = "idle"
  BY DEF Reports, chain, Goto
<1>2. Mode' = Mode
  BY <1>1, ModeStays
<1>3. Kept
  BY <1>1 DEF Kept
<1>4. Answered
  BY DEF Reports, Answered
<1>5. Onward
  BY <1>1 DEF Onward, BeforeSwap, BeforeApproval
<1>6. QED
  BY <1>1, <1>2, <1>3, <1>4, <1>5 DEF Goes

\* A step to another request that signs nothing.
LEMMA OnwardGoes ==
  ASSUME TypeOK, UNCHANGED <<settings, calls, filled, paperFills, txs, allowance>>, Onward
  PROVE  Goes
<1>1. Mode' = Mode
  BY ModeStays
<1>2. QED
  BY <1>1 DEF Goes, Kept, Answered, OnPaper

\* Every step begins a call, signs for it, or goes.
LEMMA StepKinds ==
  ASSUME Inv, [Next]_vars
  PROVE  Call \/ SignApproval \/ SignSwap \/ Goes
<1> USE DEF Inv
<1>1. CASE Ends /\ UNCHANGED chain
  BY <1>1, EndsGoes DEF Ends, Goto, chain, caller
<1>2. CASE Lost \/ PollAgain
  BY <1>2, EndsGoes DEF Lost, PollAgain, chain, caller
<1>3. CASE UNCHANGED vars
  BY <1>3, EndsGoes DEF vars, call, chain, caller
<1>4. CASE PreparePaper \/ PrepareSolana \/ PrepareEvm
  <2>1. Prepare("paper") \/ Prepare("stub") \/ Prepare("build")
    BY <1>4 DEF PreparePaper, PrepareSolana, PrepareEvm
  <2>2. Onward
    BY <2>1 DEF Prepare, Goto, Onward, BeforeSwap, BeforeApproval
  <2>3. QED
    BY <2>1, <2>2, OnwardGoes DEF Prepare, chain, caller
<1>5. CASE BuildJupiter \/ BuildOdos
  <2>1. Onward
    BY <1>5 DEF BuildJupiter, BuildOdos, Build, Goto, Onward, BeforeSwap, BeforeApproval
  <2>2. QED
    BY <1>5, <2>1, OnwardGoes DEF BuildJupiter, BuildOdos, Build, chain, caller
<1>6. CASE CheckAllowance
  <2>1. Onward
    BY <1>6 DEF CheckAllowance, Goto, Onward, BeforeSwap, BeforeApproval, Approval, SellToken,
                chain
  <2>2. QED
    BY <1>6, <2>1, OnwardGoes DEF CheckAllowance, chain, caller
<1>7. CASE Sent
  <2>1. Onward
    BY <1>7 DEF Sent, Goto, Onward, BeforeSwap, BeforeApproval, Approval, SellToken
  <2>2. QED
    BY <1>7, <2>1, OnwardGoes DEF Sent, chain, caller
<1>8. CASE SendRefused
  <2>1. Current(Kind) \in DOMAIN txs
    <3>1. \E i \in DOMAIN txs : txs[i].call = calls /\ txs[i].kind = Kind
      BY <1>8 DEF SendRefused, Kind, TxsInv
    <3>2. QED
      BY <3>1, CurrentIs
  <2>2. /\ txs[Current(Kind)].status = "flying" /\ SetStatus(Current(Kind), "gone")
        /\ UNCHANGED <<settings, calls, filled, paperFills, action, spender, allowance>>
        /\ pc' = "idle"
    BY <1>8 DEF SendRefused, Ends, Goto, caller
  <2>3. QED
    BY <2>1, <2>2, StatusGoes DEF Statuses
<1>9. CASE ConfirmApproval
  <2>1. txs[Current("approve")].status = "mined" /\ pc = "confirm_approval"
    BY <1>9 DEF ConfirmApproval
  <2>2. /\ Current("approve") \in DOMAIN txs
        /\ txs[Current("approve")].kind = "approve" /\ txs[Current("approve")].call = calls
    BY <2>1, CurrentIs DEF TxsInv
  <2>3. Approval \in allowance /\ allowance' = allowance /\ Approval' = Approval
    BY <1>9, <2>1, <2>2 DEF AllowanceInv, ConfirmApproval, Approval, SellToken, chain
  <2>4. Onward
    BY <1>9, <2>1, <2>3 DEF ConfirmApproval, Goto, Onward, BeforeSwap, BeforeApproval
  <2>5. QED
    BY <1>9, <2>4, OnwardGoes DEF ConfirmApproval, chain, caller
<1>10. CASE PaperReports \/ StubReports
  <2>1. Mode \notin {"evm", "solana"}
    BY <1>10 DEF PaperReports, StubReports, ModeInv
  <2>2. PICK status : Reports(status) /\ paperFills' \in {paperFills, paperFills + 1}
    BY <1>10 DEF PaperReports, StubReports, TypeOK
  <2>3. OnPaper
    BY <1>10, <2>1, <2>2 DEF PaperReports, StubReports, Reports, Goto, OnPaper
  <2>4. QED
    BY <2>1, <2>2, <2>3, ReportGoes
<1>11. CASE Confirm
  <2>1. pc = "confirm" /\ txs[Current("swap")].status = "mined" /\ Reports("FILLED")
    BY <1>11 DEF Confirm
  <2>2. /\ Current("swap") \in DOMAIN txs
        /\ txs[Current("swap")].kind = "swap" /\ txs[Current("swap")].call = calls
    BY <2>1, CurrentIs DEF TxsInv
  <2>3. QED
    BY <1>11, <2>1, <2>2, ReportGoes DEF Confirm, OnPaper
<1>12. CASE Chain
  <2>1. PICK i \in DOMAIN txs : Pool(i) \/ Mine(i) \/ Forget(i)
    BY <1>12 DEF Chain
  <2>2. UNCHANGED <<settings, calls, filled, paperFills, pc, action, spender>>
    BY <1>12 DEF Chain, call, caller
  <2>3. CASE Pool(i)
    BY <2>2, <2>3, StatusGoes DEF Pool, Statuses
  <2>4. CASE Mine(i)
    <3>1. CASE SetStatus(i, "mined")
      <4>1. /\ txs[i].status = "pooled"
            /\ allowance' = IF txs[i].kind = "approve" THEN allowance \cup {txs[i].approval}
                            ELSE allowance
        <5>1. txs' = [txs EXCEPT ![i].status = "mined"] /\ txs[i].status = "pooled"
          BY <2>4, <3>1 DEF Mine, SetStatus
        <5>2. txs'[i].status = "mined"
          BY <2>4, <3>1, StatusIs DEF Statuses
        <5>3. ~ SetStatus(i, "reverted")
          BY <5>2, StatusIs DEF Statuses
        <5>4. QED
          BY <2>4, <5>1, <5>3 DEF Mine
      <4>2. /\ allowance \subseteq allowance'
            /\ txs[i].kind = "approve" => txs[i].approval \in allowance'
        BY <4>1
      <4>3. QED
        BY <2>2, <3>1, <4>1, <4>2, StatusGoes DEF Statuses
    <3>2. CASE SetStatus(i, "reverted") /\ UNCHANGED allowance
      BY <2>2, <2>4, <3>2, StatusGoes DEF Mine, Statuses
    <3>3. QED
      BY <2>4, <3>1, <3>2 DEF Mine
  <2>5. CASE Forget(i)
    BY <2>2, <2>5, StatusGoes DEF Forget, Statuses
  <2>6. QED
    BY <2>1, <2>3, <2>4, <2>5
<1>13. QED
  BY <1>1, <1>2, <1>3, <1>4, <1>5, <1>6, <1>7, <1>8, <1>9, <1>10, <1>11, <1>12
     DEF Next, Adapter, Die, NoSolanaRoute, NoEvmRoute, NoRoute, DexPaperReports, CexPaperReports,
         NoPrice, NoAnswer, InvalidEvmAnswer, InvalidSolanaAnswer, InvalidAnswer, FailedOnChain,
         Unconfirmed

-----------------------------------------------------------------------------
(* The invariant. *)

\* Signing for a call, seen from the transactions it had.
LEMMA SignsOnce ==
  ASSUME Inv, NEW kind \in {"approve", "swap"}, SignAndSend(kind), calls' = calls,
         \A i \in DOMAIN txs : txs[i].call = calls => txs[i].kind # kind
  PROVE  /\ \A i \in DOMAIN txs' : txs'[i].call <= calls'
         /\ \A i, j \in DOMAIN txs' :
              txs'[i].call = txs'[j].call /\ txs'[i].kind = txs'[j].kind => i = j
<1> DEFINE new == Len(txs) + 1
<1>1. /\ DOMAIN txs' = DOMAIN txs \cup {new} /\ new \notin DOMAIN txs
      /\ \A j \in DOMAIN txs : txs'[j] = txs[j]
      /\ txs'[new].call = calls /\ txs'[new].kind = kind
  BY SignedIs DEF Inv
<1> HIDE DEF new
<1>2. calls \in Nat
  BY DEF Inv, TypeOK
<1>3. QED
  BY <1>1, <1>2 DEF Inv, TxsInv

\* A call signs once for each kind, whatever it retries.
LEMMA TxsKept ==
  ASSUME Inv, [Next]_vars
  PROVE  TxsInv'
<1>1. TypeOK /\ TxsInv
  BY DEF Inv
<1>2. CASE Call
  <2>1. calls' = calls + 1 /\ pc' = "prepare" /\ txs' = txs /\ calls \in Nat
    BY <1>1, <1>2 DEF Call, Goto, chain, TypeOK
  <2>2. ASSUME NEW i \in DOMAIN txs
        PROVE  txs[i].call \in Nat
    <3>1. txs \in Seq(Transactions)
      BY <1>1 DEF TypeOK, Transactions
    <3>2. txs[i] \in Transactions
      BY <3>1
    <3>3. QED
      BY <3>2 DEF Transactions
  <2>3. \A i \in DOMAIN txs : txs[i].call <= calls + 1 /\ txs[i].call # calls + 1
    BY <1>1, <2>1, <2>2 DEF TxsInv
  <2>4. QED
    BY <1>1, <2>1, <2>3 DEF TxsInv
<1>3. CASE SignApproval
  <2>1. /\ pc = "approval" /\ pc' = "send_approval" /\ SignAndSend("approve") /\ calls' = calls
    BY <1>3 DEF SignApproval, Goto, caller
  <2>2. \A i \in DOMAIN txs : txs[i].call # calls
    BY <1>1, <2>1 DEF TxsInv, BeforeApproval
  <2>3. /\ \A i \in DOMAIN txs' : txs'[i].call <= calls'
        /\ \A i, j \in DOMAIN txs' :
             txs'[i].call = txs'[j].call /\ txs'[i].kind = txs'[j].kind => i = j
    BY <2>1, <2>2, SignsOnce
  <2>4. \A i \in DOMAIN txs' : txs'[i].call = calls' => txs'[i].kind = "approve"
    BY <1>1, <2>1, <2>2, SignedIs
  <2>5. \E i \in DOMAIN txs' : txs'[i].call = calls' /\ txs'[i].kind = "approve"
    BY <1>1, <2>1, SignedIs
  <2>6. calls' >= 1
    BY <1>1, <2>1 DEF TxsInv
  <2>7. QED
    BY <2>1, <2>3, <2>4, <2>5, <2>6 DEF TxsInv, BeforeApproval
<1>4. CASE SignSwap
  <2>1. /\ pc = "sign" /\ pc' = "send" /\ SignAndSend("swap") /\ calls' = calls
    BY <1>4 DEF SignSwap, Goto, caller
  <2>2. \A i \in DOMAIN txs : txs[i].call = calls => txs[i].kind # "swap"
    BY <1>1, <2>1 DEF TxsInv, BeforeSwap
  <2>3. /\ \A i \in DOMAIN txs' : txs'[i].call <= calls'
        /\ \A i, j \in DOMAIN txs' :
             txs'[i].call = txs'[j].call /\ txs'[i].kind = txs'[j].kind => i = j
    BY <2>1, <2>2, SignsOnce
  <2>4. \E i \in DOMAIN txs' : txs'[i].call = calls' /\ txs'[i].kind = "swap"
    BY <1>1, <2>1, SignedIs
  <2>5. calls' >= 1
    BY <1>1, <2>1 DEF TxsInv
  <2>6. QED
    BY <2>1, <2>3, <2>4, <2>5 DEF TxsInv, BeforeSwap, BeforeApproval
<1>5. CASE Goes
  <2>1. calls' = calls /\ Onward /\ DOMAIN txs' = DOMAIN txs
    BY <1>5 DEF Goes, Kept
  <2>2. \A i \in DOMAIN txs : txs'[i].call = txs[i].call /\ txs'[i].kind = txs[i].kind
    BY <1>5 DEF Goes, Kept
  <2>3. pc' # "idle" => calls' >= 1
    BY <1>1, <2>1 DEF Onward, TxsInv
  <2>4. /\ \A i \in DOMAIN txs' : txs'[i].call <= calls'
        /\ \A i, j \in DOMAIN txs' :
             txs'[i].call = txs'[j].call /\ txs'[i].kind = txs'[j].kind => i = j
    BY <1>1, <2>1, <2>2 DEF TxsInv
  <2>5. \A i \in DOMAIN txs' : txs'[i].call = calls' =>
          /\ pc' \in BeforeSwap => txs'[i].kind = "approve"
          /\ pc' \notin BeforeApproval
    BY <1>1, <2>1, <2>2 DEF Onward, TxsInv
  <2>6. pc' \in {"send_approval", "confirm_approval"} =>
          \E i \in DOMAIN txs' : txs'[i].call = calls' /\ txs'[i].kind = "approve"
    BY <1>1, <2>1, <2>2 DEF Onward, TxsInv
  <2>7. pc' \in {"send", "confirm"} =>
          \E i \in DOMAIN txs' : txs'[i].call = calls' /\ txs'[i].kind = "swap"
    BY <1>1, <2>1, <2>2 DEF Onward, TxsInv
  <2>8. QED
    BY <2>3, <2>4, <2>5, <2>6, <2>7 DEF TxsInv
<1>6. QED
  BY <1>2, <1>3, <1>4, <1>5, StepKinds

\* An allowance is there before the swap that needs it is signed.
LEMMA AllowanceKept ==
  ASSUME Inv, [Next]_vars
  PROVE  AllowanceInv'
<1>1. TypeOK /\ AllowanceInv /\ ModeInv /\ TxsInv
  BY DEF Inv
<1>2. CASE Call
  <2>1. UNCHANGED <<settings, txs, allowance>> /\ pc' = "prepare"
    BY <1>2 DEF Call, Goto, chain
  <2>2. Mode' = Mode
    BY <2>1, ModeStays
  <2>3. QED
    BY <1>1, <2>1, <2>2 DEF AllowanceInv, SwapAfterApproval, Swaps
<1>3. CASE SignApproval
  <2>1. /\ pc = "approval" /\ pc' = "send_approval" /\ SignAndSend("approve")
        /\ UNCHANGED <<allowance, settings, calls, action, spender>>
    BY <1>3 DEF SignApproval, Goto, caller
  <2>2. Mode' = Mode /\ Approval' = Approval
    BY <2>1, ModeStays DEF Approval, SellToken
  <2>3. /\ DOMAIN txs' = DOMAIN txs \cup {Len(txs) + 1}
        /\ \A j \in DOMAIN txs : txs'[j] = txs[j]
        /\ txs'[Len(txs) + 1].status = "flying" /\ txs'[Len(txs) + 1].kind = "approve"
        /\ txs'[Len(txs) + 1].approval = Approval
    BY <1>1, <2>1, SignedIs
  <2>4. Swaps' = Swaps
    BY <2>3 DEF Swaps
  <2>5. \A i \in DOMAIN txs : txs[i].call # calls
    BY <1>1, <2>1 DEF TxsInv, BeforeApproval
  <2>6. \A i \in DOMAIN txs' : txs'[i].call = calls' => txs'[i].approval = Approval'
    BY <2>1, <2>2, <2>3, <2>5
  <2>7. SwapAfterApproval'
    BY <1>1, <2>1, <2>2, <2>3, <2>4 DEF AllowanceInv, SwapAfterApproval, Swaps
  <2>8. QED
    BY <1>1, <2>1, <2>2, <2>3, <2>6, <2>7 DEF AllowanceInv
<1>4. CASE SignSwap
  <2>1. /\ pc = "sign" /\ pc' = "send" /\ SignAndSend("swap")
        /\ UNCHANGED <<allowance, settings>>
    BY <1>4 DEF SignSwap, Goto
  <2>2. Mode' = Mode
    BY <2>1, ModeStays
  <2>3. /\ DOMAIN txs' = DOMAIN txs \cup {Len(txs) + 1}
        /\ \A j \in DOMAIN txs : txs'[j] = txs[j]
        /\ txs'[Len(txs) + 1].status = "flying" /\ txs'[Len(txs) + 1].kind = "swap"
        /\ txs'[Len(txs) + 1].approval = Approval
    BY <1>1, <2>1, SignedIs
  <2>4. Mode = "evm" => Approval \in allowance
    BY <1>1, <2>1 DEF AllowanceInv
  <2>5. SwapAfterApproval'
    BY <1>1, <2>1, <2>2, <2>3, <2>4 DEF AllowanceInv, SwapAfterApproval, Swaps
  <2>6. QED
    BY <1>1, <2>1, <2>2, <2>3, <2>5 DEF AllowanceInv
<1>5. CASE Goes
  <2>1. Kept /\ Onward /\ allowance \subseteq allowance' /\ Mode' = Mode /\ calls' = calls
    BY <1>5 DEF Goes
  <2>2. Swaps' = Swaps
    BY <2>1 DEF Kept, Swaps
  <2>3. SwapAfterApproval'
    BY <1>1, <2>1, <2>2 DEF AllowanceInv, SwapAfterApproval, Kept, Swaps
  <2>4. \A i \in DOMAIN txs' :
          txs'[i].kind = "approve" /\ txs'[i].status = "mined" => txs'[i].approval \in allowance'
    BY <1>1, <2>1 DEF Kept, AllowanceInv
  <2>5. Mode' = "evm" /\ pc' = "sign" => Approval' \in allowance'
    BY <1>1, <2>1 DEF Onward, AllowanceInv
  <2>6. pc' \in {"send_approval", "confirm_approval"} =>
          \A i \in DOMAIN txs' :
             txs'[i].call = calls' /\ txs'[i].kind = "approve" => txs'[i].approval = Approval'
    BY <1>1, <2>1 DEF Onward, Kept, AllowanceInv
  <2>7. QED
    BY <2>3, <2>4, <2>5, <2>6 DEF AllowanceInv
<1>6. QED
  BY <1>2, <1>3, <1>4, <1>5, StepKinds

\* A swap that is behind an answer stays mined.
LEMMA FilledKept ==
  ASSUME Inv, [Next]_vars
  PROVE  FilledIsMined'
<1>1. TypeOK /\ FilledIsMined
  BY DEF Inv
<1>2. CASE Call
  <2>1. UNCHANGED <<settings, txs, filled>>
    BY <1>2 DEF Call, chain
  <2>2. Mode' = Mode
    BY <2>1, ModeStays
  <2>3. QED
    BY <1>1, <2>1, <2>2 DEF FilledIsMined, Swaps
<1>3. CASE SignApproval \/ SignSwap
  <2>1. UNCHANGED <<settings, filled>>
    BY <1>3 DEF SignApproval, SignSwap, caller
  <2>2. Mode' = Mode
    BY <2>1, ModeStays
  <2>3. DOMAIN txs \subseteq DOMAIN txs' /\ \A j \in DOMAIN txs : txs'[j] = txs[j]
    BY <1>1, <1>3, SignedIs DEF SignApproval, SignSwap
  <2>4. QED
    BY <1>1, <2>1, <2>2, <2>3 DEF FilledIsMined, Swaps
<1>4. CASE Goes
  <2>1. Kept /\ Answered /\ Mode' = Mode
    BY <1>4 DEF Goes
  <2>2. SUFFICES ASSUME Mode \in {"evm", "solana"}, NEW c \in filled'
                 PROVE  \E i \in Swaps' : txs'[i].call = c /\ txs'[i].status = "mined"
    BY <2>1 DEF FilledIsMined
  <2>3. PICK i \in DOMAIN txs :
           txs[i].kind = "swap" /\ txs[i].call = c /\ txs[i].status = "mined"
    BY <1>1, <2>1, <2>2 DEF Answered, FilledIsMined, Swaps
  <2>4. QED
    BY <2>1, <2>3 DEF Kept, Swaps
<1>5. QED
  BY <1>2, <1>3, <1>4, StepKinds

\* The invariant holds in every state.
THEOREM Invariance == Spec => []Inv
<1>1. Init => Inv
  <2>1. ASSUME Init
        PROVE  TypeOK
    <3>1. txs \in Seq(Transactions)
      BY <2>1 DEF Init
    <3>2. /\ tries \in 0 .. MaxTries - 1 /\ polls \in 0 .. MaxPolls - 1
          /\ funds \in 0 .. Funds /\ calls \in 0 .. MaxCalls
      BY <2>1, AdaptersAssumption DEF Init
    <3>3. action \in Actions /\ spender \in Spenders \cup {NoOne} /\ paperFills \in Nat
      BY <2>1 DEF Init, Actions
    <3>4. filled \subseteq 1 .. calls /\ position \in BOOLEAN /\ allowance \subseteq Pairs
      BY <2>1 DEF Init, Pairs
    <3>5. settings \in Settings /\ pc \in Steps
      BY <2>1 DEF Init, Steps
    <3>6. QED
      BY <3>1, <3>2, <3>3, <3>4, <3>5 DEF TypeOK, Transactions
  <2>2. Init => ModeInv /\ TxsInv /\ AllowanceInv /\ FilledIsMined
    BY DEF Init, ModeInv, TxsInv, AllowanceInv, FilledIsMined, SwapAfterApproval, Swaps
  <2>3. QED
    BY <2>1, <2>2 DEF Inv
<1>2. Inv /\ [Next]_vars => Inv'
  BY TypesKept, ModesKept, TxsKept, AllowanceKept, FilledKept DEF Inv
<1>3. QED
  BY <1>1, <1>2, PTL DEF Spec

-----------------------------------------------------------------------------
(* What follows. *)

\* The variables keep their types through prepare and execute of every adapter, retries and
\* polls within their bounds (evm_rpc.py, solana_rpc.py).
THEOREM TypeCorrectness == Spec => []TypeOK
<1>1. Inv => TypeOK
  BY DEF Inv
<1>2. QED
  BY <1>1, Invariance, PTL

\* With paper execution on, no transaction is ever signed, through whichever adapter the
\* factory picks and however live execution and trading are switched.
THEOREM NothingSignedOnPaper == Spec => []PaperNeverSigns
<1>1. Inv => PaperNeverSigns
  BY Modes DEF Inv, ModeInv, PaperNeverSigns
<1>2. QED
  BY <1>1, Invariance, PTL

\* On the EVM no swap is signed before an allowance for the token it sells and the spender it
\* names is on the chain (_ensure_token_approval of evm_adapter.py), an exit's as an entry's:
\* an approval still pending, or lost, or of another token or spender, does not do.
THEOREM NoSwapWithoutAllowance == Spec => []SwapAfterApproval
<1>1. Inv => SwapAfterApproval
  BY DEF Inv, AllowanceInv
<1>2. QED
  BY <1>1, Invariance, PTL

\* A live report that is not FAILED comes from a swap of that very call that was mined, with
\* any number of retries, shared nonces and transactions that come back.
THEOREM AnsweredIsMined == Spec => []FilledIsMined
<1>1. Inv => FilledIsMined
  BY DEF Inv
<1>2. QED
  BY <1>1, Invariance, PTL

-----------------------------------------------------------------------------
(* Refinement. *)

EndedSwaps == {i \in Swaps : Ended(i)}

\* The swaps are finitely many, a swap is left by a call at most once, and by none without a
\* chain.
LEMMA SwapsLeft ==
  ASSUME Inv
  PROVE  /\ IsFiniteSet(Swaps) /\ IsFiniteSet(EndedSwaps) /\ Cardinality(EndedSwaps) \in Nat
         /\ \E x : Swaps \ {x} = EndedSwaps \ {x} /\ EndedSwaps \subseteq Swaps
         /\ Mode \notin {"evm", "solana"} => Swaps = {}
<1>1. DOMAIN txs = 1 .. Len(txs) /\ Len(txs) \in Nat
  BY DEF Inv, TypeOK
<1>2. IsFiniteSet(1 .. Len(txs))
  BY <1>1, FS_Interval
<1>3. Swaps \subseteq 1 .. Len(txs) /\ EndedSwaps \subseteq 1 .. Len(txs)
  BY <1>1 DEF Swaps, EndedSwaps
<1>4. IsFiniteSet(Swaps) /\ IsFiniteSet(EndedSwaps)
  BY <1>2, <1>3, FS_Subset
<1>5. Cardinality(EndedSwaps) \in Nat
  BY <1>4, FS_CardinalityType
<1>6. \E x : Swaps \ {x} = EndedSwaps \ {x} /\ EndedSwaps \subseteq Swaps
  <2>1. CASE \E x \in Swaps : txs[x].call = calls
    <3>1. PICK x \in Swaps : txs[x].call = calls
      BY <2>1
    <3>2. \A i \in Swaps : i # x => txs[i].call # calls
      BY <3>1 DEF Inv, TxsInv, Swaps
    <3>3. Swaps \ {x} = EndedSwaps \ {x}
      BY <3>2 DEF EndedSwaps, Ended
    <3>4. QED
      BY <3>3 DEF EndedSwaps
  <2>2. CASE ~ \E x \in Swaps : txs[x].call = calls
    BY <2>2 DEF EndedSwaps, Ended
  <2>3. QED
    BY <2>1, <2>2
<1>7. Mode \notin {"evm", "solana"} => Swaps = {}
  BY DEF Inv, ModeInv, Swaps
<1>8. QED
  BY <1>4, <1>5, <1>6, <1>7

\* A call that is begun leaves nothing yet.
LEMMA CallBegins ==
  ASSUME Inv, Call
  PROVE  Venue!Call
<1>1. /\ pc = "idle" /\ pc' = "prepare" /\ calls' = calls + 1 /\ txs' = txs
      /\ paperFills' = paperFills /\ calls \in Nat
  BY DEF Inv, TypeOK, Call, Goto, chain
<1>2. \A i \in DOMAIN txs : txs[i].call # calls + 1
  <2>1. \A i \in DOMAIN txs : txs[i].call <= calls
    BY DEF Inv, TxsInv
  <2>2. QED
    BY <1>1, <2>1
<1>3. EndedSwaps' = EndedSwaps
  BY <1>1, <1>2 DEF EndedSwaps, Ended, Swaps
<1>4. Orders' = Orders
  BY <1>1, <1>3 DEF Orders, EndedSwaps
<1>5. QED
  BY <1>1, <1>4 DEF Venue!Call

\* A call under way leaves nothing before it ends, also when it signs; between calls the chain
\* decides about what is there.
LEMMA CallGoesOn ==
  ASSUME Inv, SignApproval \/ SignSwap \/ (Goes /\ (pc' = "idle" <=> pc = "idle"))
  PROVE  UNCHANGED Venue!vars
<1>1. calls' = calls /\ paperFills' = paperFills /\ (pc' = "idle" <=> pc = "idle")
  BY DEF SignApproval, SignSwap, Goes, OnPaper, Goto, caller
<1>2. EndedSwaps' = EndedSwaps
  <2>1. CASE Goes
    <3>1. /\ DOMAIN txs' = DOMAIN txs
          /\ \A i \in DOMAIN txs : txs'[i].call = txs[i].call /\ txs'[i].kind = txs[i].kind
      BY <2>1 DEF Goes, Kept
    <3>2. QED
      BY <1>1, <3>1 DEF EndedSwaps, Ended, Swaps
  <2>2. CASE SignApproval \/ SignSwap
    <3>1. PICK kind \in {"approve", "swap"} : SignAndSend(kind)
      BY <2>2 DEF SignApproval, SignSwap
    <3>2. pc # "idle"
      BY <2>2 DEF SignApproval, SignSwap
    <3>3. /\ DOMAIN txs' = DOMAIN txs \cup {Len(txs) + 1}
          /\ \A j \in DOMAIN txs : txs'[j] = txs[j]
          /\ txs'[Len(txs) + 1].call = calls
      BY <3>1, SignedIs DEF Inv
    <3>4. QED
      BY <1>1, <3>2, <3>3 DEF EndedSwaps, Ended, Swaps
  <2>3. QED
    BY <2>1, <2>2
<1>3. Orders' = Orders
  BY <1>1, <1>2 DEF Orders, EndedSwaps
<1>4. QED
  BY <1>1, <1>3 DEF Venue!vars

\* A call ends with one order more, or none: its swap, if it has signed one, or a fill on paper.
LEMMA CallIsOver ==
  ASSUME Inv, Goes, pc # "idle", pc' = "idle"
  PROVE  Venue!Fails
<1>1. /\ DOMAIN txs' = DOMAIN txs
      /\ \A i \in DOMAIN txs : txs'[i].call = txs[i].call /\ txs'[i].kind = txs[i].kind
  BY DEF Goes, Kept
<1>2. EndedSwaps' = Swaps
  BY <1>1 DEF EndedSwaps, Ended, Swaps
<1>3. PICK x : Swaps \ {x} = EndedSwaps \ {x} /\ EndedSwaps \subseteq Swaps
  BY SwapsLeft
<1>4. /\ IsFiniteSet(Swaps) /\ IsFiniteSet(EndedSwaps) /\ Cardinality(EndedSwaps) \in Nat
      /\ Mode \notin {"evm", "solana"} => Swaps = {}
  BY SwapsLeft
<1>5. EndedSwaps \ {x} = Swaps \ {x}
  BY <1>3
<1>6. /\ x \in EndedSwaps /\ x \notin Swaps => Cardinality(Swaps) = Cardinality(EndedSwaps) - 1
      /\ x \notin EndedSwaps /\ x \in Swaps => Cardinality(Swaps) = Cardinality(EndedSwaps) + 1
      /\ (x \in EndedSwaps <=> x \in Swaps) => Cardinality(Swaps) = Cardinality(EndedSwaps)
  BY <1>4, <1>5, OneApart, Zenon
<1>7. Cardinality(Swaps) \in {Cardinality(EndedSwaps), Cardinality(EndedSwaps) + 1}
  BY <1>3, <1>6
<1>8. Orders = paperFills + Cardinality(EndedSwaps)
  BY DEF Orders, EndedSwaps
<1>9. Orders' = paperFills' + Cardinality(Swaps)
  BY <1>2, Zenon DEF Orders, EndedSwaps
<1>10. Orders' \in {Orders, Orders + 1}
  <2>1. paperFills \in Nat
    BY DEF Inv, TypeOK
  <2>2. CASE paperFills' = paperFills
    BY <1>4, <1>7, <1>8, <1>9, <2>1, <2>2
  <2>3. CASE paperFills' # paperFills
    <3>1. paperFills' = paperFills + 1 /\ Mode \notin {"evm", "solana"}
      BY <2>3 DEF Goes, OnPaper
    <3>2. Swaps = EndedSwaps
      BY <1>3, <1>4, <3>1
    <3>3. QED
      BY <1>4, <1>8, <1>9, <2>1, <3>1, <3>2
  <2>4. QED
    BY <2>2, <2>3
<1>11. QED
  BY <1>10 DEF Venue!Fails, Goes

\* A call of any adapter is what the pipeline worker takes it for (_dispatch_execution of
\* core/pipeline.py): it leaves one order or none, never two, however often its requests are
\* sent again and whenever it is cut off.
THEOREM AdapterIsAVenueCall == Spec => ImplementsVenueCall
<1>1. Init => Venue!Init
  <2>1. ASSUME Init
        PROVE  Venue!Init
    <3>1. calls = 0 /\ pc = "idle" /\ paperFills = 0 /\ txs = <<>>
      BY <2>1 DEF Init
    <3>2. {i \in Swaps : Ended(i)} = {}
      BY <3>1 DEF Swaps
    <3>3. Orders = 0
      BY <3>1, <3>2, FS_EmptySet DEF Orders
    <3>4. QED
      BY <3>1, <3>3 DEF Venue!Init
  <2>2. QED
    BY <2>1
<1>2. Inv /\ [Next]_vars => [Venue!Next]_(Venue!vars)
  <2>1. ASSUME Inv, [Next]_vars
        PROVE  Venue!Call \/ Venue!Fails \/ UNCHANGED Venue!vars
    <3>1. CASE Call
      BY <2>1, <3>1, CallBegins
    <3>2. CASE SignApproval \/ SignSwap
      BY <2>1, <3>2, CallGoesOn
    <3>3. CASE Goes /\ (pc' = "idle" <=> pc = "idle")
      BY <2>1, <3>3, CallGoesOn
    <3>4. CASE Goes /\ pc # "idle" /\ pc' = "idle"
      BY <2>1, <3>4, CallIsOver
    <3>5. QED
      BY <2>1, <3>1, <3>2, <3>3, <3>4, StepKinds DEF Goes, Onward
  <2>2. QED
    BY <2>1 DEF Venue!Next
<1>3. QED
  BY <1>1, <1>2, Invariance, PTL DEF Spec, ImplementsVenueCall, Venue!Spec

\* The number of orders an adapter leaves is a number.
LEMMA OrdersAreCounted ==
  ASSUME Inv
  PROVE  calls \in Nat /\ Orders \in Nat
<1>1. {i \in Swaps : Ended(i)} \subseteq DOMAIN txs /\ IsFiniteSet(DOMAIN txs)
  <2>1. Swaps \subseteq DOMAIN txs
    BY DEF Swaps
  <2>2. DOMAIN txs = 1 .. Len(txs) /\ Len(txs) \in Nat
    BY DEF Inv, TypeOK
  <2>3. QED
    BY <2>1, <2>2, FS_Interval
<1>2. Cardinality({i \in Swaps : Ended(i)}) \in Nat
  BY <1>1, FS_Subset, FS_CardinalityType
<1>3. QED
  BY <1>2 DEF Inv, TypeOK, Orders

\* The venue never holds more orders than there were calls, and while a call is under way
\* none of its own (_dispatch_execution counts its attempts by the calls).
THEOREM OneOrder == Spec => []Venue!OneOrderPerCall
<1> DEFINE Numbers == calls \in Nat /\ Orders \in Nat
<1>1. Venue!Init => Venue!OneOrderPerCall
  BY DEF Venue!Init, Venue!OneOrderPerCall
<1>2. Inv => Numbers
  BY OrdersAreCounted
<1>3. Numbers /\ Venue!OneOrderPerCall /\ [Venue!Next]_(Venue!vars) => Venue!OneOrderPerCall'
  <2> USE DEF Venue!OneOrderPerCall
  <2>1. Numbers /\ Venue!OneOrderPerCall /\ Venue!Call => Venue!OneOrderPerCall'
    BY DEF Venue!Call
  <2>2. Numbers /\ Venue!OneOrderPerCall /\ Venue!Trades => Venue!OneOrderPerCall'
    BY DEF Venue!Trades
  <2>3. Numbers /\ Venue!OneOrderPerCall /\ Venue!Fails => Venue!OneOrderPerCall'
    BY DEF Venue!Fails
  <2>4. Venue!OneOrderPerCall /\ UNCHANGED Venue!vars => Venue!OneOrderPerCall'
    BY DEF Venue!vars
  <2>5. QED
    BY <2>1, <2>2, <2>3, <2>4 DEF Venue!Next
<1>4. QED
  BY <1>1, <1>2, <1>3, Invariance, AdapterIsAVenueCall, PTL DEF ImplementsVenueCall, Venue!Spec
================================================================================
