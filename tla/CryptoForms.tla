----------------------------- MODULE CryptoForms -----------------------------
(***************************************************************************)
(* The sheets of the portfolio page for coins on wallets and in protocols. *)
(* The page loads all it shows without numbering its loads.  Every sheet   *)
(* may be left while it is busy: only its own cancel button looks.         *)
(***************************************************************************)
EXTENDS ClientApi

PortfolioSheet(door) == [Sheet(door) EXCEPT !.locked = FALSE]

\* The state of the page that opens a sheet for a coin is the position itself,
\* as it was shown at that time.
CoinSheet(door) == [PortfolioSheet(door) EXCEPT !.reads = "door", !.facts = "walletCoins" :> 1]

\* A sheet of a protocol looks its position up in what the page shows.  The two
\* doors are shared by all actions of their kind: a success of one shuts the
\* sheet of any other.
LpDoors == {"lpSheet.add", "lpSheet.partial", "lpSheet.close", "lpSheet.fees"}
LendingDoors == {"lendingSheet.top_up", "lendingSheet.take_debt", "lendingSheet.repay_debt", "lendingSheet.adjust",
                 "lendingSheet.partial", "lendingSheet.close", "lendingSheet.event", "lendingSheet.group"}
LpSheet(door) == [PortfolioSheet(door) EXCEPT !.closes = LpDoors, !.scope = door]
LendingSheet(door) == [PortfolioSheet(door) EXCEPT !.closes = LendingDoors, !.scope = door]

------------------------------------------------------------------------------
(* Coins of a wallet. *)

\* To another wallet, or to the account of a collection.  The fee in the same coin
\* is not part of the comparison.
CryptoTransferOffers ==
    {Offer(<<"wallet", fee>>, "walletCoins" :> 1,
           <<PaidFrom("walletCoins", fee, transferCryptoBetweenInvestmentAccounts(1))>>) : fee \in 0..1}
    \cup {Offer(<<"collection", 0>>, "walletCoins" :> 1, <<transferCryptoFromInvestment(1)>>)}
CryptoTransfer ==
    [CoinSheet("cryptoTransferSheetPosition") EXCEPT !.scope = "transfer", !.offers = CryptoTransferOffers]

CryptoWithdrawOffers == {Offer(n, "walletCoins" :> n, <<transferCryptoFromInvestment(n)>>) : n \in Quantity}
CryptoWithdraw ==
    [CoinSheet("cryptoWithdrawSheetPosition") EXCEPT !.scope = "bank-withdraw",
        !.offers = CryptoWithdrawOffers]

CryptoSwapOffers ==
    {Offer(fee, "walletCoins" :> 1, <<PaidFrom("walletCoins", fee, swapCryptoInvestmentAsset(1))>>) : fee \in 0..1}
CryptoSwap ==
    [CoinSheet("cryptoSwapSheetPosition") EXCEPT !.scope = "swap", !.offers = CryptoSwapOffers]
\* A coin the server does not know yet is added from the same sheet, under the
\* same busy state.
CreateAsset ==
    [CoinSheet("cryptoSwapSheetPosition") EXCEPT !.closes = {}, !.after = "nothing",
        !.offers = {Offer(1, Nothing, <<ensureCryptoAsset>>)}]

CryptoIncomeOffers ==
    {Offer(fee, Nothing, <<PaidFrom("walletCoins", fee, Once(recordPortfolioIncome("walletCoins", 1)))>>) : fee \in 0..1}
CryptoIncome ==
    [CoinSheet("cryptoIncomeSheetPosition") EXCEPT !.scope = "income", !.offers = CryptoIncomeOffers]

FeeRefundOffers == {Offer(1, Nothing, <<refundCryptoFee(1)>>)}
FeeRefund == [PortfolioSheet("feeRefund") EXCEPT !.scope = "fee-refund", !.offers = FeeRefundOffers]

------------------------------------------------------------------------------
(* Protocols and liquidity pools. *)

\* Principal and rewards together are at most what the position holds now.
ProtocolPartialCloseOffers ==
    {Offer(n, "staked" :> n, <<partialCloseCryptoProtocolPosition(n)>>) : n \in Quantity}
ProtocolPartialClose ==
    [PortfolioSheet("partialCloseProtocolId") EXCEPT !.scope = "protocol-partial",
        !.offers = ProtocolPartialCloseOffers]

\* Both coins are compared, the fee is not.
LpAddOffers ==
    {Offer(fee, "walletCoins" :> 1 @@ "pairCoins" :> 1,
           <<PaidFrom("walletCoins", fee, With(topUpCryptoProtocolPosition(1), "pairCoins" :> 1, "pairCoins" :> -1))>>) :
        fee \in 0..1}
LpAdd == [LpSheet("lpSheet.add") EXCEPT !.offers = LpAddOffers, !.facts = "walletCoins" :> 1]

\* Part of a pool, a reward, or what the pool consists of now.
LiquidityActionOffers ==
    {Offer("lp_withdraw", Nothing, <<liquidityAction(Moves("staked", 1, "walletCoins", 1))>>),
     Offer("lp_reward", Nothing, <<liquidityAction(Gives("walletCoins", 1))>>),
     Offer("lp_snapshot", Nothing, <<liquidityAction(Gives("noted", 1))>>)}
LiquidityAction == [LpSheet("lpSheet.partial") EXCEPT !.offers = LiquidityActionOffers]

\* The pool may give back more than was put in.
LpCloseOffers == {Offer(n, Nothing, <<closeCryptoProtocolPosition(n)>>) : n \in Quantity}
LpClose == [LpSheet("lpSheet.close") EXCEPT !.offers = LpCloseOffers, !.facts = "open" :> 1]

LpClaimFeesOffers == {Offer(n, Nothing, <<Once(Gives("walletCoins", n))>>) : n \in Quantity}
LpClaimFees == [LpSheet("lpSheet.fees") EXCEPT !.offers = LpClaimFeesOffers]

------------------------------------------------------------------------------
(* Lending: a collateral, and a debt in another coin. *)

LendingTopUpOffers ==
    {Offer(fee, "walletCoins" :> 1, <<PaidFrom("walletCoins", fee, topUpCryptoProtocolPosition(1))>>) : fee \in 0..1}
LendingTopUp == [LendingSheet("lendingSheet.top_up") EXCEPT !.offers = LendingTopUpOffers, !.facts = "walletCoins" :> 1]

LendingTakeDebtOffers == {Offer(n, Nothing, <<takeLendingDebt(n)>>) : n \in Quantity}
LendingTakeDebt == [LendingSheet("lendingSheet.take_debt") EXCEPT !.offers = LendingTakeDebtOffers]

\* At most what the wallet has of the coin and what is owed.
LendingRepayDebtOffers == {Offer(n, "debtCoins" :> n @@ "debt" :> n, <<repayLendingDebt(n)>>) : n \in Quantity}
LendingRepayDebt ==
    [LendingSheet("lendingSheet.repay_debt") EXCEPT !.offers = LendingRepayDebtOffers,
        !.facts = "debt" :> 1]

\* The amounts are overwritten; there is no request key.
LendingAdjust ==
    [LendingSheet("lendingSheet.adjust") EXCEPT !.scope = None,
        !.offers = {Offer(1, Nothing, <<updateCryptoProtocolPosition>>)}]

LendingPartialWithdrawOffers ==
    {Offer(n, "staked" :> n, <<partialCloseCryptoProtocolPosition(n)>>) : n \in Quantity}
LendingPartialWithdraw ==
    [LendingSheet("lendingSheet.partial") EXCEPT !.offers = LendingPartialWithdrawOffers]

\* Only without a debt, as far as the sheet knows; the server looks again.
LendingCloseOffers == {Offer(1, "debtFree" :> 1, <<With(closeCryptoProtocolPosition(1), "debtFree" :> 1, Nothing)>>)}
LendingClose ==
    [LendingSheet("lendingSheet.close") EXCEPT !.offers = LendingCloseOffers, !.facts = "open" :> 1 @@ "debtFree" :> 1]

\* Interest grows the debt, a liquidation takes collateral and debt, a yield is paid.
LendingDebtEventOffers ==
    {Offer("interest", Nothing, <<recordLendingDebtEvent(Gives("debt", 1))>>),
     Offer("liquidate", Nothing, <<recordLendingDebtEvent(With(Takes("staked", 1), "debt" :> 1, "debt" :> -1))>>),
     Offer("yield", Nothing, <<recordLendingDebtEvent(Gives("staked", 1))>>)}
LendingDebtEvent == [LendingSheet("lendingSheet.event") EXCEPT !.offers = LendingDebtEventOffers]

LendingGroup ==
    [LendingSheet("lendingSheet.group") EXCEPT !.offers = {Offer(1, "candidate" :> 1, <<groupLendingPositions>>)},
        !.facts = "candidate" :> 1]
=============================================================================
