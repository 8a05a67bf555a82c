---------------------------- MODULE PortfolioForms ----------------------------
(***************************************************************************)
(* The forms of Portfolio.tsx itself: a position, a protocol position, and *)
(* the sheets that add one or an account.  Their busy states belong to the *)
(* page and hold the position they are for; the sheets can be closed at    *)
(* any time.  A handler waits for the events and for the page to load      *)
(* before its busy state ends.                                             *)
(***************************************************************************)
EXTENDS CryptoForms

------------------------------------------------------------------------------
(* The sheet of a position.  A success leaves it open. *)

PositionSheet(slot) ==
    [PortfolioSheet("selectedPositionId") EXCEPT !.closes = {}, !.slot = slot, !.flag = "position",
                                                 !.after = "awaited"]
\* Four forms share one request key.
ActionSheet(slot) == [PositionSheet(slot) EXCEPT !.scope = "collectible-action"]
\* The same form for a collectible: the server looks at the key.
OfItem(form) == [form EXCEPT !.offers = {[o EXCEPT !.calls = <<Once(o.calls[1])>>] : o \in @}]

ClosePositionOffers == {Offer(n, Nothing, <<closePortfolioPosition(n)>>) : n \in Quantity}
ClosePosition ==
    [ActionSheet("submittingCloseId") EXCEPT !.offers = ClosePositionOffers, !.facts = "open" :> 1]
SellItem ==
    [PositionSheet("submittingCloseId") EXCEPT !.scope = "collectible-sell", !.facts = "open" :> 1,
        !.offers = {Offer(n, Nothing, <<sellCollectibleForCrypto(n)>>) : n \in Quantity}]

\* At most what the account has of the money, or of the coin.
TopUpOffers == {Offer(n, "balance" :> n, <<topUpPortfolioPosition(n)>>) : n \in Quantity}
TopUp == [ActionSheet("submittingTopUpId") EXCEPT !.offers = TopUpOffers]
TopUpWithCoin ==
    [ActionSheet("submittingTopUpId") EXCEPT
        !.offers = {Offer(n, "coins" :> n, <<chargeCollectibleCoin(n)>>) : n \in Quantity}]

\* Something must be left.
PartialCloseOffers == {Offer(n, "principal" :> n + 1, <<partialClosePortfolioPosition(n)>>) : n \in Quantity}
PartialClose == [ActionSheet("submittingPartialCloseId") EXCEPT !.offers = PartialCloseOffers]

PositionFeeOffers == {Offer(n, "balance" :> n, <<recordPortfolioFee(n)>>) : n \in Quantity}
PositionFee == [ActionSheet("submittingFeeId") EXCEPT !.offers = PositionFeeOffers]

\* Without a request key.
PositionIncomeOffers == {Offer(to, Nothing, <<recordPortfolioIncome(to, 1)>>) : to \in {"principal", "balance"}}
PositionIncome == [PositionSheet("submittingIncomeId") EXCEPT !.offers = PositionIncomeOffers]
ChangeRate == [PositionSheet("submittingRateChangeId") EXCEPT !.offers = {Offer(1, Nothing, <<changeDepositRate>>)}]
CancelIncome ==
    [PositionSheet("cancellingIncomeEventId") EXCEPT !.offers = {Offer(1, "income" :> 1, <<cancelPortfolioIncome>>)},
        !.facts = "income" :> 1 @@ "balance" :> 1]
DeletePosition ==
    [PositionSheet("deletingPositionId") EXCEPT !.offers = {Offer(1, "open" :> 1, <<deletePortfolioPosition>>)},
        !.closes = {"selectedPositionId"}, !.facts = "open" :> 1]

\* The details of a collectible are edited inside the sheet; saving closes the
\* editor and waits for the page.
ItemDetails ==
    [PortfolioSheet("collectibleEditingId") EXCEPT !.scope = "collectible-date", !.after = "awaited",
        !.offers = {Offer(n, Nothing, <<editCollectibleDetails>>) : n \in Quantity}]

------------------------------------------------------------------------------
(* A protocol position. *)

StakingUpdate ==
    [PortfolioSheet("selectedProtocolPositionId") EXCEPT !.closes = {}, !.slot = "submittingStakingUpdateId",
        !.flag = "position", !.after = "awaited", !.offers = {Offer(1, Nothing, <<updateCryptoProtocolPosition>>)}]
StakingCloseOffers == {Offer(n, Nothing, <<closeCryptoProtocolPosition(n)>>) : n \in Quantity}
StakingClose ==
    [PortfolioSheet("selectedProtocolPositionId") EXCEPT !.slot = "submittingStakingCloseId", !.flag = "position",
        !.scope = "close-protocol", !.after = "awaited", !.offers = StakingCloseOffers, !.facts = "open" :> 1]

------------------------------------------------------------------------------
(* Adding a position or an account. *)

\* Both coins of a pool are compared; the fee is not.
StakingCreateOffers ==
    {Offer(<<"staking", fee>>, "walletCoins" :> 1,
           <<PaidFrom("walletCoins", fee, createCryptoProtocolPosition(1))>>) : fee \in 0..1}
    \cup {Offer(<<"pool", 0>>, "walletCoins" :> 1 @@ "pairCoins" :> 1,
                <<With(createCryptoProtocolPosition(1), "pairCoins" :> 1, "pairCoins" :> -1)>>)}
StakingCreate ==
    [PortfolioSheet("addSheetOpen") EXCEPT !.slot = "submittingStakingCreateAccountId", !.flag = "account",
        !.scope = "create-protocol", !.after = "awaited", !.offers = StakingCreateOffers,
        !.facts = "walletCoins" :> 1]

\* The form of the add sheet for everything but coins: its busy state is its own
\* and gone when the sheet around it is closed.
AddSheetForm == [PortfolioSheet("addSheetOpen") EXCEPT !.scope = "collectible-buy"]
NewPositionOffers == {Offer(n, "balance" :> n, <<createPortfolioPosition(n)>>) : n \in Quantity}
NewPosition == [AddSheetForm EXCEPT !.offers = NewPositionOffers]
BuyItem ==
    [AddSheetForm EXCEPT !.offers =
        {Offer(n, "coins" :> n, <<buyCollectibleWithCrypto(n)>>) : n \in Quantity}]

\* An account, from the portfolio; the sheet may be closed and opened meanwhile.
NewAccount ==
    [PortfolioSheet("showNewAccountModal") EXCEPT !.slot = "creatingAccount", !.flag = "creating",
        !.after = "awaited", !.offers = {Offer(1, Nothing, <<createBankAccount>>)}]
=============================================================================
