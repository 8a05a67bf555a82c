------------------------------ MODULE ClientApi ------------------------------
(***************************************************************************)
(* The calls of api.ts that the forms make, by what they take and give on  *)
(* the server.  Fetches change nothing and are part of the page or of the  *)
(* sheet that makes them.                                                  *)
(***************************************************************************)
EXTENDS FormRecords

\* A category may go negative by these, a cash account of the family too.
Draws(from, n) == Call(Nothing, from :> -n)

------------------------------------------------------------------------------
(* Operations of the bank and the budget. *)

recordExpense(account, n) == With(Takes(account, n), Nothing, "category" :> -n)
recordFamilyExpense(n) == With(Draws("joint", n), Nothing, "category" :> -n)
recordIncome(n) == With(Gives("account", n), Nothing, "free" :> n)
recordIncomeSplit(n) == With(Gives("account", n), Nothing, "joint" :> n @@ "free" :> n)
\* Only the free budget must cover what leaves it.
allocateBudget(from, to, n) ==
    With(IF from = "free" THEN Takes(from, n) ELSE Draws(from, n), Nothing, to :> n)
\* A group without an active child category can be made, and gets nothing.
allocateGroupBudget(from, n) == With(allocateBudget(from, "shared", n), "members" :> 1, Nothing)
exchangeCurrency(from, n) == Moves(from, n, "bought", n)
transferBetweenAccounts(from, to, n) == Moves(from, n, to, n)
transferBankCrypto(n) == Moves("cashCoins", n, "jointCoins", n)
transferCollectionCrypto(n) == Once(Moves("cashCoins", n, "collectionCoins", n))
repayCreditAccount(n) == With(Moves("account", n, "paid", n), "loan" :> n, "loan" :> -n)
updateCreditAccount == Gives("edits", 1)
archiveCreditAccount == Takes("settled", 1)
createCreditAccount(n) == With(Gives("account", n), Nothing, "loan" :> n)
mergeBankCryptoAsset(n) == Once(Moves("duplicate", n, "coin", n))

(* Coins between the wallets, which are portfolio positions, and the bank. *)
transferCryptoToInvestment(n) == Once(Moves("cashCoins", n, "walletCoins", n))
transferCryptoFromInvestment(n) == Once(Moves("walletCoins", n, "cashCoins", n))
transferCryptoBetweenInvestmentAccounts(n) == Once(Moves("walletCoins", n, "otherWallet", n))

\* A network fee leaves the wallet with the call, in one of its coins.
PaidFrom(coin, fee, call) ==
    IF fee = 0 THEN call
    ELSE With(call, coin :> fee + (IF coin \in DOMAIN call.needs THEN call.needs[coin] ELSE 0),
                    coin :> (IF coin \in DOMAIN call.moves THEN call.moves[coin] ELSE 0) - fee)
swapCryptoInvestmentAsset(n) == Once(Moves("walletCoins", n, "otherCoins", n))
ensureCryptoAsset == Spends("unlisted")
refundCryptoFee(n) == Once(Gives("walletCoins", n))

------------------------------------------------------------------------------
(* Protocol positions: what is staked, the coins on the wallet, the debt. *)

createCryptoProtocolPosition(n) == Once(Moves("walletCoins", n, "staked", n))
updateCryptoProtocolPosition == Gives("noted", 1)
closeCryptoProtocolPosition(back) == Once(With(Takes("open", 1), Nothing, "walletCoins" :> back))
partialCloseCryptoProtocolPosition(n) == Once(Moves("staked", n, "walletCoins", n))
topUpCryptoProtocolPosition(n) == Once(Moves("walletCoins", n, "staked", n))
liquidityAction(call) == Once(call)
takeLendingDebt(n) == Once(With(Gives("debtCoins", n), Nothing, "debt" :> n))
repayLendingDebt(n) == Once(With(Takes("debtCoins", n), "debt" :> n, "debt" :> -n))
recordLendingDebtEvent(call) == Once(call)
groupLendingPositions == Once(Takes("candidate", 1))

------------------------------------------------------------------------------
(* Portfolio positions; the server looks at the request key of a collectible only. *)

createPortfolioPosition(n) == With(Takes("balance", n), Nothing, "positions" :> 1)
buyCollectibleWithCrypto(n) == Once(With(Takes("coins", n), Nothing, "positions" :> 1))
sellCollectibleForCrypto(n) == Once(With(Takes("open", 1), Nothing, "coins" :> n))
topUpPortfolioPosition(n) == Moves("balance", n, "principal", n)
closePortfolioPosition(n) == With(Takes("open", 1), Nothing, "balance" :> n)
partialClosePortfolioPosition(n) == With(Moves("principal", n, "balance", n), "principal" :> n + 1, Nothing)
recordPortfolioIncome(to, n) == Gives(to, n)
recordPortfolioFee(n) == Takes("balance", n)
chargeCollectibleCoin(n) == Once(Takes("coins", n))
deletePortfolioPosition == With(Takes("open", 1), Nothing, "balance" :> 1)
cancelPortfolioIncome == With(Takes("income", 1), "balance" :> 1, "balance" :> -1)
changeDepositRate == Gives("rates", 1)
editCollectibleDetails == Once(Gives("edits", 1))
createBankAccount == Gives("accounts", 1)

------------------------------------------------------------------------------
(* Categories, groups, income sources and schedules: a thing is there or not, *)
(* and may be made again and again.                                           *)

createCategory == Gives("category", 1)
createGroup == Gives("bare", 1)
archiveCategory(name) == Takes(name, 1)
archiveGroup == Takes("bare", 1)
updateCategory == Gives("renamed", 1)
replaceGroupMembers == With(Gives("members", 1), "group" :> 1 @@ "member" :> 1, Nothing)
membersOfNewGroup == With(Takes("bare", 1), "member" :> 1, "members" :> 1)
createIncomeSource == Gives("sources", 1)
archiveIncomeSource == Takes("sources", 1)
upsertIncomeSourcePattern == With(Gives("pattern", 1), "sources" :> 1, Nothing)
deleteIncomeSourcePattern == Takes("pattern", 1)
createScheduledExpense == Gives("schedules", 1)
deleteScheduledExpense == Takes("schedules", 1)

------------------------------------------------------------------------------
(* Cancelling, the family, ways to sign in, connections. *)

\* The server restores what the operation did, while its lots are untouched.
reverseOperation == With(Spends("operation"), "unused" :> 1, "account" :> 1)
createFamily == Moves("single", 1, "family", 1)
inviteToFamily == With(Takes("unasked", 1), "family" :> 1, Nothing)
acceptInvitation == With(Moves("invitation", 1, "family", 1), "single" :> 1, "single" :> -1)
declineInvitation == Takes("invitation", 1)
leaveFamily == Moves("family", 1, "single", 1)
\* No rows of the ledger that stay refer to what is deleted: no lot that an operation
\* of the family opened, no portfolio event that one is linked to.
dissolveFamily == With(leaveFamily, "dissolvable" :> 1, Nothing)
setPassword == Gives("passwords", 1)
linkTelegram == Spends("unlinked")
revokeSession == Spends("device")
\* The token that requestAccountDeletion returns is signed, not stored.  No rows that
\* stay refer to the accounts and categories of the user.
deleteAccount == With(Takes("user", 1), "single" :> 1 @@ "unreferred" :> 1, Nothing)
updateCryptoAccountSettings == Gives("edits", 1)
setAccountStatistics(counted) == Call(Nothing, "counted" :> counted)
deleteInvestmentAccount == Takes("empty", 1)
connectTinkoff(account) == Spends(account)
deleteTinkoffConnection == Spends("connection")
\* Operations imported already are skipped, the others booked in one transaction.
applyTinkoffSync(n) == With(Spends("toImport"), "invested" :> n, "invested" :> -n)
=============================================================================
