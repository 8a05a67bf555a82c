--------------------------- MODULE DashboardForms ---------------------------
(***************************************************************************)
(* The forms of the dashboard: what each lets through, the calls of its    *)
(* handler, and how it ends.                                               *)
(***************************************************************************)
EXTENDS ClientApi

\* The dashboard numbers its loads; each of its dialogs ends with
\* handleDialogSuccess, which shuts three doors and loads the overview.
DialogDoors == {"transferTarget", "selectedCategory", "createDialogKind"}
DashboardSheet(door) == [Sheet(door) EXCEPT !.guarded = TRUE]
DialogSheet(door) == [DashboardSheet(door) EXCEPT !.closes = {door} \cup DialogDoors]

------------------------------------------------------------------------------
(* CategoryActionSheet: three tabs in one sheet, which loads accounts,       *)
(* schedules and members itself.  The sheet refuses to close while a form is *)
(* busy, but the cancel buttons of the expense and the transfer tab look at  *)
(* the form of their own tab only, so that every other form can be left.     *)

CategorySheet(flag) ==
    [DialogSheet("selectedCategory") EXCEPT !.reads = "sheet", !.flag = flag, !.locked = FALSE]

\* Any asset of the account that shows money, whatever the amount; the family's
\* account and a card offer the base currency even without.
ExpenseOffers ==
    {Offer(<<"own", n>>, "account" :> 1, <<recordExpense("account", n)>>) : n \in Quantity}
    \cup {Offer(<<"family", n>>, Nothing, <<recordFamilyExpense(n)>>) : n \in Quantity}
Expense == [CategorySheet("expSubmitting") EXCEPT !.offers = ExpenseOffers]

CategoryTransferOffers ==
    {Offer(<<from, n>>, Nothing, <<allocateBudget(from, "category", n)>>) :
        from \in {"free", "other"}, n \in Quantity}
CategoryTransfer == [CategorySheet("xferSubmitting") EXCEPT !.offers = CategoryTransferOffers]

\* The sheet of a group has no expense tab: nothing leaves it while it distributes.
GroupTransferOffers == {Offer(n, Nothing, <<allocateGroupBudget("free", n)>>) : n \in Quantity}
GroupTransfer ==
    [CategorySheet("xferSubmitting") EXCEPT !.offers = GroupTransferOffers, !.locked = TRUE, !.facts = "members" :> 1]

\* Creating is followed by a fetch of the list, which the handler waits for;
\* the page is told of neither.
AddScheduleOffers == {Offer(1, Nothing, <<createScheduledExpense, Call(Nothing, Nothing)>>)}
AddSchedule ==
    [CategorySheet("savingSchedule") EXCEPT !.offers = AddScheduleOffers,
                                            !.closes = {}, !.after = "nothing"]
DeleteSchedule ==
    [CategorySheet("deletingScheduleId") EXCEPT !.closes = {}, !.after = "nothing",
        !.offers = {Offer(1, "schedules" :> 1, <<deleteScheduledExpense>>)}]

\* A new name and new members of a group, one after the other.
CategorySettingsOffers ==
    {Offer(1, Nothing, <<updateCategory>>),
     Offer(2, "group" :> 1, <<updateCategory, replaceGroupMembers>>)}
CategorySettings ==
    [CategorySheet("saving") EXCEPT !.offers = CategorySettingsOffers, !.facts = "members" :> 0]

ArchiveCategory ==
    [CategorySheet("archiving") EXCEPT !.offers = {Offer(1, Nothing, <<archiveCategory("live")>>)},
                                       !.facts = "live" :> 1]

------------------------------------------------------------------------------
(* The other dialogs. *)

\* A group whose members the server refuses is archived again.
CreateCategoryOffers ==
    {Offer(1, Nothing, <<createCategory>>),
     [Offer(2, Nothing, <<createGroup, membersOfNewGroup>>)
         EXCEPT !.undo = archiveGroup]}
CreateCategory ==
    [DialogSheet("createDialogKind") EXCEPT !.reads = "sheet", !.offers = CreateCategoryOffers,
        !.facts = "bare" :> 0 @@ "member" :> 1]

\* Only the free budget is compared with the amount.
TransferOffers ==
    {Offer(<<"free", n>>, "free" :> n, <<allocateBudget("free", "category", n)>>) : n \in Quantity}
    \cup {Offer(<<"other", n>>, Nothing, <<allocateBudget("other", "category", n)>>) : n \in Quantity}
    \cup {Offer(<<"group", n>>, "free" :> n, <<allocateGroupBudget("free", n)>>) : n \in Quantity}
Transfer == [DialogSheet("transferTarget") EXCEPT !.offers = TransferOffers, !.facts = "members" :> 1]

\* Back to the free budget, from any category.
FreeBudgetOffers == {Offer(n, Nothing, <<allocateBudget("other", "free", n)>>) : n \in Quantity}
FreeBudget == [DialogSheet("showFreeBudgetSheet") EXCEPT !.offers = FreeBudgetOffers]

\* The split where the source has a pattern, else the personal account.
IncomeOffers ==
    {Offer(<<"plain", n>>, Nothing, <<recordIncome(n)>>) : n \in Quantity}
    \cup {Offer(<<"split", n>>, "pattern" :> 1, <<recordIncomeSplit(n)>>) : n \in Quantity}
IncomeSheet(flag) ==
    [DashboardSheet("showIncomeDialog") EXCEPT !.reads = "sheet", !.flag = flag]
Income == [IncomeSheet("submitting") EXCEPT !.offers = IncomeOffers]

\* Sources and patterns belong to the sheet: it patches its lists and stays open.
InIncomeSheet(flag) ==
    [IncomeSheet(flag) EXCEPT !.closes = {}, !.after = "nothing", !.locked = FALSE]
CreateSource == [InIncomeSheet("creatingSource") EXCEPT !.offers = {Offer(1, Nothing, <<createIncomeSource>>)}]
ArchiveSource ==
    [InIncomeSheet("archivingSource") EXCEPT !.offers = {Offer(1, "sources" :> 1, <<archiveIncomeSource>>)}]
SavePattern ==
    [InIncomeSheet("savingPattern") EXCEPT !.offers =
        {Offer(1, Nothing, <<upsertIncomeSourcePattern, Call(Nothing, Nothing)>>)}]
DeletePattern ==
    [InIncomeSheet("deletingPattern") EXCEPT !.offers = {Offer(1, "pattern" :> 1, <<deleteIncomeSourcePattern>>)}]

------------------------------------------------------------------------------
(* AccountTransferDialog: one button and one busy state for five calls; those *)
(* that move coins have the request key of the dialog.                        *)

AccountTransferSheet ==
    [DashboardSheet("showAccountTransfer") EXCEPT !.reads = "sheet", !.flag = "accountTransfer"]
CashTransferOffers ==
    {Offer(<<"cash", n>>, "account" :> n, <<transferBetweenAccounts("account", "joint", n)>>) : n \in Quantity}
    \cup {Offer(<<"card", n>>, "limit" :> n, <<transferBetweenAccounts("limit", "account", n)>>) : n \in Quantity}
CashTransfer == [AccountTransferSheet EXCEPT !.offers = CashTransferOffers]
\* The amount is compared with the account, not with what is left of the loan.
LoanRepayment ==
    [AccountTransferSheet EXCEPT !.facts = "loan" :> 1,
        !.offers = {Offer(n, "account" :> n, <<repayCreditAccount(n)>>) : n \in Quantity}]
CoinTransferOffers ==
    UNION {{Offer(<<"out", n>>, "walletCoins" :> n, <<transferCryptoFromInvestment(n)>>),
            Offer(<<"wallets", n>>, "walletCoins" :> n, <<transferCryptoBetweenInvestmentAccounts(n)>>),
            Offer(<<"in", n>>, "cashCoins" :> n, <<transferCryptoToInvestment(n)>>),
            Offer(<<"collection", n>>, "cashCoins" :> n, <<transferCollectionCrypto(n)>>)} : n \in Quantity}
CoinTransfer ==
    [AccountTransferSheet EXCEPT !.scope = "bank-crypto-transfer", !.offers = CoinTransferOffers]
\* From cash account to cash account: the server does not look at the key.
BankCoinTransfer ==
    [AccountTransferSheet EXCEPT !.scope = "bank-crypto-transfer",
        !.offers = {Offer(<<"bank", n>>, "cashCoins" :> n, <<transferBankCrypto(n)>>) : n \in Quantity}]

------------------------------------------------------------------------------
\* ExchangeSheet is always there, open or not: its busy state is the page's.
\* The server looks at the key only when a coin is bought or sold.
ExchangeSheet ==
    [DashboardSheet("showExchange") EXCEPT !.slot = "exchangeSubmitting", !.locked = FALSE,
                                           !.scope = "bank-exchange"]
FiatExchangeOffers ==
    {Offer(<<"fiat", n>>, "account" :> n, <<exchangeCurrency("account", n)>>) : n \in Quantity}
CoinExchangeOffers ==
    {Offer(<<"coins", n>>, "cashCoins" :> n, <<Once(exchangeCurrency("cashCoins", n))>>) : n \in Quantity}
FiatExchange == [ExchangeSheet EXCEPT !.offers = FiatExchangeOffers]
CoinExchange == [ExchangeSheet EXCEPT !.offers = CoinExchangeOffers]

\* AccountDetailSheet merges a duplicate of a coin; the sheet stays open.
MergeOffers == {Offer(1, "duplicate" :> 1 @@ "coin" :> 1, <<mergeBankCryptoAsset(1)>>)}
Merge ==
    [DashboardSheet("accountSheet") EXCEPT !.closes = {}, !.locked = FALSE, !.scope = "bank-asset-merge",
        !.facts = "duplicate" :> 1 @@ "coin" :> 1, !.offers = MergeOffers]
=============================================================================
