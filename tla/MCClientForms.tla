--------------------------- MODULE MCClientForms ---------------------------
EXTENDS ClientForms, DashboardForms, PortfolioForms, CreditsForms, SettingsForms

OfDashboard ==
    [Expense |-> Expense, CategoryTransfer |-> CategoryTransfer, GroupTransfer |-> GroupTransfer,
     AddSchedule |-> AddSchedule, DeleteSchedule |-> DeleteSchedule, CategorySettings |-> CategorySettings,
     ArchiveCategory |-> ArchiveCategory, CreateCategory |-> CreateCategory, Transfer |-> Transfer,
     FreeBudget |-> FreeBudget, Income |-> Income, CreateSource |-> CreateSource,
     ArchiveSource |-> ArchiveSource, SavePattern |-> SavePattern, DeletePattern |-> DeletePattern,
     CashTransfer |-> CashTransfer, LoanRepayment |-> LoanRepayment, CoinTransfer |-> CoinTransfer,
     BankCoinTransfer |-> BankCoinTransfer, FiatExchange |-> FiatExchange, CoinExchange |-> CoinExchange,
     Merge |-> Merge]

OfCrypto ==
    [CryptoTransfer |-> CryptoTransfer, CryptoWithdraw |-> CryptoWithdraw, CryptoSwap |-> CryptoSwap,
     CreateAsset |-> CreateAsset, CryptoIncome |-> CryptoIncome, FeeRefund |-> FeeRefund,
     ProtocolPartialClose |-> ProtocolPartialClose, LpAdd |-> LpAdd, LiquidityAction |-> LiquidityAction,
     LpClose |-> LpClose, LpClaimFees |-> LpClaimFees, LendingTopUp |-> LendingTopUp,
     LendingTakeDebt |-> LendingTakeDebt, LendingRepayDebt |-> LendingRepayDebt,
     LendingAdjust |-> LendingAdjust, LendingPartialWithdraw |-> LendingPartialWithdraw,
     LendingClose |-> LendingClose, LendingDebtEvent |-> LendingDebtEvent, LendingGroup |-> LendingGroup]

OfPortfolio ==
    [ClosePosition |-> ClosePosition, SellItem |-> SellItem, TopUp |-> TopUp,
     TopUpWithCoin |-> TopUpWithCoin, PartialClose |-> PartialClose, PositionFee |-> PositionFee,
     PositionIncome |-> PositionIncome, ChangeRate |-> ChangeRate, CancelIncome |-> CancelIncome,
     DeletePosition |-> DeletePosition, ItemDetails |-> ItemDetails, StakingUpdate |-> StakingUpdate,
     StakingClose |-> StakingClose, StakingCreate |-> StakingCreate, NewPosition |-> NewPosition,
     BuyItem |-> BuyItem, NewAccount |-> NewAccount, ItemTopUp |-> OfItem(TopUp),
     ItemFee |-> OfItem(PositionFee)]

OfCredits ==
    [RepayLoan |-> RepayLoan, RepayCard |-> RepayCard, CardTransfer |-> CardTransfer,
     SaveCredit |-> SaveCredit, ArchiveCredit |-> ArchiveCredit, CreateCredit |-> CreateCredit]

OfSettings ==
    [DeleteAccount |-> DeleteAccount, LeaveFamily |-> LeaveFamily, DissolveFamily |-> DissolveFamily,
     NewInvestmentAccount |-> NewInvestmentAccount, SaveAccount |-> SaveAccount,
     AccountStatistics |-> AccountStatistics, DeleteInvestmentAccount |-> DeleteInvestmentAccount,
     DeleteConnection |-> DeleteConnection, ConnectBroker |-> ConnectBroker,
     ImportOperations |-> ImportOperations, CreateFamily |-> CreateFamily, InviteMember |-> InviteMember,
     AcceptInvitation |-> AcceptInvitation, DeclineInvitation |-> DeclineInvitation,
     SavePassword |-> SavePassword, LinkTelegram |-> LinkTelegram, RevokeSession |-> RevokeSession,
     Exchange |-> Exchange, CancelOperation |-> CancelOperation]

AllForms == OfDashboard @@ OfCrypto @@ OfPortfolio @@ OfCredits @@ OfSettings

\* Every form alone, and the pairs that meet: in one sheet with one busy state, by
\* one request key, by a busy state of the page, or by doors that close together.
Meet(f, g) == LET a == AllForms[f]  b == AllForms[g] IN
    \/ a.door = b.door /\ a.flag = b.flag
    \/ a.scope # None /\ a.scope = b.scope
    \/ a.slot # None /\ a.slot = b.slot
AllScenes ==
    {s \in {{f, g} : f, g \in DOMAIN AllForms} : \A f, g \in s : Meet(f, g)}
    \cup {{"Expense", "ArchiveCategory"}, {"Income", "CreateSource"}, {"LpAdd", "LpClose"},
          {"LendingTakeDebt", "LendingRepayDebt"}}

AllBounds == <<[taps |-> 2, losses |-> 1, elsewhere |-> 1, refreshes |-> 1, disturbances |-> 2],
               [taps |-> 2, losses |-> 1, elsewhere |-> 0, refreshes |-> 0, disturbances |-> 1]>>
=============================================================================
