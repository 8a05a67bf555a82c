----------------------------- MODULE CreditsForms -----------------------------
(***************************************************************************)
(* The credits page: its loads are not numbered, its busy states belong to *)
(* the page, its handlers wait for the load.                               *)
(***************************************************************************)
EXTENDS ClientApi

CreditsSheet(door, slot) ==
    [Sheet(door) EXCEPT !.closes = {}, !.slot = slot, !.locked = FALSE, !.after = "awaited"]

\* One busy state holds the credit that is being repaid, so the repayment of
\* another credit takes its place and frees it.
RepaySheet(credit) == [CreditsSheet(credit, "submittingRepayId") EXCEPT !.flag = credit]

\* A planned payment is at most the next one of the summary.  Neither the account
\* nor the rest of the loan is looked at.
RepayLoanOffers ==
    {Offer(<<"early", n>>, Nothing, <<repayCreditAccount(n)>>) : n \in Quantity}
    \cup {Offer(<<"scheduled", n>>, "planned" :> n, <<repayCreditAccount(n)>>) : n \in Quantity}
RepayLoan == [RepaySheet("loan") EXCEPT !.offers = RepayLoanOffers, !.facts = "planned" :> 1]
RepayCard ==
    [RepaySheet("card") EXCEPT !.offers =
        {Offer(1, Nothing, <<transferBetweenAccounts("account", "limit", 1)>>)}]

\* The free part of the limit.
CardTransferOffers == {Offer(n, "limit" :> n, <<transferBetweenAccounts("limit", "account", n)>>) : n \in Quantity}
CardTransfer ==
    [CreditsSheet("transferSheetOpen", "submittingCreditTransferId") EXCEPT !.offers = CardTransferOffers]

SaveCredit ==
    [CreditsSheet("selectedId", "savingCredit") EXCEPT !.offers = {Offer(1, Nothing, <<updateCreditAccount>>)}]
\* The button is there for a credit without debt.
ArchiveCredit ==
    [CreditsSheet("selectedId", "archiving") EXCEPT !.closes = {"selectedId"}, !.facts = "settled" :> 1,
        !.offers = {Offer(1, "settled" :> 1, <<archiveCreditAccount>>)}]
\* The only sheet of the page that refuses to close while it is busy.
CreateCredit ==
    [CreditsSheet("showNewForm", "submittingNew") EXCEPT !.closes = {"showNewForm"}, !.locked = TRUE,
        !.offers = {Offer(n, Nothing, <<createCreditAccount(n)>>) : n \in Quantity}]
=============================================================================
