---------------------------- MODULE SettingsForms ----------------------------
(***************************************************************************)
(* The settings page with the family and the devices, the connection to a  *)
(* broker and its import, the exchange page, and the cancelling of an      *)
(* operation.  A section of a page stands for a sheet: leaving it is       *)
(* closing the sheet.                                                      *)
(***************************************************************************)
EXTENDS ClientApi

\* A section of the settings: the busy state belongs to the page.
SettingsSection(door, slot) ==
    [Sheet(door) EXCEPT !.closes = {}, !.slot = slot, !.flag = slot, !.locked = FALSE, !.after = "awaited"]

\* Blocked while the user is in a family; what else keeps the account the page does not
\* know.  The whole application is loaded anew.
DeleteAccount ==
    [SettingsSection("account", "deleteInProgress") EXCEPT !.facts = "user" :> 1 @@ "single" :> 1 @@ "unreferred" :> 1,
        !.offers = {Offer(1, "single" :> 1 @@ "user" :> 1, <<deleteAccount>>)}]

\* The owner dissolves, a member leaves: one button.  The page itself drops the family.
InFamily(slot) ==
    [SettingsSection("family", slot) EXCEPT !.after = "patch", !.facts = "family" :> 1 @@ "single" :> 0]
LeaveFamily == [InFamily("leaveInProgress") EXCEPT !.offers = {Offer(1, "family" :> 1, <<leaveFamily>>)}]
\* What keeps a family from being dissolved the page does not know.
DissolveFamily ==
    [InFamily("dissolveInProgress") EXCEPT !.facts = @ @@ "dissolvable" :> 1,
        !.offers = {Offer(1, "family" :> 1, <<dissolveFamily>>)}]

NewInvestmentAccount ==
    [SettingsSection("showCreateInvestmentForm", "creatingInvestmentAccount") EXCEPT
        !.closes = {"showCreateInvestmentForm"}, !.offers = {Offer(1, Nothing, <<createBankAccount>>)}]

\* The sheet of an account refuses to close while one of its three actions is busy.
AccountSheet ==
    [SettingsSection("settingsAccountId", "deletingInvestmentAccountId") EXCEPT !.locked = TRUE]
SaveAccount ==
    [AccountSheet EXCEPT !.closes = {"settingsAccountId"}, !.offers = {Offer(1, Nothing, <<updateCryptoAccountSettings>>)}]
AccountStatistics ==
    [AccountSheet EXCEPT !.offers = {Offer(1, Nothing, <<setAccountStatistics(-1)>>), Offer(2, Nothing, <<setAccountStatistics(1)>>)}]
\* Whether the account is empty is for the server to say.
DeleteInvestmentAccount ==
    [AccountSheet EXCEPT !.closes = {"settingsAccountId"}, !.facts = "empty" :> 1,
        !.offers = {Offer(1, Nothing, <<deleteInvestmentAccount>>)}]

\* An error is ignored.
DeleteConnection ==
    [SettingsSection("integrations", "deletingConnectionId") EXCEPT !.after = "patch",
        !.facts = "connection" :> 1, !.offers = {Offer(1, "connection" :> 1, <<deleteTinkoffConnection>>)}]

------------------------------------------------------------------------------
(* The broker: both dialogs can be closed at any time, and a failure leaves  *)
(* nothing to try again.                                                     *)

BrokerDialog(door) == [Sheet(door) EXCEPT !.locked = FALSE, !.final = TRUE, !.reads = "sheet"]
\* One account after another.
ConnectBroker ==
    [BrokerDialog("showTinkoffConnectDialog") EXCEPT !.facts = "first" :> 1 @@ "second" :> 1,
        !.offers = {Offer("one", Nothing, <<connectTinkoff("first")>>),
                    Offer("both", Nothing, <<connectTinkoff("first"), connectTinkoff("second")>>)}]
\* A deposit said to be recorded already must be on the account.
ImportOperations ==
    [BrokerDialog("syncDialogConnection") EXCEPT !.facts = "toImport" :> 1,
        !.offers = {Offer(n, "invested" :> n, <<applyTinkoffSync(n)>>) : n \in 0..1}]

------------------------------------------------------------------------------
(* Family.tsx. *)

FamilySection(flag) ==
    [Sheet("family") EXCEPT !.closes = {}, !.flag = flag, !.locked = FALSE, !.after = "awaited"]
CreateFamily ==
    [FamilySection("creating") EXCEPT !.facts = "single" :> 1 @@ "family" :> 0,
        !.offers = {Offer(1, "single" :> 1, <<createFamily>>)}]
\* Whether the user has been asked already the page does not know.
InviteMember ==
    [FamilySection("inviting") EXCEPT !.after = "nothing", !.facts = "family" :> 1,
        !.offers = {Offer(1, "family" :> 1, <<inviteToFamily>>)}]
Responding == [FamilySection("respondingId") EXCEPT !.facts = "invitation" :> 1 @@ "single" :> 1 @@ "family" :> 0]
\* Only an error ends the busy state; the load that follows shows no invitation any more.
AcceptInvitation ==
    [Responding EXCEPT !.frees = FALSE, !.offers = {Offer("accept", "invitation" :> 1 @@ "single" :> 1, <<acceptInvitation>>)}]
DeclineInvitation ==
    [Responding EXCEPT !.after = "patch", !.offers = {Offer("decline", "invitation" :> 1, <<declineInvitation>>)}]

------------------------------------------------------------------------------
(* SecuritySection.tsx: one busy state for everything. *)

Secured == [Sheet("security") EXCEPT !.closes = {}, !.flag = "busy", !.locked = FALSE, !.after = "awaited"]
SavePassword == [Secured EXCEPT !.offers = {Offer(1, Nothing, <<setPassword>>)}]
LinkTelegram == [Secured EXCEPT !.facts = "unlinked" :> 1, !.offers = {Offer(1, "unlinked" :> 1, <<linkTelegram>>)}]
RevokeSession == [Secured EXCEPT !.facts = "device" :> 1, !.offers = {Offer(1, "device" :> 1, <<revokeSession>>)}]

------------------------------------------------------------------------------
\* The exchange page: no balance is looked at, no request key is sent.
ExchangeOffers == {Offer(n, Nothing, <<exchangeCurrency("account", n)>>) : n \in Quantity}
Exchange ==
    [Sheet("exchange") EXCEPT !.closes = {}, !.slot = "submitting", !.flag = "submitting", !.locked = FALSE,
        !.after = "awaited", !.offers = ExchangeOffers]

\* The row of an operation: the server says whether it can be cancelled before
\* the user confirms, and an operation cancelled already counts as a success.
CancelOperation ==
    [Sheet("row") EXCEPT !.reads = "sheet", !.locked = FALSE, !.guarded = TRUE,
        !.facts = "operation" :> 1 @@ "unused" :> 1,
        !.offers = {Offer(1, "operation" :> 1 @@ "unused" :> 1, <<reverseOperation>>)}]
=============================================================================
