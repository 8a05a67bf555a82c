# TLA+ verification of budget_bot

budget_bot keeps the money of a person or a family: bank accounts in several
currencies, a budget of categories that the money is spread over, credit cards
and loans, investments and crypto. Nearly all of its logic is in the
PostgreSQL functions of `src/infra/db/Scripts/budgeting/func`; the API
(`src/backend/app`) validates a request and calls one of them
(`src/storage/*.py`); the client (`src/frontend`) and the iOS shell show the
result.

This directory holds TLA+ modules translated from that code, TLC
configurations that check them on small instances, and proofs that TLAPS checks
for every value of the constants. `PROJECT.json` lists the components, the runs,
for each property a mutation of the code's model that it catches, the source
lines behind every definition, the hazards of the code and the theorems.

    tlc -workers 2 -config LedgerFamily.cfg MCBudgetLedger.tla
    tlapm BudgetLedgerProofs.tla

## Inventory

| Component | State | Operations | What makes it correct |
|---|---|---|---|
| Bank and budget ledger | operations, bank_entries, budget_entries, fx_lots, lot_consumptions | record income (with or without tax), expense, exchange, transfer, allocate, group allocate, reverse | no overdraft, FIFO lots add up to balances, the budget is the money, one reversal per operation |
| Balance projections | current_bank_balances, current_budget_balances | put__apply_current_*_delta in every writer; rebuild_current_balances | a rebuild changes nothing |
| Concurrency of the above | row locks, open transactions, the pool | every call is one autocommit `SELECT func(...)`, READ COMMITTED | checks and writes of one call are not separated by another's |
| Categories, accounts, limits | categories, bank_accounts | create, update, archive; limit of a card | a guard on balances when something is switched off |
| Category groups | group_members | set__replace_group_members | acyclic, shares of 100% |
| Scheduled expenses | scheduled_expenses; the scheduler task of each API process | create, delete, claim, charge, store the result | each occurrence at most once, on its day; no due row for ever |
| Loans and cards | bank_accounts.credit_*, credit_payment_events | create, repay, schedule | the schedule and the debt agree |
| Income split | income_sources, income_source_patterns | record_income_split, edit a pattern | the parts are the income |
| Families | families, family_members, family_invitations | create, invite, answer, leave, dissolve, delete an account | one family per user, members by invitation, nothing left of a family that is gone, personal data untouched |
| Source journal | crypto_source_events, crypto_source_revisions, cancelled_operations | record a source once, in order; cancel one by undoing what it wrote | a cancel equals a history without the source, or is refused |
| Crypto lots | crypto_lots, crypto_lot_consumptions, current_crypto_balances | buy, sell, swap, move, pay a fee, receive | lots equal balances |
| Crypto protocol positions | crypto_protocol_positions, liability and accrual events | create, top up, close in part or in full, lend, borrow, repay, liquidate, pools | collateral, debt and principal stay consistent |
| Portfolio | portfolio_positions, portfolio_events | open, top up, close in part or in full, income, fee, cancel | quantity and cost equal the events |
| Tinkoff import | external_connections, imported ids | preview, apply, reconcile | an external operation is imported once |
| Collectibles, deposit interest | metadata of positions | receive, buy, sell, accrue | an accrual period once |
| Sign-in and sessions | users, auth_identities, sessions | register, sign in, renew, revoke | a lock after failures; a revoked session is dead |
| Rates, prices, receipt scan, reports | caches | read | nothing to the ledger |
| Client: start and sessions | session token and saved overview in localStorage, per tab the state of useAuth, App and the dashboard | sign in, register, sign out, lose the session, reload, refresh | no data of one session in another, no older overview over a newer one, no endless splash |
| Client: forms | per page what it shows and which sheet is open, per form a busy state and a request key in sessionStorage | submit, close, reopen, retry; scripts of several calls; reload | wanted once, recorded once; confirmed, then shown; no button disabled for ever |

How they interact: the ledger is shared state. A writer reads projections,
decides, inserts an operation with its entries and applies the deltas, all in
one transaction. Groups and income patterns expand into ledger entries; the
scheduler, the Tinkoff import and crypto operations call ledger functions; the
source journal wraps them when an owner has crypto sources; families are owners
of budgets beside users.

What is hard, and hardly reached by tests: the interleaving of two functions at
READ COMMITTED, where `FOR UPDATE` locks only rows that exist and a zero balance
has none; reversals in any order after lots were used; rounding of the cost of
partial lots; a card drawn, overpaid, repaid and cancelled; the scheduler stopped
between the claim and the expense; dates at the end of a month; on the client,
answers that are late, lost or belong to an earlier login, sheets closed under a
handler that still runs, several tabs over one localStorage. The list with lines
is under `hazards` in PROJECT.json.

## Modules

    RowSums                 sums over rows, rounding               RowSumsProofs
       |
    BudgetLedger            the ledger, function by function       BudgetLedgerProofs
       |  MCBudgetLedger    small households                       (TypeCorrect, NothingStranded,
       |                                                           TakenBackOnce, NeverOverdrawn,
       |                                                           FreeBudgetIsGuarded)
       |                                                           BudgetLedgerLotsProofs
       |                                                           (LotsMatch, LotsBack, RebuildFindsTheSame,
       |                                                           RebuildKeepsForeignCosts,
       |                                                           MoneyIsBudget, CardsOweTheirDebt)
    LedgerLocks             the same functions, statement          LedgerLocksProofs
       |  MCLedgerLocks     by statement                           (HeldRowsStable, LocksTyped, BudgetStaysMoney,
       |                                                           OverdraftOnlyUnlocked, ReversedOnce,
       |                                                           FreeBudgetOnlyUnlocked)
    FamilyDissolution       set__dissolve_family beside BudgetLedger
          MCFamilyDissolution
    Families                membership, statement by statement     FamiliesInvariant (definitions only)
       |                                                           FamiliesProofs
          MCFamilies                                               (TypeCorrect, ReferredRowsAreKept,
                                                                   FamiliesAreWhole, MembersHaveJoined,
                                                                   SchedulesKeepAuthors, LoneCallsMeetNoFamilyRow)
    ChargeOnce              what a scheduled expense promises
       |
    ScheduledExpenses       claim, charge, store, stop             ScheduledExpensesProofs
          MCScheduledExpenses                                      (TypeCorrect, ChargedOnce, Refinement,
                                                                   DatesKept, EveryDateClaimed)
    ClientStart             tabs, session, saved overview          ClientStartProofs
          MCClientStart                                            (TypesAreRight, RecordsAreOfThisLogin,
                                                                   OverviewsAreOfTheirUser, SplashesAwaitAnAnswer,
                                                                   FreshOverviewsStay)
    FormRecords             how a form and a call are written down
       |  ClientApi         the calls of api.ts
       |     DashboardForms, CryptoForms - PortfolioForms, CreditsForms, SettingsForms
    ClientForms             a page that runs forms                 ClientFormsProofs
          MCClientForms     all of them together                   (BusyEnds, LockedSheetsStay, WantedOnceDoneOnce,
                                                                   ConfirmedIsShown, PagesAreTyped)

### BudgetLedger

One action is one SQL function in its own transaction.

| Code | Model |
|---|---|
| operations with bank_entries, budget_entries, lot_consumptions | `ledger.operations`, a sequence: the id is the index; the rows of an operation are functions on balances, categories and lots, 0 for no row |
| fx_lots in `(created_at, id)` order | `ledger.lots` |
| current_bank_balances.amount, .historical_cost_in_base; current_budget_balances | `ledger.amount`, `ledger.cost`, `ledger.budget`; an absent row is 0 |
| bank_accounts.credit_limit, is_active; categories.is_active | `creditLimit`, `activeAccounts`, `activeCategories` |
| put__record_income, put__record_income_tax | `RecordIncome` |
| put__record_expense, put__exchange_currency, put__transfer_between_accounts | `RecordExpense`, `ExchangeCurrency`, `TransferBetweenAccounts` |
| put__allocate_budget, put__allocate_group_budget | `AllocateBudget`, `AllocateGroupBudget` |
| put__reverse_operation, rebuild_current_balances | `ReverseOperation`, `RebuildCurrentBalances` |
| set__update_credit_account, set__archive_credit_account, set__archive_category | `UpdateCreditLimit`, `ArchiveCreditAccount`, `ArchiveCategory` |

The FIFO loop is `Taken`: what a withdrawal takes from lot `i` is what is left
of it after the lots before it, at most what the lot has; `CostOfPart` rounds the
cost of a part and gives a lot's last part all the cost left. An operation that
raises is an action whose guard is false. Amounts are integers of the finest
unit a column can hold (`TicksPerCent`), budgets and costs integers of cents.

Properties: `RebuildChangesNothing` (projections equal a rebuild),
`LotsBackBalances` and `LotsMatchConsumptions` (lots, balances and consumptions
agree, through reversals), `NoStrandedCost` (rounding leaves no cost on an empty
lot), `AccountsSolvent`, `BudgetIsMoney` (the identity of
`docs/2026-11-02-cc-overpayment.md`: cash, plus balances of cards, plus their
budget debt), `CardDebtIsOwed`, `ReversedAtMostOnce`, and the action property
`FreeBudgetGuarded`: only what is named there may lower the free budget, Unallocated
together with FX Result, below zero. Both runs check it: ledger_family with the losses
of exchanges, so that the two rows differ and an allocation has to look at their sum;
ledger_card, where FX Result stays at zero, with groups, taxes and cards. A reversal
that the sum decides needs more operations than a run has; the theorem
`FreeBudgetIsGuarded` covers it.

### LedgerLocks

The same functions once more, as the list of their statements on shared rows,
for the question BudgetLedger leaves out: what happens between the statements.
`committed` is what other transactions see, `written` a transaction's own
changes, `holder` the row locks, `queue` the rows the current `FOR UPDATE` still
waits for, `program` the statements left. `StartLocking` chooses the rows in the
snapshot of the statement, so an absent row is not locked; `LockRow` waits;
`ApplyDelta` is the upsert of put__apply_current_*_delta, which waits for the key;
`CheckBalance` goes on or raises and rolls back; `AbortDeadlocked` is
PostgreSQL's detector. A connection of `src/storage/databases.py` runs one call
at a time (`Begin`), and gives back no lock and no change when the call ends.
The budget debt of a card is a sum over entries and is read without a lock.

`LockedBalanceIsStable`, `OperationsReversedOnce`, `BudgetIsMoney`: what the
locks do guarantee. `OverdraftNeedsUnlockedCheck` and
`FreeBudgetNeedsUnlockedCheck`: every overdraft goes back to a decision made
without the lock (`unlocked` remembers them), that is, to an absent row or to
put__reverse_operation. The free budget is so guarded for the calls that compare it;
a repayment of a card and the archiving of an overspent category lower it without
comparing. `EveryCallEnds`: no call waits for ever.

### Families

The functions on memberships lock nothing of what they read. What keeps them
apart are the constraints of the tables, so the module is about constraints: a call
is a program of reads (`Read`: go on or raise), of INSERTs that take their unique key
and `FOR KEY SHARE` on what they refer to, of UPDATEs and DELETEs that find rows in
their snapshot, lock each and look at it again, and of the checks behind a DELETE
(NO ACTION, CASCADE). `Blockers` says who waits for whom, `Violates` which constraint
raises, `EndTransaction` ends a call.

| Code | Model |
|---|---|
| users, families, family_members, family_invitations, scheduled_expenses, crypto_source_events; a category and an account for all of a family's | `committed`, a row or `Absent`; `written`, the changes of a transaction |
| uq_family_members_user, uq_family_invitations_pending | the key of `MemberRow`; `PendingKey` |
| row locks, FOR KEY SHARE of foreign keys | `holder`, `sharers` |
| put__create_family, put__invite_family_member, set__respond_family_invitation, set__leave_family, set__dissolve_family, set__delete_user_account | programs of these names |
| put__create_scheduled_expense, put__crypto_source_event up to its row | what a member may leave behind in the family |

`FamilyIsWhole`: a family has its creator as its only owner, and nothing is left of
one that is gone. `JoinedByInvitation`: who is a member has accepted. `SchedulesHaveAnAuthorInTheFamily`:
what leaving is to keep intact. `FamilyRowsRefuseOnlyInRaces`: the
functions ask for, reassign or delete beforehand all that the rows of people, families,
members, invitations and schedules would refuse, for every order of calls. The rows of the
ledger and of the portfolio are not in the model; what they do to a dissolution or to the deletion of an
account is to refuse it or not, so `LedgerRefuses` may undo such a call at the statements that
delete what they refer to (all deletions of operations, entries, lots and positions are the one
statement "delete-ledger"), however alone it runs.

### FamilyDissolution

BudgetLedger with one more action, the eleven deletions of set__dissolve_family
with their cascades: rows of the family's operations on accounts of others, rows of
others' operations on the family's accounts, lots, balances. It raises (`Dissolvable`)
when a lot on a member's account was opened by an operation of the family. It also raises
for a family that has had a position of the portfolio (`portfolio_events.linked_operation_id`);
the families of the model have none. That would only take dissolutions away, so what the run
finds stays a behaviour of the code.

### ScheduledExpenses and ChargeOnce

ChargeOnce says what a schedule promises: an occurrence goes from not reached to
claimed to at most one charge, and never back. ScheduledExpenses has the table
(`next_run_at`, the last result), and a scheduler task per API process, which
claims due rows with `FOR UPDATE SKIP LOCKED`, moves their dates and commits,
then records an expense for each item and stores its result, each in a
transaction of its own. A stop (`Stop`, the cancelled task of `main.py`) can come
between any two of them, an expense may commit and its answer be lost. The
calendar is a sequence of months of a few days. `ChargesOnce` is the refinement.

### ClientStart

Two tabs share `localStorage`: the token (`stored`) and the overview saved for
the next start (`record`). A function of the client takes a world (the tab that
runs, the storage, the storage events its writes send) and returns one, as the
functions of `session.ts`, `startCache.ts`, `useAuth.ts` and `Dashboard.tsx` call
each other; an action is one JavaScript task and the rendering that follows.

| Code | Model |
|---|---|
| `cachedToken`, `generation`, `start` of the modules | `cached`, `generation`, `snapshot` of a tab |
| `setSessionToken`, `clearStart`, `readStart`, `writeStart`, `cacheIdentity` | the operators of these names, `Identity` |
| `useAuth.load`, what App renders, the mounting of the pages | `load`, `Screen`, `Rendered` with `Mount` and `Unmount` |
| `loadSeqRef` of the dashboard | the load that is `latest` and `mounted` |
| LoginScreen, sign-out, account deletion, ErrorBoundary, the `storage` listener | `LogIn`, `Register`, `SignOut`, `DeleteAccount`, `TryAgain`, `StorageEvent` |
| answers of the context, of the overview, of prices | `ContextAnswered`, `OverviewAnswered`, `PricesAnswered` |

An answer is what the server knew when the request left or when it is delivered,
or no answer at all. The server is `valid`, `tgOwner` (what the Telegram login
opens) and a version of each user's data.

`RecordOfThisLogin`: what is saved on the device is of the login on the device.
`OverviewOfItsUser`: what is on the screen is of the user on the screen.
`FreshNeverGoesBack`: no late answer replaces a newer overview.
`SplashAwaitsAnAnswer`: whoever waits, waits for a request that is on its way.

### ClientForms and the modules of the pages

Some eighty forms of the client share one pattern: a sheet over a page, a button
that is disabled by what the form shows and by its busy state, a handler that
makes calls one after another in a try block, and an ending: close, reload,
patch. They differ in a handful of points, and that is where they go wrong, so a
form is a record of these points (`FormRecords!Sheet`) and ClientForms is the
machine that runs a scene of one or two of them.

| Field | Code |
|---|---|
| `door`, `closes` | the state of the page that opens the sheet; the states that onSuccess resets |
| `slot`, `flag` | the useState of the busy state: in the page (and what it holds), or in the sheet |
| `locked` | onClose refuses while busy (`if (!submitting) onClose()`) |
| `frees` | the busy state is reset after a success too |
| `scope` | the argument of useCryptoRequestKey |
| `offers` | the submissions the `canSubmit` expression lets through, and the calls of the handler; `undo` is the call in its catch block |
| `reads` | the props of the page, the position held by the door's state, or a fetch of the sheet |
| `after` | onSuccess: reload, awaited reload, patched state, nothing |
| `guarded` | the page numbers its loads (Dashboard, the history) |
| `final` | the dialog has a step "failed" with nothing but a close button |

| Module | Source |
|---|---|
| ClientApi | the writing functions of `api.ts`: what a call takes and gives on the server, whether the server knows its key (`Once`), whether a second call is an empty success (`Spends`) |
| DashboardForms | CategoryActionSheet, CreateCategoryDialog, TransferDialog, FreeBudgetSheet, IncomeDialog, AccountTransferDialog, ExchangeSheet, AccountDetailSheet |
| CryptoForms | the coin, protocol, pool and lending sheets of the portfolio |
| PortfolioForms | positions, protocol positions, collectibles and accounts in `Portfolio.tsx` |
| CreditsForms | `Credits.tsx` |
| SettingsForms | `Settings.tsx`, `Family.tsx`, `SecuritySection.tsx`, the broker's dialogs, `Exchange.tsx`, the cancelling in `Operations.tsx` |

Amounts on the server and on the screen are *facts*: "account", "walletCoins",
"debt", "open" (a position is there), and so on, zero to two of each. A form that
asks for one unit of something compares it with what it shows (`Lets`), the
server with what there is (`Sufficient`). Three facts stand for what the server asks and
no form compares: "members" (a group has an active category to give to), "dissolvable" (no
lot and no event of a position refers to the family's operations) and "unreferred" (no row
refers to the person's accounts and categories). The actions: `OpenSheet`, `CloseSheet`,
`Submit`, `Handle` (the server's transaction), `Answer` (the handler goes on, ends
or undoes), `Lose` (the client gives up on a request; `HandleOrphan`: it arrives
after all), `LoadAnswered`, `LoadLost`, `Refresh`, and `Elsewhere` for every other
device, person and job. `RequestKey` and `Succeeded` are useCryptoRequestKey with its
sessionStorage.

History variables: `wishes` has one entry for each thing the user wanted, from
the first tap until an answer is known, with the times the server carried it out;
`owed` is the last change confirmed to the user.

- `DoneOnce`: a wish is carried out once. Forms with a key the server looks at
  promise it whatever is lost, unless another request of the same scope crossed;
  forms without promise it while no answer was lost and the user was kept in
  front of the form.
- `ChangesAreShown`: once everything is quiet, a page with numbered loads shows
  what it confirmed; the others do unless an older load came last.
- `BusyAwaitsACall`: a disabled button has a handler behind it.
- `NothingHalfMade`: a script with an undo leaves no group without members.
- `LockedFormsStay`: a form that locks its sheet is on screen when it is answered.

## Runs

| Run | Shows | Bounds |
|---|---|---|
| ledger_family | lots, costs, projections, budgets and money agree for a person with a cash and an investment account, in a family with an account; two currencies; nothing is reversed twice; what an exchange has lost is not allocated | 4 operations, amounts 1 and 3: an exchange, two partial uses of its lot (the second takes the rest) and a reversal fit, also across accounts and owners |
| ledger_card | overdraft, limits, the debt of a card, groups, taxes, the free budget | 4 operations, two cards that are alike (symmetry), limits 2 and 3, amounts 1 and 3: drawn, overpaid or repaid, cancelled |
| locks_spend | two connections, two calls each, out of expenses, incomes, transfers to and from a card, a cancel and an archiving | every order of statements of any two calls, and a third and a fourth after them |
| locks_progress | three connections with one call each, out of transfers in a circle and allocations | a cycle of three beside cycles of two, and two allocations of one budget |
| families | membership under concurrent calls | three connections, three calls out of eleven; an owner, a person with two invitations or who is a member with a scheduled expense, a second family: any two calls cross, and a third before, between or after |
| client_start | sessions, saved overviews, late answers, storage events | two tabs, two users with one token each; three steps of users and world (two inside Telegram), any number of answers: a login, a change of login in the other tab and a reload fit |
| client_forms | every form alone and every two that share a sheet's busy state, a request key or a busy state of the page | two taps of a button (a retry, or the other form), sheets closed and opened as often as one likes; alone: one lost answer, one change elsewhere, one refresh, two of these together; in pairs: one lost answer |
| scheduler | two schedulers, a weekly and a monthly row, months of 3 and 2 days, the monthly row on the 3rd; one stop | enough days for a month shorter than the row's day and the day to come back |

Four runs show what the code does against what the repository says of it
(`findings` in PROJECT.json):

- **ledger_archived_card**: a card is archived only at zero since an overpayment on it
  would be lost. An expense on the card is paid back, the card archived at zero, and the
  expense cancelled: the archived card holds an overpayment. (To cancel the repayment
  instead leaves a debt on it, which the property does not speak of.)
- **ledger_dissolve**: dissolving a family is not to affect personal accounts; it
  deletes the entries of the family's operations on them, their balances stay, and
  the next rebuild_current_balances takes the money away. A person and a family with
  an account each and two operations before it are enough.
- **locks_card_limit**: two expenses of a card at zero; there is no row to lock,
  both pass the check.
- **locks_repay_twice**: two repayments read the same debt, which no row stands for.

### Known windows without a run

- `RebuildChangesNothing` is checked with amounts in whole cents. With finer
  amounts, which `operations.py` admits, put__record_income rounds each operation
  and rebuild_current_balances rounds the sum, so two incomes of half a cent
  differ (set `TicksPerCent = 2` and amounts of 1 in the configuration).
- Transfers lock their source first and write the target later, whatever their
  ids, against DEVELOPMENT_GUIDELINES.md: opposite transfers deadlock and one of
  them is undone. `EveryCallEnds` holds since PostgreSQL finds the cycle.
- set__archive_category reads the balance it moves without a lock: an allocation
  that commits in between leaves money in an archived category.
- "Only the free budget (Unallocated together with FX Result) must cover a reversal"
  (put__reverse_operation.sql:204-205), but the row of FX Result is compared alone: the
  reversal of an exchange gain is refused while Unallocated covers it
  (`BudgetCovers`).
- A cancel of an income compares the balance without a lock, beside an expense the
  account ends below zero (`unlocked` in `OverdraftNeedsUnlockedCheck`).
- A reversal may take a lot another call has just used: its UPDATE of fx_lots is
  not a statement of LedgerLocks yet.

Families (`contested` and the exception of `FamilyRowsRefuseOnlyInRaces` name the
first three, `LedgerRefuses` the last two):

- Two answers to one invitation: accepted and then declined, the person is a
  member with a declined invitation.
- A schedule written as its author leaves keeps an author outside of the family;
  set__delete_user_account reassigns it later.
- Nobody reassigns or deletes sources of the crypto journal (nor crypto positions, their
  events and hidden coins, which refer to users and accounts in the same way): whoever has
  recorded one, in a family or alone, cannot delete the account although the function
  reassigns "so personal account deletion remains possible"
  (set__delete_user_account.sql:25-26), and a family with one cannot be dissolved.
- Accepting an invitation while its family is dissolved, or while its inviter's account is
  deleted, may deadlock; PostgreSQL undoes one of the two.
- A family that has moved foreign money or coins to a member's account cannot be dissolved:
  the lot there refers to the family's operation (`opened_by_operation_id` of fx_lots and
  crypto_lots, `Dissolvable`). Nor can one that has had a position: set__dissolve_family deletes the
  operations (line 49) before the positions (line 86), and
  `portfolio_events.linked_operation_id` (tb/portfolio_events.sql:11) keeps them.
- A person whose accounts or categories have entries of a family's operations, after a
  transfer between the two, cannot delete the account: set__delete_user_account deletes
  categories and accounts (lines 112-118), and bank_entries and budget_entries
  (tb/bank_entries.sql:6, tb/budget_entries.sql:6) still refer to them. "So personal account deletion
  remains possible" holds for those without such rows.

Sessions (ClientStart; the exceptions in its properties name them):

- A refusal drops the token whoever asked (`api.ts`): a late 401 of an earlier
  session removes the one signed in since; in another tab, `logOut` may remove a
  token that came after its own.
- `handleSignOut` reaches `onSignedOut` only when the server answered: otherwise the
  application stays on screen without a session. So it does after a 401 of the
  overview, until something reloads the context.
- A tab writes the saved overview until the storage event of another tab's change
  of login reaches it (`unheard`). When the context turns out to be another
  user's, useAuth takes a new ticket at the time of the answer (`late`).
- A context asked for before a change of login is taken when it arrives after it.

Forms (ClientForms; `Honoured`, `Leavable`, `crossed` and `guarded` name them):

- The server ignores the request key of a fiat exchange (`routers/operations.py`),
  of a transfer of coins between cash accounts, and of creating, closing, topping
  up and charging positions that are no collectibles (`routers/portfolio.py`): a
  retry after a lost answer is recorded twice although the client keeps its key.
  `Exchange.tsx` sends no key.
- The key of a scope is one: `bank-withdraw` serves two sheets and
  `collectible-action` four forms, and a different amount tried in between gives
  the first one a new key. A date that defaults to today changes the payload
  after midnight.
- One busy state of Credits and of Portfolio holds the id being worked on: a second
  form takes its place, and the end of either frees both.
- The cancel buttons of CategoryActionSheet look at their own tab only; the sheets
  of the portfolio can be closed at any time, and a late success closes the sheet of
  the same door that is open by then.
- Renaming a group succeeds and its members are refused: the page is told of
  neither. A schedule is created and the list cannot be fetched: it looks like a
  failure. A broker's first account is connected and the second is not: the page is
  not loaded anew.
- Network fees are no part of what the transfer, swap, pool and lending forms
  compare. No form looks whether a group has members, a family can be dissolved or an
  account deleted: the server refuses what the button lets through.
- Portfolio, Credits, Exchange, Settings, Family and SecuritySection do not number
  their loads; a patch of Settings can be overtaken by a load that was already on
  its way. `Family.handleAccept` ends its busy state only on an error: when the load after
  it fails, the button of the accepted invitation stays disabled (`frees`).

### Fairness

Only calls already begun are assumed to go on: `WF_vars(Step(p))` in LedgerLocks
(PostgreSQL executes a statement whose lock is free, and its deadlock detector
runs) and `WF_vars(Work(i))` in ScheduledExpenses (the loop of
`scheduler.py` wakes every so often and catches every exception). Clients need not
call, days need not pass, stops need not happen: none of them has fairness. The client's
modules state none: a request may stay unanswered for as long as the browser
waits. What is asked of them instead of "it ends" is that there is something to
wait for (`SplashAwaitsAnAnswer`, `BusyAwaitsACall`).

## Proofs

| Theorem | For every |
|---|---|
| `BudgetLedgerProofs!TypeCorrect` : `Spec => []TypeOK` | set of owners, accounts, currencies, categories, plans, amounts |
| `BudgetLedgerProofs!NothingStranded` : `Spec => []NoStrandedCost` | the same |
| `BudgetLedgerProofs!TakenBackOnce` : `Spec => []ReversedAtMostOnce` | the same |
| `BudgetLedgerProofs!NeverOverdrawn` : `Spec => []AccountsSolvent` | the same |
| `BudgetLedgerProofs!RebuildKeepsAmounts` : `Spec => []ProjectionsAreEntries` | the same |
| `BudgetLedgerProofs!FreeBudgetIsGuarded` : `Spec => FreeBudgetGuarded` | the same |
| `BudgetLedgerLotsProofs!LotsMatch` : `Spec => []LotsMatchConsumptions` | the same |
| `BudgetLedgerLotsProofs!LotsBack` : `Spec => []LotsBackBalances` | the same |
| `BudgetLedgerLotsProofs!RebuildFindsTheSame` : `Spec => []RebuildChangesNothing` | the same, with `TicksPerCent = 1` |
| `BudgetLedgerLotsProofs!RebuildKeepsForeignCosts` : `Spec => []ForeignCostsAreLots` | the same, any `TicksPerCent` |
| `BudgetLedgerLotsProofs!MoneyIsBudget` : `Spec => []BudgetIsMoney` | the same, with `TicksPerCent = 1` |
| `BudgetLedgerLotsProofs!CardsOweTheirDebt` : `Spec => []CardDebtIsOwed` | the same, with `TicksPerCent = 1` |
| `ScheduledExpensesProofs!TypeCorrect` : `Spec => []TypeOK` | set of schedulers and rows, calendar |
| `ScheduledExpensesProofs!ChargedOnce` : `Spec => []ChargedAtMostOnce` | the same |
| `ScheduledExpensesProofs!Refinement` : `Spec => ChargesOnce` | the same |
| `ScheduledExpensesProofs!DatesKept` : `Spec => []OnItsDay` | the same |
| `ScheduledExpensesProofs!EveryDateClaimed` : `Spec => NoDateSkipped` | the same |
| `LedgerLocksProofs!HeldRowsStable` : `Spec => LockedBalanceIsStable` | set of connections, accounts, categories, past operations, calls |
| `LedgerLocksProofs!LocksTyped` : `Spec => []TypeOK` | the same |
| `LedgerLocksProofs!BudgetStaysMoney` : `Spec => []BudgetIsMoney` | the same |
| `LedgerLocksProofs!OverdraftOnlyUnlocked` : `Spec => []OverdraftNeedsUnlockedCheck` | the same |
| `LedgerLocksProofs!ReversedOnce` : `Spec => []OperationsReversedOnce` | the same |
| `LedgerLocksProofs!FreeBudgetOnlyUnlocked` : `FreeBudgetCalls => (Spec => []FreeBudgetNeedsUnlockedCheck)` | the same, calls without repayments of cards and without archivings |
| `FamiliesProofs!TypeCorrect` : `Spec => []TypeOK` | set of users, families, connections, calls, tables to start from |
| `FamiliesProofs!ReferredRowsAreKept` : `Spec => ReferredRowsStay` | the same |
| `FamiliesProofs!FamiliesAreWhole` : `Spec => []FamilyIsWhole` | the same |
| `FamiliesProofs!MembersHaveJoined` : `Spec => []JoinedByInvitation` | the same |
| `FamiliesProofs!SchedulesKeepAuthors` : `Spec => []SchedulesHaveAnAuthorInTheFamily` | the same |
| `FamiliesProofs!LoneCallsMeetNoFamilyRow` : `Spec => []FamilyRowsRefuseOnlyInRaces` | the same |
| `ClientStartProofs!TypesAreRight` : `Spec => []TypeOK` | set of tabs, session tokens and their owners, users, bound on steps |
| `ClientStartProofs!RecordsAreOfThisLogin` : `Spec => []RecordOfThisLogin` | the same |
| `ClientStartProofs!OverviewsAreOfTheirUser` : `Spec => []OverviewOfItsUser` | the same |
| `ClientStartProofs!SplashesAwaitAnAnswer` : `Spec => []SplashAwaitsAnAnswer` | the same |
| `ClientStartProofs!FreshOverviewsStay` : `Spec => FreshNeverGoesBack` | the same |
| `ClientFormsProofs!BusyEnds` : `Spec => []BusyAwaitsACall` | set of forms, scenes, facts, bounds of the runs |
| `ClientFormsProofs!LockedSheetsStay` : `Spec => LockedFormsStay` | the same |
| `ClientFormsProofs!WantedOnceDoneOnce` : `Spec => []DoneOnce` | the same |
| `ClientFormsProofs!ConfirmedIsShown` : `Spec => []ChangesAreShown` | the same |
| `ClientFormsProofs!PagesAreTyped` : `Spec => []TypeOK` | the same |

Assumptions are the named ASSUMEs of the modules (ownership, finite sets, amounts
that are positive integers, calls that name accounts there are), which TLC
evaluates in the runs. Those of ClientStart say that `null` and the words the model uses
beside tokens and users ("unread", "cache", "refused", ...) are none of these. The theorems on forms also assume `NoneIsNoRecord`: the
model value that stands for "no sheet" and "no request" is neither. TLC cannot
evaluate that one, which quantifies over everything, and needs not: a model value
equals no record.

*BudgetLedger.* Types alone are not inductive: `remaining : Nat` needs that a
withdrawal takes at most what a lot has, and that a reversal gives back no less
than nothing. The invariant `LedgerInv` adds to the types that an operation that is
not a reversal uses of no lot less than nothing, and cost only where it uses money
(`Uses`), and that an empty lot has no cost. `LeavesLots` says of the rows of one
operation that every lot is left with something, or with nothing at no cost;
`AfterUseLots` carries the invariant over such an operation, and each action is
shown to write one: a withdrawal since `Taken` and `CostOfPart` are bounded by the
lot (`RoundDivPart`: rounding the price of a part stays between nothing and the
whole), a reversal since it only gives back. `RowSumsProofs` proves what the sums
do (their value at one more row, that they are integers or naturals) by the least
number that would be a counterexample.

*BudgetLedger, its history.* `HInv` adds four parts to the invariant above. The
amounts and budgets are the sums of the entries (`EntriesInv`); a reversal points
back at an operation that is none, and no two at the same one (`ReversedOnce`); no
account that must not be overdrawn is (`Solvent`). The last one does not stand
alone. Lowering a card's limit compares it with the card's balance in the owner's
base currency only, so a card must hold no other currency, and no reversal may
bring one back: neither the balance nor any entry of the history has one
(`CardsInBase`). A reversal adds back entries of history, and a rebuild replaces the
balances by their sums, so both need `EntriesInv`. Every function but the rebuild
and the limit appends one operation and its deltas (`Recorded`), and
`RecordedHistory` carries the invariant over such a step if what it gives is there
(`Affordable`); each action is shown to check just that. `FreeBudgetGuarded` is a
property of steps, and a cancellation needs history for it: it compares what it takes
out of Unallocated and out of FX Result with two different sums, which is enough since
only an exchange writes FX Result and nothing but a reversal gives back to Unallocated
what it takes there (`FreeInv`). The last share of a group is what rounding leaves and
may be negative; Unallocated has the lowest id of its owner's categories, so it is
never last behind others (`PlansAssumption`, `SharesOfFree`).

*BudgetLedger, its lots.* That the lots of a balance hold its money is not inductive
either: a reversal moves the money back on the balance by the entries of the
operation and back into the lots by its consumptions, so the two have to agree for
every operation that may still be taken back, whatever happened since. `LotsInv` adds
to `HInv` that an operation uses only lots opened before it (`LotsInOrder`); that a lot
holds its opening less the sum of all its uses, which is also the sum of its live uses,
and a lot of a reversed operation nothing (`LotsLeft`); that every operation which is
not a reversal takes from one balance and from lots of that balance only, gives to one
balance, where the lot it opens lies, and moves on a foreign balance exactly what it
moves in lots (`MovesLots`); and `LotsHold`, the property itself with the costs. A
reversal of k is allowed when the lots k opened are untouched, so nothing live was taken
from them (`ReversalLeft`), and `MovesLots` of k says that what it puts back is what the
entries take back. The sums are moved about by the lemmas of `RowSumsProofs` (one row
changed, one row more, two tables side by side). From `LotsHold` a rebuild finds the
cost of a foreign balance for accounts of any precision. The cost of a base-currency
balance is its amount only if amounts are whole cents (`BaseCosts`): with finer ticks the
code rounds each entry, and a rebuild sums the rounded entries of one table and not of
the other, so `RebuildFindsTheSame` assumes `TicksPerCent = 1`.

*BudgetLedger, its money.* A function that moves money and budget by the same amount
keeps `BudgetIsMoney` at once; a reversal does not show it, since the cost it gives
back is the one of the lots and the debt it clears is the one of the entries. So
`MoneyHolds` says three things. `MoneyInv` is the property over all accounts: the
budgets are the costs of the accounts and what the cards have brought in.
`Undoable` says of every operation that is no reversal that what its entries did to the
budgets is what undoing it would take out of the accounts' costs and the cards' debts
again (`BookedKeeps`, `TakenBackKeeps`): for a foreign balance by `MovesLots`, for the
base currency as amounts are costs. `DebtOwed` is the inductive form of
`CardDebtIsOwed`: a draw adds to the debt what the balance goes below zero, a
repayment takes off what the balance comes back (`DrawnIsOwed`, `RepaidIsOwed`), and
nothing else touches either on a card of which nothing was reversed and that was not
paid by another card. Sharing money out over a group keeps the sum, since the last
member takes the rest, also where two members are one category (`LinesAddUp`,
`MembersGetAll`, `ByCategoryAddsUp`). Budgets and costs are in cents and amounts in
ticks, hence `TicksPerCent = 1` in both theorems.

*ScheduledExpenses.* In `IInv` a row a claim holds is due by that claim's date
(`RowsInv`), since whoever would change it has to wait; so what the claim takes
lies at the row's next date and everything taken before lies earlier
(`ClaimedInv`). Items of two schedulers, and of one scheduler's list, are different
occurrences, claimed and not yet charged (`ItemsInv`); hence nothing is charged
twice (`ChargedInv`). The refinement follows action by action from the same
invariant.

*ScheduledExpenses, its dates.* The day a row falls on is computed from the date
before it, so the question is what repetition does. Every date of a month lies in
the days of that month and the months follow each other (`MonthsInOrder`), hence
the month of a day is unique and the next run is in the next month, on the row's own
day or the last one of a shorter month (`FollowingIsOwn`), and the shorter month
is not remembered. Adding seven days, or aligning a first date to a weekday, keeps the
remainder (`WeekLater`, `NextWeekday`, from the uniqueness of quotient and
remainder). A step that moves a row is the claim, by `ShiftMoves`.

*LedgerLocks.* `LocksInv` says that a transaction has uncommitted changes only of
rows it holds (`WritesAreHeld`; entries of a debt excepted, which are insertions), and
what that rests on: every statement still to come reads and writes rows there are and adds
integers (`Sound`), which is shown for the program of each call. A commit is the only
step that changes what others see and gives up all it holds; so a row whose holder
stays keeps its value (`StepKeepsHeldRows`). Types add that an idle connection waits
for nothing and has nothing left to do, and that the rows a `FOR UPDATE` still waits for
are rows there are (`TidyInv`, `TypeInv`). For `BudgetIsMoney` every program carries its
own books: what a transaction has written on accounts and debts, less what it has
written on categories, and what the rest of its program would still write, come to
nothing, so the commit of a finished program changes both sides alike (`BooksInv`); a
rollback writes nothing, and an amount read before somebody else's commit does not
matter, since both sides of a program use the same amount. That a withdrawal is safe
(`SafeInv`) needs more than its own check: between the check of a balance and the commit
somebody may take from the same row, unless the row is held. So a balance that was checked
under its lock is still what was checked (`SafeChecks`, by `LockedBalanceIsStable`),
every withdrawal in a program stands after a check that covers it (`SafeTakes`), and a
function that has compared without holding sets the history variable of that row, which
is what the property allows. An operation's row is always there, so the reversal always
holds it when it looks for an earlier reversal (`SafeRows`). `StartAssumption` says that
the committed rows the runs start with have those properties; the sums over rows are
written without recursion (`VisibleSum`, by the set of rows that are visible).

*LedgerLocks, the free budget.* Unallocated and FX Result are compared together, and FX
Result may grow while the function that has compared them goes on. So `FreeInv` says of
every connection what the rest of its program may still do to the two rows: a bound b
below which it does not lower them (`SparesAll`, a bound after every statement, each
following from the next by `Spares`), where what it has written so far and b come to
nothing less than zero, or the connection holds Unallocated and what is committed covers
the difference (`OwnFree`). A comparison that passes makes the second true, unless the
row is not held and counts as decided on without its lock; another connection that commits
cannot have written Unallocated then, and never lowers FX Result. The
theorem has one hypothesis, `FreeBudgetCalls`: no repayment of a card and no archiving
of a category, which take from Unallocated what a debt or an overspent category says and
compare nothing (`ReverseOperation` compares Unallocated only, so no past entry lies in FX
Result either); an expense names a regular category and an allocation takes from no
FX Result, as put__record_expense and put__allocate_budget demand; the free budget is not
negative at the start. The calls and rows of the run locks_progress are such.

*Families.* Two theorems are about the locks that every call relies on. `FInv` says
that a transaction which has deleted a user, a family, a category or an account, not
yet seen by others, holds the row and is the only one to refer to it
(`DeletedIsAlone`): a deletion waits for those who refer to the row, whoever wants to refer
to it waits for the deletion (`WriterBlocks`, `SharersBlock`), no UPDATE touches such a
row (`UpdatesNoParent`) and no INSERT writes a deletion (`AddedParents`). A commit of the
deletion therefore meets nobody who refers to the row. That a connection comes back clean
needs that a program ends with its commit (`AdvancedProgram`).

*Families, whole.* `FamilyIsWhole` is broken, or not, by a commit, so `WInv` says of
every transaction what its commit will write. Each call executes its own statements in
their order (`OnTrack`), so what is behind it is done. A row that is
written is one the statements of this call may write, and its transaction holds it or
has drawn its id (`Wrote`). What a written row refers to, the same row referred to
before, or the transaction refers to now (`Covered`), with the locks of the INSERT in
progress (`Queued`, `Acquired`) and those of a schedule that gets a new author
(`Reassigns`); so the parent stays until the commit, which is where FInv comes in. The
other way round, a deletion has to leave nothing that refers to the row: after the
statement that deletes it, or clears one kind of what refers to it, nothing of that
is visible (`Cleared`), and nothing can appear since nobody else refers to the row.
While the statement runs, every such row (`Target`) is among the locks it has still ahead.

*Families, with their history.* That members accepted and authors belong is true up to
calls that answered or left at once. `HInv` says which: `alongside` is mutual among
those that run (`Beside`), the invitation that is being answered is as it was read,
unless an answer ran beside (`Answers`); who plans an expense belongs, unless he left
beside (`Plans`); who leaves keeps no schedule but one written meanwhile (`Leaves`). A call
that nobody ran beside may rely on all it has read (`ReadAlone`), and its sweeps have
found every row (`SweptAlone`). With that, and with the authors it hands schedules to
being there (`AInv`), no key it inserts is taken (`KeysFree`), all it refers to is there
(`CreateRefers`, `InsertRefers`, `ReassignRefers`), and nothing of the rows of the model is left that a NO ACTION check would
find (`NothingLeft`): the last theorem, which `LedgerRefuses` does not touch since it only
undoes. It needs that earlier calls have left the
tables a run starts from, which `StartsAssumption` states in the words of the properties.

*ClientStart.* A function of the client takes the tab, the storage and the storage events
it causes (a *world*) to another, and `load` alone runs through six of them. So the
invariant is said of a world: `Core` is what every function keeps at every moment, `Same`
names the fields it leaves alone, and what React settles by rendering (`Settled`: the pages
are those of the screen) and what holds only between tasks (`FromHere`, `Awaits`) are asked
of the end of a step. `Core` has, for the five properties: whatever was asked for with a
session speaks for its owner, or is a refusal (`Owned`); a ticket that is still of the
generation of its tab vouches that the session it was taken with is still the tab's
(`Tickets`, `Vouches`): a tab that takes a ticket has read its session, and whatever changes
it afterwards moves the generation; the tab has the session of the device, or has not read it, or has a storage event to hear (`Heard`).
Together with `FromHere`, which says the same of what the Dashboard shows and waits for,
they make what `writeStart` saves the login's, which is `RecordOfThisLogin`: the generation
alone does not, since it counts the wipes of one tab and not of the storage. `Newest` says that
at most one load is the latest, that no load is of a mounted Dashboard when none is mounted,
and that the latest was asked for when the server had at least what the screen shows; so its
answer is no older (`FreshOverviewsStay`). A load that is dropped as late leaves the latest one on its
way (`OthersAwaited`), which is `Awaits`. One tab moves and the others see its writes
(`MovedKeeps`): what is theirs stays, and if the session on the device has changed they have
an event to hear. The server moves the tokens, the Telegram login and, upwards only, the
versions (`ServerMoves`).

*ClientForms.* A disabled button could stay so in two ways: its handler ends
elsewhere, or the sheet it freed is another one. `FormsInv` therefore ties a handler
whose sheet is still there to the mark it has set in that sheet, one handler to a
mark, and a mark to its handler or to a form that does not free itself. Loads, answers
and changes elsewhere keep handlers, sheets and marks (`Kept`); `OpenSheet`,
`Submit` and the end of a handler are the cases. A locked sheet stays since only the
end of a handler takes it away, its own or that of a form which closes the same door.

*ClientForms, its promises.* `DoneOnce` looks at a counter that only the server
raises, so the invariant `PromiseInv` has to say who may still raise it. A wish with a
key has one key: all its handlers and all its lost requests carry it, the server
has counted the wish only if it knows the key, and as long as the answer is open the
key is the one saved for the scope, so that the next tap finds it (`OneKey`). Another
request of the scope could have replaced the saved one; but then two wishes of a topic
were pursued at a time, and those have crossed (`Crossing`). A wish without a key has
one handler, which has not made its first call yet or will not make it again
(`OneHandler`), provided that nothing was lost; that a second tap cannot add another
one needs the button to be disabled, hence the sheet to be there still: `StayInv` (a
form that locks its sheet, and whatever may close it, stays in it until its handler
ends) and `SlotInv` (a busy state of the page that only one flag writes has one
handler). `Owing` says of the loads on their way that the latest brings every change
owed. Every step but a tap lets handlers go on, and wishes change with them (`Onward`),
which is shown once per action and used for each part of the invariant; a tap is `Tapped`.

What the proofs need of the forms are the two ASSUMEs of ClientForms, which TLC
evaluates for the forms of the client: amounts are integers and an offer makes a call;
and `DoorsAssumption`, that a sheet which has to stay for its own handler is closed
by nobody else's success and by no form that waits for its load. A form added to the
client that breaks one of them is reported by the run before any behaviour is explored.

Only model-checked: liveness (`EveryCallEnds`, `EveryDueRowIsClaimed`), which
rests on fairness and ENABLED; and `NothingHalfMade` of ClientForms, which is no theorem
for every value of the constants: it is about what one script of one sheet
makes and undoes, and a scene may hold other forms that take the same thing.

## What is not modelled, and why

- Loans (the model's only credit account is a card) and put__repay_credit_account;
  the editing of groups (plans are constants), of income patterns, of accounts.
- Operations that only rename or describe; comments, dates of operations (the
  order of history is the order of calls).
- Import flags and journal routing inside ledger functions: an owner without
  crypto sources.
- Of the client: the paging of the history and the loads of the analytics, the
  receipt scan with its abort controller, hiding a coin (no busy state), what is
  only shown. `CategoryDialog.tsx` and `ExpenseDialog.tsx` are not used by any page.
  What amounts do on the server is reduced in ClientApi to what is taken and given.
- Of Families: base currencies (everybody has the same), names, personal rows, and
  portfolio positions, which leaving reassigns like scheduled expenses.
- On the server, the components below in the plan. Reports, rates, prices, the receipt scan, the
  iOS shell, migrations and scripts write nothing to the ledger or run outside of
  the system.

## Plan

Done: BudgetLedger, LedgerLocks, ScheduledExpenses with ChargeOnce, Families with
FamilyDissolution, the client (ClientStart, ClientForms), and the proofs above. Next, in this order:

1. **SourceJournal** (put__journal_bank_operation, put__crypto_source_event,
   put__delete_crypto_source, capture__crypto_mutation): keys and order of sources,
   images of the rows they write; refinement of an abstract journal in which a
   cancel removes a source and what remains is replayed.
2. The server's sign-in and sessions: the counter of failures, renewal against
   revocation.
3. **CreditPayments** and **IncomeSplit**: schedules and repayments of loans;
   patterns whose parts are the income; the graph of groups.
4. **CryptoLots**, then **ProtocolPositions** and **Portfolio** over them.
5. **TinkoffImport**: repeated and overlapping imports, reconciliation.
6. LedgerLocks with the lots of an exchange and of a reversal.

Proofs to come are those of the modules to come: every safety property checked above is
proved, but for the one named under "Only model-checked". Run bounds stay small: two actors, two rows and
three or four steps reach the hazards listed.
