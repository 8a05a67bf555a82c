--------------------------- MODULE MCBudgetLedger ---------------------------
(* Small households for TLC; each .cfg chooses one of them. *)
EXTENDS BudgetLedger, TLC

CONSTANTS ann, home, main, save, card, gold, common, rub, usd, food

\* one person with a card
CardAccounts == {main, card}
CardKind  == (main :> "cash") @@ (card :> "credit_card")
CardOwner == (main :> ann) @@ (card :> ann)
SoloRegularOwner == (food :> ann)

\* the same person with two cards, which are alike
TwoCardAccounts == {main, card, gold}
TwoCardKind  == CardKind @@ (gold :> "credit_card")
TwoCardOwner == CardOwner @@ (gold :> ann)
Cards == Permutations({card, gold})

\* a person with a cash and an investment account, in a family with one of its own
FamilyAccounts == {main, save, common}
FamilyKind  == (main :> "cash") @@ (save :> "investment") @@ (common :> "cash")
FamilyAccountOwner == (main :> ann) @@ (save :> ann) @@ (common :> home)
FamilyRegularOwner == (food :> home)

AnnBase    == (ann :> rub)
FamilyBase == (ann :> rub) @@ (home :> rub)

\* a group that sends half of what it gets back to Unallocated
AnnPlans == {<<[category |-> <<ann, "Unallocated">>, share |-> 50],
               [category |-> food, share |-> 50]>>}
NoPlans == {}
=============================================================================
