------------------------ MODULE MCFamilyDissolution ------------------------
(* A person and the person's family, with one cash account each. *)
EXTENDS FamilyDissolution, TLC

CONSTANTS ann, home, main, common, rub, usd, food

FamilyAccounts == {main, common}
FamilyKind  == (main :> "cash") @@ (common :> "cash")
FamilyAccountOwner == (main :> ann) @@ (common :> home)
FamilyRegularOwner == (food :> home)
FamilyBase == (ann :> rub) @@ (home :> rub)
NoPlans == {}
=============================================================================
