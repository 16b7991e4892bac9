---------------------------- MODULE MCRedeemCodes ----------------------------
EXTENDS RedeemCodes, TLC

CONSTANTS invite, recharge

\* An invite code for two users and a recharge code.
MCKind == (invite :> "invite") @@ (recharge :> "recharge")
MCMaxUses == (invite :> 2) @@ (recharge :> 1)

Symmetry == Permutations(Devices) \cup Permutations(Users) \cup Permutations(Redeemers)
=============================================================================
