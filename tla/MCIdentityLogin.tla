-------------------------- MODULE MCIdentityLogin --------------------------
(* Small instances of IdentityLogin for TLC. *)
EXTENDS IdentityLogin, TLC

CONSTANTS p1, p2, c0, b

LoginType == [j \in Job |-> "IDENTITY_PREPARATION"]
Once      == [j \in Job |-> 1]

Both   == {{c0, b}}
Either == {{c0}, {b}}

RefSymmetry   == Permutations(Ref)
LoginSymmetry == Permutations(Job) \cup Permutations(Ref)
=============================================================================
