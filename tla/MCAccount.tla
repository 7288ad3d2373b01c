------------------------------ MODULE MCAccount ------------------------------
(* Values for checking Account with TLC. *)
EXTENDS Account, TLC

CONSTANTS u1, u2, p1, p2, c1, c2, i1, i2, r1, r2

OneUser == {u1}
TwoUsers == {u1, u2}
OnePhone == {p1}
OneCode == {c1}
TwoCodes == {c1, c2}
TwoRows == {i1, i2}
TwoRequests == {r1, r2}

Symmetry == Permutations(Users) \cup Permutations(Phones) \cup Permutations(Codes)
       \cup Permutations(RowIds) \cup Permutations(Requests)
=============================================================================
