--------------------------- MODULE MCDeviceSession ---------------------------
(* Values for checking DeviceSession with TLC. *)
EXTENDS DeviceSession, TLC

CONSTANTS u1, u2, d1, d2, r1, r2

TwoUsers == {u1, u2}
OneDevice == {d1}
TwoDevices == {d1, d2}
OneRequest == {r1}
TwoRequests == {r1, r2}

Symmetry == Permutations(Users) \cup Permutations(Devices) \cup Permutations(Requests)
=============================================================================
