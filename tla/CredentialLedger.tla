-------------------------- MODULE CredentialLedger --------------------------
(***************************************************************************)
(* What the device sessions of src/auth promise about a credential (the    *)
(* per-session secret an access token is signed with): it is handed out    *)
(* once, is in force for one uninterrupted period, and after that period   *)
(* it is dead for good, however requests overlap, fail or arrive late.     *)
(* DeviceSession implements this specification.                            *)
(***************************************************************************)
CONSTANT Credentials    \* the secrets that can ever be drawn

VARIABLE stage          \* stage[c]: how far the life of credential c has got

Stages == {"unborn", "live", "dead"}

LedgerTypeOK == stage \in [Credentials -> Stages]

Init == stage = [c \in Credentials |-> "unborn"]

(* One commit puts some unborn credentials in force and ends some live ones. *)
Commit(born, ended) ==
  /\ \A c \in born  : stage[c] = "unborn"
  /\ \A c \in ended : stage[c] = "live"
  /\ stage' = [c \in Credentials |-> IF c \in born  THEN "live"
                                     ELSE IF c \in ended THEN "dead"
                                     ELSE stage[c]]

Next == \E born, ended \in SUBSET Credentials : Commit(born, ended)

Spec == Init /\ [][Next]_stage
=============================================================================
