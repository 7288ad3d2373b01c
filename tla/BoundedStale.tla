----------------------------- MODULE BoundedStale -----------------------------
(***************************************************************************)
(* What a cached market-data endpoint promises its callers: the answer was *)
(* computed from table rows read not long ago, for trading dates that were *)
(* looked up not long ago either.  How long is a matter of the endpoint.   *)
(* SessionCache implements this specification.                             *)
(***************************************************************************)
EXTENDS Naturals

CONSTANTS Endpoints,
          DataLimit, DatesLimit   \* [Endpoints -> Nat]: the oldest allowed

VARIABLES clock,
          served    \* served[e]: what the latest answer of e was made of

vars == <<clock, served>>

Nothing == [when |-> 0]

Init == clock = 0 /\ served = [e \in Endpoints |-> Nothing]

Serve(e) ==
  /\ \E at, datesAt \in 0 .. clock, whole \in BOOLEAN :
       /\ clock <= at + DataLimit[e]
       /\ clock <= datesAt + DatesLimit[e]
       /\ served' = [served EXCEPT ![e] = [when |-> clock, at |-> at,
                                           datesAt |-> datesAt, whole |-> whole]]
  /\ UNCHANGED clock

Pass ==
  /\ clock' = clock + 1
  /\ UNCHANGED served

Next == Pass \/ \E e \in Endpoints : Serve(e)

Spec == Init /\ [][Next]_vars
=============================================================================
