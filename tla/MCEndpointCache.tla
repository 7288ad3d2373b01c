---------------------------- MODULE MCEndpointCache ---------------------------
(* Values for checking EndpointCache with TLC. *)
EXTENDS EndpointCache, TLC

CONSTANTS c1, c2

TwoClients == {c1, c2}

(* One slow client and one that time does not wait for. *)
SlowAndQuick == (c1 :> 1) @@ (c2 :> 0)

TwoExchanges == {"ALL", "HOSE"}
TwoIndustries == {"Ngan hang", "Bat dong san"}
TwoNumbers == {0, 1}
FourStocks == {"VCB", "SSI", "VIC", "XYZ"}

(* What an endpoint shares with others: its redis keys, but for those of the trading
   dates, which nearly all have in common, and the temporary table. *)
Shared(e) ==
  {key \in KeysOf(e[3]) : key[1] # "SessionDate"}
    \cup IF Positions(e[3], "create") # {} THEN {<<"##TOP_TABLE">>} ELSE {}

Uses == UNION {{<<key, e>> : key \in Shared(e)} : e \in Catalogue}
Pairs == {<<u[2], v[2]>> : <<u, v>> \in {w \in Uses \X Uses : w[1][1] = w[2][1]}}
(* Those that get the dates of a table from MarketService and from another service. *)
DatePairs ==
  {p \in MarketEndpoints \X Boards :
     \E key \in KeysOf(p[1][3]) \cap KeysOf(p[2][3]) : key[1] = "SessionDate"}
Alone == {e \in Catalogue : Shared(e) = {} \/ e[1] = "canslimPrefilter"}

(* Two clients that share something, or one when there is nothing to share.  Of all
   the pairs of the same handlers with the same steps, the same or different queries
   and the same kinds of keys in common, one is taken: the parameters matter to
   nothing but the keys and the questions.  The longest handler, which calls three
   others, is the slow client's only when it is alone. *)
Longest == "canslimPrefilter"
Shape(e) == <<e[1], [i \in DOMAIN e[3] |-> e[3][i].op]>>
Likeness(p) == <<Shape(p[1]), Shape(p[2]), p[1] = p[2],
                 {key[1] : key \in Shared(p[1]) \cap Shared(p[2])}>>
OneOfEach(labelled) ==
  {(CHOOSE x \in labelled : x[1] = label)[2] : label \in {x[1] : x \in labelled}}

Workloads ==
  LET pairs == {<<Likeness(p), p>> : p \in {p \in Pairs \cup DatePairs : p[1][1] # Longest}}
      alone == {<<Shape(e), e>> : e \in Alone}
  IN     {(c1 :> p[1]) @@ (c2 :> p[2]) : p \in OneOfEach(pairs)}
    \cup {(c1 :> e) @@ (c2 :> Nothing) : e \in OneOfEach(alone)}

MCInit == asks \in Workloads /\ Init
MCSpec == MCInit /\ [][Next]_vars
===============================================================================
