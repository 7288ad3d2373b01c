----------------------------- MODULE ServicesProofs -----------------------------
(* Proofs about the services that share nothing with the others: the ratings and the
   saved filters, and that what is checked of each part of MCServices holds of the
   whole, by what is proved of the part alone. *)
EXTENDS MCServices, TLAPS

-----------------------------------------------------------------------------
(* Ratings, for all integers. *)

(* The figures are integers, and the first has not become less. *)
FigureTypes == was \in Int /\ is \in Int /\ other \in Int /\ further \in Int /\ was <= is

(* Nothing changes after the start: what holds of all figures holds always. *)
LEMMA FiguresKept == RatingsSpec => []FigureTypes
<1>1. RatingsInit => FigureTypes
  BY ValuesAssumption DEF RatingsInit, FigureTypes
<1>2. FigureTypes /\ [RatingsNext]_ratingVars => FigureTypes'
  BY DEF FigureTypes, RatingsNext, ratingVars
<1> QED
  BY <1>1, <1>2, PTL DEF RatingsSpec

(* The tables. *)

(* The tables of the growth, the interest and the share of an industry. *)
LEMMA IndustryTables ==
  ASSUME NEW v \in Int, NEW w \in Int, v <= w
  PROVE  /\ IndustryGrowth(v) <= IndustryGrowth(w)
         /\ IndustryInterest(v) <= IndustryInterest(w)
         /\ IndustryShare(v) <= IndustryShare(w)
<1>1. IndustryGrowth(v) <= IndustryGrowth(w)
  BY SMT DEF IndustryGrowth
<1>2. IndustryInterest(v) <= IndustryInterest(w)
  BY SMT DEF IndustryInterest
<1>3. IndustryShare(v) <= IndustryShare(w)
  BY SMT DEF IndustryShare
<1> QED
  BY <1>1, <1>2, <1>3

(* The tables of a stock: growth of the price and dividends. *)
LEMMA BenefitTables ==
  ASSUME NEW v \in Int, NEW w \in Int, v <= w
  PROVE  /\ PriceGrowth(v) <= PriceGrowth(w)
         /\ Dividend(v) <= Dividend(w)
<1>1. PriceGrowth(v) <= PriceGrowth(w)
  BY SMT DEF PriceGrowth
<1>2. Dividend(v) <= Dividend(w)
  BY SMT DEF Dividend
<1> QED
  BY <1>1, <1>2

(* The tables of the position of a business; their stars are integers. *)
LEMMA PositionTables ==
  ASSUME NEW v \in Int, NEW w \in Int, v <= w
  PROVE  /\ Size(v) <= Size(w)
         /\ Interest(v) <= Interest(w)
         /\ ForeignHeld(v) <= ForeignHeld(w)
         /\ EquityGrowth(v) <= EquityGrowth(w)
<1>1. Size(v) <= Size(w)
  BY SMT DEF Size
<1>2. Interest(v) <= Interest(w)
  BY SMT DEF Interest
<1>3. ForeignHeld(v) <= ForeignHeld(w)
  BY SMT DEF ForeignHeld
<1>4. EquityGrowth(v) <= EquityGrowth(w)
  BY SMT DEF EquityGrowth
<1> QED
  BY <1>1, <1>2, <1>3, <1>4

(* Valuations, but for exactly 20, and technical points, as far as the bands go. *)
LEMMA ValuationTable ==
  ASSUME NEW v \in Int, NEW w \in Int, v <= w, v # 4, w # 4
  PROVE  checkStarValuationRating(v) <= checkStarValuationRating(w)
BY SMT DEF checkStarValuationRating

LEMMA PointTables ==
  ASSUME NEW v \in Int, NEW w \in Int, v <= w
  PROVE  /\ w <= 8 => TechniqueStars(v) <= TechniqueStars(w)
         /\ w <= 12 => TrendStars(v) <= TrendStars(w)
<1>1. ASSUME w <= 8 PROVE TechniqueStars(v) <= TechniqueStars(w)
  BY <1>1, SMT DEF TechniqueStars
<1>2. ASSUME w <= 12 PROVE TrendStars(v) <= TrendStars(w)
  BY <1>2, SMT DEF TrendStars
<1> QED
  BY <1>1, <1>2

(* Whatever a figure is, growing does not cost it stars: the bands of each table are in
   order and leave no gap, for all integers. *)
THEOREM AlwaysStarsGrow == RatingsSpec => []StarsGrow
<1>1. FigureTypes => StarsGrow
  <2> SUFFICES ASSUME FigureTypes, was < is
               PROVE  StarsGrow
    BY DEF StarsGrow
  <2>1. was \in Int /\ is \in Int /\ was <= is
    BY DEF FigureTypes
  <2>2. /\ IndustryGrowth(was) <= IndustryGrowth(is)
        /\ IndustryInterest(was) <= IndustryInterest(is)
        /\ IndustryShare(was) <= IndustryShare(is)
    BY <2>1, IndustryTables
  <2>3. /\ PriceGrowth(was) <= PriceGrowth(is)
        /\ Dividend(was) <= Dividend(is)
    BY <2>1, BenefitTables
  <2>4. /\ Size(was) <= Size(is)
        /\ Interest(was) <= Interest(is)
        /\ ForeignHeld(was) <= ForeignHeld(is)
        /\ EquityGrowth(was) <= EquityGrowth(is)
    BY <2>1, PositionTables
  <2>5. 4 \notin {was, is} => checkStarValuationRating(was) <= checkStarValuationRating(is)
    BY <2>1, ValuationTable
  <2>6. /\ is <= 8 => TechniqueStars(was) <= TechniqueStars(is)
        /\ is <= 12 => TrendStars(was) <= TrendStars(is)
    BY <2>1, PointTables
  <2> QED
    BY <2>2, <2>3, <2>4, <2>5, <2>6 DEF StarsGrow
<1> QED
  BY <1>1, FiguresKept, PTL

(* However long the list is, the better of two places is rated as high at least. *)
THEOREM AlwaysRankStarsGrow == RatingsSpec => []RankStarsGrow
<1>1. FigureTypes => RankStarsGrow
  <2> SUFFICES ASSUME FigureTypes, 0 <= was, is < other
               PROVE  /\ checkStarBusinessRating(is, other) <= checkStarBusinessRating(was, other)
                      /\ checkStarBusinessRating(-1, other) <= checkStarBusinessRating(is, other)
                      /\ checkStatusCoDongLon(is, other) <= checkStatusCoDongLon(was, other)
                      /\ checkStatusCoDongLon(-1, other) <= checkStatusCoDongLon(is, other)
    BY DEF RankStarsGrow
  <2>1. /\ was \in Int /\ is \in Int /\ other \in Int
        /\ 0 <= was /\ was <= is /\ is < other
    BY DEF FigureTypes
  <2>2. checkStarBusinessRating(is, other) <= checkStarBusinessRating(was, other)
    BY <2>1, SMT DEF checkStarBusinessRating
  <2>3. checkStarBusinessRating(-1, other) <= checkStarBusinessRating(is, other)
    BY <2>1, SMT DEF checkStarBusinessRating
  <2>4. checkStatusCoDongLon(is, other) <= checkStatusCoDongLon(was, other)
    BY <2>1, SMT DEF checkStatusCoDongLon
  <2>5. checkStatusCoDongLon(-1, other) <= checkStatusCoDongLon(is, other)
    BY <2>1, SMT DEF checkStatusCoDongLon
  <2> QED
    BY <2>2, <2>3, <2>4, <2>5
<1> QED
  BY <1>1, FiguresKept, PTL

(* Passing a figure it is compared with costs a figure no stars: for all distinct figures
   of a stock, of an industry or of a bank, and for those of the market whatever the
   figure of the industry is that its second condition takes instead of its own, unless
   the previous quarter is below the last four and not below that figure. *)
THEOREM AlwaysComparedStarsGrow == RatingsSpec => []ComparedStarsGrow
<1>1. FigureTypes => ComparedStarsGrow
  <2> SUFFICES ASSUME FigureTypes, was < is, Distinct(was), Distinct(is)
               PROVE  /\ Compared(was, other, further) <= Compared(is, other, further)
                      /\ \A q \in {other, other + 1} : other > further \/ q > other =>
                           MarketCompared(was, other, further, q)
                             <= MarketCompared(is, other, further, q)
                      /\ CostCompared(is, other, further) <= CostCompared(was, other, further)
                      /\ ComparedCK(was, other, further) <= ComparedCK(is, other, further)
    BY DEF ComparedStarsGrow
  <2>1. /\ was \in Int /\ is \in Int /\ other \in Int /\ further \in Int
        /\ was < is
        /\ was # other /\ was # further /\ is # other /\ is # further /\ other # further
    BY DEF FigureTypes, Distinct
  <2>2. Compared(was, other, further) <= Compared(is, other, further)
    BY <2>1, SMT DEF Compared
  <2>3. ASSUME NEW q \in Int, other > further \/ q > other
        PROVE  MarketCompared(was, other, further, q) <= MarketCompared(is, other, further, q)
    BY <2>1, <2>3, SMT DEF MarketCompared
  <2>4. CostCompared(is, other, further) <= CostCompared(was, other, further)
    BY <2>1, SMT DEF CostCompared
  <2>5. ComparedCK(was, other, further) <= ComparedCK(is, other, further)
    BY <2>1, SMT DEF ComparedCK, Chained
  <2>6. other \in Int /\ other + 1 \in Int
    BY <2>1
  <2> QED
    BY <2>2, <2>3, <2>4, <2>5, <2>6
<1> QED
  BY <1>1, FiguresKept, PTL

(* Totals. *)

(* The bands of the totals are in order and leave no gap between integers. *)
LEMMA CommonGrows ==
  ASSUME NEW s \in Int, NEW t \in Int, s <= t, NEW q \in {2, 3, 4}
  PROVE  /\ checkStarCommon(s, q) \in Int
         /\ checkStarCommon(s, q) <= checkStarCommon(t, q)
<1>1. CASE q = 4
  BY <1>1, SMT DEF checkStarCommon
<1>2. CASE q = 3
  BY <1>2, SMT DEF checkStarCommon
<1>3. CASE q = 2
  BY <1>3, SMT DEF checkStarCommon
<1> QED
  BY <1>1, <1>2, <1>3

(* Stars are integers. *)
LEMMA StarsAreIntegers ==
  ASSUME NEW v \in Int
  PROVE  /\ Size(v) \in Int /\ Interest(v) \in Int
         /\ ForeignHeld(v) \in Int /\ EquityGrowth(v) \in Int
         /\ checkStarValuationRating(v) \in Int
         /\ TechniqueStars(v) \in Int /\ TrendStars(v) \in Int
<1>1. Size(v) \in Int /\ Interest(v) \in Int
  BY SMT DEF Size, Interest
<1>2. ForeignHeld(v) \in Int /\ EquityGrowth(v) \in Int
  BY SMT DEF ForeignHeld, EquityGrowth
<1>3. checkStarValuationRating(v) \in Int
  BY SMT DEF checkStarValuationRating, Undefined
<1>4. TechniqueStars(v) \in Int /\ TrendStars(v) \in Int
  BY SMT DEF TechniqueStars, TrendStars
<1> QED
  BY <1>1, <1>2, <1>3, <1>4

(* A total that is a band of a part and of other stars grows with the part. *)
LEMMA TotalGrows ==
  ASSUME NEW s \in Int, NEW t \in Int, s <= t, NEW q \in {2, 3, 4}, NEW rest \in Int
  PROVE  /\ checkStarCommon(s + rest, q) \in Int
         /\ checkStarCommon(s + rest, q) <= checkStarCommon(t + rest, q)
<1>1. s + rest \in Int /\ t + rest \in Int /\ s + rest <= t + rest
  BY SMT
<1> QED
  BY <1>1, CommonGrows

(* The total of the valuations: of Graham's first, and of the price to earnings. *)
LEMMA ValuationGrows ==
  ASSUME NEW v \in Int, NEW w \in Int, v <= w, v # 4, w # 4,
         NEW a \in Int, NEW b \in Int
  PROVE  /\ ValuationTotal(v, a, b, a, b) <= ValuationTotal(w, a, b, a, b)
         /\ ValuationTotal(a, a, b, v, b) <= ValuationTotal(a, a, b, w, b)
<1> DEFINE S(x) == checkStarValuationRating(x)
           G(x) == checkStarCommon(S(x) + S(a) + S(b), 3)
           H == checkStarCommon(S(a) + S(a) + S(b), 3)
<1>1. S(v) \in Int /\ S(w) \in Int /\ S(a) \in Int /\ S(b) \in Int /\ S(v) <= S(w)
  BY StarsAreIntegers, ValuationTable
<1>2. H \in Int
  <2>1. S(a) + S(a) + S(b) \in Int
    BY <1>1, SMT
  <2> QED
    BY <2>1, CommonGrows
<1> HIDE DEF S
<1>3. G(v) \in Int /\ G(w) \in Int /\ G(v) <= G(w)
  <2>1. /\ S(v) + S(a) + S(b) \in Int /\ S(w) + S(a) + S(b) \in Int
        /\ S(v) + S(a) + S(b) <= S(w) + S(a) + S(b)
    BY <1>1, SMT
  <2> QED
    BY <2>1, CommonGrows
<1> HIDE DEF G, H
<1>4. checkStarCommon(G(v) + S(a) + S(b), 3) <= checkStarCommon(G(w) + S(a) + S(b), 3)
  <2>1. /\ G(v) + S(a) + S(b) \in Int /\ G(w) + S(a) + S(b) \in Int
        /\ G(v) + S(a) + S(b) <= G(w) + S(a) + S(b)
    BY <1>1, <1>3, SMT
  <2> QED
    BY <2>1, CommonGrows
<1>5. checkStarCommon(H + S(v) + S(b), 3) <= checkStarCommon(H + S(w) + S(b), 3)
  <2>1. /\ H + S(v) + S(b) \in Int /\ H + S(w) + S(b) \in Int
        /\ H + S(v) + S(b) <= H + S(w) + S(b)
    BY <1>1, <1>2, SMT
  <2> QED
    BY <2>1, CommonGrows
<1> QED
  BY <1>4, <1>5 DEF ValuationTotal, S, G, H

(* The technical total: of the indicators and of the trend. *)
LEMMA TechniqueGrows ==
  ASSUME NEW v \in Int, NEW w \in Int, v <= w, NEW a \in Int
  PROVE  /\ w <= 8 => TechniqueTotal(v, a) <= TechniqueTotal(w, a)
         /\ w <= 12 => TechniqueTotal(a, v) <= TechniqueTotal(a, w)
<1>1. ASSUME w <= 8 PROVE TechniqueTotal(v, a) <= TechniqueTotal(w, a)
  BY <1>1, PointTables, StarsAreIntegers, TotalGrows DEF TechniqueTotal
<1>2. ASSUME w <= 12 PROVE TechniqueTotal(a, v) <= TechniqueTotal(a, w)
  <2>1. /\ TechniqueStars(a) \in Int /\ TrendStars(v) \in Int /\ TrendStars(w) \in Int
        /\ TrendStars(v) <= TrendStars(w)
    BY <1>2, PointTables, StarsAreIntegers
  <2>2. /\ TechniqueStars(a) + TrendStars(v) \in Int
        /\ TechniqueStars(a) + TrendStars(w) \in Int
        /\ TechniqueStars(a) + TrendStars(v) <= TechniqueStars(a) + TrendStars(w)
    BY <2>1, SMT
  <2> QED
    BY <2>2, CommonGrows DEF TechniqueTotal
<1> QED
  BY <1>1, <1>2

(* The position of a business: three parts, of which one grows and two stay. *)
LEMMA ThreePartsGrow ==
  ASSUME NEW p \in Int, NEW r \in Int, p <= r, NEW x \in Int, NEW y \in Int
  PROVE  /\ checkStarCommon(p + x + y, 3) <= checkStarCommon(r + x + y, 3)
         /\ checkStarCommon(x + p + y, 3) <= checkStarCommon(x + r + y, 3)
         /\ checkStarCommon(x + y + p, 3) <= checkStarCommon(x + y + r, 3)
<1>1. /\ p + x + y \in Int /\ r + x + y \in Int /\ p + x + y <= r + x + y
      /\ x + p + y \in Int /\ x + r + y \in Int /\ x + p + y <= x + r + y
      /\ x + y + p \in Int /\ x + y + r \in Int /\ x + y + p <= x + y + r
  BY SMT
<1> QED
  BY <1>1, CommonGrows

LEMMA PositionGrows ==
  ASSUME NEW v \in Int, NEW w \in Int, v <= w, NEW a \in Int, NEW b \in Int
  PROVE  /\ PositionTotal(v, a, b, a, a, b, a, b, a, b)
              <= PositionTotal(w, a, b, a, a, b, a, b, a, b)
         /\ PositionTotal(a, a, b, a, v, b, a, b, a, b)
              <= PositionTotal(a, a, b, a, w, b, a, b, a, b)
         /\ PositionTotal(a, a, b, a, a, b, a, b, v, b)
              <= PositionTotal(a, a, b, a, a, b, a, b, w, b)
<1> DEFINE P(x) == checkStarCommon(Size(x) + Size(a) + Size(b) + Size(a), 4)
           Q(x) == checkStarCommon(Interest(x) + Interest(b) + Interest(a) + Interest(b), 4)
           R(x) == checkStarCommon(ForeignHeld(x) + EquityGrowth(b), 2)
<1>1. \A x, y \in Int : x <= y => P(x) \in Int /\ P(x) <= P(y)
  <2> SUFFICES ASSUME NEW x \in Int, NEW y \in Int, x <= y
               PROVE  P(x) \in Int /\ P(x) <= P(y)
    OBVIOUS
  <2>1. /\ Size(x) \in Int /\ Size(y) \in Int /\ Size(a) \in Int /\ Size(b) \in Int
        /\ Size(x) <= Size(y)
    BY StarsAreIntegers, PositionTables
  <2>2. /\ Size(x) + Size(a) + Size(b) + Size(a) \in Int
        /\ Size(y) + Size(a) + Size(b) + Size(a) \in Int
        /\ Size(x) + Size(a) + Size(b) + Size(a) <= Size(y) + Size(a) + Size(b) + Size(a)
    BY <2>1, SMT
  <2> QED
    BY <2>2, CommonGrows
<1>2. \A x, y \in Int : x <= y => Q(x) \in Int /\ Q(x) <= Q(y)
  <2> SUFFICES ASSUME NEW x \in Int, NEW y \in Int, x <= y
               PROVE  Q(x) \in Int /\ Q(x) <= Q(y)
    OBVIOUS
  <2>1. /\ Interest(x) \in Int /\ Interest(y) \in Int
        /\ Interest(a) \in Int /\ Interest(b) \in Int
        /\ Interest(x) <= Interest(y)
    BY StarsAreIntegers, PositionTables
  <2>2. /\ Interest(x) + Interest(b) + Interest(a) + Interest(b) \in Int
        /\ Interest(y) + Interest(b) + Interest(a) + Interest(b) \in Int
        /\ Interest(x) + Interest(b) + Interest(a) + Interest(b)
             <= Interest(y) + Interest(b) + Interest(a) + Interest(b)
    BY <2>1, SMT
  <2> QED
    BY <2>2, CommonGrows
<1>3. \A x, y \in Int : x <= y => R(x) \in Int /\ R(x) <= R(y)
  <2> SUFFICES ASSUME NEW x \in Int, NEW y \in Int, x <= y
               PROVE  R(x) \in Int /\ R(x) <= R(y)
    OBVIOUS
  <2>1. /\ ForeignHeld(x) \in Int /\ ForeignHeld(y) \in Int /\ EquityGrowth(b) \in Int
        /\ ForeignHeld(x) <= ForeignHeld(y)
    BY StarsAreIntegers, PositionTables
  <2> QED
    BY <2>1, TotalGrows
<1> HIDE DEF P, Q, R
<1>4. /\ P(v) \in Int /\ P(w) \in Int /\ P(a) \in Int /\ P(v) <= P(w)
      /\ Q(v) \in Int /\ Q(w) \in Int /\ Q(a) \in Int /\ Q(v) <= Q(w)
      /\ R(v) \in Int /\ R(w) \in Int /\ R(a) \in Int /\ R(v) <= R(w)
  BY <1>1, <1>2, <1>3
<1>5. /\ checkStarCommon(P(v) + Q(a) + R(a), 3) <= checkStarCommon(P(w) + Q(a) + R(a), 3)
      /\ checkStarCommon(P(a) + Q(v) + R(a), 3) <= checkStarCommon(P(a) + Q(w) + R(a), 3)
      /\ checkStarCommon(P(a) + Q(a) + R(v), 3) <= checkStarCommon(P(a) + Q(a) + R(w), 3)
  BY <1>4, ThreePartsGrow
<1> QED
  BY <1>5 DEF PositionTotal, P, Q, R

(* A better figure never makes the total of a rating worse, for all figures there may
   be. *)
THEOREM AlwaysTotalsGrow == RatingsSpec => []TotalsGrow
<1>1. FigureTypes => TotalsGrow
  <2> SUFFICES ASSUME FigureTypes, was < is
               PROVE  TotalsGrow
    BY DEF TotalsGrow
  <2>1. was \in Int /\ is \in Int /\ other \in Int /\ further \in Int /\ was <= is
    BY DEF FigureTypes
  <2>2. 4 \notin {was, is, other, further} =>
          /\ ValuationTotal(was, other, further, other, further)
               <= ValuationTotal(is, other, further, other, further)
          /\ ValuationTotal(other, other, further, was, further)
               <= ValuationTotal(other, other, further, is, further)
    BY <2>1, ValuationGrows
  <2>3. /\ is <= 8 => TechniqueTotal(was, other) <= TechniqueTotal(is, other)
        /\ is <= 12 => TechniqueTotal(other, was) <= TechniqueTotal(other, is)
    BY <2>1, TechniqueGrows
  <2>4. /\ PositionTotal(was, other, further, other, other, further, other, further, other, further)
              <= PositionTotal(is, other, further, other, other, further, other, further, other, further)
        /\ PositionTotal(other, other, further, other, was, further, other, further, other, further)
              <= PositionTotal(other, other, further, other, is, further, other, further, other, further)
        /\ PositionTotal(other, other, further, other, other, further, other, further, was, further)
              <= PositionTotal(other, other, further, other, other, further, other, further, is, further)
    BY <2>1, PositionGrows
  <2> QED
    BY <2>2, <2>3, <2>4 DEF TotalsGrow
<1> QED
  BY <1>1, FiguresKept, PTL

-----------------------------------------------------------------------------
(* SavedFilters, for every set of users, any number of calls and any number of
   filters. *)

(* Rows and calls have their types. *)
Rows == [owner : Owners \cup {"nobody"}, by : Owners \cup {"nobody"}]
OpenCalls == [op : {"update", "delete"}, id : FilterIds, user : Owners]
Types ==
  /\ filters \in [FilterIds -> Rows]
  /\ saved \in 0..MaxFilters
  /\ calls \in [Calls -> OpenCalls \cup {NoCall}]

(* A row was written by its owner, and there is none that was not saved yet. *)
RowOk(id) ==
  filters[id] # NoRow =>
    filters[id].owner \in Owners /\ filters[id].by = filters[id].owner /\ id <= saved

(* What a call has found it owns, as long as it is there. *)
CallOk(c) ==
  calls[c] # NoCall =>
    LET id == calls[c].id
    IN id <= saved /\ (filters[id] # NoRow => filters[id].owner = calls[c].user)

IInv ==
  /\ Types
  /\ \A id \in FilterIds : RowOk(id)
  /\ \A c \in Calls : CallOk(c)

LEMMA StartsWell == FiltersInit => IInv
BY FiltersAssumption DEF FiltersInit, IInv, Types, RowOk, CallOk, Rows, NoRow, NoCall, FilterIds

(* Saving takes an id that no call in flight can have. *)
LEMMA SaveKeeps ==
  ASSUME IInv, NEW user \in Owners, saveFilter(user)
  PROVE  IInv'
<1> DEFINE new == [owner |-> user, by |-> user]
<1>1. /\ saved < MaxFilters /\ saved' = saved + 1 /\ calls' = calls
      /\ filters' = [filters EXCEPT ![saved + 1] = new]
  BY DEF saveFilter, Row
<1>2. saved \in Nat /\ MaxFilters \in Nat /\ saved + 1 \in FilterIds /\ saved' \in 0..MaxFilters
  BY <1>1, FiltersAssumption DEF IInv, Types, FilterIds
<1>3. new \in Rows /\ new.owner = user /\ new.by = user
  BY DEF Rows
<1>4. Types'
  BY <1>1, <1>2, <1>3 DEF IInv, Types
<1>5. ASSUME NEW id \in FilterIds PROVE RowOk(id)'
  <2>1. CASE id = saved + 1
    BY <1>1, <1>2, <1>3, <2>1 DEF RowOk, IInv, Types
  <2>2. CASE id # saved + 1
    <3>1. filters'[id] = filters[id] /\ (id <= saved => id <= saved')
      BY <1>1, <1>2, <2>2 DEF IInv, Types, FilterIds
    <3> QED
      BY <3>1 DEF RowOk, IInv
  <2> QED
    BY <2>1, <2>2
<1>6. ASSUME NEW c \in Calls PROVE CallOk(c)'
  <2> SUFFICES ASSUME calls[c] # NoCall
               PROVE  /\ calls[c].id <= saved'
                      /\ filters'[calls[c].id] # NoRow =>
                           filters'[calls[c].id].owner = calls[c].user
    BY <1>1 DEF CallOk
  <2>1. calls[c].id \in FilterIds
    BY DEF IInv, Types, OpenCalls
  <2>2. calls[c].id <= saved
    BY DEF IInv, CallOk
  <2>3. calls[c].id # saved + 1 /\ calls[c].id <= saved'
    BY <1>1, <1>2, <2>1, <2>2 DEF FilterIds
  <2>4. filters'[calls[c].id] = filters[calls[c].id]
    BY <1>1, <2>1, <2>3 DEF IInv, Types
  <2> QED
    BY <2>3, <2>4 DEF IInv, CallOk
<1> QED
  BY <1>4, <1>5, <1>6 DEF IInv

(* What is looked up is there, and the caller's. *)
LEMMA LookUpKeeps ==
  ASSUME IInv, NEW c \in Calls, NEW op \in {"update", "delete"}, NEW id \in FilterIds,
         NEW user \in Owners, LookUp(c, op, id, user)
  PROVE  IInv'
<1> DEFINE call == [op |-> op, id |-> id, user |-> user]
<1>1. /\ calls' = [calls EXCEPT ![c] = call] /\ filters' = filters /\ saved' = saved
      /\ filters[id] # NoRow /\ filters[id].owner = user
  BY DEF LookUp, OwnFilter
<1>2. call \in OpenCalls /\ call.id = id /\ call.user = user
  BY DEF OpenCalls
<1>3. Types'
  BY <1>1, <1>2 DEF IInv, Types
<1>4. ASSUME NEW i \in FilterIds PROVE RowOk(i)'
  BY <1>1 DEF IInv, RowOk
<1>5. ASSUME NEW d \in Calls PROVE CallOk(d)'
  <2>1. CASE d = c
    <3>1. calls'[d] = call
      BY <1>1, <2>1 DEF IInv, Types
    <3>2. id <= saved
      BY <1>1 DEF IInv, RowOk
    <3> QED
      BY <1>1, <1>2, <3>1, <3>2 DEF CallOk
  <2>2. CASE d # c
    <3>1. calls'[d] = calls[d]
      BY <1>1, <2>2 DEF IInv, Types
    <3> QED
      BY <1>1, <3>1 DEF IInv, CallOk
  <2> QED
    BY <2>1, <2>2
<1> QED
  BY <1>3, <1>4, <1>5 DEF IInv

(* A call that returns leaves the others theirs, if it changes at most its own row, and
   that neither to another owner's nor to one of a filter that was not there. *)
LEMMA ReturnKeeps ==
  ASSUME IInv, NEW c \in Calls, calls[c] # NoCall, Return(c), saved' = saved,
         NEW row \in Rows,
         row # NoRow => /\ filters[calls[c].id] # NoRow
                        /\ row.owner = filters[calls[c].id].owner
                        /\ row.by = row.owner,
         filters' = [filters EXCEPT ![calls[c].id] = row]
  PROVE  IInv'
<1> DEFINE mine == calls[c].id
<1>1. calls' = [calls EXCEPT ![c] = NoCall] /\ mine \in FilterIds
  BY DEF Return, IInv, Types, OpenCalls
<1>2. Types'
  BY <1>1 DEF IInv, Types
<1>3. ASSUME NEW id \in FilterIds
      PROVE  /\ filters'[id] = IF id = mine THEN row ELSE filters[id]
             /\ filters'[id] # NoRow =>
                  filters[id] # NoRow /\ filters'[id].owner = filters[id].owner
  BY <1>1 DEF IInv, Types
<1>4. ASSUME NEW id \in FilterIds PROVE RowOk(id)'
  BY <1>3 DEF IInv, RowOk
<1>5. ASSUME NEW d \in Calls PROVE CallOk(d)'
  <2> SUFFICES ASSUME calls'[d] # NoCall PROVE CallOk(d)'
    BY DEF CallOk
  <2>1. d # c /\ calls'[d] = calls[d] /\ calls[d].id \in FilterIds
    BY <1>1 DEF IInv, Types, OpenCalls
  <2> QED
    BY <1>3, <2>1 DEF IInv, CallOk
<1> QED
  BY <1>2, <1>4, <1>5 DEF IInv

(* Updating: the row is the caller's, or it is gone and nothing is written. *)
LEMMA UpdateKeeps ==
  ASSUME IInv, NEW c \in Calls, updateFilter(c)
  PROVE  IInv'
<1> DEFINE id == calls[c].id
           row == IF filters[id] = NoRow THEN NoRow
                  ELSE [owner |-> filters[id].owner, by |-> calls[c].user]
<1>1. calls[c].op = "update" /\ Return(c) /\ saved' = saved
  BY DEF updateFilter
<1>2. calls[c] # NoCall /\ calls[c] \in OpenCalls /\ id \in FilterIds
  BY <1>1 DEF IInv, Types, NoCall, OpenCalls
<1>3. filters' = [filters EXCEPT ![id] = row]
  BY <1>2 DEF updateFilter, Row, IInv, Types
<1>4. filters[id] # NoRow => filters[id].owner = calls[c].user /\ filters[id].owner \in Owners
  BY <1>2 DEF IInv, CallOk, RowOk
<1>5. row \in Rows
  BY <1>4 DEF Rows, NoRow
<1>6. row # NoRow => filters[id] # NoRow /\ row.owner = filters[id].owner /\ row.by = row.owner
  BY <1>4
<1> QED
  BY <1>1, <1>2, <1>3, <1>5, <1>6, ReturnKeeps

(* Deleting: the row is gone. *)
LEMMA DeleteKeeps ==
  ASSUME IInv, NEW c \in Calls, deleteFilter(c)
  PROVE  IInv'
<1>1. /\ calls[c].op = "delete" /\ Return(c) /\ saved' = saved
      /\ filters' = [filters EXCEPT ![calls[c].id] = NoRow]
  BY DEF deleteFilter, Row
<1>2. calls[c] # NoCall /\ NoRow \in Rows
  BY <1>1 DEF NoCall, NoRow, Rows
<1> QED
  BY <1>1, <1>2, ReturnKeeps

(* Failing: nothing is written. *)
LEMMA FailKeeps ==
  ASSUME IInv, NEW c \in Calls, FilterFails(c)
  PROVE  IInv'
<1> DEFINE id == calls[c].id
<1>1. calls[c] # NoCall /\ Return(c) /\ saved' = saved /\ filters' = filters
  BY DEF FilterFails
<1>2. id \in FilterIds /\ filters[id] \in Rows /\ filters' = [filters EXCEPT ![id] = filters[id]]
  BY <1>1 DEF IInv, Types, OpenCalls
<1>3. filters[id] # NoRow => filters[id].by = filters[id].owner
  BY <1>2 DEF IInv, RowOk
<1> QED
  BY <1>1, <1>2, <1>3, ReturnKeeps

LEMMA StepsKeep == IInv /\ [FiltersNext]_filterVars => IInv'
<1> SUFFICES ASSUME IInv, [FiltersNext]_filterVars
             PROVE  IInv'
  OBVIOUS
<1>1. ASSUME NEW user \in Owners, saveFilter(user) PROVE IInv'
  BY <1>1, SaveKeeps
<1>2. ASSUME NEW c \in Calls, NEW op \in {"update", "delete"}, NEW id \in FilterIds,
             NEW user \in Owners, LookUp(c, op, id, user)
      PROVE  IInv'
  BY <1>2, LookUpKeeps
<1>3. ASSUME NEW c \in Calls, updateFilter(c) PROVE IInv'
  BY <1>3, UpdateKeeps
<1>4. ASSUME NEW c \in Calls, deleteFilter(c) PROVE IInv'
  BY <1>4, DeleteKeeps
<1>5. ASSUME NEW c \in Calls, FilterFails(c) PROVE IInv'
  BY <1>5, FailKeeps
<1>6. CASE UNCHANGED filterVars
  BY <1>6 DEF filterVars, IInv, Types, RowOk, CallOk
<1> QED
  BY <1>1, <1>2, <1>3, <1>4, <1>5, <1>6 DEF FiltersNext

LEMMA AlwaysIInv == FiltersSpec => []IInv
BY StartsWell, StepsKeep, PTL DEF FiltersSpec

(* The owner is checked an await before the row is written, by its id alone: still, no
   user ever finds among the own filters what another wrote. *)
THEOREM AlwaysOnlyOwnerWrites == FiltersSpec => []OnlyOwnerWrites
<1>1. IInv => OnlyOwnerWrites
  <2> SUFFICES ASSUME IInv, NEW user \in Owners, NEW id \in getFilterUser(user)
               PROVE  filters[id].by = user
    BY DEF OnlyOwnerWrites
  <2>1. id \in FilterIds /\ filters[id].owner = user
    BY DEF getFilterUser
  <2>2. filters[id] # NoRow
    BY <2>1, FiltersAssumption DEF NoRow
  <2> QED
    BY <2>1, <2>2 DEF IInv, RowOk
<1> QED
  BY <1>1, AlwaysIInv, PTL

(* An update that is under way when its filter is deleted does not bring it back. *)
THEOREM AlwaysDeletedStaysDeleted == FiltersSpec => DeletedStaysDeleted
<1> DEFINE Stays == \A id \in FilterIds :
                      id <= saved /\ filters[id] = NoRow => filters'[id] = NoRow
<1>1. IInv /\ [FiltersNext]_filterVars => [Stays]_filterVars
  <2> SUFFICES ASSUME IInv, FiltersNext, NEW id \in FilterIds, id <= saved, filters[id] = NoRow
               PROVE  filters'[id] = NoRow
    OBVIOUS
  <2>1. ASSUME NEW user \in Owners, saveFilter(user) PROVE filters'[id] = NoRow
    <3>1. id # saved + 1
      BY DEF IInv, Types, FilterIds
    <3> QED
      BY <2>1, <3>1 DEF saveFilter, Row, IInv, Types
  <2>2. ASSUME NEW c \in Calls, updateFilter(c) PROVE filters'[id] = NoRow
    BY <2>2 DEF updateFilter, Row, IInv, Types
  <2>3. ASSUME NEW c \in Calls, deleteFilter(c) PROVE filters'[id] = NoRow
    BY <2>3 DEF deleteFilter, Row, IInv, Types
  <2>4. ASSUME UNCHANGED filters PROVE filters'[id] = NoRow
    BY <2>4
  <2> QED
    BY <2>1, <2>2, <2>3, <2>4 DEF FiltersNext, LookUp, FilterFails
<1> QED
  BY <1>1, AlwaysIInv, PTL DEF FiltersSpec, DeletedStaysDeleted

-----------------------------------------------------------------------------
(* The parts of MCServices are apart: what one of them does leaves the others where they
   are, so that each goes on as if it were alone. *)

\* A behaviour of the whole is one of each of the parts: what holds of a part holds.
THEOREM EachPartAlone ==
  MCSpec => KafkaSpec /\ FiltersSpec /\ ReportSpec /\ RatingsSpec /\ Auth!Spec /\ Dates!Spec
<1>1. MCInit => /\ KafkaInit /\ FiltersInit /\ ReportInit /\ RatingsInit
                /\ Auth!Init /\ Dates!Init
  BY DEF MCInit
<1>2. [MCNext]_vars => [KafkaNext]_kafkaVars
  BY DEF MCNext, vars, kafkaVars
<1>3. [MCNext]_vars => [FiltersNext]_filterVars
  BY DEF MCNext, vars, filterVars
<1>4. [MCNext]_vars => [ReportNext]_reportVars
  BY DEF MCNext, vars, reportVars
<1>5. [MCNext]_vars => [RatingsNext]_ratingVars
  BY DEF MCNext, vars, ratingVars
<1>6. [MCNext]_vars => [Auth!Next]_(Auth!vars)
  BY DEF MCNext, vars, authVars, Auth!vars
<1>7. [MCNext]_vars => [Dates!Next]_(Dates!vars)
  BY DEF MCNext, vars, datesVars, Dates!vars
<1> QED
  BY <1>1, <1>2, <1>3, <1>4, <1>5, <1>6, <1>7, PTL
  DEF MCSpec, KafkaSpec, FiltersSpec, ReportSpec, RatingsSpec, Auth!Spec, Dates!Spec

(* What is proved of Account, for the users, phones, codes and rows of MCServices. *)
AuthFacts == INSTANCE AccountProofs
               WITH req <- authReq, sent <- authSent, Requests <- {"r1"},
                    Users <- {"u1", "u2"}, Phones <- {"p1", "p2"}, Codes <- {"c1"},
                    RowIds <- {"i1", "i2"}, OtpTTL <- 1, CacheTTL <- 1,
                    Faults <- {"sms", "queue", "job", "db"}

(* It is the same system, ... *)
LEMMA SameAuth == Auth!Spec => AuthFacts!Spec
<1>1. Auth!Init => AuthFacts!Init
  BY DEF Auth!Init, Auth!NoAccount, Auth!Miss, Auth!Idle,
         AuthFacts!Init, AuthFacts!NoAccount, AuthFacts!Miss, AuthFacts!Idle
<1>2. Auth!Next => AuthFacts!Next
  BY DEF Auth!Next, Auth!Goto, Auth!CacheUser, Auth!Known, Auth!CodesOf, Auth!Idle,
      Auth!Miss, Auth!NoAccount, Auth!FreshRow, Auth!JobFor, Auth!Less, Auth!Aged,
      Auth!Proceed, Auth!Arrive, Auth!RegisterFind, Auth!ResendFind, Auth!InfoGet,
      Auth!LoginLoad, Auth!VerifyFind, Auth!RegisterSave, Auth!SmsSent, Auth!OtpSave,
      Auth!AddJob, Auth!RegisterCache, Auth!ResendUser, Auth!VerifyDelete,
      Auth!VerifyUpdate, Auth!VerifyCacheGet, Auth!VerifyCacheSet, Auth!InfoDb,
      Auth!InfoSet, Auth!LoginSaveUser, Auth!SmsRejected, Auth!AddJobFails, Auth!Fail,
      Auth!HandleJob, Auth!HandleJobFails, Auth!Tick, AuthFacts!Next, AuthFacts!Goto,
      AuthFacts!CacheUser, AuthFacts!Known, AuthFacts!CodesOf, AuthFacts!Idle,
      AuthFacts!Miss, AuthFacts!NoAccount, AuthFacts!FreshRow, AuthFacts!JobFor,
      AuthFacts!Less, AuthFacts!Aged, AuthFacts!Proceed, AuthFacts!Arrive,
      AuthFacts!RegisterFind, AuthFacts!ResendFind, AuthFacts!InfoGet,
      AuthFacts!LoginLoad, AuthFacts!VerifyFind, AuthFacts!RegisterSave,
      AuthFacts!SmsSent, AuthFacts!OtpSave, AuthFacts!AddJob, AuthFacts!RegisterCache,
      AuthFacts!ResendUser, AuthFacts!VerifyDelete, AuthFacts!VerifyUpdate,
      AuthFacts!VerifyCacheGet, AuthFacts!VerifyCacheSet, AuthFacts!InfoDb,
      AuthFacts!InfoSet, AuthFacts!LoginSaveUser, AuthFacts!SmsRejected,
      AuthFacts!AddJobFails, AuthFacts!Fail, AuthFacts!HandleJob,
      AuthFacts!HandleJobFails, AuthFacts!Tick
<1>3. [Auth!Next]_(Auth!vars) => [AuthFacts!Next]_(AuthFacts!vars)
  BY <1>2 DEF Auth!vars, AuthFacts!vars
<1> QED
  BY <1>1, <1>3, PTL DEF Auth!Spec, AuthFacts!Spec

(* ... and its requests come one at a time. *)
LEMMA AuthSerial == AuthFacts!Serial /\ AuthFacts!AccountAssumption
BY DEF AuthFacts!Serial, AuthFacts!AccountAssumption, AuthFacts!FaultKinds

LEMMA AuthAlone == MCSpec => AuthFacts!Spec
BY EachPartAlone, SameAuth

\* getVerifyOTP looks for a stored code and inserts the new one awaits later: as long as
\* requests do not overlap, no user has two.
THEOREM ServicesOneCode == MCSpec => []OneCodePerUser
<1>1. AuthFacts!Spec => []AuthFacts!OneCodePerUser
  BY AuthSerial, AuthFacts!OneCodeSerially
<1>2. AuthFacts!OneCodePerUser => OneCodePerUser
  BY DEF OneCodePerUser, Auth!OneCodePerUser, AuthFacts!OneCodePerUser
<1> QED
  BY <1>1, <1>2, AuthAlone, PTL

\* register looks the phone up and inserts the user awaits later: as long as requests do
\* not overlap, no phone is registered twice.
THEOREM ServicesPhoneUnique == MCSpec => []PhoneUnique
<1>1. AuthFacts!Spec => []AuthFacts!PhoneUnique
  BY AuthSerial, AuthFacts!PhoneUniqueSerially
<1>2. AuthFacts!PhoneUnique => PhoneUnique
  BY DEF PhoneUnique, Auth!PhoneUnique, Auth!Known, Auth!NoAccount,
         AuthFacts!PhoneUnique, AuthFacts!Known, AuthFacts!NoAccount
<1> QED
  BY <1>1, <1>2, AuthAlone, PTL

\* A login writes back the whole row it loaded: as long as requests do not overlap, that
\* never takes a verification back.
THEOREM ServicesVerifiedStays == MCSpec => VerifiedStays
<1> DEFINE Step(known(_)) ==
      \A u \in {"u1", "u2"} : known(u) /\ account[u].verified => account'[u].verified
<1>1. AuthFacts!Spec => AuthFacts!VerifiedStays
  BY AuthSerial, AuthFacts!VerifiedStaysSerially
<1>2. [Step(AuthFacts!Known)]_(AuthFacts!vars) => [Step(Auth!Known)]_(Auth!vars)
  BY DEF Auth!Known, Auth!NoAccount, AuthFacts!Known, AuthFacts!NoAccount,
         Auth!vars, AuthFacts!vars
<1> QED
  BY <1>1, <1>2, AuthAlone, PTL DEF VerifiedStays, Auth!VerifiedStays, AuthFacts!VerifiedStays

(* What is proved of SessionCache, for two endpoints of StockService. *)
DatesFacts == INSTANCE SessionCacheProofs
                WITH req <- datesReq, Requests <- {"r1", "r2"},
                     Endpoints <- {"upDownTicker", "totalTransactionValue"},
                     FiveMinutes <- 1, HaftHour <- 1, OneDay <- 2, MaxFill <- 1, MaxTime <- 2

LEMMA SameDates == Dates!Spec => DatesFacts!Spec
<1>1. Dates!Init => DatesFacts!Init
  BY DEF Dates!Init, Dates!Absent, Dates!Idle, Dates!Nothing, DatesFacts!Init,
      DatesFacts!Absent, DatesFacts!Idle, DatesFacts!Nothing
<1>2. Dates!Next => DatesFacts!Next
  BY DEF Dates!Next, Dates!Goto, Dates!Due, Dates!Holds, Dates!Answer, Dates!Idle,
      Dates!Absent, Dates!Nothing, Dates!Shape, Dates!StockDates, Dates!MarketDates,
      Dates!Needs, Dates!TTL, Dates!Cached, Dates!AllEndpoints, Dates!Whole,
      Dates!Dates, Dates!AnswerHit, Dates!AnswerMiss, Dates!DatesHit, Dates!DatesMiss,
      Dates!DatesRead, Dates!DatesMore, Dates!DatesSet, Dates!Query, Dates!QueryOnly,
      Dates!AnswerSet, Dates!Fail, Dates!Tick, DatesFacts!Next, DatesFacts!Goto,
      DatesFacts!Due, DatesFacts!Holds, DatesFacts!Answer, DatesFacts!Idle,
      DatesFacts!Absent, DatesFacts!Nothing, DatesFacts!Shape, DatesFacts!StockDates,
      DatesFacts!MarketDates, DatesFacts!Needs, DatesFacts!TTL, DatesFacts!Cached,
      DatesFacts!AllEndpoints, DatesFacts!Whole, DatesFacts!Dates, DatesFacts!AnswerHit,
      DatesFacts!AnswerMiss, DatesFacts!DatesHit, DatesFacts!DatesMiss,
      DatesFacts!DatesRead, DatesFacts!DatesMore, DatesFacts!DatesSet, DatesFacts!Query,
      DatesFacts!QueryOnly, DatesFacts!AnswerSet, DatesFacts!Fail, DatesFacts!Tick
<1>3. [Dates!Next]_(Dates!vars) => [DatesFacts!Next]_(DatesFacts!vars)
  BY <1>2 DEF Dates!vars, DatesFacts!vars
<1> QED
  BY <1>1, <1>3, PTL DEF Dates!Spec, DatesFacts!Spec

(* Both endpoints keep the dates of StockService. *)
LEMMA DatesAgree == DatesFacts!OneShape /\ DatesFacts!SessionCacheAssumption
BY DEF DatesFacts!OneShape, DatesFacts!Shape, DatesFacts!AllEndpoints,
       DatesFacts!SessionCacheAssumption

\* getSessionDate keeps under one key what its service needs: between endpoints of one
\* service no answer lacks a date.
THEOREM ServicesAnswersWhole == MCSpec => []AnswersWhole
<1>1. DatesFacts!Spec => []DatesFacts!AnswersWhole
  BY DatesAgree, DatesFacts!WholeWithOneShape
<1>2. DatesFacts!AnswersWhole => AnswersWhole
  BY DEF AnswersWhole, Dates!AnswersWhole, Dates!Nothing,
         DatesFacts!AnswersWhole, DatesFacts!Nothing
<1> QED
  BY <1>1, <1>2, EachPartAlone, SameDates, PTL
=================================================================================
