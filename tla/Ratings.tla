-------------------------------- MODULE Ratings --------------------------------
(***************************************************************************)
(* How SharesService turns figures into stars: the tables of bounds, the   *)
(* comparisons with the industry and the market, the ranks, and the totals *)
(* of the responses.  Figures are integers in a unit that is at most half  *)
(* of the least bound, given with each table; null and undefined figures   *)
(* are left out.                                                           *)
(*                                                                         *)
(* There is nothing to interleave: a behaviour is one figure before and    *)
(* after it has grown, and what it is compared with.                       *)
(* A definition marked "Mistake" is a wrong version of the next one, used  *)
(* only to see that a property would catch it.                             *)
(***************************************************************************)
EXTENDS Integers

CONSTANTS Values   \* the figures

ASSUME ValuesAssumption == Values \subseteq Int

VARIABLES was, is,         \* a figure, and what it has grown to
          other, further   \* the figures that it is compared with

ratingVars == <<was, is, other, further>>

RatingsInit ==
  /\ was \in Values /\ is \in Values /\ was <= is
  /\ other \in Values /\ further \in Values
RatingsNext == UNCHANGED ratingVars
RatingsSpec == RatingsInit /\ [][RatingsNext]_ratingVars

(* What a function returns that ends without a return: no number. *)
Undefined == -1000

-------------------------------------------------------------------------------
(* checkStarBusinessRatingV2: one table per type, from the greatest bound down. *)

\* type 0, growth of the industry; in halves
IndustryGrowth(v) ==
  CASE v >= 200             -> 5
    [] 100 <= v /\ v < 200  -> 4
    [] 20 <= v /\ v < 100   -> 3
    [] 2 <= v /\ v < 20     -> 2
    [] 0 <= v /\ v < 2      -> 1
    [] OTHER                -> 0
\* type 1, interest of the market in the industry; in 1 / 200000
IndustryInterest(v) ==
  CASE v >= 200             -> 5
    [] 20 <= v /\ v < 200   -> 4
    [] 2 <= v /\ v < 20     -> 3
    [] 0 < v /\ v < 2       -> 2
    [] v <= 0               -> 0
    [] OTHER                -> 1
\* type 2, share of the industry; in 1 / 2000
IndustryShare(v) ==
  CASE v >= 1000            -> 5
    [] 200 <= v /\ v < 1000 -> 4
    [] 20 <= v /\ v < 200   -> 3
    [] 2 <= v /\ v < 20     -> 2
    [] 0 < v /\ v < 2       -> 1
    [] OTHER                -> 0
\* type 3, growth of the price; in 1 / 20
PriceGrowth(v) ==
  CASE v >= 10              -> 5
    [] 2 <= v /\ v < 10     -> 4
    [] v = 0                -> 2
    [] v < 0                -> 1
    [] OTHER                -> 3
\* Mistake: one of the bounds is in no band.
DividendGap(v) ==
  CASE v >= 20              -> 5
    [] 10 < v /\ v < 20     -> 4
    [] 6 <= v /\ v < 10     -> 3
    [] 0 <= v /\ v < 6      -> 2
    [] OTHER                -> 1
\* type 4, dividends; in 1 / 200
Dividend(v) ==
  CASE v >= 20              -> 5
    [] 10 <= v /\ v < 20    -> 4
    [] 6 <= v /\ v < 10     -> 3
    [] 0 <= v /\ v < 6      -> 2
    [] OTHER                -> 1
\* type 5, size; in 5 * 10^9
Size(v) ==
  CASE v >= 2000            -> 5
    [] 200 <= v /\ v < 2000 -> 4
    [] 20 <= v /\ v < 200   -> 3
    [] 2 <= v /\ v < 20     -> 2
    [] v <= 0               -> 0
    [] OTHER                -> 1
\* type 6, interest of the market in the stock; in 1 / 2000
Interest(v) ==
  CASE v >= 2000            -> 5
    [] 200 < v /\ v < 2000  -> 4
    [] 20 < v /\ v <= 200   -> 3
    [] 2 < v /\ v <= 20     -> 2
    [] 0 < v /\ v <= 2      -> 1
    [] OTHER                -> 0
\* type 7, what foreigners hold; in fives
ForeignHeld(v) ==
  CASE v > 20               -> 5
    [] 2 < v /\ v <= 20     -> 4
    [] 0 < v /\ v <= 2      -> 3
    [] v = 0                -> 2
    [] OTHER                -> 1
\* type 8, growth of the equity; in 1 / 20
EquityGrowth(v) ==
  CASE v >= 10              -> 5
    [] 4 <= v /\ v < 10     -> 4
    [] 2 <= v /\ v < 4      -> 3
    [] 0 <= v /\ v < 2      -> 2
    [] OTHER                -> 1

\* in fives; nothing is said of exactly 20
checkStarValuationRating(v) ==
  CASE v > 4                -> 5
    [] v < 4 /\ v >= 2      -> 4
    [] v < 2 /\ v > -2      -> 3
    [] v <= -2 /\ v >= -4   -> 2
    [] v < -4               -> 1
    [] OTHER                -> Undefined

(* checkStarTechniqueRating: one point, and one more or less for each of eight pairs of
   conditions on indicators and of twelve on averages of the price.  What is not in
   the table keeps its initial star: points below 1, and all that can be had. *)
TechniqueStars(points) ==
  CASE points \in {3, 4} -> 2
    [] points = 5        -> 3
    [] points \in {6, 7} -> 4
    [] points = 8        -> 5
    [] OTHER             -> 1
TrendStars(points) ==
  CASE points \in {3, 4}   -> 2
    [] points \in 5..7     -> 3
    [] points \in 8..10    -> 4
    [] points \in {11, 12} -> 5
    [] OTHER               -> 1

-------------------------------------------------------------------------------
(* Ranks: a place, from 0, in a list of n; -1 is not in the list. *)

checkStarBusinessRating(place, n) ==
  CASE place = -1 -> 1
    [] OTHER ->
         CASE 100 * place > 80 * n                          -> 1
           [] 100 * place <= 80 * n /\ 100 * place > 60 * n -> 2
           [] 100 * place <= 60 * n /\ 100 * place > 40 * n -> 3
           [] 100 * place <= 40 * n /\ 100 * place > 20 * n -> 4
           [] OTHER                                         -> 5

\* Mistake: -1 is taken for a place, which counts from 1.
CountedFromOne(place, n) ==
  CASE 10000 * place > 6666 * n                             -> 0
    [] 10000 * place <= 6666 * n /\ 10000 * place > 3333 * n -> 1
    [] OTHER                                                -> 2
(* Passed is 2, normal 1 and failed 0. *)
checkStatusCoDongLon(place, n) ==
  CASE place = -1 -> 0
    [] OTHER ->
         LET per == 10000 * (place + 1)
         IN CASE per > 6666 * n                     -> 0
              [] per <= 6666 * n /\ per > 3333 * n  -> 1
              [] OTHER                              -> 2

-------------------------------------------------------------------------------
(* Comparisons of a figure with two others. *)

\* Mistake: the second and the third are swapped.
ComparedSwapped(v, a, b) ==
  CASE v > a /\ a > b -> 5
    [] v > b /\ b > a -> 2
    [] a > v /\ v > b -> 3
    [] b > v /\ v > a -> 4
    [] OTHER          -> 1
(* checkStarFinancialHealthRating for the stock and the industry, and the figures of a
   bank (checkRatingFinanceHealthNH) that should be high. *)
Compared(v, a, b) ==
  CASE v > a /\ a > b -> 5
    [] v > b /\ b > a -> 4
    [] a > v /\ v > b -> 3
    [] b > v /\ v > a -> 2
    [] OTHER          -> 1
(* For the market, a its previous quarter and b its last four; the second condition
   takes the last four quarters q of the industry instead. *)
MarketCompared(v, a, b, q) ==
  IF v > a /\ a > b THEN 5
  ELSE IF v > b /\ q > a THEN 4
  ELSE IF a > v /\ v > b THEN 3
  ELSE IF b > v /\ v > a THEN 2
  ELSE 1
(* The figures of a bank that should be low; two stars are never given, an industry
   not being below itself. *)
CostCompared(v, industry, company) ==
  CASE v < company /\ company < industry -> 5
    [] v < industry /\ industry < company -> 4
    [] company < v /\ v < industry -> 3
    [] OTHER -> 1

(* checkRatingFinanceHealthCK writes x > y > z, which compares true or false, as 1 or
   0, with z.  Figures are in halves. *)
Chained(x, y, z) == (IF x > y THEN 2 ELSE 0) > z
ComparedCK(v, a, b) ==
  IF Chained(v, a, b) THEN 5
  ELSE IF Chained(v, b, a) THEN 4
  ELSE IF Chained(a, v, b) THEN 3
  ELSE IF Chained(b, v, a) THEN 2
  ELSE 1

-------------------------------------------------------------------------------
(* Totals of stars. *)

\* Mistake: a sum between two bands is in neither.
CommonGap(sum, quantity) ==
  CASE quantity = 4 -> CASE sum >= 18                -> 5
                         [] sum >= 15 /\ sum < 17    -> 4
                         [] sum >= 12 /\ sum < 14    -> 3
                         [] sum >= 8 /\ sum < 11     -> 2
                         [] OTHER                    -> 1
    [] OTHER -> CASE sum >= 14 -> 5 [] sum >= 11 /\ sum < 13 -> 4 [] OTHER -> 1
checkStarCommon(sum, quantity) ==
  CASE quantity = 4 -> CASE sum >= 18                -> 5
                         [] sum >= 15 /\ sum <= 17   -> 4
                         [] sum >= 12 /\ sum <= 14   -> 3
                         [] sum >= 8 /\ sum <= 11    -> 2
                         [] OTHER                    -> 1
    [] quantity = 3 -> CASE sum >= 14                -> 5
                         [] sum >= 11 /\ sum <= 13   -> 4
                         [] sum >= 7 /\ sum <= 10    -> 3
                         [] sum >= 4 /\ sum <= 6     -> 2
                         [] OTHER                    -> 1
    [] quantity = 2 -> CASE sum >= 9                 -> 5
                         [] sum >= 7 /\ sum <= 8     -> 4
                         [] sum >= 5 /\ sum <= 6     -> 3
                         [] sum >= 3 /\ sum <= 4     -> 2
                         [] OTHER                    -> 1

(* genStarValuation and ValuationRatingResponse: three valuations of Graham's are one
   part, the two others a part each. *)
ValuationTotal(g1, g2, g3, pe, pb) ==
  checkStarCommon(
    checkStarCommon(checkStarValuationRating(g1) + checkStarValuationRating(g2)
                      + checkStarValuationRating(g3), 3)
      + checkStarValuationRating(pe) + checkStarValuationRating(pb), 3)

(* TechniqueRatingResponse. *)
TechniqueTotal(technique, trend) ==
  checkStarCommon(TechniqueStars(technique) + TrendStars(trend), 2)

(* BusinessPositionRatingResponse: four sizes, four turnovers, and what attracts
   investors. *)
PositionTotal(s1, s2, s3, s4, t1, t2, t3, t4, held, equity) ==
  checkStarCommon(
    checkStarCommon(Size(s1) + Size(s2) + Size(s3) + Size(s4), 4)
      + checkStarCommon(Interest(t1) + Interest(t2) + Interest(t3) + Interest(t4), 4)
      + checkStarCommon(ForeignHeld(held) + EquityGrowth(equity), 2), 3)

-------------------------------------------------------------------------------
(* Whatever a figure is, it is rated, and if it grows its stars do not become fewer: no
   table leaves a gap between two bands or has them in the wrong order.  But for a
   valuation of exactly 20, which is not rated, and for more points than the last band
   of the technical ratings has. *)
StarsGrow == was < is =>
  /\ IndustryGrowth(was) <= IndustryGrowth(is)
  /\ IndustryInterest(was) <= IndustryInterest(is)
  /\ IndustryShare(was) <= IndustryShare(is)
  /\ PriceGrowth(was) <= PriceGrowth(is)
  /\ Dividend(was) <= Dividend(is)
  /\ Size(was) <= Size(is)
  /\ Interest(was) <= Interest(is)
  /\ ForeignHeld(was) <= ForeignHeld(is)
  /\ EquityGrowth(was) <= EquityGrowth(is)
  /\ 4 \notin {was, is} => checkStarValuationRating(was) <= checkStarValuationRating(is)
  /\ is <= 8 => TechniqueStars(was) <= TechniqueStars(is)
  /\ is <= 12 => TrendStars(was) <= TrendStars(is)

(* Of two places in a list the better one is rated as high at least, and one that is
   not in the list no higher than any that is. *)
RankStarsGrow ==
  0 <= was /\ is < other =>
    /\ checkStarBusinessRating(is, other) <= checkStarBusinessRating(was, other)
    /\ checkStarBusinessRating(-1, other) <= checkStarBusinessRating(is, other)
    /\ checkStatusCoDongLon(is, other) <= checkStatusCoDongLon(was, other)
    /\ checkStatusCoDongLon(-1, other) <= checkStatusCoDongLon(is, other)

(* A figure that grows, past one of those it is compared with or past both, does not
   lose stars, nor does a cost that falls, as long as no two figures are equal.  It
   holds of the chained comparisons too.  The market has one exception: its second
   condition takes a figure q of the industry, of which only counts whether it is above
   the previous quarter.  If it is not, although the last four quarters are, a market
   that passes them goes from two stars to one. *)
Distinct(v) == v # other /\ v # further /\ other # further
ComparedStarsGrow ==
  was < is /\ Distinct(was) /\ Distinct(is) =>
    /\ Compared(was, other, further) <= Compared(is, other, further)
    /\ \A q \in {other, other + 1} : other > further \/ q > other =>
         MarketCompared(was, other, further, q) <= MarketCompared(is, other, further, q)
    /\ CostCompared(is, other, further) <= CostCompared(was, other, further)
    /\ ComparedCK(was, other, further) <= ComparedCK(is, other, further)

(* A total does not fall when one of its figures grows, whatever the others are. *)
TotalsGrow == was < is =>
  /\ 4 \notin {was, is, other, further} =>
       /\ ValuationTotal(was, other, further, other, further)
            <= ValuationTotal(is, other, further, other, further)
       /\ ValuationTotal(other, other, further, was, further)
            <= ValuationTotal(other, other, further, is, further)
  /\ is <= 8 => TechniqueTotal(was, other) <= TechniqueTotal(is, other)
  /\ is <= 12 => TechniqueTotal(other, was) <= TechniqueTotal(other, is)
  /\ PositionTotal(was, other, further, other, other, further, other, further, other, further)
       <= PositionTotal(is, other, further, other, other, further, other, further, other, further)
  /\ PositionTotal(other, other, further, other, was, further, other, further, other, further)
       <= PositionTotal(other, other, further, other, is, further, other, further, other, further)
  /\ PositionTotal(other, other, further, other, other, further, other, further, was, further)
       <= PositionTotal(other, other, further, other, other, further, other, further, is, further)
===============================================================================
