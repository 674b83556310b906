----------------------------- MODULE MCGeneration ------------------------------
(* Instances of Generation for TLC: two months of four days, two members, and    *)
(* the requests that race.                                                       *)
EXTENDS Generation, TLC

CONSTANTS r1, r2, k1, k2

MCRequest == {r1, r2}
Forever == 100

\* Base: a version to the middle of month 2, one from there on, and one that can
\* replace the latter.  Sport: a daily version, and one that bills next period.
MCCatalogue ==
  [b1 |-> [kind |-> "base", cents |-> 10, from |-> 1, to |-> 7, rule |-> "FULL_MONTH"],
   b2 |-> [kind |-> "base", cents |-> 15, from |-> 7, to |-> Forever, rule |-> "DAILY_PRORATED"],
   b3 |-> [kind |-> "base", cents |-> 21, from |-> 7, to |-> Forever, rule |-> "DAILY_PRORATED"],
   s1 |-> [kind |-> "sport", cents |-> 6, from |-> 1, to |-> Forever, rule |-> "DAILY_PRORATED"],
   s2 |-> [kind |-> "sport", cents |-> 6, from |-> 6, to |-> Forever, rule |-> "NEXT_PERIOD"]]
MCListed == {"b1", "b2", "s1"}

\* Member 1 joins on day 3 and plays from day 4 to day 6 and, enrolled anew, on
\* days 7 and 8: as long in month 2 as the other time; member 2 plays nothing
MCRoster == 1 :> [since |-> 3, sports |-> {[id |-> "e1", kind |-> "sport", from |-> 4, to |-> 7],
                                           [id |-> "e2", kind |-> "sport", from |-> 7, to |-> 9]}]
         @@ 2 :> [since |-> 1, sports |-> {}]

Rule(id, priority, kind, value, basis, group) ==
  [id |-> id, priority |-> priority, kind |-> kind, value |-> value, basis |-> basis, group |-> group]
MCBenefits == 1 :> {Rule("d1", 1, "PERCENT", 5000, "GROSS", "g"), Rule("d2", 2, "FIXED", 3, None, "g"),
                    Rule("d3", 3, "PERCENT", 1050, "REMAINING", None)}
           @@ 2 :> {Rule("d4", 1, "FIXED", 11, None, None)}

Month(k, p, n) == [key |-> k, preview |-> p, body |-> [op |-> "generate", month |-> n]]
MonthsOf(k, p, x) ==
  [key |-> k, preview |-> p, body |-> [op |-> "range", member |-> x, from |-> 1, through |-> 2]]

\* A month and its retry, the same month by another operator, a range under the
\* month's key, a range beside it; a range, its retry and the same by another
MCScenes ==
  {r1 :> Month(k1, r1, 2) @@ r2 :> other :
     other \in {Month(k1, r1, 2), Month(k2, r2, 2), MonthsOf(k1, r2, 2), MonthsOf(k2, r2, 1)}}
  \cup {r1 :> MonthsOf(k1, r1, 1) @@ r2 :> other : other \in {MonthsOf(k1, r1, 1), MonthsOf(k2, r2, 1)}}
================================================================================
