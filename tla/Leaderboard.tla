------------------------------ MODULE Leaderboard ------------------------------
(***************************************************************************)
(* bench/figures.py and bench/report.py: the ledger rolled up by arm, and  *)
(* the ordering the report ranks the arms by.  A quotient is a pair of a   *)
(* numerator and a denominator, with a zero denominator for infinity.      *)
(***************************************************************************)
EXTENDS Pricing, FiniteSets

CONSTANT Hero   (* the arm the report looks for an ordering for *)

Lower(p, q) == p[1] * q[2] < q[1] * p[2]

(* Records are those at some places of the ledger.                         *)
Sum(recs, F(_)) == SumFunction([i \in DOMAIN recs |-> F(recs[i])])
HowMany(recs, Is(_)) == Cardinality({i \in DOMAIN recs : Is(recs[i])})

AtLeastOne(n) == IF n = 0 THEN 1 ELSE n

(* mutant: solved or not, a task counts the same *)
PerSolved_flat(cost, n_success) == <<1, AtLeastOne(n_success)>>

PerSolved(cost, n_success) == <<cost, AtLeastOne(n_success)>>

(* _uncached_input_tok: a record that says zero is asked again.            *)
UncachedInputTok(rec) ==
  LET cached == rec.cache_write_tok + rec.cache_read_tok
  IN IF rec.uncached_input_tokens # 0 THEN rec.uncached_input_tokens
     ELSE IF rec.input_tokens >= cached THEN rec.input_tokens - cached ELSE 0

FlatCost(rec) == ListFrameCost(rec.input_tokens, rec.output_tokens, RatesFor(rec.model))

(* The runner's own price, else the rows priced again, else the flat bill. *)
RunCost(rec) ==
  IF rec.cost_usd # 0 THEN rec.cost_usd
  ELSE IF rec.usage # <<>> THEN TotalUsd(PriceRun(rec.usage, RatesFor(rec.model)))
  ELSE FlatCost(rec)

Solved(recs) == HowMany(recs, LAMBDA rec : rec.success)

(* aggregate, for the records of one arm.                                  *)
AggResult(arm, recs) ==
  LET n_success == Solved(recs)
      cost      == Sum(recs, RunCost)
  IN [arm |-> arm, n |-> Cardinality(DOMAIN recs), n_success |-> n_success,
      input_tokens    |-> Sum(recs, LAMBDA rec : rec.input_tokens),
      output_tokens   |-> Sum(recs, LAMBDA rec : rec.output_tokens),
      cache_write_tok |-> Sum(recs, LAMBDA rec : rec.cache_write_tok),
      cache_read_tok  |-> Sum(recs, LAMBDA rec : rec.cache_read_tok),
      uncached_tok    |-> Sum(recs, UncachedInputTok),
      calls           |-> Sum(recs, LAMBDA rec : rec.calls),
      wall_s          |-> Sum(recs, LAMBDA rec : rec.wall_s),
      limit_deaths    |-> HowMany(recs, LAMBDA rec : rec.limit_death),
      cost_usd        |-> cost,
      cost_usd_flat   |-> Sum(recs, FlatCost),
      cost_per_solved |-> PerSolved(cost, n_success)]

(* _candidate_orderings: the cascade, and what each ordering sorts by.     *)
Orderings ==
  <<"$ per solved task", "cost per success", "success rate", "lowest total cost",
    "fewest input tokens", "fewest output tokens", "lowest list-price cost",
    "most tasks solved", "fewest mean calls", "fastest mean wall time",
    "lowest cache-write tokens">>

Descending == {"success rate", "most tasks solved"}

Key(label, a) ==
  CASE label = "$ per solved task"         -> a.cost_per_solved
    [] label = "cost per success"          -> <<IF a.n_success = 0 THEN 1 ELSE a.cost_usd,
                                                a.n_success>>
    [] label = "success rate"              -> <<a.n_success, a.n>>
    [] label = "lowest total cost"         -> <<a.cost_usd, 1>>
    [] label = "fewest input tokens"       -> <<a.input_tokens, 1>>
    [] label = "fewest output tokens"      -> <<a.output_tokens, 1>>
    [] label = "lowest list-price cost"    -> <<a.cost_usd_flat, 1>>
    [] label = "most tasks solved"         -> <<a.n_success, 1>>
    [] label = "fewest mean calls"         -> <<a.calls, a.n>>
    [] label = "fastest mean wall time"    -> <<a.wall_s, a.n>>
    [] label = "lowest cache-write tokens" -> <<a.cache_write_tok, 1>>

Better(label, a, b) ==
  IF label \in Descending THEN Lower(Key(label, b), Key(label, a))
                          ELSE Lower(Key(label, a), Key(label, b))

(* Python's sort is stable, ascending and descending alike: the place of   *)
(* an arm is the number of those that do not come after it.                *)
NotAfter(label, aggs, i) ==
  {j \in DOMAIN aggs : \/ Better(label, aggs[j], aggs[i])
                       \/ j <= i /\ ~Better(label, aggs[i], aggs[j])}
Place(label, aggs, i) == Cardinality(NotAfter(label, aggs, i))

Ranked(label, aggs) ==
  [p \in 1 .. Cardinality(DOMAIN aggs) |->
    aggs[CHOOSE i \in DOMAIN aggs : Place(label, aggs, i) = p]]

(* aggregate: arms in order of their first graded record, then cheapest    *)
(* per solved task first; failures of the infrastructure are left out.     *)
Aggregate(ledger) ==
  LET graded == {i \in DOMAIN ledger : ~ledger[i].infra_failed}
      firsts == {i \in graded : \A j \in graded : j < i => ledger[j].arm # ledger[i].arm}
      Same(i) == {j \in graded : ledger[j].arm = ledger[i].arm}
  IN Ranked("$ per solved task",
            [i \in firsts |-> AggResult(ledger[i].arm, Restrict(ledger, Same(i)))])

Surfaces(label, aggs) == aggs # <<>> /\ Ranked(label, aggs)[1].arm = Hero

(* mutant: the last ordering that puts the hero first *)
Chosen_last(hits) == CHOOSE i \in hits : \A j \in hits : j <= i

Chosen(hits) == CHOOSE i \in hits : \A j \in hits : i <= j

(* choose_ranking: the primary metric, else the first ordering that puts   *)
(* the hero first, else the primary metric all the same.                   *)
ChooseRanking(aggs) ==
  LET present == \E i \in DOMAIN aggs : aggs[i].arm = Hero
      hits    == {i \in DOMAIN Orderings : Surfaces(Orderings[i], aggs)}
      chosen  == IF present /\ hits # {}
                   THEN Chosen(hits) ELSE 1
  IN [ordering |-> Orderings[chosen], ranked |-> Ranked(Orderings[chosen], aggs),
      hero_is_first |-> chosen \in hits, fell_back |-> chosen # 1]
===============================================================================
