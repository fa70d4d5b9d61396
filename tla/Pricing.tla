-------------------------------- MODULE Pricing --------------------------------
(***************************************************************************)
(* bench/pricing.py: what a series of usage rows costs.  Rates are whole   *)
(* cents per million tokens, so a cost is a whole number of 10^-8 dollars. *)
(***************************************************************************)
EXTENDS UsageRows

CONSTANTS
  PriceTable,    (* rates by table key: [input, cache_write, cache_read, output] *)
  KeyLength,     (* how long the text of a key is                                *)
  DefaultRates,  (* for a model no key matches                                   *)
  KeysIn,        (* KeysIn[m]: the keys whose text model id m contains           *)
  FreshTokens    (* what is new in a prompt that shrank: 50 in the code          *)

Rates == [input : Nat, cache_write : Nat, cache_read : Nat, output : Nat]

ASSUME PricingAssumption ==
  /\ DefaultRates \in Rates /\ FreshTokens \in Nat
  /\ \A k \in DOMAIN PriceTable : PriceTable[k] \in Rates /\ KeyLength[k] \in Nat
  /\ \A m \in DOMAIN KeysIn : /\ KeysIn[m] \subseteq DOMAIN PriceTable
                               /\ IsFiniteSet(KeysIn[m])

Buckets == {"write_usd", "read_usd", "uncached_usd", "output_usd", "list_usd",
            "cache_write_tok", "cache_read_tok", "uncached_input_tok", "output_tok"}

(* rates_for: the longest key that is a substring of the model id. *)
RatesFor(m) ==
  IF KeysIn[m] = {} THEN DefaultRates
  ELSE PriceTable[CHOOSE k \in KeysIn[m] :
                    \A j \in KeysIn[m] : KeyLength[j] <= KeyLength[k]]

Breakdown(w, r, u, o, listed, rates) ==
  [cache_write_tok |-> w, cache_read_tok |-> r, uncached_input_tok |-> u,
   output_tok |-> o,
   write_usd |-> w * rates.cache_write, read_usd |-> r * rates.cache_read,
   uncached_usd |-> u * rates.input, output_usd |-> o * rates.output,
   list_usd |-> listed * rates.input + o * rates.output]

TotalUsd(cb) == cb.write_usd + cb.read_usd + cb.uncached_usd + cb.output_usd

(* Rows are a sequence, or the part of one that was served by one model.   *)
TotalOf(rows, key) == SumFunction([i \in DOMAIN rows |-> Count(rows[i], key)])

Least(m, n) == IF m <= n THEN m ELSE n

(* cache_frame_cost: growth is a write, the prefix a read; of a prompt that *)
(* shrank only a few tokens are taken to be new.                            *)
Written(prev, prompt) == IF prompt >= prev THEN prompt - prev
                                           ELSE Least(FreshTokens, prompt)

(* mutant: a prompt that shrank is taken to re-send all of the last one *)
Resent_all(prev, prompt) == prev

Resent(prev, prompt) == IF prompt >= prev THEN prev
                                          ELSE prompt - Least(FreshTokens, prompt)

CacheFrameCost(rows, rates) ==
  LET Prev(i) == IF i = 1 THEN 0 ELSE rows[i - 1].prompt_tokens
      split == [i \in DOMAIN rows |->
                 [write |-> Written(Prev(i), rows[i].prompt_tokens),
                  read  |-> Resent(Prev(i), rows[i].prompt_tokens)]]
      w == TotalOf(split, "write")
      r == TotalOf(split, "read")
  IN Breakdown(w, r, 0, TotalOf(rows, "completion_tokens"), w + r, rates)

(* real_cache_cost: the split the provider reported; the rest of the input *)
(* is uncached, never less than nothing.                                   *)
Uncached(row) ==
  LET split == Count(row, "cache_creation_input_tokens")
               + Count(row, "cache_read_input_tokens")
  IN IF row.prompt_tokens >= split THEN row.prompt_tokens - split ELSE 0

RealCacheCost(rows, rates) ==
  Breakdown(TotalOf(rows, "cache_creation_input_tokens"),
            TotalOf(rows, "cache_read_input_tokens"),
            SumFunction([i \in DOMAIN rows |-> Uncached(rows[i])]),
            TotalOf(rows, "completion_tokens"), TotalOf(rows, "prompt_tokens"), rates)

HasRealCacheFields(rows) ==
  \E i \in DOMAIN rows : DOMAIN rows[i] \cap CacheFields # {}

(* price_run: with one cache field anywhere every row is priced as real, at *)
(* the rates of the model that served it; rows that name no model at the    *)
(* caller's rates.  Without any, the whole series is inferred.              *)
ServedBy(row) == IF "model" \in DOMAIN row THEN {row.model} ELSE {}

Groups(rows) == {ServedBy(rows[i]) : i \in DOMAIN rows} \cup {{}}
Part(rows, who) == Restrict(rows, {i \in DOMAIN rows : ServedBy(rows[i]) = who})
GroupCost(rows, who, rates) ==
  RealCacheCost(Part(rows, who),
                IF who = {} THEN rates ELSE RatesFor(CHOOSE m \in who : TRUE))

(* mutant: every row at the rates of the run's model *)
PriceRun_oneModel(rows, rates) ==
  IF HasRealCacheFields(rows) THEN RealCacheCost(rows, rates) ELSE CacheFrameCost(rows, rates)

PriceRun(rows, rates) ==
  IF HasRealCacheFields(rows)
    THEN [b \in Buckets |-> SumFunction([who \in Groups(rows) |-> GroupCost(rows, who, rates)[b]])]
    ELSE CacheFrameCost(rows, rates)

(* list_frame_cost and its alias flat_cost. *)
ListFrameCost(input, output, rates) == input * rates.input + output * rates.output
===============================================================================
