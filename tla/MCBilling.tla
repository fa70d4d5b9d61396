------------------------------- MODULE MCBilling -------------------------------
(* An instance of Billing: two solves of the hero's and one of another arm, *)
(* two models, replies with and without cache fields.                       *)
EXTENDS Billing

MCRuns     == {"d1", "d2", "b1"}
MCArmOf    == [r \in MCRuns |-> IF r = "b1" THEN "baseline" ELSE "dasein"]
MCModels   == {"claude-sonnet-4-6", "claude-haiku-4-5", "gpt-4o-mini"}
MCTable    ==
  [sonnet |-> [input |-> 300, cache_write |-> 375, cache_read |-> 30, output |-> 1500],
   haiku  |-> [input |-> 100, cache_write |-> 125, cache_read |-> 10, output |-> 500],
   gpt4o  |-> [input |-> 250, cache_write |-> 250, cache_read |-> 125, output |-> 1000],
   mini   |-> [input |-> 15, cache_write |-> 15, cache_read |-> 8, output |-> 60]]
MCDefaultRates == MCTable["sonnet"]
MCKeyLength == [sonnet |-> 13, haiku |-> 12, gpt4o |-> 6, mini |-> 11]
MCKeysIn   == [m \in MCModels |-> CASE m = "claude-sonnet-4-6" -> {"sonnet"}
                                    [] m = "claude-haiku-4-5"  -> {"haiku"}
                                    [] m = "gpt-4o-mini"       -> {"gpt4o", "mini"}]

(* What Vertex sends for a usage object: the input side and a first output *)
(* count in message_start, the final counts in message_delta.              *)
StartOf(m, u) ==
  [type |-> "message_start", model |-> m,
   usage |-> [k \in DOMAIN u |-> IF k = "output_tokens" THEN 1 ELSE u[k]]]
DeltaOf(u) ==
  [type |-> "message_delta", stop_reason |-> "tool_use",
   usage |-> [k \in DOMAIN u \cap {"output_tokens", "cache_read_input_tokens"} |-> u[k]]]
Open(i, kind)  == [type |-> "content_block_start", index |-> i, block |-> kind]
Text(i, p)     == [type |-> "content_block_delta", index |-> i, delta |-> "text_delta", piece |-> p]
Json(i, p)     == [type |-> "content_block_delta", index |-> i, delta |-> "input_json_delta", piece |-> p]
Stop(i)        == [type |-> "content_block_stop", index |-> i]
Reply(m, u, content) ==
  [served |-> m, usage |-> u, events |-> <<StartOf(m, u)>> \o content \o <<DeltaOf(u)>>]

Cold  == Reply("claude-sonnet-4-6",
  [input_tokens |-> 100, cache_creation_input_tokens |-> 1000,
   cache_read_input_tokens |-> 0, output_tokens |-> 200],
  <<Open(0, "text"), Text(0, "a"), Text(0, "b"), Stop(0)>>)
Warm  == Reply("claude-haiku-4-5",
  [input_tokens |-> 0, cache_read_input_tokens |-> 1000, output_tokens |-> 100],
  <<Open(0, "text"), Open(1, "tool_use"), Text(0, "a"), Json(1, "x"), Text(0, "b"),
    Json(1, "y"), Stop(0), Stop(1)>>)
Plain == Reply("claude-sonnet-4-6", [input_tokens |-> 2000, output_tokens |-> 100],
  <<Open(0, "tool_use"), Json(0, "x"), Stop(0)>>)
Short == Reply("gpt-4o-mini", [input_tokens |-> 300, output_tokens |-> 100], <<>>)
Mute  == [served |-> "claude-sonnet-4-6", usage |-> <<>>,
          events |-> <<[type |-> "message_start", model |-> "claude-sonnet-4-6"]>>]
MCReplies == {Cold, Warm, Plain, Short, Mute}

Tests(pass, fail) == [f2p_pass |-> pass, f2p_fail |-> fail, p2p_fail |-> 0]
Hung    == [hangs |-> TRUE, files |-> <<>>]
Files(files) == [hangs |-> FALSE, files |-> files]
MCEnds ==
  {[exit |-> "success", num_turns |-> 2, patch |-> TRUE, wall_s |-> 2,
    harness |-> Files(<<[own |-> FALSE], [own |-> TRUE, resolved |-> TRUE, tests |-> Tests(1, 0)]>>)],
   [exit |-> "success", num_turns |-> 1, patch |-> TRUE, wall_s |-> 1,
    harness |-> Files(<<[own |-> TRUE, tests |-> Tests(0, 0)], [unreadable |-> TRUE]>>)],
   [exit |-> "wall_cap", num_turns |-> 0, patch |-> FALSE, wall_s |-> 3, harness |-> Hung]}
===============================================================================
