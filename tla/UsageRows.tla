------------------------------- MODULE UsageRows -------------------------------
(***************************************************************************)
(* What the gateway (bench/usage_gateway.py) makes of one upstream reply:  *)
(* the usage row it appends and, for a client that does not stream, the    *)
(* message it assembles.  A usage object is a function from the fields the *)
(* provider reported to token counts; null and absent are the same to the  *)
(* code, both are outside the domain.  An operator returns <<>> where the  *)
(* code returns None.  Text is a sequence of pieces, never characters.     *)
(***************************************************************************)
EXTENDS Naturals, Sequences, SequencesExt, TLC

CacheFields == {"cache_creation_input_tokens", "cache_read_input_tokens"}
UsageFields == {"input_tokens", "output_tokens"} \cup CacheFields

(* _i: a missing count is zero. *)
Count(u, key) == IF key \in DOMAIN u THEN u[key] ELSE 0

(* extract_usage: prompt_tokens is the full billable input; the cache      *)
(* fields are there only when the provider reported them, zero included.   *)
ExtractUsage(u) ==
  LET reported == DOMAIN u \cap CacheFields
      write    == Count(u, "cache_creation_input_tokens")
      read     == Count(u, "cache_read_input_tokens")
      prompt   == Count(u, "input_tokens") + write + read
      output   == Count(u, "output_tokens")
  IN IF reported = {} /\ prompt = 0 /\ output = 0
       THEN <<>>
       ELSE <<[key \in {"prompt_tokens", "completion_tokens"} \cup reported |->
                 CASE key = "prompt_tokens"     -> prompt
                   [] key = "completion_tokens" -> output
                   [] OTHER                     -> u[key]]>>

(* usage_from_sse: the input side from message_start, then every field a   *)
(* message_delta reports, in order.                                        *)
UsageEvents(events) ==
  SelectSeq(events, LAMBDA e : e.type \in {"message_start", "message_delta"}
                               /\ "usage" \in DOMAIN e)

Merged(events) ==
  FoldLeft(LAMBDA usage, e : e.usage @@ usage, <<>>, UsageEvents(events))

UsageFromSse(events) ==
  IF UsageEvents(events) = <<>> THEN <<>> ELSE <<Merged(events)>>

(* The served model is stamped on the row when the reply names one. *)
ModelsNamed(events) ==
  SelectSeq(events, LAMBDA e : e.type = "message_start" /\ "model" \in DOMAIN e)

StampModel(row, events) ==
  IF ModelsNamed(events) = <<>> THEN row
  ELSE [key \in {"model"} \cup DOMAIN row |->
         IF key = "model" THEN ModelsNamed(events)[1].model ELSE row[key]]

RowsOf(events) ==
  IF UsageFromSse(events) = <<>> THEN <<>>
  ELSE LET rows == ExtractUsage(UsageFromSse(events)[1])
       IN [i \in DOMAIN rows |-> StampModel(rows[i], events)]

(***************************************************************************)
(* _accumulate_anthropic_message: the blocks are kept by their index, in   *)
(* the order they were opened; a tool's input is parsed when its block     *)
(* stops, and stays empty when it never does.                              *)
(***************************************************************************)
Opened(e) == [type |-> e.block, text |-> <<>>, json |-> <<>>, input |-> <<>>]

(* mutant: a delta goes to the block opened last *)
AddEvent_lastBlock(acc, e) ==
  IF e.type # "content_block_delta" THEN
    IF e.type # "content_block_start" THEN acc
    ELSE [blocks |-> (e.index :> Opened(e)) @@ acc.blocks, order |-> Append(acc.order, e.index)]
  ELSE [acc EXCEPT !.blocks[Last(acc.order)].text = Append(@, e.piece),
                   !.blocks[Last(acc.order)].input = Append(@, e.piece)]

AddEvent(acc, e) ==
  CASE e.type = "content_block_start" ->
         [blocks |-> [i \in {e.index} \cup DOMAIN acc.blocks |->
                        IF i = e.index THEN Opened(e) ELSE acc.blocks[i]],
          order  |-> Append(acc.order, e.index)]
    [] e.type = "content_block_delta" /\ e.index \in DOMAIN acc.blocks /\ e.delta = "text_delta" ->
         [acc EXCEPT !.blocks[e.index].text = Append(@, e.piece)]
    [] e.type = "content_block_delta" /\ e.index \in DOMAIN acc.blocks /\ e.delta = "input_json_delta" ->
         [acc EXCEPT !.blocks[e.index].json = Append(@, e.piece)]
    [] e.type = "content_block_stop" /\ e.index \in DOMAIN acc.blocks ->
         IF acc.blocks[e.index].type = "tool_use"
           THEN [acc EXCEPT !.blocks[e.index].input = acc.blocks[e.index].json]
           ELSE acc
    [] OTHER -> acc

NoBlocks == [blocks |-> <<>>, order |-> <<>>]

StopReasons(events) ==
  SelectSeq(events, LAMBDA e : e.type = "message_delta" /\ "stop_reason" \in DOMAIN e)

Accumulate(events, model) ==
  LET acc  == FoldLeft(AddEvent, NoBlocks, events)
      named == ModelsNamed(events)
      stops == StopReasons(events)
  IN [model   |-> IF named = <<>> THEN model ELSE named[Len(named)].model,
      content |-> [i \in DOMAIN acc.order |-> acc.blocks[acc.order[i]]],
      stop_reason |-> IF stops = <<>> THEN "end_turn" ELSE Last(stops).stop_reason,
      usage   |-> [key \in UsageFields |-> Count(Merged(events), key)]]
===============================================================================
