-------------------------------- MODULE Billing --------------------------------
(***************************************************************************)
(* From a reply on the wire to the line of a leaderboard: the gateway      *)
(* turns each upstream reply into a usage row, cc_runner._worker prices    *)
(* and grades the solve and appends one record, and the report rolls the   *)
(* ledger up.  UsageRows, Pricing, Grader and Leaderboard say what each    *)
(* step computes; this module is the order in which they happen, with the  *)
(* failures that send a solve back or leave only a stub of it.             *)
(***************************************************************************)
EXTENDS Leaderboard, Grader

CONSTANTS
  Runs,       (* the solves of the benchmark                               *)
  ArmOf,      (* the arm of each                                           *)
  RunModel,   (* the --model every solve is asked to use                   *)
  Replies,    (* what the provider may answer: [events, served, usage]     *)
  Ends,       (* how it may end: [exit, num_turns, patch, wall_s, harness] *)
  CallCap,    (* --call-cap                                                *)
  MaxReplies, (* bound: replies in one behaviour                           *)
  MaxFailures (* bound: failed tries in one behaviour                      *)

(* A reply says what the provider counted, and which model served it unless *)
(* that is the one that was asked for; a harness run leaves report files.   *)
ASSUME BillingAssumption ==
  /\ RunModel \in DOMAIN KeysIn
  /\ \A reply \in Replies :
       LET sent == UsageFromSse(reply.events)
           named == ModelsNamed(reply.events)
       IN /\ \A key \in UsageFields :
               /\ Count(reply.usage, key) \in Nat
               /\ Count(reply.usage, key) = IF sent = <<>> THEN 0 ELSE Count(sent[1], key)
          /\ reply.served \in DOMAIN KeysIn
          /\ reply.served = IF named = <<>> THEN RunModel ELSE named[1].model
  /\ \A end \in Ends :
       /\ end.num_turns \in Nat /\ end.wall_s \in Nat
       /\ end.harness.files \in Seq(Range(end.harness.files))
       /\ \A file \in Range(end.harness.files) : "resolved" \in DOMAIN file => file.resolved \in BOOLEAN

(* The events of a type, and the deltas for a block.                       *)
EventsOf(events, type) == {i \in DOMAIN events : events[i].type = type}
DeltasFor(events, index, delta) ==
  {i \in EventsOf(events, "content_block_delta") :
     events[i].index = index /\ events[i].delta = delta}

(* The stream of a reply is in order: it names one model at most, opens a  *)
(* block once and before its deltas, and ends a tool's after them.         *)
InOrder(events) ==
  LET starts == EventsOf(events, "content_block_start")
  IN /\ events \in Seq(Range(events))
     /\ ModelsNamed(events) = <<>> \/ Len(ModelsNamed(events)) = 1
     /\ \A i, j \in starts : events[i].index = events[j].index => i = j
     /\ \A i \in EventsOf(events, "content_block_delta") :
          \E j \in starts : j < i /\ events[j].index = events[i].index
     /\ \A j \in starts : events[j].block = "tool_use" =>
          \E s \in EventsOf(events, "content_block_stop") :
            /\ j < s /\ events[s].index = events[j].index
            /\ \A i \in DeltasFor(events, events[j].index, "input_json_delta") : i < s

ASSUME StreamAssumption == \A reply \in Replies : InOrder(reply.events)

VARIABLES
  phase,    (* phase[r]: "waiting", "running" or "over"                    *)
  tries,    (* tries[r]: failed tries of r                                 *)
  rows,     (* rows[r]: the lines of r's usage file from _usage_start on   *)
  ledger,   (* the run records, in the order they were appended            *)
  report,   (* <<>>, or <<the published ranking>>                          *)
  (* history, read by properties only                                      *)
  billed,   (* billed[r]: what the provider counts for the replies in them *)
  answer,   (* <<>>, or <<the try's last reply and what became of it>>     *)
  ended     (* ended[r]: <<>>, or <<how r's agent ended>>                  *)

vars == <<phase, tries, rows, ledger, report, billed, answer, ended>>

Nothing == [usd |-> 0, input |-> 0, output |-> 0]

Init ==
  /\ phase = [r \in Runs |-> "waiting"]
  /\ tries = [r \in Runs |-> 0]
  /\ rows = [r \in Runs |-> <<>>]
  /\ ledger = <<>>
  /\ report = <<>>
  /\ billed = [r \in Runs |-> Nothing]
  /\ answer = <<>>
  /\ ended = [r \in Runs |-> <<>>]

(* mutant: the length of the file is not noted again for the retry *)
Start_allRows(r) ==
  /\ phase[r] = "waiting"
  /\ \A q \in Runs : phase[q] # "running"
  /\ phase' = [phase EXCEPT ![r] = "running"]
  /\ billed' = [billed EXCEPT ![r] = Nothing]
  /\ UNCHANGED <<tries, rows, ledger, report, answer, ended>>

(* A try begins and notes the length of the usage file, which the tries of *)
(* a solve share: what earlier ones have left in it is never read again.   *)
(* One solve at a time: solves share no usage file (RunAgent), so the      *)
(* interleaving of their calls makes no difference to what is priced.      *)
Start(r) ==
  /\ phase[r] = "waiting"
  /\ \A q \in Runs : phase[q] # "running"
  /\ phase' = [phase EXCEPT ![r] = "running"]
  /\ rows' = [rows EXCEPT ![r] = <<>>]
  /\ billed' = [billed EXCEPT ![r] = Nothing]
  /\ UNCHANGED <<tries, ledger, report, answer, ended>>

(* What the provider counts and charges for a reply.                       *)
Charge(sum, reply) ==
  LET rates == RatesFor(reply.served)
      N(key) == Count(reply.usage, key)
      inputs == N("input_tokens") * rates.input
                + N("cache_creation_input_tokens") * rates.cache_write
                + N("cache_read_input_tokens") * rates.cache_read
  IN [usd    |-> sum.usd + inputs + N("output_tokens") * rates.output,
      input  |-> sum.input + N("input_tokens") + N("cache_creation_input_tokens")
                 + N("cache_read_input_tokens"),
      output |-> sum.output + N("output_tokens")]

(* A handler thread of the gateway may be at a call of the present try, or *)
(* still at one of the try that failed.                                    *)
InFlight(r) == phase[r] = "running" \/ (phase[r] = "waiting" /\ tries[r] > 0)

(* One model call of the agent through the gateway: the row is appended    *)
(* and the assembled message goes to a client that does not stream.        *)
Serve(r, reply) ==
  /\ InFlight(r)
  /\ rows' = [rows EXCEPT ![r] = @ \o RowsOf(reply.events)]
  /\ billed' = [billed EXCEPT ![r] = Charge(@, reply)]
  /\ answer' = <<[reply |-> reply, row |-> RowsOf(reply.events),
                  message |-> Accumulate(reply.events, RunModel)]>>
  /\ UNCHANGED <<phase, tries, ledger, report, ended>>

(* round(usd, 6), in units of 10^-8 dollars.                               *)
RoundUsd(usd) == ((usd + 50) \div 100) * 100

(* run_agent's limit death: a cap was hit and no patch came of it.         *)
Calls(r, end) == IF end.num_turns # 0 THEN end.num_turns ELSE Len(rows[r])

LimitDeath(r, end) ==
  /\ end.exit \in {"wall_cap", "error_max_turns"} \/ Calls(r, end) >= CallCap
  /\ ~end.patch

(* The fields every record has.                                            *)
Record(r, success, calls, cb, error) ==
  [run |-> r, arm |-> ArmOf[r], model |-> RunModel, success |-> success,
   input_tokens |-> TotalOf(rows[r], "prompt_tokens"),
   output_tokens |-> TotalOf(rows[r], "completion_tokens"),
   cache_write_tok |-> cb.cache_write_tok, cache_read_tok |-> cb.cache_read_tok,
   uncached_input_tokens |-> cb.uncached_input_tok, calls |-> calls,
   cost_usd |-> RoundUsd(TotalUsd(cb)), cost_usd_list |-> RoundUsd(cb.list_usd),
   usage |-> rows[r], limit_death |-> FALSE, wall_s |-> 0,
   infra_failed |-> FALSE, error |-> error]

(* _worker: grade, price and record a solve whose agent came to an end.    *)
Finish(r, end) ==
  LET verdict == Grade(end.harness)
      cb      == PriceRun(rows[r], RatesFor(RunModel))
  IN /\ phase[r] = "running"
     /\ phase' = [phase EXCEPT ![r] = "over"]
     /\ ended' = [ended EXCEPT ![r] = <<end>>]
     /\ ledger' = Append(ledger,
          [Record(r, verdict.success, Calls(r, end), cb, verdict.error)
             EXCEPT !.limit_death = LimitDeath(r, end), !.wall_s = end.wall_s])
     /\ answer' = <<>>
     /\ UNCHANGED <<tries, rows, report, billed>>

(* _infra_stub: the tokens a failed try is known to have used, no price.   *)
NoCost == [b \in Buckets |-> 0]

Stub(r, known) ==
  LET rec == Record(r, FALSE, Len(known),
                    [NoCost EXCEPT
                      !.cache_write_tok = TotalOf(known, "cache_creation_input_tokens"),
                      !.cache_read_tok  = TotalOf(known, "cache_read_input_tokens")],
                    "infra")
  IN [rec EXCEPT !.input_tokens = TotalOf(known, "prompt_tokens"),
                 !.output_tokens = TotalOf(known, "completion_tokens"),
                 !.usage = <<>>, !.infra_failed = TRUE]

(* The try fails.  A RunInfraError knows the rows of the try; any other    *)
(* exception, the grader's included, does not.  The first failure is tried *)
(* again and its stub dropped, the second is recorded.                     *)
Fail(r, known) ==
  /\ phase[r] = "running"
  /\ known \in {rows[r], <<>>}
  /\ tries' = [tries EXCEPT ![r] = @ + 1]
  /\ IF tries[r] = 0
       THEN /\ phase' = [phase EXCEPT ![r] = "waiting"]
            /\ UNCHANGED ledger
       ELSE /\ phase' = [phase EXCEPT ![r] = "over"]
            /\ ledger' = Append(ledger, Stub(r, known))
  /\ answer' = <<>>
  /\ UNCHANGED <<rows, report, billed, ended>>

(* build_report over the ledger.                                           *)
BuildReport ==
  /\ report = <<>>
  /\ \A r \in Runs : phase[r] = "over"
  /\ report' = <<ChooseRanking(Aggregate(ledger))>>
  /\ UNCHANGED <<phase, tries, rows, ledger, billed, answer, ended>>

Served   == SumFunction([r \in Runs |-> Len(rows[r])])
Failures == SumFunction(tries)

Next ==
  \/ \E r \in Runs :
       \/ Start(r)
       \/ Served < MaxReplies /\ \E reply \in Replies : Serve(r, reply)
       \/ \E end \in Ends : Finish(r, end)
       \/ Failures < MaxFailures /\ \E known \in {rows[r], <<>>} : Fail(r, known)
  \/ BuildReport

Spec == Init /\ [][Next]_vars

-------------------------------------------------------------------------------
Graded == {i \in DOMAIN ledger : ~ledger[i].infra_failed}

TypeOK ==
  /\ phase \in [Runs -> {"waiting", "running", "over"}]
  /\ tries \in [Runs -> 0 .. 2]
  /\ billed \in [Runs -> [usd : Nat, input : Nat, output : Nat]]
  /\ \A r \in Runs : \A i \in DOMAIN rows[r] :
       rows[r][i].prompt_tokens \in Nat /\ rows[r][i].completion_tokens \in Nat
  /\ \A i \in DOMAIN ledger :
       /\ ledger[i].run \in Runs /\ ledger[i].cost_usd \in Nat
       /\ ledger[i].success \in BOOLEAN /\ ledger[i].limit_death \in BOOLEAN
  /\ Len(report) <= 1 /\ Len(answer) <= 1

(* A record costs what the provider charges for the solve, to the micro-   *)
(* dollar, as soon as one reply of the solve reported a cache field:       *)
(* whatever the other replies reported and whichever models served them    *)
(* (price_run over the rows of usage_from_sse and extract_usage).          *)
PricedAsBilled ==
  \A i \in Graded : HasRealCacheFields(ledger[i].usage) =>
    ledger[i].cost_usd = RoundUsd(billed[ledger[i].run].usd)

(* Written, read and uncached tokens add up to the input of a record and   *)
(* of an arm, on the real path and on the inferred one, for growing and    *)
(* shrinking prompts, so a hit rate is a share of all of the input.        *)
BucketsPartitionInput ==
  /\ \A i \in Graded :
       ledger[i].cache_write_tok + ledger[i].cache_read_tok
         + UncachedInputTok(ledger[i]) = ledger[i].input_tokens
  /\ LET aggs == Aggregate(ledger)
     IN \A k \in DOMAIN aggs :
          aggs[k].cache_write_tok + aggs[k].cache_read_tok + aggs[k].uncached_tok
            = aggs[k].input_tokens

(* What a sequence holds at the places P, in order.                        *)
Nth(P, k) == CHOOSE p \in P : Cardinality({q \in P : q <= p}) = k
Only(seq, P) == [k \in 1 .. Cardinality(P) |-> seq[Nth(P, k)]]

(* The pieces sent for a block.                                            *)
PiecesFor(events, index, delta) ==
  LET mine == Only(events, DeltasFor(events, index, delta))
  IN [i \in DOMAIN mine |-> mine[i].piece]

(* The message assembled for a client that does not stream says what a     *)
(* streaming client reads off the same events: each block holds the pieces *)
(* sent for its index, however the blocks were interleaved, and the usage  *)
(* adds up to the row the run is billed by (_accumulate_anthropic_message).*)
MessageIsTheStream ==
  \A a \in {answer[i] : i \in DOMAIN answer} :
    LET events == a.reply.events
        opened == Only(events, EventsOf(events, "content_block_start"))
    IN /\ Len(a.message.content) = Len(opened)
       /\ \A i \in DOMAIN opened :
            LET block == a.message.content[i]
            IN IF opened[i].block = "tool_use"
                 THEN block.input = PiecesFor(events, opened[i].index, "input_json_delta")
                 ELSE block.text = PiecesFor(events, opened[i].index, "text_delta")
       /\ \A i \in DOMAIN a.row :
            /\ a.row[i].prompt_tokens = Count(a.message.usage, "input_tokens")
                 + Count(a.message.usage, "cache_creation_input_tokens")
                 + Count(a.message.usage, "cache_read_input_tokens")
            /\ a.row[i].completion_tokens = a.message.usage["output_tokens"]
            /\ "model" \in DOMAIN a.row[i] => a.row[i].model = a.message.model

(* What a record claims to have used is what the provider counted for the  *)
(* replies that were logged after its last try noted the length of the     *)
(* file, neither more nor less: its own and, of the try that failed, those *)
(* that came late, none that was in the file before; a stub left by an     *)
(* exception that knew no rows claims nothing.  (The tokens of a first try *)
(* that was retried are in no record: that loss is the code's.)            *)
RecordsHoldTheSlice ==
  \A i \in DOMAIN ledger :
    LET rec == ledger[i]
    IN \/ /\ rec.input_tokens = billed[rec.run].input
          /\ rec.output_tokens = billed[rec.run].output
       \/ rec.infra_failed /\ rec.input_tokens = 0 /\ rec.output_tokens = 0

(* A solve counts as solved only on the word of a file of its own harness  *)
(* run: one that says so, or one whose tests all passed, some of them      *)
(* tests that used to fail (_parse, over several candidate files).         *)
Vouches(file) ==
  \/ "resolved" \in DOMAIN file /\ file.resolved
  \/ /\ "tests" \in DOMAIN file
     /\ file.tests.f2p_pass > 0 /\ file.tests.f2p_fail = 0 /\ file.tests.p2p_fail = 0

SolvedOnlyIfReported ==
  \A i \in DOMAIN ledger : ledger[i].success =>
    \E e \in {ended[ledger[i].run][j] : j \in DOMAIN ended[ledger[i].run]} :
      /\ ~e.harness.hangs
      /\ \E j \in DOMAIN e.harness.files : Vouches(e.harness.files[j])

(* The cascade is honest: no arm is better than the leader in the ordering *)
(* that was published, the primary metric is left only when the hero is    *)
(* not first in it and first in the published one, and no earlier ordering *)
(* would have put it first (choose_ranking).                               *)
CascadeIsHonest ==
  \A rep \in {report[i] : i \in DOMAIN report} :
    LET Undercut(label, a) == \E j \in DOMAIN rep.ranked : Better(label, rep.ranked[j], a)
        Alone(label, a)    == \A j \in DOMAIN rep.ranked :
                                rep.ranked[j] = a \/ Better(label, a, rep.ranked[j])
        hero  == {a \in Range(rep.ranked) : a.arm = Hero}
        place == CHOOSE i \in DOMAIN Orderings : Orderings[i] = rep.ordering
    IN /\ rep.ranked # <<>> => ~Undercut(rep.ordering, rep.ranked[1])
       /\ rep.hero_is_first <=> rep.ranked # <<>> /\ rep.ranked[1].arm = Hero
       /\ rep.fell_back <=> place # 1
       /\ rep.fell_back => rep.hero_is_first
       /\ \A a \in hero, i \in 1 .. place - 1 : ~Alone(Orderings[i], a)
       /\ \A a \in hero : ~rep.hero_is_first =>
            \A i \in DOMAIN Orderings : ~Alone(Orderings[i], a)

(* On the primary metric an arm that solved as much for less money, or     *)
(* more for no more, is never below the arm it beats, unless what it       *)
(* solved more is its first task at an equal price (max(n_success, 1)).    *)
DominanceKept ==
  \A rep \in {report[i] : i \in DOMAIN report} : ~rep.fell_back =>
    \A i, j \in DOMAIN rep.ranked :
      LET a == rep.ranked[i]
          b == rep.ranked[j]
      IN /\ a.n_success >= b.n_success /\ a.cost_usd <= b.cost_usd
         /\ a.cost_usd < b.cost_usd \/ (a.cost_usd > 0 /\ a.n_success > AtLeastOne(b.n_success))
         => i < j
===============================================================================
