----------------------------- MODULE VertexBridge -----------------------------
(***************************************************************************)
(* The usage gateway in its default mode (bench/usage_gateway.py,          *)
(* _Handler._bridge_vertex): one handler thread per inbound /v1/messages   *)
(* request calls Vertex, relays the events of the stream to the client as  *)
(* they arrive, retries transient failures, and appends one usage row to   *)
(* the run's JSONL.  The client may hang up at any moment.                 *)
(*                                                                         *)
(* A Vertex stream is the sequence of events 1..Events; a buffered list of *)
(* events is always a prefix of one attempt's stream and is kept as its    *)
(* length.                                                                 *)
(***************************************************************************)
EXTENDS Naturals, Sequences, ClientSocket

CONSTANTS
  Tags,         (* run ids                                                *)
  TagOf,        (* the x-ccb-run-id header of a request                   *)
  Events,       (* events in a complete Vertex stream                     *)
  UsageEvents,  (* the events that carry usage: message_start and _delta  *)
  MaxRetries,   (* _VERTEX_MAX_RETRIES                                    *)
  Modes         (* the kinds of client: "stream", "json"                  *)

ASSUME BridgeAssumption ==
  /\ TagOf \in [Reqs -> Tags]
  /\ Events \in Nat \ {0}
  /\ UsageEvents \subseteq 1..Events
  /\ MaxRetries \in Nat
  /\ Modes \subseteq {"stream", "json"}

VARIABLES
  pc,           (* where the handler of a request stands                  *)
  mode,         (* does the client want a stream?                         *)
  attempt,      (* the loop counter of the retry loop                     *)
  got,          (* events taken from this attempt's event_stream          *)
  evDicts,      (* length of ev_dicts                                     *)
  headersSent,  (* headers_sent                                           *)
  wire,         (* frames written to the client, as <<attempt, event>>    *)
  answer,       (* the last status the client was sent                    *)
  metering,     (* what became of the usage row                           *)
  log,          (* log[t]: the rows of <t>.usage.jsonl                    *)
  paid          (* history: attempts whose usage was read off Vertex      *)

vars == <<pc, mode, conn, attempt, got, evDicts, headersSent, wire,
          answer, metering, log, paid>>

Usages == (0..MaxRetries) \X (1..Events)
Row == [req : Reqs, usage : Usages]

TypeOK ==
  /\ pc \in [Reqs -> {"idle", "call", "read", "headers", "write", "backoff",
                      "settle", "span", "done"}]
  /\ mode \in [Reqs -> {"stream", "json"}]
  /\ conn \in [Reqs -> ConnStates]
  /\ attempt \in [Reqs -> 0..MaxRetries]
  /\ got \in [Reqs -> 0..Events]
  /\ evDicts \in [Reqs -> 0..Events]
  /\ headersSent \in [Reqs -> BOOLEAN]
  /\ wire \in [Reqs -> Seq((0..MaxRetries) \X (1..Events))]
  /\ answer \in [Reqs -> {"none", "200", "400", "502", "count_tokens"}]
  /\ metering \in [Reqs -> {"none", "row", "nousage", "failed"}]
  /\ log \in [Tags -> Seq(Row)]
  /\ paid \in SUBSET (Reqs \X (0..MaxRetries))

Init ==
  /\ pc = [r \in Reqs |-> "idle"]
  /\ mode \in [Reqs -> Modes]
  /\ ConnInit
  /\ attempt = [r \in Reqs |-> 0]
  /\ got = [r \in Reqs |-> 0]
  /\ evDicts = [r \in Reqs |-> 0]
  /\ headersSent = [r \in Reqs |-> FALSE]
  /\ wire = [r \in Reqs |-> <<>>]
  /\ answer = [r \in Reqs |-> "none"]
  /\ metering = [r \in Reqs |-> "none"]
  /\ log = [t \in Tags |-> <<>>]
  /\ paid = {}

Goto(r, l) == pc' = [pc EXCEPT ![r] = l]

-------------------------------------------------------------------------------
(* Requests that never reach Vertex: count_tokens is estimated locally and *)
(* a body that is not JSON is refused.                                     *)
AnswerLocally(r) ==
  /\ pc[r] = "idle"
  /\ \E status \in {"count_tokens", "400"} :
       answer' = [answer EXCEPT ![r] = IF Writable(r) THEN status ELSE @]
  /\ Goto(r, "done")
  /\ UNCHANGED <<mode, conn, attempt, got, evDicts, headersSent, wire,
                 metering, log, paid>>

Arrive(r) ==
  /\ pc[r] = "idle"
  /\ Goto(r, "call")
  /\ UNCHANGED <<mode, conn, attempt, got, evDicts, headersSent, wire,
                 answer, metering, log, paid>>

(* Seeded defect: a retry that restarts a response already on the wire.    *)
MayRetry_afterHeaders(r, transient) ==
  /\ attempt[r] < MaxRetries
  /\ transient

(* A retry needs a transient error, retries left, and nothing relayed. *)
MayRetry(r, transient) ==
  /\ ~headersSent[r]
  /\ attempt[r] < MaxRetries
  /\ transient

(* The except clause around one attempt. *)
Raise(r, transient) ==
  Goto(r, IF MayRetry(r, transient) THEN "backoff" ELSE "settle")

(* _complete returns the event iterator. *)
OpenStream(r) ==
  /\ pc[r] = "call"
  /\ Goto(r, "read")
  /\ UNCHANGED <<mode, conn, attempt, got, evDicts, headersSent, wire,
                 answer, metering, log, paid>>

(* Seeded defect: the streaming path drops its side copy on an error, as   *)
(* the buffered path does.                                                 *)
UpstreamFails_dropsCopy(r, transient) ==
  /\ pc[r] \in {"call", "read"}
  /\ Raise(r, transient)
  /\ evDicts' = [evDicts EXCEPT ![r] = 0]
  /\ UNCHANGED <<mode, conn, attempt, got, headersSent, wire, answer,
                 metering, log, paid>>

(* _complete, or the iterator it returned, raises.  The list comprehension *)
(* of the buffered path leaves ev_dicts empty.                             *)
UpstreamFails(r, transient) ==
  /\ pc[r] \in {"call", "read"}
  /\ Raise(r, transient)
  /\ UNCHANGED <<mode, conn, attempt, got, evDicts, headersSent, wire,
                 answer, metering, log, paid>>

(* The iterator yields an event.  A streaming client's copy goes into      *)
(* ev_dicts before it is relayed.                                          *)
NextEvent(r) ==
  /\ pc[r] = "read"
  /\ got[r] < Events
  /\ got' = [got EXCEPT ![r] = @ + 1]
  /\ paid' = IF got[r] + 1 \in UsageEvents THEN paid \cup {<<r, attempt[r]>>}
                                           ELSE paid
  /\ IF mode[r] = "stream"
       THEN /\ evDicts' = [evDicts EXCEPT ![r] = got[r] + 1]
            /\ Goto(r, IF headersSent[r] THEN "write" ELSE "headers")
       ELSE UNCHANGED <<evDicts, pc>>
  /\ UNCHANGED <<mode, conn, attempt, headersSent, wire, answer, metering, log>>

(* Seeded defect: the JSON message is relayed before usage is captured. *)
EndOfStream_replyFirst(r) ==
  /\ pc[r] = "read"
  /\ evDicts' = [evDicts EXCEPT ![r] = got[r]]
  /\ answer' = [answer EXCEPT ![r] =
                  IF mode[r] = "json" /\ Writable(r) THEN "200" ELSE @]
  /\ Goto(r, "settle")
  /\ UNCHANGED <<mode, conn, attempt, got, headersSent, wire, metering, log, paid>>

(* The iterator is exhausted, at the end of the stream or because the      *)
(* response body ended early.                                              *)
EndOfStream(r) ==
  /\ pc[r] = "read"
  /\ evDicts' = [evDicts EXCEPT ![r] = got[r]]
  /\ Goto(r, "settle")
  /\ UNCHANGED <<mode, conn, attempt, got, headersSent, wire, answer,
                 metering, log, paid>>

(* end_headers writes to the socket outside the inner try: a dead client   *)
(* raises into the handler of upstream errors, where ConnectionResetError  *)
(* matches the marker "connection" and BrokenPipeError matches none.       *)
SendHeaders(r) ==
  /\ pc[r] = "headers"
  /\ \/ /\ Writable(r)
        /\ headersSent' = [headersSent EXCEPT ![r] = TRUE]
        /\ Goto(r, "write")
        /\ Written(r)
     \/ /\ WriteRaises(r)
        /\ Raise(r, conn[r] = "reset")
        /\ UNCHANGED headersSent
  /\ UNCHANGED <<mode, attempt, got, evDicts, wire, answer, metering, log, paid>>

(* Seeded defect: returns when the client hung up, instead of breaking. *)
WriteFrame_returns(r) ==
  /\ pc[r] = "write"
  /\ \/ /\ Writable(r)
        /\ wire' = [wire EXCEPT ![r] = Append(@, <<attempt[r], got[r]>>)]
        /\ Goto(r, "read")
        /\ Written(r)
     \/ /\ WriteRaises(r)
        /\ Goto(r, "done")
        /\ UNCHANGED wire
  /\ UNCHANGED <<mode, attempt, got, evDicts, headersSent, answer, metering,
                 log, paid>>

(* Write and flush one frame; a client that hung up ends the relay. *)
WriteFrame(r) ==
  /\ pc[r] = "write"
  /\ \/ /\ Writable(r)
        /\ wire' = [wire EXCEPT ![r] = Append(@, <<attempt[r], got[r]>>)]
        /\ Goto(r, "read")
        /\ Written(r)
     \/ /\ WriteRaises(r)
        /\ Goto(r, "settle")
        /\ UNCHANGED wire
  /\ UNCHANGED <<mode, attempt, got, evDicts, headersSent, answer, metering,
                 log, paid>>

(* Seeded defects: ev_dicts survives into the next attempt; the loop       *)
(* counter does not advance.                                               *)
Retry_keepsEvents(r) ==
  /\ pc[r] = "backoff"
  /\ attempt' = [attempt EXCEPT ![r] = @ + 1]
  /\ got' = [got EXCEPT ![r] = 0]
  /\ Goto(r, "call")
  /\ UNCHANGED <<mode, conn, evDicts, headersSent, wire, answer, metering,
                 log, paid>>

Retry_forever(r) ==
  /\ pc[r] = "backoff"
  /\ got' = [got EXCEPT ![r] = 0]
  /\ evDicts' = [evDicts EXCEPT ![r] = 0]
  /\ Goto(r, "call")
  /\ UNCHANGED <<mode, conn, attempt, headersSent, wire, answer, metering,
                 log, paid>>

(* The backoff is over: the next iteration of the retry loop. *)
Retry(r) ==
  /\ pc[r] = "backoff"
  /\ attempt' = [attempt EXCEPT ![r] = @ + 1]
  /\ got' = [got EXCEPT ![r] = 0]
  /\ evDicts' = [evDicts EXCEPT ![r] = 0]
  /\ Goto(r, "call")
  /\ UNCHANGED <<mode, conn, headersSent, wire, answer, metering, log, paid>>

(* No event and no header: a clean 502. *)
GiveUp(r) ==
  /\ pc[r] = "settle"
  /\ evDicts[r] = 0 /\ ~headersSent[r]
  /\ answer' = [answer EXCEPT ![r] = IF Writable(r) THEN "502" ELSE @]
  /\ Goto(r, "done")
  /\ UNCHANGED <<mode, conn, attempt, got, evDicts, headersSent, wire,
                 metering, log, paid>>

(* UsageSink.path_for: the file of the run id the request carries.  The    *)
(* first definition is a seeded defect: every row in one default file.     *)
FileOf_default(r) == CHOOSE t \in Tags : \A s \in Tags : TRUE
FileOf(r) == TagOf[r]

(* usage_from_sse and extract_usage over ev_dicts, then UsageSink.write:   *)
(* no row without usage, and a failing write is swallowed.                 *)
LogUsage(r) ==
  /\ pc[r] = "settle"
  /\ evDicts[r] > 0 \/ headersSent[r]
  /\ \/ /\ UsageEvents \cap 1..evDicts[r] = {}
        /\ metering' = [metering EXCEPT ![r] = "nousage"]
        /\ UNCHANGED log
     \/ /\ UsageEvents \cap 1..evDicts[r] # {}
        /\ metering' = [metering EXCEPT ![r] = "row"]
        /\ log' = [log EXCEPT ![FileOf(r)] =
                     Append(@, [req |-> r, usage |-> <<attempt[r], evDicts[r]>>])]
     \/ /\ UsageEvents \cap 1..evDicts[r] # {}
        /\ metering' = [metering EXCEPT ![r] = "failed"]
        /\ UNCHANGED log
  /\ Goto(r, "span")
  /\ UNCHANGED <<mode, conn, attempt, got, evDicts, headersSent, wire,
                 answer, paid>>

(* The span is written; a buffered client only now gets its JSON message. *)
Reply(r) ==
  /\ pc[r] = "span"
  /\ answer' = [answer EXCEPT ![r] =
                  IF headersSent[r] \/ (mode[r] = "json" /\ Writable(r))
                    THEN "200" ELSE @]
  /\ Goto(r, "done")
  /\ UNCHANGED <<mode, conn, attempt, got, evDicts, headersSent, wire,
                 metering, log, paid>>

HangUp(r) ==
  /\ pc[r] # "done"
  /\ Leave(r)
  /\ UNCHANGED <<pc, mode, attempt, got, evDicts, headersSent, wire, answer,
                 metering, log, paid>>

Handler(r) ==
  \/ AnswerLocally(r)
  \/ Arrive(r)
  \/ OpenStream(r)
  \/ \E transient \in BOOLEAN : UpstreamFails(r, transient)
  \/ NextEvent(r)
  \/ EndOfStream(r)
  \/ SendHeaders(r)
  \/ WriteFrame(r)
  \/ Retry(r)
  \/ GiveUp(r)
  \/ LogUsage(r)
  \/ Reply(r)

(* Every request served: the gateway then only waits. *)
Quiet == (\A r \in Reqs : pc[r] = "done") /\ UNCHANGED vars

Next == \/ \E r \in Reqs : Handler(r) \/ HangUp(r)
        \/ Quiet

Spec == Init /\ [][Next]_vars

(* A handler thread keeps running, and an upstream call answers or raises  *)
(* (the SDK bounds each read); a client need not hang up.                  *)
FairSpec == Spec /\ \A r \in Reqs : WF_vars(Handler(r))

-------------------------------------------------------------------------------
Metered(r) == metering[r] \in {"row", "failed"}

(* What a streaming client receives is a gapless prefix of ONE attempt's   *)
(* stream, in order, whatever was retried before: "once bytes are on the   *)
(* wire we can't restart cleanly" (_bridge_vertex).                        *)
WireIsOneAttempt ==
  \A r \in Reqs : \A k \in DOMAIN wire[r] : wire[r][k] = <<attempt[r], k>>

(* A frame that carries usage and reached the client has been paid for: by *)
(* the time the handler ends its row is in the run's file and covers at    *)
(* least what was relayed, or the disk refused it.  It must survive a      *)
(* mid-stream upstream error and a client that hangs up.                   *)
RelayedUsageIsMetered ==
  \A r \in Reqs :
    /\ pc[r] = "done"
    /\ \E k \in DOMAIN wire[r] : wire[r][k][2] \in UsageEvents
    => \/ metering[r] = "failed"
       \/ \E i \in DOMAIN log[TagOf[r]] :
            /\ log[TagOf[r]][i].req = r
            /\ log[TagOf[r]][i].usage[1] = attempt[r]
            /\ log[TagOf[r]][i].usage[2] >= Len(wire[r])

(* A row states usage that Vertex reported in the very attempt it names:   *)
(* nothing left over from an attempt that was abandoned.                   *)
NoPhantomRow ==
  \A t \in Tags : \A i \in DOMAIN log[t] :
    <<log[t][i].req, log[t][i].usage[1]>> \in paid

(* Usage that was read is handed to the sink but in two cases: its attempt *)
(* was retried, or it was the last attempt of a buffered client and broke  *)
(* off in the middle (the client then gets the 502).  What the sink cannot *)
(* write is lost all the same, and counts as Metered here.                 *)
UnmeteredOnlyIfAbandoned ==
  \A r \in Reqs : \A a \in 0..MaxRetries :
    pc[r] = "done" /\ <<r, a>> \in paid =>
      \/ a < attempt[r]
      \/ Metered(r)
      \/ mode[r] = "json" /\ evDicts[r] = 0 /\ answer[r] # "200"

(* A buffered client's 200 comes after the capture of its usage, so that a *)
(* reader who waits for the reply finds the row.                           *)
RowBeforeJsonReply ==
  \A r \in Reqs : mode[r] = "json" /\ answer[r] = "200" => metering[r] # "none"

(* Never a hang: a request that reached Vertex is finished. *)
EveryRequestEnds == \A r \in Reqs : pc[r] = "call" ~> pc[r] = "done"

(* The handler implements the gateway's promise.  A request is metered     *)
(* while its row is in the file and its handler still runs.                *)
Phase(r) == CASE pc[r] = "idle" -> "new"
              [] pc[r] = "done" -> "closed"
              [] pc[r] = "span" /\ metering[r] = "row" -> "metered"
              [] OTHER -> "open"

Meter == INSTANCE UsageMeter WITH phase <- [r \in Reqs |-> Phase(r)]

ImplementsMeter == Meter!MeterSpec
MeteredOnceInOwnFile == Meter!MeteredOnceInOwnFile

-------------------------------------------------------------------------------
(* What the places of the handler have in common; with WireIsOneAttempt    *)
(* and NoPhantomRow it is inductive.                                       *)
PlaceInv(r) ==
  /\ evDicts[r] <= got[r]
  /\ Len(wire[r]) <= got[r]
  /\ \/ mode[r] = "stream" /\ evDicts[r] = got[r]
     \/ /\ mode[r] = "json"
        /\ ~headersSent[r]
        /\ pc[r] \notin {"headers", "write"}
  /\ ~headersSent[r] => wire[r] = <<>>
  /\ pc[r] \in {"idle", "call", "headers", "backoff"} => ~headersSent[r]
  /\ pc[r] \in {"idle", "call"} => got[r] = 0
  /\ pc[r] = "backoff" => attempt[r] < MaxRetries
  /\ pc[r] = "headers" => got[r] = 1
  /\ pc[r] = "read" =>
       \/ headersSent[r] /\ Len(wire[r]) = got[r]
       \/ ~headersSent[r] /\ mode[r] = "stream" /\ got[r] = 0
       \/ mode[r] = "json" /\ evDicts[r] = 0
  /\ pc[r] = "write" => headersSent[r] /\ got[r] = Len(wire[r]) + 1
  /\ UsageEvents \cap 1..got[r] # {} => <<r, attempt[r]>> \in paid
  /\ metering[r] # "none" => pc[r] \in {"span", "done"}

HandlerInv == \A r \in Reqs : PlaceInv(r)

(* What the outcome of the capture says about the file and the buffer. *)
MeteringInv ==
  \A r \in Reqs :
    /\ pc[r] = "span" \/ (pc[r] = "done" /\ headersSent[r]) => metering[r] # "none"
    /\ metering[r] = "nousage" => UsageEvents \cap 1..evDicts[r] = {}
    /\ metering[r] = "row" =>
         \E i \in DOMAIN log[TagOf[r]] :
           log[TagOf[r]][i] = [req |-> r, usage |-> <<attempt[r], evDicts[r]>>]

-------------------------------------------------------------------------------
(* A claim of the source that the code does not keep.                      *)

(* What is retried is "a TRANSIENT Vertex/upstream error": a write to the  *)
(* client that fails never starts another paid call.                       *)
OnlyUpstreamErrorsRetry ==
  [][\A r \in Reqs : pc[r] = "headers" => pc'[r] # "backoff"]_vars
===============================================================================
