---------------------------- MODULE PassthroughProxy ----------------------------
(***************************************************************************)
(* The usage gateway in its passthrough mode (bench/usage_gateway.py,      *)
(* _Handler._passthrough): a request is forwarded verbatim to another      *)
(* Anthropic endpoint; an event stream is relayed chunk by chunk and its   *)
(* usage logged after the last one, any other body is drained, logged and  *)
(* only then relayed.  The client may hang up and the upstream may break   *)
(* off at any moment.                                                      *)
(***************************************************************************)
EXTENDS Naturals, Sequences, ClientSocket

CONSTANTS
  Tags,         (* run ids                                                *)
  TagOf,        (* the x-ccb-run-id header of a request                   *)
  Chunks,       (* 8 KiB reads that make up a complete event stream       *)
  UsageChunks   (* the chunks in which a usage event ends                 *)

ASSUME ProxyAssumption ==
  /\ TagOf \in [Reqs -> Tags]
  /\ Chunks \in Nat \ {0}
  /\ UsageChunks \subseteq 1..Chunks

VARIABLES
  pc,        (* where the handler of a request stands                     *)
  body,      (* what the upstream sends: "stream", "message" (a JSON body *)
             (* with usage), "other" (count_tokens, ...); "none" if not   *)
             (* known yet                                                 *)
  chunks,    (* length of the side copy of the stream                     *)
  wire,      (* chunks written to the client                              *)
  answer,    (* what the client was sent                                  *)
  metering,  (* what became of the usage row                              *)
  log,       (* log[t]: the rows of <t>.usage.jsonl                       *)
  broke      (* history: the handlers whose upstream read raised          *)

vars == <<pc, body, conn, chunks, wire, answer, metering, log, broke>>

Usages == 1..Chunks     (* a row says how much of the body it was read off *)
Row == [req : Reqs, usage : Usages]

TypeOK ==
  /\ pc \in [Reqs -> {"idle", "connect", "head", "read", "write", "log",
                      "drain", "logjson", "reply", "close", "done"}]
  /\ body \in [Reqs -> {"none", "stream", "message", "other"}]
  /\ conn \in [Reqs -> ConnStates]
  /\ chunks \in [Reqs -> 0..Chunks]
  /\ wire \in [Reqs -> 0..Chunks]
  /\ answer \in [Reqs -> {"none", "200", "error", "504"}]
  /\ metering \in [Reqs -> {"none", "row", "nousage", "failed"}]
  /\ log \in [Tags -> Seq(Row)]
  /\ broke \subseteq Reqs

Init ==
  /\ pc = [r \in Reqs |-> "idle"]
  /\ body = [r \in Reqs |-> "none"]
  /\ ConnInit
  /\ chunks = [r \in Reqs |-> 0]
  /\ wire = [r \in Reqs |-> 0]
  /\ answer = [r \in Reqs |-> "none"]
  /\ metering = [r \in Reqs |-> "none"]
  /\ log = [t \in Tags |-> <<>>]
  /\ broke = {}

Goto(r, l) == pc' = [pc EXCEPT ![r] = l]

-------------------------------------------------------------------------------
Arrive(r) ==
  /\ pc[r] = "idle"
  /\ Goto(r, "connect")
  /\ UNCHANGED <<body, conn, chunks, wire, answer, metering, log, broke>>

(* urlopen raises: a non-2xx answer is relayed with its status and body,   *)
(* anything else becomes a 504.  Neither is metered.                       *)
Refused(r) ==
  /\ pc[r] = "connect"
  /\ \E status \in {"error", "504"} :
       answer' = [answer EXCEPT ![r] = IF Writable(r) THEN status ELSE @]
  /\ Goto(r, "done")
  /\ UNCHANGED <<body, conn, chunks, wire, metering, log, broke>>

(* urlopen returns: the content type decides how the body is relayed. *)
Answered(r) ==
  /\ pc[r] = "connect"
  /\ \E b \in {"stream", "message", "other"} :
       /\ body' = [body EXCEPT ![r] = b]
       /\ Goto(r, IF b = "stream" THEN "head" ELSE "drain")
  /\ UNCHANGED <<conn, chunks, wire, answer, metering, log, broke>>

(* resp.read raises (a timeout, a reset, an incomplete body): the          *)
(* exception leaves the relay and nothing more is done for the request.    *)
UpstreamBreaks(r) ==
  /\ pc[r] \in {"read", "drain"}
  /\ broke' = broke \cup {r}
  /\ Goto(r, "done")
  /\ UNCHANGED <<body, conn, chunks, wire, answer, metering, log>>

(* The status line and headers of an event stream. *)
StreamHeaders(r) ==
  /\ pc[r] = "head"
  /\ \/ /\ Writable(r)
        /\ answer' = [answer EXCEPT ![r] = "200"]
        /\ Goto(r, "read")
        /\ Written(r)
     \/ /\ WriteRaises(r)
        /\ Goto(r, "done")
        /\ UNCHANGED answer
  /\ UNCHANGED <<body, chunks, wire, metering, log, broke>>

(* A chunk joins the side copy before it is relayed; an empty read ends    *)
(* the stream, be it complete or cut short.                                *)
ReadChunk(r) ==
  /\ pc[r] = "read"
  /\ \/ /\ chunks[r] < Chunks
        /\ chunks' = [chunks EXCEPT ![r] = @ + 1]
        /\ Goto(r, "write")
     \/ /\ Goto(r, "log")
        /\ UNCHANGED chunks
  /\ UNCHANGED <<body, conn, wire, answer, metering, log, broke>>

(* A client that hung up ends the handler. *)
WriteChunk(r) ==
  /\ pc[r] = "write"
  /\ \/ /\ Writable(r)
        /\ wire' = [wire EXCEPT ![r] = chunks[r]]
        /\ Goto(r, "read")
        /\ Written(r)
     \/ /\ WriteRaises(r)
        /\ Goto(r, "done")
        /\ UNCHANGED wire
  /\ UNCHANGED <<body, chunks, answer, metering, log, broke>>

(* resp.read() of a whole body.                                            *)
Drain(r) ==
  /\ pc[r] = "drain"
  /\ Goto(r, "logjson")
  /\ UNCHANGED <<body, conn, chunks, wire, answer, metering, log, broke>>

(* UsageSink.path_for: the file of the run id the request carries.  The    *)
(* first definition is a seeded defect: every row in one default file.     *)
FileOf_default(r) == CHOOSE t \in Tags : \A s \in Tags : TRUE
FileOf(r) == TagOf[r]

(* UsageSink.write: no row without usage; a failing write is swallowed. *)
Capture(r, hasUsage, u) ==
  \/ /\ ~hasUsage
     /\ metering' = [metering EXCEPT ![r] = "nousage"]
     /\ UNCHANGED log
  \/ /\ hasUsage
     /\ metering' = [metering EXCEPT ![r] = "row"]
     /\ log' = [log EXCEPT ![FileOf(r)] = Append(@, [req |-> r, usage |-> u])]
  \/ /\ hasUsage
     /\ metering' = [metering EXCEPT ![r] = "failed"]
     /\ UNCHANGED log

(* The tail of _relay_stream, and a seeded defect that looks for usage in  *)
(* the last chunk only.                                                    *)
LogStream_lastChunk(r) ==
  /\ pc[r] = "log"
  /\ Capture(r, chunks[r] \in UsageChunks, chunks[r])
  /\ Goto(r, "close")
  /\ UNCHANGED <<body, conn, chunks, wire, answer, broke>>

LogStream(r) ==
  /\ pc[r] = "log"
  /\ Capture(r, UsageChunks \cap 1..chunks[r] # {}, chunks[r])
  /\ Goto(r, "close")
  /\ UNCHANGED <<body, conn, chunks, wire, answer, broke>>

(* _log_json_usage.  A body that was cut short does not parse. *)
LogJson(r) ==
  /\ pc[r] = "logjson"
  /\ \E parses \in BOOLEAN : Capture(r, body[r] = "message" /\ parses, Chunks)
  /\ Goto(r, "reply")
  /\ UNCHANGED <<body, conn, chunks, wire, answer, broke>>

(* The rest of _relay_buffered. *)
ReplyBuffered(r) ==
  /\ pc[r] = "reply"
  /\ answer' = [answer EXCEPT ![r] = IF Writable(r) THEN "200" ELSE @]
  /\ Goto(r, "close")
  /\ UNCHANGED <<body, conn, chunks, wire, metering, log, broke>>

(* The relay returns and the connection is closed: HTTP/1.0, one request   *)
(* each.                                                                   *)
Close(r) ==
  /\ pc[r] = "close"
  /\ Goto(r, "done")
  /\ UNCHANGED <<body, conn, chunks, wire, answer, metering, log, broke>>

HangUp(r) ==
  /\ pc[r] # "done"
  /\ Leave(r)
  /\ UNCHANGED <<pc, body, chunks, wire, answer, metering, log, broke>>

Handler(r) ==
  \/ Arrive(r)
  \/ Refused(r)
  \/ Answered(r)
  \/ UpstreamBreaks(r)
  \/ StreamHeaders(r)
  \/ ReadChunk(r)
  \/ WriteChunk(r)
  \/ Drain(r)
  \/ LogStream(r)
  \/ LogJson(r)
  \/ ReplyBuffered(r)
  \/ Close(r)

(* Every request served: the gateway then only waits. *)
Quiet == (\A r \in Reqs : pc[r] = "done") /\ UNCHANGED vars

Next == \/ \E r \in Reqs : Handler(r) \/ HangUp(r)
        \/ Quiet

Spec == Init /\ [][Next]_vars

-------------------------------------------------------------------------------
RowsOf(r) == {i \in DOMAIN log[TagOf[r]] : log[TagOf[r]][i].req = r}

(* Vertex mode bills what was read, this mode only what was delivered: the *)
(* row of a stream covers exactly the chunks the client was sent, because  *)
(* a client that goes away takes the row with it (_relay_stream).          *)
StreamRowIsDelivered ==
  \A r \in Reqs : body[r] = "stream" =>
    \A i \in RowsOf(r) : log[TagOf[r]][i].usage = wire[r]

(* "no read-after-write race for callers that inspect the JSONL            *)
(* immediately" (_relay_buffered): a buffered body is with the client only *)
(* when its row, if it gets one, is in the file.                           *)
RowBeforeBufferedReply ==
  \A r \in Reqs : body[r] \in {"message", "other"} /\ answer[r] = "200" =>
    \/ metering[r] \in {"nousage", "failed"}
    \/ RowsOf(r) # {}

(* Usage that reached the client of a stream goes unmetered only if the    *)
(* upstream raised, the client went away or the disk refused the row.      *)
UnmeteredOnlyIfBroken ==
  \A r \in Reqs :
    /\ pc[r] = "done" /\ body[r] = "stream"
    /\ UsageChunks \cap 1..wire[r] # {}
    /\ RowsOf(r) = {}
    => r \in broke \/ conn[r] = "gone" \/ metering[r] = "failed"

(* The handler implements the gateway's promise. *)
Phase(r) == CASE pc[r] = "idle" -> "new"
              [] pc[r] = "done" -> "closed"
              [] pc[r] \in {"reply", "close"} /\ metering[r] = "row" -> "metered"
              [] OTHER -> "open"

Meter == INSTANCE UsageMeter WITH phase <- [r \in Reqs |-> Phase(r)]

ImplementsMeter == Meter!MeterSpec
===============================================================================
