------------------------- MODULE PassthroughProxyProofs -------------------------
(***************************************************************************)
(* Theorems about PassthroughProxy, for any set of requests and streams of *)
(* any length.                                                             *)
(***************************************************************************)
EXTENDS PassthroughProxy, TLAPS

Early == {"idle", "connect", "head", "read", "write", "log", "drain", "logjson"}

(* Where a handler stands, against what it has read, relayed and metered.  *)
PlaceInv(r) ==
  /\ pc[r] \in {"idle", "connect"} => body[r] = "none"
  /\ pc[r] \in {"head", "read", "write", "log"} => body[r] = "stream"
  /\ pc[r] \in {"drain", "logjson", "reply"} => body[r] \in {"message", "other"}
  /\ pc[r] \in Early => metering[r] = "none"
  /\ pc[r] = "reply" => metering[r] # "none"
  /\ pc[r] \in {"idle", "connect", "head"} => chunks[r] = 0 /\ wire[r] = 0
  /\ pc[r] \in {"read", "log"} => wire[r] = chunks[r]
  /\ pc[r] \in {"idle", "connect", "drain", "logjson"} => answer[r] # "200"

(* An answer that is out has its metering behind it.                       *)
AnswerInv(r) ==
  /\ body[r] \in {"message", "other"} /\ answer[r] = "200" => metering[r] # "none"
  /\ pc[r] \in {"close", "done"} /\ body[r] = "stream" /\ UsageChunks \cap 1..wire[r] # {}
       => metering[r] \in {"row", "failed"} \/ r \in broke \/ conn[r] = "gone"

(* Metering and files agree, and a stream's row says what was delivered.   *)
RowFor(t, i) ==
  /\ metering[log[t][i].req] = "row"
  /\ body[log[t][i].req] = "stream" => log[t][i].usage = wire[log[t][i].req]
RowsInv ==
  /\ \A t \in Tags : \A i \in DOMAIN log[t] : RowFor(t, i)
  /\ \A r \in Reqs : metering[r] = "row" => \E i \in DOMAIN log[TagOf[r]] : log[TagOf[r]][i].req = r

HandlerInv == \A r \in Reqs : PlaceInv(r) /\ AnswerInv(r)

(* The inductive invariant. *)
IInv ==
  /\ TypeOK
  /\ HandlerInv
  /\ RowsInv

-------------------------------------------------------------------------------
(* Appending leaves the elements of a sequence where they are. *)
LEMMA AppendFacts ==
  ASSUME NEW S, NEW s \in Seq(S), NEW x
  PROVE  /\ Len(s) \in Nat
         /\ DOMAIN s = 1..Len(s)
         /\ DOMAIN Append(s, x) = 1..(Len(s) + 1)
         /\ \A i \in 1..Len(s) : Append(s, x)[i] = s[i]
         /\ Append(s, x)[Len(s) + 1] = x
  OBVIOUS

LEMMA InitInv == Init => IInv
  <1> SUFFICES ASSUME Init PROVE IInv
    OBVIOUS
  <1>1. TypeOK
    <2>1. 0 \in 0..Chunks /\ <<>> \in Seq(Row)
      BY ProxyAssumption
    <2> QED
      BY <2>1 DEF Init, TypeOK, ConnInit, ConnStates
  <1>2. HandlerInv
    BY DEF Init, HandlerInv, PlaceInv, AnswerInv
  <1>3. RowsInv
    BY ProxyAssumption DEF Init, RowsInv
  <1> QED
    BY <1>1, <1>2, <1>3 DEF IInv

(* A write to the client leaves its socket in one of the four states. *)
LEMMA WriteType ==
  ASSUME TypeOK, NEW r \in Reqs, Written(r) \/ WriteRaises(r)
  PROVE  conn' \in [Reqs -> ConnStates] /\ \A s \in Reqs \ {r} : conn'[s] = conn[s]
  <1>1. CASE WriteRaises(r)
    BY <1>1 DEF WriteRaises, TypeOK, ConnStates
  <1>2. CASE Written(r)
    <2>1. PICK c \in ConnStates : conn' = [conn EXCEPT ![r] = c]
      BY <1>2 DEF Written, ConnStates
    <2> QED
      BY <2>1 DEF TypeOK
  <1> QED
    BY <1>1, <1>2

(* Capturing leaves the files alone or appends one row to the run's own.   *)
LEMMA CaptureStep ==
  ASSUME TypeOK, NEW r \in Reqs, NEW has \in BOOLEAN, NEW u \in Usages, Capture(r, has, u)
  PROVE  /\ log' \in [Tags -> Seq(Row)]
         /\ metering' \in [Reqs -> {"none", "row", "nousage", "failed"}]
         /\ \A s \in Reqs \ {r} : metering'[s] = metering[s]
         /\ \/ log' = log /\ metering'[r] \in {"nousage", "failed"}
            \/ /\ metering'[r] = "row"
               /\ log' = [log EXCEPT ![TagOf[r]] = Append(@, [req |-> r, usage |-> u])]
         /\ has => metering'[r] \in {"row", "failed"}
  <1>0. TagOf[r] \in Tags /\ log \in [Tags -> Seq(Row)] /\ [req |-> r, usage |-> u] \in Row
    BY ProxyAssumption DEF TypeOK, Row
  <1>1. CASE ~has /\ metering' = [metering EXCEPT ![r] = "nousage"] /\ log' = log
    BY <1>0, <1>1 DEF TypeOK
  <1>2. CASE has /\ metering' = [metering EXCEPT ![r] = "failed"] /\ log' = log
    BY <1>0, <1>2 DEF TypeOK
  <1>3. CASE /\ has /\ metering' = [metering EXCEPT ![r] = "row"]
             /\ log' = [log EXCEPT ![TagOf[r]] = Append(@, [req |-> r, usage |-> u])]
    <2>1. Append(log[TagOf[r]], [req |-> r, usage |-> u]) \in Seq(Row)
      BY <1>0
    <2> QED
      BY <1>0, <1>3, <2>1 DEF TypeOK
  <1> QED
    BY <1>1, <1>2, <1>3 DEF Capture, FileOf

(* What the two capturing steps do. *)
Captured(r) ==
  \E has \in BOOLEAN, u \in Usages :
    /\ Capture(r, has, u)
    /\ body[r] = "stream" => u = wire[r] /\ (UsageChunks \cap 1..wire[r] # {} => has)

LEMMA StreamCaptured ==
  ASSUME TypeOK, NEW r \in Reqs, PlaceInv(r), LogStream(r)
  PROVE  Captured(r) \/ (log' = log /\ metering' = [metering EXCEPT ![r] = "nousage"]
                         /\ UsageChunks \cap 1..wire[r] = {})
  <1>1. /\ chunks[r] = wire[r] /\ chunks[r] \in 0..Chunks /\ body[r] = "stream"
        /\ Capture(r, UsageChunks \cap 1..chunks[r] # {}, chunks[r])
    BY DEF LogStream, PlaceInv, TypeOK
  <1>2. CASE UsageChunks \cap 1..chunks[r] # {}
    <2>1. chunks[r] \in Usages
      BY <1>1, <1>2, ProxyAssumption DEF Usages
    <2>2. Capture(r, TRUE, chunks[r])
      BY <1>1, <1>2 DEF Capture
    <2> QED
      BY <1>1, <2>1, <2>2 DEF Captured
  <1>3. CASE UsageChunks \cap 1..chunks[r] = {}
    BY <1>1, <1>3 DEF Capture
  <1> QED
    BY <1>2, <1>3

LEMMA JsonCaptured ==
  ASSUME TypeOK, NEW r \in Reqs, PlaceInv(r), LogJson(r)
  PROVE  Captured(r)
  <1>1. body[r] # "stream" /\ Chunks \in Usages
    BY ProxyAssumption DEF LogJson, PlaceInv, Usages
  <1>2. PICK parses \in BOOLEAN : Capture(r, body[r] = "message" /\ parses, Chunks)
    BY DEF LogJson
  <1>3. (body[r] = "message" /\ parses) \in BOOLEAN
    OBVIOUS
  <1> QED
    BY <1>1, <1>2, <1>3 DEF Captured
(* What becomes of the row, the files and the metering of the others.      *)
LEMMA MeterStep ==
  ASSUME TypeOK, NEW r \in Reqs, PlaceInv(r), LogStream(r) \/ LogJson(r)
  PROVE  /\ log' \in [Tags -> Seq(Row)]
         /\ metering' \in [Reqs -> {"none", "row", "nousage", "failed"}]
         /\ \A s \in Reqs \ {r} : metering'[s] = metering[s]
         /\ \/ log' = log /\ metering'[r] \in {"nousage", "failed"}
            \/ /\ metering'[r] = "row"
               /\ \E u \in Usages :
                    /\ log' = [log EXCEPT ![TagOf[r]] = Append(@, [req |-> r, usage |-> u])]
                    /\ body[r] = "stream" => u = wire[r]
         /\ body[r] = "stream" /\ UsageChunks \cap 1..wire[r] # {} => metering'[r] \in {"row", "failed"}
  <1>1. CASE Captured(r)
    <2>1. PICK has \in BOOLEAN, u \in Usages :
            /\ Capture(r, has, u)
            /\ body[r] = "stream" => u = wire[r] /\ (UsageChunks \cap 1..wire[r] # {} => has)
      BY <1>1 DEF Captured
    <2> QED
      BY <2>1, CaptureStep
  <1>2. CASE /\ log' = log /\ metering' = [metering EXCEPT ![r] = "nousage"]
             /\ UsageChunks \cap 1..wire[r] = {}
    BY <1>2 DEF TypeOK
  <1> QED
    BY <1>1, <1>2, StreamCaptured, JsonCaptured

(* Types. *)
LEMMA TypeStep ==
  ASSUME TypeOK, NEW r \in Reqs, PlaceInv(r), Handler(r) \/ HangUp(r)
  PROVE  TypeOK'
  <1> USE ProxyAssumption DEF TypeOK, Goto
  <1>1. CASE Arrive(r) \/ Drain(r) \/ Close(r)
    BY <1>1 DEF Arrive, Drain, Close
  <1>2. CASE Refused(r)
    <2>1. PICK status \in {"error", "504"} :
            answer' = [answer EXCEPT ![r] = IF Writable(r) THEN status ELSE @]
      BY <1>2 DEF Refused
    <2> QED
      BY <1>2, <2>1 DEF Refused
  <1>3. CASE UpstreamBreaks(r)
    BY <1>3 DEF UpstreamBreaks
  <1>4. CASE ReplyBuffered(r)
    BY <1>4 DEF ReplyBuffered
  <1>5. CASE Answered(r)
    BY <1>5 DEF Answered
  <1>6. CASE StreamHeaders(r)
    <2>1. conn' \in [Reqs -> ConnStates]
      BY <1>6, WriteType DEF StreamHeaders
    <2> QED
      BY <1>6, <2>1 DEF StreamHeaders
  <1>7. CASE ReadChunk(r)
    <2>1. chunks' \in [Reqs -> 0..Chunks]
      <3>1. chunks' = chunks \/ (chunks[r] < Chunks /\ chunks' = [chunks EXCEPT ![r] = chunks[r] + 1])
        BY <1>7 DEF ReadChunk
      <3>2. chunks \in [Reqs -> 0..Chunks] /\ \A n \in 0..Chunks : n < Chunks => n + 1 \in 0..Chunks
        OBVIOUS
      <3> HIDE DEF TypeOK
      <3> QED
        BY <3>1, <3>2
    <2> QED
      BY <1>7, <2>1 DEF ReadChunk
  <1>8. CASE WriteChunk(r)
    <2>1. conn' \in [Reqs -> ConnStates]
      BY <1>8, WriteType DEF WriteChunk
    <2>2. wire' \in [Reqs -> 0..Chunks]
      BY <1>8 DEF WriteChunk
    <2>3. pc' \in [Reqs -> {"idle", "connect", "head", "read", "write", "log",
                           "drain", "logjson", "reply", "close", "done"}]
      BY <1>8 DEF WriteChunk
    <2> QED
      BY <1>8, <2>1, <2>2, <2>3 DEF WriteChunk
  <1>9. CASE LogStream(r) \/ LogJson(r)
    <2>1. log' \in [Tags -> Seq(Row)] /\ metering' \in [Reqs -> {"none", "row", "nousage", "failed"}]
      BY <1>9, MeterStep
    <2> QED
      BY <1>9, <2>1 DEF LogStream, LogJson
  <1>10. CASE HangUp(r)
    <2>1. conn' \in [Reqs -> ConnStates]
      BY <1>10 DEF HangUp, Leave, ConnStates
    <2> QED
      BY <1>10, <2>1 DEF HangUp
  <1> QED
    BY <1>1, <1>2, <1>3, <1>4, <1>5, <1>6, <1>7, <1>8, <1>9, <1>10 DEF Handler

-------------------------------------------------------------------------------
(* A step of another handler, as request s sees it. *)
Same(s) ==
  /\ pc'[s] = pc[s] /\ body'[s] = body[s] /\ conn'[s] = conn[s]
  /\ chunks'[s] = chunks[s] /\ wire'[s] = wire[s] /\ answer'[s] = answer[s]
  /\ metering'[s] = metering[s]
  /\ s \in broke' <=> s \in broke

(* The handlers share nothing but the files of the runs. *)
LEMMA OthersUnchanged ==
  ASSUME TypeOK, NEW r \in Reqs, PlaceInv(r), NEW s \in Reqs, r # s, Handler(r) \/ HangUp(r)
  PROVE  Same(s)
  <1> USE DEF TypeOK, Goto, Same
  <1>1. CASE Arrive(r) \/ Refused(r) \/ UpstreamBreaks(r) \/ Drain(r) \/ ReplyBuffered(r) \/ Close(r)
    BY <1>1 DEF Arrive, Refused, UpstreamBreaks, Drain, ReplyBuffered, Close
  <1>2. CASE Answered(r) \/ ReadChunk(r)
    BY <1>2 DEF Answered, ReadChunk
  <1>3. CASE StreamHeaders(r) \/ WriteChunk(r)
    <2>1. conn'[s] = conn[s]
      BY <1>3, WriteType DEF StreamHeaders, WriteChunk
    <2> QED
      BY <1>3, <2>1 DEF StreamHeaders, WriteChunk
  <1>4. CASE LogStream(r) \/ LogJson(r)
    <2>1. metering'[s] = metering[s]
      BY <1>4, MeterStep
    <2> QED
      BY <1>4, <2>1 DEF LogStream, LogJson
  <1>5. CASE HangUp(r)
    BY <1>5 DEF HangUp, Leave
  <1> QED
    BY <1>1, <1>2, <1>3, <1>4, <1>5 DEF Handler

(* Where the handler stands stays consistent with what it did. *)
LEMMA PlaceStep ==
  ASSUME TypeOK, TypeOK', NEW r \in Reqs, PlaceInv(r), Handler(r) \/ HangUp(r)
  PROVE  PlaceInv(r)'
  <1> USE DEF TypeOK, Goto, PlaceInv, Early
  <1>1. CASE Arrive(r) \/ Refused(r) \/ UpstreamBreaks(r) \/ Drain(r) \/ ReplyBuffered(r) \/ Close(r)
    BY <1>1 DEF Arrive, Refused, UpstreamBreaks, Drain, ReplyBuffered, Close
  <1>2. CASE Answered(r)
    BY <1>2 DEF Answered
  <1>3. CASE StreamHeaders(r)
    BY <1>3 DEF StreamHeaders
  <1>4. CASE ReadChunk(r)
    BY <1>4 DEF ReadChunk
  <1>5. CASE WriteChunk(r)
    BY <1>5 DEF WriteChunk
  <1>6. CASE LogStream(r) \/ LogJson(r)
    <2>1. metering'[r] # "none"
      BY <1>6, MeterStep
    <2> QED
      BY <1>6, <2>1 DEF LogStream, LogJson
  <1>7. CASE HangUp(r)
    BY <1>7 DEF HangUp
  <1> QED
    BY <1>1, <1>2, <1>3, <1>4, <1>5, <1>6, <1>7 DEF Handler

(* What is metered when the client has its answer. *)
LEMMA AnswerStep ==
  ASSUME TypeOK, TypeOK', NEW r \in Reqs, PlaceInv(r), AnswerInv(r), Handler(r) \/ HangUp(r)
  PROVE  AnswerInv(r)'
  <1> USE DEF TypeOK, Goto, PlaceInv, AnswerInv, Early
  <1>1. CASE Arrive(r) \/ Refused(r) \/ UpstreamBreaks(r) \/ Drain(r)
    BY <1>1 DEF Arrive, Refused, UpstreamBreaks, Drain
  <1>2. CASE ReplyBuffered(r) \/ Close(r)
    BY <1>2 DEF ReplyBuffered, Close
  <1>3. CASE Answered(r)
    BY <1>3 DEF Answered
  <1>4. CASE StreamHeaders(r)
    BY <1>4 DEF StreamHeaders, WriteRaises
  <1>5. CASE ReadChunk(r)
    BY <1>5 DEF ReadChunk
  <1>6. CASE WriteChunk(r)
    BY <1>6 DEF WriteChunk, WriteRaises
  <1>7. CASE LogStream(r) \/ LogJson(r)
    <2>1. /\ metering'[r] # "none"
          /\ body[r] = "stream" /\ UsageChunks \cap 1..wire[r] # {} => metering'[r] \in {"row", "failed"}
      BY <1>7, MeterStep
    <2>2. pc[r] \in {"log", "logjson"} /\ UNCHANGED <<body, answer, wire, broke, conn>>
      BY <1>7 DEF LogStream, LogJson
    <2> QED
      BY <2>1, <2>2
  <1>8. CASE HangUp(r)
    BY <1>8 DEF HangUp, Leave
  <1> QED
    BY <1>1, <1>2, <1>3, <1>4, <1>5, <1>6, <1>7, <1>8 DEF Handler
-------------------------------------------------------------------------------
(* What a row is about does not move any more. *)
LEMMA RowIsSettled ==
  ASSUME TypeOK, NEW r \in Reqs, PlaceInv(r), metering[r] = "row", Handler(r) \/ HangUp(r)
  PROVE  body'[r] = body[r] /\ wire'[r] = wire[r] /\ metering'[r] = metering[r]
  <1> USE DEF TypeOK, PlaceInv, Early
  <1>1. pc[r] \in {"reply", "close", "done"}
    OBVIOUS
  <1>2. ReplyBuffered(r) \/ Close(r) \/ HangUp(r)
    BY <1>1 DEF Handler, Arrive, Refused, Answered, UpstreamBreaks, StreamHeaders, ReadChunk, WriteChunk,
       Drain, LogStream, LogJson
  <1> QED
    BY <1>2 DEF ReplyBuffered, Close, HangUp

LEMMA LogUntouched ==
  ASSUME NEW r \in Reqs, Handler(r) \/ HangUp(r), ~(LogStream(r) \/ LogJson(r))
  PROVE  log' = log /\ metering' = metering
  BY DEF Handler, Arrive, Refused, Answered, UpstreamBreaks, StreamHeaders, ReadChunk, WriteChunk,
     Drain, ReplyBuffered, Close, HangUp

(* Metering, files and what was delivered go on to agree. *)
LEMMA RowsStep ==
  ASSUME IInv, TypeOK', NEW r \in Reqs, Handler(r) \/ HangUp(r)
  PROVE  RowsInv'
  <1>0. TypeOK /\ RowsInv /\ \A q \in Reqs : PlaceInv(q)
    BY DEF IInv, HandlerInv
  <1>1. \A q \in Reqs : metering[q] = "row" =>
          body'[q] = body[q] /\ wire'[q] = wire[q] /\ metering'[q] = "row"
    BY <1>0, RowIsSettled, OthersUnchanged DEF Same
  <1>2. \A t \in Tags : log[t] \in Seq(Row) /\ \A i \in DOMAIN log[t] : log[t][i].req \in Reqs
    <2> SUFFICES ASSUME NEW t \in Tags, NEW i \in DOMAIN log[t]
                 PROVE  log[t] \in Seq(Row) /\ log[t][i].req \in Reqs
      BY <1>0 DEF TypeOK
    <2>1. log[t] \in Seq(Row)
      BY <1>0 DEF TypeOK
    <2>2. log[t][i] \in Row
      BY <2>1
    <2> QED
      BY <2>1, <2>2 DEF Row
  <1>3. CASE ~(LogStream(r) \/ LogJson(r))
    <2>1. log' = log /\ metering' = metering
      BY <1>3, LogUntouched
    <2>2. \A t \in Tags : \A i \in DOMAIN log'[t] : RowFor(t, i)'
      BY <1>0, <1>1, <1>2, <2>1 DEF RowsInv, RowFor
    <2> QED
      BY <1>0, <2>1, <2>2 DEF RowsInv
  <1>4. CASE LogStream(r) \/ LogJson(r)
    <2>1. /\ metering[r] = "none" /\ UNCHANGED <<body, wire>>
          /\ \A s \in Reqs \ {r} : metering'[s] = metering[s]
      BY <1>0, <1>4, MeterStep DEF PlaceInv, Early, LogStream, LogJson
    <2>2. CASE log' = log /\ metering'[r] \in {"nousage", "failed"}
      <3>1. \A t \in Tags : \A i \in DOMAIN log'[t] : RowFor(t, i)'
        BY <1>0, <1>1, <1>2, <2>2 DEF RowsInv, RowFor
      <3> QED
        BY <1>0, <2>1, <2>2, <3>1 DEF RowsInv
    <2>3. CASE /\ metering'[r] = "row"
               /\ \E u \in Usages :
                    /\ log' = [log EXCEPT ![TagOf[r]] = Append(@, [req |-> r, usage |-> u])]
                    /\ body[r] = "stream" => u = wire[r]
      <3>1. PICK u \in Usages :
                    /\ log' = [log EXCEPT ![TagOf[r]] = Append(@, [req |-> r, usage |-> u])]
                    /\ body[r] = "stream" => u = wire[r]
        BY <2>3
      <3> DEFINE f == TagOf[r]
                 row == [req |-> r, usage |-> u]
      <3>2. f \in Tags /\ log[f] \in Seq(Row) /\ log'[f] = Append(log[f], row)
            /\ \A t \in Tags \ {f} : log'[t] = log[t]
        BY <1>0, <3>1, ProxyAssumption DEF TypeOK
      <3>3. row.req = r /\ row.usage = u
        OBVIOUS
      <3> HIDE DEF f, row
      <3>4. /\ Len(log[f]) \in Nat /\ DOMAIN log[f] = 1..Len(log[f])
            /\ DOMAIN log'[f] = 1..(Len(log[f]) + 1)
            /\ \A i \in 1..Len(log[f]) : log'[f][i] = log[f][i]
            /\ log'[f][Len(log[f]) + 1] = row
        BY <3>2, AppendFacts
      <3>5. \A t \in Tags : \A i \in DOMAIN log[t] : i \in DOMAIN log'[t] /\ log'[t][i] = log[t][i]
        BY <3>2, <3>4
      <3>6. ASSUME NEW t \in Tags, NEW i \in DOMAIN log'[t] PROVE RowFor(t, i)'
        <4>1. CASE i \in DOMAIN log[t]
          <5>1. RowFor(t, i) /\ log'[t][i] = log[t][i] /\ log[t][i].req \in Reqs
            BY <1>0, <1>2, <3>5, <4>1 DEF RowsInv
          <5> QED
            BY <1>1, <5>1 DEF RowFor
        <4>2. CASE i \notin DOMAIN log[t]
          <5>1. t = f /\ log'[t][i] = row
            BY <3>2, <3>4, <4>2
          <5> QED
            BY <2>1, <2>3, <3>1, <3>3, <5>1 DEF RowFor
        <4> QED
          BY <4>1, <4>2
      <3>7. ASSUME NEW q \in Reqs, metering'[q] = "row"
            PROVE  \E i \in DOMAIN log'[TagOf[q]] : log'[TagOf[q]][i].req = q
        <4>1. CASE q = r
          BY <3>2, <3>3, <3>4, <4>1 DEF f
        <4>2. CASE q # r
          <5>1. metering[q] = "row" /\ TagOf[q] \in Tags
            BY <2>1, <3>7, <4>2, ProxyAssumption
          <5> QED
            BY <1>0, <3>5, <5>1 DEF RowsInv
        <4> QED
          BY <4>1, <4>2
      <3> QED
        BY <3>6, <3>7 DEF RowsInv
    <2> QED
      BY <1>0, <1>4, <2>2, <2>3, MeterStep
  <1> QED
    BY <1>3, <1>4

-------------------------------------------------------------------------------
LEMMA NextInv == IInv /\ [Next]_vars => IInv'
  <1> SUFFICES ASSUME IInv, [Next]_vars PROVE IInv'
    OBVIOUS
  <1>0. TypeOK /\ HandlerInv /\ RowsInv
    BY DEF IInv
  <1>1. ASSUME NEW r \in Reqs, Handler(r) \/ HangUp(r) PROVE IInv'
    <2>1. PlaceInv(r) /\ AnswerInv(r)
      BY <1>0 DEF HandlerInv
    <2>2. TypeOK'
      BY <1>0, <1>1, <2>1, TypeStep
    <2>3. PlaceInv(r)' /\ AnswerInv(r)'
      BY <1>0, <1>1, <2>1, <2>2, PlaceStep, AnswerStep
    <2>4. ASSUME NEW s \in Reqs, s # r PROVE PlaceInv(s)' /\ AnswerInv(s)'
      <3>1. PlaceInv(s) /\ AnswerInv(s) /\ Same(s)
        BY <1>0, <1>1, <2>1, <2>4, OthersUnchanged DEF HandlerInv
      <3> QED
        BY <3>1 DEF Same, PlaceInv, AnswerInv
    <2>5. RowsInv'
      BY <1>1, <2>2, RowsStep
    <2> QED
      BY <2>2, <2>3, <2>4, <2>5 DEF IInv, HandlerInv
  <1>2. CASE UNCHANGED vars
    BY <1>0, <1>2 DEF vars, IInv, TypeOK, HandlerInv, PlaceInv, AnswerInv, RowsInv, RowFor
  <1> QED
    BY <1>1, <1>2 DEF Next, Quiet

LEMMA Invariant == Spec => []IInv
  BY InitInv, NextInv, PTL DEF Spec

(* Type correctness. *)
THEOREM TypeCorrect == Spec => []TypeOK
  <1>1. IInv => TypeOK
    BY DEF IInv
  <1> QED
    BY <1>1, Invariant, PTL

(* The row of a relayed stream covers exactly what the client was sent:    *)
(* the row is read off the side copy, which has by then been relayed       *)
(* (_relay_stream).                                                        *)
THEOREM StreamRowsAreDelivered == Spec => []StreamRowIsDelivered
  <1>1. IInv => StreamRowIsDelivered
    <2> SUFFICES ASSUME IInv, NEW r \in Reqs, body[r] = "stream", NEW i \in RowsOf(r)
                 PROVE  log[TagOf[r]][i].usage = wire[r]
      BY DEF StreamRowIsDelivered
    <2>1. TagOf[r] \in Tags /\ i \in DOMAIN log[TagOf[r]] /\ log[TagOf[r]][i].req = r
      BY ProxyAssumption DEF RowsOf
    <2> QED
      BY <2>1 DEF IInv, RowsInv, RowFor
  <1> QED
    BY <1>1, Invariant, PTL

(* A buffered body is with the client only when its row is in the file.    *)
THEOREM RowsComeFirst == Spec => []RowBeforeBufferedReply
  <1>1. IInv => RowBeforeBufferedReply
    <2> SUFFICES ASSUME IInv, NEW r \in Reqs, body[r] \in {"message", "other"}, answer[r] = "200",
                        metering[r] \notin {"nousage", "failed"}
                 PROVE  RowsOf(r) # {}
      BY DEF RowBeforeBufferedReply
    <2>1. metering[r] = "row"
      BY DEF IInv, TypeOK, HandlerInv, AnswerInv
    <2>2. PICK i \in DOMAIN log[TagOf[r]] : log[TagOf[r]][i].req = r
      BY <2>1 DEF IInv, RowsInv
    <2> QED
      BY <2>2 DEF RowsOf
  <1> QED
    BY <1>1, Invariant, PTL

(* Delivered usage goes unmetered for three causes only.                   *)
THEOREM UnmeteredHasACause == Spec => []UnmeteredOnlyIfBroken
  <1>1. IInv => UnmeteredOnlyIfBroken
    <2> SUFFICES ASSUME IInv, NEW r \in Reqs, pc[r] = "done", body[r] = "stream",
                        UsageChunks \cap 1..wire[r] # {}, RowsOf(r) = {}
                 PROVE  r \in broke \/ conn[r] = "gone" \/ metering[r] = "failed"
      BY DEF UnmeteredOnlyIfBroken
    <2>1. metering[r] \in {"row", "failed"} \/ r \in broke \/ conn[r] = "gone"
      BY DEF IInv, HandlerInv, AnswerInv
    <2>2. metering[r] # "row"
      BY DEF IInv, RowsInv, RowsOf
    <2> QED
      BY <2>1, <2>2
  <1> QED
    BY <1>1, Invariant, PTL

-------------------------------------------------------------------------------
(* How one step moves the phase of the request it serves. *)
LEMMA PhaseStep ==
  ASSUME IInv, NEW r \in Reqs, Handler(r) \/ HangUp(r)
  PROVE  \/ Phase(r)' = Phase(r) /\ log' = log
         \/ Phase(r) = "new" /\ Phase(r)' = "open" /\ log' = log
         \/ Phase(r) # "closed" /\ Phase(r)' = "closed" /\ log' = log
         \/ /\ Phase(r) = "open" /\ Phase(r)' = "metered"
            /\ \E u \in Usages :
                 log' = [log EXCEPT ![TagOf[r]] = Append(@, [req |-> r, usage |-> u])]
  <1>0. TypeOK /\ PlaceInv(r)
    BY DEF IInv, HandlerInv
  <1>1. CASE LogStream(r) \/ LogJson(r)
    <2>1. pc[r] \in {"log", "logjson"} /\ pc'[r] \in {"close", "reply"}
      BY <1>0, <1>1 DEF LogStream, LogJson, Goto, TypeOK
    <2>2. CASE log' = log /\ metering'[r] \in {"nousage", "failed"}
      BY <2>1, <2>2 DEF Phase
    <2>3. CASE metering'[r] = "row" /\ \E u \in Usages :
                 log' = [log EXCEPT ![TagOf[r]] = Append(@, [req |-> r, usage |-> u])]
      <3>1. Phase(r) = "open" /\ Phase(r)' = "metered"
        BY <2>1, <2>3 DEF Phase
      <3> QED
        BY <2>3, <3>1
    <2> QED
      BY <1>0, <1>1, <2>2, <2>3, MeterStep
  <1>2. CASE ~(LogStream(r) \/ LogJson(r))
    <2>1. log' = log /\ metering' = metering
      BY <1>2, LogUntouched
    <2> USE <1>0 DEF TypeOK, Goto, Phase, PlaceInv, Early
    <2>2. CASE Arrive(r) \/ Refused(r) \/ Answered(r) \/ UpstreamBreaks(r)
      BY <2>1, <2>2 DEF Arrive, Refused, Answered, UpstreamBreaks
    <2>3. CASE StreamHeaders(r) \/ ReadChunk(r) \/ WriteChunk(r) \/ Drain(r)
      BY <2>1, <2>3 DEF StreamHeaders, ReadChunk, WriteChunk, Drain
    <2>4. CASE ReplyBuffered(r) \/ Close(r) \/ HangUp(r)
      BY <2>1, <2>4 DEF ReplyBuffered, Close, HangUp
    <2> HIDE DEF TypeOK, Goto, Phase, PlaceInv, Early
    <2> QED
      BY <1>2, <2>2, <2>3, <2>4 DEF Handler
  <1> QED
    BY <1>1, <1>2

(* The passthrough gateway implements the meter as the Vertex bridge does. *)
THEOREM ProxyImplementsMeter == Spec => ImplementsMeter
  <1>1. Init => Meter!MeterInit
    BY DEF Init, Meter!MeterInit, Phase
  <1>2. IInv /\ [Next]_vars => [Meter!MeterNext]_Meter!meterVars
    <2> SUFFICES ASSUME IInv, [Next]_vars
                 PROVE  [Meter!MeterNext]_Meter!meterVars
      OBVIOUS
    <2> DEFINE ph == [s \in Reqs |-> Phase(s)]
    <2>0. TypeOK /\ \A q \in Reqs : PlaceInv(q)
      BY DEF IInv, HandlerInv
    <2>1. ASSUME NEW r \in Reqs, Handler(r) \/ HangUp(r)
          PROVE  [Meter!MeterNext]_Meter!meterVars
      <3>1. ASSUME NEW s \in Reqs, s # r PROVE Phase(s)' = Phase(s)
        <4>1. Same(s)
          BY <2>0, <2>1, <3>1, OthersUnchanged
        <4> QED
          BY <4>1 DEF Same, Phase
      <3>2. ph' = [ph EXCEPT ![r] = Phase(r)'] /\ ph[r] = Phase(r)
        BY <3>1
      <3> HIDE DEF ph
      <3>3. CASE Phase(r)' = Phase(r) /\ log' = log
        <4>1. ph' = ph
          BY <3>2, <3>3 DEF ph
        <4> QED
          BY <3>3, <4>1 DEF Meter!meterVars, ph
      <3>4. CASE Phase(r) = "new" /\ Phase(r)' = "open" /\ log' = log
        <4>1. Meter!Accept(r)
          BY <3>2, <3>4 DEF Meter!Accept, ph
        <4> QED
          BY <4>1 DEF Meter!MeterNext
      <3>5. CASE Phase(r) # "closed" /\ Phase(r)' = "closed" /\ log' = log
        <4>1. Meter!Close(r)
          BY <3>2, <3>5 DEF Meter!Close, ph
        <4> QED
          BY <4>1 DEF Meter!MeterNext
      <3>6. CASE /\ Phase(r) = "open" /\ Phase(r)' = "metered"
                 /\ \E u \in Usages :
                      log' = [log EXCEPT ![TagOf[r]] = Append(@, [req |-> r, usage |-> u])]
        <4>1. \E u \in Usages : Meter!Meter(r, u)
          BY <3>2, <3>6 DEF Meter!Meter, ph
        <4> QED
          BY <4>1 DEF Meter!MeterNext
      <3> QED
        BY <2>1, <3>3, <3>4, <3>5, <3>6, PhaseStep
    <2>2. CASE UNCHANGED vars
      BY <2>2 DEF vars, Meter!meterVars, Phase
    <2> QED
      BY <2>1, <2>2 DEF Next, Quiet
  <1> QED
    BY <1>1, <1>2, Invariant, PTL DEF Spec, ImplementsMeter, Meter!MeterSpec
===============================================================================
