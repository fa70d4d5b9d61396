-------------------------- MODULE VertexBridgeProofs --------------------------
(***************************************************************************)
(* Theorems about VertexBridge, for any set of requests, any number of     *)
(* retries and streams of any length.                                      *)
(***************************************************************************)
EXTENDS VertexBridge, SequenceTheorems, TLAPS

(* Appending leaves the elements of a sequence where they are. *)
LEMMA AppendFacts ==
  ASSUME NEW S, NEW s \in Seq(S), NEW x
  PROVE  /\ Len(s) \in Nat
         /\ DOMAIN s = 1..Len(s)
         /\ DOMAIN Append(s, x) = 1..(Len(s) + 1)
         /\ \A i \in 1..Len(s) : Append(s, x)[i] = s[i]
         /\ Append(s, x)[Len(s) + 1] = x
  OBVIOUS

(* The initial states are well typed. *)
LEMMA InitType == Init => TypeOK
  <1> SUFFICES ASSUME Init PROVE TypeOK
    OBVIOUS
  <1>1. \A S : <<>> \in Seq(S)
    OBVIOUS
  <1>2. 0 \in 0..MaxRetries /\ 0 \in 0..Events
    BY BridgeAssumption
  <1>3. mode \in [Reqs -> {"stream", "json"}]
    BY BridgeAssumption DEF Init
  <1> QED
    BY <1>1, <1>2, <1>3 DEF Init, TypeOK, ConnInit, ConnStates

(* A write to the client leaves its socket in one of the four states. *)
LEMMA WriteType ==
  ASSUME TypeOK, NEW r \in Reqs, Written(r) \/ WriteRaises(r)
  PROVE  conn' \in [Reqs -> ConnStates]
  <1>1. CASE WriteRaises(r)
    BY <1>1 DEF WriteRaises, TypeOK, ConnStates
  <1>2. CASE Written(r)
    <2>1. PICK c \in ConnStates : conn' = [conn EXCEPT ![r] = c]
      BY <1>2 DEF Written, ConnStates
    <2> QED
      BY <2>1 DEF TypeOK
  <1> QED
    BY <1>1, <1>2

(* Capturing usage leaves the files alone or appends one row of the        *)
(* request, about its current attempt, to the file of its own run.         *)
LEMMA LogStep ==
  ASSUME TypeOK, NEW r \in Reqs, LogUsage(r)
  PROVE  /\ log' \in [Tags -> Seq(Row)]
         /\ \/ log' = log /\ metering'[r] # "row"
            \/ /\ metering'[r] = "row"
               /\ UsageEvents \cap 1..evDicts[r] # {}
               /\ evDicts[r] \in 1..Events
               /\ log' = [log EXCEPT ![TagOf[r]] =
                     Append(@, [req |-> r, usage |-> <<attempt[r], evDicts[r]>>])]
  <1> USE BridgeAssumption DEF TypeOK, FileOf
  <1>1. CASE UsageEvents \cap 1..evDicts[r] # {} /\ metering'[r] = "row"
    <2>1. evDicts[r] \in 1..Events
      BY <1>1
    <2>2. log' = [log EXCEPT ![TagOf[r]] =
                    Append(@, [req |-> r, usage |-> <<attempt[r], evDicts[r]>>])]
      BY <1>1 DEF LogUsage
    <2>3. [req |-> r, usage |-> <<attempt[r], evDicts[r]>>] \in Row
      BY <2>1 DEF Row, Usages
    <2>4. Append(log[TagOf[r]],
                 [req |-> r, usage |-> <<attempt[r], evDicts[r]>>]) \in Seq(Row)
      BY <2>3
    <2> QED
      BY <1>1, <2>1, <2>2, <2>4
  <1>2. CASE log' = log /\ metering'[r] # "row"
    BY <1>2
  <1> QED
    BY <1>1, <1>2 DEF LogUsage

(* Every step keeps the variables well typed.  The counters stay in their  *)
(* ranges because of where the handler stands, hence HandlerInv.           *)
LEMMA NextType == TypeOK /\ HandlerInv /\ [Next]_vars => TypeOK'
  <1> SUFFICES ASSUME TypeOK, HandlerInv, [Next]_vars PROVE TypeOK'
    OBVIOUS
  <1> USE BridgeAssumption DEF TypeOK, Goto
  <1>1. ASSUME NEW r \in Reqs, AnswerLocally(r) PROVE TypeOK'
    <2>1. answer' \in [Reqs -> {"none", "200", "400", "502", "count_tokens"}]
      BY <1>1 DEF AnswerLocally
    <2> QED
      BY <1>1, <2>1 DEF AnswerLocally
  <1>2. ASSUME NEW r \in Reqs, Arrive(r) PROVE TypeOK'
    BY <1>2 DEF Arrive
  <1>3. ASSUME NEW r \in Reqs, OpenStream(r) PROVE TypeOK'
    BY <1>3 DEF OpenStream
  <1>4. ASSUME NEW r \in Reqs, NEW transient \in BOOLEAN,
               UpstreamFails(r, transient)
        PROVE  TypeOK'
    BY <1>4 DEF UpstreamFails, Raise
  <1>5. ASSUME NEW r \in Reqs, NextEvent(r) PROVE TypeOK'
    <2>1. got[r] + 1 \in 0..Events
      BY <1>5 DEF NextEvent
    <2>2. got' \in [Reqs -> 0..Events]
      BY <1>5, <2>1 DEF NextEvent
    <2>3. evDicts' \in [Reqs -> 0..Events]
      <3>1. evDicts' = evDicts \/ evDicts' = [evDicts EXCEPT ![r] = got[r] + 1]
        BY <1>5 DEF NextEvent
      <3> QED
        BY <2>1, <3>1
    <2>4. paid' \in SUBSET (Reqs \X (0..MaxRetries))
      BY <1>5 DEF NextEvent
    <2> QED
      BY <1>5, <2>2, <2>3, <2>4 DEF NextEvent
  <1>6. ASSUME NEW r \in Reqs, EndOfStream(r) PROVE TypeOK'
    BY <1>6 DEF EndOfStream
  <1>7. ASSUME NEW r \in Reqs, SendHeaders(r) PROVE TypeOK'
    <2>1. conn' \in [Reqs -> ConnStates]
      BY <1>7, WriteType DEF SendHeaders
    <2>2. pc' \in [Reqs -> {"idle", "call", "read", "headers", "write",
                            "backoff", "settle", "span", "done"}]
      <3>1. \E l \in {"write", "backoff", "settle"} : pc' = [pc EXCEPT ![r] = l]
        BY <1>7 DEF SendHeaders, Raise
      <3> QED
        BY <3>1
    <2>3. headersSent' \in [Reqs -> BOOLEAN]
      BY <1>7 DEF SendHeaders
    <2> QED
      BY <1>7, <2>1, <2>2, <2>3 DEF SendHeaders
  <1>8. ASSUME NEW r \in Reqs, WriteFrame(r) PROVE TypeOK'
    <2>1. conn' \in [Reqs -> ConnStates]
      BY <1>8, WriteType DEF WriteFrame
    <2>2. pc' \in [Reqs -> {"idle", "call", "read", "headers", "write",
                            "backoff", "settle", "span", "done"}]
      <3>1. pc' = [pc EXCEPT ![r] = "read"] \/ pc' = [pc EXCEPT ![r] = "settle"]
        BY <1>8 DEF WriteFrame
      <3> QED
        BY <3>1
    <2>3. wire' \in [Reqs -> Seq((0..MaxRetries) \X (1..Events))]
      <3>1. CASE UNCHANGED wire
        BY <3>1
      <3>2. CASE wire' = [wire EXCEPT ![r] = Append(@, <<attempt[r], got[r]>>)]
        <4>1. <<attempt[r], got[r]>> \in (0..MaxRetries) \X (1..Events)
          <5>1. pc[r] = "write" /\ PlaceInv(r)
            BY <1>8 DEF WriteFrame, HandlerInv
          <5>2. got[r] = Len(wire[r]) + 1
            BY <5>1 DEF PlaceInv
          <5>3. Len(wire[r]) \in Nat
            OBVIOUS
          <5> QED
            BY <5>2, <5>3
        <4> QED
          BY <3>2, <4>1
      <3> QED
        BY <1>8, <3>1, <3>2 DEF WriteFrame
    <2> QED
      BY <1>8, <2>1, <2>2, <2>3 DEF WriteFrame
  <1>9. ASSUME NEW r \in Reqs, Retry(r) PROVE TypeOK'
    <2>0. pc[r] = "backoff" /\ PlaceInv(r)
      BY <1>9 DEF Retry, HandlerInv
    <2>1. attempt[r] + 1 \in 0..MaxRetries /\ 0 \in 0..Events
      <3>1. attempt[r] < MaxRetries
        BY <2>0 DEF PlaceInv
      <3> QED
        BY <3>1
    <2>2. attempt' \in [Reqs -> 0..MaxRetries]
      BY <1>9, <2>1 DEF Retry
    <2>3. got' \in [Reqs -> 0..Events] /\ evDicts' \in [Reqs -> 0..Events]
      BY <1>9, <2>1 DEF Retry
    <2> QED
      BY <1>9, <2>2, <2>3 DEF Retry
  <1>10. ASSUME NEW r \in Reqs, GiveUp(r) PROVE TypeOK'
    BY <1>10 DEF GiveUp
  <1>11. ASSUME NEW r \in Reqs, LogUsage(r) PROVE TypeOK'
    <2>1. metering' \in [Reqs -> {"none", "row", "nousage", "failed"}]
      BY <1>11 DEF LogUsage
    <2>2. log' \in [Tags -> Seq(Row)]
      BY <1>11, LogStep
    <2> QED
      BY <1>11, <2>1, <2>2 DEF LogUsage
  <1>12. ASSUME NEW r \in Reqs, Reply(r) PROVE TypeOK'
    BY <1>12 DEF Reply
  <1>13. ASSUME NEW r \in Reqs, HangUp(r) PROVE TypeOK'
    <2>1. conn' \in [Reqs -> ConnStates]
      BY <1>13 DEF HangUp, Leave, ConnStates
    <2> QED
      BY <1>13, <2>1 DEF HangUp
  <1>14. CASE UNCHANGED vars
    BY <1>14 DEF vars
  <1> QED
    BY <1>1, <1>2, <1>3, <1>4, <1>5, <1>6, <1>7, <1>8, <1>9, <1>10, <1>11,
       <1>12, <1>13, <1>14 DEF Next, Handler, Quiet

-------------------------------------------------------------------------------
(* A step of another handler, as request s sees it. *)
Same(s) ==
  /\ pc'[s] = pc[s] /\ mode'[s] = mode[s] /\ attempt'[s] = attempt[s]
  /\ got'[s] = got[s] /\ evDicts'[s] = evDicts[s]
  /\ headersSent'[s] = headersSent[s] /\ wire'[s] = wire[s]
  /\ metering'[s] = metering[s]
  /\ \A a : <<s, a>> \in paid' <=> <<s, a>> \in paid

(* The handlers share nothing but the files of the runs. *)
LEMMA OthersUnchanged ==
  ASSUME TypeOK, NEW r \in Reqs, NEW s \in Reqs, r # s, Handler(r) \/ HangUp(r)
  PROVE  Same(s)
  <1> USE DEF TypeOK, Goto, Same
  <1>1. CASE AnswerLocally(r)
    BY <1>1 DEF AnswerLocally
  <1>2. CASE Arrive(r)
    BY <1>2 DEF Arrive
  <1>3. CASE OpenStream(r)
    BY <1>3 DEF OpenStream
  <1>4. ASSUME NEW transient \in BOOLEAN, UpstreamFails(r, transient)
        PROVE  Same(s)
    BY <1>4 DEF UpstreamFails, Raise
  <1>5. CASE NextEvent(r)
    <2>1. \A a : <<s, a>> \in paid' <=> <<s, a>> \in paid
      BY <1>5 DEF NextEvent
    <2> QED
      BY <1>5, <2>1 DEF NextEvent
  <1>6. CASE EndOfStream(r)
    BY <1>6 DEF EndOfStream
  <1>7. CASE SendHeaders(r)
    BY <1>7 DEF SendHeaders, Raise
  <1>8. CASE WriteFrame(r)
    BY <1>8 DEF WriteFrame
  <1>9. CASE Retry(r)
    BY <1>9 DEF Retry
  <1>10. CASE GiveUp(r)
    BY <1>10 DEF GiveUp
  <1>11. CASE LogUsage(r)
    BY <1>11 DEF LogUsage
  <1>12. CASE Reply(r)
    BY <1>12 DEF Reply
  <1>13. CASE HangUp(r)
    BY <1>13 DEF HangUp
  <1> QED
    BY <1>1, <1>2, <1>3, <1>4, <1>5, <1>6, <1>7, <1>8, <1>9, <1>10, <1>11,
       <1>12, <1>13 DEF Handler

(* Where the handler stands stays consistent with its counters. *)
LEMMA PlaceStep ==
  ASSUME TypeOK, TypeOK', NEW r \in Reqs, PlaceInv(r), Handler(r) \/ HangUp(r)
  PROVE  PlaceInv(r)'
  <1> USE BridgeAssumption DEF TypeOK, Goto, PlaceInv
  <1>1. CASE AnswerLocally(r)
    BY <1>1 DEF AnswerLocally
  <1>2. CASE Arrive(r)
    BY <1>2 DEF Arrive
  <1>3. CASE OpenStream(r)
    BY <1>3 DEF OpenStream
  <1>4. ASSUME NEW transient \in BOOLEAN, UpstreamFails(r, transient)
        PROVE  PlaceInv(r)'
    BY <1>4 DEF UpstreamFails, Raise, MayRetry
  <1>5. CASE NextEvent(r)
    <2>1. /\ pc[r] = "read" /\ got[r] < Events
          /\ got'[r] = got[r] + 1 /\ wire' = wire /\ attempt' = attempt
          /\ headersSent' = headersSent /\ mode' = mode /\ metering' = metering
      BY <1>5 DEF NextEvent
    <2>2. UsageEvents \cap 1..got'[r] # {} => <<r, attempt'[r]>> \in paid'
      <3>1. 1..(got[r] + 1) = (1..got[r]) \cup {got[r] + 1}
        <4>1. got[r] \in Nat
          OBVIOUS
        <4> HIDE DEF TypeOK, PlaceInv
        <4> QED
          BY <4>1
      <3>2. paid' = IF got[r] + 1 \in UsageEvents
                      THEN paid \cup {<<r, attempt[r]>>} ELSE paid
        BY <1>5 DEF NextEvent
      <3>3. UsageEvents \cap 1..got[r] # {} => <<r, attempt[r]>> \in paid
        OBVIOUS
      <3> HIDE DEF TypeOK, PlaceInv
      <3> QED
        BY <2>1, <3>1, <3>2, <3>3
    <2>3. CASE mode[r] = "stream"
      <3>1. /\ evDicts'[r] = got[r] + 1
            /\ pc'[r] = IF headersSent[r] THEN "write" ELSE "headers"
        BY <1>5, <2>3 DEF NextEvent
      <3> QED
        BY <2>1, <2>2, <2>3, <3>1
    <2>4. CASE mode[r] = "json"
      <3>1. evDicts' = evDicts /\ pc' = pc
        BY <1>5, <2>4 DEF NextEvent
      <3> QED
        BY <2>1, <2>2, <2>4, <3>1
    <2> QED
      BY <2>3, <2>4
  <1>6. CASE EndOfStream(r)
    BY <1>6 DEF EndOfStream
  <1>7. CASE SendHeaders(r)
    BY <1>7 DEF SendHeaders, Raise, MayRetry
  <1>8. CASE WriteFrame(r)
    BY <1>8 DEF WriteFrame
  <1>9. CASE Retry(r)
    BY <1>9 DEF Retry
  <1>10. CASE GiveUp(r)
    BY <1>10 DEF GiveUp
  <1>11. CASE LogUsage(r)
    BY <1>11 DEF LogUsage
  <1>12. CASE Reply(r)
    BY <1>12 DEF Reply
  <1>13. CASE HangUp(r)
    BY <1>13 DEF HangUp
  <1> HIDE DEF TypeOK, Goto, PlaceInv
  <1> QED
    BY <1>1, <1>2, <1>3, <1>4, <1>5, <1>6, <1>7, <1>8, <1>9, <1>10, <1>11,
       <1>12, <1>13 DEF Handler

-------------------------------------------------------------------------------
(* The inductive invariant. *)
IInv ==
  /\ TypeOK
  /\ HandlerInv
  /\ WireIsOneAttempt
  /\ NoPhantomRow
  /\ MeteringInv

(* Only writing a frame and starting over can spoil the client's prefix;   *)
(* starting over is reserved to handlers that have written nothing.        *)
LEMMA WireStep ==
  ASSUME IInv, NEW r \in Reqs, Handler(r) \/ HangUp(r)
  PROVE  \A k \in DOMAIN wire'[r] : wire'[r][k] = <<attempt'[r], k>>
  <1>0. TypeOK /\ PlaceInv(r) /\ WireIsOneAttempt
    BY DEF IInv, HandlerInv
  <1>1. CASE wire'[r] = wire[r] /\ attempt'[r] = attempt[r]
    BY <1>0, <1>1 DEF WireIsOneAttempt
  <1>2. CASE WriteFrame(r)
    <2>1. CASE wire' = wire /\ attempt' = attempt
      BY <2>1, <1>1
    <2>2. CASE /\ wire' = [wire EXCEPT ![r] = Append(@, <<attempt[r], got[r]>>)]
               /\ attempt' = attempt
      <3> DEFINE frame == <<attempt[r], got[r]>>
      <3>1. wire'[r] = Append(wire[r], frame) /\ attempt'[r] = attempt[r]
        BY <1>0, <2>2 DEF TypeOK
      <3>2. wire[r] \in Seq((0..MaxRetries) \X (1..Events))
        BY <1>0 DEF TypeOK
      <3>3. pc[r] = "write"
        BY <1>2 DEF WriteFrame
      <3>4. got[r] = Len(wire[r]) + 1
        BY <1>0, <3>3 DEF PlaceInv
      <3>5. ASSUME NEW k \in DOMAIN wire'[r]
            PROVE  wire'[r][k] = <<attempt'[r], k>>
        <4> HIDE DEF frame
        <4>1. /\ Len(wire[r]) \in Nat
              /\ DOMAIN wire[r] = 1..Len(wire[r])
              /\ DOMAIN wire'[r] = 1..(Len(wire[r]) + 1)
              /\ \A i \in 1..Len(wire[r]) : wire'[r][i] = wire[r][i]
              /\ wire'[r][Len(wire[r]) + 1] = frame
          BY <3>1, <3>2, AppendFacts
        <4>2. CASE k = Len(wire[r]) + 1
          BY <3>1, <3>4, <4>1, <4>2 DEF frame
        <4>3. CASE k \in 1..Len(wire[r])
          <5>1. wire[r][k] = <<attempt[r], k>>
            BY <1>0, <4>1, <4>3 DEF WireIsOneAttempt
          <5> QED
            BY <3>1, <4>1, <4>3, <5>1
        <4> QED
          BY <4>1, <4>2, <4>3
      <3> QED
        BY <3>5
    <2> QED
      BY <1>2, <2>1, <2>2 DEF WriteFrame
  <1>3. CASE Retry(r)
    <2>1. wire[r] = <<>> /\ wire' = wire
      BY <1>0, <1>3 DEF Retry, PlaceInv
    <2> QED
      BY <1>0, <2>1
  <1>4. ASSUME ~WriteFrame(r), ~Retry(r)
        PROVE  wire' = wire /\ attempt' = attempt
    BY <1>4 DEF Handler, AnswerLocally, Arrive, OpenStream, UpstreamFails,
       NextEvent, EndOfStream, SendHeaders, GiveUp, LogUsage, Reply, HangUp
  <1> QED
    BY <1>1, <1>2, <1>3, <1>4

(* A row is written about the attempt in hand, whose usage has been read;  *)
(* what has been read is never forgotten.                                  *)
LEMMA RowStep ==
  ASSUME IInv, TypeOK', NEW r \in Reqs, Handler(r) \/ HangUp(r)
  PROVE  NoPhantomRow'
  <1>0. TypeOK /\ PlaceInv(r) /\ NoPhantomRow
    BY DEF IInv, HandlerInv
  <1>1. paid \subseteq paid'
    BY DEF Handler, AnswerLocally, Arrive, OpenStream, UpstreamFails,
       NextEvent, EndOfStream, SendHeaders, WriteFrame, Retry, GiveUp,
       LogUsage, Reply, HangUp
  <1>2. CASE log' = log
    BY <1>0, <1>1, <1>2 DEF NoPhantomRow
  <1>3. CASE LogUsage(r) /\ log' # log
    <2> DEFINE row == [req |-> r, usage |-> <<attempt[r], evDicts[r]>>]
               f == TagOf[r]
    <2>1. /\ UsageEvents \cap 1..evDicts[r] # {}
          /\ log' = [log EXCEPT ![f] = Append(@, row)]
      BY <1>0, <1>3, LogStep
    <2>2. <<r, attempt[r]>> \in paid
      <3>1. 1..evDicts[r] \subseteq 1..got[r]
        BY <1>0 DEF TypeOK, PlaceInv
      <3> QED
        BY <1>0, <2>1, <3>1 DEF PlaceInv
    <2>3. f \in Tags /\ log[f] \in Seq(Row)
      BY <1>0, BridgeAssumption DEF TypeOK
    <2>4. ASSUME NEW t \in Tags, NEW i \in DOMAIN log'[t]
          PROVE  <<log'[t][i].req, log'[t][i].usage[1]>> \in paid'
      <3>1. CASE t # f
        BY <1>0, <1>1, <2>1, <3>1 DEF NoPhantomRow, TypeOK
      <3>2. CASE t = f /\ i = Len(log[f]) + 1
        <4>1. log'[t][i] = row
          BY <1>0, <2>1, <2>3, <3>2 DEF TypeOK
        <4> QED
          BY <1>1, <2>2, <4>1
      <3>3. CASE t = f /\ i # Len(log[f]) + 1
        <4>1. log'[t] = Append(log[f], row)
          BY <1>0, <2>1, <2>3, <3>3 DEF TypeOK
        <4>2. i \in DOMAIN log[f] /\ log'[t][i] = log[f][i]
          BY <2>3, <3>3, <4>1
        <4> QED
          BY <1>0, <1>1, <2>3, <4>2 DEF NoPhantomRow
      <3> QED
        BY <3>1, <3>2, <3>3
    <2> QED
      BY <2>4 DEF NoPhantomRow
  <1>4. ASSUME ~LogUsage(r) PROVE log' = log
    BY <1>4 DEF Handler, AnswerLocally, Arrive, OpenStream, UpstreamFails,
       NextEvent, EndOfStream, SendHeaders, WriteFrame, Retry, GiveUp,
       Reply, HangUp
  <1> QED
    BY <1>2, <1>3, <1>4

(* Files only grow: a row stays where it is. *)
LEMMA RowsStay ==
  ASSUME IInv, NEW r \in Reqs, Handler(r) \/ HangUp(r), NEW t \in Tags,
         NEW i \in DOMAIN log[t]
  PROVE  i \in DOMAIN log'[t] /\ log'[t][i] = log[t][i]
  <1>0. TypeOK
    BY DEF IInv
  <1>1. CASE log' = log
    BY <1>1
  <1>2. CASE LogUsage(r) /\ log' # log
    <2> DEFINE row == [req |-> r, usage |-> <<attempt[r], evDicts[r]>>]
               f == TagOf[r]
    <2>1. log' = [log EXCEPT ![f] = Append(@, row)]
      BY <1>0, <1>2, LogStep
    <2>2. f \in Tags /\ log[f] \in Seq(Row)
      BY <1>0, BridgeAssumption DEF TypeOK
    <2>3. CASE t = f
      <3>1. log'[t] = Append(log[f], row)
        BY <1>0, <2>1, <2>2, <2>3 DEF TypeOK
      <3> QED
        BY <2>2, <2>3, <3>1
    <2>4. CASE t # f
      BY <1>0, <2>1, <2>4 DEF TypeOK
    <2> QED
      BY <2>3, <2>4
  <1>3. ASSUME ~LogUsage(r) PROVE log' = log
    BY <1>3 DEF Handler, AnswerLocally, Arrive, OpenStream, UpstreamFails,
       NextEvent, EndOfStream, SendHeaders, WriteFrame, Retry, GiveUp,
       Reply, HangUp
  <1> QED
    BY <1>1, <1>2, <1>3

(* The outcome of the capture stays true of the file and of the buffer. *)
LEMMA MeteringStep ==
  ASSUME IInv, TypeOK', NEW r \in Reqs, Handler(r) \/ HangUp(r)
  PROVE  MeteringInv'
  <1> DEFINE M(s) ==
        /\ pc[s] = "span" \/ (pc[s] = "done" /\ headersSent[s]) => metering[s] # "none"
        /\ metering[s] = "nousage" => UsageEvents \cap 1..evDicts[s] = {}
        /\ metering[s] = "row" =>
             \E i \in DOMAIN log[TagOf[s]] :
               log[TagOf[s]][i] = [req |-> s, usage |-> <<attempt[s], evDicts[s]>>]
  <1>0. /\ TypeOK
        /\ \A s \in Reqs : M(s) /\ PlaceInv(s)
    BY DEF IInv, HandlerInv, MeteringInv
  <1>1. ASSUME NEW s \in Reqs,
               pc'[s] = pc[s] \/ ~(pc'[s] = "span" \/ (pc'[s] = "done" /\ headersSent'[s])),
               headersSent'[s] = headersSent[s] \/ pc'[s] \notin {"span", "done"},
               metering'[s] = metering[s],
               metering[s] # "none" => attempt'[s] = attempt[s] /\ evDicts'[s] = evDicts[s]
        PROVE  M(s)'
    <2>1. metering'[s] = "row" =>
             \E i \in DOMAIN log'[TagOf[s]] :
               log'[TagOf[s]][i] = [req |-> s, usage |-> <<attempt'[s], evDicts'[s]>>]
      <3>1. SUFFICES ASSUME metering'[s] = "row"
            PROVE  \E i \in DOMAIN log'[TagOf[s]] :
               log'[TagOf[s]][i] = [req |-> s, usage |-> <<attempt'[s], evDicts'[s]>>]
        OBVIOUS
      <3>2. PICK i \in DOMAIN log[TagOf[s]] :
               log[TagOf[s]][i] = [req |-> s, usage |-> <<attempt[s], evDicts[s]>>]
        BY <1>0, <1>1, <3>1
      <3>3. TagOf[s] \in Tags
        BY BridgeAssumption
      <3>4. i \in DOMAIN log'[TagOf[s]] /\ log'[TagOf[s]][i] = log[TagOf[s]][i]
        BY <3>3, RowsStay
      <3> QED
        BY <1>1, <3>1, <3>2, <3>4
    <2>2. pc'[s] = "span" \/ (pc'[s] = "done" /\ headersSent'[s])
            => metering'[s] # "none"
      BY <1>0, <1>1
    <2>3. metering'[s] = "nousage" => UsageEvents \cap 1..evDicts'[s] = {}
      BY <1>0, <1>1
    <2> QED
      BY <2>1, <2>2, <2>3
  <1>2. ASSUME NEW s \in Reqs, s # r PROVE M(s)'
    <2>1. Same(s)
      BY <1>0, <1>2, OthersUnchanged
    <2> QED
      BY <1>1, <2>1 DEF Same
  <1>3. M(r)'
    <2>1. CASE LogUsage(r)
      <3>1. /\ headersSent' = headersSent /\ evDicts' = evDicts
            /\ attempt' = attempt /\ metering'[r] # "none"
        BY <1>0, <2>1 DEF LogUsage, TypeOK
      <3>2. metering'[r] = "nousage" => UsageEvents \cap 1..evDicts[r] = {}
        BY <1>0, <2>1 DEF LogUsage, TypeOK
      <3>3. metering'[r] = "row" =>
             \E i \in DOMAIN log'[TagOf[r]] :
               log'[TagOf[r]][i] = [req |-> r, usage |-> <<attempt[r], evDicts[r]>>]
        <4> DEFINE row == [req |-> r, usage |-> <<attempt[r], evDicts[r]>>]
                   f == TagOf[r]
        <4>1. SUFFICES ASSUME metering'[r] = "row"
              PROVE  \E i \in DOMAIN log'[f] : log'[f][i] = row
          OBVIOUS
        <4>2. log' = [log EXCEPT ![f] = Append(@, row)]
          BY <1>0, <2>1, <4>1, LogStep
        <4>3. f \in Tags /\ log[f] \in Seq(Row)
          BY <1>0, BridgeAssumption DEF TypeOK
        <4>4. log'[f] = Append(log[f], row)
          BY <1>0, <4>2, <4>3 DEF TypeOK
        <4> QED
          BY <4>3, <4>4
      <3> QED
        BY <3>1, <3>2, <3>3
    <2>2. CASE GiveUp(r)
      <3>1. /\ pc'[r] = "done" /\ ~headersSent[r] /\ headersSent' = headersSent
            /\ metering' = metering /\ evDicts' = evDicts /\ attempt' = attempt
        BY <1>0, <2>2 DEF GiveUp, Goto, TypeOK
      <3> QED
        BY <1>0, <1>1, <3>1
    <2>3. CASE Reply(r)
      <3>1. /\ pc[r] = "span" /\ pc'[r] = "done" /\ headersSent' = headersSent
            /\ metering' = metering /\ evDicts' = evDicts /\ attempt' = attempt
        BY <1>0, <2>3 DEF Reply, Goto, TypeOK
      <3>2. metering[r] # "none"
        BY <1>0, <3>1
      <3>3. metering'[r] = "row" =>
             \E i \in DOMAIN log'[TagOf[r]] :
               log'[TagOf[r]][i] = [req |-> r, usage |-> <<attempt[r], evDicts[r]>>]
        BY <1>0, <2>3 DEF Reply
      <3> QED
        BY <1>0, <3>1, <3>2, <3>3
    <2>4. CASE AnswerLocally(r)
      <3>1. /\ pc'[r] = "done" /\ ~headersSent[r] /\ headersSent' = headersSent
            /\ metering' = metering /\ evDicts' = evDicts /\ attempt' = attempt
        BY <1>0, <2>4 DEF AnswerLocally, Goto, TypeOK, PlaceInv
      <3> QED
        BY <1>0, <1>1, <3>1
    <2>5. ASSUME ~LogUsage(r), ~GiveUp(r), ~Reply(r), ~AnswerLocally(r)
          PROVE  /\ pc' = pc \/ pc'[r] \notin {"span", "done"}
                 /\ headersSent' = headersSent \/ pc'[r] \notin {"span", "done"}
                 /\ metering' = metering
                 /\ HangUp(r) \/ pc[r] \notin {"span", "done"}
      <3> USE <1>0 DEF Goto, TypeOK
      <3>1. CASE Arrive(r)
        BY <3>1 DEF Arrive
      <3>2. CASE OpenStream(r)
        BY <3>2 DEF OpenStream
      <3>3. ASSUME NEW transient \in BOOLEAN, UpstreamFails(r, transient)
            PROVE  /\ pc'[r] \notin {"span", "done"} /\ metering' = metering
                   /\ pc[r] \notin {"span", "done"}
        BY <3>3 DEF UpstreamFails, Raise
      <3>4. CASE NextEvent(r)
        BY <3>4 DEF NextEvent
      <3>5. CASE EndOfStream(r)
        BY <3>5 DEF EndOfStream
      <3>6. CASE SendHeaders(r)
        BY <3>6 DEF SendHeaders, Raise
      <3>7. CASE WriteFrame(r)
        BY <3>7 DEF WriteFrame
      <3>8. CASE Retry(r)
        BY <3>8 DEF Retry
      <3>9. CASE HangUp(r)
        BY <3>9 DEF HangUp
      <3> HIDE DEF Goto, TypeOK
      <3> QED
        BY <2>5, <3>1, <3>2, <3>3, <3>4, <3>5, <3>6, <3>7, <3>8, <3>9 DEF Handler
    <2>6. ASSUME ~LogUsage(r), ~GiveUp(r), ~Reply(r), ~AnswerLocally(r)
          PROVE  M(r)'
      <3>1. metering[r] # "none" => attempt'[r] = attempt[r] /\ evDicts'[r] = evDicts[r]
        <4>1. CASE HangUp(r)
          BY <4>1 DEF HangUp
        <4>2. CASE pc[r] \notin {"span", "done"}
          BY <1>0, <4>2 DEF PlaceInv
        <4> QED
          BY <2>5, <2>6, <4>1, <4>2
      <3> QED
        BY <1>1, <2>5, <2>6, <3>1
    <2> QED
      BY <2>1, <2>2, <2>3, <2>4, <2>6
  <1> QED
    BY <1>2, <1>3 DEF MeteringInv

-------------------------------------------------------------------------------
(* The invariant holds initially and every step preserves it. *)
LEMMA InitInv == Init => IInv
  <1> SUFFICES ASSUME Init PROVE IInv
    OBVIOUS
  <1>1. TypeOK
    BY InitType
  <1>2. HandlerInv
    <2> SUFFICES ASSUME NEW r \in Reqs PROVE PlaceInv(r)
      BY DEF HandlerInv
    <2>1. /\ pc[r] = "idle" /\ ~headersSent[r] /\ metering[r] = "none"
          /\ got[r] = 0 /\ evDicts[r] = 0 /\ wire[r] = <<>>
          /\ mode[r] \in {"stream", "json"}
      BY BridgeAssumption DEF Init
    <2>2. 1..0 = {} /\ Len(wire[r]) = 0
      BY <2>1
    <2> QED
      BY <2>1, <2>2 DEF PlaceInv
  <1>3. WireIsOneAttempt /\ NoPhantomRow /\ MeteringInv
    BY BridgeAssumption DEF Init, WireIsOneAttempt, NoPhantomRow, MeteringInv
  <1> QED
    BY <1>1, <1>2, <1>3 DEF IInv

LEMMA NextInv == IInv /\ [Next]_vars => IInv'
  <1> SUFFICES ASSUME IInv, [Next]_vars PROVE IInv'
    OBVIOUS
  <1>0. TypeOK /\ HandlerInv /\ WireIsOneAttempt
    BY DEF IInv
  <1>1. TypeOK'
    BY <1>0, NextType
  <1>2. ASSUME NEW r \in Reqs, Handler(r) \/ HangUp(r) PROVE IInv'
    <2>1. HandlerInv'
      <3>1. PlaceInv(r)'
        BY <1>0, <1>1, <1>2, PlaceStep DEF HandlerInv
      <3>2. ASSUME NEW s \in Reqs, s # r PROVE PlaceInv(s)'
        <4>1. PlaceInv(s) /\ Same(s)
          BY <1>0, <1>2, <3>2, OthersUnchanged DEF HandlerInv
        <4> QED
          BY <4>1 DEF Same, PlaceInv
      <3> QED
        BY <3>1, <3>2 DEF HandlerInv
    <2>2. WireIsOneAttempt'
      <3>1. \A k \in DOMAIN wire'[r] : wire'[r][k] = <<attempt'[r], k>>
        BY <1>2, WireStep
      <3>2. ASSUME NEW s \in Reqs, s # r
            PROVE  \A k \in DOMAIN wire'[s] : wire'[s][k] = <<attempt'[s], k>>
        <4>1. Same(s)
          BY <1>0, <1>2, <3>2, OthersUnchanged
        <4> QED
          BY <1>0, <4>1 DEF Same, WireIsOneAttempt
      <3> QED
        BY <3>1, <3>2 DEF WireIsOneAttempt
    <2>3. NoPhantomRow'
      BY <1>1, <1>2, RowStep
    <2>4. MeteringInv'
      BY <1>1, <1>2, MeteringStep
    <2> QED
      BY <1>1, <2>1, <2>2, <2>3, <2>4 DEF IInv
  <1>3. CASE UNCHANGED vars
    <2> USE <1>3 DEF vars
    <2>1. HandlerInv'
      BY <1>0 DEF HandlerInv, PlaceInv
    <2>2. WireIsOneAttempt'
      BY <1>0 DEF WireIsOneAttempt
    <2>3. NoPhantomRow'
      BY DEF IInv, NoPhantomRow
    <2>4. MeteringInv'
      BY DEF IInv, MeteringInv
    <2> QED
      BY <1>1, <2>1, <2>2, <2>3, <2>4 DEF IInv
  <1> QED
    BY <1>2, <1>3 DEF Next, Quiet

THEOREM BridgeInvariant == Spec => []IInv
  BY InitInv, NextInv, PTL DEF Spec

(* Type correctness. *)
THEOREM TypeCorrect == Spec => []TypeOK
  <1>1. IInv => TypeOK
    BY DEF IInv
  <1> QED
    BY <1>1, BridgeInvariant, PTL

(* A streaming client is always sent a gapless prefix of one attempt. *)
THEOREM WireCorrect == Spec => []WireIsOneAttempt
  <1>1. IInv => WireIsOneAttempt
    BY DEF IInv
  <1> QED
    BY <1>1, BridgeInvariant, PTL

(* No row is about an attempt whose usage Vertex never reported. *)
THEOREM RowsCorrect == Spec => []NoPhantomRow
  <1>1. IInv => NoPhantomRow
    BY DEF IInv
  <1> QED
    BY <1>1, BridgeInvariant, PTL

(* Usage that a streaming client was sent is metered when its handler      *)
(* ends, whatever retries, upstream errors and hang-ups came before.       *)
THEOREM MeteringCorrect == Spec => []RelayedUsageIsMetered
  <1>1. IInv => RelayedUsageIsMetered
    <2> SUFFICES ASSUME IInv, NEW r \in Reqs, pc[r] = "done",
                        NEW k \in DOMAIN wire[r], wire[r][k][2] \in UsageEvents
                 PROVE  \/ metering[r] = "failed"
                        \/ \E i \in DOMAIN log[TagOf[r]] :
                             /\ log[TagOf[r]][i].req = r
                             /\ log[TagOf[r]][i].usage[1] = attempt[r]
                             /\ log[TagOf[r]][i].usage[2] >= Len(wire[r])
      BY DEF RelayedUsageIsMetered
    <2>0. TypeOK /\ PlaceInv(r) /\ WireIsOneAttempt /\ MeteringInv
      BY DEF IInv, HandlerInv
    <2>1. wire[r] \in Seq((0..MaxRetries) \X (1..Events))
      BY <2>0 DEF TypeOK
    <2>2. k \in UsageEvents /\ k \in 1..Len(wire[r])
      BY <2>0, <2>1 DEF WireIsOneAttempt
    <2>3. headersSent[r] /\ evDicts[r] = got[r] /\ Len(wire[r]) <= evDicts[r]
      BY <2>0, <2>1, <2>2 DEF PlaceInv, TypeOK
    <2>4. metering[r] # "none"
      BY <2>0, <2>3 DEF MeteringInv
    <2>5. metering[r] # "nousage"
      <3>1. k \in 1..evDicts[r]
        BY <2>0, <2>1, <2>2, <2>3 DEF TypeOK
      <3> QED
        BY <2>0, <2>2, <3>1 DEF MeteringInv
    <2>6. metering[r] \in {"row", "failed"}
      BY <2>0, <2>4, <2>5 DEF TypeOK
    <2>7. CASE metering[r] = "row"
      <3>1. PICK i \in DOMAIN log[TagOf[r]] :
               log[TagOf[r]][i] = [req |-> r, usage |-> <<attempt[r], evDicts[r]>>]
        BY <2>0, <2>7 DEF MeteringInv
      <3>2. evDicts[r] >= Len(wire[r])
        BY <2>0, <2>1, <2>3 DEF TypeOK
      <3> QED
        BY <3>1, <3>2
    <2> QED
      BY <2>6, <2>7
  <1> QED
    BY <1>1, BridgeInvariant, PTL

-------------------------------------------------------------------------------
(* How one step moves the phase of the request it serves. *)
LEMMA PhaseStep ==
  ASSUME IInv, TypeOK', NEW r \in Reqs, Handler(r) \/ HangUp(r)
  PROVE  \/ Phase(r)' = Phase(r) /\ log' = log
         \/ Phase(r) = "new" /\ Phase(r)' = "open" /\ log' = log
         \/ Phase(r) # "closed" /\ Phase(r)' = "closed" /\ log' = log
         \/ /\ Phase(r) = "open" /\ Phase(r)' = "metered"
            /\ \E u \in Usages :
                 log' = [log EXCEPT ![TagOf[r]] = Append(@, [req |-> r, usage |-> u])]
  <1>0. TypeOK /\ PlaceInv(r)
    BY DEF IInv, HandlerInv
  <1> USE <1>0 DEF TypeOK, Goto, Phase
  <1>1. CASE AnswerLocally(r)
    BY <1>1 DEF AnswerLocally
  <1>2. CASE Arrive(r)
    BY <1>2 DEF Arrive
  <1>3. CASE OpenStream(r)
    BY <1>3 DEF OpenStream
  <1>4. ASSUME NEW transient \in BOOLEAN, UpstreamFails(r, transient)
        PROVE  Phase(r)' = Phase(r) /\ log' = log
    BY <1>4 DEF UpstreamFails, Raise
  <1>5. CASE NextEvent(r)
    BY <1>5 DEF NextEvent
  <1>6. CASE EndOfStream(r)
    BY <1>6 DEF EndOfStream
  <1>7. CASE SendHeaders(r)
    BY <1>7 DEF SendHeaders, Raise
  <1>8. CASE WriteFrame(r)
    BY <1>8 DEF WriteFrame
  <1>9. CASE Retry(r)
    BY <1>9 DEF Retry
  <1>10. CASE GiveUp(r)
    BY <1>10 DEF GiveUp
  <1>11. CASE LogUsage(r)
    <2>1. pc[r] = "settle" /\ pc'[r] = "span"
      BY <1>11 DEF LogUsage
    <2>2. CASE log' = log /\ metering'[r] # "row"
      BY <2>1, <2>2
    <2>3. CASE metering'[r] = "row"
      <3>1. /\ evDicts[r] \in 1..Events
            /\ log' = [log EXCEPT ![TagOf[r]] =
                  Append(@, [req |-> r, usage |-> <<attempt[r], evDicts[r]>>])]
        BY <1>11, <2>3, LogStep
      <3>2. <<attempt[r], evDicts[r]>> \in Usages
        BY <3>1 DEF Usages
      <3> HIDE DEF Usages
      <3>3. Phase(r) = "open" /\ Phase(r)' = "metered"
        BY <2>1, <2>3
      <3> QED
        BY <3>1, <3>2, <3>3
    <2> QED
      BY <1>11, <2>2, <2>3, LogStep
  <1>12. CASE Reply(r)
    BY <1>12 DEF Reply
  <1>13. CASE HangUp(r)
    BY <1>13 DEF HangUp
  <1> HIDE DEF TypeOK, Goto, Phase
  <1> QED
    BY <1>1, <1>2, <1>3, <1>4, <1>5, <1>6, <1>7, <1>8, <1>9, <1>10, <1>11,
       <1>12, <1>13 DEF Handler

(* The Vertex bridge implements the meter: every request is metered at     *)
(* most once, in its own run's file, while it is being served.             *)
THEOREM BridgeImplementsMeter == Spec => ImplementsMeter
  <1>1. Init => Meter!MeterInit
    BY DEF Init, Meter!MeterInit, Phase
  <1>2. IInv /\ IInv' /\ [Next]_vars => [Meter!MeterNext]_Meter!meterVars
    <2> SUFFICES ASSUME IInv, IInv', [Next]_vars
                 PROVE  [Meter!MeterNext]_Meter!meterVars
      OBVIOUS
    <2> DEFINE ph == [s \in Reqs |-> Phase(s)]
    <2>0. TypeOK /\ TypeOK'
      BY DEF IInv
    <2>1. ASSUME NEW r \in Reqs, Handler(r) \/ HangUp(r)
          PROVE  [Meter!MeterNext]_Meter!meterVars
      <3>1. ASSUME NEW s \in Reqs, s # r PROVE Phase(s)' = Phase(s)
        <4>1. Same(s)
          BY <2>0, <2>1, <3>1, OthersUnchanged
        <4> QED
          BY <4>1 DEF Same, Phase
      <3>2. ph' = [ph EXCEPT ![r] = Phase(r)'] /\ ph[r] = Phase(r)
        BY <3>1
      <3> HIDE DEF ph
      <3>3. CASE Phase(r)' = Phase(r) /\ log' = log
        <4>1. ph' = ph
          BY <3>2, <3>3 DEF ph
        <4> QED
          BY <3>3, <4>1 DEF Meter!meterVars, ph
      <3>4. CASE Phase(r) = "new" /\ Phase(r)' = "open" /\ log' = log
        <4>1. Meter!Accept(r)
          BY <3>2, <3>4 DEF Meter!Accept, ph
        <4> QED
          BY <4>1 DEF Meter!MeterNext
      <3>5. CASE Phase(r) # "closed" /\ Phase(r)' = "closed" /\ log' = log
        <4>1. Meter!Close(r)
          BY <3>2, <3>5 DEF Meter!Close, ph
        <4> QED
          BY <4>1 DEF Meter!MeterNext
      <3>6. ASSUME Phase(r) = "open", Phase(r)' = "metered",
                   NEW u \in Usages,
                   log' = [log EXCEPT ![TagOf[r]] =
                             Append(@, [req |-> r, usage |-> u])]
            PROVE  [Meter!MeterNext]_Meter!meterVars
        <4>1. Meter!Meter(r, u)
          BY <3>2, <3>6 DEF Meter!Meter, ph
        <4> QED
          BY <4>1 DEF Meter!MeterNext
      <3> QED
        BY <2>0, <2>1, <3>3, <3>4, <3>5, <3>6, PhaseStep
    <2>2. CASE UNCHANGED vars
      BY <2>2 DEF vars, Meter!meterVars, Phase
    <2> QED
      BY <2>1, <2>2 DEF Next, Quiet
  <1> QED
    BY <1>1, <1>2, BridgeInvariant, PTL DEF Spec, ImplementsMeter, Meter!MeterSpec
-------------------------------------------------------------------------------
(* What an answer and an unmetered end say, over and above IInv.           *)
ReplyInv(r) ==
  /\ answer[r] = "200" => pc[r] = "done" /\ metering[r] # "none"
  /\ \A a \in 0..MaxRetries : <<r, a>> \in paid =>
       a < attempt[r] \/ (a = attempt[r] /\ UsageEvents \cap 1..got[r] # {})
  /\ mode[r] = "json" => evDicts[r] = 0 \/ (evDicts[r] = got[r] /\ pc[r] \in {"settle", "span", "done"})
  /\ metering[r] # "none" /\ mode[r] = "json" => evDicts[r] # 0
  /\ pc[r] = "done" /\ metering[r] = "none" => evDicts[r] = 0
RepliesInv == \A r \in Reqs : ReplyInv(r)

LEMMA AnswersApart ==
  ASSUME TypeOK, NEW r \in Reqs, NEW s \in Reqs, r # s, Handler(r) \/ HangUp(r)
  PROVE  answer'[s] = answer[s]
  BY DEF TypeOK, Handler, AnswerLocally, Arrive, OpenStream, UpstreamFails,
       NextEvent, EndOfStream, SendHeaders, WriteFrame, Retry, GiveUp, LogUsage, Reply, HangUp

(* Reading an event is all that adds to what was paid.                     *)
LEMMA PaidStep ==
  ASSUME TypeOK, NEW r \in Reqs, Handler(r) \/ HangUp(r), ~NextEvent(r)
  PROVE  paid' = paid
  BY DEF Handler, AnswerLocally, Arrive, OpenStream, UpstreamFails,
       EndOfStream, SendHeaders, WriteFrame, Retry, GiveUp, LogUsage, Reply, HangUp

LEMMA ReplyStep ==
  ASSUME TypeOK, TypeOK', NEW r \in Reqs, PlaceInv(r), ReplyInv(r), Handler(r) \/ HangUp(r),
         pc[r] = "span" => metering[r] # "none"
  PROVE  ReplyInv(r)'
  <1>0. /\ attempt[r] \in 0..MaxRetries /\ got[r] \in 0..Events /\ evDicts[r] \in 0..Events
        /\ mode[r] \in {"stream", "json"} /\ MaxRetries \in Nat /\ Events \in Nat
    BY BridgeAssumption DEF TypeOK
  <1> USE <1>0 DEF TypeOK, Goto, PlaceInv, ReplyInv
  <1>1. CASE AnswerLocally(r)
    BY <1>1 DEF AnswerLocally
  <1>2. CASE Arrive(r)
    BY <1>2 DEF Arrive
  <1>3. CASE OpenStream(r)
    BY <1>3 DEF OpenStream
  <1>4. ASSUME NEW transient \in BOOLEAN, UpstreamFails(r, transient)
        PROVE  ReplyInv(r)'
    BY <1>4 DEF UpstreamFails, Raise, MayRetry
  <1>5. CASE NextEvent(r)
    <2>1. /\ pc[r] = "read" /\ got'[r] = got[r] + 1 /\ got[r] < Events
          /\ UNCHANGED <<attempt, mode, metering, answer>>
          /\ paid' = IF got[r] + 1 \in UsageEvents THEN paid \cup {<<r, attempt[r]>>} ELSE paid
          /\ pc'[r] \in {"read", "headers", "write"}
          /\ mode[r] = "json" => evDicts' = evDicts
      BY <1>5 DEF NextEvent
    <2>2. 1..(got[r] + 1) = (1..got[r]) \cup {got[r] + 1}
      <3>1. got[r] \in Nat
        OBVIOUS
      <3> HIDE DEF TypeOK, PlaceInv, ReplyInv
      <3> QED
        BY <3>1
    <2>3. ASSUME NEW a \in 0..MaxRetries, <<r, a>> \in paid'
          PROVE  a < attempt'[r] \/ (a = attempt'[r] /\ UsageEvents \cap 1..got'[r] # {})
      BY <2>1, <2>2, <2>3
    <2>4. mode[r] = "json" => evDicts[r] = 0 /\ metering[r] = "none"
      BY <2>1
    <2> QED
      BY <2>1, <2>3, <2>4
  <1>6. CASE EndOfStream(r)
    BY <1>6 DEF EndOfStream
  <1>7. CASE SendHeaders(r)
    BY <1>7 DEF SendHeaders, Raise, MayRetry
  <1>8. CASE WriteFrame(r)
    BY <1>8 DEF WriteFrame
  <1>9. CASE Retry(r)
    <2>1. /\ pc[r] = "backoff" /\ pc'[r] = "call" /\ attempt'[r] = attempt[r] + 1 /\ evDicts'[r] = 0
          /\ UNCHANGED <<mode, metering, answer, paid>>
      BY <1>9 DEF Retry
    <2>2. ASSUME NEW a \in 0..MaxRetries, <<r, a>> \in paid' PROVE a < attempt'[r]
      <3>1. a \in Nat /\ attempt[r] \in Nat /\ (a < attempt[r] \/ a = attempt[r])
        BY <2>1, <2>2
      <3> HIDE DEF TypeOK, PlaceInv, ReplyInv
      <3> QED
        BY <2>1, <3>1
    <2>3. answer'[r] = "200" => pc'[r] = "done" /\ metering'[r] # "none"
      BY <2>1
    <2>4. metering'[r] = "none"
      BY <2>1
    <2> QED
      BY <2>1, <2>2, <2>3, <2>4
  <1>10. CASE GiveUp(r)
    BY <1>10 DEF GiveUp
  <1>11. CASE LogUsage(r)
    <2>1. /\ pc[r] = "settle" /\ pc'[r] = "span" /\ metering'[r] # "none"
          /\ evDicts[r] > 0 \/ headersSent[r]
          /\ UNCHANGED <<mode, answer, paid, attempt, got, evDicts>>
      BY <1>11 DEF LogUsage
    <2> QED
      BY <2>1
  <1>12. CASE Reply(r)
    <2>1. /\ pc[r] = "span" /\ pc'[r] = "done" /\ (answer'[r] = "200" => answer[r] = "200" \/ headersSent[r] \/ mode[r] = "json")
          /\ UNCHANGED <<mode, metering, paid, attempt, got, evDicts>>
      BY <1>12 DEF Reply
    <2>2. metering[r] # "none"
      BY <2>1
    <2> QED
      BY <2>1, <2>2
  <1>13. CASE HangUp(r)
    BY <1>13 DEF HangUp
  <1> HIDE DEF TypeOK, Goto, PlaceInv, ReplyInv
  <1> QED
    BY <1>1, <1>2, <1>3, <1>4, <1>5, <1>6, <1>7, <1>8, <1>9, <1>10, <1>11,
       <1>12, <1>13 DEF Handler

LEMMA RepliesInvariant == Spec => []RepliesInv
  <1>1. Init => RepliesInv
    BY BridgeAssumption DEF Init, RepliesInv, ReplyInv
  <1>2. IInv /\ IInv' /\ RepliesInv /\ [Next]_vars => RepliesInv'
    <2> SUFFICES ASSUME IInv, IInv', RepliesInv, [Next]_vars, NEW s \in Reqs PROVE ReplyInv(s)'
      BY DEF RepliesInv
    <2>0. /\ TypeOK /\ TypeOK' /\ PlaceInv(s) /\ ReplyInv(s)
          /\ pc[s] = "span" => metering[s] # "none"
      BY DEF IInv, HandlerInv, MeteringInv, RepliesInv
    <2>1. ASSUME NEW r \in Reqs, Handler(r) \/ HangUp(r) PROVE ReplyInv(s)'
      <3>1. CASE r = s
        BY <2>0, <2>1, <3>1, ReplyStep
      <3>2. CASE r # s
        <4>1. Same(s) /\ answer'[s] = answer[s]
          BY <2>0, <2>1, <3>2, OthersUnchanged, AnswersApart
        <4> QED
          BY <2>0, <4>1 DEF Same, ReplyInv
      <3> QED
        BY <3>1, <3>2
    <2>2. CASE UNCHANGED vars
      BY <2>0, <2>2 DEF vars, ReplyInv
    <2> QED
      BY <2>1, <2>2 DEF Next, Quiet
  <1> QED
    BY <1>1, <1>2, BridgeInvariant, PTL DEF Spec

(* A buffered client's 200 comes after the capture of its usage.           *)
THEOREM RowsComeFirst == Spec => []RowBeforeJsonReply
  <1>1. RepliesInv => RowBeforeJsonReply
    BY DEF RepliesInv, ReplyInv, RowBeforeJsonReply
  <1> QED
    BY <1>1, RepliesInvariant, PTL

(* Usage that was read is handed to the sink unless its attempt was retried*)
(* or was a buffered client's last and broke off.                          *)
THEOREM UnmeteredHasACause == Spec => []UnmeteredOnlyIfAbandoned
  <1>1. IInv /\ RepliesInv => UnmeteredOnlyIfAbandoned
    <2> SUFFICES ASSUME IInv, RepliesInv, NEW r \in Reqs, NEW a \in 0..MaxRetries,
                        pc[r] = "done", <<r, a>> \in paid, ~(a < attempt[r]), ~Metered(r)
                 PROVE  mode[r] = "json" /\ evDicts[r] = 0 /\ answer[r] # "200"
      BY DEF UnmeteredOnlyIfAbandoned
    <2>1. TypeOK /\ PlaceInv(r) /\ ReplyInv(r) /\ MeteringInv
      BY DEF IInv, HandlerInv, RepliesInv
    <2>2. UsageEvents \cap 1..got[r] # {} /\ metering[r] \in {"none", "nousage"}
      BY <2>1 DEF ReplyInv, Metered, TypeOK
    <2>3. got[r] # 0
      <3>1. 1..0 = {}
        OBVIOUS
      <3> QED
        BY <2>2, <3>1
    <2>4. metering[r] = "none"
      <3>1. metering[r] = "nousage" => UsageEvents \cap 1..evDicts[r] = {}
        BY <2>1 DEF MeteringInv
      <3>2. metering[r] = "nousage" => evDicts[r] = got[r]
        BY <2>1 DEF PlaceInv, ReplyInv
      <3> QED
        BY <2>2, <3>1, <3>2
    <2>5. evDicts[r] = 0 /\ answer[r] # "200"
      BY <2>1, <2>4 DEF ReplyInv
    <2> QED
      BY <2>1, <2>3, <2>5 DEF PlaceInv
  <1> QED
    BY <1>1, BridgeInvariant, RepliesInvariant, PTL
===============================================================================
