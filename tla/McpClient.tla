------------------------------- MODULE McpClient -------------------------------
(***************************************************************************)
(* The stdio MCP client of a ToolArm (bench/mcp_client.py, MCPClient) in   *)
(* the hands of the mini-swe runner (bench/runner.py): the thread of the   *)
(* agent sends JSON-RPC requests and polls an inbox for the reply with the *)
(* same id, a reader thread feeds the inbox from the server's stdout, and  *)
(* the server answers late, out of order or not at all, sends messages of  *)
(* its own, closes its stdout or dies.                                     *)
(***************************************************************************)
EXTENDS McpState

client == <<stage, pc, pages, calls, id, deferred, sent, answers>>
remote == <<server, asked, out, extra>>
vars == <<client, inbox, reader, remote>>

TypeOK ==
  /\ stage \in {"new", "init", "notify", "list", "setup", "agent", "close",
                "term", "over", "abandoned"}
  /\ pc \in {"idle", "get", "poll"}
  /\ pages \in 0..MaxPages /\ calls \in 0..MaxCalls /\ extra \in 0..MaxExtra
  /\ id \in Nat /\ sent \in Nat
  /\ deferred \in Seq(Msg) /\ inbox \in Seq(Msg) /\ out \in Seq(Msg)
  /\ reader \in {"none", "run", "eof", "error"}
  /\ server \in {"none", "up", "mute", "exited"}
  /\ asked \in SUBSET [id : Nat, of : Nat]
  /\ answers \in SUBSET [n : Nat, of : Nat]

Init ==
  /\ stage = "new" /\ pc = "idle" /\ pages = 0 /\ calls = 0 /\ id = 0
  /\ deferred = <<>> /\ inbox = <<>> /\ out = <<>>
  /\ reader = "none" /\ server = "none"
  /\ asked = {} /\ extra = 0 /\ sent = 0 /\ answers = {}

Running == server \in {"up", "mute"}

-------------------------------------------------------------------------------
(* spawn: Popen, and the threads; a Popen that fails leaves nothing.       *)
Spawn ==
  /\ stage = "new"
  /\ \/ stage' = "init" /\ server' = "up" /\ reader' = "run"
     \/ stage' = "over" /\ UNCHANGED <<server, reader>>
  /\ UNCHANGED <<pc, pages, calls, id, deferred, sent, answers, inbox, asked,
                 out, extra>>

(* The request of a stage: initialize, the next page of tools/list, or a   *)
(* tools/call.                                                             *)
MayAsk ==
  /\ pc = "idle"
  /\ stage \in {"init", "list"} \/ (stage = "agent" /\ calls < MaxCalls)

Counted ==
  /\ pages' = IF stage = "list" THEN pages + 1 ELSE pages
  /\ calls' = IF stage = "agent" THEN calls + 1 ELSE calls

(* _next_id and _send; the first definition is a seeded defect, whose ids  *)
(* count the answered requests only.                                       *)
Ask_reusesId ==
  /\ MayAsk /\ Running
  /\ id' = IF pages + calls = 0 \/ \E a \in answers : a.n = sent THEN id + 1 ELSE id
  /\ sent' = sent + 1
  /\ asked' = asked \cup {[id |-> id', of |-> sent']}
  /\ pc' = "get"
  /\ Counted
  /\ UNCHANGED <<stage, deferred, answers, inbox, reader, server, out, extra>>

Ask ==
  /\ MayAsk /\ Running
  /\ id' = id + 1
  /\ sent' = sent + 1
  /\ asked' = asked \cup {[id |-> id', of |-> sent']}
  /\ pc' = "get"
  /\ Counted
  /\ UNCHANGED <<stage, deferred, answers, inbox, reader, server, out, extra>>

(* An exception in the handshake or the discovery closes the client; in    *)
(* the agent it becomes an observation.                                    *)
Fail ==
  /\ stage' = IF stage = "agent" THEN "agent" ELSE "close"
  /\ pc' = "idle"

(* _ensure_alive finds the server dead, or the write does.                 *)
AskFails ==
  /\ MayAsk /\ server = "exited"
  /\ id' \in {id, id + 1}
  /\ Counted
  /\ Fail
  /\ UNCHANGED <<deferred, sent, answers, inbox, reader, remote>>

-------------------------------------------------------------------------------
(* The end of a request: what was held back is queued again.               *)
Requeue(queue) ==
  /\ inbox' = queue \o deferred
  /\ deferred' = <<>>

(* A notification has no id.                                               *)
Ours(msg) == msg.kind \in {"reply", "error", "request"} /\ msg.id = id

(* Whether there is another page.                                          *)
NextPage == pages < MaxPages

Return ==
  /\ pc' = "idle"
  /\ stage' \in CASE stage = "init" -> {"notify"}
                  [] stage = "list" -> IF NextPage THEN {"list", "setup"}
                                                   ELSE {"setup"}
                  [] OTHER -> {stage}

TakeAnswer ==
  /\ pc = "get" /\ inbox # <<>>
  /\ Ours(Head(inbox))
  /\ answers' = answers \cup {[n |-> sent, of |-> Head(inbox).of]}
  /\ IF Head(inbox).kind = "error" THEN Fail ELSE Return
  /\ Requeue(Tail(inbox))
  /\ UNCHANGED <<pages, calls, id, sent, reader, remote>>

(* Seeded defect: what is not ours goes straight back to the inbox. *)
HoldBack_requeues ==
  /\ pc = "get" /\ inbox # <<>>
  /\ ~Ours(Head(inbox))
  /\ inbox' = Append(Tail(inbox), Head(inbox))
  /\ UNCHANGED <<client, reader, remote>>

(* Anything else is held back, the sentinel of the reader too. *)
HoldBack ==
  /\ pc = "get" /\ inbox # <<>>
  /\ ~Ours(Head(inbox))
  /\ deferred' = Append(deferred, Head(inbox))
  /\ inbox' = Tail(inbox)
  /\ UNCHANGED <<stage, pc, pages, calls, id, sent, answers, reader, remote>>

(* The deadline is looked at before the inbox. *)
TimesOut ==
  /\ pc = "get"
  /\ Fail
  /\ Requeue(inbox)
  /\ UNCHANGED <<pages, calls, id, sent, answers, reader, remote>>

(* queue.Empty, and the poll that follows it. *)
Empty ==
  /\ pc = "get" /\ inbox = <<>>
  /\ pc' = "poll"
  /\ UNCHANGED <<stage, pages, calls, id, deferred, sent, answers, inbox,
                 reader, remote>>

Poll ==
  /\ pc = "poll"
  /\ IF reader = "error" \/ server = "exited"
       THEN Fail /\ Requeue(inbox)
       ELSE pc' = "get" /\ UNCHANGED <<stage, inbox, deferred>>
  /\ UNCHANGED <<pages, calls, id, sent, answers, reader, remote>>

-------------------------------------------------------------------------------
(* The notification that ends the handshake. *)
Notify ==
  /\ stage = "notify"
  /\ stage' = IF Running THEN "list" ELSE "close"
  /\ UNCHANGED <<pc, pages, calls, id, deferred, sent, answers, inbox, reader,
                 remote>>

(* Between the discovery and the try that closes the client: the model,    *)
(* the instance, the config and the environment, any of which may raise.   *)
Setup ==
  /\ stage = "setup"
  /\ stage' \in {"agent", "abandoned"}
  /\ UNCHANGED <<pc, pages, calls, id, deferred, sent, answers, inbox, reader,
                 remote>>

(* close: stdin is closed and the process terminated; it is given time,    *)
(* then killed.                                                            *)
Close ==
  /\ stage = "close" \/ (stage = "agent" /\ pc = "idle")
  /\ stage' = "term"
  /\ UNCHANGED <<pc, pages, calls, id, deferred, sent, answers, inbox, reader,
                 remote>>

Terminated ==
  /\ stage = "term"
  /\ stage' = "over"
  /\ server' = "exited"
  /\ UNCHANGED <<pc, pages, calls, id, deferred, sent, answers, inbox, reader,
                 asked, out, extra>>

-------------------------------------------------------------------------------
(* _read_loop and _dispatch_raw: noise is dropped, a header that does not  *)
(* parse ends the thread; the sentinel is its last word.                   *)
Read ==
  /\ reader = "run" /\ out # <<>>
  /\ out' = Tail(out)
  /\ \/ /\ Head(out).kind = "noise"
        /\ UNCHANGED <<inbox, reader>>
     \/ /\ Head(out).kind = "badframe"
        /\ reader' = "error"
        /\ inbox' = Append(inbox, Eof)
     \/ /\ Head(out).kind \notin {"noise", "badframe"}
        /\ inbox' = Append(inbox, Head(out))
        /\ UNCHANGED reader
  /\ UNCHANGED <<client, server, asked, extra>>

ReadEof ==
  /\ reader = "run" /\ out = <<>> /\ server \in {"mute", "exited"}
  /\ reader' = "eof"
  /\ inbox' = Append(inbox, Eof)
  /\ UNCHANGED <<client, remote>>

(* The server process. *)
Answer ==
  /\ server = "up"
  /\ \E a \in asked, kind \in {"reply", "error"} :
       /\ out' = Append(out, [kind |-> kind, id |-> a.id, of |-> a.of])
       /\ asked' = asked \ {a}
  /\ UNCHANGED <<client, inbox, reader, server, extra>>

Speak ==
  /\ server = "up" /\ extra < MaxExtra
  /\ extra' = extra + 1
  /\ \/ \E i \in ServerIds :
          out' = Append(out, [kind |-> "request", id |-> i, of |-> 0])
     \/ \E kind \in {"note", "noise", "badframe"} :
          out' = Append(out, [kind |-> kind, id |-> 0, of |-> 0])
  /\ UNCHANGED <<client, inbox, reader, server, asked>>

CloseStdout ==
  /\ server = "up"
  /\ server' = "mute"
  /\ UNCHANGED <<client, inbox, reader, asked, out, extra>>

Die ==
  /\ Running
  /\ server' = "exited"
  /\ UNCHANGED <<client, inbox, reader, asked, out, extra>>

Agent == \/ Spawn \/ Ask \/ AskFails \/ TakeAnswer \/ HoldBack \/ TimesOut
         \/ Empty \/ Poll \/ Notify \/ Setup \/ Close \/ Terminated

Reader == Read \/ ReadEof

Server == Answer \/ Speak \/ CloseStdout \/ Die

(* The run is over. *)
Quiet == stage \in {"over", "abandoned"} /\ UNCHANGED vars

Next == Agent \/ Reader \/ Server \/ Quiet

Spec == Init /\ [][Next]_vars

(* Both threads keep running; that a deadline passes is not presumed. *)
FairSpec == /\ Spec
            /\ WF_vars(TakeAnswer \/ HoldBack \/ Empty \/ Poll)
            /\ WF_vars(Reader)

-------------------------------------------------------------------------------
(* "A dead process [...] surfaces as an MCPError": a request to a server   *)
(* that exited ends although no deadline passes and no answer comes,       *)
(* whatever else is in the inbox.                                          *)
DeadServerIsNoticed == (server = "exited" /\ pc # "idle") ~> pc = "idle"

(* A run that closed its client, for a failed handshake or discovery or at *)
(* its end, leaves no server process behind.                               *)
ClosedServerIsGone == stage = "over" => ~Running

-------------------------------------------------------------------------------
(* The strengthening of AnswerIsOwn: ids and requests grow together, so a  *)
(* message that carries the current id answers the current request.        *)
Current(msg) ==
  /\ msg.id \in 1..id
  /\ pc # "idle" /\ msg.id = id => msg.of = sent

Expected == {msg \in Msg :
  /\ msg.kind \in {"reply", "error"} => Current(msg)
  /\ msg.kind = "request" => msg.id \in ServerIds}

RepliesAreCurrent ==
  /\ \A a \in asked : Current(a)
  /\ {out, inbox, deferred} \subseteq Seq(Expected)
  /\ pc # "idle" => id > 0

===============================================================================
