-------------------------------- MODULE McpState --------------------------------
(***************************************************************************)
(* What there is of a stdio MCP client (bench/mcp_client.py, MCPClient):   *)
(* the client, its inbox and reader thread, and the server; and what the   *)
(* client promises its caller about the answers it returns.  McpClient     *)
(* says how it works.                                                      *)
(***************************************************************************)
EXTENDS Naturals, Sequences

CONSTANTS
  MaxPages,    (* list_tools gives up after so many pages (64)            *)
  MaxCalls,    (* bound: tools/call requests of the agent                 *)
  MaxExtra,    (* bound: messages the server sends unasked                *)
  ServerIds    (* the ids of the server's own requests                    *)

ASSUME McpAssumption ==
  /\ MaxPages \in Nat \ {0}
  /\ MaxCalls \in Nat /\ MaxExtra \in Nat
  /\ ServerIds \subseteq Nat

VARIABLES
  stage,     (* how far the run is, see McpClient                         *)
  pc,        (* _request: "idle", "get" (the top of its loop), "poll"     *)
  pages,     (* pages asked of tools/list                                 *)
  calls,     (* tools/call requests made                                  *)
  id,        (* _id                                                       *)
  deferred,  (* deferred                                                  *)
  inbox,     (* _inbox                                                    *)
  reader,    (* the reader thread: "none", "run", "eof", "error"          *)
  server,    (* "none", "up", "mute" (stdout closed), "exited"            *)
  asked,     (* requests the server has not answered yet                  *)
  out,       (* its stdout, written and not yet read                      *)
  extra,     (* messages it sent unasked                                  *)
  sent,      (* history: requests written                                 *)
  answers    (* history: for which request came what a request returned   *)

(* A message says in .of which request it answers, 0 if none. *)
Kinds == {"reply", "error", "request", "note", "noise", "badframe", "eof"}
Msg == [kind : Kinds, id : Nat, of : Nat]
Eof == [kind |-> "eof", id |-> 0, of |-> 0]

-------------------------------------------------------------------------------
(* What a request returns, or raises as a JSON-RPC error, was said by the  *)
(* server in answer to that very request: never the late answer to one     *)
(* that had timed out, nor a message of the server's own.                  *)
AnswerIsOwn == \A a \in answers : a.of = a.n

===============================================================================
