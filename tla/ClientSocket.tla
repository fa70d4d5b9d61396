----------------------------- MODULE ClientSocket -----------------------------
(***************************************************************************)
(* External: the client's end of each gateway request, Claude Code or a    *)
(* vendor proxy, as the handler sees it through the socket it writes to.   *)
(***************************************************************************)
CONSTANT Reqs     (* inbound requests, one handler thread each *)

VARIABLE conn     (* "open"; "fin" (closed, writes are still accepted);    *)
                  (* "reset" (the next write raises ConnectionResetError); *)
                  (* "gone" (writes raise BrokenPipeError)                 *)

ConnStates == {"open", "fin", "reset", "gone"}

ConnInit == conn = [r \in Reqs |-> "open"]

(* A write the socket accepts, after which the reset by a closed peer may  *)
(* have arrived; and a write that raises.                                  *)
Writable(r) == conn[r] \in {"open", "fin"}

Written(r) ==
  \E c \in (IF conn[r] = "open" THEN {"open"} ELSE {"fin", "gone"}) :
    conn' = [conn EXCEPT ![r] = c]

WriteRaises(r) ==
  /\ ~Writable(r)
  /\ conn' = [conn EXCEPT ![r] = "gone"]

(* The client closes its end, or aborts it (unread data). *)
Leave(r) ==
  /\ conn[r] = "open"
  /\ \E c \in {"fin", "reset"} : conn' = [conn EXCEPT ![r] = c]
===============================================================================
