---------------------------- MODULE MCUpstreamCall ----------------------------
EXTENDS UpstreamCall

(* A subagent's call for another model with betas Vertex may turn down and *)
(* one it is known to, and a housekeeping call: another solve's where there*)
(* are two.                                                                *)
MCSolveOf == [c \in Calls |-> IF c = "title" /\ "s2" \in Solves THEN "s2" ELSE "s1"]
MCSafeName == [s \in Solves |-> IF s = "s1" THEN "f1" ELSE "f2"]
MCAsked == [c \in Calls |->
  IF c = "explore" THEN [model |-> "haiku", betas |-> Betas, title |-> FALSE, max |-> 3]
  ELSE [model |-> "other", betas |-> {}, title |-> TRUE, max |-> 3]]

(* A gateway of its own; a standalone one that was launched with another   *)
(* model than VERTEX_MODEL, which Vertex has meanwhile withdrawn; one whose*)
(* directory is not configured.                                            *)
Own == [shared |-> FALSE, dir |-> FALSE, pin |-> FALSE, tagged |-> {},
        env |-> "sonnet", own |-> "sonnet"]
MCWirings ==
  {Own,
   [Own EXCEPT !.shared = TRUE, !.dir = TRUE, !.tagged = {"title"}, !.own = "opus"],
   [Own EXCEPT !.shared = TRUE, !.pin = TRUE, !.tagged = Calls]}
MCClaude == {"sonnet", "haiku", "opus"}
MCMissing == {"opus"}
===============================================================================
