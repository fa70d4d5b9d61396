------------------------------ MODULE HarnessHooks ------------------------------
(***************************************************************************)
(* An arm from the driver's readiness gate through its solve: main asks    *)
(* whether it is ready, a worker sets it up, wires it, and runs Claude     *)
(* Code, which calls the arm's hooks before every tool call and whenever   *)
(* the agent would stop (bench/cc_runner.py).  The box the arm depends on  *)
(* may fail at any point: a proxy dies, a login lapses.                    *)
(***************************************************************************)
EXTENDS ArmWiring, Integers

CONSTANTS
  ArmNames,     (* the arms asked for on the command line                 *)
  Boxes,        (* Boxes[arm]: the boxes it may find                      *)
  Deliveries,   (* values of CCB_BRIEF_DELIVERY                           *)
  CallCap       (* --call-cap, the max_turns of the run                   *)

ASSUME HooksAssumption ==
  /\ CallCap \in Nat \ {0}
  /\ Boxes \in [ArmNames -> SUBSET SUBSET STRING]
  /\ Deliveries \subseteq STRING

VARIABLES
  arm, box, delivery,
  at,        (* where the arm stands                                      *)
  cfg,       (* its _ArmConfig                                            *)
  opts,      (* the ClaudeAgentOptions of the run                         *)
  turns,     (* model turns of the agent                                  *)
  call,      (* the tool the agent asked for                              *)
  ran,       (* history: the last call that ran                           *)
  forced,    (* the SDK's stop_hook_active                                *)
  pushed,    (* history: stops blocked since the agent last used a tool   *)
  lapsed,    (* history: what failed after setup                          *)
  outcome

wiring == <<arm, delivery, cfg, opts>>
agent == <<turns, call, ran, forced, pushed>>
vars == <<arm, box, delivery, at, cfg, opts, turns, call, ran, forced, pushed, lapsed, outcome>>

Running == {"agent", "pre", "tool", "stop"}
Places == Running \cup {"gate", "setup", "config", "hooks", "launch", "over"}
Outcomes == {"none", "skipped", "infra", "result", "capped", "wall"}
(* What a box may lose while an arm runs; the rest is its environment.     *)
Volatile == {"listening", "runner", "installed", "binary", "session", "token"}
(* A call: the tool, whose input it has, and (history) what its hook said. *)
NoCall == [tool |-> "none", input |-> "asked", hook |-> "none"]
CallOf(o) == [tool : Tools(o) \cup {"none"}, input : {"asked", "rewritten"},
              hook : {"none", "raise", "rewrite"}]
NoOptions == SdkOptions(ArmConfig, "system")

TypeOK ==
  /\ arm \in ArmNames /\ delivery \in Deliveries
  /\ at \in Places /\ outcome \in Outcomes /\ (at = "over" <=> outcome # "none")
  /\ turns \in 0..CallCap
  /\ call \in CallOf(opts) /\ ran \in CallOf(opts)
  /\ forced \in BOOLEAN /\ pushed \in Nat /\ lapsed \subseteq Volatile

Init ==
  /\ arm \in ArmNames /\ box \in Boxes[arm] /\ delivery \in Deliveries
  /\ at = "gate" /\ outcome = "none"
  /\ cfg = ArmConfig /\ opts = NoOptions
  /\ turns = 0 /\ call = NoCall /\ ran = NoCall
  /\ forced = FALSE /\ pushed = 0 /\ lapsed = {}

End(why) == at' = "over" /\ outcome' = why
Goto(place) == at' = place /\ UNCHANGED outcome

-------------------------------------------------------------------------------
(* main: an unknown arm and one that is not ready are skipped.             *)
Gate ==
  /\ at = "gate"
  /\ \E out \in RunnerOutputs("ping", box) :
       IF arm \in Registered /\ Ready(arm, box, out) THEN Goto("setup") ELSE End("skipped")
  /\ UNCHANGED <<wiring, box, agent, lapsed>>

(* arm.setup(), the Woz login.  A stored session is preferred; a stale key *)
(* mints none, and the login itself may fail.  Mutant: the login's error   *)
(* is logged and the solve goes on.                                        *)
Setup_logs ==
  /\ at = "setup" /\ Goto("config")
  /\ \/ UNCHANGED box
     \/ arm = "woz" /\ "token" \in box /\ box' = box \cup {"session"}
  /\ UNCHANGED <<wiring, agent, lapsed>>

Setup ==
  /\ at = "setup"
  /\ \/ /\ arm = "woz" => SessionAuthenticated(box)
        /\ Goto("config") /\ UNCHANGED box
     \/ /\ arm = "woz" /\ ~SessionAuthenticated(box)
        /\ \/ "token" \in box /\ box' = box \cup {"session"} /\ Goto("config")
           \/ End("infra") /\ UNCHANGED box
  /\ UNCHANGED <<wiring, agent, lapsed>>

Configure ==
  /\ at = "config" /\ Goto("hooks")
  /\ cfg' = BuildArmConfig(arm, box)
  /\ UNCHANGED <<arm, delivery, opts, box, agent, lapsed>>

(* step0_injection: a text, none, or an exception, which is none.          *)
Briefs ==
  CASE arm = "dasein" -> {DaseinBrief(out) : out \in RunnerOutputs("step0", box)}
    [] arm = "steering" -> BOOLEAN
    [] OTHER -> {FALSE}

WireHooks ==
  /\ at = "hooks" /\ Goto("launch")
  /\ \E brief \in Briefs : cfg' = BuildHarnessHooks(arm, cfg, brief, box)
  /\ UNCHANGED <<arm, delivery, opts, box, agent, lapsed>>

Launch ==
  /\ at = "launch"
  /\ IF "sdk" \in box
       THEN Goto("agent") /\ opts' = SdkOptions(cfg, delivery)
       ELSE End("infra") /\ UNCHANGED opts
  /\ UNCHANGED <<arm, delivery, cfg, box, agent, lapsed>>

-------------------------------------------------------------------------------
(* A turn of the agent that calls a tool, within max_turns.                *)
AgentCalls ==
  /\ at = "agent" /\ turns < CallCap
  /\ \E t \in Tools(opts) : call' = [NoCall EXCEPT !.tool = t]
  /\ turns' = turns + 1
  /\ Goto(IF "pre_tool_hook" \in opts.hooks THEN "pre" ELSE "tool")
  /\ UNCHANGED <<wiring, box, ran, forced, pushed, lapsed>>

(* pre_tool_hook.  rtk rewrite prints another command, the same, or none,  *)
(* and may fail; a hook may raise.                                         *)
PreToolResults ==
  CASE arm = "rtk" /\ call.tool = "Bash" /\ "binary" \in box -> {"none", "rewrite"}
    [] arm = "steering" -> {"none", "raise", "rewrite"}
    [] OTHER -> {"none"}

(* _pre_tool allows every call, with updatedInput if the hook gave one.    *)
PreTool ==
  /\ at = "pre" /\ Goto("tool")
  /\ \E res \in PreToolResults :
       call' = [call EXCEPT !.input = IF res = "rewrite" THEN "rewritten" ELSE @, !.hook = res]
  /\ UNCHANGED <<wiring, box, turns, ran, forced, pushed, lapsed>>

(* The SDK runs the call.  Having used a tool, the agent may be taken for  *)
(* unforced again.                                                         *)
ToolRuns ==
  /\ at = "tool" /\ Goto("agent")
  /\ ran' = call /\ call' = NoCall
  /\ forced' \in {forced, FALSE}
  /\ pushed' = 0
  /\ UNCHANGED <<wiring, box, turns, lapsed>>

(* A turn that would be the last.                                          *)
AgentStops ==
  /\ at = "agent" /\ turns < CallCap
  /\ turns' = turns + 1
  /\ IF "stop_decision" \in opts.hooks THEN Goto("stop") ELSE End("result")
  /\ UNCHANGED <<wiring, box, call, ran, forced, pushed, lapsed>>

(* stop_decision; a hook may raise.                                        *)
Decisions ==
  CASE arm = "dasein" -> {DaseinStop(out) : out \in RunnerOutputs("adjudicate", box)}
    [] OTHER -> {"abstain", "finalize", "raise", "continue"}

(* _stop, and a seeded defect that does not ask for stop_hook_active.      *)
Allows_unasked(dec) == dec # "continue"
Allows(dec) == forced \/ dec # "continue"

Stop ==
  /\ at = "stop"
  /\ \E dec \in Decisions :
       IF Allows(dec) THEN End("result") /\ UNCHANGED <<forced, pushed>>
       ELSE Goto("agent") /\ forced' = TRUE /\ pushed' = pushed + 1
  /\ UNCHANGED <<wiring, box, turns, call, ran, lapsed>>

(* The SDK ends a run whose turns are spent, or fails.                     *)
TurnsSpent ==
  /\ at = "agent" /\ turns = CallCap /\ End("capped")
  /\ UNCHANGED <<wiring, box, agent, lapsed>>
SdkFails ==
  /\ at \in Running /\ End("infra")
  /\ UNCHANGED <<wiring, box, agent, lapsed>>

(* asyncio.wait_for: hooks are plain calls inside the event loop, which    *)
(* looks at its timers only when none is running.  That the SDK's generator*)
(* is closed is part of the step.  Mutant: the deadline is looked at       *)
(* between turns.                                                          *)
WallCap_betweenTurns ==
  /\ at = "agent" /\ End("wall")
  /\ UNCHANGED <<wiring, box, agent, lapsed>>

WallCap ==
  /\ at \in {"agent", "tool"} /\ End("wall")
  /\ UNCHANGED <<wiring, box, agent, lapsed>>

BoxFails ==
  /\ at # "over"
  /\ \E f \in Volatile \cap box :
       /\ box' = box \ {f}
       /\ lapsed' = IF at \in {"gate", "setup"} THEN lapsed ELSE lapsed \cup {f}
  /\ UNCHANGED <<wiring, at, agent, outcome>>

Prepare == Gate \/ Setup \/ Configure \/ WireHooks \/ Launch
(* Every hook that leaves the process has a timeout, and answers then at   *)
(* the latest.                                                             *)
Hook == PreTool \/ Stop
Agent == AgentCalls \/ ToolRuns \/ AgentStops \/ TurnsSpent \/ SdkFails
Next == Prepare \/ Hook \/ Agent \/ WallCap \/ BoxFails

(* The agent and its tools may hang.  Once the deadline is over, the loop  *)
(* fires it whenever it gets to look.                                      *)
Fairness == WF_vars(Prepare) /\ WF_vars(Hook) /\ SF_vars(WallCap)
Spec == Init /\ [][Next]_vars /\ Fairness

-------------------------------------------------------------------------------
(* A solve under the name of an arm goes through the arm's product: model  *)
(* calls through the vendor's proxy, Bash through the rewriting hook, file *)
(* work through the plugin's tools, and the agent keeps its own tools      *)
(* where the product leaves them; bear has no seam here and runs as the    *)
(* control.  The proxy arms are excepted, all four, where their base URL   *)
(* is nothing but slashes: they pass their gate (the thin ones if anything *)
(* listens at port 80) and run the control under their name.               *)
ProxyArms == Thin \cup {"dasein"}
NoAddress == arm \in ProxyArms /\ "url" \notin box

OnThePath ==
  CASE arm \in Thin -> opts.base = "vendor"
    [] arm = "dasein" -> opts.base = "vendor" /\ "stop_decision" \in opts.hooks
    [] arm = "rtk" -> "pre_tool_hook" \in opts.hooks
    [] arm = "woz" -> {"Bash", "Search"} \subseteq Tools(opts) /\ {"Read", "Edit"} \cap Tools(opts) = {}
    [] arm = "caveman" -> opts.plugin /\ ~opts.strict /\ DefaultAllowed \subseteq Tools(opts)
    [] arm = "hosted" -> "server" \in box => "hosted" \in Tools(opts) /\ ("replace" \in box => "Edit" \notin Tools(opts))
    [] OTHER -> opts.base = "gateway" /\ DefaultAllowed = Tools(opts) \ {"initial_scan"}
ProductOnThePath ==
  at \in Running => IF NoAddress THEN opts.base = "gateway" ELSE OnThePath

(* An agent can work on files: with native tools, or with a plugin's that  *)
(* has a login to answer with, unless it lapsed after setup or the         *)
(* operator vouched for it.                                                *)
NeverToolless ==
  at \in Running =>
    \/ {"Read", "hosted"} \cap Tools(opts) # {}
    \/ "Search" \in Tools(opts) /\ ("session" \in box \/ "session" \in lapsed \/ "bypass" \in box)

(* The brief of an arm reaches the agent in one way and no second, and     *)
(* with no brief none does, whatever CCB_BRIEF_DELIVERY says.              *)
BriefOnce ==
  at \in Running =>
    LET b == opts.brief
    IN  /\ cfg.append = (b.system \/ b.prompt \/ b.scan)
        /\ ~(b.system /\ b.prompt) /\ ~(b.system /\ b.scan) /\ ~(b.prompt /\ b.scan)
        /\ b.scan <=> "initial_scan" \in Tools(opts)

(* An agent that has nothing more to do is not held: between two uses of a *)
(* tool an arm blocks its stop once at most, whatever the arm decides.     *)
NeverPinned == pushed <= 1

(* What runs is what the agent asked for, unless this call's hook rewrote  *)
(* it: a hook that fails or abstains changes no call, and rtk's rewrites   *)
(* nothing but Bash.                                                       *)
CallsRunAsMeant ==
  /\ ran.input = "rewritten" <=> ran.hook = "rewrite"
  /\ ran.input = "rewritten" => arm = "steering" \/ (arm = "rtk" /\ ran.tool = "Bash")

(* Every solve ends, though the agent, its tools and the box may hang.     *)
SolveEnds == <>(at = "over")
===============================================================================
