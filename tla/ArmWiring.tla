------------------------------- MODULE ArmWiring -------------------------------
(***************************************************************************)
(* What an arm asks of the harness and what the harness makes of it: the   *)
(* readiness gates of arms/*.py, bench/arm.py's contract, and the way from *)
(* an arm to the options of one Claude Code run (bench/cc_runner.py,       *)
(* build_arm_config, _build_harness_hooks, _run_sdk).                      *)
(*                                                                         *)
(* box is the set of facts that hold on the runner box:                    *)
(*   env        every variable the arm needs is set                        *)
(*   url        the base URL it names is more than slashes                 *)
(*   enabled    BEAR_ENABLED=1                                             *)
(*   listening  a TCP connection to the vendor's proxy succeeds            *)
(*   argv, runner, installed   the hook runner parses, runs, answers ok    *)
(*   binary, rewrite           rtk is there, and is a rewriting one        *)
(*   plugin, node, session     the plugin tree, a node for it, a login     *)
(*   token, bypass   the key still mints a session; the probe is skipped   *)
(*   sdk             claude_agent_sdk can be imported                      *)
(*   server, replace what the attach of a bare MCP arm says                *)
(***************************************************************************)
EXTENDS Sequences

(* "hosted" stands for an arm that brings a bare MCP server, "steering"    *)
(* for the arms of tests/test_harness_hooks.py: any the contract admits.   *)
Thin == {"headroom", "compresr", "edgee"}
Plugins == {"woz", "caveman"}
Contract == {"hosted", "steering"}
Registered == {"baseline", "bear", "dasein", "rtk"} \cup Thin \cup Plugins \cup Contract

Kind(arm) ==
  CASE arm \in Thin \cup {"dasein"} -> "proxy"
    [] arm \in Plugins \cup {"hosted"} -> "tool"
    [] arm = "bear" -> "transform"
    [] OTHER -> "baseline"

Overridden(arm) ==
  CASE arm = "dasein" -> {"step0_injection", "stop_decision"}
    [] arm = "rtk" -> {"pre_tool_hook"}
    [] arm = "steering" -> {"step0_injection", "pre_tool_hook", "stop_decision"}
    [] OTHER -> {}

HasHarnessHooks(arm) == Overridden(arm) # {}

-------------------------------------------------------------------------------
(* dasein's hook runner: a command's standard output is a sequence of      *)
(* chunks, a banner, JSON that is no object, or an answer; it is empty     *)
(* when the runner fails, prints nothing or outlives its timeout.          *)
Answers == {"ok", "not ok", "brief", "no brief", "FINALIZE", "CONTINUE", "odd"}

Printed(command) ==
  CASE command = "ping" -> {"ok", "not ok"}
    [] command = "step0" -> {"brief", "no brief"}
    [] command = "adjudicate" -> {"FINALIZE", "CONTINUE", "odd"}

RunnerOutputs(command, box) ==
  {<<>>} \cup
  (IF {"argv", "runner"} \subseteq box
     THEN {<<"list">>} \cup UNION {{<<a>>, <<"banner", a>>} :
            a \in IF "installed" \in box THEN Printed(command) \ {"not ok"} ELSE {"not ok"}}
     ELSE {})

(* The whole stream if it is one object, else the first object in it.      *)
ParseHookJson(out) ==
  LET objects == SelectSeq(out, LAMBDA c : c \in Answers)
  IN  IF objects = <<>> THEN "none" ELSE Head(objects)

DaseinBrief(out) == ParseHookJson(out) = "brief"

(* CONTINUE abstains too: the only lever of the runner is FINALIZE.        *)
DaseinStop(out) == IF ParseHookJson(out) = "FINALIZE" THEN "finalize" ELSE "abstain"

-------------------------------------------------------------------------------
(* Readiness, arm by arm; out is what a ping of the hook runner printed.   *)
ArmReady(box) == "env" \in box
HeadroomReady(box) == ArmReady(box) /\ "listening" \in box
CompresrReady(box) == ArmReady(box) /\ "listening" \in box
EdgeeReady(box) == ArmReady(box) /\ "listening" \in box
BearReady(box) == "enabled" \in box /\ ArmReady(box)
DaseinReady(box, out) == ArmReady(box) /\ "argv" \in box /\ ParseHookJson(out) = "ok"
RtkReady(box) == {"binary", "rewrite"} \subseteq box
CavemanReady(box) == {"env", "plugin", "node"} \subseteq box

(* wozcode-cli.js status, or WOZ_SKIP_SESSION_CHECK.                       *)
SessionAuthenticated(box) == "bypass" \in box \/ {"plugin", "session"} \subseteq box
WozReady(box) ==
  /\ ArmReady(box)
  /\ {"plugin", "node"} \subseteq box
  /\ SessionAuthenticated(box)

Ready(arm, box, out) ==
  CASE arm = "headroom" -> HeadroomReady(box)
    [] arm = "compresr" -> CompresrReady(box)
    [] arm = "edgee" -> EdgeeReady(box)
    [] arm = "bear" -> BearReady(box)
    [] arm = "dasein" -> DaseinReady(box, out)
    [] arm = "rtk" -> RtkReady(box)
    [] arm = "caveman" -> CavemanReady(box)
    [] arm = "woz" -> WozReady(box)
    [] OTHER -> ArmReady(box)

-------------------------------------------------------------------------------
(* model_base_url: the variable, or a default address, less its slashes.   *)
(* dasein has no default.  "" stands for the empty string.                 *)
ModelBaseUrl(arm, box) ==
  IF "env" \in box THEN IF "url" \in box THEN "vendor" ELSE ""
  ELSE IF arm = "dasein" THEN "" ELSE "vendor"

(* attach() of the tool arms.                                              *)
WozAttach(box) == [plugin |-> "plugin" \in box, server |-> FALSE, globs |-> {"Search"}, replace |-> TRUE]
CavemanAttach(box) == [plugin |-> "plugin" \in box, server |-> FALSE, globs |-> {}, replace |-> FALSE]
HostedAttach(box) == [plugin |-> FALSE, server |-> "server" \in box, globs |-> {}, replace |-> "replace" \in box]
Attach(arm, box) ==
  CASE arm = "woz" -> WozAttach(box)
    [] arm = "caveman" -> CavemanAttach(box)
    [] OTHER -> HostedAttach(box)

(* "Edit" stands for Edit, Write, MultiEdit, Glob and Grep, which the two  *)
(* lists of dropped tools share.                                           *)
DefaultAllowed == {"Bash", "Read", "Edit"}
ReplaceToolsDrop == {"Edit"}
PluginNativeDisallowed == {"Read", "Edit"}

ArmConfig ==
  [base |-> "", plugin |-> FALSE, servers |-> {}, allowed |-> DefaultAllowed,
   disallowed |-> {}, append |-> FALSE, hooks |-> {}]

McpServerConfig(attach) == IF attach.server THEN {"hosted"} ELSE {}

PluginConfig(attach) ==
  IF attach.replace
    THEN [ArmConfig EXCEPT !.plugin = TRUE, !.disallowed = PluginNativeDisallowed,
                           !.allowed = {"Bash", "Agent"} \cup attach.globs]
    ELSE [ArmConfig EXCEPT !.plugin = TRUE, !.allowed = @ \cup {"Agent"} \cup attach.globs]

BareConfig(attach) ==
  IF McpServerConfig(attach) = {} THEN ArmConfig
  ELSE [ArmConfig EXCEPT !.servers = McpServerConfig(attach), !.allowed = @ \cup {"hosted"},
                         !.disallowed = IF attach.replace THEN ReplaceToolsDrop ELSE {}]

BuildArmConfig(arm, box) ==
  CASE Kind(arm) = "proxy" -> [ArmConfig EXCEPT !.base = ModelBaseUrl(arm, box)]
    [] Kind(arm) = "tool" ->
         LET attach == Attach(arm, box)
         IN  IF attach.plugin THEN PluginConfig(attach) ELSE BareConfig(attach)
    [] OTHER -> ArmConfig

(* brief: step0_injection returned a text.  Without the SDK there is no    *)
(* HookMatcher, and the hooks are left out after the text was recorded.    *)
BuildHarnessHooks(arm, cfg, brief, box) ==
  IF ~HasHarnessHooks(arm) THEN cfg
  ELSE [cfg EXCEPT !.append = brief,
                   !.hooks = IF "sdk" \in box THEN Overridden(arm) \ {"step0_injection"} ELSE @]

-------------------------------------------------------------------------------
(* _run_sdk: where the brief goes under CCB_BRIEF_DELIVERY.                *)
Deliver(cfg, delivery) ==
  [system |-> cfg.append /\ delivery \notin {"usermsg", "tool"},
   prompt |-> cfg.append /\ delivery = "usermsg",
   scan |-> cfg.append /\ delivery = "tool"]

(* The options of the run; direct is the gateway's URL.  Mutant: MCP stays *)
(* strict though a plugin brings its server.                               *)
SdkOptions_strict(cfg, delivery) ==
  LET brief == Deliver(cfg, delivery)
  IN  [base |-> IF cfg.base # "" THEN cfg.base ELSE "gateway", plugin |-> cfg.plugin,
       servers |-> cfg.servers \cup (IF brief.scan THEN {"brief"} ELSE {}),
       allowed |-> cfg.allowed \cup (IF brief.scan THEN {"initial_scan"} ELSE {}),
       disallowed |-> cfg.disallowed, strict |-> TRUE, hooks |-> cfg.hooks, brief |-> brief]

SdkOptions(cfg, delivery) ==
  LET brief == Deliver(cfg, delivery)
  IN  [base |-> IF cfg.base # "" THEN cfg.base ELSE "gateway", plugin |-> cfg.plugin,
       servers |-> cfg.servers \cup (IF brief.scan THEN {"brief"} ELSE {}),
       allowed |-> cfg.allowed \cup (IF brief.scan THEN {"initial_scan"} ELSE {}),
       disallowed |-> cfg.disallowed, strict |-> ~cfg.plugin, hooks |-> cfg.hooks, brief |-> brief]

(* The tools there are under these options, on the strictest reading of    *)
(* allowed_tools.                                                          *)
Tools(opts) ==
  ({"Bash", "Read", "Edit", "Agent"} \cup
   (IF opts.plugin /\ ~opts.strict THEN {"Search"} ELSE {}) \cup
   (IF "hosted" \in opts.servers THEN {"hosted"} ELSE {}) \cup
   (IF "brief" \in opts.servers THEN {"initial_scan"} ELSE {}))
  \cap (opts.allowed \ opts.disallowed)
===============================================================================
