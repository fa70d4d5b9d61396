----------------------------- MODULE HarnessProofs -----------------------------
(***************************************************************************)
(* Theorems about what stands between an arm and its two harnesses: the    *)
(* hooks of Claude Code (HarnessHooks), for any arms, boxes, deliveries    *)
(* and call cap, where a box may hold any facts; and the MCP client of     *)
(* mini-swe (McpClient), for any number of pages, calls and messages, and  *)
(* a server whose own requests never carry an id of the client's.          *)
(***************************************************************************)
EXTENDS HarnessHooks, McpState, SequenceTheorems, TLAPS

Prep == {"gate", "setup", "config", "hooks", "launch"}
Wiring == {"hooks", "launch"} \cup Running

(* Before the agent runs, it asked for nothing.                            *)
Quiet == at \in Prep => call = NoCall /\ ran = NoCall /\ turns = 0

(* A stop was blocked once, and the SDK was told so.                       *)
PushedOnce == pushed \in {0, 1} /\ (pushed = 1 => forced)

(* A call on its way says what its hook did to it.                         *)
Meant(c) ==
  /\ c.input = "rewritten" <=> c.hook = "rewrite"
  /\ c.input = "rewritten" => arm = "steering" \/ (arm = "rtk" /\ c.tool = "Bash")
CallsMeant == Meant(call) /\ Meant(ran) /\ (at = "pre" => call.input = "asked" /\ call.hook = "none")

(* The facts a solve relies on are on the box and stay there.              *)
Readied ==
  /\ at \in {"setup", "config"} \cup Wiring => arm \in Registered
       /\ (arm \in Thin \cup {"dasein"} => "env" \in box)
       /\ (arm \in Plugins => "plugin" \in box)
  /\ at \in Running => "sdk" \in box

(* The configuration is the arm's, and its hooks are the arm's if there is *)
(* an SDK to call them.                                                    *)
Configs ==
  [base : {"", "vendor"}, plugin : BOOLEAN, servers : SUBSET {"hosted"},
   allowed : SUBSET {"Bash", "Read", "Edit", "Agent", "Search", "hosted"},
   disallowed : SUBSET {"Read", "Edit"}, append : BOOLEAN,
   hooks : SUBSET {"pre_tool_hook", "stop_decision"}]
Fits(c, d) ==
  /\ c.base = d.base /\ c.plugin = d.plugin /\ c.servers = d.servers
  /\ c.allowed = d.allowed /\ c.disallowed = d.disallowed
Configured ==
  /\ at \in Wiring => cfg \in Configs /\ Fits(cfg, BuildArmConfig(arm, box))
  /\ at = "hooks" => cfg.hooks = {}
  /\ at \in {"launch"} \cup Running /\ "sdk" \in box => cfg.hooks = Overridden(arm) \ {"step0_injection"}
  /\ at \in Running => opts = SdkOptions(cfg, delivery)

(* Past setup, a woz has a login, had one that lapsed, or was vouched for. *)
LoggedIn ==
  at \in {"config"} \cup Wiring /\ arm = "woz" => ("session" \in box \cup lapsed \/ "bypass" \in box)

(* The inductive invariant. *)
IInv ==
  /\ TypeOK
  /\ Quiet
  /\ PushedOnce
  /\ CallsMeant
  /\ Readied
  /\ Configured
  /\ LoggedIn

-------------------------------------------------------------------------------
(* The initial states. *)
LEMMA NoCallTyped == \A o : NoCall \in CallOf(o)
  BY DEF NoCall, CallOf

LEMMA InitInv == Init => IInv
  <1> SUFFICES ASSUME Init PROVE IInv
    OBVIOUS
  <1>1. TypeOK
    <2>1. call \in CallOf(opts) /\ ran \in CallOf(opts)
      BY NoCallTyped DEF Init
    <2>2. 0 \in 0 .. CallCap
      BY HooksAssumption
    <2> QED
      BY <2>1, <2>2 DEF Init, TypeOK, Places, Running, Outcomes
  <1>2. Quiet /\ PushedOnce
    BY DEF Init, Quiet, PushedOnce
  <1>3. CallsMeant /\ Readied /\ Configured /\ LoggedIn
    BY DEF Init, CallsMeant, Meant, NoCall, Readied, Configured, LoggedIn, Wiring, Running
  <1> QED
    BY <1>1, <1>2, <1>3 DEF IInv

-------------------------------------------------------------------------------
(* Types. *)
LEMMA TypeStep ==
  ASSUME TypeOK, Quiet, Next
  PROVE  TypeOK'
  <1> USE HooksAssumption DEF TypeOK, Places, Outcomes, Running, Goto, End, wiring, agent
  <1>1. CASE Gate
    <2>1. (at' = "setup" /\ outcome' = outcome) \/ (at' = "over" /\ outcome' = "skipped")
      BY <1>1 DEF Gate
    <2>2. at = "gate" /\ UNCHANGED <<arm, delivery, opts, turns, call, ran, forced, pushed, lapsed>>
      BY <1>1 DEF Gate
    <2> QED
      BY <2>1, <2>2
  <1>2. CASE Setup
    BY <1>2 DEF Setup
  <1>3. CASE Configure
    BY <1>3 DEF Configure
  <1>4. CASE WireHooks
    BY <1>4 DEF WireHooks
  <1>5. CASE Launch
    <2>1. call = NoCall /\ ran = NoCall
      BY <1>5 DEF Launch, Quiet, Prep
    <2>2. call' \in CallOf(opts') /\ ran' \in CallOf(opts')
      BY <1>5, <2>1, NoCallTyped DEF Launch
    <2> QED
      BY <1>5, <2>2 DEF Launch
  <1>6. CASE AgentCalls
    <2>1. call' \in CallOf(opts')
      BY <1>6 DEF AgentCalls, NoCall, CallOf
    <2> QED
      BY <1>6, <2>1 DEF AgentCalls
  <1>7. CASE PreTool
    <2>1. PreToolResults \subseteq {"none", "raise", "rewrite"}
      BY DEF PreToolResults
    <2>2. PICK res \in PreToolResults :
            call' = [call EXCEPT !.input = IF res = "rewrite" THEN "rewritten" ELSE @, !.hook = res]
      BY <1>7 DEF PreTool
    <2>3. call' \in CallOf(opts)
      BY <2>1, <2>2 DEF CallOf
    <2> QED
      BY <1>7, <2>3 DEF PreTool
  <1>8. CASE ToolRuns
    BY <1>8, NoCallTyped DEF ToolRuns
  <1>9. CASE AgentStops
    BY <1>9 DEF AgentStops
  <1>10. CASE Stop
    <2>1. at = "stop" /\ UNCHANGED <<arm, delivery, opts, turns, call, ran, lapsed>>
      BY <1>10 DEF Stop
    <2>2. \/ at' = "over" /\ outcome' = "result" /\ UNCHANGED <<forced, pushed>>
          \/ at' = "agent" /\ outcome' = outcome /\ forced' = TRUE /\ pushed' = pushed + 1
      BY <1>10 DEF Stop
    <2>3. forced' \in BOOLEAN /\ pushed' \in Nat
      <3>1. forced \in BOOLEAN /\ pushed \in Nat
        OBVIOUS
      <3>2. forced' \in {forced, TRUE} /\ pushed' \in {pushed, pushed + 1}
        BY <2>2, Zenon
      <3> HIDE DEF TypeOK
      <3>3. forced' \in BOOLEAN
        BY <3>1, <3>2, Zenon
      <3>4. pushed' \in Nat
        BY <3>1, <3>2
      <3> QED
        BY <3>3, <3>4
    <2>4. at' \in Places /\ outcome' \in Outcomes /\ (at' = "over" <=> outcome' # "none")
      BY <2>1, <2>2
    <2>5. call' \in CallOf(opts') /\ ran' \in CallOf(opts')
      BY <2>1
    <2> QED
      BY <2>1, <2>3, <2>4, <2>5
  <1>11. CASE TurnsSpent \/ SdkFails \/ WallCap
    BY <1>11 DEF TurnsSpent, SdkFails, WallCap
  <1>12. CASE BoxFails
    BY <1>12 DEF BoxFails
  <1> QED
    BY <1>1, <1>2, <1>3, <1>4, <1>5, <1>6, <1>7, <1>8, <1>9, <1>10, <1>11, <1>12
       DEF Next, Prepare, Hook, Agent

(* Nothing is asked for before the agent runs. *)
LEMMA QuietStep ==
  ASSUME Quiet, TypeOK, Next
  PROVE  Quiet'
  <1> USE DEF Quiet, Prep, Goto, End, agent
  <1>1. CASE Prepare
    BY <1>1 DEF Prepare, Gate, Setup, Configure, WireHooks, Launch
  <1>2. CASE Hook \/ Agent \/ WallCap
    BY <1>2 DEF Hook, Agent, AgentCalls, PreTool, ToolRuns, AgentStops, Stop, TurnsSpent, SdkFails, WallCap,
       Running
  <1>3. CASE BoxFails
    BY <1>3 DEF BoxFails
  <1> QED
    BY <1>1, <1>2, <1>3 DEF Next

(* A forced agent is let go. *)
LEMMA PushStep ==
  ASSUME PushedOnce, TypeOK, Next
  PROVE  PushedOnce'
  <1>1. CASE Prepare \/ BoxFails
    BY <1>1 DEF Prepare, Gate, Setup, Configure, WireHooks, Launch, BoxFails, agent, PushedOnce
  <1>2. CASE AgentCalls \/ PreTool \/ AgentStops \/ TurnsSpent \/ SdkFails \/ WallCap
    BY <1>2 DEF AgentCalls, PreTool, AgentStops, TurnsSpent, SdkFails, WallCap, agent, PushedOnce
  <1>3. CASE ToolRuns
    BY <1>3 DEF ToolRuns, PushedOnce
  <1>4. CASE Stop
    <2>1. CASE UNCHANGED <<forced, pushed>>
      BY <2>1 DEF PushedOnce
    <2>2. CASE ~forced /\ forced' = TRUE /\ pushed' = pushed + 1
      BY <2>2 DEF PushedOnce
    <2> QED
      BY <1>4, <2>1, <2>2 DEF Stop, Allows
  <1> QED
    BY <1>1, <1>2, <1>3, <1>4 DEF Next, Hook, Agent

(* A call is rewritten by its own hook only. *)
LEMMA CallStep ==
  ASSUME CallsMeant, TypeOK, Next
  PROVE  CallsMeant'
  <1>1. CASE Prepare \/ BoxFails
    <2>1. UNCHANGED <<arm, call, ran>> /\ (at' = "pre" => at = "pre")
      BY <1>1 DEF Prepare, Gate, Setup, Configure, WireHooks, Launch, BoxFails, agent, wiring, Goto, End
    <2> QED
      BY <2>1 DEF CallsMeant, Meant
  <1>2. CASE AgentStops \/ Stop \/ TurnsSpent \/ SdkFails \/ WallCap
    <2>1. UNCHANGED <<arm, call, ran>> /\ at' # "pre"
      BY <1>2 DEF AgentStops, Stop, TurnsSpent, SdkFails, WallCap, agent, wiring, Goto, End
    <2> QED
      BY <2>1 DEF CallsMeant, Meant
  <1>3. CASE AgentCalls
    <2>1. PICK t \in Tools(opts) : call' = [NoCall EXCEPT !.tool = t]
      BY <1>3 DEF AgentCalls
    <2>2. call'.input = "asked" /\ call'.hook = "none"
      BY <2>1 DEF NoCall
    <2> QED
      BY <1>3, <2>2 DEF CallsMeant, Meant, AgentCalls, wiring
  <1>4. CASE PreTool
    <2>1. PICK res \in PreToolResults :
            call' = [call EXCEPT !.input = IF res = "rewrite" THEN "rewritten" ELSE @, !.hook = res]
      BY <1>4 DEF PreTool
    <2>2. at = "pre" /\ at' = "tool" /\ UNCHANGED <<arm, ran>>
      BY <1>4 DEF PreTool, Goto, wiring
    <2>3. call \in CallOf(opts) /\ call.input = "asked"
      BY <2>2 DEF CallsMeant, TypeOK
    <2>4. /\ call'.input = IF res = "rewrite" THEN "rewritten" ELSE "asked"
          /\ call'.hook = res /\ call'.tool = call.tool
      BY <2>1, <2>3 DEF CallOf
    <2>5. res = "rewrite" => arm = "steering" \/ (arm = "rtk" /\ call.tool = "Bash")
      BY DEF PreToolResults
    <2> QED
      BY <2>2, <2>4, <2>5 DEF CallsMeant, Meant
  <1>5. CASE ToolRuns
    <2>1. ran' = call /\ call' = NoCall /\ at' = "agent" /\ arm' = arm
      BY <1>5 DEF ToolRuns, Goto, wiring
    <2> QED
      BY <2>1 DEF CallsMeant, Meant, NoCall
  <1> QED
    BY <1>1, <1>2, <1>3, <1>4, <1>5 DEF Next, Hook, Agent
-------------------------------------------------------------------------------
(* The facts that do not fail are where they were.                         *)
Lasting == {"env", "url", "plugin", "server", "replace", "sdk"}
SameBox == \A f \in Lasting : f \in box' <=> f \in box

LEMMA BoxStep ==
  ASSUME Next
  PROVE  SameBox /\ arm' = arm
  <1> USE DEF SameBox, Lasting
  <1>1. CASE Setup
    <2>1. box' \in {box, box \cup {"session"}} /\ arm' = arm
      BY <1>1 DEF Setup, wiring
    <2> QED
      BY <2>1
  <1>2. CASE BoxFails
    <2>1. (\E f \in Volatile : box' = box \ {f}) /\ arm' = arm
      BY <1>2 DEF BoxFails, wiring
    <2> QED
      BY <2>1 DEF Volatile
  <1>3. CASE Gate \/ Configure \/ WireHooks \/ Launch
    BY <1>3 DEF Gate, Configure, WireHooks, Launch, wiring
  <1>4. CASE Hook \/ Agent \/ WallCap
    BY <1>4 DEF Hook, Agent, AgentCalls, PreTool, ToolRuns, AgentStops, Stop, TurnsSpent, SdkFails, WallCap,
       wiring
  <1> QED
    BY <1>1, <1>2, <1>3, <1>4 DEF Next, Prepare

(* What each arm is configured to.                                         *)
LEMMA AttachKept ==
  ASSUME SameBox, NEW a
  PROVE  Attach(a, box') = Attach(a, box) /\ ModelBaseUrl(a, box') = ModelBaseUrl(a, box)
  <1>1. \A f \in Lasting : (f \in box') = (f \in box)
    BY SMT DEF SameBox
  <1>2. /\ ("plugin" \in box') = ("plugin" \in box) /\ ("server" \in box') = ("server" \in box)
        /\ ("replace" \in box') = ("replace" \in box)
    BY <1>1, Zenon DEF Lasting
  <1>3. WozAttach(box') = WozAttach(box) /\ CavemanAttach(box') = CavemanAttach(box)
        /\ HostedAttach(box') = HostedAttach(box)
    BY <1>2, Zenon DEF WozAttach, CavemanAttach, HostedAttach
  <1>4. Attach(a, box') = Attach(a, box)
    BY <1>3 DEF Attach
  <1>5. ModelBaseUrl(a, box') = ModelBaseUrl(a, box)
    BY DEF SameBox, Lasting, ModelBaseUrl
  <1> QED
    BY <1>4, <1>5

LEMMA BuildKept ==
  ASSUME SameBox, NEW a
  PROVE  BuildArmConfig(a, box') = BuildArmConfig(a, box)
  BY AttachKept DEF BuildArmConfig

LEMMA AttachShape ==
  ASSUME NEW a, NEW b
  PROVE  Attach(a, b) \in [plugin : BOOLEAN, server : BOOLEAN, globs : SUBSET {"Search"}, replace : BOOLEAN]
  BY DEF Attach, WozAttach, CavemanAttach, HostedAttach

LEMMA BuildShape ==
  ASSUME NEW a, NEW b
  PROVE  BuildArmConfig(a, b) \in Configs /\ BuildArmConfig(a, b).hooks = {}
  <1> DEFINE at0 == Attach(a, b)
  <1>1. at0 \in [plugin : BOOLEAN, server : BOOLEAN, globs : SUBSET {"Search"}, replace : BOOLEAN]
    BY AttachShape
  <1> HIDE DEF at0
  <1>2. ArmConfig \in Configs /\ ArmConfig.hooks = {}
    BY DEF ArmConfig, Configs, DefaultAllowed
  <1>3. /\ [ArmConfig EXCEPT !.base = ModelBaseUrl(a, b)] \in Configs
        /\ [ArmConfig EXCEPT !.base = ModelBaseUrl(a, b)].hooks = {}
    BY DEF ArmConfig, Configs, DefaultAllowed, ModelBaseUrl
  <1>4. PluginConfig(at0) \in Configs /\ PluginConfig(at0).hooks = {}
    BY <1>1 DEF PluginConfig, ArmConfig, Configs, DefaultAllowed, PluginNativeDisallowed
  <1>5. BareConfig(at0) \in Configs /\ BareConfig(at0).hooks = {}
    BY <1>1 DEF BareConfig, McpServerConfig, ArmConfig, Configs, DefaultAllowed, ReplaceToolsDrop
  <1> QED
    BY <1>2, <1>3, <1>4, <1>5 DEF BuildArmConfig, at0

LEMMA ReadyMeans ==
  ASSUME NEW a, NEW b, NEW print, Ready(a, b, print)
  PROVE  /\ a \in Thin \cup {"dasein"} => "env" \in b
         /\ a \in Plugins => "plugin" \in b
  BY DEF Ready, Thin, Plugins, HeadroomReady, CompresrReady, EdgeeReady, DaseinReady, CavemanReady,
     WozReady, ArmReady

LEMMA ReadiedStep ==
  ASSUME TypeOK, Readied, Next
  PROVE  Readied'
  <1>0. SameBox /\ arm' = arm
    BY BoxStep
  <1> USE DEF Readied, Wiring, Running, Goto, End, SameBox, Lasting, Plugins, Thin
  <1>1. CASE Gate
    <2>1. at' = "over" \/ (at' = "setup" /\ arm \in Registered /\ \E print : Ready(arm, box, print))
      BY <1>1 DEF Gate
    <2>2. CASE at' = "over"
      BY <2>2
    <2>3. CASE at' = "setup" /\ arm \in Registered /\ \E print : Ready(arm, box, print)
      <3>1. /\ arm \in Thin \cup {"dasein"} => "env" \in box
            /\ arm \in Plugins => "plugin" \in box
        BY <2>3, ReadyMeans
      <3> QED
        BY <1>0, <2>3, <3>1
    <2> QED
      BY <2>1, <2>2, <2>3
  <1>2. CASE Setup \/ Configure \/ WireHooks
    <2>1. at' \in {"config", "hooks", "launch", "over"} /\ at \in {"setup", "config", "hooks"}
      BY <1>2 DEF Setup, Configure, WireHooks
    <2> QED
      BY <1>0, <2>1
  <1>3. CASE Launch
    <2>1. (at' = "over" \/ (at' = "agent" /\ "sdk" \in box)) /\ at = "launch"
      BY <1>3 DEF Launch
    <2> QED
      BY <1>0, <1>3, <2>1 DEF Launch
  <1>4. CASE Hook \/ Agent \/ WallCap
    <2>1. at \in Running /\ at' \in Running \cup {"over"}
      BY <1>4 DEF Hook, Agent, AgentCalls, PreTool, ToolRuns, AgentStops, Stop, TurnsSpent, SdkFails, WallCap
    <2> QED
      BY <1>0, <2>1
  <1>5. CASE BoxFails
    <2>1. at' = at
      BY <1>5 DEF BoxFails
    <2> QED
      BY <1>0, <2>1
  <1> QED
    BY <1>1, <1>2, <1>3, <1>4, <1>5 DEF Next, Prepare

LEMMA ConfiguredStep ==
  ASSUME TypeOK, Configured, Next
  PROVE  Configured'
  <1>0. SameBox /\ arm' = arm /\ BuildArmConfig(arm', box') = BuildArmConfig(arm, box)
    BY BoxStep, BuildKept
  <1>1. CASE Gate \/ Setup
    <2>1. at' \notin Wiring
      BY <1>1 DEF Gate, Setup, Wiring, Running, Goto, End
    <2> QED
      BY <2>1 DEF Configured, Wiring
  <1>2. CASE Configure
    <2>1. at' = "hooks" /\ cfg' = BuildArmConfig(arm, box)
      BY <1>2 DEF Configure, Goto
    <2> QED
      BY <1>0, <2>1, BuildShape DEF Configured, Running, Fits
  <1>3. CASE WireHooks
    <2>1. PICK brief \in Briefs : cfg' = BuildHarnessHooks(arm, cfg, brief, box)
      BY <1>3 DEF WireHooks
    <2>2. brief \in BOOLEAN
      BY DEF Briefs, DaseinBrief
    <2>3. at = "hooks" /\ at' = "launch" /\ cfg \in Configs /\ cfg.hooks = {}
          /\ Fits(cfg, BuildArmConfig(arm, box))
      BY <1>3 DEF WireHooks, Goto, Configured, Wiring
    <2>4. Overridden(arm) \ {"step0_injection"} \in SUBSET {"pre_tool_hook", "stop_decision"}
      BY DEF Overridden
    <2>5. CASE ~HasHarnessHooks(arm)
      <3>1. cfg' = cfg /\ Overridden(arm) \ {"step0_injection"} = {}
        BY <2>1, <2>5 DEF BuildHarnessHooks, HasHarnessHooks
      <3> QED
        BY <1>0, <2>3, <3>1 DEF Configured, Running
    <2>6. CASE HasHarnessHooks(arm)
      <3> DEFINE hooks == IF "sdk" \in box THEN Overridden(arm) \ {"step0_injection"} ELSE cfg.hooks
      <3>1. cfg' = [cfg EXCEPT !.append = brief, !.hooks = hooks]
        BY <2>1, <2>6 DEF BuildHarnessHooks
      <3>2. hooks \in SUBSET {"pre_tool_hook", "stop_decision"}
        BY <2>3, <2>4
      <3>3. "sdk" \in box => hooks = Overridden(arm) \ {"step0_injection"}
        OBVIOUS
      <3> HIDE DEF hooks
      <3>4. cfg' \in Configs /\ Fits(cfg', cfg) /\ cfg'.hooks = hooks
        BY <2>2, <2>3, <3>1, <3>2 DEF Configs, Fits
      <3>5. "sdk" \in box' <=> "sdk" \in box
        BY <1>0 DEF SameBox, Lasting
      <3>6. Fits(cfg', BuildArmConfig(arm', box'))
        BY <1>0, <2>3, <3>4 DEF Fits
      <3> QED
        BY <1>0, <2>3, <3>3, <3>4, <3>5, <3>6 DEF Configured, Running
    <2> QED
      BY <2>5, <2>6
  <1>4. CASE Launch
    <2>1. at = "launch" /\ cfg' = cfg /\ delivery' = delivery
      BY <1>4 DEF Launch
    <2>2. at' = "over" \/ (at' = "agent" /\ opts' = SdkOptions(cfg, delivery))
      BY <1>4 DEF Launch, Goto, End
    <2> QED
      BY <1>0, <2>1, <2>2 DEF Configured, Wiring, Running, SameBox, Lasting
  <1>5. CASE Hook \/ Agent \/ WallCap
    <2>1. at \in Running /\ at' \in Running \cup {"over"} /\ UNCHANGED <<cfg, opts, delivery>>
      BY <1>5 DEF Hook, Agent, AgentCalls, PreTool, ToolRuns, AgentStops, Stop, TurnsSpent, SdkFails, WallCap,
         Running, Goto, End, wiring
    <2> QED
      BY <1>0, <2>1 DEF Configured, Wiring, Running, SameBox, Lasting
  <1>6. CASE BoxFails
    <2>1. UNCHANGED <<at, cfg, opts, delivery>>
      BY <1>6 DEF BoxFails, wiring
    <2> QED
      BY <1>0, <2>1 DEF Configured, SameBox, Lasting
  <1> QED
    BY <1>1, <1>2, <1>3, <1>4, <1>5, <1>6 DEF Next, Prepare

(* A login seen or made at setup is on the box, or is known to have lapsed. *)
LEMMA LoggedInStep ==
  ASSUME LoggedIn, Next
  PROVE  LoggedIn'
  <1>0. arm' = arm
    BY BoxStep
  <1> USE DEF LoggedIn, Wiring, Running, Goto, End
  <1>1. CASE Gate
    <2>1. at' \in {"setup", "over"}
      BY <1>1 DEF Gate
    <2> QED
      BY <2>1
  <1>2. CASE Setup
    <2>1. /\ at' = "config" /\ arm = "woz" => ((SessionAuthenticated(box) /\ box' = box) \/ "session" \in box')
          /\ at' \in {"config", "over"}
      BY <1>2 DEF Setup
    <2> QED
      BY <1>0, <2>1 DEF SessionAuthenticated
  <1>3. CASE Configure \/ WireHooks \/ Launch
    <2>1. at \in {"config", "hooks", "launch"} /\ UNCHANGED <<box, lapsed>>
      BY <1>3 DEF Configure, WireHooks, Launch
    <2> QED
      BY <1>0, <2>1
  <1>4. CASE Hook \/ Agent \/ WallCap
    <2>1. at \in Running /\ UNCHANGED <<box, lapsed>>
      BY <1>4 DEF Hook, Agent, AgentCalls, PreTool, ToolRuns, AgentStops, Stop, TurnsSpent, SdkFails, WallCap
    <2> QED
      BY <1>0, <2>1
  <1>5. CASE BoxFails
    <2>1. PICK f \in Volatile :
            /\ box' = box \ {f}
            /\ lapsed' = IF at \in {"gate", "setup"} THEN lapsed ELSE lapsed \cup {f}
      BY <1>5 DEF BoxFails
    <2>2. at' = at
      BY <1>5 DEF BoxFails
    <2>3. f # "bypass"
      BY DEF Volatile
    <2> QED
      BY <1>0, <2>1, <2>2, <2>3
  <1> QED
    BY <1>1, <1>2, <1>3, <1>4, <1>5 DEF Next, Prepare

-------------------------------------------------------------------------------
LEMMA NextInv == IInv /\ [Next]_vars => IInv'
  <1> SUFFICES ASSUME IInv, [Next]_vars PROVE IInv'
    OBVIOUS
  <1>1. CASE Next
    BY <1>1, TypeStep, QuietStep, PushStep, CallStep, ReadiedStep, ConfiguredStep, LoggedInStep DEF IInv
  <1>2. CASE UNCHANGED vars
    BY <1>2 DEF vars, IInv, TypeOK, Quiet, PushedOnce, CallsMeant, Meant, Readied, Configured, LoggedIn
  <1> QED
    BY <1>1, <1>2

LEMMA Invariant == Spec => []IInv
  BY InitInv, NextInv, PTL DEF Spec

-------------------------------------------------------------------------------
(* Every reachable state is typed (TypeOK of the run hooks).               *)
THEOREM TypeCorrect == Spec => []TypeOK
  <1>1. IInv => TypeOK
    BY DEF IInv
  <1> QED
    BY <1>1, Invariant, PTL

(* Between two uses of a tool an arm blocks the agent's stop once at most: *)
(* _stop lets a forced agent go (cc_runner.py), whatever an arm decides.   *)
THEOREM StopsAreLetGo == Spec => []NeverPinned
  <1>1. IInv => NeverPinned
    BY DEF IInv, PushedOnce, NeverPinned
  <1> QED
    BY <1>1, Invariant, PTL

(* A call runs as it was asked for unless its own hook rewrote it.         *)
THEOREM CallsAreMeant == Spec => []CallsRunAsMeant
  <1>1. IInv => CallsRunAsMeant
    BY DEF IInv, CallsMeant, Meant, CallsRunAsMeant
  <1> QED
    BY <1>1, Invariant, PTL

(* A brief reaches the agent in one way, whatever the delivery variable    *)
(* says, and the tool that would deliver it is there only then.            *)
THEOREM BriefReachesOnce == Spec => []BriefOnce
  <1>1. ASSUME IInv PROVE BriefOnce
    <2>1. SUFFICES ASSUME at \in Running PROVE
             LET b == opts.brief
             IN  /\ cfg.append = (b.system \/ b.prompt \/ b.scan)
                 /\ ~(b.system /\ b.prompt) /\ ~(b.system /\ b.scan) /\ ~(b.prompt /\ b.scan)
                 /\ b.scan <=> "initial_scan" \in Tools(opts)
      BY DEF BriefOnce
    <2>2. cfg \in Configs /\ opts = SdkOptions(cfg, delivery)
      BY <1>1, <2>1 DEF IInv, Configured, Wiring
    <2>3. cfg.append \in BOOLEAN /\ "initial_scan" \notin cfg.allowed /\ "initial_scan" \notin cfg.disallowed
          /\ "brief" \notin cfg.servers
      BY <2>2 DEF Configs
    <2>4. /\ opts.brief.system = (cfg.append /\ delivery \notin {"usermsg", "tool"})
          /\ opts.brief.prompt = (cfg.append /\ delivery = "usermsg")
          /\ opts.brief.scan = (cfg.append /\ delivery = "tool")
      BY <2>2 DEF SdkOptions, Deliver
    <2>5. opts.brief.scan <=> "initial_scan" \in Tools(opts)
      BY <2>2, <2>3, <2>4 DEF SdkOptions, Deliver, Tools
    <2> QED
      BY <2>3, <2>4, <2>5
  <1> QED
    BY <1>1, Invariant, PTL

(* A solve that runs under the name of an arm goes through its product; a  *)
(* proxy arm whose address is slashes runs the control instead.            *)
THEOREM ProductIsUsed == Spec => []ProductOnThePath
  <1>1. ASSUME IInv PROVE ProductOnThePath
    <2>1. SUFFICES ASSUME at \in Running
                   PROVE  IF NoAddress THEN opts.base = "gateway" ELSE OnThePath
      BY DEF ProductOnThePath
    <2> DEFINE d == BuildArmConfig(arm, box)
    <2>2. /\ cfg \in Configs /\ Fits(cfg, d) /\ opts = SdkOptions(cfg, delivery)
          /\ cfg.hooks = Overridden(arm) \ {"step0_injection"}
      BY <1>1, <2>1 DEF IInv, Configured, Wiring, Readied
    <2>3. /\ arm \in Registered
          /\ (arm \in Thin \cup {"dasein"} => "env" \in box)
          /\ (arm \in Plugins => "plugin" \in box)
      BY <1>1, <2>1 DEF IInv, Readied, Wiring
    <2>4. /\ opts.base = IF d.base # "" THEN d.base ELSE "gateway"
          /\ opts.plugin = d.plugin /\ opts.strict = ~d.plugin
          /\ opts.hooks = Overridden(arm) \ {"step0_injection"}
          /\ opts.disallowed = d.disallowed
          /\ d.allowed \subseteq opts.allowed /\ opts.allowed \subseteq d.allowed \cup {"initial_scan"}
          /\ d.servers \subseteq opts.servers /\ opts.servers \subseteq d.servers \cup {"brief"}
      BY <2>2 DEF Fits, SdkOptions
    <2>5. CASE arm \in Thin \cup {"dasein"}
      <3>1. d.base = IF "url" \in box THEN "vendor" ELSE ""
        <4>1. Kind(arm) = "proxy"
          BY <2>5 DEF Kind, Thin, Plugins
        <4>2. d = [ArmConfig EXCEPT !.base = ModelBaseUrl(arm, box)]
          BY <4>1 DEF BuildArmConfig
        <4>3. ModelBaseUrl(arm, box) = IF "url" \in box THEN "vendor" ELSE ""
          BY <2>3, <2>5 DEF ModelBaseUrl
        <4> HIDE DEF d
        <4> QED
          BY <4>2, <4>3 DEF ArmConfig
      <3> QED
        BY <2>4, <2>5, <3>1 DEF OnThePath, NoAddress, ProxyArms, Thin, Overridden
    <2>6. CASE arm = "rtk"
      BY <2>4, <2>6 DEF OnThePath, NoAddress, ProxyArms, Thin, Overridden
    <2>7. CASE arm = "woz"
      <3>1. /\ d.plugin = TRUE /\ d.allowed = {"Bash", "Agent", "Search"} /\ d.disallowed = {"Read", "Edit"}
        BY <2>3, <2>7 DEF BuildArmConfig, Kind, Thin, Plugins, Attach, WozAttach, PluginConfig, ArmConfig,
           PluginNativeDisallowed
      <3> HIDE DEF d
      <3> QED
        BY <2>4, <2>7, <3>1 DEF OnThePath, NoAddress, ProxyArms, Thin, Tools
    <2>8. CASE arm = "caveman"
      <3>1. /\ d.plugin = TRUE /\ d.allowed = {"Bash", "Read", "Edit", "Agent"} /\ d.disallowed = {}
        BY <2>3, <2>8 DEF BuildArmConfig, Kind, Thin, Plugins, Attach, CavemanAttach, PluginConfig, ArmConfig,
           DefaultAllowed
      <3> HIDE DEF d
      <3> QED
        BY <2>4, <2>8, <3>1 DEF OnThePath, NoAddress, ProxyArms, Thin, Tools, DefaultAllowed
    <2>9. CASE arm = "hosted"
      <3>1. "server" \in box => /\ d.servers = {"hosted"} /\ "hosted" \in d.allowed
                                /\ "hosted" \notin d.disallowed
                                /\ ("replace" \in box => "Edit" \in d.disallowed)
        BY <2>9 DEF BuildArmConfig, Kind, Thin, Plugins, Attach, HostedAttach, BareConfig, ArmConfig,
           McpServerConfig, ReplaceToolsDrop, DefaultAllowed
      <3> HIDE DEF d
      <3> QED
        BY <2>4, <2>9, <3>1 DEF OnThePath, NoAddress, ProxyArms, Thin, Tools
    <2>10. CASE arm \in {"baseline", "bear", "steering"}
      <3>1. d.base = "" /\ d.plugin = FALSE /\ d.servers = {} /\ d.allowed = DefaultAllowed /\ d.disallowed = {}
        BY <2>10 DEF BuildArmConfig, Kind, Thin, Plugins, ArmConfig
      <3> HIDE DEF d
      <3> QED
        BY <2>4, <2>10, <3>1 DEF OnThePath, NoAddress, ProxyArms, Thin, Tools, DefaultAllowed
    <2> QED
      BY <2>3, <2>5, <2>6, <2>7, <2>8, <2>9, <2>10 DEF Registered, Thin, Plugins, Contract
  <1> QED
    BY <1>1, Invariant, PTL

(* An agent has something to work on files with: its own Read, a hosted    *)
(* server's tools, or woz's Search, and woz's has a login to answer with   *)
(* unless it lapsed after setup or the operator vouched for it.            *)
THEOREM FilesAreInReach == Spec => []NeverToolless
  <1>1. ASSUME IInv PROVE NeverToolless
    <2>1. SUFFICES ASSUME at \in Running PROVE
             \/ {"Read", "hosted"} \cap Tools(opts) # {}
             \/ "Search" \in Tools(opts) /\ ("session" \in box \/ "session" \in lapsed \/ "bypass" \in box)
      BY DEF NeverToolless
    <2> DEFINE d == BuildArmConfig(arm, box)
    <2>2. /\ Fits(cfg, d) /\ opts = SdkOptions(cfg, delivery)
          /\ arm \in Registered /\ (arm \in Plugins => "plugin" \in box)
      BY <1>1, <2>1 DEF IInv, Configured, Readied, Wiring
    <2>3. /\ opts.plugin = d.plugin /\ opts.strict = ~d.plugin
          /\ opts.disallowed = d.disallowed /\ d.allowed \subseteq opts.allowed
      BY <2>2 DEF Fits, SdkOptions
    <2>4. CASE arm = "woz"
      <3>1. d.plugin = TRUE /\ "Search" \in d.allowed /\ "Search" \notin d.disallowed
        BY <2>2, <2>4 DEF BuildArmConfig, Kind, Thin, Plugins, Attach, WozAttach, PluginConfig, ArmConfig,
           PluginNativeDisallowed
      <3> HIDE DEF d
      <3>2. "Search" \in Tools(opts)
        BY <2>3, <3>1 DEF Tools
      <3> QED
        BY <1>1, <2>1, <2>4, <3>2 DEF IInv, LoggedIn, Wiring
    <2>5. CASE arm # "woz"
      <3>1. "Read" \in d.allowed /\ "Read" \notin d.disallowed
        <4>1. CASE Kind(arm) = "proxy"
          BY <4>1 DEF BuildArmConfig, ArmConfig, DefaultAllowed
        <4>2. CASE Kind(arm) = "tool"
          <5> DEFINE att == Attach(arm, box)
          <5>1. att.plugin => att.replace = FALSE
            BY <2>5, AttachShape DEF Attach, CavemanAttach, HostedAttach
          <5>2. d = IF att.plugin THEN PluginConfig(att) ELSE BareConfig(att)
            BY <4>2 DEF BuildArmConfig
          <5> HIDE DEF att, d
          <5>3. CASE att.plugin
            BY <5>1, <5>2, <5>3 DEF PluginConfig, ArmConfig, DefaultAllowed
          <5>4. CASE ~att.plugin
            BY <5>2, <5>4 DEF BareConfig, ArmConfig, DefaultAllowed, ReplaceToolsDrop
          <5> QED
            BY <5>3, <5>4
        <4>3. CASE Kind(arm) \notin {"proxy", "tool"}
          BY <4>3 DEF BuildArmConfig, ArmConfig, DefaultAllowed
        <4> QED
          BY <4>1, <4>2, <4>3
      <3> HIDE DEF d
      <3>2. "Read" \in Tools(opts)
        BY <2>3, <3>1 DEF Tools
      <3> QED
        BY <3>2
    <2> QED
      BY <2>4, <2>5
  <1> QED
    BY <1>1, Invariant, PTL

-------------------------------------------------------------------------------
(***************************************************************************)
(* The other harness: mini-swe reaches a tool arm through an MCP client.   *)
(***************************************************************************)
Mcp == INSTANCE McpClient

(* The client numbers its requests from 1: a server that keeps to other    *)
(* ids (here 0) cannot be taken for an answer.                             *)
OwnIds == ServerIds \subseteq {0}

(* Requests are made at three stages, and before a page is asked for there *)
(* is one left.                                                            *)
PagesLeft ==
  /\ pc # "idle" => stage \in {"init", "list", "agent"}
  /\ stage \in {"new", "init", "notify"} => pages = 0
  /\ stage = "list" /\ pc = "idle" => pages < MaxPages

(* The inductive invariant. *)
McpInv ==
  /\ Mcp!TypeOK
  /\ PagesLeft
  /\ Mcp!RepliesAreCurrent
  /\ AnswerIsOwn

-------------------------------------------------------------------------------
(* Sequences over a smaller set are sequences over a larger one. *)
LEMMA SeqGrows ==
  ASSUME NEW S, NEW T, S \subseteq T
  PROVE  Seq(S) \subseteq Seq(T)
  OBVIOUS

(* The end of a queue, and what joins two of them. *)
LEMMA QueueFacts ==
  ASSUME NEW S, NEW s \in Seq(S), NEW t \in Seq(S)
  PROVE  /\ s \o t \in Seq(S)
         /\ \A x \in S : Append(s, x) \in Seq(S)
         /\ s # <<>> => Head(s) \in S /\ Tail(s) \in Seq(S)
         /\ <<>> \in Seq(S)
  OBVIOUS

(* A request that goes on or ends leaves every message as good as it was;  *)
(* so does a new id, which is larger than all of theirs.                   *)
LEMMA ExpectedGrows ==
  ASSUME id \in Nat, sent \in Nat,
         \/ id' = id /\ sent' = sent /\ (pc # "idle" \/ pc' = "idle")
         \/ id' = id + 1
  PROVE  /\ Mcp!Expected \subseteq Mcp!Expected'
         /\ \A a : Mcp!Current(a) => Mcp!Current(a)'
  <1>1. ASSUME NEW a, Mcp!Current(a) PROVE Mcp!Current(a)'
    BY <1>1 DEF Mcp!Current
  <1> QED
    BY <1>1 DEF Mcp!Expected

(* What a message taken off a queue means for the request that gets it.    *)
LEMMA TakenIsOwn ==
  ASSUME OwnIds, McpInv, pc # "idle", NEW msg \in Mcp!Expected, Mcp!Ours(msg)
  PROVE  msg.of = sent
  BY DEF OwnIds, McpInv, Mcp!TypeOK, Mcp!RepliesAreCurrent, Mcp!Expected, Mcp!Current,
     Mcp!Ours

(* The initial states. *)
LEMMA McpInitInv == Mcp!Init => McpInv
  <1> SUFFICES ASSUME Mcp!Init PROVE McpInv
    OBVIOUS
  <1>1. \A S : <<>> \in Seq(S)
    OBVIOUS
  <1>2. Mcp!TypeOK
    BY <1>1, McpAssumption DEF Mcp!Init, Mcp!TypeOK
  <1>3. Mcp!RepliesAreCurrent
    BY <1>1 DEF Mcp!Init, Mcp!RepliesAreCurrent
  <1> QED
    BY <1>2, <1>3, McpAssumption DEF Mcp!Init, McpInv, AnswerIsOwn, PagesLeft

-------------------------------------------------------------------------------
(* The type of the state after a step of the client's thread. *)
LEMMA AgentType ==
  ASSUME Mcp!TypeOK, PagesLeft, Mcp!Agent
  PROVE  Mcp!TypeOK' /\ PagesLeft'
  <1> USE McpAssumption DEF Mcp!TypeOK, PagesLeft
  <1>1. CASE Mcp!Spawn
    BY <1>1 DEF Mcp!Spawn
  <1>2. CASE Mcp!Ask
    BY <1>2 DEF Mcp!Ask, Mcp!MayAsk, Mcp!Counted
  <1>3. CASE Mcp!AskFails
    BY <1>3 DEF Mcp!AskFails, Mcp!MayAsk, Mcp!Counted, Mcp!Fail, Mcp!remote
  <1>4. CASE Mcp!TakeAnswer
    <2>1. deferred' \in Seq(Mcp!Msg) /\ inbox' \in Seq(Mcp!Msg)
      BY <1>4, QueueFacts DEF Mcp!TakeAnswer, Mcp!Requeue
    <2>2. answers' \in SUBSET [n : Nat, of : Nat]
      <3>1. Head(inbox) \in Mcp!Msg
        BY <1>4, QueueFacts DEF Mcp!TakeAnswer
      <3> QED
        BY <1>4, <3>1 DEF Mcp!TakeAnswer, Mcp!Msg
    <2>3. /\ pc' = "idle" /\ pages' = pages
          /\ stage' \in {"agent", "close", "notify", "list", "setup"}
          /\ stage' = "notify" => stage = "init"
          /\ stage' = "list" => pages < MaxPages
      <3>1. stage \in {"init", "list", "agent"}
        BY <1>4 DEF Mcp!TakeAnswer
      <3>2. CASE Mcp!Fail
        BY <1>4, <3>1, <3>2 DEF Mcp!TakeAnswer, Mcp!Fail
      <3>3. CASE Mcp!Return
        BY <1>4, <3>1, <3>3 DEF Mcp!TakeAnswer, Mcp!Return, Mcp!NextPage
      <3> QED
        BY <1>4, <3>2, <3>3 DEF Mcp!TakeAnswer
    <2>4. UNCHANGED <<calls, id, sent, reader, Mcp!remote>>
      BY <1>4 DEF Mcp!TakeAnswer
    <2> QED
      BY <2>1, <2>2, <2>3, <2>4 DEF Mcp!remote
  <1>5. CASE Mcp!HoldBack
    BY <1>5, QueueFacts DEF Mcp!HoldBack, Mcp!remote
  <1>6. CASE Mcp!TimesOut
    <2>1. deferred' \in Seq(Mcp!Msg) /\ inbox' \in Seq(Mcp!Msg)
      BY <1>6, QueueFacts DEF Mcp!TimesOut, Mcp!Requeue
    <2> QED
      BY <1>6, <2>1 DEF Mcp!TimesOut, Mcp!Fail, Mcp!remote
  <1>7. CASE Mcp!Empty
    BY <1>7 DEF Mcp!Empty, Mcp!remote
  <1>8. CASE Mcp!Poll
    <2>1. CASE Mcp!Fail /\ Mcp!Requeue(inbox)
      <3>1. deferred' \in Seq(Mcp!Msg) /\ inbox' \in Seq(Mcp!Msg)
        BY <2>1, QueueFacts DEF Mcp!Requeue
      <3> QED
        BY <1>8, <2>1, <3>1 DEF Mcp!Poll, Mcp!Fail, Mcp!remote
    <2>2. CASE pc' = "get" /\ UNCHANGED <<stage, inbox, deferred>>
      BY <1>8, <2>2 DEF Mcp!Poll, Mcp!remote
    <2> QED
      BY <1>8, <2>1, <2>2 DEF Mcp!Poll
  <1>9. CASE Mcp!Notify \/ Mcp!Setup \/ Mcp!Close
    BY <1>9 DEF Mcp!Notify, Mcp!Setup, Mcp!Close, Mcp!remote
  <1>10. CASE Mcp!Terminated
    BY <1>10 DEF Mcp!Terminated
  <1> QED
    BY <1>1, <1>2, <1>3, <1>4, <1>5, <1>6, <1>7, <1>8, <1>9, <1>10 DEF Mcp!Agent

(* A message that the server writes or the reader puts into the inbox.     *)
LEMMA OthersType ==
  ASSUME Mcp!TypeOK, PagesLeft, Mcp!Reader \/ Mcp!Server
  PROVE  Mcp!TypeOK' /\ PagesLeft'
  <1> USE McpAssumption DEF Mcp!TypeOK, PagesLeft
  <1>1. CASE Mcp!Read
    <2>1. Head(out) \in Mcp!Msg /\ out' \in Seq(Mcp!Msg)
      BY <1>1, QueueFacts DEF Mcp!Read
    <2>2. Mcp!Eof \in Mcp!Msg
      BY DEF Mcp!Eof, Mcp!Msg, Mcp!Kinds
    <2>3. inbox' \in {inbox, Append(inbox, Mcp!Eof), Append(inbox, Head(out))}
      BY <1>1 DEF Mcp!Read
    <2>4. inbox' \in Seq(Mcp!Msg)
      <3>1. /\ Append(inbox, Mcp!Eof) \in Seq(Mcp!Msg)
            /\ Append(inbox, Head(out)) \in Seq(Mcp!Msg)
        BY <2>1, <2>2, QueueFacts
      <3> QED
        BY <2>3, <3>1
    <2> QED
      BY <1>1, <2>1, <2>4 DEF Mcp!Read, Mcp!client
  <1>2. CASE Mcp!ReadEof
    <2>1. Mcp!Eof \in Mcp!Msg
      BY DEF Mcp!Eof, Mcp!Msg, Mcp!Kinds
    <2> QED
      BY <1>2, <2>1, QueueFacts DEF Mcp!ReadEof, Mcp!client, Mcp!remote
  <1>3. CASE Mcp!Answer
    <2>1. PICK a \in asked, kind \in {"reply", "error"} :
            /\ out' = Append(out, [kind |-> kind, id |-> a.id, of |-> a.of])
            /\ asked' = asked \ {a}
      BY <1>3 DEF Mcp!Answer
    <2>2. [kind |-> kind, id |-> a.id, of |-> a.of] \in Mcp!Msg
      BY DEF Mcp!Msg, Mcp!Kinds
    <2> QED
      BY <1>3, <2>1, <2>2, QueueFacts DEF Mcp!Answer, Mcp!client
  <1>4. CASE Mcp!Speak
    <2>1. PICK msg \in Mcp!Msg : out' = Append(out, msg)
      BY <1>4 DEF Mcp!Speak, Mcp!Msg, Mcp!Kinds
    <2> QED
      BY <1>4, <2>1, QueueFacts DEF Mcp!Speak, Mcp!client
  <1>5. CASE Mcp!CloseStdout \/ Mcp!Die
    BY <1>5 DEF Mcp!CloseStdout, Mcp!Die, Mcp!client
  <1> QED
    BY <1>1, <1>2, <1>3, <1>4, <1>5 DEF Mcp!Reader, Mcp!Server

-------------------------------------------------------------------------------
(* A step of the client's thread keeps every message as good as it was,    *)
(* and what a request gets is its own.                                     *)
LEMMA AgentStep ==
  ASSUME OwnIds, McpInv, Mcp!Agent
  PROVE  Mcp!RepliesAreCurrent' /\ AnswerIsOwn'
  <1>1. Mcp!TypeOK /\ Mcp!RepliesAreCurrent /\ AnswerIsOwn
    BY DEF McpInv
  <1>2. id \in Nat /\ sent \in Nat
    BY <1>1 DEF Mcp!TypeOK
  <1>3. /\ out \in Seq(Mcp!Expected) /\ inbox \in Seq(Mcp!Expected)
        /\ deferred \in Seq(Mcp!Expected) /\ \A a \in asked : Mcp!Current(a)
    BY <1>1 DEF Mcp!RepliesAreCurrent
  (* Whatever a step moves between the queues is expected after it.        *)
  <1>4. ASSUME out' = out, inbox' \in Seq(Mcp!Expected), deferred' \in Seq(Mcp!Expected),
               asked' = asked, answers' = answers, pc' # "idle" => id' > 0,
               \/ id' = id /\ sent' = sent /\ (pc # "idle" \/ pc' = "idle")
               \/ id' = id + 1
        PROVE  Mcp!RepliesAreCurrent' /\ AnswerIsOwn'
    <2>1. Mcp!Expected \subseteq Mcp!Expected' /\ \A a : Mcp!Current(a) => Mcp!Current(a)'
      BY <1>2, <1>4, ExpectedGrows
    <2>2. Seq(Mcp!Expected) \subseteq Seq(Mcp!Expected')
      BY <2>1, SeqGrows
    <2> QED
      BY <1>1, <1>3, <1>4, <2>1, <2>2 DEF Mcp!RepliesAreCurrent, AnswerIsOwn
  <1>5. CASE Mcp!Ask
    <2>0. PICK new : new = [id |-> id + 1, of |-> sent + 1]
      OBVIOUS
    <2>1. /\ id' = id + 1 /\ sent' = sent + 1 /\ pc' = "get"
          /\ asked' = asked \cup {new}
          /\ UNCHANGED <<out, inbox, deferred, answers>>
      BY <1>5, <2>0 DEF Mcp!Ask
    <2>2. Mcp!Expected \subseteq Mcp!Expected' /\ \A a : Mcp!Current(a) => Mcp!Current(a)'
      BY <1>2, <2>1, ExpectedGrows
    <2>3. Seq(Mcp!Expected) \subseteq Seq(Mcp!Expected')
      BY <2>2, SeqGrows
    <2>4. Mcp!Current(new)'
      BY <1>2, <2>0, <2>1 DEF Mcp!Current
    <2>5. AnswerIsOwn'
      BY <1>1, <2>1 DEF AnswerIsOwn
    <2> QED
      BY <1>2, <1>3, <2>1, <2>2, <2>3, <2>4, <2>5 DEF Mcp!RepliesAreCurrent
  <1>6. CASE Mcp!TakeAnswer
    <2>1. Head(inbox) \in Mcp!Expected /\ Tail(inbox) \in Seq(Mcp!Expected)
      BY <1>3, <1>6, QueueFacts DEF Mcp!TakeAnswer
    <2>2. inbox' \in Seq(Mcp!Expected) /\ deferred' \in Seq(Mcp!Expected)
      BY <1>3, <1>6, <2>1, QueueFacts DEF Mcp!TakeAnswer, Mcp!Requeue
    <2>3. Head(inbox).of = sent
      BY <1>6, <2>1, TakenIsOwn DEF Mcp!TakeAnswer
    <2>4. AnswerIsOwn'
      BY <1>1, <1>6, <2>3 DEF Mcp!TakeAnswer, AnswerIsOwn
    <2>5. /\ pc # "idle" /\ pc' = "idle"
          /\ UNCHANGED <<out, asked, id, sent>>
      BY <1>6 DEF Mcp!TakeAnswer, Mcp!Fail, Mcp!Return, Mcp!remote
    <2>6. Mcp!Expected \subseteq Mcp!Expected' /\ \A a : Mcp!Current(a) => Mcp!Current(a)'
      BY <1>2, <2>5, ExpectedGrows
    <2>7. Seq(Mcp!Expected) \subseteq Seq(Mcp!Expected')
      BY <2>6, SeqGrows
    <2> QED
      BY <1>3, <2>2, <2>4, <2>5, <2>6, <2>7 DEF Mcp!RepliesAreCurrent
  <1>7. CASE Mcp!HoldBack
    <2>1. inbox' \in Seq(Mcp!Expected) /\ deferred' \in Seq(Mcp!Expected)
      BY <1>3, <1>7, QueueFacts DEF Mcp!HoldBack
    <2> QED
      BY <1>1, <1>4, <1>7, <2>1 DEF Mcp!HoldBack, Mcp!remote, Mcp!RepliesAreCurrent
  <1>8. CASE Mcp!TimesOut \/ (Mcp!Poll /\ Mcp!Fail /\ Mcp!Requeue(inbox))
    <2>1. inbox' \in Seq(Mcp!Expected) /\ deferred' \in Seq(Mcp!Expected)
      BY <1>3, <1>8, QueueFacts DEF Mcp!TimesOut, Mcp!Requeue
    <2> QED
      BY <1>4, <1>8, <2>1 DEF Mcp!TimesOut, Mcp!Poll, Mcp!Fail, Mcp!remote
  <1>9. CASE Mcp!Empty \/ (Mcp!Poll /\ pc' = "get" /\ UNCHANGED <<inbox, deferred>>)
    BY <1>1, <1>3, <1>4, <1>9 DEF Mcp!Empty, Mcp!Poll, Mcp!remote, Mcp!RepliesAreCurrent
  <1>10. CASE Mcp!AskFails
    BY <1>2, <1>3, <1>4, <1>10 DEF Mcp!AskFails, Mcp!Fail, Mcp!remote
  <1>11. CASE Mcp!Spawn \/ Mcp!Notify \/ Mcp!Setup \/ Mcp!Close \/ Mcp!Terminated
    BY <1>1, <1>3, <1>4, <1>11 DEF Mcp!Spawn, Mcp!Notify, Mcp!Setup, Mcp!Close,
       Mcp!Terminated, Mcp!remote,
       Mcp!RepliesAreCurrent
  <1> QED
    BY <1>5, <1>6, <1>7, <1>8, <1>9, <1>10, <1>11 DEF Mcp!Agent, Mcp!Poll

(* What the server writes is an answer to a request it has not answered    *)
(* yet, or carries an id that is not the client's.                         *)
LEMMA OthersStep ==
  ASSUME OwnIds, McpInv, Mcp!Reader \/ Mcp!Server
  PROVE  Mcp!RepliesAreCurrent' /\ AnswerIsOwn'
  <1>1. Mcp!TypeOK /\ Mcp!RepliesAreCurrent /\ AnswerIsOwn
    BY DEF McpInv
  <1>2. UNCHANGED <<pc, id, sent, deferred, answers>>
    BY DEF Mcp!Reader, Mcp!Server, Mcp!Read, Mcp!ReadEof, Mcp!Answer, Mcp!Speak,
       Mcp!CloseStdout, Mcp!Die, Mcp!client
  <1>3. Mcp!Expected' = Mcp!Expected /\ \A a : Mcp!Current(a)' = Mcp!Current(a)
    BY <1>2 DEF Mcp!Expected, Mcp!Current
  <1>4. /\ out \in Seq(Mcp!Expected) /\ inbox \in Seq(Mcp!Expected)
        /\ deferred \in Seq(Mcp!Expected) /\ \A a \in asked : Mcp!Current(a)
    BY <1>1 DEF Mcp!RepliesAreCurrent
  <1>5. SUFFICES /\ out' \in Seq(Mcp!Expected) /\ inbox' \in Seq(Mcp!Expected)
                 /\ asked' \subseteq asked
    BY <1>1, <1>2, <1>3, <1>4 DEF Mcp!RepliesAreCurrent, AnswerIsOwn
  <1>6. Mcp!Eof \in Mcp!Expected
    BY DEF Mcp!Eof, Mcp!Expected, Mcp!Msg, Mcp!Kinds
  <1>7. CASE Mcp!Read
    <2>1. Head(out) \in Mcp!Expected /\ out' \in Seq(Mcp!Expected)
      BY <1>4, <1>7, QueueFacts DEF Mcp!Read
    <2> QED
      BY <1>4, <1>6, <1>7, <2>1, QueueFacts DEF Mcp!Read
  <1>8. CASE Mcp!ReadEof
    BY <1>4, <1>6, <1>8, QueueFacts DEF Mcp!ReadEof, Mcp!remote
  <1>9. CASE Mcp!Answer
    <2>1. PICK a \in asked, kind \in {"reply", "error"} :
            /\ out' = Append(out, [kind |-> kind, id |-> a.id, of |-> a.of])
            /\ asked' = asked \ {a}
      BY <1>9 DEF Mcp!Answer
    <2>2. a \in [id : Nat, of : Nat] /\ Mcp!Current(a)
      BY <1>1, <1>4 DEF Mcp!TypeOK
    <2>3. [kind |-> kind, id |-> a.id, of |-> a.of] \in Mcp!Expected
      BY <2>2 DEF Mcp!Expected, Mcp!Current, Mcp!Msg, Mcp!Kinds
    <2> QED
      BY <1>4, <1>9, <2>1, <2>3, QueueFacts DEF Mcp!Answer
  <1>10. CASE Mcp!Speak
    <2>1. PICK word \in Mcp!Msg :
            /\ out' = Append(out, word)
            /\ word.kind \notin {"reply", "error"}
            /\ word.kind = "request" => word.id \in ServerIds
      <3>1. ASSUME NEW i \in ServerIds,
                   out' = Append(out, [kind |-> "request", id |-> i, of |-> 0])
            PROVE  [kind |-> "request", id |-> i, of |-> 0] \in Mcp!Msg
        BY McpAssumption DEF Mcp!Msg, Mcp!Kinds
      <3>2. \A kind \in {"note", "noise", "badframe"} :
              [kind |-> kind, id |-> 0, of |-> 0] \in Mcp!Msg
        BY DEF Mcp!Msg, Mcp!Kinds
      <3> QED
        BY <1>10, <3>1, <3>2 DEF Mcp!Speak
    <2>2. word \in Mcp!Expected
      BY <2>1 DEF Mcp!Expected
    <2> QED
      BY <1>4, <1>10, <2>1, <2>2, QueueFacts DEF Mcp!Speak
  <1>11. CASE Mcp!CloseStdout \/ Mcp!Die
    BY <1>4, <1>11 DEF Mcp!CloseStdout, Mcp!Die
  <1> QED
    BY <1>7, <1>8, <1>9, <1>10, <1>11 DEF Mcp!Reader, Mcp!Server

-------------------------------------------------------------------------------
LEMMA McpNextInv == OwnIds /\ McpInv /\ [Mcp!Next]_(Mcp!vars) => McpInv'
  <1> SUFFICES ASSUME OwnIds, McpInv, [Mcp!Next]_(Mcp!vars) PROVE McpInv'
    OBVIOUS
  <1>1. CASE Mcp!Agent
    BY <1>1, AgentType, AgentStep DEF McpInv
  <1>2. CASE Mcp!Reader \/ Mcp!Server
    BY <1>2, OthersType, OthersStep DEF McpInv
  <1>3. CASE Mcp!Quiet \/ UNCHANGED Mcp!vars
    BY <1>3 DEF Mcp!Quiet, Mcp!vars, Mcp!client, Mcp!remote, McpInv, Mcp!TypeOK,
       PagesLeft,
       Mcp!RepliesAreCurrent, Mcp!Expected, Mcp!Current, AnswerIsOwn
  <1> QED
    BY <1>1, <1>2, <1>3 DEF Mcp!Next

(* The invariant of McpClient. *)
THEOREM McpInvariant ==
  ASSUME OwnIds PROVE Mcp!Spec => []McpInv
  BY McpInitInv, McpNextInv, PTL DEF Mcp!Spec

(* A request returns the server's answer to itself, however late earlier   *)
(* answers come and whatever else is in the inbox (_request).              *)
THEOREM AnswersAreOwn ==
  ASSUME OwnIds PROVE Mcp!Spec => []AnswerIsOwn
  <1>1. McpInv => AnswerIsOwn
    BY DEF McpInv
  <1> QED
    BY <1>1, McpInvariant, PTL

(* The client is well typed, whatever ids the server uses. *)
THEOREM McpTypeCorrect ==
  Mcp!Spec => []Mcp!TypeOK
  <1> DEFINE TInv == Mcp!TypeOK /\ PagesLeft
  <1>1. Mcp!Init => TInv
    BY McpInitInv DEF McpInv
  <1>2. TInv /\ [Mcp!Next]_(Mcp!vars) => TInv'
    <2> SUFFICES ASSUME TInv, [Mcp!Next]_(Mcp!vars) PROVE TInv'
      OBVIOUS
    <2>1. CASE Mcp!Quiet \/ UNCHANGED Mcp!vars
      BY <2>1 DEF Mcp!Quiet, Mcp!vars, Mcp!client, Mcp!remote, Mcp!TypeOK, PagesLeft
    <2> QED
      BY <2>1, AgentType, OthersType DEF Mcp!Next
  <1>3. TInv => Mcp!TypeOK
    OBVIOUS
  <1> QED
    BY <1>1, <1>2, <1>3, PTL DEF Mcp!Spec

(* A client that was closed leaves no server behind: there is none before  *)
(* spawn, and close waits for the end of the one there is.                 *)
THEOREM ClosedIsGone == Mcp!Spec => []Mcp!ClosedServerIsGone
  <1> DEFINE GInv == Mcp!ClosedServerIsGone /\ (stage = "new" => server = "none")
  <1> USE DEF Mcp!ClosedServerIsGone, Mcp!Running
  <1>1. Mcp!Init => GInv
    BY DEF Mcp!Init
  <1>2. GInv /\ [Mcp!Next]_(Mcp!vars) => GInv'
    <2> SUFFICES ASSUME GInv, [Mcp!Next]_(Mcp!vars) PROVE GInv'
      OBVIOUS
    <2>1. CASE Mcp!Spawn \/ Mcp!Terminated
      BY <2>1 DEF Mcp!Spawn, Mcp!Terminated
    <2>2. CASE Mcp!Ask \/ Mcp!AskFails \/ Mcp!Empty \/ Mcp!HoldBack \/ Mcp!TimesOut
       \/ Mcp!Poll \/ Mcp!TakeAnswer
      <3>1. server' = server
        BY <2>2 DEF Mcp!Ask, Mcp!AskFails, Mcp!Empty, Mcp!HoldBack, Mcp!TimesOut,
           Mcp!Poll, Mcp!TakeAnswer, Mcp!remote
      <3>2. stage' \in {stage, "agent", "close", "notify", "list", "setup"}
        BY <2>2 DEF Mcp!Ask, Mcp!AskFails, Mcp!Empty, Mcp!HoldBack, Mcp!TimesOut,
           Mcp!Poll, Mcp!TakeAnswer,
           Mcp!Fail, Mcp!Return
      <3> QED
        BY <3>1, <3>2
    <2>3. CASE Mcp!Notify \/ Mcp!Setup \/ Mcp!Close
      BY <2>3 DEF Mcp!Notify, Mcp!Setup, Mcp!Close, Mcp!remote
    <2>4. CASE Mcp!Reader
      BY <2>4 DEF Mcp!Reader, Mcp!Read, Mcp!ReadEof, Mcp!client, Mcp!remote
    <2>5. CASE Mcp!Server
      BY <2>5 DEF Mcp!Server, Mcp!Answer, Mcp!Speak, Mcp!CloseStdout, Mcp!Die, Mcp!client
    <2>6. CASE Mcp!Quiet \/ UNCHANGED Mcp!vars
      BY <2>6 DEF Mcp!Quiet, Mcp!vars, Mcp!client, Mcp!remote
    <2> QED
      BY <2>1, <2>2, <2>3, <2>4, <2>5, <2>6 DEF Mcp!Next, Mcp!Agent
  <1>3. GInv => Mcp!ClosedServerIsGone
    OBVIOUS
  <1> QED
    BY <1>1, <1>2, <1>3, PTL DEF Mcp!Spec
===============================================================================
