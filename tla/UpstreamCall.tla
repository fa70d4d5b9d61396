----------------------------- MODULE UpstreamCall -----------------------------
(***************************************************************************)
(* The call the gateway makes for a request (bench/usage_gateway.py), and  *)
(* the life of the gateway that makes it (cc_runner._resolve_gateway,      *)
(* bench/gateway_server.py).                                               *)
(*                                                                         *)
(* A request is turned into the arguments of ONE dictionary.  _complete    *)
(* tries them up to three times and once more: when an error speaks of a   *)
(* missing model, the model gives way to VERTEX_MODEL; a beta it refuses   *)
(* is struck out of the dictionary.  _bridge_vertex runs _complete again,  *)
(* on the dictionary as it was left, when the error looks transient.  Each *)
(* of these is a search in the same text.  VertexBridge has what follows   *)
(* the first event; here the stream either starts or fails.                *)
(*                                                                         *)
(* A solve owns a gateway of its own or uses a standalone one at a fixed   *)
(* address, which it must leave running and whose files it must find.      *)
(***************************************************************************)
EXTENDS Naturals, FiniteSets

CONSTANTS
  Solves,      (* the solves of a batch                                    *)
  Calls,       (* the model calls of their agents                          *)
  SolveOf,     (* the solve whose agent makes a call                       *)
  SafeName,    (* the file name a solve's run id is sanitized to           *)
  Betas,       (* beta capabilities a client may negotiate                 *)
  Known,       (* those of the families Vertex is known to refuse          *)
  Asked,       (* what a call asks for: model, betas and its length        *)
  Claude,      (* model ids that start with "claude-" once normalized      *)
  Missing,     (* those that Vertex does not serve                         *)
  TitleCap,    (* CCB_TITLEGEN_MAX_TOKENS                                  *)
  MaxRetries,  (* _VERTEX_MAX_RETRIES                                      *)
  Wirings      (* the environment a batch may run in, see wiring           *)

Standalone == "standalone"
Gateways == Solves \cup {Standalone}

ASSUME CallAssumption ==
  /\ MaxRetries \in Nat /\ TitleCap \in Nat
  /\ SolveOf \in [Calls -> Solves] /\ Standalone \notin Solves
  /\ \A s, t \in Solves : SafeName[s] = SafeName[t] => s = t
  /\ \A s \in Solves : SafeName[s] # "default"
  /\ Wirings \subseteq [shared : BOOLEAN, dir : BOOLEAN, pin : BOOLEAN, tagged : SUBSET Calls,
                        env : Claude, own : Claude]
  /\ \A w \in Wirings : w.shared \/ w.own = w.env
  /\ IsFiniteSet(Betas) /\ Known \subseteq Betas
  /\ \A c \in Calls : Asked[c].betas \subseteq Betas /\ Asked[c].max \in Nat

Tries == 3     (* "for _ in range(3)" in _complete                         *)

VARIABLES
  wiring,      (* shared: CCB_GATEWAY_URL; dir: CCB_GATEWAY_USAGE_DIR names *)
               (* the directory the standalone gateway writes; pin:         *)
               (* CCB_PIN_MODEL; tagged: the calls that carry the run id;   *)
               (* env: VERTEX_MODEL of the gateway's process; own: its      *)
               (* vertex_model, another one with --vertex-model             *)
  up,          (* gateways that listen                                     *)
  interrupts,  (* how often the standalone gateway was stopped             *)
  solve,       (* where a solve stands                                     *)
  at,          (* where a call stands                                      *)
  kwargs,      (* its arguments                                            *)
  tries,       (* turns of _complete's loop in this attempt                *)
  attempt,     (* turns of _bridge_vertex's loop                           *)
  lastErr,     (* the error the 502 of a call names                        *)
  told,        (* history: what its errors said, a 404 and betas refused,  *)
               (* and the betas among these that the loop turned to         *)
  files        (* files[dir][name]: the calls metered there                *)

life == <<up, interrupts, solve>>
call == <<at, kwargs, tries, attempt, lastErr, told>>
vars == <<wiring, life, call, files>>

Kwargs == [model : Claude, betas : SUBSET Betas, max : Nat]

(* What the gateway reads out of an error: "not_found" or "404" (gone), the*)
(* names that an "Unexpected value(s)" quotes, and a status or a marker    *)
(* such as "500" or "try again" (transient).                               *)
Errors == [gone : BOOLEAN, names : SUBSET Betas, transient : BOOLEAN]
NoError == [gone |-> FALSE, names |-> {}, transient |-> FALSE]

(* What Vertex may answer.  The searches are independent of each other and *)
(* of what is the matter: the digits of a request id will do.  The names   *)
(* that count are those of betas it was sent.                              *)
Answers(kw) == {e \in Errors : e.names \subseteq kw.betas}

-------------------------------------------------------------------------------
(* The arguments: the client's model if it is a Claude id and the model is *)
(* not pinned, its betas less the known families, and a bounded title.     *)
FilterBetas(betas) == betas \ Known

CreateKwargs(c) ==
  [model |-> IF ~wiring.pin /\ Asked[c].model \in Claude THEN Asked[c].model ELSE wiring.own,
   betas |-> FilterBetas(Asked[c].betas),
   max |-> IF Asked[c].title /\ Asked[c].max > TitleCap THEN TitleCap ELSE Asked[c].max]

(* _strip_betas_from_kwargs, and whether anything was struck out.          *)
(* Mutant: the whole header is dropped.                                    *)
Strip_all(kw, names) == [kw EXCEPT !.betas = {}]
Strip(kw, names) == [kw EXCEPT !.betas = @ \ names]

Strips(kw, names) == names \cap kw.betas # {}

(* The gateway a solve's agent is pointed at, and who may listen there.    *)
GatewayOf(s) == IF wiring.shared THEN Standalone ELSE s

(* UsageSink.path_for, for the writer and for the reader.                  *)
(* Mutant: the reader looks under its own output directory.                *)
WriteDir == IF wiring.shared THEN "served" ELSE "out"
ReadDir_out == "out"
ReadDir == IF wiring.shared /\ wiring.dir THEN "served" ELSE "out"

RowName(c) ==
  IF c \in wiring.tagged \/ ~wiring.shared THEN SafeName[SolveOf[c]] ELSE "default"

Names == {SafeName[s] : s \in Solves} \cup {"default"}

-------------------------------------------------------------------------------
Init ==
  /\ wiring \in Wirings
  /\ up = IF wiring.shared THEN {Standalone} ELSE {}
  /\ interrupts = 0
  /\ solve = [s \in Solves |-> "idle"]
  /\ at = [c \in Calls |-> "new"]
  /\ kwargs = [c \in Calls |-> [model |-> wiring.own, betas |-> {}, max |-> 0]]
  /\ tries = [c \in Calls |-> 0]
  /\ attempt = [c \in Calls |-> 0]
  /\ lastErr = [c \in Calls |-> NoError]
  /\ told = [c \in Calls |-> [refused |-> {}, heeded |-> {}, gone |-> FALSE]]
  /\ files = [d \in {"out", "served"} |-> [n \in Names |-> {}]]

Goto(c, place) == at' = [at EXCEPT ![c] = place]

(* run_agent: a gateway of its own, unless a shared one is configured.     *)
Resolve(s) ==
  /\ solve[s] = "idle"
  /\ solve' = [solve EXCEPT ![s] = "running"]
  /\ up' = IF wiring.shared THEN up ELSE up \cup {s}
  /\ UNCHANGED <<wiring, interrupts, call, files>>

(* The solve is over: stop() ends the accepting thread and closes the      *)
(* listening socket of its own gateway, while handler threads go on.       *)
StopGateway(s) ==
  /\ solve[s] = "running"
  /\ solve' = [solve EXCEPT ![s] = "ending"]
  /\ up' = IF wiring.shared THEN up ELSE up \ {s}
  /\ UNCHANGED <<wiring, interrupts, call, files>>

(* The backstop kills an agent that outlived its solve: no more requests.  *)
KillAgent(s) ==
  /\ solve[s] = "ending"
  /\ solve' = [solve EXCEPT ![s] = "over"]
  /\ UNCHANGED <<wiring, up, interrupts, call, files>>

(* The standalone gateway is interrupted: its process ends and with it the *)
(* handler threads, which are daemons.  It is launched again at its port.  *)
Interrupt ==
  /\ Standalone \in up /\ interrupts = 0
  /\ up' = up \ {Standalone} /\ interrupts' = 1
  /\ at' = [c \in Calls |-> IF at[c] \in {"create", "backoff", "stream"} THEN "lost" ELSE at[c]]
  /\ UNCHANGED <<wiring, solve, kwargs, tries, attempt, lastErr, told, files>>

Launch ==
  /\ wiring.shared /\ Standalone \notin up
  /\ up' = up \cup {Standalone}
  /\ UNCHANGED <<wiring, interrupts, solve, call, files>>

-------------------------------------------------------------------------------
(* A request of a living agent: served if the gateway listens.             *)
Request(c) ==
  /\ at[c] = "new" /\ solve[SolveOf[c]] \in {"running", "ending"}
  /\ IF GatewayOf(SolveOf[c]) \in up
     THEN Goto(c, "create") /\ kwargs' = [kwargs EXCEPT ![c] = CreateKwargs(c)]
     ELSE Goto(c, "unreachable") /\ UNCHANGED kwargs
  /\ UNCHANGED <<wiring, life, tries, attempt, lastErr, told, files>>

(* _bridge_vertex on an error: once more while nothing was relayed, the    *)
(* error looks transient and attempts are left; otherwise a 502.           *)
MayRetry(c, e) == attempt[c] < MaxRetries /\ e.transient

Raise(c, e) ==
  /\ Goto(c, IF MayRetry(c, e) THEN "backoff" ELSE "failed")
  /\ lastErr' = IF MayRetry(c, e) THEN lastErr ELSE [lastErr EXCEPT ![c] = e]
  /\ UNCHANGED <<kwargs, tries>>

(* _complete on an error: the model gives way to the VERTEX_MODEL of the   *)
(* process, or else the betas it names are struck out, within three turns  *)
(* of its loop; the fourth call is the last and its error is raised.       *)
FallBack(c) ==
  /\ kwargs' = [kwargs EXCEPT ![c].model = wiring.env]
  /\ tries' = [tries EXCEPT ![c] = @ + 1]
  /\ UNCHANGED <<at, lastErr>>

StrikeOut(c, names) ==
  /\ kwargs' = [kwargs EXCEPT ![c] = Strip(@, names)]
  /\ tries' = [tries EXCEPT ![c] = @ + 1]
  /\ UNCHANGED <<at, lastErr>>

(* Mutant: two turns instead of three.                                     *)
MayHeal_two(c) == tries[c] < Tries - 1
MayHeal(c) == tries[c] < Tries

Foreign(c, e) == e.gone /\ kwargs[c].model # wiring.env

Handle(c, e) ==
  IF MayHeal(c) /\ Foreign(c, e) THEN FallBack(c)
  ELSE IF MayHeal(c) /\ Strips(kwargs[c], e.names) THEN StrikeOut(c, e.names)
  ELSE Raise(c, e)

(* What its errors have said.  The loop turns to the betas of one unless   *)
(* it is the fourth, or also holds a 404 and the model can give way.       *)
Heeds(c, e) == tries[c] < Tries /\ ~Foreign(c, e)

Hear(c, e) ==
  told' = [told EXCEPT ![c] = [refused |-> @.refused \cup e.names,
                               heeded |-> @.heeded \cup {b \in e.names : Heeds(c, e)},
                               gone |-> @.gone \/ e.gone]]

(* messages.create: the stream is opened, or the call raises.              *)
Create(c) ==
  /\ at[c] = "create"
  /\ \/ /\ kwargs[c].model \notin Missing
        /\ Goto(c, "stream") /\ UNCHANGED <<kwargs, tries, lastErr, told>>
     \/ \E e \in Answers(kwargs[c]) : Hear(c, e) /\ Handle(c, e)
  /\ UNCHANGED <<wiring, life, attempt, files>>

(* The backoff is over: _complete runs again, on the same dictionary.      *)
(* Mutant: the arguments are built anew for every attempt.                 *)
Again_rebuilt(c) ==
  /\ at[c] = "backoff"
  /\ Goto(c, "create")
  /\ attempt' = [attempt EXCEPT ![c] = @ + 1]
  /\ tries' = [tries EXCEPT ![c] = 0]
  /\ kwargs' = [kwargs EXCEPT ![c] = CreateKwargs(c)]
  /\ UNCHANGED <<wiring, life, lastErr, told, files>>

(* Mutant: the attempt is not counted.                                     *)
Again_uncounted(c) ==
  /\ at[c] = "backoff"
  /\ Goto(c, "create")
  /\ tries' = [tries EXCEPT ![c] = 0]
  /\ UNCHANGED <<wiring, life, kwargs, attempt, lastErr, told, files>>

Again(c) ==
  /\ at[c] = "backoff"
  /\ Goto(c, "create")
  /\ attempt' = [attempt EXCEPT ![c] = @ + 1]
  /\ tries' = [tries EXCEPT ![c] = 0]
  /\ UNCHANGED <<wiring, life, kwargs, lastErr, told, files>>

(* The stream fails before its first event, which is an error of the       *)
(* attempt like any other, or it is relayed and metered.                   *)
Stream(c) ==
  /\ at[c] = "stream"
  /\ \/ /\ \E transient \in BOOLEAN :
             Raise(c, [NoError EXCEPT !.transient = transient])
        /\ UNCHANGED files
     \/ /\ Goto(c, "served")
        /\ files' = [files EXCEPT ![WriteDir][RowName(c)] = @ \cup {c}]
        /\ UNCHANGED <<kwargs, tries, lastErr>>
  /\ UNCHANGED <<wiring, life, attempt, told>>

Serve(c) == Create(c) \/ Again(c) \/ Stream(c)

Next ==
  \/ \E s \in Solves : Resolve(s) \/ StopGateway(s) \/ KillAgent(s)
  \/ Interrupt \/ Launch
  \/ \E c \in Calls : Request(c) \/ Serve(c)

(* A handler thread is never left unscheduled.                             *)
Spec == Init /\ [][Next]_vars /\ \A c \in Calls : WF_vars(Serve(c))

-------------------------------------------------------------------------------
(* Types.                                                                  *)
TypeOK ==
  /\ wiring \in Wirings
  /\ up \subseteq Gateways /\ interrupts \in 0 .. 1
  /\ solve \in [Solves -> {"idle", "running", "ending", "over"}]
  /\ at \in [Calls -> {"new", "create", "backoff", "stream", "served", "failed",
                       "unreachable", "lost"}]
  /\ kwargs \in [Calls -> Kwargs]
  /\ tries \in [Calls -> 0 .. Tries] /\ attempt \in [Calls -> 0 .. MaxRetries]
  /\ lastErr \in [Calls -> Errors]
  /\ told \in [Calls -> [refused : SUBSET Betas, heeded : SUBSET Betas, gone : BOOLEAN]]
  /\ files \in [{"out", "served"} -> [Names -> SUBSET Calls]]

Sending(c) == at[c] \in {"create", "backoff", "stream"}

(* A beta the loop struck out stays out of every later call, over turns,   *)
(* changes of the model and backoffs, and one of a family Vertex is known  *)
(* to refuse is never sent.  A refusal is overlooked, and the beta sent    *)
(* again, in two cases only (Heeds): its text holds a 404 too and the      *)
(* model gave way first, or it met the last call of an attempt and looked  *)
(* transient, so that another attempt follows.                             *)
RefusalsAreFinal ==
  \A c \in Calls : Sending(c) => kwargs[c].betas \cap (Known \cup told[c].heeded) = {}

(* The agent keeps what it asked for ("the agent silently loses real       *)
(* capabilities" otherwise): it loses no beta but those an error or the    *)
(* filter turned down, and gets none it did not name.  Its model changes   *)
(* to VERTEX_MODEL after an error with a 404 in its text, true or not, and *)
(* to the gateway's own if it is pinned or asked for no Claude model.      *)
ServedAsAsked ==
  \A c \in Calls : Sending(c) \/ at[c] = "served" =>
    /\ Asked[c].betas \ (Known \cup told[c].refused) \subseteq kwargs[c].betas
    /\ kwargs[c].betas \subseteq Asked[c].betas
    /\ kwargs[c].model # Asked[c].model =>
         \/ told[c].gone /\ kwargs[c].model = wiring.env
         \/ (wiring.pin \/ Asked[c].model \notin Claude) /\ kwargs[c].model = wiring.own

(* Only a transient error sends the same arguments again: every turn of    *)
(* the inner loop changes them ("don't loop forever"), the model first and *)
(* never back, the betas to fewer.                                         *)
NeverSentUnchanged ==
  [][\A c \in Calls : tries'[c] > tries[c] =>
       /\ kwargs'[c] # kwargs[c]
       /\ kwargs'[c].betas \subseteq kwargs[c].betas
       /\ kwargs[c].model = wiring.env => kwargs'[c].model = wiring.env]_vars

(* A call the gateway could have saved fails only when its patience is     *)
(* over: all attempts for a transient error, three changes in this attempt *)
(* for a beta it refuses or for a 404, unless the model was VERTEX_MODEL   *)
(* itself, from which there is nowhere to go.                              *)
GivesUpForCause ==
  \A c \in Calls : at[c] = "failed" =>
    /\ lastErr[c].transient => attempt[c] = MaxRetries
    /\ lastErr[c].names # {} => tries[c] = Tries
    /\ lastErr[c].gone /\ kwargs[c].model # wiring.env => tries[c] = Tries

(* An agent finds its gateway closed only after its own solve is over, or  *)
(* when the standalone one was stopped from outside: no solve ends another *)
(* solve's calls.                                                          *)
OthersGoOn ==
  \A c \in Calls : at[c] = "unreachable" /\ interrupts = 0 =>
    ~wiring.shared /\ solve[SolveOf[c]] \in {"ending", "over"}

(* The rows a solve will read are its own calls, all that were served: with*)
(* a gateway of its own always, with the standalone one if its directory   *)
(* is configured and the calls carry the run id.                           *)
OwnRowsAreRead ==
  \A s \in Solves :
    LET read == files[ReadDir][SafeName[s]]
        mine == {c \in Calls : SolveOf[c] = s /\ at[c] = "served"}
    IN  /\ read \subseteq mine
        /\ ~wiring.shared => read = mine
        /\ wiring.shared /\ wiring.dir => read = mine \cap wiring.tagged

(* A request that was accepted is answered: with a reply, with a 502, or   *)
(* by the end of the gateway's process.  None is sent and retried for ever.*)
CallsEnd == \A c \in Calls : []<>~Sending(c)
===============================================================================
