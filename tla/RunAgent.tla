-------------------------------- MODULE RunAgent --------------------------------
(***************************************************************************)
(* One solve after the other of an (instance, arm) pair, beside those of   *)
(* other arms (bench/cc_runner.py, run_agent and _worker), over the usage  *)
(* gateway, which is here what UsageMeter promises.  A solve resets the    *)
(* worktree, notes the length of its usage file, runs Claude Code, reaps   *)
(* what is left of it, captures the patch, and takes the usage rows that   *)
(* were appended since as its own.  Handler threads of the gateway outlive *)
(* the solve whose requests they serve.                                    *)
(***************************************************************************)
EXTENDS UsageMeter

CONSTANTS
  Solves,      (* calls of run_agent: first tries and retries             *)
  SolveTag,    (* the run id {iid}_{run_id}_{arm} of a solve              *)
  OwnerOf,     (* the solve whose Claude Code makes a request             *)
  Trees,       (* git worktrees                                           *)
  TreeOf,      (* _resolve_repo_dir: of the pair, or of the instance      *)
  Shared,      (* CCB_GATEWAY_URL is set: the gateway outlives the solve  *)
  Serial       (* solves of one tree run one at a time                    *)

ASSUME SolveAssumption ==
  /\ SolveTag \in [Solves -> Tags]
  /\ OwnerOf \in [Reqs -> Solves]
  /\ \A r \in Reqs : TagOf[r] = SolveTag[OwnerOf[r]]
  /\ TreeOf \in [Solves -> Trees]
  /\ \A a, b \in Solves : SolveTag[a] = SolveTag[b] => TreeOf[a] = TreeOf[b]
  /\ Shared \in BOOLEAN /\ Serial \in BOOLEAN

VARIABLES
  at,      (* where a solve stands                                        *)
  failed,  (* the SDK raised an infra fault                               *)
  claude,  (* the solve's Claude Code process is alive                    *)
  slipped, (* history: the solves whose agent the reaper did not get      *)
  start,   (* _usage_start                                                *)
  rows,    (* the lines of the usage file the solve's result carries      *)
  seen,    (* history: the length of the file when they were read         *)
  result,  (* what _worker returned                                       *)
  patch,   (* whose edits the captured patch holds, until it is graded    *)
  tree     (* tree[t]: the solves whose edits are in t, and a mark        *)

solve == <<at, failed, start, result>>
vars == <<phase, log, solve, claude, slipped, rows, seen, patch, tree>>

(* Places at which a worker process is inside run_agent or _worker. *)
Active == {"clean", "fetch", "run", "salvage", "stop", "reap", "capture",
           "cleanup", "read", "grade"}

TypeOK ==
  /\ MeterTypeOK
  /\ at \in [Solves -> Active \cup {"idle", "over"}]
  /\ failed \in [Solves -> BOOLEAN]
  /\ claude \in [Solves -> BOOLEAN]
  /\ slipped \subseteq Solves
  /\ start \in [Solves -> Nat]
  /\ rows \in [Solves -> SUBSET (Nat \ {0})]
  /\ seen \in [Solves -> Nat]
  /\ result \in [Solves -> {"none", "ok", "infra"}]
  /\ patch \in [Solves -> SUBSET (Solves \cup {"stale"})]
  /\ tree \in [Trees -> SUBSET (Solves \cup {"stale"})]

Init ==
  /\ MeterInit
  /\ at = [a \in Solves |-> "idle"]
  /\ failed = [a \in Solves |-> FALSE]
  /\ claude = [a \in Solves |-> FALSE]
  /\ slipped = {}
  /\ start = [a \in Solves |-> 0]
  /\ rows = [a \in Solves |-> {}]
  /\ seen = [a \in Solves |-> 0]
  /\ result = [a \in Solves |-> "none"]
  /\ patch = [a \in Solves |-> {}]
  /\ tree = [t \in Trees |-> {}]

Goto(a, l) == at' = [at EXCEPT ![a] = l]
UsageFile(a) == log[SolveTag[a]]

-------------------------------------------------------------------------------
(* The driver submits a pair again only when its last solve came back as   *)
(* an infra failure.                                                       *)
MayBegin(a) ==
  /\ \A b \in Solves \ {a} : SolveTag[b] = SolveTag[a] =>
       at[b] = "idle" \/ (at[b] = "over" /\ result[b] = "infra")
  /\ Serial => \A b \in Solves : TreeOf[b] = TreeOf[a] => at[b] \in {"idle", "over"}

(* arm.setup() may fail: an infra failure before anything was spent. *)
Begin(a) ==
  /\ at[a] = "idle" /\ MayBegin(a)
  /\ \/ Goto(a, "clean") /\ UNCHANGED result
     \/ Goto(a, "over") /\ result' = [result EXCEPT ![a] = "infra"]
  /\ UNCHANGED <<phase, log, failed, claude, slipped, start, rows, seen, patch, tree>>

(* git reset --hard and git clean.  Their exit status is not looked at; a  *)
(* tree that one of them left as it was is marked "stale" (history).       *)
Reset(a) ==
  \/ tree' = [tree EXCEPT ![TreeOf[a]] = {}]
  \/ tree' = [tree EXCEPT ![TreeOf[a]] = @ \cup {"stale"}]

(* CLEAN START, and a seeded defect that leaves it to the previous solve. *)
Clean_skipped(a) ==
  /\ at[a] = "clean"
  /\ Goto(a, "fetch")
  /\ UNCHANGED <<phase, log, failed, claude, slipped, start, rows, seen, result, patch, tree>>

Clean(a) ==
  /\ at[a] = "clean"
  /\ Reset(a)
  /\ Goto(a, "fetch")
  /\ UNCHANGED <<phase, log, failed, claude, slipped, start, rows, seen, result, patch>>

(* The task is fetched, the gateway resolved, _usage_start taken, and      *)
(* Claude Code launched.                                                   *)
Launch(a) ==
  /\ at[a] = "fetch"
  /\ start' = [start EXCEPT ![a] = Len(UsageFile(a))]
  /\ claude' = [claude EXCEPT ![a] = TRUE]
  /\ Goto(a, "run")
  /\ UNCHANGED <<phase, log, slipped, failed, rows, seen, result, patch, tree>>

(* The dataset, the harness hooks or the gateway's port may fail instead.  *)
FetchFails(a) ==
  /\ at[a] = "fetch"
  /\ Goto(a, "over")
  /\ result' = [result EXCEPT ![a] = "infra"]
  /\ UNCHANGED <<phase, log, failed, claude, slipped, start, rows, seen, patch, tree>>

-------------------------------------------------------------------------------
(* What a live Claude Code does: it edits the worktree and calls the       *)
(* model, as long as somebody listens.                                     *)
Edit(a) ==
  /\ claude[a]
  /\ tree' = [tree EXCEPT ![TreeOf[a]] = @ \cup {a}]
  /\ UNCHANGED <<phase, log, solve, claude, slipped, rows, seen, patch>>

Listening(a) == Shared \/ at[a] \in {"run", "salvage", "stop"}

Call(r) ==
  /\ claude[OwnerOf[r]] /\ Listening(OwnerOf[r])
  /\ Accept(r)
  /\ UNCHANGED <<solve, claude, slipped, rows, seen, patch, tree>>

(* The handler thread of an accepted request, which nobody joins. *)
Serve(r) ==
  /\ phase[r] \in {"open", "metered"}
  /\ (\E u \in Usages : Meter(r, u)) \/ Close(r)
  /\ UNCHANGED <<solve, claude, slipped, rows, seen, patch, tree>>

-------------------------------------------------------------------------------
(* The SDK is through: a result, a turn or budget cap.  aclose() ends the  *)
(* process.                                                                *)
SdkReturns(a) ==
  /\ at[a] = "run"
  /\ claude' = [claude EXCEPT ![a] = FALSE]
  /\ Goto(a, "stop")
  /\ UNCHANGED <<phase, log, slipped, failed, start, rows, seen, result, patch, tree>>

(* The wall cap, or an infra fault; the process may have been leaked. *)
SdkAborts(a) ==
  /\ at[a] = "run"
  /\ \E leaked \in BOOLEAN : claude' = [claude EXCEPT ![a] = leaked]
  /\ \E infra \in BOOLEAN :
       /\ failed' = [failed EXCEPT ![a] = infra]
       /\ Goto(a, IF infra THEN "salvage" ELSE "stop")
  /\ UNCHANGED <<phase, log, slipped, start, rows, seen, result, patch, tree>>

(* _read_usage_rows(...)[_usage_start:].  Seeded defects: the whole file,  *)
(* and a slice that begins a row late.                                     *)
NewRows_all(a) == 1..Len(UsageFile(a))
NewRows_late(a) == (start[a] + 2)..Len(UsageFile(a))
NewRows(a) == (start[a] + 1)..Len(UsageFile(a))

(* The infra path prices the failure before it stops the gateway. *)
Salvage(a) ==
  /\ at[a] = "salvage"
  /\ rows' = [rows EXCEPT ![a] = NewRows(a)]
  /\ seen' = [seen EXCEPT ![a] = Len(UsageFile(a))]
  /\ Goto(a, "stop")
  /\ UNCHANGED <<phase, log, failed, claude, slipped, start, result, patch, tree>>

(* finally: stop_gateway() and arm.teardown() ... *)
Stop(a) ==
  /\ at[a] = "stop"
  /\ Goto(a, "reap")
  /\ UNCHANGED <<phase, log, failed, claude, slipped, start, rows, seen, result, patch, tree>>

(* ... and the reaper, whose absence is the seeded defect.  It does its    *)
(* best: it needs procfs, and gets a process named claude that descends    *)
(* from the worker and can be killed.  An infra fault then leaves run_agent*)
Leave(a) ==
  /\ Goto(a, IF failed[a] THEN "over" ELSE "capture")
  /\ result' = IF failed[a] THEN [result EXCEPT ![a] = "infra"] ELSE result

Reap_none(a) ==
  /\ at[a] = "reap"
  /\ Leave(a)
  /\ UNCHANGED <<phase, log, failed, claude, slipped, start, rows, seen, patch, tree>>

Reap(a) ==
  /\ at[a] = "reap"
  /\ \/ claude' = [claude EXCEPT ![a] = FALSE] /\ UNCHANGED slipped
     \/ claude[a] /\ slipped' = slipped \cup {a} /\ UNCHANGED claude
  /\ Leave(a)
  /\ UNCHANGED <<phase, log, failed, start, rows, seen, patch, tree>>

(* git add -A and git diff; a git that fails yields an empty patch. *)
Capture(a) ==
  /\ at[a] = "capture"
  /\ \E edits \in {tree[TreeOf[a]], {}} : patch' = [patch EXCEPT ![a] = edits]
  /\ Goto(a, "cleanup")
  /\ UNCHANGED <<phase, log, failed, claude, slipped, start, rows, seen, result, tree>>

Cleanup(a) ==
  /\ at[a] = "cleanup"
  /\ Reset(a)
  /\ Goto(a, "read")
  /\ UNCHANGED <<phase, log, failed, claude, slipped, start, rows, seen, result, patch>>

ReadUsage(a) ==
  /\ at[a] = "read"
  /\ rows' = [rows EXCEPT ![a] = NewRows(a)]
  /\ seen' = [seen EXCEPT ![a] = Len(UsageFile(a))]
  /\ Goto(a, "grade")
  /\ UNCHANGED <<phase, log, failed, claude, slipped, start, result, patch, tree>>

(* _worker grades and prices the patch; if that raises, the stub it        *)
(* returns instead carries no usage.                                       *)
Grade(a) ==
  /\ at[a] = "grade"
  /\ \/ result' = [result EXCEPT ![a] = "ok"] /\ UNCHANGED rows
     \/ result' = [result EXCEPT ![a] = "infra"] /\ rows' = [rows EXCEPT ![a] = {}]
  /\ Goto(a, "over")
  /\ patch' = [patch EXCEPT ![a] = {}]
  /\ UNCHANGED <<phase, log, failed, claude, slipped, start, seen, tree>>

Solve(a) ==
  \/ Begin(a) \/ Clean(a) \/ Launch(a) \/ FetchFails(a)
  \/ SdkReturns(a) \/ SdkAborts(a)
  \/ Salvage(a) \/ Stop(a) \/ Reap(a)
  \/ Capture(a) \/ Cleanup(a) \/ ReadUsage(a) \/ Grade(a)

Finished ==
  /\ \A a \in Solves : at[a] = "over" \/ (at[a] = "idle" /\ ~MayBegin(a))
  /\ \A r \in Reqs : phase[r] \in {"new", "closed"}
  /\ UNCHANGED vars

Next == \/ \E a \in Solves : Solve(a) \/ Edit(a)
        \/ \E r \in Reqs : Call(r) \/ Serve(r)
        \/ Finished

Spec == Init /\ [][Next]_vars

-------------------------------------------------------------------------------
(* A usage row is charged once: no two results of a pair carry the same    *)
(* line of their file, failed tries included.                              *)
RowChargedOnce ==
  \A a, b \in Solves :
    SolveTag[a] = SolveTag[b] /\ rows[a] \cap rows[b] # {} => a = b

(* What the slice gets wrong it gets wrong by lateness only: a row of its  *)
(* own that a priced solve misses was appended after it read the file.     *)
MissedOnlyIfLate ==
  \A a \in Solves : result[a] = "ok" =>
    \A i \in DOMAIN UsageFile(a) :
      OwnerOf[UsageFile(a)[i].req] = a => i \in rows[a] \/ i > seen[a]

(* The patch that is graded holds this solve's edits and nobody else's,    *)
(* unless git failed to reset the tree or an agent slipped the reaper, in  *)
(* which case it may hold that agent's: not those of an earlier try of the *)
(* pair, which left them behind when it ended in an infra fault, and not   *)
(* those of another arm.                                                   *)
PatchIsOwn ==
  \A a \in Solves : "stale" \in patch[a] \/ patch[a] \subseteq {a} \cup slipped

(* However a solve ends, its agent is gone before the next one of the pair *)
(* begins, unless the reaper ran and did not get it: nothing else edits    *)
(* the tree or calls the model on its behalf.                              *)
NoAgentLeft ==
  \A a \in Solves : at[a] \in {"idle", "over"} /\ claude[a] => a \in slipped

-------------------------------------------------------------------------------
(* The strengthening of the invariants above.                              *)
Launched == Active \ {"clean", "fetch"}

(* The retry of a pair begins when its first solve is over. *)
OneSolveOfATag ==
  \A a, b \in Solves : SolveTag[a] = SolveTag[b] /\ a # b /\ at[a] \in Active =>
    at[b] \in {"idle", "over"}

(* What is charged already lies before the slice of a running solve. *)
ChargedBefore ==
  \A a \in Solves :
    /\ rows[a] \subseteq 1..Len(UsageFile(a))
    /\ at[a] \in Launched => \A b \in Solves :
         SolveTag[a] = SolveTag[b] /\ a # b => rows[b] \subseteq 1..start[a]

AgentInside ==
  \A a \in Solves : claude[a] =>
    \/ at[a] \in {"run", "salvage", "stop", "reap"}
    \/ a \in slipped /\ at[a] \notin {"idle", "clean", "fetch"}

(* A solve calls the model after it has noted the length of the file. *)
CallsAfterStart ==
  /\ \A a \in Solves : start[a] <= Len(UsageFile(a))
  /\ \A r \in Reqs : phase[r] # "new" => at[OwnerOf[r]] \notin {"idle", "clean", "fetch"}
  /\ \A t \in Tags : \A i \in DOMAIN log[t] :
       LET r == log[t][i].req IN
         TagOf[r] = t /\ phase[r] # "new" /\ i > start[OwnerOf[r]]

SliceTaken ==
  \A a \in Solves : at[a] = "grade" \/ result[a] = "ok" =>
    /\ rows[a] = (start[a] + 1)..seen[a]
    /\ at[a] \in {"grade", "over"}

(* Solves that share a worktree run one at a time: those of a pair always, *)
(* those of different arms if they have a worktree each or are serial.     *)
OneSolveOfATree ==
  \A a, b \in Solves : TreeOf[a] = TreeOf[b] /\ a # b /\ at[a] \in Active =>
    at[b] \in {"idle", "over"}

(* Between its two resets a solve finds its own edits in the tree, and     *)
(* those of agents that slipped, if the first of them worked.              *)
TreeIsOwn ==
  \A a \in Solves :
    at[a] \in {"fetch", "run", "salvage", "stop", "reap", "capture"} =>
      "stale" \in tree[TreeOf[a]] \/ tree[TreeOf[a]] \subseteq {a} \cup slipped

-------------------------------------------------------------------------------
(* A claim of the source that the code does not keep.                      *)

(* "Race-free (only this task writes this tag's file) + exact" (run_agent):*)
(* the rows of a priced solve are those of its own requests.               *)
SliceIsExact ==
  \A a \in Solves : result[a] = "ok" =>
    \A i \in rows[a] : OwnerOf[UsageFile(a)[i].req] = a
===============================================================================
