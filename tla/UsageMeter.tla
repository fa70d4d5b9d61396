------------------------------ MODULE UsageMeter ------------------------------
(***************************************************************************)
(* What the usage gateway (bench/usage_gateway.py) promises to whoever     *)
(* prices a run: every accepted request is metered at most once, into the  *)
(* JSONL file of the run id it carries, and only while it is being served; *)
(* a row once appended is never changed or removed.  Both upstream modes,  *)
(* VertexBridge and PassthroughProxy, implement this specification.        *)
(***************************************************************************)
EXTENDS Naturals, Sequences

CONSTANTS
  Reqs,    (* requests, one handler thread each                      *)
  Tags,    (* run ids: one <run_id>.usage.jsonl each                 *)
  TagOf,   (* the x-ccb-run-id a request carries                     *)
  Usages   (* what a usage row may say                               *)

ASSUME MeterAssumption == TagOf \in [Reqs -> Tags]

Row == [req : Reqs, usage : Usages]

VARIABLES
  phase,   (* phase[r]: "new", "open", "metered" or "closed"         *)
  log      (* log[t]: the rows of t's file, in file order            *)

meterVars == <<phase, log>>

MeterTypeOK ==
  /\ phase \in [Reqs -> {"new", "open", "metered", "closed"}]
  /\ log \in [Tags -> Seq(Row)]

MeterInit ==
  /\ phase = [r \in Reqs |-> "new"]
  /\ log = [t \in Tags |-> <<>>]

(* The request is accepted. *)
Accept(r) ==
  /\ phase[r] = "new"
  /\ phase' = [phase EXCEPT ![r] = "open"]
  /\ UNCHANGED log

(* UsageSink.write: one whole line, under the sink's lock. *)
Meter(r, u) ==
  /\ phase[r] = "open"
  /\ phase' = [phase EXCEPT ![r] = "metered"]
  /\ log' = [log EXCEPT ![TagOf[r]] = Append(@, [req |-> r, usage |-> u])]

(* The handler is over: served, refused, or failed without usage. *)
Close(r) ==
  /\ phase[r] # "closed"
  /\ phase' = [phase EXCEPT ![r] = "closed"]
  /\ UNCHANGED log

MeterNext == \E r \in Reqs : \/ Accept(r)
                             \/ \E u \in Usages : Meter(r, u)
                             \/ Close(r)

MeterSpec == MeterInit /\ [][MeterNext]_meterVars

(* No request is metered twice and no row lies in another run's file: what *)
(* a run is charged for is what its own requests used, once each.          *)
MeteredOnceInOwnFile ==
  /\ \A t \in Tags : \A i \in DOMAIN log[t] : TagOf[log[t][i].req] = t
  /\ \A t \in Tags : \A i, j \in DOMAIN log[t] :
       log[t][i].req = log[t][j].req => i = j
===============================================================================
