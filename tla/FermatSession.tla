---------------------------- MODULE FermatSession ----------------------------
(***************************************************************************)
(* The fermat arm (arms/fermat.py): a login whose refresh token can be     *)
(* used once, one session seat, and a detached proxy daemon whose upstream *)
(* must be the gateway of the solve that uses it.                          *)
(*                                                                         *)
(* Solves are threads of a batch process or processes of their own; they   *)
(* share the credentials file, the seat's lock file, the daemon and, in    *)
(* one process, the environment.  Who calls start_run and end_run is not   *)
(* in the repository: a solve is readied, started, run and ended once, and *)
(* nobody ends one whose start_run raised, as start_run itself assumes     *)
(* when it gives the seat back.  The credentials and the answers of the    *)
(* auth server are taken to be well formed, the lock to be there (POSIX).  *)
(***************************************************************************)
EXTENDS Naturals, FiniteSets

CONSTANTS
  Solves,        (* the solves of the fermat arm                           *)
  GatewayOf,     (* the gateway each of them is to be metered by           *)
  MaxAgings,     (* bound: steps an access token ages by                   *)
  MaxMishaps,    (* bound: lost answers, failed writes, crashes, files of  *)
                 (* the daemon that are malformed, agents left behind      *)
  Wirings        (* the environments a batch may run in, see wiring        *)

Vendor == "vendor"     (* api.anthropic.com: what a daemon without an      *)
None == "none"         (* upstream uses; no daemon                         *)
Gateways == {GatewayOf[s] : s \in Solves}

ASSUME FermatAssumption ==
  /\ MaxAgings \in Nat /\ MaxMishaps \in Nat
  /\ Wirings \subseteq [allowed : BOOLEAN, declared : BOOLEAN, apikey : BOOLEAN, together : BOOLEAN,
                         unset : SUBSET Solves]
  /\ Vendor \notin Gateways /\ None \notin Gateways

VARIABLES
  wiring,   (* allowed: FERMAT_ALLOW_CONCURRENT; declared: FERMAT_WORKERS  *)
            (* is above 1; apikey: one can be resolved; together: the      *)
            (* solves are threads of one process; unset: the solves that   *)
            (* neither ctx nor CCB_GATEWAY_URL gives a gateway             *)
  disk,     (* the credentials file: its refresh token (0: none) and the   *)
            (* age of its access token                                     *)
  valid,    (* refresh tokens the auth server would take                   *)
  minted,   (* how many it ever gave out                                   *)
  broken,   (* since the last login a rotated token was lost               *)
  agings, mishaps,
  at,       (* where a solve stands                                        *)
  phase,    (* which call of _ensure_session_or_pause it is in             *)
  hand,     (* the refresh token in its hands                              *)
  seat,     (* who holds a lock on the seat                                *)
  raised,   (* history: whose check of the daemon raised                   *)
  env,      (* FERMAT_UPSTREAM in the environment of its process; Vendor   *)
            (* if there is none, or an empty one                           *)
  facade,   (* the upstream its facades were given                         *)
  daemon,   (* the upstream of the running daemon, or None                 *)
  strays,   (* the upstreams of facades whose agent outlived its solve     *)
  run       (* rows: a call reached its gateway; leaked: one did not;      *)
            (* why: what could explain that                                *)

auth == <<disk, valid, minted, broken>>
budget == <<agings, mishaps>>
lock == <<seat, raised>>
proxy == <<env, facade, daemon, strays, run>>
vars == <<wiring, auth, budget, at, phase, hand, lock, proxy>>

NoRun == [rows |-> FALSE, leaked |-> FALSE, why |-> {}]
Whys == {"noGateway", "unseen", "killFailed", "survivor", "lapsed", "environment"}

InSession == {"load", "post", "persist", "whoami", "sleep"}
Checked == {"probe", "launch", "run"}
Seated == {"daemon"} \cup Checked
Places == InSession \cup Seated \cup {"gate", "ready", "seat", "failed", "accepted", "rejected"}

Processmates(s) == IF wiring.together THEN Solves ELSE {s}
Upstream(s) == IF s \in wiring.unset THEN Vendor ELSE GatewayOf[s]

Init ==
  /\ wiring \in Wirings
  /\ disk \in [token : {0, 1}, age : {"fresh", "ageing", "expired"}]
  /\ valid = {1} /\ minted = 1 /\ broken = FALSE
  /\ agings = 0 /\ mishaps = 0
  /\ at = [s \in Solves |-> "gate"]
  /\ phase = [s \in Solves |-> "gate"]
  /\ hand = [s \in Solves |-> 0]
  /\ seat = {} /\ raised = {}
  /\ env = [s \in Solves |-> Vendor]
  /\ facade = [s \in Solves |-> Vendor]
  /\ daemon \in {None, Vendor} /\ strays = {}
  /\ run = [s \in Solves |-> NoRun]

Goto(s, place) == at' = [at EXCEPT ![s] = place]
Mishap == mishaps < MaxMishaps /\ mishaps' = mishaps + 1 /\ UNCHANGED agings

-------------------------------------------------------------------------------
(* _refuse_declared_concurrency.                                           *)
Refused == wiring.declared /\ ~wiring.allowed

(* ready(): the declared workers, the shim, the CLI and the SDK's field,   *)
(* the session in between.                                                 *)
Gate(s) ==
  /\ at[s] = "gate"
  /\ \/ Goto(s, "failed")
     \/ ~Refused /\ Goto(s, "load")
  /\ UNCHANGED <<wiring, auth, budget, phase, hand, lock, proxy>>

(* start_run: the declared workers again, the environment of the process,  *)
(* then the session.                                                       *)
Start(s) ==
  /\ at[s] = "ready"
  /\ IF Refused THEN Goto(s, "failed") /\ UNCHANGED <<phase, env>>
     ELSE /\ Goto(s, "load")
          /\ phase' = [phase EXCEPT ![s] = "start"]
          /\ env' = [t \in Solves |-> IF t \in Processmates(s) THEN Upstream(s) ELSE env[t]]
  /\ UNCHANGED <<wiring, auth, budget, hand, lock, facade, daemon, strays, run>>

-------------------------------------------------------------------------------
Drop(s) == hand' = [hand EXCEPT ![s] = 0]

(* _headless_refresh: nothing to do for a token with comfortable life      *)
(* left, nothing possible without a token or an API key.                   *)
Load(s) ==
  /\ at[s] = "load"
  /\ IF disk.token # 0 /\ disk.age # "fresh" /\ wiring.apikey
     THEN Goto(s, "post") /\ hand' = [hand EXCEPT ![s] = disk.token]
     ELSE Goto(s, "whoami") /\ UNCHANGED hand
  /\ UNCHANGED <<wiring, auth, budget, phase, lock, proxy>>

(* The auth server takes a token once, and gives another with the access   *)
(* token.  A token it took before is refused.                              *)
Post(s) ==
  /\ at[s] = "post" /\ hand[s] \in valid
  /\ minted' = minted + 1
  /\ valid' = (valid \ {hand[s]}) \cup {minted'}
  /\ \/ /\ hand' = [hand EXCEPT ![s] = minted']
        /\ Goto(s, "persist") /\ UNCHANGED <<broken, budget>>
     \/ /\ Mishap                                  (* the answer is lost   *)
        /\ Goto(s, "whoami") /\ broken' = TRUE /\ Drop(s)
  /\ UNCHANGED <<wiring, disk, phase, lock, proxy>>

PostRefused(s) ==
  /\ at[s] = "post"
  /\ \/ hand[s] \notin valid /\ UNCHANGED budget
     \/ Mishap                                     (* it never arrived     *)
  /\ Goto(s, "whoami") /\ Drop(s)
  /\ UNCHANGED <<wiring, auth, phase, lock, proxy>>

(* _persist_creds replaces the file in one step, or raises: the old token  *)
(* stays and the new one is lost.  Mutant: only the access token is kept.  *)
Persist_accessOnly(s) ==
  /\ at[s] = "persist" /\ Goto(s, "whoami") /\ Drop(s)
  /\ \/ disk' = [disk EXCEPT !.age = "fresh"] /\ UNCHANGED <<broken, budget>>
     \/ Mishap /\ broken' = TRUE /\ UNCHANGED disk
  /\ UNCHANGED <<wiring, valid, minted, phase, lock, proxy>>

Persist(s) ==
  /\ at[s] = "persist" /\ Goto(s, "whoami") /\ Drop(s)
  /\ \/ disk' = [token |-> hand[s], age |-> "fresh"] /\ UNCHANGED <<broken, budget>>
     \/ Mishap /\ broken' = TRUE /\ UNCHANGED disk
  /\ UNCHANGED <<wiring, valid, minted, phase, lock, proxy>>

(* `fermat whoami` decides, whatever came of the refresh; the CLI may also *)
(* fail.  A lapse pauses.                                                  *)
Entitled == disk.token # 0 /\ disk.age # "expired"

(* Mutant: a run is resumed only after a successful refresh.               *)
Whoami_refreshed(s) ==
  /\ at[s] = "whoami"
  /\ IF Entitled /\ disk.age = "fresh"
     THEN Goto(s, IF phase[s] = "gate" THEN "ready" ELSE "seat")
     ELSE Goto(s, "sleep")
  /\ UNCHANGED <<wiring, auth, budget, phase, hand, lock, proxy>>

Whoami(s) ==
  /\ at[s] = "whoami"
  /\ \/ Entitled /\ Goto(s, IF phase[s] = "gate" THEN "ready" ELSE "seat") /\ UNCHANGED budget
     \/ ~Entitled /\ Goto(s, "sleep") /\ UNCHANGED budget
     \/ Entitled /\ Mishap /\ Goto(s, "sleep")
  /\ UNCHANGED <<wiring, auth, phase, hand, lock, proxy>>

Sleep(s) ==
  /\ at[s] = "sleep" /\ Goto(s, "load")
  /\ UNCHANGED <<wiring, auth, budget, phase, hand, lock, proxy>>

Session(s) == Load(s) \/ Post(s) \/ PostRefused(s) \/ Persist(s) \/ Whoami(s) \/ Sleep(s)

(* The operator logs in while a run is paused on a lapse.                  *)
Login ==
  /\ ~Entitled /\ \E s \in Solves : at[s] = "sleep"
  /\ minted' = minted + 1 /\ valid' = valid \cup {minted'}
  /\ disk' = [token |-> minted', age |-> "fresh"]
  /\ broken' = FALSE
  /\ UNCHANGED <<wiring, budget, at, phase, hand, lock, proxy>>

(* The access token comes near its end, and ends.                          *)
Age ==
  /\ agings < MaxAgings /\ disk.age # "expired"
  /\ agings' = agings + 1
  /\ disk' = [disk EXCEPT !.age = IF @ = "fresh" THEN "ageing" ELSE "expired"]
  /\ UNCHANGED <<wiring, valid, minted, broken, mishaps, at, phase, hand, lock, proxy>>

-------------------------------------------------------------------------------
(* _acquire_seat: a lock that is refused when anyone holds it.             *)
(* Mutant: the lock is shared.                                             *)
SeatFree_shared == TRUE
SeatFree == seat = {}

AcquireSeat(s) ==
  /\ at[s] = "seat"
  /\ IF wiring.allowed THEN Goto(s, "daemon") /\ UNCHANGED seat
     ELSE IF SeatFree THEN Goto(s, "daemon") /\ seat' = seat \cup {s}
     ELSE Goto(s, "failed") /\ UNCHANGED seat
  /\ UNCHANGED <<wiring, auth, budget, phase, hand, raised, proxy>>

Blame(s, why) == run' = [run EXCEPT ![s].why = @ \cup {why}]

(* _ensure_daemon_upstream: a daemon of another upstream is killed, if the *)
(* solve has a gateway to compare with.  One that runtime.json does not    *)
(* tell of, or that does not answer in time, is taken for gone; a kill may *)
(* fail.  A file or an answer of another shape raises, and so start_run.   *)
Astray(s) == Upstream(s) # Vendor /\ daemon \notin {None, Upstream(s)}

CheckDaemon(s) ==
  /\ at[s] = "daemon"
  /\ \/ /\ Goto(s, "probe") /\ UNCHANGED <<raised, budget>>
        /\ \/ Upstream(s) = Vendor /\ Blame(s, "noGateway") /\ UNCHANGED daemon
           \/ Upstream(s) # Vendor /\ ~Astray(s) /\ UNCHANGED <<daemon, run>>
           \/ Astray(s) /\ daemon' = None /\ UNCHANGED run
           \/ /\ Astray(s) /\ UNCHANGED daemon
              /\ \E why \in {"unseen", "killFailed"} : Blame(s, why)
     \/ /\ Mishap /\ Goto(s, "failed")
        /\ raised' = raised \cup {s} /\ UNCHANGED <<daemon, run>>
  /\ UNCHANGED <<wiring, auth, phase, hand, seat, env, facade, strays>>

(* The pre-flight of the shim: it fails, or says vanilla, and the seat is  *)
(* given back.  Mutant: it is kept when the shim fails.                    *)
Probe_keeps(s) ==
  /\ at[s] = "probe"
  /\ Goto(s, "launch") \/ Goto(s, "failed")
  /\ UNCHANGED <<wiring, auth, budget, phase, hand, lock, proxy>>

Probe(s) ==
  /\ at[s] = "probe"
  /\ \/ Goto(s, "launch") /\ UNCHANGED seat
     \/ Goto(s, "failed") /\ seat' = seat \ {s}
  /\ UNCHANGED <<wiring, auth, budget, phase, hand, raised, proxy>>

(* sdk_option_overrides: the facades' environment is read off the process's*)
(* as it is by then.  Mutant: they are given an upstream that is empty.    *)
FacadeEnv_empty(s) == Vendor
FacadeEnv(s) == env[s]

Launch(s) ==
  /\ at[s] = "launch" /\ Goto(s, "run")
  /\ facade' = [facade EXCEPT ![s] = FacadeEnv(s)]
  /\ IF env[s] # Upstream(s) THEN Blame(s, "environment") ELSE UNCHANGED run
  /\ UNCHANGED <<wiring, auth, budget, phase, hand, lock, env, daemon, strays>>

(* A model call of the agent.  A facade that finds no daemon spawns one;   *)
(* without an entitled login the shim silently passes the call through.    *)
ModelCall(s) ==
  /\ at[s] = "run"
  /\ IF Entitled
     THEN /\ daemon' = IF daemon = None THEN facade[s] ELSE daemon
          /\ run' = IF daemon' = GatewayOf[s] THEN [run EXCEPT ![s].rows = TRUE]
                    ELSE [run EXCEPT ![s].leaked = TRUE]
     ELSE /\ run' = [run EXCEPT ![s] = [run[s] EXCEPT !.leaked = TRUE, !.why = @ \cup {"lapsed"}]]
          /\ UNCHANGED daemon
  /\ UNCHANGED <<wiring, auth, budget, at, phase, hand, lock, env, facade, strays>>

(* verify_run, then end_run or teardown.  The agent may outlive it, with   *)
(* its facades (RunAgent).                                                 *)
EndRun(s) ==
  /\ at[s] = "run"
  /\ \/ run[s].rows /\ Goto(s, "accepted")
     \/ Goto(s, "rejected")
  /\ seat' = seat \ {s} /\ facade' = [facade EXCEPT ![s] = Vendor]
  /\ \/ UNCHANGED <<strays, budget>>
     \/ Mishap /\ strays' = strays \cup {facade[s]}
  /\ UNCHANGED <<wiring, auth, phase, hand, raised, env, daemon, run>>

(* A facade that was left behind finds no daemon and spawns one.           *)
StrayCall ==
  /\ daemon = None /\ Entitled /\ daemon' \in strays
  /\ run' = [s \in Solves |->
               IF at[s] \in Checked /\ daemon' # GatewayOf[s]
                 THEN [run[s] EXCEPT !.why = @ \cup {"survivor"}] ELSE run[s]]
  /\ UNCHANGED <<wiring, auth, budget, at, phase, hand, lock, env, facade, strays>>

DaemonExits ==
  /\ daemon # None /\ daemon' = None
  /\ UNCHANGED <<wiring, auth, budget, at, phase, hand, lock, env, facade, strays, run>>

(* A process dies and is launched again: the kernel drops its locks, the   *)
(* detached daemon and the file stay, its agents may, and a token in its   *)
(* hands is lost.                                                          *)
Crash(s) ==
  LET dead == Processmates(s)
  IN  /\ Mishap
      /\ \E t \in dead : at[t] \notin {"gate", "failed", "accepted", "rejected"}
      /\ broken' = (broken \/ \E t \in dead : at[t] = "persist")
      /\ at' = [t \in Solves |-> IF t \in dead THEN "gate" ELSE at[t]]
      /\ phase' = [t \in Solves |-> IF t \in dead THEN "gate" ELSE phase[t]]
      /\ hand' = [t \in Solves |-> IF t \in dead THEN 0 ELSE hand[t]]
      /\ env' = [t \in Solves |-> IF t \in dead THEN Vendor ELSE env[t]]
      /\ facade' = [t \in Solves |-> IF t \in dead THEN Vendor ELSE facade[t]]
      /\ run' = [t \in Solves |-> IF t \in dead THEN NoRun ELSE run[t]]
      /\ seat' = seat \ dead /\ raised' = raised \ dead
      /\ \E left \in SUBSET {t \in dead : at[t] = "run"} :
           strays' = strays \cup {facade[t] : t \in left}
      /\ UNCHANGED <<wiring, disk, valid, minted, daemon>>

Next ==
  \/ \E s \in Solves :
       \/ Gate(s) \/ Start(s) \/ Session(s) \/ AcquireSeat(s)
       \/ CheckDaemon(s) \/ Probe(s) \/ Launch(s) \/ ModelCall(s) \/ EndRun(s)
       \/ Crash(s)
  \/ Login \/ Age \/ StrayCall \/ DaemonExits

(* The loop polls, and an operator who is told of a lapse logs in.         *)
Spec == Init /\ [][Next]_vars /\ SF_vars(Login) /\ \A s \in Solves : WF_vars(Session(s))

-------------------------------------------------------------------------------
(* Types.                                                                  *)
TypeOK ==
  /\ wiring \in Wirings
  /\ disk \in [token : Nat, age : {"fresh", "ageing", "expired"}]
  /\ minted \in Nat /\ valid \subseteq 1 .. minted /\ broken \in BOOLEAN
  /\ agings \in 0 .. MaxAgings /\ mishaps \in 0 .. MaxMishaps
  /\ at \in [Solves -> Places] /\ phase \in [Solves -> {"gate", "start"}]
  /\ hand \in [Solves -> Nat] /\ seat \subseteq Solves /\ raised \subseteq Solves
  /\ env \in [Solves -> Gateways \cup {Vendor}]
  /\ facade \in [Solves -> Gateways \cup {Vendor}]
  /\ daemon \in Gateways \cup {Vendor, None} /\ strays \subseteq Gateways \cup {Vendor}
  /\ run \in [Solves -> [rows : BOOLEAN, leaked : BOOLEAN, why : SUBSET Whys]]

(* "fermat has ONE session seat": unless concurrency is allowed no two     *)
(* solves are past it, over pauses, failures and crashes.                  *)
OneSolveSeated ==
  ~wiring.allowed => \A s, t \in Solves : at[s] \in Seated /\ at[t] \in Seated => s = t

(* Every way out of start_run and of a run gives the seat back, or the arm *)
(* would refuse all later solves - but one: a check of the daemon that     *)
(* raises, after which the seat is held as long as the arm object lives,   *)
(* which is here until its process ends.                                   *)
SeatLostOnlyByCheck == \A s \in seat : at[s] \in Seated \/ s \in raised

(* The rotation chain is alive - the file holds a token the server takes,  *)
(* or a solve is about to write one - unless an answer, a write or a       *)
(* process was lost between the server's rotation and the file.  Solves    *)
(* that refresh at once, which no lock forbids, do not break it, nor does  *)
(* a login that crosses a refresh.                                         *)
RotationSurvives ==
  ~broken => \/ disk.token \in valid \cup {0}
             \/ \E s \in Solves : at[s] = "persist" /\ hand[s] \in valid

(* "the daemon can never silently escape the gateway": with one seat, a    *)
(* call that does not go through the gateway of its solve has one of six   *)
(* causes - the solve was given no gateway, the daemon was not found by    *)
(* the check or survived it, an agent that outlived an earlier solve       *)
(* spawned it since, the login lapsed during the run, or another thread of *)
(* the process wrote its own gateway into the environment while this solve *)
(* was paused.                                                             *)
BypassIsExplained ==
  ~wiring.allowed => \A s \in Solves : run[s].leaked => run[s].why # {}

(* A paused run resumes: no solve is in the loop for ever, as the login is *)
(* good again some day, with or without an API key to refresh it.          *)
PauseEnds == \A s \in Solves : []<>(at[s] \notin InSession)
===============================================================================
