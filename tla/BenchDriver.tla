------------------------------ MODULE BenchDriver ------------------------------
(***************************************************************************)
(* The driver of a benchmark run (bench/cc_runner.py, main): one job per   *)
(* (instance, arm) pair goes through a process pool, infra failures are    *)
(* retried once, every result is saved to runs/<pair>.json and appended to *)
(* ledger.jsonl, and a driver that is started again over the same output   *)
(* directory skips the pairs the ledger already holds.  A driver may be    *)
(* killed, a worker process may die, and a write may fail, at any moment.  *)
(***************************************************************************)
EXTENDS Naturals, Sequences, FiniteSets

CONSTANTS
  Pairs,        (* the (instance, arm) pairs to run                       *)
  Workers,      (* --workers                                              *)
  MaxSessions,  (* bound: times the driver is started                     *)
  NoPair        (* no row is being recorded                               *)

ASSUME DriverAssumption ==
  /\ Workers \in Nat \ {0}
  /\ MaxSessions \in Nat
  /\ NoPair \notin Pairs

VARIABLES
  driver,    (* "down", "wait" (as_completed), "save", "append", "over"   *)
             (* (BENCH_RUN_DONE), "aborted" (an exception left main)      *)
  session,   (* how often the driver was started                          *)
  fut,       (* what became of a pair's future in this session            *)
  round,     (* the futures this as_completed still iterates over         *)
  retried,   (* retried                                                   *)
  cur,       (* the pair whose row is being recorded                      *)
  done,      (* done                                                      *)
  broken,    (* the process pool has lost a worker                        *)
  runs,      (* runs[p]: the content of runs/<p>.json                     *)
  ledger,    (* the lines of ledger.jsonl                                 *)
  tail,      (* how ledger.jsonl ends: "eol", "noeol" (only the newline   *)
             (* is missing), "part" (in the middle of a row)              *)
  orphans    (* solves of a killed session that still run                 *)

pool == <<fut, round, retried, broken>>
disk == <<runs, ledger, tail>>
vars == <<driver, session, pool, cur, done, disk, orphans>>

Row == [pair : Pairs, ok : BOOLEAN, readable : BOOLEAN]

TypeOK ==
  /\ driver \in {"down", "wait", "save", "append", "over", "aborted"}
  /\ session \in 0..MaxSessions
  /\ fut \in [Pairs -> {"none", "queued", "running", "ok", "infra", "lost",
                        "recorded"}]
  /\ round \subseteq Pairs
  /\ retried \subseteq Pairs
  /\ cur \in Pairs \cup {NoPair}
  /\ done \subseteq Pairs
  /\ broken \in BOOLEAN
  /\ runs \in [Pairs -> {"none", "torn", "ok", "infra"}]
  /\ ledger \in Seq(Row)
  /\ tail \in {"eol", "noeol", "part"}
  /\ orphans \subseteq Pairs \X (0..MaxSessions)

Init ==
  /\ driver = "down" /\ session = 0
  /\ fut = [p \in Pairs |-> "none"]
  /\ round = {} /\ retried = {} /\ done = {} /\ orphans = {}
  /\ cur = NoPair
  /\ broken = FALSE
  /\ runs = [p \in Pairs |-> "none"]
  /\ ledger = <<>> /\ tail = "eol"

Live == {"queued", "running", "ok", "infra", "lost"}
Busy == {p \in Pairs : fut[p] \in {"queued", "running"}}
Running == {p \in Pairs : fut[p] = "running"}

-------------------------------------------------------------------------------
(* _load_done: the pairs with a readable row that is no infra failure.     *)
(* The first definition is a seeded defect, which stops at the first line  *)
(* it cannot parse.                                                        *)
LoadDone_stops(lines) ==
  {p \in Pairs : \E i \in DOMAIN lines :
     /\ lines[i].pair = p /\ lines[i].ok
     /\ \A k \in 1..i : lines[k].readable}

LoadDone(lines) ==
  {p \in Pairs : \E i \in DOMAIN lines :
     lines[i].pair = p /\ lines[i].ok /\ lines[i].readable}

(* The file after the append of p's row.  A row that is appended to a line *)
(* without its newline joins that line, which then no longer parses.       *)
Joined(lines) ==
  IF tail = "noeol" THEN [lines EXCEPT ![Len(lines)].readable = FALSE] ELSE lines

Appended(p) ==
  Append(Joined(ledger),
         [pair |-> p, ok |-> fut[p] = "ok", readable |-> tail = "eol"])

(* An append that is cut short, or just made it. *)
CutAppend(p) ==
  \/ UNCHANGED <<ledger, tail>>
  \/ ledger' = Joined(ledger) /\ tail' = "part"
  \/ ledger' = Appended(p) /\ tail' \in {"eol", "noeol"}

(* The text runs/<p>.json is to have: a future that failed is replaced by  *)
(* the stub of an infra failure.                                           *)
Saved(p) == IF fut[p] = "ok" THEN "ok" ELSE "infra"

(* What a crash or a failing disk leaves of the write in progress. *)
CutWrite ==
  \/ /\ driver = "save"
     /\ \E text \in {runs[cur], "torn", Saved(cur)} :
          runs' = [runs EXCEPT ![cur] = text]
     /\ UNCHANGED <<ledger, tail>>
  \/ /\ driver = "append"
     /\ CutAppend(cur)
     /\ UNCHANGED runs

-------------------------------------------------------------------------------
(* The driver is started: the ledger tells which pairs are left. *)
Start ==
  /\ driver \in {"down", "over", "aborted"}
  /\ Busy = {}
  /\ session < MaxSessions
  /\ session' = session + 1
  /\ done' = LoadDone(ledger)
  /\ fut' = [p \in Pairs |-> IF p \in done' THEN "none" ELSE "queued"]
  /\ round' = Pairs \ done'
  /\ driver' = IF Pairs \subseteq done' THEN "over" ELSE "wait"
  /\ retried' = {} /\ broken' = FALSE /\ cur' = NoPair
  /\ UNCHANGED <<disk, orphans>>

(* A worker process takes a job; a solve ends one way or the other.  An    *)
(* aborted driver still waits for its pool (the exit of the with block).   *)
Take(p) ==
  /\ fut[p] = "queued"
  /\ Cardinality(Running) < Workers
  /\ fut' = [fut EXCEPT ![p] = "running"]
  /\ UNCHANGED <<driver, session, round, retried, broken, cur, done, disk, orphans>>

Finish(p) ==
  /\ fut[p] = "running"
  /\ \E result \in {"ok", "infra"} : fut' = [fut EXCEPT ![p] = result]
  /\ UNCHANGED <<driver, session, round, retried, broken, cur, done, disk, orphans>>

(* A worker process dies: every future that is not finished fails, the     *)
(* other workers are terminated and the pool takes no more jobs.           *)
WorkerDies(p) ==
  /\ fut[p] = "running"
  /\ broken' = TRUE
  /\ fut' = [q \in Pairs |-> IF q \in Busy THEN "lost" ELSE fut[q]]
  /\ UNCHANGED <<driver, session, round, retried, cur, done, disk, orphans>>

-------------------------------------------------------------------------------
Finished(p) == driver = "wait" /\ p \in round /\ fut[p] \in {"ok", "infra", "lost"}

(* The first definition is a seeded defect: retried is not consulted. *)
MayRetry_unbounded(p) == fut[p] # "ok"
MayRetry(p) == fut[p] # "ok" /\ p \notin retried

(* An infra failure is submitted again, once.  Its future is not among     *)
(* those this as_completed iterates over.  The first definition is a       *)
(* seeded defect: the retry is noted but not submitted.                    *)
Retry_forgets(p) ==
  /\ Finished(p) /\ MayRetry(p) /\ ~broken
  /\ retried' = retried \cup {p}
  /\ round' = round \ {p}
  /\ fut' = [fut EXCEPT ![p] = "none"]
  /\ UNCHANGED <<driver, session, broken, cur, done, disk, orphans>>

Retry(p) ==
  /\ Finished(p) /\ MayRetry(p) /\ ~broken
  /\ retried' = retried \cup {p}
  /\ round' = round \ {p}
  /\ fut' = [fut EXCEPT ![p] = "queued"]
  /\ UNCHANGED <<driver, session, broken, cur, done, disk, orphans>>

(* A broken pool refuses the job, and the exception leaves main. *)
RetryRefused(p) ==
  /\ Finished(p) /\ MayRetry(p) /\ broken
  /\ retried' = retried \cup {p}
  /\ round' = round \ {p}
  /\ driver' = "aborted"
  /\ UNCHANGED <<session, fut, broken, cur, done, disk, orphans>>

(* Any other row is recorded. *)
Collect(p) ==
  /\ Finished(p) /\ ~MayRetry(p)
  /\ round' = round \ {p}
  /\ cur' = p
  /\ driver' = "save"
  /\ UNCHANGED <<session, fut, retried, broken, done, disk, orphans>>

(* write_text over what is there; the seeded defect keeps an old file. *)
SaveRun_keepsOld ==
  /\ driver = "save"
  /\ runs' = [runs EXCEPT ![cur] = IF @ = "none" THEN Saved(cur) ELSE @]
  /\ driver' = "append"
  /\ UNCHANGED <<session, pool, cur, done, ledger, tail, orphans>>

SaveRun ==
  /\ driver = "save"
  /\ runs' = [runs EXCEPT ![cur] = Saved(cur)]
  /\ driver' = "append"
  /\ UNCHANGED <<session, pool, cur, done, ledger, tail, orphans>>

AppendRow ==
  /\ driver = "append"
  /\ ledger' = Appended(cur) /\ tail' = "eol"
  /\ done' = IF fut[cur] = "ok" THEN done \cup {cur} ELSE done
  /\ fut' = [fut EXCEPT ![cur] = "recorded"]
  /\ cur' = NoPair
  /\ driver' = "wait"
  /\ UNCHANGED <<session, round, retried, broken, runs, orphans>>

(* The iteration is over: the next one covers what was submitted since;    *)
(* when there is nothing the run is done.                                  *)
NextRound ==
  /\ driver = "wait" /\ round = {}
  /\ round' = {p \in Pairs : fut[p] \in Live}
  /\ driver' = IF round' = {} THEN "over" ELSE "wait"
  /\ UNCHANGED <<session, fut, retried, broken, cur, done, disk, orphans>>

-------------------------------------------------------------------------------
(* A write raises, and the exception leaves main. *)
DiskFails ==
  /\ CutWrite
  /\ driver' = "aborted"
  /\ UNCHANGED <<session, pool, cur, done, orphans>>

(* The driver process is killed.  Its workers finish the solve they are    *)
(* in, unless the machine went down too.                                   *)
Crash ==
  /\ \/ CutWrite
     \/ driver \in {"wait", "aborted"} /\ UNCHANGED disk
  /\ driver' = "down"
  /\ fut' = [p \in Pairs |-> "none"]
  /\ round' = {} /\ retried' = {} /\ done' = {}
  /\ broken' = FALSE /\ cur' = NoPair
  /\ \E left \in {orphans \cup (Running \X {session}), {}} : orphans' = left
  /\ UNCHANGED session

OrphanEnds ==
  /\ \E o \in orphans : orphans' = orphans \ {o}
  /\ UNCHANGED <<driver, session, pool, cur, done, disk>>

Main == \/ \E p \in Pairs : Retry(p) \/ RetryRefused(p) \/ Collect(p)
        \/ SaveRun \/ AppendRow \/ NextRound

(* Nobody starts the driver again. *)
Quiet == /\ driver \in {"down", "over", "aborted"}
         /\ Busy = {} /\ orphans = {}
         /\ UNCHANGED vars

Next == \/ Start
        \/ \E p \in Pairs : Take(p) \/ Finish(p) \/ WorkerDies(p)
        \/ Main
        \/ DiskFails \/ Crash \/ OrphanEnds
        \/ Quiet

Spec == Init /\ [][Next]_vars

(* The driver's loop runs, idle workers take jobs and every solve ends:    *)
(* the wall cap bounds it.                                                 *)
FairSpec == /\ Spec
            /\ WF_vars(Main)
            /\ \A p \in Pairs : WF_vars(Take(p)) /\ WF_vars(Finish(p))

-------------------------------------------------------------------------------
(* A pair is credited once: over any number of crashes and resumes the     *)
(* ledger never holds two readable results of one pair, which the report   *)
(* would count as two runs (load_ledger keeps every row).                  *)
OneResultPerPair ==
  \A i, k \in DOMAIN ledger :
    /\ ledger[i].pair = ledger[k].pair
    /\ ledger[i].ok /\ ledger[i].readable
    /\ ledger[k].ok /\ ledger[k].readable
    => i = k

(* What the ledger credits is backed by its run file: runs/<pair>.json     *)
(* holds the whole record, whatever was cut short or run again in between. *)
CreditedRunIsSaved ==
  \A i \in DOMAIN ledger :
    ledger[i].ok /\ ledger[i].readable => runs[ledger[i].pair] = "ok"

(* A driver that says BENCH_RUN_DONE has left no pair out: each was done   *)
(* before, or its result of this session was recorded.                     *)
NoPairForgotten ==
  driver = "over" =>
    \A p \in Pairs : \/ fut[p] = "recorded" /\ runs[p] \in {"ok", "infra"}
                     \/ fut[p] = "none" /\ p \in done

(* A session that is not killed comes to its end: a pair that keeps        *)
(* failing does not keep it alive.                                         *)
SessionEnds == driver = "wait" ~> driver \in {"over", "aborted", "down"}

-------------------------------------------------------------------------------
(* The strengthening of the three invariants above.  A pair whose future   *)
(* is alive has no credit yet, and neither has the pair being recorded,    *)
(* whose run file is in place before its row is appended; and every pair   *)
(* of the session is alive, recorded, or was done before it began.         *)
InLoop == driver \in {"wait", "save", "append"}

LiveUncredited ==
  InLoop => \A p \in Pairs : fut[p] \in Live => p \notin LoadDone(ledger)

CurIsLive ==
  driver \in {"save", "append"} =>
    /\ cur \in Pairs
    /\ fut[cur] \in {"ok", "infra", "lost"}
    /\ driver = "append" => runs[cur] = Saved(cur)

Accounted ==
  InLoop \/ driver = "over" =>
    \A p \in Pairs : \/ InLoop /\ fut[p] \in Live
                     \/ fut[p] = "recorded" /\ runs[p] \in {"ok", "infra"}
                     \/ fut[p] = "none" /\ p \in done

-------------------------------------------------------------------------------
(* A claim of the source that the code does not keep; a run refutes it.    *)

(* "truncated tail from a prior crash -- skip" (_load_done): a crash costs *)
(* the row it cut short and no other, so what this session counts as done  *)
(* is readable in the ledger.                                              *)
DoneIsInLedger == done \subseteq LoadDone(ledger)
===============================================================================
