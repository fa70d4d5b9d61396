--------------------------- MODULE BenchDriverProofs ---------------------------
(***************************************************************************)
(* Theorems about BenchDriver, for any set of pairs, any number of workers *)
(* and any number of sessions.                                             *)
(***************************************************************************)
EXTENDS BenchDriver, SequenceTheorems, TLAPS

-------------------------------------------------------------------------------
(* What an append does to the ledger, whole or cut short: no row changes   *)
(* its pair or result, and none becomes readable that was not.             *)
Keeps(lines) ==
  /\ lines \in Seq(Row)
  /\ Len(lines) >= Len(ledger)
  /\ \A i \in 1..Len(ledger) :
       /\ lines[i].pair = ledger[i].pair
       /\ lines[i].ok = ledger[i].ok
       /\ lines[i].readable => ledger[i].readable

LEMMA JoinedFacts ==
  ASSUME TypeOK
  PROVE  Keeps(Joined(ledger)) /\ Len(Joined(ledger)) = Len(ledger)
  <1>1. ledger \in Seq(Row) /\ Len(ledger) \in Nat /\ DOMAIN ledger = 1..Len(ledger)
    BY DEF TypeOK
  <1>2. \A i \in 1..Len(ledger) : ledger[i] \in Row
    BY <1>1
  <1>3. CASE tail # "noeol"
    <2>1. Joined(ledger) = ledger
      BY <1>3 DEF Joined
    <2> QED
      BY <1>1, <2>1 DEF Keeps
  <1>4. CASE tail = "noeol"
    <2> DEFINE n == Len(ledger)
               last == [ledger[n] EXCEPT !.readable = FALSE]
    <2>1. Joined(ledger) = [ledger EXCEPT ![n] = last]
      BY <1>4 DEF Joined
    <2>2. CASE n = 0
      <3>1. Joined(ledger) = ledger
        BY <1>1, <2>1, <2>2
      <3> QED
        BY <1>1, <3>1 DEF Keeps
    <2>3. CASE n \in 1..n
      <3>1. last \in Row /\ last.pair = ledger[n].pair /\ last.ok = ledger[n].ok
            /\ ~last.readable
        BY <1>2, <2>3 DEF Row
      <3> HIDE DEF last
      <3>2. /\ Joined(ledger) \in Seq(Row)
            /\ Len(Joined(ledger)) = n
            /\ \A i \in 1..n : Joined(ledger)[i] = IF i = n THEN last ELSE ledger[i]
        BY <1>1, <2>1, <2>3, <3>1, ExceptSeq
      <3>3. \A i \in 1..n : /\ Joined(ledger)[i].pair = ledger[i].pair
                            /\ Joined(ledger)[i].ok = ledger[i].ok
                            /\ Joined(ledger)[i].readable => ledger[i].readable
        <4> TAKE i \in 1..n
        <4>1. CASE i = n
          BY <3>1, <3>2, <4>1
        <4>2. CASE i # n
          BY <3>2, <4>2
        <4> QED
          BY <4>1, <4>2
      <3>4. Len(Joined(ledger)) >= Len(ledger)
        <4>1. n \in Nat /\ Len(Joined(ledger)) = n /\ Len(ledger) = n
          BY <1>1, <3>2, Zenon
        <4> QED
          BY <4>1
      <3> QED
        BY <3>2, <3>3, <3>4, Zenon DEF Keeps
    <2> QED
      BY <1>1, <2>2, <2>3
  <1> QED
    BY <1>3, <1>4

LEMMA AppendedFacts ==
  ASSUME TypeOK, NEW p \in Pairs
  PROVE  /\ Keeps(Appended(p))
         /\ Len(Appended(p)) = Len(ledger) + 1
         /\ Appended(p)[Len(ledger) + 1].pair = p
         /\ Appended(p)[Len(ledger) + 1].ok = (fut[p] = "ok")
  <1> DEFINE row == [pair |-> p, ok |-> fut[p] = "ok", readable |-> tail = "eol"]
             old == Joined(ledger)
  <1>1. /\ old \in Seq(Row) /\ Len(old) = Len(ledger) /\ Len(ledger) \in Nat
        /\ \A i \in 1..Len(ledger) :
             /\ old[i].pair = ledger[i].pair
             /\ old[i].ok = ledger[i].ok
             /\ old[i].readable => ledger[i].readable
    BY JoinedFacts DEF Keeps, TypeOK
  <1>2. row \in Row /\ row.pair = p /\ row.ok = (fut[p] = "ok")
    <2>1. (fut[p] = "ok") \in BOOLEAN /\ (tail = "eol") \in BOOLEAN
      OBVIOUS
    <2> QED
      BY <2>1 DEF Row
  <1>3. Appended(p) = Append(old, row)
    BY DEF Appended
  <1> HIDE DEF row, old
  <1>4. /\ Append(old, row) \in Seq(Row)
        /\ Len(Append(old, row)) = Len(ledger) + 1
        /\ \A i \in 1..Len(ledger) : Append(old, row)[i] = old[i]
        /\ Append(old, row)[Len(ledger) + 1] = row
    BY <1>1, <1>2
  <1> QED
    BY <1>1, <1>2, <1>3, <1>4 DEF Keeps
-------------------------------------------------------------------------------
(* The inductive invariant. *)
IInv ==
  /\ TypeOK
  /\ LiveUncredited
  /\ CurIsLive
  /\ Accounted
  /\ OneResultPerPair
  /\ CreditedRunIsSaved

(* A step leaves the ledger alone, spoils its last line, or appends the    *)
(* row of the pair being recorded.                                         *)
LEMMA LedgerStep ==
  ASSUME IInv, [Next]_vars
  PROVE  /\ \/ ledger' = ledger
            \/ Keeps(ledger') /\ Len(ledger') = Len(ledger)
            \/ /\ driver = "append" /\ cur \in Pairs
               /\ ledger' = Appended(cur)
         /\ ledger' \in Seq(Row)
  <1>1. TypeOK /\ CurIsLive
    BY DEF IInv
  <1>2. \/ ledger' = ledger
        \/ ledger' = Joined(ledger)
        \/ driver = "append" /\ ledger' = Appended(cur)
    <2> USE DEF disk, pool, vars
    <2>1. CASE Start
      BY <2>1 DEF Start
    <2>2. ASSUME NEW p \in Pairs, Take(p) \/ Finish(p) \/ WorkerDies(p)
          PROVE  ledger' = ledger
      BY <2>2 DEF Take, Finish, WorkerDies
    <2>3. ASSUME NEW p \in Pairs, Retry(p) \/ RetryRefused(p) \/ Collect(p)
          PROVE  ledger' = ledger
      BY <2>3 DEF Retry, RetryRefused, Collect
    <2>4. CASE SaveRun \/ AppendRow \/ NextRound
      BY <2>4 DEF SaveRun, AppendRow, NextRound
    <2>5. CASE CutWrite
      BY <2>5 DEF CutWrite, CutAppend
    <2>6. CASE DiskFails \/ Crash
      BY <2>5, <2>6 DEF DiskFails, Crash
    <2>7. CASE OrphanEnds \/ Quiet \/ UNCHANGED vars
      BY <2>7 DEF OrphanEnds, Quiet
    <2> HIDE DEF disk, pool, vars
    <2> QED
      BY <2>1, <2>2, <2>3, <2>4, <2>6, <2>7 DEF Next, Main
  <1>3. driver = "append" => cur \in Pairs
    BY <1>1 DEF CurIsLive
  <1>4. ledger \in Seq(Row)
    BY <1>1 DEF TypeOK
  <1>5. Joined(ledger) \in Seq(Row) /\ Keeps(Joined(ledger))
        /\ Len(Joined(ledger)) = Len(ledger)
    BY <1>1, JoinedFacts DEF Keeps
  <1>6. cur \in Pairs => Appended(cur) \in Seq(Row)
    BY <1>1, AppendedFacts DEF Keeps
  <1> QED
    BY <1>2, <1>3, <1>4, <1>5, <1>6

LEMMA NextType ==
  ASSUME IInv, [Next]_vars
  PROVE  TypeOK'
  <1>1. TypeOK /\ ledger' \in Seq(Row)
    BY LedgerStep DEF IInv
  <1> USE <1>1, DriverAssumption DEF TypeOK, disk, pool, vars
  <1>2. CASE Start
    <2>1. done' \subseteq Pairs
      BY <1>2 DEF Start, LoadDone
    <2>2. session' \in 0..MaxSessions
      BY <1>2 DEF Start
    <2>3. /\ fut' \in [Pairs -> {"none", "queued", "running", "ok", "infra",
                                "lost", "recorded"}]
          /\ driver' \in {"wait", "over"}
      BY <1>2 DEF Start
    <2>4. /\ round' \subseteq Pairs /\ retried' = {} /\ broken' = FALSE
          /\ cur' = NoPair
          /\ UNCHANGED <<runs, tail, orphans>>
      BY <1>2 DEF Start
    <2> QED
      BY <2>1, <2>2, <2>3, <2>4
  <1>3. ASSUME NEW p \in Pairs, Take(p) \/ Finish(p) \/ WorkerDies(p)
        PROVE  TypeOK'
    BY <1>3 DEF Take, Finish, WorkerDies
  <1>4. ASSUME NEW p \in Pairs, Retry(p) \/ RetryRefused(p) \/ Collect(p)
        PROVE  TypeOK'
    BY <1>4 DEF Retry, RetryRefused, Collect
  <1>5. CASE SaveRun
    BY <1>5 DEF SaveRun, Saved
  <1>6. CASE AppendRow
    <2>1. cur \in Pairs
      BY <1>6 DEF AppendRow, CurIsLive, IInv
    <2> QED
      BY <1>6, <2>1 DEF AppendRow
  <1>7. CASE NextRound
    BY <1>7 DEF NextRound
  <1>8. ASSUME CutWrite
        PROVE  /\ runs' \in [Pairs -> {"none", "torn", "ok", "infra"}]
               /\ tail' \in {"eol", "noeol", "part"}
    BY <1>8 DEF CutWrite, CutAppend, Saved
  <1>9. CASE DiskFails
    BY <1>8, <1>9 DEF DiskFails
  <1>10. CASE Crash
    <2>1. /\ runs' \in [Pairs -> {"none", "torn", "ok", "infra"}]
          /\ tail' \in {"eol", "noeol", "part"}
      BY <1>8, <1>10 DEF Crash
    <2>2. orphans' \subseteq Pairs \X (0..MaxSessions)
      <3>1. orphans' = orphans \cup (Running \X {session}) \/ orphans' = {}
        BY <1>10 DEF Crash
      <3>2. Running \X {session} \subseteq Pairs \X (0..MaxSessions)
        <4>1. Running \subseteq Pairs /\ {session} \subseteq 0..MaxSessions
          BY DEF Running
        <4> QED
          BY <4>1, Zenon
      <3> QED
        BY <3>1, <3>2
    <2>3. /\ driver' = "down" /\ fut' = [p \in Pairs |-> "none"]
          /\ round' = {} /\ retried' = {} /\ done' = {}
          /\ broken' = FALSE /\ cur' = NoPair /\ session' = session
      BY <1>10 DEF Crash
    <2>4. fut' \in [Pairs -> {"none", "queued", "running", "ok", "infra",
                             "lost", "recorded"}]
      BY <2>3
    <2> QED
      BY <2>1, <2>2, <2>3, <2>4
  <1>11. CASE OrphanEnds
    BY <1>11 DEF OrphanEnds
  <1>12. CASE Quiet \/ UNCHANGED vars
    BY <1>12 DEF Quiet
  <1> HIDE DEF TypeOK, disk, pool, vars
  <1> QED
    BY <1>2, <1>3, <1>4, <1>5, <1>6, <1>7, <1>9, <1>10, <1>11, <1>12
       DEF Next, Main
-------------------------------------------------------------------------------
(* Credit: spoiling the last line takes some away, an append gives some to *)
(* the appended pair only, and no pair is credited twice.                  *)
LEMMA CreditShrinks ==
  ASSUME IInv, [Next]_vars, ledger' = ledger \/ (Keeps(ledger') /\ Len(ledger') = Len(ledger))
  PROVE  LoadDone(ledger') \subseteq LoadDone(ledger) /\ OneResultPerPair'
  <1>1. /\ ledger \in Seq(Row) /\ ledger' \in Seq(Row)
        /\ DOMAIN ledger = 1..Len(ledger) /\ DOMAIN ledger' = 1..Len(ledger')
    BY LedgerStep DEF IInv, TypeOK
  <1>2. CASE ledger' = ledger
    BY <1>2 DEF IInv, OneResultPerPair
  <1>3. CASE Keeps(ledger') /\ Len(ledger') = Len(ledger)
    <2>1. \A i \in DOMAIN ledger' :
            /\ i \in DOMAIN ledger
            /\ ledger'[i].pair = ledger[i].pair
            /\ ledger'[i].ok = ledger[i].ok
            /\ ledger'[i].readable => ledger[i].readable
      BY <1>1, <1>3 DEF Keeps
    <2>2. LoadDone(ledger') \subseteq LoadDone(ledger)
      BY <2>1 DEF LoadDone
    <2>3. OneResultPerPair'
      BY <2>1 DEF IInv, OneResultPerPair
    <2> QED
      BY <2>2, <2>3
  <1> QED
    BY <1>2, <1>3

LEMMA CreditGrows ==
  ASSUME IInv, [Next]_vars, driver = "append", cur \in Pairs, ledger' = Appended(cur)
  PROVE  /\ LoadDone(ledger') \subseteq
              LoadDone(ledger) \cup (IF fut[cur] = "ok" THEN {cur} ELSE {})
         /\ OneResultPerPair'
  <1>1. /\ ledger \in Seq(Row) /\ ledger' \in Seq(Row) /\ Len(ledger) \in Nat
        /\ DOMAIN ledger = 1..Len(ledger) /\ DOMAIN ledger' = 1..Len(ledger')
    BY LedgerStep DEF IInv, TypeOK
  <1>2. /\ Keeps(ledger')
        /\ Len(ledger') = Len(ledger) + 1
        /\ ledger'[Len(ledger) + 1].pair = cur
        /\ ledger'[Len(ledger) + 1].ok = (fut[cur] = "ok")
    BY AppendedFacts DEF IInv
  <1>3. \A i \in DOMAIN ledger' :
          \/ /\ i \in DOMAIN ledger
             /\ ledger'[i].pair = ledger[i].pair
             /\ ledger'[i].ok = ledger[i].ok
             /\ ledger'[i].readable => ledger[i].readable
          \/ /\ i = Len(ledger) + 1
             /\ ledger'[i].pair = cur
             /\ ledger'[i].ok = (fut[cur] = "ok")
    BY <1>1, <1>2 DEF Keeps
  <1>4. cur \notin LoadDone(ledger)
    BY DEF IInv, LiveUncredited, CurIsLive, InLoop, Live
  <1>5. LoadDone(ledger') \subseteq
          LoadDone(ledger) \cup (IF fut[cur] = "ok" THEN {cur} ELSE {})
    BY <1>3 DEF LoadDone
  <1>6. \A i \in DOMAIN ledger :
          ledger[i].ok /\ ledger[i].readable => ledger[i].pair # cur
    BY <1>4 DEF LoadDone
  <1>7. OneResultPerPair'
    <2> SUFFICES ASSUME NEW i \in DOMAIN ledger', NEW k \in DOMAIN ledger',
                        ledger'[i].pair = ledger'[k].pair,
                        ledger'[i].ok, ledger'[i].readable,
                        ledger'[k].ok, ledger'[k].readable
                 PROVE  i = k
      BY DEF OneResultPerPair
    <2>1. CASE i \in DOMAIN ledger /\ k \in DOMAIN ledger
      BY <1>1, <1>3, <2>1 DEF IInv, OneResultPerPair
    <2>2. CASE i \notin DOMAIN ledger \/ k \notin DOMAIN ledger
      BY <1>1, <1>3, <1>6, <2>2
    <2> QED
      BY <2>1, <2>2
  <1> QED
    BY <1>5, <1>7

(* No live pair has credit, whatever the step. *)
LEMMA LiveStep ==
  ASSUME IInv, [Next]_vars
  PROVE  LiveUncredited'
  <1>1. TypeOK /\ LiveUncredited /\ CurIsLive
    BY DEF IInv
  <1> SUFFICES ASSUME InLoop', NEW p \in Pairs, fut'[p] \in Live
               PROVE  p \notin LoadDone(ledger')
    BY DEF LiveUncredited, Live
  <1>2. CASE AppendRow
    <2>1. driver = "append" /\ cur \in Pairs /\ ledger' = Appended(cur)
      BY <1>1, <1>2 DEF AppendRow, CurIsLive
    <2>2. fut' = [fut EXCEPT ![cur] = "recorded"]
      BY <1>2 DEF AppendRow
    <2>3. p # cur /\ fut[p] \in Live
      BY <1>1, <2>1, <2>2 DEF TypeOK, Live
    <2>4. p \notin LoadDone(ledger)
      BY <1>1, <2>1, <2>3 DEF LiveUncredited, InLoop
    <2> QED
      BY <2>1, <2>3, <2>4, CreditGrows
  <1>3. CASE Start
    <2>1. p \notin LoadDone(ledger)
      BY <1>3 DEF Start, Live
    <2> QED
      BY <1>3, <2>1 DEF Start, disk
  <1>4. ASSUME ledger' = ledger, InLoop, fut[p] \in Live
        PROVE  p \notin LoadDone(ledger')
    BY <1>1, <1>4 DEF LiveUncredited
  <1>5. ASSUME NEW q \in Pairs, Take(q) \/ Finish(q) \/ WorkerDies(q)
        PROVE  p \notin LoadDone(ledger')
    <2>1. driver' = driver /\ ledger' = ledger
      BY <1>5 DEF Take, Finish, WorkerDies, disk
    <2>2. fut[p] \in Live
      BY <1>1, <1>5 DEF Take, Finish, WorkerDies, Live, Busy, TypeOK
    <2> QED
      BY <1>4, <2>1, <2>2 DEF InLoop
  <1>6. ASSUME NEW q \in Pairs, Retry(q) \/ RetryRefused(q) \/ Collect(q)
        PROVE  p \notin LoadDone(ledger')
    <2>1. driver = "wait" /\ ledger' = ledger
      BY <1>6 DEF Retry, RetryRefused, Collect, Finished, disk
    <2>2. fut[p] \in Live
      BY <1>1, <1>6 DEF Retry, RetryRefused, Collect, Finished, Live, TypeOK
    <2> QED
      BY <1>4, <2>1, <2>2 DEF InLoop
  <1>7. CASE SaveRun \/ NextRound \/ OrphanEnds \/ Quiet \/ UNCHANGED vars
    <2>1. InLoop /\ ledger' = ledger /\ fut' = fut
      BY <1>7 DEF SaveRun, NextRound, OrphanEnds, Quiet, InLoop, vars, pool, disk
    <2> QED
      BY <1>4, <2>1
  <1>8. CASE DiskFails \/ Crash
    BY <1>8 DEF DiskFails, Crash, InLoop
  <1> QED
    BY <1>2, <1>3, <1>5, <1>6, <1>7, <1>8 DEF Next, Main

(* The pair being recorded is finished and its run file comes first. *)
LEMMA CurStep ==
  ASSUME IInv, [Next]_vars
  PROVE  CurIsLive'
  <1>1. TypeOK /\ CurIsLive
    BY DEF IInv
  <1> USE DEF CurIsLive
  <1>2. CASE Start \/ AppendRow \/ NextRound \/ DiskFails \/ Crash
    BY <1>2 DEF Start, AppendRow, NextRound, DiskFails, Crash
  <1>3. ASSUME NEW p \in Pairs, Take(p) \/ Finish(p) \/ WorkerDies(p)
        PROVE  CurIsLive'
    <2>1. driver' = driver /\ cur' = cur /\ runs' = runs
      BY <1>3 DEF Take, Finish, WorkerDies, disk
    <2>2. cur \in Pairs /\ fut[cur] \in {"ok", "infra", "lost"} => fut'[cur] = fut[cur]
      BY <1>1, <1>3 DEF Take, Finish, WorkerDies, Busy, TypeOK
    <2> QED
      BY <1>1, <2>1, <2>2 DEF Saved
  <1>4. ASSUME NEW p \in Pairs, Retry(p) \/ RetryRefused(p)
        PROVE  CurIsLive'
    BY <1>4 DEF Retry, RetryRefused, Finished
  <1>5. ASSUME NEW p \in Pairs, Collect(p)
        PROVE  CurIsLive'
    BY <1>5 DEF Collect, Finished
  <1>6. CASE SaveRun
    BY <1>1, <1>6 DEF SaveRun, Saved, TypeOK, pool
  <1>7. CASE OrphanEnds \/ Quiet \/ UNCHANGED vars
    BY <1>1, <1>7 DEF OrphanEnds, Quiet, vars, pool, disk, Saved
  <1> HIDE DEF CurIsLive
  <1> QED
    BY <1>2, <1>3, <1>4, <1>5, <1>6, <1>7 DEF Next, Main
(* Every pair of a session is alive, recorded, or was done before. *)
LEMMA AccountedStep ==
  ASSUME IInv, [Next]_vars
  PROVE  Accounted'
  <1>1. TypeOK /\ CurIsLive /\ Accounted
    BY DEF IInv
  <1> DEFINE Left(p) == \/ fut[p] = "recorded" /\ runs[p] \in {"ok", "infra"}
                        \/ fut[p] = "none" /\ p \in done
  <1> SUFFICES ASSUME InLoop' \/ driver' = "over", NEW p \in Pairs
               PROVE  (InLoop' /\ fut'[p] \in Live) \/ Left(p)'
    BY DEF Accounted, Live
  <1>2. ASSUME InLoop \/ driver = "over"
        PROVE  (InLoop /\ fut[p] \in Live) \/ Left(p)
    BY <1>1, <1>2 DEF Accounted
  <1>3. CASE Start
    BY <1>3 DEF Start, InLoop, Live
  <1>4. ASSUME NEW q \in Pairs, Take(q) \/ Finish(q) \/ WorkerDies(q)
        PROVE  (InLoop' /\ fut'[p] \in Live) \/ Left(p)'
    <2>1. driver' = driver /\ runs' = runs /\ done' = done
      BY <1>4 DEF Take, Finish, WorkerDies, disk
    <2>2. fut'[p] = fut[p] \/ (fut[p] \in Live /\ fut'[p] \in Live)
      BY <1>1, <1>4 DEF Take, Finish, WorkerDies, Live, Busy, TypeOK
    <2> QED
      BY <1>2, <2>1, <2>2 DEF InLoop, Live
  <1>5. ASSUME NEW q \in Pairs, Retry(q) \/ RetryRefused(q) \/ Collect(q)
        PROVE  (InLoop' /\ fut'[p] \in Live) \/ Left(p)'
    <2>1. /\ driver = "wait" /\ runs' = runs /\ done' = done
          /\ driver' \in {"wait", "save"}
      BY <1>5 DEF Retry, RetryRefused, Collect, Finished, disk, InLoop
    <2>2. fut'[p] = fut[p] \/ fut'[p] \in Live
      BY <1>1, <1>5 DEF Retry, RetryRefused, Collect, Live, TypeOK
    <2> QED
      BY <1>2, <2>1, <2>2 DEF InLoop, Live
  <1>6. CASE SaveRun
    <2>1. cur \in Pairs /\ fut[cur] \in Live /\ driver = "save" /\ driver' = "append"
      BY <1>1, <1>6 DEF SaveRun, CurIsLive, Live
    <2>2. fut' = fut /\ done' = done /\ (p # cur => runs'[p] = runs[p])
      BY <1>1, <1>6, <2>1 DEF SaveRun, pool, TypeOK
    <2> QED
      BY <1>2, <2>1, <2>2 DEF InLoop, Live
  <1>7. CASE AppendRow
    <2>1. /\ cur \in Pairs /\ driver = "append" /\ driver' = "wait"
          /\ runs[cur] \in {"ok", "infra"} /\ runs' = runs
      BY <1>1, <1>7 DEF AppendRow, CurIsLive, Saved
    <2>2. /\ fut'[cur] = "recorded"
          /\ p # cur => fut'[p] = fut[p]
          /\ done \subseteq done'
      BY <1>1, <1>7, <2>1 DEF AppendRow, TypeOK
    <2> QED
      BY <1>2, <2>1, <2>2 DEF InLoop
  <1>8. CASE NextRound
    <2>1. /\ driver = "wait" /\ fut' = fut /\ runs' = runs /\ done' = done
          /\ driver' = "wait" \/ fut[p] \notin Live
      BY <1>8 DEF NextRound, pool, disk
    <2> QED
      BY <1>2, <2>1 DEF InLoop
  <1>9. CASE DiskFails \/ Crash
    BY <1>9 DEF DiskFails, Crash, InLoop
  <1>10. CASE OrphanEnds \/ Quiet \/ UNCHANGED vars
    <2>1. /\ driver' = driver /\ fut' = fut /\ runs' = runs /\ done' = done
      BY <1>10 DEF OrphanEnds, Quiet, vars, pool, disk
    <2> QED
      BY <1>2, <2>1 DEF InLoop
  <1> QED
    BY <1>3, <1>4, <1>5, <1>6, <1>7, <1>8, <1>9, <1>10 DEF Next, Main

(* What the ledger credits stays saved: only runs of uncredited pairs are  *)
(* written.                                                                *)
LEMMA SavedStep ==
  ASSUME IInv, [Next]_vars
  PROVE  CreditedRunIsSaved'
  <1>1. TypeOK /\ CurIsLive /\ LiveUncredited
        /\ \A p \in LoadDone(ledger) : runs[p] = "ok"
    BY DEF IInv, CreditedRunIsSaved, LoadDone
  <1>2. ledger' \in Seq(Row) /\ \A i \in DOMAIN ledger' : ledger'[i].pair \in Pairs
    <2>1. ledger' \in Seq(Row)
      BY LedgerStep
    <2>2. \A i \in DOMAIN ledger' : ledger'[i] \in Row
      BY <2>1
    <2> QED
      BY <2>1, <2>2 DEF Row
  <1> SUFFICES ASSUME NEW p \in LoadDone(ledger')
               PROVE  runs'[p] = "ok"
    BY <1>2 DEF CreditedRunIsSaved, LoadDone
  <1>3. p \in Pairs
    BY DEF LoadDone
  <1>4. CASE ledger' = ledger \/ (Keeps(ledger') /\ Len(ledger') = Len(ledger))
    <2>1. p \in LoadDone(ledger)
      BY <1>4, CreditShrinks
    <2>2. runs' = runs \/ (driver = "save" /\ \A q \in Pairs : q # cur => runs'[q] = runs[q])
      <3> USE DEF disk, pool, vars
      <3>1. CASE SaveRun
        BY <1>1, <3>1 DEF SaveRun, TypeOK
      <3>2. CASE DiskFails \/ Crash
        BY <1>1, <3>2 DEF DiskFails, Crash, CutWrite, TypeOK
      <3>3. CASE Start \/ AppendRow \/ NextRound \/ OrphanEnds \/ Quiet \/ UNCHANGED vars
        BY <3>3 DEF Start, AppendRow, NextRound, OrphanEnds, Quiet
      <3>4. ASSUME NEW q \in Pairs, Take(q) \/ Finish(q) \/ WorkerDies(q)
            PROVE  runs' = runs
        BY <3>4 DEF Take, Finish, WorkerDies
      <3>5. ASSUME NEW q \in Pairs, Retry(q) \/ RetryRefused(q) \/ Collect(q)
            PROVE  runs' = runs
        BY <3>5 DEF Retry, RetryRefused, Collect
      <3> HIDE DEF disk, pool, vars
      <3> QED
        BY <3>1, <3>2, <3>3, <3>4, <3>5 DEF Next, Main
    <2>3. driver = "save" => p # cur
      BY <1>1, <2>1 DEF CurIsLive, LiveUncredited, InLoop, Live
    <2> QED
      BY <1>1, <1>3, <2>1, <2>2, <2>3
  <1>5. CASE /\ driver = "append" /\ cur \in Pairs
             /\ ledger' = Appended(cur) /\ runs' = runs
    <2>1. runs[cur] = Saved(cur)
      BY <1>1, <1>5 DEF CurIsLive
    <2> QED
      BY <1>1, <1>5, <2>1, CreditGrows DEF Saved
  <1>6. ledger' = ledger \/ runs' = runs \/ driver = "save"
    <2> USE DEF disk, pool, vars
    <2>1. CASE SaveRun \/ AppendRow \/ NextRound \/ Start
      BY <2>1 DEF SaveRun, AppendRow, NextRound, Start
    <2>2. CASE DiskFails \/ Crash
      BY <2>2 DEF DiskFails, Crash, CutWrite
    <2>3. CASE OrphanEnds \/ Quiet \/ UNCHANGED vars
      BY <2>3 DEF OrphanEnds, Quiet
    <2>4. ASSUME NEW q \in Pairs, Take(q) \/ Finish(q) \/ WorkerDies(q)
          PROVE  runs' = runs
      BY <2>4 DEF Take, Finish, WorkerDies
    <2>5. ASSUME NEW q \in Pairs, Retry(q) \/ RetryRefused(q) \/ Collect(q)
          PROVE  runs' = runs
      BY <2>5 DEF Retry, RetryRefused, Collect
    <2> HIDE DEF disk, pool, vars
    <2> QED
      BY <2>1, <2>2, <2>3, <2>4, <2>5 DEF Next, Main
  <1> QED
    BY <1>4, <1>5, <1>6, LedgerStep

-------------------------------------------------------------------------------
LEMMA InitInv == Init => IInv
  <1> SUFFICES ASSUME Init PROVE IInv
    OBVIOUS
  <1>1. ledger = <<>> /\ DOMAIN ledger = {} /\ ledger \in Seq(Row)
    BY DEF Init
  <1>2. TypeOK
    <2>1. session \in 0..MaxSessions
      BY DriverAssumption DEF Init
    <2>2. /\ fut \in [Pairs -> {"none", "queued", "running", "ok", "infra",
                               "lost", "recorded"}]
          /\ runs \in [Pairs -> {"none", "torn", "ok", "infra"}]
      BY DEF Init
    <2> QED
      BY <1>1, <2>1, <2>2 DEF Init, TypeOK
  <1> QED
    BY <1>1, <1>2 DEF Init, IInv, LiveUncredited, CurIsLive, Accounted, InLoop,
                      OneResultPerPair, CreditedRunIsSaved

LEMMA NextInv ==
  ASSUME IInv, [Next]_vars
  PROVE  IInv'
  BY LedgerStep, NextType, LiveStep, CurStep, AccountedStep, SavedStep,
     CreditShrinks, CreditGrows DEF IInv

THEOREM DriverInvariant == Spec => []IInv
  BY InitInv, NextInv, PTL DEF Spec

(* The driver's state is well typed in every reachable state. *)
THEOREM DriverTypeCorrect == Spec => []TypeOK
  <1>1. IInv => TypeOK
    BY DEF IInv
  <1> QED
    BY <1>1, DriverInvariant, PTL

(* No pair is credited twice, over any number of crashes and resumes. *)
THEOREM CreditedOnce == Spec => []OneResultPerPair
  <1>1. IInv => OneResultPerPair
    BY DEF IInv
  <1> QED
    BY <1>1, DriverInvariant, PTL

(* What the ledger credits is backed by its run file. *)
THEOREM CreditedSaved == Spec => []CreditedRunIsSaved
  <1>1. IInv => CreditedRunIsSaved
    BY DEF IInv
  <1> QED
    BY <1>1, DriverInvariant, PTL

(* A driver that says BENCH_RUN_DONE has left no pair out. *)
THEOREM NoneForgotten == Spec => []NoPairForgotten
  <1>1. IInv => NoPairForgotten
    BY DEF IInv, Accounted, InLoop, NoPairForgotten
  <1> QED
    BY <1>1, DriverInvariant, PTL
===============================================================================
