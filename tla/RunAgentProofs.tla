----------------------------- MODULE RunAgentProofs -----------------------------
(***************************************************************************)
(* Theorems about RunAgent, for any set of solves and requests, whichever  *)
(* gateway and worktrees they use.                                         *)
(***************************************************************************)
EXTENDS RunAgent, SequenceTheorems, TLAPS

LEMMA AppendFacts ==
  ASSUME NEW S, NEW s \in Seq(S), NEW x
  PROVE  /\ Len(s) \in Nat
         /\ DOMAIN s = 1..Len(s)
         /\ DOMAIN Append(s, x) = 1..(Len(s) + 1)
         /\ Len(Append(s, x)) = Len(s) + 1
         /\ \A i \in 1..Len(s) : Append(s, x)[i] = s[i]
         /\ Append(s, x)[Len(s) + 1] = x
  OBVIOUS

-------------------------------------------------------------------------------
(* The inductive invariant. *)
IInv ==
  /\ TypeOK
  /\ OneSolveOfATag
  /\ ChargedBefore
  /\ RowChargedOnce
  /\ AgentInside
  /\ CallsAfterStart
  /\ SliceTaken

(* The gateway's part of a step: a row of the file of its own run id, at   *)
(* most.                                                                   *)
Metered(r, u) ==
  /\ phase[r] = "open" /\ phase'[r] = "metered"
  /\ log' = [log EXCEPT ![TagOf[r]] = Append(@, [req |-> r, usage |-> u])]

LEMMA GatewayStep ==
  ASSUME TypeOK, NEW r \in Reqs, Call(r) \/ Serve(r)
  PROVE  /\ log' = log \/ \E u \in Usages : Metered(r, u)
         /\ log' \in [Tags -> Seq(Row)]
         /\ phase' \in [Reqs -> {"new", "open", "metered", "closed"}]
         /\ phase'[r] # "new"
         /\ \A q \in Reqs : q # r => phase'[q] = phase[q]
         /\ phase[r] # "new" \/ claude[OwnerOf[r]]
         /\ UNCHANGED <<solve, claude, slipped, rows, seen, patch, tree>>
  <1> USE DEF TypeOK, MeterTypeOK
  <1>1. CASE Call(r)
    BY <1>1 DEF Call, Accept
  <1>2. CASE Serve(r)
    <2>1. CASE Close(r)
      BY <1>2, <2>1 DEF Serve, Close
    <2>2. ASSUME NEW u \in Usages, Meter(r, u)
          PROVE  Metered(r, u) /\ log' \in [Tags -> Seq(Row)]
      <3> DEFINE row == [req |-> r, usage |-> u]
      <3>1. TagOf[r] \in Tags /\ row \in Row
        BY MeterAssumption DEF Row
      <3>2. log' = [log EXCEPT ![TagOf[r]] = Append(@, row)]
        BY <2>2 DEF Meter
      <3> HIDE DEF row
      <3>3. log[TagOf[r]] \in Seq(Row)
        BY <3>1
      <3>4. Append(log[TagOf[r]], row) \in Seq(Row)
        BY <3>1, <3>3
      <3>5. log' \in [Tags -> Seq(Row)]
        BY <3>1, <3>2, <3>4
      <3> QED
        BY <2>2, <3>2, <3>5 DEF Meter, Metered, row
    <2> QED
      BY <1>2, <2>1, <2>2 DEF Serve, Meter
  <1> QED
    BY <1>1, <1>2

(* Files only grow, at their end. *)
LEMMA FilesGrow ==
  ASSUME TypeOK, [Next]_vars
  PROVE  /\ log' \in [Tags -> Seq(Row)]
         /\ \A t \in Tags :
              /\ Len(log[t]) \in Nat /\ Len(log'[t]) \in Nat
              /\ Len(log[t]) <= Len(log'[t])
              /\ DOMAIN log[t] = 1..Len(log[t])
              /\ DOMAIN log'[t] = 1..Len(log'[t])
              /\ \A i \in 1..Len(log[t]) : log'[t][i] = log[t][i]
  <1>1. \A t \in Tags : log[t] \in Seq(Row)
    BY DEF TypeOK, MeterTypeOK
  <1>2. CASE log' = log
    BY <1>1, <1>2 DEF TypeOK, MeterTypeOK
  <1>3. ASSUME NEW r \in Reqs, NEW u \in Usages, Metered(r, u),
               log' \in [Tags -> Seq(Row)], NEW t \in Tags
        PROVE  /\ Len(log[t]) \in Nat /\ Len(log'[t]) \in Nat
               /\ Len(log[t]) <= Len(log'[t])
               /\ DOMAIN log[t] = 1..Len(log[t])
               /\ DOMAIN log'[t] = 1..Len(log'[t])
               /\ \A i \in 1..Len(log[t]) : log'[t][i] = log[t][i]
    <2> DEFINE row == [req |-> r, usage |-> u]
    <2>1. log'[t] = log[t] \/ log'[t] = Append(log[t], row)
      BY <1>3 DEF Metered, TypeOK, MeterTypeOK
    <2> HIDE DEF row
    <2> QED
      BY <1>1, <2>1, AppendFacts
  <1>4. ASSUME NEW r \in Reqs, Call(r) \/ Serve(r)
        PROVE  /\ log' \in [Tags -> Seq(Row)]
               /\ log' = log \/ \E u \in Usages : Metered(r, u)
    BY <1>4, GatewayStep
  <1>5. ASSUME NEW a \in Solves, Solve(a) \/ Edit(a)
        PROVE  log' = log
    BY <1>5 DEF Solve, Edit, Begin, Clean, Launch, FetchFails, SdkReturns,
       SdkAborts, Salvage, Stop, Reap, Leave, Capture, Cleanup, ReadUsage, Grade
  <1>6. ASSUME Finished \/ UNCHANGED vars
        PROVE  log' = log
    BY <1>6 DEF Finished, vars
  <1> QED
    BY <1>2, <1>3, <1>4, <1>5, <1>6 DEF Next
(* A solve leaves the files and the other solves alone. *)
Same(b) == /\ at'[b] = at[b] /\ claude'[b] = claude[b] /\ start'[b] = start[b]
           /\ rows'[b] = rows[b] /\ seen'[b] = seen[b] /\ result'[b] = result[b]

LEMMA SolveStep ==
  ASSUME TypeOK, NEW a \in Solves, Solve(a) \/ Edit(a)
  PROVE  /\ log' = log /\ phase' = phase
         /\ \A b \in Solves : b # a => Same(b)
         /\ slipped \subseteq slipped'
  <1> USE DEF TypeOK, Goto, Same
  <1>1. CASE Begin(a)
    BY <1>1 DEF Begin
  <1>2. CASE Clean(a)
    BY <1>2 DEF Clean
  <1>3. CASE Launch(a)
    BY <1>3 DEF Launch
  <1>4. CASE FetchFails(a)
    BY <1>4 DEF FetchFails
  <1>5. CASE SdkReturns(a)
    BY <1>5 DEF SdkReturns
  <1>6. CASE SdkAborts(a)
    BY <1>6 DEF SdkAborts
  <1>7. CASE Salvage(a)
    BY <1>7 DEF Salvage
  <1>8. CASE Stop(a)
    BY <1>8 DEF Stop
  <1>9. CASE Reap(a)
    BY <1>9 DEF Reap, Leave
  <1>10. CASE Capture(a)
    BY <1>10 DEF Capture
  <1>11. CASE Cleanup(a)
    BY <1>11 DEF Cleanup
  <1>12. CASE ReadUsage(a)
    BY <1>12 DEF ReadUsage
  <1>13. CASE Grade(a)
    BY <1>13 DEF Grade
  <1>14. CASE Edit(a)
    BY <1>14 DEF Edit, solve
  <1> HIDE DEF TypeOK, Goto, Same
  <1> QED
    BY <1>1, <1>2, <1>3, <1>4, <1>5, <1>6, <1>7, <1>8, <1>9, <1>10, <1>11,
       <1>12, <1>13, <1>14 DEF Solve

LEMMA StutterStep ==
  ASSUME Finished \/ UNCHANGED vars
  PROVE  UNCHANGED <<phase, log, at, failed, start, result, claude, slipped, rows, seen, patch, tree>>
  BY DEF Finished, vars, solve

-------------------------------------------------------------------------------
(* The slice is one of positive line numbers. *)
LEMMA SliceType ==
  ASSUME TypeOK, NEW a \in Solves
  PROVE  /\ UsageFile(a) \in Seq(Row)
         /\ Len(UsageFile(a)) \in Nat
         /\ NewRows(a) \in SUBSET (Nat \ {0})
  <1>1. UsageFile(a) \in Seq(Row)
    BY SolveAssumption DEF TypeOK, MeterTypeOK, UsageFile
  <1>2. Len(UsageFile(a)) \in Nat /\ start[a] \in Nat
    BY <1>1 DEF TypeOK
  <1>3. NewRows(a) \in SUBSET (Nat \ {0})
    BY <1>2 DEF NewRows
  <1> QED
    BY <1>1, <1>2, <1>3

LEMMA NextType ==
  ASSUME TypeOK, [Next]_vars
  PROVE  TypeOK'
  <1> USE DEF TypeOK, Goto, Active
  <1>1. ASSUME NEW r \in Reqs, Call(r) \/ Serve(r)
        PROVE  TypeOK'
    BY <1>1, GatewayStep DEF MeterTypeOK, solve
  <1>2. ASSUME NEW a \in Solves, Solve(a) \/ Edit(a)
        PROVE  MeterTypeOK'
    <2>1. MeterTypeOK /\ log' = log /\ phase' = phase
      BY <1>2, SolveStep
    <2> QED
      BY <2>1 DEF MeterTypeOK
  <1>3. ASSUME NEW a \in Solves, Edit(a)
        PROVE  TypeOK'
    BY <1>2, <1>3 DEF Edit, solve
  <1>4. ASSUME NEW a \in Solves, Reset(a)
        PROVE  tree' \in [Trees -> SUBSET (Solves \cup {"stale"})]
    BY <1>4 DEF Reset
  <1>5. ASSUME NEW a \in Solves, Solve(a)
        PROVE  TypeOK'
    <2>0. MeterTypeOK'
      BY <1>2, <1>5
    <2>1. CASE Begin(a)
      BY <2>0, <2>1 DEF Begin
    <2>2. CASE Clean(a)
      BY <2>0, <2>2, <1>4 DEF Clean
    <2>3. CASE Launch(a)
      BY <2>0, <2>3, SliceType DEF Launch
    <2>4. CASE FetchFails(a)
      BY <2>0, <2>4 DEF FetchFails
    <2>5. CASE SdkReturns(a)
      BY <2>0, <2>5 DEF SdkReturns
    <2>6. CASE SdkAborts(a)
      BY <2>0, <2>6 DEF SdkAborts
    <2>7. CASE Salvage(a)
      BY <2>0, <2>7, SliceType DEF Salvage
    <2>8. CASE Stop(a)
      BY <2>0, <2>8 DEF Stop
    <2>9. CASE Reap(a)
      BY <2>0, <2>9 DEF Reap, Leave
    <2>10. CASE Capture(a)
      <3>1. PICK edits \in {tree[TreeOf[a]], {}} :
              patch' = [patch EXCEPT ![a] = edits]
        BY <2>10 DEF Capture
      <3>2. edits \in SUBSET (Solves \cup {"stale"})
        BY SolveAssumption
      <3>3. patch' \in [Solves -> SUBSET (Solves \cup {"stale"})]
        BY <3>1, <3>2
      <3> QED
        BY <2>0, <2>10, <3>3 DEF Capture
    <2>11. CASE Cleanup(a)
      BY <2>0, <2>11, <1>4 DEF Cleanup
    <2>12. CASE ReadUsage(a)
      BY <2>0, <2>12, SliceType DEF ReadUsage
    <2>13. CASE Grade(a)
      BY <2>0, <2>13 DEF Grade
    <2> HIDE DEF TypeOK, Goto, Active
    <2> QED
      BY <1>5, <2>1, <2>2, <2>3, <2>4, <2>5, <2>6, <2>7, <2>8, <2>9, <2>10,
         <2>11, <2>12, <2>13 DEF Solve
  <1>6. CASE Finished \/ UNCHANGED vars
    BY <1>6, StutterStep DEF MeterTypeOK
  <1> HIDE DEF TypeOK, Goto, Active
  <1> QED
    BY <1>1, <1>3, <1>5, <1>6 DEF Next

(* A pair is retried only after its last solve is over. *)
LEMMA TagStep ==
  ASSUME TypeOK, OneSolveOfATag, [Next]_vars
  PROVE  OneSolveOfATag'
  <1>1. ASSUME NEW a \in Solves, Solve(a)
        PROVE  OneSolveOfATag'
    <2>1. at[a] \in Active \/ Begin(a)
      BY <1>1 DEF Solve, Begin, Clean, Launch, FetchFails, SdkReturns, SdkAborts,
         Salvage, Stop, Reap, Leave, Capture, Cleanup, ReadUsage, Grade, Active
    <2>2. \A b \in Solves : b # a => at'[b] = at[b]
      BY <1>1, SolveStep DEF Same
    <2>3. \A b \in Solves : b # a /\ SolveTag[b] = SolveTag[a] => at[b] \in {"idle", "over"}
      <3>1. CASE Begin(a)
        BY <3>1 DEF Begin, MayBegin
      <3>2. CASE at[a] \in Active
        BY <3>2 DEF OneSolveOfATag
      <3> QED
        BY <2>1, <3>1, <3>2
    <2> QED
      BY <2>2, <2>3 DEF OneSolveOfATag, Active
  <1>2. ASSUME at' = at
        PROVE  OneSolveOfATag'
    BY <1>2 DEF OneSolveOfATag
  <1>3. ASSUME NEW a \in Solves, Edit(a)
        PROVE  at' = at
    BY <1>3 DEF Edit, solve
  <1>4. ASSUME NEW r \in Reqs, Call(r) \/ Serve(r)
        PROVE  at' = at
    BY <1>4, GatewayStep DEF solve
  <1>5. CASE Finished \/ UNCHANGED vars
    BY <1>2, <1>5, StutterStep
  <1> QED
    BY <1>1, <1>2, <1>3, <1>4, <1>5 DEF Next

(* Claude Code runs inside its solve only, unless it slipped the reaper. *)
LEMMA AgentStep ==
  ASSUME TypeOK, AgentInside, [Next]_vars
  PROVE  AgentInside'
  <1>1. ASSUME NEW a \in Solves, Solve(a)
        PROVE  claude'[a] =>
                 \/ at'[a] \in {"run", "salvage", "stop", "reap"}
                 \/ a \in slipped' /\ at'[a] \notin {"idle", "clean", "fetch"}
    <2> USE DEF TypeOK, AgentInside, Goto
    <2>1. CASE Begin(a) \/ Clean(a) \/ Launch(a) \/ FetchFails(a)
      BY <2>1 DEF Begin, Clean, Launch, FetchFails
    <2>2. CASE SdkReturns(a) \/ SdkAborts(a) \/ Salvage(a) \/ Stop(a)
      BY <2>2 DEF SdkReturns, SdkAborts, Salvage, Stop
    <2>3. CASE Reap(a)
      BY <2>3 DEF Reap, Leave
    <2>4. CASE Capture(a) \/ Cleanup(a)
      BY <2>4 DEF Capture, Cleanup
    <2>5. CASE ReadUsage(a)
      BY <2>5 DEF ReadUsage
    <2>6. CASE Grade(a)
      BY <2>6 DEF Grade
    <2> HIDE DEF TypeOK, AgentInside, Goto
    <2> QED
      BY <1>1, <2>1, <2>2, <2>3, <2>4, <2>5, <2>6 DEF Solve
  <1>2. ASSUME NEW a \in Solves, Solve(a)
        PROVE  AgentInside'
    BY <1>1, <1>2, SolveStep DEF AgentInside, Same
  <1>3. ASSUME at' = at, claude' = claude, slipped' = slipped
        PROVE  AgentInside'
    BY <1>3 DEF AgentInside
  <1>4. ASSUME NEW a \in Solves, Edit(a)
        PROVE  at' = at /\ claude' = claude /\ slipped' = slipped
    BY <1>4 DEF Edit, solve
  <1>5. ASSUME NEW r \in Reqs, Call(r) \/ Serve(r)
        PROVE  at' = at /\ claude' = claude /\ slipped' = slipped
    BY <1>5, GatewayStep DEF solve
  <1>6. CASE Finished \/ UNCHANGED vars
    BY <1>3, <1>6, StutterStep
  <1> QED
    BY <1>2, <1>3, <1>4, <1>5, <1>6 DEF Next
-------------------------------------------------------------------------------
(* How a solve's own slice can change. *)
LEMMA SliceStep ==
  ASSUME TypeOK, NEW a \in Solves, Solve(a)
  PROVE  /\ \/ rows'[a] = rows[a] \/ rows'[a] = {}
            \/ at[a] \in {"salvage", "read"} /\ rows'[a] = NewRows(a)
         /\ \/ start'[a] = start[a]
            \/ at[a] = "fetch" /\ start'[a] = Len(UsageFile(a))
         /\ at'[a] \in Launched => \/ at[a] \in Launched /\ start'[a] = start[a]
                                   \/ Launch(a)
  <1> USE DEF TypeOK, Goto, Launched, Active
  <1>1. CASE Begin(a) \/ Clean(a) \/ FetchFails(a)
    BY <1>1 DEF Begin, Clean, FetchFails
  <1>2. CASE Launch(a)
    BY <1>2 DEF Launch
  <1>3. CASE SdkReturns(a) \/ SdkAborts(a) \/ Stop(a) \/ Reap(a)
    BY <1>3 DEF SdkReturns, SdkAborts, Stop, Reap, Leave
  <1>4. CASE Salvage(a) \/ ReadUsage(a)
    BY <1>4 DEF Salvage, ReadUsage
  <1>5. CASE Capture(a) \/ Cleanup(a) \/ Grade(a)
    BY <1>5 DEF Capture, Cleanup, Grade
  <1> HIDE DEF TypeOK, Goto, Launched, Active
  <1> QED
    BY <1>1, <1>2, <1>3, <1>4, <1>5 DEF Solve

(* Slices of one file do not overlap: what is charged already lies before  *)
(* the start of the only solve that runs.                                  *)
LEMMA ChargedStep ==
  ASSUME IInv, [Next]_vars
  PROVE  ChargedBefore' /\ RowChargedOnce'
  <1>0. TypeOK /\ OneSolveOfATag /\ ChargedBefore /\ RowChargedOnce
    BY DEF IInv
  <1>1. \A a \in Solves : /\ Len(UsageFile(a)) \in Nat /\ Len(UsageFile(a)') \in Nat
                          /\ Len(UsageFile(a)) <= Len(UsageFile(a)')
                          /\ start[a] \in Nat
    <2>1. \A a \in Solves : SolveTag[a] \in Tags
      BY SolveAssumption
    <2> QED
      BY <1>0, <2>1, FilesGrow DEF UsageFile, TypeOK
  <1>2. \A a \in Solves : rows[a] \subseteq 1..Len(UsageFile(a)')
    BY <1>0, <1>1 DEF ChargedBefore
  <1>3. ASSUME NEW a \in Solves, Solve(a)
        PROVE  ChargedBefore' /\ RowChargedOnce'
    <2>1. /\ log' = log
          /\ \A b \in Solves : b # a => /\ at'[b] = at[b] /\ start'[b] = start[b]
                                        /\ rows'[b] = rows[b]
      BY <1>0, <1>3, SolveStep DEF Same
    <2>2. UsageFile(a)' = UsageFile(a) /\ \A b \in Solves : UsageFile(b)' = UsageFile(b)
      BY <2>1 DEF UsageFile
    <2>3. \A b \in Solves : SolveTag[b] = SolveTag[a] => UsageFile(b) = UsageFile(a)
      BY DEF UsageFile
    <2>4. rows'[a] \subseteq 1..Len(UsageFile(a))
      BY <1>0, <1>1, <1>3, SliceStep DEF ChargedBefore, NewRows
    <2>5. at[a] \in Active => \A b \in Solves :
            SolveTag[b] = SolveTag[a] /\ b # a => at[b] \notin Launched
      BY <1>0 DEF OneSolveOfATag, Launched, Active
    <2>6. at'[a] \in Launched => \A b \in Solves :
            SolveTag[b] = SolveTag[a] /\ b # a => rows[b] \subseteq 1..start'[a]
      <3>1. CASE at[a] \in Launched /\ start'[a] = start[a]
        BY <1>0, <3>1 DEF ChargedBefore
      <3>2. CASE Launch(a)
        <4>1. start'[a] = Len(UsageFile(a))
          BY <1>0, <3>2 DEF Launch, TypeOK
        <4> QED
          BY <1>0, <2>3, <4>1 DEF ChargedBefore
      <3> QED
        BY <1>0, <1>3, <3>1, <3>2, SliceStep
    <2>7. \A b \in Solves : SolveTag[b] = SolveTag[a] /\ b # a
            => rows'[a] \cap rows[b] = {}
      <3> SUFFICES ASSUME NEW b \in Solves, SolveTag[b] = SolveTag[a], b # a
                   PROVE  rows'[a] \cap rows[b] = {}
        OBVIOUS
      <3>1. CASE rows'[a] = rows[a] \/ rows'[a] = {}
        BY <1>0, <3>1 DEF RowChargedOnce
      <3>2. CASE at[a] \in {"salvage", "read"} /\ rows'[a] = NewRows(a)
        <4>1. rows[b] \subseteq 1..start[a]
          BY <1>0, <3>2 DEF ChargedBefore, Launched, Active
        <4> QED
          BY <1>1, <3>2, <4>1 DEF NewRows
      <3> QED
        BY <1>0, <1>3, <3>1, <3>2, SliceStep
    <2>8. \A b \in Solves : b # a /\ SolveTag[b] = SolveTag[a] /\ at[b] \in Launched
            => at[a] \notin Active /\ rows'[a] = rows[a]
      <3> SUFFICES ASSUME NEW b \in Solves, b # a, SolveTag[b] = SolveTag[a],
                          at[b] \in Launched
                   PROVE  at[a] \notin Active /\ rows'[a] = rows[a]
        OBVIOUS
      <3>1. at[a] \in {"idle", "over"}
        BY <1>0 DEF OneSolveOfATag, Launched, Active
      <3>2. Begin(a)
        BY <1>3, <3>1 DEF Solve, Clean, Launch, FetchFails, SdkReturns, SdkAborts,
           Salvage, Stop, Reap, Capture, Cleanup, ReadUsage, Grade
      <3> QED
        BY <3>1, <3>2 DEF Begin, Active
    <2>9. ChargedBefore'
      <3> SUFFICES ASSUME NEW b \in Solves
                   PROVE  /\ rows'[b] \subseteq 1..Len(UsageFile(b)')
                          /\ at'[b] \in Launched => \A c \in Solves :
                               SolveTag[b] = SolveTag[c] /\ b # c
                               => rows'[c] \subseteq 1..start'[b]
        BY DEF ChargedBefore, Launched, Active
      <3>1. rows'[b] \subseteq 1..Len(UsageFile(b)')
        BY <1>2, <2>1, <2>2, <2>4
      <3>2. ASSUME at'[b] \in Launched, NEW c \in Solves,
                   SolveTag[b] = SolveTag[c], b # c
            PROVE  rows'[c] \subseteq 1..start'[b]
        <4>1. CASE b = a
          BY <2>1, <2>6, <3>2, <4>1
        <4>2. CASE b # a
          <5>1. at[b] \in Launched /\ start'[b] = start[b] /\ rows[c] \subseteq 1..start[b]
            BY <1>0, <2>1, <3>2, <4>2 DEF ChargedBefore
          <5>2. rows'[c] = rows[c]
            BY <2>1, <2>8, <3>2, <4>2, <5>1
          <5> QED
            BY <5>1, <5>2
        <4> QED
          BY <4>1, <4>2
      <3> QED
        BY <3>1, <3>2
    <2>10. RowChargedOnce'
      <3> SUFFICES ASSUME NEW b \in Solves, NEW c \in Solves,
                          SolveTag[b] = SolveTag[c], rows'[b] \cap rows'[c] # {}
                   PROVE  b = c
        BY DEF RowChargedOnce
      <3>1. CASE b # a /\ c # a
        BY <1>0, <2>1, <3>1 DEF RowChargedOnce
      <3>2. CASE b = a \/ c = a
        BY <2>1, <2>7, <3>2
      <3> QED
        BY <3>1, <3>2
    <2> QED
      BY <2>9, <2>10
  <1>4. ASSUME at' = at, start' = start, rows' = rows
        PROVE  ChargedBefore' /\ RowChargedOnce'
    BY <1>0, <1>2, <1>4 DEF ChargedBefore, RowChargedOnce
  <1>5. ASSUME NEW a \in Solves, Edit(a)
        PROVE  at' = at /\ start' = start /\ rows' = rows
    BY <1>5 DEF Edit, solve
  <1>6. ASSUME NEW r \in Reqs, Call(r) \/ Serve(r)
        PROVE  at' = at /\ start' = start /\ rows' = rows
    BY <1>0, <1>6, GatewayStep DEF solve
  <1>7. CASE Finished \/ UNCHANGED vars
    BY <1>4, <1>7, StutterStep
  <1> QED
    BY <1>3, <1>4, <1>5, <1>6, <1>7 DEF Next
(* A solve's own rows come after its start. *)
LEMMA CallsStep ==
  ASSUME IInv, [Next]_vars
  PROVE  CallsAfterStart'
  <1>0. TypeOK /\ AgentInside /\ CallsAfterStart
    BY DEF IInv
  <1>1. /\ \A a \in Solves : SolveTag[a] \in Tags
        /\ \A r \in Reqs : OwnerOf[r] \in Solves /\ TagOf[r] = SolveTag[OwnerOf[r]]
                           /\ TagOf[r] \in Tags
    BY SolveAssumption, MeterAssumption
  <1>2. \A t \in Tags : \A i \in DOMAIN log[t] : log[t][i].req \in Reqs
    <2>1. \A t \in Tags : \A i \in DOMAIN log[t] : log[t][i] \in Row
      BY <1>0 DEF TypeOK, MeterTypeOK
    <2> QED
      BY <2>1 DEF Row
  <1>3. ASSUME NEW a \in Solves, Solve(a)
        PROVE  CallsAfterStart'
    <2>1. log' = log /\ phase' = phase
          /\ \A b \in Solves : b # a => at'[b] = at[b] /\ start'[b] = start[b]
      BY <1>0, <1>3, SolveStep DEF Same
    <2>2. at[a] \notin {"idle", "clean", "fetch"} =>
            at'[a] \notin {"idle", "clean", "fetch"} /\ start'[a] = start[a]
      BY <1>0, <1>3 DEF TypeOK, Goto, Solve, Begin, Clean, Launch, FetchFails,
         SdkReturns, SdkAborts, Salvage, Stop, Reap, Leave, Capture, Cleanup,
         ReadUsage, Grade
    <2>3. start'[a] = start[a] \/ start'[a] = Len(UsageFile(a))
      BY <1>0, <1>3, SliceStep
    <2>4. \A b \in Solves : Len(UsageFile(b)) \in Nat
      BY <1>0, <1>1 DEF TypeOK, MeterTypeOK, UsageFile
    <2>5. \A b \in Solves : start'[b] <= Len(UsageFile(b)')
      BY <1>0, <2>1, <2>3, <2>4 DEF CallsAfterStart, UsageFile
    <2>6. \A r \in Reqs : phase[r] # "new" =>
            /\ at'[OwnerOf[r]] \notin {"idle", "clean", "fetch"}
            /\ start'[OwnerOf[r]] = start[OwnerOf[r]]
      BY <1>0, <1>1, <2>1, <2>2 DEF CallsAfterStart
    <2>7. \A t \in Tags : \A i \in DOMAIN log[t] :
            LET r == log[t][i].req IN
              TagOf[r] = t /\ phase[r] # "new" /\ i > start'[OwnerOf[r]]
      BY <1>0, <1>2, <2>6 DEF CallsAfterStart
    <2> QED
      BY <2>1, <2>5, <2>6, <2>7 DEF CallsAfterStart
  <1>4. ASSUME NEW r \in Reqs, Call(r) \/ Serve(r)
        PROVE  CallsAfterStart'
    <2>1. /\ at' = at /\ start' = start
          /\ log' = log \/ \E u \in Usages : Metered(r, u)
          /\ phase'[r] # "new"
          /\ \A q \in Reqs : q # r => phase'[q] = phase[q]
          /\ phase[r] # "new" \/ claude[OwnerOf[r]]
      BY <1>0, <1>4, GatewayStep DEF solve
    <2>2. \A q \in Reqs : phase'[q] # "new" => at'[OwnerOf[q]] \notin {"idle", "clean", "fetch"}
      BY <1>0, <1>1, <2>1 DEF CallsAfterStart, AgentInside
    <2>3. \A a \in Solves : start'[a] <= Len(UsageFile(a)')
      <3>1. \A a \in Solves : /\ start'[a] \in Nat /\ start'[a] <= Len(UsageFile(a))
                              /\ Len(UsageFile(a)) \in Nat /\ Len(UsageFile(a)') \in Nat
                              /\ Len(UsageFile(a)) <= Len(UsageFile(a)')
        BY <1>0, <1>1, <2>1, FilesGrow DEF CallsAfterStart, UsageFile, TypeOK
      <3> QED
        BY <3>1
    <2>4. ASSUME NEW t \in Tags, NEW i \in DOMAIN log'[t]
          PROVE  LET q == log'[t][i].req IN
                   TagOf[q] = t /\ phase'[q] # "new" /\ i > start'[OwnerOf[q]]
      <3>1. CASE i \in DOMAIN log[t] /\ log'[t][i] = log[t][i]
        BY <1>0, <1>2, <2>1, <3>1 DEF CallsAfterStart
      <3>2. ASSUME NEW u \in Usages, Metered(r, u), i \notin DOMAIN log[t]
            PROVE  /\ log'[t][i].req = r /\ t = TagOf[r] /\ i = Len(log[t]) + 1
        <4> DEFINE row == [req |-> r, usage |-> u]
        <4>1. row.req = r
          OBVIOUS
        <4>2. log[t] \in Seq(Row)
          BY <1>0 DEF TypeOK, MeterTypeOK
        <4>3. log'[t] = IF t = TagOf[r] THEN Append(log[t], row) ELSE log[t]
          BY <1>0, <3>2 DEF Metered, TypeOK, MeterTypeOK
        <4> HIDE DEF row
        <4> QED
          BY <2>4, <3>2, <4>1, <4>2, <4>3, AppendFacts
      <3>3. i \in DOMAIN log[t] => log'[t][i] = log[t][i]
        BY <1>0, FilesGrow
      <3>4. i \notin DOMAIN log[t] => \E u \in Usages : Metered(r, u)
        BY <2>1
      <3>5. CASE i \notin DOMAIN log[t]
        <4>1. log'[t][i].req = r /\ t = TagOf[r] /\ i = Len(log[t]) + 1
          BY <3>2, <3>4, <3>5
        <4>2. start[OwnerOf[r]] <= Len(log[t]) /\ start[OwnerOf[r]] \in Nat
              /\ Len(log[t]) \in Nat
          BY <1>0, <1>1, <4>1, FilesGrow DEF CallsAfterStart, UsageFile, TypeOK
        <4> QED
          BY <2>1, <4>1, <4>2
      <3> QED
        BY <3>1, <3>3, <3>5
    <2> QED
      BY <2>2, <2>3, <2>4 DEF CallsAfterStart
  <1>5. ASSUME NEW a \in Solves, Edit(a)
        PROVE  UNCHANGED <<at, start, log, phase>>
    BY <1>5 DEF Edit, solve
  <1>6. ASSUME UNCHANGED <<at, start, log, phase>>
        PROVE  CallsAfterStart'
    BY <1>0, <1>6 DEF CallsAfterStart, UsageFile
  <1>7. CASE Finished \/ UNCHANGED vars
    BY <1>6, <1>7, StutterStep
  <1> QED
    BY <1>3, <1>4, <1>5, <1>6, <1>7 DEF Next

(* The slice of a priced solve runs from its start to what it has seen. *)
LEMMA TakenStep ==
  ASSUME TypeOK, SliceTaken, OneSolveOfATag, [Next]_vars
  PROVE  SliceTaken'
  <1>1. ASSUME NEW a \in Solves, Solve(a)
        PROVE  at'[a] = "grade" \/ result'[a] = "ok" =>
                 /\ rows'[a] = (start'[a] + 1)..seen'[a]
                 /\ at'[a] \in {"grade", "over"}
    <2> USE DEF TypeOK, SliceTaken, Goto
    <2>1. CASE Begin(a) \/ Clean(a) \/ Launch(a) \/ FetchFails(a)
      BY <2>1 DEF Begin, Clean, Launch, FetchFails
    <2>2. CASE SdkReturns(a) \/ SdkAborts(a) \/ Salvage(a) \/ Stop(a) \/ Reap(a)
      BY <2>2 DEF SdkReturns, SdkAborts, Salvage, Stop, Reap, Leave
    <2>3. CASE Capture(a) \/ Cleanup(a) \/ Grade(a)
      BY <2>3 DEF Capture, Cleanup, Grade
    <2>4. CASE ReadUsage(a)
      BY <2>4 DEF ReadUsage, NewRows
    <2> HIDE DEF TypeOK, SliceTaken, Goto
    <2> QED
      BY <1>1, <2>1, <2>2, <2>3, <2>4 DEF Solve
  <1>2. ASSUME NEW a \in Solves, Solve(a)
        PROVE  SliceTaken'
    BY <1>1, <1>2, SolveStep DEF SliceTaken, Same
  <1>3. ASSUME UNCHANGED <<at, start, rows, seen, result>>
        PROVE  SliceTaken'
    BY <1>3 DEF SliceTaken
  <1>4. ASSUME NEW a \in Solves, Edit(a)
        PROVE  UNCHANGED <<at, start, rows, seen, result>>
    BY <1>4 DEF Edit, solve
  <1>5. ASSUME NEW r \in Reqs, Call(r) \/ Serve(r)
        PROVE  UNCHANGED <<at, start, rows, seen, result>>
    BY <1>5, GatewayStep DEF solve
  <1>6. CASE Finished \/ UNCHANGED vars
    BY <1>3, <1>6, StutterStep
  <1> QED
    BY <1>2, <1>3, <1>4, <1>5, <1>6 DEF Next

-------------------------------------------------------------------------------
LEMMA InitInv == Init => IInv
  <1> SUFFICES ASSUME Init PROVE IInv
    OBVIOUS
  <1>1. log = [t \in Tags |-> <<>>] /\ \A t \in Tags : log[t] = <<>> /\ DOMAIN log[t] = {}
    BY DEF Init, MeterInit
  <1>2. MeterTypeOK
    BY <1>1 DEF Init, MeterInit, MeterTypeOK
  <1>3. TypeOK
    BY <1>2 DEF Init, TypeOK
  <1>4. CallsAfterStart
    <2>1. \A a \in Solves : start[a] = 0 /\ UsageFile(a) = <<>> /\ Len(UsageFile(a)) = 0
      BY <1>1, SolveAssumption DEF Init, UsageFile
    <2>2. \A r \in Reqs : phase[r] = "new"
      BY DEF Init, MeterInit
    <2> QED
      BY <1>1, <2>1, <2>2 DEF CallsAfterStart
  <1>5. ChargedBefore /\ RowChargedOnce /\ SliceTaken /\ AgentInside /\ OneSolveOfATag
    BY DEF Init, ChargedBefore, RowChargedOnce, SliceTaken, AgentInside,
           OneSolveOfATag, Launched, Active
  <1> QED
    BY <1>3, <1>4, <1>5 DEF IInv

LEMMA NextInv ==
  ASSUME IInv, [Next]_vars
  PROVE  IInv'
  BY NextType, TagStep, AgentStep, ChargedStep, CallsStep, TakenStep DEF IInv

THEOREM SolveInvariant == Spec => []IInv
  BY InitInv, NextInv, PTL DEF Spec

(* No two results of a pair carry the same usage row. *)
THEOREM ChargedOnce == Spec => []RowChargedOnce
  <1>1. IInv => RowChargedOnce
    BY DEF IInv
  <1> QED
    BY <1>1, SolveInvariant, PTL

(* A priced solve misses a row of its own only if the row came late. *)
THEOREM LatenessOnly == Spec => []MissedOnlyIfLate
  <1>1. IInv => MissedOnlyIfLate
    <2> SUFFICES ASSUME IInv, NEW a \in Solves, result[a] = "ok",
                        NEW i \in DOMAIN UsageFile(a),
                        OwnerOf[UsageFile(a)[i].req] = a
                 PROVE  i \in rows[a] \/ i > seen[a]
      BY DEF MissedOnlyIfLate
    <2>1. SolveTag[a] \in Tags
      BY SolveAssumption
    <2>2. i > start[a]
      BY <2>1 DEF IInv, CallsAfterStart, UsageFile
    <2>3. rows[a] = (start[a] + 1)..seen[a]
      BY DEF IInv, SliceTaken
    <2>4. i \in Nat /\ start[a] \in Nat /\ seen[a] \in Nat
      BY <2>1 DEF IInv, TypeOK, MeterTypeOK, UsageFile
    <2> QED
      BY <2>2, <2>3, <2>4
  <1> QED
    BY <1>1, SolveInvariant, PTL

(* The state of the solves is well typed in every reachable state. *)
THEOREM SolveTypeCorrect == Spec => []TypeOK
  <1>1. IInv => TypeOK
    BY DEF IInv
  <1> QED
    BY <1>1, SolveInvariant, PTL

(* When a solve is over its agent is gone, or has slipped the reaper. *)
THEOREM AgentGone == Spec => []NoAgentLeft
  <1>1. IInv => NoAgentLeft
    BY DEF IInv, AgentInside, NoAgentLeft
  <1> QED
    BY <1>1, SolveInvariant, PTL

-------------------------------------------------------------------------------
(* Arms run in worktrees of their own, or one solve of a tree at a time.   *)
TreesApart ==
  Serial \/ \A a, b \in Solves : TreeOf[a] = TreeOf[b] => SolveTag[a] = SolveTag[b]

(* The inductive invariant of the worktrees. *)
TreeInv ==
  /\ IInv
  /\ OneSolveOfATree
  /\ TreeIsOwn
  /\ PatchIsOwn

(* A solve of a tree begins when no other is under way in it. *)
LEMMA TreeTurn ==
  ASSUME TreesApart, TreeInv, [Next]_vars
  PROVE  OneSolveOfATree'
  <1>0. TypeOK /\ OneSolveOfATree
    BY DEF TreeInv, IInv
  <1>1. ASSUME NEW a \in Solves, Solve(a)
        PROVE  OneSolveOfATree'
    <2>1. at[a] \in Active \/ Begin(a)
      BY <1>1 DEF Solve, Begin, Clean, Launch, FetchFails, SdkReturns, SdkAborts,
         Salvage, Stop, Reap, Leave, Capture, Cleanup, ReadUsage, Grade, Active
    <2>2. \A b \in Solves : b # a => at'[b] = at[b]
      BY <1>0, <1>1, SolveStep DEF Same
    <2>3. \A b \in Solves : b # a /\ TreeOf[b] = TreeOf[a] => at[b] \in {"idle", "over"}
      <3>1. CASE Begin(a)
        BY <3>1 DEF Begin, MayBegin, TreesApart
      <3>2. CASE at[a] \in Active
        BY <1>0, <3>2 DEF OneSolveOfATree
      <3> QED
        BY <2>1, <3>1, <3>2
    <2> QED
      BY <1>0, <2>2, <2>3 DEF OneSolveOfATree, Active
  <1>2. ASSUME at' = at
        PROVE  OneSolveOfATree'
    BY <1>0, <1>2 DEF OneSolveOfATree
  <1>3. ASSUME NEW a \in Solves, Edit(a)
        PROVE  at' = at
    BY <1>3 DEF Edit, solve
  <1>4. ASSUME NEW r \in Reqs, Call(r) \/ Serve(r)
        PROVE  at' = at
    BY <1>0, <1>4, GatewayStep DEF solve
  <1>5. CASE Finished \/ UNCHANGED vars
    BY <1>2, <1>5, StutterStep
  <1> QED
    BY <1>1, <1>2, <1>3, <1>4, <1>5 DEF Next

(* What one solve does to the tree, and where it stands then. *)
LEMMA TreeChange ==
  ASSUME TypeOK, AgentInside, NEW a \in Solves, Solve(a) \/ Edit(a)
  PROVE  \/ /\ at[a] \in Active /\ Reset(a) /\ patch' = patch
            /\ at[a] = "clean" \/ at'[a] = "read"
         \/ /\ at[a] \in {"run", "salvage", "stop", "reap"} \/ a \in slipped
            /\ at' = at /\ patch' = patch
            /\ tree' = [tree EXCEPT ![TreeOf[a]] = @ \cup {a}]
         \/ /\ at[a] = "capture" /\ at'[a] = "cleanup" /\ tree' = tree
            /\ \E edits \in {tree[TreeOf[a]], {}} : patch' = [patch EXCEPT ![a] = edits]
         \/ /\ tree' = tree
            /\ patch' = patch \/ patch' = [patch EXCEPT ![a] = {}]
            /\ \/ at'[a] \notin {"fetch", "run", "salvage", "stop", "reap", "capture"}
               \/ at[a] \in {"fetch", "run", "salvage", "stop", "reap", "capture"}
  <1> USE DEF TypeOK, Goto, Active
  <1>1. CASE Clean(a) \/ Cleanup(a)
    BY <1>1 DEF Clean, Cleanup
  <1>2. CASE Edit(a)
    BY <1>2 DEF Edit, solve, AgentInside
  <1>3. CASE Capture(a)
    BY <1>3 DEF Capture
  <1>4. CASE Begin(a) \/ Launch(a) \/ FetchFails(a) \/ SdkReturns(a) \/ SdkAborts(a)
    BY <1>4 DEF Begin, Launch, FetchFails, SdkReturns, SdkAborts
  <1>5. CASE Salvage(a) \/ Stop(a) \/ Reap(a) \/ ReadUsage(a) \/ Grade(a)
    BY <1>5 DEF Salvage, Stop, Reap, Leave, ReadUsage, Grade
  <1> HIDE DEF TypeOK, Goto, Active
  <1> QED
    BY <1>1, <1>2, <1>3, <1>4, <1>5 DEF Solve

(* A step of one solve leaves the tree of another that is under way alone. *)
LEMMA TreeStep ==
  ASSUME TreesApart, TreeInv, [Next]_vars
  PROVE  TreeIsOwn' /\ PatchIsOwn'
  <1> DEFINE Mine == {"fetch", "run", "salvage", "stop", "reap", "capture"}
  <1>0. TypeOK /\ AgentInside /\ OneSolveOfATree /\ TreeIsOwn /\ PatchIsOwn
    BY DEF TreeInv, IInv
  <1>1. /\ tree \in [Trees -> SUBSET (Solves \cup {"stale"})]
        /\ patch \in [Solves -> SUBSET (Solves \cup {"stale"})]
        /\ TreeOf \in [Solves -> Trees]
    BY <1>0, SolveAssumption DEF TypeOK
  <1>2. ASSUME NEW a \in Solves, Solve(a) \/ Edit(a)
        PROVE  TreeIsOwn' /\ PatchIsOwn'
    <2>0. slipped \subseteq slipped'
      BY <1>0, <1>2, SolveStep
    <2>1. \A b \in Solves : b # a => at'[b] = at[b]
      BY <1>0, <1>2, SolveStep DEF Same
    <2>2. at[a] \in Active => \A b \in Solves : b # a /\ TreeOf[b] = TreeOf[a] => at[b] \notin Mine
      BY <1>0 DEF OneSolveOfATree
    <2>3. CASE /\ at[a] \in Active /\ Reset(a) /\ patch' = patch
               /\ at[a] = "clean" \/ at'[a] = "read"
      <3>1. tree'[TreeOf[a]] = {} \/ "stale" \in tree'[TreeOf[a]]
        BY <1>1, <2>3 DEF Reset
      <3>2. \A b \in Solves : TreeOf[b] # TreeOf[a] => tree'[TreeOf[b]] = tree[TreeOf[b]]
        BY <1>1, <2>3 DEF Reset
      <3> QED
        BY <1>0, <2>0, <2>1, <2>2, <2>3, <3>1, <3>2 DEF TreeIsOwn, PatchIsOwn
    <2>4. CASE /\ at[a] \in {"run", "salvage", "stop", "reap"} \/ a \in slipped
               /\ at' = at /\ patch' = patch
               /\ tree' = [tree EXCEPT ![TreeOf[a]] = @ \cup {a}]
      <3>1. /\ tree'[TreeOf[a]] = tree[TreeOf[a]] \cup {a}
            /\ \A b \in Solves : TreeOf[b] # TreeOf[a] => tree'[TreeOf[b]] = tree[TreeOf[b]]
        BY <1>1, <2>4
      <3>2. ASSUME NEW b \in Solves, at[b] \in Mine, TreeOf[b] = TreeOf[a]
            PROVE  a = b \/ a \in slipped
        BY <2>2, <2>4, <3>2 DEF Active
      <3>3. TreeIsOwn'
        BY <1>0, <2>0, <2>4, <3>1, <3>2 DEF TreeIsOwn
      <3> QED
        BY <1>0, <2>0, <2>4, <3>3 DEF PatchIsOwn
    <2>5. CASE /\ at[a] = "capture" /\ at'[a] = "cleanup" /\ tree' = tree
               /\ \E edits \in {tree[TreeOf[a]], {}} : patch' = [patch EXCEPT ![a] = edits]
      <3>1. /\ patch'[a] = tree[TreeOf[a]] \/ patch'[a] = {}
            /\ \A b \in Solves : b # a => patch'[b] = patch[b]
        BY <1>1, <2>5
      <3> QED
        BY <1>0, <2>0, <2>1, <2>5, <3>1 DEF TreeIsOwn, PatchIsOwn
    <2>6. CASE /\ tree' = tree
               /\ patch' = patch \/ patch' = [patch EXCEPT ![a] = {}]
               /\ \/ at'[a] \notin {"fetch", "run", "salvage", "stop", "reap", "capture"}
                  \/ at[a] \in {"fetch", "run", "salvage", "stop", "reap", "capture"}
      <3>1. \A b \in Solves : patch'[b] = patch[b] \/ patch'[b] = {}
        BY <1>1, <2>6
      <3> QED
        BY <1>0, <2>0, <2>1, <2>6, <3>1 DEF TreeIsOwn, PatchIsOwn
    <2> HIDE DEF Mine
    <2> QED
      BY ONLY <1>0, <1>2, <2>3, <2>4, <2>5, <2>6, TreeChange
  <1>3. ASSUME at' = at, tree' = tree, patch' = patch, slipped' = slipped
        PROVE  TreeIsOwn' /\ PatchIsOwn'
    BY <1>0, <1>3 DEF TreeIsOwn, PatchIsOwn
  <1>4. ASSUME NEW r \in Reqs, Call(r) \/ Serve(r)
        PROVE  /\ at' = at /\ tree' = tree /\ patch' = patch
               /\ slipped' = slipped
    BY <1>0, <1>4, GatewayStep DEF solve
  <1>5. CASE Finished \/ UNCHANGED vars
    BY <1>3, <1>5, StutterStep
  <1> QED
    BY <1>2, <1>3, <1>4, <1>5 DEF Next

(* A patch holds its own solve's edits only, and those of agents that the  *)
(* reaper did not get, unless git failed to reset the tree, however        *)
(* earlier solves of the tree ended.                                       *)
THEOREM PatchesAreOwn ==
  ASSUME TreesApart PROVE Spec => []PatchIsOwn
  <1>1. Init => TreeInv
    BY InitInv DEF Init, TreeInv, OneSolveOfATree, TreeIsOwn, PatchIsOwn, Active
  <1>2. TreeInv /\ [Next]_vars => TreeInv'
    BY NextInv, TreeTurn, TreeStep DEF TreeInv
  <1>3. TreeInv => PatchIsOwn
    BY DEF TreeInv
  <1> QED
    BY <1>1, <1>2, <1>3, PTL DEF Spec
===============================================================================
