------------------------- MODULE FermatSessionProofs -------------------------
(***************************************************************************)
(* Theorems about FermatSession, for any solves and gateways, and any      *)
(* number of agings and mishaps.                                           *)
(***************************************************************************)
EXTENDS FermatSession, TLAPS

Run == [rows : BOOLEAN, leaked : BOOLEAN, why : SUBSET Whys]

(* One holder at most, who is past the seat unless the check of the daemon *)
(* raised; without leave to run at once, nobody is past the seat but its   *)
(* holder.                                                                 *)
SeatHeld ==
  /\ \A s, t \in seat : s = t
  /\ SeatLostOnlyByCheck
  /\ ~wiring.allowed => \A s \in Solves : at[s] \in Seated => s \in seat

(* A token in somebody's hands on its way to the file is good, is not in   *)
(* the file yet, and nobody else has it.                                   *)
FreshInHand ==
  \A s \in Solves : at[s] = "persist" =>
    /\ hand[s] \in valid /\ hand[s] # disk.token
    /\ \A t \in Solves \ {s} : at[t] \in {"post", "persist"} => hand[t] # hand[s]

(* Tokens that were never given out are in nobody's hands. *)
KnownTokens == disk.token \in 0 .. minted /\ \A s \in Solves : hand[s] \in 0 .. minted

(* What a seated solve relies on, as long as nothing went wrong with it.   *)
DaemonIsOurs ==
  ~wiring.allowed => \A s \in Solves : run[s].why = {} =>
    /\ at[s] \in Checked => daemon \in {None, GatewayOf[s]} /\ s \notin wiring.unset
    /\ at[s] = "run" => facade[s] = GatewayOf[s]

(* The inductive invariant. *)
IInv ==
  /\ TypeOK
  /\ SeatHeld
  /\ KnownTokens
  /\ FreshInHand
  /\ RotationSurvives
  /\ DaemonIsOurs
  /\ BypassIsExplained

-------------------------------------------------------------------------------
(* The initial states. *)
LEMMA InitInv == Init => IInv
  <1> SUFFICES ASSUME Init PROVE IInv
    OBVIOUS
  <1>1. TypeOK
    <2>1. disk \in [token : Nat, age : {"fresh", "ageing", "expired"}]
      BY DEF Init
    <2>2. run \in [Solves -> Run]
      BY DEF Init, Run, NoRun
    <2>3. valid \subseteq 1 .. minted /\ minted \in Nat
      BY DEF Init
    <2>4. at \in [Solves -> Places] /\ phase \in [Solves -> {"gate", "start"}]
      BY DEF Init, Places
    <2>5. env \in [Solves -> Gateways \cup {Vendor}] /\ facade \in [Solves -> Gateways \cup {Vendor}]
          /\ daemon \in Gateways \cup {Vendor, None}
      BY DEF Init
    <2>6. hand \in [Solves -> Nat] /\ seat \subseteq Solves /\ raised \subseteq Solves
          /\ strays \subseteq Gateways \cup {Vendor} /\ broken \in BOOLEAN /\ wiring \in Wirings
      BY DEF Init
    <2>7. 0 \in 0 .. MaxAgings /\ 0 \in 0 .. MaxMishaps
      BY FermatAssumption
    <2>8. agings \in 0 .. MaxAgings /\ mishaps \in 0 .. MaxMishaps
      BY <2>7 DEF Init
    <2> QED
      BY <2>1, <2>2, <2>3, <2>4, <2>5, <2>6, <2>8 DEF TypeOK, Run
  <1>2. KnownTokens /\ FreshInHand /\ RotationSurvives
    BY DEF Init, KnownTokens, FreshInHand, RotationSurvives
  <1>3. SeatHeld /\ DaemonIsOurs /\ BypassIsExplained
    BY DEF Init, SeatHeld, SeatLostOnlyByCheck, DaemonIsOurs, BypassIsExplained, Seated, Checked, NoRun
  <1> QED
    BY <1>1, <1>2, <1>3 DEF IInv

-------------------------------------------------------------------------------
(* A mishap or none: the bounds are kept. *)
LEMMA BudgetKept ==
  ASSUME TypeOK, Mishap \/ UNCHANGED budget
  PROVE  agings' \in 0 .. MaxAgings /\ mishaps' \in 0 .. MaxMishaps
  <1>1. CASE UNCHANGED budget
    BY <1>1 DEF TypeOK, budget
  <1>2. CASE Mishap
    <2>1. mishaps \in 0 .. MaxMishaps /\ mishaps < MaxMishaps /\ mishaps' = mishaps + 1
      BY <1>2 DEF TypeOK, Mishap
    <2>2. mishaps' \in 0 .. MaxMishaps
      BY <2>1, FermatAssumption
    <2> QED
      BY <1>2, <2>2 DEF TypeOK, Mishap
  <1> QED
    BY <1>1, <1>2

(* What may be said of a run keeps its type. *)
LEMMA RunKept ==
  ASSUME NEW r \in Run
  PROVE  /\ [r EXCEPT !.rows = TRUE] \in Run /\ [r EXCEPT !.leaked = TRUE] \in Run
         /\ [r EXCEPT !.leaked = TRUE, !.why = @ \cup {"lapsed"}] \in Run
         /\ \A w \in Whys : [r EXCEPT !.why = @ \cup {w}] \in Run
  BY DEF Run, Whys

LEMMA BlameKept ==
  ASSUME TypeOK, NEW s \in Solves, NEW w \in Whys, Blame(s, w)
  PROVE  run' \in [Solves -> Run]
  <1>1. run \in [Solves -> Run] /\ run[s] \in Run
    BY DEF TypeOK, Run
  <1>2. [run[s] EXCEPT !.why = @ \cup {w}] \in Run
    BY <1>1, RunKept
  <1>3. run' = [run EXCEPT ![s] = [run[s] EXCEPT !.why = @ \cup {w}]]
    BY DEF Blame
  <1> QED
    BY <1>1, <1>2, <1>3

(* Types. *)
LEMMA TypeStep ==
  ASSUME TypeOK, Next
  PROVE  TypeOK'
  <1>0. agings \in 0 .. MaxAgings /\ mishaps \in 0 .. MaxMishaps
    BY DEF TypeOK
  <1> USE FermatAssumption DEF TypeOK, Places, InSession, Seated, Checked, Goto, Mishap, auth, budget, lock, proxy
  <1>1. ASSUME NEW s \in Solves, Gate(s) PROVE TypeOK'
    BY <1>1 DEF Gate
  <1>2. ASSUME NEW s \in Solves, Start(s) PROVE TypeOK'
    <2>0. Upstream(s) \in Gateways \cup {Vendor}
      BY DEF Gateways, Upstream
    <2>1. env' \in [Solves -> Gateways \cup {Vendor}]
      <3>1. CASE Refused
        BY <1>2, <3>1 DEF Start
      <3>2. CASE ~Refused
        <4>1. env' = [t \in Solves |-> IF t \in Processmates(s) THEN Upstream(s) ELSE env[t]]
          BY <1>2, <3>2 DEF Start
        <4>2. env \in [Solves -> Gateways \cup {Vendor}]
          OBVIOUS
        <4> HIDE DEF TypeOK
        <4> QED
          BY <4>1, <4>2, <2>0
      <3> QED
        BY <3>1, <3>2
    <2>2. at' \in [Solves -> Places] /\ phase' \in [Solves -> {"gate", "start"}]
      BY <1>2 DEF Start
    <2> QED
      BY <1>2, <2>1, <2>2 DEF Start
  <1>3. ASSUME NEW s \in Solves, Load(s) PROVE TypeOK'
    BY <1>3 DEF Load
  <1>4. ASSUME NEW s \in Solves, Post(s) PROVE TypeOK'
    <2>1. minted' \in Nat /\ valid' \subseteq 1 .. minted'
      <3>1. minted' = minted + 1 /\ valid' = (valid \ {hand[s]}) \cup {minted + 1}
        BY <1>4 DEF Post
      <3>2. minted + 1 \in Nat /\ 1 .. minted \subseteq 1 .. (minted + 1) /\ minted + 1 \in 1 .. (minted + 1)
        OBVIOUS
      <3>3. valid \subseteq 1 .. minted
        OBVIOUS
      <3> HIDE DEF TypeOK
      <3> QED
        BY <3>1, <3>2, <3>3
    <2>2. hand' \in [Solves -> Nat]
      BY <1>4, <2>1 DEF Post, Drop
    <2>5. at' \in [Solves -> Places]
      BY <1>4 DEF Post
    <2>3. broken' \in BOOLEAN
      BY <1>4 DEF Post
    <2>4. agings' \in 0 .. MaxAgings /\ mishaps' \in 0 .. MaxMishaps
      BY <1>4, BudgetKept DEF Post
    <2> QED
      BY <1>4, <2>1, <2>2, <2>3, <2>4, <2>5 DEF Post
  <1>5. ASSUME NEW s \in Solves, PostRefused(s) PROVE TypeOK'
    BY <1>5 DEF PostRefused, Drop
  <1>6. ASSUME NEW s \in Solves, Persist(s) PROVE TypeOK'
    <2>1. disk' \in [token : Nat, age : {"fresh", "ageing", "expired"}]
      BY <1>6 DEF Persist
    <2>2. hand' \in [Solves -> Nat] /\ at' \in [Solves -> Places]
      BY <1>6 DEF Persist, Drop
    <2>3. broken' \in BOOLEAN
      BY <1>6 DEF Persist
    <2>4. agings' \in 0 .. MaxAgings /\ mishaps' \in 0 .. MaxMishaps
      BY <1>6, BudgetKept DEF Persist
    <2> QED
      BY <1>6, <2>1, <2>2, <2>3, <2>4 DEF Persist
  <1>7. ASSUME NEW s \in Solves, Whoami(s) PROVE TypeOK'
    BY <1>7 DEF Whoami
  <1>8. ASSUME NEW s \in Solves, Sleep(s) PROVE TypeOK'
    BY <1>8 DEF Sleep
  <1>9. ASSUME NEW s \in Solves, AcquireSeat(s) PROVE TypeOK'
    <2>1. at' \in [Solves -> Places] /\ seat' \subseteq Solves
      BY <1>9 DEF AcquireSeat
    <2>2. UNCHANGED <<wiring, auth, budget, phase, hand, raised, proxy>>
      BY <1>9 DEF AcquireSeat
    <2> QED
      BY <2>1, <2>2
  <1>10. ASSUME NEW s \in Solves, CheckDaemon(s) PROVE TypeOK'
    <2>1. run' \in [Solves -> Run]
      <3>1. CASE UNCHANGED run
        BY <3>1 DEF Run
      <3>2. ASSUME NEW why \in {"noGateway", "unseen", "killFailed"}, Blame(s, why)
            PROVE  run' \in [Solves -> Run]
        BY <3>2, BlameKept DEF Whys
      <3> QED
        BY <1>10, <3>1, <3>2 DEF CheckDaemon
    <2>2. at' \in [Solves -> Places] /\ daemon' \in Gateways \cup {Vendor, None}
      BY <1>10 DEF CheckDaemon
    <2>3. agings' \in 0 .. MaxAgings /\ mishaps' \in 0 .. MaxMishaps
      BY <1>10, BudgetKept DEF CheckDaemon
    <2>4. raised' \subseteq Solves
      BY <1>10 DEF CheckDaemon
    <2> QED
      BY <1>10, <2>1, <2>2, <2>3, <2>4 DEF CheckDaemon, Run
  <1>11. ASSUME NEW s \in Solves, Probe(s) PROVE TypeOK'
    BY <1>11 DEF Probe
  <1>12. ASSUME NEW s \in Solves, Launch(s) PROVE TypeOK'
    <2>1. run' \in [Solves -> Run]
      <3>1. CASE UNCHANGED run
        BY <3>1 DEF Run
      <3>2. CASE Blame(s, "environment")
        BY <3>2, BlameKept DEF Whys
      <3> QED
        BY <1>12, <3>1, <3>2 DEF Launch
    <2>2. at' \in [Solves -> Places] /\ facade' \in [Solves -> Gateways \cup {Vendor}]
      BY <1>12 DEF Launch, FacadeEnv
    <2> QED
      BY <1>12, <2>1, <2>2 DEF Launch, Run
  <1>13. ASSUME NEW s \in Solves, ModelCall(s) PROVE TypeOK'
    <2>1. daemon' \in Gateways \cup {Vendor, None}
      BY <1>13 DEF ModelCall
    <2>2. run' \in [Solves -> Run]
      <3>1. run \in [Solves -> Run] /\ run[s] \in Run
        BY DEF Run
      <3>2. run' = [run EXCEPT ![s] = [run[s] EXCEPT !.rows = TRUE]]
            \/ run' = [run EXCEPT ![s] = [run[s] EXCEPT !.leaked = TRUE]]
            \/ run' = [run EXCEPT ![s] = [run[s] EXCEPT !.leaked = TRUE, !.why = @ \cup {"lapsed"}]]
        BY <1>13, Zenon DEF ModelCall
      <3>3. /\ [run[s] EXCEPT !.rows = TRUE] \in Run /\ [run[s] EXCEPT !.leaked = TRUE] \in Run
            /\ [run[s] EXCEPT !.leaked = TRUE, !.why = @ \cup {"lapsed"}] \in Run
        BY <3>1, RunKept
      <3> HIDE DEF TypeOK
      <3> QED
        BY <3>1, <3>2, <3>3
    <2> QED
      BY <1>13, <2>1, <2>2 DEF ModelCall, Run
  <1>14. ASSUME NEW s \in Solves, EndRun(s) PROVE TypeOK'
    <2>1. agings' \in 0 .. MaxAgings /\ mishaps' \in 0 .. MaxMishaps
      BY <1>14, BudgetKept DEF EndRun
    <2>2. strays' \subseteq Gateways \cup {Vendor}
      BY <1>14 DEF EndRun
    <2>3. at' \in [Solves -> Places] /\ facade' \in [Solves -> Gateways \cup {Vendor}]
      BY <1>14 DEF EndRun
    <2> QED
      BY <1>14, <2>1, <2>2, <2>3 DEF EndRun
  <1>15. ASSUME NEW s \in Solves, Crash(s) PROVE TypeOK'
    <2>1. strays' \subseteq Gateways \cup {Vendor}
      <3>1. PICK left \in SUBSET {t \in Processmates(s) : at[t] = "run"} :
              strays' = strays \cup {facade[t] : t \in left}
        BY <1>15 DEF Crash
      <3>2. \A t \in left : t \in Solves
        BY DEF Processmates
      <3> QED
        BY <3>1, <3>2
    <2>2. agings' \in 0 .. MaxAgings /\ mishaps' \in 0 .. MaxMishaps
      BY <1>15, BudgetKept DEF Crash
    <2>3. /\ run' \in [Solves -> Run] /\ at' \in [Solves -> Places]
          /\ facade' \in [Solves -> Gateways \cup {Vendor}]
          /\ env' \in [Solves -> Gateways \cup {Vendor}]
      BY <1>15 DEF Crash, NoRun, Run
    <2>4. /\ phase' \in [Solves -> {"gate", "start"}] /\ hand' \in [Solves -> Nat]
          /\ seat' \subseteq Solves /\ raised' \subseteq Solves /\ broken' \in BOOLEAN
      BY <1>15 DEF Crash
    <2> QED
      BY <1>15, <2>1, <2>2, <2>3, <2>4 DEF Crash, Run
  <1>16. CASE Login
    <2>1. minted' = minted + 1 /\ valid' = valid \cup {minted + 1}
      BY <1>16 DEF Login
    <2>2. 1 .. minted \subseteq 1 .. (minted + 1) /\ minted + 1 \in 1 .. (minted + 1)
      OBVIOUS
    <2>3. disk' \in [token : Nat, age : {"fresh", "ageing", "expired"}]
      BY <1>16, <2>1 DEF Login
    <2> QED
      BY <1>16, <2>1, <2>2, <2>3 DEF Login
  <1>17. CASE Age
    BY <1>17 DEF Age
  <1>18. CASE DaemonExits
    BY <1>18 DEF DaemonExits
  <1>19. CASE StrayCall
    <2>1. daemon' \in Gateways \cup {Vendor, None}
      BY <1>19 DEF StrayCall
    <2>2. run' \in [Solves -> Run]
      <3>1. \A s \in Solves : run[s] \in Run /\ [run[s] EXCEPT !.why = @ \cup {"survivor"}] \in Run
        BY RunKept DEF Run, Whys
      <3>2. run' = [s \in Solves |->
               IF at[s] \in Checked /\ daemon' # GatewayOf[s]
                 THEN [run[s] EXCEPT !.why = @ \cup {"survivor"}] ELSE run[s]]
        BY <1>19, Zenon DEF StrayCall
      <3> HIDE DEF TypeOK
      <3> QED
        BY <3>1, <3>2
    <2> QED
      BY <1>19, <2>1, <2>2 DEF StrayCall, Run
  <1> QED
    BY <1>1, <1>2, <1>3, <1>4, <1>5, <1>6, <1>7, <1>8, <1>9, <1>10, <1>11, <1>12, <1>13, <1>14,
       <1>15, <1>16, <1>17, <1>18, <1>19 DEF Next, Session
-------------------------------------------------------------------------------
(* One solve moves. *)
LEMMA Moved ==
  ASSUME TypeOK, NEW s \in Solves, NEW p, Goto(s, p)
  PROVE  at'[s] = p /\ \A t \in Solves \ {s} : at'[t] = at[t]
  BY DEF TypeOK, Goto

(* A step that moves nobody past the seat or back leaves it as it is.      *)
LEMMA SeatUntouched ==
  ASSUME SeatHeld, UNCHANGED wiring, UNCHANGED seat, UNCHANGED raised, TypeOK,
         \A t \in Solves : at'[t] \in Seated <=> at[t] \in Seated
  PROVE  SeatHeld'
  BY DEF SeatHeld, SeatLostOnlyByCheck, TypeOK

(* The session's steps, which nobody takes past the seat.                  *)
LEMMA SessionMoves ==
  ASSUME NEW s \in Solves, Session(s)
  PROVE  at[s] \in InSession /\ \E p \in InSession \cup {"ready", "seat"} : Goto(s, p)
  <1>1. CASE Load(s)
    BY <1>1 DEF Load, InSession
  <1>2. CASE Post(s)
    BY <1>2 DEF Post, InSession
  <1>3. CASE PostRefused(s)
    BY <1>3 DEF PostRefused, InSession
  <1>4. CASE Persist(s)
    BY <1>4 DEF Persist, InSession
  <1>5. CASE Whoami(s)
    BY <1>5 DEF Whoami, InSession
  <1>6. CASE Sleep(s)
    BY <1>6 DEF Sleep, InSession
  <1> QED
    BY <1>1, <1>2, <1>3, <1>4, <1>5, <1>6 DEF Session

LEMMA SessionFrame ==
  ASSUME NEW s \in Solves, Session(s)
  PROVE  UNCHANGED <<wiring, phase, seat, raised, env, facade, daemon, strays, run>>
  <1>1. CASE Load(s)
    BY <1>1 DEF Load, lock, proxy
  <1>2. CASE Post(s)
    BY <1>2 DEF Post, lock, proxy
  <1>3. CASE PostRefused(s)
    BY <1>3 DEF PostRefused, lock, proxy
  <1>4. CASE Persist(s)
    BY <1>4 DEF Persist, lock, proxy
  <1>5. CASE Whoami(s)
    BY <1>5 DEF Whoami, lock, proxy
  <1>6. CASE Sleep(s)
    BY <1>6 DEF Sleep, lock, proxy
  <1> QED
    BY <1>1, <1>2, <1>3, <1>4, <1>5, <1>6 DEF Session

(* The steps of a solve that is not past the seat, but for taking it.      *)
LEMMA EarlyMoves ==
  ASSUME TypeOK, NEW s \in Solves, Gate(s) \/ Start(s) \/ Session(s)
  PROVE  /\ at[s] \notin Seated /\ at'[s] \notin Seated
         /\ \A t \in Solves \ {s} : at'[t] = at[t]
         /\ UNCHANGED <<wiring, seat, raised, facade, daemon, run>>
  <1>1. CASE Gate(s)
    <2>1. at[s] = "gate" /\ (Goto(s, "failed") \/ Goto(s, "load"))
      BY <1>1 DEF Gate
    <2> QED
      BY <1>1, <2>1, Moved DEF Gate, lock, proxy, Seated, Checked
  <1>2. CASE Start(s)
    <2>1. at[s] = "ready" /\ (Goto(s, "failed") \/ Goto(s, "load"))
      BY <1>2 DEF Start
    <2> QED
      BY <1>2, <2>1, Moved DEF Start, lock, Seated, Checked
  <1>3. CASE Session(s)
    <2>1. at[s] \in InSession /\ \E p \in InSession \cup {"ready", "seat"} : Goto(s, p)
      BY <1>3, SessionMoves
    <2> QED
      BY <1>3, <2>1, SessionFrame, Moved DEF Seated, Checked, InSession
  <1> QED
    BY <1>1, <1>2, <1>3

(* The seat. *)
LEMMA SeatStep ==
  ASSUME TypeOK, SeatHeld, Next
  PROVE  SeatHeld'
  <1>1. ASSUME NEW s \in Solves, Gate(s) \/ Start(s) \/ Session(s) PROVE SeatHeld'
    BY <1>1, EarlyMoves, SeatUntouched
  <1>2. ASSUME NEW s \in Solves, AcquireSeat(s) PROVE SeatHeld'
    <2>1. at[s] \notin Seated /\ UNCHANGED <<wiring, raised>>
      BY <1>2 DEF AcquireSeat, Seated, Checked
    <2>2. CASE Goto(s, "daemon") /\ wiring.allowed /\ UNCHANGED seat
      <3>1. at'[s] = "daemon" /\ \A t \in Solves \ {s} : at'[t] = at[t]
        BY <2>2, Moved
      <3>2. seat \subseteq Solves
        BY DEF TypeOK
      <3>3. SeatLostOnlyByCheck'
        BY <2>1, <2>2, <3>1, <3>2 DEF SeatHeld, SeatLostOnlyByCheck, Seated, Checked
      <3>4. wiring'.allowed
        BY <2>1, <2>2
      <3> QED
        BY <2>1, <2>2, <3>3, <3>4 DEF SeatHeld
    <2>3. CASE Goto(s, "daemon") /\ ~wiring.allowed /\ SeatFree /\ seat' = seat \cup {s}
      <3>1. at'[s] = "daemon" /\ \A t \in Solves \ {s} : at'[t] = at[t]
        BY <2>3, Moved
      <3>2. seat' = {s}
        BY <2>3 DEF SeatFree
      <3> QED
        BY <2>1, <2>3, <3>1, <3>2 DEF SeatHeld, SeatLostOnlyByCheck, Seated, Checked, SeatFree
    <2>4. CASE Goto(s, "failed") /\ UNCHANGED seat
      <3>1. at'[s] = "failed" /\ \A t \in Solves \ {s} : at'[t] = at[t]
        BY <2>4, Moved
      <3> QED
        BY <2>1, <2>4, <3>1, SeatUntouched DEF Seated, Checked
    <2> QED
      BY <1>2, <2>2, <2>3, <2>4 DEF AcquireSeat
  <1>3. ASSUME NEW s \in Solves, Launch(s) \/ (CheckDaemon(s) /\ Goto(s, "probe")) PROVE SeatHeld'
    <2>1. /\ at[s] \in {"daemon", "launch"} /\ (Goto(s, "probe") \/ Goto(s, "run"))
          /\ UNCHANGED <<wiring, seat, raised>>
      <3>1. ~(Goto(s, "probe") /\ Goto(s, "failed"))
        BY Moved
      <3> QED
        BY <1>3, <3>1 DEF CheckDaemon, Launch, lock
    <2>2. at'[s] \in {"probe", "run"} /\ \A t \in Solves \ {s} : at'[t] = at[t]
      BY <2>1, Moved
    <2> QED
      BY <2>1, <2>2, SeatUntouched DEF Seated, Checked
  <1>4. ASSUME NEW s \in Solves, Probe(s) \/ EndRun(s) PROVE SeatHeld'
    <2>1. at[s] \in {"probe", "run"} /\ UNCHANGED <<wiring, raised>>
      BY <1>4 DEF Probe, EndRun
    <2>2. CASE Goto(s, "launch") /\ UNCHANGED seat
      <3>1. at'[s] = "launch" /\ \A t \in Solves \ {s} : at'[t] = at[t]
        BY <2>2, Moved
      <3> QED
        BY <2>1, <2>2, <3>1, SeatUntouched DEF Seated, Checked
    <2>3. CASE seat' = seat \ {s} /\ \E p \in {"failed", "accepted", "rejected"} : Goto(s, p)
      <3>1. at'[s] \in {"failed", "accepted", "rejected"} /\ \A t \in Solves \ {s} : at'[t] = at[t]
        BY <2>3, Moved
      <3> QED
        BY <2>1, <2>3, <3>1 DEF SeatHeld, SeatLostOnlyByCheck, Seated, Checked, TypeOK
    <2> QED
      BY <1>4, <2>2, <2>3 DEF Probe, EndRun
  <1>5. ASSUME NEW s \in Solves, ModelCall(s) PROVE SeatHeld'
    BY <1>5, SeatUntouched DEF ModelCall, lock
  <1>6. ASSUME NEW s \in Solves, Crash(s) PROVE SeatHeld'
    <2>1. /\ at' = [t \in Solves |-> IF t \in Processmates(s) THEN "gate" ELSE at[t]]
          /\ seat' = seat \ Processmates(s) /\ raised' = raised \ Processmates(s) /\ wiring' = wiring
      BY <1>6 DEF Crash
    <2> QED
      BY <2>1 DEF SeatHeld, SeatLostOnlyByCheck, Seated, Checked, TypeOK
  <1>7. CASE Login \/ Age \/ StrayCall \/ DaemonExits
    BY <1>7, SeatUntouched DEF Login, Age, StrayCall, DaemonExits, lock
  <1>8. ASSUME NEW s \in Solves, CheckDaemon(s), Goto(s, "failed") PROVE SeatHeld'
    <2>1. at'[s] = "failed" /\ \A t \in Solves \ {s} : at'[t] = at[t]
      BY <1>8, Moved
    <2>2. raised' = raised \cup {s} /\ UNCHANGED <<wiring, seat>>
      <3>1. ~Goto(s, "probe")
        BY <2>1, Moved
      <3> QED
        BY <1>8, <3>1 DEF CheckDaemon
    <2> QED
      BY <2>1, <2>2 DEF SeatHeld, SeatLostOnlyByCheck, TypeOK, Seated, Checked
  <1> QED
    BY <1>1, <1>2, <1>3, <1>4, <1>5, <1>6, <1>7, <1>8 DEF Next, CheckDaemon
-------------------------------------------------------------------------------
(* The tokens.  Rotation is the part of the invariant about them.          *)
Tokens == KnownTokens /\ FreshInHand /\ RotationSurvives

LEMMA TokensUntouched ==
  ASSUME Tokens, UNCHANGED <<disk, valid, minted, broken, hand>>, TypeOK,
         \A t \in Solves : (at'[t] = "persist" <=> at[t] = "persist")
                           /\ (at'[t] = "post" => at[t] = "post")
  PROVE  Tokens'
  <1>1. KnownTokens'
    BY DEF Tokens, KnownTokens
  <1>2. FreshInHand'
    BY DEF Tokens, FreshInHand
  <1>3. RotationSurvives'
    BY DEF Tokens, RotationSurvives
  <1> QED
    BY <1>1, <1>2, <1>3 DEF Tokens

LEMMA LoadKeepsTokens ==
  ASSUME TypeOK, Tokens, NEW s \in Solves, Load(s)
  PROVE  Tokens'
  <1>1. at[s] = "load" /\ UNCHANGED <<disk, valid, minted, broken>>
    BY DEF Load, auth
  <1>2. CASE Goto(s, "whoami") /\ UNCHANGED hand
    <2>1. at'[s] = "whoami" /\ \A t \in Solves \ {s} : at'[t] = at[t]
      BY <1>2, Moved
    <2> QED
      BY <1>1, <1>2, <2>1, TokensUntouched
  <1>3. CASE Goto(s, "post") /\ hand' = [hand EXCEPT ![s] = disk.token]
    <2>1. at'[s] = "post" /\ \A t \in Solves \ {s} : at'[t] = at[t]
      BY <1>3, Moved
    <2>2. hand'[s] = disk.token /\ \A t \in Solves \ {s} : hand'[t] = hand[t]
      BY <1>3 DEF TypeOK
    <2>3. KnownTokens'
      BY <1>1, <2>2 DEF Tokens, KnownTokens
    <2>4. FreshInHand'
      BY <1>1, <2>1, <2>2 DEF Tokens, FreshInHand
    <2>5. RotationSurvives'
      BY <1>1, <2>1, <2>2 DEF Tokens, RotationSurvives
    <2> QED
      BY <2>3, <2>4, <2>5 DEF Tokens
  <1> QED
    BY <1>2, <1>3 DEF Load

LEMMA PostKeepsTokens ==
  ASSUME TypeOK, Tokens, NEW s \in Solves, Post(s)
  PROVE  Tokens'
  <1>1. /\ at[s] = "post" /\ hand[s] \in valid /\ minted' = minted + 1
        /\ valid' = (valid \ {hand[s]}) \cup {minted + 1} /\ disk' = disk
    BY DEF Post
  <1>2. /\ minted \in Nat /\ minted + 1 \in Nat /\ valid \subseteq 1 .. minted
        /\ disk.token \in 0 .. minted /\ \A t \in Solves : hand[t] \in 0 .. minted
        /\ \A k \in 0 .. minted : k # minted + 1 /\ k \in 0 .. (minted + 1)
        /\ minted + 1 \in 0 .. (minted + 1)
    BY DEF TypeOK, Tokens, KnownTokens
  <1>3. CASE hand' = [hand EXCEPT ![s] = minted'] /\ Goto(s, "persist") /\ UNCHANGED broken
    <2>1. at'[s] = "persist" /\ \A t \in Solves \ {s} : at'[t] = at[t]
      BY <1>3, Moved
    <2>2. hand'[s] = minted + 1 /\ \A t \in Solves \ {s} : hand'[t] = hand[t]
      BY <1>1, <1>3 DEF TypeOK
    <2>3. KnownTokens'
      BY <1>1, <1>2, <2>2 DEF KnownTokens
    <2>4. FreshInHand'
      BY <1>1, <1>2, <2>1, <2>2 DEF Tokens, FreshInHand
    <2>5. RotationSurvives'
      BY <1>1, <2>1, <2>2 DEF RotationSurvives
    <2> QED
      BY <2>3, <2>4, <2>5 DEF Tokens
  <1>4. CASE Goto(s, "whoami") /\ broken' = TRUE /\ Drop(s)
    <2>1. at'[s] = "whoami" /\ \A t \in Solves \ {s} : at'[t] = at[t]
      BY <1>4, Moved
    <2>2. hand'[s] = 0 /\ \A t \in Solves \ {s} : hand'[t] = hand[t]
      BY <1>4 DEF Drop, TypeOK
    <2>3. KnownTokens'
      BY <1>1, <1>2, <2>2 DEF KnownTokens
    <2>4. FreshInHand'
      BY <1>1, <1>2, <2>1, <2>2 DEF Tokens, FreshInHand
    <2>5. RotationSurvives'
      BY <1>4 DEF RotationSurvives
    <2> QED
      BY <2>3, <2>4, <2>5 DEF Tokens
  <1> QED
    BY <1>3, <1>4 DEF Post

LEMMA PostRefusedKeepsTokens ==
  ASSUME TypeOK, Tokens, NEW s \in Solves, PostRefused(s)
  PROVE  Tokens'
  <1>1. at[s] = "post" /\ Goto(s, "whoami") /\ Drop(s) /\ UNCHANGED <<disk, valid, minted, broken>>
    BY DEF PostRefused, auth
  <1>2. at'[s] = "whoami" /\ \A t \in Solves \ {s} : at'[t] = at[t]
    BY <1>1, Moved
  <1>3. hand'[s] = 0 /\ \A t \in Solves \ {s} : hand'[t] = hand[t]
    BY <1>1 DEF Drop, TypeOK
  <1>4. KnownTokens'
    BY <1>1, <1>3 DEF KnownTokens, Tokens, TypeOK
  <1>5. FreshInHand'
    BY <1>1, <1>2, <1>3 DEF Tokens, FreshInHand
  <1>6. RotationSurvives'
    BY <1>1, <1>2, <1>3 DEF Tokens, RotationSurvives
  <1> QED
    BY <1>4, <1>5, <1>6 DEF Tokens

LEMMA PersistKeepsTokens ==
  ASSUME TypeOK, Tokens, NEW s \in Solves, Persist(s)
  PROVE  Tokens'
  <1>1. /\ at[s] = "persist" /\ Goto(s, "whoami") /\ Drop(s) /\ UNCHANGED <<valid, minted>>
        /\ (disk' = [token |-> hand[s], age |-> "fresh"] /\ broken' = broken)
           \/ (broken' = TRUE /\ disk' = disk)
    BY DEF Persist
  <1>2. at'[s] = "whoami" /\ \A t \in Solves \ {s} : at'[t] = at[t]
    BY <1>1, Moved
  <1>3. hand'[s] = 0 /\ \A t \in Solves \ {s} : hand'[t] = hand[t]
    BY <1>1 DEF Drop, TypeOK
  <1>4. hand[s] \in valid /\ disk'.token \in {hand[s], disk.token}
    BY <1>1 DEF Tokens, FreshInHand
  <1>5. KnownTokens'
    BY <1>1, <1>3, <1>4 DEF KnownTokens, Tokens, TypeOK
  <1>6. FreshInHand'
    BY <1>1, <1>2, <1>3, <1>4 DEF Tokens, FreshInHand
  <1>7. RotationSurvives'
    BY <1>1, <1>4 DEF RotationSurvives
  <1> QED
    BY <1>5, <1>6, <1>7 DEF Tokens

LEMMA LoginKeepsTokens ==
  ASSUME TypeOK, Tokens, Login
  PROVE  Tokens'
  <1>1. /\ minted' = minted + 1 /\ valid' = valid \cup {minted + 1} /\ disk'.token = minted + 1
        /\ UNCHANGED <<at, hand>>
    BY DEF Login
  <1>2. /\ minted \in Nat /\ \A t \in Solves : hand[t] \in 0 .. minted
        /\ \A k \in 0 .. minted : k # minted + 1 /\ k \in 0 .. (minted + 1)
        /\ minted + 1 \in 0 .. (minted + 1)
    BY DEF TypeOK, Tokens, KnownTokens
  <1>3. KnownTokens'
    BY <1>1, <1>2 DEF KnownTokens
  <1>4. FreshInHand'
    BY <1>1, <1>2 DEF Tokens, FreshInHand
  <1>5. RotationSurvives'
    BY <1>1 DEF RotationSurvives
  <1> QED
    BY <1>3, <1>4, <1>5 DEF Tokens

LEMMA CrashKeepsTokens ==
  ASSUME TypeOK, Tokens, NEW s \in Solves, Crash(s)
  PROVE  Tokens'
  <1> DEFINE dead == Processmates(s)
  <1>1. /\ broken' = (broken \/ \E t \in dead : at[t] = "persist")
        /\ at' = [t \in Solves |-> IF t \in dead THEN "gate" ELSE at[t]]
        /\ hand' = [t \in Solves |-> IF t \in dead THEN 0 ELSE hand[t]]
        /\ UNCHANGED <<disk, valid, minted>>
    BY DEF Crash
  <1>2. KnownTokens'
    BY <1>1 DEF KnownTokens, Tokens, TypeOK
  <1>3. FreshInHand'
    BY <1>1 DEF Tokens, FreshInHand
  <1>4. RotationSurvives'
    <2>1. SUFFICES ASSUME ~broken' PROVE disk.token \in valid \cup {0}
                          \/ \E t \in Solves : at'[t] = "persist" /\ hand'[t] \in valid
      BY <1>1 DEF RotationSurvives
    <2>2. ~broken /\ \A t \in dead : at[t] # "persist"
      BY <1>1, <2>1
    <2> QED
      BY <1>1, <2>2 DEF Tokens, RotationSurvives
  <1> QED
    BY <1>2, <1>3, <1>4 DEF Tokens

LEMMA TokenStep ==
  ASSUME TypeOK, Tokens, Next
  PROVE  Tokens'
  <1>1. ASSUME NEW s \in Solves, Gate(s) \/ Start(s) \/ Whoami(s) \/ Sleep(s) PROVE Tokens'
    <2>1. /\ at[s] \in {"gate", "ready", "whoami", "sleep"}
          /\ \E p \in {"failed", "load", "ready", "seat", "sleep"} : Goto(s, p)
          /\ UNCHANGED <<disk, valid, minted, broken, hand>>
      BY <1>1 DEF Gate, Start, Whoami, Sleep, auth
    <2>2. at'[s] \in {"failed", "load", "ready", "seat", "sleep"} /\ \A t \in Solves \ {s} : at'[t] = at[t]
      BY <2>1, Moved
    <2> QED
      BY <2>1, <2>2, TokensUntouched
  <1>2. ASSUME NEW s \in Solves,
               AcquireSeat(s) \/ CheckDaemon(s) \/ Probe(s) \/ Launch(s) \/ EndRun(s)
        PROVE Tokens'
    <2>1. /\ at[s] \in {"seat", "daemon", "probe", "launch", "run"}
          /\ \E p \in {"daemon", "failed", "probe", "launch", "run", "accepted", "rejected"} : Goto(s, p)
          /\ UNCHANGED <<disk, valid, minted, broken, hand>>
      BY <1>2 DEF AcquireSeat, CheckDaemon, Probe, Launch, EndRun, auth
    <2>2. /\ at'[s] \in {"daemon", "failed", "probe", "launch", "run", "accepted", "rejected"}
          /\ \A t \in Solves \ {s} : at'[t] = at[t]
      BY <2>1, Moved
    <2> QED
      BY <2>1, <2>2, TokensUntouched
  <1>3. ASSUME NEW s \in Solves, ModelCall(s) PROVE Tokens'
    BY <1>3, TokensUntouched DEF ModelCall, auth
  <1>4. CASE StrayCall \/ DaemonExits
    BY <1>4, TokensUntouched DEF StrayCall, DaemonExits, auth
  <1>5. CASE Age
    <2>1. disk'.token = disk.token /\ UNCHANGED <<valid, minted, broken, at, hand>>
      BY <1>5 DEF Age, TypeOK
    <2> QED
      BY <2>1 DEF Tokens, KnownTokens, FreshInHand, RotationSurvives
  <1> QED
    BY <1>1, <1>2, <1>3, <1>4, <1>5, LoadKeepsTokens, PostKeepsTokens, PostRefusedKeepsTokens,
       PersistKeepsTokens, LoginKeepsTokens, CrashKeepsTokens DEF Next, Session
-------------------------------------------------------------------------------
(* The proxy.                                                              *)
Proxied == DaemonIsOurs /\ BypassIsExplained

(* A step that leaves the proxy alone, and brings nobody to a place where  *)
(* something is asked of it.                                               *)
LEMMA ProxyUntouched ==
  ASSUME Proxied, UNCHANGED <<wiring, facade, daemon, run>>,
         \A t \in Solves : at'[t] \in Checked => at'[t] = at[t]
  PROVE  Proxied'
  <1>1. DaemonIsOurs'
    BY DEF Proxied, DaemonIsOurs, Checked
  <1>2. BypassIsExplained'
    BY DEF Proxied, BypassIsExplained
  <1> QED
    BY <1>1, <1>2 DEF Proxied

(* Nobody else is past the seat.                                           *)
LEMMA Alone ==
  ASSUME SeatHeld, NEW s \in Solves, at[s] \in Seated, ~wiring.allowed
  PROVE  \A t \in Solves \ {s} : at[t] \notin Seated
  BY DEF SeatHeld

LEMMA BlameSays ==
  ASSUME TypeOK, NEW s \in Solves, NEW w, Blame(s, w)
  PROVE  /\ run'[s].why # {} /\ run'[s].leaked = run[s].leaked
         /\ \A t \in Solves \ {s} : run'[t] = run[t]
  <1>1. run \in [Solves -> Run]
    BY DEF TypeOK, Run
  <1>2. run' = [run EXCEPT ![s] = [run[s] EXCEPT !.why = run[s].why \cup {w}]]
    BY DEF Blame
  <1>3. run'[s] = [run[s] EXCEPT !.why = run[s].why \cup {w}] /\ \A t \in Solves \ {s} : run'[t] = run[t]
    BY <1>1, <1>2
  <1>4. run[s] \in Run
    BY <1>1
  <1>5. run'[s].why = run[s].why \cup {w} /\ run'[s].leaked = run[s].leaked
    BY <1>3, <1>4 DEF Run
  <1> QED
    BY <1>3, <1>5

LEMMA CheckKeepsProxy ==
  ASSUME TypeOK, SeatHeld, Proxied, NEW s \in Solves, CheckDaemon(s)
  PROVE  Proxied'
  <1> USE DEF Checked
  <1>1. at[s] = "daemon" /\ UNCHANGED <<wiring, facade>>
    BY DEF CheckDaemon
  <1>2. CASE Goto(s, "failed") /\ UNCHANGED <<daemon, run>>
    <2>1. at'[s] = "failed" /\ \A t \in Solves \ {s} : at'[t] = at[t]
      BY <1>2, Moved
    <2> QED
      BY <1>1, <1>2, <2>1, ProxyUntouched
  <1>3. ASSUME Goto(s, "probe"),
               \/ run' = run /\ Upstream(s) # Vendor /\ daemon' \in {None, Upstream(s)}
               \/ \E why : Blame(s, why)
        PROVE  Proxied'
    <2>1. at'[s] = "probe" /\ \A t \in Solves \ {s} : at'[t] = at[t]
      BY <1>3, Moved
    <2>2. CASE wiring.allowed
      BY <1>1, <2>2 DEF Proxied, DaemonIsOurs, BypassIsExplained
    <2>3. CASE ~wiring.allowed
      <3>1. \A t \in Solves \ {s} : at'[t] \notin Seated
        BY <1>1, <2>1, <2>3, Alone DEF Seated
      <3>2. \/ run' = run /\ s \notin wiring.unset /\ daemon' \in {None, GatewayOf[s]}
            \/ run'[s].why # {} /\ run'[s].leaked = run[s].leaked /\ \A t \in Solves \ {s} : run'[t] = run[t]
        BY <1>3, BlameSays DEF Upstream
      <3>3. DaemonIsOurs'
        BY <1>1, <2>1, <3>1, <3>2 DEF DaemonIsOurs, Seated
      <3>4. BypassIsExplained'
        BY <1>1, <2>3, <3>2 DEF Proxied, BypassIsExplained
      <3> QED
        BY <3>3, <3>4 DEF Proxied
    <2> QED
      BY <2>2, <2>3
  <1> QED
    BY <1>2, <1>3 DEF CheckDaemon, Astray

LEMMA LaunchKeepsProxy ==
  ASSUME TypeOK, Proxied, NEW s \in Solves, Launch(s)
  PROVE  Proxied'
  <1>1. at[s] = "launch" /\ Goto(s, "run") /\ UNCHANGED <<wiring, daemon>>
    BY DEF Launch
  <1>2. at'[s] = "run" /\ \A t \in Solves \ {s} : at'[t] = at[t]
    BY <1>1, Moved
  <1>3. facade'[s] = env[s] /\ \A t \in Solves \ {s} : facade'[t] = facade[t]
    BY DEF Launch, FacadeEnv, TypeOK
  <1>4. \/ run' = run /\ env[s] = Upstream(s)
        \/ run'[s].why # {} /\ run'[s].leaked = run[s].leaked /\ \A t \in Solves \ {s} : run'[t] = run[t]
    BY BlameSays DEF Launch
  <1>5. DaemonIsOurs'
    BY <1>1, <1>2, <1>3, <1>4 DEF Proxied, DaemonIsOurs, Upstream, Checked
  <1>6. BypassIsExplained'
    BY <1>1, <1>4 DEF Proxied, BypassIsExplained
  <1> QED
    BY <1>5, <1>6 DEF Proxied

LEMMA CallKeepsProxy ==
  ASSUME TypeOK, SeatHeld, Proxied, NEW s \in Solves, ModelCall(s)
  PROVE  Proxied'
  <1>1. at[s] = "run" /\ UNCHANGED <<wiring, at, facade>>
    BY DEF ModelCall
  <1>2. run \in [Solves -> Run] /\ run[s] \in Run
    BY DEF TypeOK, Run
  <1>3. CASE wiring.allowed
    BY <1>1, <1>3 DEF Proxied, DaemonIsOurs, BypassIsExplained, Checked
  <1>4. CASE ~wiring.allowed /\ Entitled
    <2>1. daemon' = IF daemon = None THEN facade[s] ELSE daemon
      BY <1>4 DEF ModelCall
    <2>2. run' = IF daemon' = GatewayOf[s] THEN [run EXCEPT ![s] = [run[s] EXCEPT !.rows = TRUE]]
                 ELSE [run EXCEPT ![s] = [run[s] EXCEPT !.leaked = TRUE]]
      BY <1>4, Zenon DEF ModelCall
    <2>3. /\ run'[s].why = run[s].why /\ (daemon' = GatewayOf[s] => run'[s].leaked = run[s].leaked)
          /\ \A t \in Solves \ {s} : run'[t] = run[t]
      BY <1>2, <2>2 DEF Run
    <2>4. \A t \in Solves \ {s} : at'[t] \notin Seated
      BY <1>1, <1>4, Alone DEF Seated, Checked
    <2>5. run[s].why = {} => daemon' = GatewayOf[s]
      BY <1>1, <1>4, <2>1 DEF Proxied, DaemonIsOurs, Checked
    <2>6. DaemonIsOurs'
      BY <1>1, <1>4, <2>3, <2>4, <2>5 DEF Proxied, DaemonIsOurs, Seated, Checked
    <2>7. BypassIsExplained'
      BY <1>1, <1>4, <2>3, <2>5 DEF Proxied, BypassIsExplained
    <2> QED
      BY <2>6, <2>7 DEF Proxied
  <1>5. CASE ~wiring.allowed /\ ~Entitled
    <2>1. run' = [run EXCEPT ![s] = [run[s] EXCEPT !.leaked = TRUE, !.why = run[s].why \cup {"lapsed"}]]
      BY <1>5, Zenon DEF ModelCall
    <2>2. daemon' = daemon
      BY <1>5 DEF ModelCall
    <2>3. run'[s].why # {} /\ \A t \in Solves \ {s} : run'[t] = run[t]
      BY <1>2, <2>1 DEF Run
    <2>4. DaemonIsOurs'
      BY <1>1, <2>2, <2>3 DEF Proxied, DaemonIsOurs, Checked
    <2>5. BypassIsExplained'
      BY <1>1, <1>5, <2>3 DEF Proxied, BypassIsExplained
    <2> QED
      BY <2>4, <2>5 DEF Proxied
  <1> QED
    BY <1>3, <1>4, <1>5

LEMMA CrashKeepsProxy ==
  ASSUME TypeOK, Proxied, NEW s \in Solves, Crash(s)
  PROVE  Proxied'
  <1> DEFINE dead == Processmates(s)
  <1>1. /\ at' = [t \in Solves |-> IF t \in dead THEN "gate" ELSE at[t]]
        /\ facade' = [t \in Solves |-> IF t \in dead THEN Vendor ELSE facade[t]]
        /\ run' = [t \in Solves |-> IF t \in dead THEN NoRun ELSE run[t]]
        /\ UNCHANGED <<wiring, daemon>>
    BY DEF Crash
  <1> HIDE DEF dead
  <1>2. DaemonIsOurs'
    BY <1>1 DEF Proxied, DaemonIsOurs, Checked
  <1>3. BypassIsExplained'
    BY <1>1 DEF Proxied, BypassIsExplained, NoRun
  <1> QED
    BY <1>2, <1>3 DEF Proxied

LEMMA ProxyStep ==
  ASSUME TypeOK, SeatHeld, Proxied, Next
  PROVE  Proxied'
  <1>1. ASSUME NEW s \in Solves, Gate(s) \/ Start(s) \/ Session(s) PROVE Proxied'
    BY <1>1, EarlyMoves, ProxyUntouched DEF Seated, Checked
  <1>2. ASSUME NEW s \in Solves, AcquireSeat(s) PROVE Proxied'
    <2>1. (Goto(s, "daemon") \/ Goto(s, "failed")) /\ UNCHANGED <<wiring, facade, daemon, run>>
      BY <1>2 DEF AcquireSeat, proxy
    <2>2. at'[s] \in {"daemon", "failed"} /\ \A t \in Solves \ {s} : at'[t] = at[t]
      BY <2>1, Moved
    <2> QED
      BY <2>1, <2>2, ProxyUntouched DEF Checked
  <1>3. ASSUME NEW s \in Solves, Probe(s) PROVE Proxied'
    <2>1. /\ at[s] = "probe" /\ (Goto(s, "launch") \/ Goto(s, "failed"))
          /\ UNCHANGED <<wiring, facade, daemon, run>>
      BY <1>3 DEF Probe, proxy
    <2>2. at'[s] \in {"launch", "failed"} /\ \A t \in Solves \ {s} : at'[t] = at[t]
      BY <2>1, Moved
    <2> QED
      BY <2>1, <2>2 DEF Proxied, DaemonIsOurs, BypassIsExplained, Checked
  <1>4. ASSUME NEW s \in Solves, EndRun(s) PROVE Proxied'
    <2>1. /\ Goto(s, "accepted") \/ Goto(s, "rejected")
          /\ facade' = [facade EXCEPT ![s] = Vendor] /\ UNCHANGED <<wiring, daemon, run>>
      BY <1>4 DEF EndRun
    <2>2. at'[s] \in {"accepted", "rejected"} /\ \A t \in Solves \ {s} : at'[t] = at[t]
      BY <2>1, Moved
    <2>3. \A t \in Solves \ {s} : facade'[t] = facade[t]
      BY <2>1 DEF TypeOK
    <2> QED
      BY <2>1, <2>2, <2>3 DEF Proxied, DaemonIsOurs, BypassIsExplained, Checked
  <1>5. CASE Login \/ Age
    BY <1>5, ProxyUntouched DEF Login, Age, proxy, lock
  <1>6. CASE DaemonExits
    BY <1>6 DEF DaemonExits, Proxied, DaemonIsOurs, BypassIsExplained
  <1>7. CASE StrayCall
    <2>1. UNCHANGED <<wiring, at, facade>>
      BY <1>7 DEF StrayCall
    <2>2. run' = [s \in Solves |->
               IF at[s] \in Checked /\ daemon' # GatewayOf[s]
                 THEN [run[s] EXCEPT !.why = @ \cup {"survivor"}] ELSE run[s]]
      BY <1>7, Zenon DEF StrayCall
    <2>3. ASSUME NEW s \in Solves
          PROVE  /\ run'[s].leaked = run[s].leaked
                 /\ at[s] \in Checked /\ daemon' # GatewayOf[s] => run'[s].why # {}
                 /\ run'[s].why = run[s].why \/ run'[s].why # {}
      <3>1. run[s] \in Run
        BY DEF TypeOK, Run
      <3>2. CASE at[s] \in Checked /\ daemon' # GatewayOf[s]
        <4>1. run'[s] = [run[s] EXCEPT !.why = run[s].why \cup {"survivor"}]
          BY <2>2, <3>2, Zenon
        <4> QED
          BY <3>1, <4>1 DEF Run
      <3>3. CASE ~(at[s] \in Checked /\ daemon' # GatewayOf[s])
        BY <2>2, <3>3
      <3> QED
        BY <3>2, <3>3
    <2>4. DaemonIsOurs'
      BY <2>1, <2>3 DEF Proxied, DaemonIsOurs, Checked
    <2>5. BypassIsExplained'
      BY <2>1, <2>3 DEF Proxied, BypassIsExplained
    <2> QED
      BY <2>4, <2>5 DEF Proxied
  <1> QED
    BY <1>1, <1>2, <1>3, <1>4, <1>5, <1>6, <1>7, CheckKeepsProxy, LaunchKeepsProxy, CallKeepsProxy,
       CrashKeepsProxy DEF Next

-------------------------------------------------------------------------------
LEMMA NextInv == IInv /\ [Next]_vars => IInv'
  <1> SUFFICES ASSUME IInv, [Next]_vars PROVE IInv'
    OBVIOUS
  <1>1. TypeOK /\ SeatHeld /\ Tokens /\ Proxied
    BY DEF IInv, Tokens, Proxied
  <1>2. CASE Next
    <2>1. TypeOK' /\ SeatHeld' /\ Tokens' /\ Proxied'
      BY <1>1, <1>2, TypeStep, SeatStep, TokenStep, ProxyStep
    <2> QED
      BY <2>1 DEF IInv, Tokens, Proxied
  <1>3. CASE UNCHANGED vars
    BY <1>1, <1>3 DEF vars, auth, budget, lock, proxy, Checked, IInv, TypeOK, SeatHeld, SeatLostOnlyByCheck, KnownTokens,
       FreshInHand, RotationSurvives, DaemonIsOurs, BypassIsExplained, Entitled
  <1> QED
    BY <1>2, <1>3

LEMMA Invariant == Spec => []IInv
  BY InitInv, NextInv, PTL DEF Spec

(* Every reachable state is typed (TypeOK of the run fermat).              *)
THEOREM TypeCorrect == Spec => []TypeOK
  <1>1. IInv => TypeOK
    BY DEF IInv
  <1> QED
    BY <1>1, Invariant, PTL

(* One session seat: without leave to run at once, never two solves past   *)
(* it (fermat.py's lock, over every failure, pause and crash).             *)
THEOREM SeatIsExclusive == Spec => []OneSolveSeated
  <1>1. IInv => OneSolveSeated
    BY DEF IInv, SeatHeld, OneSolveSeated
  <1> QED
    BY <1>1, Invariant, PTL

(* Every way out of start_run and of a run gives the seat back, but for a  *)
(* check of the daemon that raises.                                        *)
THEOREM SeatIsReturned == Spec => []SeatLostOnlyByCheck
  <1>1. IInv => SeatLostOnlyByCheck
    BY DEF IInv, SeatHeld
  <1> QED
    BY <1>1, Invariant, PTL

(* The refresh tokens rotate safely under any number of solves that        *)
(* refresh at once: only a lost answer, write or process breaks the chain. *)
THEOREM ChainIsAlive == Spec => []RotationSurvives
  <1>1. IInv => RotationSurvives
    BY DEF IInv
  <1> QED
    BY <1>1, Invariant, PTL

(* A call that escapes the gateway of its solve has one of six causes: it was *)
(* given none, the check did not find or end the wrong daemon, a stray     *)
(* agent spawned it, the login lapsed, or a thread wrote its own gateway.  *)
THEOREM EscapesHaveACause == Spec => []BypassIsExplained
  <1>1. IInv => BypassIsExplained
    BY DEF IInv
  <1> QED
    BY <1>1, Invariant, PTL
===============================================================================
