-------------------------- MODULE UpstreamCallProofs --------------------------
(***************************************************************************)
(* Theorems about UpstreamCall, for any solves, calls and betas, and any   *)
(* number of attempts.                                                     *)
(***************************************************************************)
EXTENDS UpstreamCall, TLAPS

(* A gateway listens as long as its owner lets it: a solve's own while the *)
(* solve runs, the standalone one until it is interrupted.                 *)
Listening ==
  /\ wiring.shared /\ interrupts = 0 => Standalone \in up
  /\ ~wiring.shared => \A s \in Solves : solve[s] = "running" => s \in up

(* Nothing was said of a call that was not made.                           *)
NewIsUntold == \A c \in Calls : at[c] = "new" => told[c].refused = {} /\ told[c].heeded = {}

(* A call waits only while attempts are left.                              *)
WaitsForMore == \A c \in Calls : at[c] = "backoff" => attempt[c] < MaxRetries

(* The files hold the calls that were served, each where the gateway that  *)
(* served it files it.                                                     *)
FilesHoldTheServed ==
  \A d \in {"out", "served"}, n \in Names :
    files[d][n] = {c \in Calls : at[c] = "served" /\ WriteDir = d /\ RowName(c) = n}

(* The inductive invariant. *)
IInv ==
  /\ TypeOK
  /\ RefusalsAreFinal
  /\ ServedAsAsked
  /\ GivesUpForCause
  /\ Listening
  /\ OthersGoOn
  /\ NewIsUntold
  /\ WaitsForMore
  /\ FilesHoldTheServed

-------------------------------------------------------------------------------
(* What the answers to a call say. *)
LEMMA AnswerFacts ==
  ASSUME NEW kw \in Kwargs, NEW e \in Answers(kw)
  PROVE  /\ e \in Errors
         /\ e.names \subseteq kw.betas
  BY DEF Answers, Errors, Kwargs

(* The arguments a request is turned into. *)
LEMMA CreateKwargsFacts ==
  ASSUME TypeOK, NEW c \in Calls
  PROVE  /\ CreateKwargs(c) \in Kwargs
         /\ CreateKwargs(c).betas = Asked[c].betas \ Known
         /\ CreateKwargs(c).model # Asked[c].model =>
              /\ CreateKwargs(c).model = wiring.own
              /\ wiring.pin \/ Asked[c].model \notin Claude
    <1> wiring.own \in Claude
    BY CallAssumption DEF TypeOK
  <1> QED
    BY CallAssumption DEF CreateKwargs, Kwargs, FilterBetas

(* Every row has a file. *)
LEMMA RowFile ==
  ASSUME NEW c \in Calls
  PROVE  RowName(c) \in Names /\ WriteDir \in {"out", "served"}
  BY CallAssumption DEF RowName, Names, WriteDir

(* The initial states. *)
LEMMA InitInv == Init => IInv
  <1> SUFFICES ASSUME Init PROVE IInv
    OBVIOUS
  <1>1. TypeOK
    BY CallAssumption DEF Init, TypeOK, Gateways, Kwargs, Errors, NoError, Tries
  <1>2. Listening /\ FilesHoldTheServed
    BY DEF Init, Listening, FilesHoldTheServed
  <1> QED
    BY <1>1, <1>2 DEF Init, IInv, RefusalsAreFinal, ServedAsAsked, GivesUpForCause, OthersGoOn,
       Sending, NewIsUntold, WaitsForMore

-------------------------------------------------------------------------------
(* A step that leaves the calls alone, or takes some of them away. *)
LEMMA LifeStep ==
  ASSUME IInv, (\E s \in Solves : Resolve(s) \/ StopGateway(s) \/ KillAgent(s))
               \/ Interrupt \/ Launch
  PROVE  IInv'
  <1> USE CallAssumption DEF IInv, TypeOK
  <1>1. CASE Interrupt
    <2> USE <1>1 DEF Interrupt
    <2>1. TypeOK'
      BY DEF Gateways
    <2>2. \A c \in Calls : \/ at'[c] = at[c] /\ at'[c] \notin {"create", "backoff", "stream"}
                           \/ at'[c] = "lost" /\ at[c] # "served"
      OBVIOUS
    <2>3. RefusalsAreFinal' /\ ServedAsAsked' /\ GivesUpForCause' /\ NewIsUntold' /\ WaitsForMore'
      BY <2>2 DEF RefusalsAreFinal, ServedAsAsked, GivesUpForCause, Sending, NewIsUntold, WaitsForMore
    <2>4. Listening' /\ OthersGoOn'
      BY DEF Listening, OthersGoOn
    <2>5. FilesHoldTheServed'
      BY <2>2 DEF FilesHoldTheServed, WriteDir, RowName
    <2> QED
      BY <2>1, <2>3, <2>4, <2>5
  <1>2. ASSUME UNCHANGED <<wiring, call, files>> 
        PROVE  /\ RefusalsAreFinal' /\ ServedAsAsked' /\ GivesUpForCause'
               /\ NewIsUntold' /\ WaitsForMore' /\ FilesHoldTheServed'
    BY <1>2 DEF call, RefusalsAreFinal, ServedAsAsked, GivesUpForCause, Sending,
                NewIsUntold, WaitsForMore, FilesHoldTheServed, WriteDir, RowName
  <1>3. CASE Launch
    <2> USE <1>3 DEF Launch, call
    <2>1. TypeOK'
      BY DEF Gateways
    <2> QED
      BY <1>2, <2>1 DEF Listening, OthersGoOn
  <1>4. ASSUME NEW s \in Solves, Resolve(s) PROVE IInv'
    <2> USE <1>4 DEF Resolve, call
    <2>1. TypeOK'
      BY DEF Gateways
    <2>2. Listening' /\ OthersGoOn'
      BY DEF Listening, OthersGoOn
    <2> QED
      BY <1>2, <2>1, <2>2
  <1>5. ASSUME NEW s \in Solves, StopGateway(s) PROVE IInv'
    <2> USE <1>5 DEF StopGateway, call
    <2>1. TypeOK'
      BY DEF Gateways
    <2>2. Listening' /\ OthersGoOn'
      BY DEF Listening, OthersGoOn
    <2> QED
      BY <1>2, <2>1, <2>2
  <1>6. ASSUME NEW s \in Solves, KillAgent(s) PROVE IInv'
    <2> USE <1>6 DEF KillAgent, call
    <2>1. TypeOK'
      BY DEF Gateways
    <2>2. Listening' /\ OthersGoOn'
      BY DEF Listening, OthersGoOn
    <2> QED
      BY <1>2, <2>1, <2>2
  <1> QED
    BY <1>1, <1>3, <1>4, <1>5, <1>6

(* A request is accepted, or finds no gateway. *)
LEMMA RequestStep ==
  ASSUME IInv, NEW c \in Calls, Request(c)
  PROVE  IInv'
  <1> USE CallAssumption DEF IInv, TypeOK, Request, Goto, life
  <1>1. TypeOK'
    <2>1. CreateKwargs(c) \in Kwargs
      BY CreateKwargsFacts
    <2>2. kwargs' \in [Calls -> Kwargs]
      BY <2>1
    <2> QED
      BY <2>2
  <1>2. /\ \/ at'[c] = "create" /\ kwargs'[c] = CreateKwargs(c)
           \/ at'[c] = "unreachable"
        /\ \A b \in Calls \ {c} : at'[b] = at[b] /\ kwargs'[b] = kwargs[b]
        /\ at[c] = "new" /\ UNCHANGED <<wiring, tries, attempt, lastErr, told>>
    OBVIOUS
  <1>3. RefusalsAreFinal' /\ ServedAsAsked'
    <2>1. told[c].refused = {} /\ told[c].heeded = {}
      BY DEF NewIsUntold
    <2>2. \A b \in Calls : b = c \/ b \in Calls \ {c}
      OBVIOUS
    <2>3. RefusalsAreFinal'
      BY <1>2, <2>1, <2>2, CreateKwargsFacts DEF RefusalsAreFinal, Sending
    <2>4. ServedAsAsked'
      BY <1>2, <2>1, <2>2, CreateKwargsFacts DEF ServedAsAsked, Sending
    <2> QED
      BY <2>3, <2>4
  <1>4. GivesUpForCause' /\ NewIsUntold' /\ WaitsForMore' /\ Listening'
    <2>1. \A b \in Calls : at'[b] \in {"failed", "new", "backoff"} =>
            b # c /\ at'[b] = at[b] /\ kwargs'[b] = kwargs[b]
      BY <1>2
    <2>2. GivesUpForCause'
      BY ONLY <1>2, <2>1, GivesUpForCause DEF GivesUpForCause
    <2>3. NewIsUntold' /\ WaitsForMore'
      BY ONLY <1>2, <2>1, NewIsUntold, WaitsForMore DEF NewIsUntold, WaitsForMore
    <2>4. Listening'
      BY DEF Listening
    <2> QED
      BY <2>2, <2>3, <2>4
  <1>5. OthersGoOn'
    BY DEF OthersGoOn, Listening, GatewayOf
  <1>6. FilesHoldTheServed'
    <2>1. \A b \in Calls : at'[b] = "served" <=> at[b] = "served"
      OBVIOUS
    <2> QED
      BY <2>1 DEF FilesHoldTheServed, WriteDir, RowName
  <1> QED
    BY <1>1, <1>3, <1>4, <1>5, <1>6

-------------------------------------------------------------------------------
(* The last attempt. *)
LEMMA AllAttempts ==
  ASSUME NEW m \in Nat, NEW n \in 0 .. m, ~(n < m)
  PROVE  n = m
  OBVIOUS

(* The turns are bounded. *)
LEMMA OneMoreTurn ==
  ASSUME NEW turns \in [Calls -> 0 .. 3], NEW c \in Calls, turns[c] < 3
  PROVE  [turns EXCEPT ![c] = @ + 1] \in [Calls -> 0 .. 3]
  OBVIOUS

(* What an error does to the call it meets: its arguments are changed and  *)
(* it is tried again, or it waits, or it fails for a cause.                *)
LEMMA HandleFacts ==
  ASSUME TypeOK, NEW c \in Calls, NEW e \in Answers(kwargs[c]), at[c] = "create", Handle(c, e)
  PROVE  /\ \A b \in Calls \ {c} : /\ at'[b] = at[b] /\ kwargs'[b] = kwargs[b]
                                   /\ tries'[b] = tries[b] /\ lastErr'[b] = lastErr[b]
         /\ at' \in [Calls -> {"new", "create", "backoff", "stream", "served", "failed",
                              "unreachable", "lost"}]
         /\ kwargs' \in [Calls -> Kwargs] /\ tries' \in [Calls -> 0 .. Tries]
         /\ lastErr' \in [Calls -> Errors]
         /\ at'[c] \in {"create", "backoff", "failed"}
         /\ at'[c] = "backoff" => attempt[c] < MaxRetries
         /\ kwargs'[c].betas \subseteq kwargs[c].betas
         /\ kwargs[c].betas \ e.names \subseteq kwargs'[c].betas
         /\ at'[c] \in {"create", "backoff"} /\ Heeds(c, e) => kwargs'[c].betas \cap e.names = {}
         /\ \/ kwargs'[c].model = kwargs[c].model
            \/ e.gone /\ kwargs'[c].model = wiring.env
         /\ at'[c] = "failed" =>
              /\ lastErr'[c] = e /\ UNCHANGED <<tries, kwargs>>
              /\ e.transient => attempt[c] = MaxRetries
              /\ e.names # {} => tries[c] = Tries
              /\ e.gone /\ kwargs[c].model # wiring.env => tries[c] = Tries
         /\ tries'[c] # tries[c] =>
              /\ kwargs'[c] # kwargs[c] /\ kwargs'[c].betas \subseteq kwargs[c].betas
              /\ kwargs[c].model = wiring.env => kwargs'[c].model = wiring.env
  <1> USE CallAssumption DEF TypeOK, Tries
  <1>a. kwargs[c] \in Kwargs
    OBVIOUS
  <1>b. e \in Errors /\ e.names \subseteq kwargs[c].betas /\ wiring.env \in Claude
    BY <1>a, AnswerFacts
  <1>c. e.gone \in BOOLEAN /\ e.transient \in BOOLEAN
    BY <1>b DEF Errors
  <1>1. CASE MayHeal(c) /\ Foreign(c, e)
    <2>1. FallBack(c) /\ e.gone /\ kwargs[c].model # wiring.env /\ tries[c] < 3 /\ ~Heeds(c, e)
      BY <1>1 DEF Handle, Foreign, MayHeal, Heeds
    <2>2. kwargs' = [kwargs EXCEPT ![c] = [kwargs[c] EXCEPT !.model = wiring.env]]
      BY <2>1 DEF FallBack
    <2>3. kwargs' \in [Calls -> Kwargs]
      BY <2>2, <1>a, <1>b DEF Kwargs
    <2>4. kwargs'[c].model = wiring.env /\ kwargs'[c].betas = kwargs[c].betas
      BY <2>2, <1>a DEF Kwargs
    <2>5. kwargs'[c] # kwargs[c]
      BY <2>4, <2>1
    <2>6. UNCHANGED <<at, lastErr>> /\ tries' = [tries EXCEPT ![c] = @ + 1]
      BY <2>1 DEF FallBack
    <2>7. tries' \in [Calls -> 0 .. 3]
      <3>1. tries \in [Calls -> 0 .. 3]
        OBVIOUS
      <3> QED
        BY ONLY <2>1, <2>6, <3>1, OneMoreTurn
    <2>8. \A b \in Calls \ {c} : kwargs'[b] = kwargs[b] /\ tries'[b] = tries[b]
      BY <2>2, <2>6
    <2> QED
      BY <2>1, <2>3, <2>4, <2>5, <2>6, <2>7, <2>8
  <1>2. CASE ~(MayHeal(c) /\ Foreign(c, e)) /\ MayHeal(c) /\ Strips(kwargs[c], e.names)
    <2>1. StrikeOut(c, e.names) /\ e.names \cap kwargs[c].betas # {} /\ tries[c] < 3
      BY <1>2 DEF Handle, MayHeal, Strips
    <2>2. kwargs' = [kwargs EXCEPT ![c] = [kwargs[c] EXCEPT !.betas = @ \ e.names]]
      BY <2>1 DEF StrikeOut, Strip
    <2>3. kwargs'[c].betas = kwargs[c].betas \ e.names /\ kwargs'[c].model = kwargs[c].model
      BY <1>a, <2>2 DEF Kwargs
    <2>4. kwargs'[c] # kwargs[c]
      BY <2>1, <2>3
    <2>5. kwargs' \in [Calls -> Kwargs]
      BY <1>a, <2>2 DEF Kwargs
    <2> QED
      <3>1. UNCHANGED <<at, lastErr>> /\ tries' = [tries EXCEPT ![c] = @ + 1]
        BY <2>1 DEF StrikeOut
      <3>2. tries' \in [Calls -> 0 .. 3]
        <4>1. tries \in [Calls -> 0 .. 3]
          OBVIOUS
        <4> QED
          BY ONLY <2>1, <3>1, <4>1, OneMoreTurn
      <3>3. \A b \in Calls \ {c} : kwargs'[b] = kwargs[b] /\ tries'[b] = tries[b]
        <4>1. kwargs \in [Calls -> Kwargs] /\ tries \in [Calls -> 0 .. 3]
          OBVIOUS
        <4> QED
          BY ONLY <2>2, <3>1, <4>1
      <3>4. at'[c] = "create" /\ kwargs'[c].betas \cap e.names = {}
        BY <2>3, <3>1
      <3>5. /\ at' = at /\ lastErr' = lastErr
            /\ at \in [Calls -> {"new", "create", "backoff", "stream", "served", "failed",
                               "unreachable", "lost"}]
            /\ lastErr \in [Calls -> Errors]
        BY <3>1
      <3> QED
        BY ONLY <2>3, <2>4, <2>5, <3>2, <3>3, <3>4, <3>5 DEF Tries
  <1>3. CASE ~(MayHeal(c) /\ Foreign(c, e))
             /\ ~(MayHeal(c) /\ Strips(kwargs[c], e.names))
    <2>1. Raise(c, e)
      BY <1>3 DEF Handle
    <2>t. ~MayHeal(c) => tries[c] = Tries
      <3>1. tries[c] \in 0 .. Tries /\ Tries \in Nat
        OBVIOUS
      <3> QED
        BY ONLY <3>1, AllAttempts DEF MayHeal
    <2>2. e.names # {} => tries[c] = Tries
      BY ONLY <1>3, <1>b, <2>t DEF Strips
    <2>3. e.gone /\ kwargs[c].model # wiring.env => tries[c] = Tries
      BY ONLY <1>3, <2>t DEF Foreign
    <2>h. UNCHANGED kwargs /\ (Heeds(c, e) => kwargs[c].betas \cap e.names = {})
      BY <2>1, <1>3 DEF Raise, Heeds, MayHeal, Strips
    <2>4. CASE MayRetry(c, e)
      <3>1. /\ at' = [at EXCEPT ![c] = "backoff"] /\ UNCHANGED <<kwargs, tries, lastErr>>
            /\ attempt[c] < MaxRetries
        BY <2>1, <2>4 DEF Raise, Goto, MayRetry
      <3> QED
        BY <2>h, <3>1
    <2>5. CASE ~MayRetry(c, e)
      <3>1. /\ at' = [at EXCEPT ![c] = "failed"] /\ UNCHANGED <<kwargs, tries>>
            /\ lastErr' = [lastErr EXCEPT ![c] = e]
        BY <2>1, <2>5 DEF Raise, Goto
      <3>2. e.transient => attempt[c] = MaxRetries
        <4>1. ASSUME e.transient PROVE attempt[c] = MaxRetries
          <5>1. ~(attempt[c] < MaxRetries)
            BY <2>5, <4>1 DEF MayRetry
          <5>2. attempt[c] \in 0 .. MaxRetries
            OBVIOUS
          <5> QED
            BY <5>1, <5>2, AllAttempts
        <4> QED
          BY <4>1
      <3>3. lastErr' \in [Calls -> Errors] /\ lastErr'[c] = e
        BY <1>b, <3>1
      <3>4. at'[c] = "failed" /\ \A b \in Calls \ {c} : at'[b] = at[b] /\ lastErr'[b] = lastErr[b]
        BY <3>1
      <3>5. at' \in [Calls -> {"new", "create", "backoff", "stream", "served", "failed",
                             "unreachable", "lost"}]
        BY <3>1
      <3> QED
        BY <2>2, <2>3, <2>h, <3>1, <3>2, <3>3, <3>4, <3>5
    <2> QED
      BY <2>4, <2>5
  <1> QED
    BY <1>1, <1>2, <1>3

(* The call is sent. *)
LEMMA CreateStep ==
  ASSUME IInv, NEW c \in Calls, Create(c)
  PROVE  IInv'
  <1> USE CallAssumption DEF IInv, TypeOK
  <1>a. at[c] = "create" /\ UNCHANGED <<wiring, life, attempt, files>>
    BY DEF Create
  <1>1. CASE Goto(c, "stream") /\ UNCHANGED <<kwargs, tries, lastErr, told>>
    <2> USE <1>1, <1>a DEF Goto, life
    <2>1. TypeOK'
      OBVIOUS
    <2>2. RefusalsAreFinal' /\ ServedAsAsked' /\ GivesUpForCause'
      BY DEF RefusalsAreFinal, ServedAsAsked, GivesUpForCause, Sending
    <2>3. Listening' /\ OthersGoOn' /\ NewIsUntold' /\ WaitsForMore'
      BY DEF Listening, OthersGoOn, NewIsUntold, WaitsForMore
    <2>4. FilesHoldTheServed'
      BY DEF FilesHoldTheServed, WriteDir, RowName
    <2> QED
      BY <2>1, <2>2, <2>3, <2>4
  <1>2. ASSUME NEW e \in Answers(kwargs[c]), Handle(c, e), Hear(c, e)
        PROVE  IInv'
    <2> USE <1>2, <1>a DEF life
    <2>a. kwargs[c] \in Kwargs /\ kwargs[c].betas \subseteq Betas
      BY DEF Kwargs
    <2>b. e \in Errors /\ e.names \subseteq kwargs[c].betas /\ e.gone \in BOOLEAN
      BY <2>a, AnswerFacts DEF Errors
    <2>c. DEFINE heard == {b \in e.names : Heeds(c, e)}
    <2>e. /\ told'[c] = [refused |-> told[c].refused \cup e.names,
                         heeded |-> told[c].heeded \cup heard,
                         gone |-> told[c].gone \/ e.gone]
          /\ \A b \in Calls \ {c} : told'[b] = told[b]
      BY DEF Hear
    <2> HIDE DEF heard
    <2>d. \A b \in Calls \ {c} : at'[b] = at[b] /\ kwargs'[b] = kwargs[b]
                               /\ tries'[b] = tries[b] /\ lastErr'[b] = lastErr[b]
      BY HandleFacts
    <2>1. TypeOK'
      <3>1. heard \subseteq e.names
        BY DEF heard
      <3>2. told' \in [Calls -> [refused : SUBSET Betas, heeded : SUBSET Betas, gone : BOOLEAN]]
        BY <2>a, <2>b, <3>1 DEF Hear, heard
      <3> QED
        BY <3>2, HandleFacts
    <2>2. RefusalsAreFinal'
      <3>1. /\ at'[c] \in {"create", "backoff", "failed"} /\ kwargs'[c].betas \subseteq kwargs[c].betas
            /\ at'[c] \in {"create", "backoff"} => kwargs'[c].betas \cap heard = {}
        BY HandleFacts DEF heard
      <3>2. kwargs[c].betas \cap (Known \cup told[c].heeded) = {}
        BY DEF RefusalsAreFinal, Sending
      <3>3. Sending(c)' => kwargs'[c].betas \cap (Known \cup told'[c].heeded) = {}
        BY <2>e, <3>1, <3>2 DEF Sending
      <3> QED
        BY <2>d, <2>e, <3>3 DEF RefusalsAreFinal, Sending
    <2>3. ServedAsAsked'
      <3>1. /\ Asked[c].betas \ (Known \cup told[c].refused) \subseteq kwargs[c].betas
            /\ kwargs[c].betas \subseteq Asked[c].betas
            /\ kwargs[c].model # Asked[c].model =>
                 \/ told[c].gone /\ kwargs[c].model = wiring.env
                 \/ (wiring.pin \/ Asked[c].model \notin Claude) /\ kwargs[c].model = wiring.own
        BY DEF ServedAsAsked, Sending
      <3>2. /\ kwargs'[c].betas \subseteq kwargs[c].betas
            /\ kwargs[c].betas \ e.names \subseteq kwargs'[c].betas
            /\ \/ kwargs'[c].model = kwargs[c].model
               \/ e.gone /\ kwargs'[c].model = wiring.env
        BY HandleFacts
      <3>3. /\ told'[c].refused = told[c].refused \cup e.names
            /\ told[c].gone \/ e.gone => told'[c].gone
        <4>1. told[c].gone \in BOOLEAN
          OBVIOUS
        <4> QED
          BY ONLY <2>b, <2>e, <4>1
      <3>4. /\ Asked[c].betas \ (Known \cup told'[c].refused) \subseteq kwargs'[c].betas
            /\ kwargs'[c].betas \subseteq Asked[c].betas
        BY <3>1, <3>2, <3>3
      <3>5. kwargs'[c].model # Asked[c].model =>
              \/ told'[c].gone /\ kwargs'[c].model = wiring'.env
              \/ (wiring'.pin \/ Asked[c].model \notin Claude) /\ kwargs'[c].model = wiring'.own
        BY <3>1, <3>2, <3>3
      <3>6. \A b \in Calls : b = c \/
              /\ at'[b] = at[b] /\ kwargs'[b] = kwargs[b] /\ told'[b] = told[b]
        BY <2>d, <2>e
      <3>7. ServedAsAsked /\ UNCHANGED wiring
        BY <1>a
      <3> QED
        BY ONLY <3>4, <3>5, <3>6, <3>7 DEF ServedAsAsked, Sending
    <2>4. GivesUpForCause'
      <3>1. at'[c] = "failed" =>
              /\ lastErr'[c] = e /\ UNCHANGED <<tries, kwargs>>
              /\ e.transient => attempt[c] = MaxRetries
              /\ e.names # {} => tries[c] = Tries
              /\ e.gone /\ kwargs[c].model # wiring.env => tries[c] = Tries
        BY HandleFacts
      <3> QED
        BY <2>d, <3>1 DEF GivesUpForCause
    <2>5. at'[c] \notin {"new", "unreachable", "served"} /\ at[c] # "served"
      BY HandleFacts
    <2>6. Listening' /\ OthersGoOn' /\ NewIsUntold' /\ WaitsForMore'
      <3>1. \A b \in Calls : b = c \/
              /\ at'[b] = at[b] /\ kwargs'[b] = kwargs[b] /\ told'[b] = told[b]
              /\ tries'[b] = tries[b] /\ lastErr'[b] = lastErr[b]
        BY <2>d, <2>e
      <3>2. at'[c] = "backoff" => attempt[c] < MaxRetries
        BY HandleFacts
      <3>3. Listening /\ OthersGoOn /\ NewIsUntold /\ WaitsForMore
        OBVIOUS
      <3>4. UNCHANGED <<wiring, up, interrupts, solve, attempt>>
        BY <1>a
      <3>5. Listening' /\ OthersGoOn'
        BY ONLY <2>5, <3>1, <3>3, <3>4 DEF Listening, OthersGoOn, GatewayOf
      <3>6. NewIsUntold' /\ WaitsForMore'
        BY ONLY <2>5, <3>1, <3>2, <3>3, <3>4 DEF NewIsUntold, WaitsForMore
      <3> QED
        BY <3>5, <3>6
    <2>7. FilesHoldTheServed'
      <3>1. \A b \in Calls : at'[b] = "served" <=> at[b] = "served"
        BY <2>d, <2>5
      <3> QED
        BY <3>1 DEF FilesHoldTheServed, WriteDir, RowName
    <2> QED
      BY <2>1, <2>2, <2>3, <2>4, <2>6, <2>7
  <1> QED
    BY <1>1, <1>2 DEF Create

(* The backoff is over. *)
LEMMA AgainStep ==
  ASSUME IInv, NEW c \in Calls, Again(c)
  PROVE  IInv'
  <1> USE CallAssumption DEF IInv, TypeOK, Again, Goto, life
  <1>1. TypeOK'
    BY DEF Tries, WaitsForMore
  <1>2. RefusalsAreFinal' /\ ServedAsAsked' /\ GivesUpForCause'
    BY DEF RefusalsAreFinal, ServedAsAsked, GivesUpForCause, Sending
  <1>3. Listening' /\ OthersGoOn' /\ NewIsUntold' /\ WaitsForMore'
    BY DEF Listening, OthersGoOn, NewIsUntold, WaitsForMore
  <1>4. FilesHoldTheServed'
    BY DEF FilesHoldTheServed, WriteDir, RowName
  <1> QED
    BY <1>1, <1>2, <1>3, <1>4

(* The stream fails before its first event, or is relayed and metered. *)
LEMMA StreamStep ==
  ASSUME IInv, NEW c \in Calls, Stream(c)
  PROVE  IInv'
  <1> USE CallAssumption DEF IInv, TypeOK
  <1>a. at[c] = "stream" /\ UNCHANGED <<wiring, life, attempt, told>>
    BY DEF Stream
  <1>1. ASSUME NEW transient \in BOOLEAN, Raise(c, [NoError EXCEPT !.transient = transient]),
               UNCHANGED files
        PROVE  IInv'
    <2> DEFINE e == [NoError EXCEPT !.transient = transient]
    <2> USE <1>1, <1>a DEF life
    <2>1. /\ e \in Errors /\ e.names = {} /\ ~e.gone /\ e.transient \in BOOLEAN
      BY DEF NoError, Errors
    <2> HIDE DEF e
    <2>2. UNCHANGED <<kwargs, tries>>
      BY DEF Raise
    <2>3. CASE MayRetry(c, e)
      <3>1. /\ at' = [at EXCEPT ![c] = "backoff"] /\ UNCHANGED lastErr
            /\ attempt[c] < MaxRetries
        BY <2>3 DEF Raise, Goto, MayRetry, e
      <3>2. TypeOK' /\ RefusalsAreFinal' /\ ServedAsAsked' /\ GivesUpForCause'
        BY <2>2, <3>1 DEF RefusalsAreFinal, ServedAsAsked, GivesUpForCause, Sending
      <3>3. Listening' /\ OthersGoOn' /\ NewIsUntold' /\ WaitsForMore'
        BY <3>1 DEF Listening, OthersGoOn, NewIsUntold, WaitsForMore
      <3>4. FilesHoldTheServed'
        BY <3>1 DEF FilesHoldTheServed, WriteDir, RowName
      <3> QED
        BY <3>2, <3>3, <3>4
    <2>4. CASE ~MayRetry(c, e)
      <3>1. at' = [at EXCEPT ![c] = "failed"] /\ lastErr' = [lastErr EXCEPT ![c] = e]
        BY <2>4 DEF Raise, Goto, MayRetry, e
      <3>2. e.transient => attempt[c] = MaxRetries
        <4>1. ASSUME e.transient PROVE attempt[c] = MaxRetries
          <5>1. ~(attempt[c] < MaxRetries)
            BY <2>4, <4>1 DEF MayRetry
          <5>2. attempt[c] \in 0 .. MaxRetries
            OBVIOUS
          <5> QED
            BY <5>1, <5>2, AllAttempts
        <4> QED
          BY <4>1
      <3>3. TypeOK' /\ RefusalsAreFinal' /\ ServedAsAsked'
        BY <2>1, <2>2, <3>1 DEF RefusalsAreFinal, ServedAsAsked, Sending
      <3>4. GivesUpForCause'
        BY <2>1, <2>2, <3>1, <3>2 DEF GivesUpForCause
      <3>5. Listening' /\ OthersGoOn' /\ NewIsUntold' /\ WaitsForMore'
        BY <3>1 DEF Listening, OthersGoOn, NewIsUntold, WaitsForMore
      <3>6. FilesHoldTheServed'
        BY <3>1 DEF FilesHoldTheServed, WriteDir, RowName
      <3> QED
        BY <3>3, <3>4, <3>5, <3>6
    <2> QED
      BY <2>3, <2>4
  <1>2. CASE /\ Goto(c, "served")
             /\ files' = [files EXCEPT ![WriteDir][RowName(c)] = @ \cup {c}]
             /\ UNCHANGED <<kwargs, tries, lastErr>>
    <2> USE <1>2, <1>a DEF Goto, life
    <2>1. RowName(c) \in Names /\ WriteDir \in {"out", "served"}
      BY RowFile
    <2>2. files' \in [{"out", "served"} -> [Names -> SUBSET Calls]]
      BY <2>1
    <2>3. TypeOK'
      BY <2>2
    <2>4. RefusalsAreFinal' /\ ServedAsAsked' /\ GivesUpForCause'
      BY DEF RefusalsAreFinal, ServedAsAsked, GivesUpForCause, Sending
    <2>5. Listening' /\ OthersGoOn' /\ NewIsUntold' /\ WaitsForMore'
      BY DEF Listening, OthersGoOn, NewIsUntold, WaitsForMore
    <2>6. FilesHoldTheServed'
      <3> SUFFICES ASSUME NEW d \in {"out", "served"}, NEW n \in Names
                   PROVE  files'[d][n] =
                            {b \in Calls : at'[b] = "served" /\ WriteDir = d /\ RowName(b) = n}
        BY DEF FilesHoldTheServed, WriteDir, RowName
      <3>1. files[d][n] = {b \in Calls : at[b] = "served" /\ WriteDir = d /\ RowName(b) = n}
        BY DEF FilesHoldTheServed
      <3>2. \A b \in Calls : at'[b] = "served" <=> b = c \/ at[b] = "served"
        OBVIOUS
      <3>3. files'[d][n] = IF WriteDir = d /\ RowName(c) = n THEN files[d][n] \cup {c} ELSE files[d][n]
        BY <2>1
      <3> QED
        BY <3>1, <3>2, <3>3
    <2> QED
      BY <2>3, <2>4, <2>5, <2>6
  <1> QED
    BY <1>1, <1>2 DEF Stream

(* Every step keeps the invariant. *)
LEMMA NextInv == IInv /\ [Next]_vars => IInv'
  <1> SUFFICES ASSUME IInv, [Next]_vars PROVE IInv'
    OBVIOUS
  <1>1. CASE Next
    BY <1>1, LifeStep, RequestStep, CreateStep, AgainStep, StreamStep DEF Next, Serve
  <1>2. CASE UNCHANGED vars
    BY <1>2 DEF vars, call, life, IInv, TypeOK, RefusalsAreFinal, ServedAsAsked, GivesUpForCause,
                Sending, Listening, OthersGoOn, NewIsUntold, WaitsForMore, FilesHoldTheServed,
                WriteDir, RowName
  <1> QED
    BY <1>1, <1>2

(* The state invariant of the module, from which the others follow. *)
LEMMA Invariant == Spec => []IInv
  BY InitInv, NextInv, PTL DEF Spec

-------------------------------------------------------------------------------
(* Types, for every instance: no attempt beyond the retries, no turn of    *)
(* the inner loop beyond the third.                                        *)
THEOREM TypeCorrect == Spec => []TypeOK
  BY Invariant, PTL DEF IInv

(* What was struck out of a call stays out of it, over turns, attempts and *)
(* changes of the model, whatever mixture of texts Vertex answers with.    *)
THEOREM RefusalsStay == Spec => []RefusalsAreFinal
  BY Invariant, PTL DEF IInv

(* The agent keeps the betas it asked for, but for those turned down, and  *)
(* its model until a text held a 404, rightly or not.                      *)
THEOREM AskedIsServed == Spec => []ServedAsAsked
  BY Invariant, PTL DEF IInv

(* A call fails only when its patience is over, or, after a 404, when its  *)
(* model was VERTEX_MODEL.                                                 *)
THEOREM FailureHasACause == Spec => []GivesUpForCause
  BY Invariant, PTL DEF IInv

(* No solve ends another solve's calls.                                    *)
THEOREM SolvesAreIndependent == Spec => []OthersGoOn
  BY Invariant, PTL DEF IInv

(* A solve reads the rows of its own calls and of no others.               *)
THEOREM RowsAreFound == Spec => []OwnRowsAreRead
  <1>1. IInv => OwnRowsAreRead
    <2> SUFFICES ASSUME IInv, NEW s \in Solves
                 PROVE  LET read == files[ReadDir][SafeName[s]]
                            mine == {c \in Calls : SolveOf[c] = s /\ at[c] = "served"}
                        IN  /\ read \subseteq mine
                            /\ ~wiring.shared => read = mine
                            /\ wiring.shared /\ wiring.dir => read = mine \cap wiring.tagged
      BY DEF OwnRowsAreRead
    <2>1. SafeName[s] \in Names /\ ReadDir \in {"out", "served"}
      BY DEF Names, ReadDir
    <2>2. files[ReadDir][SafeName[s]] =
            {c \in Calls : at[c] = "served" /\ WriteDir = ReadDir /\ RowName(c) = SafeName[s]}
      BY <2>1 DEF IInv, FilesHoldTheServed
    <2>3. \A c \in Calls : RowName(c) = SafeName[s] <=>
            SolveOf[c] = s /\ (c \in wiring.tagged \/ ~wiring.shared)
      BY CallAssumption DEF RowName
    <2>4. /\ ~wiring.shared => WriteDir = ReadDir
          /\ wiring.shared /\ wiring.dir => WriteDir = ReadDir
      BY DEF WriteDir, ReadDir
    <2> QED
      BY <2>2, <2>3, <2>4
  <1> QED
    BY Invariant, <1>1, PTL

(* Every turn of the inner loop changes what is sent.                      *)
THEOREM TurnsChange == Spec => NeverSentUnchanged
  <1> DEFINE Changes ==
        \A c \in Calls : tries'[c] > tries[c] =>
          /\ kwargs'[c] # kwargs[c]
          /\ kwargs'[c].betas \subseteq kwargs[c].betas
          /\ kwargs[c].model = wiring.env => kwargs'[c].model = wiring.env
  <1>1. ASSUME IInv, [Next]_vars PROVE [Changes]_vars
    <2>1. \A c \in Calls : tries[c] \in 0 .. Tries /\ ~(tries[c] > tries[c])
      BY <1>1 DEF IInv, TypeOK, Tries
    <2>2. ASSUME UNCHANGED tries PROVE Changes
      BY <2>1, <2>2
    <2>3. ASSUME NEW c \in Calls, Create(c) PROVE Changes
      <3>1. ASSUME NEW e \in Answers(kwargs[c]), Handle(c, e) PROVE Changes
        <4>1. TypeOK /\ at[c] = "create"
          BY <1>1, <2>3 DEF IInv, Create
        <4>2. \A b \in Calls \ {c} : tries'[b] = tries[b]
          BY <3>1, <4>1, HandleFacts
        <4>3. tries'[c] # tries[c] =>
                /\ kwargs'[c] # kwargs[c] /\ kwargs'[c].betas \subseteq kwargs[c].betas
                /\ kwargs[c].model = wiring.env => kwargs'[c].model = wiring.env
          BY <3>1, <4>1, HandleFacts
        <4> QED
          BY <2>1, <4>2, <4>3
      <3> QED
        BY <2>2, <2>3, <3>1 DEF Create
    <2>4. ASSUME NEW c \in Calls, Again(c) PROVE Changes
      <3>1. tries' = [tries EXCEPT ![c] = 0] /\ tries \in [Calls -> 0 .. Tries]
        BY <1>1, <2>4 DEF Again, IInv, TypeOK
      <3>2. \A b \in Calls : ~(tries'[b] > tries[b])
        BY <2>1, <3>1 DEF Tries
      <3> QED
        BY <3>2
    <2>5. ASSUME NEW c \in Calls, Stream(c) PROVE UNCHANGED tries
      BY <2>5 DEF Stream, Raise
    <2>6. ASSUME NEW s \in Solves, Resolve(s) \/ StopGateway(s) \/ KillAgent(s)
          PROVE  UNCHANGED tries
      BY <2>6 DEF Resolve, StopGateway, KillAgent, call
    <2>7. CASE Interrupt \/ Launch
      BY <2>2, <2>7 DEF Interrupt, Launch, call
    <2>8. ASSUME NEW c \in Calls, Request(c) PROVE UNCHANGED tries
      BY <2>8 DEF Request
    <2> QED
      BY <1>1, <2>2, <2>3, <2>4, <2>5, <2>6, <2>7, <2>8 DEF Next, Serve, vars, call
  <1> QED
    BY Invariant, <1>1, PTL DEF Spec, NeverSentUnchanged
===============================================================================
