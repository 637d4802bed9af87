------------------------ MODULE Lifecycle_proofs ------------------------
(***************************************************************************)
(* Proofs about Lifecycle, for any services and any presses of buttons:    *)
(* the compare-and-swap of Toggle loses no toggle, a service that          *)
(* simulates an outage has a shutdown ahead of it, and every variable has  *)
(* its type; those of the heartbeat by Heartbeat's own proofs, of which    *)
(* Watched is an instance.                                                 *)
(***************************************************************************)
EXTENDS Lifecycle, FiniteSetTheorems, TLAPS

Watched ==
    INSTANCE Heartbeat_proofs WITH health <- Healthy, running <- TRUE, SyntheticServices <- {}

(* The types the two arguments need: those of the services and the clicks. *)
SwitchTypeOK ==
    /\ process \in [Services -> {"serving", "draining", "exited"}]
    /\ killed \in [Services -> BOOLEAN]
    /\ shutdowns \in [Services -> Nat]
    /\ toggles \in [Services -> Nat]
    /\ target \in [Clicks -> Services]
    /\ toggle \in [Clicks ->
           {"new", "sent", "loading", "loaded", "toggled", "over"}]
    /\ previous \in [Clicks -> BOOLEAN]

IInv == SwitchTypeOK /\ NoToggleIsLost /\ KilledServicesAreDoomed

(* One more toggle changes the parity, none leaves it even.                *)
LEMMA Parity ==
    ASSUME NEW n \in Nat
    PROVE  /\ 0 % 2 # 1
           /\ (n + 1) % 2 = 1 <=> ~(n % 2 = 1)
OBVIOUS

(* Every step of the heartbeat and the page leaves services and clicks     *)
(* alone, and so does stuttering.                                          *)
LEMMA OnlyOwnSteps ==
    ASSUME [Next]_vars
    PROVE  \/ UNCHANGED <<serviceVars, clickVars>>
           \/ \E c \in Clicks : Press(c) \/ CallFails(c) \/ Arrive(c) \/ HandlerStep(c)
           \/ \E s \in Services : CallbackFires(s) \/ Exit(s) \/ Crash(s) \/ Restart(s)
BY DEF Next, vars, StartRound, ProbeStep, ProbeLost, Fetch, Render

(* A service or a click that no step of its own has touched keeps what the *)
(* invariant says of it.                                                   *)
LEMMA NothingHappened ==
    ASSUME IInv, UNCHANGED <<serviceVars, clickVars>>
    PROVE  IInv'
BY DEF IInv, SwitchTypeOK, NoToggleIsLost, KilledServicesAreDoomed, serviceVars, clickVars

(* The steps of a click.                                                   *)
LEMMA ClickStep ==
    ASSUME IInv, NEW c \in Clicks,
           Press(c) \/ CallFails(c) \/ Arrive(c) \/ HandlerStep(c)
    PROVE  IInv'
<1>0. SwitchTypeOK /\ NoToggleIsLost /\ KilledServicesAreDoomed
  BY DEF IInv
<1>1. ASSUME UNCHANGED <<serviceVars, target, previous>>,
             toggle[c] # "toggled",
             NEW to \in {"sent", "over", "loading"},
             toggle' = [toggle EXCEPT ![c] = to]
      PROVE  IInv'
  BY <1>0, <1>1 DEF IInv, SwitchTypeOK, NoToggleIsLost, KilledServicesAreDoomed, serviceVars
<1>2. CASE Press(c) \/ CallFails(c) \/ Arrive(c)
  BY <1>1, <1>2 DEF Press, CallFails, Arrive, Goes
<1>3. CASE Load(c)
  <2>1. /\ toggle[c] = "loading"
        /\ toggle' = [toggle EXCEPT ![c] = "loaded"]
        /\ previous' = [previous EXCEPT ![c] = killed[target[c]]]
        /\ UNCHANGED <<process, killed, shutdowns, toggles, target>>
    BY <1>3 DEF Load, Goes, serviceVars
  <2>. QED
    BY <1>0, <2>1 DEF IInv, SwitchTypeOK, NoToggleIsLost, KilledServicesAreDoomed
<1>4. CASE CompareAndSwap(c)
  <2>1. UNCHANGED <<process, shutdowns, target, previous>> /\ toggle[c] = "loaded"
    BY <1>4 DEF CompareAndSwap, Goes
  <2>2. CASE killed[target[c]] # previous[c]
    BY <1>1, <1>4, <2>1, <2>2 DEF CompareAndSwap, Goes, serviceVars
  <2>3. CASE killed[target[c]] = previous[c]
    <3>1. /\ toggle' = [toggle EXCEPT ![c] = "toggled"]
          /\ killed' = [killed EXCEPT ![target[c]] = ~previous[c]]
          /\ toggles' = [toggles EXCEPT ![target[c]] = toggles[target[c]] + 1]
      BY <1>4, <2>3 DEF CompareAndSwap, Goes
    <3>2. SwitchTypeOK'
      BY <1>0, <2>1, <3>1 DEF SwitchTypeOK
    <3>3. NoToggleIsLost'
      <4>. SUFFICES ASSUME NEW s \in Services PROVE killed'[s] <=> toggles'[s] % 2 = 1
        BY DEF NoToggleIsLost
      <4>1. toggles[s] \in Nat /\ (killed[s] <=> toggles[s] % 2 = 1)
        BY <1>0 DEF SwitchTypeOK, NoToggleIsLost
      <4>2. CASE s = target[c]
        <5>1. killed'[s] = ~killed[s] /\ toggles'[s] = toggles[s] + 1
          BY <1>0, <2>3, <3>1, <4>2 DEF SwitchTypeOK
        <5>. QED  BY <4>1, <5>1, Parity
      <4>3. CASE s # target[c]
        BY <1>0, <3>1, <4>1, <4>3 DEF SwitchTypeOK
      <4>. QED  BY <4>2, <4>3
    <3>4. KilledServicesAreDoomed'
      BY <1>0, <2>1, <3>1 DEF SwitchTypeOK, KilledServicesAreDoomed
    <3>. QED  BY <3>2, <3>3, <3>4 DEF IInv
  <2>. QED  BY <2>2, <2>3
<1>5. CASE Finish(c)
  <2>1. /\ UNCHANGED <<process, killed, toggles, target>>
        /\ toggle[c] = "toggled"
        /\ toggle' = [toggle EXCEPT ![c] = "over"]
        /\ previous' = [previous EXCEPT ![c] = FALSE]
        /\ shutdowns' = IF previous[c] THEN shutdowns
                        ELSE [shutdowns EXCEPT ![target[c]] = shutdowns[target[c]] + 1]
    BY <1>5 DEF Finish, Goes
  <2>2. SwitchTypeOK'
    BY <1>0, <2>1 DEF SwitchTypeOK
  <2>3. NoToggleIsLost'
    BY <1>0, <2>1 DEF NoToggleIsLost
  <2>4. KilledServicesAreDoomed'
    BY <1>0, <2>1 DEF SwitchTypeOK, KilledServicesAreDoomed
  <2>. QED  BY <2>2, <2>3, <2>4 DEF IInv
<1>. QED  BY <1>2, <1>3, <1>4, <1>5 DEF HandlerStep

(* The end of a process: whatever was killed has gone.                     *)
LEMMA EndsStep ==
    ASSUME IInv, NEW s \in Services, Ends(s)
    PROVE  IInv'
<1>1. /\ UNCHANGED <<killed, toggles, target>>
      /\ process' = [process EXCEPT ![s] = "exited"]
      /\ shutdowns' = [shutdowns EXCEPT ![s] = 0]
      /\ toggle' = [c \in Clicks |->
             IF target[c] = s /\ InHandler(c) THEN "over" ELSE toggle[c]]
      /\ previous' = [c \in Clicks |-> target[c] # s /\ previous[c]]
  BY DEF Ends
<1>2. SwitchTypeOK'
  BY <1>1 DEF IInv, SwitchTypeOK
<1>3. NoToggleIsLost'
  BY <1>1 DEF IInv, NoToggleIsLost
<1>4. KilledServicesAreDoomed'
  <2>. SUFFICES ASSUME NEW t \in Services, killed'[t]
                PROVE  \/ process'[t] # "serving"
                       \/ shutdowns'[t] > 0
                       \/ \E c \in Clicks :
                             target'[c] = t /\ toggle'[c] = "toggled" /\ ~previous'[c]
    BY DEF KilledServicesAreDoomed
  <2>1. CASE t = s
    BY <1>1, <2>1 DEF IInv, SwitchTypeOK
  <2>2. CASE t # s
    BY <1>1, <2>2 DEF IInv, SwitchTypeOK, KilledServicesAreDoomed
  <2>. QED  BY <2>1, <2>2
<1>. QED  BY <1>2, <1>3, <1>4 DEF IInv

(* The steps of a process.                                                 *)
LEMMA ProcessStep ==
    ASSUME IInv, NEW s \in Services, CallbackFires(s) \/ Exit(s) \/ Crash(s) \/ Restart(s)
    PROVE  IInv'
<1>0. SwitchTypeOK /\ NoToggleIsLost /\ KilledServicesAreDoomed
  BY DEF IInv
<1>1. CASE CallbackFires(s)
  <2>1. /\ UNCHANGED <<killed, toggles, target, toggle, previous>>
        /\ shutdowns[s] > 0
        /\ shutdowns' = [shutdowns EXCEPT ![s] = shutdowns[s] - 1]
        /\ process' = [process EXCEPT ![s] =
               IF process[s] = "serving" THEN "draining" ELSE process[s]]
    BY <1>1 DEF CallbackFires, clickVars
  <2>2. SwitchTypeOK'
    BY <1>0, <2>1 DEF SwitchTypeOK
  <2>3. NoToggleIsLost'
    BY <1>0, <2>1 DEF NoToggleIsLost
  <2>4. KilledServicesAreDoomed'
    BY <1>0, <2>1 DEF SwitchTypeOK, KilledServicesAreDoomed
  <2>. QED  BY <2>2, <2>3, <2>4 DEF IInv
<1>2. CASE Exit(s) \/ Crash(s)
  BY <1>2, EndsStep DEF Exit, Crash
<1>3. CASE Restart(s)
  <2>1. /\ UNCHANGED <<shutdowns, target, toggle, previous>>
        /\ process' = [process EXCEPT ![s] = "serving"]
        /\ killed' = [killed EXCEPT ![s] = FALSE]
        /\ toggles' = [toggles EXCEPT ![s] = 0]
    BY <1>3 DEF Restart, clickVars
  <2>2. SwitchTypeOK'
    BY <1>0, <2>1 DEF SwitchTypeOK
  <2>3. NoToggleIsLost'
    BY <1>0, <2>1, Parity DEF SwitchTypeOK, NoToggleIsLost
  <2>4. KilledServicesAreDoomed'
    BY <1>0, <2>1 DEF SwitchTypeOK, KilledServicesAreDoomed
  <2>. QED  BY <2>2, <2>3, <2>4 DEF IInv
<1>. QED  BY <1>1, <1>2, <1>3

(* The invariant holds at first.                                           *)
LEMMA InvInit == Init => IInv
BY Parity DEF Init, IInv, SwitchTypeOK, NoToggleIsLost, KilledServicesAreDoomed

(* The invariant holds in every reachable state.                           *)
LEMMA Invariance == Spec => []IInv
<1>1. Init => IInv
  BY InvInit
<1>2. IInv /\ [Next]_vars => IInv'
  BY OnlyOwnSteps, NothingHappened, ClickStep, ProcessStep
<1>. QED  BY <1>1, <1>2, PTL DEF Spec

(* Toggle's compare-and-swap loop loses no toggle, however many run at     *)
(* once: the switch is on exactly after an odd number of them.             *)
THEOREM TogglesCount == Spec => []NoToggleIsLost
BY Invariance, PTL DEF IInv

(* A service whose switch is on has a shutdown scheduled, about to be      *)
(* scheduled or under way, whatever was toggled since.                     *)
THEOREM KilledAreDoomed == Spec => []KilledServicesAreDoomed
BY Invariance, PTL DEF IInv

---------------------------------------------------------------------------
(* Types *)

(* The clicks on a service whose handler has started the callback, or      *)
(* might have; and those whose handler has toggled the switch.             *)
Over(s) == {c \in Clicks : target[c] = s /\ toggle[c] = "over"}
Toggled(s) == {c \in Clicks : target[c] = s /\ toggle[c] \in {"toggled", "over"}}

(* A click schedules at most one shutdown, and toggles at most once.       *)
ClicksCount ==
    \A s \in Services :
        /\ shutdowns[s] <= Cardinality(Over(s))
        /\ toggles[s] <= Cardinality(Toggled(s))

PageTypeOK ==
    /\ fetched \subseteq [Services -> BOOLEAN]
    /\ shown \in [Services -> BOOLEAN]

TypeInv == SwitchTypeOK /\ ClicksCount /\ PageTypeOK /\ Watched!IInv

(* More clicks count for more.                                             *)
LEMMA MoreClicks ==
    ASSUME NEW S, NEW T, S \subseteq T, T \subseteq Clicks
    PROVE  /\ Cardinality(S) \in Nat /\ Cardinality(T) \in Nat
           /\ Cardinality(S) <= Cardinality(T)
           /\ S # T => Cardinality(S) + 1 <= Cardinality(T)
<1>1. IsFiniteSet(T) /\ IsFiniteSet(S)
  BY ClicksAssumption, FS_Subset
<1>2. Cardinality(S) \in Nat /\ Cardinality(T) \in Nat
  BY <1>1, FS_CardinalityType
<1>3. Cardinality(S) <= Cardinality(T) /\ (Cardinality(S) = Cardinality(T) => S = T)
  BY <1>1, FS_Subset
<1>. QED  BY <1>2, <1>3

(* What the clicks count for in the end.                                   *)
LEMMA CountsInRange ==
    ASSUME SwitchTypeOK, ClicksCount
    PROVE  /\ shutdowns \in [Services -> 0 .. Cardinality(Clicks)]
           /\ toggles \in [Services -> 0 .. Cardinality(Clicks)]
<1>1. ASSUME NEW s \in Services
      PROVE  shutdowns[s] \in 0 .. Cardinality(Clicks) /\ toggles[s] \in 0 .. Cardinality(Clicks)
  <2>1. Over(s) \subseteq Clicks /\ Toggled(s) \subseteq Clicks
    BY DEF Over, Toggled
  <2>2. /\ Cardinality(Over(s)) <= Cardinality(Clicks)
        /\ Cardinality(Toggled(s)) <= Cardinality(Clicks)
        /\ Cardinality(Over(s)) \in Nat /\ Cardinality(Toggled(s)) \in Nat
        /\ Cardinality(Clicks) \in Nat
    BY <2>1, MoreClicks
  <2>. QED  BY <2>2 DEF SwitchTypeOK, ClicksCount
<1>. QED  BY <1>1 DEF SwitchTypeOK

(* Counts that have not grown, while no click has been taken back.         *)
LEMMA StillCounted ==
    ASSUME SwitchTypeOK, SwitchTypeOK', ClicksCount, target' = target, NEW s \in Services,
           \A c \in Clicks :
              /\ toggle[c] = "over" => toggle'[c] = "over"
              /\ toggle[c] \in {"toggled", "over"} => toggle'[c] \in {"toggled", "over"}
    PROVE  /\ shutdowns'[s] <= shutdowns[s] => shutdowns'[s] <= Cardinality(Over(s)')
           /\ toggles'[s] <= toggles[s] => toggles'[s] <= Cardinality(Toggled(s)')
<1>1. /\ Over(s) \subseteq Over(s)' /\ Over(s)' \subseteq Clicks
      /\ Toggled(s) \subseteq Toggled(s)' /\ Toggled(s)' \subseteq Clicks
  BY DEF Over, Toggled
<1>2. /\ Cardinality(Over(s)) <= Cardinality(Over(s)')
      /\ Cardinality(Toggled(s)) <= Cardinality(Toggled(s)')
      /\ Cardinality(Over(s)) \in Nat /\ Cardinality(Toggled(s)) \in Nat
      /\ Cardinality(Over(s)') \in Nat /\ Cardinality(Toggled(s)') \in Nat
  BY <1>1, MoreClicks
<1>3. /\ shutdowns[s] \in Nat /\ shutdowns'[s] \in Nat
      /\ toggles[s] \in Nat /\ toggles'[s] \in Nat
  BY DEF SwitchTypeOK
<1>. QED  BY <1>2, <1>3 DEF ClicksCount

LEMMA CountClickStep ==
    ASSUME IInv, ClicksCount, SwitchTypeOK', NEW c \in Clicks,
           Press(c) \/ CallFails(c) \/ Arrive(c) \/ HandlerStep(c)
    PROVE  ClicksCount'
<1>0. SwitchTypeOK
  BY DEF IInv
<1>1. target' = target
  BY DEF Press, CallFails, Arrive, HandlerStep, Load, CompareAndSwap, Finish
<1>2. \A b \in Clicks :
         /\ toggle[b] = "over" => toggle'[b] = "over"
         /\ toggle[b] \in {"toggled", "over"} => toggle'[b] \in {"toggled", "over"}
  BY <1>0 DEF Press, CallFails, Arrive, HandlerStep, Load, CompareAndSwap, Finish, Goes,
              SwitchTypeOK
<1>3. ASSUME NEW s \in Services
      PROVE  shutdowns'[s] <= Cardinality(Over(s)') /\ toggles'[s] <= Cardinality(Toggled(s)')
  <2>1. /\ shutdowns[s] \in Nat /\ shutdowns'[s] \in Nat
        /\ toggles[s] \in Nat /\ toggles'[s] \in Nat
        /\ shutdowns[s] <= Cardinality(Over(s)) /\ toggles[s] <= Cardinality(Toggled(s))
    BY <1>0 DEF SwitchTypeOK, ClicksCount
  <2>2. CASE shutdowns'[s] <= shutdowns[s] /\ toggles'[s] <= toggles[s]
    BY <1>0, <1>1, <1>2, <2>2, StillCounted
  <2>3. CASE ~(shutdowns'[s] <= shutdowns[s])
    <3>1. /\ Finish(c) /\ target[c] = s /\ shutdowns'[s] = shutdowns[s] + 1
          /\ toggles' = toggles
      BY <1>0, <2>1, <2>3
      DEF Press, CallFails, Arrive, HandlerStep, Load, CompareAndSwap, Finish, serviceVars,
          SwitchTypeOK
    <3>2. c \in Over(s)' /\ c \notin Over(s)
      BY <1>0, <1>1, <3>1 DEF Finish, Goes, Over, SwitchTypeOK
    <3>3. Over(s) \subseteq Over(s)' /\ Over(s)' \subseteq Clicks
      BY <1>1, <1>2 DEF Over
    <3>4. /\ Cardinality(Over(s)) + 1 <= Cardinality(Over(s)')
          /\ Cardinality(Over(s)) \in Nat /\ Cardinality(Over(s)') \in Nat
      BY <3>2, <3>3, MoreClicks
    <3>5. toggles'[s] <= Cardinality(Toggled(s)')
      BY <1>0, <1>1, <1>2, <2>1, <3>1, StillCounted
    <3>. QED  BY <2>1, <3>1, <3>4, <3>5
  <2>4. CASE ~(toggles'[s] <= toggles[s])
    <3>1. /\ CompareAndSwap(c) /\ target[c] = s /\ toggles'[s] = toggles[s] + 1
          /\ shutdowns' = shutdowns
          /\ toggle[c] = "loaded" /\ toggle' = [toggle EXCEPT ![c] = "toggled"]
      BY <1>0, <2>1, <2>4
      DEF Press, CallFails, Arrive, HandlerStep, Load, CompareAndSwap, Finish, serviceVars,
          SwitchTypeOK, Goes
    <3>2. c \in Toggled(s)' /\ c \notin Toggled(s)
      BY <1>0, <1>1, <3>1 DEF Toggled, SwitchTypeOK
    <3>3. Toggled(s) \subseteq Toggled(s)' /\ Toggled(s)' \subseteq Clicks
      BY <1>1, <1>2 DEF Toggled
    <3>4. /\ Cardinality(Toggled(s)) + 1 <= Cardinality(Toggled(s)')
          /\ Cardinality(Toggled(s)) \in Nat /\ Cardinality(Toggled(s)') \in Nat
      BY <3>2, <3>3, MoreClicks
    <3>5. shutdowns'[s] <= Cardinality(Over(s)')
      BY <1>0, <1>1, <1>2, <2>1, <3>1, StillCounted
    <3>. QED  BY <2>1, <3>1, <3>4, <3>5
  <2>. QED  BY <2>2, <2>3, <2>4
<1>. QED  BY <1>3 DEF ClicksCount

LEMMA CountProcessStep ==
    ASSUME IInv, ClicksCount, SwitchTypeOK', NEW s \in Services,
           CallbackFires(s) \/ Exit(s) \/ Crash(s) \/ Restart(s)
    PROVE  ClicksCount'
<1>0. SwitchTypeOK
  BY DEF IInv
<1>1. /\ target' = target
      /\ \A b \in Clicks :
           /\ toggle[b] = "over" => toggle'[b] = "over"
           /\ toggle[b] \in {"toggled", "over"} => toggle'[b] \in {"toggled", "over"}
  BY DEF CallbackFires, Exit, Crash, Restart, Ends, InHandler, clickVars
<1>2. ASSUME NEW t \in Services
      PROVE  shutdowns'[t] <= shutdowns[t] /\ toggles'[t] <= toggles[t]
  BY <1>0 DEF CallbackFires, Exit, Crash, Restart, Ends, SwitchTypeOK
<1>. QED  BY <1>0, <1>1, <1>2, StillCounted DEF ClicksCount

---------------------------------------------------------------------------
(* The heartbeat's proofs, and what they assume of their constants.        *)

LEMMA WatchedAssumptions ==
    /\ Capacity \in Nat \ {0} /\ Services # {} /\ {} \subseteq Services
    /\ FailureThreshold \in Nat \ {0}
    /\ MaxFailures \in Nat /\ MaxFailures >= FailureThreshold
    /\ MaxDisturbances \in Nat
BY HeartbeatAssumption

(* The instances of Heartbeat and of its proofs define the same.           *)
LEMMA WatchedType == Monitor!TypeOK <=> Watched!TypeOK
BY DEF Monitor!TypeOK, Monitor!RingType, Monitor!Event, Monitor!Slots,
       Watched!TypeOK, Watched!RingType, Watched!Event, Watched!Slots

LEMMA WatchedInit == Init => Watched!IInv
<1>1. Healthy \in [Services -> BOOLEAN]
  BY DEF Healthy
<1>2. Init => Watched!Init
  BY <1>1
  DEF Init, Monitor!NoProbe, Monitor!NoFailure, Monitor!AllAvailable,
      Monitor!NoOutcome, Monitor!EmptyRing, Monitor!Slots, Monitor!Event,
      Watched!Init, Watched!NoProbe, Watched!NoFailure, Watched!AllAvailable,
      Watched!NoOutcome, Watched!EmptyRing, Watched!Slots, Watched!Event
<1>. QED  BY <1>2, WatchedAssumptions, Watched!InvInit

(* A step of the heartbeat is a step of Heartbeat.                         *)
LEMMA WatchedProbe ==
    ASSUME NEW s \in Services, Monitor!ProbeStep(s)
    PROVE  Watched!ProbeStep(s)
<1>1. CASE Monitor!ProbeEnds(s)
  BY <1>1 DEF Monitor!ProbeEnds, Monitor!Undisturbed, Monitor!SameSurroundings,
              Monitor!registryVars, Watched!ProbeEnds, Watched!Undisturbed,
              Watched!SameSurroundings, Watched!registryVars, Watched!ProbeStep
<1>2. CASE Monitor!RecordSuccess(s)
  BY <1>2 DEF Monitor!RecordSuccess, Monitor!Undisturbed, Monitor!SameSurroundings,
              Monitor!RecordEvent, Monitor!Push, Monitor!Remember,
              Watched!RecordSuccess, Watched!Undisturbed, Watched!SameSurroundings,
              Watched!RecordEvent, Watched!Push, Watched!Remember, Watched!ProbeStep
<1>3. CASE Monitor!RecordFailure(s)
  BY <1>3 DEF Monitor!RecordFailure, Monitor!Undisturbed, Monitor!SameSurroundings,
              Monitor!MarksDown, Monitor!FailureCount,
              Monitor!RecordEvent, Monitor!Push, Monitor!Remember,
              Watched!RecordFailure, Watched!Undisturbed, Watched!SameSurroundings,
              Watched!MarksDown, Watched!FailureCount,
              Watched!RecordEvent, Watched!Push, Watched!Remember, Watched!ProbeStep
<1>. QED  BY <1>1, <1>2, <1>3 DEF Monitor!ProbeStep

LEMMA WatchedStep ==
    ASSUME Watched!IInv,
           StartRound \/ \E s \in Services : ProbeStep(s) \/ ProbeLost(s)
    PROVE  Watched!IInv'
<1>1. CASE StartRound
  <2>1. Watched!StartRound
    BY <1>1 DEF StartRound, Monitor!StartRound, Monitor!Undisturbed, Monitor!SameSurroundings,
                Monitor!registryVars, Watched!StartRound, Watched!Undisturbed,
                Watched!SameSurroundings, Watched!registryVars
  <2>. QED  BY <2>1, WatchedAssumptions, Watched!InvStep DEF Watched!Next
<1>2. ASSUME NEW s \in Services, ProbeStep(s) PROVE Watched!IInv'
  <2>1. Watched!ProbeStep(s)
    BY <1>2, WatchedProbe DEF ProbeStep
  <2>. QED  BY <2>1, WatchedAssumptions, Watched!InvStep DEF Watched!Next
<1>3. ASSUME NEW s \in Services, ProbeLost(s) PROVE Watched!IInv'
  <2>1. Watched!ProbeLost(s)
    BY <1>3 DEF ProbeLost, Monitor!ProbeLost, Monitor!Disturb, Monitor!SameSurroundings,
                Monitor!registryVars, Watched!ProbeLost, Watched!Disturb,
                Watched!SameSurroundings, Watched!registryVars
  <2>. QED  BY <2>1, WatchedAssumptions, Watched!InvStep DEF Watched!Next
<1>. QED  BY <1>1, <1>2, <1>3

(* A step that leaves the heartbeat alone keeps its invariant, whatever it *)
(* does to the health of the services.                                     *)
LEMMA WatchedAtRest ==
    ASSUME Watched!IInv, UNCHANGED monitorVars,
           disturbances' = disturbances \/ Monitor!Disturb
    PROVE  Watched!IInv'
<1>1. disturbances' \in 0 .. MaxDisturbances
  BY WatchedAssumptions DEF Watched!IInv, Watched!TypeOK, Monitor!Disturb
<1>2. Healthy' \in [Services -> BOOLEAN]
  BY DEF Healthy
<1>3. Watched!TypeOK'
  BY <1>1, <1>2 DEF Watched!IInv, Watched!TypeOK, monitorVars
<1>. QED
  BY <1>3, WatchedAssumptions, Watched!SurroundingsStep DEF Watched!registryVars, monitorVars

---------------------------------------------------------------------------
(* All variables together *)

LEMMA TypeInvInit == Init => IInv /\ TypeInv
<1>. SUFFICES ASSUME Init PROVE IInv /\ TypeInv
  OBVIOUS
<1>1. IInv /\ Watched!IInv
  BY InvInit, WatchedInit
<1>2. ASSUME NEW s \in Services
      PROVE  shutdowns[s] <= Cardinality(Over(s)) /\ toggles[s] <= Cardinality(Toggled(s))
  <2>1. Cardinality(Over(s)) \in Nat /\ Cardinality(Toggled(s)) \in Nat
    BY MoreClicks DEF Over, Toggled
  <2>. QED  BY <2>1 DEF Init
<1>3. PageTypeOK
  BY DEF Init, Monitor!AllAvailable, PageTypeOK
<1>. QED  BY <1>1, <1>2, <1>3 DEF TypeInv, IInv, ClicksCount

LEMMA TypeInvStep == IInv /\ TypeInv /\ [Next]_vars => (IInv /\ TypeInv)'
<1>. SUFFICES ASSUME IInv, TypeInv, [Next]_vars PROVE (IInv /\ TypeInv)'
  OBVIOUS
<1>1. IInv'
  BY OnlyOwnSteps, NothingHappened, ClickStep, ProcessStep
<1>2. SwitchTypeOK /\ SwitchTypeOK'
  BY <1>1 DEF IInv
<1>3. ClicksCount'
  <2>1. CASE UNCHANGED <<serviceVars, clickVars>>
    BY <2>1 DEF TypeInv, ClicksCount, Over, Toggled, serviceVars, clickVars
  <2>. QED
    BY <1>2, <2>1, OnlyOwnSteps, CountClickStep, CountProcessStep DEF TypeInv
<1>4. available \in [Services -> BOOLEAN]
  BY DEF TypeInv, Watched!IInv, Watched!TypeOK
<1>5. PageTypeOK'
  BY <1>4
  DEF TypeInv, PageTypeOK, Next, vars, pageVars, Press, CallFails, Arrive, HandlerStep, Load,
      CompareAndSwap, Finish, CallbackFires, Exit, Crash, Ends, Restart, StartRound, ProbeStep,
      ProbeLost, Fetch, Render
<1>6. Watched!IInv'
  <2>1. \/ StartRound \/ \E s \in Services : ProbeStep(s) \/ ProbeLost(s)
        \/ UNCHANGED monitorVars /\ (disturbances' = disturbances \/ Monitor!Disturb)
    BY DEF Next, vars, Press, CallFails, Arrive, HandlerStep, Load, CompareAndSwap, Finish,
           CallbackFires, Exit, Crash, Ends, Restart, Fetch, Render
  <2>. QED  BY <2>1, WatchedStep, WatchedAtRest DEF TypeInv
<1>. QED  BY <1>1, <1>2, <1>3, <1>5, <1>6 DEF TypeInv

(* Every variable has its type, for any services and buttons; in           *)
(* particular ToggleHandler never has more shutdowns waiting at a service  *)
(* than there were clicks on it, each click adding at most one.            *)
THEOREM LifecycleTypeCorrect == Spec => []TypeOK
<1>1. TypeInv => TypeOK
  BY CountsInRange, WatchedType DEF TypeInv, TypeOK, SwitchTypeOK, PageTypeOK, Watched!IInv
<1>. QED  BY <1>1, TypeInvInit, TypeInvStep, PTL DEF Spec
=============================================================================
