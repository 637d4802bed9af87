--------------------------- MODULE Lifecycle ---------------------------
(***************************************************************************)
(* The life cycle of the services behind the gateway: the kill switch      *)
(* (internal/killswitch), toggled from the dashboard through the gateway   *)
(* (writeAdminToggleProxyHandler), the shutdown it schedules (the callback *)
(* every cmd/*/main.go registers), the draining server                     *)
(* (tlsserver.ListenAndServe) and the restart by Compose, composed with    *)
(* the Heartbeat that watches them: here the health it probes is no free   *)
(* variable but what process and switch make of it.  The dashboard shows   *)
(* what the heartbeat knew when it was asked, and is what users go by when *)
(* they press a button.                                                    *)
(***************************************************************************)
EXTENDS Integers, Sequences, FiniteSets

CONSTANTS
    Services, Capacity, FailureThreshold, MaxFailures,    \* of Heartbeat
    MaxDisturbances,    \* bound: lost probes and crashes
    Clicks              \* the presses of a Kill or Revive button

ASSUME ClicksAssumption == IsFiniteSet(Clicks)
ASSUME HeartbeatAssumption ==
    /\ Services # {}
    /\ Capacity \in Nat \ {0}
    /\ FailureThreshold \in Nat \ {0}
    /\ MaxFailures \in Nat
    /\ MaxFailures >= FailureThreshold
    /\ MaxDisturbances \in Nat

VARIABLES
    \* The services
    process,        \* "serving", "draining", "exited"
    killed,         \* isCurrentlyKilled
    shutdowns,      \* how many callbacks sleep through their grace period
    \* One POST /admin/toggle per click
    target,         \* the service whose button was pressed
    toggle,         \* "new", "sent", "loading", "loaded", "toggled", "over" (answered or not)
    previous,       \* previousValue in Toggle
    toggles,        \* history: per service, the toggles since its process started
    \* The gateway's heartbeat
    probe, failures, available, eventRing, eventLog, outcomes, disturbances,
    \* A dashboard page
    fetched,        \* answers of /administration/status that are not rendered yet
    shown           \* the status it shows: UP with a Kill button, or DOWN with Revive

clickVars == <<target, toggle, previous>>
serviceVars == <<process, killed, shutdowns, toggles>>
monitorVars == <<probe, failures, available, eventRing, eventLog, outcomes>>
pageVars == <<fetched, shown>>
vars == <<serviceVars, clickVars, monitorVars, disturbances, pageVars>>

(* Only a serving process that simulates no outage answers /health with    *)
(* 200: the switch's middleware comes before the route.                    *)
Healthy == [s \in Services |-> process[s] = "serving" /\ ~killed[s]]

Monitor ==
    INSTANCE Heartbeat WITH health <- Healthy, running <- TRUE, SyntheticServices <- {}

Init ==
    /\ process = [s \in Services |-> "serving"]
    /\ killed = [s \in Services |-> FALSE]
    /\ shutdowns = [s \in Services |-> 0]
    /\ toggles = [s \in Services |-> 0]
    /\ target \in [Clicks -> Services]
    /\ toggle = [c \in Clicks |-> "new"]
    /\ previous = [c \in Clicks |-> FALSE]
    /\ probe = Monitor!NoProbe
    /\ failures = Monitor!NoFailure
    /\ available = Monitor!AllAvailable
    /\ eventRing = Monitor!EmptyRing
    /\ eventLog = <<>>
    /\ outcomes = Monitor!NoOutcome
    /\ disturbances = 0
    /\ fetched = {}
    /\ shown = available

---------------------------------------------------------------------------
(* The gateway passes a click on, whatever it knows of the service.        *)

Goes(c, from, to) == toggle[c] = from /\ toggle' = [toggle EXCEPT ![c] = to]

Press(c) ==
    /\ Goes(c, "new", "sent")
    /\ UNCHANGED <<serviceVars, target, previous, monitorVars, disturbances, pageVars>>

(* No connection, or a lost request: the dashboard shows a 502.            *)
CallFails(c) ==
    /\ Goes(c, "sent", "over")
    /\ UNCHANGED <<serviceVars, target, previous, monitorVars, disturbances, pageVars>>

(* The middleware lets POST /admin/toggle pass, killed or not.             *)
Arrive(c) ==
    /\ process[target[c]] = "serving"
    /\ Goes(c, "sent", "loading")
    /\ UNCHANGED <<serviceVars, target, previous, monitorVars, disturbances, pageVars>>

---------------------------------------------------------------------------
(* Toggle: load, compare and swap, until it succeeds.                      *)

Load(c) ==
    /\ Goes(c, "loading", "loaded")
    /\ previous' = [previous EXCEPT ![c] = killed[target[c]]]
    /\ UNCHANGED <<serviceVars, target, monitorVars, disturbances, pageVars>>

(* Mutant: a plain store instead of the CompareAndSwap.                    *)
StoreBlindly(c) ==
    /\ Goes(c, "loaded", "toggled")
    /\ killed' = [killed EXCEPT ![target[c]] = ~previous[c]]
    /\ toggles' = [toggles EXCEPT ![target[c]] = @ + 1]
    /\ UNCHANGED <<process, shutdowns, target, previous, monitorVars, disturbances, pageVars>>

CompareAndSwap(c) ==
    /\ \/ /\ killed[target[c]] = previous[c]
          /\ Goes(c, "loaded", "toggled")
          /\ killed' = [killed EXCEPT ![target[c]] = ~previous[c]]
          /\ toggles' = [toggles EXCEPT ![target[c]] = @ + 1]
       \/ /\ killed[target[c]] # previous[c]
          /\ Goes(c, "loaded", "loading")
          /\ UNCHANGED <<killed, toggles>>
    /\ UNCHANGED <<process, shutdowns, target, previous, monitorVars, disturbances, pageVars>>

(* Mutant: nobody has registered a callback.                               *)
FinishWithoutCallback(c) ==
    /\ Goes(c, "toggled", "over")
    /\ UNCHANGED <<serviceVars, target, previous, monitorVars, disturbances, pageVars>>

(* ToggleHandler writes the new state and, if that is "killed", starts the *)
(* callback; previousValue goes out of scope.                              *)
Finish(c) ==
    /\ Goes(c, "toggled", "over")
    /\ shutdowns' = IF previous[c] THEN shutdowns
                    ELSE [shutdowns EXCEPT ![target[c]] = @ + 1]
    /\ previous' = [previous EXCEPT ![c] = FALSE]
    /\ UNCHANGED <<process, killed, toggles, target, monitorVars, disturbances, pageVars>>

---------------------------------------------------------------------------
(* The end of a process and the next one. *)

(* The grace period is over and the callback cancels the root context,     *)
(* whereupon ListenAndServe takes no more connections.  The switch is not  *)
(* looked at again, and a second cancellation does nothing.                *)
CallbackFires(s) ==
    /\ shutdowns[s] > 0
    /\ shutdowns' = [shutdowns EXCEPT ![s] = @ - 1]
    /\ process' = [process EXCEPT ![s] = IF @ = "serving" THEN "draining" ELSE @]
    /\ UNCHANGED <<killed, toggles, clickVars, monitorVars, disturbances, pageVars>>

InHandler(c) == toggle[c] \in {"loading", "loaded", "toggled"}

Ends(s) ==
    /\ process' = [process EXCEPT ![s] = "exited"]
    /\ shutdowns' = [shutdowns EXCEPT ![s] = 0]
    /\ toggle' = [c \in Clicks |->
           IF target[c] = s /\ InHandler(c) THEN "over" ELSE toggle[c]]
    /\ previous' = [c \in Clicks |-> target[c] # s /\ previous[c]]
    /\ UNCHANGED <<killed, toggles, target, monitorVars, pageVars>>

(* Shutdown returns, with the handlers done or shutdownGracePeriod over.   *)
Exit(s) ==
    /\ process[s] = "draining"
    /\ Ends(s)
    /\ UNCHANGED disturbances

Crash(s) ==
    /\ process[s] # "exited"
    /\ Monitor!Disturb
    /\ Ends(s)

(* Compose starts the service again; its switch is new.                    *)
Restart(s) ==
    /\ process[s] = "exited"
    /\ process' = [process EXCEPT ![s] = "serving"]
    /\ killed' = [killed EXCEPT ![s] = FALSE]
    /\ toggles' = [toggles EXCEPT ![s] = 0]
    /\ UNCHANGED <<shutdowns, clickVars, monitorVars, disturbances, pageVars>>

---------------------------------------------------------------------------
(* The heartbeat watches. *)

StartRound == UNCHANGED <<serviceVars, clickVars, pageVars>> /\ Monitor!StartRound
ProbeStep(s) == UNCHANGED <<serviceVars, clickVars, pageVars>> /\ Monitor!ProbeStep(s)
ProbeLost(s) == UNCHANGED <<serviceVars, clickVars, pageVars>> /\ Monitor!ProbeLost(s)

---------------------------------------------------------------------------
(* The dashboard page asks again and again, and after every click; nothing *)
(* keeps a later answer from being rendered before an earlier one.         *)

Fetch ==
    /\ fetched' = fetched \cup {available}
    /\ UNCHANGED <<serviceVars, clickVars, monitorVars, disturbances, shown>>

Render(status) ==
    /\ status \in fetched
    /\ fetched' = fetched \ {status}
    /\ shown' = status
    /\ UNCHANGED <<serviceVars, clickVars, monitorVars, disturbances>>

HandlerStep(c) == Load(c) \/ CompareAndSwap(c) \/ Finish(c)

Next ==
    \/ \E c \in Clicks : Press(c) \/ CallFails(c) \/ Arrive(c) \/ HandlerStep(c)
    \/ \E s \in Services :
         CallbackFires(s) \/ Exit(s) \/ Crash(s) \/ Restart(s) \/ ProbeStep(s) \/ ProbeLost(s)
    \/ StartRound \/ Fetch
    \/ \E status \in [Services -> BOOLEAN] : Render(status)

Spec == Init /\ [][Next]_vars

(* Goroutines run, the grace periods pass, Compose restarts what exits     *)
(* ("unless-stopped"), and the heartbeat beats.  Nobody need press a       *)
(* button.                                                                 *)
FairSpec ==
    /\ Spec
    /\ \A c \in Clicks : WF_vars(HandlerStep(c))
    /\ \A s \in Services :
         /\ WF_vars(CallbackFires(s)) /\ WF_vars(Exit(s)) /\ WF_vars(Restart(s))
         /\ WF_vars(ProbeStep(s))
    /\ WF_vars(StartRound) /\ WF_vars(Fetch)
    /\ \A status \in [Services -> BOOLEAN] : WF_vars(Render(status))

---------------------------------------------------------------------------
(* Properties *)

(* Every variable has its type; the heartbeat's are those of Heartbeat.    *)
TypeOK ==
    /\ process \in [Services -> {"serving", "draining", "exited"}]
    /\ killed \in [Services -> BOOLEAN]
    /\ shutdowns \in [Services -> 0 .. Cardinality(Clicks)]
    /\ toggles \in [Services -> 0 .. Cardinality(Clicks)]
    /\ target \in [Clicks -> Services]
    /\ toggle \in [Clicks ->
           {"new", "sent", "loading", "loaded", "toggled", "over"}]
    /\ previous \in [Clicks -> BOOLEAN]
    /\ Monitor!TypeOK
    /\ fetched \subseteq [Services -> BOOLEAN]
    /\ shown \in [Services -> BOOLEAN]

(* Toggle promises that two toggles at once do not pass each other by: the *)
(* switch is on exactly after an odd number of them.                       *)
NoToggleIsLost == \A s \in Services : killed[s] <=> toggles[s] % 2 = 1

(* A service that simulates an outage is on its way out: a shutdown is     *)
(* scheduled, about to be, or under way, however many buttons were pressed *)
(* in between.                                                             *)
KilledServicesAreDoomed ==
    \A s \in Services : killed[s] =>
        \/ process[s] # "serving"
        \/ shutdowns[s] > 0
        \/ \E c \in Clicks : target[c] = s /\ toggle[c] = "toggled" /\ ~previous[c]

(* Every simulated outage ends with a healthy service.                     *)
KilledServicesComeBack == \A s \in Services : killed[s] ~> Healthy[s]

(* In the end, whatever buttons were pressed, every service is healthy,    *)
(* the gateway sends requests to it, and the dashboard offers no Revive    *)
(* button that would kill it.                                              *)
ShopRecovers == <>[](\A s \in Services : Healthy[s] /\ available[s] /\ shown[s])

(* What killswitch.go says of the toggle: there is always a way back.  A   *)
(* service whose switch is off does not go away.                           *)
StopsOnlyWhenKilled ==
    [][\A s \in Services :
          process[s] = "serving" /\ process'[s] = "draining" => killed[s]]_vars
=============================================================================
