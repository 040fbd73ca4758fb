------------------------------ MODULE Reachability ------------------------------
(***************************************************************************)
(* Whether the backend can be reached, and the screen that says it cannot  *)
(* (mobile/src/api/connectivity.ts, ConnectivityGate in mobile/App.tsx,    *)
(* mobile/src/components/OfflineScreen.tsx).                               *)
(*                                                                         *)
(* A probe of /health answers, or is aborted by its timeout; either way it *)
(* ends.  Setting the status, rendering the gate and running its effect    *)
(* are one step: no other event is handled between them.                   *)
(***************************************************************************)
EXTENDS Naturals

CONSTANT FailuresBeforeOffline

ASSUME OneFailureAtLeast == FailuresBeforeOffline \in Nat \ {0}

VARIABLES
  healthy,          (* /health answers within HEALTH_TIMEOUT_MS.              *)
  mounted,          (* The gate is on screen: its monitor is not disposed.    *)
  reach,            (* The status: "checking", "online" or "offline".         *)
  inFlight,         (* A probe is out.                                        *)
  poll,             (* The timer of the next probe: "none", "slow" or "fast". *)
  failures,         (* Failed probes in a row, as the monitor counts them.    *)
  stuckOffline,     (* The gate was offline and has not been online since.    *)
  missed            (* History: probes missed since the last that succeeded.  *)

reachVars == << healthy, mounted, reach, inFlight, poll, failures, stuckOffline, missed >>

\* Counters stop where nothing compares them any more.
Counted(n) == IF n > FailuresBeforeOffline THEN FailuresBeforeOffline ELSE n

ReachInit ==
  /\ healthy \in BOOLEAN
  /\ mounted = TRUE /\ reach = "checking" /\ stuckOffline = FALSE
  /\ inFlight = TRUE /\ poll = "none"
  /\ failures = 0 /\ missed = 0

\* onChange, and the gate's effect on the new status.
ShowStatus(s) ==
  /\ reach' = s
  /\ stuckOffline' = (s = "offline" \/ (stuckOffline /\ s # "online"))

\* One check at a time.
CheckHealth == inFlight' = TRUE

FailuresKept == IF healthy THEN failures ELSE Counted(failures + 1)
NextFailures == IF healthy THEN 0 ELSE Counted(failures + 1)

PollWhileOnline == IF healthy THEN "slow" ELSE "none"
NextPoll == IF healthy THEN "slow" ELSE "fast"

PingAnswers ==
  /\ mounted /\ inFlight
  /\ inFlight' = FALSE
  /\ failures' = NextFailures
  /\ missed' = IF healthy THEN 0 ELSE Counted(missed + 1)
  /\ ShowStatus(CASE healthy -> "online"
             [] ~healthy /\ failures' >= FailuresBeforeOffline -> "offline"
             [] OTHER -> reach)
  /\ poll' = NextPoll
  /\ UNCHANGED << healthy, mounted >>

\* A timer that fires while a probe is out is spent: the probe's answer sets another.
PollFires ==
  /\ poll # "none"
  /\ poll' = "none"
  /\ CheckHealth
  /\ UNCHANGED << healthy, mounted, reach, failures, stuckOffline, missed >>

OnAppStateActive ==
  /\ mounted
  /\ CheckHealth
  /\ UNCHANGED << healthy, mounted, reach, poll, failures, stuckOffline, missed >>

\* The gate shows OfflineScreen in place of the navigator.
ShowsOffline ==
  mounted /\ (reach = "offline" \/ (stuckOffline /\ reach = "checking"))

\* OfflineScreen's button, disabled while a retry runs.
RetryProbe ==
  /\ ShowsOffline /\ reach # "checking"
  /\ failures' = 0
  /\ ShowStatus("checking")
  /\ CheckHealth
  /\ UNCHANGED << healthy, mounted, poll, missed >>

\* The secure store failed to open: App renders its recovery screen and the gate
\* is unmounted.  The answer of the probe in flight is ignored.
DisposeGate ==
  /\ mounted
  /\ mounted' = FALSE /\ poll' = "none" /\ inFlight' = FALSE
  /\ UNCHANGED << healthy, reach, failures, stuckOffline, missed >>

MountGate ==
  /\ ~mounted
  /\ mounted' = TRUE /\ inFlight' = TRUE
  /\ reach' = "checking" /\ stuckOffline' = FALSE
  /\ failures' = 0 /\ missed' = 0
  /\ UNCHANGED << healthy, poll >>

NetworkChanges ==
  /\ healthy' = ~healthy
  /\ UNCHANGED << mounted, reach, inFlight, poll, failures, stuckOffline, missed >>

ReachNext ==
  \/ PingAnswers
  \/ PollFires
  \/ OnAppStateActive
  \/ RetryProbe
  \/ DisposeGate
  \/ MountGate
  \/ NetworkChanges

\* A probe ends by its timeout at the latest, and timers fire.
ReachFairness == WF_reachVars(PingAnswers) /\ WF_reachVars(PollFires)

ReachSpec == ReachInit /\ [][ReachNext]_reachVars /\ ReachFairness

ReachTypeOK ==
  /\ healthy \in BOOLEAN /\ mounted \in BOOLEAN
  /\ inFlight \in BOOLEAN /\ stuckOffline \in BOOLEAN
  /\ reach \in {"checking", "online", "offline"}
  /\ poll \in {"none", "slow", "fast"}
  /\ failures \in 0 .. FailuresBeforeOffline /\ missed \in 0 .. FailuresBeforeOffline

(***************************************************************************)
(* Properties                                                              *)
(***************************************************************************)

\* The offline screen, which tears the lesson under it down, comes up only after
\* FAILURES_BEFORE_OFFLINE probes missed in a row with no success between them,
\* and while the gate is mounted only a probe that succeeded takes it away: no
\* retry, no foreground check and no late answer does.
OfflineOnEvidence ==
  [][ /\ ~ShowsOffline /\ ShowsOffline' => missed' >= FailuresBeforeOffline
      /\ ShowsOffline /\ ~ShowsOffline' /\ mounted' => healthy /\ reach' = "online" ]_reachVars

\* The screen follows the server: when /health keeps answering it ends up away,
\* and when /health keeps failing under a mounted gate it ends up shown, whatever
\* retries and foreground checks are mixed with the polls.
GateFollowsServer ==
  /\ <>[]healthy => <>[]~ShowsOffline
  /\ <>[](~healthy /\ mounted) => <>[]ShowsOffline
=============================================================================
