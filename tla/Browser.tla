------------------------------ MODULE Browser ------------------------------
(***************************************************************************)
(* The two clients of the browser that keep state of their own: the        *)
(* editors of Saved Batches and the monitor of the current Run.  They      *)
(* share no state; a behaviour exercises one of them.                      *)
(***************************************************************************)
EXTENDS SavedBatch

CONSTANTS Runs, Patience, MaxResults, MaxEvents

VARIABLES which,
          server, view, shown, listed, polling, loop, failures, note, listing, actions, hydration,
          late, events, disturbed

Monitor == INSTANCE RunMonitor

ASSUME BrowserAssumption == Monitor!MonitorAssumption

monitoring == <<server, view, shown, listed, polling, loop, failures, note, listing, actions,
                hydration, late, events, disturbed>>

BrowserInit ==
  /\ which \in {"editors", "monitor"}
  /\ which = "monitor" => form = [e \in Editors |-> CHOOSE f \in Forms : TRUE]
  /\ Init
  /\ Monitor!Init

EditorsNext == which = "editors" /\ Next /\ UNCHANGED <<which, monitoring>>
MonitorNext == which = "monitor" /\ Monitor!Next /\ UNCHANGED <<which, vars>>

BrowserNext == EditorsNext \/ MonitorNext

BrowserSpec == BrowserInit /\ [][BrowserNext]_<<which, monitoring, vars>>

(* Whatever is lost, answers late, is crossed or overtaken, the monitor     *)
(* shows nothing but the current Run; a Run shown as over is over, and its *)
(* Results are all listed unless a listing is under way or failed.  An     *)
(* answer overtaken by a whole Run may show as left by its task a Run that *)
(* has ended (useRunExecution.ts, GET /api/runs/{run_id}/execution).       *)
MonitorIsTrue == Monitor!MonitorIsTrue

(* When the monitor has stopped asking, and shows no error, the status it  *)
(* shows is the Run's and no task is left, except after an overtaken       *)
(* answer, a reading that a command crossed, a late answer of the polling  *)
(* or a late command, and then until the next reading.                     *)
RestsOnTruth == Monitor!RestsOnTruth
=============================================================================
