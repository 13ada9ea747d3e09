------------------------------ MODULE Serving ------------------------------
(***************************************************************************)
(* Two parts of the backend that share no state: what happens to a Batch   *)
(* on its way to a Run and to ComfyUI (Planning), and the registry of      *)
(* executor tasks, of which this module claims progress only; its safety   *)
(* is checked by itself.  A behaviour exercises one machine of the first   *)
(* or the second, and leaves the others in one of their initial states.    *)
(***************************************************************************)
EXTENDS Planning

CONSTANTS Runs, Clients, NoRequest, CallersCancel, MaxFaults   \* TaskRegistry

VARIABLES disk, intents, orphans, task, cancelled, starts, flags, active, owner, releases,
          closing, drain, snapshot, place, local, faults

Registry == INSTANCE TaskRegistry WITH pc <- place

planning == <<ranging, compiling, defining, submitting, reading>>
registering == <<disk, intents, orphans, task, cancelled, starts, flags, active, owner, releases,
                 closing, drain, snapshot, place, local, faults>>
serving == <<which, planning, registering>>

ServingInit ==
  /\ \/ PlanningInit
     \/ /\ which = "registry" /\ Idle
        /\ Init /\ Compiler!Init /\ Definition!Init /\ Preparation!Init /\ Record!Init
  /\ Registry!Init

ServingNext ==
  \/ PlanningNext /\ UNCHANGED registering
  \/ which = "registry" /\ Registry!Next /\ UNCHANGED <<which, planning>>

\* The fairness of Registry!FairSpec, of a registry that is exercised.
Fair(Step) == which = "registry" /\ Step
ServingFairness ==
  /\ \A c \in Clients : SF_registering(Fair(Registry!ClientStep(c)))
  /\ \A t \in Registry!Tasks : WF_registering(Fair(Registry!TaskStep(t)))
  /\ SF_registering(Fair(Registry!Snapshot))
  /\ WF_registering(Fair(Registry!Joined))
  /\ SF_registering(Fair(Registry!Clear))

ServingSpec ==
  ServingInit /\ [][ServingNext]_serving /\ ServingFairness

(* Every start, discard, stop and detach of a Run is answered, whoever is   *)
(* cancelled while waiting for the lock or holding it                      *)
(* (application/tasks.py, application/cancellation.py).                    *)
RequestsAnswered == Registry!RequestsAnswered

(* A shutdown that has begun drains every task (application/tasks.py).      *)
ShutdownDrains == Registry!ShutdownDrains
=============================================================================
