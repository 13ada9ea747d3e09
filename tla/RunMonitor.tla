----------------------------- MODULE RunMonitor -----------------------------
(***************************************************************************)
(* The monitor of the current Run in one browser tab                       *)
(* (frontend/src/features/run/useRunExecution.ts): it polls the execution  *)
(* of the Run, starts, discards, stops and detaches it, lists its Results  *)
(* again whenever an observation calls for it, and is given another Run or *)
(* a fresh reading of the same one by App.tsx.  Requests may be lost on    *)
(* their way or on the way back.  GET execution (api/app.py) reads in      *)
(* three steps, between which the Run goes on: the first includes the wait *)
(* for the next poll, the last reads the cancellation with the task.       *)
(*                                                                         *)
(* React renders, and starts or disposes the polling effect, some time     *)
(* after the state was set (Render).  Nobody but this tab controls the     *)
(* Runs.  All ends of a Run are one status.                                *)
(***************************************************************************)
EXTENDS Naturals

CONSTANTS Runs,
          Patience,    \* failed polls, or polls of a created Run, in a row: 3
          MaxResults,  \* bound on the Results of a Run
          MaxEvents,   \* bound on the user's actions and the failed requests
          None

VARIABLES server,     \* each Run's record, task, cancellation and Results
          view,       \* the current Run and its lifetime
          shown,      \* execution
          listed,     \* results, and their Run
          polling,    \* the state; loop: the effect that was made for it
          loop,
          failures,   \* executionFailures
          note,       \* the refs of reconciliations, and whether an error is shown
          listing,    \* resultsRefresh
          actions,    \* the user's requests under way
          hydration,  \* the reading of App.tsx under way
          late,       \* requests given up that may still reach the server
          events,     \* how many of them there were
          disturbed   \* the Run may have moved on unseen since it was last read

vars == <<server, view, shown, listed, polling, loop, failures, note, listing, actions,
          hydration, late, events, disturbed>>

\* No Run, or None, is one of the other; the bounds are numbers.
MonitorAssumption ==
  /\ None \notin Runs
  /\ Patience \in Nat /\ MaxResults \in Nat /\ MaxEvents \in Nat

\* A request under way, how far it is, and what it has read of its Run.  A
\* command has a kind and the lifetime it belongs to; a reading remembers if
\* the task had begun, if the Run began and was over before it was done, and
\* if a command crossed it.
Off == [at |-> "off", run |-> None, status |-> "created", active |-> FALSE, mode |-> "none",
        results |-> 0, begun |-> FALSE, overtaken |-> FALSE, crossed |-> FALSE,
        kind |-> "none", scope |-> 0]
Asking(r) == [Off EXCEPT !.at = "sample", !.run = r]

\* An execution response.
Response(q) == [run |-> q.run, status |-> q.status, active |-> q.active, mode |-> q.mode,
                results |-> q.results, overtaken |-> q.overtaken]
Unread == Response(Off)

Quiet == [reconciliation |-> "none", createdPolls |-> 0, stop |-> FALSE, detach |-> FALSE,
          stopRetry |-> FALSE, detachRetry |-> FALSE, unavailable |-> FALSE, error |-> FALSE]
NotListing == [at |-> "idle", observation |-> [results |-> 0, end |-> "none"], behind |-> FALSE,
               failed |-> FALSE, results |-> 0]

IsCurrent(a) == a.scope = view.scope
Busy(kinds) == \E a \in actions : IsCurrent(a) /\ a.kind \in kinds

\* A state that was set and is not rendered yet.
Pending == polling # (loop.at # "off")

-----------------------------------------------------------------------------
(* The server. *)

ReadSteps == {"sample", "state", "again"}

\* Seeded fault: the task is looked up after the record only.
SampledAfter(q) == FALSE

\* Sample before state so completion cannot strand a pre-terminal snapshot.
Sampled(q) == server[q.run].active

\* Neither look found the task that the Run had in between.
Overtaken(q, s) ==
  ~q.begun /\ ~q.active /\ ~s.active /\ <<q.status, q.results>> # <<s.status, s.results>>

Advance(q) ==
  LET s == server[q.run] IN
  CASE q.at = "sample" -> [q EXCEPT !.at = "state", !.active = Sampled(q), !.begun = s.active]
    [] q.at = "state" -> [q EXCEPT !.at = "again", !.status = s.status, !.results = s.results]
    [] q.at = "again" -> [q EXCEPT !.at = "answered", !.active = q.active \/ s.active,
                                   !.mode = s.mode, !.begun = FALSE,
                                   !.overtaken = Overtaken(q, s)]

Outranks == [none |-> 0, stop |-> 1, detach |-> 2]

\* How the server may answer a request, and what it makes of the Run.
Handled(kind, r) ==
  LET s == server[r]
      same(answer) == [answer |-> answer, run |-> s]
      done(new) == [answer |-> "ok", run |-> new] IN
  CASE kind = "start" ->
         IF \E q \in Runs : server[q].active THEN {same("failed")}
         ELSE IF s.status # "created" \/ s.mode = "detach" THEN {same("ineligible")}
         ELSE {done([s EXCEPT !.active = TRUE])}
    [] kind = "discard" ->
         IF s.status = "ended" /\ ~s.active THEN {same("ok"), same("ineligible")}
         ELSE IF s.active \/ s.status # "created" THEN {same("ineligible")}
         ELSE {done([s EXCEPT !.status = "ended"])}
    [] kind \in {"stop", "detach"} ->
         IF s.mode = kind THEN {same("ok")}
         ELSE IF s.status = "ended" THEN {same("ok"), same("ineligible")}
         ELSE IF ~s.active THEN {same("ineligible")}
         ELSE {done([s EXCEPT !.mode = IF Outranks[s.mode] > Outranks[kind] THEN @ ELSE kind])}

RunGoesOn(r) ==
  /\ server[r].active
  /\ \E new \in {[server[r] EXCEPT !.status = "running"],
                 [server[r] EXCEPT !.status = "ended"],
                 [server[r] EXCEPT !.results = @ + 1],
                 [server[r] EXCEPT !.active = FALSE]} :
       /\ new.status = "running" => server[r].status # "ended"
       /\ new.results > server[r].results =>
            server[r].status = "running" /\ new.results <= MaxResults
       /\ server' = [server EXCEPT ![r] = new]
  /\ UNCHANGED <<view, shown, listed, polling, loop, failures, note, listing, actions,
                 hydration, late, events, disturbed>>

\* A command that the lifetime in view does not wait for is handled: nothing
\* reads its Run again, unless it is being polled.
Unawaited(r) ==
  /\ disturbed' = (disturbed \/ (r = view.run /\ ~polling))
  /\ hydration' = [hydration EXCEPT !.crossed = @ \/ (hydration.at # "off" /\ hydration.run = r)]

HandleAction(a) ==
  /\ a.at = "sent"
  /\ \E h \in Handled(a.kind, a.run) :
       /\ server' = [server EXCEPT ![a.run] = h.run]
       /\ actions' = (actions \ {a}) \union {[a EXCEPT !.at = h.answer, !.results = h.run.results]}
  /\ IF IsCurrent(a) THEN UNCHANGED <<disturbed, hydration>> ELSE Unawaited(a.run)
  /\ UNCHANGED <<view, shown, listed, polling, loop, failures, note, listing, late, events>>

HandleLate(l) ==
  /\ \E h \in Handled(l.kind, l.run) : server' = [server EXCEPT ![l.run] = h.run]
  /\ late' = late \ {l}
  /\ Unawaited(l.run)
  /\ UNCHANGED <<view, shown, listed, polling, loop, failures, note, listing, actions, events>>

Read ==
  /\ \/ /\ loop.at \in ReadSteps
        /\ loop' = Advance(loop)
        /\ UNCHANGED <<listing, actions, hydration>>
     \/ /\ hydration.at \in ReadSteps
        /\ hydration' = Advance(hydration)
        /\ UNCHANGED <<loop, listing, actions>>
     \/ /\ \E a \in actions : a.at \in ReadSteps /\ actions' = (actions \ {a}) \union {Advance(a)}
        /\ UNCHANGED <<loop, listing, hydration>>
     \/ /\ listing.at = "sent"
        /\ listing' = [listing EXCEPT !.at = "answered", !.results = server[view.run].results]
        /\ UNCHANGED <<loop, actions, hydration>>
  /\ UNCHANGED <<server, view, shown, listed, polling, failures, note, late, events, disturbed>>

\* A request or its answer is lost; a command may have reached the server, or
\* be on its way to it.
Lose ==
  /\ events < MaxEvents
  /\ events' = events + 1
  /\ \/ /\ loop.at \in ReadSteps
        /\ loop' = [loop EXCEPT !.at = "lost"]
        /\ UNCHANGED <<listing, actions, late>>
     \/ /\ listing.at = "sent"
        /\ listing' = [listing EXCEPT !.at = "lost"]
        /\ UNCHANGED <<loop, actions, late>>
     \/ /\ \E a \in actions :
             /\ a.at \in {"sent", "ok", "ineligible", "failed"} \union ReadSteps
             /\ actions' = (actions \ {a}) \union
                             {[a EXCEPT !.at = IF a.at \in ReadSteps THEN "unread" ELSE "lost"]}
             /\ late' = IF a.at = "sent" THEN late \union {[kind |-> a.kind, run |-> a.run]} ELSE late
        /\ UNCHANGED <<loop, listing>>
  /\ UNCHANGED <<server, view, shown, listed, polling, failures, note, hydration, disturbed>>

-----------------------------------------------------------------------------
(* requestResults: one listing at a time, for the last need. *)

Dispatched(l) == [l EXCEPT !.at = "sent", !.behind = FALSE]

Signature(q) ==
  [results |-> q.results,
   end |-> IF q.status = "ended" THEN "ended"
           ELSE IF q.status = "running" /\ ~q.active THEN "inactive" ELSE "null"]

\* Seeded fault: a need that arises during a listing is forgotten.
NeedingOnce(l) == IF l.at = "idle" THEN Dispatched(l) ELSE l

Needing(l) == IF l.at = "idle" THEN Dispatched(l) ELSE [l EXCEPT !.behind = TRUE]

Observed(l, q) ==
  IF Signature(q) # l.observation THEN Needing([l EXCEPT !.observation = Signature(q)])
  ELSE IF l.failed /\ l.at = "idle" THEN Dispatched(l)
  ELSE l

EndListing ==
  /\ listing.at \in {"answered", "lost"}
  /\ IF listing.at = "answered"
     THEN listed' = [run |-> view.run, results |-> listing.results]
     ELSE UNCHANGED listed
  /\ LET over == [listing EXCEPT !.at = "idle", !.failed = (listing.at = "lost")]
     IN  listing' = IF over.behind THEN Dispatched(over) ELSE over
  /\ UNCHANGED <<server, view, shown, polling, loop, failures, note, actions, hydration, late,
                 events, disturbed>>

RefreshResults ==
  /\ view.run # None
  /\ events < MaxEvents
  /\ events' = events + 1
  /\ listing' = Needing(listing)
  /\ UNCHANGED <<server, view, shown, listed, polling, loop, failures, note, actions,
                 hydration, late, disturbed>>

-----------------------------------------------------------------------------
(* The polling effect. *)

\* The effect follows the state.
Render ==
  /\ Pending
  /\ loop' = IF polling THEN Asking(view.run) ELSE Off
  /\ UNCHANGED <<server, view, shown, listed, polling, failures, note, listing, actions,
                 hydration, late, events, disturbed>>

\* A cancellation that the tab knows of does not go away while the Run goes on.
Merged(old, new) ==
  IF new.status = "running" /\ Outranks[old.mode] > Outranks[new.mode]
  THEN [new EXCEPT !.mode = old.mode]
  ELSE new

\* The notes on an ambiguous stop or detach after a reading.
Reconciled(n, q) ==
  LET goesOn == q.status = "running"
      stopRetry == IF n.stop THEN goesOn /\ q.mode = "none" ELSE n.stopRetry
      detachRetry == IF n.detach THEN goesOn /\ q.mode # "detach" ELSE n.detachRetry IN
  [n EXCEPT !.stop = FALSE, !.detach = FALSE,
            !.stopRetry = stopRetry /\ q.mode = "none" /\ q.status # "ended",
            !.detachRetry = detachRetry /\ q.mode # "detach" /\ q.status # "ended",
            !.error = IF n.detach THEN detachRetry ELSE IF n.stop THEN stopRetry ELSE n.error]

IsOver(q) == q.status = "ended" \/ (q.status = "running" /\ ~q.active)

Polled ==
  /\ loop.at = "answered"
  /\ shown' = Merged(shown, Response(loop))
  /\ failures' = 0
  /\ listing' = Observed(listing, loop)
  /\ LET n == Reconciled(note, loop)
         waits == n.reconciliation # "none" /\ loop.status = "created"
         gone == waits /\ n.createdPolls + 1 >= Patience IN
     /\ note' = IF gone
                THEN [n EXCEPT !.unavailable = (n.reconciliation = "discard"), !.error = TRUE,
                               !.reconciliation = "none", !.createdPolls = @ + 1]
                ELSE IF waits THEN [n EXCEPT !.createdPolls = @ + 1]
                ELSE [n EXCEPT !.reconciliation = "none", !.unavailable = FALSE,
                               !.error = @ /\ (n.stopRetry \/ n.detachRetry)]
     /\ IF gone \/ IsOver(loop)
        THEN polling' = FALSE /\ loop' = [loop EXCEPT !.at = "ended"]
        ELSE loop' = Asking(view.run) /\ UNCHANGED polling
  /\ disturbed' = ~(polling \/ IsOver(loop))  \* answered after setPolling(false)
  /\ UNCHANGED <<server, view, listed, actions, hydration, late, events>>

PollFails ==
  /\ loop.at = "lost"
  /\ failures' = failures + 1
  /\ note' = [note EXCEPT !.error = TRUE]
  /\ \E transient \in BOOLEAN :
       IF ~transient \/ failures + 1 >= Patience
       THEN polling' = FALSE /\ loop' = [loop EXCEPT !.at = "ended"]
       ELSE loop' = Asking(view.run) /\ UNCHANGED polling
  /\ UNCHANGED <<server, view, shown, listed, listing, actions, hydration, late, events,
                 disturbed>>

-----------------------------------------------------------------------------
(* start, discard, stopAfterCurrentJob, detachFromCurrentJob. *)

MayClick(kind) ==
  /\ view.run # None
  /\ IF kind \in {"start", "discard"}
     THEN /\ ~Busy({"start", "discard", "discarding"}) /\ ~polling /\ ~note.unavailable
          /\ shown.status = "created"
     ELSE /\ ~Busy({"stop", "detach"}) /\ ~note.stop /\ ~note.detach
          /\ shown.status = "running"
          /\ IF kind = "stop" THEN shown.mode = "none" ELSE shown.mode # "detach"

Click(kind) ==
  /\ MayClick(kind) /\ ~Pending
  /\ events < MaxEvents
  /\ events' = events + 1
  /\ actions' = actions \union
       {[Asking(view.run) EXCEPT !.at = "sent", !.kind = kind, !.scope = view.scope]}
  /\ note' = CASE kind \in {"start", "discard"} ->
                    [note EXCEPT !.reconciliation = "none", !.unavailable = FALSE, !.error = FALSE]
               [] kind = "stop" -> [note EXCEPT !.stopRetry = FALSE, !.error = FALSE]
               [] kind = "detach" -> [note EXCEPT !.detachRetry = FALSE, !.error = FALSE]
  /\ UNCHANGED <<server, view, shown, listed, polling, loop, failures, listing, hydration,
                 late, disturbed>>

\* What the answer of a command does to the browser, whose lifetime it is.
Settle(a) ==
  /\ actions' = actions \ {a}
  /\ disturbed' = FALSE
  /\ hydration' = [hydration EXCEPT !.crossed = hydration.at # "off"]
  /\ UNCHANGED <<server, view, listed, loop, failures, late, events>>

\* A late answer to an earlier lifetime: resultsRefresh.current !== scope.
Ignored(a) ==
  /\ ~IsCurrent(a)
  /\ a.at \notin {"sent"} \union ReadSteps
  /\ actions' = actions \ {a}
  /\ UNCHANGED <<server, view, shown, listed, polling, loop, failures, note, listing,
                 hydration, late, events, disturbed>>

Accepted(a) ==
  /\ IsCurrent(a)
  /\ a.at = "ok"
  /\ CASE a.kind = "start" -> polling' = TRUE /\ UNCHANGED <<shown, listing>>
       [] a.kind = "discard" ->
            LET over == [Response(a) EXCEPT !.status = "ended"] IN
            polling' = FALSE /\ shown' = over /\ listing' = Observed(listing, over)
       [] a.kind \in {"stop", "detach"} ->
            /\ polling' = TRUE
            /\ shown' = [shown EXCEPT !.mode = a.kind]
            /\ UNCHANGED listing
  /\ UNCHANGED note
  /\ Settle(a)

\* No answer: durable state will tell.
Ambiguous(a) ==
  /\ IsCurrent(a)
  /\ a.at = "lost"
  /\ a.kind # "discard"
  /\ polling' = TRUE
  /\ note' = CASE a.kind = "start" ->
                    [note EXCEPT !.error = TRUE, !.createdPolls = 0, !.reconciliation = "start"]
               [] a.kind = "stop" -> [note EXCEPT !.error = TRUE, !.stop = TRUE]
               [] a.kind = "detach" -> [note EXCEPT !.error = TRUE, !.detach = TRUE]
  /\ UNCHANGED <<shown, listing>>
  /\ Settle(a)

\* The execution is read before the refusal is shown.
Refused(a) ==
  /\ IsCurrent(a)
  /\ a.at = "ineligible" \/ (a.kind = "discard" /\ a.at \in {"failed", "lost"})
  /\ actions' = (actions \ {a}) \union
       {[a EXCEPT !.at = "sample", !.kind = IF a.at = "ineligible" THEN @ ELSE "discarding"]}
  /\ UNCHANGED <<server, view, shown, listed, polling, loop, failures, note, listing,
                 hydration, late, events, disturbed>>

Failed(a) ==
  /\ IsCurrent(a)
  /\ a.at = "unread" \/ (a.at = "failed" /\ a.kind # "discard")
  /\ note' = [note EXCEPT !.error = TRUE]
  /\ UNCHANGED <<shown, polling, listing>>
  /\ Settle(a)

ReadAfterRefusal(a) ==
  /\ IsCurrent(a)
  /\ a.at = "answered"
  /\ shown' = Response(a)
  /\ listing' = Observed(listing, a)
  /\ LET idle == a.status = "created" /\ ~a.active IN
     CASE a.kind = "start" ->
            /\ note' = [note EXCEPT !.unavailable = idle, !.error = idle]
            /\ polling' = a.active
       [] a.kind = "discard" /\ a.status = "created" ->
            /\ note' = [note EXCEPT !.createdPolls = 0, !.reconciliation = "discard", !.error = TRUE]
            /\ polling' = TRUE
       [] a.kind = "discarding" \/ (a.kind = "discard" /\ a.status # "created") ->
            /\ note' = [note EXCEPT !.unavailable = FALSE, !.error = (a.status = "created")]
            /\ polling' = a.active
       [] a.kind \in {"stop", "detach"} ->
            /\ note' = [note EXCEPT !.error = ~IsOver(a)]
            /\ polling' = (a.status = "running" /\ a.active)
  /\ Settle(a)

-----------------------------------------------------------------------------
(* App.tsx. *)

\* The effects of a new runId, with the reading it is seeded with, if any.
Enter(r, seed) ==
  /\ view' = [run |-> r, scope |-> view.scope + 1]
  /\ shown' = seed
  /\ listed' = IF r = None THEN listed ELSE [run |-> r, results |-> 0]
  /\ polling' = seed.active
  /\ loop' = IF polling /\ r # None THEN Asking(r) ELSE Off
  /\ failures' = 0
  /\ note' = Quiet
  /\ listing' = IF seed = Unread THEN NotListing ELSE Observed(NotListing, seed)
  /\ hydration' = Off
  /\ UNCHANGED <<server, actions, late>>

CreateRun(r) ==
  /\ server[r].status = "absent"
  /\ view.run = None \/ note.unavailable \/ IsOver(shown)
  /\ ~Pending
  /\ view' = [run |-> r, scope |-> view.scope + 1]
  /\ shown' = Unread
  /\ listed' = [run |-> r, results |-> 0]
  /\ polling' = FALSE
  /\ loop' = IF polling THEN Asking(r) ELSE Off
  /\ failures' = 0
  /\ note' = Quiet
  /\ listing' = NotListing
  /\ hydration' = Off
  /\ server' = [server EXCEPT ![r].status = "created"]
  /\ disturbed' = FALSE
  /\ UNCHANGED <<actions, late, events>>

\* loadSavedBatchDetail and its like.
LeaveRun ==
  /\ view.run # None
  /\ events < MaxEvents
  /\ events' = events + 1
  /\ Enter(None, Unread)
  /\ disturbed' = FALSE

\* Start-up, or the tab comes to the foreground: the active Run goes before
\* the one in view.
Revalidate ==
  /\ hydration.at = "off"
  /\ events < MaxEvents
  /\ events' = events + 1
  /\ \E r \in Runs :
       /\ server[r].active \/ (r = view.run /\ \A q \in Runs : ~server[q].active)
       /\ hydration' = Asking(r)
  /\ UNCHANGED <<server, view, shown, listed, polling, loop, failures, note, listing, actions,
                 late, disturbed>>

Hydrate ==
  /\ hydration.at = "answered"
  /\ disturbed' = (hydration.crossed /\ ~hydration.active)
  /\ UNCHANGED events
  /\ LET seed == Response(hydration) IN
     IF hydration.run # view.run
     THEN Enter(hydration.run, seed)
     ELSE /\ shown' = seed
          /\ polling' = seed.active
          /\ listing' = Observed(listing, seed)
          /\ hydration' = Off
          /\ UNCHANGED <<server, view, listed, loop, failures, note, actions, late>>

-----------------------------------------------------------------------------
Init ==
  /\ server = [r \in Runs |-> [status |-> "absent", active |-> FALSE, mode |-> "none", results |-> 0]]
  /\ view = [run |-> None, scope |-> 0]
  /\ shown = Unread
  /\ listed = [run |-> None, results |-> 0]
  /\ polling = FALSE
  /\ loop = Off
  /\ failures = 0
  /\ note = Quiet
  /\ listing = NotListing
  /\ actions = {}
  /\ hydration = Off
  /\ late = {}
  /\ events = 0
  /\ disturbed = FALSE

Next ==
  \/ \E r \in Runs : RunGoesOn(r) \/ CreateRun(r)
  \/ \E kind \in {"start", "discard", "stop", "detach"} : Click(kind)
  \/ \E a \in actions :
       \/ HandleAction(a) \/ Ignored(a) \/ Accepted(a) \/ Ambiguous(a)
       \/ Refused(a) \/ Failed(a) \/ ReadAfterRefusal(a)
  \/ \E l \in late : HandleLate(l)
  \/ Read \/ Lose \/ EndListing \/ RefreshResults
  \/ Render \/ Polled \/ PollFails
  \/ LeaveRun \/ Revalidate \/ Hydrate

Spec == Init /\ [][Next]_vars

-----------------------------------------------------------------------------
TypeOK ==
  /\ view.run \in Runs \union {None}
  /\ shown.run \in Runs \union {None}
  /\ polling \in BOOLEAN
  /\ failures \in Nat
  /\ listing.at \in {"idle", "sent", "answered", "lost"}
  /\ loop.at \in {"off", "ended", "answered", "lost"} \union ReadSteps

\* What is shown is of the current Run, whatever answers late.
ShownIsOwn ==
  view.run # None =>
    /\ shown.run \in {None, view.run}
    /\ listed.run = view.run

\* A Run that is shown as over, ended or left by its task, is over, and its
\* Results are all listed unless a listing is under way or failed: whatever
\* the polling, App.tsx and the commands read, and whenever it is applied.
\* The one exception is an answer that was overtaken by a whole Run.
EndsAreTrue ==
  view.run # None /\ IsOver(shown) /\ (shown.status = "ended" \/ ~shown.overtaken) =>
    /\ server[view.run].status = shown.status
    /\ shown.status = "running" => ~server[view.run].active
    /\ listing.at = "idle" /\ ~listing.failed => listed.results = server[view.run].results

\* The monitor shows nothing of another Run, and no end that is not there.
MonitorIsTrue == TypeOK /\ ShownIsOwn /\ EndsAreTrue

\* Nothing is awaited any more, and no error is shown.
AtRest ==
  /\ view.run # None /\ ~polling /\ ~Pending
  /\ ~\E a \in actions : IsCurrent(a)
  /\ ~note.error

\* At rest the monitor shows the status that the Run has.  Excepted, until the
\* Run is read again, are (1) a reading of App.tsx that a command crossed, (2)
\* an answer of the polling that comes after it was told to stop, (3) an answer
\* overtaken by a whole Run, (4) a command that was given up, or left behind
\* with its lifetime, and is handled after all.  The docs do not make the first
\* three of them: the next property is what they say.
RestsOnTruth ==
  AtRest /\ ~disturbed /\ ~shown.overtaken =>
    /\ shown.status = server[view.run].status
    /\ shown.status # "ended" => ~server[view.run].active

\* What the docs say, and the code does not keep: "polling cannot stop on an
\* older nonterminal snapshot" (docs/V1_1_RELEASE_NOTES.md:73-75), "so a
\* pre-terminal snapshot does not incorrectly stop browser polling"
\* (docs/API.md:982-985).
StopsOnNoOlderSnapshot ==
  AtRest /\ shown.status # "ended" =>
    /\ shown.status = server[view.run].status
    /\ ~server[view.run].active
=============================================================================
