----------------------------- MODULE ReadCapacity -----------------------------
(***************************************************************************)
(* The two limits a request passes on its way to a bulk read: the bodies   *)
(* in flight (api/security.py), which never wait, and the read slots with  *)
(* their first-in-first-out queue (api/artifacts.py).  All of it runs on   *)
(* the event loop, so that a step lasts from one await to the next.  A     *)
(* request may be cancelled or time out at every await; a slot may have    *)
(* been granted to it in between.                                          *)
(***************************************************************************)
EXTENDS Naturals, Sequences, FiniteSets, SequencesExt

CONSTANTS Requests,
          MaxBodies,   \* max_inflight_request_bodies
          Limit,       \* read slots
          MaxWaiters

VARIABLES request,   \* where each request stands
          inflight,  \* _inflight_bodies
          active,    \* slots that are taken or granted
          waiters    \* the queue of futures

CapacityAssumption ==
    /\ IsFiniteSet(Requests)
    /\ MaxBodies \in Nat
    /\ Limit \in Nat \ {0}
    /\ MaxWaiters \in Nat

vars == <<request, inflight, active, waiters>>

Idle == [at |-> "idle", leased |-> FALSE, granted |-> FALSE, cancelled |-> FALSE]

Go(r, at) == request' = [request EXCEPT ![r].at = at]

-----------------------------------------------------------------------------
\* A request without a body takes no lease.
Arrive(r) ==
    /\ request[r] = Idle
    /\ Go(r, "claim")
    /\ UNCHANGED <<inflight, active, waiters>>

\* One whose body has begun is admitted or refused at once.
ArriveWithBody(r) ==
    /\ request[r] = Idle
    /\ inflight < MaxBodies
    /\ inflight' = inflight + 1
    /\ request' = [request EXCEPT ![r].at = "body", ![r].leased = TRUE]
    /\ UNCHANGED <<active, waiters>>

\* The body is complete, or is cut off, late or too large.
ReceiveBody(r) ==
    /\ request[r].at = "body"
    /\ \E at \in {"claim", "leave"} : Go(r, at)
    /\ UNCHANGED <<inflight, active, waiters>>

Claim(r) ==
    /\ request[r].at = "claim"
    /\ IF active < Limit /\ waiters = <<>>
       THEN Go(r, "reading") /\ active' = active + 1 /\ UNCHANGED waiters
       ELSE /\ IF Len(waiters) < MaxWaiters
               THEN Go(r, "waiting") /\ waiters' = Append(waiters, r)
               ELSE Go(r, "leave") /\ UNCHANGED waiters
            /\ UNCHANGED active
    /\ UNCHANGED inflight

\* The deadline passes or the client goes; the task hears of it later.
Interrupt(r) ==
    /\ request[r].at = "waiting"
    /\ ~request[r].cancelled
    /\ request' = [request EXCEPT ![r].cancelled = TRUE]
    /\ UNCHANGED <<inflight, active, waiters>>

\* _release, by a request that goes on to leave: the slot passes to the head
\* of the queue, or is free.
Release(r) ==
    LET left == [request EXCEPT ![r].at = "leave", ![r].granted = FALSE] IN
    IF waiters = <<>>
    THEN request' = left /\ active' = active - 1 /\ UNCHANGED waiters
    ELSE /\ request' = [left EXCEPT ![Head(waiters)].granted = TRUE]
         /\ waiters' = Tail(waiters)
         /\ UNCHANGED active

\* A waiter goes on with its slot.
Resume(r) ==
    /\ request[r].at = "waiting"
    /\ request[r].granted
    /\ ~request[r].cancelled
    /\ request' = [request EXCEPT ![r].at = "reading", ![r].granted = FALSE]
    /\ UNCHANGED <<inflight, active, waiters>>

\* Seeded fault: a slot granted to a waiter that gives up is not passed on.
WithdrawAlone(r) ==
    /\ request[r].at = "waiting"
    /\ request[r].granted \/ request[r].cancelled
    /\ waiters' = Remove(waiters, r)
    /\ request' = [request EXCEPT ![r].at = "leave", ![r].granted = FALSE]
    /\ UNCHANGED <<inflight, active>>

\* A waiter gives up: it was cancelled, or finds itself past the deadline when
\* it resumes.  A completed future already owns a slot.
Withdraw(r) ==
    /\ request[r].at = "waiting"
    /\ request[r].granted \/ request[r].cancelled
    /\ IF request[r].granted
       THEN Release(r)
       ELSE /\ \E i \in DOMAIN waiters : waiters[i] = r /\ waiters' = RemoveAt(waiters, i)
            /\ Go(r, "leave")
            /\ UNCHANGED active
    /\ UNCHANGED inflight

\* Read to the end, failed or cancelled: the finally of claim.
EndRead(r) ==
    /\ request[r].at = "reading"
    /\ Release(r)
    /\ UNCHANGED inflight

\* The finally of the admission, whatever the answer was.
Leave(r) ==
    /\ request[r].at = "leave"
    /\ inflight' = IF request[r].leased THEN inflight - 1 ELSE inflight
    /\ request' = [request EXCEPT ![r] = Idle]
    /\ UNCHANGED <<active, waiters>>

Init ==
    /\ request = [r \in Requests |-> Idle]
    /\ inflight = 0
    /\ active = 0
    /\ waiters = <<>>

Next ==
    \E r \in Requests :
       \/ Arrive(r) \/ ArriveWithBody(r) \/ ReceiveBody(r) \/ Claim(r) \/ Interrupt(r)
       \/ Resume(r) \/ Withdraw(r) \/ EndRead(r) \/ Leave(r)

Spec == Init /\ [][Next]_vars

-----------------------------------------------------------------------------
Holders == {r \in Requests : request[r].at = "reading" \/ request[r].granted}
Leased == {r \in Requests : request[r].leased}
Waiting == {r \in Requests : request[r].at = "waiting" /\ ~request[r].granted}

Request == [at : {"idle", "body", "claim", "waiting", "reading", "leave"},
            leased : BOOLEAN, granted : BOOLEAN, cancelled : BOOLEAN]

TypeOK ==
    /\ request \in [Requests -> Request]
    /\ waiters \in Seq(Requests)

\* No slot and no lease is lost or given twice, however grants, timeouts and
\* cancellations cross; nobody waits while a slot is free, and everybody who
\* waits without a grant is in the queue, once.
CapacityIsKept ==
    /\ TypeOK
    /\ active = Cardinality(Holders) /\ active <= Limit
    /\ inflight = Cardinality(Leased) /\ inflight <= MaxBodies
    /\ waiters # <<>> => active = Limit
    /\ Waiting = Range(waiters) /\ IsInjective(waiters) /\ Len(waiters) <= MaxWaiters
=============================================================================
