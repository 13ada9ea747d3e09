---------------------------- MODULE Stores_proofs ----------------------------
(***************************************************************************)
(* Proofs about the machines of Stores, for any number of clients,         *)
(* contents, Projects, Prompts, versions and Runs.  Each machine has an    *)
(* inductive invariant of its own, over its own variables.                 *)
(*                                                                         *)
(* On files and in memory:                                                 *)
(*  - the capacity of the artifact streams (ReadCapacity): only a waiter   *)
(*    holds a grant, and with that CapacityIsKept is inductive;            *)
(*  - the Asset root (AssetImport): a staged identity is neither another   *)
(*    staged one nor in the root, and what a request has got so far is     *)
(*    what the root says, whose identities never change;                   *)
(*  - the owner files (OwnerFiles): an identity that the service drew is   *)
(*    claimed for one key, in a file or by requests, and a request links   *)
(*    in a directory that is there;                                        *)
(*  - the history (HistoryProjection): the index lags behind the scan of   *)
(*    whoever holds the lock, which lags behind the Runs.                  *)
(* In the database: the Prompts (PromptInvariant), the Workflows and       *)
(* Profiles of a Project (WorkflowInvariant), and the shared library with  *)
(* its receipts (GlobalInvariant).                                         *)
(***************************************************************************)
EXTENDS Stores, FiniteSetTheorems, SequenceTheorems, WellFoundedInduction, TLAPS

-----------------------------------------------------------------------------
\* A behaviour of the composition is one of each of its machines: the machine
\* that it exercises takes its steps, the others stand still.
LEMMA MachinesBehave ==
  /\ StoresSpec => Asset!Spec
  /\ StoresSpec => Owner!Spec
  /\ StoresSpec => History!Spec
  /\ StoresSpec => Spec
<1> DEFINE all == <<which, prompts, workflows, globals, histories, assets, requests, owners>>
<1>1. StoresInit => Asset!Init /\ Owner!Init /\ History!Init /\ Init
  BY DEF StoresInit
<1>2. [StoresNext]_all => [Asset!Next]_(Asset!vars)
  BY DEF StoresNext, assets, Asset!vars
<1>3. [StoresNext]_all => [Owner!Next]_(Owner!vars)
  BY DEF StoresNext, owners, Owner!vars
<1>4. [StoresNext]_all => [History!Next]_(History!vars)
  BY DEF StoresNext, histories, History!vars
<1>5. [StoresNext]_all => [Next]_vars
  BY DEF StoresNext, requests, vars
<1> QED
  BY <1>1, <1>2, <1>3, <1>4, <1>5, PTL DEF StoresSpec, Asset!Spec, Owner!Spec, History!Spec, Spec

GrantedWait == \A r \in Requests : request[r].granted => request[r].at = "waiting"

CapacityInvariant == CapacityIsKept /\ GrantedWait

-----------------------------------------------------------------------------
\* The queue: what joining, being served and giving up do to its members.
LEMMA QueueAppended ==
  ASSUME NEW S, NEW s \in Seq(S), NEW x \in S, IsInjective(s), x \notin Range(s)
  PROVE  /\ Append(s, x) \in Seq(S)
         /\ Range(Append(s, x)) = Range(s) \cup {x}
         /\ IsInjective(Append(s, x))
         /\ Len(Append(s, x)) = Len(s) + 1
<1> DEFINE t == Append(s, x)
<1>1. t \in Seq(S) /\ Len(t) = Len(s) + 1 /\ DOMAIN t = 1 .. Len(s) + 1
  OBVIOUS
<1>2. \A i \in 1 .. Len(s) : t[i] = s[i]
  OBVIOUS
<1>3. t[Len(s) + 1] = x
  OBVIOUS
<1>4. DOMAIN s = 1 .. Len(s) /\ Len(s) \in Nat
  OBVIOUS
<1> HIDE DEF t
<1>5. Range(t) = Range(s) \cup {x}
  BY <1>1, <1>2, <1>3, <1>4 DEF Range
<1>6. IsInjective(t)
  BY <1>1, <1>2, <1>3, <1>4 DEF Range, IsInjective
<1> QED
  BY <1>1, <1>5, <1>6 DEF t

LEMMA QueueServed ==
  ASSUME NEW S, NEW s \in Seq(S), s # <<>>, IsInjective(s)
  PROVE  /\ Head(s) \in Range(s)
         /\ Tail(s) \in Seq(S)
         /\ Range(Tail(s)) = Range(s) \ {Head(s)}
         /\ IsInjective(Tail(s))
         /\ Len(Tail(s)) = Len(s) - 1
<1> DEFINE t == Tail(s)
<1>1. t \in Seq(S) /\ Len(t) = Len(s) - 1 /\ DOMAIN t = 1 .. Len(s) - 1
  OBVIOUS
<1>2. \A i \in 1 .. Len(s) - 1 : t[i] = s[i + 1]
  OBVIOUS
<1>3. DOMAIN s = 1 .. Len(s) /\ Len(s) \in Nat \ {0} /\ Head(s) = s[1]
  OBVIOUS
<1> HIDE DEF t
<1>4. Range(t) = Range(s) \ {s[1]}
  <2>1. ASSUME NEW y \in Range(t) PROVE y \in Range(s) \ {s[1]}
    <3>1. PICK i \in 1 .. Len(s) - 1 : y = s[i + 1]
      BY <2>1, <1>1, <1>2 DEF Range
    <3> QED
      BY <3>1, <1>3 DEF Range, IsInjective
  <2>2. ASSUME NEW y \in Range(s) \ {s[1]} PROVE y \in Range(t)
    <3>1. PICK i \in 1 .. Len(s) : y = s[i]
      BY <2>2, <1>3 DEF Range
    <3>2. i - 1 \in 1 .. Len(s) - 1 /\ t[i - 1] = y
      BY <3>1, <2>2, <1>2, <1>3
    <3> QED
      BY <3>2, <1>1 DEF Range
  <2> QED
    BY <2>1, <2>2
<1>5. IsInjective(t)
  BY <1>1, <1>2, <1>3, SMTT(20) DEF IsInjective
<1>6. s[1] \in Range(s)
  BY <1>3 DEF Range
<1> QED
  BY <1>1, <1>3, <1>4, <1>5, <1>6 DEF t

LEMMA QueueRemoved ==
  ASSUME NEW S, NEW s \in Seq(S), NEW i \in DOMAIN s, IsInjective(s)
  PROVE  /\ RemoveAt(s, i) \in Seq(S)
         /\ Range(RemoveAt(s, i)) = Range(s) \ {s[i]}
         /\ IsInjective(RemoveAt(s, i))
         /\ Len(RemoveAt(s, i)) = Len(s) - 1
<1> DEFINE t == RemoveAt(s, i)
<1>1. DOMAIN s = 1 .. Len(s) /\ Len(s) \in Nat /\ i \in 1 .. Len(s)
  OBVIOUS
<1>2. t \in Seq(S) /\ Len(t) = Len(s) - 1 /\ DOMAIN t = 1 .. Len(s) - 1
  BY <1>1 DEF RemoveAt
<1>3. \A j \in 1 .. Len(s) - 1 : t[j] = IF j < i THEN s[j] ELSE s[j + 1]
  <2> DEFINE a == SubSeq(s, 1, i - 1)
             b == SubSeq(s, i + 1, Len(s))
  <2>1. a \in Seq(S) /\ Len(a) = i - 1 /\ \A j \in 1 .. i - 1 : a[j] = s[j]
    BY <1>1
  <2>2. b \in Seq(S) /\ Len(b) = Len(s) - i /\ \A j \in 1 .. Len(s) - i : b[j] = s[i + j]
    BY <1>1
  <2>3. t = a \o b
    BY DEF RemoveAt
  <2> HIDE DEF a, b, t
  <2>4. \A j \in 1 .. Len(s) - 1 : t[j] = IF j <= i - 1 THEN a[j] ELSE b[j - (i - 1)]
    BY <1>1, <2>1, <2>2, <2>3, SMTT(20)
  <2> QED
    <3>1. ASSUME NEW j \in 1 .. Len(s) - 1 PROVE t[j] = IF j < i THEN s[j] ELSE s[j + 1]
      <4>1. CASE j < i
        BY <1>1, <2>1, <2>4, <4>1
      <4>2. CASE j >= i
        <5>1. j - (i - 1) \in 1 .. Len(s) - i /\ i + (j - (i - 1)) = j + 1
          BY <1>1, <4>2
        <5>2. b[j - (i - 1)] = s[j + 1]
          BY <2>2, <5>1
        <5> QED
          BY <1>1, <2>4, <4>2, <5>2
      <4> QED
        BY <1>1, <4>1, <4>2
    <3> QED
      BY <3>1
<1> HIDE DEF t
<1>4. Range(t) = Range(s) \ {s[i]}
  <2>1. ASSUME NEW y \in Range(t) PROVE y \in Range(s) \ {s[i]}
    <3>1. PICK j \in 1 .. Len(s) - 1 : y = t[j]
      BY <2>1, <1>2 DEF Range
    <3> QED
      BY <3>1, <1>1, <1>3 DEF Range, IsInjective
  <2>2. ASSUME NEW y \in Range(s) \ {s[i]} PROVE y \in Range(t)
    <3>1. PICK j \in 1 .. Len(s) : y = s[j]
      BY <2>2, <1>1 DEF Range
    <3>2. CASE j < i
      BY <3>1, <3>2, <1>1, <1>2, <1>3 DEF Range
    <3>3. CASE j > i
      <4>1. j - 1 \in 1 .. Len(s) - 1 /\ t[j - 1] = y
        BY <3>1, <3>3, <1>1, <1>3
      <4> QED
        BY <4>1, <1>2 DEF Range
    <3> QED
      BY <3>1, <3>2, <3>3, <2>2, <1>1
  <2> QED
    BY <2>1, <2>2
<1>5. IsInjective(t)
  BY <1>1, <1>2, <1>3 DEF IsInjective
<1> QED
  BY <1>2, <1>4, <1>5 DEF t
-----------------------------------------------------------------------------
\* Release hands the slot of a holder to the head of the queue, or frees it.
LEMMA SlotReleased ==
  ASSUME CapacityAssumption, CapacityInvariant, NEW r \in Holders, Release(r), UNCHANGED inflight
  PROVE  CapacityInvariant'
<1> USE DEF CapacityInvariant, CapacityIsKept, GrantedWait, TypeOK
<1> DEFINE left == [request EXCEPT ![r].at = "leave", ![r].granted = FALSE]
<1>0. /\ left \in [Requests -> Request]
      /\ \A q \in Requests : left[q].leased = request[q].leased
      /\ \A q \in Requests \ {r} : left[q] = request[q]
      /\ left[r].at = "leave" /\ ~left[r].granted
  BY DEF Request, Holders
<1>1. r \in Requests /\ IsFiniteSet(Holders) /\ Cardinality(Holders) \in Nat
  BY FS_Subset, FS_CardinalityType DEF Holders, CapacityAssumption
<1>3. CASE waiters = <<>>
  <2>0. request' = left /\ waiters' = waiters /\ active' = active - 1
    BY <1>3 DEF Release
  <2> HIDE DEF left
  <2>1. TypeOK' /\ GrantedWait'
    BY <1>0, <1>1, <2>0
  <2>2. Holders' = Holders \ {r} /\ Leased' = Leased
    BY <1>0, <1>1, <2>0 DEF Holders, Leased
  <2>3. active' = Cardinality(Holders') /\ active' <= Limit
    <3>1. Cardinality(Holders \ {r}) = Cardinality(Holders) - 1
      BY <1>1, FS_RemoveElement
    <3> QED
      BY <1>1, <2>0, <2>2, <3>1 DEF CapacityAssumption
  <2>4. Waiting' = Waiting
    BY <1>0, <1>1, <2>0 DEF Holders, Waiting
  <2> QED
    BY <1>1, <1>3, <2>0, <2>1, <2>2, <2>3, <2>4 DEF CapacityAssumption
<1>4. CASE waiters # <<>>
  <2> DEFINE h == Head(waiters)
  <2>1. /\ h \in Range(waiters)
        /\ Tail(waiters) \in Seq(Requests)
        /\ Range(Tail(waiters)) = Range(waiters) \ {h}
        /\ IsInjective(Tail(waiters))
        /\ Len(Tail(waiters)) = Len(waiters) - 1
    BY <1>4, QueueServed
  <2>2. h \in Requests /\ request[h].at = "waiting" /\ ~request[h].granted
    BY <2>1 DEF Waiting
  <2>3. h # r
    BY <2>2 DEF Holders
  <2> HIDE DEF h
  <2>4. /\ request' = [left EXCEPT ![h].granted = TRUE]
        /\ waiters' = Tail(waiters) /\ active' = active
    BY <1>4 DEF Release, h
  <2> HIDE DEF left
  <2>5. /\ request' \in [Requests -> Request]
        /\ \A q \in Requests : request'[q].leased = request[q].leased
        /\ \A q \in Requests \ {r, h} : request'[q] = request[q]
        /\ request'[r].at = "leave" /\ ~request'[r].granted
        /\ request'[h].at = "waiting" /\ request'[h].granted
    <3>1. /\ left \in [Requests -> Request] /\ r \in Requests /\ h \in Requests /\ h # r
          /\ request' = [left EXCEPT ![h].granted = TRUE] /\ left[h] = request[h]
      BY <1>0, <1>1, <2>2, <2>3, <2>4
    <3>2. /\ request' \in [Requests -> Request]
          /\ request'[h].granted /\ request'[h].at = left[h].at /\ request'[h].leased = left[h].leased
          /\ \A q \in Requests \ {h} : request'[q] = left[q]
      BY ONLY <3>1 DEF Request
    <3>3. \A q \in Requests : request'[q].leased = request[q].leased
      BY ONLY <1>0, <3>1, <3>2
    <3>4. /\ \A q \in Requests \ {r, h} : request'[q] = request[q]
          /\ request'[r].at = "leave" /\ ~request'[r].granted
      BY ONLY <1>0, <3>1, <3>2
    <3>5. request'[h].at = "waiting"
      BY ONLY <2>2, <3>1, <3>2
    <3>6. QED
      BY ONLY <3>2, <3>3, <3>4, <3>5
  <2>6. TypeOK' /\ GrantedWait'
    <3>1. TypeOK'
      BY ONLY <2>1, <2>4, <2>5 DEF TypeOK
    <3>2. GrantedWait
      OBVIOUS
    <3>3. GrantedWait'
      BY ONLY <2>5, <3>2 DEF GrantedWait
    <3>4. QED
      BY ONLY <3>1, <3>3
  <2>7. Holders' = (Holders \ {r}) \cup {h} /\ h \notin Holders /\ Leased' = Leased
    BY <1>1, <2>2, <2>3, <2>5 DEF Holders, Leased
  <2>8. Cardinality(Holders') = Cardinality(Holders)
    <3>1. IsFiniteSet(Holders \ {r}) /\ Cardinality(Holders \ {r}) = Cardinality(Holders) - 1
      BY <1>1, FS_RemoveElement
    <3>2. Cardinality((Holders \ {r}) \cup {h}) = Cardinality(Holders \ {r}) + 1
      BY <2>7, <3>1, FS_AddElement
    <3> QED
      BY <1>1, <2>7, <3>1, <3>2
  <2>9. Waiting' = Waiting \ {h}
    BY <1>1, <2>2, <2>3, <2>5 DEF Waiting, Holders
  <2>10. active = Limit /\ Len(waiters) \in Nat
    BY <1>4
  <2>11. waiters' \in Seq(Requests) /\ Waiting' = Range(waiters') /\ IsInjective(waiters') /\ Len(waiters') <= MaxWaiters
    BY <2>1, <2>4, <2>9, <2>10 DEF CapacityAssumption, h
  <2> QED
    BY <2>4, <2>6, <2>7, <2>8, <2>10, <2>11
<1> QED
  BY <1>3, <1>4

-----------------------------------------------------------------------------
RequestFrame(r) ==
  /\ request' \in [Requests -> Request]
  /\ \A q \in Requests \ {r} : request'[q] = request[q]

\* What a step of one request does to the sets that are counted.
LEMMA RequestStep ==
  ASSUME TypeOK, NEW r \in Requests, RequestFrame(r)
  PROVE  /\ request'[r].leased => Leased' = Leased \cup {r}
         /\ ~request'[r].leased => Leased' = Leased \ {r}
         /\ request'[r].at = "reading" \/ request'[r].granted => Holders' = Holders \cup {r}
         /\ request'[r].at # "reading" /\ ~request'[r].granted => Holders' = Holders \ {r}
         /\ request'[r].at = "waiting" /\ ~request'[r].granted => Waiting' = Waiting \cup {r}
         /\ request'[r].at # "waiting" \/ request'[r].granted => Waiting' = Waiting \ {r}
BY DEF RequestFrame, Leased, Holders, Waiting

\* A step that changes no slot, no grant and no place in the queue.
LEMMA QueueUntouched ==
  ASSUME CapacityAssumption, CapacityInvariant, TypeOK', GrantedWait',
         Holders' = Holders, Waiting' = Waiting, UNCHANGED <<active, waiters>>,
         inflight' = Cardinality(Leased'), inflight' <= MaxBodies
  PROVE  CapacityInvariant'
BY DEF CapacityInvariant, CapacityIsKept

LEMMA RequestGoes ==
  ASSUME TypeOK, NEW r \in Requests, Go(r, "claim") \/ Go(r, "leave")
  PROVE  /\ RequestFrame(r) /\ request'[r].at \in {"claim", "leave"}
         /\ Go(r, "leave") => request'[r].at = "leave"
         /\ request'[r].granted <=> request[r].granted
         /\ request'[r].leased <=> request[r].leased
<1>1. PICK at \in {"claim", "leave"} : request' = [request EXCEPT ![r].at = at]
  BY DEF Go
<1>2. RequestFrame(r) /\ request'[r].at = at
  BY <1>1 DEF TypeOK, Request, RequestFrame
<1>3. request'[r].granted = request[r].granted /\ request'[r].leased = request[r].leased
  BY <1>1 DEF TypeOK, Request
<1>4. Go(r, "leave") => request'[r].at = "leave"
  BY DEF Go, TypeOK, Request
<1> QED
  BY <1>2, <1>3, <1>4

LEMMA CapacityInitially == CapacityAssumption /\ Init => CapacityInvariant
<1> SUFFICES ASSUME CapacityAssumption, Init PROVE CapacityInvariant
  OBVIOUS
<1>1. Holders = {} /\ Leased = {} /\ Waiting = {} /\ Range(waiters) = {} /\ IsInjective(waiters)
  BY DEF Init, Idle, Holders, Leased, Waiting, Range, IsInjective
<1>2. TypeOK /\ GrantedWait
  BY DEF Init, Idle, TypeOK, Request, GrantedWait
<1> QED
  BY <1>1, <1>2, FS_EmptySet DEF Init, CapacityInvariant, CapacityIsKept, CapacityAssumption

LEMMA CapacityInductive == CapacityAssumption /\ CapacityInvariant /\ [Next]_vars => CapacityInvariant'
<1> SUFFICES ASSUME CapacityAssumption, CapacityInvariant, [Next]_vars
             PROVE  CapacityInvariant'
  OBVIOUS
<1>1. /\ TypeOK /\ GrantedWait
      /\ active = Cardinality(Holders) /\ active <= Limit
      /\ inflight = Cardinality(Leased) /\ inflight <= MaxBodies
      /\ waiters # <<>> => active = Limit
      /\ Waiting = Range(waiters) /\ IsInjective(waiters) /\ Len(waiters) <= MaxWaiters
  BY DEF CapacityInvariant, CapacityIsKept
<1>2. IsFiniteSet(Holders) /\ IsFiniteSet(Leased) /\ active \in Nat /\ inflight \in Nat
  BY <1>1, FS_Subset, FS_CardinalityType DEF Holders, Leased, CapacityAssumption
<1>3. waiters \in Seq(Requests) /\ Len(waiters) \in Nat /\ request \in [Requests -> Request]
  BY <1>1 DEF TypeOK
<1>4. ASSUME NEW r \in Requests, Arrive(r)
      PROVE  CapacityInvariant'
  <2>1. RequestFrame(r) /\ request'[r].at \in {"claim", "leave"} /\ ~request'[r].granted /\ ~request'[r].leased
    BY <1>1, <1>4, RequestGoes DEF Arrive, Idle
  <2>2. Holders' = Holders /\ Waiting' = Waiting /\ Leased' = Leased
    BY <1>1, <1>4, <2>1, RequestStep DEF Arrive, Idle, GrantedWait, Holders, Waiting, Leased
  <2>3. TypeOK' /\ GrantedWait'
    BY <1>1, <1>4, <2>1 DEF Arrive, Idle, TypeOK, GrantedWait, RequestFrame
  <2> QED
    BY <1>1, <1>4, <2>2, <2>3, QueueUntouched DEF Arrive
<1>5. ASSUME NEW r \in Requests, ArriveWithBody(r)
      PROVE  CapacityInvariant'
  <2>1. RequestFrame(r) /\ request'[r].at = "body" /\ ~request'[r].granted /\ request'[r].leased
    BY <1>3, <1>5 DEF ArriveWithBody, Go, Idle, Request, RequestFrame
  <2>6. request[r].at = "idle" /\ ~request[r].granted /\ ~request[r].leased
    BY <1>5 DEF ArriveWithBody, Idle
  <2>2. Holders' = Holders /\ Waiting' = Waiting /\ Leased' = Leased \cup {r} /\ r \notin Leased
    BY <1>1, <2>1, <2>6, RequestStep DEF Holders, Waiting, Leased
  <2>3. TypeOK' /\ GrantedWait'
    BY <1>1, <1>5, <2>1 DEF ArriveWithBody, TypeOK, GrantedWait, RequestFrame
  <2>4. inflight' = Cardinality(Leased') /\ inflight' <= MaxBodies
    <3>1. Cardinality(Leased \cup {r}) = Cardinality(Leased) + 1
      BY <1>2, <2>2, FS_AddElement
    <3> QED
      BY <1>1, <1>2, <1>5, <2>2, <3>1 DEF ArriveWithBody, CapacityAssumption
  <2> QED
    BY <1>5, <2>2, <2>3, <2>4, QueueUntouched DEF ArriveWithBody
<1>6. ASSUME NEW r \in Requests, ReceiveBody(r)
      PROVE  CapacityInvariant'
  <2>1. RequestFrame(r) /\ request'[r].at \in {"claim", "leave"} /\ request'[r].granted = request[r].granted /\ request'[r].leased = request[r].leased
    BY <1>3, <1>6 DEF ReceiveBody, Go, Idle, Request, RequestFrame
  <2>2. Holders' = Holders /\ Waiting' = Waiting /\ Leased' = Leased
    BY <1>1, <1>6, <2>1, RequestStep DEF ReceiveBody, Idle, GrantedWait, Holders, Waiting, Leased
  <2>3. TypeOK' /\ GrantedWait'
    BY <1>1, <1>6, <2>1 DEF ReceiveBody, Idle, TypeOK, GrantedWait, RequestFrame
  <2> QED
    BY <1>1, <1>6, <2>2, <2>3, QueueUntouched DEF ReceiveBody
<1>7. ASSUME NEW r \in Requests, Claim(r)
      PROVE  CapacityInvariant'
  <2>1. ~request[r].granted /\ r \notin Holders /\ r \notin Waiting
    BY <1>1, <1>7 DEF Claim, GrantedWait, Holders, Waiting
  <2>2. /\ RequestFrame(r) /\ request'[r].at \in {"reading", "waiting", "leave"}
        /\ ~request'[r].granted
        /\ request'[r].leased <=> request[r].leased
    <3>1. PICK at \in {"reading", "waiting", "leave"} : request' = [request EXCEPT ![r].at = at]
      BY <1>7 DEF Claim, Go
    <3>2. RequestFrame(r) /\ request'[r].at = at
      BY <1>3, <3>1 DEF Request, RequestFrame
    <3>3. request'[r].granted = request[r].granted /\ request'[r].leased = request[r].leased
      BY <1>3, <3>1 DEF Request
    <3> QED
      BY <2>1, <3>2, <3>3
  <2>3. Leased' = Leased /\ inflight' = inflight /\ GrantedWait'
    BY <1>1, <1>7, <2>1, <2>2, RequestStep DEF Claim, Leased, RequestFrame, GrantedWait
  <2>4. CASE active < Limit /\ waiters = <<>>
    <3>1. request'[r].at = "reading" /\ active' = active + 1 /\ waiters' = waiters
      BY <1>3, <1>7, <2>4 DEF Claim, Go, Request
    <3>2. Waiting' = Waiting /\ Holders' = Holders \cup {r}
      <4>1. Waiting' = Waiting \ {r} /\ Holders' = Holders \cup {r}
        BY <1>1, <2>2, <3>1, RequestStep
      <4> QED
        BY <2>1, <4>1
    <3>3. Cardinality(Holders \cup {r}) = Cardinality(Holders) + 1
      BY <1>2, <2>1, FS_AddElement
    <3>4. active' = Cardinality(Holders') /\ active' <= Limit
      BY <1>1, <1>2, <2>4, <3>1, <3>2, <3>3 DEF CapacityAssumption
    <3>5. TypeOK'
      BY <1>3, <2>2, <3>1 DEF TypeOK, RequestFrame
    <3> QED
      BY <1>1, <2>3, <2>4, <3>1, <3>2, <3>4, <3>5 DEF CapacityInvariant, CapacityIsKept
  <2>5. CASE ~(active < Limit /\ waiters = <<>>) /\ Len(waiters) < MaxWaiters
    <3>1. request'[r].at = "waiting" /\ active' = active /\ waiters' = Append(waiters, r)
      BY <1>3, <1>7, <2>5 DEF Claim, Go, Request
    <3>2. active = Limit
      BY <1>1, <1>2, <2>5 DEF CapacityAssumption
    <3>3. /\ waiters' \in Seq(Requests)
          /\ Range(waiters') = Range(waiters) \cup {r}
          /\ IsInjective(waiters')
          /\ Len(waiters') = Len(waiters) + 1
      BY <1>1, <1>3, <2>1, <3>1, QueueAppended
    <3>4. Holders' = Holders /\ Waiting' = Waiting \cup {r}
      <4>1. Holders' = Holders \ {r} /\ Waiting' = Waiting \cup {r}
        BY <1>1, <2>2, <3>1, RequestStep
      <4> QED
        BY <2>1, <4>1
    <3>5. TypeOK'
      BY <2>2, <3>3 DEF TypeOK, RequestFrame
    <3>6. Len(waiters') <= MaxWaiters
      BY <1>3, <2>5, <3>3 DEF CapacityAssumption
    <3> QED
      BY <1>1, <2>3, <3>1, <3>2, <3>3, <3>4, <3>5, <3>6 DEF CapacityInvariant, CapacityIsKept
  <2>6. CASE ~(active < Limit /\ waiters = <<>>) /\ ~(Len(waiters) < MaxWaiters)
    <3>1. request'[r].at = "leave" /\ UNCHANGED <<active, waiters>>
      BY <1>3, <1>7, <2>6 DEF Claim, Go, Request
    <3>2. Holders' = Holders /\ Waiting' = Waiting
      <4>1. Holders' = Holders \ {r} /\ Waiting' = Waiting \ {r}
        BY <1>1, <2>2, <3>1, RequestStep
      <4> QED
        BY <2>1, <4>1
    <3>3. TypeOK'
      BY <1>3, <2>2, <3>1 DEF TypeOK, RequestFrame
    <3> QED
      BY <1>1, <2>3, <3>1, <3>2, <3>3, QueueUntouched
  <2> QED
    BY <2>4, <2>5, <2>6
<1>8. ASSUME NEW r \in Requests, Interrupt(r)
      PROVE  CapacityInvariant'
  <2>1. RequestFrame(r) /\ request'[r].at = "waiting" /\ request'[r].granted = request[r].granted /\ request'[r].leased = request[r].leased
    BY <1>3, <1>8 DEF Interrupt, Go, Idle, Request, RequestFrame
  <2>2. Holders' = Holders /\ Waiting' = Waiting /\ Leased' = Leased
    BY <1>1, <1>8, <2>1, RequestStep DEF Interrupt, Idle, GrantedWait, Holders, Waiting, Leased
  <2>3. TypeOK' /\ GrantedWait'
    BY <1>1, <1>8, <2>1 DEF Interrupt, Idle, TypeOK, GrantedWait, RequestFrame
  <2> QED
    BY <1>1, <1>8, <2>2, <2>3, QueueUntouched DEF Interrupt
<1>9. ASSUME NEW r \in Requests, Resume(r)
      PROVE  CapacityInvariant'
  <2>1. RequestFrame(r) /\ request'[r].at = "reading" /\ ~request'[r].granted /\ request'[r].leased = request[r].leased
    BY <1>3, <1>9 DEF Resume, Go, Idle, Request, RequestFrame
  <2>2. Holders' = Holders /\ Waiting' = Waiting /\ Leased' = Leased
    BY <1>1, <1>9, <2>1, RequestStep DEF Resume, Idle, GrantedWait, Holders, Waiting, Leased
  <2>3. TypeOK' /\ GrantedWait'
    BY <1>1, <1>9, <2>1 DEF Resume, Idle, TypeOK, GrantedWait, RequestFrame
  <2> QED
    BY <1>1, <1>9, <2>2, <2>3, QueueUntouched DEF Resume
<1>10. ASSUME NEW r \in Requests, Withdraw(r)
       PROVE  CapacityInvariant'
  <2>1. CASE request[r].granted
    BY <1>10, <2>1, SlotReleased DEF Withdraw, Holders
  <2>2. CASE ~request[r].granted
    <3>1. PICK i \in DOMAIN waiters : waiters[i] = r /\ waiters' = RemoveAt(waiters, i)
      BY <1>10, <2>2 DEF Withdraw
    <3>2. /\ waiters' \in Seq(Requests)
          /\ Range(waiters') = Range(waiters) \ {r}
          /\ IsInjective(waiters')
          /\ Len(waiters') = Len(waiters) - 1
      BY <1>1, <1>3, <3>1, QueueRemoved
    <3>3. waiters # <<>> /\ active' = active /\ inflight' = inflight
      BY <1>10, <2>2, <3>1 DEF Withdraw
    <3>4. /\ RequestFrame(r) /\ request'[r].at = "leave"
          /\ ~request'[r].granted /\ (request'[r].leased <=> request[r].leased)
      BY <1>1, <1>10, <2>2, RequestGoes DEF Withdraw
    <3>5. Holders' = Holders /\ Leased' = Leased /\ Waiting' = Waiting \ {r}
      BY <1>1, <1>10, <2>2, <3>4, RequestStep DEF Withdraw, Holders, Leased
    <3>6. TypeOK' /\ GrantedWait'
      BY <1>1, <2>2, <3>2, <3>4 DEF TypeOK, GrantedWait, RequestFrame
    <3>7. Len(waiters') <= MaxWaiters
      BY <1>1, <1>3, <3>2 DEF CapacityAssumption
    <3> QED
      BY <1>1, <3>2, <3>3, <3>5, <3>6, <3>7 DEF CapacityInvariant, CapacityIsKept
  <2> QED
    BY <2>1, <2>2
<1>11. ASSUME NEW r \in Requests, EndRead(r)
       PROVE  CapacityInvariant'
  BY <1>11, SlotReleased DEF EndRead, Holders
<1>12. ASSUME NEW r \in Requests, Leave(r)
       PROVE  CapacityInvariant'
  <2>1. RequestFrame(r) /\ request'[r].at = "idle" /\ ~request'[r].granted /\ ~request'[r].leased
    BY <1>3, <1>12 DEF Leave, Idle, Request, RequestFrame
  <2>2. Holders' = Holders /\ Waiting' = Waiting /\ Leased' = Leased \ {r}
    BY <1>1, <1>12, <2>1, RequestStep DEF Leave, GrantedWait, Holders, Waiting
  <2>3. TypeOK' /\ GrantedWait'
    BY <1>1, <1>12, <2>1 DEF Leave, TypeOK, GrantedWait, RequestFrame
  <2>4. Cardinality(Leased \ {r}) = IF request[r].leased THEN Cardinality(Leased) - 1 ELSE Cardinality(Leased)
    BY <1>2, FS_RemoveElement DEF Leased
  <2>5. inflight' = Cardinality(Leased') /\ inflight' <= MaxBodies
    BY <1>1, <1>2, <1>12, <2>2, <2>4 DEF Leave, CapacityAssumption
  <2> QED
    BY <1>12, <2>2, <2>3, <2>5, QueueUntouched DEF Leave
<1>13. ASSUME UNCHANGED vars
       PROVE  CapacityInvariant'
  BY <1>1, <1>13 DEF vars, CapacityInvariant, CapacityIsKept, GrantedWait, TypeOK, Holders, Leased, Waiting
<1> QED
  BY <1>4, <1>5, <1>6, <1>7, <1>8, <1>9, <1>10, <1>11, <1>12, <1>13 DEF Next

\* Whatever is granted, timed out or cancelled in whatever order, the count of
\* the slots is the number of those who hold one, nobody waits beside a free
\* slot, and a lease is given back once (ReadCapacity, LibraryRequestAdmission).
THEOREM CapacityHolds ==
  ASSUME CapacityAssumption
  PROVE  Spec => []CapacityIsKept
<1>1. Init => CapacityInvariant
  BY CapacityAssumption, CapacityInitially
<1>2. CapacityInvariant /\ [Next]_vars => CapacityInvariant'
  BY CapacityAssumption, CapacityInductive
<1>3. CapacityInvariant => CapacityIsKept
  BY DEF CapacityInvariant
<1> QED
  BY <1>1, <1>2, <1>3, PTL DEF Spec

-----------------------------------------------------------------------------
AssetPlaces == {"idle", "stage", "look", "describe", "rename", "load", "cleanUp", "failed"}

StoredFile == [there : BOOLEAN, id : 0 .. MaxUploads, whole : BOOLEAN]
StagedFile == [there : BOOLEAN, content : BOOLEAN, id : 0 .. MaxUploads]
ImportRequest == [at : AssetPlaces, left : Seq(Contents), got : SUBSET (Contents \X (0 .. MaxUploads))]

RootTypes == final \in [Contents -> StoredFile]
StagingTypes == staging \in [Clients -> StagedFile]
ImportTypes == upload \in [Clients -> ImportRequest]
AssetTypes ==
    /\ contentIds \in 0 .. MaxUploads
    /\ litter \in BOOLEAN
    /\ answered \in SUBSET (Contents \X (0 .. MaxUploads))
    /\ faults \in 0 .. MaxMishaps

ImportStateTypes == RootTypes /\ StagingTypes /\ ImportTypes /\ AssetTypes

\* The root holds descriptions with identities that were contentIds.
RootIsSound == \A c \in Contents :
    /\ final[c].there <=> final[c].id # 0
    /\ final[c].whole => final[c].there
    /\ final[c].id <= contentIds

\* A staged identity is its importer's alone.
StagedIsOwn == \A i \in Clients :
    /\ staging[i].id <= contentIds
    /\ upload[i].at = "rename" => staging[i].id # 0
    /\ staging[i].id # 0 =>
        /\ \A j \in Clients : j # i => staging[j].id # staging[i].id
        /\ \A c \in Contents : final[c].id # staging[i].id

\* A request that is past its staging has a file in hand.
FileInHand == \A i \in Clients :
    upload[i].at \notin {"idle", "failed"} => upload[i].left # <<>>

\* What requests have got and were answered is what the root says.
RecordsAgree(records) == \A c \in Contents, n \in 0 .. MaxUploads :
    <<c, n>> \in records => final[c].id = n /\ n # 0

ImportInvariant ==
    /\ ImportStateTypes
    /\ RootIsSound
    /\ StagedIsOwn
    /\ Asset!IdentitiesDiffer
    /\ FileInHand
    /\ \A i \in Clients : RecordsAgree(upload[i].got)
    /\ RecordsAgree(answered)
    /\ Asset!StagingIsCleared

-----------------------------------------------------------------------------
\* What an assignment to a field of a request or of its staging changes.
LEMMA ImportMoves ==
  ASSUME ImportTypes, NEW i \in Clients, NEW at \in AssetPlaces, upload' = [upload EXCEPT ![i].at = at]
  PROVE  /\ ImportTypes'
         /\ upload'[i].at = at /\ upload'[i].left = upload[i].left /\ upload'[i].got = upload[i].got
         /\ \A j \in Clients \ {i} : upload'[j] = upload[j]
BY DEF ImportTypes, ImportRequest

LEMMA ImportBecomes ==
  ASSUME ImportTypes, NEW i \in Clients, NEW r \in ImportRequest, upload' = [upload EXCEPT ![i] = r]
  PROVE  ImportTypes' /\ upload'[i] = r /\ \A j \in Clients \ {i} : upload'[j] = upload[j]
BY DEF ImportTypes

LEMMA StagingBecomes ==
  ASSUME StagingTypes, NEW i \in Clients, NEW r \in StagedFile, staging' = [staging EXCEPT ![i] = r]
  PROVE  StagingTypes' /\ staging'[i] = r /\ \A j \in Clients \ {i} : staging'[j] = staging[j]
BY DEF StagingTypes

\* What everything starts from and is reset to.
LEMMA ImportBlanks ==
  ASSUME Asset!ImportAssumption
  PROVE  /\ Asset!NotStaged \in StagedFile /\ Asset!NoFile \in StoredFile /\ Asset!Idle \in ImportRequest
         /\ [there |-> TRUE, content |-> TRUE, id |-> 0] \in StagedFile
<1>1. 0 \in 0 .. MaxUploads
  BY DEF Asset!ImportAssumption
<1>2. Asset!NotStaged \in StagedFile
  BY <1>1 DEF Asset!NotStaged, StagedFile
<1>3. Asset!NoFile \in StoredFile
  BY <1>1 DEF Asset!NoFile, StoredFile
<1>4. Asset!Idle \in ImportRequest
  BY DEF Asset!Idle, ImportRequest, AssetPlaces
<1>5. [there |-> TRUE, content |-> TRUE, id |-> 0] \in StagedFile
  BY <1>1 DEF StagedFile
<1>6. QED
  BY <1>2, <1>3, <1>4, <1>5

LEMMA StagingIded ==
  ASSUME StagingTypes, NEW i \in Clients, NEW n \in 0 .. MaxUploads, staging' = [staging EXCEPT ![i].id = n]
  PROVE  /\ StagingTypes' /\ staging'[i].id = n
         /\ \A j \in Clients \ {i} : staging'[j] = staging[j]
<1>0. staging[i] \in StagedFile /\ staging' = [staging EXCEPT ![i] = [staging[i] EXCEPT !.id = n]]
  BY DEF StagingTypes
<1>1. [staging[i] EXCEPT !.id = n] \in StagedFile
  BY <1>0 DEF StagedFile
<1>2. [staging[i] EXCEPT !.id = n].id = n
  BY <1>0 DEF StagedFile
<1>3. QED
  BY <1>0, <1>1, <1>2, StagingBecomes

LEMMA StagingMade ==
  ASSUME StagingTypes, NEW i \in Clients, NEW m \in BOOLEAN, staging' = [staging EXCEPT ![i].there = m]
  PROVE  /\ StagingTypes' /\ staging'[i].id = staging[i].id
         /\ \A j \in Clients \ {i} : staging'[j] = staging[j]
<1>0. staging[i] \in StagedFile /\ staging' = [staging EXCEPT ![i] = [staging[i] EXCEPT !.there = m]]
  BY DEF StagingTypes
<1>1. [staging[i] EXCEPT !.there = m] \in StagedFile
  BY <1>0 DEF StagedFile
<1>2. [staging[i] EXCEPT !.there = m].id = staging[i].id
  BY <1>0 DEF StagedFile
<1>3. QED
  BY <1>0, <1>1, <1>2, StagingBecomes

LEMMA ImportGets ==
  ASSUME ImportTypes, NEW i \in Clients, NEW at \in AssetPlaces, NEW x \in Contents \X (0 .. MaxUploads),
         upload' = [upload EXCEPT ![i].at = at, ![i].got = @ \cup {x}]
  PROVE  /\ ImportTypes'
         /\ upload'[i].at = at /\ upload'[i].left = upload[i].left /\ upload'[i].got = upload[i].got \cup {x}
         /\ \A j \in Clients \ {i} : upload'[j] = upload[j]
<1> DEFINE r == [at |-> at, left |-> upload[i].left, got |-> upload[i].got \cup {x}]
<1>1. upload[i] \in ImportRequest
  BY DEF ImportTypes
<1>2. r \in ImportRequest
  BY <1>1 DEF ImportRequest
<1>3. upload' = [upload EXCEPT ![i] = [[upload[i] EXCEPT !.at = at] EXCEPT !.got = @ \cup {x}]]
  BY DEF ImportTypes
<1>4. [[upload[i] EXCEPT !.at = at] EXCEPT !.got = @ \cup {x}] = r
  <2> DEFINE mid == [at |-> at, left |-> upload[i].left, got |-> upload[i].got]
  <2>1. [upload[i] EXCEPT !.at = at] = mid
    BY <1>1 DEF ImportRequest
  <2>2. [mid EXCEPT !.got = @ \cup {x}] = r
    OBVIOUS
  <2>3. QED
    BY <2>1, <2>2, Zenon
<1>5. upload' = [upload EXCEPT ![i] = r] /\ r.at = at /\ r.left = upload[i].left /\ r.got = upload[i].got \cup {x}
  BY <1>3, <1>4
<1> HIDE DEF r
<1>6. QED
  BY <1>2, <1>5, ImportBecomes

LEMMA FileDamages ==
  ASSUME RootTypes, NEW c \in Contents, final' = [final EXCEPT ![c].whole = FALSE]
  PROVE  /\ RootTypes' /\ \A d \in Contents \ {c} : final'[d] = final[d]
         /\ final'[c].id = final[c].id /\ (final'[c].there <=> final[c].there) /\ ~final'[c].whole
<1> DEFINE file == [final[c] EXCEPT !.whole = FALSE]
<1>1. final[c] \in StoredFile /\ final' = [final EXCEPT ![c] = file]
  BY DEF RootTypes
<1>2. file \in StoredFile
  BY <1>1 DEF StoredFile
<1>3. file.id = final[c].id /\ (file.there <=> final[c].there) /\ ~file.whole
  BY <1>1 DEF StoredFile
<1> HIDE DEF file
<1>4. QED
  BY <1>1, <1>2, <1>3 DEF RootTypes

\* A file in hand is one of the contents.
LEMMA ContentInHand ==
  ASSUME ImportStateTypes, FileInHand, NEW i \in Clients, upload[i].at \notin {"idle", "failed"}
  PROVE  /\ Asset!TheContent(i) \in Contents
         /\ Tail(upload[i].left) \in Seq(Contents)
         /\ Len(upload[i].left) > 1 => Tail(upload[i].left) # <<>>
<1> DEFINE left == upload[i].left
<1>1. left \in Seq(Contents) /\ left # <<>>
  BY DEF ImportStateTypes, ImportTypes, ImportRequest, FileInHand
<1> HIDE DEF left
<1>2. Head(left) \in Contents /\ Tail(left) \in Seq(Contents)
  BY <1>1
<1>3. Len(left) > 1 => Tail(left) # <<>>
  <2>1. Len(Tail(left)) = Len(left) - 1 /\ Len(left) \in Nat
    BY <1>1, HeadTailProperties
  <2>2. Len(<<>>) = 0
    OBVIOUS
  <2>3. Tail(left) = <<>> => Len(Tail(left)) = 0
    BY <2>2, Zenon
  <2>4. \A n \in Nat : \A m : n > 1 /\ m = n - 1 => m # 0
    OBVIOUS
  <2>5. QED
    BY <2>1, <2>3, <2>4, Zenon
<1>4. QED
  BY <1>2, <1>3 DEF Asset!TheContent, left

\* Steps that leave the root, the staging and the identities alone.
LEMMA RootUnmoved ==
  ASSUME ImportInvariant, ImportStateTypes', UNCHANGED <<final, staging, contentIds>>, NEW i \in Clients,
         \A j \in Clients \ {i} : upload'[j] = upload[j],
         upload'[i].at # "rename",
         upload'[i].at = "idle" => upload'[i] # Asset!Idle \/ ~staging[i].there
  PROVE  RootIsSound' /\ StagedIsOwn' /\ Asset!IdentitiesDiffer' /\ Asset!StagingIsCleared'
<1>1. RootIsSound' /\ Asset!IdentitiesDiffer'
  BY DEF ImportInvariant, RootIsSound, Asset!IdentitiesDiffer
<1>2. StagedIsOwn'
  BY DEF ImportInvariant, StagedIsOwn
<1>3. Asset!StagingIsCleared'
  BY DEF ImportInvariant, Asset!StagingIsCleared, Asset!Idle
<1>4. QED
  BY <1>1, <1>2, <1>3

\* One lemma for the initial states, then one for each action.
LEMMA ImportInitially == Asset!ImportAssumption /\ Asset!Init => ImportInvariant
<1> SUFFICES ASSUME Asset!ImportAssumption, Asset!Init PROVE ImportInvariant
  OBVIOUS
<1>1. ImportStateTypes
  <2>1. RootTypes /\ StagingTypes /\ ImportTypes
    BY ImportBlanks DEF Asset!Init, RootTypes, StagingTypes, ImportTypes
  <2>2. AssetTypes
    <3>1. contentIds \in 0 .. MaxUploads /\ faults \in 0 .. MaxMishaps
      BY DEF Asset!ImportAssumption, Asset!Init
    <3>2. litter \in BOOLEAN /\ answered \in SUBSET (Contents \X (0 .. MaxUploads))
      BY Zenon DEF Asset!Init
    <3>3. QED
      BY <3>1, <3>2 DEF AssetTypes
  <2>3. QED
    BY <2>1, <2>2 DEF ImportStateTypes
<1>2. RootIsSound /\ StagedIsOwn /\ Asset!IdentitiesDiffer /\ FileInHand /\ Asset!StagingIsCleared
  BY DEF Asset!ImportAssumption, Asset!Init, RootIsSound, StagedIsOwn, Asset!IdentitiesDiffer, FileInHand, Asset!StagingIsCleared,
    Asset!NoFile, Asset!NotStaged, Asset!Idle
<1>3. (\A i \in Clients : RecordsAgree(upload[i].got)) /\ RecordsAgree(answered)
  BY DEF Asset!Init, RecordsAgree, Asset!Idle
<1>4. QED
  BY <1>1, <1>2, <1>3 DEF ImportInvariant

LEMMA BeginStep ==
  ASSUME Asset!ImportAssumption, ImportInvariant, NEW i \in Clients, NEW brought \in Uploads, Asset!Begin(i, brought)
  PROVE  ImportInvariant'
<1> DEFINE r == [at |-> "stage", left |-> brought, got |-> {}]
<1>1. brought \in Seq(Contents) /\ brought # <<>>
  BY DEF Asset!ImportAssumption
<1>2. r \in ImportRequest
  BY <1>1 DEF ImportRequest, AssetPlaces
<1>3. ImportTypes' /\ upload'[i] = r /\ \A j \in Clients \ {i} : upload'[j] = upload[j]
  BY <1>2, ImportBecomes DEF Asset!Begin, ImportInvariant, ImportStateTypes
<1>4. UNCHANGED <<final, staging, contentIds, litter, answered, faults>>
  BY DEF Asset!Begin
<1>5. ImportStateTypes'
  BY <1>3, <1>4 DEF ImportInvariant, ImportStateTypes, RootTypes, StagingTypes, AssetTypes
<1>6. RootIsSound' /\ StagedIsOwn' /\ Asset!IdentitiesDiffer' /\ Asset!StagingIsCleared'
  BY <1>3, <1>4, <1>5, RootUnmoved
<1>7. FileInHand'
  BY <1>1, <1>3 DEF ImportInvariant, FileInHand
<1>8. (\A j \in Clients : RecordsAgree(upload[j].got)') /\ RecordsAgree(answered)'
  BY <1>3, <1>4 DEF ImportInvariant, RecordsAgree
<1>9. QED
  BY <1>5, <1>6, <1>7, <1>8 DEF ImportInvariant

LEMMA StageStep ==
  ASSUME Asset!ImportAssumption, ImportInvariant, NEW i \in Clients, Asset!StageContent(i)
  PROVE  ImportInvariant'
<1>1. upload[i].at = "stage" /\ UNCHANGED <<final, contentIds, litter, answered, faults>>
  BY DEF Asset!StageContent
<1>2. /\ ImportTypes'
      /\ upload'[i].at = "look" /\ upload'[i].left = upload[i].left /\ upload'[i].got = upload[i].got
      /\ \A j \in Clients \ {i} : upload'[j] = upload[j]
  BY ImportMoves DEF Asset!StageContent, Asset!Go, AssetPlaces, ImportInvariant, ImportStateTypes
<1>3. /\ StagingTypes' /\ staging'[i].id = 0
      /\ \A j \in Clients \ {i} : staging'[j] = staging[j]
  <2> DEFINE r == [there |-> TRUE, content |-> TRUE, id |-> 0]
  <2>1. r \in StagedFile /\ staging' = [staging EXCEPT ![i] = r] /\ r.id = 0
    BY ImportBlanks DEF Asset!StageContent
  <2> HIDE DEF r
  <2>2. QED
    BY <2>1, StagingBecomes DEF ImportInvariant, ImportStateTypes
<1>4. ImportStateTypes'
  BY <1>1, <1>2, <1>3 DEF ImportInvariant, ImportStateTypes, RootTypes, AssetTypes
<1>5. RootIsSound' /\ Asset!IdentitiesDiffer'
  BY <1>1 DEF ImportInvariant, RootIsSound, Asset!IdentitiesDiffer
<1>6. StagedIsOwn'
  BY <1>1, <1>2, <1>3 DEF ImportInvariant, ImportStateTypes, AssetTypes, StagedIsOwn
<1>7. FileInHand' /\ Asset!StagingIsCleared'
  BY <1>1, <1>2, <1>3 DEF ImportInvariant, FileInHand, Asset!StagingIsCleared, Asset!Idle
<1>8. (\A j \in Clients : RecordsAgree(upload[j].got)') /\ RecordsAgree(answered)'
  BY <1>1, <1>2 DEF ImportInvariant, RecordsAgree
<1>9. QED
  BY <1>4, <1>5, <1>6, <1>7, <1>8 DEF ImportInvariant

LEMMA LookStep ==
  ASSUME ImportInvariant, NEW i \in Clients, Asset!Look(i)
  PROVE  ImportInvariant'
<1>1. PICK at \in {"load", "describe"} : upload' = [upload EXCEPT ![i].at = at]
  BY DEF Asset!Look, Asset!Go
<1>2. upload[i].at = "look" /\ UNCHANGED <<final, staging, contentIds, litter, answered, faults>>
  BY DEF Asset!Look
<1>3. /\ ImportTypes'
      /\ upload'[i].at = at /\ upload'[i].left = upload[i].left /\ upload'[i].got = upload[i].got
      /\ \A j \in Clients \ {i} : upload'[j] = upload[j]
  BY <1>1, ImportMoves DEF AssetPlaces, ImportInvariant, ImportStateTypes
<1>4. ImportStateTypes'
  BY <1>2, <1>3 DEF ImportInvariant, ImportStateTypes, RootTypes, StagingTypes, AssetTypes
<1>5. RootIsSound' /\ StagedIsOwn' /\ Asset!IdentitiesDiffer' /\ Asset!StagingIsCleared'
  BY <1>2, <1>3, <1>4, RootUnmoved
<1>6. FileInHand'
  BY <1>2, <1>3 DEF ImportInvariant, FileInHand
<1>7. (\A j \in Clients : RecordsAgree(upload[j].got)') /\ RecordsAgree(answered)'
  BY <1>2, <1>3 DEF ImportInvariant, RecordsAgree
<1>8. QED
  BY <1>4, <1>5, <1>6, <1>7 DEF ImportInvariant

LEMMA DescribeStep ==
  ASSUME Asset!ImportAssumption, ImportInvariant, NEW i \in Clients, Asset!Describe(i)
  PROVE  ImportInvariant'
<1>1. /\ upload[i].at = "describe" /\ contentIds < MaxUploads /\ contentIds' = contentIds + 1
      /\ contentIds \in 0 .. MaxUploads /\ MaxUploads \in Nat
      /\ UNCHANGED <<final, litter, answered, faults>>
  BY DEF Asset!Describe, Asset!ImportAssumption, ImportInvariant, ImportStateTypes, AssetTypes
<1>2. /\ ImportTypes'
      /\ upload'[i].at = "rename" /\ upload'[i].left = upload[i].left /\ upload'[i].got = upload[i].got
      /\ \A j \in Clients \ {i} : upload'[j] = upload[j]
  BY ImportMoves DEF Asset!Describe, Asset!Go, AssetPlaces, ImportInvariant, ImportStateTypes
<1>3. contentIds + 1 \in 0 .. MaxUploads
  BY <1>1
<1>4. /\ StagingTypes' /\ staging'[i].id = contentIds + 1
      /\ \A j \in Clients \ {i} : staging'[j] = staging[j]
  BY <1>3, StagingIded DEF Asset!Describe, ImportInvariant, ImportStateTypes
<1>5. ImportStateTypes'
  BY <1>1, <1>2, <1>3, <1>4 DEF ImportInvariant, ImportStateTypes, RootTypes, AssetTypes
<1>6. /\ \A c \in Contents : final[c].id \in Nat /\ final[c].id <= contentIds
      /\ \A j \in Clients : staging[j].id \in Nat /\ staging[j].id <= contentIds
  BY <1>1 DEF ImportInvariant, ImportStateTypes, RootTypes, StoredFile, StagingTypes, StagedFile, RootIsSound, StagedIsOwn
<1>7. RootIsSound' /\ Asset!IdentitiesDiffer'
  BY <1>1, <1>6 DEF ImportInvariant, RootIsSound, Asset!IdentitiesDiffer
<1>8. StagedIsOwn'
  BY <1>1, <1>2, <1>4, <1>6 DEF ImportInvariant, StagedIsOwn
<1>9. FileInHand' /\ Asset!StagingIsCleared'
  BY <1>1, <1>2, <1>4 DEF ImportInvariant, FileInHand, Asset!StagingIsCleared, Asset!Idle
<1>10. (\A j \in Clients : RecordsAgree(upload[j].got)') /\ RecordsAgree(answered)'
  BY <1>1, <1>2 DEF ImportInvariant, RecordsAgree
<1>11. QED
  BY <1>5, <1>7, <1>8, <1>9, <1>10 DEF ImportInvariant

LEMMA MoveStep ==
  ASSUME Asset!ImportAssumption, ImportInvariant, NEW i \in Clients, Asset!Move(i)
  PROVE  ImportInvariant'
<1> DEFINE k == Asset!TheContent(i)
           n == staging[i].id
           file == [there |-> TRUE, id |-> n, whole |-> TRUE]
<1>1. upload[i].at = "rename" /\ UNCHANGED <<contentIds, litter, answered, faults>>
  BY DEF Asset!Move
<1>2. k \in Contents
  BY <1>1, ContentInHand DEF ImportInvariant
<1>3. /\ ImportTypes'
      /\ upload'[i].at = "load" /\ upload'[i].left = upload[i].left /\ upload'[i].got = upload[i].got
      /\ \A j \in Clients \ {i} : upload'[j] = upload[j]
  BY ImportMoves DEF Asset!Move, Asset!Go, AssetPlaces, ImportInvariant, ImportStateTypes
<1>4. FileInHand'
  BY <1>1, <1>3 DEF ImportInvariant, FileInHand
<1>5. CASE final[k].there
  <2>1. UNCHANGED <<final, staging>>
    BY <1>5 DEF Asset!Move
  <2>2. ImportStateTypes'
    BY <1>1, <1>3, <2>1 DEF ImportInvariant, ImportStateTypes, RootTypes, StagingTypes, AssetTypes
  <2>3. RootIsSound' /\ StagedIsOwn' /\ Asset!IdentitiesDiffer' /\ Asset!StagingIsCleared'
    BY <1>1, <1>3, <2>1, <2>2, RootUnmoved
  <2>4. (\A j \in Clients : RecordsAgree(upload[j].got)') /\ RecordsAgree(answered)'
    BY <1>1, <1>3, <2>1 DEF ImportInvariant, RecordsAgree
  <2>5. QED
    BY <1>4, <2>2, <2>3, <2>4 DEF ImportInvariant
<1>6. CASE ~final[k].there
  <2>1. final' = [final EXCEPT ![k] = file] /\ staging' = [staging EXCEPT ![i] = Asset!NotStaged]
    BY <1>6 DEF Asset!Move
  <2>2. n \in 0 .. MaxUploads /\ n # 0 /\ n <= contentIds /\ final[k].id = 0
    BY <1>1, <1>2, <1>6 DEF ImportInvariant, ImportStateTypes, StagingTypes, StagedFile, StagedIsOwn, RootIsSound
  <2>3. (\A c \in Contents : final[c].id # n) /\ \A j \in Clients \ {i} : staging[j].id # n
    BY <2>2 DEF ImportInvariant, StagedIsOwn
  <2>4. file \in StoredFile
    BY <2>2 DEF StoredFile
  <2>5. RootTypes' /\ final'[k] = file /\ \A c \in Contents \ {k} : final'[c] = final[c]
    <3> HIDE DEF file, k
    <3>1. QED
      BY <1>2, <2>1, <2>4 DEF ImportInvariant, ImportStateTypes, RootTypes
  <2>6. /\ StagingTypes' /\ staging'[i].id = 0 /\ ~staging'[i].there
        /\ \A j \in Clients \ {i} : staging'[j] = staging[j]
    <3>1. Asset!NotStaged.id = 0 /\ ~Asset!NotStaged.there
      BY DEF Asset!NotStaged
    <3>2. QED
      BY <2>1, <3>1, StagingBecomes, ImportBlanks DEF ImportInvariant, ImportStateTypes
  <2>7. final'[k].there /\ final'[k].id = n /\ final'[k].whole
    BY <2>5
  <2> HIDE DEF k, n, file
  <2>8. ImportStateTypes'
    BY <1>1, <1>3, <2>5, <2>6 DEF ImportInvariant, ImportStateTypes, AssetTypes
  <2>9. RootIsSound'
    BY <1>1, <2>2, <2>5, <2>7 DEF ImportInvariant, RootIsSound
  <2>10. Asset!IdentitiesDiffer'
    BY <2>3, <2>5, <2>7 DEF ImportInvariant, Asset!IdentitiesDiffer
  <2>11. StagedIsOwn'
    BY <1>1, <1>3, <2>2, <2>3, <2>5, <2>6, <2>7 DEF ImportInvariant, ImportStateTypes, AssetTypes, StagedIsOwn
  <2>12. Asset!StagingIsCleared'
    BY <1>3, <2>6 DEF ImportInvariant, Asset!StagingIsCleared
  <2>13. (\A j \in Clients : RecordsAgree(upload[j].got)') /\ RecordsAgree(answered)'
    BY <1>1, <1>3, <2>2, <2>5 DEF ImportInvariant, RecordsAgree
  <2>14. QED
    BY <1>4, <2>8, <2>9, <2>10, <2>11, <2>12, <2>13 DEF ImportInvariant
<1>7. QED
  BY <1>5, <1>6

LEMMA LoadStep ==
  ASSUME ImportInvariant, NEW i \in Clients, Asset!Load(i)
  PROVE  ImportInvariant'
<1> DEFINE k == Asset!TheContent(i)
<1>1. upload[i].at = "load" /\ UNCHANGED <<final, staging, contentIds, litter, answered, faults>>
  BY DEF Asset!Load
<1>2. k \in Contents
  BY <1>1, ContentInHand DEF ImportInvariant
<1>3. final[k].id \in 0 .. MaxUploads /\ (final[k].whole => final[k].id # 0)
  BY <1>2 DEF ImportInvariant, ImportStateTypes, RootTypes, StoredFile, RootIsSound
<1>4. /\ ImportTypes' /\ \A j \in Clients \ {i} : upload'[j] = upload[j]
      /\ upload'[i].at \in {"cleanUp", "failed"} /\ upload'[i].left = upload[i].left
      /\ \/ upload'[i].got = upload[i].got
         \/ final[k].whole /\ upload'[i].got = upload[i].got \cup {<<k, final[k].id>>}
  <2>1. CASE final[k].whole
    <3>1. upload' = [upload EXCEPT ![i].at = "cleanUp", ![i].got = @ \cup {<<k, final[k].id>>}]
      BY <2>1 DEF Asset!Load
    <3>2. <<k, final[k].id>> \in Contents \X (0 .. MaxUploads)
      BY <1>2, <1>3
    <3> HIDE DEF k
    <3>3. QED
      BY <2>1, <3>1, <3>2, ImportGets DEF AssetPlaces, ImportInvariant, ImportStateTypes
  <2>2. CASE ~final[k].whole
    <3>1. upload' = [upload EXCEPT ![i].at = "failed"]
      BY <2>2 DEF Asset!Load
    <3>2. QED
      BY <3>1, ImportMoves DEF AssetPlaces, ImportInvariant, ImportStateTypes
  <2>3. QED
    BY <2>1, <2>2
<1>5. ImportStateTypes'
  BY <1>1, <1>4 DEF ImportInvariant, ImportStateTypes, RootTypes, StagingTypes, AssetTypes
<1>6. RootIsSound' /\ StagedIsOwn' /\ Asset!IdentitiesDiffer' /\ Asset!StagingIsCleared'
  BY <1>1, <1>4, <1>5, RootUnmoved
<1>7. FileInHand'
  BY <1>1, <1>4 DEF ImportInvariant, FileInHand
<1>8. (\A j \in Clients : RecordsAgree(upload[j].got)') /\ RecordsAgree(answered)'
  <2>1. RecordsAgree(upload'[i].got)
    BY <1>3, <1>4 DEF ImportInvariant, RecordsAgree
  <2>2. QED
    BY <1>1, <1>4, <2>1 DEF ImportInvariant, RecordsAgree
<1>9. QED
  BY <1>5, <1>6, <1>7, <1>8 DEF ImportInvariant

LEMMA FailStep ==
  ASSUME Asset!ImportAssumption, ImportInvariant, NEW i \in Clients, Asset!Fail(i)
  PROVE  ImportInvariant'
<1>1. PICK made \in BOOLEAN : staging' = [staging EXCEPT ![i].there = made]
  BY DEF Asset!Fail
<1>2. /\ faults' \in 0 .. MaxMishaps
      /\ UNCHANGED <<final, contentIds, litter, answered>>
  BY DEF Asset!Fail, Asset!ImportAssumption, ImportInvariant, ImportStateTypes, AssetTypes
<1>3. /\ ImportTypes'
      /\ upload'[i].at = "failed" /\ upload'[i].left = upload[i].left /\ upload'[i].got = upload[i].got
      /\ \A j \in Clients \ {i} : upload'[j] = upload[j]
  BY ImportMoves DEF Asset!Fail, Asset!Go, AssetPlaces, ImportInvariant, ImportStateTypes
<1>4. /\ StagingTypes' /\ staging'[i].id = staging[i].id
      /\ \A j \in Clients \ {i} : staging'[j] = staging[j]
  BY <1>1, StagingMade DEF ImportInvariant, ImportStateTypes
<1>5. ImportStateTypes'
  BY <1>2, <1>3, <1>4 DEF ImportInvariant, ImportStateTypes, RootTypes, AssetTypes
<1>6. RootIsSound' /\ Asset!IdentitiesDiffer'
  BY <1>2 DEF ImportInvariant, RootIsSound, Asset!IdentitiesDiffer
<1>7. StagedIsOwn'
  BY <1>2, <1>3, <1>4 DEF ImportInvariant, StagedIsOwn
<1>8. Asset!StagingIsCleared' /\ FileInHand'
  BY <1>3, <1>4 DEF ImportInvariant, Asset!StagingIsCleared, FileInHand, Asset!Idle
<1>9. (\A j \in Clients : RecordsAgree(upload[j].got)') /\ RecordsAgree(answered)'
  BY <1>2, <1>3 DEF ImportInvariant, RecordsAgree
<1>10. QED
  BY <1>5, <1>6, <1>7, <1>8, <1>9 DEF ImportInvariant

LEMMA CleanUpStep ==
  ASSUME Asset!ImportAssumption, ImportInvariant, NEW i \in Clients, Asset!CleanUp(i)
  PROVE  ImportInvariant'
<1>1. UNCHANGED <<final, contentIds, litter, faults>>
  BY DEF Asset!CleanUp
<1>2. /\ StagingTypes' /\ staging'[i].id = 0 /\ ~staging'[i].there
      /\ \A j \in Clients \ {i} : staging'[j] = staging[j]
  <2>1. Asset!NotStaged.id = 0 /\ ~Asset!NotStaged.there
    BY DEF Asset!NotStaged
  <2>2. staging' = [staging EXCEPT ![i] = Asset!NotStaged]
    BY DEF Asset!CleanUp
  <2>3. QED
    BY <2>1, <2>2, StagingBecomes, ImportBlanks DEF ImportInvariant, ImportStateTypes
<1>3. upload[i] \in ImportRequest /\ answered' \in {answered, answered \cup upload[i].got}
  BY DEF Asset!CleanUp, ImportInvariant, ImportStateTypes, ImportTypes
<1>4. PICK r \in ImportRequest :
        /\ upload' = [upload EXCEPT ![i] = r]
        /\ r = Asset!Idle \/ (r.at = "stage" /\ r.left # <<>> /\ r.got = upload[i].got)
  <2>1. CASE upload[i].at = "cleanUp" /\ Len(upload[i].left) > 1
    <3> DEFINE r == [at |-> "stage", left |-> Tail(upload[i].left), got |-> upload[i].got]
    <3>1. Tail(upload[i].left) \in Seq(Contents) /\ Tail(upload[i].left) # <<>>
      BY <2>1, ContentInHand DEF ImportInvariant
    <3>2. r \in ImportRequest
      BY <1>3, <3>1 DEF ImportRequest, AssetPlaces
    <3>3. upload' = [upload EXCEPT ![i] = r]
      BY <2>1, <1>3 DEF Asset!CleanUp, ImportRequest, ImportInvariant, ImportStateTypes, ImportTypes
    <3>4. QED
      BY <3>1, <3>2, <3>3
  <2>2. CASE ~(upload[i].at = "cleanUp" /\ Len(upload[i].left) > 1)
    BY <2>2, ImportBlanks DEF Asset!CleanUp
  <2>3. QED
    BY <2>1, <2>2
<1>5. ImportTypes' /\ upload'[i] = r /\ \A j \in Clients \ {i} : upload'[j] = upload[j]
  BY <1>4, ImportBecomes DEF ImportInvariant, ImportStateTypes
<1>6. answered' \in SUBSET (Contents \X (0 .. MaxUploads))
  BY <1>3 DEF ImportRequest, ImportInvariant, ImportStateTypes, AssetTypes
<1>7. ImportStateTypes'
  BY <1>1, <1>2, <1>5, <1>6 DEF ImportInvariant, ImportStateTypes, RootTypes, AssetTypes
<1>8. RootIsSound' /\ Asset!IdentitiesDiffer'
  BY <1>1 DEF ImportInvariant, RootIsSound, Asset!IdentitiesDiffer
<1>9. r.at \in {"idle", "stage"} /\ (r.at = "stage" => r.left # <<>>)
  BY <1>4 DEF Asset!Idle
<1>10. StagedIsOwn'
  BY <1>1, <1>2, <1>5, <1>9 DEF ImportInvariant, ImportStateTypes, AssetTypes, StagedIsOwn
<1>11. Asset!StagingIsCleared' /\ FileInHand'
  BY <1>2, <1>5, <1>9 DEF ImportInvariant, Asset!StagingIsCleared, FileInHand
<1>12. RecordsAgree(r.got)
  BY <1>4 DEF ImportInvariant, RecordsAgree, Asset!Idle
<1>13. (\A j \in Clients : RecordsAgree(upload[j].got)') /\ RecordsAgree(answered)'
  BY <1>1, <1>3, <1>5, <1>12 DEF ImportInvariant, RecordsAgree
<1>14. QED
  BY <1>7, <1>8, <1>10, <1>11, <1>13 DEF ImportInvariant

\* A crash forgets what is staged, and damage changes no identity.
LEMMA MishapStep ==
  ASSUME Asset!ImportAssumption, ImportInvariant, Asset!Crash \/ \E c \in Contents : Asset!Damage(c)
  PROVE  ImportInvariant'
<1>1. CASE Asset!Crash
  <2>1. /\ upload' = [i \in Clients |-> Asset!Idle] /\ staging' = [i \in Clients |-> Asset!NotStaged]
        /\ UNCHANGED <<final, contentIds, answered>>
    BY <1>1 DEF Asset!Crash
  <2>2. litter' \in BOOLEAN /\ faults' \in 0 .. MaxMishaps
    BY <1>1 DEF Asset!Crash, Asset!ImportAssumption, ImportInvariant, ImportStateTypes, AssetTypes
  <2>3. ImportStateTypes'
    BY <2>1, <2>2, ImportBlanks DEF ImportInvariant, ImportStateTypes, RootTypes, StagingTypes, ImportTypes, AssetTypes
  <2>4. RootIsSound' /\ Asset!IdentitiesDiffer'
    BY <2>1 DEF ImportInvariant, RootIsSound, Asset!IdentitiesDiffer
  <2>5. StagedIsOwn'
    BY <2>1 DEF ImportInvariant, ImportStateTypes, AssetTypes, StagedIsOwn, Asset!NotStaged, Asset!Idle
  <2>6. Asset!StagingIsCleared' /\ FileInHand'
    BY <2>1 DEF Asset!StagingIsCleared, FileInHand, Asset!NotStaged, Asset!Idle
  <2>7. (\A j \in Clients : RecordsAgree(upload[j].got)') /\ RecordsAgree(answered)'
    BY <2>1 DEF ImportInvariant, RecordsAgree, Asset!Idle
  <2>8. QED
    BY <2>3, <2>4, <2>5, <2>6, <2>7 DEF ImportInvariant
<1>2. ASSUME NEW c \in Contents, Asset!Damage(c)
      PROVE  ImportInvariant'
  <2>1. faults' \in 0 .. MaxMishaps /\ UNCHANGED <<staging, upload, contentIds, litter, answered>>
    BY <1>2 DEF Asset!Damage, Asset!ImportAssumption, ImportInvariant, ImportStateTypes, AssetTypes
  <2>2. /\ RootTypes' /\ \A d \in Contents \ {c} : final'[d] = final[d]
        /\ final'[c].id = final[c].id /\ (final'[c].there <=> final[c].there) /\ ~final'[c].whole
    BY <1>2, FileDamages DEF Asset!Damage, ImportInvariant, ImportStateTypes
  <2>3. \A d \in Contents : /\ final'[d].id = final[d].id
                            /\ final'[d].there <=> final[d].there
                            /\ final'[d].whole => final[d].whole
    BY <2>2
  <2>4. ImportStateTypes'
    BY <2>1, <2>2 DEF ImportInvariant, ImportStateTypes, StagingTypes, ImportTypes, AssetTypes
  <2>5. RootIsSound' /\ Asset!IdentitiesDiffer'
    BY <2>1, <2>3 DEF ImportInvariant, RootIsSound, Asset!IdentitiesDiffer
  <2>6. StagedIsOwn' /\ Asset!StagingIsCleared' /\ FileInHand'
    BY <2>1, <2>3 DEF ImportInvariant, StagedIsOwn, Asset!StagingIsCleared, FileInHand
  <2>7. (\A j \in Clients : RecordsAgree(upload[j].got)') /\ RecordsAgree(answered)'
    BY <2>1, <2>3 DEF ImportInvariant, RecordsAgree
  <2>8. QED
    BY <2>4, <2>5, <2>6, <2>7 DEF ImportInvariant
<1>3. QED
  BY <1>1, <1>2

LEMMA ImportInductive == Asset!ImportAssumption /\ ImportInvariant /\ [Asset!Next]_(Asset!vars) => ImportInvariant'
<1> SUFFICES ASSUME Asset!ImportAssumption, ImportInvariant, [Asset!Next]_(Asset!vars)
             PROVE  ImportInvariant'
  OBVIOUS
<1>1. CASE UNCHANGED Asset!vars
  BY <1>1 DEF Asset!vars, ImportInvariant, ImportStateTypes, RootTypes, StagingTypes, ImportTypes, AssetTypes, RootIsSound, StagedIsOwn, Asset!IdentitiesDiffer, FileInHand,
    RecordsAgree, Asset!StagingIsCleared
<1>2. CASE Asset!Next
  BY <1>2, BeginStep, StageStep, LookStep, DescribeStep, MoveStep, LoadStep, FailStep, CleanUpStep,
    MishapStep DEF Asset!Next
<1>3. QED
  BY <1>1, <1>2

-----------------------------------------------------------------------------
\* For any number of importers, contents, failures and crashes: an Asset in the
\* root is described, its content has the one record that every importer was
\* answered with, and no request leaves its staging behind.
THEOREM AssetsStayOriginal ==
  ASSUME Asset!ImportAssumption
  PROVE  Asset!Spec => []AssetsAreOriginal
<1>1. Asset!Init => ImportInvariant
  BY Asset!ImportAssumption, ImportInitially
<1>2. ImportInvariant /\ [Asset!Next]_(Asset!vars) => ImportInvariant'
  BY Asset!ImportAssumption, ImportInductive
<1>3. ImportInvariant => AssetsAreOriginal
  <2> SUFFICES ASSUME ImportInvariant PROVE AssetsAreOriginal
    OBVIOUS
  <2>1. Asset!TypeOK /\ Asset!StoredIsDescribed
    <3>1. \A c \in Contents : /\ final[c].id \in 0 .. MaxUploads /\ (final[c].whole => final[c].there)
                              /\ final[c].there => final[c].id # 0
      BY DEF ImportInvariant, ImportStateTypes, RootTypes, StoredFile, RootIsSound
    <3>2. \A i \in Clients : staging[i].id \in 0 .. MaxUploads
      BY DEF ImportInvariant, ImportStateTypes, StagingTypes, StagedFile
    <3>3. AssetTypes
      BY DEF ImportInvariant, ImportStateTypes
    <3>4. QED
      BY <3>1, <3>2, <3>3 DEF AssetTypes, Asset!TypeOK, Asset!StoredIsDescribed
  <2>2. Asset!AnswersAgree
    BY Asset!ImportAssumption DEF ImportInvariant, RecordsAgree, Asset!AnswersAgree, Asset!ImportAssumption
  <2>3. QED
    BY <2>1, <2>2 DEF ImportInvariant, AssetsAreOriginal, Asset!AssetsAreOriginal
<1>4. QED
  BY <1>1, <1>2, <1>3, PTL DEF Asset!Spec

-----------------------------------------------------------------------------
Owned(key) == owner[key] # Owner!NoOwner

OwnerRecords == [id : Owner!Ids \cup {None}, project : Owner!Ids \cup {None}]
Job == [at : {"idle", "make", "check", "ensure", "write", "link", "unlink", "read", "undo", "row"},
        op : {"create", "adopt", "run", None}, key : Owner!Keys \cup {None}, id : Owner!Ids \cup {None}]

OwnerTypes ==
    /\ present \subseteq Owner!Keys /\ temporary \subseteq Owner!Keys
    /\ owner \in [Owner!Keys -> OwnerRecords]
    /\ rows \subseteq [key : Owner!Keys, id : Owner!Ids]
    /\ ownerIds \in 0 .. MaxOwners /\ failures \in 0 .. MaxFailures

\* An owner is in a directory, and so is that of the Project it names.
OwnersFit == \A key \in Owner!Keys : Owned(key) =>
    /\ key \in present /\ owner[key].id \in Owner!Ids
    /\ key \in Batches => Owned(ProjectOf[key]) /\ owner[key].project = owner[ProjectOf[key]].id

RowsFit == \A row \in rows : owner[row.key].id = row.id

\* A request keeps off a Batch whose Project has no owner, links in a directory
\* that is there, and registers what the owner file says.
IsSoundJob(j) ==
    /\ j \in Job
    /\ j.at # "idle" =>
        j.key \in Owner!Keys /\ j.id \in Owner!Ids /\ (j.key \in Batches => Owned(ProjectOf[j.key]))
    /\ j.at \in {"link", "unlink"} => j.key \in present
    /\ j.at = "row" => owner[j.key].id = j.id

JobsAreSound == job \in [Clients -> Job] /\ \A w \in Clients : IsSoundJob(job[w])

\* An identity that the service drew is for one key, in a file or in a request.
Claims(key, n) == owner[key].id = n \/ \E w \in Clients : job[w].key = key /\ job[w].id = n

ClaimsDiffer == \A n \in 1 .. MaxOwners : \A key \in Owner!Keys : Claims(key, n) =>
    n <= ownerIds /\ \A other \in Owner!Keys : Claims(other, n) => other = key

OwnerInvariant == OwnerTypes /\ OwnersFit /\ RowsFit /\ JobsAreSound /\ ClaimsDiffer

LEMMA NoOwnerHasNoId ==
  ASSUME Owner!OwnerAssumption
  PROVE  /\ Owner!NoOwner \in OwnerRecords /\ Owner!NoOwner.id \notin Owner!Ids
         /\ Owner!Idle \in Job /\ Owner!Idle.at = "idle" /\ Owner!Idle.id = None
BY DEF Owner!OwnerAssumption, Owner!NoOwner, Owner!Idle, OwnerRecords, Job

LEMMA OwnedIsReadable ==
  ASSUME Owner!OwnerAssumption, OwnerInvariant, NEW key \in Owner!Keys
  PROVE  /\ owner[key].id \in Owner!Ids <=> Owned(key)
         /\ Owned(key) => Owner!Readable(key)
         /\ Owner!Readable(key) => Owned(key)
<1>1. owner[key].id \in Owner!Ids <=> Owned(key)
  BY NoOwnerHasNoId DEF Owned, OwnerInvariant, OwnersFit
<1>2. Owner!Readable(key) <=> Owned(key)
  BY DEF Owner!OwnerAssumption, Owner!Keys, Owner!Readable, Owner!IsOwned, Owned, OwnerInvariant, OwnersFit
<1> QED
  BY <1>1, <1>2

\* A step of one request that changes no owner and no row, and claims nothing new.
LEMMA JobMoves ==
  ASSUME Owner!OwnerAssumption, OwnerInvariant, OwnerTypes', UNCHANGED <<owner, rows, ownerIds>>, present \subseteq present',
         NEW w \in Clients, NEW j \in Job, job' = [job EXCEPT ![w] = j], IsSoundJob(j)',
         \A n \in 1 .. MaxOwners : j.id = n => j.key \in Owner!Keys /\ Claims(j.key, n)
  PROVE  OwnerInvariant'
<1>1. OwnersFit' /\ RowsFit'
  BY DEF OwnerInvariant, OwnersFit, RowsFit, Owned
<1>2. job' \in [Clients -> Job] /\ job'[w] = j /\ \A v \in Clients \ {w} : job'[v] = job[v]
  BY DEF OwnerInvariant, JobsAreSound
<1>3. ASSUME NEW v \in Clients PROVE IsSoundJob(job[v])'
  <2>1. CASE v = w
    BY <1>2, <2>1 DEF IsSoundJob, Owned
  <2>2. CASE v # w
    BY <1>2, <2>2 DEF OwnerInvariant, JobsAreSound, IsSoundJob, Owned
  <2> QED
    BY <2>1, <2>2
<1>4. ClaimsDiffer'
  <2>1. \A n \in 1 .. MaxOwners, key \in Owner!Keys : Claims(key, n)' => Claims(key, n)
    BY <1>2 DEF Claims
  <2> QED
    BY <2>1 DEF OwnerInvariant, ClaimsDiffer
<1> QED
  BY <1>1, <1>2, <1>3, <1>4 DEF OwnerInvariant, JobsAreSound

LEMMA Goes ==
  ASSUME OwnerInvariant, NEW w \in Clients,
         NEW at \in {"make", "check", "ensure", "write", "link", "unlink", "read", "undo", "row"}, Owner!Go(w, at)
  PROVE  \E j \in Job : /\ job' = [job EXCEPT ![w] = j]
                        /\ j.at = at /\ j.op = job[w].op /\ j.key = job[w].key /\ j.id = job[w].id
<1> DEFINE j == [job[w] EXCEPT !.at = at]
<1>1. job[w] \in Job /\ job' = [job EXCEPT ![w] = j]
  BY DEF OwnerInvariant, JobsAreSound, Owner!Go
<1>2. j \in Job /\ j.at = at /\ j.op = job[w].op /\ j.key = job[w].key /\ j.id = job[w].id
  BY <1>1 DEF Job
<1> HIDE DEF j
<1> QED
  BY <1>1, <1>2

\* A request that is on its way goes on, for the same key and identity.
LEMMA JobGoesOn ==
  ASSUME Owner!OwnerAssumption, OwnerInvariant, OwnerTypes', UNCHANGED <<owner, rows, ownerIds>>, present \subseteq present',
         NEW w \in Clients, job[w].at # "idle",
         NEW at \in {"make", "check", "ensure", "write", "link", "unlink", "read", "undo", "row"}, Owner!Go(w, at),
         at \in {"link", "unlink"} => job[w].key \in present',
         at = "row" => owner[job[w].key].id = job[w].id
  PROVE  OwnerInvariant'
<1>1. PICK j \in Job : /\ job' = [job EXCEPT ![w] = j]
                       /\ j.at = at /\ j.op = job[w].op /\ j.key = job[w].key /\ j.id = job[w].id
  BY Goes
<1>2. IsSoundJob(job[w])
  BY DEF OwnerInvariant, JobsAreSound
<1>3. IsSoundJob(j)'
  BY <1>1, <1>2 DEF IsSoundJob, Owned
<1>4. \A n \in 1 .. MaxOwners : j.id = n => j.key \in Owner!Keys /\ Claims(j.key, n)
  BY <1>1, <1>2 DEF IsSoundJob, Claims
<1> QED
  BY <1>1, <1>3, <1>4, JobMoves

LEMMA JobStops ==
  ASSUME Owner!OwnerAssumption, OwnerInvariant, OwnerTypes', UNCHANGED <<owner, rows, ownerIds>>, present \subseteq present',
         NEW w \in Clients, Owner!Stop(w)
  PROVE  OwnerInvariant'
<1>1. IsSoundJob(Owner!Idle)'
  BY NoOwnerHasNoId DEF IsSoundJob
<1>2. \A n \in 1 .. MaxOwners : Owner!Idle.id # n
  BY NoOwnerHasNoId DEF Owner!OwnerAssumption, Owner!Ids
<1>3. job' = [job EXCEPT ![w] = Owner!Idle] /\ Owner!Idle \in Job
  BY NoOwnerHasNoId DEF Owner!Stop
<1> QED
  BY <1>1, <1>2, <1>3, JobMoves

LEMMA OwnerInitially == Owner!OwnerAssumption /\ Owner!Init => OwnerInvariant
<1> SUFFICES ASSUME Owner!OwnerAssumption, Owner!Init PROVE OwnerInvariant
  OBVIOUS
<1>1. OwnerTypes
  BY NoOwnerHasNoId DEF Owner!Init, Owner!OwnerAssumption, OwnerTypes
<1>2. OwnersFit /\ RowsFit
  BY DEF Owner!Init, OwnersFit, RowsFit, Owned
<1>3. JobsAreSound
  BY NoOwnerHasNoId DEF Owner!Init, JobsAreSound, IsSoundJob
<1>4. ClaimsDiffer
  <2>1. \A n \in 1 .. MaxOwners : Owner!Idle.id # n /\ Owner!NoOwner.id # n
    BY NoOwnerHasNoId DEF Owner!OwnerAssumption, Owner!Ids
  <2> QED
    BY <2>1 DEF Owner!Init, ClaimsDiffer, Claims
<1> QED
  BY <1>1, <1>2, <1>3, <1>4 DEF OwnerInvariant

\* How requests start: with a new identity, with the owner's or the user's.
LEMMA CreateStep ==
  ASSUME Owner!OwnerAssumption, OwnerInvariant, NEW w \in Clients, NEW key \in Owner!Keys, Owner!Create(w, key)
  PROVE  OwnerInvariant'
<1> DEFINE n == ownerIds + 1
<1>1. n \in 1 .. MaxOwners /\ n \in Owner!Ids /\ ownerIds' = n /\ ownerIds \in Nat
  BY DEF Owner!Create, Owner!OwnerAssumption, Owner!Ids, OwnerInvariant, OwnerTypes
<1>2. UNCHANGED <<present, owner, temporary, rows, failures>> 
  BY DEF Owner!Create
<1>3. key \in Batches => Owned(ProjectOf[key])
  BY OwnedIsReadable DEF Owner!Create, Owner!ProjectIsOwn, Owner!OwnerAssumption, Owner!Keys, OwnerInvariant, RowsFit, OwnerTypes
<1>4. PICK j \in Job : job' = [job EXCEPT ![w] = j] /\ j.at = "make" /\ j.key = key /\ j.id = n
  <2> DEFINE new == [at |-> "make", op |-> "create", key |-> key, id |-> n]
  <2>1. new \in Job /\ job' = [job EXCEPT ![w] = new]
    BY <1>1 DEF Job, Owner!Create
  <2> QED
    BY <2>1
<1>5. IsSoundJob(j)'
  BY <1>1, <1>2, <1>3, <1>4 DEF IsSoundJob, Owned
<1> HIDE DEF n
<1>7. OwnerTypes' /\ OwnersFit' /\ RowsFit'
  BY <1>1, <1>2 DEF OwnerInvariant, OwnerTypes, OwnersFit, RowsFit, Owned
<1>8. job' \in [Clients -> Job] /\ job'[w] = j /\ \A v \in Clients \ {w} : job'[v] = job[v]
  BY <1>2, <1>4 DEF OwnerInvariant, JobsAreSound
<1>9. JobsAreSound'
  <2>1. ASSUME NEW v \in Clients \ {w} PROVE IsSoundJob(job[v])'
    BY <1>2, <1>8 DEF OwnerInvariant, JobsAreSound, IsSoundJob, Owned
  <2>2. IsSoundJob(job[w])'
    BY <1>5, <1>8 DEF IsSoundJob, Owned
  <2> QED
    BY <1>8, <2>1, <2>2 DEF JobsAreSound
<1>10. ClaimsDiffer'
  <2>1. \A m \in 1 .. MaxOwners, k \in Owner!Keys : Claims(k, m)' => Claims(k, m) \/ (m = n /\ k = key)
    BY <1>2, <1>4, <1>8 DEF Claims
  <2>2. \A k \in Owner!Keys : ~Claims(k, n)
    BY <1>1 DEF OwnerInvariant, ClaimsDiffer, n
  <2>3. \A m \in 1 .. MaxOwners : m <= ownerIds => m <= n
    BY <1>1 DEF n
  <2> QED
    BY <1>1, <2>1, <2>2, <2>3 DEF OwnerInvariant, ClaimsDiffer
<1> QED
  BY <1>7, <1>9, <1>10 DEF OwnerInvariant

LEMMA AdoptStep ==
  ASSUME Owner!OwnerAssumption, OwnerInvariant, NEW w \in Clients, NEW key \in Owner!Keys,
         NEW given \in {None, Owner!Supplied}, Owner!Adopt(w, key, given)
  PROVE  OwnerInvariant'
<1>1. UNCHANGED <<present, owner, temporary, rows, ownerIds, failures>> /\ OwnerTypes'
  BY DEF Owner!Adopt, OwnerInvariant, OwnerTypes
<1>2. key \in Batches => Owned(ProjectOf[key])
  BY OwnedIsReadable DEF Owner!Adopt, Owner!ProjectIsOwn, Owner!OwnerAssumption, Owner!Keys, OwnerInvariant, RowsFit, OwnerTypes
<1>3. CASE Owner!Readable(key)
  <2>1. PICK j \in Job : job' = [job EXCEPT ![w] = j] /\ j.at = "row" /\ j.key = key /\ j.id = owner[key].id
    <3> DEFINE new == [at |-> "row", op |-> "adopt", key |-> key, id |-> owner[key].id]
    <3>1. new \in Job /\ job' = [job EXCEPT ![w] = new]
      BY <1>3, OwnedIsReadable DEF Owner!Adopt, Job
    <3> QED
      BY <3>1
  <2>2. IsSoundJob(j)'
    BY <1>1, <1>2, <1>3, <2>1, OwnedIsReadable DEF IsSoundJob, Owned
  <2>3. \A n \in 1 .. MaxOwners : j.id = n => j.key \in Owner!Keys /\ Claims(j.key, n)
    BY <2>1 DEF Claims
  <2> QED
    BY <1>1, <2>1, <2>2, <2>3, JobMoves
<1>4. CASE ~Owner!Readable(key)
  <2> DEFINE j == [at |-> "check", op |-> "adopt", key |-> key, id |-> Owner!Supplied]
  <2>1. job' = [job EXCEPT ![w] = j] /\ Owner!Supplied \in Owner!Ids
    BY <1>4 DEF Owner!Adopt, Owner!Supplied, Owner!Ids, Owner!OwnerAssumption
  <2>2. j \in Job /\ IsSoundJob(j)'
    BY <1>1, <1>2, <2>1 DEF Job, IsSoundJob, Owned
  <2>3. \A n \in 1 .. MaxOwners : j.id # n
    BY DEF Owner!Supplied
  <2> HIDE DEF j
  <2> QED
    BY <1>1, <2>1, <2>2, <2>3, JobMoves
<1> QED
  BY <1>3, <1>4

LEMMA PublishForRunStep ==
  ASSUME Owner!OwnerAssumption, OwnerInvariant, NEW w \in Clients, NEW key \in Owner!Keys,
         NEW id \in {Owner!Supplied} \cup {row.id : row \in {r \in rows : r.key = key}}, Owner!PublishForRun(w, key, id)
  PROVE  OwnerInvariant'
<1> DEFINE j == [at |-> "ensure", op |-> "run", key |-> key, id |-> id]
<1>1. UNCHANGED <<present, owner, temporary, rows, ownerIds, failures>> /\ OwnerTypes' /\ job' = [job EXCEPT ![w] = j]
  BY DEF Owner!PublishForRun, OwnerInvariant, OwnerTypes
<1>2. key \in Batches => Owned(ProjectOf[key])
  BY DEF Owner!PublishForRun, Owner!IsOwned, Owned
<1>3. id \in Owner!Ids /\ (id # Owner!Supplied => owner[key].id = id)
  BY DEF Owner!Supplied, Owner!Ids, Owner!OwnerAssumption, OwnerInvariant, OwnerTypes, RowsFit
<1>4. j \in Job /\ IsSoundJob(j)'
  BY <1>1, <1>2, <1>3 DEF Job, IsSoundJob, Owned
<1>5. \A n \in 1 .. MaxOwners : j.id = n => j.key \in Owner!Keys /\ Claims(j.key, n)
  BY <1>3 DEF Claims, Owner!Supplied
<1> HIDE DEF j
<1> QED
  BY <1>1, <1>4, <1>5, JobMoves

\* What a request does next: the steps that change neither owner nor row ...
LEMMA DirectoryStep ==
  ASSUME Owner!OwnerAssumption, OwnerInvariant, NEW w \in Clients,
         Owner!MakeDirectory(w) \/ Owner!EnsureDirectory(w) \/ Owner!CheckOwnerless(w)
  PROVE  OwnerInvariant'
<1>1. UNCHANGED <<owner, rows, ownerIds, temporary, failures>> /\ job[w].at \in {"make", "ensure", "check"}
  BY DEF Owner!MakeDirectory, Owner!EnsureDirectory, Owner!CheckOwnerless
<1>2. present \subseteq present' /\ present' \subseteq present \cup {job[w].key}
  BY DEF Owner!MakeDirectory, Owner!EnsureDirectory, Owner!CheckOwnerless, Owner!TheKey
<1>3. OwnerTypes'
  BY <1>1, <1>2 DEF OwnerInvariant, OwnerTypes, JobsAreSound, IsSoundJob
<1>4. Owner!Stop(w) \/ Owner!Go(w, "ensure") \/ Owner!Go(w, "write")
  BY DEF Owner!MakeDirectory, Owner!EnsureDirectory, Owner!CheckOwnerless
<1> QED
  BY <1>1, <1>2, <1>3, <1>4, JobGoesOn, JobStops

LEMMA FileStep ==
  ASSUME Owner!OwnerAssumption, OwnerInvariant, NEW w \in Clients,
         Owner!WriteTemporary(w) \/ Owner!Unlink(w) \/ Owner!ReadBack(w) \/ Owner!Fail(w)
  PROVE  OwnerInvariant'
<1>1. UNCHANGED <<present, owner, rows, ownerIds, temporary>> /\ job[w].at \in {"write", "unlink", "read", "link"}
  BY DEF Owner!WriteTemporary, Owner!Unlink, Owner!ReadBack, Owner!Fail
<1>2. OwnerTypes'
  BY <1>1 DEF Owner!WriteTemporary, Owner!Unlink, Owner!ReadBack, Owner!Fail, Owner!OwnerAssumption, OwnerInvariant, OwnerTypes
<1>3. \/ Owner!Stop(w) \/ Owner!Go(w, "undo") \/ Owner!Go(w, "read")
      \/ job[w].key \in present /\ Owner!Go(w, "link")
      \/ owner[job[w].key].id = job[w].id /\ Owner!Go(w, "row")
  BY DEF Owner!WriteTemporary, Owner!Unlink, Owner!ReadBack, Owner!Fail, Owner!GiveUp, Owner!TheKey
<1> QED
  BY <1>1, <1>2, <1>3, JobGoesOn, JobStops

\* ... the owner that appears under its name, where there was none, ...
LEMMA LinkStep ==
  ASSUME Owner!OwnerAssumption, OwnerInvariant, NEW w \in Clients, Owner!Link(w)
  PROVE  OwnerInvariant'
<1> DEFINE key == job[w].key
           n == job[w].id
<1>1. job[w].at = "link" /\ Owner!Go(w, "unlink") /\ UNCHANGED <<present, rows, ownerIds, temporary, failures>>
  BY DEF Owner!Link
<1>2. /\ key \in Owner!Keys /\ n \in Owner!Ids /\ key \in present
      /\ key \in Batches => Owned(ProjectOf[key])
      /\ Claims(key, n)
  BY <1>1 DEF OwnerInvariant, JobsAreSound, IsSoundJob, Claims
<1>3. CASE Owned(key)
  <2>1. owner' = owner
    BY <1>3 DEF Owner!Link, Owner!TheKey, Owned
  <2>2. OwnerTypes'
    BY <1>1, <2>1 DEF OwnerInvariant, OwnerTypes
  <2> QED
    BY <1>1, <1>2, <2>1, <2>2, JobGoesOn
<1>4. CASE ~Owned(key)
  <2> DEFINE rec == Owner!OwnerRecord(key, n)
  <2>1. owner' = [owner EXCEPT ![key] = rec]
    BY <1>4 DEF Owner!Link, Owner!TheKey, Owned
  <2>2. rec.id = n /\ rec \in OwnerRecords /\ (key \in Batches => rec.project = owner[ProjectOf[key]].id)
    <3>1. key \in Batches => owner[ProjectOf[key]].id \in Owner!Ids
      BY <1>2 DEF Owner!OwnerAssumption, Owner!Keys, OwnerInvariant, OwnersFit
    <3> QED
      BY <1>2, <3>1 DEF Owner!OwnerRecord, OwnerRecords
  <2> HIDE DEF rec
  <2>3. owner' \in [Owner!Keys -> OwnerRecords] /\ owner'[key] = rec /\ \A k \in Owner!Keys \ {key} : owner'[k] = owner[k]
    BY <1>2, <2>1, <2>2 DEF OwnerInvariant, OwnerTypes
  <2>4. rec # Owner!NoOwner
    BY <1>2, <2>2, NoOwnerHasNoId
  <2>5. OwnerTypes'
    BY <1>1, <2>3 DEF OwnerInvariant, OwnerTypes
  <2>6. \A k \in Owner!Keys : Owned(k) => k # key /\ owner'[k] = owner[k] /\ owner'[k] # Owner!NoOwner
    BY <1>4, <2>3 DEF Owned
  <2>7. OwnersFit'
    <3>1. ASSUME NEW k \in Owner!Keys, k # key, owner'[k] # Owner!NoOwner
          PROVE  /\ k \in present' /\ owner'[k].id \in Owner!Ids
                 /\ k \in Batches => owner'[ProjectOf[k]] # Owner!NoOwner /\ owner'[k].project = owner'[ProjectOf[k]].id
      BY <1>1, <2>3, <2>6, <3>1 DEF Owner!OwnerAssumption, Owner!Keys, OwnerInvariant, OwnersFit, Owned
    <3>2. /\ key \in present' /\ owner'[key].id \in Owner!Ids
          /\ key \in Batches => owner'[ProjectOf[key]] # Owner!NoOwner /\ owner'[key].project = owner'[ProjectOf[key]].id
      BY <1>1, <1>2, <2>2, <2>3, <2>6 DEF Owner!OwnerAssumption, Owner!Keys
    <3> QED
      BY <3>1, <3>2 DEF OwnersFit, Owned
  <2>8. RowsFit'
    <3>1. \A row \in rows : row.key \in Owner!Keys /\ owner[row.key].id = row.id /\ row.id \in Owner!Ids
      BY DEF OwnerInvariant, OwnerTypes, RowsFit
    <3>2. \A row \in rows : row.key # key
      BY <1>2, <1>4, <3>1, OwnedIsReadable
    <3> QED
      BY <1>1, <2>3, <3>1, <3>2 DEF RowsFit
  <2>9. PICK j \in Job : /\ job' = [job EXCEPT ![w] = j]
                         /\ j.at = "unlink" /\ j.key = key /\ j.id = n
    BY <1>1, Goes
  <2>10. job' \in [Clients -> Job] /\ job'[w] = j /\ \A v \in Clients \ {w} : job'[v] = job[v]
    BY <2>9 DEF OwnerInvariant, JobsAreSound
  <2>11. JobsAreSound'
    <3>1. ASSUME NEW v \in Clients PROVE IsSoundJob(job[v])'
      <4>1. IsSoundJob(job[v]) /\ job'[v].key = job[v].key /\ job'[v].id = job[v].id
        BY <2>9, <2>10 DEF OwnerInvariant, JobsAreSound
      <4>2. job[v].at = "row" => owner'[job[v].key].id = job[v].id
        <5>1. job[v].at = "row" => Owned(job[v].key) /\ job[v].key \in Owner!Keys
          BY <4>1, OwnedIsReadable DEF IsSoundJob
        <5> QED
          BY <4>1, <5>1, <2>6 DEF IsSoundJob
      <4>3. job[v].key \in Batches /\ job[v].at # "idle" => owner'[ProjectOf[job[v].key]] # Owner!NoOwner
        BY <4>1, <2>6 DEF IsSoundJob, Owner!OwnerAssumption, Owner!Keys
      <4>4. job'[v].at = job[v].at \/ (v = w /\ job'[v].at = "unlink")
        BY <2>9, <2>10
      <4>5. job[w].at = "link"
        BY <1>1
      <4> QED
        BY <1>1, <1>2, <2>10, <4>1, <4>2, <4>3, <4>4, <4>5 DEF IsSoundJob, Owned
    <3> QED
      BY <2>10, <3>1 DEF JobsAreSound
  <2>12. ClaimsDiffer'
    <3>1. \A m \in 1 .. MaxOwners, k \in Owner!Keys : Claims(k, m)' => Claims(k, m)
      <4>1. ASSUME NEW m \in 1 .. MaxOwners, NEW k \in Owner!Keys, owner'[k].id = m PROVE Claims(k, m)
        BY <1>2, <2>2, <2>3, <4>1 DEF Claims
      <4>2. ASSUME NEW m \in 1 .. MaxOwners, NEW k \in Owner!Keys, NEW v \in Clients, job'[v].key = k, job'[v].id = m PROVE Claims(k, m)
        BY <2>9, <2>10, <4>2 DEF Claims
      <4> QED
        BY <4>1, <4>2 DEF Claims
    <3> QED
      BY <1>1, <3>1 DEF OwnerInvariant, ClaimsDiffer
  <2> QED
    BY <2>5, <2>7, <2>8, <2>11, <2>12 DEF OwnerInvariant
<1> QED
  BY <1>3, <1>4

\* ... the directory that a failed creation takes away, ...
LEMMA UndoStep ==
  ASSUME Owner!OwnerAssumption, OwnerInvariant, NEW w \in Clients, Owner!Undo(w)
  PROVE  OwnerInvariant'
<1> DEFINE key == job[w].key
<1>1. /\ job[w].at = "undo" /\ Owner!Stop(w) /\ UNCHANGED <<rows, ownerIds, temporary, failures>>
      /\ key \in Owner!Keys
  BY DEF Owner!Undo, OwnerInvariant, JobsAreSound, IsSoundJob
<1>2. CASE ~Owner!IsEmpty(w)
  <2>1. UNCHANGED <<present, owner>>
    BY <1>2 DEF Owner!Undo
  <2>2. OwnerTypes'
    BY <1>1, <2>1 DEF OwnerInvariant, OwnerTypes
  <2> QED
    BY <1>1, <2>1, <2>2, JobStops
<1>3. CASE Owner!IsEmpty(w)
  <2>1. /\ present' = present \ {key} /\ ~Owned(key)
        /\ \A v \in Clients \ {w} : job[v].key = key => job[v].at \notin {"link", "unlink"}
    BY <1>3 DEF Owner!Undo, Owner!IsEmpty, Owner!TheKey, Owned
  <2>2. owner' = owner
    <3>1. owner' = [owner EXCEPT ![key] = owner[key]]
      BY <1>3, <2>1 DEF Owner!Undo, Owner!TheKey, Owned
    <3> QED
      BY <3>1 DEF OwnerInvariant, OwnerTypes
  <2>3. OwnerTypes' /\ OwnersFit' /\ RowsFit'
    BY <1>1, <2>1, <2>2 DEF OwnerInvariant, OwnerTypes, OwnersFit, RowsFit, Owned
  <2>4. /\ job' \in [Clients -> Job] /\ job'[w] = Owner!Idle
        /\ \A v \in Clients \ {w} : job'[v] = job[v]
    BY <1>1, NoOwnerHasNoId DEF Owner!Stop, OwnerInvariant, JobsAreSound
  <2>5. JobsAreSound'
    <3>1. ASSUME NEW v \in Clients \ {w} PROVE IsSoundJob(job[v])'
      BY <2>1, <2>2, <2>4 DEF OwnerInvariant, JobsAreSound, IsSoundJob, Owned
    <3>2. IsSoundJob(job[w])'
      BY <2>4, NoOwnerHasNoId DEF IsSoundJob
    <3> QED
      BY <2>4, <3>1, <3>2 DEF JobsAreSound
  <2>6. ClaimsDiffer'
    <3>1. \A n \in 1 .. MaxOwners : Owner!Idle.id # n
      BY NoOwnerHasNoId DEF Owner!OwnerAssumption, Owner!Ids
    <3>2. \A n \in 1 .. MaxOwners, k \in Owner!Keys : Claims(k, n)' => Claims(k, n)
      BY <2>2, <2>4, <3>1 DEF Claims
    <3> QED
      BY <1>1, <3>2 DEF OwnerInvariant, ClaimsDiffer
  <2> QED
    BY <2>3, <2>5, <2>6 DEF OwnerInvariant
<1> QED
  BY <1>2, <1>3

\* ... the row, and what a crash leaves.
LEMMA InsertRowStep ==
  ASSUME Owner!OwnerAssumption, OwnerInvariant, NEW w \in Clients, Owner!InsertRow(w)
  PROVE  OwnerInvariant'
<1> DEFINE before == rows
<1>1. job[w].at = "row" /\ Owner!Stop(w) /\ UNCHANGED <<present, owner, ownerIds, temporary, failures>>
  BY DEF Owner!InsertRow
<1>2. job[w].key \in Owner!Keys /\ job[w].id \in Owner!Ids /\ owner[job[w].key].id = job[w].id
  BY <1>1 DEF OwnerInvariant, JobsAreSound, IsSoundJob
<1>3. rows' \subseteq rows \cup {[key |-> job[w].key, id |-> job[w].id]}
  BY DEF Owner!InsertRow, Owner!TheKey
<1>4. OwnerTypes' /\ OwnersFit' /\ RowsFit'
  BY <1>1, <1>2, <1>3 DEF OwnerInvariant, OwnerTypes, OwnersFit, RowsFit, Owned
<1>5. /\ job' \in [Clients -> Job] /\ job'[w] = Owner!Idle
      /\ \A v \in Clients \ {w} : job'[v] = job[v]
  BY <1>1, NoOwnerHasNoId DEF Owner!Stop, OwnerInvariant, JobsAreSound
<1>6. JobsAreSound'
  <2>1. ASSUME NEW v \in Clients \ {w} PROVE IsSoundJob(job[v])'
    BY <1>1, <1>5 DEF OwnerInvariant, JobsAreSound, IsSoundJob, Owned
  <2>2. IsSoundJob(job[w])'
    BY <1>5, NoOwnerHasNoId DEF IsSoundJob
  <2> QED
    BY <1>5, <2>1, <2>2 DEF JobsAreSound
<1>7. ClaimsDiffer'
  <2>1. \A n \in 1 .. MaxOwners : Owner!Idle.id # n
    BY NoOwnerHasNoId DEF Owner!OwnerAssumption, Owner!Ids
  <2>2. \A n \in 1 .. MaxOwners, k \in Owner!Keys : Claims(k, n)' => Claims(k, n)
    BY <1>1, <1>5, <2>1 DEF Claims
  <2> QED
    BY <1>1, <2>2 DEF OwnerInvariant, ClaimsDiffer
<1> QED
  BY <1>4, <1>6, <1>7 DEF OwnerInvariant

LEMMA OwnerCrashStep ==
  ASSUME Owner!OwnerAssumption, OwnerInvariant, Owner!Crash
  PROVE  OwnerInvariant'
<1>1. UNCHANGED <<present, owner, rows, ownerIds>> /\ job' = [w \in Clients |-> Owner!Idle]
  BY DEF Owner!Crash
<1>2. temporary' \subseteq Owner!Keys
  BY DEF Owner!Crash, Owner!TheKey, OwnerInvariant, OwnerTypes, JobsAreSound, IsSoundJob
<1>3. failures' \in 0 .. MaxFailures
  BY DEF Owner!Crash, Owner!OwnerAssumption, OwnerInvariant, OwnerTypes
<1>4. OwnerTypes' /\ OwnersFit' /\ RowsFit'
  BY <1>1, <1>2, <1>3 DEF OwnerInvariant, OwnerTypes, OwnersFit, RowsFit, Owned
<1>5. JobsAreSound'
  BY <1>1, NoOwnerHasNoId DEF JobsAreSound, IsSoundJob
<1>6. ClaimsDiffer'
  <2>1. \A n \in 1 .. MaxOwners : Owner!Idle.id # n
    BY NoOwnerHasNoId DEF Owner!OwnerAssumption, Owner!Ids
  <2>2. \A n \in 1 .. MaxOwners, k \in Owner!Keys : Claims(k, n)' => Claims(k, n)
    BY <1>1, <2>1 DEF Claims
  <2> QED
    BY <1>1, <2>2 DEF OwnerInvariant, ClaimsDiffer
<1> QED
  BY <1>4, <1>5, <1>6 DEF OwnerInvariant

LEMMA OwnerInductive ==
  Owner!OwnerAssumption /\ OwnerInvariant /\ [Owner!Next]_(Owner!vars) => OwnerInvariant'
<1> SUFFICES ASSUME Owner!OwnerAssumption, OwnerInvariant, [Owner!Next]_(Owner!vars)
             PROVE  OwnerInvariant'
  OBVIOUS
<1>1. CASE UNCHANGED Owner!vars
  BY <1>1 DEF Owner!vars, OwnerInvariant, OwnerTypes, OwnersFit, RowsFit, JobsAreSound, IsSoundJob, ClaimsDiffer, Claims, Owned
<1>2. CASE Owner!Next
  BY <1>2, CreateStep, AdoptStep, PublishForRunStep, DirectoryStep, FileStep, LinkStep, UndoStep, InsertRowStep,
    OwnerCrashStep DEF Owner!Next
<1> QED
  BY <1>1, <1>2

LEMMA OwnerInvariantAgrees ==
  ASSUME Owner!OwnerAssumption, OwnerInvariant
  PROVE  Owner!OwnersAgree
<1>1. Owner!TypeOK
  BY DEF Owner!TypeOK, OwnerInvariant, OwnerTypes, OwnerRecords
<1>2. Owner!RegisteredIsOwned
  BY OwnedIsReadable DEF Owner!RegisteredIsOwned, OwnerInvariant, OwnerTypes, RowsFit
<1>3. Owner!OwnersAreKept
  BY DEF Owner!OwnersAreKept, OwnerInvariant, OwnersFit, Owned
<1>4. Owner!OwnersStayAdoptable
  <2>1. ASSUME NEW key \in Owner!Keys, owner[key].id \in 1 .. MaxOwners, ~Owner!Registered(key)
        PROVE  Owner!IsAdoptable(key)
    <3>1. owner[key].id \in Owner!Ids
      BY <2>1 DEF Owner!Ids
    <3>2. Owner!Readable(key) /\ key \in present
      BY <3>1, OwnedIsReadable DEF OwnerInvariant, OwnersFit
    <3>3. ASSUME NEW row \in rows, row.id = owner[key].id PROVE FALSE
      <4>1. row.key \in Owner!Keys /\ owner[row.key].id = owner[key].id
        BY <3>3 DEF OwnerInvariant, OwnerTypes, RowsFit
      <4>2. row.key = key
        BY <2>1, <4>1 DEF OwnerInvariant, ClaimsDiffer, Claims
      <4> QED
        BY <2>1, <4>2 DEF Owner!Registered
    <3> QED
      BY <2>1, <3>2, <3>3 DEF Owner!IsAdoptable
  <2> QED
    BY <2>1 DEF Owner!OwnersStayAdoptable
<1> QED
  BY <1>1, <1>2, <1>3, <1>4 DEF Owner!OwnersAgree

\* For any number of Projects, Batches, requests, failures and crashes: what is
\* registered owns its directory, no request takes an owned one away, and what a
\* failed or crashed creation left with an owner can be adopted under it
\* (files/project_owners.py, files/batch_owners.py, application/library.py).
THEOREM OwnersStayInAgreement ==
  ASSUME Owner!OwnerAssumption
  PROVE  Owner!Spec => []OwnersAgree
<1>1. Owner!Init => OwnerInvariant
  BY OwnerInitially
<1>2. OwnerInvariant /\ [Owner!Next]_(Owner!vars) => OwnerInvariant'
  BY OwnerInductive
<1>3. OwnerInvariant => OwnersAgree
  BY OwnerInvariantAgrees DEF OwnersAgree
<1> QED
  BY <1>1, <1>2, <1>3, PTL DEF Owner!Spec

-----------------------------------------------------------------------------
Works(j) == j.at \in {"publish", "assets", "list", "runs", "failed", "release"}

Scanning == [at : {"idle", "lock", "publish", "assets", "list", "runs", "failed", "release"},
             run : Runs \cup {None}, asset : 0 .. MaxAssets, scan : History!Scan]

AbsentIsBlank == \A r \in Runs : run[r].state = "absent" => run[r] = History!AbsentRun

\* The index lags behind the Runs: that is all a scan can do to it.
IndexIsBehind == \A r \in Runs : index[r].known => run[r].state # "absent" /\ index[r].status <= run[r].status

\* What has been scanned lies between the index and the Runs, and what is
\* published has been scanned or is still to be.
IsCurrent(scan) ==
    /\ scan.rootMissing <=> ~rooted
    /\ \A r \in Runs : scan.rows[r].known =>
        /\ run[r].state # "absent" /\ scan.rows[r].status <= run[r].status
        /\ index[r].known => index[r].status <= scan.rows[r].status
    /\ rooted => \A r \in Runs : run[r].state = "published" => r \in scan.left \/ scan.rows[r].known

\* Who works holds the lock, and a Run is absent until its request publishes it.
IsSoundScan(w, j) ==
    /\ Works(j) => lock = w
    /\ j.at = "publish" => j.run # None
    /\ j.run # None /\ j.at \in {"lock", "publish"} => run[j.run].state = "absent"
    /\ j.at = "list" => \A r \in Runs : ~j.scan.rows[r].known
    /\ j.at = "runs" => IsCurrent(j.scan)

CreatorsDiffer == \A w, v \in Clients : worker[w].run # None /\ worker[v].run = worker[w].run => v = w

HistoryInvariant ==
    /\ History!TypeOK
    /\ AbsentIsBlank
    /\ IndexIsBehind
    /\ \A w \in Clients : IsSoundScan(w, worker[w])
    /\ CreatorsDiffer

LEMMA HistoryBlanks ==
  ASSUME History!HistoryAssumption
  PROVE  /\ History!NoRow \in History!Row /\ ~History!NoRow.known
         /\ History!NoScan \in History!Scan /\ \A r \in Runs : ~History!NoScan.rows[r].known
         /\ History!Idle \in Scanning /\ History!Idle.at = "idle" /\ History!Idle.run = None
<1>1. 0 \in 0 .. MaxAssets /\ 0 \in History!Statuses
  BY DEF History!HistoryAssumption, History!Statuses
<1>2. History!NoRow \in History!Row /\ ~History!NoRow.known
  BY <1>1 DEF History!NoRow, History!Row
<1>3. History!NoScan \in History!Scan /\ \A r \in Runs : ~History!NoScan.rows[r].known
  BY <1>2 DEF History!NoScan, History!Scan
<1>4. History!Idle \in Scanning /\ History!Idle.at = "idle" /\ History!Idle.run = None
  BY <1>1, <1>3 DEF History!Idle, Scanning
<1> QED
  BY <1>2, <1>3, <1>4

\* A step of one request that changes neither a Run nor the index.
LEMMA ScanMoves ==
  ASSUME HistoryInvariant, UNCHANGED <<run, asset, assetIds, rooted, index>>,
         lock' \in Clients \cup {Free},
         NEW w \in Clients, NEW j \in Scanning, worker' = [worker EXCEPT ![w] = j], IsSoundScan(w, j)',
         lock' = lock \/ \A v \in Clients \ {w} : ~Works(worker[v]),
         j.run \in {None, worker[w].run} \/ \A v \in Clients \ {w} : worker[v].run # j.run
  PROVE  HistoryInvariant'
<1>1. worker' \in [Clients -> Scanning] /\ worker'[w] = j /\ \A v \in Clients \ {w} : worker'[v] = worker[v]
  BY DEF HistoryInvariant, History!TypeOK, Scanning
<1>2. History!TypeOK' /\ AbsentIsBlank' /\ IndexIsBehind'
  BY <1>1 DEF HistoryInvariant, History!TypeOK, Scanning, AbsentIsBlank, IndexIsBehind
<1>3. ASSUME NEW v \in Clients PROVE IsSoundScan(v, worker[v])'
  <2>1. CASE v = w
    BY <1>1, <2>1 DEF IsSoundScan, IsCurrent
  <2>2. CASE v # w
    BY <1>1, <2>2 DEF HistoryInvariant, IsSoundScan, IsCurrent, Works
  <2> QED
    BY <2>1, <2>2
<1>4. CreatorsDiffer'
  BY <1>1 DEF HistoryInvariant, CreatorsDiffer
<1> QED
  BY <1>2, <1>3, <1>4 DEF HistoryInvariant

\* A request that goes on to another place with what it has.
LEMMA ScanGoes ==
  ASSUME HistoryInvariant, NEW w \in Clients,
         NEW at \in {"lock", "publish", "assets", "list", "runs", "failed", "release"}, History!Go(w, at)
  PROVE  \E j \in Scanning : /\ worker' = [worker EXCEPT ![w] = j]
                             /\ j.at = at /\ j.run = worker[w].run /\ j.scan = worker[w].scan
<1> DEFINE j == [worker[w] EXCEPT !.at = at]
<1>1. worker[w] \in Scanning /\ worker' = [worker EXCEPT ![w] = j]
  BY DEF HistoryInvariant, History!TypeOK, Scanning, History!Go
<1>2. j \in Scanning /\ j.at = at /\ j.run = worker[w].run /\ j.scan = worker[w].scan
  BY <1>1 DEF Scanning
<1> HIDE DEF j
<1> QED
  BY <1>1, <1>2

LEMMA HistoryInitially == History!HistoryAssumption /\ History!Init => HistoryInvariant
<1> SUFFICES ASSUME History!HistoryAssumption, History!Init PROVE HistoryInvariant
  OBVIOUS
<1>1. run = [r \in Runs |-> History!AbsentRun] /\ History!AbsentRun.state = "absent"
  BY DEF History!Init, History!AbsentRun
<1>2. History!TypeOK
  <2>1. 0 \in 0 .. MaxAssets /\ 0 \in History!Statuses
    BY DEF History!HistoryAssumption, History!Statuses
  <2> QED
    BY <2>1, HistoryBlanks DEF History!Init, History!TypeOK, History!AbsentRun, Scanning
<1>3. AbsentIsBlank /\ IndexIsBehind
  BY <1>1, HistoryBlanks DEF History!Init, AbsentIsBlank, IndexIsBehind
<1>4. (\A w \in Clients : IsSoundScan(w, worker[w])) /\ CreatorsDiffer
  BY HistoryBlanks DEF History!Init, IsSoundScan, Works, CreatorsDiffer
<1> QED
  BY <1>2, <1>3, <1>4 DEF HistoryInvariant

\* Requests that ask for the lock, get it and give it back.
LEMMA AskStep ==
  ASSUME History!HistoryAssumption, HistoryInvariant, NEW w \in Clients,
         History!Reindex(w) \/ \E r \in Runs : History!Create(w, r)
  PROVE  HistoryInvariant'
<1>1. UNCHANGED <<run, asset, assetIds, rooted, index, lock>> /\ lock \in Clients \cup {Free}
  BY DEF History!Reindex, History!Create, HistoryInvariant, History!TypeOK
<1>2. CASE History!Reindex(w)
  <2>1. PICK j \in Scanning : /\ worker' = [worker EXCEPT ![w] = j]
                              /\ j.at = "lock" /\ j.run = worker[w].run
    BY <1>2, ScanGoes DEF History!Reindex
  <2>2. worker[w].run = None
    BY <1>2, HistoryBlanks DEF History!Reindex
  <2>3. IsSoundScan(w, j)'
    BY <1>1, <2>1, <2>2 DEF IsSoundScan, Works
  <2> QED
    BY <1>1, <2>1, <2>3, ScanMoves
<1>3. ASSUME NEW r \in Runs, History!Create(w, r)
      PROVE  HistoryInvariant'
  <2>1. PICK j \in Scanning : worker' = [worker EXCEPT ![w] = j] /\ j.at = "lock" /\ j.run = r
    <3> DEFINE new == [at |-> "lock", run |-> r, asset |-> asset, scan |-> History!NoScan]
    <3>1. new \in Scanning
      BY HistoryBlanks DEF Scanning, HistoryInvariant, History!TypeOK
    <3>2. [History!Idle EXCEPT !.at = "lock", !.run = r, !.asset = asset] = new
      <4> DEFINE a == [at |-> "lock", run |-> None, asset |-> 0, scan |-> History!NoScan]
                 b == [at |-> "lock", run |-> r, asset |-> 0, scan |-> History!NoScan]
      <4>1. [History!Idle EXCEPT !.at = "lock"] = a
        BY DEF History!Idle
      <4>2. [a EXCEPT !.run = r] = b
        OBVIOUS
      <4>3. [b EXCEPT !.asset = asset] = new
        OBVIOUS
      <4>4. [History!Idle EXCEPT !.at = "lock", !.run = r, !.asset = asset]
              = [[[History!Idle EXCEPT !.at = "lock"] EXCEPT !.run = r] EXCEPT !.asset = asset]
        OBVIOUS
      <4> QED
        BY <4>1, <4>2, <4>3, <4>4, Zenon
    <3> QED
      BY <1>3, <3>1, <3>2 DEF History!Create
  <2>2. IsSoundScan(w, j)'
    BY <1>1, <1>3, <2>1 DEF History!Create, IsSoundScan, Works
  <2>3. \A v \in Clients \ {w} : worker[v].run # j.run
    BY <1>3, <2>1 DEF History!Create
  <2> QED
    BY <1>1, <2>1, <2>2, <2>3, ScanMoves
<1> QED
  BY <1>2, <1>3

LEMMA LockStep ==
  ASSUME History!HistoryAssumption, HistoryInvariant, NEW w \in Clients,
         History!Acquire(w) \/ History!Release(w)
  PROVE  HistoryInvariant'
<1>1. UNCHANGED <<run, asset, assetIds, rooted, index>> /\ lock' \in Clients \cup {Free}
  BY DEF History!Acquire, History!Release
<1>2. CASE History!Acquire(w)
  <2>1. PICK at \in {"assets", "publish"} : History!Go(w, at) /\ (at = "publish" <=> worker[w].run # None)
    BY <1>2 DEF History!Acquire
  <2>2. PICK j \in Scanning : /\ worker' = [worker EXCEPT ![w] = j]
                              /\ j.at = at /\ j.run = worker[w].run
    BY <2>1, ScanGoes
  <2>3. IsSoundScan(w, j)'
    BY <1>1, <1>2, <2>1, <2>2 DEF History!Acquire, HistoryInvariant, IsSoundScan, Works
  <2>4. \A v \in Clients \ {w} : ~Works(worker[v])
    BY <1>2 DEF History!HistoryAssumption, History!Acquire, HistoryInvariant, IsSoundScan
  <2> QED
    BY <1>1, <2>2, <2>3, <2>4, ScanMoves
<1>3. CASE History!Release(w)
  <2>1. worker' = [worker EXCEPT ![w] = History!Idle] /\ worker[w].at \in {"release", "failed"}
    BY <1>3 DEF History!Release
  <2>2. IsSoundScan(w, History!Idle)'
    BY HistoryBlanks DEF IsSoundScan, Works
  <2>3. \A v \in Clients \ {w} : ~Works(worker[v])
    BY <2>1 DEF HistoryInvariant, IsSoundScan, Works
  <2> QED
    BY <1>1, <2>1, <2>2, <2>3, HistoryBlanks, ScanMoves
<1> QED
  BY <1>2, <1>3

\* The scan: the content, the list of the directories, and one Run at a time.
LEMMA ScanAssetsStep ==
  ASSUME History!HistoryAssumption, HistoryInvariant, NEW w \in Clients, History!ScanAssets(w)
  PROVE  HistoryInvariant'
<1>1. UNCHANGED <<run, asset, assetIds, rooted, index, lock>> /\ lock \in Clients \cup {Free} /\ worker[w].at = "assets"
  BY DEF History!ScanAssets, HistoryInvariant, History!TypeOK
<1>2. PICK j \in Scanning : /\ worker' = [worker EXCEPT ![w] = j]
                            /\ j.at = "list" /\ j.run = worker[w].run /\ j.scan.rows = History!NoScan.rows
  <2> DEFINE scan == [History!NoScan EXCEPT !.assets = {asset} \ {0}]
             j == [at |-> "list", run |-> worker[w].run, asset |-> worker[w].asset, scan |-> scan]
  <2>1. {asset} \ {0} \in SUBSET (1 .. MaxAssets)
    BY DEF History!HistoryAssumption, HistoryInvariant, History!TypeOK
  <2>2. scan \in History!Scan /\ scan.rows = History!NoScan.rows
    BY <2>1, HistoryBlanks DEF History!Scan
  <2> HIDE DEF scan
  <2>3. worker[w] \in Scanning
    BY DEF HistoryInvariant, History!TypeOK, Scanning
  <2>4. j \in Scanning
    BY <2>2, <2>3 DEF Scanning
  <2>5. worker' = [worker EXCEPT ![w] = [[worker[w] EXCEPT !.at = "list"] EXCEPT !.scan = scan]]
    BY DEF History!ScanAssets, scan, HistoryInvariant, History!TypeOK
  <2>6. [[worker[w] EXCEPT !.at = "list"] EXCEPT !.scan = scan] = j
    <3> DEFINE mid == [at |-> "list", run |-> worker[w].run, asset |-> worker[w].asset, scan |-> worker[w].scan]
    <3>1. [worker[w] EXCEPT !.at = "list"] = mid
      BY <2>3 DEF Scanning
    <3>2. [mid EXCEPT !.scan = scan] = j
      OBVIOUS
    <3> QED
      BY <3>1, <3>2, Zenon
  <2> QED
    BY <2>2, <2>4, <2>5, <2>6
<1>3. IsSoundScan(w, j)'
  BY <1>1, <1>2, HistoryBlanks DEF HistoryInvariant, IsSoundScan, Works
<1> QED
  BY <1>1, <1>2, <1>3, ScanMoves

\* The scan after the directories were listed, field by field.
LEMMA ListedFields ==
  ASSUME NEW j \in Scanning, j.scan \in History!Scan, NEW m \in BOOLEAN, NEW l \in SUBSET Runs
  PROVE  [[[j EXCEPT !.at = "runs"] EXCEPT !.scan.rootMissing = m] EXCEPT !.scan.left = l]
           = [at |-> "runs", run |-> j.run, asset |-> j.asset,
              scan |-> [assets |-> j.scan.assets, rows |-> j.scan.rows, left |-> l, rootMissing |-> m]]
<1> DEFINE a == j.run
           b == j.asset
           c == j.scan.assets
           d == j.scan.rows
           s0 == [assets |-> c, rows |-> d, left |-> j.scan.left, rootMissing |-> j.scan.rootMissing]
           s1 == [assets |-> c, rows |-> d, left |-> j.scan.left, rootMissing |-> m]
           s2 == [assets |-> c, rows |-> d, left |-> l, rootMissing |-> m]
           j1 == [at |-> "runs", run |-> a, asset |-> b, scan |-> s0]
           j2 == [at |-> "runs", run |-> a, asset |-> b, scan |-> s1]
           j3 == [at |-> "runs", run |-> a, asset |-> b, scan |-> s2]
<1>1. [j EXCEPT !.at = "runs"] = j1
  <2>1. j.scan = s0
    BY DEF History!Scan
  <2>2. [j EXCEPT !.at = "runs"] = [at |-> "runs", run |-> a, asset |-> b, scan |-> j.scan]
    BY DEF Scanning
  <2> QED
    BY <2>1, <2>2, Zenon
<1>2. [j1 EXCEPT !.scan.rootMissing = m] = j2
  <2>1. [s0 EXCEPT !.rootMissing = m] = s1
    OBVIOUS
  <2>2. [j1 EXCEPT !.scan.rootMissing = m] = [j1 EXCEPT !.scan = [s0 EXCEPT !.rootMissing = m]]
    OBVIOUS
  <2>3. [j1 EXCEPT !.scan = s1] = j2
    OBVIOUS
  <2> QED
    BY <2>1, <2>2, <2>3, Zenon
<1>3. [j2 EXCEPT !.scan.left = l] = j3
  <2>1. [s1 EXCEPT !.left = l] = s2
    OBVIOUS
  <2>2. [j2 EXCEPT !.scan.left = l] = [j2 EXCEPT !.scan = [s1 EXCEPT !.left = l]]
    OBVIOUS
  <2>3. [j2 EXCEPT !.scan = s2] = j3
    OBVIOUS
  <2> QED
    BY <2>1, <2>2, <2>3, Zenon
<1> QED
  BY <1>1, <1>2, <1>3, Zenon

LEMMA ListRunsStep ==
  ASSUME History!HistoryAssumption, HistoryInvariant, NEW w \in Clients, History!ListRuns(w)
  PROVE  HistoryInvariant'
<1> DEFINE listed == {r \in Runs : rooted /\ run[r].state \in {"published", "damaged"}}
<1>1. UNCHANGED <<run, asset, assetIds, rooted, index, lock>> /\ lock \in Clients \cup {Free} /\ worker[w].at = "list"
  BY DEF History!ListRuns, HistoryInvariant, History!TypeOK
<1>2. PICK j \in Scanning : /\ worker' = [worker EXCEPT ![w] = j]
                            /\ j.at = "runs" /\ j.run = worker[w].run /\ j.scan.rows = worker[w].scan.rows
                            /\ j.scan.left = listed /\ (j.scan.rootMissing <=> ~rooted)
  <2> DEFINE old == worker[w].scan
             scan == [assets |-> old.assets, rows |-> old.rows, left |-> listed, rootMissing |-> ~rooted]
             j == [at |-> "runs", run |-> worker[w].run, asset |-> worker[w].asset, scan |-> scan]
  <2>1. worker[w] \in Scanning /\ old \in History!Scan /\ listed \in SUBSET Runs /\ rooted \in BOOLEAN /\ (~rooted) \in BOOLEAN
    BY DEF HistoryInvariant, History!TypeOK, Scanning
  <2>2. scan \in History!Scan
    BY <2>1 DEF History!Scan
  <2>3. j \in Scanning
    BY <2>1, <2>2 DEF Scanning
  <2>4. worker' = [worker EXCEPT ![w] = [[[worker[w] EXCEPT !.at = "runs"] EXCEPT !.scan.rootMissing = ~rooted] EXCEPT !.scan.left = listed]]
    BY DEF History!ListRuns, HistoryInvariant, History!TypeOK
  <2> HIDE DEF listed
  <2>5. [[[worker[w] EXCEPT !.at = "runs"] EXCEPT !.scan.rootMissing = ~rooted] EXCEPT !.scan.left = listed] = j
    BY <2>1, ListedFields, Zenon
  <2> QED
    BY <2>1, <2>3, <2>4, <2>5
<1>3. \A r \in Runs : ~j.scan.rows[r].known
  BY <1>1, <1>2 DEF HistoryInvariant, IsSoundScan
<1>4. IsCurrent(j.scan)
  BY <1>2, <1>3 DEF IsCurrent
<1>5. IsSoundScan(w, j)'
  BY <1>1, <1>2, <1>4 DEF HistoryInvariant, IsSoundScan, Works, IsCurrent
<1> QED
  BY <1>1, <1>2, <1>5, ScanMoves

\* The scan after a Run was read.
LEMMA ScannedFields ==
  ASSUME NEW j \in Scanning, j.scan \in History!Scan, NEW r \in Runs, NEW row
  PROVE  [j EXCEPT !.scan.rows[r] = row, !.scan.left = @ \ {r}]
           = [at |-> j.at, run |-> j.run, asset |-> j.asset,
              scan |-> [assets |-> j.scan.assets, rows |-> [j.scan.rows EXCEPT ![r] = row],
                        left |-> j.scan.left \ {r}, rootMissing |-> j.scan.rootMissing]]
<1> DEFINE a == j.run
           b == j.asset
           c == j.scan.assets
           m == j.scan.rootMissing
           rows1 == [j.scan.rows EXCEPT ![r] = row]
           left1 == j.scan.left \ {r}
           s0 == [assets |-> c, rows |-> j.scan.rows, left |-> j.scan.left, rootMissing |-> m]
           s1 == [assets |-> c, rows |-> rows1, left |-> j.scan.left, rootMissing |-> m]
           s2 == [assets |-> c, rows |-> rows1, left |-> left1, rootMissing |-> m]
           j0 == [at |-> j.at, run |-> a, asset |-> b, scan |-> s0]
           j1 == [at |-> j.at, run |-> a, asset |-> b, scan |-> s1]
           j2 == [at |-> j.at, run |-> a, asset |-> b, scan |-> s2]
<1>1. j = j0
  <2>1. j.scan = s0
    BY DEF History!Scan
  <2>2. j = [at |-> j.at, run |-> a, asset |-> b, scan |-> j.scan]
    BY DEF Scanning
  <2> QED
    BY <2>1, <2>2, Zenon
<1>2. [j0 EXCEPT !.scan.rows[r] = row] = j1
  <2>1. [s0 EXCEPT !.rows[r] = row] = s1
    <3>1. [s0 EXCEPT !.rows[r] = row] = [s0 EXCEPT !.rows = rows1]
      OBVIOUS
    <3> HIDE DEF rows1
    <3>2. [s0 EXCEPT !.rows = rows1] = s1
      OBVIOUS
    <3> QED
      BY <3>1, <3>2, Zenon
  <2>2. [j0 EXCEPT !.scan.rows[r] = row] = [j0 EXCEPT !.scan = [s0 EXCEPT !.rows[r] = row]]
    OBVIOUS
  <2> HIDE DEF s0, s1
  <2>3. [j0 EXCEPT !.scan = s1] = j1
    OBVIOUS
  <2> QED
    BY <2>1, <2>2, <2>3, Zenon
<1>3. [j1 EXCEPT !.scan.left = @ \ {r}] = j2
  <2> HIDE DEF rows1
  <2>1. [s1 EXCEPT !.left = left1] = s2
    OBVIOUS
  <2>2. [j1 EXCEPT !.scan.left = @ \ {r}] = [j1 EXCEPT !.scan = [s1 EXCEPT !.left = left1]]
    OBVIOUS
  <2> HIDE DEF s1, s2
  <2>3. [j1 EXCEPT !.scan = s2] = j2
    OBVIOUS
  <2> QED
    BY <2>1, <2>2, <2>3, Zenon
<1>4. [j EXCEPT !.scan.rows[r] = row, !.scan.left = @ \ {r}]
        = [[j EXCEPT !.scan.rows[r] = row] EXCEPT !.scan.left = @ \ {r}]
  OBVIOUS
<1> QED
  BY <1>1, <1>2, <1>3, <1>4, Zenon

LEMMA ScanRunStep ==
  ASSUME History!HistoryAssumption, HistoryInvariant, NEW w \in Clients, NEW r \in Runs, History!ScanRun(w, r)
  PROVE  HistoryInvariant'
<1> DEFINE old == worker[w].scan
<1>1. /\ UNCHANGED <<run, asset, assetIds, rooted, index, lock>> /\ lock \in Clients \cup {Free}
      /\ worker[w].at = "runs" /\ r \in old.left
  BY DEF History!ScanRun, HistoryInvariant, History!TypeOK
<1>2. History!RowOf(r) \in History!Row
  BY HistoryBlanks DEF History!RowOf, History!Row, History!Integrity, HistoryInvariant, History!TypeOK
<1>3. PICK j \in Scanning : /\ worker' = [worker EXCEPT ![w] = j]
                            /\ j.at = "runs" /\ j.run = worker[w].run
                            /\ j.scan.rows = [old.rows EXCEPT ![r] = History!RowOf(r)]
                            /\ j.scan.left = old.left \ {r} /\ j.scan.rootMissing = old.rootMissing
  <2> DEFINE row == History!RowOf(r)
             j == [worker[w] EXCEPT !.scan.rows[r] = row, !.scan.left = @ \ {r}]
  <2>1. worker[w] \in Scanning /\ old \in History!Scan
    BY DEF HistoryInvariant, History!TypeOK, Scanning
  <2>2. worker' = [worker EXCEPT ![w] = j]
    BY DEF History!ScanRun, HistoryInvariant, History!TypeOK
  <2> HIDE DEF row
  <2>3. j = [at |-> worker[w].at, run |-> worker[w].run, asset |-> worker[w].asset,
             scan |-> [assets |-> old.assets, rows |-> [old.rows EXCEPT ![r] = row],
                       left |-> old.left \ {r}, rootMissing |-> old.rootMissing]]
    BY <2>1, ScannedFields, Zenon
  <2> HIDE DEF j
  <2>4. j \in Scanning
    BY <1>2, <2>1, <2>3 DEF Scanning, History!Scan, row
  <2> QED
    BY <1>1, <2>2, <2>3, <2>4 DEF row
<1>4. IsCurrent(j.scan)
  <2>1. IsCurrent(old) /\ old.rows \in [Runs -> History!Row]
    BY <1>1 DEF HistoryInvariant, IsSoundScan, History!TypeOK, History!Scan
  <2>2. /\ History!RowOf(r).known <=> run[r].state = "published"
        /\ History!RowOf(r).known => History!RowOf(r).status = run[r].status
    BY HistoryBlanks DEF History!RowOf
  <2>3. History!RowOf(r).known /\ index[r].known => index[r].status <= History!RowOf(r).status
    BY <2>2 DEF HistoryInvariant, IndexIsBehind
  <2>4. run[r].status <= run[r].status
    BY DEF HistoryInvariant, History!TypeOK, History!Statuses
  <2>5. j.scan.rows[r] = History!RowOf(r) /\ \A q \in Runs \ {r} : j.scan.rows[q] = old.rows[q]
    BY <1>3, <2>1
  <2> QED
    BY <1>3, <2>1, <2>2, <2>3, <2>4, <2>5 DEF IsCurrent
<1>5. IsSoundScan(w, j)'
  BY <1>1, <1>3, <1>4 DEF HistoryInvariant, IsSoundScan, Works, IsCurrent
<1> QED
  BY <1>1, <1>3, <1>5, ScanMoves

\* Who works holds the lock alone.
LEMMA WorksAlone ==
  ASSUME HistoryInvariant, NEW w \in Clients, Works(worker[w])
  PROVE  lock = w /\ \A v \in Clients \ {w} : ~Works(worker[v])
BY DEF HistoryInvariant, IsSoundScan

RunRecords == [state : {"absent", "published", "damaged", "moved"}, status : History!Statuses, asset : 0 .. MaxAssets]

\* A root made anew keeps the status of every Run that is there.
LEMMA RemainingRuns ==
  ASSUME History!HistoryAssumption, HistoryInvariant, NEW r \in Runs
  PROVE  /\ History!Remaining[r] \in RunRecords
         /\ History!Remaining[r].status = run[r].status
         /\ run[r].state = "absent" <=> History!Remaining[r].state = "absent"
         /\ run[r].state = "absent" => History!Remaining[r] = run[r]
<1>1. run[r] \in RunRecords /\ (run[r].state = "absent" <=> run[r] = History!AbsentRun)
  BY DEF HistoryInvariant, AbsentIsBlank, History!TypeOK, RunRecords, History!AbsentRun
<1>2. CASE rooted \/ run[r] = History!AbsentRun
  BY <1>1, <1>2 DEF History!Remaining
<1>3. CASE ~(rooted \/ run[r] = History!AbsentRun)
  <2>1. History!Remaining[r] = [run[r] EXCEPT !.state = "moved"]
    BY <1>3 DEF History!Remaining
  <2> QED
    BY <1>1, <1>3, <2>1 DEF RunRecords
<1> QED
  BY <1>2, <1>3

LEMMA PublishStep ==
  ASSUME History!HistoryAssumption, HistoryInvariant, NEW w \in Clients, History!Publish(w)
  PROVE  HistoryInvariant'
<1> DEFINE r == worker[w].run
<1>1. /\ worker[w].at = "publish" /\ UNCHANGED <<asset, assetIds, index, lock>>
      /\ lock \in Clients \cup {Free}
  BY DEF History!Publish, HistoryInvariant, History!TypeOK
<1>2. r \in Runs /\ run[r].state = "absent" /\ lock = w /\ \A v \in Clients \ {w} : ~Works(worker[v])
  BY <1>1 DEF HistoryInvariant, History!TypeOK, IsSoundScan, Works
<1>3. CASE asset # worker[w].asset
  <2>1. UNCHANGED <<run, rooted>> /\ History!Go(w, "release")
    BY <1>3 DEF History!Publish
  <2>2. PICK j \in Scanning : /\ worker' = [worker EXCEPT ![w] = j]
                              /\ j.at = "release" /\ j.run = r
    BY <2>1, ScanGoes
  <2>3. IsSoundScan(w, j)'
    BY <1>1, <1>2, <2>2 DEF IsSoundScan
  <2> QED
    BY <1>1, <2>1, <2>2, <2>3, ScanMoves
<1>4. CASE asset = worker[w].asset
  <2> DEFINE new == [state |-> "published", status |-> 0, asset |-> asset]
  <2>1. rooted' = TRUE /\ History!Go(w, "assets") /\ run' = [History!Remaining EXCEPT ![r] = new]
    BY <1>4 DEF History!Publish
  <2>2. new \in RunRecords
    BY DEF RunRecords, History!Statuses, HistoryInvariant, History!TypeOK
  <2>3. new.state = "published" /\ History!Remaining \in [Runs -> RunRecords]
    BY RemainingRuns DEF History!Remaining
  <2> HIDE DEF new
  <2>4. /\ run' \in [Runs -> RunRecords] /\ run'[r].state = "published"
        /\ \A q \in Runs \ {r} : run'[q] = History!Remaining[q]
    BY <1>2, <2>1, <2>2, <2>3
  <2>5. PICK j \in Scanning : /\ worker' = [worker EXCEPT ![w] = j]
                              /\ j.at = "assets" /\ j.run = r
    BY <2>1, ScanGoes
  <2>6. worker' \in [Clients -> Scanning] /\ worker'[w] = j /\ \A v \in Clients \ {w} : worker'[v] = worker[v]
    BY <2>5 DEF HistoryInvariant, History!TypeOK, Scanning
  <2>7. History!TypeOK'
    BY <1>1, <2>1, <2>4, <2>6 DEF HistoryInvariant, History!TypeOK, RunRecords, Scanning
  <2>8. AbsentIsBlank'
    BY <2>4, RemainingRuns DEF HistoryInvariant, AbsentIsBlank, History!AbsentRun
  <2>9. IndexIsBehind'
    BY <1>1, <1>2, <2>4, RemainingRuns DEF HistoryInvariant, IndexIsBehind
  <2>10. ASSUME NEW v \in Clients PROVE IsSoundScan(v, worker[v])'
    <3>1. CASE v = w
      BY <1>1, <1>2, <2>5, <2>6, <3>1 DEF IsSoundScan
    <3>2. CASE v # w
      <4>1. worker'[v] = worker[v] /\ worker[v].at \in {"idle", "lock"} /\ IsSoundScan(v, worker[v])
        BY <1>2, <2>6, <3>2 DEF HistoryInvariant, History!TypeOK, Works
      <4>2. worker[v].run # None => worker[v].run \in Runs \ {r}
        BY <1>2, <3>2 DEF HistoryInvariant, History!TypeOK, CreatorsDiffer, History!HistoryAssumption
      <4> QED
        BY <2>4, <4>1, <4>2, RemainingRuns DEF IsSoundScan, Works
    <3> QED
      BY <3>1, <3>2
  <2>11. CreatorsDiffer'
    BY <2>5, <2>6 DEF HistoryInvariant, CreatorsDiffer
  <2> QED
    BY <2>7, <2>8, <2>9, <2>10, <2>11 DEF HistoryInvariant
<1> QED
  BY <1>3, <1>4

\* The transaction: it puts what was scanned in the place of the rows.
LEMMA ReplaceStep ==
  ASSUME History!HistoryAssumption, HistoryInvariant, NEW w \in Clients, History!Replace(w)
  PROVE  HistoryInvariant'
<1> DEFINE scan == worker[w].scan
<1>1. worker[w].at = "runs" /\ scan.left = {} /\ UNCHANGED <<run, asset, assetIds, rooted, lock>>
  BY DEF History!Replace
<1>2. lock = w /\ lock \in Clients \cup {Free} /\ IsCurrent(scan) /\ \A v \in Clients \ {w} : ~Works(worker[v])
  BY <1>1, WorksAlone DEF HistoryInvariant, History!TypeOK, IsSoundScan, Works
<1>3. PICK at \in {"release", "failed"} : History!Go(w, at)
  BY DEF History!Replace
<1>4. PICK j \in Scanning : /\ worker' = [worker EXCEPT ![w] = j]
                            /\ j.at = at /\ j.run = worker[w].run
  BY <1>3, ScanGoes
<1>5. CASE index' = index
  <2>1. IsSoundScan(w, j)'
    BY <1>1, <1>2, <1>4 DEF IsSoundScan
  <2> QED
    BY <1>1, <1>2, <1>4, <1>5, <2>1, ScanMoves
<1>6. CASE index' = scan.rows
  <2>1. worker' \in [Clients -> Scanning] /\ worker'[w] = j /\ \A v \in Clients \ {w} : worker'[v] = worker[v]
    BY <1>4 DEF HistoryInvariant, History!TypeOK, Scanning
  <2>2. scan.rows \in [Runs -> History!Row]
    BY DEF HistoryInvariant, History!TypeOK, History!Scan
  <2>3. History!TypeOK'
    BY <1>1, <1>6, <2>1, <2>2 DEF HistoryInvariant, History!TypeOK, Scanning
  <2>4. AbsentIsBlank' /\ IndexIsBehind'
    BY <1>1, <1>2, <1>6 DEF HistoryInvariant, AbsentIsBlank, IndexIsBehind, IsCurrent
  <2>5. ASSUME NEW v \in Clients PROVE IsSoundScan(v, worker[v])'
    <3>1. CASE v = w
      BY <1>1, <1>2, <1>4, <2>1, <3>1 DEF IsSoundScan
    <3>2. CASE v # w
      BY <1>1, <1>2, <2>1, <3>2 DEF HistoryInvariant, History!TypeOK, IsSoundScan, Works
    <3> QED
      BY <3>1, <3>2
  <2>6. CreatorsDiffer'
    BY <1>4, <2>1 DEF HistoryInvariant, CreatorsDiffer
  <2> QED
    BY <2>3, <2>4, <2>5, <2>6 DEF HistoryInvariant
<1> QED
  BY <1>5, <1>6 DEF History!Replace

\* Nobody's steps: executions, imports, losses, damage and moves of the root.
LEMMA OutsideStep ==
  ASSUME History!HistoryAssumption, HistoryInvariant,
         History!ImportAsset \/ History!LoseAsset \/ History!MoveRoot
  PROVE  HistoryInvariant'
<1>1. UNCHANGED <<run, index, lock, worker>>
  BY DEF History!ImportAsset, History!LoseAsset, History!MoveRoot
<1>2. History!TypeOK'
  <2>0. History!TypeOK /\ MaxAssets \in Nat
    BY DEF HistoryInvariant, History!HistoryAssumption
  <2>1. asset' \in 0 .. MaxAssets /\ assetIds' \in 0 .. MaxAssets
    BY <2>0 DEF History!ImportAsset, History!LoseAsset, History!MoveRoot, History!TypeOK
  <2>2. rooted' = rooted \/ rooted' = ~rooted
    BY DEF History!ImportAsset, History!LoseAsset, History!MoveRoot
  <2>3. rooted' \in BOOLEAN
    BY <2>0, <2>2 DEF History!TypeOK
  <2> QED
    BY <1>1, <2>0, <2>1, <2>3 DEF History!TypeOK
<1>3. AbsentIsBlank' /\ IndexIsBehind' /\ CreatorsDiffer'
  BY <1>1 DEF HistoryInvariant, AbsentIsBlank, IndexIsBehind, CreatorsDiffer
<1>4. ASSUME NEW w \in Clients PROVE IsSoundScan(w, worker[w])'
  <2>1. rooted' = rooted \/ lock = Free
    BY DEF History!ImportAsset, History!LoseAsset, History!MoveRoot
  <2>2. lock = Free => ~Works(worker[w])
    BY DEF History!HistoryAssumption, HistoryInvariant, IsSoundScan
  <2> QED
    BY <1>1, <2>1, <2>2 DEF HistoryInvariant, IsSoundScan, IsCurrent, Works
<1> QED
  BY <1>2, <1>3, <1>4 DEF HistoryInvariant

LEMMA RunStep ==
  ASSUME History!HistoryAssumption, HistoryInvariant, NEW r \in Runs, History!Execute(r) \/ History!DamageRun(r)
  PROVE  HistoryInvariant'
<1>1. UNCHANGED <<asset, assetIds, rooted, index, lock, worker>> /\ run[r].state = "published" /\ run[r] \in RunRecords
  BY DEF History!Execute, History!DamageRun, HistoryInvariant, History!TypeOK, RunRecords
<1>2. PICK new \in RunRecords : /\ run' = [run EXCEPT ![r] = new]
                                /\ new.state \in {"published", "damaged"} /\ run[r].status <= new.status
  <2>1. CASE History!Execute(r)
    <3> DEFINE new == [run[r] EXCEPT !.status = @ + 1]
    <3>1. run[r].status + 1 \in History!Statuses /\ run[r].status <= run[r].status + 1
      BY <1>1, <2>1 DEF History!Execute, RunRecords, History!Statuses
    <3>2. new \in RunRecords /\ new.state = "published" /\ new.status = run[r].status + 1
      BY <1>1, <3>1 DEF RunRecords
    <3>3. run' = [run EXCEPT ![r] = new]
      BY <2>1 DEF History!Execute, HistoryInvariant, History!TypeOK
    <3> QED
      BY <3>1, <3>2, <3>3
  <2>2. CASE History!DamageRun(r)
    <3> DEFINE new == [run[r] EXCEPT !.state = "damaged"]
    <3>1. new \in RunRecords /\ new.state = "damaged" /\ new.status = run[r].status
      BY <1>1 DEF RunRecords
    <3>2. run' = [run EXCEPT ![r] = new]
      BY <2>2 DEF History!DamageRun, HistoryInvariant, History!TypeOK
    <3>3. run[r].status <= run[r].status
      BY <1>1 DEF RunRecords, History!Statuses
    <3> QED
      BY <3>1, <3>2, <3>3
  <2> QED
    BY <2>1, <2>2
<1>3. run' \in [Runs -> RunRecords] /\ run'[r] = new /\ \A q \in Runs \ {r} : run'[q] = run[q]
  BY <1>2 DEF HistoryInvariant, History!TypeOK, RunRecords
<1>4. \A q \in Runs : /\ run'[q].state = "absent" <=> run[q].state = "absent"
                      /\ run'[q].state = "absent" => run'[q] = run[q]
                      /\ run'[q].state = "published" => run[q].state = "published"
                      /\ \A n \in History!Statuses : n <= run[q].status => n <= run'[q].status
  <2>1. \A m, n, k \in History!Statuses : m <= n /\ n <= k => m <= k
    BY DEF History!Statuses
  <2>2. run[r].status \in History!Statuses /\ new.status \in History!Statuses
    BY <1>1 DEF RunRecords
  <2> QED
    BY <1>1, <1>2, <1>3, <2>1, <2>2
<1>5. History!TypeOK'
  BY <1>1, <1>3 DEF HistoryInvariant, History!TypeOK, RunRecords
<1>6. AbsentIsBlank' /\ CreatorsDiffer'
  BY <1>1, <1>4 DEF HistoryInvariant, AbsentIsBlank, CreatorsDiffer, History!AbsentRun
<1>7. IndexIsBehind'
  <2>1. \A q \in Runs : index[q].status \in History!Statuses
    BY DEF HistoryInvariant, History!TypeOK, History!Row
  <2> QED
    BY <1>1, <1>4, <2>1 DEF HistoryInvariant, IndexIsBehind
<1>8. ASSUME NEW w \in Clients PROVE IsSoundScan(w, worker[w])'
  <2>1. \A q \in Runs : worker[w].scan.rows[q].status \in History!Statuses
    BY DEF HistoryInvariant, History!TypeOK, History!Scan, History!Row
  <2>2. IsCurrent(worker[w].scan) => IsCurrent(worker[w].scan)'
    BY <1>1, <1>4, <2>1 DEF IsCurrent
  <2>3. worker[w].run # None => worker[w].run \in Runs
    BY DEF HistoryInvariant, History!TypeOK
  <2> QED
    BY <1>1, <1>4, <2>2, <2>3 DEF HistoryInvariant, IsSoundScan, Works
<1> QED
  BY <1>5, <1>6, <1>7, <1>8 DEF HistoryInvariant

LEMMA HistoryInductive ==
  History!HistoryAssumption /\ HistoryInvariant /\ [History!Next]_(History!vars) => HistoryInvariant'
<1> SUFFICES ASSUME History!HistoryAssumption, HistoryInvariant, [History!Next]_(History!vars)
             PROVE  HistoryInvariant'
  OBVIOUS
<1>1. CASE UNCHANGED History!vars
  BY <1>1 DEF History!vars, HistoryInvariant, History!TypeOK, AbsentIsBlank, IndexIsBehind, IsSoundScan, IsCurrent,
    CreatorsDiffer
<1>2. CASE History!Next
  BY <1>2, AskStep, LockStep, PublishStep, ScanAssetsStep, ListRunsStep, ScanRunStep, ReplaceStep, RunStep,
    OutsideStep DEF History!Next
<1> QED
  BY <1>1, <1>2

KeepsHistory == \A r \in Runs :
    index[r].known =>
      \/ index'[r].known /\ index'[r].status >= index[r].status
      \/ run[r].state \in {"damaged", "moved"}

\* Only a replacement changes the rows, and what it puts there is current.
LEMMA NextKeepsHistory ==
  ASSUME History!HistoryAssumption, HistoryInvariant, [History!Next]_(History!vars)
  PROVE  KeepsHistory
<1>1. \A r \in Runs : index[r].status \in History!Statuses /\ index[r].status >= index[r].status
  BY DEF HistoryInvariant, History!TypeOK, History!Row, History!Statuses
<1>2. CASE index' = index
  BY <1>1, <1>2 DEF KeepsHistory
<1>3. ASSUME NEW w \in Clients, History!Replace(w), index' # index
      PROVE  KeepsHistory
  <2> DEFINE scan == worker[w].scan
  <2>1. index' = scan.rows /\ ~History!Refuses(scan) /\ worker[w].at = "runs" /\ scan.left = {}
    BY <1>3 DEF History!Replace
  <2>2. IsCurrent(scan)
    BY <2>1 DEF HistoryInvariant, IsSoundScan
  <2>3. ASSUME NEW r \in Runs, index[r].known, run[r].state \notin {"damaged", "moved"}
        PROVE  scan.rows[r].known /\ scan.rows[r].status >= index[r].status
    <3>1. rooted
      BY <2>1, <2>2, <2>3 DEF History!Refuses, IsCurrent
    <3>2. run[r].state = "published"
      BY <2>3 DEF HistoryInvariant, IndexIsBehind, History!TypeOK
    <3>3. scan.rows[r].known /\ index[r].status <= scan.rows[r].status
      BY <2>1, <2>2, <2>3, <3>1, <3>2 DEF IsCurrent
    <3>4. scan.rows[r].status \in History!Statuses
      BY DEF HistoryInvariant, History!TypeOK, History!Scan, History!Row
    <3> QED
      BY <1>1, <3>3, <3>4 DEF History!Statuses
  <2> QED
    BY <2>1, <2>3 DEF KeepsHistory
<1>4. index' = index \/ \E w \in Clients : History!Replace(w)
  BY DEF History!Next, History!vars, History!Create, History!ScanRun, History!Reindex, History!Acquire, History!Publish,
    History!ScanAssets, History!ListRuns, History!Release, History!Execute, History!DamageRun, History!ImportAsset,
    History!LoseAsset, History!MoveRoot
<1> QED
  BY <1>2, <1>3, <1>4

\* For any number of Runs and threads: the rows of a Run leave the history only
\* when its directory no longer loads, and its status is never replaced by an
\* earlier one (db/history.py, files/history.py).
THEOREM HistoryKeepsGoing ==
  ASSUME History!HistoryAssumption
  PROVE  History!Spec => HistoryNeverGoesBack
<1>1. History!Init => HistoryInvariant
  BY HistoryInitially
<1>2. HistoryInvariant /\ [History!Next]_(History!vars) => HistoryInvariant'
  BY HistoryInductive
<1>3. HistoryInvariant /\ [History!Next]_(History!vars) => [KeepsHistory]_(History!vars)
  BY NextKeepsHistory
<1> QED
  BY <1>1, <1>2, <1>3, PTL DEF History!Spec, HistoryNeverGoesBack, History!HistoryNeverGoesBack, KeepsHistory

-----------------------------------------------------------------------------
\* All of it holds of the composition that the run `stores` checks: the Asset
\* root, the owner files, the history and the capacity of the streams.
THEOREM FilesAreSound ==
  StoresSpec => /\ []AssetsAreOriginal
                /\ []OwnersAgree
                /\ HistoryNeverGoesBack
                /\ []CapacityIsKept
<1>1. Asset!Spec => []AssetsAreOriginal
  BY StoresAssumption, AssetsStayOriginal
<1>2. Owner!Spec => []OwnersAgree
  BY StoresAssumption, OwnersStayInAgreement
<1>3. History!Spec => HistoryNeverGoesBack
  BY StoresAssumption, HistoryKeepsGoing
<1>4. Spec => []CapacityIsKept
  BY StoresAssumption, CapacityHolds
<1>5. (StoresSpec => Asset!Spec) /\ (StoresSpec => Owner!Spec) /\ (StoresSpec => History!Spec) /\ (StoresSpec => Spec)
  BY MachinesBehave
<1> QED
  BY <1>1, <1>2, <1>3, <1>4, <1>5, PTL

-----------------------------------------------------------------------------
(* The three libraries. *)
PromptCall == [next : {"none", "restore", "try", "prompt", "version", "collision"}, name : DOMAIN Names,
               seenPrompt : Prompt!PromptRow, seenVersion : Prompt!VersionRow]

PromptTypes ==
    /\ prompt \in [Prompts -> Prompt!PromptRow]
    /\ version \in [PromptVersions -> Prompt!VersionRow]
    /\ issued \subseteq Prompts \cup PromptVersions
    /\ selected \subseteq PromptVersions
    /\ call \in [Clients -> PromptCall]

\* A row that is there names its Prompt, and had its identity given out, as
\* those of a copy always are.
RowsAreWhole ==
    /\ CopyVersion \in issued
    /\ \A p \in Prompts : Prompt!PromptExists(p) <=> prompt[p].name # ""
    /\ \A v \in PromptVersions : Prompt!VersionExists(v) <=> version[v].prompt # None
    /\ \A v \in PromptVersions : Prompt!VersionExists(v) => v \in issued

\* A restoration has read a version that was there.
SourcesWereThere == \A c \in Clients : call[c].next = "restore" => call[c].seenVersion.prompt \in Prompts

PromptInvariant ==
    PromptTypes /\ RowsAreWhole /\ SourcesWereThere /\ Prompt!LibraryIsSound

-----------------------------------------------------------------------------
LEMMA NextOfInterval ==
  ASSUME NEW n \in Nat
  PROVE  Prompt!Max({0} \cup 1 .. n) = n
<1> DEFINE S == {0} \cup 1 .. n
<1>1. n \in S /\ \A y \in S : n >= y
  OBVIOUS
<1>2. \A x \in S : (\A y \in S : x >= y) => x = n
  OBVIOUS
<1> HIDE DEF S
<1>3. Prompt!Max(S) = n
  BY <1>1, <1>2 DEF Prompt!Max
<1> QED
  BY <1>3 DEF S

LEMMA Following ==
  ASSUME NEW n \in Nat
  PROVE  /\ (1 .. n) \cup {n + 1} = 1 .. n + 1
         /\ n + 1 \in Nat /\ n + 1 > 0
         /\ \A m \in 1 .. n : m # n + 1
         /\ \A k \in Nat : n + 1 <= k => n + 1 \in 0 .. k
OBVIOUS

LEMMA NumberBound == Prompt!LibraryAssumption => MaxNumber \in Nat \ {0}
BY DEF Prompt!LibraryAssumption

LEMMA PromptBlanks ==
  ASSUME Prompt!LibraryAssumption
  PROVE  /\ Prompt!NoPrompt \in Prompt!PromptRow /\ Prompt!NoPrompt.name = ""
         /\ Prompt!NoVersion \in Prompt!VersionRow /\ Prompt!NoVersion.prompt = None
         /\ Prompt!Idle \in PromptCall /\ Prompt!Idle.next = "none"
         /\ 1 \in DOMAIN Names /\ 1 \in 0 .. MaxNumber
<1>1. 1 \in DOMAIN Names /\ 1 \in 0 .. MaxNumber /\ 0 \in 0 .. MaxNumber
  <2>1. Names \in Seq(STRING) /\ Names # <<>> /\ MaxNumber \in Nat \ {0}
    BY NumberBound DEF Prompt!LibraryAssumption
  <2>2. DOMAIN Names = 1 .. Len(Names) /\ Len(Names) \in Nat /\ Len(Names) # 0
    BY <2>1, EmptySeq, LenProperties
  <2> QED
    BY <2>1, <2>2
<1>2. Prompt!NoPrompt \in Prompt!PromptRow /\ Prompt!NoPrompt.name = ""
  BY DEF Prompt!NoPrompt, Prompt!PromptRow
<1>3. Prompt!NoVersion \in Prompt!VersionRow /\ Prompt!NoVersion.prompt = None
  BY <1>1 DEF Prompt!NoVersion, Prompt!VersionRow
<1>4. Prompt!Idle \in PromptCall /\ Prompt!Idle.next = "none"
  BY <1>1, <1>2, <1>3 DEF Prompt!Idle, PromptCall
<1> QED
  BY <1>1, <1>2, <1>3, <1>4

\* Steps that change no Prompt and no version.
LEMMA RowsStay ==
  ASSUME PromptInvariant, PromptTypes', UNCHANGED <<prompt, version>>, issued \subseteq issued',
         selected' \subseteq selected \cup {v \in PromptVersions : Prompt!VersionExists(v)}, SourcesWereThere'
  PROVE  PromptInvariant'
<1>1. RowsAreWhole'
  BY DEF PromptInvariant, RowsAreWhole, Prompt!PromptExists, Prompt!VersionExists
<1>2. Prompt!LibraryIsSound'
  <2>1. \A p : Prompt!VersionsOf(p)' = Prompt!VersionsOf(p) /\ Prompt!NumbersOf(p)' = Prompt!NumbersOf(p)
    BY DEF Prompt!VersionsOf, Prompt!NumbersOf
  <2>2. Prompt!VersionsAreNumbered'
    BY <2>1 DEF PromptInvariant, Prompt!LibraryIsSound, Prompt!VersionsAreNumbered, Prompt!PromptExists
  <2>3. Prompt!NamesAreUnique' /\ Prompt!SelectedExist'
    BY DEF PromptInvariant, Prompt!LibraryIsSound, Prompt!NamesAreUnique, Prompt!SelectedExist, Prompt!PromptExists,
      Prompt!VersionExists
  <2> QED
    BY <2>2, <2>3 DEF Prompt!LibraryIsSound
<1> QED
  BY <1>1, <1>2 DEF PromptInvariant

\* What one version row more or another does to the numbers of the Prompts.
LEMMA NumbersAfter ==
  ASSUME PromptTypes, NEW v \in PromptVersions, NEW row \in Prompt!VersionRow, row.prompt \in Prompts,
         ~Prompt!VersionExists(v), version[v].prompt = None, None \notin Prompts,
         version' = [version EXCEPT ![v] = row]
  PROVE  /\ version' \in [PromptVersions -> Prompt!VersionRow]
         /\ version'[v] = row /\ \A u \in PromptVersions \ {v} : version'[u] = version[u]
         /\ Prompt!VersionsOf(row.prompt)' = Prompt!VersionsOf(row.prompt) \cup {v}
         /\ v \notin Prompt!VersionsOf(row.prompt)
         /\ Prompt!NumbersOf(row.prompt)' = Prompt!NumbersOf(row.prompt) \cup {row.number}
         /\ \A p \in Prompts \ {row.prompt} :
              Prompt!VersionsOf(p)' = Prompt!VersionsOf(p) /\ Prompt!NumbersOf(p)' = Prompt!NumbersOf(p)
<1>1. /\ version' \in [PromptVersions -> Prompt!VersionRow]
      /\ version'[v] = row /\ \A u \in PromptVersions \ {v} : version'[u] = version[u]
  BY DEF PromptTypes
<1>2. /\ Prompt!VersionsOf(row.prompt)' = Prompt!VersionsOf(row.prompt) \cup {v}
      /\ v \notin Prompt!VersionsOf(row.prompt)
      /\ \A p \in Prompts \ {row.prompt} : Prompt!VersionsOf(p)' = Prompt!VersionsOf(p) /\ v \notin Prompt!VersionsOf(p)
  BY <1>1 DEF Prompt!VersionsOf
<1>3. Prompt!NumbersOf(row.prompt)' = Prompt!NumbersOf(row.prompt) \cup {row.number}
  BY <1>1, <1>2 DEF Prompt!NumbersOf, Prompt!VersionsOf
<1>4. \A p \in Prompts \ {row.prompt} : Prompt!NumbersOf(p)' = Prompt!NumbersOf(p)
  BY <1>1, <1>2 DEF Prompt!NumbersOf, Prompt!VersionsOf
<1> QED
  BY <1>1, <1>2, <1>3, <1>4

\* A version more, of a Prompt that is there or is made with it.
LEMMA VersionAdded ==
  ASSUME Prompt!LibraryAssumption, PromptInvariant, PromptTypes', SourcesWereThere',
         NEW p \in Prompts, NEW v \in PromptVersions, NEW n \in Nat, ~Prompt!VersionExists(v),
         Prompt!NumbersOf(p) = 1 .. n, n + 1 <= MaxNumber,
         NEW row \in Prompt!VersionRow, row.prompt = p, row.number = n + 1,
         version' = [version EXCEPT ![v] = row], issued \cup {v} \subseteq issued', selected' = selected,
         \A q \in Prompts \ {p} : prompt'[q] = prompt[q],
         prompt'[p] # Prompt!NoPrompt /\ prompt'[p].name # "",
         Prompt!NamesAreUnique'
  PROVE  PromptInvariant'
<1>0. version[v].prompt = None /\ None \notin Prompts /\ PromptTypes
  BY DEF Prompt!LibraryAssumption, PromptInvariant, RowsAreWhole
<1>1. /\ version'[v] = row /\ \A u \in PromptVersions \ {v} : version'[u] = version[u]
      /\ Prompt!VersionsOf(p)' = Prompt!VersionsOf(p) \cup {v}
      /\ v \notin Prompt!VersionsOf(p)
      /\ Prompt!NumbersOf(p)' = Prompt!NumbersOf(p) \cup {n + 1}
      /\ \A q \in Prompts \ {p} :
           Prompt!VersionsOf(q)' = Prompt!VersionsOf(q) /\ Prompt!NumbersOf(q)' = Prompt!NumbersOf(q)
  BY <1>0, NumbersAfter
<1>2. row # Prompt!NoVersion /\ row.prompt # None
  BY <1>0, PromptBlanks
<1>3. RowsAreWhole'
  BY <1>1, <1>2 DEF PromptInvariant, RowsAreWhole, Prompt!PromptExists, Prompt!VersionExists
<1>4. Prompt!SelectedExist'
  BY <1>1, <1>2 DEF PromptInvariant, Prompt!LibraryIsSound, Prompt!SelectedExist, Prompt!VersionExists, PromptTypes
<1>5. Prompt!VersionsAreNumbered'
  <2>1. ASSUME NEW q \in Prompts \ {p}
        PROVE  /\ \E m \in 0 .. MaxNumber : Prompt!NumbersOf(q)' = 1 .. m /\ (m > 0 <=> Prompt!PromptExists(q)')
               /\ \A u, w \in Prompt!VersionsOf(q)' : version'[u].number = version'[w].number => u = w
    <3>1. Prompt!PromptExists(q)' <=> Prompt!PromptExists(q)
      BY DEF Prompt!PromptExists
    <3>2. \A u \in Prompt!VersionsOf(q) : version'[u] = version[u]
      BY <1>0, <1>1, <2>1 DEF Prompt!VersionsOf
    <3>3. /\ \E m \in 0 .. MaxNumber : Prompt!NumbersOf(q) = 1 .. m /\ (m > 0 <=> Prompt!PromptExists(q))
          /\ \A u, w \in Prompt!VersionsOf(q) : version[u].number = version[w].number => u = w
      BY DEF PromptInvariant, Prompt!LibraryIsSound, Prompt!VersionsAreNumbered
    <3>4. \E m \in 0 .. MaxNumber : Prompt!NumbersOf(q)' = 1 .. m /\ (m > 0 <=> Prompt!PromptExists(q)')
      BY <1>1, <3>1, <3>3
    <3>5. ASSUME NEW u \in Prompt!VersionsOf(q)', NEW w \in Prompt!VersionsOf(q)', version'[u].number = version'[w].number
          PROVE  u = w
      <4>1. u \in Prompt!VersionsOf(q) /\ w \in Prompt!VersionsOf(q)
        BY <1>1
      <4> QED
        BY <3>2, <3>3, <3>5, <4>1, Zenon
    <3> QED
      BY <3>4, <3>5
  <2>2. \E m \in 0 .. MaxNumber : Prompt!NumbersOf(p)' = 1 .. m /\ (m > 0 <=> Prompt!PromptExists(p)')
    <3>1. Prompt!NumbersOf(p)' = 1 .. n + 1
      BY <1>1, Following, Zenon
    <3>2. n + 1 \in 0 .. MaxNumber /\ n + 1 > 0
      BY Following, NumberBound
    <3>3. Prompt!PromptExists(p)'
      BY DEF Prompt!PromptExists
    <3> QED
      BY <3>1, <3>2, <3>3, Zenon
  <2>3. \A u, w \in Prompt!VersionsOf(p)' : version'[u].number = version'[w].number => u = w
    <3>1. \A u \in Prompt!VersionsOf(p) : version'[u] = version[u] /\ version[u].number \in 1 .. n
      BY <1>1 DEF Prompt!VersionsOf, Prompt!NumbersOf
    <3>2. \A m \in 1 .. n : m # n + 1
      BY Following, Zenon
    <3>4. version'[v].number = n + 1
      BY <1>1, Zenon
    <3>3. \A u, w \in Prompt!VersionsOf(p) : version[u].number = version[w].number => u = w
      BY DEF PromptInvariant, Prompt!LibraryIsSound, Prompt!VersionsAreNumbered
    <3>5. ASSUME NEW u \in Prompt!VersionsOf(p)', NEW w \in Prompt!VersionsOf(p)', version'[u].number = version'[w].number
          PROVE  u = w
      <4>1. (u = v \/ u \in Prompt!VersionsOf(p)) /\ (w = v \/ w \in Prompt!VersionsOf(p))
        BY <1>1, <3>5
      <4>2. \A x \in Prompt!VersionsOf(p) : version'[x].number # version'[v].number
        BY <3>1, <3>2, <3>4, Zenon
      <4>3. CASE u \in Prompt!VersionsOf(p) /\ w \in Prompt!VersionsOf(p)
        BY <3>1, <3>3, <3>5, <4>3, Zenon
      <4> QED
        BY <3>5, <4>1, <4>2, <4>3, Zenon
    <3> QED
      BY <3>5
  <2> QED
    BY <2>1, <2>2, <2>3 DEF Prompt!VersionsAreNumbered
<1> QED
  BY <1>3, <1>4, <1>5 DEF PromptInvariant, Prompt!LibraryIsSound

\* A Prompt made with its first version, by a user or by a copy.
LEMMA PromptInserted ==
  ASSUME Prompt!LibraryAssumption, PromptInvariant, call' \in [Clients -> PromptCall], SourcesWereThere',
         NEW p \in Prompts, NEW v \in PromptVersions, NEW n \in Prompt!AllNames, NEW t \in Texts \cup {CopyText},
         ~Prompt!Conflict(p, v, n), Prompt!InsertPrompt(p, v, n, t),
         issued \cup {v} \subseteq issued', issued' \subseteq Prompts \cup PromptVersions, selected' = selected
  PROVE  PromptInvariant'
<1>1. PICK row \in Prompt!VersionRow : row.prompt = p /\ row.number = 1 /\ version' = [version EXCEPT ![v] = row]
  <2> DEFINE row == [prompt |-> p, number |-> 1, name |-> n, text |-> t, archived |-> FALSE]
  <2>1. row \in Prompt!VersionRow
    BY PromptBlanks DEF Prompt!VersionRow
  <2> QED
    BY <2>1 DEF Prompt!InsertPrompt
<1>2. PICK new \in Prompt!PromptRow : new.name = n /\ prompt' = [prompt EXCEPT ![p] = new]
  <2> DEFINE new == [name |-> n, archived |-> FALSE]
  <2>1. new \in Prompt!PromptRow
    BY DEF Prompt!PromptRow
  <2> QED
    BY <2>1 DEF Prompt!InsertPrompt
<1>3. prompt' \in [Prompts -> Prompt!PromptRow] /\ prompt'[p] = new /\ \A q \in Prompts \ {p} : prompt'[q] = prompt[q]
  BY <1>2 DEF PromptInvariant, PromptTypes
<1>4. version' \in [PromptVersions -> Prompt!VersionRow]
  BY <1>1 DEF PromptInvariant, PromptTypes
<1>5. PromptTypes'
  BY <1>3, <1>4 DEF PromptInvariant, PromptTypes
<1>6. n # "" /\ new # Prompt!NoPrompt
  BY <1>2, PromptBlanks DEF Prompt!LibraryAssumption
<1>7. ~Prompt!PromptExists(p) /\ Prompt!NameIsFree(n, p) /\ ~Prompt!VersionExists(v)
  BY DEF Prompt!Conflict
<1>8. Prompt!NumbersOf(p) = 1 .. 0
  <2>1. PICK m \in 0 .. MaxNumber : Prompt!NumbersOf(p) = 1 .. m /\ (m > 0 <=> Prompt!PromptExists(p))
    BY DEF PromptInvariant, Prompt!LibraryIsSound, Prompt!VersionsAreNumbered
  <2>2. m = 0
    BY <1>7, <2>1
  <2> QED
    BY <2>1, <2>2
<1>9. Prompt!NamesAreUnique'
  BY <1>2, <1>3, <1>6, <1>7, PromptBlanks DEF PromptInvariant, Prompt!LibraryIsSound, Prompt!NamesAreUnique, Prompt!NameIsFree,
    Prompt!PromptExists, RowsAreWhole
<1>10. 0 + 1 <= MaxNumber /\ row.number = 0 + 1
  BY <1>1, NumberBound
<1>11. /\ Prompt!LibraryAssumption /\ PromptInvariant /\ SourcesWereThere'
       /\ p \in Prompts /\ v \in PromptVersions /\ row \in Prompt!VersionRow
       /\ issued \cup {v} \subseteq issued' /\ selected' = selected
  OBVIOUS
<1>12. 0 \in Nat /\ prompt'[p] # Prompt!NoPrompt /\ prompt'[p].name # ""
  BY <1>2, <1>3, <1>6
<1> QED
  BY ONLY <1>1, <1>3, <1>5, <1>7, <1>8, <1>9, <1>10, <1>11, <1>12, VersionAdded, Zenon

\* A further version of a Prompt, saved or restored.
LEMMA VersionInserted ==
  ASSUME Prompt!LibraryAssumption, PromptInvariant, call' \in [Clients -> PromptCall], SourcesWereThere',
         NEW p \in Prompts, NEW v \in PromptVersions, NEW t \in Texts \cup {CopyText, None}, Prompt!InsertVersion(p, v, t)
  PROVE  PromptInvariant'
<1>1. /\ Prompt!PromptExists(p) /\ v \notin issued /\ issued' = issued \cup {v}
      /\ UNCHANGED <<prompt, selected>>
  BY DEF Prompt!InsertVersion
<1>2. ~Prompt!VersionExists(v)
  BY <1>1 DEF PromptInvariant, RowsAreWhole
<1>3. PICK n \in 0 .. MaxNumber : Prompt!NumbersOf(p) = 1 .. n
  BY DEF PromptInvariant, Prompt!LibraryIsSound, Prompt!VersionsAreNumbered
<1>4. n \in Nat /\ Prompt!NextNumber(p) = n + 1
  BY <1>3, NextOfInterval DEF Prompt!NextNumber
<1>5. n + 1 <= MaxNumber /\ n + 1 \in 0 .. MaxNumber
  <2>1. n + 1 <= MaxNumber
    BY <1>4 DEF Prompt!InsertVersion
  <2> QED
    BY <1>4, <2>1, Following, NumberBound
<1>6. PICK row \in Prompt!VersionRow : row.prompt = p /\ row.number = n + 1 /\ version' = [version EXCEPT ![v] = row]
  <2> DEFINE row == [prompt |-> p, number |-> n + 1, name |-> prompt[p].name, text |-> t, archived |-> FALSE]
  <2>1. row \in Prompt!VersionRow
    BY <1>5 DEF Prompt!VersionRow, Prompt!PromptRow, PromptInvariant, PromptTypes
  <2> QED
    BY <1>4, <2>1 DEF Prompt!InsertVersion
<1>7. PromptTypes'
  BY <1>1, <1>6 DEF PromptInvariant, PromptTypes
<1>8. prompt'[p] # Prompt!NoPrompt /\ prompt'[p].name # ""
  BY <1>1 DEF PromptInvariant, RowsAreWhole, Prompt!PromptExists
<1>9. Prompt!NamesAreUnique'
  BY <1>1 DEF PromptInvariant, Prompt!LibraryIsSound, Prompt!NamesAreUnique, Prompt!PromptExists
<1> QED
  BY <1>1, <1>2, <1>3, <1>4, <1>5, <1>6, <1>7, <1>8, <1>9, VersionAdded

\* A name or an archived flag of a Prompt that is there.
LEMMA PromptChanged ==
  ASSUME Prompt!LibraryAssumption, PromptInvariant, NEW p \in Prompts, Prompt!PromptExists(p),
         NEW new \in Prompt!PromptRow, prompt' = [prompt EXCEPT ![p] = new],
         new.name = prompt[p].name \/ (new.name \in Prompt!AllNames /\ Prompt!NameIsFree(new.name, p)),
         UNCHANGED <<version, issued, selected, call>>
  PROVE  PromptInvariant'
<1>1. prompt' \in [Prompts -> Prompt!PromptRow] /\ prompt'[p] = new /\ \A q \in Prompts \ {p} : prompt'[q] = prompt[q]
  BY DEF PromptInvariant, PromptTypes
<1>2. new.name # "" /\ new # Prompt!NoPrompt
  BY PromptBlanks DEF Prompt!LibraryAssumption, PromptInvariant, RowsAreWhole
<1>3. \A q \in Prompts : Prompt!PromptExists(q)' <=> Prompt!PromptExists(q)
  BY <1>1, <1>2 DEF Prompt!PromptExists
<1>4. PromptTypes' /\ RowsAreWhole' /\ SourcesWereThere'
  BY <1>1, <1>2, <1>3 DEF PromptInvariant, PromptTypes, RowsAreWhole, SourcesWereThere, Prompt!VersionExists
<1>5. Prompt!VersionsAreNumbered'
  <2>1. \A q : Prompt!VersionsOf(q)' = Prompt!VersionsOf(q) /\ Prompt!NumbersOf(q)' = Prompt!NumbersOf(q)
    BY DEF Prompt!VersionsOf, Prompt!NumbersOf
  <2> QED
    BY <1>3, <2>1 DEF PromptInvariant, Prompt!LibraryIsSound, Prompt!VersionsAreNumbered
<1>6. Prompt!NamesAreUnique'
  <2>1. \A x, y \in Prompts : Prompt!PromptExists(x) /\ prompt[x].name = prompt[y].name => x = y
    BY DEF PromptInvariant, Prompt!LibraryIsSound, Prompt!NamesAreUnique
  <2>2. Prompt!PromptExists(p)
    OBVIOUS
  <2>3. new.name = prompt[p].name \/ \A q \in Prompts \ {p} : prompt[q].name # new.name
    BY DEF Prompt!NameIsFree
  <2>4. \A q \in Prompts \ {p} : prompt[q].name # new.name
    BY ONLY <2>1, <2>2, <2>3
  <2>5. ASSUME NEW x \in Prompts, NEW y \in Prompts, Prompt!PromptExists(x)', prompt'[x].name = prompt'[y].name PROVE x = y
    <3>1. Prompt!PromptExists(x)
      BY ONLY <1>3, <2>5
    <3>2. x = p => y = p
      BY ONLY <1>1, <2>4, <2>5
    <3>3. y = p => x = p
      BY ONLY <1>1, <2>4, <2>5
    <3>4. x # p /\ y # p => x = y
      BY ONLY <1>1, <2>1, <2>5, <3>1
    <3>5. QED
      BY ONLY <3>2, <3>3, <3>4
  <2>6. QED
    BY ONLY <2>5 DEF Prompt!NamesAreUnique
<1>7. Prompt!SelectedExist'
  BY DEF PromptInvariant, Prompt!LibraryIsSound, Prompt!SelectedExist, Prompt!VersionExists
<1> QED
  BY <1>4, <1>5, <1>6, <1>7 DEF PromptInvariant, Prompt!LibraryIsSound

LEMMA VersionArchived ==
  ASSUME Prompt!LibraryAssumption, PromptInvariant, NEW c \in Clients, NEW v \in PromptVersions, Prompt!ArchiveVersion(c, v)
  PROVE  PromptInvariant'
<1>1. Prompt!VersionExists(v) /\ UNCHANGED <<prompt, issued, selected, call>>
  BY DEF Prompt!ArchiveVersion
<1>2. PICK row \in Prompt!VersionRow : /\ row.prompt = version[v].prompt /\ row.number = version[v].number
                                       /\ version' = [version EXCEPT ![v] = row]
  <2> DEFINE row == [version[v] EXCEPT !.archived = TRUE]
  <2>1. version[v] \in Prompt!VersionRow /\ version' = [version EXCEPT ![v] = row]
    BY DEF Prompt!ArchiveVersion, PromptInvariant, PromptTypes
  <2>2. row \in Prompt!VersionRow /\ row.prompt = version[v].prompt /\ row.number = version[v].number
    BY <2>1 DEF Prompt!VersionRow
  <2> QED
    BY <2>1, <2>2
<1>3. version' \in [PromptVersions -> Prompt!VersionRow] /\ version'[v] = row /\ \A u \in PromptVersions \ {v} : version'[u] = version[u]
  BY <1>2 DEF PromptInvariant, PromptTypes
<1>4. version[v].prompt # None /\ row # Prompt!NoVersion
  BY <1>1, <1>2, PromptBlanks DEF PromptInvariant, RowsAreWhole
<1>5. \A u \in PromptVersions : /\ version'[u].prompt = version[u].prompt /\ version'[u].number = version[u].number
                                /\ Prompt!VersionExists(u)' <=> Prompt!VersionExists(u)
  BY <1>1, <1>2, <1>3, <1>4 DEF Prompt!VersionExists
<1>6. PromptTypes' /\ RowsAreWhole' /\ SourcesWereThere'
  BY <1>1, <1>3, <1>5 DEF PromptInvariant, PromptTypes, RowsAreWhole, SourcesWereThere, Prompt!PromptExists
<1>7. \A q : Prompt!VersionsOf(q)' = Prompt!VersionsOf(q) /\ Prompt!NumbersOf(q)' = Prompt!NumbersOf(q)
  BY <1>5 DEF Prompt!VersionsOf, Prompt!NumbersOf
<1>8. Prompt!VersionsAreNumbered'
  <2>1. ASSUME NEW q \in Prompts
        PROVE  /\ \E m \in 0 .. MaxNumber : Prompt!NumbersOf(q)' = 1 .. m /\ (m > 0 <=> Prompt!PromptExists(q)')
               /\ \A u, w \in Prompt!VersionsOf(q)' : version'[u].number = version'[w].number => u = w
    <3>1. /\ \E m \in 0 .. MaxNumber : Prompt!NumbersOf(q) = 1 .. m /\ (m > 0 <=> Prompt!PromptExists(q))
          /\ \A u, w \in Prompt!VersionsOf(q) : version[u].number = version[w].number => u = w
      BY DEF PromptInvariant, Prompt!LibraryIsSound, Prompt!VersionsAreNumbered
    <3>2. Prompt!PromptExists(q)' <=> Prompt!PromptExists(q)
      BY <1>1 DEF Prompt!PromptExists
    <3>3. \A u \in Prompt!VersionsOf(q) : version'[u].number = version[u].number
      BY <1>5 DEF Prompt!VersionsOf
    <3>4. \E m \in 0 .. MaxNumber : Prompt!NumbersOf(q)' = 1 .. m /\ (m > 0 <=> Prompt!PromptExists(q)')
      BY <1>7, <3>1, <3>2
    <3>5. ASSUME NEW u \in Prompt!VersionsOf(q)', NEW w \in Prompt!VersionsOf(q)', version'[u].number = version'[w].number
          PROVE  u = w
      <4>1. u \in Prompt!VersionsOf(q) /\ w \in Prompt!VersionsOf(q)
        BY <1>7
      <4> QED
        BY <3>1, <3>3, <3>5, <4>1, Zenon
    <3> QED
      BY <3>4, <3>5
  <2> QED
    BY <2>1 DEF Prompt!VersionsAreNumbered
<1>9. Prompt!NamesAreUnique' /\ Prompt!SelectedExist'
  BY <1>1, <1>5 DEF PromptInvariant, PromptTypes, Prompt!LibraryIsSound, Prompt!NamesAreUnique, Prompt!SelectedExist, Prompt!PromptExists
<1> QED
  BY <1>6, <1>8, <1>9 DEF PromptInvariant, Prompt!LibraryIsSound

\* A Prompt that goes takes its versions, none of which is selected.
LEMMA PromptDeleted ==
  ASSUME Prompt!LibraryAssumption, PromptInvariant, NEW c \in Clients, NEW p \in Prompts, Prompt!Delete(c, p)
  PROVE  PromptInvariant'
<1>1. /\ Prompt!VersionsOf(p) \cap selected = {} /\ UNCHANGED <<issued, selected, call>>
      /\ prompt' = [prompt EXCEPT ![p] = Prompt!NoPrompt]
      /\ version' = [v \in PromptVersions |-> IF v \in Prompt!VersionsOf(p) THEN Prompt!NoVersion ELSE version[v]]
  BY DEF Prompt!Delete
<1>2. /\ prompt' \in [Prompts -> Prompt!PromptRow] /\ prompt'[p] = Prompt!NoPrompt
      /\ \A q \in Prompts \ {p} : prompt'[q] = prompt[q]
      /\ version' \in [PromptVersions -> Prompt!VersionRow]
      /\ \A v \in PromptVersions : version'[v] = IF version[v].prompt = p THEN Prompt!NoVersion ELSE version[v]
  BY <1>1, PromptBlanks DEF PromptInvariant, PromptTypes, Prompt!VersionsOf
<1>3. None \notin Prompts
  BY DEF Prompt!LibraryAssumption
<1>4. PromptTypes' /\ SourcesWereThere'
  BY <1>1, <1>2 DEF PromptInvariant, PromptTypes, SourcesWereThere
<1>5. RowsAreWhole'
  BY <1>1, <1>2, PromptBlanks DEF PromptInvariant, RowsAreWhole, Prompt!PromptExists, Prompt!VersionExists
<1>6. Prompt!SelectedExist'
  BY <1>1, <1>2 DEF PromptInvariant, PromptTypes, Prompt!LibraryIsSound, Prompt!SelectedExist, Prompt!VersionExists, Prompt!VersionsOf
<1>7. Prompt!NamesAreUnique'
  <2>1. \A q \in Prompts : Prompt!PromptExists(q)' => q # p /\ Prompt!PromptExists(q) /\ prompt'[q] = prompt[q] /\ prompt[q].name # ""
    BY <1>2 DEF Prompt!PromptExists, PromptInvariant, RowsAreWhole
  <2>2. \A q \in Prompts : prompt'[q].name = "" \/ prompt'[q] = prompt[q]
    BY <1>2, PromptBlanks
  <2> QED
    BY <2>1, <2>2 DEF PromptInvariant, Prompt!LibraryIsSound, Prompt!NamesAreUnique
<1>8. Prompt!VersionsAreNumbered'
  <2>1. /\ Prompt!VersionsOf(p)' = {}
        /\ \A q \in Prompts \ {p} : Prompt!VersionsOf(q)' = Prompt!VersionsOf(q)
    BY <1>2, <1>3, PromptBlanks DEF Prompt!VersionsOf
  <2>2. ASSUME NEW q \in Prompts \ {p}
        PROVE  /\ \E m \in 0 .. MaxNumber : Prompt!NumbersOf(q)' = 1 .. m /\ (m > 0 <=> Prompt!PromptExists(q)')
               /\ \A u, w \in Prompt!VersionsOf(q)' : version'[u].number = version'[w].number => u = w
    <3>1. /\ \E m \in 0 .. MaxNumber : Prompt!NumbersOf(q) = 1 .. m /\ (m > 0 <=> Prompt!PromptExists(q))
          /\ \A u, w \in Prompt!VersionsOf(q) : version[u].number = version[w].number => u = w
      BY DEF PromptInvariant, Prompt!LibraryIsSound, Prompt!VersionsAreNumbered
    <3>2. \A u \in Prompt!VersionsOf(q) : version'[u] = version[u]
      BY <1>2, <2>2 DEF Prompt!VersionsOf
    <3>3. Prompt!NumbersOf(q)' = Prompt!NumbersOf(q)
      BY <2>1, <3>2 DEF Prompt!NumbersOf
    <3>4. Prompt!PromptExists(q)' <=> Prompt!PromptExists(q)
      BY <1>2 DEF Prompt!PromptExists
    <3>5. \E m \in 0 .. MaxNumber : Prompt!NumbersOf(q)' = 1 .. m /\ (m > 0 <=> Prompt!PromptExists(q)')
      BY <3>1, <3>3, <3>4
    <3>6. ASSUME NEW u \in Prompt!VersionsOf(q)', NEW w \in Prompt!VersionsOf(q)', version'[u].number = version'[w].number
          PROVE  u = w
      <4>1. u \in Prompt!VersionsOf(q) /\ w \in Prompt!VersionsOf(q)
        BY <2>1
      <4> QED
        BY <3>1, <3>2, <3>6, <4>1, Zenon
    <3> QED
      BY <3>5, <3>6
  <2>3. Prompt!NumbersOf(p)' = 1 .. 0 /\ ~Prompt!PromptExists(p)'
    BY <1>2, <2>1 DEF Prompt!NumbersOf, Prompt!PromptExists
  <2>4. \E m \in 0 .. MaxNumber : Prompt!NumbersOf(p)' = 1 .. m /\ (m > 0 <=> Prompt!PromptExists(p)')
    BY <2>3, NumberBound
  <2> QED
    BY <2>1, <2>2, <2>4 DEF Prompt!VersionsAreNumbered
<1> QED
  BY <1>4, <1>5, <1>6, <1>7, <1>8 DEF PromptInvariant, Prompt!LibraryIsSound

\* A client that moves on, with what it has read.
LEMMA CallMoves ==
  ASSUME PromptInvariant, NEW c \in Clients, NEW new \in PromptCall, call' = [call EXCEPT ![c] = new],
         new.next = "restore" => new.seenVersion.prompt \in Prompts
  PROVE  call' \in [Clients -> PromptCall] /\ SourcesWereThere'
BY DEF PromptInvariant, PromptTypes, SourcesWereThere

LEMMA CallOnly ==
  ASSUME PromptInvariant, NEW c \in Clients, NEW new \in PromptCall, call' = [call EXCEPT ![c] = new],
         new.next = "restore" => new.seenVersion.prompt \in Prompts,
         UNCHANGED <<prompt, version, issued, selected>>
  PROVE  PromptInvariant'
<1>1. call' \in [Clients -> PromptCall] /\ SourcesWereThere'
  BY CallMoves
<1>2. PromptTypes'
  BY <1>1 DEF PromptInvariant, PromptTypes
<1> QED
  BY <1>1, <1>2, RowsStay

LEMMA CallOfClient ==
  ASSUME PromptInvariant, NEW c \in Clients
  PROVE  /\ call[c] \in PromptCall
         /\ call[c] = [next |-> call[c].next, name |-> call[c].name, seenPrompt |-> call[c].seenPrompt,
                       seenVersion |-> call[c].seenVersion]
         /\ call[c].name \in DOMAIN Names /\ call[c].seenPrompt \in Prompt!PromptRow
         /\ call[c].seenVersion \in Prompt!VersionRow
         /\ DOMAIN call = Clients
BY DEF PromptInvariant, PromptTypes, PromptCall

LEMMA SourceRead ==
  ASSUME Prompt!LibraryAssumption, PromptInvariant, NEW c \in Clients, NEW v \in PromptVersions, Prompt!ReadSource(c, v)
  PROVE  PromptInvariant'
<1> DEFINE between == [call[c] EXCEPT !.next = "restore"]
           new == [between EXCEPT !.seenVersion = version[v]]
<1>1. version[v] \in Prompt!VersionRow /\ version[v].prompt \in Prompts
  BY PromptBlanks DEF Prompt!ReadSource, PromptInvariant, PromptTypes, RowsAreWhole, Prompt!VersionRow
<1>2. new \in PromptCall /\ new.seenVersion = version[v]
  BY <1>1, CallOfClient DEF PromptCall
<1>3. call' = [call EXCEPT ![c] = new]
  <2>1. call' = [[call EXCEPT ![c].next = "restore"] EXCEPT ![c].seenVersion = version[v]]
    BY DEF Prompt!ReadSource
  <2>2. [call EXCEPT ![c].next = "restore"] = [call EXCEPT ![c] = between]
    BY CallOfClient
  <2>3. call' = [[call EXCEPT ![c] = between] EXCEPT ![c].seenVersion = version[v]]
    BY <2>1, <2>2
  <2>4. [call EXCEPT ![c] = between][c] = between
    BY CallOfClient
  <2>5. call' = [[call EXCEPT ![c] = between] EXCEPT ![c] = [[call EXCEPT ![c] = between][c] EXCEPT !.seenVersion = version[v]]]
    BY <2>3
  <2>6. call' = [[call EXCEPT ![c] = between] EXCEPT ![c] = new]
    BY <2>4, <2>5
  <2> QED
    BY <2>6, CallOfClient
<1> QED
  BY <1>1, <1>2, <1>3, CallOnly DEF Prompt!ReadSource

LEMMA StepTaken ==
  ASSUME Prompt!LibraryAssumption, PromptInvariant, NEW c \in Clients,
         Prompt!Copy(c) \/ Prompt!ReadPrompt(c) \/ Prompt!ReadVersion(c) \/ Prompt!Return(c)
  PROVE  PromptInvariant'
<1>1. CASE Prompt!Copy(c)
  <2> DEFINE new == [call[c] EXCEPT !.next = "try"]
  <2>1. new \in PromptCall /\ new.next # "restore"
    BY CallOfClient DEF PromptCall
  <2>2. call' = [call EXCEPT ![c] = new]
    BY <1>1, CallOfClient DEF Prompt!Copy
  <2> QED
    BY <1>1, <2>1, <2>2, CallOnly DEF Prompt!Copy
<1>2. CASE Prompt!ReadPrompt(c)
  <2> DEFINE new == [[call[c] EXCEPT !.seenPrompt = prompt[CopyPrompt]] EXCEPT !.next = "version"]
  <2>1. prompt[CopyPrompt] \in Prompt!PromptRow
    BY DEF PromptInvariant, PromptTypes, Prompt!LibraryAssumption
  <2>2. new \in PromptCall /\ new.next # "restore"
    BY <2>1, CallOfClient DEF PromptCall
  <2> DEFINE between == [call EXCEPT ![c] = [call[c] EXCEPT !.seenPrompt = prompt[CopyPrompt]]]
  <2>3. call' = [call EXCEPT ![c] = new]
    <3>1. call' = [between EXCEPT ![c].next = "version"]
      BY <1>2, CallOfClient DEF Prompt!ReadPrompt
    <3>2. between[c] = [call[c] EXCEPT !.seenPrompt = prompt[CopyPrompt]]
      BY CallOfClient
    <3>3. call' = [between EXCEPT ![c] = [between[c] EXCEPT !.next = "version"]]
      BY <3>1
    <3>4. call' = [between EXCEPT ![c] = new]
      BY <3>2, <3>3
    <3> QED
      BY <3>4, CallOfClient
  <2> QED
    BY <1>2, <2>2, <2>3, CallOnly DEF Prompt!ReadPrompt
<1>3. CASE Prompt!ReadVersion(c)
  <2>1. CASE call' = [call EXCEPT ![c] = Prompt!Idle]
    BY <1>3, <2>1, CallOnly, PromptBlanks DEF Prompt!ReadVersion
  <2>2. CASE call' = [call EXCEPT ![c] = [Prompt!Idle EXCEPT !.next = "collision"]]
    <3>1. [Prompt!Idle EXCEPT !.next = "collision"] \in PromptCall /\ [Prompt!Idle EXCEPT !.next = "collision"].next = "collision"
      BY PromptBlanks DEF PromptCall
    <3> QED
      BY <1>3, <2>2, <3>1, CallOnly DEF Prompt!ReadVersion
  <2>3. CASE call[c].name < Len(Names) /\ call' = [call EXCEPT ![c] = [Prompt!Idle EXCEPT !.next = "try", !.name = call[c].name + 1]]
    <3> DEFINE new == [Prompt!Idle EXCEPT !.next = "try", !.name = call[c].name + 1]
    <3>1. call[c].name + 1 \in DOMAIN Names
      <4>1. Names \in Seq(STRING)
        BY DEF Prompt!LibraryAssumption
      <4>2. DOMAIN Names = 1 .. Len(Names) /\ Len(Names) \in Nat
        BY <4>1, LenProperties
      <4>3. call[c].name \in 1 .. Len(Names)
        BY <4>2, CallOfClient
      <4> QED
        BY <2>3, <4>2, <4>3
    <3>2. new \in PromptCall /\ new.next = "try"
      BY <3>1, PromptBlanks DEF PromptCall
    <3> QED
      BY <1>3, <2>3, <3>2, CallOnly DEF Prompt!ReadVersion
  <2> QED
    BY <1>3, <2>1, <2>2, <2>3 DEF Prompt!ReadVersion
<1>4. CASE Prompt!Return(c)
  BY <1>4, CallOnly, PromptBlanks DEF Prompt!Return
<1> QED
  BY <1>1, <1>2, <1>3, <1>4

LEMMA NameTried ==
  ASSUME Prompt!LibraryAssumption, PromptInvariant, NEW c \in Clients, Prompt!TryName(c)
  PROVE  PromptInvariant'
<1> DEFINE n == Names[call[c].name]
<1>1. n \in Prompt!AllNames /\ CopyPrompt \in Prompts /\ CopyVersion \in PromptVersions
  BY CallOfClient DEF Prompt!AllNames, Prompt!LibraryAssumption
<1>2. CASE /\ ~Prompt!Conflict(CopyPrompt, CopyVersion, n)
           /\ Prompt!InsertPrompt(CopyPrompt, CopyVersion, n, CopyText)
           /\ call' = [call EXCEPT ![c] = Prompt!Idle]
           /\ UNCHANGED <<issued, selected>>
  <2>1. call' \in [Clients -> PromptCall] /\ SourcesWereThere'
    BY <1>2, CallMoves, PromptBlanks
  <2>2. CopyVersion \in issued /\ issued \subseteq Prompts \cup PromptVersions
    BY DEF PromptInvariant, RowsAreWhole, PromptTypes
  <2> QED
    BY <1>1, <1>2, <2>1, <2>2, PromptInserted
<1>3. CASE call' = [call EXCEPT ![c].next = "prompt"] /\ UNCHANGED <<prompt, version, issued, selected>>
  <2> DEFINE new == [call[c] EXCEPT !.next = "prompt"]
  <2>1. new \in PromptCall /\ new.next # "restore"
    BY CallOfClient DEF PromptCall
  <2>2. call' = [call EXCEPT ![c] = new]
    BY <1>3, CallOfClient
  <2> QED
    BY <1>3, <2>1, <2>2, CallOnly
<1> QED
  BY <1>2, <1>3 DEF Prompt!TryName

LEMMA PromptRestored ==
  ASSUME Prompt!LibraryAssumption, PromptInvariant, NEW c \in Clients, NEW v \in PromptVersions, Prompt!Restore(c, v)
  PROVE  PromptInvariant'
<1>1. call' \in [Clients -> PromptCall] /\ SourcesWereThere'
  BY CallMoves, PromptBlanks DEF Prompt!Restore
<1>2. call[c].seenVersion.prompt \in Prompts
  BY DEF Prompt!Restore, PromptInvariant, SourcesWereThere
<1>3. call[c].seenVersion.text \in Texts \cup {CopyText, None}
  BY CallOfClient DEF Prompt!VersionRow
<1>4. CASE Prompt!InsertVersion(call[c].seenVersion.prompt, v, call[c].seenVersion.text)
  BY <1>1, <1>2, <1>3, <1>4, VersionInserted
<1>5. CASE UNCHANGED <<prompt, version, issued, selected>>
  BY <1>5, CallOnly, PromptBlanks DEF Prompt!Restore
<1> QED
  BY <1>4, <1>5 DEF Prompt!Restore

LEMMA PromptSaved ==
  ASSUME Prompt!LibraryAssumption, PromptInvariant, NEW c \in Clients, NEW p \in Prompts, NEW v \in PromptVersions,
         NEW t \in Texts, NEW n \in Prompt!AllNames,
         Prompt!Create(c, p, v, n, t) \/ Prompt!CreateVersion(c, p, v, t)
  PROVE  PromptInvariant'
<1>1. call' = call
  BY DEF Prompt!Create, Prompt!CreateVersion
<1>2. call' \in [Clients -> PromptCall] /\ SourcesWereThere'
  BY <1>1 DEF PromptInvariant, PromptTypes, SourcesWereThere
<1>3. CASE Prompt!Create(c, p, v, n, t)
  <2>1. issued \subseteq Prompts \cup PromptVersions
    BY DEF PromptInvariant, PromptTypes
  <2>2. issued \cup {v} \subseteq issued' /\ issued' \subseteq Prompts \cup PromptVersions
    BY <1>3, <2>1 DEF Prompt!Create
  <2> QED
    BY <1>2, <1>3, <2>2, PromptInserted DEF Prompt!Create
<1>4. CASE Prompt!CreateVersion(c, p, v, t)
  BY <1>2, <1>4, VersionInserted DEF Prompt!CreateVersion
<1> QED
  BY <1>3, <1>4

LEMMA PromptUpdated ==
  ASSUME Prompt!LibraryAssumption, PromptInvariant, NEW c \in Clients, NEW p \in Prompts,
         Prompt!Archive(c, p) \/ \E n \in Prompt!AllNames : Prompt!UpdateMetadata(c, p, n)
  PROVE  PromptInvariant'
<1>1. prompt[p] \in Prompt!PromptRow /\ Prompt!PromptExists(p) /\ UNCHANGED <<version, issued, selected, call>>
  BY DEF PromptInvariant, PromptTypes, Prompt!Archive, Prompt!UpdateMetadata
<1>2. CASE Prompt!Archive(c, p)
  <2> DEFINE new == [prompt[p] EXCEPT !.archived = TRUE]
  <2>1. new \in Prompt!PromptRow /\ new.name = prompt[p].name
    BY <1>1 DEF Prompt!PromptRow
  <2>2. prompt' = [prompt EXCEPT ![p] = new]
    BY <1>2 DEF Prompt!Archive
  <2> QED
    BY <1>1, <2>1, <2>2, PromptChanged
<1>3. ASSUME NEW n \in Prompt!AllNames, Prompt!UpdateMetadata(c, p, n)
      PROVE  PromptInvariant'
  <2> DEFINE new == [prompt[p] EXCEPT !.name = n]
  <2>1. new \in Prompt!PromptRow /\ new.name = n
    BY <1>1 DEF Prompt!PromptRow
  <2>2. prompt' = [prompt EXCEPT ![p] = new] /\ Prompt!NameIsFree(n, p)
    BY <1>3 DEF Prompt!UpdateMetadata
  <2>3. Prompt!NameIsFree(new.name, p) /\ new.name \in Prompt!AllNames
    BY <1>3, <2>1, <2>2
  <2> QED
    BY <1>1, <2>1, <2>2, <2>3, PromptChanged
<1> QED
  BY <1>2, <1>3

LEMMA SelectionChanged ==
  ASSUME Prompt!LibraryAssumption, PromptInvariant, NEW v \in PromptVersions, Prompt!Select(v) \/ Prompt!Unselect(v)
  PROVE  PromptInvariant'
<1>1. UNCHANGED <<prompt, version, issued, call>> /\ (selected' = selected \ {v} \/ (selected' = selected \cup {v} /\ Prompt!VersionExists(v)))
  BY DEF Prompt!Select, Prompt!Unselect
<1>2. PromptTypes' /\ SourcesWereThere'
  BY <1>1 DEF PromptInvariant, PromptTypes, SourcesWereThere
<1>3. selected' \subseteq selected \cup {u \in PromptVersions : Prompt!VersionExists(u)}
  BY <1>1
<1> QED
  BY <1>1, <1>2, <1>3, RowsStay

LEMMA PromptInitially ==
  ASSUME Prompt!LibraryAssumption, Prompt!Init
  PROVE  PromptInvariant
<1>1. /\ prompt = [p \in Prompts |-> Prompt!NoPrompt] /\ version = [v \in PromptVersions |-> Prompt!NoVersion]
      /\ issued = {CopyPrompt, CopyVersion} /\ selected = {} /\ call = [c \in Clients |-> Prompt!Idle]
  BY DEF Prompt!Init
<1>2. CopyPrompt \in Prompts /\ CopyVersion \in PromptVersions /\ None \notin Prompts
  BY DEF Prompt!LibraryAssumption
<1>3. PromptTypes
  BY <1>1, <1>2, PromptBlanks DEF PromptTypes
<1>4. RowsAreWhole /\ SourcesWereThere
  BY <1>1, PromptBlanks DEF RowsAreWhole, SourcesWereThere, Prompt!PromptExists, Prompt!VersionExists
<1>5. \A p \in Prompts : Prompt!VersionsOf(p) = {} /\ ~Prompt!PromptExists(p)
  BY <1>1, <1>2, PromptBlanks DEF Prompt!VersionsOf, Prompt!PromptExists
<1>6. \A p \in Prompts : Prompt!NumbersOf(p) = 1 .. 0
  BY <1>5 DEF Prompt!NumbersOf
<1>7. 0 \in 0 .. MaxNumber
  BY NumberBound
<1>8. Prompt!VersionsAreNumbered
  BY <1>5, <1>6, <1>7 DEF Prompt!VersionsAreNumbered
<1>9. Prompt!LibraryIsSound
  BY <1>1, <1>5, <1>8 DEF Prompt!LibraryIsSound, Prompt!NamesAreUnique, Prompt!SelectedExist
<1> QED
  BY <1>3, <1>4, <1>9 DEF PromptInvariant

LEMMA PromptInductive ==
  ASSUME Prompt!LibraryAssumption, PromptInvariant, [Prompt!Next]_(Prompt!vars)
  PROVE  PromptInvariant'
<1>1. CASE UNCHANGED Prompt!vars
  <2>1. UNCHANGED <<prompt, version, issued, selected, call>>
    BY <1>1 DEF Prompt!vars
  <2>2. PromptTypes' /\ SourcesWereThere'
    BY <2>1 DEF PromptInvariant, PromptTypes, SourcesWereThere
  <2> QED
    BY <2>1, <2>2, RowsStay
<1>2. ASSUME NEW c \in Clients,
             \/ \E p \in Prompts, v \in PromptVersions, n \in Prompt!AllNames, t \in Texts : Prompt!Create(c, p, v, n, t)
             \/ \E p \in Prompts, v \in PromptVersions, t \in Texts : Prompt!CreateVersion(c, p, v, t)
      PROVE  PromptInvariant'
  <2>2. Names[1] \in Prompt!AllNames
    BY PromptBlanks DEF Prompt!AllNames
  <2> QED
    BY <1>2, <2>2, PromptSaved
<1>3. ASSUME NEW c \in Clients,
             \/ \E v \in PromptVersions : Prompt!ReadSource(c, v) \/ Prompt!Restore(c, v) \/ Prompt!ArchiveVersion(c, v)
             \/ \E p \in Prompts, n \in Prompt!AllNames : Prompt!UpdateMetadata(c, p, n)
             \/ \E p \in Prompts : Prompt!Archive(c, p) \/ Prompt!Delete(c, p)
      PROVE  PromptInvariant'
  BY <1>3, SourceRead, PromptRestored, VersionArchived, PromptUpdated, PromptDeleted
<1>4. ASSUME NEW c \in Clients,
             Prompt!Copy(c) \/ Prompt!TryName(c) \/ Prompt!ReadPrompt(c) \/ Prompt!ReadVersion(c) \/ Prompt!Return(c)
      PROVE  PromptInvariant'
  BY <1>4, StepTaken, NameTried
<1>5. ASSUME NEW v \in PromptVersions, Prompt!Select(v) \/ Prompt!Unselect(v)
      PROVE  PromptInvariant'
  BY <1>5, SelectionChanged
<1> QED
  BY <1>1, <1>2, <1>3, <1>4, <1>5 DEF Prompt!Next

\* Whatever editors, copies and Saved Batches do to the Prompts of a Project, in
\* any number: the versions of a Prompt are numbered 1 .. n, names are unique,
\* and what a Saved Batch selects is there (db/prompts.py).
THEOREM PromptsStaySound ==
  ASSUME Prompt!LibraryAssumption
  PROVE  Prompt!Spec => []LibraryIsSound
<1>1. Prompt!Init => PromptInvariant
  BY PromptInitially
<1>2. PromptInvariant /\ [Prompt!Next]_(Prompt!vars) => PromptInvariant'
  BY PromptInductive
<1>3. PromptInvariant => LibraryIsSound
  BY CallOfClient DEF PromptInvariant, PromptTypes, LibraryIsSound, Prompt!TypeOK
<1> QED
  BY <1>1, <1>2, <1>3, PTL DEF Prompt!Spec

-----------------------------------------------------------------------------
\* What holds of the Workflows and of the Profiles alike, as a function of the
\* two tables of each.
HeldBy(versions, p) == {v \in DOMAIN versions : versions[v].of = p}
NumbersOfHeld(versions, p) == {versions[v].number : v \in HeldBy(versions, p)}

HeldAreNumbered(parents, versions) ==
    \A p \in DOMAIN parents :
        /\ IsFiniteSet(HeldBy(versions, p))
        /\ NumbersOfHeld(versions, p) = 1 .. Cardinality(HeldBy(versions, p))
        /\ HeldBy(versions, p) # {} <=> parents[p] # Workflow!NoParent

NumbersDiffer(versions) ==
    \A u, v \in DOMAIN versions :
        versions[u].of # None /\ versions[u].of = versions[v].of /\ versions[u].number = versions[v].number => u = v

TablesSound(parents, versions) ==
    /\ None \notin DOMAIN parents
    /\ \A p \in DOMAIN parents : parents[p] # Workflow!NoParent => parents[p].of # None
    /\ \A v \in DOMAIN versions : versions[v].of \in DOMAIN parents \cup {None}
    /\ HeldAreNumbered(parents, versions)
    /\ NumbersDiffer(versions)
    /\ Workflow!HaveOwnNames(parents)

LEMMA NextHeld ==
  ASSUME NEW parents, NEW versions, TablesSound(parents, versions), NEW p \in DOMAIN parents
  PROVE  /\ Cardinality(HeldBy(versions, p)) \in Nat /\ IsFiniteSet(HeldBy(versions, p))
         /\ \A v \in HeldBy(versions, p) : versions[v].number # Cardinality(HeldBy(versions, p)) + 1
         /\ Workflow!NextNumber(versions, p) = Cardinality(HeldBy(versions, p)) + 1
<1>1. IsFiniteSet(HeldBy(versions, p)) /\ NumbersOfHeld(versions, p) = 1 .. Cardinality(HeldBy(versions, p))
  BY DEF TablesSound, HeldAreNumbered
<1>2. PICK n \in Nat : n = Cardinality(HeldBy(versions, p)) /\ NumbersOfHeld(versions, p) = 1 .. n
  BY <1>1, FS_CardinalityType
<1>3. \A v \in HeldBy(versions, p) : versions[v].number \in 1 .. n
  BY <1>2 DEF NumbersOfHeld
<1>4. Workflow!Max({0} \cup 1 .. n) = n
  <2> DEFINE S == {0} \cup 1 .. n
  <2>1. n \in S /\ \A y \in S : n >= y
    OBVIOUS
  <2>2. \A x \in S : (\A y \in S : x >= y) => x = n
    OBVIOUS
  <2> HIDE DEF S
  <2>3. Workflow!Max(S) = n
    BY <2>1, <2>2 DEF Workflow!Max
  <2> QED
    BY <2>3 DEF S
<1>5. Workflow!NextNumber(versions, p) = Workflow!Max({0} \cup NumbersOfHeld(versions, p)) + 1
  BY DEF Workflow!NextNumber, NumbersOfHeld, HeldBy
<1>6. Workflow!NextNumber(versions, p) = n + 1
  BY <1>2, <1>4, <1>5
<1>7. \A m \in 1 .. n : m # n + 1
  OBVIOUS
<1> QED
  BY <1>1, <1>2, <1>3, <1>6, <1>7

\* One more version; `made` are the parents, with the one it belongs to.
LEMMA HeldAdded ==
  ASSUME NEW parents, NEW versions, TablesSound(parents, versions), NEW made, DOMAIN made = DOMAIN parents,
         NEW p \in DOMAIN parents, made[p] # Workflow!NoParent,
         \A q \in DOMAIN parents \ {p} : made[q] = parents[q],
         NEW v \in DOMAIN versions, versions[v].of = None,
         NEW row, row.of = p, row.number = Cardinality(HeldBy(versions, p)) + 1,
         NEW more, DOMAIN more = DOMAIN versions, more[v] = row, \A u \in DOMAIN versions \ {v} : more[u] = versions[u]
  PROVE  HeldAreNumbered(made, more) /\ NumbersDiffer(more)
<1>1. p # None /\ \A q \in DOMAIN parents : q # None
  BY DEF TablesSound
<1>2. /\ HeldBy(more, p) = HeldBy(versions, p) \cup {v} /\ v \notin HeldBy(versions, p)
      /\ \A q \in DOMAIN parents \ {p} : HeldBy(more, q) = HeldBy(versions, q) /\ v \notin HeldBy(versions, q)
      /\ \A q \in DOMAIN parents : \A u \in HeldBy(versions, q) : more[u] = versions[u]
  BY <1>1 DEF HeldBy
<1>3. /\ Cardinality(HeldBy(versions, p)) \in Nat /\ IsFiniteSet(HeldBy(versions, p))
      /\ \A u \in HeldBy(versions, p) : versions[u].number # row.number
  BY NextHeld
<1>4. HeldAreNumbered(made, more)
  <2>1. ASSUME NEW q \in DOMAIN parents \ {p}
        PROVE  /\ IsFiniteSet(HeldBy(more, q))
               /\ NumbersOfHeld(more, q) = 1 .. Cardinality(HeldBy(more, q))
               /\ HeldBy(more, q) # {} <=> made[q] # Workflow!NoParent
    <3>1. HeldBy(more, q) = HeldBy(versions, q)
      BY <1>2
    <3>2. NumbersOfHeld(more, q) = NumbersOfHeld(versions, q)
      BY <1>2, <3>1 DEF NumbersOfHeld
    <3> QED
      BY <3>1, <3>2 DEF TablesSound, HeldAreNumbered
  <2>2. IsFiniteSet(HeldBy(more, p)) /\ Cardinality(HeldBy(more, p)) = row.number
    BY <1>2, <1>3, FS_AddElement
  <2>3. NumbersOfHeld(more, p) = NumbersOfHeld(versions, p) \cup {row.number}
    <3>1. ASSUME NEW m \in NumbersOfHeld(more, p)
          PROVE  m \in NumbersOfHeld(versions, p) \cup {row.number}
      <4>1. PICK u \in HeldBy(more, p) : m = more[u].number
        BY <3>1 DEF NumbersOfHeld
      <4>2. CASE u \in HeldBy(versions, p)
        BY <1>2, <4>1, <4>2 DEF NumbersOfHeld
      <4> QED
        BY <1>2, <4>1, <4>2
    <3>2. ASSUME NEW u \in HeldBy(versions, p)
          PROVE  versions[u].number \in NumbersOfHeld(more, p)
      BY <1>2 DEF NumbersOfHeld
    <3>3. row.number \in NumbersOfHeld(more, p)
      BY <1>2 DEF NumbersOfHeld
    <3> QED
      BY <3>1, <3>2, <3>3 DEF NumbersOfHeld
  <2>4. NumbersOfHeld(versions, p) = 1 .. Cardinality(HeldBy(versions, p))
    BY DEF TablesSound, HeldAreNumbered
  <2>5. NumbersOfHeld(more, p) = 1 .. row.number
    <3>1. \A n \in Nat : (1 .. n) \cup {n + 1} = 1 .. n + 1
      OBVIOUS
    <3> QED
      BY <1>3, <2>3, <2>4, <3>1
  <2> QED
    BY <1>2, <2>1, <2>2, <2>5 DEF HeldAreNumbered
<1>5. NumbersDiffer(more)
  <2>1. \A u \in DOMAIN versions \ {v} : more[u].of = p => more[u].number # row.number
    BY <1>3 DEF HeldBy
  <2>2. NumbersDiffer(versions)
    BY DEF TablesSound
  <2> QED
    BY <2>1, <2>2 DEF NumbersDiffer
<1> QED
  BY <1>4, <1>5

LEMMA ParentMade ==
  ASSUME NEW parents, NEW versions, TablesSound(parents, versions), NEW p \in DOMAIN parents,
         parents[p] = Workflow!NoParent, NEW new, new.of # None, Workflow!NameIsFree(parents, new.name, new.of),
         NEW v \in DOMAIN versions, versions[v].of = None, NEW row, row.of = p, row.number = 1
  PROVE  TablesSound([parents EXCEPT ![p] = new], [versions EXCEPT ![v] = row])
<1> DEFINE made == [parents EXCEPT ![p] = new]
           more == [versions EXCEPT ![v] = row]
<1>1. DOMAIN made = DOMAIN parents /\ made[p] = new /\ \A q \in DOMAIN parents \ {p} : made[q] = parents[q]
  OBVIOUS
<1>2. DOMAIN more = DOMAIN versions /\ more[v] = row /\ \A u \in DOMAIN versions \ {v} : more[u] = versions[u]
  OBVIOUS
<1>3. Workflow!NoParent.of = None
  BY DEF Workflow!NoParent
<1> HIDE DEF made, more
<1>4. new # Workflow!NoParent
  BY <1>3
<1>5. Cardinality(HeldBy(versions, p)) = 0
  BY FS_EmptySet DEF TablesSound, HeldAreNumbered
<1>6. row.number = Cardinality(HeldBy(versions, p)) + 1
  BY <1>5
<1>7. HeldAreNumbered(made, more) /\ NumbersDiffer(more)
  BY <1>1, <1>2, <1>4, <1>6, HeldAdded
<1>8. Workflow!HaveOwnNames(made)
  BY <1>1 DEF TablesSound, Workflow!HaveOwnNames, Workflow!NameIsFree
<1>9. /\ None \notin DOMAIN made
      /\ \A q \in DOMAIN made : made[q] # Workflow!NoParent => made[q].of # None
      /\ \A u \in DOMAIN more : more[u].of \in DOMAIN made \cup {None}
  BY <1>1, <1>2 DEF TablesSound
<1> QED
  BY <1>7, <1>8, <1>9 DEF TablesSound, made, more

LEMMA VersionMade ==
  ASSUME NEW parents, NEW versions, TablesSound(parents, versions), NEW p \in DOMAIN parents,
         parents[p] # Workflow!NoParent,
         NEW v \in DOMAIN versions, versions[v].of = None, NEW row, row.of = p,
         row.number = Workflow!NextNumber(versions, p)
  PROVE  TablesSound(parents, [versions EXCEPT ![v] = row])
<1> DEFINE more == [versions EXCEPT ![v] = row]
<1>1. DOMAIN more = DOMAIN versions /\ more[v] = row /\ \A u \in DOMAIN versions \ {v} : more[u] = versions[u]
  OBVIOUS
<1> HIDE DEF more
<1>2. row.number = Cardinality(HeldBy(versions, p)) + 1
  BY NextHeld
<1>3. HeldAreNumbered(parents, more) /\ NumbersDiffer(more)
  BY <1>1, <1>2, HeldAdded
<1>4. \A u \in DOMAIN more : more[u].of \in DOMAIN parents \cup {None}
  BY <1>1 DEF TablesSound
<1> QED
  BY <1>3, <1>4 DEF TablesSound, more

LEMMA ParentUpdated ==
  ASSUME NEW parents, NEW versions, TablesSound(parents, versions), NEW p \in DOMAIN parents,
         parents[p] # Workflow!NoParent, NEW new, new.of = parents[p].of,
         new.name = parents[p].name \/ Workflow!Renamed(parents, p, new.name)
  PROVE  TablesSound([parents EXCEPT ![p] = new], versions)
<1> DEFINE made == [parents EXCEPT ![p] = new]
           without == [parents EXCEPT ![p] = Workflow!NoParent]
<1>1. DOMAIN made = DOMAIN parents /\ made[p] = new /\ \A q \in DOMAIN parents \ {p} : made[q] = parents[q]
  OBVIOUS
<1>2. DOMAIN without = DOMAIN parents /\ \A q \in DOMAIN parents \ {p} : without[q] = parents[q]
  OBVIOUS
<1>3. Workflow!Renamed(parents, p, new.name) => Workflow!NameIsFree(without, new.name, parents[p].of)
  BY DEF Workflow!Renamed
<1>4. Workflow!NoParent.of = None
  BY DEF Workflow!NoParent
<1> HIDE DEF made, without
<1>5. parents[p].of # None /\ new # Workflow!NoParent
  BY <1>4 DEF TablesSound
<1>6. HeldAreNumbered(made, versions)
  BY <1>1, <1>5 DEF TablesSound, HeldAreNumbered
<1>7. Workflow!HaveOwnNames(made)
  <2>1. new.name # parents[p].name =>
          \A q \in DOMAIN parents \ {p} : ~(parents[q].of = new.of /\ parents[q].name = new.name)
    BY <1>2, <1>3 DEF Workflow!NameIsFree
  <2>2. Workflow!HaveOwnNames(parents)
    BY DEF TablesSound
  <2> QED
    BY <1>1, <1>5, <2>1, <2>2 DEF Workflow!HaveOwnNames
<1>8. /\ None \notin DOMAIN made
      /\ \A q \in DOMAIN made : made[q] # Workflow!NoParent => made[q].of # None
      /\ \A u \in DOMAIN versions : versions[u].of \in DOMAIN made \cup {None}
  BY <1>1, <1>5 DEF TablesSound
<1> QED
  BY <1>6, <1>7, <1>8 DEF TablesSound, made

LEMMA HeldArchived ==
  ASSUME NEW parents, NEW versions, TablesSound(parents, versions), NEW v \in DOMAIN versions,
         NEW row, row.of = versions[v].of, row.number = versions[v].number
  PROVE  TablesSound(parents, [versions EXCEPT ![v] = row])
<1> DEFINE more == [versions EXCEPT ![v] = row]
<1>1. /\ DOMAIN more = DOMAIN versions
      /\ \A u \in DOMAIN versions : more[u].of = versions[u].of /\ more[u].number = versions[u].number
  OBVIOUS
<1> HIDE DEF more
<1>2. \A p : HeldBy(more, p) = HeldBy(versions, p)
  BY <1>1 DEF HeldBy
<1>3. \A p : NumbersOfHeld(more, p) = NumbersOfHeld(versions, p)
  <2>1. \A p : \A u \in HeldBy(versions, p) : more[u].number = versions[u].number
    BY <1>1 DEF HeldBy
  <2> QED
    BY <1>2, <2>1 DEF NumbersOfHeld
<1>4. HeldAreNumbered(parents, more)
  BY <1>2, <1>3 DEF TablesSound, HeldAreNumbered
<1>5. NumbersDiffer(more) /\ \A u \in DOMAIN more : more[u].of \in DOMAIN parents \cup {None}
  BY <1>1 DEF TablesSound, NumbersDiffer
<1> QED
  BY <1>4, <1>5 DEF TablesSound, more

LEMMA BoundedHasMax ==
  ASSUME NEW n \in Nat, NEW S, S \subseteq 0 .. n, S # {}
  PROVE  Workflow!Max(S) \in S /\ \A y \in S : Workflow!Max(S) >= y
<1> DEFINE R == OpToRel(<, Nat)
           T == {n - y : y \in S}
<1>1. IsWellFoundedOn(R, Nat)
  BY NatLessThanWellFounded
<1> HIDE DEF R
<1>2. \A y, z \in Nat : y < z => <<y, z>> \in R
  BY DEF OpToRel, R
<1>3. T \subseteq Nat /\ T # {}
  <2>1. \A y \in 0 .. n : n - y \in Nat
    OBVIOUS
  <2> QED
    BY <2>1
<1>4. PICK x \in T : \A y \in T : ~(<<y, x>> \in R)
  <2> HIDE DEF T
  <2> QED
    BY <1>1, <1>3, WFMin
<1>5. PICK m \in S : x = n - m
  OBVIOUS
<1>6. \A y \in S : m >= y
  <2>1. ASSUME NEW y \in S
        PROVE  m >= y
    <3>1. n - y \in T /\ n - y \in Nat /\ n - m \in Nat
      BY <1>3
    <3>2. ~(n - y < n - m)
      BY <1>2, <1>4, <1>5, <3>1
    <3> QED
      BY <3>2, y \in 0 .. n, m \in 0 .. n
  <2> QED
    BY <2>1
<1>7. \A x1 \in S : (\A y \in S : x1 >= y) => x1 = m
  <2>1. ASSUME NEW y \in S, \A z \in S : y >= z
        PROVE  y = m
    <3>1. y >= m /\ m >= y
      BY <1>6, <2>1
    <3> QED
      BY <3>1, y \in 0 .. n, m \in 0 .. n
  <2> QED
    BY <2>1
<1> QED
  BY <1>5, <1>6, <1>7 DEF Workflow!Max

Newest(versions, some) == {u \in some : versions[u].number = Workflow!Max({0} \cup {versions[c].number : c \in some})}

\* The newest version of a Profile for a WorkflowVersion is there and is one.
LEMMA NewestIsOne ==
  ASSUME NEW parents, NEW versions, TablesSound(parents, versions), NEW f \in DOMAIN parents,
         NEW some, some \subseteq HeldBy(versions, f)
  PROVE  /\ some = {} => Cardinality(Newest(versions, some)) = 0
         /\ some # {} => Cardinality(Newest(versions, some)) = 1
<1> DEFINE numbers == {versions[c].number : c \in some}
           newest == Workflow!Max({0} \cup numbers)
           found == {u \in some : versions[u].number = newest}
<1>1. PICK n \in Nat : \A v \in HeldBy(versions, f) : versions[v].number \in 1 .. n
  <2>1. NumbersOfHeld(versions, f) = 1 .. Cardinality(HeldBy(versions, f)) /\ Cardinality(HeldBy(versions, f)) \in Nat
    BY NextHeld DEF TablesSound, HeldAreNumbered
  <2> QED
    BY <2>1 DEF NumbersOfHeld
<1>2. CASE some = {}
  <2>1. found = {}
    BY <1>2
  <2> HIDE DEF found
  <2>2. Cardinality(found) = 0
    BY <2>1, FS_EmptySet
  <2> QED
    BY <1>2, <2>2 DEF found, Newest
<1>3. CASE some # {}
  <2>1. numbers \subseteq 1 .. n /\ numbers # {}
    BY <1>1, <1>3
  <2>2. newest \in {0} \cup numbers /\ \A y \in numbers : newest >= y
    <3> HIDE DEF numbers
    <3>1. {0} \cup numbers \subseteq 0 .. n
      BY <2>1
    <3> QED
      BY <3>1, BoundedHasMax
  <2>3. newest \in numbers
    <3> HIDE DEF numbers, newest
    <3>1. \A y \in 1 .. n : ~(0 >= y)
      OBVIOUS
    <3> QED
      BY <2>1, <2>2, <3>1
  <2> HIDE DEF newest
  <2>4. PICK u \in some : versions[u].number = newest
    BY <2>3
  <2>5. \A v \in some : versions[v].number = newest => v = u
    BY <2>4 DEF TablesSound, NumbersDiffer, HeldBy
  <2>6. found = {u}
    BY <2>4, <2>5
  <2> HIDE DEF found
  <2>7. Cardinality(found) = 1
    BY <2>6, FS_Singleton
  <2> QED
    BY <1>3, <2>7 DEF found, newest, Newest
<1>4. found = Newest(versions, some)
  BY DEF Newest
<1> QED
  BY <1>2, <1>3, <1>4

ImportCall == [next : {"none", "try", "parent", "version", "collision"}, kind : {"workflow", "profile"}, name : DOMAIN Names,
               target : WorkflowVersions \cup {None},
               parent : Workflow!ParentRow({Workflow!Project}) \cup Workflow!ParentRow(Workflows)]

\* A Profile is imported for a version that was there.
ImportIsAimed(q) ==
    q.kind = "profile" => q.target \in WorkflowVersions /\ workflowVersion[q.target].of # None

RowFits(row) ==
    row.of # None => /\ row.target \in WorkflowVersions
                     /\ workflowVersion[row.target].of = profile[row.of].of
                     /\ <<row.content, workflowVersion[row.target].content>> \in Fits

WorkflowTables ==
    /\ Workflow!TypeOK
    /\ TablesSound(workflow, workflowVersion)
    /\ TablesSound(profile, profileVersion)

WorkflowInvariant ==
    /\ WorkflowTables
    /\ \A u \in ProfileVersions : RowFits(profileVersion[u])
    /\ asking \in [Importers -> ImportCall]
    /\ \A c \in Importers : ImportIsAimed(asking[c])

WorkflowVersionRow == [of : Workflows \cup {None}, number : Nat, content : Contents \cup {None}, archived : BOOLEAN]
ProfileVersionRow == [of : Profiles \cup {None}, number : Nat, target : WorkflowVersions \cup {None},
                      content : Mappings \cup {None}, archived : BOOLEAN]

LEMMA WorkflowTypes ==
  ASSUME WorkflowInvariant
  PROVE  /\ workflow \in [Workflows -> Workflow!ParentRow({Workflow!Project})]
         /\ profile \in [Profiles -> Workflow!ParentRow(Workflows)]
         /\ workflowVersion \in [WorkflowVersions -> WorkflowVersionRow]
         /\ profileVersion \in [ProfileVersions -> ProfileVersionRow]
         /\ DOMAIN workflow = Workflows /\ DOMAIN profile = Profiles
         /\ DOMAIN workflowVersion = WorkflowVersions /\ DOMAIN profileVersion = ProfileVersions
BY DEF WorkflowInvariant, WorkflowTables, Workflow!TypeOK, WorkflowVersionRow, ProfileVersionRow

\* A step on the Workflows: what is there keeps its parent and its content.
LEMMA WorkflowSide ==
  ASSUME WorkflowInvariant, UNCHANGED <<profile, profileVersion>>,
         workflow' \in [Workflows -> Workflow!ParentRow({Workflow!Project})],
         workflowVersion' \in [WorkflowVersions -> WorkflowVersionRow],
         TablesSound(workflow', workflowVersion'),
         \A v \in WorkflowVersions : workflowVersion[v].of # None =>
            workflowVersion'[v].of = workflowVersion[v].of /\ workflowVersion'[v].content = workflowVersion[v].content,
         asking' \in [Importers -> ImportCall], \A c \in Importers : ImportIsAimed(asking'[c])
  PROVE  WorkflowInvariant'
<1>1. Workflow!TypeOK'
  BY WorkflowTypes DEF Workflow!TypeOK, WorkflowVersionRow, ProfileVersionRow
<1>2. WorkflowTables'
  BY <1>1 DEF WorkflowInvariant, WorkflowTables
<1>3. \A u \in ProfileVersions : RowFits(profileVersion[u])'
  <2>1. ASSUME NEW u \in ProfileVersions
        PROVE  RowFits(profileVersion[u])'
    <3>1. RowFits(profileVersion[u])
      BY DEF WorkflowInvariant
    <3>2. profileVersion[u].of # None => profile[profileVersion[u].of].of # None
      <4>1. profileVersion[u].of \in Profiles \cup {None}
        BY WorkflowTypes DEF ProfileVersionRow
      <4>2. ASSUME profileVersion[u].of # None
            PROVE  profile[profileVersion[u].of] # Workflow!NoParent
        <5>1. u \in HeldBy(profileVersion, profileVersion[u].of)
          BY WorkflowTypes DEF HeldBy
        <5> QED
          BY <4>1, <4>2, <5>1, WorkflowTypes DEF WorkflowInvariant, WorkflowTables, TablesSound, HeldAreNumbered
      <4> QED
        BY <4>1, <4>2, WorkflowTypes DEF WorkflowInvariant, WorkflowTables, TablesSound
    <3> QED
      BY <3>1, <3>2 DEF RowFits
  <2> QED
    BY <2>1
<1>4. \A c \in Importers : ImportIsAimed(asking[c])'
  BY DEF ImportIsAimed
<1> QED
  BY <1>2, <1>3, <1>4 DEF WorkflowInvariant

\* A step on the Profiles: what is there keeps its parent.
LEMMA ProfileSide ==
  ASSUME WorkflowInvariant, UNCHANGED <<workflow, workflowVersion>>,
         profile' \in [Profiles -> Workflow!ParentRow(Workflows)],
         profileVersion' \in [ProfileVersions -> ProfileVersionRow],
         TablesSound(profile', profileVersion'),
         \A f \in Profiles : profile[f] # Workflow!NoParent => profile'[f].of = profile[f].of,
         \A u \in ProfileVersions :
            \/ /\ profileVersion'[u].of = profileVersion[u].of /\ profileVersion'[u].target = profileVersion[u].target
               /\ profileVersion'[u].content = profileVersion[u].content
            \/ /\ profileVersion'[u].target \in WorkflowVersions
               /\ workflowVersion[profileVersion'[u].target].of = profile'[profileVersion'[u].of].of
               /\ <<profileVersion'[u].content, workflowVersion[profileVersion'[u].target].content>> \in Fits,
         asking' \in [Importers -> ImportCall], \A c \in Importers : ImportIsAimed(asking'[c])
  PROVE  WorkflowInvariant'
<1>1. Workflow!TypeOK'
  BY WorkflowTypes DEF Workflow!TypeOK, WorkflowVersionRow, ProfileVersionRow
<1>2. WorkflowTables'
  BY <1>1 DEF WorkflowInvariant, WorkflowTables
<1>3. \A u \in ProfileVersions : RowFits(profileVersion[u])'
  <2>1. ASSUME NEW u \in ProfileVersions
        PROVE  RowFits(profileVersion[u])'
    <3>1. RowFits(profileVersion[u])
      BY DEF WorkflowInvariant
    <3>2. profileVersion[u].of # None => profile'[profileVersion[u].of].of = profile[profileVersion[u].of].of
      <4>1. profileVersion[u].of \in Profiles \cup {None}
        BY WorkflowTypes DEF ProfileVersionRow
      <4>2. ASSUME profileVersion[u].of # None
            PROVE  profile[profileVersion[u].of] # Workflow!NoParent
        <5>1. u \in HeldBy(profileVersion, profileVersion[u].of)
          BY WorkflowTypes DEF HeldBy
        <5> QED
          BY <4>1, <4>2, <5>1, WorkflowTypes DEF WorkflowInvariant, WorkflowTables, TablesSound, HeldAreNumbered
      <4> QED
        BY <4>1, <4>2
    <3> QED
      BY <3>1, <3>2 DEF RowFits
  <2> QED
    BY <2>1
<1>4. \A c \in Importers : ImportIsAimed(asking[c])'
  BY DEF ImportIsAimed
<1> QED
  BY <1>2, <1>3, <1>4 DEF WorkflowInvariant

LEMMA WorkflowBlanks ==
  ASSUME Workflow!WorkflowAssumption
  PROVE  /\ \A scopes : Workflow!NoParent \in Workflow!ParentRow(scopes)
         /\ Workflow!NoParent.of = None /\ Workflow!NoParent.name = ""
         /\ Workflow!NoWorkflowVersion \in WorkflowVersionRow /\ Workflow!NoWorkflowVersion.of = None
         /\ Workflow!NoProfileVersion \in ProfileVersionRow /\ Workflow!NoProfileVersion.of = None
         /\ Workflow!Idle \in ImportCall /\ Workflow!Idle.next = "none" /\ Workflow!Idle.kind = "workflow"
         /\ Workflow!Project # None /\ None \notin Workflows /\ None \notin Profiles
<1>1. 1 \in DOMAIN Names
  <2>1. Names \in Seq(STRING) /\ Names # <<>>
    BY DEF Workflow!WorkflowAssumption
  <2>2. DOMAIN Names = 1 .. Len(Names) /\ Len(Names) \in Nat /\ Len(Names) # 0
    BY <2>1, EmptySeq, LenProperties
  <2> QED
    BY <2>2
<1>2. \A scopes : Workflow!NoParent \in Workflow!ParentRow(scopes)
  BY DEF Workflow!NoParent, Workflow!ParentRow
<1>3. Workflow!NoWorkflowVersion \in WorkflowVersionRow /\ Workflow!NoProfileVersion \in ProfileVersionRow
  BY DEF Workflow!NoWorkflowVersion, Workflow!NoProfileVersion, WorkflowVersionRow, ProfileVersionRow
<1>4. Workflow!Idle \in ImportCall
  BY <1>1, <1>2 DEF Workflow!Idle, ImportCall
<1>5. Workflow!Project # None /\ None \notin Workflows /\ None \notin Profiles
  BY DEF Workflow!WorkflowAssumption
<1> QED
  BY <1>2, <1>3, <1>4, <1>5 DEF Workflow!NoParent, Workflow!NoWorkflowVersion, Workflow!NoProfileVersion, Workflow!Idle

LEMMA ImportStays ==
  ASSUME WorkflowInvariant, asking' = asking
  PROVE  asking' \in [Importers -> ImportCall] /\ \A c \in Importers : ImportIsAimed(asking'[c])
BY DEF WorkflowInvariant

LEMMA GlobalImportMoves ==
  ASSUME WorkflowInvariant, NEW c \in Importers, NEW new \in ImportCall, ImportIsAimed(new), asking' = [asking EXCEPT ![c] = new]
  PROVE  asking' \in [Importers -> ImportCall] /\ \A d \in Importers : ImportIsAimed(asking'[d])
BY DEF WorkflowInvariant

LEMMA ImportOfClient ==
  ASSUME WorkflowInvariant, NEW c \in Importers
  PROVE  /\ asking[c] \in ImportCall /\ ImportIsAimed(asking[c]) /\ DOMAIN asking = Importers
         /\ asking[c].name \in DOMAIN Names /\ Names[asking[c].name] \in Workflow!AllNames
BY DEF WorkflowInvariant, ImportCall, Workflow!AllNames

LEMMA IdleIsAimed ==
  ASSUME Workflow!WorkflowAssumption
  PROVE  Workflow!Idle \in ImportCall /\ ImportIsAimed(Workflow!Idle)
BY WorkflowBlanks DEF ImportIsAimed

LEMMA WorkflowInserted ==
  ASSUME Workflow!WorkflowAssumption, WorkflowInvariant, NEW w \in Workflows, NEW v \in WorkflowVersions,
         NEW n \in Workflow!AllNames, NEW t \in Contents,
         ~Workflow!Conflict(workflow, workflowVersion, w, v, n, Workflow!Project), Workflow!InsertWorkflow(w, v, n, t),
         UNCHANGED <<profile, profileVersion>>,
         asking' \in [Importers -> ImportCall], \A c \in Importers : ImportIsAimed(asking'[c])
  PROVE  WorkflowInvariant'
<1> DEFINE new == [of |-> Workflow!Project, name |-> n, archived |-> FALSE]
           row == [of |-> w, number |-> 1, content |-> t, archived |-> FALSE]
<1>1. /\ workflow' = [workflow EXCEPT ![w] = new]
      /\ workflowVersion' = [workflowVersion EXCEPT ![v] = row]
  BY DEF Workflow!InsertWorkflow
<1>2. /\ workflow[w] = Workflow!NoParent /\ workflowVersion[v].of = None
      /\ Workflow!NameIsFree(workflow, n, Workflow!Project)
  BY DEF Workflow!Conflict
<1>3. /\ new \in Workflow!ParentRow({Workflow!Project}) /\ new.of = Workflow!Project /\ new.name = n
      /\ row \in WorkflowVersionRow /\ row.of = w /\ row.number = 1
  BY DEF Workflow!ParentRow, WorkflowVersionRow
<1> HIDE DEF new, row
<1>4. TablesSound(workflow', workflowVersion')
  <2>1. TablesSound(workflow, workflowVersion) /\ w \in DOMAIN workflow /\ v \in DOMAIN workflowVersion
    BY WorkflowTypes DEF WorkflowInvariant, WorkflowTables
  <2>2. new.of # None /\ Workflow!NameIsFree(workflow, new.name, new.of)
    BY <1>2, <1>3, WorkflowBlanks
  <2> QED
    BY <1>1, <1>2, <1>3, <2>1, <2>2, ParentMade
<1>5. /\ workflow' \in [Workflows -> Workflow!ParentRow({Workflow!Project})]
      /\ workflowVersion' \in [WorkflowVersions -> WorkflowVersionRow]
      /\ \A u \in WorkflowVersions : workflowVersion[u].of # None => workflowVersion'[u] = workflowVersion[u]
  BY <1>1, <1>2, <1>3, WorkflowTypes
<1> QED
  BY <1>4, <1>5, WorkflowSide

LEMMA WorkflowMade ==
  ASSUME Workflow!WorkflowAssumption, WorkflowInvariant, NEW w \in Workflows, NEW v \in WorkflowVersions, NEW t \in Contents,
         Workflow!CreateWorkflowVersion(w, v, t) \/ \E n \in Workflow!AllNames : Workflow!CreateWorkflow(w, v, n, t)
  PROVE  WorkflowInvariant'
<1>1. UNCHANGED <<profile, profileVersion, asking>>
  BY DEF Workflow!CreateWorkflowVersion, Workflow!CreateWorkflow
<1>2. asking' \in [Importers -> ImportCall] /\ \A c \in Importers : ImportIsAimed(asking'[c])
  BY <1>1, ImportStays
<1>3. CASE Workflow!CreateWorkflowVersion(w, v, t)
  <2> DEFINE row == [of |-> w, number |-> Workflow!NextNumber(workflowVersion, w), content |-> t, archived |-> FALSE]
  <2>1. /\ workflow[w] # Workflow!NoParent /\ workflowVersion[v].of = None /\ UNCHANGED workflow
        /\ workflowVersion' = [workflowVersion EXCEPT ![v] = row]
    BY <1>3 DEF Workflow!CreateWorkflowVersion
  <2>2. TablesSound(workflow, workflowVersion) /\ w \in DOMAIN workflow /\ v \in DOMAIN workflowVersion
    BY WorkflowTypes DEF WorkflowInvariant, WorkflowTables
  <2>3. Workflow!NextNumber(workflowVersion, w) \in Nat
    BY <2>2, NextHeld
  <2>4. row \in WorkflowVersionRow /\ row.of = w /\ row.number = Workflow!NextNumber(workflowVersion, w)
    BY <2>3 DEF WorkflowVersionRow
  <2> HIDE DEF row
  <2>5. TablesSound(workflow', workflowVersion')
    BY <2>1, <2>2, <2>4, VersionMade
  <2>6. /\ workflow' \in [Workflows -> Workflow!ParentRow({Workflow!Project})]
        /\ workflowVersion' \in [WorkflowVersions -> WorkflowVersionRow]
        /\ \A u \in WorkflowVersions : workflowVersion[u].of # None => workflowVersion'[u] = workflowVersion[u]
    BY <2>1, <2>4, WorkflowTypes
  <2> QED
    BY <1>1, <1>2, <2>5, <2>6, WorkflowSide
<1>4. ASSUME NEW n \in Workflow!AllNames, Workflow!CreateWorkflow(w, v, n, t)
      PROVE  WorkflowInvariant'
  BY <1>1, <1>2, <1>4, WorkflowInserted DEF Workflow!CreateWorkflow
<1> QED
  BY <1>3, <1>4

LEMMA ProfileInserted ==
  ASSUME Workflow!WorkflowAssumption, WorkflowInvariant, NEW f \in Profiles, NEW u \in ProfileVersions,
         NEW n \in Workflow!AllNames, NEW v \in WorkflowVersions, workflowVersion[v].of # None, NEW m \in Mappings,
         Workflow!Accepts(m, v), ~Workflow!Conflict(profile, profileVersion, f, u, n, workflowVersion[v].of),
         Workflow!InsertProfile(f, u, n, v, m), UNCHANGED <<workflow, workflowVersion>>,
         asking' \in [Importers -> ImportCall], \A c \in Importers : ImportIsAimed(asking'[c])
  PROVE  WorkflowInvariant'
<1> DEFINE new == [of |-> workflowVersion[v].of, name |-> n, archived |-> FALSE]
           row == [of |-> f, target |-> v, number |-> 1, content |-> m, archived |-> FALSE]
<1>1. /\ profile' = [profile EXCEPT ![f] = new]
      /\ profileVersion' = [profileVersion EXCEPT ![u] = row]
  BY DEF Workflow!InsertProfile
<1>2. /\ profile[f] = Workflow!NoParent /\ profileVersion[u].of = None
      /\ Workflow!NameIsFree(profile, n, workflowVersion[v].of)
  BY DEF Workflow!Conflict
<1>3. workflowVersion[v].of \in Workflows
  BY WorkflowTypes DEF WorkflowVersionRow
<1>4. /\ new \in Workflow!ParentRow(Workflows) /\ new.of = workflowVersion[v].of /\ new.name = n
      /\ row \in ProfileVersionRow /\ row.of = f /\ row.number = 1 /\ row.target = v /\ row.content = m
  BY <1>3 DEF Workflow!ParentRow, ProfileVersionRow
<1> HIDE DEF new, row
<1>5. TablesSound(profile', profileVersion')
  <2>1. TablesSound(profile, profileVersion) /\ f \in DOMAIN profile /\ u \in DOMAIN profileVersion
    BY WorkflowTypes DEF WorkflowInvariant, WorkflowTables
  <2>2. new.of # None /\ Workflow!NameIsFree(profile, new.name, new.of)
    BY <1>2, <1>4
  <2> QED
    BY <1>1, <1>2, <1>4, <2>1, <2>2, ParentMade
<1>6. /\ profile' \in [Profiles -> Workflow!ParentRow(Workflows)]
      /\ profileVersion' \in [ProfileVersions -> ProfileVersionRow]
      /\ \A g \in Profiles : profile[g] # Workflow!NoParent => profile'[g].of = profile[g].of
      /\ profile'[f] = new /\ profileVersion'[u] = row
      /\ \A x \in ProfileVersions \ {u} : profileVersion'[x] = profileVersion[x]
  BY <1>1, <1>2, <1>4, WorkflowTypes
<1>7. /\ profileVersion'[u].target \in WorkflowVersions
      /\ workflowVersion[profileVersion'[u].target].of = profile'[profileVersion'[u].of].of
      /\ <<profileVersion'[u].content, workflowVersion[profileVersion'[u].target].content>> \in Fits
  BY <1>4, <1>6 DEF Workflow!Accepts
<1> QED
  BY <1>5, <1>6, <1>7, ProfileSide

LEMMA ProfileMade ==
  ASSUME Workflow!WorkflowAssumption, WorkflowInvariant, NEW f \in Profiles, NEW u \in ProfileVersions,
         NEW v \in WorkflowVersions, NEW m \in Mappings,
         \/ Workflow!CreateProfileVersion(f, u, v, m)
         \/ \E n \in Workflow!AllNames, w \in Workflows : Workflow!CreateProfile(f, u, n, w, v, m)
  PROVE  WorkflowInvariant'
<1>1. UNCHANGED <<workflow, workflowVersion, asking>>
  BY DEF Workflow!CreateProfileVersion, Workflow!CreateProfile
<1>2. asking' \in [Importers -> ImportCall] /\ \A c \in Importers : ImportIsAimed(asking'[c])
  BY <1>1, ImportStays
<1>3. CASE Workflow!CreateProfileVersion(f, u, v, m)
  <2> DEFINE row == [of |-> f, target |-> v, number |-> Workflow!NextNumber(profileVersion, f), content |-> m, archived |-> FALSE]
  <2>1. /\ profile[f] # Workflow!NoParent /\ profileVersion[u].of = None /\ UNCHANGED profile
        /\ profileVersion' = [profileVersion EXCEPT ![u] = row]
        /\ workflowVersion[v].of = profile[f].of /\ <<m, workflowVersion[v].content>> \in Fits
    BY <1>3 DEF Workflow!CreateProfileVersion, Workflow!Targets, Workflow!Accepts
  <2>2. TablesSound(profile, profileVersion) /\ f \in DOMAIN profile /\ u \in DOMAIN profileVersion
    BY WorkflowTypes DEF WorkflowInvariant, WorkflowTables
  <2>3. Workflow!NextNumber(profileVersion, f) \in Nat
    BY <2>2, NextHeld
  <2>4. /\ row \in ProfileVersionRow /\ row.of = f /\ row.number = Workflow!NextNumber(profileVersion, f)
        /\ row.target = v /\ row.content = m
    BY <2>3 DEF ProfileVersionRow
  <2> HIDE DEF row
  <2>5. TablesSound(profile', profileVersion')
    BY <2>1, <2>2, <2>4, VersionMade
  <2>6. /\ profile' \in [Profiles -> Workflow!ParentRow(Workflows)]
        /\ profileVersion' \in [ProfileVersions -> ProfileVersionRow]
        /\ profileVersion'[u] = row /\ \A x \in ProfileVersions \ {u} : profileVersion'[x] = profileVersion[x]
    BY <2>1, <2>4, WorkflowTypes
  <2>7. /\ profileVersion'[u].target \in WorkflowVersions
        /\ workflowVersion[profileVersion'[u].target].of = profile'[profileVersion'[u].of].of
        /\ <<profileVersion'[u].content, workflowVersion[profileVersion'[u].target].content>> \in Fits
    BY <2>1, <2>4, <2>6
  <2> QED
    BY <1>1, <1>2, <2>1, <2>5, <2>6, <2>7, ProfileSide
<1>4. ASSUME NEW n \in Workflow!AllNames, NEW w \in Workflows, Workflow!CreateProfile(f, u, n, w, v, m)
      PROVE  WorkflowInvariant'
  <2>1. /\ workflowVersion[v].of = w /\ w # None /\ Workflow!Accepts(m, v) /\ Workflow!InsertProfile(f, u, n, v, m)
        /\ ~Workflow!Conflict(profile, profileVersion, f, u, n, w)
    BY <1>4, WorkflowBlanks DEF Workflow!CreateProfile, Workflow!Targets
  <2> QED
    BY <1>1, <1>2, <2>1, ProfileInserted
<1> QED
  BY <1>3, <1>4

LEMMA WorkflowUpdated ==
  ASSUME Workflow!WorkflowAssumption, WorkflowInvariant, NEW w \in Workflows,
         Workflow!ArchiveWorkflow(w) \/ \E n \in Workflow!AllNames : Workflow!UpdateWorkflow(w, n)
  PROVE  WorkflowInvariant'
<1>1. UNCHANGED <<workflowVersion, profile, profileVersion, asking>>
  BY DEF Workflow!ArchiveWorkflow, Workflow!UpdateWorkflow
<1>2. asking' \in [Importers -> ImportCall] /\ \A c \in Importers : ImportIsAimed(asking'[c])
  BY <1>1, ImportStays
<1>3. TablesSound(workflow, workflowVersion) /\ w \in DOMAIN workflow
      /\ workflow[w] \in Workflow!ParentRow({Workflow!Project})
  BY WorkflowTypes DEF WorkflowInvariant, WorkflowTables
<1>4. PICK new \in Workflow!ParentRow({Workflow!Project}) :
        /\ workflow' = [workflow EXCEPT ![w] = new] /\ new.of = workflow[w].of /\ workflow[w] # Workflow!NoParent
        /\ new.name = workflow[w].name \/ Workflow!Renamed(workflow, w, new.name)
  <2>1. CASE Workflow!ArchiveWorkflow(w)
    <3> DEFINE new == [workflow[w] EXCEPT !.archived = TRUE]
    <3>1. workflow' = [workflow EXCEPT ![w] = new] /\ workflow[w] # Workflow!NoParent
      BY <2>1 DEF Workflow!ArchiveWorkflow
    <3>2. new \in Workflow!ParentRow({Workflow!Project}) /\ new.of = workflow[w].of /\ new.name = workflow[w].name
      BY <1>3 DEF Workflow!ParentRow
    <3> QED
      BY <3>1, <3>2
  <2>2. ASSUME NEW n \in Workflow!AllNames, Workflow!UpdateWorkflow(w, n)
        PROVE  \E new \in Workflow!ParentRow({Workflow!Project}) :
                 /\ workflow' = [workflow EXCEPT ![w] = new] /\ new.of = workflow[w].of /\ workflow[w] # Workflow!NoParent
                 /\ new.name = workflow[w].name \/ Workflow!Renamed(workflow, w, new.name)
    <3> DEFINE new == [workflow[w] EXCEPT !.name = n]
    <3>1. workflow' = [workflow EXCEPT ![w] = new] /\ Workflow!Renamed(workflow, w, n) /\ workflow[w] # Workflow!NoParent
      BY <2>2 DEF Workflow!UpdateWorkflow, Workflow!Renamed
    <3>2. new \in Workflow!ParentRow({Workflow!Project}) /\ new.of = workflow[w].of /\ new.name = n
      BY <1>3 DEF Workflow!ParentRow
    <3> HIDE DEF new
    <3> QED
      BY <3>1, <3>2
  <2> QED
    BY <2>1, <2>2
<1>5. TablesSound(workflow', workflowVersion')
  BY <1>1, <1>3, <1>4, ParentUpdated
<1>6. workflow' \in [Workflows -> Workflow!ParentRow({Workflow!Project})]
      /\ workflowVersion' \in [WorkflowVersions -> WorkflowVersionRow]
  BY <1>1, <1>4, WorkflowTypes
<1> QED
  BY <1>1, <1>2, <1>5, <1>6, WorkflowSide

LEMMA ProfileUpdated ==
  ASSUME Workflow!WorkflowAssumption, WorkflowInvariant, NEW f \in Profiles,
         Workflow!ArchiveProfile(f) \/ \E n \in Workflow!AllNames : Workflow!UpdateProfile(f, n)
  PROVE  WorkflowInvariant'
<1>1. UNCHANGED <<workflow, workflowVersion, profileVersion, asking>>
  BY DEF Workflow!ArchiveProfile, Workflow!UpdateProfile
<1>2. asking' \in [Importers -> ImportCall] /\ \A c \in Importers : ImportIsAimed(asking'[c])
  BY <1>1, ImportStays
<1>3. TablesSound(profile, profileVersion) /\ f \in DOMAIN profile /\ profile[f] \in Workflow!ParentRow(Workflows)
  BY WorkflowTypes DEF WorkflowInvariant, WorkflowTables
<1>4. PICK new \in Workflow!ParentRow(Workflows) :
        /\ profile' = [profile EXCEPT ![f] = new] /\ new.of = profile[f].of /\ profile[f] # Workflow!NoParent
        /\ new.name = profile[f].name \/ Workflow!Renamed(profile, f, new.name)
  <2>1. CASE Workflow!ArchiveProfile(f)
    <3> DEFINE new == [profile[f] EXCEPT !.archived = TRUE]
    <3>1. profile' = [profile EXCEPT ![f] = new] /\ profile[f] # Workflow!NoParent
      BY <2>1 DEF Workflow!ArchiveProfile
    <3>2. new \in Workflow!ParentRow(Workflows) /\ new.of = profile[f].of /\ new.name = profile[f].name
      BY <1>3 DEF Workflow!ParentRow
    <3> QED
      BY <3>1, <3>2
  <2>2. ASSUME NEW n \in Workflow!AllNames, Workflow!UpdateProfile(f, n)
        PROVE  \E new \in Workflow!ParentRow(Workflows) :
                 /\ profile' = [profile EXCEPT ![f] = new] /\ new.of = profile[f].of /\ profile[f] # Workflow!NoParent
                 /\ new.name = profile[f].name \/ Workflow!Renamed(profile, f, new.name)
    <3> DEFINE new == [profile[f] EXCEPT !.name = n]
    <3>1. profile' = [profile EXCEPT ![f] = new] /\ Workflow!Renamed(profile, f, n) /\ profile[f] # Workflow!NoParent
      BY <2>2 DEF Workflow!UpdateProfile, Workflow!Renamed
    <3>2. new \in Workflow!ParentRow(Workflows) /\ new.of = profile[f].of /\ new.name = n
      BY <1>3 DEF Workflow!ParentRow
    <3> HIDE DEF new
    <3> QED
      BY <3>1, <3>2
  <2> QED
    BY <2>1, <2>2
<1>5. TablesSound(profile', profileVersion')
  BY <1>1, <1>3, <1>4, ParentUpdated
<1>6. /\ profile' \in [Profiles -> Workflow!ParentRow(Workflows)]
      /\ profileVersion' \in [ProfileVersions -> ProfileVersionRow]
      /\ \A g \in Profiles : profile'[g].of = profile[g].of
  BY <1>1, <1>4, WorkflowTypes
<1> QED
  BY <1>1, <1>2, <1>5, <1>6, ProfileSide

LEMMA VersionsOfLibraryArchived ==
  ASSUME Workflow!WorkflowAssumption, WorkflowInvariant,
         \/ \E v \in WorkflowVersions : Workflow!ArchiveWorkflowVersion(v)
         \/ \E u \in ProfileVersions : Workflow!ArchiveProfileVersion(u)
  PROVE  WorkflowInvariant'
<1>1. ASSUME NEW v \in WorkflowVersions, Workflow!ArchiveWorkflowVersion(v)
      PROVE  WorkflowInvariant'
  <2> DEFINE row == [workflowVersion[v] EXCEPT !.archived = TRUE]
  <2>1. workflowVersion' = [workflowVersion EXCEPT ![v] = row] /\ UNCHANGED <<workflow, profile, profileVersion, asking>>
    BY <1>1 DEF Workflow!ArchiveWorkflowVersion
  <2>2. workflowVersion[v] \in WorkflowVersionRow
    BY WorkflowTypes
  <2>3. /\ row \in WorkflowVersionRow /\ row.of = workflowVersion[v].of /\ row.number = workflowVersion[v].number
        /\ row.content = workflowVersion[v].content
    BY <2>2 DEF WorkflowVersionRow
  <2> HIDE DEF row
  <2>4. TablesSound(workflow', workflowVersion')
    BY <2>1, <2>3, HeldArchived, WorkflowTypes DEF WorkflowInvariant, WorkflowTables
  <2>5. /\ workflow' \in [Workflows -> Workflow!ParentRow({Workflow!Project})]
        /\ workflowVersion' \in [WorkflowVersions -> WorkflowVersionRow]
        /\ \A x \in WorkflowVersions :
             workflowVersion'[x].of = workflowVersion[x].of /\ workflowVersion'[x].content = workflowVersion[x].content
    BY <2>1, <2>3, WorkflowTypes
  <2> QED
    BY <2>1, <2>4, <2>5, ImportStays, WorkflowSide
<1>2. ASSUME NEW u \in ProfileVersions, Workflow!ArchiveProfileVersion(u)
      PROVE  WorkflowInvariant'
  <2> DEFINE row == [profileVersion[u] EXCEPT !.archived = TRUE]
  <2>1. profileVersion' = [profileVersion EXCEPT ![u] = row] /\ UNCHANGED <<workflow, workflowVersion, profile, asking>>
    BY <1>2 DEF Workflow!ArchiveProfileVersion
  <2>2. profileVersion[u] \in ProfileVersionRow
    BY WorkflowTypes
  <2>3. /\ row \in ProfileVersionRow /\ row.of = profileVersion[u].of /\ row.number = profileVersion[u].number
        /\ row.content = profileVersion[u].content /\ row.target = profileVersion[u].target
    BY <2>2 DEF ProfileVersionRow
  <2> HIDE DEF row
  <2>4. TablesSound(profile', profileVersion')
    BY <2>1, <2>3, HeldArchived, WorkflowTypes DEF WorkflowInvariant, WorkflowTables
  <2>5. /\ profile' \in [Profiles -> Workflow!ParentRow(Workflows)]
        /\ profileVersion' \in [ProfileVersions -> ProfileVersionRow]
        /\ \A x \in ProfileVersions : /\ profileVersion'[x].of = profileVersion[x].of
                                      /\ profileVersion'[x].target = profileVersion[x].target
                                      /\ profileVersion'[x].content = profileVersion[x].content
    BY <2>1, <2>3, WorkflowTypes
  <2> QED
    BY <2>1, <2>4, <2>5, ImportStays, ProfileSide
<1> QED
  BY <1>1, <1>2

LEMMA AskingOnly ==
  ASSUME WorkflowInvariant, UNCHANGED <<workflow, workflowVersion, profile, profileVersion>>,
         asking' \in [Importers -> ImportCall], \A c \in Importers : ImportIsAimed(asking'[c])
  PROVE  WorkflowInvariant'
BY WorkflowTypes, WorkflowSide DEF WorkflowInvariant, WorkflowTables

LEMMA ImportAsks ==
  ASSUME WorkflowInvariant, NEW c \in Importers,
         Workflow!ImportWorkflow(c) \/ \E v \in WorkflowVersions : Workflow!ImportProfile(c, v)
  PROVE  WorkflowInvariant'
<1>1. UNCHANGED <<workflow, workflowVersion, profile, profileVersion>>
  BY DEF Workflow!ImportWorkflow, Workflow!ImportProfile
<1> DEFINE tried == [asking EXCEPT ![c].next = "try"]
<1>2. /\ tried \in [Importers -> ImportCall] /\ tried[c].kind = asking[c].kind /\ tried[c].target = asking[c].target
      /\ \A d \in Importers \ {c} : tried[d] = asking[d]
  <2>1. asking \in [Importers -> ImportCall]
    BY DEF WorkflowInvariant
  <2>2. asking[c] \in ImportCall
    BY <2>1
  <2> DEFINE new == [asking[c] EXCEPT !.next = "try"]
  <2>3. new \in ImportCall /\ new.kind = asking[c].kind /\ new.target = asking[c].target
    BY <2>2 DEF ImportCall
  <2>4. tried = [asking EXCEPT ![c] = new]
    OBVIOUS
  <2> HIDE DEF new, tried
  <2> QED
    BY <2>1, <2>3, <2>4
<1>3. CASE Workflow!ImportWorkflow(c)
  <2>1. asking' = tried
    BY <1>3 DEF Workflow!ImportWorkflow
  <2> HIDE DEF tried
  <2>2. \A d \in Importers : ImportIsAimed(asking'[d])
    BY <1>2, <2>1, ImportOfClient DEF ImportIsAimed
  <2> QED
    BY <1>1, <1>2, <2>1, <2>2, AskingOnly
<1>4. ASSUME NEW v \in WorkflowVersions, Workflow!ImportProfile(c, v)
      PROVE  WorkflowInvariant'
  <2> DEFINE profiled == [tried EXCEPT ![c].kind = "profile"]
             aimed == [profiled EXCEPT ![c].target = v]
  <2>1. asking' = aimed /\ workflowVersion[v].of # None
    BY <1>4 DEF Workflow!ImportProfile
  <2>2. /\ profiled \in [Importers -> ImportCall] /\ profiled[c].kind = "profile"
        /\ \A d \in Importers \ {c} : profiled[d] = asking[d]
    <3> DEFINE new == [tried[c] EXCEPT !.kind = "profile"]
    <3>1. profiled = [tried EXCEPT ![c] = new]
      OBVIOUS
    <3>2. tried[c] \in ImportCall
      <4> HIDE DEF tried
      <4> QED
        BY <1>2
    <3> HIDE DEF tried
    <3>3. new \in ImportCall /\ new.kind = "profile"
      BY <3>2 DEF ImportCall
    <3> HIDE DEF new, profiled
    <3> QED
      BY <1>2, <3>1, <3>3
  <2>3. /\ aimed \in [Importers -> ImportCall] /\ aimed[c].target = v
        /\ \A d \in Importers \ {c} : aimed[d] = asking[d]
    <3> DEFINE new == [profiled[c] EXCEPT !.target = v]
    <3>1. aimed = [profiled EXCEPT ![c] = new]
      OBVIOUS
    <3>2. profiled[c] \in ImportCall
      <4> HIDE DEF profiled
      <4> QED
        BY <2>2
    <3> HIDE DEF profiled
    <3>3. new \in ImportCall /\ new.target = v
      BY <3>2 DEF ImportCall
    <3> HIDE DEF new, aimed
    <3> QED
      BY <2>2, <3>1, <3>3
  <2> HIDE DEF aimed
  <2>4. \A d \in Importers : ImportIsAimed(asking'[d])
    BY <2>1, <2>3, ImportOfClient DEF ImportIsAimed
  <2> QED
    BY <1>1, <2>1, <2>3, <2>4, AskingOnly
<1> QED
  BY <1>3, <1>4

\* What an import writes down before it goes on to read.
LEMMA ToParent ==
  ASSUME WorkflowInvariant, NEW c \in Importers, asking' = [asking EXCEPT ![c].next = "parent"]
  PROVE  asking' \in [Importers -> ImportCall] /\ \A d \in Importers : ImportIsAimed(asking'[d])
<1> DEFINE new == [asking[c] EXCEPT !.next = "parent"]
<1>1. new \in ImportCall /\ ImportIsAimed(new)
  BY ImportOfClient DEF ImportCall, ImportIsAimed
<1>2. asking' = [asking EXCEPT ![c] = new]
  BY ImportOfClient
<1> HIDE DEF new
<1> QED
  BY <1>1, <1>2, GlobalImportMoves

LEMMA ImportTries ==
  ASSUME Workflow!WorkflowAssumption, WorkflowInvariant, NEW c \in Importers,
         Workflow!TryWorkflow(c) \/ Workflow!TryProfile(c)
  PROVE  WorkflowInvariant'
<1> DEFINE n == Names[asking[c].name]
           v == asking[c].target
<1>1. n \in Workflow!AllNames /\ ImportIsAimed(asking[c])
  BY ImportOfClient
<1>2. /\ Import.workflow \in Workflows /\ Import.workflowVersion \in WorkflowVersions
      /\ Import.profile \in Profiles /\ Import.profileVersion \in ProfileVersions
      /\ Frozen.content \in Contents /\ Frozen.mapping \in Mappings
  BY DEF Workflow!WorkflowAssumption
<1>3. asking' = [asking EXCEPT ![c] = Workflow!Idle] =>
        asking' \in [Importers -> ImportCall] /\ \A d \in Importers : ImportIsAimed(asking'[d])
  BY IdleIsAimed, GlobalImportMoves
<1>4. asking' = [asking EXCEPT ![c].next = "parent"] =>
        asking' \in [Importers -> ImportCall] /\ \A d \in Importers : ImportIsAimed(asking'[d])
  BY ToParent
<1>5. CASE Workflow!TryWorkflow(c)
  <2>1. UNCHANGED <<profile, profileVersion>>
    BY <1>5 DEF Workflow!TryWorkflow
  <2>2. CASE /\ ~Workflow!Conflict(workflow, workflowVersion, Import.workflow, Import.workflowVersion, n, Workflow!Project)
             /\ Workflow!InsertWorkflow(Import.workflow, Import.workflowVersion, n, Frozen.content)
             /\ asking' = [asking EXCEPT ![c] = Workflow!Idle]
    <3> HIDE DEF n
    <3> QED
      BY <1>1, <1>2, <1>3, <2>1, <2>2, WorkflowInserted, Zenon
  <2>3. CASE asking' = [asking EXCEPT ![c].next = "parent"] /\ UNCHANGED <<workflow, workflowVersion>>
    BY <1>4, <2>1, <2>3, AskingOnly
  <2> QED
    BY <1>5, <2>2, <2>3, Zenon DEF Workflow!TryWorkflow
<1>6. CASE Workflow!TryProfile(c)
  <2>1. UNCHANGED <<workflow, workflowVersion>>
    BY <1>6 DEF Workflow!TryProfile
  <2>2. v \in WorkflowVersions /\ workflowVersion[v].of # None
    BY <1>1, <1>6 DEF Workflow!TryProfile, ImportIsAimed
  <2>3. CASE /\ Workflow!Accepts(Frozen.mapping, v)
             /\ ~Workflow!Conflict(profile, profileVersion, Import.profile, Import.profileVersion, n, workflowVersion[v].of)
             /\ Workflow!InsertProfile(Import.profile, Import.profileVersion, n, v, Frozen.mapping)
             /\ asking' = [asking EXCEPT ![c] = Workflow!Idle]
    <3> HIDE DEF n, v
    <3> QED
      BY <1>1, <1>2, <1>3, <2>1, <2>2, <2>3, ProfileInserted, Zenon
  <2>4. CASE /\ asking' = [asking EXCEPT ![c].next = "parent"] \/ asking' = [asking EXCEPT ![c] = Workflow!Idle]
             /\ UNCHANGED <<profile, profileVersion>>
    BY <1>3, <1>4, <2>1, <2>4, AskingOnly
  <2> QED
    BY <1>6, <2>3, <2>4, Zenon DEF Workflow!TryProfile
<1> QED
  BY <1>5, <1>6

LEMMA ImportReads ==
  ASSUME Workflow!WorkflowAssumption, WorkflowInvariant, NEW c \in Importers,
         Workflow!ReadParent(c) \/ Workflow!ReadVersion(c) \/ Workflow!Return(c)
  PROVE  WorkflowInvariant'
<1>1. UNCHANGED <<workflow, workflowVersion, profile, profileVersion>>
  BY DEF Workflow!ReadParent, Workflow!ReadVersion, Workflow!Return
<1>2. SUFFICES \E new \in ImportCall : ImportIsAimed(new) /\ asking' = [asking EXCEPT ![c] = new]
  BY <1>1, GlobalImportMoves, AskingOnly
<1>3. asking[c] \in ImportCall /\ ImportIsAimed(asking[c]) /\ c \in DOMAIN asking
  BY ImportOfClient
<1>4. CASE Workflow!ReadParent(c)
  <2> DEFINE parent == IF asking[c].kind = "workflow" THEN workflow[Import.workflow] ELSE profile[Import.profile]
             between == [asking[c] EXCEPT !.next = "version"]
             new == [between EXCEPT !.parent = parent]
  <2>1. parent \in Workflow!ParentRow({Workflow!Project}) \cup Workflow!ParentRow(Workflows)
    BY WorkflowTypes DEF Workflow!WorkflowAssumption
  <2>2. asking' = [asking EXCEPT ![c].next = "version", ![c].parent = parent]
    BY <1>4 DEF Workflow!ReadParent
  <2> HIDE DEF parent
  <2>3. between \in ImportCall /\ between.kind = asking[c].kind /\ between.target = asking[c].target
    BY <1>3 DEF ImportCall
  <2>4. asking' = [[asking EXCEPT ![c] = between] EXCEPT ![c] = [[asking EXCEPT ![c] = between][c] EXCEPT !.parent = parent]]
    BY <1>3, <2>2
  <2>5. [asking EXCEPT ![c] = between][c] = between
    BY <1>3
  <2>6. asking' = [[asking EXCEPT ![c] = between] EXCEPT ![c] = new]
    BY <2>4, <2>5
  <2> HIDE DEF between
  <2>7. new \in ImportCall /\ new.kind = asking[c].kind /\ new.target = asking[c].target
    BY <2>1, <2>3 DEF ImportCall
  <2> HIDE DEF new
  <2>8. asking' = [asking EXCEPT ![c] = new]
    BY <1>3, <2>6
  <2> QED
    BY <1>3, <2>7, <2>8 DEF ImportIsAimed
<1>5. CASE Workflow!ReadVersion(c)
  <2>1. PICK new : /\ asking' = [asking EXCEPT ![c] = new]
                   /\ \/ new = Workflow!NextName(c)
                      \/ new = [Workflow!Idle EXCEPT !.next = "none"] \/ new = [Workflow!Idle EXCEPT !.next = "collision"]
    BY <1>5 DEF Workflow!ReadVersion
  <2>2. CASE new = Workflow!NextName(c)
    <3>1. asking[c].name < Len(Names) => asking[c].name + 1 \in DOMAIN Names
      <4>1. Names \in Seq(STRING)
        BY DEF Workflow!WorkflowAssumption
      <4>2. DOMAIN Names = 1 .. Len(Names) /\ Len(Names) \in Nat
        BY <4>1, LenProperties
      <4>3. asking[c].name \in 1 .. Len(Names)
        BY <4>2, ImportOfClient
      <4> QED
        BY <4>2, <4>3
    <3> DEFINE trying == [asking[c] EXCEPT !.next = "try"]
               next == [trying EXCEPT !.name = asking[c].name + 1]
    <3>2. CASE asking[c].name < Len(Names) /\ new = [asking[c] EXCEPT !.next = "try", !.name = @ + 1]
      <4>1. new = next
        BY <1>3, <3>2 DEF ImportCall
      <4>2. next \in ImportCall /\ next.kind = asking[c].kind /\ next.target = asking[c].target
        BY <1>3, <3>1, <3>2 DEF ImportCall
      <4> QED
        BY <1>3, <2>1, <4>1, <4>2 DEF ImportIsAimed
    <3>3. CASE new = Workflow!Idle
      BY <2>1, <3>3, IdleIsAimed
    <3> QED
      BY <2>2, <3>2, <3>3 DEF Workflow!NextName
  <2>3. ASSUME NEW step \in {"none", "collision"}, new = [Workflow!Idle EXCEPT !.next = step]
        PROVE  new \in ImportCall /\ ImportIsAimed(new)
    BY <2>3, WorkflowBlanks DEF ImportCall, ImportIsAimed
  <2> QED
    BY <2>1, <2>2, <2>3
<1>6. CASE Workflow!Return(c)
  BY <1>6, IdleIsAimed DEF Workflow!Return
<1> QED
  BY <1>4, <1>5, <1>6

LEMMA WorkflowInitially ==
  ASSUME Workflow!WorkflowAssumption, Workflow!Init
  PROVE  WorkflowInvariant
<1>1. /\ workflow = [w \in Workflows |-> Workflow!NoParent]
      /\ workflowVersion = [v \in WorkflowVersions |-> Workflow!NoWorkflowVersion]
      /\ profile = [f \in Profiles |-> Workflow!NoParent]
      /\ profileVersion = [u \in ProfileVersions |-> Workflow!NoProfileVersion]
      /\ asking = [c \in Importers |-> Workflow!Idle]
  BY DEF Workflow!Init
<1>2. ASSUME NEW parents, NEW versions, None \notin DOMAIN parents,
             \A p \in DOMAIN parents : parents[p] = Workflow!NoParent, \A v \in DOMAIN versions : versions[v].of = None
      PROVE  TablesSound(parents, versions)
  <2>1. \A p \in DOMAIN parents : HeldBy(versions, p) = {}
    BY <1>2 DEF HeldBy
  <2>2. \A p \in DOMAIN parents : NumbersOfHeld(versions, p) = {}
    BY <2>1 DEF NumbersOfHeld
  <2>3. IsFiniteSet({}) /\ Cardinality({}) = 0
    BY FS_EmptySet
  <2>4. 1 .. 0 = {}
    OBVIOUS
  <2>5. HeldAreNumbered(parents, versions)
    BY <1>2, <2>1, <2>2, <2>3, <2>4 DEF HeldAreNumbered
  <2> QED
    BY <1>2, <2>5 DEF TablesSound, NumbersDiffer, Workflow!HaveOwnNames
<1>3. TablesSound(workflow, workflowVersion) /\ TablesSound(profile, profileVersion)
  <2>1. /\ DOMAIN workflow = Workflows /\ DOMAIN profile = Profiles
        /\ DOMAIN workflowVersion = WorkflowVersions /\ DOMAIN profileVersion = ProfileVersions
        /\ \A w \in Workflows : workflow[w] = Workflow!NoParent
        /\ \A f \in Profiles : profile[f] = Workflow!NoParent
        /\ \A v \in WorkflowVersions : workflowVersion[v].of = None
        /\ \A u \in ProfileVersions : profileVersion[u].of = None
    BY <1>1, WorkflowBlanks
  <2> QED
    BY <1>2, <2>1, WorkflowBlanks
<1>4. Workflow!TypeOK
  BY <1>1, WorkflowBlanks DEF Workflow!TypeOK, WorkflowVersionRow, ProfileVersionRow
<1>5. \A u \in ProfileVersions : RowFits(profileVersion[u])
  BY <1>1, WorkflowBlanks DEF RowFits
<1>6. asking \in [Importers -> ImportCall] /\ \A c \in Importers : ImportIsAimed(asking[c])
  BY <1>1, IdleIsAimed
<1> QED
  BY <1>3, <1>4, <1>5, <1>6 DEF WorkflowInvariant, WorkflowTables

LEMMA WorkflowInductive ==
  ASSUME Workflow!WorkflowAssumption, WorkflowInvariant, [Workflow!Next]_(Workflow!vars)
  PROVE  WorkflowInvariant'
<1>1. CASE UNCHANGED Workflow!vars
  BY <1>1, AskingOnly, ImportStays DEF Workflow!vars
<1>2. ASSUME NEW w \in Workflows, NEW v \in WorkflowVersions, NEW t \in Contents,
             Workflow!CreateWorkflowVersion(w, v, t) \/ \E n \in Workflow!AllNames : Workflow!CreateWorkflow(w, v, n, t)
      PROVE  WorkflowInvariant'
  BY <1>2, WorkflowMade
<1>3. ASSUME NEW f \in Profiles, NEW u \in ProfileVersions, NEW v \in WorkflowVersions, NEW m \in Mappings,
             \/ Workflow!CreateProfileVersion(f, u, v, m)
             \/ \E n \in Workflow!AllNames, w \in Workflows : Workflow!CreateProfile(f, u, n, w, v, m)
      PROVE  WorkflowInvariant'
  BY <1>3, ProfileMade
<1>4. ASSUME \/ \E w \in Workflows : Workflow!ArchiveWorkflow(w) \/ \E n \in Workflow!AllNames : Workflow!UpdateWorkflow(w, n)
             \/ \E f \in Profiles : Workflow!ArchiveProfile(f) \/ \E n \in Workflow!AllNames : Workflow!UpdateProfile(f, n)
             \/ \E v \in WorkflowVersions : Workflow!ArchiveWorkflowVersion(v)
             \/ \E u \in ProfileVersions : Workflow!ArchiveProfileVersion(u)
      PROVE  WorkflowInvariant'
  BY <1>4, WorkflowUpdated, ProfileUpdated, VersionsOfLibraryArchived
<1>5. ASSUME NEW c \in Importers,
             \/ Workflow!ImportWorkflow(c) \/ Workflow!TryWorkflow(c) \/ Workflow!TryProfile(c)
             \/ \E v \in WorkflowVersions : Workflow!ImportProfile(c, v)
             \/ Workflow!ReadParent(c) \/ Workflow!ReadVersion(c) \/ Workflow!Return(c)
      PROVE  WorkflowInvariant'
  BY <1>5, ImportAsks, ImportTries, ImportReads
<1> QED
  BY <1>1, <1>2, <1>3, <1>4, <1>5 DEF Workflow!Next

LEMMA WorkflowImplies ==
  ASSUME WorkflowInvariant
  PROVE  WorkflowsAreSound
<1>1. TablesSound(workflow, workflowVersion) /\ TablesSound(profile, profileVersion) /\ Workflow!TypeOK
  BY DEF WorkflowInvariant, WorkflowTables
<1>2. ASSUME NEW parents, NEW versions, TablesSound(parents, versions)
      PROVE  Workflow!AreNumbered(parents, versions) /\ Workflow!HaveOwnNames(parents)
  <2>1. \A p \in DOMAIN parents : /\ NumbersOfHeld(versions, p) = 1 .. Cardinality(HeldBy(versions, p))
                                  /\ HeldBy(versions, p) # {} <=> parents[p] # Workflow!NoParent
    BY <1>2 DEF TablesSound, HeldAreNumbered
  <2>2. \A p \in DOMAIN parents : NumbersOfHeld(versions, p) = 1 .. Workflow!Cardinality(HeldBy(versions, p))
    BY <2>1 DEF Workflow!Cardinality, Cardinality
  <2>3. Workflow!AreNumbered(parents, versions)
    BY <2>1, <2>2 DEF Workflow!AreNumbered, NumbersOfHeld, HeldBy
  <2> QED
    BY <1>2, <2>3 DEF TablesSound
<1>3. Workflow!ProfilesFitTheirTarget
  BY DEF Workflow!ProfilesFitTheirTarget, WorkflowInvariant, RowFits
<1>4. Workflow!CompatibleIsShown
  <2>1. ASSUME NEW f \in Profiles, NEW v \in WorkflowVersions
        PROVE  Cardinality(Workflow!LatestCompatible(f, v)) =
                 IF {u \in ProfileVersions : /\ profileVersion[u].of = f /\ profileVersion[u].target = v
                                             /\ ~profileVersion[u].archived} = {} THEN 0 ELSE 1
    <3> DEFINE some == {u \in ProfileVersions : /\ profileVersion[u].of = f /\ ~profileVersion[u].archived
                                                /\ profileVersion[u].target = v}
    <3>1. some = {u \in ProfileVersions : /\ profileVersion[u].of = f /\ profileVersion[u].target = v
                                          /\ ~profileVersion[u].archived}
      OBVIOUS
    <3>2. some \subseteq HeldBy(profileVersion, f) /\ f \in DOMAIN profile
      BY WorkflowTypes DEF HeldBy
    <3>3. Workflow!LatestCompatible(f, v) = Newest(profileVersion, some)
      BY DEF Workflow!LatestCompatible, Newest
    <3> HIDE DEF some
    <3>4. TablesSound(profile, profileVersion)
      BY <1>1
    <3>5. /\ some = {} => Cardinality(Workflow!LatestCompatible(f, v)) = 0
          /\ some # {} => Cardinality(Workflow!LatestCompatible(f, v)) = 1
      BY <3>2, <3>3, <3>4, NewestIsOne
    <3> QED
      BY <3>1, <3>5
  <2> QED
    BY <2>1 DEF Workflow!CompatibleIsShown, Workflow!Cardinality, Cardinality
<1> QED
  BY <1>1, <1>2, <1>3, <1>4 DEF WorkflowsAreSound, Workflow!WorkflowsAreSound

\* For any number of importers, Workflows and Profiles: versions are numbered
\* without a gap, names are unique, a Profile version fits the WorkflowVersion it
\* targets, and the newest compatible one is the one shown, whatever saves,
\* archivings and imports of frozen setups come between (db/workflows.py).
THEOREM WorkflowsStaySound ==
  ASSUME Workflow!WorkflowAssumption
  PROVE  Workflow!Spec => []WorkflowsAreSound
<1>1. Workflow!Init => WorkflowInvariant
  BY WorkflowInitially
<1>2. WorkflowInvariant /\ [Workflow!Next]_(Workflow!vars) => WorkflowInvariant'
  BY WorkflowInductive
<1>3. WorkflowInvariant => WorkflowsAreSound
  BY WorkflowImplies
<1> QED
  BY <1>1, <1>2, <1>3, PTL DEF Workflow!Spec


-----------------------------------------------------------------------------
\* The rows of the two libraries, as a function of the tables, so that a
\* command that writes several rows can be followed row by row.
OwnedBy(ver, f) == {v \in DOMAIN ver : ver[v].owner = f}
NumbersOfOwned(ver, f) == {ver[v].number : v \in OwnedBy(ver, f)}

\* The identities given out so far are 1 .. k.
IdsUpTo(fam, ver, k) ==
    /\ DOMAIN fam \cup DOMAIN ver = 1 .. k
    /\ DOMAIN fam \cap DOMAIN ver = {}

RowsRefer(fam, ver) ==
    /\ \A f \in DOMAIN fam : fam[f].name \in GlobalNames /\ fam[f].parent \in DOMAIN fam \cup {0}
    /\ \A v \in DOMAIN ver : /\ ver[v].owner \in DOMAIN fam /\ ver[v].number \in Nat
                             /\ ver[v].target \in DOMAIN ver \cup {0}

FamiliesAreNumbered(fam, ver) ==
    \A f \in DOMAIN fam : /\ IsFiniteSet(OwnedBy(ver, f))
                          /\ NumbersOfOwned(ver, f) = 1 .. Cardinality(OwnedBy(ver, f))

FitsIts(fam, ver, v) ==
    ver[v].target # 0 => /\ ver[ver[v].target].owner = fam[ver[v].owner].parent
                         /\ <<ver[v].content, ver[ver[v].target].content>> \in Fits

TargetsFit(fam, ver) == \A v \in DOMAIN ver : FitsIts(fam, ver, v)

FamilyNamesDiffer(fam) ==
    \A f, g \in DOMAIN fam :
        fam[f].scope = fam[g].scope /\ fam[f].parent = fam[g].parent /\ fam[f].name = fam[g].name => f = g

LibrariesSound(fam, ver, k) ==
    /\ k \in Nat
    /\ IdsUpTo(fam, ver, k)
    /\ RowsRefer(fam, ver)
    /\ FamiliesAreNumbered(fam, ver)
    /\ TargetsFit(fam, ver)
    /\ FamilyNamesDiffer(fam)

LEMMA NextTwo ==
  ASSUME NEW k \in Nat
  PROVE  /\ k + 1 \notin 1 .. k /\ k + 2 \notin 1 .. k /\ k + 1 # k + 2 /\ k + 1 # 0 /\ k + 2 # 0 /\ 0 \notin 1 .. k
         /\ 1 .. k + 1 = (1 .. k) \cup {k + 1} /\ 1 .. k + 2 = (1 .. k) \cup {k + 1} \cup {k + 2}
         /\ k + 1 \in Nat /\ k + 2 \in Nat
OBVIOUS

LEMMA OnlyOne ==
  ASSUME NEW x
  PROVE  IsFiniteSet({x}) /\ Cardinality({x}) = 1 /\ 1 .. 1 = {1}
BY FS_Singleton, FS_EmptySet, FS_AddElement

\* One more version of a family that is there.
LEMMA VersionAppended ==
  ASSUME NEW fam, NEW ver, NEW k, LibrariesSound(fam, ver, k), NEW f \in DOMAIN fam, NEW row,
         row.owner = f, row.number = Cardinality(OwnedBy(ver, f)) + 1, row.target \in DOMAIN ver \cup {0},
         row.target # 0 => /\ ver[row.target].owner = fam[f].parent
                           /\ <<row.content, ver[row.target].content>> \in Fits
  PROVE  LibrariesSound(fam, Global!Insert(ver, k + 1, row), k + 1)
<1> DEFINE more == Global!Insert(ver, k + 1, row)
<1>1. k \in Nat /\ k + 1 \notin DOMAIN ver /\ k + 1 \notin DOMAIN fam
  BY NextTwo DEF LibrariesSound, IdsUpTo
<1>2. /\ DOMAIN more = DOMAIN ver \cup {k + 1} /\ more[k + 1] = row
      /\ \A v \in DOMAIN ver : more[v] = ver[v]
  BY <1>1 DEF Global!Insert
<1> HIDE DEF more
<1>3. IdsUpTo(fam, more, k + 1)
  BY <1>1, <1>2, NextTwo DEF LibrariesSound, IdsUpTo
<1>4. /\ IsFiniteSet(OwnedBy(ver, f)) /\ NumbersOfOwned(ver, f) = 1 .. Cardinality(OwnedBy(ver, f))
      /\ Cardinality(OwnedBy(ver, f)) \in Nat
  BY FS_CardinalityType DEF LibrariesSound, FamiliesAreNumbered
<1>5. RowsRefer(fam, more)
  <2>1. row.number \in Nat
    BY <1>4
  <2> QED
    BY <1>2, <2>1 DEF LibrariesSound, RowsRefer
<1>6. FamiliesAreNumbered(fam, more)
  <2>1. ASSUME NEW g \in DOMAIN fam, g # f
        PROVE  IsFiniteSet(OwnedBy(more, g)) /\ NumbersOfOwned(more, g) = 1 .. Cardinality(OwnedBy(more, g))
    <3>1. OwnedBy(more, g) = OwnedBy(ver, g)
      BY <1>1, <1>2, <2>1 DEF OwnedBy
    <3>2. NumbersOfOwned(more, g) = NumbersOfOwned(ver, g)
      BY <1>2, <3>1 DEF NumbersOfOwned, OwnedBy
    <3> QED
      BY <3>1, <3>2 DEF LibrariesSound, FamiliesAreNumbered
  <2>2. OwnedBy(more, f) = OwnedBy(ver, f) \cup {k + 1} /\ k + 1 \notin OwnedBy(ver, f)
    BY <1>1, <1>2 DEF OwnedBy
  <2>3. IsFiniteSet(OwnedBy(more, f)) /\ Cardinality(OwnedBy(more, f)) = Cardinality(OwnedBy(ver, f)) + 1
    BY <1>4, <2>2, FS_AddElement
  <2>4. NumbersOfOwned(more, f) = NumbersOfOwned(ver, f) \cup {row.number}
    <3>1. \A v \in OwnedBy(ver, f) : more[v] = ver[v]
      BY <1>2 DEF OwnedBy
    <3>2. ASSUME NEW m \in NumbersOfOwned(more, f)
          PROVE  m \in NumbersOfOwned(ver, f) \cup {row.number}
      <4>1. PICK v \in OwnedBy(more, f) : m = more[v].number
        BY <3>2 DEF NumbersOfOwned
      <4>2. CASE v \in OwnedBy(ver, f)
        BY <3>1, <4>1, <4>2 DEF NumbersOfOwned
      <4> QED
        BY <1>2, <2>2, <4>1, <4>2
    <3>3. ASSUME NEW v \in OwnedBy(ver, f)
          PROVE  ver[v].number \in NumbersOfOwned(more, f)
      BY <2>2, <3>1 DEF NumbersOfOwned
    <3>4. row.number \in NumbersOfOwned(more, f)
      BY <1>2, <2>2 DEF NumbersOfOwned
    <3> QED
      BY <3>2, <3>3, <3>4 DEF NumbersOfOwned
  <2>5. NumbersOfOwned(more, f) = 1 .. Cardinality(OwnedBy(ver, f)) + 1
    BY <1>4, <2>4, NextTwo
  <2> QED
    BY <2>1, <2>3, <2>5 DEF FamiliesAreNumbered
<1>7. TargetsFit(fam, more)
  <2>1. ASSUME NEW v \in DOMAIN ver
        PROVE  FitsIts(fam, more, v)
    <3>1. FitsIts(fam, ver, v) /\ ver[v].target \in DOMAIN ver \cup {0}
      BY DEF LibrariesSound, TargetsFit, RowsRefer
    <3> QED
      BY <1>2, <3>1 DEF FitsIts
  <2>2. FitsIts(fam, more, k + 1)
    BY <1>2 DEF FitsIts
  <2> QED
    BY <1>2, <2>1, <2>2 DEF TargetsFit
<1> QED
  BY <1>1, <1>3, <1>5, <1>6, <1>7, NextTwo DEF LibrariesSound, more

\* A family with its first version.
LEMMA FamilyAdded ==
  ASSUME NEW fam, NEW ver, NEW k, LibrariesSound(fam, ver, k), NEW new, NEW row,
         new.name \in GlobalNames, new.parent \in DOMAIN fam \cup {0},
         \A g \in DOMAIN fam : fam[g].scope = new.scope /\ fam[g].parent = new.parent => fam[g].name # new.name,
         row.owner = k + 1, row.number = 1, row.target \in DOMAIN ver \cup {0},
         row.target # 0 => /\ ver[row.target].owner = new.parent
                           /\ <<row.content, ver[row.target].content>> \in Fits
  PROVE  LibrariesSound(Global!Insert(fam, k + 1, new), Global!Insert(ver, k + 2, row), k + 2)
<1> DEFINE more == Global!Insert(ver, k + 2, row)
           families == Global!Insert(fam, k + 1, new)
<1>1. k \in Nat /\ {k + 1, k + 2} \cap DOMAIN ver = {} /\ {k + 1, k + 2} \cap DOMAIN fam = {}
      /\ k + 1 # k + 2 /\ k + 1 # 0
  BY NextTwo DEF LibrariesSound, IdsUpTo
<1>2. /\ DOMAIN more = DOMAIN ver \cup {k + 2} /\ more[k + 2] = row
      /\ \A v \in DOMAIN ver : more[v] = ver[v]
  BY <1>1 DEF Global!Insert
<1>3. /\ DOMAIN families = DOMAIN fam \cup {k + 1} /\ families[k + 1] = new
      /\ \A f \in DOMAIN fam : families[f] = fam[f]
  BY <1>1 DEF Global!Insert
<1> HIDE DEF more, families
<1>4. IdsUpTo(families, more, k + 2)
  <2>1. DOMAIN families \cup DOMAIN more = (1 .. k) \cup {k + 1} \cup {k + 2}
    BY <1>2, <1>3 DEF LibrariesSound, IdsUpTo
  <2>2. DOMAIN families \cap DOMAIN more = {}
    BY <1>1, <1>2, <1>3 DEF LibrariesSound, IdsUpTo
  <2> QED
    BY <1>1, <2>1, <2>2, NextTwo DEF IdsUpTo
<1>5. RowsRefer(families, more)
  <2>1. \A f \in DOMAIN families : families[f].name \in GlobalNames /\ families[f].parent \in DOMAIN families \cup {0}
    BY <1>3 DEF LibrariesSound, RowsRefer
  <2>2. \A v \in DOMAIN more : /\ more[v].owner \in DOMAIN families /\ more[v].number \in Nat
                               /\ more[v].target \in DOMAIN more \cup {0}
    BY <1>2, <1>3 DEF LibrariesSound, RowsRefer
  <2> QED
    BY <2>1, <2>2 DEF RowsRefer
<1>6. FamiliesAreNumbered(families, more)
  <2>1. ASSUME NEW g \in DOMAIN fam
        PROVE  IsFiniteSet(OwnedBy(more, g)) /\ NumbersOfOwned(more, g) = 1 .. Cardinality(OwnedBy(more, g))
    <3>1. OwnedBy(more, g) = OwnedBy(ver, g)
      BY <1>1, <1>2 DEF OwnedBy
    <3>2. NumbersOfOwned(more, g) = NumbersOfOwned(ver, g)
      BY <1>2, <3>1 DEF NumbersOfOwned, OwnedBy
    <3> QED
      BY <3>1, <3>2 DEF LibrariesSound, FamiliesAreNumbered
  <2>2. OwnedBy(more, k + 1) = {k + 2}
    BY <1>1, <1>2 DEF OwnedBy, LibrariesSound, RowsRefer
  <2>3. NumbersOfOwned(more, k + 1) = {1}
    BY <1>2, <2>2 DEF NumbersOfOwned
  <2>4. IsFiniteSet(OwnedBy(more, k + 1)) /\ NumbersOfOwned(more, k + 1) = 1 .. Cardinality(OwnedBy(more, k + 1))
    BY <2>2, <2>3, OnlyOne
  <2> QED
    BY <1>3, <2>1, <2>4 DEF FamiliesAreNumbered
<1>7. TargetsFit(families, more)
  <2>1. ASSUME NEW v \in DOMAIN ver
        PROVE  FitsIts(families, more, v)
    <3>1. FitsIts(fam, ver, v) /\ ver[v].target \in DOMAIN ver \cup {0} /\ ver[v].owner \in DOMAIN fam
      BY DEF LibrariesSound, TargetsFit, RowsRefer
    <3> QED
      BY <1>2, <1>3, <3>1 DEF FitsIts
  <2>2. FitsIts(families, more, k + 2)
    BY <1>2, <1>3 DEF FitsIts
  <2> QED
    BY <1>2, <2>1, <2>2 DEF TargetsFit
<1>8. FamilyNamesDiffer(families)
  BY <1>1, <1>3 DEF LibrariesSound, FamilyNamesDiffer
<1> QED
  BY <1>1, <1>4, <1>5, <1>6, <1>7, <1>8, NextTwo DEF LibrariesSound, more, families

\* Another name for a family, or another archived flag.
LEMMA FamilyChanged ==
  ASSUME NEW fam, NEW ver, NEW k, LibrariesSound(fam, ver, k), NEW f \in DOMAIN fam, NEW new,
         new.scope = fam[f].scope, new.parent = fam[f].parent, new.name \in GlobalNames,
         \/ new.name = fam[f].name
         \/ \A g \in DOMAIN fam : fam[g].scope = new.scope /\ fam[g].parent = new.parent => fam[g].name # new.name
  PROVE  LibrariesSound([fam EXCEPT ![f] = new], ver, k)
<1> DEFINE families == [fam EXCEPT ![f] = new]
<1>1. DOMAIN families = DOMAIN fam /\ families[f] = new /\ \A g \in DOMAIN fam \ {f} : families[g] = fam[g]
  OBVIOUS
<1> HIDE DEF families
<1>2. \A g \in DOMAIN fam : families[g].scope = fam[g].scope /\ families[g].parent = fam[g].parent
  BY <1>1
<1>3. IdsUpTo(families, ver, k) /\ RowsRefer(families, ver)
  BY <1>1, <1>2 DEF LibrariesSound, IdsUpTo, RowsRefer
<1>4. FamiliesAreNumbered(families, ver)
  BY <1>1 DEF LibrariesSound, FamiliesAreNumbered
<1>5. TargetsFit(families, ver)
  <2>1. ASSUME NEW v \in DOMAIN ver
        PROVE  FitsIts(families, ver, v)
    <3>1. FitsIts(fam, ver, v) /\ ver[v].owner \in DOMAIN fam
      BY DEF LibrariesSound, TargetsFit, RowsRefer
    <3> QED
      BY <1>2, <3>1 DEF FitsIts
  <2> QED
    BY <2>1 DEF TargetsFit
<1>6. FamilyNamesDiffer(families)
  BY <1>1, <1>2 DEF LibrariesSound, FamilyNamesDiffer
<1> QED
  BY <1>3, <1>4, <1>5, <1>6 DEF LibrariesSound, families

LEMMA OwnVersionArchived ==
  ASSUME NEW fam, NEW ver, NEW k, LibrariesSound(fam, ver, k), NEW x \in DOMAIN ver, NEW archived
  PROVE  LibrariesSound(fam, [ver EXCEPT ![x].archived = archived], k)
<1> DEFINE more == [ver EXCEPT ![x].archived = archived]
<1>1. /\ DOMAIN more = DOMAIN ver
      /\ \A v \in DOMAIN ver : /\ more[v].owner = ver[v].owner /\ more[v].number = ver[v].number
                               /\ more[v].target = ver[v].target /\ more[v].content = ver[v].content
  OBVIOUS
<1> HIDE DEF more
<1>2. IdsUpTo(fam, more, k) /\ RowsRefer(fam, more)
  BY <1>1 DEF LibrariesSound, IdsUpTo, RowsRefer
<1>3. FamiliesAreNumbered(fam, more)
  <2>1. \A f : OwnedBy(more, f) = OwnedBy(ver, f)
    BY <1>1 DEF OwnedBy
  <2>2. \A f : NumbersOfOwned(more, f) = NumbersOfOwned(ver, f)
    BY <1>1, <2>1 DEF NumbersOfOwned, OwnedBy
  <2> QED
    BY <2>1, <2>2 DEF LibrariesSound, FamiliesAreNumbered
<1>4. TargetsFit(fam, more)
  <2>1. ASSUME NEW v \in DOMAIN ver
        PROVE  FitsIts(fam, more, v)
    <3>1. FitsIts(fam, ver, v) /\ ver[v].target \in DOMAIN ver \cup {0} /\ ver[v].owner \in DOMAIN fam
      BY DEF LibrariesSound, TargetsFit, RowsRefer
    <3> QED
      BY <1>1, <3>1 DEF FitsIts
  <2> QED
    BY <1>1, <2>1 DEF TargetsFit
<1> QED
  BY <1>2, <1>3, <1>4 DEF LibrariesSound, more

AnswersIn(table, receipts) ==
    {[table |-> table, id |-> r, command |-> receipts[r].command, response |-> receipts[r].response] : r \in DOMAIN receipts}

\* Every identity up to k was made by one command, which answers with it.
MadeUpTo(answers, k) ==
    /\ \A a \in answers : a.response.made \subseteq 1 .. k
    /\ \A x \in 1 .. k : \E a \in answers : /\ x \in a.response.made
                                           /\ \A b \in answers : x \in b.response.made => b = a

ImportStep == [step : {"load", "write"}, id : RequestIds, name : GlobalNames, expected : GlobalContents \cup {None}]

GlobalInvariant ==
    /\ \E k \in Nat : LibrariesSound(family, revision, k) /\ MadeUpTo(replies, k)
    /\ replies = AnswersIn("authoring", authored) \cup AnswersIn("copy", copied)
    /\ DOMAIN authored \cup DOMAIN copied \subseteq RequestIds
    /\ import \in [Clients -> ImportStep \cup {Global!Quiet}]

LEMMA ReceiptAdded ==
  ASSUME NEW table, NEW receipts, NEW r, r \notin DOMAIN receipts, NEW command, NEW response
  PROVE  AnswersIn(table, Global!Insert(receipts, r, [command |-> command, response |-> response]))
           = AnswersIn(table, receipts) \cup {[table |-> table, id |-> r, command |-> command, response |-> response]}
<1> DEFINE more == Global!Insert(receipts, r, [command |-> command, response |-> response])
           Answer(q) == [table |-> table, id |-> q, command |-> more[q].command, response |-> more[q].response]
<1>1. /\ DOMAIN more = DOMAIN receipts \cup {r}
      /\ more[r].command = command /\ more[r].response = response
      /\ \A q \in DOMAIN receipts : more[q] = receipts[q]
  BY DEF Global!Insert
<1> HIDE DEF more
<1>2. AnswersIn(table, more) = {Answer(q) : q \in DOMAIN receipts} \cup {Answer(r)}
  BY <1>1 DEF AnswersIn
<1>3. AnswersIn(table, receipts) = {Answer(q) : q \in DOMAIN receipts}
  BY <1>1 DEF AnswersIn
<1>4. Answer(r) = [table |-> table, id |-> r, command |-> command, response |-> response]
  BY <1>1
<1> QED
  BY <1>2, <1>3, <1>4 DEF more

LEMMA AnswerIsNew ==
  ASSUME NEW table, NEW other, table # other, NEW receipts, NEW others, NEW r, r \notin DOMAIN receipts,
         NEW command, NEW response
  PROVE  [table |-> table, id |-> r, command |-> command, response |-> response]
           \notin AnswersIn(table, receipts) \cup AnswersIn(other, others)
<1> DEFINE new == [table |-> table, id |-> r, command |-> command, response |-> response]
<1>1. new.table = table /\ new.id = r
  OBVIOUS
<1>2. \A a \in AnswersIn(table, receipts) : a.id \in DOMAIN receipts
  BY DEF AnswersIn
<1>3. \A a \in AnswersIn(other, others) : a.table = other
  BY DEF AnswersIn
<1> HIDE DEF new
<1>4. new \notin AnswersIn(table, receipts) \cup AnswersIn(other, others)
  BY <1>1, <1>2, <1>3
<1> QED
  BY <1>4 DEF new

LEMMA AnswerRepeated ==
  ASSUME NEW table, NEW receipts, NEW r, NEW command, Global!Answers(receipts, r, command)
  PROVE  [table |-> table, id |-> r, command |-> command, response |-> receipts[r].response] \in AnswersIn(table, receipts)
BY DEF Global!Answers, AnswersIn

LEMMA MoreMade ==
  ASSUME NEW answers, NEW k \in Nat, NEW m \in Nat, k <= m, MadeUpTo(answers, k),
         NEW new, new \notin answers, new.response.made = k + 1 .. m
  PROVE  MadeUpTo(answers \cup {new}, m)
<1>1. /\ 1 .. m = (1 .. k) \cup (k + 1 .. m) /\ (1 .. k) \cap (k + 1 .. m) = {}
  OBVIOUS
<1> DEFINE old == 1 .. k
           fresh == k + 1 .. m
           all == 1 .. m
<1> HIDE DEF old, fresh, all
<1>2. /\ all = old \cup fresh /\ old \cap fresh = {} /\ new.response.made = fresh
      /\ \A a \in answers : a.response.made \subseteq old
      /\ \A x \in old : \E a \in answers : x \in a.response.made /\ \A b \in answers : x \in b.response.made => b = a
  BY <1>1 DEF MadeUpTo, old, fresh, all
<1>3. \A a \in answers \cup {new} : a.response.made \subseteq all
  BY <1>2
<1>4. ASSUME NEW x \in old
      PROVE  \E a \in answers \cup {new} : x \in a.response.made /\ \A b \in answers \cup {new} : x \in b.response.made => b = a
  <2>1. PICK a \in answers : x \in a.response.made /\ \A b \in answers : x \in b.response.made => b = a
    BY <1>2
  <2>2. x \notin new.response.made
    BY <1>2
  <2> QED
    BY <2>1, <2>2
<1>5. ASSUME NEW x \in fresh
      PROVE  \E a \in answers \cup {new} : x \in a.response.made /\ \A b \in answers \cup {new} : x \in b.response.made => b = a
  <2>1. x \in new.response.made /\ \A b \in answers : x \notin b.response.made
    BY <1>2
  <2> QED
    BY <2>1
<1> QED
  BY <1>2, <1>3, <1>4, <1>5 DEF MadeUpTo, all

LEMMA NextIdentity ==
  ASSUME NEW k, LibrariesSound(family, revision, k)
  PROVE  Global!NextId = k + 1
<1>1. k \in Nat /\ DOMAIN family \cup DOMAIN revision = 1 .. k /\ DOMAIN family \cap DOMAIN revision = {}
  BY DEF LibrariesSound, IdsUpTo
<1>2. IsFiniteSet(1 .. k) /\ Cardinality(1 .. k) = k
  BY <1>1, FS_Interval
<1>3. IsFiniteSet(DOMAIN family) /\ IsFiniteSet(DOMAIN revision)
  BY <1>1, <1>2, FS_Subset
<1>4. Cardinality(DOMAIN family \cup DOMAIN revision)
        = Cardinality(DOMAIN family) + Cardinality(DOMAIN revision) - Cardinality(DOMAIN family \cap DOMAIN revision)
  BY <1>3, FS_Union
<1>5. Cardinality(DOMAIN family) \in Nat /\ Cardinality(DOMAIN revision) \in Nat
      /\ Cardinality(DOMAIN family \cap DOMAIN revision) = 0
  BY <1>1, <1>3, FS_CardinalityType, FS_EmptySet
<1>6. Global!NextId = Cardinality(DOMAIN family) + Cardinality(DOMAIN revision) + 1
  BY DEF Global!NextId, Global!Cardinality, Cardinality
<1>7. Cardinality(DOMAIN family \cup DOMAIN revision) = k
  BY <1>1, <1>2
<1> QED
  BY <1>1, <1>4, <1>5, <1>6, <1>7

LEMMA GlobalNextOfInterval ==
  ASSUME NEW n \in Nat
  PROVE  Global!Max({0} \cup 1 .. n) = n
<1> DEFINE S == {0} \cup 1 .. n
<1>1. n \in S /\ \A y \in S : n >= y
  OBVIOUS
<1>2. \A x \in S : (\A y \in S : x >= y) => x = n
  OBVIOUS
<1> HIDE DEF S
<1>3. Global!Max(S) = n
  BY <1>1, <1>2 DEF Global!Max
<1> QED
  BY <1>3 DEF S

LEMMA NextOfOwned ==
  ASSUME NEW k, LibrariesSound(family, revision, k), NEW f \in DOMAIN family
  PROVE  Global!NextNumber(f) = Cardinality(OwnedBy(revision, f)) + 1
<1>1. Global!VersionsOf(f) = OwnedBy(revision, f)
  BY DEF Global!VersionsOf, OwnedBy
<1>2. /\ NumbersOfOwned(revision, f) = 1 .. Cardinality(OwnedBy(revision, f))
      /\ Cardinality(OwnedBy(revision, f)) \in Nat
  BY FS_CardinalityType DEF LibrariesSound, FamiliesAreNumbered
<1>3. Global!NextNumber(f) = Global!Max({0} \cup NumbersOfOwned(revision, f)) + 1
  BY <1>1 DEF Global!NextNumber, NumbersOfOwned
<1> QED
  BY <1>2, <1>3, GlobalNextOfInterval

\* A command that is carried out: its rows are sound, its answer tells all of
\* them, and its receipt is written with them.
LEMMA Authored ==
  ASSUME GlobalInvariant, NEW r \in RequestIds, r \notin DOMAIN authored, NEW command, NEW response,
         Global!Author(r, command, response),
         NEW k \in Nat, MadeUpTo(replies, k), NEW m \in Nat, k <= m,
         LibrariesSound(family', revision', m), response.made = k + 1 .. m
  PROVE  GlobalInvariant'
<1> DEFINE new == [table |-> "authoring", id |-> r, command |-> command, response |-> response]
<1>1. /\ authored' = Global!Insert(authored, r, [command |-> command, response |-> response])
      /\ replies' = replies \cup {new} /\ UNCHANGED <<copied, there, import>>
  BY DEF Global!Author, Global!Answered
<1>2. new \notin replies
  BY AnswerIsNew DEF GlobalInvariant
<1>3. MadeUpTo(replies', m)
  <2>1. new.response = response
    OBVIOUS
  <2> HIDE DEF new
  <2> QED
    BY <1>1, <1>2, <2>1, MoreMade
<1>4. AnswersIn("authoring", authored') = AnswersIn("authoring", authored) \cup {new}
  BY <1>1, ReceiptAdded
<1>5. replies' = AnswersIn("authoring", authored') \cup AnswersIn("copy", copied')
  <2> HIDE DEF new
  <2> QED
    BY <1>1, <1>4 DEF GlobalInvariant
<1>6. DOMAIN authored' \cup DOMAIN copied' \subseteq RequestIds
  BY <1>1 DEF GlobalInvariant, Global!Insert
<1>7. import' \in [Clients -> ImportStep \cup {Global!Quiet}]
  BY <1>1 DEF GlobalInvariant
<1> QED
  BY <1>3, <1>5, <1>6, <1>7 DEF GlobalInvariant

LEMMA Copied ==
  ASSUME GlobalInvariant, NEW r \in RequestIds, r \notin DOMAIN copied, NEW command, NEW response,
         copied' = Global!Insert(copied, r, [command |-> command, response |-> response]),
         Global!Answered("copy", r, command, response), authored' = authored,
         import' \in [Clients -> ImportStep \cup {Global!Quiet}],
         NEW k \in Nat, MadeUpTo(replies, k), NEW m \in Nat, k <= m,
         LibrariesSound(family', revision', m), response.made = k + 1 .. m
  PROVE  GlobalInvariant'
<1> DEFINE new == [table |-> "copy", id |-> r, command |-> command, response |-> response]
<1>1. replies' = replies \cup {new}
  BY DEF Global!Answered
<1>2. new \notin replies
  <2>1. replies = AnswersIn("copy", copied) \cup AnswersIn("authoring", authored)
    BY DEF GlobalInvariant
  <2> QED
    BY <2>1, AnswerIsNew
<1>3. MadeUpTo(replies', m)
  <2>1. new.response = response
    OBVIOUS
  <2> HIDE DEF new
  <2> QED
    BY <1>1, <1>2, <2>1, MoreMade
<1>4. AnswersIn("copy", copied') = AnswersIn("copy", copied) \cup {new}
  BY ReceiptAdded
<1>5. replies' = AnswersIn("authoring", authored') \cup AnswersIn("copy", copied')
  <2> HIDE DEF new
  <2> QED
    BY <1>1, <1>4 DEF GlobalInvariant
<1>6. DOMAIN authored' \cup DOMAIN copied' \subseteq RequestIds
  BY DEF GlobalInvariant, Global!Insert
<1> QED
  BY <1>3, <1>5, <1>6 DEF GlobalInvariant

\* Steps that write no row and no receipt.
LEMMA NothingWritten ==
  ASSUME GlobalInvariant, UNCHANGED <<family, revision, authored, copied, replies>>,
         import' \in [Clients -> ImportStep \cup {Global!Quiet}]
  PROVE  GlobalInvariant'
BY DEF GlobalInvariant

LEMMA GlobalSound ==
  ASSUME GlobalInvariant
  PROVE  \E k \in Nat : LibrariesSound(family, revision, k) /\ MadeUpTo(replies, k) /\ Global!NextId = k + 1
BY NextIdentity DEF GlobalInvariant

LEMMA AllMade ==
  ASSUME NEW k \in Nat
  PROVE  /\ k \in Nat /\ k <= k + 1 /\ k <= k + 2 /\ k <= k + 4 /\ k <= k /\ k + 1 \in Nat /\ k + 2 \in Nat /\ k + 4 \in Nat
         /\ {} = k + 1 .. k /\ {k + 1} = k + 1 .. k + 1 /\ {k + 1, k + 2} = k + 1 .. k + 2
         /\ (k + 1) + 1 = k + 2 /\ (k + 1) + 2 = k + 3 /\ (k + 1) + 3 = k + 4 /\ (k + 2) + 1 = k + 3 /\ (k + 2) + 2 = k + 4
OBVIOUS

LEMMA WorkflowCreated ==
  ASSUME GlobalInvariant, NEW r \in RequestIds, NEW n \in GlobalNames, NEW t, Global!CreateWorkflow(r, n, t)
  PROVE  GlobalInvariant'
<1>1. PICK k \in Nat : LibrariesSound(family, revision, k) /\ MadeUpTo(replies, k) /\ Global!NextId = k + 1
  BY GlobalSound
<1> DEFINE new == Global!Family("global", 0, n)
           row == Global!Version(k + 1, 1, t, 0)
           response == [made |-> {k + 1, k + 2}, row |-> new]
<1>2. /\ r \notin DOMAIN authored /\ Global!NameIsFree("global", 0, n)
      /\ family' = Global!Insert(family, k + 1, new)
      /\ revision' = Global!Insert(revision, (k + 1) + 1, row)
      /\ Global!Author(r, <<"workflow", n, t>>, [made |-> {k + 1, (k + 1) + 1}, row |-> new])
  BY <1>1, Zenon DEF Global!CreateWorkflow, Global!Nobody
<1>3. revision' = Global!Insert(revision, k + 2, row) /\ Global!Author(r, <<"workflow", n, t>>, response)
  BY <1>2, AllMade, Zenon
<1>4. /\ new.scope = "global" /\ new.parent = 0 /\ new.name = n
      /\ row.owner = k + 1 /\ row.number = 1 /\ row.target = 0
      /\ response.made = {k + 1, k + 2}
  BY DEF Global!Family, Global!Version
<1>5. \A g \in DOMAIN family : family[g].scope = new.scope /\ family[g].parent = new.parent => family[g].name # new.name
  BY <1>2, <1>4 DEF Global!NameIsFree
<1> HIDE DEF new, row, response
<1>6. LibrariesSound(family', revision', k + 2)
  <2>1. /\ new.name \in GlobalNames /\ new.parent \in DOMAIN family \cup {0} /\ row.target \in DOMAIN revision \cup {0}
        /\ row.target = 0
    BY <1>4
  <2>2. LibrariesSound(Global!Insert(family, k + 1, new), Global!Insert(revision, k + 2, row), k + 2)
    BY <1>1, <1>4, <1>5, <2>1, FamilyAdded, Zenon
  <2> QED
    BY <1>2, <1>3, <2>2, Zenon
<1>7. k <= k + 2 /\ k + 2 \in Nat /\ response.made = k + 1 .. k + 2
  BY <1>4, AllMade
<1> QED
  BY <1>1, <1>2, <1>3, <1>6, <1>7, Authored, Zenon

LEMMA WorkflowAppended ==
  ASSUME GlobalInvariant, NEW r \in RequestIds, NEW f \in DOMAIN family, NEW t, Global!AppendWorkflow(r, f, t)
  PROVE  GlobalInvariant'
<1>1. PICK k \in Nat : LibrariesSound(family, revision, k) /\ MadeUpTo(replies, k) /\ Global!NextId = k + 1
  BY GlobalSound
<1> DEFINE row == Global!Version(f, Global!NextNumber(f), t, 0)
           response == [made |-> {k + 1}, row |-> family[f]]
<1>2. /\ r \notin DOMAIN authored /\ UNCHANGED family
      /\ revision' = Global!Insert(revision, k + 1, row)
      /\ Global!Author(r, <<"version", f, t>>, response)
  BY <1>1 DEF Global!AppendWorkflow, Global!Nobody
<1>3. row.owner = f /\ row.number = Cardinality(OwnedBy(revision, f)) + 1 /\ row.target = 0
      /\ response.made = {k + 1}
  BY <1>1, NextOfOwned DEF Global!Version
<1> HIDE DEF row, response
<1>4. LibrariesSound(family', revision', k + 1)
  BY <1>1, <1>2, <1>3, VersionAppended
<1>5. k <= k + 1 /\ k + 1 \in Nat /\ response.made = k + 1 .. k + 1
  BY <1>3, AllMade
<1> QED
  BY <1>1, <1>2, <1>4, <1>5, Authored, Zenon

LEMMA ProfileCreated ==
  ASSUME GlobalInvariant, NEW r \in RequestIds, NEW w \in DOMAIN family, NEW v \in DOMAIN revision, NEW n \in GlobalNames,
         NEW t, Global!CreateProfile(r, w, v, n, t)
  PROVE  GlobalInvariant'
<1>1. PICK k \in Nat : LibrariesSound(family, revision, k) /\ MadeUpTo(replies, k) /\ Global!NextId = k + 1
  BY GlobalSound
<1> DEFINE new == Global!Family("global", w, n)
           row == Global!Version(k + 1, 1, t, v)
           response == [made |-> {k + 1, k + 2}, row |-> new]
<1>2. /\ r \notin DOMAIN authored /\ Global!NameIsFree("global", w, n) /\ Global!MayTarget(w, v, t)
      /\ family' = Global!Insert(family, k + 1, new)
      /\ revision' = Global!Insert(revision, (k + 1) + 1, row)
      /\ Global!Author(r, <<"profile", w, v, n, t>>, [made |-> {k + 1, (k + 1) + 1}, row |-> new])
  BY <1>1, Zenon DEF Global!CreateProfile
<1>3. revision' = Global!Insert(revision, k + 2, row) /\ Global!Author(r, <<"profile", w, v, n, t>>, response)
  BY <1>2, AllMade, Zenon
<1>4. /\ new.scope = "global" /\ new.parent = w /\ new.name = n
      /\ row.owner = k + 1 /\ row.number = 1 /\ row.target = v /\ row.content = t
      /\ response.made = {k + 1, k + 2}
  BY DEF Global!Family, Global!Version
<1>5. \A g \in DOMAIN family : family[g].scope = new.scope /\ family[g].parent = new.parent => family[g].name # new.name
  BY <1>2, <1>4 DEF Global!NameIsFree
<1>6. revision[v].owner = w /\ <<t, revision[v].content>> \in Fits
  BY <1>2 DEF Global!MayTarget, Global!VersionsOf
<1> HIDE DEF new, row, response
<1>7. LibrariesSound(family', revision', k + 2)
  <2>1. /\ new.name \in GlobalNames /\ new.parent \in DOMAIN family \cup {0} /\ row.target \in DOMAIN revision \cup {0}
        /\ revision[row.target].owner = new.parent /\ <<row.content, revision[row.target].content>> \in Fits
    BY <1>4, <1>6
  <2>2. LibrariesSound(Global!Insert(family, k + 1, new), Global!Insert(revision, k + 2, row), k + 2)
    BY <1>1, <1>4, <1>5, <2>1, FamilyAdded, Zenon
  <2> QED
    BY <1>2, <1>3, <2>2, Zenon
<1>8. k <= k + 2 /\ k + 2 \in Nat /\ response.made = k + 1 .. k + 2
  BY <1>4, AllMade
<1> QED
  BY <1>1, <1>2, <1>3, <1>7, <1>8, Authored, Zenon

LEMMA ProfileAppended ==
  ASSUME GlobalInvariant, NEW r \in RequestIds, NEW f \in DOMAIN family, NEW v \in DOMAIN revision, NEW t,
         Global!AppendProfile(r, f, v, t)
  PROVE  GlobalInvariant'
<1>1. PICK k \in Nat : LibrariesSound(family, revision, k) /\ MadeUpTo(replies, k) /\ Global!NextId = k + 1
  BY GlobalSound
<1> DEFINE row == Global!Version(f, Global!NextNumber(f), t, v)
           response == [made |-> {k + 1}, row |-> family[f]]
<1>2. /\ r \notin DOMAIN authored /\ UNCHANGED family
      /\ revision' = Global!Insert(revision, k + 1, row)
      /\ Global!Author(r, <<"profile_version", f, v, t>>, response)
      /\ Global!MayTarget(family[f].parent, v, t)
  BY <1>1 DEF Global!AppendProfile
<1>3. row.owner = f /\ row.number = Cardinality(OwnedBy(revision, f)) + 1 /\ row.target = v /\ row.content = t
      /\ response.made = {k + 1}
  BY <1>1, NextOfOwned DEF Global!Version
<1>4. revision[v].owner = family[f].parent /\ <<t, revision[v].content>> \in Fits
  BY <1>2 DEF Global!MayTarget, Global!VersionsOf
<1> HIDE DEF row, response
<1>5. LibrariesSound(family', revision', k + 1)
  BY <1>1, <1>2, <1>3, <1>4, VersionAppended
<1>6. k <= k + 1 /\ k + 1 \in Nat /\ response.made = k + 1 .. k + 1
  BY <1>3, AllMade
<1> QED
  BY <1>1, <1>2, <1>5, <1>6, Authored, Zenon

LEMMA MetadataUpdated ==
  ASSUME GlobalInvariant, NEW r \in RequestIds, NEW f \in DOMAIN family, NEW n \in GlobalNames, Global!UpdateMetadata(r, f, n)
  PROVE  GlobalInvariant'
<1>1. PICK k \in Nat : LibrariesSound(family, revision, k) /\ MadeUpTo(replies, k) /\ Global!NextId = k + 1
  BY GlobalSound
<1> DEFINE new == [family[f] EXCEPT !.name = n]
           response == [made |-> {}, row |-> new]
<1>2. /\ r \notin DOMAIN authored /\ UNCHANGED revision /\ family[f].scope = "global"
      /\ family[f].name = n \/ Global!NameIsFree("global", family[f].parent, n)
      /\ family' = [family EXCEPT ![f] = new]
      /\ Global!Author(r, <<"metadata", f, n>>, response)
  BY DEF Global!UpdateMetadata
<1>3. new.scope = family[f].scope /\ new.parent = family[f].parent /\ (new.name = n \/ new.name = family[f].name)
      /\ response.made = {}
  OBVIOUS
<1> HIDE DEF new, response
<1>4. \/ new.name = family[f].name
      \/ \A g \in DOMAIN family : family[g].scope = new.scope /\ family[g].parent = new.parent => family[g].name # new.name
  BY <1>2, <1>3 DEF Global!NameIsFree
<1>5. new.name \in GlobalNames
  BY <1>1, <1>3 DEF LibrariesSound, RowsRefer
<1>6. LibrariesSound(family', revision', k)
  BY <1>1, <1>2, <1>3, <1>4, <1>5, FamilyChanged
<1>7. k <= k /\ response.made = k + 1 .. k
  BY <1>3, AllMade
<1> QED
  BY <1>1, <1>2, <1>6, <1>7, Authored, Zenon

LEMMA ArchivedSet ==
  ASSUME GlobalInvariant, NEW r \in RequestIds, NEW x, NEW archived, Global!SetArchived(r, x, archived)
  PROVE  GlobalInvariant'
<1>1. PICK k \in Nat : LibrariesSound(family, revision, k) /\ MadeUpTo(replies, k) /\ Global!NextId = k + 1
  BY GlobalSound
<1>2. r \notin DOMAIN authored
  BY DEF Global!SetArchived
<1>3. k <= k /\ \A row : [made |-> {}, row |-> row].made = k + 1 .. k
  BY AllMade
<1>4. CASE /\ x \in DOMAIN family /\ family' = [family EXCEPT ![x].archived = archived]
           /\ Global!Author(r, <<"archive", x, archived>>, [made |-> {}, row |-> family'[x]])
           /\ UNCHANGED revision
  <2> DEFINE new == [family[x] EXCEPT !.archived = archived]
  <2>1. /\ family' = [family EXCEPT ![x] = new]
        /\ new.scope = family[x].scope /\ new.parent = family[x].parent /\ new.name = family[x].name
    BY <1>4
  <2> HIDE DEF new
  <2>2. new.name \in GlobalNames
    BY <1>1, <1>4, <2>1 DEF LibrariesSound, RowsRefer
  <2>3. LibrariesSound([family EXCEPT ![x] = new], revision, k)
    BY <1>1, <1>4, <2>1, <2>2, FamilyChanged, Zenon
  <2>4. LibrariesSound(family', revision', k)
    BY <1>4, <2>1, <2>3
  <2> QED
    BY <1>1, <1>2, <1>3, <1>4, <2>4, Authored, Zenon
<1>5. CASE /\ x \in DOMAIN revision /\ revision' = [revision EXCEPT ![x].archived = archived]
           /\ Global!Author(r, <<"archive", x, archived>>, [made |-> {}, row |-> revision'[x]])
           /\ UNCHANGED family
  <2>1. LibrariesSound(family', revision', k)
    BY <1>1, <1>5, OwnVersionArchived
  <2> QED
    BY <1>1, <1>2, <1>3, <1>5, <2>1, Authored, Zenon
<1> QED
  BY <1>4, <1>5 DEF Global!SetArchived

\* The rows of a copy: a Workflow with its version, and at most one Profile
\* with its version, all of them or none.
LEMMA CopyWritten ==
  ASSUME GlobalInvariant, NEW r \in RequestIds, r \notin DOMAIN copied, NEW n \in GlobalNames, NEW scope, NEW content,
         NEW mappings, mappings # {} => <<CHOOSE m \in mappings : TRUE, content>> \in Fits,
         NEW command, Global!WriteCopy(r, command, scope, n, content, mappings), authored' = authored,
         import' \in [Clients -> ImportStep \cup {Global!Quiet}]
  PROVE  GlobalInvariant'
<1>1. PICK k \in Nat : LibrariesSound(family, revision, k) /\ MadeUpTo(replies, k) /\ Global!NextId = k + 1
  BY GlobalSound
<1> DEFINE new == Global!Family(scope, 0, n)
           row == Global!Version(k + 1, 1, content, 0)
           families == Global!Insert(family, k + 1, new)
           versions == Global!Insert(revision, k + 2, row)
           mapping == CHOOSE m \in mappings : TRUE
           own == Global!Family(scope, k + 1, n)
           fitting == Global!Version(k + 3, 1, mapping, k + 2)
<1>2. Global!NameIsFree(scope, 0, n)
  BY Zenon DEF Global!WriteCopy, Global!Nobody
<1>3. /\ new.scope = scope /\ new.parent = 0 /\ new.name = n
      /\ row.owner = k + 1 /\ row.number = 1 /\ row.target = 0 /\ row.content = content
      /\ own.scope = scope /\ own.parent = k + 1 /\ own.name = n
      /\ fitting.owner = k + 3 /\ fitting.number = 1 /\ fitting.target = k + 2 /\ fitting.content = mapping
  BY DEF Global!Family, Global!Version
<1>4. LibrariesSound(families, versions, k + 2)
  <2>1. \A g \in DOMAIN family : family[g].scope = new.scope /\ family[g].parent = new.parent => family[g].name # new.name
    BY <1>2, <1>3 DEF Global!NameIsFree
  <2>2. /\ new.name \in GlobalNames /\ new.parent \in DOMAIN family \cup {0} /\ row.target \in DOMAIN revision \cup {0}
        /\ row.target = 0
    BY <1>3
  <2> HIDE DEF new, row
  <2> QED
    BY <1>1, <1>3, <2>1, <2>2, FamilyAdded, Zenon
<1>5. CASE mappings = {}
  <2>1. /\ family' = families /\ revision' = Global!Insert(revision, (k + 1) + 1, row)
        /\ copied' = Global!Insert(copied, r, [command |-> command, response |-> [made |-> k + 1 .. (k + 1) + 1, row |-> new]])
        /\ Global!Answered("copy", r, command, [made |-> k + 1 .. (k + 1) + 1, row |-> new])
    BY <1>1, <1>5, Zenon DEF Global!WriteCopy, Global!Nobody
  <2> DEFINE response == [made |-> k + 1 .. k + 2, row |-> new]
  <2>2. /\ family' = families /\ revision' = versions
        /\ copied' = Global!Insert(copied, r, [command |-> command, response |-> response])
        /\ Global!Answered("copy", r, command, response)
    BY <2>1, AllMade, Zenon
  <2>3. response.made = k + 1 .. k + 2 /\ k <= k + 2 /\ k + 2 \in Nat
    BY AllMade
  <2> HIDE DEF response, families, versions
  <2>4. LibrariesSound(family', revision', k + 2)
    BY <1>4, <2>2
  <2> QED
    BY <1>1, <2>2, <2>3, <2>4, Copied, Zenon
<1>6. CASE mappings # {}
  <2>1. /\ family' = Global!Insert(families, (k + 1) + 2, own)
        /\ revision' = Global!Insert(Global!Insert(revision, (k + 1) + 1, row), (k + 1) + 3,
                                     Global!Version((k + 1) + 2, 1, mapping, (k + 1) + 1))
        /\ copied' = Global!Insert(copied, r, [command |-> command, response |-> [made |-> k + 1 .. (k + 1) + 3, row |-> new]])
        /\ Global!Answered("copy", r, command, [made |-> k + 1 .. (k + 1) + 3, row |-> new])
    BY <1>1, <1>6, Zenon DEF Global!WriteCopy, Global!Nobody
  <2> DEFINE response == [made |-> k + 1 .. k + 4, row |-> new]
  <2>2. /\ family' = Global!Insert(families, k + 3, own) /\ revision' = Global!Insert(versions, k + 4, fitting)
        /\ copied' = Global!Insert(copied, r, [command |-> command, response |-> response])
        /\ Global!Answered("copy", r, command, response)
    BY <2>1, AllMade, Zenon
  <2>3. response.made = k + 1 .. k + 4 /\ k <= k + 4 /\ k + 4 \in Nat /\ k + 2 \in Nat
    BY AllMade
  <2>4. /\ DOMAIN families = DOMAIN family \cup {k + 1} /\ DOMAIN versions = DOMAIN revision \cup {k + 2}
        /\ versions[k + 2] = row /\ families[k + 1] = new /\ \A g \in DOMAIN family \ {k + 1} : families[g] = family[g]
    BY DEF Global!Insert
  <2>5. k + 1 \notin DOMAIN family /\ k + 1 # 0
    BY <1>1, NextTwo DEF LibrariesSound, IdsUpTo
  <2>6. \A g \in DOMAIN families : families[g].parent # k + 1
    <3>1. \A g \in DOMAIN family : family[g].parent # k + 1
      BY <1>1, <2>5 DEF LibrariesSound, RowsRefer
    <3> QED
      BY <1>3, <2>4, <2>5, <3>1
  <2>7. /\ own.name \in GlobalNames /\ own.parent \in DOMAIN families \cup {0} /\ fitting.target \in DOMAIN versions \cup {0}
        /\ versions[fitting.target].owner = own.parent /\ <<fitting.content, versions[fitting.target].content>> \in Fits
        /\ \A g \in DOMAIN families : families[g].scope = own.scope /\ families[g].parent = own.parent => families[g].name # own.name
    BY <1>3, <1>6, <2>4, <2>6
  <2>8. (k + 2) + 1 = k + 3 /\ (k + 2) + 2 = k + 4
    BY AllMade
  <2> HIDE DEF response, families, versions, own, fitting
  <2>9. LibrariesSound(Global!Insert(families, (k + 2) + 1, own), Global!Insert(versions, (k + 2) + 2, fitting), (k + 2) + 2)
    <3>1. fitting.owner = (k + 2) + 1 /\ fitting.number = 1
      BY <1>3, <2>8
    <3> QED
      BY <1>4, <2>7, <3>1, FamilyAdded, Zenon
  <2>10. LibrariesSound(family', revision', k + 4)
    BY <2>2, <2>8, <2>9, Zenon
  <2> QED
    BY <1>1, <2>2, <2>3, <2>10, Copied, Zenon
<1> QED
  BY <1>5, <1>6

LEMMA CopyMade ==
  ASSUME GlobalInvariant, NEW r \in RequestIds, NEW v \in DOMAIN revision, NEW n \in GlobalNames,
         NEW profiles \in {{}} \cup {{p} : p \in DOMAIN revision}, Global!Copy(r, v, profiles, n)
  PROVE  GlobalInvariant'
<1> DEFINE mappings == {revision[p].content : p \in profiles}
           scope == Global!Other(family[revision[v].owner].scope)
<1>1. /\ r \notin DOMAIN copied /\ UNCHANGED <<authored, there, import>>
      /\ \A p \in profiles : revision[p].target = v
      /\ Global!WriteCopy(r, <<"copy", v, profiles, n>>, scope, n, revision[v].content, mappings)
  BY DEF Global!Copy
<1>2. import' \in [Clients -> ImportStep \cup {Global!Quiet}]
  BY <1>1 DEF GlobalInvariant
<1>3. mappings # {} => <<CHOOSE m \in mappings : TRUE, revision[v].content>> \in Fits
  <2>1. PICK k \in Nat : LibrariesSound(family, revision, k)
    BY DEF GlobalInvariant
  <2>2. v # 0
    BY <2>1, NextTwo DEF LibrariesSound, IdsUpTo
  <2>3. ASSUME NEW p \in profiles
        PROVE  <<revision[p].content, revision[v].content>> \in Fits
    <3>1. p \in DOMAIN revision /\ revision[p].target = v
      BY <1>1
    <3> QED
      BY <2>1, <2>2, <3>1 DEF LibrariesSound, TargetsFit, FitsIts
  <2>4. mappings # {} => (CHOOSE m \in mappings : TRUE) \in mappings
    OBVIOUS
  <2>5. \A m \in mappings : <<m, revision[v].content>> \in Fits
    BY <2>3
  <2> HIDE DEF mappings
  <2> QED
    BY <2>4, <2>5
<1> HIDE DEF mappings, scope
<1> QED
  BY <1>1, <1>2, <1>3, CopyWritten, Zenon

LEMMA AnswerGiven ==
  ASSUME GlobalInvariant, NEW r, NEW command,
         Global!Replay(r, command) \/ Global!ReplayCopy(r, command)
  PROVE  GlobalInvariant'
<1>1. UNCHANGED <<family, revision, authored, copied, import>>
  BY DEF Global!Replay, Global!ReplayCopy
<1>2. replies' = replies
  <2>1. CASE Global!Replay(r, command)
    <3>1. [table |-> "authoring", id |-> r, command |-> command, response |-> authored[r].response] \in replies
      BY <2>1, AnswerRepeated DEF Global!Replay, GlobalInvariant
    <3> QED
      BY <2>1, <3>1 DEF Global!Replay, Global!Answered
  <2>2. CASE Global!ReplayCopy(r, command)
    <3>1. [table |-> "copy", id |-> r, command |-> command, response |-> copied[r].response] \in replies
      BY <2>2, AnswerRepeated DEF Global!ReplayCopy, GlobalInvariant
    <3> QED
      BY <2>2, <3>1 DEF Global!ReplayCopy, Global!Answered
  <2> QED
    BY <2>1, <2>2
<1> QED
  BY <1>1, <1>2, NothingWritten DEF GlobalInvariant

LEMMA ImportAsked ==
  ASSUME GlobalInvariant, NEW c \in Clients,
         \/ \E r \in RequestIds, n \in GlobalNames, expected \in GlobalContents \cup {None} : Global!LookUp(c, r, n, expected)
         \/ Global!Load(c)
  PROVE  GlobalInvariant'
<1>1. UNCHANGED <<family, revision, authored, copied, replies>>
  BY DEF Global!LookUp, Global!Load
<1>2. import \in [Clients -> ImportStep \cup {Global!Quiet}] /\ Global!Quiet.step = "none"
  BY DEF GlobalInvariant, Global!Quiet
<1>3. import' \in [Clients -> ImportStep \cup {Global!Quiet}]
  <2>1. ASSUME NEW r \in RequestIds, NEW n \in GlobalNames, NEW expected \in GlobalContents \cup {None},
               Global!LookUp(c, r, n, expected)
        PROVE  import' \in [Clients -> ImportStep \cup {Global!Quiet}]
    BY <1>2, <2>1 DEF Global!LookUp, ImportStep
  <2>2. ASSUME Global!Load(c)
        PROVE  import' \in [Clients -> ImportStep \cup {Global!Quiet}]
    <3>1. import[c] \in ImportStep
      BY <1>2, <2>2 DEF Global!Load
    <3>2. [import[c] EXCEPT !.step = "write"] \in ImportStep
      BY <3>1 DEF ImportStep
    <3>3. \E new \in ImportStep \cup {Global!Quiet} : import' = [import EXCEPT ![c] = new]
      BY <2>2, <3>2 DEF Global!Load
    <3> QED
      BY <1>2, <3>3
  <2> QED
    BY <2>1, <2>2
<1> QED
  BY <1>1, <1>3, NothingWritten

LEMMA ImportWritten ==
  ASSUME GlobalInvariant, NEW c \in Clients, Global!WriteImport(c)
  PROVE  GlobalInvariant'
<1> DEFINE command == Global!Imported(import[c].name, import[c].expected)
<1>1. /\ import[c].step = "write" /\ import' = [import EXCEPT ![c] = Global!Quiet] /\ authored' = authored
      /\ import \in [Clients -> ImportStep \cup {Global!Quiet}] /\ Global!Quiet.step = "none"
  BY DEF Global!WriteImport, GlobalInvariant, Global!Quiet
<1>2. import' \in [Clients -> ImportStep \cup {Global!Quiet}] /\ import[c] \in ImportStep
  BY <1>1
<1>3. import[c].id \in RequestIds /\ import[c].name \in GlobalNames
  BY <1>2 DEF ImportStep
<1>4. CASE /\ import[c].id \notin DOMAIN copied /\ <<Frozen.mapping, Frozen.content>> \in Fits
           /\ Global!WriteCopy(import[c].id, command, "global", import[c].name, Frozen.content, {Frozen.mapping})
  <2>1. (CHOOSE m \in {Frozen.mapping} : TRUE) = Frozen.mapping
    OBVIOUS
  <2> HIDE DEF command
  <2> QED
    BY <1>1, <1>2, <1>3, <1>4, <2>1, CopyWritten
<1>5. CASE /\ Global!Answers(copied, import[c].id, command)
           /\ Global!Answered("copy", import[c].id, command, copied[import[c].id].response)
           /\ UNCHANGED <<family, revision, copied>>
  <2>1. [table |-> "copy", id |-> import[c].id, command |-> command, response |-> copied[import[c].id].response] \in replies
    BY <1>5, AnswerRepeated DEF GlobalInvariant
  <2>2. replies' = replies
    BY <1>5, <2>1 DEF Global!Answered
  <2> QED
    BY <1>1, <1>2, <1>5, <2>2, NothingWritten
<1>6. CASE UNCHANGED <<family, revision, copied, replies>>
  BY <1>1, <1>2, <1>6, NothingWritten
<1> QED
  BY <1>4, <1>5, <1>6, Zenon DEF Global!WriteImport

LEMMA GlobalInitially ==
  ASSUME Global!Init
  PROVE  GlobalInvariant
<1>1. /\ DOMAIN family = {} /\ DOMAIN revision = {} /\ DOMAIN authored = {} /\ DOMAIN copied = {}
      /\ replies = {} /\ import = [c \in Clients |-> Global!Quiet]
  BY DEF Global!Init
<1>2. LibrariesSound(family, revision, 0)
  BY <1>1 DEF LibrariesSound, IdsUpTo, RowsRefer, FamiliesAreNumbered, TargetsFit, FamilyNamesDiffer
<1>3. MadeUpTo(replies, 0)
  BY <1>1 DEF MadeUpTo
<1>4. replies = AnswersIn("authoring", authored) \cup AnswersIn("copy", copied)
  BY <1>1 DEF AnswersIn
<1> QED
  BY <1>1, <1>2, <1>3, <1>4 DEF GlobalInvariant

LEMMA GlobalInductive ==
  ASSUME GlobalInvariant, [Global!Next]_(Global!vars)
  PROVE  GlobalInvariant'
<1>1. CASE UNCHANGED Global!vars
  BY <1>1, NothingWritten DEF Global!vars, GlobalInvariant
<1>2. ASSUME NEW r \in RequestIds,
             \/ \E n \in GlobalNames, t \in GlobalContents : Global!CreateWorkflow(r, n, t)
             \/ \E f \in DOMAIN family, t \in GlobalContents : Global!AppendWorkflow(r, f, t)
             \/ \E w \in DOMAIN family, v \in DOMAIN revision, n \in GlobalNames, m \in Mappings :
                  Global!CreateProfile(r, w, v, n, m)
             \/ \E f \in DOMAIN family, v \in DOMAIN revision, m \in Mappings : Global!AppendProfile(r, f, v, m)
      PROVE  GlobalInvariant'
  BY <1>2, WorkflowCreated, WorkflowAppended, ProfileCreated, ProfileAppended, Zenon
<1>3. ASSUME NEW r \in RequestIds,
             \/ \E f \in DOMAIN family, n \in GlobalNames : Global!UpdateMetadata(r, f, n)
             \/ \E x \in DOMAIN family \cup DOMAIN revision, archived \in BOOLEAN : Global!SetArchived(r, x, archived)
             \/ \E command \in Global!Commands(authored) : Global!Replay(r, command)
             \/ \E command \in Global!Commands(copied) : Global!ReplayCopy(r, command)
             \/ \E v \in DOMAIN revision, n \in GlobalNames :
                  \E profiles \in {{}} \cup {{p} : p \in DOMAIN revision} : Global!Copy(r, v, profiles, n)
      PROVE  GlobalInvariant'
  BY <1>3, MetadataUpdated, ArchivedSet, AnswerGiven, CopyMade, Zenon
<1>4. ASSUME NEW c \in Clients,
             \/ \E r \in RequestIds, n \in GlobalNames, expected \in GlobalContents \cup {None} : Global!LookUp(c, r, n, expected)
             \/ Global!Load(c) \/ Global!WriteImport(c)
      PROVE  GlobalInvariant'
  BY <1>4, ImportAsked, ImportWritten, Zenon
<1>5. CASE Global!MoveRun
  BY <1>5, NothingWritten DEF Global!MoveRun, GlobalInvariant
<1> QED
  BY <1>1, <1>2, <1>3, <1>4, <1>5 DEF Global!Next

LEMMA GlobalImplies ==
  ASSUME GlobalInvariant
  PROVE  CommandsAreIdempotent
<1>1. PICK k \in Nat : LibrariesSound(family, revision, k) /\ MadeUpTo(replies, k)
  BY DEF GlobalInvariant
<1>2. Global!TypeOK
  <2>1. \A c \in Clients : import[c].step \in {"none", "load", "write"}
    BY DEF GlobalInvariant, ImportStep, Global!Quiet
  <2> QED
    BY <1>1, <2>1 DEF Global!TypeOK, GlobalInvariant, LibrariesSound, RowsRefer, Global!Nobody
<1>3. Global!AnswersAgree
  <2>1. \A a, b \in AnswersIn("authoring", authored) : a.id = b.id => a = b
    BY DEF AnswersIn
  <2>2. \A a, b \in AnswersIn("copy", copied) : a.id = b.id => a = b
    BY DEF AnswersIn
  <2>3. /\ \A a \in AnswersIn("authoring", authored) : a.table = "authoring"
        /\ \A a \in AnswersIn("copy", copied) : a.table = "copy"
    BY DEF AnswersIn
  <2>4. replies = AnswersIn("authoring", authored) \cup AnswersIn("copy", copied)
    BY DEF GlobalInvariant
  <2> QED
    BY <2>1, <2>2, <2>3, <2>4 DEF Global!AnswersAgree
<1>4. Global!MadeOnce
  <2>1. ASSUME NEW x \in DOMAIN family \cup DOMAIN revision
        PROVE  Cardinality({a \in replies : x \in a.response.made}) = 1
    <3>1. x \in 1 .. k
      BY <1>1 DEF LibrariesSound, IdsUpTo
    <3>2. PICK a \in replies : x \in a.response.made /\ \A b \in replies : x \in b.response.made => b = a
      BY <1>1, <3>1 DEF MadeUpTo
    <3>3. {b \in replies : x \in b.response.made} = {a}
      BY <3>2
    <3> QED
      BY <3>3, OnlyOne
  <2> QED
    BY <2>1 DEF Global!MadeOnce, Global!Cardinality, Cardinality
<1>5. Global!VersionsAreSound
  <2>1. \A f : Global!VersionsOf(f) = OwnedBy(revision, f)
    BY DEF Global!VersionsOf, OwnedBy
  <2>2. \A f \in DOMAIN family : {revision[v].number : v \in Global!VersionsOf(f)} = 1 .. Cardinality(Global!VersionsOf(f))
    BY <1>1, <2>1 DEF LibrariesSound, FamiliesAreNumbered, NumbersOfOwned
  <2>3. \A f \in DOMAIN family : {revision[v].number : v \in Global!VersionsOf(f)} = 1 .. Global!Cardinality(Global!VersionsOf(f))
    BY <2>2 DEF Global!Cardinality, Cardinality
  <2> QED
    BY <1>1, <2>3 DEF Global!VersionsAreSound, LibrariesSound, TargetsFit, FitsIts, FamilyNamesDiffer, Global!Nobody
<1> QED
  BY <1>2, <1>3, <1>4, <1>5 DEF CommandsAreIdempotent, Global!CommandsAreIdempotent

\* For any number of clients, request ids, names and Runs: a command repeated
\* under its request id is answered with what the first one made, an id serves
\* one command, and every row was made by exactly one of them
\* (db/global_workflows.py).
THEOREM CommandsStayIdempotent == Global!Spec => []CommandsAreIdempotent
<1>1. Global!Init => GlobalInvariant
  BY GlobalInitially
<1>2. GlobalInvariant /\ [Global!Next]_(Global!vars) => GlobalInvariant'
  BY GlobalInductive
<1>3. GlobalInvariant => CommandsAreIdempotent
  BY GlobalImplies
<1> QED
  BY <1>1, <1>2, <1>3, PTL DEF Global!Spec

\* A behaviour of the composition is one of each library: the library that it
\* exercises takes its steps, the others stand still.
LEMMA LibrariesBehave ==
  /\ StoresSpec => Prompt!Spec
  /\ StoresSpec => Workflow!Spec
  /\ StoresSpec => Global!Spec
<1> DEFINE all == <<which, prompts, workflows, globals, histories, assets, requests, owners>>
<1>1. StoresInit => Prompt!Init /\ Workflow!Init /\ Global!Init
  BY DEF StoresInit
<1>2. [StoresNext]_all => [Prompt!Next]_(Prompt!vars)
  BY DEF StoresNext, prompts, Prompt!vars
<1>3. [StoresNext]_all => [Workflow!Next]_(Workflow!vars)
  BY DEF StoresNext, workflows, Workflow!vars
<1>4. [StoresNext]_all => [Global!Next]_(Global!vars)
  BY DEF StoresNext, globals, Global!vars
<1> QED
  BY <1>1, <1>2, <1>3, <1>4, PTL DEF StoresSpec, Prompt!Spec, Workflow!Spec, Global!Spec

\* The three libraries of the composition that TLC checks, from the assumptions
\* on its constants that TLC evaluates: each is sound in every behaviour.
THEOREM LibrariesAreSound == StoresSpec => []LibraryIsSound /\ []WorkflowsAreSound /\ []CommandsAreIdempotent
<1>1. Prompt!Spec => []LibraryIsSound
  BY StoresAssumption, PromptsStaySound
<1>2. Workflow!Spec => []WorkflowsAreSound
  BY StoresAssumption, WorkflowsStaySound
<1>3. Global!Spec => []CommandsAreIdempotent
  BY CommandsStayIdempotent
<1> QED
  BY <1>1, <1>2, <1>3, LibrariesBehave, PTL
=============================================================================
