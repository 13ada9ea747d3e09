----------------------- MODULE RunPublication_proofs ------------------------
(***************************************************************************)
(* Proofs about RunPublication, for any finite number of creators, failed  *)
(* file operations and power failures.  The properties follow from one     *)
(* inductive invariant, PublicationInvariant.                              *)
(***************************************************************************)
EXTENDS RunPublication, TLAPS

LEMMA InitInvariant == Init => PublicationInvariant
<1> SUFFICES ASSUME Init PROVE PublicationInvariant
  OBVIOUS
<1> USE ConstantsAssumption DEF Init
<1>1. TypeOK
  BY DEF TypeOK, PCs, Entry, Holding
<1>2. HoldersDiffer /\ HeldIsReserved /\ OwnNumber /\ PhaseOfContent
  BY DEF HoldersDiffer, HeldIsReserved, OwnNumber, PhaseOfContent, Holding
<1>3. PublishedWasSynced /\ PublishedByItsCreator /\ NumbersAreUnique
  BY DEF PublishedWasSynced, PublishedByItsCreator, NumbersAreUnique
<1>4. PhaseOfAnswer /\ AnsweredSurvives
  BY DEF PhaseOfAnswer, AnsweredSurvives
<1>5. QED
  BY <1>1, <1>2, <1>3, <1>4 DEF PublicationInvariant

-----------------------------------------------------------------------------
\* The types.
LEMMA TypesStep ==
  ASSUME TypeOK, [Next]_vars
  PROVE  TypeOK'
<1> USE ConstantsAssumption DEF At, Goto, Return, Fault, Holding, PCs, Entry, onDirectories,
  onReservations, TypeOK, Files
<1>1. ASSUME NEW c \in Creators,
             Begin(c)
      PROVE  TypeOK'
  BY <1>1 DEF Begin
<1>2. ASSUME NEW c \in Creators,
             Refuse(c)
      PROVE  TypeOK'
  BY <1>2 DEF Refuse
<1>3. ASSUME NEW c \in Creators,
             Probe(c)
      PROVE  TypeOK'
  <2>1. UNCHANGED number \/ number' = [number EXCEPT ![c] = @ + 1]
    BY <1>3 DEF Probe, TryNext, Successor, IsPublished
  <2>2. number' \in [Creators -> Nat]
    BY <2>1
  <2>3. UNCHANGED pc \/ \E label \in PCs : pc' = [pc EXCEPT ![c] = label]
    BY <1>3 DEF Probe, TryNext, Successor, IsPublished
  <2>4. pc' \in [Creators -> PCs]
    BY <2>3
  <2>5. reserved' \subseteq reserved \cup {number[c]} /\ number[c] \in Nat
    BY <1>3 DEF Probe, TryNext, Successor, IsPublished
  <2>6. reserved' \subseteq Nat
    BY <2>5
  <2>7. QED
    BY <1>3, <2>2, <2>4, <2>6 DEF Probe
<1>4. ASSUME NEW c \in Creators,
             Reserve(c)
      PROVE  TypeOK'
  <2>1. UNCHANGED number \/ number' = [number EXCEPT ![c] = @ + 1]
    BY <1>4 DEF Reserve, TryNext, Successor, IsReserved
  <2>2. number' \in [Creators -> Nat]
    BY <2>1
  <2>3. UNCHANGED pc \/ \E label \in PCs : pc' = [pc EXCEPT ![c] = label]
    BY <1>4 DEF Reserve, TryNext, Successor, IsReserved
  <2>4. pc' \in [Creators -> PCs]
    BY <2>3
  <2>5. reserved' \subseteq reserved \cup {number[c]} /\ number[c] \in Nat
    BY <1>4 DEF Reserve, TryNext, Successor, IsReserved
  <2>6. reserved' \subseteq Nat
    BY <2>5
  <2>7. QED
    BY <1>4, <2>2, <2>4, <2>6 DEF Reserve
<1>5. ASSUME NEW c \in Creators,
             SyncReservation(c)
      PROVE  TypeOK'
  <2>1. allocated' \subseteq Nat
    BY <1>5 DEF SyncReservation
  <2>2. pc' \in [Creators -> PCs] /\ faults' \in 0 .. MaxFaults
    BY <1>5 DEF SyncReservation
  <2>3. answer' \in [Creators -> {"none", "run", "failed", "error"}]
    BY <1>5 DEF SyncReservation
  <2>4. QED
    BY <1>5, <2>1, <2>2, <2>3 DEF SyncReservation
<1>6. ASSUME NEW c \in Creators,
             Recheck(c)
      PROVE  TypeOK'
  <2>1. UNCHANGED number \/ number' = [number EXCEPT ![c] = @ + 1]
    BY <1>6 DEF Recheck, TryNext, Successor, TakenMeanwhile, IsPublished
  <2>2. number' \in [Creators -> Nat]
    BY <2>1
  <2>3. UNCHANGED pc \/ \E label \in PCs : pc' = [pc EXCEPT ![c] = label]
    BY <1>6 DEF Recheck, TryNext, Successor, TakenMeanwhile, IsPublished
  <2>4. pc' \in [Creators -> PCs]
    BY <2>3
  <2>5. reserved' \subseteq reserved \cup {number[c]} /\ number[c] \in Nat
    BY <1>6 DEF Recheck, TryNext, Successor, TakenMeanwhile, IsPublished
  <2>6. reserved' \subseteq Nat
    BY <2>5
  <2>7. QED
    BY <1>6, <2>2, <2>4, <2>6 DEF Recheck
<1>7. ASSUME NEW c \in Creators,
             Stage(c)
      PROVE  TypeOK'
  BY <1>7 DEF Stage
<1>8. ASSUME NEW c \in Creators,
             WriteNext(c)
      PROVE  TypeOK'
  BY <1>8 DEF WriteNext
<1>9. ASSUME NEW c \in Creators,
             SyncStaged(c)
      PROVE  TypeOK'
  BY <1>9 DEF SyncStaged, Synced
<1>10. ASSUME NEW c \in Creators,
             Validate(c)
      PROVE  TypeOK'
  BY <1>10 DEF Validate
<1>11. ASSUME NEW c \in Creators,
             Abort(c)
      PROVE  TypeOK'
  BY <1>11 DEF Abort
<1>12. ASSUME NEW c \in Creators,
             Publish(c)
      PROVE  TypeOK'
  BY <1>12 DEF Publish
<1>13. ASSUME NEW c \in Creators,
             SyncPublished(c)
      PROVE  TypeOK'
  BY <1>13 DEF SyncPublished, SyncedEntries, AfterFailedSync
<1>14. ASSUME NEW c \in Creators,
             CleanUp(c)
      PROVE  TypeOK'
  BY <1>14 DEF CleanUp
<1>15. ASSUME NEW c \in Creators,
             Release(c)
      PROVE  TypeOK'
  <2>1. answer' = answer \/ answer' = [answer EXCEPT ![c] = "error"]
    BY <1>15 DEF Release
  <2>2. answer' \in [Creators -> {"none", "run", "failed", "error"}]
    BY <2>1
  <2>3. reserved' \subseteq reserved /\ faults' \in 0 .. MaxFaults
    BY <1>15 DEF Release
  <2>4. pc' \in [Creators -> PCs]
    BY <1>15 DEF Release
  <2>5. QED
    BY <1>15, <2>2, <2>3, <2>4 DEF Release
<1>16. ASSUME PowerLoss
      PROVE  TypeOK'
  BY <1>16 DEF PowerLoss
<1>17. ASSUME UNCHANGED vars
      PROVE  TypeOK'
  BY <1>17 DEF vars
<1> HIDE DEF At, Goto, Return, Fault, Holding, PCs, Entry, onDirectories, onReservations,
  TypeOK, Files
<1>18. QED
  BY <1>1, <1>2, <1>3, <1>4, <1>5, <1>6, <1>7, <1>8, <1>9, <1>10, <1>11, <1>12, <1>13, <1>14,
    <1>15, <1>16, <1>17 DEF Next, CreatorStep, vars

\* A reservation has one holder, and stays until that holder removes it.
LEMMA HoldersStep ==
  ASSUME PublicationInvariant, [Next]_vars
  PROVE  HoldersDiffer' /\ HeldIsReserved'
<1> USE DEF At, Goto, Return, Fault, Holding, PCs, Entry, onDirectories, onReservations, TypeOK,
  PublicationInvariant, HoldersDiffer, HeldIsReserved
<1>1. ASSUME NEW c \in Creators,
             Begin(c)
      PROVE  HoldersDiffer' /\ HeldIsReserved'
  BY <1>1 DEF Begin
<1>2. ASSUME NEW c \in Creators,
             Refuse(c)
      PROVE  HoldersDiffer' /\ HeldIsReserved'
  BY <1>2 DEF Refuse
<1>3. ASSUME NEW c \in Creators,
             Probe(c)
      PROVE  HoldersDiffer' /\ HeldIsReserved'
  BY <1>3 DEF Probe, TryNext, Successor, IsPublished
<1>4. ASSUME NEW c \in Creators,
             Reserve(c)
      PROVE  HoldersDiffer' /\ HeldIsReserved'
  BY <1>4 DEF Reserve, TryNext, Successor, IsReserved
<1>5. ASSUME NEW c \in Creators,
             SyncReservation(c)
      PROVE  HoldersDiffer' /\ HeldIsReserved'
  BY <1>5 DEF SyncReservation
<1>6. ASSUME NEW c \in Creators,
             Recheck(c)
      PROVE  HoldersDiffer' /\ HeldIsReserved'
  BY <1>6 DEF Recheck, TryNext, Successor, TakenMeanwhile, IsPublished
<1>7. ASSUME NEW c \in Creators,
             Stage(c)
      PROVE  HoldersDiffer' /\ HeldIsReserved'
  BY <1>7 DEF Stage
<1>8. ASSUME NEW c \in Creators,
             WriteNext(c)
      PROVE  HoldersDiffer' /\ HeldIsReserved'
  BY <1>8 DEF WriteNext
<1>9. ASSUME NEW c \in Creators,
             SyncStaged(c)
      PROVE  HoldersDiffer' /\ HeldIsReserved'
  BY <1>9 DEF SyncStaged, Synced
<1>10. ASSUME NEW c \in Creators,
             Validate(c)
      PROVE  HoldersDiffer' /\ HeldIsReserved'
  BY <1>10 DEF Validate
<1>11. ASSUME NEW c \in Creators,
             Abort(c)
      PROVE  HoldersDiffer' /\ HeldIsReserved'
  BY <1>11 DEF Abort
<1>12. ASSUME NEW c \in Creators,
             Publish(c)
      PROVE  HoldersDiffer' /\ HeldIsReserved'
  BY <1>12 DEF Publish
<1>13. ASSUME NEW c \in Creators,
             SyncPublished(c)
      PROVE  HoldersDiffer' /\ HeldIsReserved'
  BY <1>13 DEF SyncPublished, SyncedEntries, AfterFailedSync
<1>14. ASSUME NEW c \in Creators,
             CleanUp(c)
      PROVE  HoldersDiffer' /\ HeldIsReserved'
  BY <1>14 DEF CleanUp
<1>15. ASSUME NEW c \in Creators,
             Release(c)
      PROVE  HoldersDiffer' /\ HeldIsReserved'
  BY <1>15 DEF Release
<1>16. ASSUME PowerLoss
      PROVE  HoldersDiffer' /\ HeldIsReserved'
  BY <1>16 DEF PowerLoss
<1>17. ASSUME UNCHANGED vars
      PROVE  HoldersDiffer' /\ HeldIsReserved'
  BY <1>17 DEF vars
<1> HIDE DEF At, Goto, Return, Fault, Holding, PCs, Entry, onDirectories, onReservations,
  TypeOK, PublicationInvariant, HoldersDiffer, HeldIsReserved
<1>18. QED
  BY <1>1, <1>2, <1>3, <1>4, <1>5, <1>6, <1>7, <1>8, <1>9, <1>10, <1>11, <1>12, <1>13, <1>14,
    <1>15, <1>16, <1>17 DEF Next, CreatorStep, vars

\* Past the second check nobody else has the number or can get it.
LEMMA NumbersStep ==
  ASSUME PublicationInvariant, [Next]_vars
  PROVE  OwnNumber' /\ NumbersAreUnique'
<1> USE DEF At, Goto, Return, Fault, Holding, PCs, Entry, onDirectories, onReservations, TypeOK,
  PublicationInvariant, HoldersDiffer, OwnNumber, NumbersAreUnique, PublishedByItsCreator,
  PhaseOfAnswer
<1>1. ASSUME NEW c \in Creators,
             Begin(c)
      PROVE  OwnNumber' /\ NumbersAreUnique'
  BY <1>1 DEF Begin
<1>2. ASSUME NEW c \in Creators,
             Refuse(c)
      PROVE  OwnNumber' /\ NumbersAreUnique'
  BY <1>2 DEF Refuse
<1>3. ASSUME NEW c \in Creators,
             Probe(c)
      PROVE  OwnNumber' /\ NumbersAreUnique'
  BY <1>3 DEF Probe, TryNext, Successor, IsPublished
<1>4. ASSUME NEW c \in Creators,
             Reserve(c)
      PROVE  OwnNumber' /\ NumbersAreUnique'
  BY <1>4 DEF Reserve, TryNext, Successor, IsReserved
<1>5. ASSUME NEW c \in Creators,
             SyncReservation(c)
      PROVE  OwnNumber' /\ NumbersAreUnique'
  BY <1>5 DEF SyncReservation
<1>6. ASSUME NEW c \in Creators,
             Recheck(c)
      PROVE  OwnNumber' /\ NumbersAreUnique'
  BY <1>6 DEF Recheck, TryNext, Successor, TakenMeanwhile, IsPublished
<1>7. ASSUME NEW c \in Creators,
             Stage(c)
      PROVE  OwnNumber' /\ NumbersAreUnique'
  BY <1>7 DEF Stage
<1>8. ASSUME NEW c \in Creators,
             WriteNext(c)
      PROVE  OwnNumber' /\ NumbersAreUnique'
  BY <1>8 DEF WriteNext
<1>9. ASSUME NEW c \in Creators,
             SyncStaged(c)
      PROVE  OwnNumber' /\ NumbersAreUnique'
  BY <1>9 DEF SyncStaged, Synced
<1>10. ASSUME NEW c \in Creators,
             Validate(c)
      PROVE  OwnNumber' /\ NumbersAreUnique'
  BY <1>10 DEF Validate
<1>11. ASSUME NEW c \in Creators,
             Abort(c)
      PROVE  OwnNumber' /\ NumbersAreUnique'
  BY <1>11 DEF Abort
<1>12. ASSUME NEW c \in Creators,
             Publish(c)
      PROVE  OwnNumber' /\ NumbersAreUnique'
  BY <1>12 DEF Publish
<1>13. ASSUME NEW c \in Creators,
             SyncPublished(c)
      PROVE  OwnNumber' /\ NumbersAreUnique'
  BY <1>13 DEF SyncPublished, SyncedEntries, AfterFailedSync
<1>14. ASSUME NEW c \in Creators,
             CleanUp(c)
      PROVE  OwnNumber' /\ NumbersAreUnique'
  BY <1>14 DEF CleanUp
<1>15. ASSUME NEW c \in Creators,
             Release(c)
      PROVE  OwnNumber' /\ NumbersAreUnique'
  BY <1>15 DEF Release
<1>16. ASSUME PowerLoss
      PROVE  OwnNumber' /\ NumbersAreUnique'
  BY <1>16 DEF PowerLoss
<1>17. ASSUME UNCHANGED vars
      PROVE  OwnNumber' /\ NumbersAreUnique'
  BY <1>17 DEF vars
<1> HIDE DEF At, Goto, Return, Fault, Holding, PCs, Entry, onDirectories, onReservations,
  TypeOK, PublicationInvariant, HoldersDiffer, OwnNumber, NumbersAreUnique,
  PublishedByItsCreator, PhaseOfAnswer
<1>18. QED
  BY <1>1, <1>2, <1>3, <1>4, <1>5, <1>6, <1>7, <1>8, <1>9, <1>10, <1>11, <1>12, <1>13, <1>14,
    <1>15, <1>16, <1>17 DEF Next, CreatorStep, vars

\* What is renamed is complete and synced, and stays so.
LEMMA ContentStep ==
  ASSUME PublicationInvariant, [Next]_vars
  PROVE  PhaseOfContent' /\ PublishedWasSynced'
<1> USE DEF At, Goto, Return, Fault, Holding, PCs, Entry, onDirectories, onReservations, TypeOK,
  PublicationInvariant, PhaseOfContent, PublishedWasSynced, PublishedByItsCreator
<1>1. ASSUME NEW c \in Creators,
             Begin(c)
      PROVE  PhaseOfContent' /\ PublishedWasSynced'
  BY <1>1 DEF Begin
<1>2. ASSUME NEW c \in Creators,
             Refuse(c)
      PROVE  PhaseOfContent' /\ PublishedWasSynced'
  BY <1>2 DEF Refuse
<1>3. ASSUME NEW c \in Creators,
             Probe(c)
      PROVE  PhaseOfContent' /\ PublishedWasSynced'
  BY <1>3 DEF Probe, TryNext, Successor, IsPublished
<1>4. ASSUME NEW c \in Creators,
             Reserve(c)
      PROVE  PhaseOfContent' /\ PublishedWasSynced'
  BY <1>4 DEF Reserve, TryNext, Successor, IsReserved
<1>5. ASSUME NEW c \in Creators,
             SyncReservation(c)
      PROVE  PhaseOfContent' /\ PublishedWasSynced'
  BY <1>5 DEF SyncReservation
<1>6. ASSUME NEW c \in Creators,
             Recheck(c)
      PROVE  PhaseOfContent' /\ PublishedWasSynced'
  BY <1>6 DEF Recheck, TryNext, Successor, TakenMeanwhile, IsPublished
<1>7. ASSUME NEW c \in Creators,
             Stage(c)
      PROVE  PhaseOfContent' /\ PublishedWasSynced'
  BY <1>7 DEF Stage
<1>8. ASSUME NEW c \in Creators,
             WriteNext(c)
      PROVE  PhaseOfContent' /\ PublishedWasSynced'
  BY <1>8 DEF WriteNext
<1>9. ASSUME NEW c \in Creators,
             SyncStaged(c)
      PROVE  PhaseOfContent' /\ PublishedWasSynced'
  BY <1>9 DEF SyncStaged, Synced
<1>10. ASSUME NEW c \in Creators,
             Validate(c)
      PROVE  PhaseOfContent' /\ PublishedWasSynced'
  BY <1>10 DEF Validate
<1>11. ASSUME NEW c \in Creators,
             Abort(c)
      PROVE  PhaseOfContent' /\ PublishedWasSynced'
  BY <1>11 DEF Abort
<1>12. ASSUME NEW c \in Creators,
             Publish(c)
      PROVE  PhaseOfContent' /\ PublishedWasSynced'
  BY <1>12 DEF Publish
<1>13. ASSUME NEW c \in Creators,
             SyncPublished(c)
      PROVE  PhaseOfContent' /\ PublishedWasSynced'
  BY <1>13 DEF SyncPublished, SyncedEntries, AfterFailedSync
<1>14. ASSUME NEW c \in Creators,
             CleanUp(c)
      PROVE  PhaseOfContent' /\ PublishedWasSynced'
  BY <1>14 DEF CleanUp
<1>15. ASSUME NEW c \in Creators,
             Release(c)
      PROVE  PhaseOfContent' /\ PublishedWasSynced'
  BY <1>15 DEF Release
<1>16. ASSUME PowerLoss
      PROVE  PhaseOfContent' /\ PublishedWasSynced'
  BY <1>16 DEF PowerLoss
<1>17. ASSUME UNCHANGED vars
      PROVE  PhaseOfContent' /\ PublishedWasSynced'
  BY <1>17 DEF vars
<1> HIDE DEF At, Goto, Return, Fault, Holding, PCs, Entry, onDirectories, onReservations,
  TypeOK, PublicationInvariant, PhaseOfContent, PublishedWasSynced, PublishedByItsCreator
<1>18. QED
  BY <1>1, <1>2, <1>3, <1>4, <1>5, <1>6, <1>7, <1>8, <1>9, <1>10, <1>11, <1>12, <1>13, <1>14,
    <1>15, <1>16, <1>17 DEF Next, CreatorStep, vars

\* Where a creator stands when it has an answer, or a published Run.
LEMMA AnswerStep ==
  ASSUME PublicationInvariant, [Next]_vars
  PROVE  PublishedByItsCreator' /\ PhaseOfAnswer'
<1> USE DEF At, Goto, Return, Fault, Holding, PCs, Entry, onDirectories, onReservations, TypeOK,
  PublicationInvariant, PublishedByItsCreator, PhaseOfAnswer
<1>1. ASSUME NEW c \in Creators,
             Begin(c)
      PROVE  PublishedByItsCreator' /\ PhaseOfAnswer'
  BY <1>1 DEF Begin
<1>2. ASSUME NEW c \in Creators,
             Refuse(c)
      PROVE  PublishedByItsCreator' /\ PhaseOfAnswer'
  BY <1>2 DEF Refuse
<1>3. ASSUME NEW c \in Creators,
             Probe(c)
      PROVE  PublishedByItsCreator' /\ PhaseOfAnswer'
  <2>1. pc[c] \notin {"syncPublished", "cleanUp", "release", "done", "dead"} /\ answer[c] = "none"
    BY <1>3 DEF Probe
  <2>2. \A d \in Creators : d # c => pc'[d] = pc[d] /\ number'[d] = number[d]
    BY <1>3 DEF Probe, TryNext, Successor, IsPublished
  <2>3. pc'[c] \notin {"syncPublished", "cleanUp", "release", "done", "dead"}
    BY <1>3 DEF Probe, TryNext, Successor, IsPublished
  <2>4. UNCHANGED <<published, answer>>
    BY <1>3 DEF Probe
  <2>5. PublishedByItsCreator'
    BY <2>1, <2>2, <2>4
  <2>6. PhaseOfAnswer'
    BY <2>1, <2>2, <2>3, <2>4
  <2>7. QED
    BY <2>5, <2>6
<1>4. ASSUME NEW c \in Creators,
             Reserve(c)
      PROVE  PublishedByItsCreator' /\ PhaseOfAnswer'
  <2>1. pc[c] \notin {"syncPublished", "cleanUp", "release", "done", "dead"} /\ answer[c] = "none"
    BY <1>4 DEF Reserve
  <2>2. \A d \in Creators : d # c => pc'[d] = pc[d] /\ number'[d] = number[d]
    BY <1>4 DEF Reserve, TryNext, Successor, IsReserved
  <2>3. pc'[c] \notin {"syncPublished", "cleanUp", "release", "done", "dead"}
    BY <1>4 DEF Reserve, TryNext, Successor, IsReserved
  <2>4. UNCHANGED <<published, answer>>
    BY <1>4 DEF Reserve
  <2>5. PublishedByItsCreator'
    BY <2>1, <2>2, <2>4
  <2>6. PhaseOfAnswer'
    BY <2>1, <2>2, <2>3, <2>4
  <2>7. QED
    BY <2>5, <2>6
<1>5. ASSUME NEW c \in Creators,
             SyncReservation(c)
      PROVE  PublishedByItsCreator' /\ PhaseOfAnswer'
  BY <1>5 DEF SyncReservation
<1>6. ASSUME NEW c \in Creators,
             Recheck(c)
      PROVE  PublishedByItsCreator' /\ PhaseOfAnswer'
  <2>1. pc[c] \notin {"syncPublished", "cleanUp", "release", "done", "dead"} /\ answer[c] = "none"
    BY <1>6 DEF Recheck
  <2>2. \A d \in Creators : d # c => pc'[d] = pc[d] /\ number'[d] = number[d]
    BY <1>6 DEF Recheck, TryNext, Successor, TakenMeanwhile, IsPublished
  <2>3. pc'[c] \notin {"syncPublished", "cleanUp", "release", "done", "dead"}
    BY <1>6 DEF Recheck, TryNext, Successor, TakenMeanwhile, IsPublished
  <2>4. UNCHANGED <<published, answer>>
    BY <1>6 DEF Recheck
  <2>5. PublishedByItsCreator'
    BY <2>1, <2>2, <2>4
  <2>6. PhaseOfAnswer'
    BY <2>1, <2>2, <2>3, <2>4
  <2>7. QED
    BY <2>5, <2>6
<1>7. ASSUME NEW c \in Creators,
             Stage(c)
      PROVE  PublishedByItsCreator' /\ PhaseOfAnswer'
  BY <1>7 DEF Stage
<1>8. ASSUME NEW c \in Creators,
             WriteNext(c)
      PROVE  PublishedByItsCreator' /\ PhaseOfAnswer'
  BY <1>8 DEF WriteNext
<1>9. ASSUME NEW c \in Creators,
             SyncStaged(c)
      PROVE  PublishedByItsCreator' /\ PhaseOfAnswer'
  BY <1>9 DEF SyncStaged, Synced
<1>10. ASSUME NEW c \in Creators,
             Validate(c)
      PROVE  PublishedByItsCreator' /\ PhaseOfAnswer'
  BY <1>10 DEF Validate
<1>11. ASSUME NEW c \in Creators,
             Abort(c)
      PROVE  PublishedByItsCreator' /\ PhaseOfAnswer'
  BY <1>11 DEF Abort
<1>12. ASSUME NEW c \in Creators,
             Publish(c)
      PROVE  PublishedByItsCreator' /\ PhaseOfAnswer'
  BY <1>12 DEF Publish
<1>13. ASSUME NEW c \in Creators,
             SyncPublished(c)
      PROVE  PublishedByItsCreator' /\ PhaseOfAnswer'
  BY <1>13 DEF SyncPublished, SyncedEntries, AfterFailedSync
<1>14. ASSUME NEW c \in Creators,
             CleanUp(c)
      PROVE  PublishedByItsCreator' /\ PhaseOfAnswer'
  BY <1>14 DEF CleanUp
<1>15. ASSUME NEW c \in Creators,
             Release(c)
      PROVE  PublishedByItsCreator' /\ PhaseOfAnswer'
  BY <1>15 DEF Release
<1>16. ASSUME PowerLoss
      PROVE  PublishedByItsCreator' /\ PhaseOfAnswer'
  BY <1>16 DEF PowerLoss
<1>17. ASSUME UNCHANGED vars
      PROVE  PublishedByItsCreator' /\ PhaseOfAnswer'
  BY <1>17 DEF vars
<1> HIDE DEF At, Goto, Return, Fault, Holding, PCs, Entry, onDirectories, onReservations,
  TypeOK, PublicationInvariant, PublishedByItsCreator, PhaseOfAnswer
<1>18. QED
  BY <1>1, <1>2, <1>3, <1>4, <1>5, <1>6, <1>7, <1>8, <1>9, <1>10, <1>11, <1>12, <1>13, <1>14,
    <1>15, <1>16, <1>17 DEF Next, CreatorStep, vars

\* An answered Run is on the disk.
LEMMA DurableStep ==
  ASSUME PublicationInvariant, [Next]_vars
  PROVE  AnsweredSurvives'
<1> USE DEF At, Goto, Return, Fault, Holding, PCs, Entry, onDirectories, onReservations, TypeOK,
  PublicationInvariant, AnsweredSurvives, PhaseOfAnswer
<1>1. ASSUME NEW c \in Creators,
             Begin(c)
      PROVE  AnsweredSurvives'
  BY <1>1 DEF Begin
<1>2. ASSUME NEW c \in Creators,
             Refuse(c)
      PROVE  AnsweredSurvives'
  BY <1>2 DEF Refuse
<1>3. ASSUME NEW c \in Creators,
             Probe(c)
      PROVE  AnsweredSurvives'
  BY <1>3 DEF Probe, TryNext, Successor, IsPublished
<1>4. ASSUME NEW c \in Creators,
             Reserve(c)
      PROVE  AnsweredSurvives'
  BY <1>4 DEF Reserve, TryNext, Successor, IsReserved
<1>5. ASSUME NEW c \in Creators,
             SyncReservation(c)
      PROVE  AnsweredSurvives'
  BY <1>5 DEF SyncReservation
<1>6. ASSUME NEW c \in Creators,
             Recheck(c)
      PROVE  AnsweredSurvives'
  BY <1>6 DEF Recheck, TryNext, Successor, TakenMeanwhile, IsPublished
<1>7. ASSUME NEW c \in Creators,
             Stage(c)
      PROVE  AnsweredSurvives'
  BY <1>7 DEF Stage
<1>8. ASSUME NEW c \in Creators,
             WriteNext(c)
      PROVE  AnsweredSurvives'
  BY <1>8 DEF WriteNext
<1>9. ASSUME NEW c \in Creators,
             SyncStaged(c)
      PROVE  AnsweredSurvives'
  BY <1>9 DEF SyncStaged, Synced
<1>10. ASSUME NEW c \in Creators,
             Validate(c)
      PROVE  AnsweredSurvives'
  BY <1>10 DEF Validate
<1>11. ASSUME NEW c \in Creators,
             Abort(c)
      PROVE  AnsweredSurvives'
  BY <1>11 DEF Abort
<1>12. ASSUME NEW c \in Creators,
             Publish(c)
      PROVE  AnsweredSurvives'
  BY <1>12 DEF Publish
<1>13. ASSUME NEW c \in Creators,
             SyncPublished(c)
      PROVE  AnsweredSurvives'
  BY <1>13 DEF SyncPublished, SyncedEntries, AfterFailedSync
<1>14. ASSUME NEW c \in Creators,
             CleanUp(c)
      PROVE  AnsweredSurvives'
  BY <1>14 DEF CleanUp
<1>15. ASSUME NEW c \in Creators,
             Release(c)
      PROVE  AnsweredSurvives'
  BY <1>15 DEF Release
<1>16. ASSUME PowerLoss
      PROVE  AnsweredSurvives'
  BY <1>16 DEF PowerLoss
<1>17. ASSUME UNCHANGED vars
      PROVE  AnsweredSurvives'
  BY <1>17 DEF vars
<1> HIDE DEF At, Goto, Return, Fault, Holding, PCs, Entry, onDirectories, onReservations,
  TypeOK, PublicationInvariant, AnsweredSurvives, PhaseOfAnswer
<1>18. QED
  BY <1>1, <1>2, <1>3, <1>4, <1>5, <1>6, <1>7, <1>8, <1>9, <1>10, <1>11, <1>12, <1>13, <1>14,
    <1>15, <1>16, <1>17 DEF Next, CreatorStep, vars

-----------------------------------------------------------------------------
\* PublicationInvariant is inductive.
THEOREM InvariantHolds == Spec => []PublicationInvariant
<1>1. PublicationInvariant /\ [Next]_vars => PublicationInvariant'
  <2> SUFFICES ASSUME PublicationInvariant, [Next]_vars
               PROVE  PublicationInvariant'
    OBVIOUS
  <2>1. TypeOK'
    BY TypesStep DEF PublicationInvariant
  <2>2. QED
    BY <2>1, HoldersStep, NumbersStep, ContentStep, AnswerStep, DurableStep
    DEF PublicationInvariant
<1>2. QED
  BY InitInvariant, <1>1, PTL DEF Spec

\* The types of all variables.
THEOREM TypesHold == Spec => []TypeOK
<1>1. PublicationInvariant => TypeOK
  BY DEF PublicationInvariant
<1>2. QED
  BY <1>1, InvariantHolds, PTL

\* A number has one published directory, whatever creators race, fail, die or are
\* undone by a power failure.
THEOREM NumbersUnique == Spec => []NumbersAreUnique
<1>1. PublicationInvariant => NumbersAreUnique
  BY DEF PublicationInvariant
<1>2. QED
  BY <1>1, InvariantHolds, PTL

\* What stands under a published name holds everything a reader requires.
THEOREM PublishedComplete == Spec => []PublishedIsComplete
<1>1. PublicationInvariant => PublishedIsComplete
  BY DEF PublicationInvariant, PublishedIsComplete, PublishedWasSynced, Required
<1>2. QED
  BY <1>1, InvariantHolds, PTL

\* A Run that create_run has returned survives a power failure, and a creation
\* that failed has published nothing.
THEOREM AnswersTrue == Spec => []AnswersAreTrue
<1>1. PublicationInvariant => AnsweredSurvives
  BY DEF PublicationInvariant
<1>2. PublicationInvariant => FailedIsUnpublished
  BY DEF PublicationInvariant, FailedIsUnpublished, PublishedByItsCreator
<1>3. QED
  BY <1>1, <1>2, InvariantHolds, PTL DEF AnswersAreTrue

=============================================================================
