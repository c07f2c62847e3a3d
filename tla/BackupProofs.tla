----------------------------- MODULE BackupProofs ----------------------------
(* Theorems about Backup, for any bounds.                                  *)
EXTENDS Backup, TLAPS

USE DEF files, exclusions, home, manager, lasting, report, bounds

-----------------------------------------------------------------------------
(* Typing.                                                                 *)

\* Every variable starts within its range.
LEMMA TypingInit == Init => UnitsTypeOK
<1> SUFFICES ASSUME Init PROVE UnitsTypeOK
  OBVIOUS
<1> USE BackupAssumption DEF Init, Runs
<1>1. pc \in [Units -> BackupPcs] /\ pc["reconcile"] \in ReconcilePcs
  BY DEF Units, BackupPcs, ReconcilePcs
<1>2. dir \in BOOLEAN /\ cleaning \in BOOLEAN
  OBVIOUS
<1>3. QED
  BY <1>1, <1>2 DEF UnitsTypeOK

\* Every step keeps every variable within its range.
LEMMA TypingNext ==
  ASSUME UnitsTypeOK, EndInv, [Next]_vars
  PROVE  UnitsTypeOK'
<1> USE BackupAssumption DEF UnitsTypeOK, EndInv, Runs, Units, ReconcilePcs, BackupPcs, Goes
<1>0. CASE PlayerLinks
  BY <1>0 DEF PlayerLinks
<1>1. ASSUME NEW u \in Units, LookMount(u)
      PROVE  UnitsTypeOK'
  BY <1>1 DEF LookMount
<1>2. ASSUME NEW u \in Units, Umount(u)
      PROVE  UnitsTypeOK'
  BY <1>2 DEF Umount
<1>3. ASSUME NEW u \in Units, RemoveDir(u)
      PROVE  UnitsTypeOK'
  BY <1>3 DEF RemoveDir
<1>4. ASSUME NEW u \in Units, LookSnapshot(u)
      PROVE  UnitsTypeOK'
  BY <1>4 DEF LookSnapshot, AfterReconcile
<1>5. ASSUME NEW u \in Units, DeleteSnapshot(u)
      PROVE  UnitsTypeOK'
  BY <1>5 DEF DeleteSnapshot, AfterReconcile
<1>6. ASSUME NEW u \in Units, ReconcileFails(u)
      PROVE  UnitsTypeOK'
  BY <1>6 DEF ReconcileFails, Fails, StopFails
<1>7. CASE Activate
  BY <1>7 DEF Activate
<1>8. CASE OpenRepository
  BY <1>8 DEF OpenRepository
<1>9. CASE RepositoryFails
  BY <1>9 DEF RepositoryFails, Fails
<1>10. CASE TakeSnapshot
  BY <1>10 DEF TakeSnapshot
<1>11. CASE MakeDir
  BY <1>11 DEF MakeDir
<1>12. CASE BindSnapshot
  BY <1>12 DEF BindSnapshot
<1>13. CASE Remount
  BY <1>13 DEF Remount
<1>14. CASE WriteExclusions
  BY <1>14 DEF WriteExclusions
<1>15. CASE PrepareFails
  BY <1>15 DEF PrepareFails
<1>16. CASE UndoMount
  BY <1>16 DEF UndoMount
<1>17. CASE UndoSnapshot
  BY <1>17 DEF UndoSnapshot
<1>18. CASE UndoExclusions
  BY <1>18 DEF UndoExclusions, Fails
<1>19. CASE UndoFails
  BY <1>19 DEF UndoFails, Fails
<1>20. CASE ResticReads
  BY <1>20 DEF ResticReads, Readable
<1>21. CASE ResticStores
  BY <1>21 DEF ResticStores
<1>22. CASE ResticFails
  BY <1>22 DEF ResticFails, Fails
<1>23. CASE PrintMarker
  BY <1>23 DEF PrintMarker
<1>24. CASE MarkerFails
  BY <1>24 DEF MarkerFails, Fails
<1>25. CASE Killed
  BY <1>25 DEF Killed, Fails, StopFails
<1>26. CASE RemoveExclusions
  <2>1. dir' \in BOOLEAN /\ cleaning' \in BOOLEAN
    BY <1>26 DEF RemoveExclusions
  <2>2. QED
    BY <1>26, <2>1 DEF RemoveExclusions
<1>27. CASE StartReconcile
  BY <1>27 DEF StartReconcile
<1>28. CASE PowerLoss
  <2>1. dir' \in BOOLEAN /\ cleaning' \in BOOLEAN
    BY <1>28 DEF PowerLoss
  <2>2. QED
    BY <1>28, <2>1 DEF PowerLoss
<1>29. CASE AskInvocation
  BY <1>29 DEF AskInvocation
<1>30. CASE AskResult
  BY <1>30 DEF AskResult
<1>31. CASE AskJournal
  BY <1>31 DEF AskJournal, Healthy
<1>32. CASE UNCHANGED vars
  BY <1>32 DEF vars
<1>33. QED
  BY <1>1, <1>2, <1>3, <1>4, <1>5, <1>6, <1>7, <1>8, <1>9, <1>10, <1>11, <1>12, <1>13, <1>14,
     <1>15, <1>16, <1>17, <1>18, <1>19, <1>20, <1>21, <1>22, <1>23, <1>24, <1>25, <1>26,
     <1>27, <1>28, <1>29, <1>30, <1>31, <1>32, <1>0
     DEF Next, BackupUnit, Prepare, Backup, Reconcile, Report, Units

-----------------------------------------------------------------------------
(* The transaction, its end, and its evidence.                             *)

\* Every step keeps what each command of the transaction relies on: the mount, the directory and the
\* snapshot are where the command before left them, or a reconciliation has taken them away.
LEMMA SourceNext ==
  ASSUME UnitsTypeOK, SourceInv, EndInv, [Next]_vars
  PROVE  SourceInv'
<1> USE DEF UnitsTypeOK, SourceInv, EndInv, Units, ReconcilePcs, BackupPcs, Goes
<1>0. CASE PlayerLinks
  BY <1>0 DEF PlayerLinks
<1>1. ASSUME NEW u \in Units, LookMount(u)
      PROVE  SourceInv'
  BY <1>1 DEF LookMount
<1>2. ASSUME NEW u \in Units, Umount(u)
      PROVE  SourceInv'
  BY <1>2 DEF Umount
<1>3. ASSUME NEW u \in Units, RemoveDir(u)
      PROVE  SourceInv'
  BY <1>3 DEF RemoveDir
<1>4. ASSUME NEW u \in Units, LookSnapshot(u)
      PROVE  SourceInv'
  BY <1>4 DEF LookSnapshot, AfterReconcile
<1>5. ASSUME NEW u \in Units, DeleteSnapshot(u)
      PROVE  SourceInv'
  BY <1>5 DEF DeleteSnapshot, AfterReconcile
<1>6. ASSUME NEW u \in Units, ReconcileFails(u)
      PROVE  SourceInv'
  BY <1>6 DEF ReconcileFails, Fails, StopFails
<1>7. CASE Activate
  BY <1>7 DEF Activate
<1>8. CASE OpenRepository
  BY <1>8 DEF OpenRepository
<1>9. CASE RepositoryFails
  BY <1>9 DEF RepositoryFails, Fails
<1>10. CASE TakeSnapshot
  BY <1>10 DEF TakeSnapshot
<1>11. CASE MakeDir
  BY <1>11 DEF MakeDir
<1>12. CASE BindSnapshot
  BY <1>12 DEF BindSnapshot
<1>13. CASE Remount
  BY <1>13 DEF Remount
<1>14. CASE WriteExclusions
  BY <1>14 DEF WriteExclusions
<1>15. CASE PrepareFails
  BY <1>15 DEF PrepareFails
<1>16. CASE UndoMount
  BY <1>16 DEF UndoMount
<1>17. CASE UndoSnapshot
  BY <1>17 DEF UndoSnapshot
<1>18. CASE UndoExclusions
  BY <1>18 DEF UndoExclusions, Fails
<1>19. CASE UndoFails
  BY <1>19 DEF UndoFails, Fails
<1>20. CASE ResticReads
  BY <1>20 DEF ResticReads, Readable
<1>21. CASE ResticStores
  BY <1>21 DEF ResticStores
<1>22. CASE ResticFails
  BY <1>22 DEF ResticFails, Fails
<1>23. CASE PrintMarker
  BY <1>23 DEF PrintMarker
<1>24. CASE MarkerFails
  BY <1>24 DEF MarkerFails, Fails
<1>25. CASE Killed
  BY <1>25 DEF Killed, Fails, StopFails
<1>26. CASE RemoveExclusions
  BY <1>26 DEF RemoveExclusions
<1>27. CASE StartReconcile
  BY <1>27 DEF StartReconcile
<1>28. CASE PowerLoss
  BY <1>28 DEF PowerLoss
<1>29. CASE AskInvocation \/ AskResult \/ AskJournal
  BY <1>29 DEF AskInvocation, AskResult, AskJournal
<1>30. CASE UNCHANGED vars
  BY <1>30 DEF vars
<1>31. QED
  BY <1>1, <1>2, <1>3, <1>4, <1>5, <1>6, <1>7, <1>8, <1>9, <1>10, <1>11, <1>12, <1>13, <1>14,
     <1>15, <1>16, <1>17, <1>18, <1>19, <1>20, <1>21, <1>22, <1>23, <1>24, <1>25, <1>26,
     <1>27, <1>28, <1>29, <1>30, <1>0
     DEF Next, BackupUnit, Prepare, Backup, Reconcile, Report, Units

\* Every step keeps the end of an activation honest: it succeeds only past a complete cleanup.
LEMMA EndNext ==
  ASSUME UnitsTypeOK, SourceInv, EndInv, [Next]_vars
  PROVE  EndInv'
<1> USE BackupAssumption DEF UnitsTypeOK, SourceInv, EndInv, Units, Runs, ReconcilePcs, BackupPcs, Goes
<1>0. CASE PlayerLinks
  BY <1>0 DEF PlayerLinks
<1>1. ASSUME NEW u \in Units, LookMount(u)
      PROVE  EndInv'
  BY <1>1 DEF LookMount
<1>2. ASSUME NEW u \in Units, Umount(u)
      PROVE  EndInv'
  BY <1>2 DEF Umount
<1>3. ASSUME NEW u \in Units, RemoveDir(u)
      PROVE  EndInv'
  BY <1>3 DEF RemoveDir
<1>4. ASSUME NEW u \in Units, LookSnapshot(u)
      PROVE  EndInv'
  BY <1>4 DEF LookSnapshot, AfterReconcile
<1>5. ASSUME NEW u \in Units, DeleteSnapshot(u)
      PROVE  EndInv'
  BY <1>5 DEF DeleteSnapshot, AfterReconcile
<1>6. ASSUME NEW u \in Units, ReconcileFails(u)
      PROVE  EndInv'
  BY <1>6 DEF ReconcileFails, Fails, StopFails
<1>7. CASE Activate
  BY <1>7 DEF Activate
<1>8. CASE OpenRepository
  BY <1>8 DEF OpenRepository
<1>9. CASE RepositoryFails
  BY <1>9 DEF RepositoryFails, Fails
<1>10. CASE TakeSnapshot
  BY <1>10 DEF TakeSnapshot
<1>11. CASE MakeDir
  BY <1>11 DEF MakeDir
<1>12. CASE BindSnapshot
  BY <1>12 DEF BindSnapshot
<1>13. CASE Remount
  BY <1>13 DEF Remount
<1>14. CASE WriteExclusions
  BY <1>14 DEF WriteExclusions
<1>15. CASE PrepareFails
  BY <1>15 DEF PrepareFails
<1>16. CASE UndoMount
  BY <1>16 DEF UndoMount
<1>17. CASE UndoSnapshot
  BY <1>17 DEF UndoSnapshot
<1>18. CASE UndoExclusions
  BY <1>18 DEF UndoExclusions, Fails
<1>19. CASE UndoFails
  BY <1>19 DEF UndoFails, Fails
<1>20. CASE ResticReads
  BY <1>20 DEF ResticReads, Readable
<1>21. CASE ResticStores
  BY <1>21 DEF ResticStores
<1>22. CASE ResticFails
  BY <1>22 DEF ResticFails, Fails
<1>23. CASE PrintMarker
  BY <1>23 DEF PrintMarker
<1>24. CASE MarkerFails
  BY <1>24 DEF MarkerFails, Fails
<1>25. CASE Killed
  BY <1>25 DEF Killed, Fails, StopFails
<1>26. CASE RemoveExclusions
  BY <1>26 DEF RemoveExclusions
<1>27. CASE StartReconcile
  BY <1>27 DEF StartReconcile
<1>28. CASE PowerLoss
  BY <1>28 DEF PowerLoss
<1>29. CASE AskInvocation \/ AskResult \/ AskJournal
  BY <1>29 DEF AskInvocation, AskResult, AskJournal
<1>30. CASE UNCHANGED vars
  BY <1>30 DEF vars
<1>31. QED
  BY <1>1, <1>2, <1>3, <1>4, <1>5, <1>6, <1>7, <1>8, <1>9, <1>10, <1>11, <1>12, <1>13, <1>14,
     <1>15, <1>16, <1>17, <1>18, <1>19, <1>20, <1>21, <1>22, <1>23, <1>24, <1>25, <1>26,
     <1>27, <1>28, <1>29, <1>30, <1>0
     DEF Next, BackupUnit, Prepare, Backup, Reconcile, Report, Units

\* Every step keeps the journal's markers, and the report's successes, to stored backups.
LEMMA EvidenceNext ==
  ASSUME UnitsTypeOK, EndInv, EvidenceInv, [Next]_vars
  PROVE  EvidenceInv'
<1> USE DEF UnitsTypeOK, EndInv, EvidenceInv, Units, ReconcilePcs, BackupPcs, Goes
<1>0. CASE PlayerLinks
  BY <1>0 DEF PlayerLinks
<1>1. ASSUME NEW u \in Units, LookMount(u)
      PROVE  EvidenceInv'
  BY <1>1 DEF LookMount
<1>2. ASSUME NEW u \in Units, Umount(u)
      PROVE  EvidenceInv'
  BY <1>2 DEF Umount
<1>3. ASSUME NEW u \in Units, RemoveDir(u)
      PROVE  EvidenceInv'
  BY <1>3 DEF RemoveDir
<1>4. ASSUME NEW u \in Units, LookSnapshot(u)
      PROVE  EvidenceInv'
  BY <1>4 DEF LookSnapshot, AfterReconcile
<1>5. ASSUME NEW u \in Units, DeleteSnapshot(u)
      PROVE  EvidenceInv'
  BY <1>5 DEF DeleteSnapshot, AfterReconcile
<1>6. ASSUME NEW u \in Units, ReconcileFails(u)
      PROVE  EvidenceInv'
  BY <1>6 DEF ReconcileFails, Fails, StopFails
<1>7. CASE Activate
  BY <1>7 DEF Activate
<1>8. CASE OpenRepository
  BY <1>8 DEF OpenRepository
<1>9. CASE RepositoryFails
  BY <1>9 DEF RepositoryFails, Fails
<1>10. CASE TakeSnapshot
  BY <1>10 DEF TakeSnapshot
<1>11. CASE MakeDir
  BY <1>11 DEF MakeDir
<1>12. CASE BindSnapshot
  BY <1>12 DEF BindSnapshot
<1>13. CASE Remount
  BY <1>13 DEF Remount
<1>14. CASE WriteExclusions
  BY <1>14 DEF WriteExclusions
<1>15. CASE PrepareFails
  BY <1>15 DEF PrepareFails
<1>16. CASE UndoMount
  BY <1>16 DEF UndoMount
<1>17. CASE UndoSnapshot
  BY <1>17 DEF UndoSnapshot
<1>18. CASE UndoExclusions
  BY <1>18 DEF UndoExclusions, Fails
<1>19. CASE UndoFails
  BY <1>19 DEF UndoFails, Fails
<1>20. CASE ResticReads
  BY <1>20 DEF ResticReads, Readable
<1>21. CASE ResticStores
  BY <1>21 DEF ResticStores
<1>22. CASE ResticFails
  BY <1>22 DEF ResticFails, Fails
<1>23. CASE PrintMarker
  BY <1>23 DEF PrintMarker
<1>24. CASE MarkerFails
  BY <1>24 DEF MarkerFails, Fails
<1>25. CASE Killed
  BY <1>25 DEF Killed, Fails, StopFails
<1>26. CASE RemoveExclusions
  BY <1>26 DEF RemoveExclusions
<1>27. CASE StartReconcile
  BY <1>27 DEF StartReconcile
<1>28. CASE PowerLoss
  BY <1>28 DEF PowerLoss
<1>29. CASE AskJournal
  BY <1>29 DEF AskJournal, Healthy
<1>30. CASE AskInvocation \/ AskResult
  BY <1>30 DEF AskInvocation, AskResult
<1>31. CASE UNCHANGED vars
  BY <1>31 DEF vars
<1>32. QED
  BY <1>1, <1>2, <1>3, <1>4, <1>5, <1>6, <1>7, <1>8, <1>9, <1>10, <1>11, <1>12, <1>13, <1>14,
     <1>15, <1>16, <1>17, <1>18, <1>19, <1>20, <1>21, <1>22, <1>23, <1>24, <1>25, <1>26,
     <1>27, <1>28, <1>29, <1>30, <1>31, <1>0
     DEF Next, BackupUnit, Prepare, Backup, Reconcile, Report, Units

\* Every step keeps what restic leaves out to where the cache paths of its own source lead.
LEMMA LinksNext ==
  ASSUME UnitsTypeOK, LinksTypeOK, SourceInv, RootsAreKept, [Next]_vars
  PROVE  LinksTypeOK' /\ RootsAreKept'
<1> USE DEF UnitsTypeOK, Units, Goes, LinksTypeOK, RootsAreKept, Readable
<1>0. CASE PlayerLinks
  <2>1. links' \in [Cache -> Place] /\ linkings' \in 0..MaxLinks
    BY <1>0, BackupAssumption DEF PlayerLinks
  <2>2. QED
    BY <1>0, <2>1 DEF PlayerLinks
<1>1. CASE WriteExclusions /\ UNCHANGED home
  <2>1. Resolved \in [Cache -> Place] /\ (Readable => Resolved = held)
    BY CacheAssumption DEF Resolved
  <2>2. Places(Resolved) \subseteq Place /\ Places(Resolved) \cap Root = {}
    BY <1>1, <2>1 DEF WriteExclusions, Acceptable, Places
  <2>3. UNCHANGED <<home, held, snapshot, bind, source>> /\ dropped' = Places(Resolved)
    BY <1>1 DEF WriteExclusions, Next
  <2>4. Readable' => dropped' = Places(held)'
    BY <2>1, <2>3 DEF Places
  <2>5. QED
    BY <2>2, <2>3, <2>4
<1>2. CASE (TakeSnapshot \/ UndoExclusions \/ RemoveExclusions \/ PowerLoss) /\ UNCHANGED home
  BY <1>2 DEF TakeSnapshot, UndoExclusions, Fails, RemoveExclusions, PowerLoss
<1>3. ASSUME UNCHANGED <<home, exclusions, snapshot, bind, source>>,
             pc'["backup"] # "restic" \/ pc'["backup"] = pc["backup"]
      PROVE  LinksTypeOK' /\ RootsAreKept'
  BY <1>3
<1>4. ASSUME UNCHANGED <<home, exclusions>>, pc'["backup"] # "restic"
      PROVE  LinksTypeOK' /\ RootsAreKept'
  BY <1>4
<1>5. ASSUME NEW u \in Units, Umount(u) \/ DeleteSnapshot(u), UNCHANGED home
      PROVE  LinksTypeOK' /\ RootsAreKept'
  <2>1. UNCHANGED exclusions /\ ~Readable'
    BY <1>5 DEF Umount, DeleteSnapshot, SourceInv
  <2>2. QED
    BY <1>5, <2>1
<1>6. ASSUME NEW u \in Units, LookMount(u) \/ RemoveDir(u) \/ LookSnapshot(u) \/ ReconcileFails(u),
             UNCHANGED home
      PROVE  LinksTypeOK' /\ RootsAreKept'
  BY <1>3, <1>6
     DEF LookMount, RemoveDir, LookSnapshot, AfterReconcile, ReconcileFails, Fails, StopFails
<1>7. CASE /\ Activate \/ OpenRepository \/ RepositoryFails \/ MakeDir \/ PrepareFails \/ UndoFails
           /\ UNCHANGED home
  BY <1>3, <1>7 DEF Activate, OpenRepository, RepositoryFails, MakeDir, PrepareFails, UndoFails, Fails
<1>8. CASE (BindSnapshot \/ Remount \/ UndoMount \/ UndoSnapshot) /\ UNCHANGED home
  BY <1>4, <1>8 DEF BindSnapshot, Remount, UndoMount, UndoSnapshot
<1>9. CASE /\ ResticReads \/ ResticStores \/ ResticFails \/ PrintMarker \/ MarkerFails \/ Killed
           /\ UNCHANGED home
  BY <1>3, <1>9
     DEF ResticReads, ResticStores, ResticFails, PrintMarker, MarkerFails, Killed, Fails, StopFails
<1>10. CASE (StartReconcile \/ Report) /\ UNCHANGED home
  BY <1>3, <1>10 DEF StartReconcile, Report, AskInvocation, AskResult, AskJournal
<1>11. CASE UNCHANGED vars
  BY <1>3, <1>11 DEF vars
<1>12. QED
  BY <1>0, <1>1, <1>2, <1>5, <1>6, <1>7, <1>8, <1>9, <1>10, <1>11
     DEF Next, BackupUnit, Prepare, Backup, Reconcile, Units

-----------------------------------------------------------------------------
(* The other side of the finding: whose failure is told.                   *)

\* Every step keeps the failed activations among those begun, and the last one's in its result.
LEMMA FailedNext ==
  ASSUME UnitsTypeOK, EndInv, FailedInv, [Next]_vars
  PROVE  FailedInv'
<1> USE BackupAssumption DEF UnitsTypeOK, EndInv, FailedInv, Runs
<1>1. CASE UNCHANGED <<runs, inv, result, failed>>
  BY <1>1
<1>2. CASE Activate
  BY <1>2 DEF Activate
<1>3. CASE PowerLoss
  BY <1>3 DEF PowerLoss
<1>4. CASE /\ pc["backup"] # "idle"
           /\ UNCHANGED <<runs, inv>> /\ result' = "failed" /\ failed' = failed \cup {inv}
  BY <1>4
<1>5. \/ UNCHANGED <<runs, inv, result, failed>> \/ Activate \/ PowerLoss
      \/ /\ pc["backup"] # "idle"
         /\ UNCHANGED <<runs, inv>> /\ result' = "failed" /\ failed' = failed \cup {inv}
  <2> USE DEF Goes, Fails, StopFails
  <2>1. ASSUME NEW u \in Units, Reconcile(u)
        PROVE  \/ UNCHANGED <<runs, inv, result, failed>>
               \/ /\ pc["backup"] # "idle"
                  /\ UNCHANGED <<runs, inv>> /\ result' = "failed" /\ failed' = failed \cup {inv}
    BY <2>1
    DEF Reconcile, LookMount, Umount, RemoveDir, LookSnapshot, DeleteSnapshot, ReconcileFails,
        Units
  <2>2. CASE Prepare
    BY <2>2
    DEF Prepare, OpenRepository, RepositoryFails, TakeSnapshot, MakeDir, BindSnapshot, Remount,
        WriteExclusions, PrepareFails, UndoMount, UndoSnapshot, UndoExclusions, UndoFails
  <2>3. CASE Backup
    BY <2>3
    DEF Backup, ResticReads, ResticStores, ResticFails, PrintMarker, MarkerFails, Killed,
        RemoveExclusions
  <2>4. CASE StartReconcile \/ Report \/ PlayerLinks \/ UNCHANGED vars
    BY <2>4
    DEF StartReconcile, Report, AskInvocation, AskResult, AskJournal, PlayerLinks, vars
  <2>5. QED
    BY <2>1, <2>2, <2>3, <2>4 DEF Next, BackupUnit, Units
<1>6. QED
  BY <1>1, <1>2, <1>3, <1>4, <1>5

-----------------------------------------------------------------------------
(* The theorems.                                                           *)

\* The inductive invariant holds initially.
LEMMA BackupInit == Init => BackupInv
<1> SUFFICES ASSUME Init PROVE BackupInv
  OBVIOUS
<1>1. UnitsTypeOK
  BY TypingInit
<1>2. LinksTypeOK
  BY BackupAssumption, CacheAssumption DEF Init, LinksTypeOK
<1>3. SourceInv /\ EndInv /\ EvidenceInv /\ RootsAreKept
  BY DEF Init, SourceInv, EndInv, EvidenceInv, RootsAreKept, Units
<1>4. QED
  BY <1>1, <1>2, <1>3 DEF BackupInv, TypeOK

\* The invariant is inductive.
LEMMA BackupNext == BackupInv /\ [Next]_vars => BackupInv'
BY TypingNext, SourceNext, EndNext, EvidenceNext, LinksNext DEF BackupInv, TypeOK

\* The inductive invariant, types included.
THEOREM BackupInvariant == Spec => []BackupInv
BY BackupInit, BackupNext, PTL DEF Spec

\* Every variable keeps to its range.
THEOREM TypeCorrect == Spec => []TypeOK
<1>1. BackupInv => TypeOK
  BY DEF BackupInv
<1>2. QED
  BY <1>1, BackupInvariant, PTL

\* Whatever earlier activations left behind, and whenever the reconcile unit runs, restic finds
\* its own activation's snapshot, read-only, or nothing.
THEOREM SourceIsFresh == Spec => []FreshSource
<1>1. BackupInv => FreshSource
  BY DEF BackupInv, TypeOK, UnitsTypeOK, SourceInv, FreshSource
<1>2. QED
  BY <1>1, BackupInvariant, PTL

\* The links that the player turns while a backup is prepared leave restic what it is to keep: the
\* exclusions it is given are those of the snapshot it reads.
THEOREM RootsStayIn == Spec => []RootsAreKept
<1>1. BackupInv => RootsAreKept
  BY DEF BackupInv
<1>2. QED
  BY <1>1, BackupInvariant, PTL

\* What an activation leaves behind shows in its result.
THEOREM LeftoversShow == Spec => []NothingLeft
<1>1. BackupInv => NothingLeft
  BY DEF BackupInv, EndInv, NothingLeft, Units
<1>2. QED
  BY <1>1, BackupInvariant, PTL

\* A backup that is reported as a success is in the repository.
THEOREM SuccessIsStored == Spec => []OkMeansStored
<1>1. BackupInv => OkMeansStored
  BY DEF BackupInv, EvidenceInv, OkMeansStored
<1>2. QED
  BY <1>1, BackupInvariant, PTL

\* A failure is told to every report that asks for its result before another activation begins:
\* the finding needs one that begins between the report's two queries.
THEOREM OwnFailuresAreTold == Spec => OwnFailureIsTold
<1>1. Init => FailedInv
  BY BackupAssumption DEF Init, FailedInv
<1>2. BackupInv /\ FailedInv /\ [Next]_vars => FailedInv'
  BY FailedNext DEF BackupInv, TypeOK
<1>3. FailedInv =>
        [AskResult /\ askInv = inv /\ askInv \in failed => askResult' = "failed"]_vars
  BY DEF FailedInv, AskResult
<1>4. QED
  BY <1>1, <1>2, <1>3, BackupInvariant, PTL DEF Spec, OwnFailureIsTold
=============================================================================
