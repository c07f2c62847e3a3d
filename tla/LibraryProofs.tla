---------------------------- MODULE LibraryProofs ----------------------------
(* Theorems about Library, for any folders, scrape commands and bounds.    *)
EXTENDS Library, TLAPS

(* Typing.                                                                 *)

Typing == TypeOK /\ InHand

USE DEF files, disk, scrapeVars, genVars, sessionVars

\* Every variable starts within its range.
LEMMA TypingInit == Init => Typing
<1> SUFFICES ASSUME Init PROVE Typing
  OBVIOUS
<1> USE DEF Init
<1>1. InHand
  BY DEF InHand, ScrapeInHand, GenInHand
<1>2. NoFetches \in [Folder -> Nat] /\ NoOutcomes \in [Folder -> Fetches \cup {None}]
  BY DEF NoFetches, NoFetch, NoOutcomes
<1>3. outcome \in [Folder -> Outcomes] /\ result \in Results
  BY DEF NoOutcomes, Outcomes, Results
<1>4. gamelist \in [Folder -> [edits : Nat, parses : BOOLEAN]]
  OBVIOUS
<1>5. /\ scrapePc \in [Scraper -> ScrapePcs]
      /\ scrapeTodo \in [Scraper -> SUBSET Folder]
      /\ scrapeCur \in [Scraper -> Folder \cup {None}]
      /\ scrapeOut \in [Scraper -> [Folder -> Fetches \cup {None}]]
  BY <1>2 DEF ScrapePcs
<1>6. child \in [Launcher -> {"none", "attached", "orphan"}]
  OBVIOUS
<1>7. genPc \in GenPcs /\ sesPc \in SesPcs
  BY DEF GenPcs, SesPcs
<1>8. QED
  BY <1>1, <1>2, <1>3, <1>4, <1>5, <1>6, <1>7 DEF Typing, TypeOK

\* A step of a scrape command keeps every variable within its range.
LEMMA ScrapeTyping ==
  ASSUME NEW s \in Scraper, Typing, Scrape(s)
  PROVE  Typing'
<1> USE LibraryAssumption
    DEF Typing, TypeOK, InHand, NoOutcomes, Outcomes, Fetches, Settled, Results, ScrapePcs,
        ScrapeInHand, GenInHand, Launcher, None, ScrapeGoes, ScrapeEnds, ScrapeNotes, ScrapeTakes
<1>1. CASE ScrapeLock(s)
  BY <1>1 DEF ScrapeLock
<1>2. CASE ScrapeRefuse(s)
  BY <1>2 DEF ScrapeRefuse
<1>3. CASE ScrapeRecordRefusal(s)
  BY <1>3 DEF ScrapeRecordRefusal, CarriedOutcomes
<1>4. CASE ScrapeDiscover(s)
  BY <1>4 DEF ScrapeDiscover
<1>5. ASSUME NEW f \in Folder, ScrapePassOver(s, f)
      PROVE  Typing'
  BY <1>5 DEF ScrapePassOver
<1>6. ASSUME NEW f \in Folder, ScrapeSpawn(s, f)
      PROVE  Typing'
  BY <1>6 DEF ScrapeSpawn
<1>7. CASE ScrapeFetched(s)
  BY <1>7 DEF ScrapeFetched
<1>8. CASE ScrapeFetchFails(s)
  BY <1>8 DEF ScrapeFetchFails
<1>9. CASE ScrapeRevise(s)
  BY <1>9 DEF ScrapeRevise
<1>10. CASE ScrapeMark(s)
  BY <1>10 DEF ScrapeMark
<1>11. CASE ScrapeNote(s)
  BY <1>11 DEF ScrapeNote
<1>12. CASE ScrapeSettle(s)
  BY <1>12 DEF ScrapeSettle
<1>13. CASE ScrapeRecord(s)
  BY <1>13 DEF ScrapeRecord, RunResult
<1>14. CASE ScrapeInterrupt(s)
  BY <1>14 DEF ScrapeInterrupt, Armed
<1>15. CASE ScrapeRecordInterrupted(s)
  BY <1>15 DEF ScrapeRecordInterrupted, CarriedOutcomes
<1>16. CASE ScrapeDies(s)
  BY <1>16 DEF ScrapeDies, Abandoned
<1>17. QED
  BY <1>1, <1>2, <1>3, <1>4, <1>5, <1>6, <1>7, <1>8, <1>9, <1>10, <1>11, <1>12, <1>13,
     <1>14, <1>15, <1>16 DEF Scrape

\* A step of the generator keeps every variable within its range.
LEMMA GeneratorTyping ==
  ASSUME Typing, Generator
  PROVE  Typing'
<1> USE LibraryAssumption
    DEF Typing, TypeOK, InHand, Outcomes, Fetches, Settled, GenPcs, SesPcs,
        GenInHand, ScrapeInHand, Launcher, None, NoFetch, NoFetches, NoOutcomes,
        GenGoes, GenEnds, GenSettles, GenTakes
<1>1. CASE GenRefused
  BY <1>1 DEF GenRefused
<1>2. CASE GenLock
  BY <1>2 DEF GenLock
<1>3. CASE GenPlan
  BY <1>3 DEF GenPlan
<1>4. ASSUME NEW f \in Folder, GenPassOver(f)
      PROVE  Typing'
  BY <1>4 DEF GenPassOver
<1>5. ASSUME NEW f \in Folder, GenCopy(f)
      PROVE  Typing'
  BY <1>5 DEF GenCopy
<1>6. CASE GenSpawn
  BY <1>6 DEF GenSpawn
<1>7. CASE GenInvoked
  BY <1>7 DEF GenInvoked
<1>8. CASE GenFails
  BY <1>8 DEF GenFails
<1>9. CASE GenPublish
  BY <1>9 DEF GenPublish
<1>10. CASE GenRecord
  BY <1>10 DEF GenRecord
<1>11. CASE GenUnmark
  BY <1>11 DEF GenUnmark
<1>12. CASE GenExit
  BY <1>12 DEF GenExit
<1>13. CASE GenUnwound
  BY <1>13 DEF GenUnwound
<1>14. CASE GenTerminated
  BY <1>14 DEF GenTerminated, GenSignalled
<1>15. CASE GenDies
  BY <1>15 DEF GenDies, Abandoned
<1>16. QED
  BY <1>1, <1>2, <1>3, <1>4, <1>5, <1>6, <1>7, <1>8, <1>9, <1>10, <1>11, <1>12, <1>13,
     <1>14, <1>15 DEF Generator, GenWork

\* A step of the session keeps every variable within its range.
LEMMA SessionTyping ==
  ASSUME Typing, SessionStep
  PROVE  Typing'
<1> USE LibraryAssumption
    DEF Typing, TypeOK, InHand, Outcomes, Fetches, Settled, GenPcs, SesPcs,
        GenInHand, ScrapeInHand, Launcher, None, NoFetch, NoFetches, NoOutcomes,
        SesGoes
<1>1. CASE CaptureLock
  BY <1>1 DEF CaptureLock
<1>2. CASE CaptureFails
  BY <1>2 DEF CaptureFails
<1>3. CASE CaptureRevisions
  BY <1>3 DEF CaptureRevisions
<1>4. CASE CapturePending
  BY <1>4 DEF CapturePending
<1>5. CASE OpenWindow
  BY <1>5 DEF OpenWindow
<1>6. CASE WindowFails
  BY <1>6 DEF WindowFails
<1>7. CASE WindowCloses
  BY <1>7 DEF WindowCloses
<1>8. CASE WindowExpires
  BY <1>8 DEF WindowExpires, GenSignalled, GenEnds
<1>9. CASE CleanupLock
  BY <1>9 DEF CleanupLock
<1>10. CASE CleanupRevisions
  BY <1>10 DEF CleanupRevisions
<1>11. ASSUME NEW f \in Folder, CleanupSpare(f)
      PROVE  Typing'
  BY <1>11 DEF CleanupSpare
<1>12. ASSUME NEW f \in Folder, CleanupRecord(f)
      PROVE  Typing'
  BY <1>12 DEF CleanupRecord
<1>13. CASE CleanupUnmark
  BY <1>13 DEF CleanupUnmark
<1>14. CASE CleanupDone
  BY <1>14 DEF CleanupDone
<1>15. CASE CleanupFails
  BY <1>15 DEF CleanupFails
<1>16. QED
  BY <1>1, <1>2, <1>3, <1>4, <1>5, <1>6, <1>7, <1>8, <1>9, <1>10, <1>11, <1>12, <1>13,
     <1>14, <1>15 DEF SessionStep

Surroundings ==
  \/ \E f \in Folder : FrontendWrites(f)
  \/ FrontendExits
  \/ SessionReplaced
  \/ \E f \in Folder : FamilyChangesRoms(f)
  \/ \E p \in Launcher : OrphanEnds(p)
  \/ PowerLoss

\* A step of the surroundings keeps every variable within its range.
LEMMA SurroundingsTyping ==
  ASSUME Typing, Surroundings
  PROVE  Typing'
<1> USE LibraryAssumption
    DEF Typing, TypeOK, InHand, Outcomes, Fetches, Settled, GenPcs, SesPcs,
        GenInHand, ScrapeInHand, Launcher, None, NoFetch, NoFetches, NoOutcomes
<1>1. ASSUME NEW f \in Folder, FrontendWrites(f)
      PROVE  Typing'
  BY <1>1 DEF FrontendWrites
<1>2. CASE FrontendExits
  BY <1>2 DEF FrontendExits, NewIteration
<1>3. CASE SessionReplaced
  <2> USE <1>3 DEF SessionReplaced, NewIteration, GenSignalled
  <2>1. CASE genPc \in {"invoking", "ending"}
    BY <2>1
  <2>2. CASE genPc \notin {"invoking", "ending"}
    <3>1. GenEnds
      BY <2>2
    <3>2. InHand'
      BY <3>1 DEF GenEnds
    <3>3. revs' \in [Folder -> Nat] /\ batch' \in [Folder -> Nat]
      OBVIOUS
    <3>4. QED
      BY <3>1, <3>2, <3>3 DEF GenEnds
  <2>3. QED
    BY <2>1, <2>2
<1>4. ASSUME NEW f \in Folder, FamilyChangesRoms(f)
      PROVE  Typing'
  BY <1>4 DEF FamilyChangesRoms
<1>5. ASSUME NEW p \in Launcher, OrphanEnds(p)
      PROVE  Typing'
  BY <1>5 DEF OrphanEnds
<1>6. CASE PowerLoss
  <2> USE <1>6 DEF PowerLoss, NewIteration
  <2>1. NoFetches \in [Folder -> Nat] /\ NoOutcomes \in [Folder -> Fetches \cup {None}]
    OBVIOUS
  <2>2. /\ scrapePc' \in [Scraper -> ScrapePcs]
        /\ scrapeTodo' \in [Scraper -> SUBSET Folder]
        /\ scrapeCur' \in [Scraper -> Folder \cup {None}]
        /\ scrapeOut' \in [Scraper -> [Folder -> Fetches \cup {None}]]
    BY <2>1 DEF ScrapePcs
  <2>3. child' \in [Launcher -> {"none", "attached", "orphan"}]
    OBVIOUS
  <2>4. InHand'
    BY DEF GenEnds
  <2>5. QED
    BY <2>1, <2>2, <2>3, <2>4 DEF GenEnds
<1>7. QED
  BY <1>1, <1>2, <1>3, <1>4, <1>5, <1>6 DEF Surroundings

\* A step is one of four actors'.
LEMMA NextCases ==
  Next <=> (\E s \in Scraper : Scrape(s)) \/ Generator \/ SessionStep \/ Surroundings
BY DEF Next, Surroundings

\* Stuttering changes no type.
LEMMA TypingStutter == Typing /\ UNCHANGED vars => Typing'
BY DEF Typing, TypeOK, InHand, vars

\* Every step keeps every variable within its range.
LEMMA TypingNext == Typing /\ [Next]_vars => Typing'
BY ScrapeTyping, GeneratorTyping, SessionTyping, SurroundingsTyping, TypingStutter, NextCases

\* Every variable keeps to its range, and every control point that works on a folder has one.
THEOREM TypeCorrect == Spec => [](TypeOK /\ InHand)
<1>1. Init => Typing
  BY TypingInit
<1>2. Typing /\ [Next]_vars => Typing'
  BY TypingNext
<1>3. QED
  BY <1>1, <1>2, PTL DEF Spec, Typing
-----------------------------------------------------------------------------
(* The claim.                                                              *)

\* Nobody comes to keep the claim held who did not before.
Shrinks == \A p \in Proc : Pins(p)' => Pins(p)

\* Whoever takes the claim found it free, and is the only one to keep it held.
Taken == ClaimFree /\ \E p \in Proc : \A q \in Proc : Pins(q)' => q = p

ClaimStep == Shrinks \/ Taken

\* A step of a scrape command leaves at most one holder of the claim.
LEMMA ScrapeClaimStep ==
  ASSUME NEW s \in Scraper, Typing, Scrape(s)
  PROVE  ClaimStep
<1> USE LibraryAssumption
    DEF Typing, TypeOK, ClaimStep, Shrinks, Pins, Claims, Proc, Launcher, ScrapeGoes, ScrapeEnds
<1>1. CASE ScrapeLock(s)
  BY <1>1 DEF ScrapeLock, Taken, ClaimFree
<1>2. CASE ScrapeRefuse(s)
  BY <1>2 DEF ScrapeRefuse
<1>3. CASE ScrapeRecordRefusal(s)
  BY <1>3 DEF ScrapeRecordRefusal
<1>4. CASE ScrapeDiscover(s)
  BY <1>4 DEF ScrapeDiscover
<1>5. ASSUME NEW f \in Folder, ScrapePassOver(s, f)
      PROVE  ClaimStep
  BY <1>5 DEF ScrapePassOver
<1>6. ASSUME NEW f \in Folder, ScrapeSpawn(s, f)
      PROVE  ClaimStep
  BY <1>6 DEF ScrapeSpawn
<1>7. CASE ScrapeFetched(s)
  BY <1>7 DEF ScrapeFetched
<1>8. CASE ScrapeFetchFails(s)
  BY <1>8 DEF ScrapeFetchFails
<1>9. CASE ScrapeRevise(s)
  BY <1>9 DEF ScrapeRevise
<1>10. CASE ScrapeMark(s)
  BY <1>10 DEF ScrapeMark
<1>11. CASE ScrapeNote(s)
  BY <1>11 DEF ScrapeNote
<1>12. CASE ScrapeSettle(s)
  BY <1>12 DEF ScrapeSettle
<1>13. CASE ScrapeRecord(s)
  BY <1>13 DEF ScrapeRecord
<1>14. CASE ScrapeInterrupt(s)
  BY <1>14 DEF ScrapeInterrupt, Armed
<1>15. CASE ScrapeRecordInterrupted(s)
  BY <1>15 DEF ScrapeRecordInterrupted
<1>16. CASE ScrapeDies(s)
  BY <1>16 DEF ScrapeDies, Abandoned
<1>17. QED
  BY <1>1, <1>2, <1>3, <1>4, <1>5, <1>6, <1>7, <1>8, <1>9, <1>10, <1>11, <1>12, <1>13,
     <1>14, <1>15, <1>16 DEF Scrape

\* A step of the generator leaves at most one holder of the claim.
LEMMA GeneratorClaimStep ==
  ASSUME Typing, Generator
  PROVE  ClaimStep
<1> USE LibraryAssumption
    DEF Typing, TypeOK, ClaimStep, Shrinks, Pins, Claims, Proc, Launcher, GenGoes, GenEnds,
        GenSettles, GenTakes
<1>1. CASE GenRefused
  BY <1>1 DEF GenRefused
<1>2. CASE GenLock
  BY <1>2 DEF GenLock, Taken, ClaimFree
<1>3. CASE GenPlan
  BY <1>3 DEF GenPlan
<1>4. ASSUME NEW f \in Folder, GenPassOver(f)
      PROVE  ClaimStep
  BY <1>4 DEF GenPassOver
<1>5. ASSUME NEW f \in Folder, GenCopy(f)
      PROVE  ClaimStep
  BY <1>5 DEF GenCopy
<1>6. CASE GenSpawn
  BY <1>6 DEF GenSpawn
<1>7. CASE GenInvoked
  BY <1>7 DEF GenInvoked
<1>8. CASE GenFails
  BY <1>8 DEF GenFails
<1>9. CASE GenPublish
  BY <1>9 DEF GenPublish
<1>10. CASE GenRecord
  BY <1>10 DEF GenRecord
<1>11. CASE GenUnmark
  BY <1>11 DEF GenUnmark
<1>12. CASE GenExit
  BY <1>12 DEF GenExit
<1>13. CASE GenUnwound
  BY <1>13 DEF GenUnwound
<1>14. CASE GenTerminated
  BY <1>14 DEF GenTerminated, GenSignalled
<1>15. CASE GenDies
  BY <1>15 DEF GenDies, Abandoned
<1>16. QED
  BY <1>1, <1>2, <1>3, <1>4, <1>5, <1>6, <1>7, <1>8, <1>9, <1>10, <1>11, <1>12, <1>13,
     <1>14, <1>15 DEF Generator, GenWork

\* A step of the session leaves at most one holder of the claim.
LEMMA SessionClaimStep ==
  ASSUME Typing, SessionStep
  PROVE  ClaimStep
<1> USE LibraryAssumption
    DEF Typing, TypeOK, ClaimStep, Shrinks, Pins, Claims, Proc, Launcher, SesGoes, SesLocked
<1>1. CASE CaptureLock
  BY <1>1 DEF CaptureLock, Taken, ClaimFree
<1>2. CASE CaptureFails
  BY <1>2 DEF CaptureFails
<1>3. CASE CaptureRevisions
  BY <1>3 DEF CaptureRevisions
<1>4. CASE CapturePending
  BY <1>4 DEF CapturePending
<1>5. CASE OpenWindow
  BY <1>5 DEF OpenWindow
<1>6. CASE WindowFails
  BY <1>6 DEF WindowFails
<1>7. CASE WindowCloses
  BY <1>7 DEF WindowCloses
<1>8. CASE WindowExpires
  BY <1>8 DEF WindowExpires, GenSignalled, GenEnds
<1>9. CASE CleanupLock
  BY <1>9 DEF CleanupLock, Taken, ClaimFree
<1>10. CASE CleanupRevisions
  BY <1>10 DEF CleanupRevisions
<1>11. ASSUME NEW f \in Folder, CleanupSpare(f)
      PROVE  ClaimStep
  BY <1>11 DEF CleanupSpare
<1>12. ASSUME NEW f \in Folder, CleanupRecord(f)
      PROVE  ClaimStep
  BY <1>12 DEF CleanupRecord
<1>13. CASE CleanupUnmark
  BY <1>13 DEF CleanupUnmark
<1>14. CASE CleanupDone
  BY <1>14 DEF CleanupDone
<1>15. CASE CleanupFails
  BY <1>15 DEF CleanupFails
<1>16. QED
  BY <1>1, <1>2, <1>3, <1>4, <1>5, <1>6, <1>7, <1>8, <1>9, <1>10, <1>11, <1>12, <1>13,
     <1>14, <1>15 DEF SessionStep

\* A step of the surroundings leaves at most one holder of the claim.
LEMMA SurroundingsClaimStep ==
  ASSUME Typing, Surroundings
  PROVE  ClaimStep
<1> USE LibraryAssumption
    DEF Typing, TypeOK, ClaimStep, Shrinks, Pins, Claims, Proc, Launcher, SesLocked
<1>1. ASSUME NEW f \in Folder, FrontendWrites(f)
      PROVE  ClaimStep
  BY <1>1 DEF FrontendWrites
<1>2. CASE FrontendExits
  BY <1>2 DEF FrontendExits, NewIteration
<1>3. CASE SessionReplaced
  BY <1>3 DEF SessionReplaced, NewIteration, GenSignalled, GenEnds
<1>4. ASSUME NEW f \in Folder, FamilyChangesRoms(f)
      PROVE  ClaimStep
  BY <1>4 DEF FamilyChangesRoms
<1>5. ASSUME NEW p \in Launcher, OrphanEnds(p)
      PROVE  ClaimStep
  BY <1>5 DEF OrphanEnds
<1>6. CASE PowerLoss
  BY <1>6 DEF PowerLoss, NewIteration, GenEnds
<1>7. QED
  BY <1>1, <1>2, <1>3, <1>4, <1>5, <1>6 DEF Surroundings

\* Every step leaves at most one holder of the claim.
LEMMA ClaimNext == Typing /\ ClaimExclusive /\ [Next]_vars => ClaimExclusive'
<1> SUFFICES ASSUME Typing, ClaimExclusive, [Next]_vars
             PROVE  ClaimExclusive'
  OBVIOUS
<1>1. CASE UNCHANGED vars
  BY <1>1 DEF vars, ClaimExclusive, Pins, Claims
<1>2. CASE Next
  <2>1. ClaimStep
    BY <1>2, NextCases, ScrapeClaimStep, GeneratorClaimStep, SessionClaimStep,
       SurroundingsClaimStep
  <2>2. CASE Shrinks
    BY <2>2 DEF Shrinks, ClaimExclusive
  <2>3. CASE Taken
    BY <2>3 DEF Taken, ClaimExclusive
  <2>4. QED
    BY <2>1, <2>2, <2>3 DEF ClaimStep
<1>3. QED
  BY <1>1, <1>2

\* At most one command is in its locked section or has a scraper child alive.
THEOREM ClaimSafe == Spec => []ClaimExclusive
<1>1. Init => ClaimExclusive
  BY DEF Init, ClaimExclusive, Pins, Claims, Launcher, SesLocked
<1>2. Typing /\ ClaimExclusive /\ [Next]_vars => ClaimExclusive'
  BY ClaimNext
<1>3. Typing <=> TypeOK /\ InHand
  BY DEF Typing
<1>4. QED
  BY <1>1, <1>2, <1>3, TypeCorrect, PTL DEF Spec
-----------------------------------------------------------------------------
(* Who is in a locked section keeps every other command out of its own.    *)

\* While a scrape command works, the generator and the session hold nothing.
LEMMA ScraperAlone ==
  ASSUME ClaimExclusive, NEW s \in Scraper, scrapePc[s] # "idle"
  PROVE  /\ \A t \in Scraper \ {s} : scrapePc[t] = "idle"
         /\ genPc \in {"idle", "start"}
         /\ sesPc \notin SesLocked
BY LibraryAssumption DEF ClaimExclusive, Pins, Claims, Proc

\* While the generator works, no scrape command and not the session holds anything.
LEMMA GeneratorAlone ==
  ASSUME ClaimExclusive, genPc \notin {"idle", "start"}
  PROVE  /\ \A s \in Scraper : scrapePc[s] = "idle"
         /\ sesPc \notin SesLocked
BY LibraryAssumption DEF ClaimExclusive, Pins, Claims, Proc

\* While the session is in a locked section, nobody else holds anything.
LEMMA SessionAlone ==
  ASSUME ClaimExclusive, sesPc \in SesLocked
  PROVE  /\ \A s \in Scraper : scrapePc[s] = "idle"
         /\ genPc \in {"idle", "start"}
BY LibraryAssumption DEF ClaimExclusive, Pins, Claims, Proc

\* A free claim means that nobody is in a locked section.
LEMMA FreeClaim ==
  ASSUME ClaimFree
  PROVE  /\ \A s \in Scraper : scrapePc[s] = "idle"
         /\ genPc \in {"idle", "start"}
         /\ sesPc \notin SesLocked
BY LibraryAssumption DEF ClaimFree, Pins, Claims, Proc

-----------------------------------------------------------------------------
(* The record and the pending list.                                        *)

\* A step of a scrape command keeps the record and the pending list together.
LEMMA ScrapeRecordStep ==
  ASSUME NEW s \in Scraper, Typing, ClaimExclusive, RecordInv, Scrape(s)
  PROVE  RecordInv'
<1> USE LibraryAssumption
    DEF RecordInv, FetchedIsPending, Typing, TypeOK, InHand, Outcomes, Fetches, Settled,
       ScrapePcs, GenPcs, SesPcs,
        GenInHand, ScrapeInHand, Launcher, None, NoFetch, NoFetches, NoOutcomes,
        SesLocked, ScrapeGoes, ScrapeEnds, ScrapeNotes, ScrapeTakes
<1>1. scrapePc[s] # "idle" => genPc \in {"idle", "start"} /\ sesPc \notin SesLocked
  BY ScraperAlone
<1>2. CASE ScrapeLock(s)
  BY <1>2 DEF ScrapeLock
<1>3. CASE ScrapeRefuse(s)
  BY <1>3 DEF ScrapeRefuse
<1>4. CASE ScrapeRecordRefusal(s)
  BY <1>1, <1>4 DEF ScrapeRecordRefusal, CarriedOutcomes
<1>5. CASE ScrapeDiscover(s)
  BY <1>5 DEF ScrapeDiscover
<1>6. ASSUME NEW f \in Folder, ScrapePassOver(s, f)
      PROVE  RecordInv'
  BY <1>6 DEF ScrapePassOver
<1>7. ASSUME NEW f \in Folder, ScrapeSpawn(s, f)
      PROVE  RecordInv'
  BY <1>7 DEF ScrapeSpawn
<1>8. CASE ScrapeFetched(s)
  BY <1>8 DEF ScrapeFetched
<1>9. CASE ScrapeFetchFails(s)
  BY <1>9 DEF ScrapeFetchFails
<1>10. CASE ScrapeRevise(s)
  BY <1>10 DEF ScrapeRevise
<1>11. CASE ScrapeMark(s)
  BY <1>11, <1>1 DEF ScrapeMark
<1>12. CASE ScrapeNote(s)
  BY <1>12 DEF ScrapeNote
<1>13. CASE ScrapeSettle(s)
  BY <1>13 DEF ScrapeSettle
<1>14. CASE ScrapeRecord(s)
  BY <1>1, <1>14 DEF ScrapeRecord
<1>15. CASE ScrapeInterrupt(s)
  BY <1>15 DEF ScrapeInterrupt, Armed
<1>16. CASE ScrapeRecordInterrupted(s)
  BY <1>1, <1>16 DEF ScrapeRecordInterrupted, CarriedOutcomes
<1>17. CASE ScrapeDies(s)
  BY <1>17 DEF ScrapeDies, Abandoned
<1>18. QED
  BY <1>2, <1>3, <1>4, <1>5, <1>6, <1>7, <1>8, <1>9, <1>10, <1>11, <1>12, <1>13, <1>14,
     <1>15, <1>16, <1>17 DEF Scrape

\* A step of the generator keeps the record and the pending list together.
LEMMA GeneratorRecordStep ==
  ASSUME Typing, ClaimExclusive, RecordInv, Generator
  PROVE  RecordInv'
<1> USE LibraryAssumption
    DEF RecordInv, FetchedIsPending, Typing, TypeOK, InHand, Outcomes, Fetches, Settled,
       ScrapePcs, GenPcs, SesPcs,
        GenInHand, ScrapeInHand, Launcher, None, NoFetch, NoFetches, NoOutcomes,
        SesLocked, GenGoes, GenEnds, GenSettles, GenTakes
<1>1. genPc \notin {"idle", "start"} =>
        (\A s \in Scraper : scrapePc[s] = "idle") /\ sesPc \notin SesLocked
  BY GeneratorAlone
<1>2. CASE GenRefused
  BY <1>2 DEF GenRefused
<1>3. CASE GenLock
  BY <1>3 DEF GenLock
<1>4. CASE GenPlan
  BY <1>4 DEF GenPlan
<1>5. ASSUME NEW f \in Folder, GenPassOver(f)
      PROVE  RecordInv'
  BY <1>5 DEF GenPassOver
<1>6. ASSUME NEW f \in Folder, GenCopy(f)
      PROVE  RecordInv'
  BY <1>6 DEF GenCopy
<1>7. CASE GenSpawn
  BY <1>7 DEF GenSpawn
<1>8. CASE GenInvoked
  BY <1>8 DEF GenInvoked
<1>9. CASE GenFails
  BY <1>9 DEF GenFails
<1>10. CASE GenPublish
  BY <1>10 DEF GenPublish
<1>11. CASE GenRecord
  BY <1>11, <1>1 DEF GenRecord
<1>12. CASE GenUnmark
  BY <1>12, <1>1 DEF GenUnmark
<1>13. CASE GenExit
  BY <1>13 DEF GenExit
<1>14. CASE GenUnwound
  BY <1>14 DEF GenUnwound
<1>15. CASE GenTerminated
  BY <1>15 DEF GenTerminated, GenSignalled
<1>16. CASE GenDies
  BY <1>16 DEF GenDies, Abandoned
<1>17. QED
  BY <1>2, <1>3, <1>4, <1>5, <1>6, <1>7, <1>8, <1>9, <1>10, <1>11, <1>12, <1>13, <1>14,
     <1>15, <1>16 DEF Generator, GenWork

\* A step of the session keeps the record and the pending list together.
LEMMA SessionRecordStep ==
  ASSUME Typing, ClaimExclusive, RecordInv, SessionStep
  PROVE  RecordInv'
<1> USE LibraryAssumption
    DEF RecordInv, FetchedIsPending, Typing, TypeOK, InHand, Outcomes, Fetches, Settled,
       ScrapePcs, GenPcs, SesPcs,
        GenInHand, ScrapeInHand, Launcher, None, NoFetch, NoFetches, NoOutcomes,
        SesLocked, SesGoes
<1>1. sesPc \in SesLocked =>
        (\A s \in Scraper : scrapePc[s] = "idle") /\ genPc \in {"idle", "start"}
  BY SessionAlone
<1>2. CASE CaptureLock
  BY <1>2 DEF CaptureLock
<1>3. CASE CaptureFails
  BY <1>3 DEF CaptureFails
<1>4. CASE CaptureRevisions
  BY <1>4 DEF CaptureRevisions
<1>5. CASE CapturePending
  BY <1>5 DEF CapturePending
<1>6. CASE OpenWindow
  BY <1>6 DEF OpenWindow
<1>7. CASE WindowFails
  BY <1>7 DEF WindowFails
<1>8. CASE WindowCloses
  BY <1>8 DEF WindowCloses
<1>9. CASE WindowExpires
  BY <1>9 DEF WindowExpires, GenSignalled, GenEnds
<1>10. CASE CleanupLock
  BY <1>10 DEF CleanupLock
<1>11. CASE CleanupRevisions
  BY <1>11 DEF CleanupRevisions
<1>12. ASSUME NEW f \in Folder, CleanupSpare(f)
      PROVE  RecordInv'
  BY <1>12 DEF CleanupSpare
<1>13. ASSUME NEW f \in Folder, CleanupRecord(f)
      PROVE  RecordInv'
  BY <1>13, <1>1 DEF CleanupRecord
<1>14. CASE CleanupUnmark
  BY <1>14, <1>1 DEF CleanupUnmark
<1>15. CASE CleanupDone
  BY <1>15 DEF CleanupDone
<1>16. CASE CleanupFails
  BY <1>16 DEF CleanupFails
<1>17. QED
  BY <1>2, <1>3, <1>4, <1>5, <1>6, <1>7, <1>8, <1>9, <1>10, <1>11, <1>12, <1>13, <1>14,
     <1>15, <1>16 DEF SessionStep

\* A step of the surroundings keeps the record and the pending list together.
LEMMA SurroundingsRecordStep ==
  ASSUME Typing, RecordInv, Surroundings
  PROVE  RecordInv'
<1> USE LibraryAssumption
    DEF RecordInv, FetchedIsPending, Typing, TypeOK, InHand, Outcomes, Fetches, Settled,
       ScrapePcs, GenPcs, SesPcs,
        GenInHand, ScrapeInHand, Launcher, None, NoFetch, NoFetches, NoOutcomes
<1>1. ASSUME NEW f \in Folder, FrontendWrites(f)
      PROVE  RecordInv'
  BY <1>1 DEF FrontendWrites
<1>2. CASE FrontendExits
  BY <1>2 DEF FrontendExits, NewIteration
<1>3. CASE SessionReplaced
  BY <1>3 DEF SessionReplaced, NewIteration, GenSignalled, GenEnds
<1>4. ASSUME NEW f \in Folder, FamilyChangesRoms(f)
      PROVE  RecordInv'
  BY <1>4 DEF FamilyChangesRoms
<1>5. ASSUME NEW p \in Launcher, OrphanEnds(p)
      PROVE  RecordInv'
  BY <1>5 DEF OrphanEnds
<1>6. CASE PowerLoss
  BY <1>6 DEF PowerLoss, NewIteration, GenEnds
<1>7. QED
  BY <1>1, <1>2, <1>3, <1>4, <1>5, <1>6 DEF Surroundings

\* Every step keeps the record and the pending list together.
LEMMA RecordNext ==
  Typing /\ ClaimExclusive /\ RecordInv /\ [Next]_vars => RecordInv'
<1>1. Typing /\ RecordInv /\ UNCHANGED vars => RecordInv'
  BY DEF RecordInv, FetchedIsPending, vars
<1>2. QED
  BY <1>1, NextCases, ScrapeRecordStep, GeneratorRecordStep, SessionRecordStep,
     SurroundingsRecordStep

\* What was recorded as fetched is pending, in every reachable state.
LEMMA RecordCorrect == Spec => []RecordInv
<1>1. Init => RecordInv
  BY DEF Init, RecordInv, FetchedIsPending, NoOutcomes, None, GenInHand
<1>2. Typing /\ ClaimExclusive /\ RecordInv /\ [Next]_vars => RecordInv'
  BY RecordNext
<1>3. Typing <=> TypeOK /\ InHand
  BY DEF Typing
<1>4. QED
  BY <1>1, <1>2, <1>3, TypeCorrect, ClaimSafe, PTL DEF Spec

\* A folder the record shows as fetched is still pending.
THEOREM FetchedStaysPending == Spec => []FetchedIsPending
<1>1. RecordInv => FetchedIsPending
  BY DEF RecordInv
<1>2. QED
  BY <1>1, RecordCorrect, PTL

-----------------------------------------------------------------------------
(* Leaving the pending list.                                               *)

\* The only two steps that take a folder off the list, and which folder they take.
LeavesBy(f) == (GenUnmark /\ f = genCur) \/ (CleanupUnmark /\ f = cleanCur)

\* A scrape command takes no folder off the pending list.
LEMMA ScrapeKeepsPending ==
  ASSUME NEW s \in Scraper, Typing, Scrape(s)
  PROVE  pending \subseteq pending'
BY DEF Scrape, ScrapeLock, ScrapeRefuse, ScrapeRecordRefusal, ScrapeDiscover,
   ScrapePassOver, ScrapeSpawn, ScrapeFetched, ScrapeFetchFails, ScrapeRevise, ScrapeMark,
   ScrapeNote, ScrapeSettle, ScrapeRecord, ScrapeInterrupt, ScrapeRecordInterrupted,
   ScrapeDies

\* A step that takes a folder off the pending list is one of two.
LEMMA LeavesPending ==
  ASSUME Typing, Next, NEW f \in pending \ pending'
  PROVE  LeavesBy(f)
<1>1. CASE \E s \in Scraper : Scrape(s)
  BY <1>1, ScrapeKeepsPending
<1>2. CASE Generator
  <2>1. \/ pending' = pending
        \/ GenUnmark /\ pending' = pending \ {genCur}
    BY <1>2 DEF Generator, GenWork, GenRefused, GenLock, GenPlan, GenPassOver, GenCopy,
       GenSpawn, GenInvoked, GenFails, GenPublish, GenRecord, GenUnmark, GenExit,
       GenUnwound, GenTerminated, GenDies
  <2>2. QED
    BY <2>1 DEF LeavesBy
<1>3. CASE SessionStep
  <2>1. \/ pending' = pending
        \/ CleanupUnmark /\ pending' = pending \ {cleanCur}
    BY <1>3 DEF SessionStep, CaptureLock, CaptureFails, CaptureRevisions,
       CapturePending, OpenWindow, WindowFails, WindowCloses, WindowExpires,
       CleanupLock, CleanupRevisions, CleanupSpare, CleanupRecord, CleanupUnmark,
       CleanupDone, CleanupFails
  <2>2. QED
    BY <2>1 DEF LeavesBy
<1>4. CASE Surroundings
  BY <1>4 DEF Surroundings, FrontendWrites, FrontendExits, SessionReplaced,
     FamilyChangesRoms, OrphanEnds, PowerLoss
<1>5. QED
  BY <1>1, <1>2, <1>3, <1>4, NextCases

\* A folder leaves the pending list only once the record names what became of it.
THEOREM LeavingIsRecorded == Spec => LeavesPendingRecorded
<1>1. ASSUME Typing, ClaimExclusive, RecordInv, [Next]_vars
      PROVE  [\A f \in pending \ pending' : outcome'[f] \in Settled]_vars
  <2>1. CASE UNCHANGED vars
    BY <2>1
  <2>2. CASE Next
    <3>1. ASSUME NEW f \in pending \ pending'
          PROVE  outcome'[f] \in Settled
      <4>1. LeavesBy(f)
        BY <1>1, <2>2, <3>1, LeavesPending
      <4>2. QED
        BY <1>1, <4>1 DEF LeavesBy, GenUnmark, GenGoes, CleanupUnmark, SesGoes, RecordInv
    <3>2. QED
      BY <3>1
  <2>3. QED
    BY <1>1, <2>1, <2>2
<1>2. Typing <=> TypeOK /\ InHand
  BY DEF Typing
<1>3. QED
  BY <1>1, <1>2, TypeCorrect, ClaimSafe, RecordCorrect, PTL DEF Spec, LeavesPendingRecorded

-----------------------------------------------------------------------------
(* The captured batch and the fetches stored since.                        *)

\* A step of a scrape command keeps the captured batch and the identities in order.
LEMMA ScrapeBatchStep ==
  ASSUME NEW s \in Scraper, Typing, ClaimExclusive, BatchInv, Scrape(s)
  PROVE  BatchInv'
<1> USE LibraryAssumption
    DEF BatchInv, PendingHasRevision, Typing, TypeOK, InHand, Outcomes, Fetches,
       Settled, ScrapePcs, GenPcs, SesPcs,
        GenInHand, ScrapeInHand, Launcher, None, NoFetch, NoFetches, NoOutcomes,
        SesLocked, ScrapeGoes, ScrapeEnds, ScrapeNotes, ScrapeTakes
<1>1. scrapePc[s] # "idle" =>
        /\ \A t \in Scraper \ {s} : scrapePc[t] = "idle"
        /\ genPc \in {"idle", "start"}
        /\ sesPc \notin SesLocked
  BY ScraperAlone
<1>2. CASE ScrapeLock(s)
  BY <1>2 DEF ScrapeLock
<1>3. CASE ScrapeRefuse(s)
  BY <1>3 DEF ScrapeRefuse
<1>4. CASE ScrapeRecordRefusal(s)
  BY <1>4 DEF ScrapeRecordRefusal
<1>5. CASE ScrapeDiscover(s)
  BY <1>5 DEF ScrapeDiscover
<1>6. ASSUME NEW f \in Folder, ScrapePassOver(s, f)
      PROVE  BatchInv'
  BY <1>6 DEF ScrapePassOver
<1>7. ASSUME NEW f \in Folder, ScrapeSpawn(s, f)
      PROVE  BatchInv'
  BY <1>7 DEF ScrapeSpawn
<1>8. CASE ScrapeFetched(s)
  BY <1>8 DEF ScrapeFetched
<1>9. CASE ScrapeFetchFails(s)
  BY <1>9 DEF ScrapeFetchFails
<1>10. CASE ScrapeRevise(s)
  BY <1>10, <1>1 DEF ScrapeRevise
<1>11. CASE ScrapeMark(s)
  BY <1>11, <1>1 DEF ScrapeMark
<1>12. CASE ScrapeNote(s)
  BY <1>12 DEF ScrapeNote
<1>13. CASE ScrapeSettle(s)
  BY <1>13 DEF ScrapeSettle
<1>14. CASE ScrapeRecord(s)
  BY <1>14 DEF ScrapeRecord
<1>15. CASE ScrapeInterrupt(s)
  BY <1>15 DEF ScrapeInterrupt, Armed
<1>16. CASE ScrapeRecordInterrupted(s)
  BY <1>16 DEF ScrapeRecordInterrupted
<1>17. CASE ScrapeDies(s)
  BY <1>17 DEF ScrapeDies, Abandoned
<1>18. QED
  BY <1>2, <1>3, <1>4, <1>5, <1>6, <1>7, <1>8, <1>9, <1>10, <1>11, <1>12, <1>13, <1>14,
     <1>15, <1>16, <1>17 DEF Scrape

\* A step of the generator keeps the captured batch and the identities in order.
LEMMA GeneratorBatchStep ==
  ASSUME Typing, ClaimExclusive, BatchInv, Generator
  PROVE  BatchInv'
<1> USE LibraryAssumption
    DEF BatchInv, PendingHasRevision, Typing, TypeOK, InHand, Outcomes, Fetches,
       Settled, ScrapePcs, GenPcs, SesPcs,
        GenInHand, ScrapeInHand, Launcher, None, NoFetch, NoFetches, NoOutcomes,
        SesLocked, GenGoes, GenEnds, GenSettles, GenTakes
<1>1. genPc \notin {"idle", "start"} =>
        (\A s \in Scraper : scrapePc[s] = "idle") /\ sesPc \notin SesLocked
  BY GeneratorAlone
<1>2. CASE GenRefused
  BY <1>2 DEF GenRefused
<1>3. CASE GenLock
  BY <1>3 DEF GenLock
<1>4. CASE GenPlan
  BY <1>4 DEF GenPlan
<1>5. ASSUME NEW f \in Folder, GenPassOver(f)
      PROVE  BatchInv'
  BY <1>5, <1>1 DEF GenPassOver
<1>6. ASSUME NEW f \in Folder, GenCopy(f)
      PROVE  BatchInv'
  BY <1>6, <1>1 DEF GenCopy
<1>7. CASE GenSpawn
  BY <1>7 DEF GenSpawn
<1>8. CASE GenInvoked
  BY <1>8 DEF GenInvoked
<1>9. CASE GenFails
  BY <1>9 DEF GenFails
<1>10. CASE GenPublish
  BY <1>10 DEF GenPublish
<1>11. CASE GenRecord
  BY <1>11 DEF GenRecord
<1>12. CASE GenUnmark
  BY <1>12, <1>1 DEF GenUnmark
<1>13. CASE GenExit
  BY <1>13 DEF GenExit
<1>14. CASE GenUnwound
  BY <1>14 DEF GenUnwound
<1>15. CASE GenTerminated
  BY <1>15 DEF GenTerminated, GenSignalled
<1>16. CASE GenDies
  BY <1>16 DEF GenDies, Abandoned
<1>17. QED
  BY <1>2, <1>3, <1>4, <1>5, <1>6, <1>7, <1>8, <1>9, <1>10, <1>11, <1>12, <1>13, <1>14,
     <1>15, <1>16 DEF Generator, GenWork

\* A step of the session keeps the captured batch and the identities in order.
LEMMA SessionBatchStep ==
  ASSUME Typing, ClaimExclusive, BatchInv, SessionStep
  PROVE  BatchInv'
<1> USE LibraryAssumption
    DEF BatchInv, PendingHasRevision, Typing, TypeOK, InHand, Outcomes, Fetches,
       Settled, ScrapePcs, GenPcs, SesPcs,
        GenInHand, ScrapeInHand, Launcher, None, NoFetch, NoFetches, NoOutcomes,
        SesLocked, SesGoes, Unserved
<1>1. sesPc \in SesLocked =>
        (\A s \in Scraper : scrapePc[s] = "idle") /\ genPc \in {"idle", "start"}
  BY SessionAlone
<1>2. CASE CaptureLock
  BY <1>2 DEF CaptureLock
<1>3. CASE CaptureFails
  BY <1>3 DEF CaptureFails
<1>4. CASE CaptureRevisions
  BY <1>4, <1>1 DEF CaptureRevisions
<1>5. CASE CapturePending
  BY <1>5, <1>1 DEF CapturePending
<1>6. CASE OpenWindow
  BY <1>6 DEF OpenWindow
<1>7. CASE WindowFails
  BY <1>7 DEF WindowFails
<1>8. CASE WindowCloses
  BY <1>8 DEF WindowCloses
<1>9. CASE WindowExpires
  BY <1>9 DEF WindowExpires, GenSignalled, GenEnds
<1>10. CASE CleanupLock
  BY <1>10 DEF CleanupLock
<1>11. CASE CleanupRevisions
  BY <1>11 DEF CleanupRevisions
<1>12. ASSUME NEW f \in Folder, CleanupSpare(f)
      PROVE  BatchInv'
  BY <1>12 DEF CleanupSpare
<1>13. ASSUME NEW f \in Folder, CleanupRecord(f)
      PROVE  BatchInv'
  BY <1>13, <1>1 DEF CleanupRecord
<1>14. CASE CleanupUnmark
  BY <1>14, <1>1 DEF CleanupUnmark
<1>15. CASE CleanupDone
  BY <1>15 DEF CleanupDone
<1>16. CASE CleanupFails
  BY <1>16 DEF CleanupFails
<1>17. QED
  BY <1>2, <1>3, <1>4, <1>5, <1>6, <1>7, <1>8, <1>9, <1>10, <1>11, <1>12, <1>13, <1>14,
     <1>15, <1>16 DEF SessionStep

\* A step of the surroundings keeps the captured batch and the identities in order.
LEMMA SurroundingsBatchStep ==
  ASSUME Typing, BatchInv, Surroundings
  PROVE  BatchInv'
<1> USE LibraryAssumption
    DEF BatchInv, PendingHasRevision, Typing, TypeOK, InHand, Outcomes, Fetches,
       Settled, ScrapePcs, GenPcs, SesPcs,
        GenInHand, ScrapeInHand, Launcher, None, NoFetch, NoFetches, NoOutcomes
<1>1. ASSUME NEW f \in Folder, FrontendWrites(f)
      PROVE  BatchInv'
  BY <1>1 DEF FrontendWrites
<1>2. CASE FrontendExits
  BY <1>2 DEF FrontendExits, NewIteration
<1>3. CASE SessionReplaced
  BY <1>3 DEF SessionReplaced, NewIteration, GenSignalled, GenEnds
<1>4. ASSUME NEW f \in Folder, FamilyChangesRoms(f)
      PROVE  BatchInv'
  BY <1>4 DEF FamilyChangesRoms
<1>5. ASSUME NEW p \in Launcher, OrphanEnds(p)
      PROVE  BatchInv'
  BY <1>5 DEF OrphanEnds
<1>6. CASE PowerLoss
  BY <1>6 DEF PowerLoss, NewIteration, GenEnds
<1>7. QED
  BY <1>1, <1>2, <1>3, <1>4, <1>5, <1>6 DEF Surroundings

\* Every step keeps the captured batch and the identities in order.
LEMMA BatchNext ==
  Typing /\ ClaimExclusive /\ BatchInv /\ [Next]_vars => BatchInv'
<1>1. Typing /\ BatchInv /\ UNCHANGED vars => BatchInv'
  BY DEF BatchInv, PendingHasRevision, vars
<1>2. QED
  BY <1>1, NextCases, ScrapeBatchStep, GeneratorBatchStep, SessionBatchStep,
     SurroundingsBatchStep

\* The captured batch and the identities are in order in every reachable state.
LEMMA BatchCorrect == Spec => []BatchInv
<1>1. Init => BatchInv
  BY DEF Init, BatchInv, PendingHasRevision, NoFetches, NoFetch, GenInHand
<1>2. Typing /\ ClaimExclusive /\ BatchInv /\ [Next]_vars => BatchInv'
  BY BatchNext
<1>3. Typing <=> TypeOK /\ InHand
  BY DEF Typing
<1>4. QED
  BY <1>1, <1>2, <1>3, TypeCorrect, ClaimSafe, PTL DEF Spec

\* Every pending folder has a stored identity for cleanup to compare.
THEOREM PendingIsIdentified == Spec => []PendingHasRevision
<1>1. BatchInv => PendingHasRevision
  BY DEF BatchInv
<1>2. QED
  BY <1>1, BatchCorrect, PTL

\* After a cleanup, no captured folder is still pending for the fetch it was captured with.
THEOREM CleanupSettlesBatch == Spec => []BatchIsSettled
<1>1. BatchInv => BatchIsSettled
  BY DEF BatchInv, BatchIsSettled
<1>2. QED
  BY <1>1, BatchCorrect, PTL

\* A folder leaves the pending list only for an attempt that began after its newest fetch.
THEOREM FetchesAreServed == Spec => NoFetchLost
<1>1. ASSUME Typing, BatchInv, [Next]_vars
      PROVE  [\A f \in pending \ pending' : f \notin newer]_vars
  <2>1. CASE UNCHANGED vars
    BY <2>1
  <2>2. CASE Next
    <3>1. ASSUME NEW f \in pending \ pending'
          PROVE  f \notin newer
      <4>1. LeavesBy(f)
        BY <1>1, <2>2, <3>1, LeavesPending
      <4>2. QED
        BY <1>1, <4>1 DEF LeavesBy, GenUnmark, GenGoes, GenInHand, CleanupUnmark, SesGoes, BatchInv
    <3>2. QED
      BY <3>1
  <2>3. QED
    BY <1>1, <2>1, <2>2
<1>2. Typing <=> TypeOK /\ InHand
  BY DEF Typing
<1>3. QED
  BY <1>1, <1>2, TypeCorrect, BatchCorrect, PTL DEF Spec, NoFetchLost

-----------------------------------------------------------------------------
(* The generator's window: its child, its work area and its copy.          *)

\* A step of a scrape command leaves the generator's window alone.
LEMMA ScrapeWindowStep ==
  ASSUME NEW s \in Scraper, Typing, WindowInv, Scrape(s)
  PROVE  WindowInv'
<1>1. /\ UNCHANGED <<gamelist, work, genVars, sesPc>>
      /\ child'[Gen] = child[Gen]
  BY LibraryAssumption
  DEF Typing, TypeOK, Launcher, Scrape, ScrapeLock, ScrapeRefuse, ScrapeRecordRefusal,
      ScrapeDiscover, ScrapePassOver, ScrapeSpawn, ScrapeFetched, ScrapeFetchFails,
      ScrapeRevise, ScrapeMark, ScrapeNote, ScrapeSettle, ScrapeRecord, ScrapeInterrupt,
      ScrapeRecordInterrupted, ScrapeDies, Abandoned
<1>2. QED
  BY <1>1 DEF WindowInv

\* A step of the generator keeps its window in order.
LEMMA GeneratorWindowStep ==
  ASSUME Typing, WindowInv, Generator
  PROVE  WindowInv'
<1> USE LibraryAssumption
    DEF WindowInv, Typing, TypeOK, InHand, GenPcs, SesPcs, GenInHand,
        Launcher, None, GenGoes, GenEnds, GenSettles, GenTakes, Settled
<1>1. CASE GenRefused
  BY <1>1 DEF GenRefused
<1>2. CASE GenLock
  BY <1>2 DEF GenLock, ClaimFree, Pins, Proc
<1>3. CASE GenPlan
  BY <1>3 DEF GenPlan
<1>4. ASSUME NEW f \in Folder, GenPassOver(f)
      PROVE  WindowInv'
  BY <1>4 DEF GenPassOver
<1>5. ASSUME NEW f \in Folder, GenCopy(f)
      PROVE  WindowInv'
  BY <1>5 DEF GenCopy
<1>6. CASE GenSpawn
  BY <1>6 DEF GenSpawn
<1>7. CASE GenInvoked
  BY <1>7 DEF GenInvoked
<1>8. CASE GenFails
  BY <1>8 DEF GenFails
<1>9. CASE GenPublish
  BY <1>9 DEF GenPublish
<1>10. CASE GenRecord
  BY <1>10 DEF GenRecord
<1>11. CASE GenUnmark
  BY <1>11 DEF GenUnmark
<1>12. CASE GenExit
  BY <1>12 DEF GenExit
<1>13. CASE GenUnwound
  BY <1>13 DEF GenUnwound
<1>14. CASE GenTerminated
  BY <1>14 DEF GenTerminated, GenSignalled
<1>15. CASE GenDies
  BY <1>15 DEF GenDies, Abandoned
<1>16. QED
  BY <1>1, <1>2, <1>3, <1>4, <1>5, <1>6, <1>7, <1>8, <1>9, <1>10, <1>11, <1>12, <1>13,
     <1>14, <1>15 DEF Generator, GenWork

\* A step of the session leaves no generator at work behind when it leaves the window.
LEMMA SessionWindowStep ==
  ASSUME Typing, WindowInv, SessionStep
  PROVE  WindowInv'
<1> USE LibraryAssumption
    DEF WindowInv, Typing, TypeOK, GenPcs, SesPcs, Launcher, SesGoes
<1>1. CASE OpenWindow
  BY <1>1 DEF OpenWindow
<1>2. CASE WindowExpires
  BY <1>2 DEF WindowExpires, GenSignalled, GenEnds
<1>3. CASE WindowFails \/ WindowCloses
  BY <1>3 DEF WindowFails, WindowCloses
<1>4. CASE CaptureLock \/ CaptureFails \/ CaptureRevisions \/ CapturePending
  BY <1>4 DEF CaptureLock, CaptureFails, CaptureRevisions, CapturePending
<1>5. CASE CleanupLock \/ CleanupRevisions \/ CleanupUnmark \/ CleanupDone \/ CleanupFails
  BY <1>5 DEF CleanupLock, CleanupRevisions, CleanupUnmark, CleanupDone, CleanupFails
<1>6. ASSUME NEW f \in Folder, CleanupSpare(f) \/ CleanupRecord(f)
      PROVE  WindowInv'
  BY <1>6 DEF CleanupSpare, CleanupRecord
<1>7. QED
  BY <1>1, <1>2, <1>3, <1>4, <1>5, <1>6 DEF SessionStep

\* A step of the surroundings keeps the window in order: the frontend writes outside it.
LEMMA SurroundingsWindowStep ==
  ASSUME Typing, WindowInv, Surroundings
  PROVE  WindowInv'
<1> USE LibraryAssumption
    DEF WindowInv, Typing, TypeOK, InHand, GenInHand, GenPcs, SesPcs,
        Launcher, None
<1>1. ASSUME NEW f \in Folder, FrontendWrites(f)
      PROVE  WindowInv'
  BY <1>1 DEF FrontendWrites
<1>2. CASE FrontendExits
  BY <1>2 DEF FrontendExits, NewIteration
<1>3. CASE SessionReplaced
  BY <1>3 DEF SessionReplaced, NewIteration, GenSignalled, GenEnds
<1>4. ASSUME NEW f \in Folder, FamilyChangesRoms(f)
      PROVE  WindowInv'
  BY <1>4 DEF FamilyChangesRoms
<1>5. ASSUME NEW p \in Launcher, OrphanEnds(p)
      PROVE  WindowInv'
  BY <1>5 DEF OrphanEnds
<1>6. CASE PowerLoss
  BY <1>6 DEF PowerLoss, NewIteration, GenEnds
<1>7. QED
  BY <1>1, <1>2, <1>3, <1>4, <1>5, <1>6 DEF Surroundings

\* The generator's window is in order in every reachable state.
LEMMA WindowCorrect == Spec => []WindowInv
<1>1. Init => WindowInv
  BY LibraryAssumption DEF Init, WindowInv, Launcher
<1>2. Typing /\ WindowInv /\ [Next]_vars => WindowInv'
  <2>1. WindowInv /\ UNCHANGED vars => WindowInv'
    BY DEF WindowInv, vars
  <2>2. QED
    BY <2>1, NextCases, ScrapeWindowStep, GeneratorWindowStep, SessionWindowStep,
       SurroundingsWindowStep
<1>3. Typing <=> TypeOK /\ InHand
  BY DEF Typing
<1>4. QED
  BY <1>1, <1>2, <1>3, TypeCorrect, PTL DEF Spec

\* A step that makes or discards a work area finds no child of the generator's alive, or ends it.
LEMMA WorkStep ==
  ASSUME Typing, WindowInv, [Next]_vars, child'[Gen] # "none"
  PROVE  IF child[Gen] = "none" THEN genCur' \in work'
         ELSE work \subseteq work' /\ ~\E f \in Folder : GenCopy(f)
<1> DEFINE Alive == child[Gen] # "none"
<1>1. Alive => genPc \in {"invoking", "ending", "idle", "start"}
  BY LibraryAssumption DEF WindowInv, Typing, TypeOK, Launcher
<1>2. Alive => ~\E f \in Folder : GenCopy(f)
  BY <1>1 DEF GenCopy, GenTakes
<1>3. CASE GenSpawn
  BY <1>1, <1>2, <1>3 DEF GenSpawn, GenGoes, WindowInv, disk
<1>4. CASE Generator /\ ~GenSpawn
  <2>1. CASE GenFails \/ GenInvoked \/ GenUnwound
    BY <2>1, LibraryAssumption DEF GenFails, GenInvoked, GenUnwound, GenGoes, Typing, TypeOK, Launcher
  <2>2. CASE \E f \in Folder : GenCopy(f)
    BY <2>2, <1>2 DEF GenCopy
  <2>3. CASE GenPublish
    BY <2>3, <1>1 DEF GenPublish
  <2>4. CASE GenDies
    <3>1. work' = work /\ (~Alive => child'[Gen] = "none")
      BY <2>4, LibraryAssumption DEF GenDies, Abandoned, disk, Typing, TypeOK, Launcher
    <3>2. QED
      BY <3>1, <1>2
  <2>5. CASE ~(GenFails \/ GenInvoked \/ GenUnwound \/ GenPublish \/ GenDies)
             /\ ~\E f \in Folder : GenCopy(f)
    <3>1. UNCHANGED <<work, child>>
      BY <1>4, <2>5
      DEF Generator, GenWork, GenRefused, GenLock, GenPlan, GenPassOver, GenRecord, GenUnmark,
          GenExit, GenTerminated, disk
    <3>2. QED
      BY <3>1, <1>2
  <2>6. QED
    BY <2>1, <2>2, <2>3, <2>4, <2>5
<1>5. ASSUME NEW s \in Scraper, Scrape(s)
      PROVE  work' = work /\ child'[Gen] = child[Gen]
  BY <1>5, LibraryAssumption
  DEF Typing, TypeOK, Launcher, Scrape, ScrapeLock, ScrapeRefuse, ScrapeRecordRefusal,
      ScrapeDiscover, ScrapePassOver, ScrapeSpawn, ScrapeFetched, ScrapeFetchFails, ScrapeRevise,
      ScrapeMark, ScrapeNote, ScrapeSettle, ScrapeRecord, ScrapeInterrupt,
      ScrapeRecordInterrupted, ScrapeDies, Abandoned, disk
<1>6. CASE SessionStep
  <2>1. UNCHANGED <<work, child>>
    BY <1>6
    DEF SessionStep, CaptureLock, CaptureFails, CaptureRevisions, CapturePending, OpenWindow,
        WindowFails, WindowCloses, WindowExpires, CleanupLock, CleanupRevisions, CleanupSpare,
        CleanupRecord, CleanupUnmark, CleanupDone, CleanupFails, disk
  <2>2. QED
    BY <2>1, <1>2
<1>7. CASE Surroundings
  <2>1. work' = work /\ (~Alive => child'[Gen] = "none")
    BY <1>7, LibraryAssumption
    DEF Surroundings, FrontendWrites, FrontendExits, SessionReplaced, FamilyChangesRoms,
        OrphanEnds, PowerLoss, disk, Typing, TypeOK, Launcher
  <2>2. QED
    BY <2>1, <1>2
<1>8. CASE UNCHANGED vars
  BY <1>8, <1>2 DEF vars, disk
<1>9. QED
  BY <1>2, <1>3, <1>4, <1>5, <1>6, <1>7, <1>8, NextCases

\* The work area that the generator's child, orphaned or not, writes into is there when it starts,
\* and nothing removes it or makes it anew while the child lives.
THEOREM WorkIsKept == Spec => WorkOutlivesChild
<1>1. Typing /\ WindowInv /\ [Next]_vars =>
        (child'[Gen] # "none" =>
           IF child[Gen] = "none" THEN genCur' \in work'
           ELSE work \subseteq work' /\ ~\E f \in Folder : GenCopy(f))
  BY WorkStep
<1>2. Typing <=> TypeOK /\ InHand
  BY DEF Typing
<1>3. QED
  BY <1>1, <1>2, TypeCorrect, WindowCorrect, PTL DEF Spec, WorkOutlivesChild

-----------------------------------------------------------------------------
(* What the record and the live gamelists keep.                            *)

\* The outcome of an existing folder is forgotten only where a finished run records its own.
THEOREM OutcomesAreCarried == Spec => OutcomesCarried
<1> DEFINE Kept == \A f \in roms : outcome[f] # None /\ outcome'[f] = None =>
                     \E s \in Scraper : scrapePc[s] = "settled" /\ outcome' = scrapeOut[s]
<1>1. ASSUME Typing, [Next]_vars
      PROVE  Kept \/ UNCHANGED vars
  <2> USE DEF None
  <2>1. ASSUME NEW s \in Scraper, Scrape(s)
        PROVE  Kept
    <3>1. CASE ScrapeRecordRefusal(s) \/ ScrapeRecordInterrupted(s)
      BY <1>1, <3>1 DEF Typing, TypeOK, ScrapeRecordRefusal, ScrapeRecordInterrupted,
         CarriedOutcomes
    <3>2. CASE ScrapeRecord(s)
      BY <3>2 DEF ScrapeRecord
    <3>3. CASE outcome' = outcome
      BY <3>3
    <3>4. QED
      BY <2>1, <3>1, <3>2, <3>3 DEF Scrape, ScrapeLock, ScrapeRefuse, ScrapeDiscover,
         ScrapePassOver, ScrapeSpawn, ScrapeFetched, ScrapeFetchFails, ScrapeRevise,
         ScrapeMark, ScrapeNote, ScrapeSettle, ScrapeInterrupt, ScrapeDies
  <2>2. CASE Generator
    <3>1. CASE GenRecord
      BY <1>1, <3>1 DEF Typing, TypeOK, InHand, GenRecord, GenGoes, Settled
    <3>2. CASE outcome' = outcome
      BY <3>2
    <3>3. QED
      BY <2>2, <3>1, <3>2 DEF Generator, GenWork, GenRefused, GenLock, GenPlan,
         GenPassOver, GenCopy, GenSpawn, GenInvoked, GenFails, GenPublish, GenUnmark,
         GenExit, GenUnwound, GenTerminated, GenDies
  <2>3. CASE SessionStep
    <3>1. ASSUME NEW f \in Folder, CleanupRecord(f)
          PROVE  Kept
      BY <1>1, <3>1 DEF Typing, TypeOK, CleanupRecord
    <3>2. CASE outcome' = outcome
      BY <3>2
    <3>3. QED
      BY <2>3, <3>1, <3>2 DEF SessionStep, CaptureLock, CaptureFails, CaptureRevisions,
         CapturePending, OpenWindow, WindowFails, WindowCloses, WindowExpires,
         CleanupLock, CleanupRevisions, CleanupSpare, CleanupUnmark, CleanupDone,
         CleanupFails
  <2>4. CASE Surroundings
    BY <2>4 DEF Surroundings, FrontendWrites, FrontendExits, SessionReplaced,
       FamilyChangesRoms, OrphanEnds, PowerLoss
  <2>5. QED
    BY <1>1, <2>1, <2>2, <2>3, <2>4, NextCases
<1>2. Typing <=> TypeOK /\ InHand
  BY DEF Typing
<1>3. QED
  BY <1>1, <1>2, TypeCorrect, PTL DEF Spec, OutcomesCarried

\* Regeneration takes no live gamelist back to before a write of the frontend's.
THEOREM FamilyDataIsKept == Spec => FamilyDataKept
<1> DEFINE Kept == \A f \in Folder :
                     /\ gamelist'[f].edits >= gamelist[f].edits
                     /\ ~gamelist[f].parses => gamelist'[f].edits > gamelist[f].edits
                                                \/ gamelist'[f] = gamelist[f]
<1>1. ASSUME Typing, WindowInv, [Next]_vars
      PROVE  Kept \/ UNCHANGED vars
  <2>1. \A f \in Folder : gamelist[f].edits \in Nat
    BY <1>1 DEF Typing, TypeOK
  <2>2. CASE GenPublish
    BY <1>1, <2>2 DEF GenPublish, WindowInv, Typing, TypeOK, InHand, GenInHand
  <2>3. ASSUME NEW f \in Folder, FrontendWrites(f)
        PROVE  Kept
    BY <1>1, <2>3 DEF FrontendWrites, Typing, TypeOK
  <2>4. CASE gamelist' = gamelist
    BY <2>1, <2>4
  <2>5. ASSUME NEW s \in Scraper, Scrape(s)
        PROVE  gamelist' = gamelist
    BY <2>5 DEF Scrape, ScrapeLock, ScrapeRefuse, ScrapeRecordRefusal, ScrapeDiscover,
       ScrapePassOver, ScrapeSpawn, ScrapeFetched, ScrapeFetchFails, ScrapeRevise,
       ScrapeMark, ScrapeNote, ScrapeSettle, ScrapeRecord, ScrapeInterrupt,
       ScrapeRecordInterrupted, ScrapeDies
  <2>6. Generator => GenPublish \/ gamelist' = gamelist
    BY DEF Generator, GenWork, GenRefused, GenLock, GenPlan, GenPassOver, GenCopy,
       GenSpawn, GenInvoked, GenFails, GenRecord, GenUnmark, GenExit, GenUnwound,
       GenTerminated, GenDies
  <2>7. SessionStep => gamelist' = gamelist
    BY DEF SessionStep, CaptureLock, CaptureFails, CaptureRevisions, CapturePending,
       OpenWindow, WindowFails, WindowCloses, WindowExpires, CleanupLock,
       CleanupRevisions, CleanupSpare, CleanupRecord, CleanupUnmark, CleanupDone,
       CleanupFails
  <2>8. Surroundings => gamelist' = gamelist \/ \E f \in Folder : FrontendWrites(f)
    BY DEF Surroundings, FrontendExits, SessionReplaced, FamilyChangesRoms, OrphanEnds,
       PowerLoss
  <2>9. QED
    BY <1>1, <2>2, <2>3, <2>4, <2>5, <2>6, <2>7, <2>8, NextCases
<1>2. Typing <=> TypeOK /\ InHand
  BY DEF Typing
<1>3. QED
  BY <1>1, <1>2, TypeCorrect, WindowCorrect, PTL DEF Spec, FamilyDataKept

-----------------------------------------------------------------------------
(* Library implements FolderLife.                                          *)

\* What a step is to FolderLife.
LifeStep == Life!Next \/ UNCHANGED <<Stage, outcome>>

\* The pending list and the fetches since determine the stage.
LEMMA StageKept == UNCHANGED <<pending, newer>> => UNCHANGED Stage
BY DEF Stage

\* A step of a scrape command fetches, reports or does nothing to a folder.
LEMMA ScrapeLifeStep ==
  ASSUME NEW s \in Scraper, Typing, Typing', ClaimExclusive, RecordInv, Scrape(s)
  PROVE  LifeStep
<1>1. CASE ScrapeRevise(s) \/ ScrapeMark(s)
  <2>1. scrapeCur[s] \in Folder /\ UNCHANGED outcome
    BY <1>1 DEF Typing, InHand, ScrapeInHand, ScrapeRevise, ScrapeMark, ScrapeGoes
  <2>2. \/ UNCHANGED Stage
        \/ Stage' = [Stage EXCEPT ![scrapeCur[s]] = "waiting"]
    BY <1>1, <2>1 DEF ScrapeRevise, ScrapeMark, Stage
  <2>3. QED
    BY <2>1, <2>2 DEF LifeStep, Life!Next, Life!Fetch
<1>2. CASE ScrapeRecordRefusal(s) \/ ScrapeRecord(s) \/ ScrapeRecordInterrupted(s)
  <2>1. UNCHANGED Stage
    BY <1>2, StageKept DEF ScrapeRecordRefusal, ScrapeRecord, ScrapeRecordInterrupted
  <2>2. outcome' \in [Folder -> Life!Outcomes]
    BY DEF Typing, TypeOK, Outcomes, Fetches, Settled, None, Life!Outcomes, Life!Settled
  <2>3. \A f \in Folder : \/ outcome'[f] = scrapeOut[s][f]
                          \/ outcome'[f] = outcome[f]
                          \/ outcome'[f] = None
    BY <1>2 DEF ScrapeRecordRefusal, ScrapeRecord, ScrapeRecordInterrupted, CarriedOutcomes
  <2>4. \A f \in Folder : scrapeOut[s][f] \in Fetches \cup {None}
    BY DEF Typing, TypeOK
  <2>5. ASSUME NEW f \in Folder
        PROVE  /\ outcome'[f] = "fetched" => Stage[f] # "settled"
               /\ outcome'[f] \in Life!Settled => outcome'[f] = outcome[f]
    BY <2>3, <2>4 DEF RecordInv, FetchedIsPending, Stage, Life!Settled, Fetches, None
  <2>6. QED
    BY <2>1, <2>2, <2>5 DEF LifeStep, Life!Next, Life!Report
<1>3. CASE UNCHANGED <<pending, newer, outcome>>
  BY <1>3, StageKept DEF LifeStep
<1>4. QED
  BY <1>1, <1>2, <1>3 DEF Scrape, ScrapeLock, ScrapeRefuse, ScrapeDiscover,
     ScrapePassOver, ScrapeSpawn, ScrapeFetched, ScrapeFetchFails, ScrapeNote,
     ScrapeSettle, ScrapeInterrupt, ScrapeDies

\* A step of the generator takes a folder up, judges it, settles it or does nothing to it.
LEMMA GeneratorLifeStep ==
  ASSUME Typing, RecordInv, BatchInv, Generator
  PROVE  LifeStep
<1>1. ASSUME NEW f \in Folder, GenPassOver(f) \/ GenCopy(f)
      PROVE  LifeStep
  <2>1. UNCHANGED <<pending, outcome>> /\ newer' = newer \ {f}
    BY <1>1 DEF GenPassOver, GenCopy, GenTakes
  <2>2. Life!Take({f} \cap newer \cap pending)
    BY <2>1 DEF Life!Take, Stage
  <2>3. QED
    BY <2>2 DEF LifeStep, Life!Next
<1>2. CASE GenRecord
  <2>1. genCur \in Folder /\ genOut \in Settled /\ Stage[genCur] = "taken"
    BY <1>2 DEF Typing, InHand, RecordInv, BatchInv, GenRecord, GenGoes, GenInHand, Stage
  <2>2. outcome' = [outcome EXCEPT ![genCur] = genOut] /\ UNCHANGED Stage
    BY <1>2, StageKept DEF GenRecord
  <2>3. QED
    BY <2>1, <2>2 DEF LifeStep, Life!Next, Life!Judge, Life!Settled, Settled
<1>3. CASE GenUnmark
  <2>1. /\ genCur \in Folder /\ genCur \in pending /\ genCur \notin newer
        /\ outcome[genCur] \in Settled
    BY <1>3 DEF Typing, InHand, RecordInv, BatchInv, GenUnmark, GenGoes, GenInHand
  <2>2. pending' = pending \ {genCur} /\ UNCHANGED <<newer, outcome>>
    BY <1>3 DEF GenUnmark
  <2>3. Life!Settle(genCur)
    BY <2>1, <2>2 DEF Life!Settle, Life!Settled, Settled, Stage
  <2>4. QED
    BY <2>1, <2>3 DEF LifeStep, Life!Next
<1>4. CASE UNCHANGED <<pending, newer, outcome>>
  BY <1>4, StageKept DEF LifeStep
<1>5. QED
  BY <1>1, <1>2, <1>3, <1>4 DEF Generator, GenWork, GenRefused, GenLock, GenPlan, GenSpawn,
     GenInvoked, GenFails, GenPublish, GenExit, GenUnwound, GenTerminated, GenDies

\* A step of the session takes folders up, judges one, settles one or does nothing to them.
LEMMA SessionLifeStep ==
  ASSUME Typing, RecordInv, BatchInv, SessionStep
  PROVE  LifeStep
<1>1. CASE CaptureRevisions
  <2>1. UNCHANGED <<pending, outcome>> /\ newer' = {}
    BY <1>1 DEF CaptureRevisions
  <2>2. Life!Take(newer \cap pending) /\ newer \cap pending \in SUBSET Folder
    BY <2>1 DEF Life!Take, Stage, Typing, TypeOK
  <2>3. QED
    BY <2>2 DEF LifeStep, Life!Next
<1>2. ASSUME NEW f \in Folder, CleanupRecord(f)
      PROVE  LifeStep
  <2>1. f \in pending /\ f \notin newer
    BY <1>2 DEF CleanupRecord, SesGoes, Unserved, BatchInv, Typing, TypeOK
  <2>2. outcome' = [outcome EXCEPT ![f] = "generation-failed"] /\ UNCHANGED Stage
    BY <1>2, StageKept DEF CleanupRecord
  <2>3. QED
    BY <2>1, <2>2 DEF LifeStep, Life!Next, Life!Judge, Life!Settled, Stage
<1>3. CASE CleanupUnmark
  <2>1. cleanCur \in Folder /\ cleanCur \notin newer /\ outcome[cleanCur] \in Settled
    BY <1>3 DEF Typing, InHand, RecordInv, BatchInv, CleanupUnmark, SesGoes
  <2>2. pending' = pending \ {cleanCur} /\ UNCHANGED <<newer, outcome>>
    BY <1>3 DEF CleanupUnmark
  <2>3. Life!Settle(cleanCur) \/ UNCHANGED <<Stage, outcome>>
    BY <2>1, <2>2 DEF Life!Settle, Life!Settled, Settled, Stage
  <2>4. QED
    BY <2>1, <2>3 DEF LifeStep, Life!Next
<1>4. CASE UNCHANGED <<pending, newer, outcome>>
  BY <1>4, StageKept DEF LifeStep
<1>5. QED
  BY <1>1, <1>2, <1>3, <1>4 DEF SessionStep, CaptureLock, CaptureFails, CapturePending,
     OpenWindow, WindowFails, WindowCloses, WindowExpires, CleanupLock, CleanupRevisions,
     CleanupSpare, CleanupDone, CleanupFails

\* Every behaviour of Library is a behaviour of FolderLife.
THEOREM LifeIsImplemented == Spec => LifeImplemented
<1>1. Init => Life!Init
  BY DEF Init, Life!Init, Stage, NoOutcomes, None
<1>2. ASSUME Typing, Typing', ClaimExclusive, RecordInv, BatchInv, [Next]_vars
      PROVE  [Life!Next]_<<Stage, outcome>>
  <2>1. CASE UNCHANGED vars
    BY <2>1, StageKept DEF vars
  <2>2. ASSUME Next
        PROVE  LifeStep
    <3>1. CASE Surroundings
      <4>1. UNCHANGED <<pending, newer, outcome>>
        BY <3>1 DEF Surroundings, FrontendWrites, FrontendExits, SessionReplaced,
           FamilyChangesRoms, OrphanEnds, PowerLoss
      <4>2. QED
        BY <4>1, StageKept DEF LifeStep
    <3>2. QED
      BY <1>2, <2>2, <3>1, NextCases, ScrapeLifeStep, GeneratorLifeStep, SessionLifeStep
  <2>3. QED
    BY <1>2, <2>1, <2>2 DEF LifeStep
<1>3. Typing <=> TypeOK /\ InHand
  BY DEF Typing
<1>4. QED
  BY <1>1, <1>2, <1>3, TypeCorrect, ClaimSafe, RecordCorrect, BatchCorrect, PTL
  DEF Spec, LifeImplemented, Life!Spec

\* The whole inductive invariant.
THEOREM InvariantHolds == Spec => []LibraryInv
<1>1. TypeOK /\ InHand /\ ClaimExclusive /\ RecordInv /\ BatchInv /\ WindowInv
        <=> LibraryInv
  BY DEF LibraryInv
<1>2. QED
  BY <1>1, TypeCorrect, ClaimSafe, RecordCorrect, BatchCorrect, WindowCorrect, PTL

-----------------------------------------------------------------------------
(* Nobody is stuck, the frontend is reached, and a generation ends.  The   *)
(* theorems take []GuardsSuffice as their hypothesis: that an action whose *)
(* guard holds is enabled, the one fact about ENABLED they need.  The      *)
(* last two leave one way out, a set of folders that loses members for     *)
(* ever and never gains one, which no finite set can do.                   *)

\* What the commands of the session's step ask for before they go on.
SessionGuard ==
  \/ sesPc \in {"top", "cleanup"} /\ ClaimFree              \* CaptureLock, CleanupLock
  \/ sesPc \in {"top", "cleanup"} /\ ~ClaimFree             \* CaptureFails, CleanupFails
  \/ sesPc \in {"captureRevisions", "capturePending"}       \* CaptureFails
  \/ sesPc = "openWindow"                                   \* WindowFails
  \/ sesPc = "window" /\ genPc = "idle"                     \* WindowCloses
  \/ sesPc = "window" /\ genPc # "idle"                     \* WindowExpires
  \/ sesPc \in {"cleanupRevisions", "cleanupPick", "cleanupUnmark"}   \* CleanupFails

\* What the generator's own commands ask for.
GeneratorGuard ==
  \/ genPc = "start" /\ ClaimFree                           \* GenLock
  \/ genPc = "start" /\ ~ClaimFree                          \* GenRefused
  \/ genPc \in {"plan", "pick", "record", "unmark"}         \* GenExit
  \/ genPc \in {"copied", "invoking", "merge"}              \* GenFails
  \/ genPc = "ending"                                       \* GenUnwound

\* A guard that holds enables its action: the primed conjuncts only assign.
GuardsSuffice ==
  /\ SessionGuard => ENABLED <<SessionStep>>_vars
  /\ GeneratorGuard => ENABLED <<GenWork>>_vars

\* Neither the session's step nor a generator is ever without a next step: whoever holds the
\* claim, whatever child runs on, wherever an interruption left them, some guard holds.
THEOREM NobodyIsStuck == Spec /\ []GuardsSuffice => []NeverStuck
<1>1. Typing /\ GuardsSuffice => NeverStuck
  <2> SUFFICES ASSUME Typing, GuardsSuffice
               PROVE  NeverStuck
    OBVIOUS
  <2>1. sesPc # "frontend" => SessionGuard
    BY DEF Typing, TypeOK, SesPcs, SessionGuard
  <2>2. genPc # "idle" => GeneratorGuard
    BY DEF Typing, TypeOK, GenPcs, GeneratorGuard
  <2>3. QED
    BY <2>1, <2>2 DEF GuardsSuffice, NeverStuck
<1>2. Typing <=> TypeOK /\ InHand
  BY DEF Typing
<1>3. QED
  BY <1>1, <1>2, TypeCorrect, PTL

\* A command of the session, and one of the generator, as the temporal steps see them.
AtSes(pc) == sesPc = pc
AtGen(pc) == genPc = pc

\* The folders cleanup has yet to look at become fewer for ever.
KeepsClean == toClean' \subseteq toClean
TakesOff   == toClean' # toClean
CleansForEver == <>[][KeepsClean]_vars /\ []<><<TakesOff>>_vars

\* The folders planned for generation become fewer for ever.
KeepsPlan == genTodo' \subseteq genTodo
TakesUp   == genTodo' # genTodo
GeneratesForEver == <>[][KeepsPlan]_vars /\ []<><<TakesUp>>_vars

Upset == PowerLoss \/ SessionReplaced

\* Where the session's own step leads, from each of its commands before cleanup's folders.
LEMMA SessionGoes ==
  ASSUME SessionStep
  PROVE  /\ sesPc = "top" => sesPc' \in {"captureRevisions", "frontend"}
         /\ sesPc = "captureRevisions" => sesPc' \in {"capturePending", "frontend"}
         /\ sesPc = "capturePending" => sesPc' \in {"openWindow", "frontend"}
         /\ sesPc = "openWindow" => sesPc' \in {"window", "cleanup"}
         /\ sesPc = "window" => sesPc' \in {"cleanup", "frontend"}
         /\ sesPc = "cleanup" => sesPc' \in {"cleanupRevisions", "frontend"}
         /\ sesPc = "cleanupRevisions" => sesPc' \in {"cleanupPick", "frontend"}
<1> USE DEF SesGoes
<1>1. ASSUME NEW f \in Folder, CleanupSpare(f) \/ CleanupRecord(f)
      PROVE  sesPc = "cleanupPick"
  BY <1>1 DEF CleanupSpare, CleanupRecord
<1>2. QED
  BY <1>1
  DEF SessionStep, CaptureLock, CaptureFails, CaptureRevisions, CapturePending, OpenWindow,
      WindowFails, WindowCloses, WindowExpires, CleanupLock, CleanupRevisions, CleanupUnmark,
      CleanupDone, CleanupFails

\* Every step of cleanup's loop takes a folder off its list, or is done with one.
LEMMA CleanupGoes ==
  ASSUME SessionStep
  PROVE  /\ sesPc = "cleanupPick" =>
              \/ sesPc' = "frontend"
              \/ /\ sesPc' \in {"cleanupPick", "cleanupUnmark"}
                 /\ KeepsClean /\ TakesOff
         /\ sesPc = "cleanupUnmark" =>
              \/ sesPc' = "frontend"
              \/ sesPc' = "cleanupPick" /\ KeepsClean
<1> USE DEF SesGoes, KeepsClean, TakesOff
<1>1. ASSUME NEW f \in Folder, CleanupSpare(f) \/ CleanupRecord(f)
      PROVE  /\ sesPc = "cleanupPick" /\ sesPc' \in {"cleanupPick", "cleanupUnmark"}
             /\ KeepsClean /\ TakesOff
  BY <1>1 DEF CleanupSpare, CleanupRecord
<1>2. QED
  BY <1>1
  DEF SessionStep, CaptureLock, CaptureFails, CaptureRevisions, CapturePending, OpenWindow,
      WindowFails, WindowCloses, WindowExpires, CleanupLock, CleanupRevisions, CleanupUnmark,
      CleanupDone, CleanupFails

\* Nobody else moves a session that has not come to the frontend.
LEMMA SessionStands ==
  ASSUME [Next]_vars, ~SessionStep, ~Upset, sesPc # "frontend"
  PROVE  UNCHANGED <<sesPc, toClean>>
<1>1. ASSUME NEW s \in Scraper, Scrape(s)
      PROVE  UNCHANGED <<sesPc, toClean>>
  BY <1>1
  DEF Scrape, ScrapeLock, ScrapeRefuse, ScrapeRecordRefusal, ScrapeDiscover, ScrapePassOver,
      ScrapeSpawn, ScrapeFetched, ScrapeFetchFails, ScrapeRevise, ScrapeMark, ScrapeNote,
      ScrapeSettle, ScrapeRecord, ScrapeInterrupt, ScrapeRecordInterrupted, ScrapeDies
<1>2. CASE Generator
  BY <1>2
  DEF Generator, GenWork, GenRefused, GenLock, GenPlan, GenPassOver, GenCopy, GenSpawn, GenFails,
      GenPublish, GenRecord, GenUnmark, GenExit, GenUnwound, GenInvoked, GenTerminated, GenDies
<1>3. CASE (\E f \in Folder : FrontendWrites(f)) \/ FrontendExits
  BY <1>3 DEF FrontendWrites, FrontendExits
<1>4. CASE (\E f \in Folder : FamilyChangesRoms(f)) \/ (\E p \in Launcher : OrphanEnds(p))
  BY <1>4 DEF FamilyChangesRoms, OrphanEnds
<1>5. CASE UNCHANGED vars
  BY <1>5 DEF vars
<1>6. QED
  BY <1>1, <1>2, <1>3, <1>4, <1>5 DEF Next, Upset

\* The frontend is reached, unless the session is replaced again and again, or its cleanup takes
\* folders off one list for ever.
THEOREM FrontendIsReached == FairSpec /\ []GuardsSuffice => FrontendReached \/ CleansForEver
<1> DEFINE Step == Typing /\ [Next]_vars /\ ~Upset /\ ~AtSes("frontend")
<1>1. Typing => \/ AtSes("top") \/ AtSes("captureRevisions") \/ AtSes("capturePending")
                \/ AtSes("openWindow") \/ AtSes("window") \/ AtSes("cleanup")
                \/ AtSes("cleanupRevisions") \/ AtSes("cleanupPick") \/ AtSes("cleanupUnmark")
                \/ AtSes("frontend")
  BY DEF Typing, TypeOK, SesPcs, AtSes
<1>2. Step /\ ~SessionStep =>
        /\ AtSes("top") => AtSes("top")'
        /\ AtSes("captureRevisions") => AtSes("captureRevisions")'
        /\ AtSes("capturePending") => AtSes("capturePending")'
        /\ AtSes("openWindow") => AtSes("openWindow")'
        /\ AtSes("window") => AtSes("window")'
        /\ AtSes("cleanup") => AtSes("cleanup")'
        /\ AtSes("cleanupRevisions") => AtSes("cleanupRevisions")'
        /\ AtSes("cleanupPick") => AtSes("cleanupPick")'
        /\ AtSes("cleanupUnmark") => AtSes("cleanupUnmark")'
        /\ KeepsClean
  BY SessionStands DEF AtSes, KeepsClean
<1>3. Step /\ SessionStep =>
        /\ AtSes("top") => AtSes("captureRevisions")' \/ AtSes("frontend")'
        /\ AtSes("captureRevisions") => AtSes("capturePending")' \/ AtSes("frontend")'
        /\ AtSes("capturePending") => AtSes("openWindow")' \/ AtSes("frontend")'
        /\ AtSes("openWindow") => AtSes("window")' \/ AtSes("cleanup")'
        /\ AtSes("window") => AtSes("cleanup")' \/ AtSes("frontend")'
        /\ AtSes("cleanup") => AtSes("cleanupRevisions")' \/ AtSes("frontend")'
        /\ AtSes("cleanupRevisions") => AtSes("cleanupPick")' \/ AtSes("frontend")'
  BY SessionGoes DEF AtSes
<1>4. Step /\ SessionStep =>
        /\ AtSes("cleanupPick") =>
             \/ AtSes("frontend")'
             \/ (AtSes("cleanupPick")' \/ AtSes("cleanupUnmark")') /\ KeepsClean /\ TakesOff
        /\ AtSes("cleanupUnmark") => AtSes("frontend")' \/ (AtSes("cleanupPick")' /\ KeepsClean)
  BY CleanupGoes DEF AtSes
<1>5. /\ <<SessionStep>>_vars => SessionStep
      /\ SessionStep /\ TakesOff => <<TakesOff>>_vars
  BY DEF vars, TakesOff
<1>6. Typing /\ [Next]_vars /\ ~<<PowerLoss \/ SessionReplaced>>_vars /\ ~AtSes("frontend") =>
        Step \/ UNCHANGED vars
  BY DEF Upset
<1>7. UNCHANGED vars =>
        /\ AtSes("top") => AtSes("top")'
        /\ AtSes("captureRevisions") => AtSes("captureRevisions")'
        /\ AtSes("capturePending") => AtSes("capturePending")'
        /\ AtSes("openWindow") => AtSes("openWindow")'
        /\ AtSes("window") => AtSes("window")'
        /\ AtSes("cleanup") => AtSes("cleanup")'
        /\ AtSes("cleanupRevisions") => AtSes("cleanupRevisions")'
        /\ AtSes("cleanupPick") => AtSes("cleanupPick")'
        /\ AtSes("cleanupUnmark") => AtSes("cleanupUnmark")'
        /\ KeepsClean /\ ~<<SessionStep>>_vars
  BY DEF vars, AtSes, KeepsClean
<1>8. /\ AtSes("frontend") <=> sesPc = "frontend"
      /\ ~AtSes("frontend") <=> sesPc # "frontend"
  BY DEF AtSes
<1>9. Typing <=> TypeOK /\ InHand
  BY DEF Typing
<1> HIDE DEF Step
<1>10. QED
  BY <1>1, <1>2, <1>3, <1>4, <1>5, <1>6, <1>7, <1>8, <1>9, TypeCorrect,
     NobodyIsStuck, PTL
  DEF FairSpec, Spec, Fairness, NeverStuck, FrontendReached, CleansForEver

\* Where the generator's own step leads.
LEMMA GeneratorGoes ==
  ASSUME GenWork
  PROVE  /\ genPc # "idle"
         /\ genPc = "start" => genPc' \in {"plan", "idle"}
         /\ genPc = "plan" => genPc' \in {"pick", "idle"}
         /\ genPc = "ending" => genPc' = "idle"
         /\ genPc = "copied" => genPc' \in {"invoking", "record"} /\ KeepsPlan
         /\ genPc = "invoking" => genPc' = "record" /\ KeepsPlan
         /\ genPc = "merge" => genPc' = "record" /\ KeepsPlan
         /\ genPc = "record" => genPc' = "idle" \/ (genPc' = "unmark" /\ KeepsPlan)
         /\ genPc = "unmark" => genPc' = "idle" \/ (genPc' = "pick" /\ KeepsPlan)
<1> USE DEF GenGoes, GenSettles, GenEnds, KeepsPlan
<1>1. ASSUME NEW f \in Folder, GenPassOver(f) \/ GenCopy(f)
      PROVE  genPc = "pick"
  BY <1>1 DEF GenPassOver, GenCopy, GenTakes
<1>2. QED
  BY <1>1
  DEF GenWork, GenRefused, GenLock, GenPlan, GenSpawn, GenFails, GenPublish, GenRecord, GenUnmark,
      GenExit, GenUnwound

\* Going on with the plan takes a folder from it.
LEMMA PlanGoes ==
  ASSUME GenWork, genPc = "pick"
  PROVE  \/ genPc' = "idle"
         \/ genPc' \in {"copied", "record"} /\ KeepsPlan /\ TakesUp
<1> USE DEF GenGoes, GenSettles, GenEnds, KeepsPlan, TakesUp
<1>1. ASSUME NEW f \in Folder, GenPassOver(f) \/ GenCopy(f)
      PROVE  genPc' \in {"copied", "record"} /\ KeepsPlan /\ TakesUp
  BY <1>1 DEF GenPassOver, GenCopy, GenTakes
<1>2. QED
  BY <1>1
  DEF GenWork, GenRefused, GenLock, GenPlan, GenSpawn, GenFails, GenPublish, GenRecord, GenUnmark,
      GenExit, GenUnwound

\* What anything else does to a generator that runs: its child succeeds, a signal or a power
\* loss ends it, or it is told to end and has its child to end first.
LEMMA GeneratorStands ==
  ASSUME [Next]_vars, ~GenWork, genPc # "idle"
  PROVE  \/ UNCHANGED <<genPc, genTodo>>
         \/ genPc = "invoking" /\ genPc' \in {"merge", "ending"} /\ UNCHANGED genTodo
         \/ genPc' = "idle"
<1> USE DEF GenSignalled, GenEnds, GenGoes
<1>1. ASSUME NEW s \in Scraper, Scrape(s)
      PROVE  UNCHANGED <<genPc, genTodo>>
  BY <1>1
  DEF Scrape, ScrapeLock, ScrapeRefuse, ScrapeRecordRefusal, ScrapeDiscover, ScrapePassOver,
      ScrapeSpawn, ScrapeFetched, ScrapeFetchFails, ScrapeRevise, ScrapeMark, ScrapeNote,
      ScrapeSettle, ScrapeRecord, ScrapeInterrupt, ScrapeRecordInterrupted, ScrapeDies
<1>2. CASE GenInvoked \/ GenTerminated \/ GenDies
  BY <1>2 DEF GenInvoked, GenTerminated, GenDies
<1>3. CASE SessionStep
  <2>1. ASSUME NEW f \in Folder, CleanupSpare(f) \/ CleanupRecord(f)
        PROVE  UNCHANGED <<genPc, genTodo>>
    BY <2>1 DEF CleanupSpare, CleanupRecord
  <2>2. QED
    BY <1>3, <2>1
    DEF SessionStep, CaptureLock, CaptureFails, CaptureRevisions, CapturePending, OpenWindow,
        WindowFails, WindowCloses, WindowExpires, CleanupLock, CleanupRevisions, CleanupUnmark,
        CleanupDone, CleanupFails
<1>4. CASE (\E f \in Folder : FrontendWrites(f)) \/ FrontendExits \/ SessionReplaced \/ PowerLoss
  BY <1>4 DEF FrontendWrites, FrontendExits, SessionReplaced, PowerLoss
<1>5. CASE (\E f \in Folder : FamilyChangesRoms(f)) \/ (\E p \in Launcher : OrphanEnds(p))
  BY <1>5 DEF FamilyChangesRoms, OrphanEnds
<1>6. CASE UNCHANGED vars
  BY <1>6 DEF vars
<1>7. QED
  BY <1>1, <1>2, <1>3, <1>4, <1>5, <1>6 DEF Next, Generator

\* A generation ends, unless it takes folders from one plan for ever: whoever is interrupted,
\* killed or left waiting for its child has a step of its own to its end.
THEOREM GenerationsEnd == FairSpec /\ []GuardsSuffice => GenerationEnds \/ GeneratesForEver
<1> DEFINE Step == Typing /\ [Next]_vars
<1>1. Typing => \/ AtGen("idle") \/ AtGen("start") \/ AtGen("plan") \/ AtGen("pick")
                \/ AtGen("copied") \/ AtGen("invoking") \/ AtGen("merge") \/ AtGen("record")
                \/ AtGen("unmark") \/ AtGen("ending")
  BY DEF Typing, TypeOK, GenPcs, AtGen
<1>2. Step /\ ~GenWork =>
        /\ AtGen("start") => AtGen("start")' \/ AtGen("idle")'
        /\ AtGen("plan") => AtGen("plan")' \/ AtGen("idle")'
        /\ AtGen("pick") => (AtGen("pick")' /\ KeepsPlan) \/ AtGen("idle")'
        /\ AtGen("copied") => (AtGen("copied")' /\ KeepsPlan) \/ AtGen("idle")'
        /\ AtGen("invoking") =>
             \/ (AtGen("invoking")' \/ AtGen("merge")') /\ KeepsPlan
             \/ AtGen("ending")' \/ AtGen("idle")'
        /\ AtGen("merge") => (AtGen("merge")' /\ KeepsPlan) \/ AtGen("idle")'
        /\ AtGen("record") => (AtGen("record")' /\ KeepsPlan) \/ AtGen("idle")'
        /\ AtGen("unmark") => (AtGen("unmark")' /\ KeepsPlan) \/ AtGen("idle")'
        /\ AtGen("ending") => AtGen("ending")' \/ AtGen("idle")'
  BY GeneratorStands DEF AtGen, KeepsPlan
<1>3. Step /\ GenWork =>
        /\ ~AtGen("idle")
        /\ AtGen("start") => AtGen("plan")' \/ AtGen("idle")'
        /\ AtGen("plan") => AtGen("pick")' \/ AtGen("idle")'
        /\ AtGen("pick") =>
             \/ (AtGen("copied")' \/ AtGen("record")') /\ KeepsPlan /\ TakesUp
             \/ AtGen("idle")'
        /\ AtGen("copied") => (AtGen("invoking")' \/ AtGen("record")') /\ KeepsPlan
        /\ AtGen("invoking") => AtGen("record")' /\ KeepsPlan
        /\ AtGen("merge") => AtGen("record")' /\ KeepsPlan
        /\ AtGen("record") => AtGen("idle")' \/ (AtGen("unmark")' /\ KeepsPlan)
        /\ AtGen("unmark") => AtGen("idle")' \/ (AtGen("pick")' /\ KeepsPlan)
        /\ AtGen("ending") => AtGen("idle")'
  BY GeneratorGoes, PlanGoes DEF AtGen
<1>4. /\ <<GenWork>>_vars => GenWork
      /\ GenWork /\ TakesUp => <<TakesUp>>_vars
  BY DEF vars, TakesUp
<1>5. Typing /\ [Next]_vars => Step
  OBVIOUS
<1>6. /\ AtGen("idle") <=> genPc = "idle"
      /\ ~AtGen("idle") <=> genPc # "idle"
  BY DEF AtGen
<1>7. Typing <=> TypeOK /\ InHand
  BY DEF Typing
<1> HIDE DEF Step
<1>8. QED
  BY <1>1, <1>2, <1>3, <1>4, <1>5, <1>6, <1>7, TypeCorrect, NobodyIsStuck, PTL
  DEF FairSpec, Spec, Fairness, NeverStuck, GenerationEnds, GeneratesForEver
=============================================================================
