------------------------------- MODULE Library -------------------------------
(***************************************************************************)
(* The game library of emubox: src/pkgs/emubox-library/library.py and the  *)
(* session's pre-frontend step in src/modules/library/default.nix.         *)
(*                                                                         *)
(* Three kinds of process share the state files under the cache root:      *)
(*   - any number of scrape commands (Tools entry, or an admin's shell);   *)
(*   - the generator, run by the session in a window before the frontend;  *)
(*   - the session itself, through the capture and cleanup subcommands.    *)
(* Whoever touches the files holds the claim, a non-blocking flock.  The   *)
(* kernel keeps a flock while any descriptor of it is open, so a process   *)
(* pins the claim exactly while it is in its locked section or a scraper   *)
(* child that inherited the descriptor is alive, even one whose parent was *)
(* killed.                                                                 *)
(*                                                                         *)
(* Abstracted: a fetch's uuid is the number of fetches stored so far; the  *)
(* order of the pending list and of the record's keys; the log's text;     *)
(* clocks (a deadline may expire at any step it is tested at).  Of a       *)
(* gamelist only the family's writes and its readability are kept.         *)
(***************************************************************************)
EXTENDS Naturals, FiniteSets

CONSTANTS
  Folder,       \* ROM folders, directly under the ROM root
  Mapped,       \* the folders the platform map names
  Removable,    \* the folders the family may delete and copy in again
  Scraper,      \* scrape commands that may run
  Gen,          \* the windowed generator process
  Ses,          \* the session, as holder of the claim in capture and cleanup
  MaxFetches,   \* bound: fetches stored, over the whole behaviour
  MaxEdits      \* bound: frontend writes to one gamelist

ASSUME LibraryAssumption ==
  /\ Mapped \subseteq Folder
  /\ Removable \subseteq Folder
  /\ Gen \notin Scraper
  /\ Ses \notin Scraper
  /\ Gen # Ses
  /\ MaxFetches \in Nat
  /\ MaxEdits \in Nat

Proc     == Scraper \cup {Gen, Ses}
Launcher == Scraper \cup {Gen}         \* the processes that start a scraper child

None      == "none"
Fetches   == {"fetched", "fetch-failed", "unmapped"}
Settled   == {"generated", "generation-failed"}
Outcomes  == Fetches \cup Settled \cup {None}
Results   == {None, "complete", "partial", "failed", "refused", "interrupted"}
NoFetch   == 0                           \* a folder revisions.json does not name

VARIABLES
  \* The state files; each write is an atomic rename, so each survives a crash whole.
  pending,     \* folders fetched and not generated
  revision,    \* revisions.json: the identity of each folder's newest fetch
  issued,      \* fetch identities given out; uuid4 never repeats one
  result,      \* last-run.json: how the last run ended
  outcome,     \* last-run.json: the outcome of each folder
  \* The rest of the disk.
  gamelist,    \* live gamelists: family writes they carry, and whether they parse
  work,        \* folders with a work area beside their live gamelist
  roms,        \* folders that exist under the ROM root
  \* The scraper children.
  child,
  \* The scrape commands.
  scrapePc, scrapeTodo, scrapeCur, scrapeOut,
  \* The generator.
  genPc, genTodo, genCur, genOut, genCopy,
  \* The session.
  sesPc, revs, taken, batch, toClean, cleanCur, deferred, cleaned,
  \* History, read by no action's guard.
  newer        \* folders a fetch stored something for since the capture, or since the
               \* generator took them up

files       == <<pending, revision, issued, result, outcome>>
disk        == <<gamelist, work, roms>>
scrapeVars  == <<scrapePc, scrapeTodo, scrapeCur, scrapeOut>>
genVars     == <<genPc, genTodo, genCur, genOut, genCopy>>
sessionVars == <<sesPc, revs, taken, batch, toClean, cleanCur, deferred, cleaned>>
vars == <<files, disk, child, scrapeVars, genVars, sessionVars, newer>>

ScrapePcs == {"idle", "check", "refusing", "fetching", "invoking", "revise",
              "mark", "note", "settled", "interrupted"}
GenPcs    == {"idle", "start", "plan", "pick", "copied", "invoking", "merge",
              "record", "unmark", "ending"}
SesPcs    == {"top", "captureRevisions", "capturePending", "openWindow", "window",
              "cleanup", "cleanupRevisions", "cleanupPick", "cleanupUnmark",
              "frontend"}

NoOutcomes == [f \in Folder |-> None]
NoFetches  == [f \in Folder |-> NoFetch]

-----------------------------------------------------------------------------
(* The claim.                                                              *)

SesLocked == {"captureRevisions", "capturePending", "cleanupRevisions",
              "cleanupPick", "cleanupUnmark"}

\* p holds its own descriptor of the lock file.
Claims(p) ==
  \/ p \in Scraper /\ scrapePc[p] # "idle"
  \/ p = Gen /\ genPc \notin {"idle", "start"}
  \/ p = Ses /\ sesPc \in SesLocked

\* p, or a scraper child p started, keeps the flock held.
Pins(p) == Claims(p) \/ (p \in Launcher /\ child[p] # "none")

\* Mutant of ClaimFree: a scraper child does not inherit the lock's descriptor.
MutClaimFree == \A p \in Proc : ~Claims(p)

\* What flock(LOCK_EX | LOCK_NB) finds.
ClaimFree == \A p \in Proc : ~Pins(p)

\* Killing p's parent leaves the child it was running to run on.
Abandoned(p) == [child EXCEPT ![p] = IF @ = "attached" THEN "orphan" ELSE @]

-----------------------------------------------------------------------------
(* The scrape command.                                                     *)

\* Mutant of CarriedOutcomes: the record is written without the previous outcomes.
MutCarriedOutcomes == NoOutcomes

\* Previous outcomes of the folders that still exist.
CarriedOutcomes == [f \in Folder |-> IF f \in roms THEN outcome[f] ELSE None]

\* The command ends: its descriptor closes and its locals are gone.
ScrapeEnds(s) ==
  /\ scrapePc'   = [scrapePc   EXCEPT ![s] = "idle"]
  /\ scrapeTodo' = [scrapeTodo EXCEPT ![s] = {}]
  /\ scrapeCur'  = [scrapeCur  EXCEPT ![s] = None]
  /\ scrapeOut'  = [scrapeOut  EXCEPT ![s] = NoOutcomes]

ScrapeGoes(s, from, to) ==
  /\ scrapePc[s] = from
  /\ scrapePc' = [scrapePc EXCEPT ![s] = to]

\* The folder in hand ends with outcome o, and the loop goes on.
ScrapeNotes(s, f, o) ==
  /\ scrapeOut' = [scrapeOut EXCEPT ![s][f] = o]
  /\ scrapeCur' = [scrapeCur EXCEPT ![s] = None]

\* lock() succeeds.  A refused command exits 1 and changes nothing, so it is no step.
ScrapeLock(s) ==
  /\ ClaimFree
  /\ ScrapeGoes(s, "idle", "check")
  /\ UNCHANGED <<files, disk, child, scrapeTodo, scrapeCur, scrapeOut, genVars, sessionVars, newer>>

\* Unusable credentials: the log names the cause and later signals are ignored.
ScrapeRefuse(s) ==
  /\ ScrapeGoes(s, "check", "refusing")
  /\ UNCHANGED <<files, disk, child, scrapeTodo, scrapeCur, scrapeOut, genVars, sessionVars, newer>>

ScrapeRecordRefusal(s) ==
  /\ scrapePc[s] = "refusing"
  /\ result' = "refused"
  /\ outcome' = CarriedOutcomes
  /\ ScrapeEnds(s)
  /\ UNCHANGED <<pending, revision, issued, disk, child, genVars, sessionVars, newer>>

\* discover(): some of the existing folders hold ROM files of a system the frontend knows.
ScrapeDiscover(s) ==
  /\ ScrapeGoes(s, "check", "fetching")
  /\ \E found \in SUBSET roms : scrapeTodo' = [scrapeTodo EXCEPT ![s] = found]
  /\ UNCHANGED <<files, disk, child, scrapeCur, scrapeOut, genVars, sessionVars, newer>>

ScrapeTakes(s, f) ==
  /\ f \in scrapeTodo[s]
  /\ scrapeTodo' = [scrapeTodo EXCEPT ![s] = @ \ {f}]

\* A folder without a platform, or one that cannot be listed or whose scraper cannot start.
ScrapePassOver(s, f) ==
  /\ scrapePc[s] = "fetching"
  /\ ScrapeTakes(s, f)
  /\ ScrapeNotes(s, f, IF f \in Mapped THEN "fetch-failed" ELSE "unmapped")
  /\ UNCHANGED <<files, disk, child, scrapePc, genVars, sessionVars, newer>>

\* run_skyscraper: the child inherits the claim's descriptor.
ScrapeSpawn(s, f) ==
  /\ ScrapeGoes(s, "fetching", "invoking")
  /\ f \in Mapped
  /\ ScrapeTakes(s, f)
  /\ scrapeCur' = [scrapeCur EXCEPT ![s] = f]
  /\ child' = [child EXCEPT ![s] = "attached"]
  /\ UNCHANGED <<files, disk, scrapeOut, genVars, sessionVars, newer>>

\* The child exits 0; its group is ended before run_skyscraper returns.
ScrapeFetched(s) ==
  /\ issued < MaxFetches
  /\ ScrapeGoes(s, "invoking", "revise")
  /\ child' = [child EXCEPT ![s] = "none"]
  /\ UNCHANGED <<files, disk, scrapeTodo, scrapeCur, scrapeOut, genVars, sessionVars, newer>>

ScrapeFetchFails(s) ==
  /\ ScrapeGoes(s, "invoking", "fetching")
  /\ child' = [child EXCEPT ![s] = "none"]
  /\ ScrapeNotes(s, scrapeCur[s], "fetch-failed")
  /\ UNCHANGED <<files, disk, scrapeTodo, genVars, sessionVars, newer>>

\* Mutant of ScrapeRevise: a folder already pending keeps its identity.
MutScrapeRevise(s) ==
  /\ ScrapeGoes(s, "revise", "mark")
  /\ issued' = issued + 1
  /\ revision' = [revision EXCEPT ![scrapeCur[s]] = IF scrapeCur[s] \in pending THEN @ ELSE issued']
  /\ newer' = newer \cup {scrapeCur[s]}
  /\ UNCHANGED <<pending, result, outcome, disk, child, scrapeTodo, scrapeCur, scrapeOut, genVars, sessionVars>>

\* First the new identity is stored ...
ScrapeRevise(s) ==
  /\ ScrapeGoes(s, "revise", "mark")
  /\ issued' = issued + 1
  /\ revision' = [revision EXCEPT ![scrapeCur[s]] = issued']
  /\ newer' = newer \cup {scrapeCur[s]}
  /\ UNCHANGED <<pending, result, outcome, disk, child, scrapeTodo, scrapeCur, scrapeOut, genVars, sessionVars>>

\* ... then the folder is made pending ...
ScrapeMark(s) ==
  /\ ScrapeGoes(s, "mark", "note")
  /\ pending' = pending \cup {scrapeCur[s]}
  /\ newer' = newer \cup {scrapeCur[s]}
  /\ UNCHANGED <<revision, issued, result, outcome, disk, child, scrapeTodo, scrapeCur, scrapeOut, genVars, sessionVars>>

\* ... and only then does the run count it as fetched.
ScrapeNote(s) ==
  /\ ScrapeGoes(s, "note", "fetching")
  /\ ScrapeNotes(s, scrapeCur[s], "fetched")
  /\ UNCHANGED <<files, disk, child, scrapeTodo, genVars, sessionVars, newer>>

Ended(s, o) == \E f \in Folder : scrapeOut[s][f] = o

RunResult(s) ==
  IF ~Ended(s, "fetch-failed") THEN "complete"
  ELSE IF Ended(s, "fetched") THEN "partial" ELSE "failed"

\* Every folder is finished: the log is written and later signals are ignored.
ScrapeSettle(s) ==
  /\ scrapeTodo[s] = {}
  /\ ScrapeGoes(s, "fetching", "settled")
  /\ UNCHANGED <<files, disk, child, scrapeTodo, scrapeCur, scrapeOut, genVars, sessionVars, newer>>

ScrapeRecord(s) ==
  /\ scrapePc[s] = "settled"
  /\ result' = RunResult(s)
  /\ outcome' = scrapeOut[s]
  /\ ScrapeEnds(s)
  /\ UNCHANGED <<pending, revision, issued, disk, child, genVars, sessionVars, newer>>

Armed == {"check", "fetching", "invoking", "revise", "mark", "note"}

\* A termination signal anywhere under the claim; a running child is ended first.
ScrapeInterrupt(s) ==
  /\ scrapePc[s] \in Armed
  /\ scrapePc' = [scrapePc EXCEPT ![s] = "interrupted"]
  /\ child' = [child EXCEPT ![s] = "none"]
  /\ UNCHANGED <<files, disk, scrapeTodo, scrapeCur, scrapeOut, genVars, sessionVars, newer>>

ScrapeRecordInterrupted(s) ==
  /\ scrapePc[s] = "interrupted"
  /\ result' = "interrupted"
  /\ outcome' = [f \in Folder |->
                   IF scrapeOut[s][f] # None THEN scrapeOut[s][f] ELSE CarriedOutcomes[f]]
  /\ ScrapeEnds(s)
  /\ UNCHANGED <<pending, revision, issued, disk, child, genVars, sessionVars, newer>>

\* SIGKILL at any point, which leaves the child to run on; a state file that cannot be written
\* ends a run, which then has no child, the same way.
ScrapeDies(s) ==
  /\ scrapePc[s] # "idle"
  /\ ScrapeEnds(s)
  /\ child' = Abandoned(s)
  /\ UNCHANGED <<files, disk, genVars, sessionVars, newer>>

Scrape(s) ==
  \/ ScrapeLock(s) \/ ScrapeRefuse(s) \/ ScrapeRecordRefusal(s) \/ ScrapeDiscover(s)
  \/ \E f \in Folder : ScrapePassOver(s, f) \/ ScrapeSpawn(s, f)
  \/ ScrapeFetched(s) \/ ScrapeFetchFails(s)
  \/ ScrapeRevise(s) \/ ScrapeMark(s) \/ ScrapeNote(s)
  \/ ScrapeSettle(s) \/ ScrapeRecord(s)
  \/ ScrapeInterrupt(s) \/ ScrapeRecordInterrupted(s) \/ ScrapeDies(s)

-----------------------------------------------------------------------------
(* The generator.                                                          *)

GenGoes(from, to) ==
  /\ genPc = from
  /\ genPc' = to

\* The process ends, by itself or not; its descriptor closes.
GenEnds ==
  /\ genPc'   = "idle"
  /\ genTodo' = {}
  /\ genCur'  = None
  /\ genOut'  = None
  /\ genCopy' = 0

\* Mutant of GenSettles: the folder leaves the pending list without being recorded.
MutGenSettles(o) ==
  /\ genPc'   = "unmark"
  /\ genOut'  = o
  /\ genCopy' = 0
  /\ work'    = work \ {genCur}
  /\ UNCHANGED <<genTodo, genCur>>

\* The folder in hand ends with outcome o and its work area is discarded.
GenSettles(o) ==
  /\ genPc'   = "record"
  /\ genOut'  = o
  /\ genCopy' = 0
  /\ work'    = work \ {genCur}
  /\ UNCHANGED <<genTodo, genCur>>

\* A claim held by someone else: exit 75, nothing touched.
GenRefused ==
  /\ genPc = "start"
  /\ ~ClaimFree
  /\ GenEnds
  /\ deferred' = TRUE
  /\ UNCHANGED <<files, disk, child, scrapeVars, sesPc, revs, taken, batch, toClean, cleanCur, cleaned, newer>>

GenLock ==
  /\ ClaimFree
  /\ GenGoes("start", "plan")
  /\ UNCHANGED <<files, disk, child, scrapeVars, genTodo, genCur, genOut, genCopy, sessionVars, newer>>

GenPlan ==
  /\ GenGoes("plan", "pick")
  /\ genTodo' = pending
  /\ UNCHANGED <<files, disk, child, scrapeVars, genCur, genOut, genCopy, sessionVars, newer>>

\* The next planned folder that is still pending; one that no longer is would be left out.
GenTakes(f) ==
  /\ genPc = "pick"
  /\ f \in genTodo
  /\ f \in pending
  /\ genTodo' = genTodo \ {f}
  /\ genCur' = f
  /\ newer' = newer \ {f}

\* Past the overall limit, without a platform, or unknown to the frontend: failed unattempted.
GenPassOver(f) ==
  /\ GenTakes(f)
  /\ genPc' = "record"
  /\ genOut' = "generation-failed"
  /\ UNCHANGED <<files, disk, child, scrapeVars, genCopy, sessionVars>>

\* Discard leftover work areas, make one, and copy the live gamelist into it if it parses.
GenCopy(f) ==
  /\ GenTakes(f)
  /\ UNCHANGED <<files, gamelist, roms, child, scrapeVars, sessionVars>>
  /\ \/ /\ gamelist[f].parses
        /\ genPc' = "copied"
        /\ genCopy' = gamelist[f].edits
        /\ work' = work \cup {f}
        /\ UNCHANGED genOut
     \/ /\ genPc' = "record"       \* unreadable, or the work area cannot be made
        /\ genOut' = "generation-failed"
        /\ work' = work \ {f}
        /\ UNCHANGED genCopy

GenSpawn ==
  /\ GenGoes("copied", "invoking")
  /\ child' = [child EXCEPT ![Gen] = "attached"]
  /\ UNCHANGED <<files, disk, scrapeVars, genTodo, genCur, genOut, genCopy, sessionVars, newer>>

\* The child exits 0 within the limit and wrote a gamelist.
GenInvoked ==
  /\ GenGoes("invoking", "merge")
  /\ child' = [child EXCEPT ![Gen] = "none"]
  /\ UNCHANGED <<files, disk, scrapeVars, genTodo, genCur, genOut, genCopy, sessionVars, newer>>

\* Mutant of GenFails: a child past its limit is left running.
MutGenFails ==
  /\ genPc \in {"copied", "invoking", "merge"}
  /\ GenSettles("generation-failed")
  /\ child' = Abandoned(Gen)
  /\ UNCHANGED <<files, gamelist, roms, scrapeVars, sessionVars, newer>>

\* The child cannot start, fails, writes nothing, or exceeds the limit and is ended; or what
\* it wrote cannot be merged and written before the limit.
GenFails ==
  /\ genPc \in {"copied", "invoking", "merge"}
  /\ GenSettles("generation-failed")
  /\ child' = [child EXCEPT ![Gen] = "none"]
  /\ UNCHANGED <<files, gamelist, roms, scrapeVars, sessionVars, newer>>

\* The merged list, which carries the copy's family metadata, replaces the live one.  The
\* directory's fsync comes after the rename and may still fail the folder.
GenPublish ==
  /\ genPc = "merge"
  /\ gamelist' = [gamelist EXCEPT ![genCur] = [edits |-> genCopy, parses |-> TRUE]]
  /\ \E o \in Settled : GenSettles(o)
  /\ UNCHANGED <<files, roms, child, scrapeVars, sessionVars, newer>>

\* Mutant of GenRecord: the record is rewritten with the folder in hand only.
MutGenRecord ==
  /\ GenGoes("record", "unmark")
  /\ outcome' = [NoOutcomes EXCEPT ![genCur] = genOut]
  /\ UNCHANGED <<pending, revision, issued, result, disk, child, scrapeVars, genTodo, genCur, genOut, genCopy, sessionVars, newer>>

\* _record_generation, which keeps the run's result and the other folders' outcomes ...
GenRecord ==
  /\ GenGoes("record", "unmark")
  /\ outcome' = [outcome EXCEPT ![genCur] = genOut]
  /\ UNCHANGED <<pending, revision, issued, result, disk, child, scrapeVars, genTodo, genCur, genOut, genCopy, sessionVars, newer>>

\* ... comes before the folder leaves the pending list.
GenUnmark ==
  /\ GenGoes("unmark", "pick")
  /\ pending' = pending \ {genCur}
  /\ genCur' = None
  /\ genOut' = None
  /\ UNCHANGED <<revision, issued, result, outcome, disk, child, scrapeVars, genTodo, genCopy, sessionVars, newer>>

\* Exit 0: every folder is handled, or a state file cannot be read or written.
GenExit ==
  /\ genPc \in {"plan", "pick", "record", "unmark"}
  /\ GenEnds
  /\ UNCHANGED <<files, disk, child, scrapeVars, sessionVars, newer>>

\* Mutant of GenUnwound: an interrupted generator waits for its child instead of ending it.
MutGenUnwound ==
  /\ genPc = "ending"
  /\ child[Gen] = "none"
  /\ GenEnds
  /\ work' = work \ {genCur}
  /\ UNCHANGED <<files, gamelist, roms, child, scrapeVars, sessionVars, newer>>

\* Interrupted while its child runs: the group is ended and, unless a second signal waited,
\* the work area removed; then it exits.
GenUnwound ==
  /\ genPc = "ending"
  /\ GenEnds
  /\ child' = [child EXCEPT ![Gen] = "none"]
  /\ work' \in {work, work \ {genCur}}
  /\ UNCHANGED <<files, gamelist, roms, scrapeVars, sessionVars, newer>>

\* Mutant of GenSignalled: a hangup outside the child's run is ignored.
MutGenSignalled ==
  IF genPc \in {"invoking", "ending"}
  THEN genPc' = "ending" /\ UNCHANGED <<genTodo, genCur, genOut, genCopy>>
  ELSE UNCHANGED genVars

\* What a termination signal (SIGHUP when the window goes) does: handlers stand only while
\* the child runs; anywhere else the default action ends the process on the spot.
GenSignalled ==
  IF genPc \in {"invoking", "ending"}
  THEN genPc' = "ending" /\ UNCHANGED <<genTodo, genCur, genOut, genCopy>>
  ELSE GenEnds

GenTerminated ==
  /\ genPc \notin {"idle", "ending"}
  /\ GenSignalled
  /\ UNCHANGED <<files, disk, child, scrapeVars, sessionVars, newer>>

\* SIGKILL.
GenDies ==
  /\ genPc # "idle"
  /\ GenEnds
  /\ child' = Abandoned(Gen)
  /\ UNCHANGED <<files, disk, scrapeVars, sessionVars, newer>>

\* The steps the generator takes by itself, whatever its child does.
GenWork ==
  \/ GenRefused \/ GenLock \/ GenPlan
  \/ \E f \in Folder : GenPassOver(f) \/ GenCopy(f)
  \/ GenSpawn \/ GenFails \/ GenPublish
  \/ GenRecord \/ GenUnmark \/ GenExit \/ GenUnwound

Generator == GenWork \/ GenInvoked \/ GenTerminated \/ GenDies

-----------------------------------------------------------------------------
(* The session's pre-frontend step, and the frontend it is followed by.    *)

SesGoes(from, to) ==
  /\ sesPc = from
  /\ sesPc' = to

\* capture, each of its steps under a five-second KILL ------------------------
CaptureLock ==
  /\ ClaimFree
  /\ SesGoes("top", "captureRevisions")
  /\ UNCHANGED <<files, disk, child, scrapeVars, genVars, revs, taken, batch, toClean, cleanCur, deferred, cleaned, newer>>

\* Mutant of CaptureFails: capture waits for the claim.
MutCaptureFails ==
  /\ sesPc \in {"captureRevisions", "capturePending"}
  /\ sesPc' = "frontend"
  /\ revs' = NoFetches
  /\ UNCHANGED <<files, disk, child, scrapeVars, genVars, taken, batch, toClean, cleanCur, deferred, cleaned, newer>>

\* The claim is held, or capture fails or is killed before it prints: no step this start.
CaptureFails ==
  /\ \/ sesPc = "top" /\ ~ClaimFree
     \/ sesPc \in {"captureRevisions", "capturePending"}
  /\ sesPc' = "frontend"
  /\ revs' = NoFetches
  /\ UNCHANGED <<files, disk, child, scrapeVars, genVars, taken, batch, toClean, cleanCur, deferred, cleaned, newer>>

CaptureRevisions ==
  /\ SesGoes("captureRevisions", "capturePending")
  /\ revs' = revision
  /\ newer' = {}
  /\ UNCHANGED <<files, disk, child, scrapeVars, genVars, taken, batch, toClean, cleanCur, deferred, cleaned>>

\* Print the batch and release; an empty one goes straight to the frontend.
CapturePending ==
  /\ sesPc = "capturePending"
  /\ taken' = pending
  /\ batch' = [f \in Folder |-> IF f \in pending THEN revs[f] ELSE NoFetch]
  /\ revs' = NoFetches
  /\ sesPc' = IF pending = {} THEN "frontend" ELSE "openWindow"
  /\ UNCHANGED <<files, disk, child, scrapeVars, genVars, toClean, cleanCur, deferred, cleaned, newer>>

\* the window ------------------------------------------------------------------
\* cage and foot come up and start the generator.
OpenWindow ==
  /\ genPc = "idle"
  /\ SesGoes("openWindow", "window")
  /\ genPc' = "start"
  /\ deferred' = FALSE
  /\ UNCHANGED <<files, disk, child, scrapeVars, genTodo, genCur, genOut, genCopy, revs, taken, batch, toClean, cleanCur, cleaned, newer>>

\* The window fails to come up, or fails behind a generator that is gone.
WindowFails ==
  /\ sesPc = "openWindow" \/ (sesPc = "window" /\ genPc = "idle")
  /\ sesPc' = "cleanup"
  /\ UNCHANGED <<files, disk, child, scrapeVars, genVars, revs, taken, batch, toClean, cleanCur, deferred, cleaned, newer>>

\* The window closes behind its command; status 75 means nothing is to be cleaned up.
WindowCloses ==
  /\ sesPc = "window"
  /\ genPc = "idle"
  /\ sesPc' = IF deferred THEN "frontend" ELSE "cleanup"
  /\ UNCHANGED <<files, disk, child, scrapeVars, genVars, revs, taken, batch, toClean, cleanCur, deferred, cleaned, newer>>

\* The window dies, or timeout(1) ends it at 2100 s: the generator's terminal hangs up.
WindowExpires ==
  /\ sesPc = "window"
  /\ genPc # "idle"
  /\ sesPc' = "cleanup"
  /\ GenSignalled
  /\ UNCHANGED <<files, disk, child, scrapeVars, revs, taken, batch, toClean, cleanCur, deferred, cleaned, newer>>

\* cleanup, under a five-second KILL ---------------------------------------------
CleanupLock ==
  /\ ClaimFree
  /\ SesGoes("cleanup", "cleanupRevisions")
  /\ UNCHANGED <<files, disk, child, scrapeVars, genVars, revs, taken, batch, toClean, cleanCur, deferred, cleaned, newer>>

CleanupRevisions ==
  /\ SesGoes("cleanupRevisions", "cleanupPick")
  /\ revs' = revision
  /\ toClean' = taken
  /\ UNCHANGED <<files, disk, child, scrapeVars, genVars, taken, batch, cleanCur, deferred, cleaned, newer>>

\* Mutant of Unserved: a folder generated before is taken for served.
MutUnserved(f) == f \in pending /\ revs[f] = batch[f] /\ outcome[f] # "generated"

\* Still pending, and still the fetch that was captured.
Unserved(f) == f \in pending /\ revs[f] = batch[f]

CleanupSpare(f) ==
  /\ sesPc = "cleanupPick"
  /\ f \in toClean
  /\ ~Unserved(f)
  /\ toClean' = toClean \ {f}
  /\ UNCHANGED <<files, disk, child, scrapeVars, genVars, sesPc, revs, taken, batch, cleanCur, deferred, cleaned, newer>>

CleanupRecord(f) ==
  /\ SesGoes("cleanupPick", "cleanupUnmark")
  /\ f \in toClean
  /\ Unserved(f)
  /\ toClean' = toClean \ {f}
  /\ cleanCur' = f
  /\ outcome' = [outcome EXCEPT ![f] = "generation-failed"]
  /\ UNCHANGED <<pending, revision, issued, result, disk, child, scrapeVars, genVars, revs, taken, batch, deferred, cleaned, newer>>

CleanupUnmark ==
  /\ SesGoes("cleanupUnmark", "cleanupPick")
  /\ pending' = pending \ {cleanCur}
  /\ cleanCur' = None
  /\ UNCHANGED <<revision, issued, result, outcome, disk, child, scrapeVars, genVars, revs, taken, batch, toClean, deferred, cleaned, newer>>

CleanupDone ==
  /\ toClean = {}
  /\ SesGoes("cleanupPick", "frontend")
  /\ cleaned' = TRUE
  /\ revs' = NoFetches
  /\ UNCHANGED <<files, disk, child, scrapeVars, genVars, taken, batch, toClean, cleanCur, deferred, newer>>

\* The claim is held, the records cannot be written, or the five seconds are over.
CleanupFails ==
  /\ \/ sesPc = "cleanup" /\ ~ClaimFree
     \/ sesPc \in {"cleanupRevisions", "cleanupPick", "cleanupUnmark"}
  /\ sesPc' = "frontend"
  /\ revs' = NoFetches
  /\ toClean' = {}
  /\ cleanCur' = None
  /\ UNCHANGED <<files, disk, child, scrapeVars, genVars, taken, batch, deferred, cleaned, newer>>

\* the frontend -----------------------------------------------------------------
\* External: es-de rewrites a gamelist, completely or cut short.
FrontendWrites(f) ==
  /\ sesPc = "frontend"
  /\ gamelist[f].edits < MaxEdits
  /\ \E whole \in BOOLEAN :
       gamelist' = [gamelist EXCEPT ![f] = [edits |-> @.edits + 1, parses |-> whole]]
  /\ UNCHANGED <<files, work, roms, child, scrapeVars, genVars, sessionVars, newer>>

\* The next iteration of the session's loop, or a session that replaces this one.
NewIteration ==
  /\ sesPc'    = "top"
  /\ revs'     = NoFetches
  /\ taken'    = {}
  /\ batch'    = NoFetches
  /\ toClean'  = {}
  /\ cleanCur' = None
  /\ deferred' = FALSE
  /\ cleaned'  = FALSE

FrontendExits ==
  /\ sesPc = "frontend"
  /\ NewIteration
  /\ UNCHANGED <<files, disk, child, scrapeVars, genVars, newer>>

\* The display manager is restarted under the session: its window goes with it.
SessionReplaced ==
  /\ sesPc # "top"
  /\ NewIteration
  /\ GenSignalled
  /\ UNCHANGED <<files, disk, child, scrapeVars, newer>>

SessionStep ==
  \/ CaptureLock \/ CaptureFails \/ CaptureRevisions \/ CapturePending
  \/ OpenWindow \/ WindowFails \/ WindowCloses \/ WindowExpires
  \/ CleanupLock \/ CleanupRevisions \/ CleanupUnmark \/ CleanupDone \/ CleanupFails
  \/ \E f \in Folder : CleanupSpare(f) \/ CleanupRecord(f)

-----------------------------------------------------------------------------
(* The surroundings.                                                       *)

\* External: the family deletes a ROM folder, or copies one in.
FamilyChangesRoms(f) ==
  /\ f \in Removable
  /\ roms' = IF f \in roms THEN roms \ {f} ELSE roms \cup {f}
  /\ UNCHANGED <<files, gamelist, work, child, scrapeVars, genVars, sessionVars, newer>>

\* External: a scraper process that outlived its command ends in its own time, if ever.
OrphanEnds(p) ==
  /\ child[p] = "orphan"
  /\ child' = [child EXCEPT ![p] = "none"]
  /\ UNCHANGED <<files, disk, scrapeVars, genVars, sessionVars, newer>>

\* Every process is gone; every completed rename is on the disk.
PowerLoss ==
  /\ child' = [p \in Launcher |-> "none"]
  /\ scrapePc'   = [s \in Scraper |-> "idle"]
  /\ scrapeTodo' = [s \in Scraper |-> {}]
  /\ scrapeCur'  = [s \in Scraper |-> None]
  /\ scrapeOut'  = [s \in Scraper |-> NoOutcomes]
  /\ GenEnds
  /\ NewIteration
  /\ UNCHANGED <<files, disk, newer>>

-----------------------------------------------------------------------------
(* The specification.                                                      *)

Init ==
  /\ pending = {}
  /\ revision = NoFetches
  /\ issued = 0
  /\ result = None
  /\ outcome = NoOutcomes
  /\ gamelist = [f \in Folder |-> [edits |-> 0, parses |-> TRUE]]
  /\ work = {}
  /\ roms = Folder
  /\ child = [p \in Launcher |-> "none"]
  /\ scrapePc = [s \in Scraper |-> "idle"]
  /\ scrapeTodo = [s \in Scraper |-> {}]
  /\ scrapeCur = [s \in Scraper |-> None]
  /\ scrapeOut = [s \in Scraper |-> NoOutcomes]
  /\ genPc = "idle"
  /\ genTodo = {}
  /\ genCur = None
  /\ genOut = None
  /\ genCopy = 0
  /\ sesPc = "top"
  /\ revs = NoFetches
  /\ taken = {}
  /\ batch = NoFetches
  /\ toClean = {}
  /\ cleanCur = None
  /\ deferred = FALSE
  /\ cleaned = FALSE
  /\ newer = {}

Next ==
  \/ \E s \in Scraper : Scrape(s)
  \/ Generator
  \/ SessionStep
  \/ \E f \in Folder : FrontendWrites(f)
  \/ FrontendExits
  \/ SessionReplaced
  \/ \E f \in Folder : FamilyChangesRoms(f)
  \/ \E p \in Launcher : OrphanEnds(p)
  \/ PowerLoss

Spec == Init /\ [][Next]_vars

\* The session's commands run under timeout(1) and the generator under its own deadlines, so
\* both always move on.  Nothing bounds a scrape, a scraper child or the frontend's run.
Fairness == WF_vars(SessionStep) /\ WF_vars(GenWork)

FairSpec == Spec /\ Fairness

-----------------------------------------------------------------------------
(* Properties.                                                             *)

\* The variables stay within their intended ranges.
TypeOK ==
  /\ pending \subseteq Folder
  /\ revision \in [Folder -> Nat]
  /\ issued \in Nat
  /\ result \in Results
  /\ outcome \in [Folder -> Outcomes]
  /\ gamelist \in [Folder -> [edits : Nat, parses : BOOLEAN]]
  /\ work \subseteq Folder
  /\ roms \subseteq Folder
  /\ child \in [Launcher -> {"none", "attached", "orphan"}]
  /\ scrapePc \in [Scraper -> ScrapePcs]
  /\ scrapeTodo \in [Scraper -> SUBSET Folder]
  /\ scrapeCur \in [Scraper -> Folder \cup {None}]
  /\ scrapeOut \in [Scraper -> [Folder -> Fetches \cup {None}]]
  /\ genPc \in GenPcs
  /\ genTodo \subseteq Folder
  /\ genCur \in Folder \cup {None}
  /\ genOut \in Settled \cup {None}
  /\ genCopy \in Nat
  /\ sesPc \in SesPcs
  /\ revs \in [Folder -> Nat]
  /\ taken \subseteq Folder
  /\ batch \in [Folder -> Nat]
  /\ toClean \subseteq Folder
  /\ cleanCur \in Folder \cup {None}
  /\ deferred \in BOOLEAN
  /\ cleaned \in BOOLEAN
  /\ newer \subseteq Folder

\* At most one command is in its locked section or has a scraper child alive: two scraper
\* processes never work the same cache, and no command reads or rewrites the state files
\* under another, a child whose command was killed included.
ClaimExclusive == \A p, q \in Proc : Pins(p) /\ Pins(q) => p = q

\* The generator's child is started into the work area of the folder in hand, and while it
\* lives, orphaned or not, no work area is removed or made anew.
WorkOutlivesChild ==
  [][child'[Gen] # "none" =>
       IF child[Gen] = "none" THEN genCur' \in work'
       ELSE work \subseteq work' /\ ~\E f \in Folder : GenCopy(f)]_vars

\* A folder the record shows as fetched is still pending: an outcome of "fetched" always
\* promises a generation that is still to come.
FetchedIsPending == \A f \in Folder : outcome[f] = "fetched" => f \in pending

\* A fetch is not lost: whoever takes a folder off the pending list, the generator or
\* cleanup, does so for an attempt that began after the folder's newest stored fetch.
NoFetchLost == [][\A f \in pending \ pending' : f \notin newer]_vars

\* Once cleanup has run, none of the folders the session captured is still pending for the
\* fetch it was captured with: a folder that cannot be generated delays one start only.
BatchIsSettled ==
  sesPc = "frontend" /\ cleaned =>
    \A f \in taken \cap pending : revision[f] # batch[f]

\* Regeneration never takes a live gamelist back to before something the frontend wrote,
\* and never replaces one that did not parse.
FamilyDataKept ==
  [][\A f \in Folder :
       /\ gamelist'[f].edits >= gamelist[f].edits
       /\ ~gamelist[f].parses => gamelist'[f].edits > gamelist[f].edits
                                  \/ gamelist'[f] = gamelist[f]]_vars

\* The outcome of a folder that still exists is forgotten only by a run that has finished all
\* its folders and records exactly its own outcomes; refusals, interruptions, the generator and
\* cleanup keep it.
OutcomesCarried ==
  [][\A f \in roms : outcome[f] # None /\ outcome'[f] = None =>
       \E s \in Scraper : scrapePc[s] = "settled" /\ outcome' = scrapeOut[s]]_vars

\* The frontend is reached from anywhere in the step before it, however long a scrape or an
\* orphaned child keeps the claim, unless the session is replaced again and again.
FrontendReached ==
  \/ []<><<PowerLoss \/ SessionReplaced>>_vars
  \/ sesPc # "frontend" ~> sesPc = "frontend"

\* A generator always ends, interrupted ones included: its deadlines and the window's limit
\* bound it, and an interruption ends the child it waits for.
GenerationEnds == genPc # "idle" ~> genPc = "idle"

\* Neither the session's step nor a generator ever waits for the claim, for a scraper child or
\* for each other without a next step of its own: only the frontend is waited for.
NeverStuck ==
  /\ sesPc # "frontend" => ENABLED <<SessionStep>>_vars
  /\ genPc # "idle" => ENABLED <<GenWork>>_vars

-----------------------------------------------------------------------------
(* The inductive invariant, in the layers the proofs take it in.           *)

ScrapeInHand  == {"invoking", "revise", "mark", "note"}
GenInHand     == {"copied", "invoking", "merge", "record", "unmark", "ending"}

\* Where a control point works on a folder, it has one in hand.
InHand ==
  /\ \A s \in Scraper : scrapePc[s] \in ScrapeInHand => scrapeCur[s] \in Folder
  /\ genPc \in GenInHand => genCur \in Folder
  /\ genPc \in {"record", "unmark"} => genOut \in Settled
  /\ sesPc = "cleanupUnmark" => cleanCur \in Folder

\* What a run has counted as fetched is pending, what the generator or cleanup is about to
\* take off the list is recorded.
RecordInv ==
  /\ FetchedIsPending
  /\ \A s \in Scraper, f \in Folder : scrapeOut[s][f] = "fetched" => f \in pending
  /\ \A s \in Scraper : scrapePc[s] = "idle" => scrapeOut[s] = NoOutcomes
  /\ \A s \in Scraper : scrapePc[s] = "note" => scrapeCur[s] \in pending
  /\ genPc \in GenInHand => genCur \in pending
  /\ genPc = "unmark" => outcome[genCur] \in Settled
  /\ sesPc = "cleanupUnmark" => outcome[cleanCur] \in Settled

\* Every pending folder has a stored identity, which cleanup's comparison relies on.
PendingHasRevision == \A f \in pending : revision[f] # NoFetch

\* A folder leaves the pending list only once the record names what became of it.
LeavesPendingRecorded == [][\A f \in pending \ pending' : outcome'[f] \in Settled]_vars

\* How the captured batch, the stored identities and the fetches since then relate.
BatchInv ==
  /\ PendingHasRevision
  /\ \A f \in Folder : revision[f] <= issued
  /\ \A s \in Scraper : scrapePc[s] = "mark" =>
       scrapeCur[s] \in newer /\ revision[scrapeCur[s]] # NoFetch
  /\ sesPc \in {"capturePending", "cleanupPick", "cleanupUnmark"} => revs = revision
  /\ sesPc = "capturePending" => newer = {}
  /\ \A f \in taken : batch[f] <= revision[f] /\ (f \in newer => batch[f] < revision[f])
  /\ toClean \subseteq taken
  /\ toClean # {} => sesPc \in {"cleanupPick", "cleanupUnmark"}
  /\ genPc \in GenInHand => genCur \notin newer
  /\ sesPc = "cleanupUnmark" => cleanCur \in taken /\ cleanCur \notin newer
  /\ sesPc \in {"cleanupPick", "cleanupUnmark"} =>
       \A f \in (taken \ toClean) \cap pending :
         revision[f] # batch[f] \/ (sesPc = "cleanupUnmark" /\ f = cleanCur)
  /\ cleaned => sesPc = "frontend" /\ \A f \in taken \cap pending : revision[f] # batch[f]

\* The generator's child, its work area, and the copy the merged gamelist is made from.  The
\* generator is at work in the session's window only, where no frontend writes a gamelist.
WindowInv ==
  /\ child[Gen] = "attached" => genPc \in {"invoking", "ending"}
  /\ child[Gen] = "orphan" => genPc \in {"idle", "start"}
  /\ genPc \in {"copied", "invoking", "ending"} => genCur \in work
  /\ genPc \notin {"idle", "ending"} => sesPc = "window"
  /\ genPc \in {"copied", "invoking", "merge"} =>
       gamelist[genCur].edits = genCopy /\ gamelist[genCur].parses

LibraryInv == TypeOK /\ InHand /\ ClaimExclusive /\ RecordInv /\ BatchInv /\ WindowInv

-----------------------------------------------------------------------------
(* The refinement.  A folder off the pending list is settled; on it, it    *)
(* waits while it was fetched after whoever works on it took it up.        *)

Stage == [f \in Folder |-> IF f \notin pending THEN "settled"
                           ELSE IF f \in newer THEN "waiting" ELSE "taken"]

Life == INSTANCE FolderLife WITH stage <- Stage

\* Scrapes, generator, capture, cleanup, kills and power losses together do to a folder only
\* what FolderLife allows: nothing settles a folder that was fetched again or has no
\* recorded outcome, and nothing shows a settled folder as still to come.
LifeImplemented == Life!Spec
=============================================================================
