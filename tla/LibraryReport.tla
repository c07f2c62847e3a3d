---------------------------- MODULE LibraryReport ----------------------------
(***************************************************************************)
(* The report of the game library: report and _scan in                     *)
(* src/pkgs/emubox-library/library.py.  The reads that may never return    *)
(* are made by a forked worker, which sends what it finds through a pipe;  *)
(* its parent reads the pipe for 45 s at most, kills the worker without    *)
(* waiting for it, and says what it received.                              *)
(*                                                                         *)
(* A message is what it is about: the count of a folder is the folder.  A  *)
(* message cut short is no message, for the parent takes whole lines only. *)
(***************************************************************************)
EXTENDS Naturals, Sequences

CONSTANT Folder     \* directories under the ROM root

Words == {"record", "pending", "folders", "done", "error"}

ASSUME FolderAssumption == Folder \cap Words = {}

VARIABLES
  \* The worker.
  worker,     \* the process: "wedged" is in a read that even SIGKILL cannot end
  scan,       \* what it reads next
  found,      \* the folders it discovered
  uncounted,  \* those of them it could list and has still to count
  pipe,       \* messages the parent has not read
  \* The parent, which is the reporter emubox-status starts.
  reporter,   \* the process
  got,        \* messages received
  libCode,    \* its exit status
  clock       \* since the reporter was started: "early", "late" after 45 s, "over" after 60 s

workerVars  == <<worker, scan, found, uncounted>>
libraryVars == <<workerVars, pipe, reporter, got, libCode>>

Messages == Words \cup Folder

LibraryTypeOK ==
  /\ worker \in {"none", "running", "wedged", "doomed", "gone"}
  /\ scan \in {"record", "pending", "folders", "count", "end"}
  /\ found \subseteq Folder /\ uncounted \subseteq found
  /\ pipe \in Seq(Messages) /\ got \subseteq Messages
  /\ reporter \in {"none", "reading", "exited"}
  /\ libCode \in {"none", "0", "1", "killed"}
  /\ clock \in {"early", "late", "over"}

-----------------------------------------------------------------------------
(* The worker.                                                             *)

\* The worker sends m and goes on to the next part of its scan; with nobody at the other end
\* it can only exit.
Sends(m, from, to) ==
  /\ worker = "running"
  /\ reporter = "reading"
  /\ scan = from
  /\ scan' = to
  /\ pipe' = Append(pipe, m)
  /\ UNCHANGED <<worker, reporter, got, libCode>>

\* The run record, or the word that it cannot be read.
ScanRecord == Sends("record", "record", "pending") /\ UNCHANGED <<found, uncounted>>

ScanPending == Sends("pending", "pending", "folders") /\ UNCHANGED <<found, uncounted>>

\* Some of the folders hold ROM files; a folder that cannot be listed is named all the same.
ScanFolders ==
  /\ Sends("folders", "folders", "count")
  /\ found' \in SUBSET Folder
  /\ uncounted' \in SUBSET found'

\* A folder's ROM files and gamelist entries; an unreadable gamelist is counted as such.
ScanCount(f) ==
  /\ f \in uncounted
  /\ Sends(f, "count", "count")
  /\ uncounted' = uncounted \ {f}
  /\ UNCHANGED found

ScanDone ==
  /\ uncounted = {}
  /\ Sends("done", "count", "end")
  /\ UNCHANGED <<found, uncounted>>

\* The configuration, the platform map or the ROM root cannot be read.
ScanError ==
  /\ \E at \in {"record", "folders", "count"} : Sends("error", at, "end")
  /\ UNCHANGED <<found, uncounted>>

\* It exits after its last message, or is killed before by someone else.
WorkerGone ==
  /\ worker = "running"
  /\ worker' = "gone"
  /\ UNCHANGED <<scan, found, uncounted, pipe, reporter, got, libCode>>

\* External: a read of a failing disk or a lost mount does not return, and cannot be interrupted.
WorkerWedges ==
  /\ worker = "running"
  /\ scan # "end"
  /\ worker' = "wedged"
  /\ UNCHANGED <<scan, found, uncounted, pipe, reporter, got, libCode>>

\* External: the read returns after all, and a signal that waited takes effect.
WorkerFreed ==
  /\ worker \in {"wedged", "doomed"}
  /\ worker' = IF worker = "wedged" THEN "running" ELSE "gone"
  /\ UNCHANGED <<scan, found, uncounted, pipe, reporter, got, libCode>>

Worker ==
  \/ ScanRecord \/ ScanPending \/ ScanFolders \/ ScanDone \/ ScanError
  \/ \E f \in Folder : ScanCount(f)
  \/ WorkerGone \/ WorkerWedges \/ WorkerFreed

-----------------------------------------------------------------------------
(* The parent.                                                             *)

ReportStarts ==
  /\ reporter' = "reading"
  /\ worker' = "running"
  /\ scan' = "record"
  /\ UNCHANGED <<found, uncounted, pipe, got, libCode>>

\* No worker can be forked: the report ends in a traceback.
ReportCannotStart ==
  /\ reporter' = "exited"
  /\ libCode' = "1"
  /\ UNCHANGED <<workerVars, pipe, got>>

ScanOver == "done" \in got \/ "error" \in got

\* One chunk holds any number of whole messages.
ReportReads ==
  /\ reporter = "reading"
  /\ ~ScanOver
  /\ \E n \in 1..Len(pipe) :
       /\ got' = got \cup {pipe[i] : i \in 1..n}
       /\ pipe' = SubSeq(pipe, n + 1, Len(pipe))
  /\ UNCHANGED <<workerVars, reporter, libCode>>

\* Mutant of Counted: what was received is complete for all the parent knows.
MutCounted == "folders" \in got /\ \A f \in found : f \in got

\* The scan was complete, and every folder it named was counted.
Counted == "done" \in got /\ ("folders" \in got => \A f \in found : f \in got)

\* Mutant of LoopOver: a read of the pipe waits for as long as it takes.
MutLoopOver == ScanOver \/ (worker = "gone" /\ pipe = <<>>)

\* The scan is over, the worker's end of the pipe is closed, or the deadline has passed.
LoopOver == ScanOver \/ (worker = "gone" /\ pipe = <<>>) \/ clock # "early"

\* Mutant of ReportEnds: the worker is left to end by itself.
MutReportEnds ==
  /\ reporter = "reading"
  /\ LoopOver
  /\ libCode' = IF Counted THEN "0" ELSE "1"
  /\ reporter' = "exited"
  /\ pipe' = <<>>
  /\ UNCHANGED <<workerVars, got>>

\* The worker is killed and not waited for, the pipe closed, and what was received is printed.
ReportEnds ==
  /\ reporter = "reading"
  /\ LoopOver
  /\ worker' = IF worker = "wedged" THEN "doomed" ELSE "gone"
  /\ libCode' = IF Counted THEN "0" ELSE "1"
  /\ reporter' = "exited"
  /\ pipe' = <<>>
  /\ UNCHANGED <<scan, found, uncounted, got>>

\* The parent is killed by someone else, and its worker goes on without it.
ReportKilled ==
  /\ reporter = "reading"
  /\ reporter' = "exited"
  /\ libCode' = "killed"
  /\ pipe' = <<>>
  /\ UNCHANGED <<workerVars, got>>

-----------------------------------------------------------------------------
(* What the report maintains, for the proofs.                              *)

\* What is in s.
Elements(s) == {s[i] : i \in 1..Len(s)}

Sent == got \cup Elements(pipe)

\* What a worker at a part of its scan has sent before.
SentBefore(at) ==
  (IF at = "record" THEN {} ELSE {"record"})
    \cup (IF at \in {"record", "pending"} THEN {} ELSE {"pending"})
    \cup (IF at \in {"count", "end"} THEN {"folders"} ELSE {})

\* The worker sends in its scan's order, and "done" as its last word, with nothing to count.
OrderInv ==
  reporter = "reading" =>
    /\ worker # "none" /\ libCode = "none"
    /\ scan # "end" => SentBefore(scan) \subseteq Sent
    /\ "done" \in Sent => /\ scan = "end" /\ uncounted = {}
                          /\ SentBefore("end") \subseteq Sent
    /\ \A i \in 1..Len(pipe) : pipe[i] = "done" => i = Len(pipe)
    /\ "done" \in got => pipe = <<>>

\* A scan that counted is complete.
CodeInv ==
  /\ reporter = "exited" <=> libCode # "none"
  /\ libCode = "0" =>
       /\ scan = "end" /\ uncounted = {}
       /\ {"record", "pending", "folders"} \cup found \subseteq got
  /\ libCode \in {"0", "1"} => worker \in {"none", "doomed", "gone"}

\* Before the report is started.
FreshInv == reporter = "none" => worker = "none" /\ pipe = <<>> /\ got = {}
=============================================================================
