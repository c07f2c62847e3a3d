-------------------------------- MODULE Status --------------------------------
(***************************************************************************)
(* The operator's status command, src/pkgs/emubox-status/emubox_status.py, *)
(* with the reporters the box registers: the controllers' and the          *)
(* library's, which are modules of their own, and the backups', of which   *)
(* only the process is kept.                                               *)
(*                                                                         *)
(* The command runs one reporter after the other.  It waits until the      *)
(* reporter has exited and nobody holds the reporter's output any more, a  *)
(* worker that inherited it included, or for 60 s; then it kills the       *)
(* reporter, and only the reporter, and waits for it.                      *)
(***************************************************************************)
EXTENDS LibraryReport, ControllersReport

Reporters == {"controllers", "library", "backups"}

CONSTANT Place   \* where the list has each reporter: the module system puts them in an order

ASSUME PlaceAssumption == Place \in [Reporters -> Nat]

\* The first in the list of the reporters of S.
FirstOf(S) == {r \in S : \A q \in S : Place[r] <= Place[q]}

Sections == {"ok", "warn", "fail", "did not run"}

VARIABLES
  agPc,      \* what emubox-status does
  current,   \* the reporter it is at
  section,   \* the state each section names
  worst,     \* the worst state so far
  exit,      \* its exit status
  other,     \* the backups' reporter; "wedged" as the library's worker may be
  otherCode  \* its exit status

statusVars == <<agPc, current, section, worst, exit>>
otherVars  == <<other, otherCode>>
vars == <<statusVars, otherVars, libraryVars, controllersVars, clock>>

-----------------------------------------------------------------------------
(* The reporter at hand, as the command sees it.                           *)

Exited(r) == \/ r = "controllers" /\ conPc = "exited"
             \/ r = "library" /\ reporter = "exited"
             \/ r = "backups" /\ other = "exited"

Code(r) == IF r = "controllers" THEN conCode ELSE IF r = "library" THEN libCode ELSE otherCode

\* Nobody holds the write end of its output.
Closed(r) == Exited(r) /\ (r = "library" => worker \in {"none", "gone"})

\* What an exit status means; outside the alphabet, that the reporter did not run.
StateOf(code) == IF code = "0" THEN "ok" ELSE IF code = "1" THEN "warn"
                 ELSE IF code = "2" THEN "fail" ELSE "did not run"

ExitOf(state) == IF state = "ok" THEN 0 ELSE IF state = "warn" THEN 1 ELSE 2

-----------------------------------------------------------------------------
(* emubox-status.                                                          *)

\* The list of reporters cannot be read: one line, and the status of a failed report.
ListUnreadable ==
  /\ agPc = "start"
  /\ agPc' = "done"
  /\ exit' = ExitOf("did not run")
  /\ UNCHANGED <<current, section, worst, otherVars, libraryVars, controllersVars, clock>>

ListRead ==
  /\ agPc = "start"
  /\ agPc' = "run"
  /\ current' \in FirstOf(Reporters)
  /\ UNCHANGED <<section, worst, exit, otherVars, libraryVars, controllersVars, clock>>

\* Mutant of Worse: a section that is not ok takes the place of any before it.
MutWorse(state) == IF state = "ok" THEN worst ELSE state

\* The worse of two states, the earlier of two that weigh the same.
Worse(state) == IF ExitOf(state) > ExitOf(worst) THEN state ELSE worst

\* The reporters whose turn is still to come.
Remaining == {r \in Reporters \ {current} : section[r] = "none"}

\* The current reporter's section is printed, and the next one's turn comes.
Prints(state) ==
  /\ section' = [section EXCEPT ![current] = state]
  /\ worst' = Worse(state)
  /\ current' \in IF Remaining = {} THEN {"none"} ELSE FirstOf(Remaining)
  /\ agPc' = "run"

\* The command does not name an executable, or the exec fails.
CannotRun ==
  /\ agPc = "run"
  /\ current \in Reporters
  /\ Prints("did not run")
  /\ UNCHANGED <<exit, otherVars, libraryVars, controllersVars, clock>>

StartControllers ==
  /\ current = "controllers"
  /\ ControllersStart
  /\ UNCHANGED <<libraryVars, otherVars>>

StartLibrary ==
  /\ current = "library"
  /\ ReportStarts \/ ReportCannotStart
  /\ UNCHANGED <<controllersVars, otherVars>>

StartOther ==
  /\ current = "backups"
  /\ other' = "running"
  /\ UNCHANGED <<controllersVars, libraryVars, otherCode>>

Start ==
  /\ agPc = "run"
  /\ StartControllers \/ StartLibrary \/ StartOther
  /\ clock' = "early"
  /\ agPc' = "wait"
  /\ UNCHANGED <<current, section, worst, exit>>

\* End of file on both streams, and the exit status collected.
Collect ==
  /\ agPc = "wait"
  /\ Closed(current)
  /\ Prints(StateOf(Code(current)))
  /\ UNCHANGED <<exit, otherVars, libraryVars, controllersVars, clock>>

\* Sixty seconds are over: the reporter is killed.  One in the kernel dies when it comes out.
Cut ==
  /\ agPc = "wait"
  /\ clock = "over"
  /\ ~Closed(current)
  /\ agPc' = "reap"
  /\ UNCHANGED <<current, section, worst, exit, libraryVars, clock>>
  /\ IF current = "controllers" THEN ControllersEnd("killed") ELSE UNCHANGED controllersVars
  /\ IF current = "backups" /\ other = "running"
     THEN other' = "exited" /\ otherCode' = "killed"
     ELSE IF current = "backups" /\ other = "wedged"
     THEN other' = "doomed" /\ UNCHANGED otherCode
     ELSE UNCHANGED otherVars

\* Mutant of Reap: what the killed reporter wrote is read to its end first.
MutReap ==
  /\ agPc = "reap"
  /\ Closed(current)
  /\ Prints("did not run")
  /\ UNCHANGED <<exit, otherVars, libraryVars, controllersVars, clock>>

\* The killed reporter is waited for, whatever it started that lives on.
Reap ==
  /\ agPc = "reap"
  /\ Exited(current)
  /\ Prints("did not run")
  /\ UNCHANGED <<exit, otherVars, libraryVars, controllersVars, clock>>

Finish ==
  /\ agPc = "run"
  /\ current = "none"
  /\ agPc' = "done"
  /\ exit' = ExitOf(worst)
  /\ UNCHANGED <<current, section, worst, otherVars, libraryVars, controllersVars, clock>>

Aggregator ==
  ListUnreadable \/ ListRead \/ CannotRun \/ Start \/ Collect \/ Cut \/ Reap \/ Finish

-----------------------------------------------------------------------------
(* Time, and the backups' reporter.                                        *)

\* Fifteen seconds are enough for the library's report to print what it has.
Tick ==
  /\ agPc = "wait"
  /\ \/ clock = "early" /\ clock' = "late"
     \/ clock = "late" /\ reporter # "reading" /\ clock' = "over"
  /\ UNCHANGED <<statusVars, otherVars, libraryVars, controllersVars>>

\* It exits with some status, goes into the kernel, or comes out of it.
OtherExits ==
  /\ other = "running"
  /\ other' = "exited"
  /\ otherCode' \in {"0", "1", "2", "3"}
  /\ UNCHANGED <<statusVars, libraryVars, controllersVars, clock>>

OtherWedges ==
  /\ other = "running"
  /\ other' = "wedged"
  /\ UNCHANGED <<statusVars, otherCode, libraryVars, controllersVars, clock>>

OtherFreed ==
  /\ \/ other = "wedged" /\ other' = "running" /\ UNCHANGED otherCode
     \/ other = "doomed" /\ other' = "exited" /\ otherCode' = "killed"
  /\ UNCHANGED <<statusVars, libraryVars, controllersVars, clock>>

-----------------------------------------------------------------------------
(* The specification.                                                      *)

LibraryEnds == ReportEnds /\ UNCHANGED <<statusVars, otherVars, controllersVars, clock>>

LibraryStep ==
  /\ Worker \/ ReportReads \/ ReportEnds \/ ReportKilled
  /\ UNCHANGED <<statusVars, otherVars, controllersVars, clock>>

ControllersStep ==
  /\ Controllers
  /\ UNCHANGED <<statusVars, otherVars, libraryVars, clock>>

Init ==
  /\ worker = "none" /\ scan = "record" /\ found = {} /\ uncounted = {}
  /\ pipe = <<>> /\ reporter = "none" /\ got = {} /\ libCode = "none" /\ clock = "early"
  /\ bus = Empty /\ plugs = 0 /\ steady = Event
  /\ conPc = "none" /\ nodes = {} /\ node = "none" /\ vendor = "none"
  /\ warned = FALSE /\ conCode = "none"
  /\ agPc = "start" /\ current = "none"
  /\ section = [r \in Reporters |-> "none"] /\ worst = "ok" /\ exit = 0
  /\ other = "none" /\ otherCode = "none"

Next ==
  \/ Aggregator \/ Tick
  \/ LibraryStep \/ ControllersStep
  \/ OtherExits \/ OtherWedges \/ OtherFreed

Spec == Init /\ [][Next]_vars

\* The command goes on, time passes, the library's report looks at its deadline, and the
\* kernel lets a killed reporter go.  Nothing is assumed of a worker, of a read, or of any
\* reporter's getting anywhere.
Fairness ==
  /\ WF_vars(Aggregator)
  /\ WF_vars(Tick)
  /\ WF_vars(LibraryEnds)
  /\ WF_vars(OtherFreed)

FairSpec == Spec /\ Fairness

-----------------------------------------------------------------------------
(* What the command maintains, for the proofs.                             *)

\* Where the command has something to do; where its wait is not over yet; where the library's
\* report is past its loop; and where the kernel holds the backups' reporter.
CommandReady ==
  \/ agPc \in {"start", "run"}
  \/ agPc = "wait" /\ (Closed(current) \/ clock = "over")
  \/ agPc = "reap" /\ Exited(current)

ClockReady == agPc = "wait" /\ (clock = "early" \/ (clock = "late" /\ reporter # "reading"))

DeadlineReady == reporter = "reading" /\ LoopOver

KernelReady == other \in {"wedged", "doomed"}

CommandTypeOK ==
  /\ agPc \in {"start", "run", "wait", "reap", "done"}
  /\ current \in Reporters \cup {"none"}
  /\ section \in [Reporters -> Sections \cup {"none"}]
  /\ worst \in Sections /\ exit \in 0..2
  /\ other \in {"none", "running", "wedged", "doomed", "exited"}
  /\ otherCode \in {"none", "0", "1", "2", "3", "killed"}

TypeOK == CommandTypeOK /\ LibraryTypeOK /\ ControllersTypeOK

\* Whose turn it is, and who had it.
TurnInv ==
  /\ agPc = "start" => current = "none"
  /\ agPc \in {"wait", "reap"} => current \in Reporters
  /\ current # "none" => agPc \in {"run", "wait", "reap"} /\ section[current] = "none"
  /\ agPc = "run" /\ current = "none" => \A r \in Reporters : section[r] # "none"
  /\ agPc = "done" => /\ current = "none"
                      /\ \/ \A r \in Reporters : section[r] = "none"
                         \/ /\ \A r \in Reporters : section[r] # "none"
                            /\ exit = ExitOf(worst)
  /\ agPc = "start" => \A r \in Reporters : section[r] = "none"

\* The worst state is that of a section, and no section is worse.
WorstInv ==
  /\ \A r \in Reporters : section[r] # "none" => ExitOf(section[r]) <= ExitOf(worst)
  /\ worst # "ok" => \E r \in Reporters : section[r] = worst

\* A reporter with a healthy section has exited, with status 0.
OkInv == \A r \in Reporters : section[r] = "ok" => Exited(r) /\ Code(r) = "0"

\* The library's report runs only while the command waits for it, within its limit.
LimitInv ==
  /\ reporter = "reading" => agPc = "wait" /\ current = "library" /\ clock # "over"
  /\ current = "library" /\ agPc = "run" => reporter = "none"
  /\ section["library"] = "none" /\ current # "library" => reporter = "none"
  /\ current = "library" /\ agPc \in {"wait", "reap"} => reporter # "none"

\* A reporter that is waited for after its time has exited, or dies with the kernel's leave.
ReapInv ==
  /\ agPc = "reap" =>
       /\ current = "controllers" => conPc = "exited"
       /\ current = "library" => reporter = "exited"
       /\ current = "backups" => other \in {"doomed", "exited"}
  /\ agPc = "wait" /\ current = "backups" => other # "none"

StatusInv ==
  /\ TurnInv /\ WorstInv /\ OkInv /\ LimitInv
  /\ OrderInv /\ CodeInv /\ FreshInv /\ ExaminedInv

-----------------------------------------------------------------------------
(* Properties.                                                             *)

\* The library's section is healthy only if its worker went through the whole scan and every
\* folder it discovered was listed, counted and received: no partial scan passes for a whole
\* one, whether the deadline, a signal or an error cut it short.
HealthyIsComplete ==
  section["library"] = "ok" =>
    /\ scan = "end"
    /\ uncounted = {}
    /\ {"record", "pending", "folders"} \cup found \subseteq got

\* The library's report is cut off at the limit only where its worker is stuck in the kernel,
\* or where the report was killed: one that is only slow is ended by its own deadline.
CutOffOnlyStuck ==
  [][agPc = "wait" /\ agPc' = "reap" /\ current = "library" /\ libCode # "killed" =>
       worker = "doomed"]_vars

\* The library's report, which has answered within its own limit, is not cut off.
StallIsAnswered == agPc = "reap" /\ current = "library" => libCode = "killed"

\* The exit status is the worst of the sections, each reporter has one, and a section names
\* what its reporter exited with: none hides another's finding.
WorstIsTold ==
  agPc = "done" /\ current = "none" /\ section["library"] # "none" =>
    /\ \A r \in Reporters : section[r] \in Sections /\ ExitOf(section[r]) <= exit
    /\ \E r \in Reporters : ExitOf(section[r]) = exit
    /\ \A r \in Reporters : section[r] = "ok" => Code(r) = "0"

\* A joystick in an unaccepted mode that is connected throughout the controllers' report makes
\* its section unhealthy, whatever is plugged in and out beside it.
PadWarned ==
  [][\A e \in Joysticks \cap steady :
       conCode # "0" /\ conCode' = "0" =>
         [vendor |-> bus[e].vendor, product |-> bus[e].product] \in Accepted]_vars

\* Nothing the command waits for can hold it up for good: wherever it, its clock, the library
\* report's deadline or the kernel has a step to take, that step can be taken.
NeverStuck ==
  /\ CommandReady => ENABLED <<Aggregator>>_vars
  /\ ClockReady => ENABLED <<Tick>>_vars
  /\ DeadlineReady => ENABLED <<LibraryEnds>>_vars
  /\ KernelReady => ENABLED <<OtherFreed>>_vars

\* The command always ends, however long a report, a worker or a read takes.  A reporter that is
\* killed in the middle of a read is waited for: this rests on the kernel letting it go in the end.
Answers == <>(agPc = "done")
=============================================================================
