-------------------------------- MODULE Kiosk --------------------------------
(***************************************************************************)
(* The TV's session: emubox-session in src/modules/kiosk/default.nix, the  *)
(* mode flag and emubox-mode in src/modules/recovery/default.nix, and the  *)
(* Tools entry in src/modules/library/default.nix.                         *)
(*                                                                         *)
(*   - the display manager logs player in once, stops a session by         *)
(*     signalling it, and shows its greeter after a session that ended     *)
(*     cleanly; after exit status 1 it shows nothing at all; restarted     *)
(*     while it is still logging player in, it may loop until a reboot;    *)
(*   - the session runs the desktop once if the flag selects it, otherwise *)
(*     the frontend in a loop that gives up after three short runs;        *)
(*   - a Tools entry, started by the frontend, asks for a restart that is  *)
(*     not to count as a crash: it touches a mark, then signals;           *)
(*   - an administrator's emubox-mode writes the flag and restarts the     *)
(*     display manager.                                                    *)
(*                                                                         *)
(* Clocks are two flags: a run becomes long, a mark lapses.  The library's *)
(* step before each launch is module Library, here one step.               *)
(***************************************************************************)
EXTENDS Naturals, FiniteSets

CONSTANTS
  Tools,        \* Tools entries that may run, also beside each other
  MaxSwitches,  \* bound: runs of emubox-mode
  MaxSignals    \* bound: TERMs and HUPs that one stop of a session delivers

ASSUME KioskAssumption ==
  /\ MaxSwitches \in Nat
  /\ MaxSignals \in Nat \ {0}

CrashLimit == 3

Modes    == {"kiosk", "desktop"}
Statuses == {"0", "1", "143"}            \* success, the display manager's auth error, a signal

VARIABLES
  \* The display manager.
  dm,          \* what it is doing
  signals,     \* signals delivered by the stop it is at
  \* The session's script.
  sesPc,       \* the command it is at; "none" without a session
  crashes,     \* short runs in a row
  requested,   \* the exit just examined was asked for
  status,      \* what the script exits with
  \* Its desktop block.
  termPending, \* desktop_term_pending
  interrupted, \* desktop_wait_interrupted
  rc,          \* desktop_rc
  \* Other processes.
  desktop,     \* Plasma
  told,        \* a signal to end has reached it
  desktopStatus, \* what it exited with
  fe,          \* the frontend this session launched last
  long,        \* its run has passed the crash window
  lingering,   \* a frontend that outlived its session
  toolPc,      \* the command each Tools entry is at
  waiting,     \* entries whose frontend waits for them
  target,      \* the process each entry's pid names
  \* Files in RAM.
  mark,        \* the restart mark, and whether it has lapsed
  flag,        \* the mode flag
  \* emubox-mode.
  adminPc,     \* its command
  adminMode,   \* the mode asked for
  settled,     \* no session was starting when it wrote the flag
  switches,    \* runs so far
  \* History, read by no action's guard.
  open,        \* entries that touched the mark since it was last removed or lapsed
  owed,        \* the frontend was told to end and the mark that excuses it still stands
  selected,    \* a desktop was selected since a session last took the desktop's way
  due          \* the mode the next session must run in, where the code promises one

display     == <<dm, signals>>
blockVars   == <<termPending, interrupted, rc>>
scriptVars  == <<crashes, requested, status, blockVars>>
desktopVars == <<desktop, told, desktopStatus>>
feVars      == <<fe, long, lingering>>
toolVars    == <<toolPc, waiting, target>>
processes   == <<desktopVars, feVars, toolVars>>
files       == <<mark, flag>>
adminVars   == <<adminPc, adminMode, settled, switches>>
history     == <<open, owed, selected, due>>
vars == <<display, sesPc, scriptVars, processes, files, adminVars, history>>

-----------------------------------------------------------------------------
(* The session's script: the decision and the desktop block.               *)

Goes(from, to) ==
  /\ sesPc = from
  /\ sesPc' = to

\* A step that does nothing besides.
Passes(from, to) ==
  /\ Goes(from, to)
  /\ UNCHANGED <<display, scriptVars, processes, files, adminVars, history>>

\* Mutant of Armed: the trap is set once the pid is known.
MutArmed == {"pending", "resetWait", "wait", "check", "untrap"}

\* The trap that forwards TERM and HUP stands.
Armed == {"launch", "pid", "pending", "resetWait", "wait", "check", "untrap"}

\* The mode is read once; anything but "desktop", an absent flag included, is the frontend.
ReadMode ==
  /\ sesPc = "start"
  /\ sesPc' = IF flag = "desktop" THEN "clear" ELSE "prune"
  /\ due' = "none"
  /\ UNCHANGED <<display, scriptVars, processes, files, adminVars, open, owed, selected>>

\* The flag is cleared before the desktop starts.
ClearMode ==
  /\ Goes("clear", "arm")
  /\ flag' = "absent"
  /\ selected' = FALSE
  /\ UNCHANGED <<display, scriptVars, processes, mark, adminVars, open, owed, due>>

\* Mutant of ClearRefused: the desktop is started although the flag could not be cleared.
MutClearRefused ==
  /\ Goes("clear", "arm")
  /\ selected' = FALSE
  /\ UNCHANGED <<display, scriptVars, processes, files, adminVars, open, owed, due>>

\* sudo refuses, or the removal fails: the frontend instead.
ClearRefused == Passes("clear", "prune")

ArmTrap == Passes("arm", "launch")

LaunchDesktop ==
  /\ Goes("launch", "pid")
  /\ desktop' = "running"
  /\ UNCHANGED <<display, scriptVars, told, desktopStatus, feVars, toolVars, files, adminVars,
                 history>>

RecordPid == Passes("pid", "pending")

\* kill -TERM of a desktop that runs; one that is gone is beyond it.
TellDesktop == told' = (told \/ desktop = "running")

\* Mutant of ForwardPending: a signal from before the pid was recorded is not passed on.
MutForwardPending == Passes("pending", "resetWait")

\* A signal that came before the pid was known is passed on now.
ForwardPending ==
  /\ Goes("pending", "resetWait")
  /\ IF termPending THEN TellDesktop ELSE UNCHANGED told
  /\ UNCHANGED <<display, scriptVars, desktop, desktopStatus, feVars, toolVars, files,
                 adminVars, history>>

ResetWait ==
  /\ Goes("resetWait", "wait")
  /\ interrupted' = FALSE
  /\ UNCHANGED <<display, crashes, requested, status, termPending, rc, processes, files,
                 adminVars, history>>

\* wait returns the desktop's status, which bash keeps for a second wait.
WaitReturns ==
  /\ desktop = "gone"
  /\ Goes("wait", "check")
  /\ rc' = desktopStatus
  /\ UNCHANGED <<display, crashes, requested, status, termPending, interrupted, processes,
                 files, adminVars, history>>

\* An interrupted wait is repeated.
CheckWait ==
  /\ sesPc = "check"
  /\ sesPc' = IF interrupted THEN "resetWait" ELSE "untrap"
  /\ UNCHANGED <<display, scriptVars, processes, files, adminVars, history>>

\* The trap is reset, the status logged, and the script exits with it.
Untrap ==
  /\ Goes("untrap", "exit")
  /\ status' = rc
  /\ UNCHANGED <<display, crashes, requested, blockVars, processes, files, adminVars, history>>

DesktopBlock ==
  \/ ReadMode \/ ClearMode \/ ClearRefused \/ ArmTrap \/ LaunchDesktop \/ RecordPid
  \/ ForwardPending \/ ResetWait \/ WaitReturns \/ CheckWait \/ Untrap

-----------------------------------------------------------------------------
(* The session's script: the frontend's loop.                              *)

\* Mutant of Prune: the mode flag is cleared whatever the session runs.
MutPrune ==
  /\ Goes("prune", "prepare")
  /\ mark' = "none"
  /\ flag' = "absent"
  /\ open' = {}
  /\ UNCHANGED <<display, scriptVars, processes, adminVars, owed, selected, due>>

\* A mark from before this session is removed.
Prune ==
  /\ Goes("prune", "prepare")
  /\ mark' = "none"
  /\ open' = {}
  /\ UNCHANGED <<display, scriptVars, processes, flag, adminVars, owed, selected, due>>

\* emubox-prepare: a broken call site ends the session, everything else it absorbs.
Prepare ==
  /\ \/ Goes("prepare", "step") /\ UNCHANGED status
     \/ Goes("prepare", "exit") /\ status' = "1"
  /\ UNCHANGED <<display, crashes, requested, blockVars, processes, files, adminVars, history>>

\* The library's step before the frontend, which is bounded in time and never fails.
PreFrontendStep == Passes("step", "cage")

\* cage comes up with the frontend, or fails at once.
LaunchFrontend ==
  /\ Goes("cage", "run")
  /\ fe' \in {"running", "exited"}
  /\ long' = FALSE
  /\ owed' = FALSE
  /\ UNCHANGED <<display, scriptVars, desktopVars, lingering, toolVars, files, adminVars, open,
                 selected, due>>

\* What the end of the frontend means for the entries: those it waited for have lost their
\* parent, and a pid that named it now names nothing, or a frontend without a session.
Bereft(left) ==
  /\ waiting' = {}
  /\ target' = [t \in Tools |-> IF target[t] = "current" THEN left ELSE target[t]]

\* Mutant of CageReturns: cage stays for the terminal of an entry that is open in it.
MutCageReturns ==
  /\ fe = "exited"
  /\ waiting = {}
  /\ Goes("run", "test")
  /\ Bereft("gone")
  /\ UNCHANGED <<display, scriptVars, desktopVars, feVars, toolPc, files, adminVars, history>>

\* The frontend has exited, and cage after it.
CageReturns ==
  /\ fe = "exited"
  /\ Goes("run", "test")
  /\ Bereft("gone")
  /\ UNCHANGED <<display, scriptVars, desktopVars, feVars, toolPc, files, adminVars, history>>

TestMark ==
  /\ sesPc = "test"
  /\ sesPc' = IF mark = "none" THEN "count" ELSE "stat"
  /\ requested' = FALSE
  /\ open' = IF mark = "none" THEN {} ELSE open
  /\ UNCHANGED <<display, crashes, status, blockVars, processes, files, adminVars, owed,
                 selected, due>>

\* A mark withdrawn since the test reads as one from 1970.
StatMark ==
  /\ Goes("stat", "remove")
  /\ requested' = (mark = "fresh")
  /\ UNCHANGED <<display, crashes, status, blockVars, processes, files, adminVars, history>>

\* Mutant of RemoveMark: the mark is left to lapse by itself.
MutRemoveMark ==
  /\ Goes("remove", "count")
  /\ open' = {}
  /\ UNCHANGED <<display, scriptVars, processes, files, adminVars, owed, selected, due>>

RemoveMark ==
  /\ Goes("remove", "count")
  /\ mark' = "none"
  /\ open' = {}
  /\ UNCHANGED <<display, scriptVars, processes, flag, adminVars, owed, selected, due>>

Counted == IF requested \/ long THEN 0 ELSE crashes + 1

GivesUp == Counted >= CrashLimit

\* Mutant of Count: the counter starts again once it has reached its limit.
MutCount ==
  /\ Goes("count", "sleep")
  /\ crashes' = IF GivesUp THEN 0 ELSE Counted
  /\ fe' = "none"
  /\ long' = FALSE
  /\ UNCHANGED <<display, requested, status, blockVars, desktopVars, lingering, toolVars, files,
                 adminVars, history>>

\* A requested or a long run resets the counter; the third short run in a row is the last.
Count ==
  /\ sesPc = "count"
  /\ crashes' = Counted
  /\ IF GivesUp
     THEN sesPc' = "exit" /\ status' = "0"
     ELSE sesPc' = "sleep" /\ UNCHANGED status
  /\ fe' = "none"
  /\ long' = FALSE
  /\ UNCHANGED <<display, requested, blockVars, desktopVars, lingering, toolVars, files,
                 adminVars, history>>

Sleep == Passes("sleep", "prepare")

FrontendLoop ==
  \/ Prune \/ Prepare \/ PreFrontendStep \/ LaunchFrontend \/ CageReturns
  \/ TestMark \/ StatMark \/ RemoveMark \/ Count \/ Sleep

-----------------------------------------------------------------------------
(* The session and the display manager.                                    *)

\* Mutant of Reported: the exit status is passed on.
MutReported(s) == s

\* What report_clean_exit, the EXIT trap, makes of the script's status.
Reported(s) == "0"

\* The session is over: what is left of its frontend lingers.
Over ==
  /\ sesPc' = "none" /\ crashes' = 0 /\ requested' = FALSE
  /\ termPending' = FALSE /\ interrupted' = FALSE /\ rc' = "0"
  /\ fe' = "none" /\ long' = FALSE
  /\ lingering' = (lingering \/ fe = "running")
  /\ Bereft(IF fe = "running" THEN "old" ELSE "gone")
  /\ owed' = FALSE
  /\ UNCHANGED toolPc

\* Nothing is left of a desktop that has ended.
ForgetDesktop ==
  IF desktop = "gone"
  THEN desktop' = "none" /\ told' = FALSE /\ desktopStatus' = "0"
  ELSE UNCHANGED desktopVars

\* External: the display manager shows its greeter after a session, except after status 1,
\* which it takes for a failed authentication; a stop under way goes on.
Exit ==
  /\ sesPc = "exit"
  /\ Over
  /\ dm' = IF dm = "stopping" THEN dm ELSE IF Reported(status) = "1" THEN "black" ELSE "greeter"
  /\ status' = "0"
  /\ ForgetDesktop
  /\ UNCHANGED <<signals, files, adminVars, open, selected, due>>

\* TERM or HUP from a stop of the display manager.  Under the trap it is passed to a desktop
\* whose pid is known; anywhere else it ends the script.
Signal ==
  /\ dm = "stopping"
  /\ sesPc # "none"
  /\ signals < MaxSignals
  /\ signals' = signals + 1
  /\ IF sesPc \in Armed
     THEN /\ interrupted' = TRUE
          /\ termPending' = TRUE
          /\ IF sesPc \in {"launch", "pid"} THEN UNCHANGED told ELSE TellDesktop
          /\ sesPc' = IF sesPc = "wait" THEN "check" ELSE sesPc
          /\ rc' = IF sesPc = "wait" THEN "143" ELSE rc
          /\ UNCHANGED <<crashes, requested, desktop, desktopStatus, feVars, toolVars, owed>>
     ELSE Over /\ ForgetDesktop
  /\ UNCHANGED <<dm, status, files, adminVars, open, selected, due>>

\* External: the one automatic login of this display manager.
Login ==
  /\ dm = "login"
  /\ dm' = "session"
  /\ sesPc' = "start"
  /\ UNCHANGED <<signals, scriptVars, processes, files, adminVars, history>>

\* External: the old session is gone, and the display manager starts again.
Restarted ==
  /\ dm = "stopping"
  /\ sesPc = "none"
  /\ dm' = "login"
  /\ signals' = 0
  /\ UNCHANGED <<sesPc, scriptVars, processes, files, adminVars, history>>

-----------------------------------------------------------------------------
(* The frontend, the desktop and the Tools entries.                        *)

\* External: the run passes the crash window.
RunLong ==
  /\ fe = "running"
  /\ ~long
  /\ long' = TRUE
  /\ UNCHANGED <<display, sesPc, scriptVars, desktopVars, fe, lingering, toolVars, files,
                 adminVars, history>>

\* External: the frontend exits, told to or not.
FrontendExits ==
  /\ fe = "running"
  /\ fe' = "exited"
  /\ UNCHANGED <<display, sesPc, scriptVars, desktopVars, long, lingering, toolVars, files,
                 adminVars, history>>

LingeringEnds ==
  /\ lingering
  /\ lingering' = FALSE
  /\ target' = [t \in Tools |-> IF target[t] = "old" THEN "gone" ELSE target[t]]
  /\ UNCHANGED <<display, sesPc, scriptVars, desktopVars, fe, long, toolPc, waiting, files,
                 adminVars, history>>

\* External: Plasma ends with any status, told to or not.
DesktopExits ==
  /\ desktop = "running"
  /\ desktop' = "gone"
  /\ desktopStatus' \in Statuses
  /\ UNCHANGED <<display, sesPc, scriptVars, told, feVars, toolVars, files, adminVars, history>>

ToolGoes(t, from, to) ==
  /\ toolPc[t] = from
  /\ toolPc' = [toolPc EXCEPT ![t] = to]

ToolExits(t) ==
  /\ toolPc'  = [toolPc EXCEPT ![t] = "none"]
  /\ target'  = [target EXCEPT ![t] = "none"]
  /\ waiting' = waiting \ {t}

\* External: the frontend runs one entry at a time and waits for it.
ToolsStart(t) ==
  /\ fe = "running"
  /\ waiting = {}
  /\ ToolGoes(t, "none", "scrape")
  /\ waiting' = {t}
  /\ UNCHANGED <<display, sesPc, scriptVars, desktopVars, feVars, target, files, adminVars,
                 history>>

\* The scrape is over, or its terminal lost its compositor; exactly one frontend is found.
ToolsFind(t) ==
  /\ (fe = "running") # lingering
  /\ ToolGoes(t, "scrape", "touch")
  /\ target' = [target EXCEPT ![t] = IF lingering THEN "old" ELSE "current"]
  /\ UNCHANGED <<display, sesPc, scriptVars, desktopVars, feVars, waiting, files, adminVars,
                 history>>

\* Mutant of ToolsTouch: a mark that is already there is not dated again.
MutToolsTouch(t) ==
  /\ ToolGoes(t, "touch", "kill")
  /\ mark' = IF mark = "none" THEN "fresh" ELSE mark
  /\ open' = open \cup {t}
  /\ UNCHANGED <<display, sesPc, scriptVars, desktopVars, feVars, waiting, target, flag,
                 adminVars, owed, selected, due>>

ToolsTouch(t) ==
  /\ ToolGoes(t, "touch", "kill")
  /\ mark' = "fresh"
  /\ open' = open \cup {t}
  /\ UNCHANGED <<display, sesPc, scriptVars, desktopVars, feVars, waiting, target, flag,
                 adminVars, owed, selected, due>>

\* The signal is delivered; a frontend that has exited may still be there to take it.
ToolsKill(t) ==
  /\ toolPc[t] = "kill"
  /\ target[t] \in {"current", "old"}
  /\ ToolExits(t)
  /\ owed' = (owed \/ (target[t] = "current" /\ fe = "running" /\ t \in open))
  /\ UNCHANGED <<display, sesPc, scriptVars, desktopVars, feVars, files, adminVars, open,
                 selected, due>>

\* The signal is not delivered: the mark is withdrawn.
ToolsKillFails(t) ==
  /\ target[t] = "gone" \/ (target[t] = "current" /\ fe = "exited")
  /\ ToolGoes(t, "kill", "withdraw")
  /\ UNCHANGED <<display, sesPc, scriptVars, desktopVars, feVars, waiting, target, files,
                 adminVars, history>>

ToolsWithdraw(t) ==
  /\ toolPc[t] = "withdraw"
  /\ ToolExits(t)
  /\ mark' = "none"
  /\ open' = {}
  /\ owed' = FALSE
  /\ UNCHANGED <<display, sesPc, scriptVars, desktopVars, feVars, flag, adminVars, selected, due>>

\* None or several frontends are found, or the entry is killed at any point.
ToolsEnds(t) ==
  /\ toolPc[t] # "none"
  /\ ToolExits(t)
  /\ UNCHANGED <<display, sesPc, scriptVars, desktopVars, feVars, files, adminVars, history>>

\* External: fifteen seconds pass since the mark was touched last.
Lapse ==
  /\ mark = "fresh"
  /\ mark' = "lapsed"
  /\ open' = {}
  /\ owed' = FALSE
  /\ UNCHANGED <<display, sesPc, scriptVars, processes, flag, adminVars, selected, due>>

ToolsEntry(t) ==
  \/ ToolsStart(t) \/ ToolsFind(t) \/ ToolsTouch(t) \/ ToolsKill(t)
  \/ ToolsKillFails(t) \/ ToolsWithdraw(t) \/ ToolsEnds(t)

-----------------------------------------------------------------------------
(* emubox-mode, and a reboot.                                              *)

\* No session is about to read or to clear the flag.
Settled == dm \in {"session", "greeter", "black"} /\ sesPc \notin {"start", "clear"}

AdminEnds == adminPc' = "none" /\ adminMode' = "kiosk" /\ settled' = FALSE

\* The checks pass and the new flag is moved into place.
SwitchWrite(m) ==
  /\ adminPc = "none"
  /\ switches < MaxSwitches
  /\ switches' = switches + 1
  /\ flag' = m
  /\ adminPc' = "restart"
  /\ adminMode' = m
  /\ settled' = Settled
  /\ selected' = (selected \/ m = "desktop")
  /\ due' = "none"
  /\ UNCHANGED <<display, sesPc, scriptVars, processes, mark, open, owed>>

\* systemd accepts the restart, and merges it with one that is under way.  External: a display
\* manager that is restarted while it is logging player in may be left looping, with neither
\* session nor greeter, and then only a reboot helps.
SwitchRestart ==
  /\ adminPc = "restart"
  /\ AdminEnds
  /\ \/ dm # "looping" /\ dm' = "stopping"
     \/ dm \in {"login", "looping"} /\ dm' = "looping"
  /\ signals' = IF dm = "stopping" THEN signals ELSE 0
  /\ due' = IF settled THEN adminMode ELSE "none"
  /\ UNCHANGED <<sesPc, scriptVars, processes, files, switches, open, owed, selected>>

\* The restart is refused, or emubox-mode is killed before it: the flag stays recorded.
SwitchRefused ==
  /\ adminPc = "restart"
  /\ AdminEnds
  /\ UNCHANGED <<display, sesPc, scriptVars, processes, files, switches, history>>

\* Nothing runs any more; the flag and the mark, which are in RAM, are gone.
Reboot ==
  /\ dm' = "login" /\ signals' = 0
  /\ sesPc' = "none" /\ crashes' = 0 /\ requested' = FALSE /\ status' = "0"
  /\ termPending' = FALSE /\ interrupted' = FALSE /\ rc' = "0"
  /\ desktop' = "none" /\ told' = FALSE /\ desktopStatus' = "0"
  /\ fe' = "none" /\ long' = FALSE /\ lingering' = FALSE
  /\ toolPc' = [t \in Tools |-> "none"] /\ waiting' = {} /\ target' = [t \in Tools |-> "none"]
  /\ mark' = "none" /\ flag' = "absent"
  /\ AdminEnds /\ UNCHANGED switches
  /\ open' = {} /\ owed' = FALSE /\ selected' = FALSE /\ due' = "none"

-----------------------------------------------------------------------------
(* The specification.                                                      *)

Init ==
  /\ dm = "login" /\ signals = 0
  /\ sesPc = "none" /\ crashes = 0 /\ requested = FALSE /\ status = "0"
  /\ termPending = FALSE /\ interrupted = FALSE /\ rc = "0"
  /\ desktop = "none" /\ told = FALSE /\ desktopStatus = "0"
  /\ fe = "none" /\ long = FALSE /\ lingering = FALSE
  /\ toolPc = [t \in Tools |-> "none"] /\ waiting = {} /\ target = [t \in Tools |-> "none"]
  /\ mark = "none" /\ flag = "absent"
  /\ adminPc = "none" /\ adminMode = "kiosk" /\ settled = FALSE /\ switches = 0
  /\ open = {} /\ owed = FALSE /\ selected = FALSE /\ due = "none"

SessionStep == DesktopBlock \/ FrontendLoop \/ Exit

DisplayManager == Signal \/ Login \/ Restarted

Next ==
  \/ SessionStep
  \/ DisplayManager
  \/ RunLong \/ FrontendExits \/ LingeringEnds \/ DesktopExits
  \/ \E t \in Tools : ToolsEntry(t)
  \/ Lapse
  \/ \E m \in Modes : SwitchWrite(m)
  \/ SwitchRestart \/ SwitchRefused
  \/ Reboot

Spec == Init /\ [][Next]_vars

\* A desktop that was told to end does.
DesktopObeys == told /\ DesktopExits

\* The script's commands return, the display manager goes on, a told desktop ends.  Nothing
\* is assumed of the frontend, of a desktop nobody told, or of the Tools entries.
Fairness == WF_vars(SessionStep) /\ WF_vars(DisplayManager) /\ WF_vars(DesktopObeys)

FairSpec == Spec /\ Fairness

-----------------------------------------------------------------------------
(* Properties.                                                             *)

SesPcs == Armed \cup {"none", "start", "clear", "arm", "prune", "prepare", "step", "cage",
                      "run", "test", "stat", "remove", "count", "sleep", "exit"}

DisplayTypeOK ==
  /\ dm \in {"login", "session", "greeter", "black", "stopping", "looping"}
  /\ signals \in 0..MaxSignals
  /\ sesPc \in SesPcs
  /\ crashes \in 0..CrashLimit
  /\ status \in Statuses
  /\ rc \in Statuses

ProcessTypeOK ==
  /\ desktop \in {"none", "running", "gone"}
  /\ desktopStatus \in Statuses
  /\ fe \in {"none", "running", "exited"}
  /\ toolPc \in [Tools -> {"none", "scrape", "touch", "kill", "withdraw"}]
  /\ waiting \subseteq Tools
  /\ target \in [Tools -> {"none", "current", "old", "gone"}]

RequestTypeOK ==
  /\ mark \in {"none", "fresh", "lapsed"}
  /\ flag \in Modes \cup {"absent"}
  /\ adminPc \in {"none", "restart"}
  /\ adminMode \in Modes
  /\ switches \in 0..MaxSwitches
  /\ open \subseteq Tools
  /\ due \in Modes \cup {"none"}

BooleanTypeOK ==
  /\ requested \in BOOLEAN
  /\ termPending \in BOOLEAN
  /\ interrupted \in BOOLEAN
  /\ told \in BOOLEAN
  /\ long \in BOOLEAN
  /\ lingering \in BOOLEAN
  /\ settled \in BOOLEAN
  /\ owed \in BOOLEAN
  /\ selected \in BOOLEAN

\* The variables stay within their intended ranges.
TypeOK == DisplayTypeOK /\ ProcessTypeOK /\ RequestTypeOK /\ BooleanTypeOK

\* An exit is excused only by a request of its own: one whose mark was touched since the last
\* exit was examined, has not lapsed, and was not withdrawn by a signal that failed.
ExcusedByOwnRequest == [][~requested /\ requested' => open # {}]_vars

\* A frontend that an entry told to end is not counted as crashed, unless the mark lapsed
\* first or a second entry withdrew it with its own.
RequestIsHonoured == sesPc = "count" /\ owed => requested

\* A running desktop always has its session: no way out of the script leaves it behind.
SessionOutlivesDesktop == desktop = "running" => sesPc \in Armed

\* The status that is reported is the desktop's own, and never that of an interrupted wait.
RealStatus == sesPc = "untrap" => desktop = "gone" /\ rc = desktopStatus

\* One selection of the desktop takes one session there: the next needs one of its own.
OneShot == [][sesPc = "clear" /\ sesPc' = "arm" => selected]_vars

\* A switch made while no session was starting, and accepted, decides the next session's mode.
SwitchDecides ==
  [][sesPc = "start" /\ sesPc' \in {"clear", "prune"} =>
       /\ due = "desktop" => sesPc' = "clear"
       /\ due = "kiosk" => sesPc' = "prune"]_vars

\* When the restart is accepted, the mode selected is the one emubox-mode was asked for.  A
\* session that is just starting breaks this: its one-shot removal takes the new flag.
AcceptedIsSelected == [][SwitchRestart => (adminMode = "desktop" <=> flag = "desktop")]_vars

\* Short of that, it holds: for a flag written while no session was starting, and always for
\* the kiosk, which nothing turns into a desktop.
AcceptedOnceSettled ==
  [][SwitchRestart =>
       /\ settled => (adminMode = "desktop" <=> flag = "desktop")
       /\ flag = "desktop" => adminMode = "desktop"]_vars

\* The TV always comes back to the frontend, the desktop or the greeter, unless the box is
\* rebooted again and again, or never again after a switch that met a login under way and left
\* the display manager looping: the one case the operator's guide excludes, until a reboot.
Shown   == fe = "running" \/ desktop = "running" \/ dm = "greeter"
Looping == dm = "looping"

ScreenComesBack == []<>Shown \/ []<><<Reboot>>_vars \/ <>[]Looping

\* A session whose runs are all short and that nobody asks to restart its frontend does not
\* relaunch it for ever: it ends, or a frontend stays up.
Unaided == dm = "session" /\ desktop = "none" /\ ~long /\ mark = "none"

CrashLoopEnds == <>[]Unaided => <>[](fe = "running")

\* Where the script's command returns; where the display manager has a step to take; and where
\* the desktop was told to end.
SessionReady ==
  /\ sesPc # "none"
  /\ sesPc = "wait" => desktop = "gone"
  /\ sesPc = "run" => fe = "exited"

DisplayReady ==
  \/ dm = "login"
  \/ dm = "stopping" /\ (sesPc = "none" \/ signals < MaxSignals)

DesktopReady == told /\ desktop = "running"

\* Neither the script nor the display manager ever waits for something that is over: but for
\* a desktop or a frontend that runs, they can always take their next step.
NeverStuck ==
  /\ SessionReady => ENABLED <<SessionStep>>_vars
  /\ DisplayReady => ENABLED <<DisplayManager>>_vars
  /\ DesktopReady => ENABLED <<DesktopObeys>>_vars

\* A stop that a switch began ends in a session: no desktop is left that nobody told to end.
\* Only a further switch, one that meets the login after the stop, may leave the display
\* manager looping instead.
SwitchCompletes == dm = "stopping" ~> dm = "session" \/ Looping

-----------------------------------------------------------------------------
(* The inductive invariant, in the layers the proofs take it in.           *)

\* Only a display manager that has a session, or is stopping one, has a script running; the
\* script waits in cage while the frontend runs, and ends when it has counted to the limit.
SessionInv ==
  /\ dm \in {"login", "greeter", "black", "looping"} => sesPc = "none"
  /\ fe = "running" => sesPc = "run"
  /\ crashes = CrashLimit => sesPc = "exit"

\* Where the desktop runs, and what an uninterrupted wait has seen.
DesktopInv ==
  /\ desktop = "running" => sesPc \in Armed \ {"launch"}
  /\ sesPc = "untrap" \/ (sesPc = "check" /\ ~interrupted) =>
       desktop = "gone" /\ rc = desktopStatus

\* The mark is fresh exactly while a touch of it stands, and a request that is owed an excuse
\* has it in the mark until the script has taken note.
MarkInv ==
  /\ mark = "fresh" <=> open # {}
  /\ owed /\ sesPc \in {"run", "test", "stat"} => mark = "fresh"
  /\ owed /\ sesPc \in {"remove", "count"} => requested

\* The flag says what was selected, and what a switch promised.
FlagInv ==
  /\ flag = "desktop" \/ sesPc = "clear" => selected
  /\ due # "none" => sesPc # "clear" /\ (due = "desktop" <=> flag = "desktop")
  /\ adminPc = "restart" /\ settled =>
       Settled /\ (adminMode = "desktop" <=> flag = "desktop")

KioskInv == TypeOK /\ SessionInv /\ DesktopInv /\ MarkInv /\ FlagInv

\* What the script waits for is there; and once a stop has signalled, the script is past any
\* command that the signal would have ended, and its desktop knows or will be told.
WaitInv ==
  /\ dm = "session" => sesPc # "none"
  /\ dm # "black"
  /\ sesPc = "run" => fe # "none"
  /\ sesPc \in Armed \ {"launch"} => desktop # "none"
  /\ desktop = "gone" => sesPc \in (Armed \ {"launch"}) \cup {"exit"}
  /\ dm = "stopping" /\ signals > 0 =>
       /\ sesPc \in Armed \cup {"exit", "none"}
       /\ sesPc \in {"launch", "pid", "pending"} => termPending
       /\ sesPc \in {"resetWait", "wait", "check"} /\ desktop = "running" => told

-----------------------------------------------------------------------------
(* The refinement.                                                         *)

\* What is on the TV.
Picture ==
  IF desktop = "running" THEN "desktop"
  ELSE IF sesPc \in {"arm", "launch"} THEN "opening"
  ELSE IF fe = "running" THEN "frontend"
  ELSE IF dm = "greeter" THEN "greeter" ELSE "dark"

TV == INSTANCE Screen WITH picture <- Picture, selection <- selected

\* Session, display manager, entries, switches and a reboot together show on the TV only what
\* Screen allows: every desktop takes a selection of its own, the frontend and the desktop
\* are never up together, and neither follows the other without the TV going dark.
ScreenImplemented == TV!Spec
=============================================================================
